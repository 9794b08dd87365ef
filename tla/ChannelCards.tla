---------------------------- MODULE ChannelCards -----------------------------
(***************************************************************************)
(* Decisions made in a chat: the local workers of humanqueue/channels that *)
(* turn a pressed button of a card into a call of resolve_request, beside  *)
(* the other callers of Gateway.                                           *)
(*                                                                         *)
(* The Telegram worker polls for updates.  Telegram keeps an update until  *)
(* a poll with a higher offset confirms it, and the offset is only in the  *)
(* memory of the worker.  Slack pushes; its worker acknowledges first and  *)
(* resolves then, one thread for every press.  Both wait four seconds for  *)
(* the Gateway, which may need longer than that, because it answers after  *)
(* it has resumed the machine.                                             *)
(*                                                                         *)
(* A chat has one card for every request; the authorization of the chat,   *)
(* malformed presses and the texts are left out.                           *)
(***************************************************************************)
EXTENDS Gateway

CONSTANTS
  Press,      \* what users of the chats may press: resolve calls
  MaxPresses, \* bound: presses in the Telegram chat
  Channel     \* the chats, "telegram" and "slack"

ASSUME PressAssumption ==
  /\ Press \subseteq Call /\ (\A c \in Press : c.op = "resolve") /\ MaxPresses \in Nat
  /\ {"telegram", "slack"} \subseteq Channel

VARIABLES
  updates,   \* callback queries of the Telegram chat, in the order of update_id
  confirmed, \* updates up to this one Telegram has forgotten
  offset,    \* offset - 1 in the memory of the worker, 0 for None
  batch,     \* updates the worker was given and has not turned to
  posting,   \* the handler that serves the worker's POST, and the update; or Idle
  tried,     \* updates whose POST has ended, one way or the other
  pressing,  \* handlers that serve a POST of the Slack worker
  buttons,   \* buttons[ch]: requests whose card in that chat still has buttons
  served     \* served[ch]: handlers that were given a press made in that chat

telegramVars == <<updates, confirmed, offset, batch, posting, tried>>
cardVars == <<telegramVars, pressing, buttons, served>>
cvars == <<gvars, cardVars>>

Idle == [handler |-> "none", update |-> 0]

CInit ==
  /\ GInit
  /\ updates = <<>> /\ confirmed = 0 /\ offset = 0 /\ batch = <<>>
  /\ posting = Idle /\ tried = {} /\ pressing = {}
  /\ buttons = [ch \in Channel |-> Id]
  /\ served = [ch \in Channel |-> {}]

-----------------------------------------------------------------------------
(* Telegram.                                                               *)

\* A user presses a button.
PressTelegram(c) ==
  /\ Len(updates) < MaxPresses
  /\ status[c.id] # "absent" /\ c.id \in buttons["telegram"]
  /\ updates' = Append(updates, c)
  /\ UNCHANGED <<gvars, confirmed, offset, batch, posting, tried, pressing, buttons, served>>

Later(a, b) == IF a > b THEN a ELSE b

\* Mutation: a poll confirms what it returns.
ConfirmsAll(n) == Len(updates)

\* getUpdates confirms what lies below the offset.
Confirms(n) == Later(confirmed, n)

\* One getUpdates of run_long_poll returns the updates that are left, or none
\* when its 30 seconds are over.
Poll ==
  /\ posting = Idle /\ batch = <<>>
  /\ confirmed' = Confirms(offset)
  /\ LET seen == Later(confirmed, offset)
     IN  batch' = [n \in 1..(Len(updates) - seen) |-> seen + n]
  /\ UNCHANGED <<gvars, updates, offset, posting, tried, pressing, buttons, served>>

\* The worker turns to an update: the offset moves on, then _resolve_local
\* posts, and the Gateway starts to serve it or is not there.
Handle(h) ==
  LET u == Head(batch)
  IN  /\ posting = Idle /\ batch # <<>>
      /\ offset' = Later(offset, u)
      /\ batch' = Tail(batch)
      /\ \/ /\ Check(h, updates[u])
            /\ posting' = [handler |-> h, update |-> u]
            /\ served' = [served EXCEPT !["telegram"] = @ \cup {h}]
            /\ UNCHANGED tried
         \/ tried' = tried \cup {u} /\ UNCHANGED <<gvars, posting, served>>
      /\ UNCHANGED <<updates, confirmed, pressing, buttons>>

\* Mutation: the buttons go whatever the Gateway said.
ClearedAlways(ch, h) == buttons' = [buttons EXCEPT ![ch] = @ \ {call[h].id}]

\* HTTP status 200, of a final answer or of a vote that waits for others,
\* takes the buttons from the card, unless the edit fails.
Cleared(ch, h) ==
  \/ reply[h] \in {"finalized", "waiting"} /\ buttons' = [buttons EXCEPT ![ch] = @ \ {call[h].id}]
  \/ UNCHANGED buttons

\* The Gateway has answered in time.
Hear ==
  LET h == posting.handler
  IN  /\ posting # Idle /\ stage[h] = "done"
      /\ Cleared("telegram", h)
      /\ tried' = tried \cup {posting.update}
      /\ posting' = Idle
      /\ UNCHANGED <<gvars, updates, confirmed, offset, batch, pressing, served>>

\* Four seconds have passed, or the Gateway died.
TimesOut ==
  /\ posting # Idle
  /\ tried' = tried \cup {posting.update}
  /\ posting' = Idle
  /\ UNCHANGED <<gvars, updates, confirmed, offset, batch, pressing, buttons, served>>

\* The worker stops, and a new one starts with nothing in its memory.
WorkerRestarts ==
  /\ offset # 0 \/ batch # <<>>
  /\ offset' = 0 /\ batch' = <<>> /\ posting' = Idle
  /\ UNCHANGED <<gvars, updates, confirmed, tried, pressing, buttons, served>>

-----------------------------------------------------------------------------
(* Slack.                                                                  *)

\* A press that was acknowledged reaches the Gateway.
PressSlack(h, c) ==
  /\ status[c.id] # "absent" /\ c.id \in buttons["slack"]
  /\ Check(h, c)
  /\ pressing' = pressing \cup {h}
  /\ served' = [served EXCEPT !["slack"] = @ \cup {h}]
  /\ UNCHANGED <<telegramVars, buttons>>

\* The thread hears the Gateway's answer.
HearSlack(h) ==
  /\ h \in pressing /\ stage[h] = "done"
  /\ Cleared("slack", h)
  /\ pressing' = pressing \ {h}
  /\ UNCHANGED <<gvars, telegramVars, served>>

\* The thread has waited long enough, or its worker died.
DropSlack(h) ==
  /\ h \in pressing
  /\ pressing' = pressing \ {h}
  /\ UNCHANGED <<gvars, telegramVars, buttons, served>>

-----------------------------------------------------------------------------
CNext ==
  \/ GNext /\ UNCHANGED cardVars
  \/ \E c \in Press : PressTelegram(c)
  \/ \E h \in Handler : Handle(h)
  \/ Poll \/ Hear \/ TimesOut \/ WorkerRestarts
  \/ \E h \in Handler, c \in Press : PressSlack(h, c)
  \/ \E h \in Handler : HearSlack(h) \/ DropSlack(h)

CSpec == CInit /\ [][CNext]_cvars

-----------------------------------------------------------------------------
(* Properties.                                                             *)

\* An update that Telegram has forgotten has been posted to the Gateway, to
\* its end, whenever the worker was restarted in between.
NoPressSkipped == 1..confirmed \subseteq tried

\* A card without buttons stands for an answer that counts: a press made in that
\* chat was given to the Gateway, which told its caller that it counts, and who
\* pressed has a vote on the request, also when the answer was late, the worker
\* was restarted or another call closed the request in between.
ButtonsGoneMeansVoted ==
  \A ch \in Channel : \A i \in Id \ buttons[ch] : \E h \in served[ch] :
    /\ call[h].id = i /\ reply[h] \in {"finalized", "waiting"}
    /\ \E v \in votes[i] : v.actor = call[h].actor
=============================================================================
