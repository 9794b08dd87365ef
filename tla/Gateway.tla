------------------------------ MODULE Gateway -------------------------------
(***************************************************************************)
(* The HTTP handlers of app/main.py over the request tables of             *)
(* RequestStore.  Handlers of one or several Gateway processes run side by *)
(* side: they read the row, then run one store transaction (or one for     *)
(* every item of a batch), look at the row the transaction returned,       *)
(* answer the caller, and resume the machine that asked.  Between any two  *)
(* of these steps other handlers may do theirs, or the process may die.    *)
(*                                                                         *)
(* A handler here serves one call (the bound of the module).  The resume   *)
(* is counted, what it does to a webhook is ResumeOutbox.  Authentication  *)
(* and the validation of request bodies are left out.                      *)
(***************************************************************************)
EXTENDS RequestStore

CONSTANTS
  Handler,   \* bound: the calls served in one behaviour
  Call,      \* what callers may ask for
  BatchAsk   \* payloads that choose_surface puts into the batch of the model

\* A call has every field; op tells which ones count.
CallType == [op : {"create", "claim", "resolve", "channel", "outcome", "batch"},
             ask : Ask \cup {NoAsk}, id : Id, actor : Actor,
             decision : Decision, kind : ActorKind,
             outcome : {"expired", "cancelled"}]

ASSUME CallAssumption ==
  /\ Call \subseteq CallType
  /\ \A c \in Call : c.op = "create" => c.ask \in Ask
  /\ BatchAsk \subseteq Ask
  /\ MaxRequests > 0

VARIABLES
  call,     \* call[h]: what h was asked for
  stage,    \* stage[h]: idle, checked, listed, resuming, done or dead
  reply,    \* reply[h]: the answer to the caller, once it is determined
  todo,     \* todo[h]: batch items h has read but not resolved yet
  resuming, \* resuming[h]: requests h will resume before it answers
  resumedBy \* resumedBy[i]: calls that entered _resume_and_record for i

handlerVars == <<call, stage, reply, todo, resuming>>
gvars == <<vars, handlerVars, resumedBy>>

NoCall == [op |-> "none"]

GInit ==
  /\ Init
  /\ call = [h \in Handler |-> NoCall]
  /\ stage = [h \in Handler |-> "idle"]
  /\ reply = [h \in Handler |-> "none"]
  /\ todo = [h \in Handler |-> {}]
  /\ resuming = [h \in Handler |-> {}]
  /\ resumedBy = [i \in Id |-> {}]

VoteOf(c) == [actor |-> c.actor, decision |-> c.decision, kind |-> c.kind]

\* h gives its answer; a handler that owes no resume is finished with it.
Answers(h, answer, owed) ==
  /\ reply' = [reply EXCEPT ![h] = answer]
  /\ resuming' = [resuming EXCEPT ![h] = owed]
  /\ stage' = [stage EXCEPT ![h] = IF owed = {} THEN "done" ELSE "resuming"]
  /\ todo' = [todo EXCEPT ![h] = {}]

-----------------------------------------------------------------------------
(* Creation and ownership: one transaction, then the answer.               *)

\* human_interrupt, create_request and import_request
CreateCall(h, c) ==
  /\ stage[h] = "idle" /\ c.op = "create"
  /\ \/ /\ Create(c.ask)
        /\ call' = [call EXCEPT ![h] = [c EXCEPT !.id = issued']]
        /\ Answers(h, "created", {})
     \/ /\ CreateRepeated(c.ask)
        /\ \E i \in Existing(c.ask) : call' = [call EXCEPT ![h] = [c EXCEPT !.id = i]]
        /\ Answers(h, "existing", {})
  /\ UNCHANGED resumedBy

\* Mutation: a claim that finds the request claimed is refused, its owner's too.
OwnerReplyOnce(i, b) == "rejected"

\* What claim_request makes of the row Store.claim returns unchanged.
OwnerReply(i, b) ==
  IF status[i] = "claimed" /\ claimedBy[i] = b THEN "owner" ELSE "rejected"

\* claim_request
ClaimCall(h, c) ==
  LET i == c.id
      b == c.actor
  IN  /\ stage[h] = "idle" /\ c.op = "claim"
      /\ call' = [call EXCEPT ![h] = c]
      /\ \/ Claim(i, b) /\ Answers(h, "owner", {})
         \/ /\ IsOpen(i) /\ ~Eligible(i, b)
            /\ Answers(h, "forbidden", {}) /\ UNCHANGED vars
         \/ /\ status[i] = "claimed" => Eligible(i, b)
            /\ status[i] # "absent"
            /\ Late(i)
            /\ Answers(h, OwnerReply(i, b), {})
         \/ /\ status[i] = "absent"
            /\ Answers(h, "missing", {}) /\ UNCHANGED vars
      /\ UNCHANGED resumedBy

-----------------------------------------------------------------------------
(* Answers and machine outcomes: a read, then a transaction.               *)

\* The fast path of resolve_request, channel_resolve and machine_outcome: one
\* read outside any transaction.
Check(h, c) ==
  /\ stage[h] = "idle" /\ c.op \in {"resolve", "channel", "outcome"}
  /\ call' = [call EXCEPT ![h] = c]
  /\ IF status[c.id] \in Active
     THEN /\ stage' = [stage EXCEPT ![h] = "checked"]
          /\ UNCHANGED <<reply, todo, resuming>>
     ELSE Answers(h, IF status[c.id] = "absent" THEN "missing" ELSE "rejected", {})
  /\ UNCHANGED <<vars, resumedBy>>

\* Mutation: the answer after a lost race is not looked at again.
LateReplyUnchecked(op) == "waiting"

\* The race lost in the transaction: resolve_request looks at the status it
\* got back, channel_resolve takes "not finalized" for "waiting for quorum".
LateReply(op) == IF op = "resolve" THEN "rejected" ELSE "waiting"

\* Mutation: a lost race is resumed like a won one.
OwesAlways(i, won) == {i}

\* Callers resume only if their own call finalized the request.
Owes(i, won) == IF won THEN {i} ELSE {}

\* Store.resolve and what resolve_request and channel_resolve make of it.
CommitAnswer(h) ==
  LET c == call[h]
      i == c.id
      v == VoteOf(c)
  IN  /\ stage[h] = "checked" /\ c.op \in {"resolve", "channel"}
      /\ \/ \E w \in Decision : Finalize(i, v, w) /\ Answers(h, "finalized", Owes(i, TRUE))
         \/ AwaitQuorum(i, v) /\ Answers(h, "waiting", {})
         \/ /\ IsOpen(i) /\ ~(Eligible(i, v.actor) /\ KindAllowed(i, v.kind))
            /\ Answers(h, "forbidden", {}) /\ UNCHANGED vars
         \/ /\ ~IsOpen(i)
            /\ Late(i)
            /\ Answers(h, LateReply(c.op), Owes(i, FALSE))
      /\ UNCHANGED <<call, resumedBy>>

\* Mutation: whatever closed the request is reported as the caller's outcome.
OutcomeReplyBlind(i, outcome) == "withdrawn"

\* machine_outcome compares the status it got back with what it asked for.
OutcomeReply(i, outcome) ==
  IF status[i] = outcome THEN "withdrawn" ELSE "rejected"

\* Store.apply_machine_outcome and what machine_outcome makes of it.
CommitOutcome(h) ==
  LET c == call[h]
      i == c.id
  IN  /\ stage[h] = "checked" /\ c.op = "outcome"
      /\ \/ MachineOutcome(i, c.outcome) /\ Answers(h, "withdrawn", {})
         \/ ~IsOpen(i) /\ Late(i) /\ Answers(h, OutcomeReply(i, c.outcome), {})
      /\ UNCHANGED <<call, resumedBy>>

-----------------------------------------------------------------------------
(* Batches: a list, then a transaction for every item of it.               *)

InBatch == {i \in Id : status[i] = "pending" /\ ask[i] \in BatchAsk}

\* Store.resolve_batch reads the batch and checks the actor for all of it.
ListBatch(h, c) ==
  /\ stage[h] = "idle" /\ c.op = "batch"
  /\ call' = [call EXCEPT ![h] = c]
  /\ IF \A i \in InBatch : Eligible(i, c.actor) /\ KindAllowed(i, c.kind)
     THEN /\ stage' = [stage EXCEPT ![h] = "listed"]
          /\ todo' = [todo EXCEPT ![h] = InBatch]
          /\ UNCHANGED <<reply, resuming>>
     ELSE Answers(h, "forbidden", {})
  /\ UNCHANGED <<vars, resumedBy>>

\* Mutation: the items that still wait are delivered, not the resolved ones.
DeliverableWaiting(s) == s = "claimed"

\* The items of a batch that resolve_batch in app/main.py delivers.
Deliverable(s) == s = "resolved"

\* Store.resolve for one item; its flag is dropped, and every item that is
\* resolved afterwards will be resumed.
CommitItem(h, i) ==
  LET v == VoteOf(call[h])
  IN  /\ stage[h] = "listed" /\ i \in todo[h]
      /\ \/ \E w \in Decision : Finalize(i, v, w)
         \/ AwaitQuorum(i, v)
         \/ ~IsOpen(i) /\ Late(i)
      /\ todo' = [todo EXCEPT ![h] = @ \ {i}]
      /\ resuming' = IF Deliverable(status'[i])
                     THEN [resuming EXCEPT ![h] = @ \cup {i}] ELSE resuming
      /\ UNCHANGED <<call, stage, reply, resumedBy>>

\* Every item is done: the handler turns to the deliveries.
EndBatch(h) ==
  /\ stage[h] = "listed" /\ todo[h] = {}
  /\ Answers(h, "batch", resuming[h])
  /\ UNCHANGED <<vars, call, resumedBy>>

-----------------------------------------------------------------------------
\* _resume_and_record: drains the outbox row of a webhook request, or records
\* that a native connector will see the resolution by itself.
ResumeAndRecord(h, i) ==
  /\ stage[h] = "resuming" /\ i \in resuming[h]
  /\ resumedBy' = [resumedBy EXCEPT ![i] = @ \cup {h}]
  /\ resuming' = [resuming EXCEPT ![h] = @ \ {i}]
  /\ stage' = [stage EXCEPT ![h] = IF resuming[h] = {i} THEN "done" ELSE "resuming"]
  /\ UNCHANGED <<vars, call, reply, todo>>

\* The process of h dies; the transactions it committed stay.
Crash(h) ==
  /\ stage[h] \in {"checked", "listed", "resuming"}
  /\ stage' = [stage EXCEPT ![h] = "dead"]
  /\ UNCHANGED <<vars, call, reply, todo, resuming, resumedBy>>

GNext ==
  \/ \E h \in Handler, c \in Call : CreateCall(h, c)
  \/ \E h \in Handler, c \in Call : ClaimCall(h, c)
  \/ \E h \in Handler, c \in Call : Check(h, c)
  \/ \E h \in Handler : CommitAnswer(h)
  \/ \E h \in Handler : CommitOutcome(h)
  \/ \E h \in Handler, c \in Call : ListBatch(h, c)
  \/ \E h \in Handler, i \in Id : CommitItem(h, i)
  \/ \E h \in Handler : EndBatch(h)
  \/ \E h \in Handler, i \in Id : ResumeAndRecord(h, i)
  \/ \E h \in Handler : Crash(h)

GSpec == GInit /\ [][GNext]_gvars

-----------------------------------------------------------------------------
(* Properties.                                                             *)

Told(h, answer, i) == reply[h] = answer /\ call[h].id = i

\* What callers are told fits together and fits the row, however claims, votes,
\* answers and outcomes interleave: one call at most hears that it finalized a
\* request, and then its actor is the recorded finalizer and no machine hears
\* that it withdrew the request; who hears of a withdrawal finds the outcome it
\* asked for; and who hears that it owns a request is its one recorded owner.
ToldFitsTheRow ==
  \A h, g \in Handler, i \in Id :
    /\ Told(h, "finalized", i) =>
         /\ status[i] = "resolved" /\ resolution[i].actor = call[h].actor
         /\ Told(g, "finalized", i) => g = h
         /\ ~Told(g, "withdrawn", i)
    /\ Told(h, "withdrawn", i) => status[i] = call[h].outcome
    /\ Told(h, "owner", i) => claimedBy[i] = call[h].actor

\* "rejected" is only heard of requests that are closed, or owned by somebody
\* else, or wait for a quorum without an owner.
RejectedIsTrue ==
  \A h \in Handler, i \in Id :
    Told(h, "rejected", i) =>
      IF call[h].op = "claim"
      THEN status[i] \in Active => claimedBy[i] # call[h].actor
      ELSE status[i] \in Terminal

\* app/store.py: callers use the flag of Store.resolve to decide whether to
\* resume the machine, so a request is resumed by one call at most.
ResumedByOneCall == \A i \in Id : Cardinality(resumedBy[i]) <= 1

Single(h) == call[h].op # "batch"

\* Among the calls that answer a single request only the one that finalized
\* it resumes it, so that lost races, repeated answers and channel callbacks
\* never resume a machine twice; and nothing that is not resolved is resumed.
ResumedByWinner ==
  \A i \in Id, h \in Handler :
    h \in resumedBy[i] \/ i \in resuming[h] =>
      /\ status[i] = "resolved"
      /\ Single(h) => Told(h, "finalized", i)

\* No resolution is forgotten: a resolved request has been resumed, or some
\* call (perhaps of a process that died since) was about to.
ResumeOwed ==
  \A i \in Id : status[i] = "resolved" =>
    resumedBy[i] # {} \/ \E h \in Handler : i \in resuming[h]

\* Who hears "waiting for quorum" from resolve_request has a vote that waits
\* or was counted.
WaitingMeansVoted ==
  \A h \in Handler, i \in Id :
    Told(h, "waiting", i) /\ call[h].op = "resolve" =>
      \E v \in votes[i] : v.actor = call[h].actor
=============================================================================
