----------------------------- MODULE ClientAsk ------------------------------
(***************************************************************************)
(* The blocking ask of the Python SDK (humanqueue/client.py, as the        *)
(* runtime hooks use it) over the tables of RequestStore: one create with  *)
(* retries under a stable idempotency key, then polling until the request  *)
(* is closed or the caller's patience ends.                                *)
(*                                                                         *)
(* The network loses and delays: an attempt may fail before, while or after*)
(* the Gateway commits it, with a transport error or a 5xx, and a POST whose*)
(* sender gave up may still arrive.  A poll is one step; one that is lost  *)
(* changes nothing, and a closed request reads the same later.  Refusals   *)
(* (4xx) are left out: they create nothing and raise at once.              *)
(***************************************************************************)
EXTENDS RequestStore

CONSTANTS
  Client,    \* calls of HumanQueue.ask(..., wait=True)
  Wants,     \* Wants[c]: the payload c is called with
  Fresh,     \* Fresh[c]: the key c generates if it is given none
  Attempts   \* POSTs an ask may use (3 in the code)

\* Mutation: the SDK sends the key it is given, if any.
KeyGiven(c) == Wants[c].idem

\* idempotency_key or f"humanq-client:{uuid4}", once for the whole ask.
KeyOf(c) == IF Wants[c].idem = NoKey THEN Fresh[c] ELSE Wants[c].idem

Payloads(c) == [Wants[c] EXCEPT !.idem = KeyOf(c)]

ASSUME ClientAssumption ==
  /\ Wants \in [Client -> Payload] /\ Fresh \in [Client -> Key]
  /\ \A c \in Client : Payloads(c) \in Ask
  /\ \A c, d \in Client : c # d => Fresh[c] # Fresh[d] /\ Fresh[c] # Wants[d].idem
  /\ Attempts \in Nat \ {0}

VARIABLES
  phase,    \* phase[c]: where the ask is
  attempt,  \* attempt[c]: POSTs sent
  post,     \* post[c]: the POST c waits for
  bound,    \* bound[c]: the id in the answer to c, 0 for none
  late,     \* late[c]: POSTs on their way that c does not wait for
  reached,  \* reached[c]: the requests POSTs of c have led to
  result    \* result[c]: what the ask returned

clientVars == <<phase, attempt, post, bound, late, reached, result>>
cvars == <<vars, clientVars>>

Concluded == {"answered", "closed", "raised", "timedout"}

CInit ==
  /\ Init
  /\ phase = [c \in Client |-> "idle"]
  /\ attempt = [c \in Client |-> 0]
  /\ post = [c \in Client |-> "none"]
  /\ bound = [c \in Client |-> 0]
  /\ late = [c \in Client |-> 0]
  /\ reached = [c \in Client |-> {}]
  /\ result = [c \in Client |-> NoResolution]

-----------------------------------------------------------------------------
(* Creating.                                                               *)

\* httpx.post, for the first time or after the pause.
Send(c) ==
  /\ phase[c] \in {"idle", "backoff"}
  /\ phase' = [phase EXCEPT ![c] = "posting"]
  /\ attempt' = [attempt EXCEPT ![c] = @ + 1]
  /\ post' = [post EXCEPT ![c] = "travelling"]
  /\ UNCHANGED <<vars, bound, late, reached, result>>

\* human_interrupt handles a POST of c and answers with request i.
Reach(c, i) ==
  /\ \/ Create(Payloads(c)) /\ i = issued'
     \/ CreateRepeated(Payloads(c)) /\ i \in Existing(Payloads(c))
  /\ reached' = [reached EXCEPT ![c] = @ \cup {i}]

\* The Gateway handles the POST c waits for.
Serve(c) ==
  /\ post[c] = "travelling"
  /\ \E i \in Id : Reach(c, i) /\ bound' = [bound EXCEPT ![c] = i]
  /\ post' = [post EXCEPT ![c] = "served"]
  /\ UNCHANGED <<phase, attempt, late, result>>

\* The answer arrives; wait() begins.
Receive(c) ==
  /\ post[c] = "served"
  /\ phase' = [phase EXCEPT ![c] = "waiting"]
  /\ post' = [post EXCEPT ![c] = "none"]
  /\ UNCHANGED <<vars, attempt, bound, late, reached, result>>

\* A transport error or a 5xx: another try after a pause, or the end.
AttemptFails(c) ==
  /\ phase[c] = "posting"
  /\ phase' = [phase EXCEPT ![c] = IF attempt[c] < Attempts THEN "backoff" ELSE "raised"]
  /\ post' = [post EXCEPT ![c] = "none"]
  /\ bound' = [bound EXCEPT ![c] = 0]
  /\ late' = IF post[c] = "travelling" THEN [late EXCEPT ![c] = @ + 1] ELSE late
  /\ UNCHANGED <<vars, attempt, reached, result>>

\* A POST nobody waits for arrives after all.
ServeLate(c) ==
  /\ late[c] > 0
  /\ late' = [late EXCEPT ![c] = @ - 1]
  /\ \E i \in Id : Reach(c, i)
  /\ UNCHANGED <<phase, attempt, post, bound, result>>

\* A POST is lost.
Vanish(c) ==
  /\ late[c] > 0
  /\ late' = [late EXCEPT ![c] = @ - 1]
  /\ UNCHANGED <<vars, phase, attempt, post, bound, reached, result>>

-----------------------------------------------------------------------------
(* Waiting.                                                                *)

\* Mutation: a request somebody works on is taken for an answered one.
AnsweredEarly(i) == status[i] \in {"resolved", "claimed"}

\* wait() returns.
Answered(i) == status[i] = "resolved"

\* Mutation: supersession does not end the wait.
EndedUnsuperseded(i) == status[i] \in {"cancelled", "expired"}

\* wait() raises.
Ended(i) == status[i] \in {"cancelled", "expired", "superseded"}

Poll(c) ==
  LET i == bound[c]
  IN  /\ phase[c] = "waiting"
      /\ \/ /\ Answered(i)
            /\ phase' = [phase EXCEPT ![c] = "answered"]
            /\ result' = [result EXCEPT ![c] = resolution[i]]
         \/ /\ Ended(i)
            /\ phase' = [phase EXCEPT ![c] = "closed"]
            /\ UNCHANGED result
      /\ UNCHANGED <<vars, attempt, post, bound, late, reached>>

\* wait_timeout has passed, or a poll is answered with an HTTP error: the
\* caller goes on without an answer and the request stays as it is.
GiveUp(c) ==
  /\ phase[c] = "waiting"
  /\ \E s \in {"timedout", "raised"} : phase' = [phase EXCEPT ![c] = s]
  /\ UNCHANGED <<vars, attempt, post, bound, late, reached, result>>

\* Everybody else at the Gateway: agents, people and machines.
Others ==
  /\ \/ \E a \in Ask : (\A c \in Client : a.idem # Fresh[c]) /\ Create(a)
     \/ \E i \in Id, b \in Actor : Claim(i, b)
     \/ \E i \in Id, v \in Vote, w \in Decision : Finalize(i, v, w)
     \/ \E i \in Id, v \in Vote : AwaitQuorum(i, v)
     \/ \E i \in Id, outcome \in {"expired", "cancelled"} : MachineOutcome(i, outcome)
  /\ UNCHANGED clientVars

CNext ==
  \/ \E c \in Client : Send(c)
  \/ \E c \in Client : Serve(c)
  \/ \E c \in Client : Receive(c)
  \/ \E c \in Client : AttemptFails(c)
  \/ \E c \in Client : ServeLate(c)
  \/ \E c \in Client : Vanish(c)
  \/ \E c \in Client : Poll(c)
  \/ \E c \in Client : GiveUp(c)
  \/ Others

CSpec == CInit /\ [][CNext]_cvars

\* An attempt ends because httpx has a timeout; a retry follows its pause;
\* polls go on and get through in the end.  Nobody has to ask, to answer or to
\* give up.
CFairness ==
  \A c \in Client : /\ WF_cvars(phase[c] = "backoff" /\ Send(c))
                    /\ WF_cvars(Receive(c) \/ AttemptFails(c))
                    /\ WF_cvars(Poll(c))

FairCSpec == CSpec /\ CFairness

-----------------------------------------------------------------------------
(* Properties.                                                             *)

\* One ask raises one human obligation: lost answers, 5xx after the commit and
\* POSTs that arrive after the caller has given up never add a second one,
\* even if the first was closed or superseded in between.
OneObligation == \A c \in Client : Cardinality(reached[c]) <= 1

\* What an ask returns is the canonical resolution of the one request it
\* raised: a claim, a vote that waits, or another caller's request never
\* releases a machine.
AnswerIsCanonical ==
  \A c \in Client : phase[c] = "answered" =>
    /\ reached[c] = {bound[c]}
    /\ result[c] = resolution[bound[c]]
    /\ Backed(bound[c])
    /\ ask[bound[c]].source = Wants[c].source

\* An ask ends, or waits for a request that is still open: no retry, lost
\* answer or closing of the request by somebody else leaves it hanging.
AskConcludes ==
  \A c \in Client :
    phase[c] # "idle" ~>
      \/ phase[c] \in Concluded
      \/ phase[c] = "waiting" /\ status[bound[c]] \in Active
=============================================================================
