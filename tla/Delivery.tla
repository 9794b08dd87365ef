------------------------------ MODULE Delivery ------------------------------
(***************************************************************************)
(* What human:// promises about the delivery of a decision to a machine,   *)
(* without workers, batches, leases or POSTs: an intent is attempted once  *)
(* for each time it is owed, an attempt takes effect once at most, at any  *)
(* later time, and an intent whose attempt was given up or has failed is   *)
(* uncertain until an operator, who has looked at the effects, delivers it *)
(* or owes it again.                                                       *)
(***************************************************************************)
EXTENDS Naturals

CONSTANT Intent  \* decisions that are to be delivered

VARIABLES
  stage,    \* stage[i]: none, owed, attempted, delivered or uncertain
  live,     \* live[i]: attempts that may still take effect
  sent,     \* intents that have left for the receiver
  effects   \* effects[i]: times the receiver has acted

dvars == <<stage, live, sent, effects>>

DInit ==
  /\ stage = [i \in Intent |-> "none"]
  /\ live = [i \in Intent |-> 0]
  /\ sent = {}
  /\ effects = [i \in Intent |-> 0]

\* A decision is made.
Arise(i) ==
  /\ stage[i] = "none"
  /\ stage' = [stage EXCEPT ![i] = "owed"]
  /\ UNCHANGED <<live, sent, effects>>

\* Owed intents are attempted, and attempts nobody hears of are given up.
Attempt(started, given) ==
  /\ \A i \in started : stage[i] = "owed"
  /\ \A i \in given : stage[i] = "attempted"
  /\ stage' = [i \in Intent |-> IF i \in started THEN "attempted"
                                ELSE IF i \in given THEN "uncertain"
                                ELSE stage[i]]
  /\ live' = [i \in Intent |-> IF i \in started THEN live[i] + 1 ELSE live[i]]
  /\ UNCHANGED <<sent, effects>>

\* A live attempt leaves for the receiver.
Send(i) ==
  /\ live[i] > 0
  /\ sent' = sent \cup {i}
  /\ UNCHANGED <<stage, live, effects>>

\* The receiver acts on a live attempt, whatever has become of the intent.
TakeEffect(i) ==
  /\ live[i] > 0 /\ i \in sent
  /\ live' = [live EXCEPT ![i] = @ - 1]
  /\ effects' = [effects EXCEPT ![i] = @ + 1]
  /\ UNCHANGED <<stage, sent>>

\* Attempts come to nothing.
Lapse(lost) ==
  /\ \A i \in lost : live[i] > 0
  /\ live' = [i \in Intent |-> IF i \in lost THEN live[i] - 1 ELSE live[i]]
  /\ UNCHANGED <<stage, sent, effects>>

\* An attempt that was sent has succeeded, or has failed.
Conclude(i) ==
  /\ stage[i] = "attempted" /\ i \in sent
  /\ \E outcome \in {"delivered", "uncertain"} : stage' = [stage EXCEPT ![i] = outcome]
  /\ UNCHANGED <<live, sent, effects>>

\* The operator has found an effect, or none.
Confirm(i) ==
  /\ stage[i] = "uncertain" /\ effects[i] > 0
  /\ stage' = [stage EXCEPT ![i] = "delivered"]
  /\ UNCHANGED <<live, sent, effects>>
OweAgain(i) ==
  /\ stage[i] = "uncertain" /\ effects[i] = 0
  /\ stage' = [stage EXCEPT ![i] = "owed"]
  /\ UNCHANGED <<live, sent, effects>>

DNext ==
  \/ \E i \in Intent :
       Arise(i) \/ Send(i) \/ TakeEffect(i) \/ Conclude(i) \/ Confirm(i) \/ OweAgain(i)
  \/ \E started, given \in SUBSET Intent : Attempt(started, given)
  \/ \E lost \in SUBSET Intent : Lapse(lost)

DSpec == DInit /\ [][DNext]_dvars
=============================================================================
