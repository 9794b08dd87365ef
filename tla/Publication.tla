---------------------------- MODULE Publication -----------------------------
(***************************************************************************)
(* What human:// promises about telling people of a request, without       *)
(* workers, batches and leases: a request is owed until every channel has  *)
(* a verdict or the request was withdrawn, is shown in a channel once and  *)
(* once more per mishap, and once handled is left alone.  Only a request   *)
(* that is exposed, whose publication has outlived its lease, may be shown *)
(* more often and be owed again.                                           *)
(***************************************************************************)
EXTENDS Naturals

CONSTANTS
  Request,  \* requests that people are to be told of
  Channel   \* places to tell them

VARIABLES
  stage,      \* stage[i]: none, owed or handled
  withdrawn,  \* requests that have become terminal
  shown,      \* shown[i][c]: messages about i in c
  said,       \* said[i]: what is on record about i, as <<event, channel>>
  mishaps,    \* mishaps[i]: tries that ended in a crash or an exception
  exposed     \* requests whose publication has outlived its lease

pvars == <<stage, withdrawn, shown, said, mishaps, exposed>>

PInit ==
  /\ stage = [i \in Request |-> "none"]
  /\ withdrawn = {}
  /\ shown = [i \in Request |-> [c \in Channel |-> 0]]
  /\ said = [i \in Request |-> {}]
  /\ mishaps = [i \in Request |-> 0]
  /\ exposed = {}

\* Somebody may be at work on i.
InHand(i) == stage[i] = "owed" \/ i \in exposed

Verdict(c) == {<<"channel_delivered", c>>, <<"channel_undeliverable", c>>}
TooLate == <<"channel_publish_skipped_terminal", 0>>

\* Every channel has a verdict, or the request was withdrawn before.
Settled(i) ==
  \/ i \in withdrawn /\ TooLate \in said[i]
  \/ \A c \in Channel : \E verdict \in Verdict(c) : verdict \in said[i]

Arise(i) ==
  /\ stage[i] = "none"
  /\ stage' = [stage EXCEPT ![i] = "owed"]
  /\ UNCHANGED <<withdrawn, shown, said, mishaps, exposed>>

Withdraw(i) ==
  /\ stage[i] # "none"
  /\ withdrawn' = withdrawn \cup {i}
  /\ UNCHANGED <<stage, shown, said, mishaps, exposed>>

\* Once per mishap and once more, but for what is exposed.
Show(i, c) ==
  /\ InHand(i)
  /\ i \in exposed \/ shown[i][c] <= mishaps[i]
  /\ shown' = [shown EXCEPT ![i][c] = @ + 1]
  /\ UNCHANGED <<stage, withdrawn, said, mishaps, exposed>>

\* A verdict goes on record; a delivery only of what was shown.
Record(i, c) ==
  /\ InHand(i)
  /\ \E verdict \in Verdict(c) :
       /\ verdict = <<"channel_delivered", c>> => shown[i][c] > 0
       /\ said' = [said EXCEPT ![i] = @ \cup {verdict}]
  /\ UNCHANGED <<stage, withdrawn, shown, mishaps, exposed>>

RecordTooLate(i) ==
  /\ InHand(i) /\ i \in withdrawn
  /\ said' = [said EXCEPT ![i] = @ \cup {TooLate}]
  /\ UNCHANGED <<stage, withdrawn, shown, mishaps, exposed>>

Handle(i) ==
  /\ stage[i] = "owed" /\ Settled(i)
  /\ stage' = [stage EXCEPT ![i] = "handled"]
  /\ UNCHANGED <<withdrawn, shown, said, mishaps, exposed>>

OweAgain(i) ==
  /\ stage[i] = "handled" /\ i \in exposed
  /\ stage' = [stage EXCEPT ![i] = "owed"]
  /\ UNCHANGED <<withdrawn, shown, said, mishaps, exposed>>

\* One crash may hit several requests.
Mishap(hit) ==
  /\ \A i \in hit : InHand(i)
  /\ mishaps' = [i \in Request |-> IF i \in hit THEN mishaps[i] + 1 ELSE mishaps[i]]
  /\ UNCHANGED <<stage, withdrawn, shown, said, exposed>>

Expose(i) ==
  /\ stage[i] = "owed"
  /\ exposed' = exposed \cup {i}
  /\ UNCHANGED <<stage, withdrawn, shown, said, mishaps>>

PNext ==
  \/ \E i \in Request : \/ Arise(i) \/ Withdraw(i) \/ RecordTooLate(i)
                        \/ Handle(i) \/ OweAgain(i) \/ Expose(i)
  \/ \E i \in Request, c \in Channel : Show(i, c) \/ Record(i, c)
  \/ \E hit \in SUBSET Request : Mishap(hit)

PSpec == PInit /\ [][PNext]_pvars
=============================================================================
