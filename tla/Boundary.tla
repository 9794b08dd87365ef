------------------------------ MODULE Boundary ------------------------------
(***************************************************************************)
(* What human:// promises about a boundary, without votes, claims, routes  *)
(* or keys: a boundary is opened once, is closed once, and carries a human *)
(* answer only if an answer is what closed it.  A boundary is replaced     *)
(* only by one that opens in the same step.  A resume obligation is        *)
(* incurred only in the step that answers the boundary.                    *)
(***************************************************************************)
CONSTANTS
  Id,        \* boundaries
  Decision,  \* answers (fingerprints of action and values)
  None       \* no answer

VARIABLES
  stage,     \* stage[i]: unknown, open, answered, withdrawn or replaced
  answer,    \* answer[i]: the canonical answer, or None
  owed       \* boundaries whose answer must be carried to a webhook

bvars == <<stage, answer, owed>>

Stage == {"unknown", "open", "answered", "withdrawn", "replaced"}
IsOpen(i) == stage[i] = "open"

BInit ==
  /\ stage = [i \in Id |-> "unknown"]
  /\ answer = [i \in Id |-> None]
  /\ owed = {}

\* An agent raises boundary i; it may take the place of open ones.
Open(i, replaced) ==
  /\ stage[i] = "unknown"
  /\ \A j \in replaced : IsOpen(j)
  /\ stage' = [j \in Id |-> IF j = i THEN "open"
                            ELSE IF j \in replaced THEN "replaced"
                            ELSE stage[j]]
  /\ UNCHANGED <<answer, owed>>

\* Enough eligible people agree on d.
Answer(i, d) ==
  /\ IsOpen(i)
  /\ stage' = [stage EXCEPT ![i] = "answered"]
  /\ answer' = [answer EXCEPT ![i] = d]
  /\ owed' \in {owed, owed \cup {i}}

\* A machine outcome closes the boundary without an answer.
Withdraw(i) ==
  /\ IsOpen(i)
  /\ stage' = [stage EXCEPT ![i] = "withdrawn"]
  /\ UNCHANGED <<answer, owed>>

BNext ==
  \E i \in Id :
    \/ \E replaced \in SUBSET Id : Open(i, replaced)
    \/ \E d \in Decision : Answer(i, d)
    \/ Withdraw(i)

BSpec == BInit /\ [][BNext]_bvars
=============================================================================
