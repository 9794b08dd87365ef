-------------------------- MODULE MCAttentionBudget --------------------------
(* Instances of AttentionBudget for TLC. *)
EXTENDS AttentionBudget, MCRequestStore

CONSTANT ops

\* Asks that interrupt always, mostly, close to their deadline, and never.
Urgent == [group |-> ops, points |-> 80, hard |-> FALSE, mild |-> FALSE,
           batch |-> FALSE, due |-> Never]
TraitsOf == [a \in QuorumAsk |->
  CASE a.route = TwoOfThree -> [Urgent EXCEPT !.hard = TRUE]
    [] a.route = TwoOfAnyone -> [Urgent EXCEPT !.points = 64, !.due = 2]
    [] ~a.webhook -> [Urgent EXCEPT !.points = 50, !.batch = TRUE]
    [] a.route = RepeatedName -> [Urgent EXCEPT !.points = 20, !.mild = TRUE]
    [] OTHER -> Urgent]

\* The defaults, with room for two interrupts or one.
Defaults == [max |-> 2, interrupt |-> 72, queue |-> 35, batch |-> 55]
Policies == {Defaults, [Defaults EXCEPT !.max = 1]}

Untouched(i) == votes[i] = {} /\ claimedBy[i] = Nobody /\ status[i] # "cancelled"

\* A single request is answered in every way, as no hour passes and no policy is
\* set.  Where several are created, they only wait or expire, and their asks
\* differ in their traits.
Bound ==
  clock > 0 \/ policy[ops] # Defaults \/ issued > 1 =>
    \A i \in 1 .. issued : Untouched(i) /\ ask[i].route.kind = "human"
=============================================================================
