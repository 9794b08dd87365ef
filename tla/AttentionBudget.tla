--------------------------- MODULE AttentionBudget ---------------------------
(***************************************************************************)
(* How a new request of RequestStore is surfaced: the priority it gets     *)
(* (app/scoring.py), the budget policy of its attention group, and the     *)
(* interrupts of the last hour, all read inside the creating transaction   *)
(* (app/store.py), while somebody changes the policy and time passes.      *)
(*                                                                         *)
(* Time is counted in hours.  created_at is read before the caller waits   *)
(* for the database, so it may be older than the transaction.  The signals *)
(* of an ask other than its deadline are a number of points, and two       *)
(* answers to the thresholds of choose_surface; points are rounded down.   *)
(***************************************************************************)
EXTENDS RequestStore

CONSTANTS
  Group,      \* attention groups
  Policy,     \* budget policies somebody may set
  Default,    \* BudgetPolicy() of a group without a row
  Traits,     \* what choose_surface looks at, for each ask
  MaxClock,   \* bound on the hours that pass
  Never       \* due_at is None

\* BudgetPolicy, its thresholds in points.
BudgetPolicy == [max : Nat, interrupt : 0..100, queue : 0..100, batch : 0..100]

ASSUME BudgetAssumption ==
  /\ Default \in BudgetPolicy /\ Policy \subseteq BudgetPolicy
  /\ \A a \in Ask : Traits[a].group \in Group
  /\ MaxClock \in Nat

VARIABLES
  clock,     \* hours since the start
  policy,    \* the budgets table
  surfaced   \* requests.created_at and surface_mode, and the limit in force

budgetVars == <<clock, policy, surfaced>>
bvars == <<vars, budgetVars>>

NotSurfaced == [at |-> 0, mode |-> "none", limit |-> 0]

BInit ==
  /\ Init
  /\ clock = 0
  /\ policy = [g \in Group |-> Default]
  /\ surfaced = [i \in Id |-> NotSurfaced]

-----------------------------------------------------------------------------
\* _deadline_pressure, in percent; the last quarter of an hour is not told
\* apart from the rest.
Pressure(due, at) ==
  CASE due = Never       -> 0
    [] due - at <= 0     -> 100
    [] due - at = 1      -> 70
    [] due - at \in 2..4 -> 50
    [] due - at \in 5..24 -> 25
    [] OTHER             -> 5

\* priority_score: the deadline counts for 12 points of 100.
Priority(a, at) ==
  LET points == Traits[a].points + (12 * Pressure(Traits[a].due, at)) \div 100
  IN  IF points > 100 THEN 100 ELSE IF points < 0 THEN 0 ELSE points

\* Mutation: requests that are closed by now are not counted.
InterruptsOpen(g) ==
  {i \in 1..issued : /\ surfaced[i].mode = "interrupt"
                     /\ status[i] \in Active
                     /\ surfaced[i].at >= clock - 1
                     /\ Traits[ask[i]].group = g}

\* _interrupts_last_hour: of any priority, in any status.
Interrupts(g) ==
  {i \in 1..issued : /\ surfaced[i].mode = "interrupt"
                     /\ surfaced[i].at >= clock - 1
                     /\ Traits[ask[i]].group = g}

Affordable(a, at) ==
  LET p == policy[Traits[a].group]
  IN  /\ Priority(a, at) >= p.interrupt
      /\ Cardinality(Interrupts(Traits[a].group)) < p.max

\* choose_surface.
Surface(a, at) ==
  LET p == policy[Traits[a].group]
  IN  CASE Traits[a].hard \/ Affordable(a, at) -> "interrupt"
        [] Traits[a].batch /\ Priority(a, at) < p.batch -> "batch"
        [] Traits[a].mild /\ Priority(a, at) < p.queue -> "defer"
        [] OTHER -> "queue"

\* create_with_status, with the surface it chooses.
CreateSurfaced(a, at) ==
  /\ Create(a)
  /\ at \in {clock - 1, clock} /\ at >= 0
  /\ surfaced' = [surfaced EXCEPT ![issued + 1] =
       [at |-> at, mode |-> Surface(a, at), limit |-> policy[Traits[a].group].max]]
  /\ UNCHANGED <<clock, policy>>

\* PUT /v1/budgets.
SetBudget(g, p) ==
  /\ policy' = [policy EXCEPT ![g] = p]
  /\ UNCHANGED <<vars, clock, surfaced>>

Tick ==
  /\ clock < MaxClock /\ clock' = clock + 1
  /\ UNCHANGED <<vars, policy, surfaced>>

\* Everything else leaves surfaces alone.
Answer ==
  /\ \/ \E a \in Ask : CreateRepeated(a)
     \/ \E i \in Id, b \in Actor : Claim(i, b)
     \/ \E i \in Id, v \in Vote, w \in Decision : Finalize(i, v, w)
     \/ \E i \in Id, v \in Vote : AwaitQuorum(i, v)
     \/ \E i \in Id, outcome \in {"expired", "cancelled"} : MachineOutcome(i, outcome)
     \/ \E i \in Id : Late(i)
  /\ UNCHANGED budgetVars

BNext ==
  \/ \E a \in Ask, at \in {clock - 1, clock} : CreateSurfaced(a, at)
  \/ \E g \in Group, p \in Policy : SetBudget(g, p)
  \/ Tick
  \/ Answer

BSpec == BInit /\ [][BNext]_bvars

-----------------------------------------------------------------------------
(* Properties.                                                             *)

\* Interrupts that the budget could have refused, within the last hour.
Soft(g) ==
  {i \in 1..issued : /\ surfaced[i].mode = "interrupt" /\ ~Traits[ask[i]].hard
                     /\ clock - surfaced[i].at <= 1
                     /\ Traits[ask[i]].group = g}

\* At no time have more refusable interrupts of a group come within the last
\* hour than the policy allowed when the newest of them came, whoever creates
\* at the same time, however late a creation commits, and whatever is answered
\* or set meanwhile.
InterruptsWithinBudget ==
  \A g \in Group : \A i \in Soft(g) :
    (\A j \in Soft(g) : j <= i) => Cardinality(Soft(g)) <= surfaced[i].limit
=============================================================================
