--------------------------- MODULE MCRequestStore ---------------------------
(* Instances of RequestStore for TLC. *)
EXTENDS RequestStore

CONSTANTS a1, a2, a3, yes, no, codex, cursor, k1

OpenRoute == [mode |-> "single", actors |-> <<>>, quorum |-> 1, kind |-> "human"]
AnyKind == [OpenRoute EXCEPT !.kind = "any"]
TwoOfThree == [mode |-> "quorum", actors |-> <<a1, a2, a3>>, quorum |-> 2,
               kind |-> "human"]
TwoOfAnyone == [mode |-> "quorum", actors |-> <<>>, quorum |-> 2,
                kind |-> "human"]
AllThree == [mode |-> "all_of", actors |-> <<a1, a2, a3>>, quorum |-> 3,
             kind |-> "any"]
RepeatedName == [mode |-> "all_of", actors |-> <<a1, a1>>, quorum |-> 2,
                 kind |-> "human"]

Plain(r) == [source |-> codex, idem |-> NoKey, tip |-> NoKey, route |-> r,
             webhook |-> TRUE]

\* Every way to decide one request.
QuorumAsk ==
  {Plain(r) : r \in {OpenRoute, AnyKind, TwoOfThree, TwoOfAnyone, AllThree,
                     RepeatedName, [AnyKind EXCEPT !.mode = "any_of",
                                                   !.actors = <<a1, a2>>]}}
  \cup {[Plain(OpenRoute) EXCEPT !.webhook = FALSE]}

\* Worldlines that overlap in source, supersession and idempotency keys.
WorldlineAsk ==
  {[Plain(OpenRoute) EXCEPT !.tip = k1],
   [Plain(OpenRoute) EXCEPT !.tip = k1, !.idem = k1, !.source = cursor],
   [Plain(OpenRoute) EXCEPT !.idem = k1],
   [Plain(TwoOfAnyone) EXCEPT !.tip = k1, !.idem = k1, !.webhook = FALSE]}
=============================================================================
