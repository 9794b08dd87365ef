---------------------------- MODULE MCClientAsk -----------------------------
(* Instances of ClientAsk for TLC. *)
EXTENDS ClientAsk

CONSTANTS a1, yes, no, codex, k1, f1, f2, c1, c2

OpenRoute == [mode |-> "single", actors |-> <<>>, quorum |-> 1, kind |-> "human"]
Hook == [source |-> codex, idem |-> NoKey, tip |-> k1, route |-> OpenRoute, webhook |-> FALSE]

\* c1 has no key, c2 has one that other agents use too; they share a worldline.
Asked == [c \in Client |-> IF c = c1 THEN Hook ELSE [Hook EXCEPT !.idem = k1]]
Generated == [c \in Client |-> IF c = c1 THEN f1 ELSE f2]
SentAsk == {[Hook EXCEPT !.idem = k] : k \in {NoKey, k1, f1}}
=============================================================================
