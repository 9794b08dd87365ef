---------------------------- MODULE MCCodexTrust -----------------------------
(* Instances of CodexTrust for TLC. *)
EXTENDS CodexTrust, TLC

CONSTANTS p1, p2, p3, c1, c2, r1, r2, f1, f2

\* Runs of humanq from two runtimes; the configuration has two channels.
Configuring == {[op |-> o, arg |-> r1] : o \in {"onboard", "renew", "serve", "rotate"}}
                 \cup {[op |-> "add", arg |-> c] : c \in {c1, c2}}
                 \cup {[op |-> "remove", arg |-> c1]}
Connecting == {[op |-> "connect", arg |-> r] : r \in {r1, r2}}
                \cup {[op |-> o, arg |-> r1] : o \in {"disconnect", "trust"}}
Commands == Configuring \cup Connecting

\* Commands are interchangeable until they start.
Symmetry == Permutations(Process)
=============================================================================
