----------------------------- MODULE MCGateway ------------------------------
(* Instances of Gateway for TLC. *)
EXTENDS Gateway, TLC

CONSTANTS a1, a2, yes, no, codex, k1, h1, h2, h3, h4

OpenRoute == [mode |-> "single", actors |-> <<>>, quorum |-> 1, kind |-> "human"]
TwoNamed == [mode |-> "quorum", actors |-> <<a1, a2>>, quorum |-> 2, kind |-> "human"]
OnlyFirst == [OpenRoute EXCEPT !.actors = <<a1>>]

Plain(r) == [source |-> codex, idem |-> k1, tip |-> NoKey, route |-> r, webhook |-> TRUE]

\* Requests of one source: retries of one key, and two without a key that may
\* share a batch.
GatewayAsk == {Plain(r) : r \in {OpenRoute, TwoNamed, OnlyFirst}}
SharedAsk == {[Plain(r) EXCEPT !.idem = NoKey] : r \in {OpenRoute, TwoNamed}}
EveryAsk == GatewayAsk \cup SharedAsk

Blank == [op |-> "create", ask |-> NoAsk, id |-> 1, actor |-> a1, decision |-> yes,
          kind |-> "human", outcome |-> "expired"]
Creates == {[Blank EXCEPT !.ask = a] : a \in Ask}
Claims == {[Blank EXCEPT !.op = "claim", !.actor = b] : b \in Actor}
Answering(op) == {[Blank EXCEPT !.op = op, !.actor = b] : b \in Actor}
Outcomes == {[Blank EXCEPT !.op = "outcome", !.outcome = o] : o \in {"expired", "cancelled"}}
Service == [Blank EXCEPT !.op = "resolve", !.kind = "service"]
Dissent == [Blank EXCEPT !.op = "resolve", !.actor = a2, !.decision = no]

\* Everything on the first request, and what a batch and its rivals need on
\* the second.
EveryCall == Creates \cup Claims \cup Outcomes \cup {Service, Dissent}
               \cup Answering("resolve") \cup Answering("channel") \cup Answering("batch")
               \cup {[Service EXCEPT !.op = "batch"], [Blank EXCEPT !.op = "resolve", !.id = 2]}
BatchCalls == Creates \cup Answering("resolve") \cup Answering("batch")

\* Handlers are interchangeable.
Symmetry == Permutations(Handler)
=============================================================================
