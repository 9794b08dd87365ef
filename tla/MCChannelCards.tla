--------------------------- MODULE MCChannelCards ----------------------------
(* Instances of ChannelCards for TLC. *)
EXTENDS ChannelCards, TLC

CONSTANTS a1, a2, yes, no, codex, h1, h2, h3, h4

OpenRoute == [mode |-> "single", actors |-> <<>>, quorum |-> 1, kind |-> "human"]
TwoNamed == [mode |-> "quorum", actors |-> <<a1, a2>>, quorum |-> 2, kind |-> "human"]
CardAsk == {[source |-> codex, idem |-> NoKey, tip |-> NoKey, route |-> r, webhook |-> TRUE] :
              r \in {OpenRoute, TwoNamed}}

Blank == [op |-> "create", ask |-> NoAsk, id |-> 1, actor |-> a1, decision |-> yes,
          kind |-> "human", outcome |-> "expired"]
Presses == {[Blank EXCEPT !.op = "resolve"], [Blank EXCEPT !.op = "resolve", !.actor = a2, !.decision = no]}
CardCalls == Presses \cup {[Blank EXCEPT !.ask = a] : a \in CardAsk}
               \cup {[Blank EXCEPT !.op = "outcome"], [Blank EXCEPT !.op = "claim"]}

\* Handlers are interchangeable.
Symmetry == Permutations(Handler)
=============================================================================
