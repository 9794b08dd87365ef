---------------------------- MODULE MCCodexProof -----------------------------
(* Instances of CodexProof for TLC. *)
EXTENDS CodexProof, TLC

CONSTANTS a1, yes, no, h1, h2, h3, s1, t1, t2, u1, u2, u3, shell, edit, ls, rm

Blank == [runtime |-> "codex", session |-> s1, turn |-> t1, call |-> u1,
          tool |-> shell, input |-> ls, aliased |-> FALSE]

\* The probed call, another call of its turn and tool, and calls of another
\* tool, of another turn, and without a turn.
Rival == [Blank EXCEPT !.call = u2, !.input = rm]
OneSession == {Blank, Rival, [Rival EXCEPT !.tool = edit], [Rival EXCEPT !.turn = t2],
               [Rival EXCEPT !.turn = Missing]}

Sources == {e.runtime : e \in Event}
Asks == {PayloadOf(e) : e \in Event}
AllKeys == ({Keys(e).idem : e \in Event} \cup {Keys(e).tip : e \in Event}) \ {NoKey}

\* Hooks are interchangeable.
Symmetry == Permutations(Hook)
=============================================================================
