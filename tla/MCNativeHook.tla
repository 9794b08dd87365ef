---------------------------- MODULE MCNativeHook -----------------------------
(* Instances of NativeHook for TLC. *)
EXTENDS NativeHook, TLC

CONSTANTS a1, yes, no, other, h1, h2, h3, s1, s2, t1, u1, u2, shell, edit, ls, rm

Blank == [runtime |-> "codex", session |-> s1, turn |-> t1, call |-> u1,
          tool |-> shell, input |-> ls, aliased |-> FALSE]

\* One turn: the same call again, another call of the same command, another
\* command, and the same command in another session.
Variants(e) == {e, [e EXCEPT !.call = u2], [e EXCEPT !.call = u2, !.input = rm],
                [e EXCEPT !.session = s2]}
NoSession(e) == [e EXCEPT !.session = Missing]
NoTurn(e) == [e EXCEPT !.turn = Missing]
NoIds(e) == [e EXCEPT !.turn = Missing, !.call = Missing]
As(e, r) == [e EXCEPT !.runtime = r]

HookEvents(r) ==
  Variants(As(Blank, r)) \cup {NoSession(As(Blank, r)), NoTurn(As(Blank, r)), NoIds(As(Blank, r))}
Imported == [As(Blank, "a2a") EXCEPT !.session = Missing, !.turn = Missing]

GuardedEvents ==
  HookEvents("codex") \cup HookEvents("claude-code") \cup HookEvents("cursor")
    \cup {Imported, NoIds(Imported), As(Imported, "openai-agents"),
          As([Imported EXCEPT !.tool = edit], "openai-agents")}
    \cup {As(Blank, "opencode"), As([Blank EXCEPT !.call = u2, !.input = rm], "opencode")}

Sources == {e.runtime : e \in Event}
Asks == {PayloadOf(e) : e \in Event}
AllKeys == ({Keys(e).idem : e \in Event} \cup {Keys(e).tip : e \in Event}) \ {NoKey}

\* Hooks are interchangeable.
Symmetry == Permutations(Hook)
=============================================================================
