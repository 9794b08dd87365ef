----------------------------- MODULE NativeHook ------------------------------
(***************************************************************************)
(* How the approval boundaries of native runtimes become requests: the     *)
(* hooks of humanqueue/connectors for Codex, Claude Code and Cursor, the   *)
(* OpenCode plugin, and the import adapters of app/adapters.py, over the   *)
(* tables of RequestStore.  A hook is started by its runtime with an event,*)
(* turns the ids in the event into an idempotency and a supersession key,  *)
(* asks, waits, and tells the runtime allow, deny, or to ask by itself.    *)
(*                                                                         *)
(* What can go wrong is identity: runtimes leave ids out, repeat an event, *)
(* or raise several boundaries at once.  The retries of the SDK under one  *)
(* key are ClientAsk; a create is one step here, heard or not.  Hashes are *)
(* the tuples they are taken of.                                           *)
(***************************************************************************)
EXTENDS RequestStore

CONSTANTS
  Hook,        \* hook processes (or imports), one event each
  Event,       \* events the runtimes may hand to them
  Approving,   \* decisions whose action is approve, allow, accept or continue
  Rejecting,   \* decisions whose action is reject, deny, decline or cancel
  Missing, NoEvent

\* An id is Missing if the runtime did not send it.  The input stands for the
\* arguments of the tool, for Cursor the command and the directory; turn is the
\* message for OpenCode, and call the task or run of an import.  aliased: the
\* ids came under their other names (session_id, turn_id for Cursor).
EventField == {"runtime", "session", "turn", "call", "tool", "input", "aliased"}

Runtime == {"codex", "claude-code", "cursor", "opencode", "a2a", "openai-agents"}

ASSUME HookAssumption ==
  /\ \A e \in Event : DOMAIN e = EventField /\ e.runtime \in Runtime
  /\ Approving \subseteq Decision /\ Rejecting \subseteq Decision
  /\ Approving \cap Rejecting = {}
  /\ NoEvent \notin Event

VARIABLES
  event,     \* event[h]: what h was started with
  phase,     \* phase[h]: idle, waiting or done
  request,   \* request[h]: the request h was answered with, 0 for none
  told,      \* told[h]: what the runtime was told
  raisedBy   \* raisedBy[i]: the event request i was created for

hookVars == <<event, phase, request, told, raisedBy>>
hvars == <<vars, hookVars>>

HInit ==
  /\ Init
  /\ event = [h \in Hook |-> NoEvent]
  /\ phase = [h \in Hook |-> "idle"]
  /\ request = [h \in Hook |-> 0]
  /\ told = [h \in Hook |-> "nothing"]
  /\ raisedBy = [i \in Id |-> NoEvent]

-----------------------------------------------------------------------------
(* Identity.                                                               *)

\* event.get("turn_id") or event.get("tool_use_id")
NativeTurn(e) == IF e.turn # Missing THEN e.turn ELSE e.call

\* Mutation: a turn is enough, whatever session it belongs to.
StableWithoutSession(e) == NativeTurn(e) # Missing

\* _event_identity_is_stable of codex.py and claude.py
Stable(e) == e.session # Missing /\ NativeTurn(e) # Missing

\* _event_identity_is_stable of cursor.py
CursorStable(e) == e.session # Missing /\ e.turn # Missing

\* Mutation: the arguments are left out of the digest.
CodexRefByTool(e) == <<e.session, NativeTurn(e), e.tool>>

\* codex.py _event_ref: the call does not count where there is a turn.
CodexRef(e) == <<e.session, NativeTurn(e), e.tool, e.input>>

\* claude.py _event_ref
ClaudeRef(e) == <<e.session, e.turn, e.call, e.tool, e.input>>

\* cursor.py _event_ref: conversation_id and generation_id only.
CursorRef(e) ==
  IF e.aliased THEN <<Missing, Missing, e.input>> ELSE <<e.session, e.turn, e.input>>

\* The ref of the OpenCode plugin, with its fallback labels.
OpenCodeRef(e) ==
  <<e.session, e.tool, IF e.turn = Missing THEN "message" ELSE e.turn,
    IF e.call = Missing THEN "permission" ELSE e.call>>

\* Mutation: one worldline for a session and tool, whatever the turn.
SessionTip(e) == IF Stable(e) THEN <<e.runtime, e.session, e.tool>> ELSE NoKey

\* The turn-wide worldline of Codex and Claude Code.
TurnTip(e) == IF Stable(e) THEN <<e.runtime, e.session, NativeTurn(e), e.tool>> ELSE NoKey

\* from_a2a and from_openai
ImportTip(e) == IF e.call = Missing THEN NoKey ELSE <<e.runtime, e.call>>

\* idempotency_key and supersession_key of a request for e.
Keys(e) ==
  CASE e.runtime = "codex" ->
         [idem |-> IF Stable(e) THEN <<"codex", CodexRef(e)>> ELSE NoKey, tip |-> TurnTip(e)]
    [] e.runtime = "claude-code" ->
         [idem |-> IF Stable(e) THEN <<"claude", ClaudeRef(e)>> ELSE NoKey, tip |-> TurnTip(e)]
    [] e.runtime = "cursor" ->
         [idem |-> IF CursorStable(e) THEN <<"cursor", CursorRef(e)>> ELSE NoKey, tip |-> NoKey]
    [] e.runtime = "opencode" -> [idem |-> <<"opencode", OpenCodeRef(e)>>, tip |-> NoKey]
    [] OTHER -> [idem |-> NoKey, tip |-> ImportTip(e)]

\* Everybody may answer an approval, but only a person.
OpenRoute == [mode |-> "single", actors |-> <<>>, quorum |-> 1, kind |-> "human"]

\* The payload permission_request, shell_permission, the plugin or an adapter
\* sends for e.  The callback of an A2A task is left out.
PayloadOf(e) ==
  [source |-> e.runtime, idem |-> Keys(e).idem, tip |-> Keys(e).tip,
   route |-> OpenRoute, webhook |-> FALSE]

ASSUME PayloadAssumption == \A e \in Event : PayloadOf(e) \in Ask

\* What the runtimes' ids mean: a turn is not called like a tool call, and
\* nothing like the labels of the plugin; a call of OpenCode has one request for
\* permission and a session; Cursor's hook is about its shell only.
ASSUME IdentityAssumption ==
  \A e, f \in Event :
    /\ e.turn = f.call => e.turn = Missing
    /\ e.runtime = "cursor" /\ f.runtime = "cursor" => e.tool = f.tool
    /\ e.runtime = "opencode" =>
         /\ e.session # Missing /\ e.turn # "message" /\ e.call # "permission"
         /\ f.runtime = "opencode" /\ e.session = f.session /\ e.call = f.call
              /\ e.call # Missing => e.input = f.input

-----------------------------------------------------------------------------
(* The hook.                                                               *)

Imports(e) == e.runtime \in {"a2a", "openai-agents"}

\* The Gateway commits the create, or finds the request, and answers i.
Reaches(e, i) ==
  \/ /\ Create(PayloadOf(e)) /\ i = issued'
     /\ raisedBy' = [raisedBy EXCEPT ![i] = e]
  \/ CreateRepeated(PayloadOf(e)) /\ i \in Existing(PayloadOf(e)) /\ UNCHANGED raisedBy

\* The runtime reaches a boundary and its hook asks; an import waits for nothing.
AskHuman(h, e) ==
  /\ phase[h] = "idle"
  /\ event' = [event EXCEPT ![h] = e]
  /\ phase' = [phase EXCEPT ![h] = IF Imports(e) THEN "done" ELSE "waiting"]
  /\ \E i \in Id : Reaches(e, i) /\ request' = [request EXCEPT ![h] = i]
  /\ UNCHANGED told

\* What the runtime does without a decision: its own approval prompt.
Fallback == "ask"

\* The ask raises, before the Gateway has committed anything or after.
AskFails(h, e) ==
  /\ phase[h] = "idle"
  /\ event' = [event EXCEPT ![h] = e]
  /\ phase' = [phase EXCEPT ![h] = "done"]
  /\ told' = [told EXCEPT ![h] = Fallback]
  /\ \/ \E i \in Id : Reaches(e, i)
     \/ UNCHANGED <<vars, raisedBy>>
  /\ UNCHANGED request

\* The action of the decision in the runtime's words.
NativeAnswer(d) ==
  IF d \in Approving THEN "allow" ELSE IF d \in Rejecting THEN "deny" ELSE Fallback

\* wait() or waitForDecision returns the resolution.
HearAnswer(h) ==
  /\ phase[h] = "waiting"
  /\ status[request[h]] = "resolved"
  /\ told' = [told EXCEPT ![h] = NativeAnswer(resolution[request[h]].decision)]
  /\ phase' = [phase EXCEPT ![h] = "done"]
  /\ UNCHANGED <<vars, event, request, raisedBy>>

\* wait() raises: the request was closed without an answer, the patience of
\* 570 seconds is over, or a poll failed.
WaitFails(h) ==
  /\ phase[h] = "waiting"
  /\ told' = [told EXCEPT ![h] = Fallback]
  /\ phase' = [phase EXCEPT ![h] = "done"]
  /\ UNCHANGED <<vars, event, request, raisedBy>>

\* People and machines at the Gateway.
Others ==
  /\ \/ \E i \in Id, v \in Vote : v.kind = "human" /\ Finalize(i, v, v.decision)
     \/ \E i \in Id, outcome \in {"expired", "cancelled"} : MachineOutcome(i, outcome)
  /\ UNCHANGED hookVars

HNext ==
  \/ \E h \in Hook, e \in Event : AskHuman(h, e)
  \/ \E h \in Hook, e \in Event : AskFails(h, e)
  \/ \E h \in Hook : HearAnswer(h)
  \/ \E h \in Hook : WaitFails(h)
  \/ Others

HSpec == HInit /\ [][HNext]_hvars

-----------------------------------------------------------------------------
(* Properties.                                                             *)

\* The runtime sent ids that tell its boundary from others.
Identified(e) ==
  IF Imports(e) THEN e.call # Missing
  ELSE e.session # Missing /\ (e.turn # Missing \/ e.call # Missing)

\* As far as anybody can tell, e and f are the same tool call: the same
\* arguments for the same tool in the same turn, or in the same call.
SameCall(e, f) ==
  /\ e.runtime = f.runtime /\ e.session = f.session /\ e.tool = f.tool
  /\ e.input = f.input
  /\ (e.turn = f.turn /\ e.turn # Missing) \/ (e.call = f.call /\ e.call # Missing)

\* The events whose translation looks at what is missing, or misses nothing.
Guarded(e) ==
  ~e.aliased /\ (e.runtime = "opencode" => e.turn # Missing /\ e.call # Missing)

\* protocol.md, "No stable identity -> no idempotency, no supersession": an
\* event without ids shares no request with another hook, and its request
\* neither replaces nor is replaced.
Apart(h) ==
  LET i == request[h]
  IN  i # 0 =>
        /\ \A g \in Hook \ {h} : request[g] # i
        /\ supersededBy[i] = 0
        /\ \A j \in Id : supersededBy[j] # i

\* What is said above holds for every runtime that guards its keys.
UnidentifiedStaysApart ==
  \A h \in Hook : event[h] # NoEvent /\ Guarded(event[h]) /\ ~Identified(event[h]) => Apart(h)

\* A tool runs, or is refused, only on the decision a person made about that
\* very call: never on the answer to other arguments, another session or turn,
\* to a request that expired or was replaced, or without any answer.
ReleasedByItsDecision ==
  \A h \in Hook : told[h] \in {"allow", "deny"} /\ Guarded(event[h]) =>
    LET i == request[h]
        r == resolution[i]
    IN  /\ status[i] = "resolved" /\ Backed(i) /\ r.kind = "human"
        /\ r.decision \in IF told[h] = "allow" THEN Approving ELSE Rejecting
        /\ raisedBy[i] = event[h] \/ SameCall(raisedBy[i], event[h])

\* A boundary is replaced only by a newer one of the same tool in the same
\* native turn, or of the same imported task or run.
ReplacedWithinItsTurn ==
  \A i \in Id : supersededBy[i] # 0 =>
    LET e == raisedBy[i]
        f == raisedBy[supersededBy[i]]
    IN  /\ Identified(e) /\ Identified(f) /\ e.runtime = f.runtime
        /\ IF Imports(e) THEN e.call = f.call
           ELSE /\ e.session = f.session /\ e.tool = f.tool
                /\ NativeTurn(e) = NativeTurn(f)
=============================================================================
