--------------------------- MODULE SessionRegistry ---------------------------
(***************************************************************************)
(* What the Gateway knows of a native session: the connector registry      *)
(* (app/connector_registry.py), the presence registry                      *)
(* (app/presence_registry.py), the handlers of app/main.py that feed both, *)
(* and the context they give to a new request (app/context_enrichment.py). *)
(*                                                                         *)
(* One session of one runtime, whose observers (humanqueue/connectors)     *)
(* send one report per lifecycle event and wait 0.8 seconds for the        *)
(* answer.  A hook blocks its session while it waits, but a report that    *)
(* nobody waits for any longer is handled all the same.  The handler       *)
(* commits three transactions per report.  Rows of other sessions and      *)
(* sources are other keys of the same tables and do not interact.          *)
(*                                                                         *)
(* Turns are numbered, and so stand for their own id, prompt, answer and   *)
(* tool call; 0 is None.  The working directory, the model and the         *)
(* transcript path are of the session and never change here; events that   *)
(* carry nothing else (SessionStart, PreToolUse) are left out.             *)
(***************************************************************************)
EXTENDS Naturals, Sequences, FiniteSets, SequencesExt

CONSTANTS
  MaxTurn,   \* bound on the turns of the session
  MaxEvents  \* bound on its lifecycle events

ASSUME BoundAssumption == MaxTurn \in Nat /\ MaxEvents \in Nat

VARIABLES
  now,       \* the newest lifecycle event of the session
  events,    \* how many there have been
  hook,      \* what the hook of that event is doing
  reports,   \* reports sent, and how far their handlers have come
  delayed,   \* turns whose request is still on its way
  row,       \* the row of connector_sessions
  log,       \* connector_events, in the order of seq
  source,    \* the mode in the row of presence_sources
  shown,     \* the row of presence_sessions
  contexts,  \* the session contexts stored in requests
  history    \* history: what has gone wrong so far

registry == <<row, log, source, shown, contexts>>
svars == <<now, events, hook, reports, delayed, registry, history>>

-----------------------------------------------------------------------------
(* The runtime and its events.                                             *)

Name == {"UserPromptSubmit", "PermissionRequest", "PostToolUse", "Stop", "SessionEnd"}

\* Which events may follow one; a prompt opens the next turn.
Follow(name) ==
  CASE name = "UserPromptSubmit"  -> {"PermissionRequest", "Stop", "SessionEnd"}
    [] name = "PermissionRequest" -> {"PostToolUse", "Stop"}
    [] name = "PostToolUse"       -> {"Stop", "SessionEnd"}
    [] name = "Stop"              -> {"UserPromptSubmit", "SessionEnd"}
    [] name = "SessionEnd"        -> {"UserPromptSubmit"}

\* The fields an observer fills in.
Prompt(e) == IF e.name = "UserPromptSubmit" THEN e.turn ELSE 0
Answer(e) == IF e.name = "Stop" THEN e.turn ELSE 0
Call(e)   == IF e.name \in {"PermissionRequest", "PostToolUse"} THEN e.turn ELSE 0
Turn(e)   == IF e.name = "SessionEnd" THEN 0 ELSE e.turn

\* _presence_state_for_event.
StateOf(e) ==
  CASE e.name = "UserPromptSubmit"         -> "running"
    [] e.name = "PermissionRequest"        -> "waiting_human"
    [] e.name \in {"PostToolUse", "Stop"}  -> "completed"
    [] e.name = "SessionEnd"               -> "offline"

\* "human decision required", or nothing.
Reason(e) == StateOf(e) = "waiting_human"

NoRow == [status |-> "none", turn |-> 0, prompt |-> 0, answer |-> 0, call |-> 0]
NoPresence == [state |-> "none", reason |-> FALSE, turn |-> 0, call |-> 0,
               user |-> 0, agent |-> 0, action |-> 0]

\* What a worker for another kind of source posts to presence_update.
Posted == [NoPresence EXCEPT !.state = "failed"]

SInit ==
  /\ now = [name |-> "Stop", turn |-> 0]
  /\ events = 0 /\ hook = "idle"
  /\ reports = {} /\ delayed = {}
  /\ row = NoRow /\ log = <<>> /\ source = "none" /\ shown = NoPresence
  /\ contexts = {}
  /\ history = [lost |-> FALSE, late |-> FALSE, overlapped |-> FALSE]

\* What the hook of e does once its report is answered or given up.
AfterReport(e) == IF e.name = "PermissionRequest" THEN "asking" ELSE "idle"

\* The next event: its hook calls observe_event.
Happen(name) ==
  LET e == [name |-> name,
            turn |-> IF name = "UserPromptSubmit" THEN now.turn + 1 ELSE now.turn]
  IN  /\ hook = "idle" /\ events < MaxEvents
      /\ name \in Follow(now.name) /\ e.turn \in 1 .. MaxTurn
      /\ now' = e /\ events' = events + 1
      /\ hook' = "observing"
      /\ reports' = reports \cup {[event |-> e, at |-> "sent"]}
      /\ UNCHANGED <<delayed, registry, history>>

\* 0.8 seconds have passed.
StopWaiting ==
  /\ hook = "observing"
  /\ hook' = AfterReport(now)
  /\ history' = [history EXCEPT !.late = TRUE]
  /\ UNCHANGED <<now, events, reports, delayed, registry>>

\* The hook that waits for r goes on.
Released(r) == IF hook = "observing" /\ r.event = now THEN AfterReport(now) ELSE hook

\* A report never arrives.
LoseReport(r) ==
  /\ r.at = "sent"
  /\ reports' = reports \ {r}
  /\ hook' = Released(r)
  /\ history' = [history EXCEPT !.lost = TRUE]
  /\ UNCHANGED <<now, events, delayed, registry>>

-----------------------------------------------------------------------------
(* POST /v1/connectors/events.                                             *)

\* COALESCE(new, old).
Coalesce(new, old) == IF new = 0 THEN old ELSE new

\* Mutation: the arguments of COALESCE the other way round.
MergedFirst(r, e) ==
  [status |-> IF e.name = "SessionEnd" THEN "ended" ELSE "active",
   turn   |-> Coalesce(Turn(e), r.turn),
   prompt |-> Coalesce(r.prompt, Prompt(e)),
   answer |-> Coalesce(Answer(e), r.answer),
   call   |-> Coalesce(Call(e), r.call)]

\* The session row after a report.
Merged(r, e) ==
  [status |-> IF e.name = "SessionEnd" THEN "ended" ELSE "active",
   turn   |-> Coalesce(Turn(e), r.turn),
   prompt |-> Coalesce(Prompt(e), r.prompt),
   answer |-> Coalesce(Answer(e), r.answer),
   call   |-> Coalesce(Call(e), r.call)]

\* Mutation: waiting_reason is kept like the text columns.
UpdatedReason(p, e) ==
  [state |-> StateOf(e), reason |-> Reason(e) \/ p.reason, turn |-> Turn(e), call |-> Call(e),
   user   |-> Coalesce(Prompt(e), p.user),
   agent  |-> Coalesce(Answer(e), p.agent),
   action |-> Coalesce(Call(e), p.action)]

\* The presence row after a report.
Updated(p, e) ==
  [state |-> StateOf(e), reason |-> Reason(e), turn |-> Turn(e), call |-> Call(e),
   user   |-> Coalesce(Prompt(e), p.user),
   agent  |-> Coalesce(Answer(e), p.agent),
   action |-> Coalesce(Call(e), p.action)]

InHandler == {r \in reports : r.at # "sent"}

\* ConnectorRegistry.record: the session row and the event, in one transaction.
RecordReport(r) ==
  /\ r.at = "sent"
  /\ row' = Merged(row, r.event)
  /\ log' = Append(log, r.event)
  /\ reports' = (reports \ {r}) \cup {[r EXCEPT !.at = "recorded"]}
  /\ history' = [history EXCEPT !.overlapped = @ \/ InHandler # {}]
  /\ UNCHANGED <<now, events, hook, delayed, source, shown, contexts>>

\* PresenceRegistry.upsert_source, whatever the operator had configured.
UpsertSource(r) ==
  /\ r.at = "recorded"
  /\ source' = "native-connector"
  /\ reports' = (reports \ {r}) \cup {[r EXCEPT !.at = "sourced"]}
  /\ UNCHANGED <<now, events, hook, delayed, row, log, shown, contexts, history>>

\* PresenceRegistry.update, and the answer.
UpdatePresence(r) ==
  /\ r.at = "sourced"
  /\ shown' = Updated(shown, r.event)
  /\ reports' = reports \ {r}
  /\ hook' = Released(r)
  /\ UNCHANGED <<now, events, delayed, row, log, source, contexts, history>>

\* The Gateway dies and comes back: its handlers and unread requests are gone.
GatewayRestarts ==
  /\ reports # {}
  /\ reports' = {}
  /\ hook' = IF \E r \in reports : r.event = now THEN Released([event |-> now]) ELSE hook
  /\ history' = [lost |-> history.lost \/ \E r \in reports : r.at = "sent",
                 late |-> history.late,
                 overlapped |-> history.overlapped \/ InHandler # {}]
  /\ UNCHANGED <<now, events, delayed, registry>>

\* POST /v1/presence/sessions by somebody else.
PostPresence ==
  /\ shown' = [Posted EXCEPT !.user = shown.user, !.agent = shown.agent,
                             !.action = shown.action]
  /\ UNCHANGED <<now, events, hook, reports, delayed, row, log, source, contexts, history>>

\* humanq source add.
AddSource ==
  /\ source' = "configured"
  /\ UNCHANGED <<now, events, hook, reports, delayed, row, log, shown, contexts, history>>

-----------------------------------------------------------------------------
(* POST /v1/requests: a request takes the session row along.               *)

\* What enrich_with_session_context takes of the row: not the tool call, which
\* the request brings itself.  The context of NoRow stands for none.
SessionContext(r) ==
  [status |-> r.status, turn |-> r.turn, prompt |-> r.prompt, answer |-> r.answer]

\* enrich_with_session_context, and the creation.  A retried creation finds the
\* request there and changes nothing.
Enrich(turn, punctual) ==
  contexts' = contexts \cup
                {[of |-> turn, context |-> SessionContext(row), punctual |-> punctual]}

\* The hook asks, and waits for the decision.
CreateRequest ==
  /\ hook = "asking"
  /\ Enrich(now.turn, ~history.late)
  /\ hook' = "idle"
  /\ UNCHANGED <<now, events, reports, delayed, row, log, source, shown, history>>

\* The hook gives up, and its request may still arrive.
GiveUpAsking ==
  /\ hook = "asking"
  /\ hook' = "idle"
  /\ delayed' = delayed \cup {now.turn}
  /\ UNCHANGED <<now, events, reports, registry, history>>

CreateLate(turn) ==
  /\ turn \in delayed
  /\ Enrich(turn, FALSE)
  /\ delayed' = delayed \ {turn}
  /\ UNCHANGED <<now, events, hook, reports, row, log, source, shown, history>>

-----------------------------------------------------------------------------
Handler ==
  \E r \in reports : RecordReport(r) \/ UpsertSource(r) \/ UpdatePresence(r) \/ LoseReport(r)

SNext ==
  \/ \E name \in Name : Happen(name)
  \/ StopWaiting
  \/ Handler
  \/ GatewayRestarts
  \/ PostPresence
  \/ AddSource
  \/ CreateRequest
  \/ GiveUpAsking
  \/ \E turn \in delayed : CreateLate(turn)

SSpec == SInit /\ [][SNext]_svars

-----------------------------------------------------------------------------
(* Properties.                                                             *)

\* What an event reports, and the newest value of a field that was reported.
Fields(e) == [turn |-> Turn(e), prompt |-> Prompt(e), answer |-> Answer(e), call |-> Call(e)]
Given(f, l) == {n \in DOMAIN l : Fields(l[n])[f] # 0}
Newest(f, l) == IF Given(f, l) = {} THEN 0 ELSE Fields(l[Max(Given(f, l))])[f]

\* Every column of a session row is the newest value of its own field.
FitsLog(r, l) ==
  /\ \A f \in {"turn", "prompt", "answer", "call"} : r[f] = Newest(f, l)
  /\ r.status = "ended" <=> l # <<>> /\ Last(l).name = "SessionEnd"

\* The context stored in a request that was asked in time, with no report of the
\* session overdue, names no later turn, an own or an older prompt and an
\* earlier answer; where no report was lost either, it is of an active session
\* and exactly of the turn the request is asked in.
ContextOfItsTurn ==
  \A c \in contexts : c.punctual =>
    /\ c.context.prompt <= c.context.turn /\ c.context.turn <= c.of
    /\ c.context.answer < c.of
    /\ ~history.lost => /\ c.context.turn = c.of /\ c.context.prompt = c.of
                        /\ c.context.status = "active"

\* State, waiting reason and native ids of a session are shown.
Shows(e) ==
  /\ shown.state = StateOf(e) /\ shown.reason = Reason(e)
  /\ shown.turn = Turn(e) /\ shown.call = Call(e)

ShowsPosted ==
  /\ shown.state = Posted.state /\ shown.reason = Posted.reason
  /\ shown.turn = 0 /\ shown.call = 0

\* A presence row always shows one event that is on record, never parts of two,
\* and when no handler is at work, none overlapped and none died, it shows the
\* newest, unless it was posted by somebody else.
PresenceIsNewestReport ==
  shown # NoPresence =>
    \/ ShowsPosted
    \/ /\ \E n \in DOMAIN log : Shows(log[n])
       /\ InHandler = {} /\ ~history.overlapped => Shows(log[Len(log)])
=============================================================================
