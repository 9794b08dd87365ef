----------------------------- MODULE CodexProof ------------------------------
(***************************************************************************)
(* `humanq prove codex` (humanqueue/cli.py): the command that captures one *)
(* new Codex boundary, waits for its resolution, and takes a PostToolUse   *)
(* event as the evidence that Codex consumed the approval.  It watches the *)
(* hooks of NativeHook through the Gateway, while the observers of Codex   *)
(* report what happens to the connector registry                           *)
(* (app/connector_registry.py).                                            *)
(*                                                                         *)
(* An observer waits 0.8 seconds and ignores every failure, so a report is *)
(* recorded at once, later than its successors, or never.  The registry    *)
(* numbers reports as they come; the last 100 of a session, which the      *)
(* command reads, are all of them here.  Every hook stands for one tool    *)
(* call, whose call id is its own.                                         *)
(***************************************************************************)
EXTENDS NativeHook

VARIABLES
  log,       \* connector_events, in the order of seq
  transit,   \* reports that may still arrive
  ran,       \* tool calls Codex has executed
  stage,     \* where the command is
  baseline,  \* requests that were pending when it started
  captured,  \* the request it watches, 0 for none
  boundary,  \* boundary_seq
  evidence   \* post_tool_event_seq, 0 for none

proofVars == <<stage, baseline, captured, boundary, evidence>>
pvars == <<hvars, log, transit, ran, proofVars>>

PInit ==
  /\ HInit
  /\ log = <<>> /\ transit = {} /\ ran = {}
  /\ stage = "idle" /\ baseline = {} /\ captured = 0
  /\ boundary = 0 /\ evidence = 0

-----------------------------------------------------------------------------
(* Codex and its observers.                                                *)

\* What observe_event reports about e.
Report(name, e) ==
  [name |-> name, session |-> e.session, turn |-> e.turn, tool |-> e.tool,
   call |-> e.call]

\* observe_event posts, and ConnectorRegistry.record appends, or the report is
\* on its way for longer than anybody waits.  Without a session nothing is sent.
Observe(name, e) ==
  \/ e.session # Missing /\ log' = Append(log, Report(name, e)) /\ UNCHANGED transit
  \/ e.session # Missing /\ transit' = transit \cup {Report(name, e)} /\ UNCHANGED log
  \/ e.session = Missing /\ UNCHANGED <<log, transit>>

\* A report arrives after all.
ArriveLate(m) ==
  /\ m \in transit
  /\ log' = Append(log, m)
  /\ transit' = transit \ {m}
  /\ UNCHANGED <<hvars, ran, proofVars>>

NewCall(e) == \A h \in Hook : event[h] # NoEvent => event[h].call # e.call

\* A tool call needs permission: permission_request reports, then asks.
AskBoundary(h, e) ==
  /\ NewCall(e)
  /\ AskHuman(h, e) \/ AskFails(h, e)
  /\ Observe("PermissionRequest", e)
  /\ UNCHANGED <<ran, proofVars>>

\* A tool call that needs no permission is executed.
RunUnasked(h, e) ==
  /\ NewCall(e)
  /\ phase[h] = "idle"
  /\ event' = [event EXCEPT ![h] = e]
  /\ phase' = [phase EXCEPT ![h] = "done"]
  /\ ran' = ran \cup {h}
  /\ Observe("PostToolUse", e)
  /\ UNCHANGED <<vars, request, told, raisedBy, proofVars>>

\* A tool call is executed on the hook's word or, where the hook has none, on
\* that of Codex's own prompt.
Run(h) ==
  /\ told[h] \in {"allow", Fallback}
  /\ h \notin ran
  /\ ran' = ran \cup {h}
  /\ Observe("PostToolUse", event[h])
  /\ UNCHANGED <<hvars, proofVars>>

-----------------------------------------------------------------------------
(* The command.                                                            *)

\* Readiness is green; what is pending now is not looked at later.
Start ==
  /\ stage = "idle"
  /\ baseline' = {i \in Id : status[i] = "pending"}
  /\ stage' = "watch"
  /\ UNCHANGED <<hvars, log, transit, ran, captured, boundary, evidence>>

\* A pending Codex request that was not there before.
Candidate(i) == status[i] = "pending" /\ i \notin baseline

\* The first candidate; without a native turn the command gives up.  A missing
\* session is called "unknown" by then, and the registry does not know it.
Capture(i) ==
  /\ stage = "watch"
  /\ Candidate(i)
  /\ captured' = i
  /\ stage' = IF raisedBy[i].turn = Missing THEN "refused" ELSE "read"
  /\ UNCHANGED <<hvars, log, transit, ran, baseline, boundary, evidence>>

\* Mutation: any turn of the session will do.
MatchesTool(m, name, e) ==
  m.name = name /\ m.session = e.session /\ m.tool = e.tool

\* Same turn and tool; the call id is not compared.
Matches(m, name, e) ==
  m.name = name /\ m.session = e.session /\ m.turn = e.turn /\ m.tool = e.tool

Last(s) == CHOOSE n \in s \cup {0} : \A k \in s : k <= n

\* boundary_seq: the newest PermissionRequest of the turn and tool, 0 if none
\* has been recorded.  A session the registry does not know ends the command.
ReadBoundary ==
  LET e == raisedBy[captured]
  IN  /\ stage = "read"
      /\ IF \E n \in DOMAIN log : log[n].session = e.session
         THEN /\ boundary' = Last({n \in DOMAIN log : Matches(log[n], "PermissionRequest", e)})
              /\ stage' = "resolution"
         ELSE stage' = "refused" /\ UNCHANGED boundary
      /\ UNCHANGED <<hvars, log, transit, ran, baseline, captured, evidence>>

Approved(i) == status[i] = "resolved" /\ resolution[i].decision \in Approving

\* The captured request is closed.
SeeResolution ==
  /\ stage = "resolution"
  /\ status[captured] \in Terminal
  /\ stage' = IF Approved(captured) THEN "post" ELSE "notproved"
  /\ UNCHANGED <<hvars, log, transit, ran, baseline, captured, boundary, evidence>>

\* _codex_post_tool_proof: the events come newest first.
FindPost ==
  LET found == {n \in DOMAIN log : n > boundary
                  /\ Matches(log[n], "PostToolUse", raisedBy[captured])}
  IN  /\ stage = "post"
      /\ \E n \in found : (\A k \in found : k <= n) /\ evidence' = n
      /\ stage' = "verified"
      /\ UNCHANGED <<hvars, log, transit, ran, baseline, captured, boundary>>

\* The deadline, or a read that fails.
GiveUpProof ==
  /\ stage \in {"watch", "read", "resolution", "post"}
  /\ stage' = "notproved"
  /\ UNCHANGED <<hvars, log, transit, ran, baseline, captured, boundary, evidence>>

-----------------------------------------------------------------------------
Codex ==
  \/ \E h \in Hook, e \in Event : AskBoundary(h, e)
  \/ \E h \in Hook, e \in Event : RunUnasked(h, e)
  \/ \E h \in Hook : Run(h)
  \/ \E m \in transit : ArriveLate(m)
  \/ /\ Others \/ \E h \in Hook : HearAnswer(h) \/ WaitFails(h)
     /\ UNCHANGED <<log, transit, ran, proofVars>>

PNext ==
  \/ Codex
  \/ Start
  \/ \E i \in Id : Capture(i)
  \/ ReadBoundary
  \/ SeeResolution
  \/ FindPost
  \/ GiveUpProof

PSpec == PInit /\ [][PNext]_pvars

-----------------------------------------------------------------------------
(* Properties.                                                             *)

\* Another tool call of the same turn and tool.
Rivals(h) ==
  {g \in Hook \ {h} : /\ event[g] # NoEvent
                      /\ event[g].session = event[h].session
                      /\ event[g].turn = event[h].turn
                      /\ event[g].tool = event[h].tool}

Own(i) == {h \in Hook : event[h] = raisedBy[i]}

\* A receipt says verified only if a person approved a boundary that is newer
\* than the command, and a tool call of its session, turn and tool was executed
\* and reported.  It was the captured call itself where no other call of the
\* same turn and tool exists: lost, late and reordered reports delay a receipt
\* or prevent it, but only rivals can stand in for the call.
ReceiptIsSound ==
  stage = "verified" =>
    /\ captured \notin baseline
    /\ Approved(captured) /\ Backed(captured) /\ resolution[captured].kind = "human"
    /\ log[evidence].name = "PostToolUse"
    /\ \E h \in ran :
         /\ event[h].call = log[evidence].call
         /\ \A g \in Own(captured) : h = g \/ h \in Rivals(g)
=============================================================================
