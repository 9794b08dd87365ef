----------------------------- MODULE CodexTrust ------------------------------
(***************************************************************************)
(* `humanq trust codex` (trust_codex_hook of humanqueue/connectors/codex.py*)
(* beside the commands of LocalFiles.  Codex keeps, for the place of every *)
(* handler, the hash it was trusted with.  The command asks Codex for its  *)
(* hook, reads hooks.json itself, has Codex trust the hash it was told, and*)
(* asks again; hooks.json may change between any two of these steps.       *)
(*                                                                         *)
(* Codex is not part of the repository.  Its key is the place of a handler,*)
(* its hash the handler itself, which for a hook of humanq is the runtime  *)
(* in its command.  "managed" is left out: it counts as trusted.           *)
(***************************************************************************)
EXTENDS LocalFiles

CONSTANT NoHash

VARIABLES
  trusted,  \* trusted[k]: the hash Codex trusts at place k
  seen,     \* seen[p]: what p was told by its first inventory
  verdict,  \* verdict[p]: what p reports
  rewrites, \* rewrites[p]: changes of hooks.json since then, up to Rewritten
  lastHash  \* lastHash[p]: our handler in hooks.json when p reported

trustVars == <<trusted, seen, verdict, rewrites, lastHash>>
tvars == <<lvars, trustVars>>

Rewritten == 2  \* bound: more changes are not told apart
Place == 1..(Cardinality(Foreign) + 1)

\* The permission hook Codex reports: its key, hash and trust status.
Nothing == [key |-> 0, hash |-> NoHash, status |-> "unknown"]
Inventory(file) ==
  IF ~Parsed(file) \/ Ours(file) = <<>> THEN Nothing
  ELSE LET k == CHOOSE n \in DOMAIN file : file[n] \in Runtime
       IN  [key |-> k, hash |-> file[k],
            status |-> IF trusted[k] = file[k] THEN "trusted"
                       ELSE IF trusted[k] = NoHash THEN "untrusted" ELSE "modified"]

TInit ==
  /\ LInit
  /\ trusted = [k \in Place |-> NoHash]
  /\ seen = [p \in Process |-> Nothing]
  /\ verdict = [p \in Process |-> "none"]
  /\ rewrites = [p \in Process |-> 0]
  /\ lastHash = [p \in Process |-> NoHash]

Reports(p, v) ==
  /\ Goes(p, IF v = "refused" THEN "failed" ELSE "done")
  /\ verdict' = [verdict EXCEPT ![p] = v]
  /\ lastHash' = [lastHash EXCEPT ![p] = Inventory(hooks).hash]

\* codex_readiness asks the app-server first.
FirstInventory(p) ==
  /\ at[p] = "inventory"
  /\ seen' = [seen EXCEPT ![p] = Inventory(hooks)]
  /\ rewrites' = [rewrites EXCEPT ![p] = 0]
  /\ Goes(p, "look")
  /\ UNCHANGED <<config, hooks, backup, cmd, after, mem, alone, theirs, saved, raced,
                 trusted, verdict, lastHash>>

\* hook_command_matches_current_runtime
MatchesRuntime(p) == Parsed(hooks) /\ cmd[p].arg \in ToSet(Ours(hooks))

\* Then it reads hooks.json, and trust_codex_hook decides.
LookAtFile(p) ==
  /\ at[p] = "look"
  /\ IF ~MatchesRuntime(p) \/ seen[p].key = 0 THEN Reports(p, "refused")
     ELSE IF seen[p].status = "trusted" THEN Reports(p, "already")
     ELSE Goes(p, "endorse") /\ UNCHANGED <<verdict, lastHash>>
  /\ UNCHANGED <<config, hooks, backup, cmd, after, mem, alone, theirs, saved, raced,
                 trusted, seen, rewrites>>

\* _codex_native_write_trust: Codex upserts the hash it had reported.
WriteTrust(p) ==
  /\ at[p] = "endorse"
  /\ trusted' = [trusted EXCEPT ![seen[p].key] = seen[p].hash]
  /\ Goes(p, "confirm")
  /\ UNCHANGED <<config, hooks, backup, cmd, after, mem, alone, theirs, saved, raced,
                 seen, verdict, rewrites, lastHash>>

\* Mutation: a written trust is taken for granted.
VerifiedBlind(p, now) == TRUE

\* The second inventory shows the same key and hash, and now Codex trusts it.
Verified(p, now) ==
  now.key = seen[p].key /\ now.hash = seen[p].hash /\ now.status = "trusted"

Confirm(p) ==
  /\ at[p] = "confirm"
  /\ Reports(p, IF Verified(p, Inventory(hooks)) THEN "changed" ELSE "refused")
  /\ UNCHANGED <<config, hooks, backup, cmd, after, mem, alone, theirs, saved, raced,
                 trusted, seen, rewrites>>

\* The app-server reports an error or does not answer in time; a trust it was
\* asked for may have been written all the same.
AskingFails(p) ==
  /\ at[p] \in {"inventory", "endorse", "confirm"}
  /\ Reports(p, "refused")
  /\ \/ UNCHANGED trusted
     \/ /\ at[p] = "endorse"
        /\ trusted' = [trusted EXCEPT ![seen[p].key] = seen[p].hash]
  /\ UNCHANGED <<config, hooks, backup, cmd, after, mem, alone, theirs, saved, raced,
                 seen, rewrites>>

\* The user reviews the hook in Codex.
UserTrusts ==
  /\ Inventory(hooks).key # 0
  /\ trusted' = [trusted EXCEPT ![Inventory(hooks).key] = Inventory(hooks).hash]
  /\ UNCHANGED <<lvars, seen, verdict, rewrites, lastHash>>

\* Other commands and the owner of hooks.json, whose changes are counted for
\* those who look at the file.
Changes ==
  /\ LNext
  /\ rewrites' = [p \in Process |->
       IF at[p] \in {"look", "endorse", "confirm"} /\ hooks' # hooks /\ Parsed(hooks')
            /\ rewrites[p] < Rewritten
         THEN rewrites[p] + 1 ELSE rewrites[p]]
  /\ UNCHANGED <<trusted, seen, verdict, lastHash>>

TNext ==
  \/ Changes
  \/ \E p \in Process :
       FirstInventory(p) \/ LookAtFile(p) \/ WriteTrust(p) \/ Confirm(p) \/ AskingFails(p)
  \/ UserTrusts

TSpec == TInit /\ [][TNext]_tvars

-----------------------------------------------------------------------------
(* Properties.                                                             *)

\* A command that reports the hook of its runtime as trusted speaks of the hook
\* that is in hooks.json at that time and was trusted, unless the file was
\* changed under it: once is enough where Codex trusted the hook before, but a
\* trust that was written survives no single change, and needs two to be that
\* of another runtime.
TrustFitsRuntime ==
  \A p \in Process : verdict[p] \in {"already", "changed"} =>
    /\ seen[p].hash = cmd[p].arg \/ rewrites[p] >= IF verdict[p] = "changed" THEN 2 ELSE 1
    /\ verdict[p] = "changed" => lastHash[p] = seen[p].hash
=============================================================================
