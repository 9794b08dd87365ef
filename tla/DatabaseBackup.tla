--------------------------- MODULE DatabaseBackup ----------------------------
(***************************************************************************)
(* humanq db backup (app/sqlite_utils.py): processes that copy the live    *)
(* database of SessionRegistry to one destination, while the Gateway       *)
(* writes, somebody else puts files there or removes them, the disk of     *)
(* the Gateway may fail, and a backup may be killed between any two steps. *)
(*                                                                         *)
(* The database is its session row and its event log here, the two tables  *)
(* one transaction writes.  SQLite copies all pages under one read lock,   *)
(* so a copy is of one moment; a damaged page is copied as it is.          *)
(***************************************************************************)
EXTENDS SessionRegistry

CONSTANTS
  Backup,     \* processes running the command
  NoFile      \* nothing at a path

VARIABLES
  damaged,    \* a page of the live database is damaged
  dst,        \* the file at the destination
  temp,       \* the temporary file of each process
  stage,      \* where each process is
  force,      \* --force
  late        \* history: the file came after a process's second look

fileVars == <<damaged, dst, temp, stage, force, late>>
bvars == <<svars, fileVars>>

\* A file of the owner's, that no backup made.
Foreign == [intact |-> FALSE, row |-> NoRow, log |-> <<>>, made |-> FALSE]

BInit ==
  /\ SInit
  /\ damaged = FALSE /\ dst = NoFile
  /\ temp = [p \in Backup |-> NoFile]
  /\ stage \in [Backup -> {"absent", "start"}]
  /\ force \in [Backup -> BOOLEAN]
  /\ late = [p \in Backup |-> FALSE]

-----------------------------------------------------------------------------
\* The database at this moment, as source_conn.backup copies it.
Snapshot == [intact |-> ~damaged, row |-> row, log |-> log, made |-> TRUE]

\* Another file is at the destination now.
Arrives(file) ==
  /\ dst' = file
  /\ late' = [p \in Backup |-> stage[p] = "publish"]

\* Mutation: the result of quick_check is not looked at.
PassesAlways(file) == TRUE

\* check_database: quick_check says "ok".
Passes(file) == file.intact

\* Mutation: the second look at the destination is left out.
FreeOnce(p) == stage[p] = "recheck" \/ dst = NoFile \/ force[p]

\* A default-mode backup goes on only where there is no file.
Free(p) == dst = NoFile \/ force[p]

Goes(p, s) == stage' = [stage EXCEPT ![p] = s]

\* An exception, and the finally clause that removes the temporary file.
Fail(p) ==
  /\ Goes(p, "failed")
  /\ temp' = [temp EXCEPT ![p] = NoFile]

\* The first look at the destination.
Begin(p) ==
  /\ stage[p] = "start"
  /\ Goes(p, IF Free(p) THEN "copy" ELSE "failed")
  /\ UNCHANGED <<svars, damaged, dst, temp, force, late>>

Copy(p) ==
  /\ stage[p] = "copy"
  /\ temp' = [temp EXCEPT ![p] = Snapshot]
  /\ Goes(p, "verify")
  /\ UNCHANGED <<svars, damaged, dst, force, late>>

\* The copy itself may fail on a full disk or an unreadable page.
CopyFails(p) ==
  /\ stage[p] = "copy"
  /\ Fail(p)
  /\ UNCHANGED <<svars, damaged, dst, force, late>>

Verify(p) ==
  /\ stage[p] = "verify"
  /\ \/ Passes(temp[p]) /\ Goes(p, "recheck") /\ UNCHANGED temp
     \/ ~Passes(temp[p]) /\ Fail(p)
  /\ UNCHANGED <<svars, damaged, dst, force, late>>

\* The second look, just before publication.
Recheck(p) ==
  /\ stage[p] = "recheck"
  /\ \/ Free(p) /\ Goes(p, "publish") /\ UNCHANGED temp
     \/ ~Free(p) /\ Fail(p)
  /\ UNCHANGED <<svars, damaged, dst, force, late>>

\* os.replace.
Publish(p) ==
  /\ stage[p] = "publish"
  /\ Arrives(temp[p])
  /\ temp' = [temp EXCEPT ![p] = NoFile]
  /\ Goes(p, "report")
  /\ UNCHANGED <<svars, damaged, force>>

\* Size and hash are read from the destination, whatever is there by now; if
\* nothing is, the command fails although it has published.
ReportBackup(p) ==
  /\ stage[p] = "report"
  /\ Goes(p, IF dst = NoFile THEN "failed" ELSE "done")
  /\ UNCHANGED <<svars, damaged, dst, temp, force, late>>

\* A process is killed; its temporary file stays.
Kill(p) ==
  /\ stage[p] \in {"copy", "verify", "recheck", "publish", "report"}
  /\ Goes(p, "killed")
  /\ UNCHANGED <<svars, damaged, dst, temp, force, late>>

\* The owner of the directory.
OwnerPuts ==
  /\ Arrives(Foreign)
  /\ UNCHANGED <<svars, damaged, temp, stage, force>>
OwnerRemoves ==
  /\ dst # NoFile /\ dst' = NoFile
  /\ UNCHANGED <<svars, damaged, temp, stage, force, late>>

Damage ==
  /\ ~damaged /\ damaged' = TRUE
  /\ UNCHANGED <<svars, dst, temp, stage, force, late>>

-----------------------------------------------------------------------------
Present == \E p \in Backup : stage[p] # "absent"

BackupStep(p) ==
  Begin(p) \/ Copy(p) \/ CopyFails(p) \/ Verify(p) \/ Recheck(p) \/ Publish(p)
    \/ ReportBackup(p) \/ Kill(p)

Files ==
  /\ Present
  /\ (\E p \in Backup : BackupStep(p)) \/ OwnerPuts \/ OwnerRemoves \/ Damage

BNext == (SNext /\ UNCHANGED fileVars) \/ Files

BSpec == BInit /\ [][BNext]_bvars

-----------------------------------------------------------------------------
(* Properties.                                                             *)

\* The session row is what its events make it, in the live database and in every
\* backup; and a file a backup has put at the destination has passed the check,
\* whatever was damaged, killed or replaced meanwhile.
BackupsFitTheirLog ==
  /\ FitsLog(row, log)
  /\ dst # NoFile /\ dst.made => dst.intact /\ FitsLog(dst.row, dst.log)

\* self-host.md: an existing destination is not replaced by default.  A
\* default-mode backup replaces no file that was there at its second look, so
\* that only a file that comes between that look and os.replace is lost.
KeepsWhatWasThere ==
  [][\A p \in Backup :
       stage[p] = "publish" /\ stage'[p] = "report" /\ ~force[p] =>
         dst = NoFile \/ late[p]]_bvars
=============================================================================
