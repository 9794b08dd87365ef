------------------------ MODULE DatabaseBackupProofs -------------------------
(***************************************************************************)
(* Theorems about SessionRegistry and the backups of DatabaseBackup beside *)
(* it, for every number of turns, events and backup processes.  The session*)
(* alone is the case that no backup is present.                            *)
(***************************************************************************)
EXTENDS DatabaseBackup, TLAPS

-----------------------------------------------------------------------------
(* Types.                                                                  *)

Event == [name : Name, turn : Nat]
Report == [event : Event, at : {"sent", "recorded", "sourced"}]
Row == [status : {"none", "active", "ended"}, turn : Nat, prompt : Nat, answer : Nat, call : Nat]
Context == [status : {"none", "active", "ended"}, turn : Nat, prompt : Nat, answer : Nat]

SessionTypeOK ==
  /\ now \in Event /\ events \in Nat /\ hook \in {"idle", "observing", "asking"}
  /\ reports \subseteq Report /\ delayed \subseteq Nat
  /\ row \in Row /\ log \in Seq(Event) /\ source \in {"none", "configured", "native-connector"}
  /\ shown \in [state : {"none", "running", "waiting_human", "completed", "offline", "failed"},
                reason : BOOLEAN, turn : Nat, call : Nat, user : Nat, agent : Nat, action : Nat]
  /\ contexts \subseteq [of : Nat, context : Context, punctual : BOOLEAN]
  /\ history \in [lost : BOOLEAN, late : BOOLEAN, overlapped : BOOLEAN]

File == [intact : BOOLEAN, row : Row, log : Seq(Event), made : BOOLEAN]

BackupTypeOK ==
  /\ damaged \in BOOLEAN /\ dst \in File \cup {NoFile}
  /\ temp \in [Backup -> File \cup {NoFile}]
  /\ stage \in [Backup -> {"absent", "start", "copy", "verify", "recheck", "publish", "report",
                           "done", "failed", "killed"}]
  /\ force \in [Backup -> BOOLEAN] /\ late \in [Backup -> BOOLEAN]

-----------------------------------------------------------------------------
(* Inductive invariants.                                                   *)

\* A field that was reported at all was reported last by some event.
HasNewest(l) ==
  \A f \in {"turn", "prompt", "answer", "call"} :
    Given(f, l) = {} \/ \E n \in Given(f, l) : \A m \in Given(f, l) : m <= n

\* Row and log agree in the database and in every file made of it; a file that
\* goes on to its publication has passed the check.
FilesInv ==
  /\ HasNewest(log) /\ FitsLog(row, log)
  /\ dst # NoFile /\ dst.made => dst.intact /\ FitsLog(dst.row, dst.log)
  /\ \A p \in Backup :
       /\ stage[p] \in {"verify", "recheck", "publish"} => FitsLog(temp[p].row, temp[p].log)
       /\ stage[p] \in {"recheck", "publish"} => temp[p].intact

\* Past its second look a default-mode backup has seen all there was.
LookedInv ==
  \A p \in Backup : stage[p] = "publish" /\ ~force[p] => dst = NoFile \/ late[p]

\* A session whose hooks have waited for their answers: one report at a time.
OneReport ==
  /\ hook = "asking" => now.name = "PermissionRequest"
  /\ ~history.late =>
       IF hook = "observing"
       THEN now.turn # 0 /\ \E r \in reports : reports = {r} /\ r.event = now
       ELSE reports = {}

\* The newest event is in the row, or was lost.
Recorded == \A r \in reports : r.at # "sent"

\* Without reports that nobody waited for, the row grows with the turns, and
\* without lost ones it is up to date.
RowInv ==
  /\ ~history.late =>
       /\ row.prompt <= row.turn /\ row.turn <= now.turn /\ row.answer <= now.turn
       /\ now.name \in {"UserPromptSubmit", "PermissionRequest", "PostToolUse"} =>
            row.answer < now.turn
  /\ ~history.late /\ ~history.lost =>
       /\ row.prompt = row.turn
       /\ row.turn = IF Recorded \/ now.name # "UserPromptSubmit" THEN now.turn ELSE now.turn - 1
       /\ Recorded /\ now.name = "PermissionRequest" => row.status = "active"

\* Reports in a handler are on record; without overlap there is one of them, and
\* it is the newest on record.
HandlerInv ==
  /\ \A r \in InHandler : \E n \in DOMAIN log : log[n] = r.event
  /\ ~history.overlapped =>
       /\ \A r, q \in InHandler : r = q
       /\ \A r \in InHandler : r.event = log[Len(log)]
-----------------------------------------------------------------------------
(* Types are kept.                                                         *)

LEMMA EventTyped ==
  ASSUME NEW e \in Event
  PROVE  /\ Turn(e) \in Nat /\ Prompt(e) \in Nat /\ Answer(e) \in Nat /\ Call(e) \in Nat
         /\ StateOf(e) \in {"running", "waiting_human", "completed", "offline"}
         /\ Reason(e) \in BOOLEAN
BY DEF Event, Name, Turn, Prompt, Answer, Call, StateOf, Reason

LEMMA MergedTyped ==
  ASSUME NEW r \in Row, NEW e \in Event
  PROVE  Merged(r, e) \in Row
BY EventTyped DEF Merged, Coalesce, Row

LEMMA EnrichTyped ==
  ASSUME SessionTypeOK, NEW turn \in Nat, NEW b \in BOOLEAN, Enrich(turn, b)
  PROVE  contexts' \subseteq [of : Nat, context : Context, punctual : BOOLEAN]
<1>1. SessionContext(row) \in Context
  BY DEF SessionTypeOK, SessionContext, Row, Context
<1>2. [of |-> turn, context |-> SessionContext(row), punctual |-> b]
        \in [of : Nat, context : Context, punctual : BOOLEAN]
  BY <1>1
<1> QED
  BY <1>2 DEF Enrich, SessionTypeOK

LEMMA SessionTypeInit == SInit => SessionTypeOK
BY DEF SInit, SessionTypeOK, Event, Name, Row, NoRow, NoPresence

LEMMA SessionTypeStep == SessionTypeOK /\ [SNext]_svars => SessionTypeOK'
<1> SUFFICES ASSUME SessionTypeOK, [SNext]_svars PROVE SessionTypeOK'
  OBVIOUS
<1>1. ASSUME NEW name \in Name, Happen(name) PROVE SessionTypeOK'
  <2>1. now' \in Event
    BY <1>1 DEF Happen, SessionTypeOK, Event
  <2>2. reports' = reports \cup {[event |-> now', at |-> "sent"]}
    BY <1>1 DEF Happen
  <2>3. reports' \subseteq Report
    BY <2>1, <2>2 DEF SessionTypeOK, Report
  <2> QED
    BY <1>1, <2>1, <2>3 DEF Happen, SessionTypeOK, registry
<1>2. AfterReport(now) \in {"idle", "asking"}
  BY DEF AfterReport
<1>3. ASSUME NEW r PROVE Released(r) \in {"idle", "observing", "asking"}
  BY <1>2 DEF Released, SessionTypeOK
<1>4. CASE StopWaiting
  BY <1>2, <1>4 DEF StopWaiting, SessionTypeOK, registry
<1>5. ASSUME NEW r \in reports, LoseReport(r) PROVE SessionTypeOK'
  BY <1>3, <1>5 DEF LoseReport, SessionTypeOK, registry
<1>6. ASSUME NEW r \in reports, RecordReport(r) PROVE SessionTypeOK'
  <2>1. r \in Report /\ r.event \in Event
    BY DEF SessionTypeOK, Report
  <2>2. row' \in Row /\ log' \in Seq(Event)
    BY <1>6, <2>1, MergedTyped DEF RecordReport, SessionTypeOK
  <2>3. reports' \subseteq Report
    BY <1>6, <2>1 DEF RecordReport, SessionTypeOK, Report
  <2>4. history' \in [lost : BOOLEAN, late : BOOLEAN, overlapped : BOOLEAN]
    <3> HIDE DEF InHandler
    <3> QED
      BY <1>6 DEF RecordReport, SessionTypeOK
  <2> QED
    BY <1>6, <2>2, <2>3, <2>4 DEF RecordReport, SessionTypeOK
<1>7. ASSUME NEW r \in reports, UpsertSource(r) PROVE SessionTypeOK'
  BY <1>7 DEF UpsertSource, SessionTypeOK, Report
<1>8. ASSUME NEW r \in reports, UpdatePresence(r) PROVE SessionTypeOK'
  <2>1. r.event \in Event
    BY DEF SessionTypeOK, Report
  <2>2. shown' \in [state : {"none", "running", "waiting_human", "completed", "offline", "failed"},
                    reason : BOOLEAN, turn : Nat, call : Nat, user : Nat, agent : Nat, action : Nat]
    BY <1>8, <2>1, EventTyped DEF UpdatePresence, Updated, Coalesce, SessionTypeOK
  <2> QED
    BY <1>3, <1>8, <2>2 DEF UpdatePresence, SessionTypeOK
<1>9. CASE GatewayRestarts
  <2>1. hook' \in {"idle", "observing", "asking"}
    BY <1>3, <1>9 DEF GatewayRestarts, SessionTypeOK
  <2>2. history' \in [lost : BOOLEAN, late : BOOLEAN, overlapped : BOOLEAN]
    <3> HIDE DEF InHandler
    <3> QED
      BY <1>9 DEF GatewayRestarts, SessionTypeOK
  <2> QED
    BY <1>9, <2>1, <2>2 DEF GatewayRestarts, SessionTypeOK, registry
<1>10. CASE PostPresence
  BY <1>10 DEF PostPresence, Posted, NoPresence, SessionTypeOK
<1>11. CASE AddSource
  BY <1>11 DEF AddSource, SessionTypeOK
<1>12. CASE CreateRequest
  <2>1. now.turn \in Nat /\ (~history.late) \in BOOLEAN /\ Enrich(now.turn, ~history.late)
    BY <1>12 DEF CreateRequest, SessionTypeOK, Event
  <2>2. contexts' \subseteq [of : Nat, context : Context, punctual : BOOLEAN]
    BY <2>1, EnrichTyped
  <2> QED
    BY <1>12, <2>2 DEF CreateRequest, SessionTypeOK
<1>13. CASE GiveUpAsking
  BY <1>13 DEF GiveUpAsking, SessionTypeOK, registry, Event
<1>14. ASSUME NEW turn \in delayed, CreateLate(turn) PROVE SessionTypeOK'
  <2>1. turn \in Nat /\ Enrich(turn, FALSE)
    BY <1>14 DEF CreateLate, SessionTypeOK
  <2>2. contexts' \subseteq [of : Nat, context : Context, punctual : BOOLEAN]
    BY <2>1, EnrichTyped
  <2> QED
    BY <1>14, <2>2 DEF CreateLate, SessionTypeOK
<1>15. CASE UNCHANGED svars
  BY <1>15 DEF svars, registry, SessionTypeOK
<1> QED
  BY <1>1, <1>4, <1>5, <1>6, <1>7, <1>8, <1>9, <1>10, <1>11, <1>12, <1>13, <1>14, <1>15
  DEF SNext, Handler

\* What a backup or its surroundings do leaves the session alone, and the other
\* way round.
LEMMA FilesLeaveSession == ASSUME Files PROVE UNCHANGED svars
BY DEF Files, BackupStep, Begin, Copy, CopyFails, Verify, Recheck, Publish, ReportBackup, Kill,
   OwnerPuts, OwnerRemoves, Damage

LEMMA SessionSteps == [BNext]_bvars => [SNext]_svars
BY FilesLeaveSession DEF BNext, bvars

LEMMA BackupTypeInit == BInit => BackupTypeOK
BY DEF BInit, BackupTypeOK

LEMMA BackupTypeStep == SessionTypeOK /\ BackupTypeOK /\ [BNext]_bvars => BackupTypeOK'
<1> SUFFICES ASSUME SessionTypeOK, BackupTypeOK, [BNext]_bvars PROVE BackupTypeOK'
  OBVIOUS
<1>1. Snapshot \in File
  BY DEF Snapshot, File, SessionTypeOK, BackupTypeOK
<1>2. Foreign \in File
  <2>1. <<>> \in Seq(Event)
    OBVIOUS
  <2> QED
    BY <2>1 DEF Foreign, File, NoRow, Row
<1>3. CASE UNCHANGED fileVars
  BY <1>3 DEF fileVars, BackupTypeOK
<1>4. CASE OwnerPuts \/ OwnerRemoves \/ Damage
  BY <1>2, <1>4 DEF OwnerPuts, OwnerRemoves, Damage, Arrives, BackupTypeOK
<1>5. ASSUME NEW p \in Backup, Begin(p) \/ ReportBackup(p) \/ Kill(p) PROVE BackupTypeOK'
  BY <1>5 DEF Begin, ReportBackup, Kill, Goes, BackupTypeOK
<1>6. ASSUME NEW p \in Backup, Copy(p) PROVE BackupTypeOK'
  BY <1>1, <1>6 DEF Copy, Goes, BackupTypeOK
<1>7. ASSUME NEW p \in Backup, CopyFails(p) \/ Verify(p) \/ Recheck(p) PROVE BackupTypeOK'
  BY <1>7 DEF CopyFails, Verify, Recheck, Fail, Goes, BackupTypeOK
<1>8. ASSUME NEW p \in Backup, Publish(p) PROVE BackupTypeOK'
  BY <1>8 DEF Publish, Arrives, Goes, BackupTypeOK
<1> QED
  BY <1>3, <1>4, <1>5, <1>6, <1>7, <1>8 DEF BNext, Files, BackupStep, bvars

-----------------------------------------------------------------------------
(* Row and log.                                                            *)

LEMMA AppendedGiven ==
  ASSUME NEW l \in Seq(Event), NEW e \in Event, NEW f
  PROVE  /\ Given(f, Append(l, e)) =
              IF Fields(e)[f] # 0 THEN Given(f, l) \cup {Len(l) + 1} ELSE Given(f, l)
         /\ Given(f, l) \subseteq 1..Len(l)
<1>1. /\ DOMAIN Append(l, e) = 1..Len(l) + 1 /\ DOMAIN l = 1..Len(l)
      /\ \A n \in 1..Len(l) : Append(l, e)[n] = l[n]
      /\ Append(l, e)[Len(l) + 1] = e
  OBVIOUS
<1>2. 1..Len(l) + 1 = (1..Len(l)) \cup {Len(l) + 1}
  OBVIOUS
<1> HIDE DEF Fields
<1> QED
  BY <1>1, <1>2 DEF Given

LEMMA NewestOf ==
  ASSUME NEW l \in Seq(Event), NEW f, NEW n \in Given(f, l), \A m \in Given(f, l) : m <= n
  PROVE  Newest(f, l) = Fields(l[n])[f]
<1>1. Given(f, l) \subseteq Nat
  BY DEF Given
<1>2. Max(Given(f, l)) = n
  <2> HIDE DEF Given
  <2> QED
    BY <1>1 DEF Max
<1> HIDE DEF Given, Fields
<1> QED
  BY <1>2 DEF Newest

LEMMA NewestAppended ==
  ASSUME NEW l \in Seq(Event), NEW e \in Event, NEW f,
         Given(f, l) = {} \/ \E n \in Given(f, l) : \A m \in Given(f, l) : m <= n
  PROVE  /\ Newest(f, Append(l, e)) = Coalesce(Fields(e)[f], Newest(f, l))
         /\ \/ Given(f, Append(l, e)) = {}
            \/ \E n \in Given(f, Append(l, e)) : \A m \in Given(f, Append(l, e)) : m <= n
<1> DEFINE new == Append(l, e)
<1>1. /\ new \in Seq(Event) /\ Len(l) \in Nat /\ new[Len(l) + 1] = e
      /\ \A n \in 1..Len(l) : new[n] = l[n]
  OBVIOUS
<1>2. /\ Given(f, new) = IF Fields(e)[f] # 0 THEN Given(f, l) \cup {Len(l) + 1} ELSE Given(f, l)
      /\ Given(f, l) \subseteq 1..Len(l)
  BY AppendedGiven
<1> HIDE DEF new, Given, Fields
<1>3. CASE Fields(e)[f] # 0
  <2>1. Len(l) + 1 \in Given(f, new) /\ \A m \in Given(f, new) : m <= Len(l) + 1
    BY <1>1, <1>2, <1>3
  <2>2. Newest(f, new) = Fields(e)[f]
    BY <1>1, <2>1, NewestOf
  <2> QED
    BY <1>3, <2>1, <2>2 DEF Coalesce, new
<1>4. CASE Fields(e)[f] = 0
  <2>1. Given(f, new) = Given(f, l)
    BY <1>2, <1>4
  <2>2. CASE Given(f, l) = {}
    BY <1>4, <2>1, <2>2 DEF Newest, Coalesce, new
  <2>3. CASE Given(f, l) # {}
    <3>1. PICK n \in Given(f, l) : \A m \in Given(f, l) : m <= n
      BY <2>3
    <3>2. Newest(f, l) = Fields(l[n])[f] /\ Newest(f, new) = Fields(new[n])[f]
      BY <1>1, <2>1, <3>1, NewestOf
    <3>3. new[n] = l[n]
      BY <1>1, <1>2
    <3> QED
      BY <1>4, <2>1, <3>1, <3>2, <3>3 DEF Coalesce, new
  <2> QED
    BY <2>2, <2>3
<1> QED
  BY <1>3, <1>4

LEMMA RecordFits ==
  ASSUME NEW r \in Row, NEW l \in Seq(Event), NEW e \in Event, FitsLog(r, l), HasNewest(l)
  PROVE  FitsLog(Merged(r, e), Append(l, e)) /\ HasNewest(Append(l, e))
<1>1. \A f \in {"turn", "prompt", "answer", "call"} :
        /\ Newest(f, Append(l, e)) = Coalesce(Fields(e)[f], r[f])
        /\ \/ Given(f, Append(l, e)) = {}
           \/ \E n \in Given(f, Append(l, e)) : \A m \in Given(f, Append(l, e)) : m <= n
  BY NewestAppended DEF FitsLog, HasNewest
<1>2. \A f \in {"turn", "prompt", "answer", "call"} : Merged(r, e)[f] = Coalesce(Fields(e)[f], r[f])
  BY DEF Merged, Fields
<1>3. Append(l, e) # <<>> /\ Last(Append(l, e)) = e
  BY DEF Last
<1>4. Merged(r, e).status = "ended" <=> e.name = "SessionEnd"
  BY DEF Merged
<1> HIDE DEF Merged, Newest, Given
<1> QED
  BY <1>1, <1>2, <1>3, <1>4 DEF FitsLog, HasNewest

LEMMA NothingFits == FitsLog(NoRow, <<>>) /\ HasNewest(<<>>)
<1>1. \A f : Given(f, <<>>) = {}
  BY DEF Given
<1>2. \A f : Newest(f, <<>>) = 0
  BY <1>1 DEF Newest
<1> QED
  BY <1>1, <1>2 DEF FitsLog, HasNewest, NoRow

-----------------------------------------------------------------------------
(* Backups.                                                                *)

LEMMA FilesInit == BInit => FilesInv
BY NothingFits DEF BInit, SInit, FilesInv

\* The session only grows, row and log together.
LEMMA SessionFits ==
  ASSUME SessionTypeOK, HasNewest(log), FitsLog(row, log), [SNext]_svars
  PROVE  HasNewest(log)' /\ FitsLog(row, log)'
<1>1. ASSUME NEW r \in reports, RecordReport(r) PROVE HasNewest(log') /\ FitsLog(row', log')
  <2>1. r.event \in Event /\ row \in Row /\ log \in Seq(Event)
    BY DEF SessionTypeOK, Report
  <2>2. FitsLog(Merged(row, r.event), Append(log, r.event)) /\ HasNewest(Append(log, r.event))
    BY <2>1, RecordFits
  <2>3. row' = Merged(row, r.event) /\ log' = Append(log, r.event)
    BY <1>1 DEF RecordReport
  <2> QED
    BY <2>2, <2>3
<1>2. ASSUME UNCHANGED <<row, log>> PROVE HasNewest(log') /\ FitsLog(row', log')
  BY <1>2
<1>3. \/ \E r \in reports : RecordReport(r)
      \/ UNCHANGED <<row, log>>
  BY DEF SNext, Handler, Happen, StopWaiting, UpsertSource, UpdatePresence, LoseReport,
     GatewayRestarts, PostPresence, AddSource, CreateRequest, GiveUpAsking, CreateLate,
     registry, svars
<1>4. HasNewest(log') /\ FitsLog(row', log')
  BY <1>1, <1>2, <1>3
<1> QED
  BY <1>4 DEF HasNewest, FitsLog, Newest, Given

LEMMA FilesStep == SessionTypeOK /\ BackupTypeOK /\ FilesInv /\ [BNext]_bvars => FilesInv'
<1> SUFFICES ASSUME SessionTypeOK, BackupTypeOK, FilesInv, [BNext]_bvars PROVE FilesInv'
  OBVIOUS
<1>1. HasNewest(log)' /\ FitsLog(row, log)'
  BY SessionFits, SessionSteps DEF FilesInv

<1>2. ASSUME UNCHANGED <<dst, temp, stage>> PROVE FilesInv'
  BY <1>1, <1>2 DEF FilesInv
<1>3. UNCHANGED fileVars => FilesInv'
  BY <1>2 DEF fileVars
<1>4. ASSUME NEW p \in Backup, Begin(p) \/ ReportBackup(p) \/ Kill(p) PROVE FilesInv'
  <2>1. /\ UNCHANGED <<dst, temp>> /\ stage'[p] \notin {"verify", "recheck", "publish"}
        /\ \A q \in Backup : q # p => stage'[q] = stage[q]
    BY <1>4 DEF Begin, ReportBackup, Kill, Goes, BackupTypeOK
  <2> QED
    BY <1>1, <2>1 DEF FilesInv
<1>5. ASSUME NEW p \in Backup, Copy(p) PROVE FilesInv'
  <2>1. /\ dst' = dst /\ stage'[p] = "verify" /\ temp'[p] = Snapshot
        /\ \A q \in Backup : q # p => stage'[q] = stage[q] /\ temp'[q] = temp[q]
    BY <1>5 DEF Copy, Goes, BackupTypeOK
  <2>2. temp'[p].row = row /\ temp'[p].log = log
    BY <2>1 DEF Snapshot
  <2>3. FitsLog(temp'[p].row, temp'[p].log)
    BY <2>2 DEF FilesInv
  <2> QED
    BY <1>1, <2>1, <2>3 DEF FilesInv
<1>6. ASSUME NEW p \in Backup, Verify(p) PROVE FilesInv'
  <2>1. /\ dst' = dst /\ stage[p] = "verify"
        /\ \A q \in Backup : q # p => stage'[q] = stage[q] /\ temp'[q] = temp[q]
        /\ \/ stage'[p] = "failed"
           \/ stage'[p] = "recheck" /\ temp'[p] = temp[p] /\ temp[p].intact
    BY <1>6 DEF Verify, Passes, Fail, Goes, BackupTypeOK
  <2> QED
    BY <1>1, <2>1 DEF FilesInv
<1>7. ASSUME NEW p \in Backup, CopyFails(p) \/ Recheck(p) PROVE FilesInv'
  <2>1. /\ dst' = dst
        /\ \A q \in Backup : q # p => stage'[q] = stage[q] /\ temp'[q] = temp[q]
        /\ \/ stage'[p] = "failed"
           \/ stage[p] = "recheck" /\ stage'[p] = "publish" /\ temp'[p] = temp[p]
    BY <1>7 DEF CopyFails, Recheck, Fail, Goes, BackupTypeOK
  <2> QED
    BY <1>1, <2>1 DEF FilesInv
<1>8. ASSUME NEW p \in Backup, Publish(p) PROVE FilesInv'
  <2>1. /\ dst' = temp[p] /\ stage[p] = "publish" /\ stage'[p] = "report"
        /\ \A q \in Backup : q # p => stage'[q] = stage[q] /\ temp'[q] = temp[q]
    BY <1>8 DEF Publish, Arrives, Goes, BackupTypeOK
  <2>2. dst'.intact /\ FitsLog(dst'.row, dst'.log)
    BY <2>1 DEF FilesInv
  <2> QED
    BY <1>1, <2>1, <2>2 DEF FilesInv
<1>9. CASE OwnerPuts \/ OwnerRemoves \/ Damage
  <2>1. UNCHANGED <<temp, stage>> /\ (dst' = dst \/ dst' = NoFile \/ ~dst'.made)
    BY <1>9 DEF OwnerPuts, OwnerRemoves, Damage, Arrives, Foreign
  <2> QED
    BY <1>1, <2>1 DEF FilesInv
<1>10. CASE UNCHANGED bvars
  BY <1>3, <1>10 DEF bvars
<1> QED
  BY <1>3, <1>4, <1>5, <1>6, <1>7, <1>8, <1>9, <1>10 DEF BNext, Files, BackupStep

LEMMA LookedStep == BackupTypeOK /\ LookedInv /\ [BNext]_bvars => LookedInv'
<1> SUFFICES ASSUME BackupTypeOK, LookedInv, [BNext]_bvars,
                    NEW p \in Backup, stage'[p] = "publish", ~force'[p]
             PROVE  dst' = NoFile \/ late'[p]
  BY DEF LookedInv
<1>1. ASSUME NEW file, Arrives(file), stage[p] = "publish" PROVE late'[p]
  BY <1>1 DEF Arrives
<1>2. ASSUME stage[p] = "publish", UNCHANGED <<force, dst, late>> PROVE dst' = NoFile \/ late'[p]
  BY <1>2 DEF LookedInv
<1>3. CASE UNCHANGED fileVars \/ UNCHANGED bvars
  BY <1>2, <1>3 DEF fileVars, bvars
<1>4. ASSUME NEW q \in Backup,
             Begin(q) \/ Copy(q) \/ CopyFails(q) \/ Verify(q) \/ ReportBackup(q) \/ Kill(q)
      PROVE  dst' = NoFile \/ late'[p]
  <2>1. stage[p] = "publish" /\ UNCHANGED <<force, dst, late>>
    BY <1>4 DEF Begin, Copy, CopyFails, Verify, ReportBackup, Kill, Fail, Goes, BackupTypeOK
  <2> QED
    BY <1>2, <2>1
<1>5. ASSUME NEW q \in Backup, Recheck(q) PROVE dst' = NoFile \/ late'[p]
  <2>1. CASE p = q
    BY <1>5, <2>1 DEF Recheck, Free, Fail, Goes, BackupTypeOK
  <2>2. CASE p # q
    BY <1>2, <1>5, <2>2 DEF Recheck, Fail, Goes, BackupTypeOK
  <2> QED
    BY <2>1, <2>2
<1>6. ASSUME NEW q \in Backup, Publish(q) PROVE dst' = NoFile \/ late'[p]
  <2>1. stage[p] = "publish"
    BY <1>6 DEF Publish, Goes, BackupTypeOK
  <2> QED
    BY <1>1, <1>6, <2>1 DEF Publish
<1>7. CASE OwnerPuts
  BY <1>1, <1>7 DEF OwnerPuts
<1>8. CASE OwnerRemoves
  BY <1>8 DEF OwnerRemoves
<1>9. CASE Damage
  BY <1>2, <1>9 DEF Damage
<1> QED
  BY <1>3, <1>4, <1>5, <1>6, <1>7, <1>8, <1>9 DEF BNext, Files, BackupStep
-----------------------------------------------------------------------------
(* One report at a time.                                                   *)

LEMMA ReleasedIs ==
  ASSUME NEW r
  PROVE  /\ AfterReport(now) # "observing"
         /\ AfterReport(now) = "asking" => now.name = "PermissionRequest"
         /\ Released(r) = "asking" => hook = "asking" \/ now.name = "PermissionRequest"
         /\ hook = "observing" /\ r.event = now => Released(r) # "observing"
         /\ hook # "observing" => Released(r) = hook
BY DEF AfterReport, Released

LEMMA OneReportInit == SInit => OneReport
BY DEF SInit, OneReport

LEMMA OneReportStep == SessionTypeOK /\ OneReport /\ [SNext]_svars => OneReport'
<1> SUFFICES ASSUME SessionTypeOK, OneReport, [SNext]_svars PROVE OneReport'
  OBVIOUS
<1>1. ASSUME NEW name \in Name, Happen(name) PROVE OneReport'
  <2>1. /\ hook = "idle" /\ hook' = "observing" /\ history' = history
        /\ reports' = reports \cup {[event |-> now', at |-> "sent"]}
        /\ now'.turn # 0
    BY <1>1 DEF Happen, SessionTypeOK
  <2>2. [event |-> now', at |-> "sent"].event = now'
    OBVIOUS
  <2> QED
    BY <2>1, <2>2 DEF OneReport
<1>2. CASE StopWaiting
  <2>1. history'.late
    BY <1>2 DEF StopWaiting, SessionTypeOK
  <2> QED
    BY <1>2, <2>1, ReleasedIs DEF StopWaiting, OneReport
<1>3. ASSUME NEW r \in reports, LoseReport(r) \/ UpdatePresence(r) PROVE OneReport'
  <2>1. /\ reports' = reports \ {r} /\ hook' = Released(r) /\ now' = now
        /\ history'.late = history.late
    BY <1>3 DEF LoseReport, UpdatePresence, SessionTypeOK
  <2>2. hook' = "asking" => now.name = "PermissionRequest"
    BY <2>1, ReleasedIs DEF OneReport
  <2>3. ~history.late => hook = "observing" /\ reports = {r} /\ r.event = now
    BY DEF OneReport
  <2>4. ~history.late => hook' # "observing" /\ reports' = {}
    BY <2>1, <2>3, ReleasedIs
  <2> QED
    BY <2>1, <2>2, <2>4 DEF OneReport
<1>4. ASSUME NEW r \in reports, RecordReport(r) \/ UpsertSource(r) PROVE OneReport'
  <2>1. PICK q : /\ reports' = (reports \ {r}) \cup {q} /\ q.event = r.event
    <3>1. r \in Report
      BY DEF SessionTypeOK
    <3>2. /\ [r EXCEPT !.at = "recorded"].event = r.event
          /\ [r EXCEPT !.at = "sourced"].event = r.event
      BY <3>1 DEF Report
    <3> QED
      BY <1>4, <3>2 DEF RecordReport, UpsertSource
  <2>2. UNCHANGED <<hook, now>> /\ history'.late = history.late
    BY <1>4 DEF RecordReport, UpsertSource, SessionTypeOK
  <2>3. ~history.late => hook = "observing" /\ reports = {r} /\ r.event = now /\ now.turn # 0
    BY DEF OneReport
  <2> QED
    BY <2>1, <2>2, <2>3 DEF OneReport
<1>5. CASE GatewayRestarts
  <2>1. /\ reports # {} /\ reports' = {} /\ now' = now /\ history'.late = history.late
        /\ hook' = IF \E r \in reports : r.event = now THEN Released([event |-> now]) ELSE hook
    BY <1>5 DEF GatewayRestarts
  <2>2. [event |-> now].event = now
    OBVIOUS
  <2>3. hook' = "asking" => now.name = "PermissionRequest"
    BY <2>1, ReleasedIs DEF OneReport
  <2>4. ~history.late => hook' # "observing"
    BY <2>1, <2>2, ReleasedIs DEF OneReport
  <2> QED
    BY <2>1, <2>3, <2>4 DEF OneReport
<1>6. CASE CreateRequest \/ GiveUpAsking
  <2>1. hook = "asking" /\ hook' = "idle" /\ UNCHANGED <<now, reports, history>>
    BY <1>6 DEF CreateRequest, GiveUpAsking
  <2> QED
    BY <2>1 DEF OneReport
<1>7. CASE PostPresence \/ AddSource \/ (\E turn \in delayed : CreateLate(turn)) \/ UNCHANGED svars
  <2>1. UNCHANGED <<now, hook, reports, history>>
    BY <1>7 DEF PostPresence, AddSource, CreateLate, svars
  <2> QED
    BY <2>1 DEF OneReport
<1> QED
  BY <1>1, <1>2, <1>3, <1>4, <1>5, <1>6, <1>7 DEF SNext, Handler

-----------------------------------------------------------------------------
(* The context of a request.                                               *)

LEMMA RowInit == SInit => RowInv
BY DEF SInit, RowInv, NoRow, Recorded

\* The row after the report of the newest event.
LEMMA RowAfterReport ==
  ASSUME SessionTypeOK, RowInv, now.turn # 0, ~Recorded, ~history.late,
         row' = Merged(row, now), now' = now, Recorded',
         history'.late = history.late, history'.lost = history.lost
  PROVE  RowInv'
<1>1. /\ now.turn \in Nat /\ row.turn \in Nat /\ row.prompt \in Nat /\ row.answer \in Nat
      /\ now.name \in Name
  BY DEF SessionTypeOK, Row, Event
<1>2. /\ row'.turn = IF now.name = "SessionEnd" THEN row.turn ELSE now.turn
      /\ row'.prompt = IF now.name = "UserPromptSubmit" THEN now.turn ELSE row.prompt
      /\ row'.answer = IF now.name = "Stop" THEN now.turn ELSE row.answer
      /\ now.name = "PermissionRequest" => row'.status = "active"
  BY <1>1 DEF Merged, Coalesce, Turn, Prompt, Answer, Call
<1>3. /\ row'.prompt <= row'.turn /\ row'.turn <= now.turn /\ row'.answer <= now.turn
      /\ now.name \in {"UserPromptSubmit", "PermissionRequest", "PostToolUse"} => row'.answer < now.turn
  BY <1>1, <1>2 DEF RowInv
<1>4. ~history.lost =>
        /\ row'.prompt = row'.turn /\ row'.turn = now.turn
  BY <1>1, <1>2 DEF RowInv
<1> QED
  BY <1>2, <1>3, <1>4 DEF RowInv

LEMMA RowStep == SessionTypeOK /\ OneReport /\ RowInv /\ [SNext]_svars => RowInv'
<1> SUFFICES ASSUME SessionTypeOK, OneReport, RowInv, [SNext]_svars PROVE RowInv'
  OBVIOUS
<1>1. ASSUME NEW name \in Name, Happen(name) PROVE RowInv'
  <2> SUFFICES ASSUME ~history.late PROVE RowInv'
    BY <1>1 DEF Happen, RowInv
  <2>1. /\ reports = {} /\ row' = row /\ history' = history /\ now'.name = name
        /\ now'.turn = IF name = "UserPromptSubmit" THEN now.turn + 1 ELSE now.turn
        /\ name \in Follow(now.name) /\ [event |-> now', at |-> "sent"] \in reports'
    BY <1>1 DEF Happen, registry, OneReport
  <2>2. Recorded /\ ~Recorded'
    BY <2>1 DEF Recorded
  <2>3. /\ now.turn \in Nat /\ row.turn \in Nat /\ row.prompt \in Nat /\ row.answer \in Nat
        /\ now.name \in Name
    BY DEF SessionTypeOK, Row, Event
  <2>4. name \in {"PermissionRequest", "PostToolUse"} =>
          now.name \in {"UserPromptSubmit", "PermissionRequest"}
    BY <2>1, <2>3 DEF Follow, Name
  <2> HIDE DEF Recorded
  <2> QED
    BY <2>1, <2>2, <2>3, <2>4 DEF RowInv
<1>2. CASE StopWaiting
  BY <1>2 DEF StopWaiting, RowInv, SessionTypeOK
<1>3. ASSUME NEW r \in reports, LoseReport(r) PROVE RowInv'
  <2>1. UNCHANGED <<now, row>> /\ history'.late = history.late /\ history'.lost
    BY <1>3 DEF LoseReport, SessionTypeOK, registry
  <2> QED
    BY <2>1 DEF RowInv
<1>4. ASSUME NEW r \in reports, RecordReport(r) PROVE RowInv'
  <2>1. history'.late = history.late /\ history'.lost = history.lost
    BY <1>4 DEF RecordReport, SessionTypeOK
  <2> SUFFICES ASSUME ~history.late PROVE RowInv'
    BY <2>1 DEF RowInv
  <2>2. reports = {r} /\ r.event = now /\ now.turn # 0 /\ r \in Report
    BY DEF OneReport, SessionTypeOK
  <2>3. ~Recorded /\ Recorded' /\ now' = now /\ row' = Merged(row, now)
    BY <1>4, <2>2 DEF RecordReport, Recorded, Report
  <2> QED
    BY <2>1, <2>2, <2>3, RowAfterReport
<1>5. ASSUME NEW r \in reports, UpsertSource(r) \/ UpdatePresence(r) PROVE RowInv'
  <2>1. UNCHANGED <<now, row, history>>
    BY <1>5 DEF UpsertSource, UpdatePresence
  <2>2. ~history.late => Recorded
    <3>1. r.at # "sent"
      BY <1>5 DEF UpsertSource, UpdatePresence
    <3> QED
      BY <3>1 DEF OneReport, Recorded
  <2>3. Recorded => Recorded'
    <3>1. r \in Report
      BY DEF SessionTypeOK
    <3>2. [r EXCEPT !.at = "sourced"].at = "sourced"
      BY <3>1 DEF Report
    <3> QED
      BY <1>5, <3>2 DEF UpsertSource, UpdatePresence, Recorded
  <2> HIDE DEF Recorded
  <2> QED
    BY <2>1, <2>2, <2>3 DEF RowInv
<1>6. CASE GatewayRestarts
  <2>1. UNCHANGED <<now, row>> /\ history'.late = history.late
        /\ history'.lost = (history.lost \/ \E r \in reports : r.at = "sent")
    BY <1>6 DEF GatewayRestarts, registry
  <2>2. (~history'.lost => ~history.lost /\ Recorded) /\ Recorded'
    BY <1>6, <2>1 DEF GatewayRestarts, Recorded
  <2> HIDE DEF Recorded
  <2> QED
    BY <2>1, <2>2 DEF RowInv
<1>7. CASE PostPresence \/ AddSource \/ CreateRequest \/ GiveUpAsking
             \/ (\E turn \in delayed : CreateLate(turn)) \/ UNCHANGED svars
  <2>1. UNCHANGED <<now, row, reports, history>>
    BY <1>7 DEF PostPresence, AddSource, CreateRequest, GiveUpAsking, CreateLate, svars, registry
  <2> QED
    BY <2>1 DEF RowInv, Recorded
<1> QED
  BY <1>1, <1>2, <1>3, <1>4, <1>5, <1>6, <1>7 DEF SNext, Handler

\* What ContextOfItsTurn says of one context.
OfItsTurn(c, lost) ==
  c.punctual =>
    /\ c.context.prompt <= c.context.turn /\ c.context.turn <= c.of
    /\ c.context.answer < c.of
    /\ ~lost => c.context.turn = c.of /\ c.context.prompt = c.of /\ c.context.status = "active"

LEMMA ContextStep ==
  SessionTypeOK /\ OneReport /\ RowInv /\ ContextOfItsTurn /\ [SNext]_svars => ContextOfItsTurn'
<1> SUFFICES ASSUME SessionTypeOK, OneReport, RowInv, ContextOfItsTurn, [SNext]_svars
             PROVE  \A c \in contexts' : OfItsTurn(c, history'.lost)
  BY DEF ContextOfItsTurn, OfItsTurn
<1>1. \A c \in contexts : OfItsTurn(c, history.lost)
  BY DEF ContextOfItsTurn, OfItsTurn
<1>2. history.lost => history'.lost
  <2>1. CASE StopWaiting \/ \E r \in reports : LoseReport(r) \/ RecordReport(r)
    BY <2>1 DEF StopWaiting, LoseReport, RecordReport, SessionTypeOK
  <2>2. CASE GatewayRestarts
    BY <2>2 DEF GatewayRestarts
  <2>3. CASE \E r \in reports : UpsertSource(r) \/ UpdatePresence(r)
    BY <2>3 DEF UpsertSource, UpdatePresence
  <2>4. CASE \/ \E name \in Name : Happen(name)
             \/ PostPresence \/ AddSource \/ CreateRequest \/ GiveUpAsking
             \/ \E turn \in delayed : CreateLate(turn)
             \/ UNCHANGED svars
    BY <2>4 DEF Happen, PostPresence, AddSource, CreateRequest, GiveUpAsking, CreateLate, svars
  <2> QED
    BY <2>1, <2>2, <2>3, <2>4 DEF SNext, Handler
<1>3. \A c \in contexts : OfItsTurn(c, history'.lost)
  BY <1>1, <1>2 DEF OfItsTurn
<1>4. CASE CreateRequest
  <2>1. /\ hook = "asking" /\ history' = history
        /\ contexts' = contexts \cup
             {[of |-> now.turn, context |-> SessionContext(row), punctual |-> ~history.late]}
    BY <1>4 DEF CreateRequest, Enrich
  <2>2. now.name = "PermissionRequest" /\ (~history.late => Recorded)
    BY <2>1 DEF OneReport, Recorded
  <2>3. OfItsTurn([of |-> now.turn, context |-> SessionContext(row), punctual |-> ~history.late], history.lost)
    BY <2>2 DEF RowInv, OfItsTurn, SessionContext
  <2> QED
    BY <1>3, <2>1, <2>3
<1>5. ASSUME NEW turn \in delayed, CreateLate(turn)
      PROVE  \A c \in contexts' : OfItsTurn(c, history'.lost)
  <2>1. contexts' = contexts \cup {[of |-> turn, context |-> SessionContext(row), punctual |-> FALSE]}
    BY <1>5 DEF CreateLate, Enrich
  <2>2. OfItsTurn([of |-> turn, context |-> SessionContext(row), punctual |-> FALSE], history'.lost)
    BY DEF OfItsTurn
  <2> QED
    BY <1>3, <2>1, <2>2
<1>6. \/ CreateRequest \/ \E turn \in delayed : CreateLate(turn)
      \/ contexts' = contexts
  BY DEF SNext, Handler, Happen, StopWaiting, LoseReport, RecordReport, UpsertSource,
     UpdatePresence, GatewayRestarts, PostPresence, AddSource, GiveUpAsking, svars, registry
<1> QED
  BY <1>3, <1>4, <1>5, <1>6

-----------------------------------------------------------------------------
(* The presence row.                                                       *)

LEMMA HandlerInit == SInit => HandlerInv
BY DEF SInit, HandlerInv, InHandler

\* An event that is on record stays there.
LEMMA OnRecord ==
  ASSUME NEW l \in Seq(Event), NEW e \in Event
  PROVE  /\ \A n \in DOMAIN l : n \in DOMAIN Append(l, e) /\ Append(l, e)[n] = l[n]
         /\ Len(Append(l, e)) \in DOMAIN Append(l, e) /\ Append(l, e)[Len(Append(l, e))] = e
OBVIOUS

LEMMA HandlerStep == SessionTypeOK /\ HandlerInv /\ [SNext]_svars => HandlerInv'
<1> SUFFICES ASSUME SessionTypeOK, HandlerInv, [SNext]_svars PROVE HandlerInv'
  OBVIOUS
<1>1. ASSUME NEW r \in reports, RecordReport(r) PROVE HandlerInv'
  <2>1. r \in Report /\ r.event \in Event /\ log \in Seq(Event) /\ r.at = "sent"
    BY <1>1 DEF SessionTypeOK, Report, RecordReport
  <2>2. PICK q : q.event = r.event /\ q.at = "recorded" /\ q = [r EXCEPT !.at = "recorded"]
    BY <2>1 DEF Report
  <2>3. log' = Append(log, r.event) /\ InHandler' = InHandler \cup {q}
    BY <1>1, <2>1, <2>2 DEF RecordReport, InHandler
  <2>4. history'.overlapped = (history.overlapped \/ InHandler # {})
    <3> HIDE DEF InHandler
    <3> QED
      BY <1>1 DEF RecordReport, SessionTypeOK
  <2>5. \A n \in DOMAIN log : n \in DOMAIN log' /\ log'[n] = log[n]
    BY <2>1, <2>3, OnRecord
  <2>6. Len(log') \in DOMAIN log' /\ log'[Len(log')] = q.event
    BY <2>1, <2>2, <2>3, OnRecord
  <2> HIDE DEF InHandler
  <2>7. \A p \in InHandler' : \E n \in DOMAIN log' : log'[n] = p.event
    BY <2>3, <2>5, <2>6 DEF HandlerInv
  <2>8. ~history'.overlapped => InHandler' = {q}
    BY <2>3, <2>4
  <2> QED
    BY <2>6, <2>7, <2>8 DEF HandlerInv
<1>2. ASSUME NEW r \in reports, UpsertSource(r) PROVE HandlerInv'
  <2>1. r \in Report /\ r.at = "recorded" /\ UNCHANGED <<log, history>>
    BY <1>2 DEF SessionTypeOK, UpsertSource
  <2>2. PICK q : q.event = r.event /\ q.at = "sourced" /\ q = [r EXCEPT !.at = "sourced"]
    BY <2>1 DEF Report
  <2>3. r \in InHandler /\ InHandler' = (InHandler \ {r}) \cup {q}
    BY <1>2, <2>1, <2>2 DEF UpsertSource, InHandler
  <2> HIDE DEF InHandler
  <2> QED
    BY <2>1, <2>2, <2>3 DEF HandlerInv
<1>3. ASSUME UNCHANGED log, InHandler' \subseteq InHandler, history.overlapped => history'.overlapped
      PROVE  HandlerInv'
  BY <1>3 DEF HandlerInv
<1>4. ASSUME NEW r \in reports, LoseReport(r) \/ UpdatePresence(r) PROVE HandlerInv'
  <2>1. UNCHANGED log /\ reports' = reports \ {r} /\ history'.overlapped = history.overlapped
    BY <1>4 DEF LoseReport, UpdatePresence, registry, SessionTypeOK
  <2> QED
    BY <1>3, <2>1 DEF InHandler
<1>5. CASE GatewayRestarts
  <2>1. UNCHANGED log /\ reports' = {} /\ (history.overlapped => history'.overlapped)
    BY <1>5 DEF GatewayRestarts, registry
  <2> QED
    BY <1>3, <2>1 DEF InHandler
<1>6. ASSUME NEW name \in Name, Happen(name) PROVE HandlerInv'
  <2>1. UNCHANGED <<log, history>> /\ reports' = reports \cup {[event |-> now', at |-> "sent"]}
    BY <1>6 DEF Happen, registry
  <2> QED
    BY <1>3, <2>1 DEF InHandler
<1>7. CASE StopWaiting
  <2>1. UNCHANGED <<log, reports>> /\ history'.overlapped = history.overlapped
    BY <1>7 DEF StopWaiting, registry, SessionTypeOK
  <2> QED
    BY <1>3, <2>1 DEF InHandler
<1>8. CASE PostPresence \/ AddSource \/ CreateRequest \/ GiveUpAsking
             \/ (\E turn \in delayed : CreateLate(turn)) \/ UNCHANGED svars
  <2>1. UNCHANGED <<log, reports, history>>
    BY <1>8 DEF PostPresence, AddSource, CreateRequest, GiveUpAsking, CreateLate, svars, registry
  <2> QED
    BY <1>3, <2>1 DEF InHandler
<1> QED
  BY <1>1, <1>2, <1>4, <1>5, <1>6, <1>7, <1>8 DEF SNext, Handler

PresenceInv == HandlerInv /\ PresenceIsNewestReport

LEMMA PresenceStep == SessionTypeOK /\ PresenceInv /\ [SNext]_svars => PresenceIsNewestReport'
<1> SUFFICES ASSUME SessionTypeOK, HandlerInv, PresenceIsNewestReport, [SNext]_svars
             PROVE  PresenceIsNewestReport'
  BY DEF PresenceInv
<1>1. ASSUME NEW r \in reports, UpdatePresence(r) PROVE PresenceIsNewestReport'
  <2>1. /\ r \in InHandler /\ UNCHANGED <<log, history>> /\ InHandler' = InHandler \ {r}
        /\ shown' = Updated(shown, r.event)
    BY <1>1 DEF UpdatePresence, InHandler
  <2>2. Shows(r.event)'
    BY <2>1 DEF Shows, Updated
  <2>3. /\ \E n \in DOMAIN log : log[n] = r.event
        /\ ~history.overlapped => r.event = log[Len(log)]
    BY <2>1 DEF HandlerInv
  <2>4. \A e : e = r.event => Shows(e)'
    BY <2>2
  <2>5. /\ \E n \in DOMAIN log' : Shows(log[n])'
        /\ ~history'.overlapped => Shows(log[Len(log)])'
    BY <2>1, <2>2, <2>3 DEF Shows
  <2> QED
    BY <2>5 DEF PresenceIsNewestReport
<1>2. CASE PostPresence
  BY <1>2 DEF PostPresence, PresenceIsNewestReport, ShowsPosted, Posted, NoPresence
<1>3. ASSUME UNCHANGED shown, \A n \in DOMAIN log : n \in DOMAIN log' /\ log'[n] = log[n],
             InHandler' = {} /\ ~history'.overlapped =>
               InHandler = {} /\ ~history.overlapped /\ log' = log
      PROVE  PresenceIsNewestReport'
  <2>1. SUFFICES ASSUME shown # NoPresence, ~ShowsPosted
                 PROVE  PresenceIsNewestReport'
    BY <1>3 DEF PresenceIsNewestReport, ShowsPosted
  <2>2. /\ \E n \in DOMAIN log : Shows(log[n])
        /\ InHandler = {} /\ ~history.overlapped => Shows(log[Len(log)])
    BY <2>1 DEF PresenceIsNewestReport
  <2>3. \E n \in DOMAIN log' : Shows(log[n])'
    BY <1>3, <2>2 DEF Shows
  <2>4. InHandler' = {} /\ ~history'.overlapped => Shows(log[Len(log)])'
    <3> HIDE DEF InHandler
    <3> QED
      BY <1>3, <2>2 DEF Shows
  <2> QED
    BY <2>3, <2>4 DEF PresenceIsNewestReport
<1>4. ASSUME NEW r \in reports, RecordReport(r) PROVE PresenceIsNewestReport'
  <2>1. r \in Report /\ r.event \in Event /\ log \in Seq(Event)
    BY <1>4 DEF SessionTypeOK, Report
  <2>2. UNCHANGED shown /\ log' = Append(log, r.event)
        /\ [r EXCEPT !.at = "recorded"] \in reports'
    BY <1>4 DEF RecordReport
  <2>3. [r EXCEPT !.at = "recorded"].at = "recorded"
    BY <2>1 DEF Report
  <2>4. InHandler' # {}
    BY <2>2, <2>3 DEF InHandler
  <2>5. \A n \in DOMAIN log : n \in DOMAIN log' /\ log'[n] = log[n]
    BY <2>1, <2>2, OnRecord
  <2> QED
    BY <1>3, <2>2, <2>4, <2>5
<1>5. ASSUME UNCHANGED <<log, shown>>,
             InHandler' = {} /\ ~history'.overlapped => InHandler = {} /\ ~history.overlapped
      PROVE  PresenceIsNewestReport'
  BY <1>3, <1>5
<1>6. ASSUME NEW r \in reports, UpsertSource(r) PROVE PresenceIsNewestReport'
  <2>1. r \in Report /\ UNCHANGED <<log, shown>> /\ [r EXCEPT !.at = "sourced"] \in reports'
    BY <1>6 DEF UpsertSource, SessionTypeOK
  <2>2. [r EXCEPT !.at = "sourced"].at = "sourced"
    BY <2>1 DEF Report
  <2>3. InHandler' # {}
    BY <2>1, <2>2 DEF InHandler
  <2> QED
    BY <1>5, <2>1, <2>3
<1>7. ASSUME NEW r \in reports, LoseReport(r) PROVE PresenceIsNewestReport'
  <2>1. UNCHANGED <<log, shown>> /\ r.at = "sent" /\ reports' = reports \ {r}
        /\ history'.overlapped = history.overlapped
    BY <1>7 DEF LoseReport, registry, SessionTypeOK
  <2>2. InHandler' = InHandler
    BY <2>1 DEF InHandler
  <2> HIDE DEF InHandler
  <2> QED
    BY <1>5, <2>1, <2>2
<1>8. CASE GatewayRestarts
  <2>1. UNCHANGED <<log, shown>> /\ history'.overlapped = (history.overlapped \/ InHandler # {})
    <3> HIDE DEF InHandler
    <3> QED
      BY <1>8 DEF GatewayRestarts, registry
  <2> HIDE DEF InHandler
  <2> QED
    BY <1>5, <2>1
<1>9. ASSUME NEW name \in Name, Happen(name) PROVE PresenceIsNewestReport'
  <2>1. UNCHANGED <<log, shown, history>> /\ reports \subseteq reports'
    BY <1>9 DEF Happen, registry
  <2>2. InHandler \subseteq InHandler'
    BY <2>1 DEF InHandler
  <2> HIDE DEF InHandler
  <2> QED
    BY <1>5, <2>1, <2>2
<1>10. CASE StopWaiting
  <2>1. UNCHANGED <<log, shown, reports>> /\ history'.overlapped = history.overlapped
    BY <1>10 DEF StopWaiting, registry, SessionTypeOK
  <2>2. InHandler' = InHandler
    BY <2>1 DEF InHandler
  <2> HIDE DEF InHandler
  <2> QED
    BY <1>5, <2>1, <2>2
<1>11. CASE AddSource \/ CreateRequest \/ GiveUpAsking
              \/ (\E turn \in delayed : CreateLate(turn)) \/ UNCHANGED svars
  <2>1. UNCHANGED <<log, shown, reports, history>>
    BY <1>11 DEF AddSource, CreateRequest, GiveUpAsking, CreateLate, svars, registry
  <2>2. InHandler' = InHandler
    BY <2>1 DEF InHandler
  <2> HIDE DEF InHandler
  <2> QED
    BY <1>5, <2>1, <2>2
<1> QED
  BY <1>1, <1>2, <1>4, <1>6, <1>7, <1>8, <1>9, <1>10, <1>11 DEF SNext, Handler

-----------------------------------------------------------------------------
(* Theorems.                                                               *)

SessionInv ==
  SessionTypeOK /\ OneReport /\ RowInv /\ ContextOfItsTurn /\ HandlerInv /\ PresenceIsNewestReport

BackupInv == BackupTypeOK /\ FilesInv /\ LookedInv

LEMMA SessionInvInit == SInit => SessionInv
<1> SUFFICES ASSUME SInit PROVE SessionInv
  OBVIOUS
<1>1. ContextOfItsTurn /\ PresenceIsNewestReport
  BY DEF SInit, ContextOfItsTurn, PresenceIsNewestReport
<1> QED
  BY <1>1, SessionTypeInit, OneReportInit, RowInit, HandlerInit DEF SessionInv

LEMMA SessionInvStep == SessionInv /\ [SNext]_svars => SessionInv'
BY SessionTypeStep, OneReportStep, RowStep, ContextStep, HandlerStep, PresenceStep
   DEF SessionInv, PresenceInv

LEMMA BackupInvInit == BInit => BackupInv
<1> SUFFICES ASSUME BInit PROVE BackupInv
  OBVIOUS
<1>1. LookedInv
  BY DEF BInit, LookedInv
<1> QED
  BY <1>1, BackupTypeInit, FilesInit DEF BackupInv

LEMMA BackupInvStep == SessionTypeOK /\ BackupInv /\ [BNext]_bvars => BackupInv'
BY BackupTypeStep, FilesStep, LookedStep DEF BackupInv

\* The observers, the three transactions of the report handler, the creation of
\* requests and the backups, with lost and late reports, a restarted Gateway and
\* killed backups, keep the inductive invariant.
THEOREM DatabaseInvariant == BSpec => [](SessionInv /\ BackupInv)
<1>1. BInit => SessionInv /\ BackupInv
  BY SessionInvInit, BackupInvInit DEF BInit
<1>2. SessionInv /\ BackupInv /\ [BNext]_bvars => (SessionInv /\ BackupInv)'
  BY SessionSteps, SessionInvStep, BackupInvStep DEF SessionInv
<1> QED
  BY <1>1, <1>2, PTL DEF BSpec

\* BackupsFitTheirLog: the session row is the COALESCE of its events in the live
\* database and in every published backup, however often record and source.backup
\* interleave, and no damaged copy is published (connector_registry.record,
\* backup_sqlite_database).
THEOREM CopiesAreOfOneMoment == BSpec => []BackupsFitTheirLog
<1>1. SessionInv /\ BackupInv => BackupsFitTheirLog
  BY DEF BackupInv, FilesInv, BackupsFitTheirLog
<1> QED
  BY <1>1, DatabaseInvariant, PTL

\* ContextOfItsTurn: what enrich_with_session_context stores in a request that is
\* asked in time is of the turn that asks or older, and of an active session and
\* exactly of that turn where no report was lost.
THEOREM RequestsCarryTheirTurn == BSpec => []ContextOfItsTurn
<1>1. SessionInv => ContextOfItsTurn
  BY DEF SessionInv
<1> QED
  BY <1>1, DatabaseInvariant, PTL

\* PresenceIsNewestReport: the presence row shows one event on record, and the
\* newest once the handlers of connector_event are through without overlap.
THEOREM PresenceFollowsTheLog == BSpec => []PresenceIsNewestReport
<1>1. SessionInv => PresenceIsNewestReport
  BY DEF SessionInv
<1> QED
  BY <1>1, DatabaseInvariant, PTL

\* KeepsWhatWasThere: os.replace of a default-mode backup puts an end to no file
\* but one that came after the second look of backup_sqlite_database.
THEOREM DefaultBackupsKeepFiles == BSpec => KeepsWhatWasThere
<1> DEFINE Keeps == \A p \in Backup :
              stage[p] = "publish" /\ stage'[p] = "report" /\ ~force[p] =>
                dst = NoFile \/ late[p]
<1>1. SessionInv /\ BackupInv => Keeps
  BY DEF BackupInv, LookedInv
<1> HIDE DEF Keeps
<1>2. BSpec => [][Keeps]_bvars
  BY <1>1, DatabaseInvariant, PTL
<1> QED
  BY <1>2 DEF KeepsWhatWasThere, Keeps

=============================================================================
