---------------------------- MODULE GatewayProofs ---------------------------
(***************************************************************************)
(* Theorems about Gateway, and about ChannelCards, which presses into it,  *)
(* for every number of handlers, calls, presses and requests.  A handler   *)
(* reads, commits and answers in separate steps; what it has told its      *)
(* caller is shown to stay true of the row while everybody else goes on,   *)
(* from what a step of the store leaves of a row.  The handlers behind the *)
(* presses are the same, and what is shown of their answers carries the    *)
(* offset of the Telegram worker and what a card without buttons stands    *)
(* for.                                                                    *)
(***************************************************************************)
EXTENDS ChannelCards, RequestStoreProofs

-----------------------------------------------------------------------------
(* The store under its handlers.                                           *)

Reply == {"none", "created", "existing", "missing", "forbidden", "rejected", "owner",
          "finalized", "waiting", "withdrawn", "batch"}

GatewayTypeOK ==
  /\ call \in [Handler -> CallType \cup {NoCall}]
  /\ \A h \in Handler : stage[h] # "idle" => call[h] \in CallType
  /\ stage \in [Handler -> {"idle", "checked", "listed", "resuming", "done", "dead"}]
  /\ reply \in [Handler -> Reply]
  /\ todo \in [Handler -> SUBSET Id]
  /\ resuming \in [Handler -> SUBSET Id]
  /\ resumedBy \in [Id -> SUBSET Handler]

LEMMA CallTyped ==
  ASSUME NEW c \in CallType
  PROVE  /\ c.id \in Id /\ c.actor \in Actor /\ VoteOf(c) \in Vote
         /\ c.outcome \in {"expired", "cancelled"}
         /\ \A i \in Id : [c EXCEPT !.id = i] \in CallType
BY DEF CallType, VoteOf, Vote

LEMMA StoreStep ==
  ASSUME GatewayTypeOK, [GNext]_gvars
  PROVE  [Next]_vars
<1>1. ASSUME NEW h \in Handler, NEW c \in Call, CreateCall(h, c) PROVE Next
  BY <1>1, CallAssumption DEF CreateCall, Next
<1>2. ASSUME NEW h \in Handler, NEW c \in Call, ClaimCall(h, c) PROVE [Next]_vars
  <2>1. c.id \in Id /\ c.actor \in Actor
    BY CallAssumption, CallTyped
  <2> QED
    BY <1>2, <2>1 DEF ClaimCall, Next
<1>3. ASSUME NEW h \in Handler, NEW c \in Call, Check(h, c) \/ ListBatch(h, c)
      PROVE  UNCHANGED vars
  BY <1>3 DEF Check, ListBatch
<1>4. ASSUME NEW h \in Handler, stage[h] # "idle"
      PROVE  call[h].id \in Id /\ VoteOf(call[h]) \in Vote
               /\ call[h].outcome \in {"expired", "cancelled"}
  BY <1>4, CallTyped DEF GatewayTypeOK
<1>5. ASSUME NEW h \in Handler, CommitAnswer(h) PROVE [Next]_vars
  <2>1. stage[h] # "idle"
    BY <1>5 DEF CommitAnswer
  <2> QED
    BY <1>4, <1>5, <2>1 DEF CommitAnswer, Next
<1>6. ASSUME NEW h \in Handler, CommitOutcome(h) PROVE [Next]_vars
  <2>1. stage[h] # "idle"
    BY <1>6 DEF CommitOutcome
  <2> QED
    BY <1>4, <1>6, <2>1 DEF CommitOutcome, Next
<1>7. ASSUME NEW h \in Handler, NEW i \in Id, CommitItem(h, i) PROVE [Next]_vars
  <2>1. stage[h] # "idle"
    BY <1>7 DEF CommitItem
  <2> QED
    BY <1>4, <1>7, <2>1 DEF CommitItem, Next
<1>8. ASSUME NEW h \in Handler, EndBatch(h) \/ Crash(h) PROVE UNCHANGED vars
  BY <1>8 DEF EndBatch, Crash
<1>9. ASSUME NEW h \in Handler, NEW i \in Id, ResumeAndRecord(h, i) PROVE UNCHANGED vars
  BY <1>9 DEF ResumeAndRecord
<1>10. CASE UNCHANGED gvars
  BY <1>10 DEF gvars
<1> QED
  BY <1>1, <1>2, <1>3, <1>5, <1>6, <1>7, <1>8, <1>9, <1>10 DEF GNext

\* What every answer does to the handler.
LEMMA AnswersType ==
  ASSUME GatewayTypeOK, NEW h \in Handler, NEW answer \in Reply, NEW owed \in SUBSET Id,
         Answers(h, answer, owed)
  PROVE  /\ stage' \in [Handler -> {"idle", "checked", "listed", "resuming", "done", "dead"}]
         /\ reply' \in [Handler -> Reply] /\ todo' \in [Handler -> SUBSET Id]
         /\ resuming' \in [Handler -> SUBSET Id]
         /\ stage'[h] # "idle" /\ \A g \in Handler \ {h} : stage'[g] = stage[g]
BY DEF GatewayTypeOK, Answers

LEMMA GatewayType ==
  ASSUME TypeOK, GatewayTypeOK, [GNext]_gvars
  PROVE  GatewayTypeOK'
<1>c. Call \subseteq CallType
  BY CallAssumption
<1>1. ASSUME NEW h \in Handler, NEW d \in CallType, call' = [call EXCEPT ![h] = d],
             resumedBy' = resumedBy,
             \E answer \in Reply : Answers(h, answer, {})
      PROVE  GatewayTypeOK'
  <2> PICK answer \in Reply : Answers(h, answer, {})
    BY <1>1
  <2>1. /\ stage' \in [Handler -> {"idle", "checked", "listed", "resuming", "done", "dead"}]
        /\ reply' \in [Handler -> Reply] /\ todo' \in [Handler -> SUBSET Id]
        /\ resuming' \in [Handler -> SUBSET Id]
        /\ stage'[h] # "idle" /\ \A g \in Handler \ {h} : stage'[g] = stage[g]
    BY AnswersType
  <2> QED
    BY <1>1, <2>1 DEF GatewayTypeOK
<1>2. ASSUME NEW h \in Handler, stage[h] # "idle", UNCHANGED <<call, resumedBy>>,
             \E answer \in Reply, owed \in SUBSET Id : Answers(h, answer, owed)
      PROVE  GatewayTypeOK'
  <2> PICK answer \in Reply, owed \in SUBSET Id : Answers(h, answer, owed)
    BY <1>2
  <2>1. /\ stage' \in [Handler -> {"idle", "checked", "listed", "resuming", "done", "dead"}]
        /\ reply' \in [Handler -> Reply] /\ todo' \in [Handler -> SUBSET Id]
        /\ resuming' \in [Handler -> SUBSET Id]
        /\ stage'[h] # "idle" /\ \A g \in Handler \ {h} : stage'[g] = stage[g]
    BY AnswersType
  <2> QED
    BY <1>2, <2>1 DEF GatewayTypeOK
<1>3. ASSUME NEW h \in Handler, NEW c \in Call, CreateCall(h, c) PROVE GatewayTypeOK'
  <2>1. CASE /\ Create(c.ask) /\ call' = [call EXCEPT ![h] = [c EXCEPT !.id = issued']]
             /\ Answers(h, "created", {})
    <3>1. issued' \in Id
      BY <2>1, FiniteAssumption DEF Create, TypeOK, Id
    <3>2. [c EXCEPT !.id = issued'] \in CallType
      BY <1>c, <3>1, CallTyped
    <3> QED
      BY <1>1, <1>3, <2>1, <3>2 DEF CreateCall, Reply
  <2>2. CASE /\ \E i \in Existing(c.ask) : call' = [call EXCEPT ![h] = [c EXCEPT !.id = i]]
             /\ Answers(h, "existing", {})
    <3>1. PICK i \in Id : call' = [call EXCEPT ![h] = [c EXCEPT !.id = i]]
      BY <2>2 DEF Existing
    <3>2. [c EXCEPT !.id = i] \in CallType
      BY <1>c, CallTyped
    <3> QED
      BY <1>1, <1>3, <2>2, <3>1, <3>2 DEF CreateCall, Reply
  <2> QED
    BY <1>3, <2>1, <2>2 DEF CreateCall
<1>4. ASSUME NEW h \in Handler, NEW c \in Call, ClaimCall(h, c) PROVE GatewayTypeOK'
  <2>1. \E answer \in Reply : Answers(h, answer, {})
    <3>1. OwnerReply(c.id, c.actor) \in Reply
      BY DEF OwnerReply, Reply
    <3>2. {"owner", "forbidden", "missing"} \subseteq Reply
      BY DEF Reply
    <3> HIDE DEF OwnerReply, Reply
    <3> QED
      BY <1>4, <3>1, <3>2 DEF ClaimCall
  <2> QED
    BY <1>c, <1>1, <1>4, <2>1 DEF ClaimCall
<1>5. ASSUME NEW h \in Handler, NEW c \in Call, Check(h, c) PROVE GatewayTypeOK'
  <2>1. CASE status[c.id] \in Active
    BY <1>c, <1>5, <2>1 DEF Check, GatewayTypeOK
  <2>2. CASE status[c.id] \notin Active
    <3>1. \E answer \in Reply : Answers(h, answer, {})
      <4>1. (IF status[c.id] = "absent" THEN "missing" ELSE "rejected") \in Reply
        BY DEF Reply
      <4> QED
        BY <1>5, <2>2, <4>1 DEF Check
    <3> QED
      BY <1>c, <1>1, <1>5, <3>1 DEF Check
  <2> QED
    BY <2>1, <2>2
<1>6. ASSUME NEW h \in Handler, CommitAnswer(h) \/ CommitOutcome(h) PROVE GatewayTypeOK'
  <2>1. stage[h] # "idle" /\ UNCHANGED <<call, resumedBy>>
    BY <1>6 DEF CommitAnswer, CommitOutcome
  <2>2. call[h].id \in Id
    BY <2>1, CallTyped DEF GatewayTypeOK
  <2>3. \E answer \in Reply, owed \in SUBSET Id : Answers(h, answer, owed)
    <3>1. /\ LateReply(call[h].op) \in Reply
          /\ OutcomeReply(call[h].id, call[h].outcome) \in Reply
          /\ {"finalized", "waiting", "forbidden", "withdrawn"} \subseteq Reply
      BY DEF LateReply, OutcomeReply, Reply
    <3>2. \A won \in BOOLEAN : Owes(call[h].id, won) \in SUBSET Id
      BY <2>2 DEF Owes
    <3>3. {} \in SUBSET Id
      OBVIOUS
    <3> HIDE DEF LateReply, OutcomeReply, Owes, Reply
    <3>4. CASE CommitAnswer(h)
      BY <3>1, <3>2, <3>3, <3>4 DEF CommitAnswer
    <3>5. CASE CommitOutcome(h)
      BY <3>1, <3>3, <3>5 DEF CommitOutcome
    <3> QED
      BY <1>6, <3>4, <3>5
  <2> QED
    BY <1>2, <2>1, <2>3
<1>7. ASSUME NEW h \in Handler, NEW c \in Call, ListBatch(h, c) PROVE GatewayTypeOK'
  <2>1. CASE \A i \in InBatch : Eligible(i, c.actor) /\ KindAllowed(i, c.kind)
    BY <1>c, <1>7, <2>1 DEF ListBatch, InBatch, GatewayTypeOK
  <2>2. CASE ~ \A i \in InBatch : Eligible(i, c.actor) /\ KindAllowed(i, c.kind)
    <3>1. \E answer \in Reply : Answers(h, answer, {})
      <4>1. "forbidden" \in Reply
        BY DEF Reply
      <4> QED
        BY <1>7, <2>2, <4>1 DEF ListBatch
    <3> QED
      BY <1>c, <1>1, <1>7, <3>1 DEF ListBatch
  <2> QED
    BY <2>1, <2>2
<1>8. ASSUME NEW h \in Handler, NEW i \in Id, CommitItem(h, i) PROVE GatewayTypeOK'
  <2>1. /\ todo' \in [Handler -> SUBSET Id] /\ resuming' \in [Handler -> SUBSET Id]
        /\ UNCHANGED <<call, stage, reply, resumedBy>>
    BY <1>8 DEF CommitItem, GatewayTypeOK
  <2> QED
    BY <2>1 DEF GatewayTypeOK
<1>9. ASSUME NEW h \in Handler, EndBatch(h) PROVE GatewayTypeOK'
  <2>1. stage[h] # "idle" /\ resuming[h] \in SUBSET Id
    BY <1>9 DEF EndBatch, GatewayTypeOK
  <2> QED
    BY <1>2, <1>9, <2>1 DEF EndBatch, Reply
<1>10. ASSUME NEW h \in Handler, NEW i \in Id, ResumeAndRecord(h, i) PROVE GatewayTypeOK'
  BY <1>10 DEF ResumeAndRecord, GatewayTypeOK
<1>11. ASSUME NEW h \in Handler, Crash(h) PROVE GatewayTypeOK'
  BY <1>11 DEF Crash, GatewayTypeOK
<1>12. CASE UNCHANGED gvars
  BY <1>12 DEF gvars, handlerVars, GatewayTypeOK
<1> QED
  BY <1>3, <1>4, <1>5, <1>6, <1>7, <1>8, <1>9, <1>10, <1>11, <1>12 DEF GNext

LEMMA GatewayTyped == GSpec => [](TypeOK /\ GatewayTypeOK)
<1>1. GInit => TypeOK /\ GatewayTypeOK
  BY InitType DEF GInit, GatewayTypeOK, Reply
<1>2. TypeOK /\ GatewayTypeOK /\ [GNext]_gvars => (TypeOK /\ GatewayTypeOK)'
  BY StoreStep, NextType, GatewayType
<1> QED
  BY <1>1, <1>2, PTL DEF GSpec

\* Whatever is called, and whichever process dies, the tables behave as
\* RequestStore allows.
THEOREM HandlersUseTheStore == GSpec => Spec
<1>1. GInit => Init
  BY DEF GInit
<1>2. GatewayTypeOK /\ [GNext]_gvars => [Next]_vars
  BY StoreStep
<1> QED
  BY <1>1, <1>2, GatewayTyped, PTL DEF GSpec, Spec

-----------------------------------------------------------------------------
(* What others leave of a row.                                             *)

RowGoesOn(i) ==
  /\ status[i] \in Terminal => status'[i] = status[i] /\ resolution'[i] = resolution[i]
  /\ status[i] \notin {"absent", "pending"} =>
       status'[i] \notin {"absent", "pending"} /\ claimedBy'[i] = claimedBy[i]
  /\ claimedBy[i] # Nobody => claimedBy'[i] = claimedBy[i]
  /\ \A v \in votes[i] : \E u \in votes'[i] : u.actor = v.actor

LEMMA RowStep ==
  ASSUME TypeOK, Ownership, [Next]_vars, NEW i \in Id
  PROVE  RowGoesOn(i)
<1>1. claimedBy[i] # Nobody => claimedBy'[i] = claimedBy[i]
  BY OwnerStep
<1>2. status[i] \in Terminal => status'[i] = status[i] /\ resolution'[i] = resolution[i]
  BY ClosedRowIsKept DEF Row, vars
<1>3. ASSUME NEW a \in Ask, Create(a) PROVE RowGoesOn(i)
  <2>1. PICK new \in Id : Inserted(new, a)
    BY <1>3, CreateRows
  <2>2. status[i] \notin {"absent", "pending"} => status'[i] \notin {"absent", "pending"}
    BY <2>1, FiniteAssumption DEF Inserted, Id
  <2> QED
    BY <1>1, <1>2, <1>3, <2>2 DEF RowGoesOn, Create
<1>4. ASSUME NEW j \in Id, NEW b \in Actor, Claim(j, b) PROVE RowGoesOn(i)
  <2>1. status[i] \notin {"absent", "pending"} =>
          status'[i] \notin {"absent", "pending"} /\ claimedBy'[i] = claimedBy[i]
    BY <1>4 DEF Claim, Claimable, TypeOK
  <2> QED
    BY <1>1, <1>2, <1>4, <2>1 DEF RowGoesOn, Claim
<1>5. ASSUME NEW j \in Id, NEW v \in Vote, Cast(j, v), UNCHANGED claimedBy,
             NEW s \in {"claimed", "resolved"}, status' = [status EXCEPT ![j] = s]
      PROVE  RowGoesOn(i)
  <2>1. \A u \in votes[i] : \E w \in votes'[i] : w.actor = u.actor
    BY <1>5 DEF Cast, Upsert, TypeOK
  <2>2. status[i] \notin {"absent", "pending"} => status'[i] \notin {"absent", "pending"}
    BY <1>5 DEF TypeOK
  <2> QED
    BY <1>1, <1>2, <1>5, <2>1, <2>2 DEF RowGoesOn
<1>6. ASSUME NEW j \in Id, NEW v \in Vote, NEW w \in Decision, Finalize(j, v, w)
      PROVE  RowGoesOn(i)
  BY <1>5, <1>6 DEF Finalize
<1>7. ASSUME NEW j \in Id, NEW v \in Vote, AwaitQuorum(j, v) PROVE RowGoesOn(i)
  BY <1>5, <1>7 DEF AwaitQuorum
<1>8. ASSUME NEW j \in Id, NEW outcome \in {"expired", "cancelled"}, MachineOutcome(j, outcome)
      PROVE  RowGoesOn(i)
  <2>1. status[i] \notin {"absent", "pending"} => status'[i] \notin {"absent", "pending"}
    BY <1>8 DEF MachineOutcome, TypeOK
  <2> QED
    BY <1>1, <1>2, <1>8, <2>1 DEF RowGoesOn, MachineOutcome
<1>9. CASE UNCHANGED vars
  BY <1>9 DEF vars, RowGoesOn
<1> QED
  BY <1>3, <1>4, <1>6, <1>7, <1>8, <1>9 DEF Next, CreateRepeated, Late

-----------------------------------------------------------------------------
(* What a caller was told.                                                 *)

Voted(i, b) == \E v \in votes[i] : v.actor = b

\* The answer of h is true of its row, for good.
ReplyFits(h) ==
  LET i == call[h].id
      b == call[h].actor
  IN  /\ reply[h] = "finalized" => status[i] = "resolved" /\ resolution[i].actor = b
      /\ reply[h] = "withdrawn" => status[i] = call[h].outcome
      /\ reply[h] = "owner" => claimedBy[i] = b
      /\ reply[h] = "rejected" =>
           IF call[h].op = "claim"
           THEN /\ status[i] \notin {"absent", "pending"}
                /\ status[i] = "claimed" => claimedBy[i] # b
           ELSE status[i] \in Terminal
      /\ reply[h] = "waiting" /\ call[h].op = "resolve" => Voted(i, b)

\* Answers come last, and only what is resolved is resumed, by the call that
\* finalized it if that is about a single request.
Conduct(h) ==
  /\ stage[h] \in {"idle", "checked", "listed"} =>
       reply[h] = "none" /\ \A i \in Id : h \notin resumedBy[i]
  /\ stage[h] \in {"idle", "checked"} => resuming[h] = {}
  /\ stage[h] = "listed" => call[h].op = "batch"
  /\ \A i \in Id : h \in resumedBy[i] \/ i \in resuming[h] =>
       status[i] = "resolved" /\ (call[h].op # "batch" => reply[h] = "finalized" /\ call[h].id = i)

Knows(h) == reply[h] # "none" => ReplyFits(h)

LEMMA ReplyStays ==
  ASSUME TypeOK, GatewayTypeOK, NEW h \in Handler, stage[h] # "idle", ReplyFits(h),
         \A i \in Id : RowGoesOn(i), call'[h] = call[h], reply'[h] = reply[h]
  PROVE  ReplyFits(h)'
<1> DEFINE i == call[h].id
           b == call[h].actor
<1>1. /\ call[h] \in CallType /\ i \in Id /\ b \in Actor /\ b # Nobody
      /\ call[h].outcome \in {"expired", "cancelled"}
  BY CallTyped, NullAssumption DEF GatewayTypeOK
<1>2. RowGoesOn(i)
  BY <1>1
<1>3. reply[h] = "finalized" => status'[i] = "resolved" /\ resolution'[i].actor = b
  BY <1>2 DEF ReplyFits, RowGoesOn, Terminal
<1>4. reply[h] = "withdrawn" => status'[i] = call[h].outcome
  BY <1>1, <1>2 DEF ReplyFits, RowGoesOn, Terminal
<1>5. reply[h] = "owner" => claimedBy'[i] = b
  BY <1>1, <1>2 DEF ReplyFits, RowGoesOn
<1>6. reply[h] = "rejected" =>
        IF call[h].op = "claim"
        THEN status'[i] \notin {"absent", "pending"} /\ (status'[i] = "claimed" => claimedBy'[i] # b)
        ELSE status'[i] \in Terminal
  BY <1>1, <1>2 DEF ReplyFits, RowGoesOn, Terminal, Active, TypeOK
<1>7. reply[h] = "waiting" /\ call[h].op = "resolve" => Voted(i, b)'
  BY <1>2 DEF ReplyFits, RowGoesOn, Voted
<1> QED
  BY <1>3, <1>4, <1>5, <1>6, <1>7 DEF ReplyFits

\* A handler that does nothing knows what it knew.
LEMMA KnowledgeStays ==
  ASSUME TypeOK, GatewayTypeOK, NEW h \in Handler, Knows(h), Conduct(h),
         \A i \in Id : RowGoesOn(i),
         call'[h] = call[h], reply'[h] = reply[h], stage'[h] = stage[h],
         resuming'[h] = resuming[h],
         \A i \in Id : h \in resumedBy'[i] <=> h \in resumedBy[i]
  PROVE  Knows(h)' /\ Conduct(h)'
<1>1. Knows(h)'
  BY ReplyStays DEF Knows, Conduct
<1>2. \A i \in Id : status[i] = "resolved" => status'[i] = "resolved"
  BY DEF RowGoesOn, Terminal
<1>3. Conduct(h)'
  BY <1>2 DEF Conduct
<1> QED
  BY <1>1, <1>3

\* A handler that gives its answer: what it says holds, and so does what it owes.
LEMMA AnswerFits ==
  ASSUME GatewayTypeOK, NEW h \in Handler, Conduct(h), stage[h] \in {"idle", "checked", "listed"},
         NEW answer, NEW owed \in SUBSET Id, Answers(h, answer, owed), UNCHANGED resumedBy,
         reply'[h] = answer => ReplyFits(h)',
         \A i \in owed : status'[i] = "resolved"
                           /\ (call'[h].op # "batch" => answer = "finalized" /\ call'[h].id = i)
  PROVE  Knows(h)' /\ Conduct(h)'
<1>1. /\ reply'[h] = answer /\ resuming'[h] = owed /\ stage'[h] \in {"done", "resuming"}
  BY DEF Answers, GatewayTypeOK
<1>2. \A i \in Id : h \notin resumedBy'[i]
  BY DEF Conduct
<1> QED
  BY <1>1, <1>2 DEF Knows, Conduct

-----------------------------------------------------------------------------
(* Every handler keeps to it.                                              *)

LEMMA CreateFits ==
  ASSUME TypeOK, GatewayTypeOK, NEW h \in Handler, Conduct(h), NEW c \in Call, CreateCall(h, c)
  PROVE  Knows(h)' /\ Conduct(h)'
<1>1. PICK answer \in {"created", "existing"} : Answers(h, answer, {})
  BY DEF CreateCall
<1>2. stage[h] = "idle" /\ resumedBy' = resumedBy
  BY DEF CreateCall
<1>3. reply'[h] = answer => ReplyFits(h)'
  BY <1>1 DEF ReplyFits
<1> QED
  BY <1>1, <1>2, <1>3, AnswerFits

LEMMA ClaimFits ==
  ASSUME TypeOK, GatewayTypeOK, NEW h \in Handler, Conduct(h), NEW c \in Call, ClaimCall(h, c)
  PROVE  Knows(h)' /\ Conduct(h)'
<1> DEFINE i == c.id
           b == c.actor
<1>1. /\ stage[h] = "idle" /\ c.op = "claim" /\ resumedBy' = resumedBy /\ call'[h] = c
      /\ i \in Id /\ b \in Actor
  BY CallAssumption, CallTyped DEF ClaimCall, GatewayTypeOK
<1>2. CASE Claim(i, b) /\ Answers(h, "owner", {})
  <2>1. claimedBy'[i] = b
    BY <1>1, <1>2 DEF Claim, TypeOK
  <2>2. reply'[h] = "owner" => ReplyFits(h)'
    BY <1>1, <2>1 DEF ReplyFits
  <2> QED
    BY <1>1, <1>2, <2>2, AnswerFits
<1>3. CASE Answers(h, "forbidden", {}) \/ Answers(h, "missing", {})
  <2>1. PICK answer \in {"forbidden", "missing"} : Answers(h, answer, {})
    BY <1>3
  <2>2. reply'[h] = answer => ReplyFits(h)'
    BY <2>1 DEF ReplyFits
  <2> QED
    BY <1>1, <2>1, <2>2, AnswerFits
<1>4. CASE Late(i) /\ Answers(h, OwnerReply(i, b), {})
  <2>1. status[i] \in Terminal \cup {"claimed"} /\ UNCHANGED vars
    BY <1>4 DEF Late
  <2>2. CASE status[i] = "claimed" /\ claimedBy[i] = b
    <3>1. Answers(h, "owner", {})
      BY <1>4, <2>2 DEF OwnerReply
    <3>2. reply'[h] = "owner" => ReplyFits(h)'
      BY <1>1, <2>1, <2>2 DEF ReplyFits, vars
    <3> QED
      BY <1>1, <3>1, <3>2, AnswerFits
  <2>3. CASE ~(status[i] = "claimed" /\ claimedBy[i] = b)
    <3>1. Answers(h, "rejected", {})
      BY <1>4, <2>3 DEF OwnerReply
    <3>2. reply'[h] = "rejected" => ReplyFits(h)'
      BY <1>1, <2>1, <2>3 DEF ReplyFits, vars, Terminal
    <3> QED
      BY <1>1, <3>1, <3>2, AnswerFits
  <2> QED
    BY <2>2, <2>3
<1> QED
  BY <1>2, <1>3, <1>4 DEF ClaimCall

LEMMA CheckFits ==
  ASSUME TypeOK, GatewayTypeOK, NEW h \in Handler, Conduct(h), NEW c \in Call, Check(h, c)
  PROVE  Knows(h)' /\ Conduct(h)'
<1>1. /\ stage[h] = "idle" /\ c.op # "claim" /\ UNCHANGED vars /\ resumedBy' = resumedBy
      /\ call'[h] = c /\ c.id \in Id
  BY CallAssumption, CallTyped DEF Check, GatewayTypeOK
<1>2. CASE status[c.id] \in Active
  <2>1. stage'[h] = "checked" /\ reply'[h] = "none" /\ resuming'[h] = {}
    BY <1>1, <1>2 DEF Check, GatewayTypeOK, Conduct
  <2> QED
    BY <1>1, <2>1 DEF Knows, Conduct
<1>3. CASE status[c.id] = "absent"
  <2>1. Answers(h, "missing", {})
    BY <1>3 DEF Check, Active
  <2>2. reply'[h] = "missing" => ReplyFits(h)'
    BY DEF ReplyFits
  <2> QED
    BY <1>1, <2>1, <2>2, AnswerFits
<1>4. CASE status[c.id] \in Terminal
  <2>1. Answers(h, "rejected", {})
    BY <1>4 DEF Check, Active, Terminal
  <2>2. reply'[h] = "rejected" => ReplyFits(h)'
    BY <1>1, <1>4 DEF ReplyFits, vars
  <2> QED
    BY <1>1, <2>1, <2>2, AnswerFits
<1> QED
  BY <1>1, <1>2, <1>3, <1>4 DEF TypeOK

LEMMA CommitFits ==
  ASSUME TypeOK, GatewayTypeOK, NEW h \in Handler, Conduct(h), CommitAnswer(h)
  PROVE  Knows(h)' /\ Conduct(h)'
<1> DEFINE i == call[h].id
           v == VoteOf(call[h])
<1>1. /\ stage[h] = "checked" /\ call[h].op \in {"resolve", "channel"}
      /\ UNCHANGED <<call, resumedBy>>
      /\ i \in Id /\ v \in Vote /\ v.actor = call[h].actor
  BY CallTyped DEF CommitAnswer, GatewayTypeOK, VoteOf
<1>2. ASSUME NEW w \in Decision, Finalize(i, v, w), Answers(h, "finalized", Owes(i, TRUE))
      PROVE  Knows(h)' /\ Conduct(h)'
  <2>1. status'[i] = "resolved" /\ resolution'[i].actor = call[h].actor
    BY <1>1, <1>2 DEF Finalize, TypeOK
  <2>2. Owes(i, TRUE) = {i}
    BY DEF Owes
  <2>3. reply'[h] = "finalized" => ReplyFits(h)'
    BY <1>1, <2>1 DEF ReplyFits
  <2> QED
    BY <1>1, <1>2, <2>1, <2>2, <2>3, AnswerFits
<1>3. CASE AwaitQuorum(i, v) /\ Answers(h, "waiting", {})
  <2>1. v \in votes'[i]
    BY <1>1, <1>3, CastType DEF AwaitQuorum, Upsert
  <2>2. reply'[h] = "waiting" => ReplyFits(h)'
    BY <1>1, <2>1 DEF ReplyFits, Voted
  <2> QED
    BY <1>1, <1>3, <2>2, AnswerFits
<1>4. CASE Answers(h, "forbidden", {})
  <2>1. reply'[h] = "forbidden" => ReplyFits(h)'
    BY DEF ReplyFits
  <2> QED
    BY <1>1, <1>4, <2>1, AnswerFits
<1>5. CASE ~IsOpen(i) /\ Late(i) /\ Answers(h, LateReply(call[h].op), Owes(i, FALSE))
  <2>1. status[i] \in Terminal /\ UNCHANGED vars /\ Owes(i, FALSE) = {}
    BY <1>5 DEF Late, IsOpen, Active, Owes
  <2>2. CASE call[h].op = "resolve"
    <3>1. Answers(h, "rejected", {})
      BY <1>5, <2>1, <2>2 DEF LateReply
    <3>2. reply'[h] = "rejected" => ReplyFits(h)'
      BY <1>1, <2>1, <2>2 DEF ReplyFits, vars
    <3> QED
      BY <1>1, <3>1, <3>2, AnswerFits
  <2>3. CASE call[h].op = "channel"
    <3>1. Answers(h, "waiting", {})
      BY <1>5, <2>1, <2>3 DEF LateReply
    <3>2. reply'[h] = "waiting" => ReplyFits(h)'
      BY <1>1, <2>3 DEF ReplyFits
    <3> QED
      BY <1>1, <3>1, <3>2, AnswerFits
  <2> QED
    BY <1>1, <2>2, <2>3
<1> QED
  BY <1>2, <1>3, <1>4, <1>5 DEF CommitAnswer

LEMMA OutcomeFits ==
  ASSUME TypeOK, GatewayTypeOK, NEW h \in Handler, Conduct(h), CommitOutcome(h)
  PROVE  Knows(h)' /\ Conduct(h)'
<1> DEFINE i == call[h].id
           outcome == call[h].outcome
<1>1. /\ stage[h] = "checked" /\ call[h].op = "outcome" /\ UNCHANGED <<call, resumedBy>>
      /\ i \in Id
  BY CallTyped DEF CommitOutcome, GatewayTypeOK
<1>2. CASE MachineOutcome(i, outcome) /\ Answers(h, "withdrawn", {})
  <2>1. status'[i] = outcome
    BY <1>1, <1>2 DEF MachineOutcome, TypeOK
  <2>2. reply'[h] = "withdrawn" => ReplyFits(h)'
    BY <1>1, <2>1 DEF ReplyFits
  <2> QED
    BY <1>1, <1>2, <2>2, AnswerFits
<1>3. CASE ~IsOpen(i) /\ Late(i) /\ Answers(h, OutcomeReply(i, outcome), {})
  <2>1. status[i] \in Terminal /\ UNCHANGED vars
    BY <1>3 DEF Late, IsOpen, Active
  <2>2. CASE status[i] = outcome
    <3>1. Answers(h, "withdrawn", {})
      BY <1>3, <2>2 DEF OutcomeReply
    <3>2. reply'[h] = "withdrawn" => ReplyFits(h)'
      BY <1>1, <2>1, <2>2 DEF ReplyFits, vars
    <3> QED
      BY <1>1, <3>1, <3>2, AnswerFits
  <2>3. CASE status[i] # outcome
    <3>1. Answers(h, "rejected", {})
      BY <1>3, <2>3 DEF OutcomeReply
    <3>2. reply'[h] = "rejected" => ReplyFits(h)'
      BY <1>1, <2>1 DEF ReplyFits, vars
    <3> QED
      BY <1>1, <3>1, <3>2, AnswerFits
  <2> QED
    BY <2>2, <2>3
<1> QED
  BY <1>2, <1>3 DEF CommitOutcome

LEMMA BatchFits ==
  ASSUME TypeOK, GatewayTypeOK, NEW h \in Handler, Conduct(h), \A i \in Id : RowGoesOn(i),
         (\E c \in Call : ListBatch(h, c)) \/ (\E i \in Id : CommitItem(h, i)) \/ EndBatch(h)
  PROVE  Knows(h)' /\ Conduct(h)'
<1>r. \A i \in Id : status[i] = "resolved" => status'[i] = "resolved"
  BY DEF RowGoesOn, Terminal
<1>1. ASSUME NEW c \in Call, ListBatch(h, c) PROVE Knows(h)' /\ Conduct(h)'
  <2>1. stage[h] = "idle" /\ c.op = "batch" /\ call'[h] = c /\ resumedBy' = resumedBy
    BY <1>1 DEF ListBatch, GatewayTypeOK
  <2>2. CASE \A i \in InBatch : Eligible(i, c.actor) /\ KindAllowed(i, c.kind)
    <3>1. stage'[h] = "listed" /\ reply'[h] = "none" /\ resuming'[h] = {}
      BY <1>1, <2>1, <2>2 DEF ListBatch, GatewayTypeOK, Conduct
    <3> QED
      BY <2>1, <3>1 DEF Knows, Conduct
  <2>3. CASE ~ \A i \in InBatch : Eligible(i, c.actor) /\ KindAllowed(i, c.kind)
    <3>1. Answers(h, "forbidden", {})
      BY <1>1, <2>3 DEF ListBatch
    <3>2. reply'[h] = "forbidden" => ReplyFits(h)'
      BY DEF ReplyFits
    <3> QED
      BY <2>1, <3>1, <3>2, AnswerFits
  <2> QED
    BY <2>2, <2>3
<1>2. ASSUME NEW i \in Id, CommitItem(h, i) PROVE Knows(h)' /\ Conduct(h)'
  <2>1. /\ stage[h] = "listed" /\ UNCHANGED <<call, stage, reply, resumedBy>>
        /\ call[h].op = "batch" /\ reply[h] = "none"
    BY <1>2 DEF CommitItem, Conduct
  <2>2. \A j \in Id : j \in resuming'[h] => j \in resuming[h] \/ (j = i /\ status'[i] = "resolved")
    BY <1>2 DEF CommitItem, Deliverable, GatewayTypeOK
  <2> QED
    BY <1>r, <2>1, <2>2 DEF Knows, Conduct
<1>3. CASE EndBatch(h)
  <2>1. /\ stage[h] = "listed" /\ UNCHANGED <<call, resumedBy>> /\ call[h].op = "batch"
        /\ Answers(h, "batch", resuming[h]) /\ resuming[h] \in SUBSET Id
    BY <1>3 DEF EndBatch, Conduct, GatewayTypeOK
  <2>2. \A i \in resuming[h] : status'[i] = "resolved"
    BY <1>r, <2>1 DEF Conduct
  <2>3. reply'[h] = "batch" => ReplyFits(h)'
    BY DEF ReplyFits
  <2> QED
    BY <2>1, <2>2, <2>3, AnswerFits
<1> QED
  BY <1>1, <1>2, <1>3

LEMMA ResumeFits ==
  ASSUME TypeOK, GatewayTypeOK, NEW h \in Handler, Knows(h), Conduct(h),
         \A i \in Id : RowGoesOn(i),
         (\E i \in Id : ResumeAndRecord(h, i)) \/ Crash(h)
  PROVE  Knows(h)' /\ Conduct(h)'
<1>1. /\ UNCHANGED <<vars, call, reply>>
      /\ stage[h] # "idle" /\ stage'[h] \in {stage[h], "done", "dead"}
      /\ stage'[h] = stage[h] => stage[h] = "resuming"
  BY DEF ResumeAndRecord, Crash, GatewayTypeOK
<1>2. Knows(h)'
  BY <1>1, ReplyStays DEF Knows
<1>3. \A i \in Id : h \in resumedBy'[i] \/ i \in resuming'[h] => h \in resumedBy[i] \/ i \in resuming[h]
  BY DEF ResumeAndRecord, Crash, GatewayTypeOK
<1>4. \A i \in Id : status'[i] = status[i]
  BY <1>1 DEF vars
<1> QED
  BY <1>1, <1>2, <1>3, <1>4 DEF Conduct

-----------------------------------------------------------------------------
(* Steps of one handler among others.                                      *)

Acts(h) ==
  \/ \E c \in Call : CreateCall(h, c) \/ ClaimCall(h, c) \/ Check(h, c) \/ ListBatch(h, c)
  \/ CommitAnswer(h) \/ CommitOutcome(h) \/ EndBatch(h) \/ Crash(h)
  \/ \E i \in Id : CommitItem(h, i) \/ ResumeAndRecord(h, i)

Rests(g) ==
  /\ call'[g] = call[g] /\ reply'[g] = reply[g] /\ stage'[g] = stage[g]
  /\ resuming'[g] = resuming[g]
  /\ \A i \in Id : g \in resumedBy'[i] <=> g \in resumedBy[i]

LEMMA OneActs ==
  ASSUME GatewayTypeOK, GNext
  PROVE  \E h \in Handler : Acts(h) /\ \A g \in Handler \ {h} : Rests(g)
<1>1. PICK h \in Handler : Acts(h)
  BY DEF GNext, Acts
<1>2. ASSUME NEW g \in Handler \ {h} PROVE Rests(g)
  <2>1. CASE \E c \in Call : CreateCall(h, c)
    BY <2>1 DEF CreateCall, Answers, Rests, GatewayTypeOK
  <2>2. CASE \E c \in Call : ClaimCall(h, c)
    <3>1. PICK answer : Answers(h, answer, {})
      BY <2>2 DEF ClaimCall
    <3> QED
      BY <2>2, <3>1 DEF ClaimCall, Answers, Rests, GatewayTypeOK
  <2>3. CASE \E c \in Call : Check(h, c)
    BY <2>3 DEF Check, Answers, Rests, GatewayTypeOK
  <2>4. CASE \E c \in Call : ListBatch(h, c)
    BY <2>4 DEF ListBatch, Answers, Rests, GatewayTypeOK
  <2>5. CASE CommitAnswer(h)
    <3>1. PICK answer, owed : Answers(h, answer, owed)
      BY <2>5 DEF CommitAnswer
    <3> QED
      BY <2>5, <3>1 DEF CommitAnswer, Answers, Rests, GatewayTypeOK
  <2>6. CASE CommitOutcome(h)
    BY <2>6 DEF CommitOutcome, Answers, Rests, GatewayTypeOK
  <2>7. CASE EndBatch(h)
    BY <2>7 DEF EndBatch, Answers, Rests, GatewayTypeOK
  <2>8. CASE Crash(h)
    BY <2>8 DEF Crash, Rests, GatewayTypeOK
  <2>9. CASE \E i \in Id : CommitItem(h, i)
    BY <2>9 DEF CommitItem, Rests, GatewayTypeOK
  <2>10. CASE \E i \in Id : ResumeAndRecord(h, i)
    BY <2>10 DEF ResumeAndRecord, Rests, GatewayTypeOK
  <2> QED
    BY <1>1, <2>1, <2>2, <2>3, <2>4, <2>5, <2>6, <2>7, <2>8, <2>9, <2>10 DEF Acts
<1> QED
  BY <1>1, <1>2

\* Every handler knows what it told and conducts itself.
Honest == \A h \in Handler : Knows(h) /\ Conduct(h)

LEMMA HonestStep ==
  ASSUME TypeOK, GatewayTypeOK, Ownership, Honest, [GNext]_gvars
  PROVE  Honest'
<1>1. \A i \in Id : RowGoesOn(i)
  BY StoreStep, RowStep
<1>2. CASE UNCHANGED gvars
  <2>1. \A h \in Handler : Rests(h)
    BY <1>2 DEF gvars, handlerVars, Rests
  <2> QED
    BY <1>1, <2>1, KnowledgeStays DEF Honest, Rests
<1>3. ASSUME NEW h \in Handler, Acts(h), \A g \in Handler \ {h} : Rests(g) PROVE Honest'
  <2>1. Knows(h) /\ Conduct(h)
    BY DEF Honest
  <2>2. Knows(h)' /\ Conduct(h)'
    BY <1>1, <1>3, <2>1, CreateFits, ClaimFits, CheckFits, CommitFits, OutcomeFits, BatchFits,
       ResumeFits DEF Acts
  <2>3. \A g \in Handler \ {h} : Knows(g)' /\ Conduct(g)'
    BY <1>1, <1>3, KnowledgeStays DEF Honest, Rests
  <2> QED
    BY <2>2, <2>3 DEF Honest
<1> QED
  BY <1>2, <1>3, OneActs

-----------------------------------------------------------------------------
(* One winner, and nothing forgotten.                                      *)

Sole ==
  \A h, g \in Handler :
    reply[h] = "finalized" /\ reply[g] = "finalized" /\ call[h].id = call[g].id => h = g

\* What the acting handler adds: it finalizes only what was open, and what it
\* resolves or had to resume is not dropped.
LEMMA ActorOwes ==
  ASSUME TypeOK, GatewayTypeOK, NEW h \in Handler, Conduct(h), Acts(h)
  PROVE  /\ reply'[h] = "finalized" =>
              \/ reply[h] = "finalized" /\ call'[h] = call[h]
              \/ status[call'[h].id] \in Active
         /\ \A i \in Id : status'[i] = "resolved" => status[i] = "resolved" \/ i \in resuming'[h]
         /\ \A i \in Id : i \in resuming[h] => i \in resuming'[h] \/ h \in resumedBy'[i]
         /\ \A i \in Id : resumedBy[i] \subseteq resumedBy'[i]
<1> DEFINE Goal ==
      /\ reply'[h] = "finalized" =>
           \/ reply[h] = "finalized" /\ call'[h] = call[h]
           \/ status[call'[h].id] \in Active
      /\ \A i \in Id : status'[i] = "resolved" => status[i] = "resolved" \/ i \in resuming'[h]
      /\ \A i \in Id : i \in resuming[h] => i \in resuming'[h] \/ h \in resumedBy'[i]
      /\ \A i \in Id : resumedBy[i] \subseteq resumedBy'[i]
<1>1. ASSUME resuming[h] = {}, resumedBy' = resumedBy,
             NEW answer \in Reply \ {"finalized"}, NEW owed \in SUBSET Id,
             Answers(h, answer, owed),
             \A i \in Id : status'[i] = "resolved" => status[i] = "resolved"
      PROVE  Goal
  BY <1>1 DEF Answers, GatewayTypeOK
<1>2. ASSUME NEW c \in Call, CreateCall(h, c) PROVE Goal
  <2>1. resuming[h] = {} /\ resumedBy' = resumedBy
    BY <1>2 DEF CreateCall, Conduct
  <2>2. \A i \in Id : status'[i] = "resolved" => status[i] = "resolved"
    BY <1>2 DEF CreateCall, Create, CreateRepeated, vars
  <2>3. \E answer \in {"created", "existing"} : Answers(h, answer, {})
    BY <1>2 DEF CreateCall
  <2> QED
    BY <1>1, <2>1, <2>2, <2>3 DEF Reply
<1>3. ASSUME NEW c \in Call, ClaimCall(h, c) PROVE Goal
  <2>1. resuming[h] = {} /\ resumedBy' = resumedBy
    BY <1>3 DEF ClaimCall, Conduct
  <2>2. \A i \in Id : status'[i] = "resolved" => status[i] = "resolved"
    BY <1>3 DEF ClaimCall, Claim, Late, vars, TypeOK
  <2>3. \E answer \in {"owner", "forbidden", "rejected", "missing"} : Answers(h, answer, {})
    <3>1. OwnerReply(c.id, c.actor) \in {"owner", "rejected"}
      BY DEF OwnerReply
    <3> QED
      BY <1>3, <3>1 DEF ClaimCall
  <2> QED
    BY <1>1, <2>1, <2>2, <2>3 DEF Reply
<1>4. ASSUME NEW c \in Call, Check(h, c) \/ ListBatch(h, c) PROVE Goal
  <2>1. /\ resuming[h] = {} /\ reply[h] = "none" /\ UNCHANGED <<status, resumedBy>>
    BY <1>4 DEF Check, ListBatch, Conduct, vars
  <2>2. CASE UNCHANGED <<reply, resuming>>
    BY <2>1, <2>2
  <2>3. CASE ~ UNCHANGED <<reply, resuming>>
    <3>1. \E answer \in {"missing", "rejected", "forbidden"} : Answers(h, answer, {})
      BY <1>4, <2>3 DEF Check, ListBatch
    <3> QED
      BY <1>1, <2>1, <3>1 DEF Reply
  <2> QED
    BY <2>2, <2>3
<1>5. ASSUME CommitAnswer(h) PROVE Goal
  <2> DEFINE i == call[h].id
             v == VoteOf(call[h])
  <2>1. resuming[h] = {} /\ UNCHANGED <<call, resumedBy>> /\ i \in Id
    BY <1>5, CallTyped DEF CommitAnswer, Conduct, GatewayTypeOK
  <2>2. ASSUME NEW w \in Decision, Finalize(i, v, w), Answers(h, "finalized", Owes(i, TRUE))
        PROVE  Goal
    <3>1. status[i] \in Active /\ status' = [status EXCEPT ![i] = "resolved"]
      BY <2>2 DEF Finalize, Cast, IsOpen
    <3>2. resuming'[h] = {i}
      BY <2>2 DEF Answers, Owes, GatewayTypeOK
    <3> QED
      BY <2>1, <3>1, <3>2 DEF TypeOK
  <2>3. CASE AwaitQuorum(i, v) /\ Answers(h, "waiting", {})
    <3>1. \A j \in Id : status'[j] = "resolved" => status[j] = "resolved"
      BY <2>3 DEF AwaitQuorum, TypeOK
    <3> QED
      BY <1>1, <2>1, <2>3, <3>1 DEF Reply
  <2>4. CASE Answers(h, "forbidden", {}) /\ UNCHANGED vars
    BY <1>1, <2>1, <2>4 DEF Reply, vars
  <2>5. CASE Late(i) /\ Answers(h, LateReply(call[h].op), Owes(i, FALSE))
    <3>1. LateReply(call[h].op) \in Reply \ {"finalized"} /\ Owes(i, FALSE) \in SUBSET Id
      BY DEF LateReply, Reply, Owes
    <3>2. status' = status
      BY <2>5 DEF Late, vars
    <3> HIDE DEF LateReply, Owes, Goal
    <3> QED
      BY <1>1, <2>1, <2>5, <3>1, <3>2
  <2> QED
    BY <1>5, <2>2, <2>3, <2>4, <2>5 DEF CommitAnswer
<1>6. ASSUME CommitOutcome(h) PROVE Goal
  <2>1. resuming[h] = {} /\ resumedBy' = resumedBy
    BY <1>6 DEF CommitOutcome, Conduct
  <2>2. \A i \in Id : status'[i] = "resolved" => status[i] = "resolved"
    <3>1. call[h].outcome # "resolved"
      BY <1>6, CallTyped DEF CommitOutcome, GatewayTypeOK
    <3> QED
      BY <1>6, <3>1 DEF CommitOutcome, MachineOutcome, Late, vars, TypeOK
  <2>3. \E answer \in {"withdrawn", "rejected"} : Answers(h, answer, {})
    <3>1. OutcomeReply(call[h].id, call[h].outcome) \in {"withdrawn", "rejected"}
      BY DEF OutcomeReply
    <3> QED
      BY <1>6, <3>1 DEF CommitOutcome
  <2> QED
    BY <1>1, <2>1, <2>2, <2>3 DEF Reply
<1>7. ASSUME NEW i \in Id, CommitItem(h, i) PROVE Goal
  <2>1. /\ UNCHANGED <<call, reply, resumedBy>>
        /\ resuming' = IF Deliverable(status'[i])
                       THEN [resuming EXCEPT ![h] = @ \cup {i}] ELSE resuming
    BY <1>7 DEF CommitItem
  <2>2. \A j \in Id : status'[j] = "resolved" => status[j] = "resolved" \/ j = i
    BY <1>7 DEF CommitItem, Finalize, AwaitQuorum, Late, vars, TypeOK
  <2> QED
    BY <2>1, <2>2 DEF Deliverable, GatewayTypeOK
<1>8. ASSUME EndBatch(h) PROVE Goal
  <2>1. UNCHANGED <<status, resumedBy>> /\ reply'[h] = "batch" /\ resuming'[h] = resuming[h]
    BY <1>8 DEF EndBatch, Answers, GatewayTypeOK, vars
  <2> QED
    BY <2>1
<1>9. ASSUME NEW i \in Id, ResumeAndRecord(h, i) PROVE Goal
  <2>1. UNCHANGED <<status, call, reply>>
    BY <1>9 DEF ResumeAndRecord, vars
  <2> QED
    BY <1>9, <2>1 DEF ResumeAndRecord, GatewayTypeOK
<1>10. ASSUME Crash(h) PROVE Goal
  BY <1>10 DEF Crash, vars
<1> QED
  BY <1>2, <1>3, <1>4, <1>5, <1>6, <1>7, <1>8, <1>9, <1>10 DEF Acts

LEMMA SoleStep ==
  ASSUME TypeOK, GatewayTypeOK, Honest, Sole, [GNext]_gvars
  PROVE  Sole'
<1>1. CASE UNCHANGED gvars
  BY <1>1 DEF gvars, handlerVars, Sole
<1>2. ASSUME NEW a \in Handler, Acts(a), \A g \in Handler \ {a} : Rests(g) PROVE Sole'
  <2>1. reply'[a] = "finalized" =>
          \/ reply[a] = "finalized" /\ call'[a] = call[a]
          \/ status[call'[a].id] \in Active
    BY <1>2, ActorOwes DEF Honest
  <2>2. \A g \in Handler \ {a} : reply'[g] = reply[g] /\ call'[g] = call[g]
    BY <1>2 DEF Rests
  <2>3. \A g \in Handler : reply[g] = "finalized" => status[call[g].id] \notin Active
    BY DEF Honest, Knows, ReplyFits, Active
  <2> QED
    BY <2>1, <2>2, <2>3 DEF Sole
<1> QED
  BY <1>1, <1>2, OneActs

LEMMA OwedStep ==
  ASSUME TypeOK, GatewayTypeOK, Honest, ResumeOwed, [GNext]_gvars
  PROVE  ResumeOwed'
<1>1. CASE UNCHANGED gvars
  BY <1>1 DEF gvars, vars, handlerVars, ResumeOwed
<1>2. ASSUME NEW a \in Handler, Acts(a), \A g \in Handler \ {a} : Rests(g) PROVE ResumeOwed'
  <2>1. /\ \A i \in Id : status'[i] = "resolved" => status[i] = "resolved" \/ i \in resuming'[a]
        /\ \A i \in Id : i \in resuming[a] => i \in resuming'[a] \/ a \in resumedBy'[i]
        /\ \A i \in Id : resumedBy[i] \subseteq resumedBy'[i]
    BY <1>2, ActorOwes DEF Honest
  <2>2. \A g \in Handler \ {a} : resuming'[g] = resuming[g]
    BY <1>2 DEF Rests
  <2> QED
    BY <2>1, <2>2 DEF ResumeOwed
<1> QED
  BY <1>1, <1>2, OneActs

LEMMA GatewayInvariant ==
  GSpec => [](TypeOK /\ GatewayTypeOK /\ Honest /\ Sole /\ ResumeOwed)
<1>1. GInit => Honest /\ Sole /\ ResumeOwed
  BY DEF GInit, Init, Honest, Sole, ResumeOwed, Knows, Conduct
<1>2. TypeOK /\ GatewayTypeOK /\ Ownership /\ Honest /\ Sole /\ ResumeOwed /\ [GNext]_gvars
        => (Honest /\ Sole /\ ResumeOwed)'
  BY HonestStep, SoleStep, OwedStep
<1> QED
  BY <1>1, <1>2, GatewayTyped, HandlersUseTheStore, OwnershipInvariant, PTL DEF GSpec

-----------------------------------------------------------------------------
(* What callers and machines can rely on.                                  *)

\* The answers of claim_request, resolve_request, channel_resolve and
\* machine_outcome fit together and fit the row, though each handler looks at
\* the row in another step than the transaction that changed it.
THEOREM AnswersFitTheRow == GSpec => []ToldFitsTheRow
<1>1. TypeOK /\ GatewayTypeOK /\ Honest /\ Sole => ToldFitsTheRow
  <2> SUFFICES ASSUME TypeOK, GatewayTypeOK, Honest, Sole, NEW h \in Handler, NEW g \in Handler,
                      NEW i \in Id
               PROVE  /\ Told(h, "finalized", i) =>
                           /\ status[i] = "resolved" /\ resolution[i].actor = call[h].actor
                           /\ Told(g, "finalized", i) => g = h
                           /\ ~Told(g, "withdrawn", i)
                      /\ Told(h, "withdrawn", i) => status[i] = call[h].outcome
                      /\ Told(h, "owner", i) => claimedBy[i] = call[h].actor
    BY DEF ToldFitsTheRow
  <2>1. \A f \in Handler : reply[f] # "none" => ReplyFits(f)
    BY DEF Honest, Knows
  <2>2. Told(g, "withdrawn", i) => status[i] \in {"expired", "cancelled"}
    <3> SUFFICES ASSUME Told(g, "withdrawn", i) PROVE status[i] \in {"expired", "cancelled"}
      OBVIOUS
    <3>1. status[i] = call[g].outcome /\ stage[g] # "idle"
      BY <2>1 DEF Told, ReplyFits, Honest, Conduct
    <3> QED
      BY <3>1, CallTyped DEF GatewayTypeOK
  <2> QED
    BY <2>1, <2>2 DEF Told, ReplyFits, Sole
<1> QED
  BY <1>1, GatewayInvariant, PTL

\* A refusal of claim_request or resolve_request is never wrong: the request
\* is closed, or not the caller's.
THEOREM RefusalsAreTrue == GSpec => []RejectedIsTrue
<1>1. Honest => RejectedIsTrue
  BY DEF Honest, Knows, ReplyFits, RejectedIsTrue, Told, Active
<1> QED
  BY <1>1, GatewayInvariant, PTL

\* _resume_and_record runs for resolved requests, and outside batches only in
\* the call that finalized the request.
THEOREM WinnersResume == GSpec => []ResumedByWinner
<1>1. Honest => ResumedByWinner
  BY DEF Honest, Conduct, ResumedByWinner, Single, Told
<1> QED
  BY <1>1, GatewayInvariant, PTL

\* A resolution is resumed or somebody still owes it, batches included.
THEOREM ResolutionsAreResumed == GSpec => []ResumeOwed
BY GatewayInvariant, PTL

\* Who is told that the quorum is awaited by resolve_request has a vote in it.
THEOREM WaitingHasAVote == GSpec => []WaitingMeansVoted
<1>1. Honest => WaitingMeansVoted
  BY DEF Honest, Knows, ReplyFits, WaitingMeansVoted, Told, Voted
<1> QED
  BY <1>1, GatewayInvariant, PTL

-----------------------------------------------------------------------------
(* The Gateway under its chats.                                            *)

Posting == [handler : Handler, update : Nat \ {0}]

CardsTypeOK ==
  /\ updates \in Seq(Press)
  /\ confirmed \in Nat /\ offset \in Nat
  /\ batch \in Seq(1..Len(updates))
  /\ posting = Idle \/ posting \in Posting
  /\ pressing \subseteq Handler
  /\ buttons \in [Channel -> SUBSET Id] /\ served \in [Channel -> SUBSET Handler]

\* The presses a Telegram worker holds are updates there are.
LEMMA HeadIsPress ==
  ASSUME CardsTypeOK, batch # <<>>
  PROVE  /\ Head(batch) \in 1..Len(updates) /\ Head(batch) \in Nat \ {0}
         /\ updates[Head(batch)] \in Press /\ Tail(batch) \in Seq(1..Len(updates))
<1>1. Head(batch) \in 1..Len(updates) /\ Tail(batch) \in Seq(1..Len(updates))
  BY DEF CardsTypeOK
<1>2. Len(updates) \in Nat /\ updates[Head(batch)] \in Press
  BY <1>1 DEF CardsTypeOK
<1> QED
  BY <1>1, <1>2

LEMMA PressIsCall == Press \subseteq Call
BY PressAssumption

LEMMA GatewayStep ==
  ASSUME CardsTypeOK, [CNext]_cvars
  PROVE  [GNext]_gvars
<1>1. ASSUME NEW h \in Handler, Handle(h) PROVE [GNext]_gvars
  <2>1. updates[Head(batch)] \in Call
    BY <1>1, HeadIsPress, PressIsCall DEF Handle
  <2> QED
    BY <1>1, <2>1 DEF Handle, GNext
<1>2. ASSUME NEW h \in Handler, NEW c \in Press, PressSlack(h, c) PROVE GNext
  BY <1>2, PressIsCall DEF PressSlack, GNext
<1>3. ASSUME NEW c \in Press, PressTelegram(c) PROVE UNCHANGED gvars
  BY <1>3 DEF PressTelegram
<1>4. CASE Poll \/ Hear \/ TimesOut \/ WorkerRestarts
  BY <1>4 DEF Poll, Hear, TimesOut, WorkerRestarts
<1>5. ASSUME NEW h \in Handler, HearSlack(h) \/ DropSlack(h) PROVE UNCHANGED gvars
  BY <1>5 DEF HearSlack, DropSlack
<1>6. CASE UNCHANGED cvars
  BY <1>6 DEF cvars
<1> QED
  BY <1>1, <1>2, <1>3, <1>4, <1>5, <1>6 DEF CNext

LEMMA PollType ==
  ASSUME CardsTypeOK, Poll
  PROVE  /\ confirmed' = Later(confirmed, offset) /\ confirmed' \in Nat
         /\ batch' \in Seq(1..Len(updates))
         /\ \A n \in 1..Len(batch') : batch'[n] = confirmed' + n
<1> DEFINE seen == Later(confirmed, offset)
           left == Len(updates) - seen
<1>1. seen \in Nat /\ Len(updates) \in Nat /\ left \in Int
  BY DEF CardsTypeOK, Later
<1>2. confirmed' = seen /\ batch' = [n \in 1..left |-> seen + n]
  BY DEF Poll, Confirms
<1>3. \A n \in 1..left : seen + n \in 1..Len(updates)
  BY <1>1
<1> HIDE DEF seen
<1>4. CASE left <= 0
  <2>1. 1..left = 1..0
    BY <1>1, <1>4
  <2>2. batch' = [n \in 1..0 |-> seen + n]
    BY <1>2, <2>1
  <2>3. batch' \in Seq(1..Len(updates)) /\ Len(batch') = 0
    BY <2>2
  <2>4. \A n \in 1..Len(batch') : batch'[n] = confirmed' + n
    BY <2>3
  <2> QED
    BY <1>1, <1>2, <2>3, <2>4 DEF seen
<1>5. CASE left > 0
  <2>1. left \in Nat
    BY <1>1, <1>5
  <2>2. batch' \in [1..left -> 1..Len(updates)]
    BY <1>2, <1>3
  <2>3. batch' \in Seq(1..Len(updates)) /\ Len(batch') = left
    BY <2>1, <2>2
  <2>4. \A n \in 1..Len(batch') : batch'[n] = confirmed' + n
    BY <1>2, <2>3
  <2> QED
    BY <1>1, <1>2, <2>3, <2>4 DEF seen
<1> QED
  BY <1>1, <1>4, <1>5

LEMMA CardsType ==
  ASSUME CardsTypeOK, [CNext]_cvars
  PROVE  CardsTypeOK'
<1>1. ASSUME NEW ch \in Channel, NEW h \in Handler, Cleared(ch, h)
      PROVE  buttons' \in [Channel -> SUBSET Id]
  BY <1>1 DEF Cleared, CardsTypeOK
<1>2. ASSUME NEW c \in Press, PressTelegram(c) PROVE CardsTypeOK'
  <2>1. updates' \in Seq(Press) /\ Len(updates') = Len(updates) + 1 /\ Len(updates) \in Nat
    BY <1>2 DEF PressTelegram, CardsTypeOK
  <2>2. batch \in Seq(1..Len(updates'))
    BY <2>1 DEF CardsTypeOK
  <2> QED
    BY <1>2, <2>1, <2>2 DEF PressTelegram, CardsTypeOK
<1>3. ASSUME NEW h \in Handler, Handle(h) PROVE CardsTypeOK'
  <2>1. /\ Head(batch) \in Nat \ {0} /\ Tail(batch) \in Seq(1..Len(updates))
    BY <1>3, HeadIsPress DEF Handle
  <2>2. offset' \in Nat
    BY <1>3, <2>1 DEF Handle, Later, CardsTypeOK
  <2>3. posting' = Idle \/ posting' \in Posting
    BY <1>3, <2>1 DEF Handle, Posting
  <2> QED
    BY <1>3, <2>1, <2>2, <2>3 DEF Handle, CardsTypeOK
<1>4. CASE Poll
  BY <1>4, PollType DEF Poll, CardsTypeOK
<1>5. CASE Hear
  <2>1. posting.handler \in Handler
    BY <1>5 DEF Hear, CardsTypeOK, Posting
  <2>2. buttons' \in [Channel -> SUBSET Id]
    BY <1>5, <2>1 DEF Hear, Cleared, CardsTypeOK
  <2> QED
    BY <1>5, <2>2 DEF Hear, CardsTypeOK
<1>6. CASE TimesOut
  BY <1>6 DEF TimesOut, CardsTypeOK
<1>7. CASE WorkerRestarts
  BY <1>7 DEF WorkerRestarts, CardsTypeOK
<1>8. ASSUME NEW h \in Handler, NEW c \in Press, PressSlack(h, c) PROVE CardsTypeOK'
  BY <1>8 DEF PressSlack, CardsTypeOK, telegramVars
<1>9. ASSUME NEW h \in Handler, HearSlack(h) \/ DropSlack(h) PROVE CardsTypeOK'
  BY <1>9 DEF HearSlack, DropSlack, Cleared, CardsTypeOK, telegramVars
<1>10. CASE UNCHANGED cardVars
  BY <1>10 DEF cardVars, telegramVars, CardsTypeOK
<1> QED
  BY <1>2, <1>3, <1>4, <1>5, <1>6, <1>7, <1>8, <1>9, <1>10 DEF CNext, cvars

LEMMA CardsTyped == CSpec => []CardsTypeOK
<1>1. CInit => CardsTypeOK
  BY DEF CInit, CardsTypeOK
<1> QED
  BY <1>1, CardsType, PTL DEF CSpec

\* The chats and their workers only call the handlers of Gateway.
THEOREM ChatsUseTheHandlers == CSpec => GSpec
<1>1. CInit => GInit
  BY DEF CInit
<1> QED
  BY <1>1, GatewayStep, CardsTyped, PTL DEF CSpec, GSpec

\* From a press in a chat down to the tables, the machine that asked sees only the
\* boundary: opened once, closed once, with the answer of its one closing.
THEOREM ChatsKeepTheBoundary == CSpec => ImplementsBoundary
BY ChatsUseTheHandlers, HandlersUseTheStore, StoreImplementsBoundary

-----------------------------------------------------------------------------
(* The offset.                                                             *)

\* The worker holds the updates that follow what it and Telegram know as seen,
\* and all of those have been tried but the one it is at.
InOrder ==
  /\ \A n \in 1..Len(batch) : batch[n] = Later(confirmed, offset) + n
  /\ \A u \in 1..Later(confirmed, offset) :
       u \in tried \/ (posting # Idle /\ u = posting.update)

LEMMA OffsetStep ==
  ASSUME CardsTypeOK, InOrder, NoPressSkipped, [CNext]_cvars
  PROVE  InOrder' /\ NoPressSkipped'
<1> DEFINE seen == Later(confirmed, offset)
<1>t. /\ confirmed \in Nat /\ offset \in Nat /\ seen \in Nat
      /\ Len(batch) \in Nat
  BY DEF CardsTypeOK, Later
<1>1. ASSUME NEW h \in Handler, Handle(h) PROVE InOrder' /\ NoPressSkipped'
  <2> DEFINE u == Head(batch)
  <2>1. /\ batch # <<>> /\ posting = Idle /\ offset' = Later(offset, u)
        /\ batch' = Tail(batch) /\ confirmed' = confirmed
    BY <1>1 DEF Handle
  <2>2. Len(batch) > 0 /\ u = batch[1] /\ Len(Tail(batch)) = Len(batch) - 1
          /\ \A n \in 1..(Len(batch) - 1) : Tail(batch)[n] = batch[n + 1]
    BY <1>t, <2>1 DEF CardsTypeOK
  <2>3. u = seen + 1
    BY <1>t, <2>2 DEF InOrder
  <2>4. Later(confirmed', offset') = u
    BY <1>t, <2>1, <2>3 DEF Later
  <2>5. \A n \in 1..Len(batch') : batch'[n] = Later(confirmed', offset') + n
    <3> SUFFICES ASSUME NEW n \in 1..(Len(batch) - 1) PROVE batch[n + 1] = seen + 1 + n
      BY <2>1, <2>2, <2>3, <2>4
    <3>1. n + 1 \in 1..Len(batch)
      BY <1>t
    <3>2. batch[n + 1] = seen + (n + 1)
      BY <3>1 DEF InOrder
    <3> QED
      BY <1>t, <3>2
  <2>6. tried \subseteq tried' /\ (u \in tried' \/ (posting' # Idle /\ u = posting'.update))
    BY <1>1, <2>3, <1>t DEF Handle, Idle
  <2>7. \A m \in 1..u : m \in 1..seen \/ m = u
    BY <1>t, <2>3
  <2>8. \A m \in 1..seen : m \in tried
    BY <2>1 DEF InOrder
  <2>9. NoPressSkipped'
    BY <2>1, <2>6 DEF NoPressSkipped
  <2> QED
    BY <2>4, <2>5, <2>6, <2>7, <2>8, <2>9 DEF InOrder
<1>2. CASE Poll
  <2>1. /\ confirmed' = seen /\ posting = Idle /\ UNCHANGED <<offset, posting, tried>>
        /\ \A n \in 1..Len(batch') : batch'[n] = seen + n
    BY <1>2, PollType DEF Poll
  <2>2. Later(confirmed', offset') = seen
    BY <1>t, <2>1 DEF Later
  <2>3. 1..seen \subseteq tried
    BY <2>1 DEF InOrder
  <2> QED
    BY <2>1, <2>2, <2>3 DEF InOrder, NoPressSkipped
<1>3. CASE Hear \/ TimesOut
  <2>1. /\ UNCHANGED <<batch, confirmed, offset>> /\ tried' = tried \cup {posting.update}
    BY <1>3 DEF Hear, TimesOut
  <2> QED
    BY <2>1 DEF InOrder, NoPressSkipped
<1>4. CASE WorkerRestarts
  <2>1. /\ offset' = 0 /\ batch' = <<>> /\ UNCHANGED <<confirmed, tried>>
    BY <1>4 DEF WorkerRestarts
  <2>2. Later(confirmed', offset') = confirmed
    BY <1>t, <2>1 DEF Later
  <2> QED
    BY <2>1, <2>2 DEF InOrder, NoPressSkipped
<1>5. CASE UNCHANGED <<batch, confirmed, offset, posting, tried>>
  BY <1>5 DEF InOrder, NoPressSkipped
<1>6. \/ \E h \in Handler : Handle(h)
      \/ Poll \/ Hear \/ TimesOut \/ WorkerRestarts
      \/ UNCHANGED <<batch, confirmed, offset, posting, tried>>
  BY DEF CNext, cvars, cardVars, telegramVars, PressTelegram, PressSlack, HearSlack, DropSlack
<1> QED
  BY <1>1, <1>2, <1>3, <1>4, <1>5, <1>6

\* getUpdates forgets an update only after its press was posted and the post
\* has ended, however often the worker was restarted with an empty memory.
THEOREM PressesAreTried == CSpec => []NoPressSkipped
<1>1. CInit => InOrder /\ NoPressSkipped
  BY DEF CInit, InOrder, NoPressSkipped, Later
<1>2. CardsTypeOK /\ InOrder /\ NoPressSkipped /\ [CNext]_cvars
        => InOrder' /\ NoPressSkipped'
  BY OffsetStep
<1> QED
  BY <1>1, <1>2, CardsTyped, PTL DEF CSpec

-----------------------------------------------------------------------------
(* The buttons.                                                            *)

\* h serves a press.
Serving(h) == stage[h] # "idle" /\ call[h] \in Press

Serves ==
  /\ posting # Idle => Serving(posting.handler) /\ posting.handler \in served["telegram"]
  /\ \A h \in pressing : Serving(h) /\ h \in served["slack"]

LEMMA ServingStays ==
  ASSUME GatewayTypeOK, [GNext]_gvars, NEW h \in Handler, Serving(h)
  PROVE  Serving(h)'
<1>1. CASE UNCHANGED gvars
  BY <1>1 DEF gvars, handlerVars, Serving
<1>2. ASSUME NEW g \in Handler, Acts(g), \A f \in Handler \ {g} : Rests(f) PROVE Serving(h)'
  <2>1. CASE h # g
    BY <1>2, <2>1 DEF Rests, Serving
  <2>2. CASE h = g
    <3>1. call' = call
      BY <1>2, <2>2 DEF Acts, Serving, CreateCall, ClaimCall, Check, ListBatch, CommitAnswer,
         CommitOutcome, EndBatch, Crash, CommitItem, ResumeAndRecord
    <3>2. stage'[h] # "idle"
      <4>1. CASE CommitAnswer(h) \/ CommitOutcome(h) \/ EndBatch(h)
        <5>1. PICK answer, owed : Answers(h, answer, owed)
          BY <4>1 DEF CommitAnswer, CommitOutcome, EndBatch
        <5> QED
          BY <5>1 DEF Answers, GatewayTypeOK
      <4>2. CASE Crash(h) \/ \E i \in Id : CommitItem(h, i) \/ ResumeAndRecord(h, i)
        BY <4>2 DEF Crash, CommitItem, ResumeAndRecord, GatewayTypeOK, Serving
      <4> QED
        BY <1>2, <2>2, <4>1, <4>2 DEF Acts, Serving, CreateCall, ClaimCall, Check, ListBatch
    <3> QED
      BY <3>1, <3>2 DEF Serving
  <2> QED
    BY <2>1, <2>2
<1> QED
  BY <1>1, <1>2, OneActs

LEMMA CheckServes ==
  ASSUME GatewayTypeOK, NEW h \in Handler, NEW c \in Press, Check(h, c)
  PROVE  Serving(h)'
<1>1. call'[h] = c
  BY DEF Check, GatewayTypeOK
<1>2. stage'[h] # "idle"
  BY DEF Check, Answers, GatewayTypeOK
<1> QED
  BY <1>1, <1>2 DEF Serving

\* Who was given a press made in a chat is not forgotten.
LEMMA ServedGrows ==
  ASSUME CardsTypeOK, [CNext]_cvars
  PROVE  \A ch \in Channel : served[ch] \subseteq served'[ch]
<1>1. \/ served' = served
      \/ \E h \in Handler : served' = [served EXCEPT !["telegram"] = served["telegram"] \cup {h}]
      \/ \E h \in Handler : served' = [served EXCEPT !["slack"] = served["slack"] \cup {h}]
  BY DEF CNext, cvars, cardVars, PressTelegram, Poll, Handle, Hear, TimesOut, WorkerRestarts,
         PressSlack, HearSlack, DropSlack
<1> QED
  BY <1>1 DEF CardsTypeOK

LEMMA ServesStep ==
  ASSUME GatewayTypeOK, CardsTypeOK, Serves, [CNext]_cvars
  PROVE  Serves'
<1>1. \A h \in Handler : Serving(h) => Serving(h)'
  BY GatewayStep, ServingStays
<1>2. posting # Idle => posting.handler \in Handler
  BY DEF CardsTypeOK, Posting
<1>s. served["telegram"] \subseteq served'["telegram"] /\ served["slack"] \subseteq served'["slack"]
  BY ServedGrows, PressAssumption
<1>3. ASSUME NEW h \in Handler, Handle(h) PROVE Serves'
  <2>1. updates[Head(batch)] \in Press
    BY <1>3, HeadIsPress DEF Handle
  <2>2. posting' # Idle => /\ posting'.handler = h /\ Check(h, updates[Head(batch)])
                          /\ served' = [served EXCEPT !["telegram"] = served["telegram"] \cup {h}]
    BY <1>3 DEF Handle
  <2>3. posting' # Idle => stage'[posting'.handler] # "idle" /\ call'[posting'.handler] \in Press
    BY <2>1, <2>2, CheckServes DEF Serving
  <2>4. posting' # Idle => posting'.handler \in served'["telegram"]
    BY <2>2, PressAssumption DEF CardsTypeOK
  <2>5. pressing' = pressing
    BY <1>3 DEF Handle
  <2> QED
    BY <1>1, <1>s, <2>3, <2>4, <2>5 DEF Serves, CardsTypeOK, Serving
<1>4. ASSUME NEW h \in Handler, NEW c \in Press, PressSlack(h, c) PROVE Serves'
  <2>1. Serving(h)'
    BY <1>4, CheckServes DEF PressSlack
  <2>2. pressing' = pressing \cup {h} /\ posting' = posting
    BY <1>4 DEF PressSlack, telegramVars
  <2>3. h \in served'["slack"]
    BY <1>4, PressAssumption DEF PressSlack, CardsTypeOK
  <2> QED
    BY <1>1, <1>2, <1>s, <2>1, <2>2, <2>3 DEF Serves, CardsTypeOK
<1>5. CASE posting' \in {posting, Idle} /\ pressing' \subseteq pressing
  BY <1>1, <1>2, <1>s, <1>5 DEF Serves, CardsTypeOK
<1>6. \/ \E h \in Handler : Handle(h)
      \/ \E h \in Handler, c \in Press : PressSlack(h, c)
      \/ posting' \in {posting, Idle} /\ pressing' \subseteq pressing
  BY DEF CNext, cvars, cardVars, telegramVars, PressTelegram, Poll, Hear, TimesOut,
     WorkerRestarts, HearSlack, DropSlack
<1> QED
  BY <1>3, <1>4, <1>5, <1>6

\* h has told the caller that its call counts, and it does.
Counted(h) ==
  /\ stage[h] = "done" /\ reply[h] \in {"finalized", "waiting"}
  /\ call[h].id \in Id /\ Voted(call[h].id, call[h].actor)

\* A press of i made in the chat ch was counted.
PressCounts(ch, i) == \E h \in served[ch] : call[h].id = i /\ Counted(h)

Cards == \A ch \in Channel : \A i \in Id \ buttons[ch] : PressCounts(ch, i)

\* A handler that served a press and says 200 leaves a vote.
LEMMA AnsweredPressCounts ==
  ASSUME GatewayTypeOK, Honest, ResolutionBacked, NEW h \in Handler, Serving(h),
         stage[h] = "done", reply[h] \in {"finalized", "waiting"}
  PROVE  Counted(h)
<1>1. ReplyFits(h) /\ call[h].op = "resolve"
  BY PressAssumption DEF Honest, Knows, Serving
<1>2. call[h].id \in Id
  BY CallTyped DEF Serving, GatewayTypeOK
<1>3. CASE reply[h] = "waiting"
  BY <1>1, <1>2, <1>3 DEF ReplyFits, Counted
<1>4. CASE reply[h] = "finalized"
  <2> DEFINE i == call[h].id
  <2>1. status[i] = "resolved" /\ resolution[i].actor = call[h].actor
    BY <1>1, <1>4 DEF ReplyFits
  <2>2. Voted(i, resolution[i].actor)
    BY <1>2, <2>1 DEF ResolutionBacked, Backed, Voted
  <2> QED
    BY <1>2, <1>4, <2>1, <2>2 DEF Counted
<1> QED
  BY <1>3, <1>4

\* A handler that is done does nothing more.
LEMMA DoneRests ==
  ASSUME GatewayTypeOK, [GNext]_gvars, NEW h \in Handler, stage[h] = "done"
  PROVE  call'[h] = call[h] /\ reply'[h] = reply[h] /\ stage'[h] = stage[h]
<1>1. CASE UNCHANGED gvars
  BY <1>1 DEF gvars, handlerVars
<1>2. ASSUME NEW g \in Handler, Acts(g), \A f \in Handler \ {g} : Rests(f)
      PROVE  call'[h] = call[h] /\ reply'[h] = reply[h] /\ stage'[h] = stage[h]
  <2>1. stage[g] # "done"
    BY <1>2 DEF Acts, CreateCall, ClaimCall, Check, ListBatch, CommitAnswer, CommitOutcome,
                EndBatch, Crash, CommitItem, ResumeAndRecord
  <2> QED
    BY <1>2, <2>1 DEF Rests
<1> QED
  BY <1>1, <1>2, OneActs

LEMMA CardsStep ==
  ASSUME TypeOK, GatewayTypeOK, Ownership, Honest, ResolutionBacked, CardsTypeOK, Serves, Cards,
         [CNext]_cvars
  PROVE  Cards'
<1>1. ASSUME NEW h \in Handler, Counted(h)
      PROVE  Counted(h)' /\ call'[h] = call[h]
  <2>1. \A i \in Id : RowGoesOn(i)
    BY GatewayStep, StoreStep, RowStep
  <2>2. call'[h] = call[h] /\ reply'[h] = reply[h] /\ stage'[h] = stage[h]
    BY <1>1, GatewayStep, DoneRests DEF Counted
  <2> QED
    BY <1>1, <2>1, <2>2 DEF RowGoesOn, Counted, Voted
<1>2. ASSUME NEW ch \in Channel, NEW i \in Id, PressCounts(ch, i) PROVE PressCounts(ch, i)'
  <2>1. PICK h \in served[ch] : call[h].id = i /\ Counted(h)
    BY <1>2 DEF PressCounts
  <2>2. h \in Handler /\ h \in served'[ch]
    BY <2>1, ServedGrows DEF CardsTypeOK
  <2>3. Counted(h)' /\ call'[h].id = i
    BY <1>1, <2>1, <2>2
  <2> QED
    BY <2>2, <2>3 DEF PressCounts
<1>3. ASSUME NEW ch \in Channel, NEW h \in Handler, Serving(h), h \in served[ch],
             stage[h] = "done", Cleared(ch, h)
      PROVE  Cards'
  <2>1. CASE UNCHANGED buttons
    BY <1>2, <2>1 DEF Cards
  <2>2. CASE /\ reply[h] \in {"finalized", "waiting"}
             /\ buttons' = [buttons EXCEPT ![ch] = @ \ {call[h].id}]
    <3>1. Counted(h)
      BY <1>3, <2>2, AnsweredPressCounts
    <3>2. PressCounts(ch, call[h].id) /\ call[h].id \in Id
      BY <1>3, <3>1 DEF PressCounts, Counted
    <3>3. \A d \in Channel : \A i \in Id \ buttons'[d] :
            i \notin buttons[d] \/ (d = ch /\ i = call[h].id)
      BY <2>2 DEF CardsTypeOK
    <3>4. \A d \in Channel : \A i \in Id \ buttons'[d] : PressCounts(d, i)
      BY <3>2, <3>3 DEF Cards
    <3> QED
      BY <1>2, <3>4 DEF Cards
  <2> QED
    BY <1>3, <2>1, <2>2 DEF Cleared
<1>4. CASE Hear
  <2>1. /\ posting.handler \in Handler /\ Serving(posting.handler)
        /\ posting.handler \in served["telegram"] /\ stage[posting.handler] = "done"
        /\ Cleared("telegram", posting.handler)
    BY <1>4 DEF Hear, Serves, CardsTypeOK, Posting
  <2> QED
    BY <1>3, <2>1, PressAssumption
<1>5. ASSUME NEW h \in Handler, HearSlack(h) PROVE Cards'
  <2>1. Serving(h) /\ h \in served["slack"] /\ stage[h] = "done" /\ Cleared("slack", h)
    BY <1>5 DEF HearSlack, Serves
  <2> QED
    BY <1>3, <2>1, PressAssumption
<1>6. CASE UNCHANGED buttons
  BY <1>2, <1>6 DEF Cards
<1>7. Hear \/ (\E h \in Handler : HearSlack(h)) \/ UNCHANGED buttons
  BY DEF CNext, cvars, cardVars, telegramVars, PressTelegram, Poll, Handle, TimesOut,
     WorkerRestarts, PressSlack, DropSlack
<1> QED
  BY <1>4, <1>5, <1>6, <1>7

\* handle_callback and the Slack thread take the buttons from a card on status
\* 200 alone; so a press that was made in that chat and given to the Gateway
\* was answered as one that counts, and who pressed has a vote on the request.
THEOREM ButtonsStandForVotes == CSpec => []ButtonsGoneMeansVoted
<1>1. CInit => Serves /\ Cards
  BY DEF CInit, Serves, Cards
<1>2. TypeOK /\ GatewayTypeOK /\ Ownership /\ Honest /\ ResolutionBacked /\ CardsTypeOK
        /\ Serves /\ Cards /\ [CNext]_cvars => (Serves /\ Cards)'
  BY ServesStep, CardsStep
<1>3. Cards => ButtonsGoneMeansVoted
  BY DEF Cards, PressCounts, Counted, Voted, ButtonsGoneMeansVoted
<1> QED
  BY <1>1, <1>2, <1>3, CardsTyped, ChatsUseTheHandlers, GatewayInvariant, HandlersUseTheStore,
     OwnershipInvariant, ResolutionsAreBacked, PTL DEF CSpec
=============================================================================
