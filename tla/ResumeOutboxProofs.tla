------------------------- MODULE ResumeOutboxProofs -------------------------
(***************************************************************************)
(* Theorems about ResumeOutbox for every number of workers, rows, claimed  *)
(* rows and retries.                                                       *)
(***************************************************************************)
EXTENDS ResumeOutbox, FiniteSetTheorems, WellFoundedInduction, TLAPS

-----------------------------------------------------------------------------
(* A worker that has rows deals with one of them.                          *)

\* < is well-founded on Nat, as a relation.
LEMMA OrderIsWellFounded ==
  \E R : /\ IsWellFoundedOn(R, Nat)
         /\ \A i, j \in Nat : j < i => <<j, i>> \in R
<1>1. ASSUME NEW i \in Nat, NEW j \in Nat, j < i
      PROVE  <<j, i>> \in OpToRel(<, Nat)
  <2>1. <<j, i>> \in Nat \X Nat /\ <<j, i>>[1] < <<j, i>>[2]
    BY <1>1
  <2> QED
    BY <2>1, Zenon DEF OpToRel
<1> QED
  BY <1>1, NatLessThanWellFounded, Zenon

LEMMA FirstIsIn ==
  ASSUME NEW rows \in SUBSET Row, rows # {}
  PROVE  First(rows) \in rows
<1>1. rows \subseteq Nat
  BY BoundAssumption DEF Row
<1>2. PICK R : /\ IsWellFoundedOn(R, Nat)
               /\ \A i, j \in Nat : j < i => <<j, i>> \in R
  BY OrderIsWellFounded, Zenon
<1>3. PICK i \in rows : \A j \in rows : ~ (<<j, i>> \in R)
  BY <1>1, <1>2, WFMin, Zenon
<1>4. \A j \in rows : i <= j
  <2> TAKE j \in rows
  <2>1. i \in Nat /\ j \in Nat
    BY <1>1
  <2>2. ~ (j < i)
    BY <1>2, <1>3, <2>1, Zenon
  <2> QED
    BY <2>1, <2>2
<1> QED
  BY <1>4 DEF First

-----------------------------------------------------------------------------
(* Type correctness.                                                       *)

LEMMA InitType == Init => TypeOK
BY BoundAssumption DEF Init, TypeOK, RowStatus, PostState

\* A worker with a POST under way deals with one of its rows.
LEMMA CurrentIsHeld ==
  ASSUME TypeOK, NEW w \in Worker, batch[w] # {}
  PROVE  Current(w) \in batch[w] /\ Current(w) \in Row
BY FirstIsIn DEF TypeOK, Current

\* A claim takes pending rows only, and sweeps processing ones.
LEMMA ClaimTakes ==
  ASSUME TypeOK, NEW wanted \in SUBSET Row, NEW n
  PROVE  /\ Oldest(Available(wanted), n) \subseteq {i \in Row : status[i] = "pending"}
         /\ Swept \subseteq {i \in Row : status[i] = "processing"}
BY DEF Oldest, Available, Swept, TypeOK

LEMMA ClaimType ==
  ASSUME TypeOK, NEW w \in Worker, NEW wanted \in SUBSET Row, NEW n,
         Claim(w, wanted, n)
  PROVE  TypeOK'
<1> DEFINE mine == Oldest(Available(wanted), n)
<1>1. /\ mine \subseteq {i \in Row : status[i] = "pending"}
      /\ Swept \subseteq {i \in Row : status[i] = "processing"}
  BY ClaimTakes
<1>2. /\ batch[w] = {} /\ post[w] = "none"
      /\ status' = [i \in Row |-> IF i \in mine THEN "processing"
                                  ELSE IF i \in Swept THEN "uncertain"
                                  ELSE status[i]]
      /\ attempts' = [i \in Row |-> IF i \in mine THEN attempts[i] + 1 ELSE attempts[i]]
      /\ expired' = expired \ (Swept \cup mine)
      /\ batch' = [batch EXCEPT ![w] = mine]
      /\ UNCHANGED <<post, remoteVars, operatorVars>>
  BY DEF Claim, Released, TypeOK
<1> HIDE DEF mine
<1>3. /\ status' \in [Row -> RowStatus] /\ attempts' \in [Row -> Nat]
      /\ batch' \in [Worker -> SUBSET Row]
  BY <1>1, <1>2 DEF TypeOK, RowStatus
<1>4. expired' \subseteq {i \in Row : status'[i] = "processing"}
  BY <1>1, <1>2 DEF TypeOK, Swept
<1>5. \A u \in Worker : post'[u] # "none" => batch'[u] # {}
  BY <1>2 DEF TypeOK
<1> QED
  BY <1>2, <1>3, <1>4, <1>5 DEF TypeOK, remoteVars, operatorVars

LEMMA StepType == TypeOK /\ [Next]_vars => TypeOK'
<1> SUFFICES ASSUME TypeOK, [Next]_vars PROVE TypeOK'
  OBVIOUS
<1>1. ASSUME NEW i \in Row, Enqueue(i) PROVE TypeOK'
  BY <1>1 DEF Enqueue, TypeOK, RowStatus, workerVars, remoteVars, operatorVars
<1>2. ASSUME NEW i \in Row, LeaseExpires(i) PROVE TypeOK'
  BY <1>2 DEF LeaseExpires, TypeOK, workerVars, remoteVars, operatorVars
<1>3. ASSUME NEW w \in Loop, ClaimBatch(w) PROVE TypeOK'
  BY <1>3, ClaimType, BoundAssumption DEF ClaimBatch
<1>4. ASSUME NEW w \in Worker \ Loop, NEW i \in Row, ClaimOne(w, i) PROVE TypeOK'
  BY <1>4, ClaimType DEF ClaimOne
<1>5. ASSUME NEW w \in Worker, Dispatch(w) PROVE TypeOK'
  <2>1. Current(w) \in Row
    BY <1>5, CurrentIsHeld DEF Dispatch
  <2> QED
    BY <1>5, <2>1 DEF Dispatch, TypeOK, PostState, rowVars, operatorVars
<1>6. ASSUME NEW w \in Worker, Record(w) PROVE TypeOK'
  <2>1. Current(w) \in Row
    BY <1>6, CurrentIsHeld DEF Record, TypeOK
  <2>2. Outcome(post[w]) \in RowStatus /\ batch' \in [Worker -> SUBSET Row]
    BY <1>6 DEF Record, TypeOK, Outcome, RowStatus
  <2>3. post' = [post EXCEPT ![w] = "none"] /\ post' \in [Worker -> PostState]
    BY <1>6 DEF Record, TypeOK, PostState
  <2>4. \A u \in Worker : post'[u] # "none" => batch'[u] # {}
    BY <1>6, <2>3 DEF Record, TypeOK
  <2>5. /\ status' \in [Row -> RowStatus]
        /\ expired' \subseteq {i \in Row : status'[i] = "processing"}
    BY <1>6, <2>1, <2>2 DEF Record, Records, Released, TypeOK
  <2> QED
    BY <1>6, <2>2, <2>3, <2>4, <2>5 DEF Record, TypeOK, remoteVars, operatorVars
<1>7. ASSUME NEW w \in Worker, Abandon(w) PROVE TypeOK'
  <2>1. Current(w) \in Row
    BY <1>7, CurrentIsHeld DEF Abandon
  <2> QED
    BY <1>7, <2>1 DEF Abandon, TypeOK, PostState, rowVars, operatorVars
<1>8. ASSUME NEW w \in Worker, Execute(w) PROVE TypeOK'
  <2>1. Current(w) \in Row
    BY <1>8, CurrentIsHeld DEF Execute, TypeOK
  <2> QED
    BY <1>8, <2>1 DEF Execute, TypeOK, PostState, rowVars, operatorVars
<1>9. ASSUME NEW w \in Worker, NEW reply \in {"confirmed", "accepted", "failed"},
             Reply(w, reply)
      PROVE  TypeOK'
  BY <1>9 DEF Reply, TypeOK, PostState, rowVars, remoteVars, operatorVars
<1>10. ASSUME NEW w \in Worker, NEW reply \in {"accepted", "failed"}, ReplyEarly(w, reply)
       PROVE  TypeOK'
  <2>1. Current(w) \in Row
    BY <1>10, CurrentIsHeld DEF ReplyEarly, TypeOK
  <2> QED
    BY <1>10, <2>1 DEF ReplyEarly, TypeOK, PostState, rowVars, operatorVars
<1>11. ASSUME NEW i \in Row, ExecuteLate(i) PROVE TypeOK'
  BY <1>11 DEF ExecuteLate, TypeOK, rowVars, workerVars, operatorVars
<1>12. ASSUME NEW i \in Row, Vanish(i) PROVE TypeOK'
  BY <1>12 DEF Vanish, TypeOK, rowVars, workerVars, operatorVars
<1>13. ASSUME NEW i \in Row, ReconcileExecuted(i) PROVE TypeOK'
  BY <1>13 DEF ReconcileExecuted, Released, TypeOK, RowStatus, workerVars, remoteVars, operatorVars
<1>14. ASSUME NEW i \in Row, ReconcileNotExecuted(i) PROVE TypeOK'
  BY <1>14, BoundAssumption
     DEF ReconcileNotExecuted, Released, TypeOK, RowStatus, workerVars, remoteVars
<1>15. CASE UNCHANGED vars
  BY <1>15 DEF vars, TypeOK, rowVars, workerVars, remoteVars, operatorVars
<1> QED
  BY <1>1, <1>2, <1>3, <1>4, <1>5, <1>6, <1>7, <1>8, <1>9, <1>10, <1>11, <1>12,
     <1>13, <1>14, <1>15 DEF Next

\* The columns of resume_outbox and the workers' batches and POSTs keep their
\* types, and only processing rows have a lease.
THEOREM OutboxTypeCorrect == Spec => []TypeOK
<1>1. Init => TypeOK
  BY InitType
<1>2. TypeOK /\ [Next]_vars => TypeOK'
  BY StepType
<1> QED
  BY <1>1, <1>2, PTL DEF Spec

-----------------------------------------------------------------------------
(* Attempts.                                                               *)

\* What a claim does to attempts and status.
LEMMA ClaimAttempts ==
  ASSUME TypeOK, AttemptsAuthorized,
         NEW w \in Worker, NEW wanted \in SUBSET Row, NEW n, Claim(w, wanted, n)
  PROVE  AttemptsAuthorized'
<1> DEFINE mine == Oldest(Available(wanted), n)
<1>1. /\ mine \subseteq {i \in Row : status[i] = "pending"}
      /\ Swept \subseteq {i \in Row : status[i] = "processing"}
  BY ClaimTakes
<1>2. /\ status' = [i \in Row |-> IF i \in mine THEN "processing"
                                  ELSE IF i \in Swept THEN "uncertain"
                                  ELSE status[i]]
      /\ attempts' = [i \in Row |-> IF i \in mine THEN attempts[i] + 1 ELSE attempts[i]]
      /\ authorized' = authorized
  BY DEF Claim, operatorVars
<1> HIDE DEF mine
<1> QED
  BY <1>1, <1>2 DEF AttemptsAuthorized, TypeOK

LEMMA StepAttempts ==
  TypeOK /\ AttemptsAuthorized /\ [Next]_vars => AttemptsAuthorized'
<1> SUFFICES ASSUME TypeOK, AttemptsAuthorized, [Next]_vars PROVE AttemptsAuthorized'
  OBVIOUS
<1>1. ASSUME NEW w \in Worker, Record(w) PROVE AttemptsAuthorized'
  <2>1. Current(w) \in Row /\ Outcome(post[w]) \notin {"none", "pending"}
    BY <1>1, CurrentIsHeld DEF Record, TypeOK, Outcome
  <2> QED
    BY <1>1, <2>1 DEF Record, Records, AttemptsAuthorized, TypeOK, operatorVars
<1>2. ASSUME NEW i \in Row, Enqueue(i) PROVE AttemptsAuthorized'
  BY <1>2 DEF Enqueue, AttemptsAuthorized, TypeOK, operatorVars
<1>3. ASSUME NEW i \in Row, ReconcileExecuted(i) PROVE AttemptsAuthorized'
  BY <1>3 DEF ReconcileExecuted, Reconcilable, AttemptsAuthorized, TypeOK, operatorVars
<1>4. ASSUME NEW i \in Row, ReconcileNotExecuted(i) PROVE AttemptsAuthorized'
  BY <1>4 DEF ReconcileNotExecuted, Reconcilable, AttemptsAuthorized, TypeOK
<1>5. ASSUME NEW w \in Loop, ClaimBatch(w) PROVE AttemptsAuthorized'
  BY <1>5, ClaimAttempts, BoundAssumption DEF ClaimBatch
<1>6. ASSUME NEW w \in Worker \ Loop, NEW i \in Row, ClaimOne(w, i)
      PROVE  AttemptsAuthorized'
  BY <1>6, ClaimAttempts DEF ClaimOne
<1>7. CASE UNCHANGED <<status, attempts, authorized>>
  BY <1>7 DEF AttemptsAuthorized
<1>8. ASSUME NEW i \in Row, LeaseExpires(i) \/ ExecuteLate(i) \/ Vanish(i)
      PROVE  UNCHANGED <<status, attempts, authorized>>
  BY <1>8 DEF LeaseExpires, ExecuteLate, Vanish, rowVars, operatorVars
<1>9. ASSUME NEW w \in Worker, Dispatch(w) \/ Abandon(w) \/ Execute(w)
      PROVE  UNCHANGED <<status, attempts, authorized>>
  BY <1>9 DEF Dispatch, Abandon, Execute, rowVars, operatorVars
<1>10. ASSUME NEW w \in Worker, NEW reply, Reply(w, reply) \/ ReplyEarly(w, reply)
       PROVE  UNCHANGED <<status, attempts, authorized>>
  BY <1>10 DEF Reply, ReplyEarly, rowVars, operatorVars
<1>11. CASE UNCHANGED vars
  BY <1>11, <1>7 DEF vars, rowVars, operatorVars
<1> QED
  BY <1>1, <1>2, <1>3, <1>4, <1>5, <1>6, <1>7, <1>8, <1>9, <1>10, <1>11 DEF Next

\* A row is attempted once by itself and once more for each retry the operator
\* authorized, however many workers claim, sweep and record.
THEOREM AttemptsAreAuthorized == Spec => []AttemptsAuthorized
<1>1. Init => AttemptsAuthorized
  BY DEF Init, AttemptsAuthorized
<1> QED
  BY <1>1, StepAttempts, OutboxTypeCorrect, PTL DEF Spec

-----------------------------------------------------------------------------
(* Executions.                                                             *)

\* Executions and attempts that may become executions are bounded by what was
\* claimed, less the attempts the operator found to be over.
EffectsBounded ==
  \A i \in Row :
    executions[i] + late[i] + Cardinality(Carriers(i))
      <= hasty[i] + (IF status[i] \in {"none", "pending"} THEN 0 ELSE 1)

LEMMA CarriersCount ==
  \A i \in Row : IsFiniteSet(Carriers(i)) /\ Cardinality(Carriers(i)) \in Nat
<1> TAKE i \in Row
<1>1. Carriers(i) \in SUBSET Worker
  BY DEF Carriers
<1> QED
  BY <1>1, BoundAssumption, FS_Subset, FS_CardinalityType

\* A step that leaves batches and POSTs alone keeps the carriers.
LEMMA CarriersKept ==
  ASSUME UNCHANGED workerVars
  PROVE  \A i \in Row : Carriers(i)' = Carriers(i)
BY DEF workerVars, Carriers, Carries, Current

LEMMA ClaimEffects ==
  ASSUME TypeOK, EffectsBounded,
         NEW w \in Worker, NEW wanted \in SUBSET Row, NEW n, Claim(w, wanted, n)
  PROVE  EffectsBounded'
<1> DEFINE mine == Oldest(Available(wanted), n)
<1>1. /\ mine \subseteq {i \in Row : status[i] = "pending"}
      /\ Swept \subseteq {i \in Row : status[i] = "processing"}
  BY ClaimTakes
<1>2. /\ batch[w] = {} /\ post[w] = "none"
      /\ status' = [i \in Row |-> IF i \in mine THEN "processing"
                                  ELSE IF i \in Swept THEN "uncertain"
                                  ELSE status[i]]
      /\ batch' = [batch EXCEPT ![w] = mine]
      /\ UNCHANGED <<post, executions, late, hasty>>
  BY DEF Claim, TypeOK, remoteVars, operatorVars
<1> HIDE DEF mine
<1> SUFFICES ASSUME NEW i \in Row
             PROVE  executions'[i] + late'[i] + Cardinality(Carriers(i)')
                      <= hasty'[i] + (IF status'[i] \in {"none", "pending"} THEN 0 ELSE 1)
  BY DEF EffectsBounded
<1>3. executions[i] + late[i] + Cardinality(Carriers(i))
        <= hasty[i] + (IF status[i] \in {"none", "pending"} THEN 0 ELSE 1)
  BY DEF EffectsBounded
<1>4. /\ executions[i] \in Nat /\ late[i] \in Nat /\ hasty[i] \in Nat
      /\ IsFiniteSet(Carriers(i)) /\ Cardinality(Carriers(i)) \in Nat
  BY CarriersCount DEF TypeOK
<1>5. \A u \in Worker \ {w} : Carries(u, i)' <=> Carries(u, i)
  BY <1>2 DEF Carries, Current, TypeOK
<1>6. ~Carries(w, i)
  BY <1>2 DEF Carries
<1>7. Carries(w, i)' <=> i \in mine
  BY <1>2 DEF Carries, TypeOK
<1>8. CASE i \in mine
  <2>1. Carriers(i)' = Carriers(i) \cup {w}
    BY <1>5, <1>7, <1>8 DEF Carriers
  <2>2. Cardinality(Carriers(i)') = Cardinality(Carriers(i)) + 1
    BY <1>4, <1>6, <2>1, FS_AddElement DEF Carriers
  <2>3. status[i] = "pending" /\ status'[i] = "processing"
    BY <1>1, <1>2, <1>8
  <2> QED
    BY <1>2, <1>3, <1>4, <2>2, <2>3
<1>9. CASE i \notin mine
  <2>1. Carriers(i)' = Carriers(i)
    BY <1>5, <1>6, <1>7, <1>9 DEF Carriers
  <2>2. status'[i] \in {"none", "pending"} <=> status[i] \in {"none", "pending"}
    BY <1>1, <1>2, <1>9
  <2> QED
    BY <1>2, <1>3, <1>4, <2>1, <2>2
<1> QED
  BY <1>8, <1>9

\* A worker that loses the attempt it carries, to the receiver or to the
\* network, makes room for one execution or one late POST.
LEMMA CarrierLeaves ==
  ASSUME TypeOK, NEW w \in Worker, post[w] = "travelling", batch' = batch,
         NEW p \in {"handled", "accepted", "failed"}, post' = [post EXCEPT ![w] = p],
         NEW c \in Row, c = Current(w)
  PROVE  /\ Cardinality(Carriers(c)') = Cardinality(Carriers(c)) - 1
         /\ \A i \in Row \ {c} : Carriers(i)' = Carriers(i)
<1>1. c \in batch[w]
  BY CurrentIsHeld DEF TypeOK
<1>2. Carries(w, c) /\ ~(Carries(w, c)')
  BY <1>1 DEF Carries, Current, TypeOK
<1>3. \A u \in Worker, i \in Row : ~(u = w /\ i = c) => (Carries(u, i)' <=> Carries(u, i))
  BY DEF Carries, Current, TypeOK
<1>4. Carriers(c)' = Carriers(c) \ {w} /\ w \in Carriers(c)
  BY <1>2, <1>3 DEF Carriers
<1>5. Cardinality(Carriers(c)') = Cardinality(Carriers(c)) - 1
  BY <1>4, CarriersCount, FS_RemoveElement
<1>6. \A i \in Row \ {c} : Carriers(i)' = Carriers(i)
  BY <1>3 DEF Carriers
<1> QED
  BY <1>5, <1>6

\* So does one that drops its batch.
LEMMA AbandonEffects ==
  ASSUME TypeOK, EffectsBounded, NEW w \in Worker, Abandon(w)
  PROVE  EffectsBounded'
<1>1. Current(w) \in batch[w] /\ Current(w) \in Row
  BY CurrentIsHeld DEF Abandon
<1> SUFFICES ASSUME NEW i \in Row
             PROVE  executions'[i] + late'[i] + Cardinality(Carriers(i)')
                      <= hasty'[i] + (IF status'[i] \in {"none", "pending"} THEN 0 ELSE 1)
  BY DEF EffectsBounded
<1>2. executions[i] + late[i] + Cardinality(Carriers(i))
        <= hasty[i] + (IF status[i] \in {"none", "pending"} THEN 0 ELSE 1)
  BY DEF EffectsBounded
<1>3. /\ executions[i] \in Nat /\ late[i] \in Nat /\ hasty[i] \in Nat
      /\ IsFiniteSet(Carriers(i)) /\ Cardinality(Carriers(i)) \in Nat
  BY CarriersCount DEF TypeOK
<1>4. /\ ~(Carries(w, i)')
      /\ \A u \in Worker \ {w} : Carries(u, i)' <=> Carries(u, i)
  BY DEF Abandon, Carries, Current, TypeOK
<1>5. Carriers(i)' = Carriers(i) \ {w}
  BY <1>4 DEF Carriers
<1>6. Cardinality(Carriers(i)') =
        IF w \in Carriers(i) THEN Cardinality(Carriers(i)) - 1 ELSE Cardinality(Carriers(i))
  BY <1>3, <1>5, FS_RemoveElement
<1>7. executions' = executions /\ hasty' = hasty /\ status' = status
  BY DEF Abandon, rowVars, operatorVars
<1>8. CASE post[w] = "travelling" /\ i = Current(w)
  <2>1. late'[i] = late[i] + 1
    BY <1>1, <1>8 DEF Abandon, TypeOK
  <2>2. w \in Carriers(i)
    BY <1>1, <1>8 DEF Carriers, Carries
  <2> QED
    BY <1>2, <1>3, <1>6, <1>7, <2>1, <2>2
<1>9. CASE ~(post[w] = "travelling" /\ i = Current(w))
  <2>1. late'[i] = late[i]
    BY <1>9 DEF Abandon, TypeOK
  <2> QED
    BY <1>2, <1>3, <1>6, <1>7, <2>1
<1> QED
  BY <1>8, <1>9

LEMMA StepEffects ==
  TypeOK /\ EffectsBounded /\ [Next]_vars => EffectsBounded'
<1> SUFFICES ASSUME TypeOK, EffectsBounded, [Next]_vars PROVE EffectsBounded'
  OBVIOUS
<1>t. \A i \in Row : /\ executions[i] \in Nat /\ late[i] \in Nat /\ hasty[i] \in Nat
                     /\ Cardinality(Carriers(i)) \in Nat
  BY CarriersCount DEF TypeOK
<1>1. ASSUME NEW w \in Loop, ClaimBatch(w) PROVE EffectsBounded'
  BY <1>1, ClaimEffects, BoundAssumption DEF ClaimBatch
<1>2. ASSUME NEW w \in Worker \ Loop, NEW i \in Row, ClaimOne(w, i) PROVE EffectsBounded'
  BY <1>2, ClaimEffects DEF ClaimOne
<1>3. ASSUME NEW w \in Worker, Abandon(w) PROVE EffectsBounded'
  BY <1>3, AbandonEffects
<1>4. ASSUME NEW w \in Worker, Execute(w) PROVE EffectsBounded'
  <2>1. PICK c \in Row : c = Current(w)
    BY <1>4, CurrentIsHeld DEF Execute, TypeOK
  <2>2. /\ Cardinality(Carriers(c)') = Cardinality(Carriers(c)) - 1
        /\ \A i \in Row \ {c} : Carriers(i)' = Carriers(i)
    BY <1>4, <2>1, CarrierLeaves DEF Execute
  <2>3. /\ executions' = [executions EXCEPT ![c] = @ + 1]
        /\ UNCHANGED <<status, late, hasty>>
    BY <1>4, <2>1 DEF Execute, rowVars, operatorVars
  <2> QED
    BY <1>t, <2>2, <2>3 DEF EffectsBounded, TypeOK
<1>5. ASSUME NEW w \in Worker, NEW reply \in {"accepted", "failed"}, ReplyEarly(w, reply)
      PROVE  EffectsBounded'
  <2>1. PICK c \in Row : c = Current(w)
    BY <1>5, CurrentIsHeld DEF ReplyEarly, TypeOK
  <2>2. /\ Cardinality(Carriers(c)') = Cardinality(Carriers(c)) - 1
        /\ \A i \in Row \ {c} : Carriers(i)' = Carriers(i)
    BY <1>5, <2>1, CarrierLeaves DEF ReplyEarly
  <2>3. /\ late' = [late EXCEPT ![c] = @ + 1]
        /\ UNCHANGED <<status, executions, hasty>>
    BY <1>5, <2>1 DEF ReplyEarly, rowVars, operatorVars
  <2> QED
    BY <1>t, <2>2, <2>3 DEF EffectsBounded, TypeOK
<1>6. ASSUME NEW w \in Worker, Record(w) PROVE EffectsBounded'
  <2>1. PICK c \in Row : c = Current(w) /\ c \in batch[w]
    BY <1>6, CurrentIsHeld DEF Record, TypeOK
  <2>2. \A u \in Worker, i \in Row : Carries(u, i)' <=> Carries(u, i)
    BY <1>6, <2>1 DEF Record, Carries, Current, TypeOK
  <2>3. \A i \in Row : Carriers(i)' = Carriers(i)
    BY <2>2 DEF Carriers
  <2>4. UNCHANGED <<executions, late, hasty>>
    BY <1>6 DEF Record, remoteVars, operatorVars
  <2>5. \A i \in Row : status'[i] \in {"none", "pending"} <=> status[i] \in {"none", "pending"}
    BY <1>6, <2>1 DEF Record, Records, Outcome, TypeOK
  <2> QED
    BY <2>3, <2>4, <2>5 DEF EffectsBounded
<1>7. ASSUME NEW w \in Worker, Dispatch(w) \/ \E reply \in {"confirmed", "accepted", "failed"} : Reply(w, reply)
      PROVE  EffectsBounded'
  <2>1. \A u \in Worker, i \in Row : Carries(u, i)' <=> Carries(u, i)
    BY <1>7 DEF Dispatch, Reply, Carries, Current, TypeOK
  <2>2. \A i \in Row : Carriers(i)' = Carriers(i)
    BY <2>1 DEF Carriers
  <2>3. UNCHANGED <<status, executions, late, hasty>>
    BY <1>7 DEF Dispatch, Reply, rowVars, remoteVars, operatorVars
  <2> QED
    BY <2>2, <2>3 DEF EffectsBounded
<1>8. ASSUME NEW i \in Row, Enqueue(i) \/ LeaseExpires(i) PROVE EffectsBounded'
  BY <1>8, CarriersKept DEF Enqueue, LeaseExpires, EffectsBounded, TypeOK, remoteVars, operatorVars
<1>9. ASSUME NEW i \in Row, ExecuteLate(i) \/ Vanish(i) PROVE EffectsBounded'
  BY <1>9, <1>t, CarriersKept DEF ExecuteLate, Vanish, EffectsBounded, TypeOK, rowVars, operatorVars
<1>10. ASSUME NEW i \in Row, ReconcileExecuted(i) PROVE EffectsBounded'
  BY <1>10, CarriersKept
     DEF ReconcileExecuted, Reconcilable, EffectsBounded, TypeOK, remoteVars, operatorVars
<1>11. ASSUME NEW i \in Row, ReconcileNotExecuted(i) PROVE EffectsBounded'
  <2>1. /\ status[i] = "uncertain" /\ executions[i] = 0
        /\ status' = [status EXCEPT ![i] = "pending"]
        /\ UNCHANGED <<executions, late, workerVars>>
    BY <1>11 DEF ReconcileNotExecuted, Reconcilable, remoteVars
  <2>2. \A j \in Row : Carriers(j)' = Carriers(j)
    BY <2>1, CarriersKept
  <2>3. CASE Quiescent(i)
    <3>1. late[i] = 0 /\ Carriers(i) = {} /\ hasty' = hasty
      BY <1>11, <2>3 DEF ReconcileNotExecuted, Quiescent, Carriers, Carries
    <3>2. Cardinality(Carriers(i)) = 0
      BY <3>1, FS_EmptySet
    <3>3. \A j \in Row \ {i} : status'[j] = status[j]
      BY <2>1 DEF TypeOK
    <3>4. executions[i] + late[i] + Cardinality(Carriers(i)) = 0 /\ hasty[i] >= 0
      BY <1>t, <2>1, <3>1, <3>2
    <3>5. executions'[i] + late'[i] + Cardinality(Carriers(i)') <= hasty'[i]
      BY <2>1, <2>2, <3>1, <3>4
    <3>6. \A j \in Row \ {i} :
            executions'[j] + late'[j] + Cardinality(Carriers(j)')
              <= hasty'[j] + (IF status'[j] \in {"none", "pending"} THEN 0 ELSE 1)
      BY <2>1, <2>2, <3>1, <3>3 DEF EffectsBounded
    <3>7. status'[i] = "pending" /\ hasty'[i] \in Nat
      BY <1>t, <2>1, <3>1 DEF TypeOK
    <3> QED
      BY <3>5, <3>6, <3>7 DEF EffectsBounded
  <2>4. CASE ~Quiescent(i)
    <3>1. hasty' = [hasty EXCEPT ![i] = @ + 1] /\ hasty'[i] = hasty[i] + 1
      BY <1>11, <2>4 DEF ReconcileNotExecuted, TypeOK
    <3> QED
      BY <1>t, <2>1, <2>2, <3>1 DEF EffectsBounded, TypeOK
  <2> QED
    BY <2>3, <2>4
<1>12. CASE UNCHANGED vars
  BY <1>12, CarriersKept DEF vars, rowVars, remoteVars, operatorVars, EffectsBounded
<1> QED
  BY <1>1, <1>2, <1>3, <1>4, <1>5, <1>6, <1>7, <1>8, <1>9, <1>10, <1>11, <1>12 DEF Next

\* A boundary is executed once, and once more for each retry the operator
\* allowed while an attempt was still under way, whatever is lost, late, swept
\* or abandoned: EffectsBounded is what makes the bound inductive.
THEOREM NeverReplayed == Spec => []NoAutomaticReplay
<1>1. Init /\ TypeOK => EffectsBounded
  <2> SUFFICES ASSUME Init, TypeOK PROVE EffectsBounded
    OBVIOUS
  <2>1. \A i \in Row : Carriers(i) = {}
    BY DEF Init, Carriers, Carries
  <2> QED
    BY <2>1, FS_EmptySet DEF Init, EffectsBounded
<1>2. TypeOK /\ EffectsBounded => NoAutomaticReplay
  <2> SUFFICES ASSUME TypeOK, EffectsBounded, NEW i \in Row
               PROVE  executions[i] <= 1 + hasty[i]
    BY DEF NoAutomaticReplay
  <2>1. /\ executions[i] \in Nat /\ late[i] \in Nat /\ hasty[i] \in Nat
        /\ Cardinality(Carriers(i)) \in Nat
    BY CarriersCount DEF TypeOK
  <2>2. executions[i] + late[i] + Cardinality(Carriers(i))
          <= hasty[i] + (IF status[i] \in {"none", "pending"} THEN 0 ELSE 1)
    BY DEF EffectsBounded
  <2> QED
    BY <2>1, <2>2
<1>3. Init => TypeOK
  BY InitType
<1> QED
  BY <1>1, <1>2, <1>3, StepEffects, OutboxTypeCorrect, PTL DEF Spec

-----------------------------------------------------------------------------
(* The outbox implements Delivery.                                         *)

Stages == [i \in Row |-> StageOf(status[i])]
Live == [i \in Row |-> late[i] + Cardinality(Carriers(i))]
Sent == {i \in Row : dispatched[i] > 0}

\* What a worker waits for, and what nobody waits for any longer, was sent.
SentInv ==
  /\ \A w \in Worker : post[w] # "none" => Current(w) \in Sent
  /\ \A i \in Row : late[i] > 0 => i \in Sent

LEMMA SentStep == TypeOK /\ SentInv /\ [Next]_vars => SentInv'
<1> SUFFICES ASSUME TypeOK, SentInv, [Next]_vars PROVE SentInv'
  OBVIOUS
<1>1. ASSUME UNCHANGED <<batch, post, dispatched>>, \A i \in Row : late'[i] > 0 => late[i] > 0
      PROVE  SentInv'
  BY <1>1 DEF SentInv, Sent, Current
<1>2. ASSUME NEW w \in Worker, NEW wanted \in SUBSET Row, NEW n, Claim(w, wanted, n)
      PROVE  SentInv'
  <2>1. post[w] = "none" /\ UNCHANGED <<post, dispatched, late>>
        /\ \A u \in Worker \ {w} : batch'[u] = batch[u]
    BY <1>2 DEF Claim, TypeOK, remoteVars
  <2> QED
    BY <2>1 DEF SentInv, Sent, Current
<1>3. ASSUME NEW w \in Worker, Record(w) \/ Abandon(w) PROVE SentInv'
  <2>1. /\ post'[w] = "none" /\ UNCHANGED dispatched
        /\ \A u \in Worker \ {w} : batch'[u] = batch[u] /\ post'[u] = post[u]
    BY <1>3 DEF Record, Abandon, TypeOK, remoteVars
  <2>2. Current(w) \in Row
    BY <1>3, CurrentIsHeld DEF Record, Abandon, TypeOK
  <2>3. \A i \in Row : late'[i] > 0 => late[i] > 0 \/ (i = Current(w) /\ post[w] # "none")
    BY <1>3, <2>2 DEF Record, Abandon, TypeOK, remoteVars
  <2> QED
    BY <2>1, <2>3 DEF SentInv, Sent, Current
<1>4. ASSUME NEW w \in Worker, Dispatch(w) PROVE SentInv'
  <2>1. PICK c \in Row : c = Current(w)
    BY <1>4, CurrentIsHeld DEF Dispatch
  <2>2. /\ dispatched' = [dispatched EXCEPT ![c] = @ + 1] /\ UNCHANGED <<batch, late>>
        /\ \A u \in Worker \ {w} : post'[u] = post[u]
    BY <1>4, <2>1 DEF Dispatch, TypeOK
  <2>3. c \in Sent' /\ Sent \subseteq Sent'
    BY <2>2 DEF Sent, TypeOK
  <2>4. \A u \in Worker : Current(u)' = Current(u)
    BY <2>2 DEF Current
  <2> QED
    BY <2>1, <2>2, <2>3, <2>4 DEF SentInv
<1>5. ASSUME NEW w \in Worker, post[w] # "none", UNCHANGED <<batch, dispatched>>,
             \A u \in Worker \ {w} : post'[u] = post[u],
             \A i \in Row : late'[i] > 0 => late[i] > 0 \/ i = Current(w)
      PROVE  SentInv'
  BY <1>5 DEF SentInv, Sent, Current
<1>6. ASSUME NEW w \in Worker, Execute(w) PROVE SentInv'
  BY <1>5, <1>6 DEF Execute, TypeOK
<1>7. ASSUME NEW w \in Worker, NEW reply, Reply(w, reply) PROVE SentInv'
  BY <1>5, <1>7 DEF Reply, TypeOK, remoteVars
<1>8. ASSUME NEW w \in Worker, NEW reply, ReplyEarly(w, reply) PROVE SentInv'
  BY <1>5, <1>8, CurrentIsHeld DEF ReplyEarly, TypeOK
<1>9. ASSUME NEW i \in Row,
             \/ Enqueue(i) \/ LeaseExpires(i) \/ ExecuteLate(i) \/ Vanish(i)
             \/ ReconcileExecuted(i) \/ ReconcileNotExecuted(i)
      PROVE  SentInv'
  <2>1. UNCHANGED <<batch, post, dispatched>> /\ \A j \in Row : late'[j] > 0 => late[j] > 0
    BY <1>9 DEF Enqueue, LeaseExpires, ExecuteLate, Vanish, ReconcileExecuted,
       ReconcileNotExecuted, TypeOK, workerVars, remoteVars
  <2> QED
    BY <1>1, <2>1
<1>10. CASE UNCHANGED vars
  BY <1>1, <1>10 DEF vars, workerVars, remoteVars
<1> QED
  BY <1>2, <1>3, <1>4, <1>6, <1>7, <1>8, <1>9, <1>10, BoundAssumption
     DEF Next, ClaimBatch, ClaimOne

LEMMA InitDelivers == Init => D!DInit /\ SentInv
<1> SUFFICES ASSUME Init PROVE D!DInit /\ SentInv
  OBVIOUS
<1>1. \A i \in Row : Carriers(i) = {}
  BY DEF Init, Carriers, Carries
<1>2. Live = [i \in Row |-> 0]
  BY <1>1, FS_EmptySet DEF Init, Live
<1>3. Sent = {} /\ Stages = [i \in Row |-> "none"]
  BY DEF Init, Sent, Stages, StageOf
<1>4. D!DInit
  BY <1>2, <1>3 DEF Init, D!DInit, Live, Sent, Stages
<1> QED
  BY <1>4 DEF Init, SentInv

\* A claim attempts what it takes and gives up what it sweeps.
LEMMA ClaimDelivers ==
  ASSUME TypeOK, NEW w \in Worker, NEW wanted \in SUBSET Row, NEW n, Claim(w, wanted, n)
  PROVE  D!DNext
<1> DEFINE mine == Oldest(Available(wanted), n)
<1>1. /\ mine \subseteq {i \in Row : status[i] = "pending"}
      /\ Swept \subseteq {i \in Row : status[i] = "processing"}
  BY ClaimTakes
<1>2. /\ batch[w] = {} /\ post[w] = "none"
      /\ status' = [i \in Row |-> IF i \in mine THEN "processing"
                                  ELSE IF i \in Swept THEN "uncertain"
                                  ELSE status[i]]
      /\ batch' = [batch EXCEPT ![w] = mine]
      /\ UNCHANGED <<post, executions, late, dispatched>>
  BY DEF Claim, TypeOK, remoteVars
<1> HIDE DEF mine
<1>3. Stages' = [i \in Row |-> IF i \in mine THEN "attempted"
                               ELSE IF i \in Swept THEN "uncertain" ELSE Stages[i]]
  <2>1. \A i \in Row : StageOf(status'[i]) = IF i \in mine THEN "attempted"
                          ELSE IF i \in Swept THEN "uncertain" ELSE StageOf(status[i])
    <3>1. StageOf("processing") = "attempted" /\ StageOf("uncertain") = "uncertain"
      BY DEF StageOf
    <3> QED
      BY <1>2, <3>1
  <2> QED
    BY <2>1 DEF Stages
<1>4. ASSUME NEW i \in Row
      PROVE  Live'[i] = IF i \in mine THEN Live[i] + 1 ELSE Live[i]
  <2>1. /\ \A u \in Worker \ {w} : Carries(u, i)' <=> Carries(u, i)
        /\ ~Carries(w, i) /\ (Carries(w, i)' <=> i \in mine)
    BY <1>2 DEF Carries, Current, TypeOK
  <2>2. Carriers(i)' = IF i \in mine THEN Carriers(i) \cup {w} ELSE Carriers(i)
    BY <2>1 DEF Carriers
  <2>3. w \notin Carriers(i)
    BY <2>1 DEF Carriers
  <2>4. Cardinality(Carriers(i)') =
          IF i \in mine THEN Cardinality(Carriers(i)) + 1 ELSE Cardinality(Carriers(i))
    BY <2>2, <2>3, CarriersCount, FS_AddElement
  <2> QED
    BY <1>2, <2>4, CarriersCount DEF Live, TypeOK
<1>5. Live' = [i \in Row |-> IF i \in mine THEN Live[i] + 1 ELSE Live[i]]
  BY <1>4 DEF Live
<1>6. /\ \A i \in mine : Stages[i] = "owed"
      /\ \A i \in Swept : Stages[i] = "attempted"
  BY <1>1 DEF Stages, StageOf
<1>7. Sent' = Sent
  BY <1>2 DEF Sent
<1>8. PICK started \in SUBSET Row, given \in SUBSET Row : started = mine /\ given = Swept
  BY <1>1
<1>9. D!Attempt(started, given)
  BY <1>2, <1>3, <1>5, <1>6, <1>7, <1>8 DEF D!Attempt, Stages, Live, Sent
<1> QED
  BY <1>9 DEF D!DNext

\* A carrier that leaves makes a live attempt lapse, or one more is late.
LEMMA AbandonDelivers ==
  ASSUME TypeOK, NEW w \in Worker, Abandon(w)
  PROVE  D!DNext
<1> DEFINE lost == {i \in Row : Carries(w, i) /\ ~(post[w] = "travelling" /\ i = Current(w))}
<1>1. Current(w) \in batch[w] /\ Current(w) \in Row
  BY CurrentIsHeld DEF Abandon
<1>2. UNCHANGED <<status, dispatched, executions>>
  BY DEF Abandon, rowVars
<1>3. ASSUME NEW i \in Row
      PROVE  /\ i \in lost => Live[i] > 0
             /\ Live'[i] = IF i \in lost THEN Live[i] - 1 ELSE Live[i]
  <2>1. /\ ~(Carries(w, i)')
        /\ \A u \in Worker \ {w} : Carries(u, i)' <=> Carries(u, i)
    BY DEF Abandon, Carries, Current, TypeOK
  <2>2. Carriers(i)' = Carriers(i) \ {w}
    BY <2>1 DEF Carriers
  <2>3. Cardinality(Carriers(i)') =
          IF w \in Carriers(i) THEN Cardinality(Carriers(i)) - 1 ELSE Cardinality(Carriers(i))
    BY <2>2, CarriersCount, FS_RemoveElement
  <2>4. Cardinality(Carriers(i)) \in Nat /\ late[i] \in Nat /\ Cardinality(Carriers(i)') \in Nat
    BY CarriersCount, <2>2, FS_Subset, FS_CardinalityType DEF TypeOK
  <2>5. w \in Carriers(i) <=> Carries(w, i)
    BY DEF Carriers
  <2>6. CASE post[w] = "travelling" /\ i = Current(w)
    <3>1. late'[i] = late[i] + 1 /\ Carries(w, i) /\ i \notin lost
      BY <1>1, <2>6 DEF Abandon, TypeOK, Carries
    <3> QED
      BY <2>3, <2>4, <2>5, <3>1 DEF Live
  <2>7. CASE ~(post[w] = "travelling" /\ i = Current(w))
    <3>1. late'[i] = late[i] /\ (i \in lost <=> Carries(w, i))
      BY <2>7 DEF Abandon, TypeOK
    <3> HIDE DEF lost
    <3> QED
      BY <2>3, <2>4, <2>5, <3>1 DEF Live
  <2> QED
    BY <2>6, <2>7
<1>4. lost \in SUBSET Row
  OBVIOUS
<1> HIDE DEF lost
<1>5. Live' = [i \in Row |-> IF i \in lost THEN Live[i] - 1 ELSE Live[i]]
  BY <1>3 DEF Live
<1>6. \A i \in lost : Live[i] > 0
  BY <1>3, <1>4
<1>7. Stages' = Stages /\ Sent' = Sent
  BY <1>2 DEF Stages, Sent
<1>8. PICK rows \in SUBSET Row : rows = lost
  BY <1>4
<1>9. D!Lapse(rows)
  BY <1>2, <1>5, <1>6, <1>7, <1>8 DEF D!Lapse, Stages, Live, Sent
<1> QED
  BY <1>9 DEF D!DNext

\* Where no batch, POST or late POST changes, neither does what is live.
LEMMA LiveKept ==
  ASSUME UNCHANGED <<batch, post, late>>
  PROVE  Live' = Live
BY DEF Live, Carriers, Carries, Current

\* One action of Delivery, for a step that changes the stage of i only.
LEMMA StageStep ==
  ASSUME TypeOK, UNCHANGED <<workerVars, remoteVars>>,
         NEW i \in Row, NEW s \in RowStatus, status' = [status EXCEPT ![i] = s],
         \/ status[i] = "none" /\ s = "pending"
         \/ status[i] = "uncertain" /\ s = "done" /\ executions[i] > 0
         \/ status[i] = "uncertain" /\ s = "pending" /\ executions[i] = 0
  PROVE  D!DNext
<1>1. Live' = Live /\ Sent' = Sent /\ executions' = executions
  BY LiveKept DEF workerVars, remoteVars, Sent
<1>2. Stages' = [Stages EXCEPT ![i] = StageOf(s)] /\ Stages[i] = StageOf(status[i])
  BY DEF Stages, TypeOK
<1>3. CASE status[i] = "none" /\ s = "pending"
  <2>1. D!Arise(i)
    BY <1>1, <1>2, <1>3 DEF D!Arise, Stages, Live, Sent, StageOf
  <2> QED
    BY <2>1 DEF D!DNext
<1>4. CASE status[i] = "uncertain" /\ s = "done" /\ executions[i] > 0
  <2>1. D!Confirm(i)
    BY <1>1, <1>2, <1>4 DEF D!Confirm, Stages, Live, Sent, StageOf
  <2> QED
    BY <2>1 DEF D!DNext
<1>5. CASE status[i] = "uncertain" /\ s = "pending" /\ executions[i] = 0
  <2>1. D!OweAgain(i)
    BY <1>1, <1>2, <1>5 DEF D!OweAgain, Stages, Live, Sent, StageOf
  <2> QED
    BY <2>1 DEF D!DNext
<1> QED
  BY <1>3, <1>4, <1>5

\* An outcome concludes the attempt the row is in, or nothing.
LEMMA RecordDelivers ==
  ASSUME TypeOK, SentInv, NEW w \in Worker, Record(w)
  PROVE  D!DNext \/ UNCHANGED D!dvars
<1>1. PICK c \in Row : c = Current(w) /\ c \in batch[w]
  BY CurrentIsHeld DEF Record, TypeOK
<1>2. \A u \in Worker, i \in Row : Carries(u, i)' <=> Carries(u, i)
  BY <1>1 DEF Record, Carries, Current, TypeOK
<1>3. \A i \in Row : Carriers(i)' = Carriers(i)
  BY <1>2 DEF Carriers
<1>4. UNCHANGED <<executions, late, dispatched>>
  BY DEF Record, remoteVars
<1>5. Live' = Live /\ Sent' = Sent
  BY <1>3, <1>4 DEF Live, Sent
<1>6. c \in Sent
  BY <1>1 DEF SentInv, Record
<1>7. CASE status[c] = "processing"
  <2>1. PICK s \in {"done", "uncertain"} : status' = [status EXCEPT ![c] = s]
    BY <1>1, <1>7 DEF Record, Records, Outcome
  <2>2. Stages' = [Stages EXCEPT ![c] = StageOf(s)]
    BY <2>1 DEF Stages, TypeOK
  <2>3. Stages[c] = "attempted" /\ StageOf(s) \in {"delivered", "uncertain"}
    BY <1>7 DEF Stages, StageOf
  <2>4. D!Conclude(c)
    BY <1>4, <1>5, <1>6, <2>2, <2>3 DEF D!Conclude, Stages, Live, Sent
  <2> QED
    BY <2>4 DEF D!DNext
<1>8. CASE status[c] # "processing"
  <2>1. Stages' = Stages
    BY <1>1, <1>8 DEF Record, Records, Stages
  <2> QED
    BY <1>4, <1>5, <2>1 DEF D!dvars, Stages, Live, Sent
<1> QED
  BY <1>7, <1>8

\* A POST leaves, is acted on, or is answered.
LEMMA PostDelivers ==
  ASSUME TypeOK, SentInv, NEW w \in Worker,
         \/ Dispatch(w) \/ Execute(w)
         \/ \E reply \in {"confirmed", "accepted", "failed"} : Reply(w, reply)
         \/ \E reply \in {"accepted", "failed"} : ReplyEarly(w, reply)
  PROVE  D!DNext \/ UNCHANGED D!dvars
<1>1. PICK c \in Row : c = Current(w) /\ c \in batch[w]
  BY CurrentIsHeld DEF Dispatch, Execute, Reply, ReplyEarly, TypeOK
<1>2. Stages' = Stages
  BY DEF Dispatch, Execute, Reply, ReplyEarly, rowVars, Stages
<1>3. CASE Dispatch(w) \/ \E reply \in {"confirmed", "accepted", "failed"} : Reply(w, reply)
  <2>1. \A u \in Worker, i \in Row : Carries(u, i)' <=> Carries(u, i)
    BY <1>3 DEF Dispatch, Reply, Carries, Current, TypeOK
  <2>2. \A i \in Row : Carriers(i)' = Carriers(i)
    BY <2>1 DEF Carriers
  <2>3. Live' = Live /\ executions' = executions
    BY <1>3, <2>2 DEF Dispatch, Reply, remoteVars, Live
  <2>4. CASE Dispatch(w)
    <3>1. Carries(w, c)
      BY <1>1, <2>4 DEF Dispatch, Carries
    <3>2. Cardinality(Carriers(c)) # 0
      BY <3>1, CarriersCount, FS_EmptySet DEF Carriers
    <3>3. Live[c] > 0
      BY <3>2, CarriersCount DEF Live, TypeOK
    <3>4. Sent' = Sent \cup {c}
      BY <1>1, <2>4 DEF Dispatch, Sent, TypeOK
    <3>5. D!Send(c)
      BY <1>2, <2>3, <3>3, <3>4 DEF D!Send, Stages, Live, Sent
    <3> QED
      BY <3>5 DEF D!DNext
  <2>5. CASE \E reply \in {"confirmed", "accepted", "failed"} : Reply(w, reply)
    <3>1. Sent' = Sent
      BY <2>5 DEF Reply, remoteVars, Sent
    <3> QED
      BY <1>2, <2>3, <3>1 DEF D!dvars, Stages, Live, Sent
  <2> QED
    BY <1>3, <2>4, <2>5
<1>4. CASE Execute(w) \/ \E reply \in {"accepted", "failed"} : ReplyEarly(w, reply)
  <2>1. post[w] = "travelling" /\ batch' = batch /\ UNCHANGED dispatched
        /\ \E p \in {"handled", "accepted", "failed"} : post' = [post EXCEPT ![w] = p]
    BY <1>4 DEF Execute, ReplyEarly
  <2>2. /\ Cardinality(Carriers(c)') = Cardinality(Carriers(c)) - 1
        /\ \A i \in Row \ {c} : Carriers(i)' = Carriers(i)
    BY <1>1, <2>1, CarrierLeaves
  <2>3. Carries(w, c)
    BY <1>1, <2>1 DEF Carries
  <2>4. Cardinality(Carriers(c)) # 0
    BY <2>3, CarriersCount, FS_EmptySet DEF Carriers
  <2>5. Live[c] > 0 /\ c \in Sent /\ Sent' = Sent
    BY <1>1, <2>1, <2>4, CarriersCount DEF Live, TypeOK, SentInv, Sent
  <2>6. CASE Execute(w)
    <3>1. late' = late /\ executions' = [executions EXCEPT ![c] = @ + 1]
      BY <1>1, <2>6 DEF Execute
    <3>2. Live' = [Live EXCEPT ![c] = @ - 1]
      <4>1. Live'[c] = Live[c] - 1 /\ \A i \in Row \ {c} : Live'[i] = Live[i]
        BY <2>2, <3>1, CarriersCount DEF Live, TypeOK
      <4> QED
        BY <4>1 DEF Live
    <3>3. D!TakeEffect(c)
      BY <1>2, <2>5, <3>1, <3>2 DEF D!TakeEffect, Stages, Live, Sent
    <3> QED
      BY <3>3 DEF D!DNext
  <2>7. CASE \E reply \in {"accepted", "failed"} : ReplyEarly(w, reply)
    <3>1. late' = [late EXCEPT ![c] = @ + 1] /\ executions' = executions
      BY <1>1, <2>7 DEF ReplyEarly
    <3>2. Live' = Live
      BY <2>2, <3>1, CarriersCount DEF Live, TypeOK
    <3> QED
      BY <1>2, <2>5, <3>1, <3>2 DEF D!dvars, Stages, Live, Sent
  <2> QED
    BY <1>4, <2>6, <2>7
<1> QED
  BY <1>3, <1>4

\* A POST nobody waits for is acted on, or comes to nothing.
LEMMA LateDelivers ==
  ASSUME TypeOK, SentInv, NEW i \in Row, ExecuteLate(i) \/ Vanish(i)
  PROVE  D!DNext
<1>1. late[i] > 0 /\ late' = [late EXCEPT ![i] = @ - 1] /\ UNCHANGED <<batch, post, dispatched, status>>
  BY DEF ExecuteLate, Vanish, rowVars, workerVars
<1>2. \A j \in Row : Carriers(j)' = Carriers(j)
  BY <1>1 DEF Carriers, Carries, Current
<1>3. Live[i] > 0 /\ Live' = [Live EXCEPT ![i] = @ - 1]
  <2>1. /\ Live[i] > 0 /\ Live'[i] = Live[i] - 1
        /\ \A j \in Row \ {i} : Live'[j] = Live[j]
    BY <1>1, <1>2, CarriersCount DEF Live, TypeOK
  <2> QED
    BY <2>1 DEF Live
<1>4. i \in Sent /\ Sent' = Sent /\ Stages' = Stages
  BY <1>1 DEF SentInv, Sent, Stages
<1>5. CASE ExecuteLate(i)
  <2>1. D!TakeEffect(i)
    BY <1>3, <1>4, <1>5 DEF ExecuteLate, D!TakeEffect, Stages, Live, Sent
  <2> QED
    BY <2>1 DEF D!DNext
<1>6. CASE Vanish(i)
  <2>1. Live' = [j \in Row |-> IF j \in {i} THEN Live[j] - 1 ELSE Live[j]]
    BY <1>3 DEF Live
  <2>2. D!Lapse({i})
    BY <1>3, <1>4, <1>6, <2>1 DEF Vanish, D!Lapse, Stages, Live, Sent
  <2> QED
    BY <2>2 DEF D!DNext
<1> QED
  BY <1>5, <1>6

LEMMA StepDelivers == TypeOK /\ SentInv /\ [Next]_vars => [D!DNext]_(D!dvars)
<1> SUFFICES ASSUME TypeOK, SentInv, [Next]_vars PROVE D!DNext \/ UNCHANGED D!dvars
  OBVIOUS
<1>1. ASSUME NEW i \in Row, Enqueue(i) PROVE D!DNext
  BY <1>1, StageStep DEF Enqueue, RowStatus
<1>2. ASSUME NEW i \in Row, ReconcileExecuted(i) PROVE D!DNext
  BY <1>2, StageStep DEF ReconcileExecuted, Reconcilable, RowStatus
<1>3. ASSUME NEW i \in Row, ReconcileNotExecuted(i) PROVE D!DNext
  BY <1>3, StageStep DEF ReconcileNotExecuted, Reconcilable, RowStatus
<1>4. ASSUME NEW w \in Loop, ClaimBatch(w) PROVE D!DNext
  BY <1>4, ClaimDelivers, BoundAssumption DEF ClaimBatch
<1>5. ASSUME NEW w \in Worker \ Loop, NEW i \in Row, ClaimOne(w, i) PROVE D!DNext
  BY <1>5, ClaimDelivers DEF ClaimOne
<1>6. ASSUME UNCHANGED <<status, batch, post, late, dispatched, executions>>
      PROVE  UNCHANGED D!dvars
  <2>1. Live' = Live /\ Sent' = Sent /\ Stages' = Stages
    BY <1>6, LiveKept DEF Sent, Stages
  <2> QED
    BY <1>6, <2>1 DEF D!dvars, Stages, Live, Sent
<1>7. ASSUME NEW i \in Row, LeaseExpires(i) PROVE UNCHANGED D!dvars
  BY <1>6, <1>7 DEF LeaseExpires, workerVars, remoteVars
<1>8. CASE UNCHANGED vars
  BY <1>6, <1>8 DEF vars, rowVars, workerVars, remoteVars
<1> QED
  BY <1>1, <1>2, <1>3, <1>4, <1>5, <1>7, <1>8, RecordDelivers, AbandonDelivers,
     PostDelivers, LateDelivers DEF Next

\* ImplementsDelivery: whoever sees only intents, attempts that may still act and
\* effects sees Delivery, whatever claim_resume_outbox, the workers of app/main.py
\* and reconcile_resume_outbox do to each other.
THEOREM OutboxImplementsDelivery == Spec => ImplementsDelivery
<1>1. Init => D!DInit /\ SentInv
  BY InitDelivers
<1>2. TypeOK /\ SentInv /\ [Next]_vars => SentInv' /\ [D!DNext]_(D!dvars)
  BY SentStep, StepDelivers
<1> QED
  BY <1>1, <1>2, OutboxTypeCorrect, PTL DEF Spec, ImplementsDelivery, D!DSpec
=============================================================================
