------------------------ MODULE ChannelOutboxProofs -------------------------
(***************************************************************************)
(* Theorems about ChannelOutbox for every number of workers, channels,     *)
(* requests, claimed rows and faults.                                      *)
(***************************************************************************)
EXTENDS ChannelOutbox, WellFoundedInduction, TLAPS

-----------------------------------------------------------------------------
(* A worker that has rows deals with one of them.                          *)

\* < is well-founded on Nat, as a relation.
LEMMA OrderIsWellFounded ==
  \E R : /\ IsWellFoundedOn(R, Nat)
         /\ \A i, j \in Nat : j < i => <<j, i>> \in R
<1>1. ASSUME NEW i \in Nat, NEW j \in Nat, j < i
      PROVE  <<j, i>> \in OpToRel(<, Nat)
  <2>1. <<j, i>> \in Nat \X Nat /\ <<j, i>>[1] < <<j, i>>[2]
    BY <1>1
  <2> QED
    BY <2>1, Zenon DEF OpToRel
<1> QED
  BY <1>1, NatLessThanWellFounded, Zenon

LEMMA FirstIsIn ==
  ASSUME NEW rows \in SUBSET Row, rows # {}
  PROVE  First(rows) \in rows
<1>1. rows \subseteq Nat
  BY BoundAssumption DEF Row
<1>2. PICK R : /\ IsWellFoundedOn(R, Nat)
               /\ \A i, j \in Nat : j < i => <<j, i>> \in R
  BY OrderIsWellFounded, Zenon
<1>3. PICK i \in rows : \A j \in rows : ~ (<<j, i>> \in R)
  BY <1>1, <1>2, WFMin, Zenon
<1>4. \A j \in rows : i <= j
  <2> TAKE j \in rows
  <2>1. i \in Nat /\ j \in Nat
    BY <1>1
  <2>2. ~ (j < i)
    BY <1>2, <1>3, <2>1, Zenon
  <2> QED
    BY <2>1, <2>2
<1> QED
  BY <1>4 DEF First

\* A worker at a step deals with a row of its batch.
LEMMA CurrentIsHeld ==
  ASSUME TypeOK, NEW w \in Worker, batch[w] # {}
  PROVE  Current(w) \in Row /\ Holds(w, Current(w))
BY FirstIsIn DEF TypeOK, Current, Holds

-----------------------------------------------------------------------------
(* Type correctness.                                                       *)

LEMMA InitType == Init => TypeOK
BY BoundAssumption DEF Init, TypeOK, Channel

\* What every claim does.
LEMMA ClaimTakes ==
  ASSUME TypeOK, NEW w \in Worker, NEW wanted \in SUBSET Row, NEW n, Claim(w, wanted, n)
  PROVE  \E mine \in SUBSET Row :
           /\ \A i \in mine : Claimable(i)
           /\ batch[w] = {} /\ batch' = [batch EXCEPT ![w] = mine]
           /\ status' = [i \in Row |-> IF i \in mine THEN "processing" ELSE status[i]]
           /\ lease' = [i \in Row |-> IF i \in mine THEN "running" ELSE lease[i]]
           /\ UNCHANGED <<request, due, step, next, answers, told, audit, faults, overrun>>
<1> DEFINE mine == Oldest({i \in wanted : Claimable(i)}, n)
<1>1. mine \in SUBSET Row /\ \A i \in mine : Claimable(i)
  BY DEF Oldest
<1> QED
  BY <1>1 DEF Claim

\* What a worker changes that goes on to its next row.
LEMMA ProceedType ==
  ASSUME TypeOK, NEW w \in Worker, Proceed(w)
  PROVE  /\ batch' \in [Worker -> SUBSET Row]
         /\ \A u \in Worker : batch'[u] \subseteq batch[u]
         /\ step' \in [Worker -> {"look", "publish", "audit", "complete", "retry"}]
         /\ next' \in [Worker -> 1..(Channels + 1)]
         /\ answers' \in [Worker -> SUBSET Channel]
BY BoundAssumption DEF TypeOK, Proceed

LEMMA ClaimType ==
  ASSUME TypeOK, NEW w \in Worker, NEW wanted \in SUBSET Row, NEW n, Claim(w, wanted, n)
  PROVE  TypeOK'
<1> PICK mine \in SUBSET Row :
           /\ \A i \in mine : Claimable(i)
           /\ batch[w] = {} /\ batch' = [batch EXCEPT ![w] = mine]
           /\ status' = [i \in Row |-> IF i \in mine THEN "processing" ELSE status[i]]
           /\ lease' = [i \in Row |-> IF i \in mine THEN "running" ELSE lease[i]]
           /\ UNCHANGED <<request, due, step, next, answers, told, audit, faults, overrun>>
  BY ClaimTakes
<1>1. \A i \in mine : status[i] # "none" /\ request[i] # "absent"
  BY DEF Claimable, TypeOK
<1>2. \A u \in Worker : \A i \in batch'[u] : request'[i] # "absent"
  BY <1>1 DEF TypeOK
<1> QED
  BY <1>1, <1>2 DEF TypeOK

LEMMA WorkType ==
  ASSUME TypeOK, NEW w \in Worker, Work(w)
  PROVE  TypeOK'
<1>c. ASSUME batch[w] # {}
      PROVE  Current(w) \in Row /\ request[Current(w)] # "absent"
  BY <1>c, CurrentIsHeld DEF Holds, TypeOK
<1>1. CASE Look(w)
  <2>1. /\ step' \in [Worker -> {"look", "publish", "audit", "complete", "retry"}]
        /\ next' \in [Worker -> 1..(Channels + 1)] /\ answers' \in [Worker -> SUBSET Channel]
    BY <1>1, BoundAssumption DEF Look, TypeOK
  <2>2. SkippedTerminal \in AuditEvent
    BY DEF AuditEvent
  <2>3. audit' \in [Row -> SUBSET AuditEvent]
    BY <1>1, <1>c, <2>2 DEF Look, At, TypeOK
  <2> QED
    BY <1>1, <2>1, <2>3 DEF Look, TypeOK, rowVars
<1>2. ASSUME NEW shown \in BOOLEAN, NEW delivered \in BOOLEAN, Publish(w, shown, delivered)
      PROVE  TypeOK'
  <2>1. /\ Current(w) \in Row /\ next[w] \in Channel /\ next[w] + 1 \in 1..(Channels + 1)
    BY <1>2, <1>c, BoundAssumption DEF Publish, At, Channel
  <2>2. told' \in [Row -> [Channel -> Nat]]
    BY <1>2, <2>1 DEF Publish, TypeOK
  <2>3. answers' \in [Worker -> SUBSET Channel] /\ next' \in [Worker -> 1..(Channels + 1)]
    BY <1>2, <2>1 DEF Publish, TypeOK
  <2> QED
    BY <1>2, <2>2, <2>3 DEF Publish, TypeOK, rowVars
<1>3. CASE PublishRaises(w)
  BY <1>3, <1>c, BoundAssumption DEF PublishRaises, At, TypeOK, rowVars
<1>4. CASE Published(w)
  BY <1>4, BoundAssumption DEF Published, TypeOK, rowVars
<1>5. CASE RecordAnswer(w)
  <2>1. next[w] + 1 \in 1..(Channels + 1)
    BY <1>5, BoundAssumption DEF RecordAnswer, Channel
  <2>2. AnswerEvent(w, next[w]) \subseteq AuditEvent
    BY <1>5 DEF RecordAnswer, AnswerEvent, AuditEvent
  <2> QED
    BY <1>5, <2>1, <2>2 DEF RecordAnswer, TypeOK, rowVars
<1>6. CASE Complete(w)
  <2>1. Current(w) \in Row /\ request[Current(w)] # "absent"
    BY <1>6, <1>c DEF Complete, At
  <2> QED
    BY <1>6, <2>1, ProceedType DEF Complete, LeaseCleared, TypeOK
<1>7. CASE Retry(w)
  <2>1. Current(w) \in Row /\ request[Current(w)] # "absent"
    BY <1>7, <1>c DEF Retry, At
  <2> QED
    BY <1>7, <2>1, ProceedType DEF Retry, LeaseCleared, TypeOK
<1> QED
  BY <1>1, <1>2, <1>3, <1>4, <1>5, <1>6, <1>7 DEF Work

LEMMA StepType == TypeOK /\ [Next]_vars => TypeOK'
<1> SUFFICES ASSUME TypeOK, [Next]_vars PROVE TypeOK'
  OBVIOUS
<1>1. ASSUME NEW i \in Row, CreateRequest(i) PROVE TypeOK'
  BY <1>1 DEF CreateRequest, TypeOK, workerVars
<1>2. ASSUME NEW i \in Row, CloseRequest(i) PROVE TypeOK'
  BY <1>2 DEF CloseRequest, TypeOK, rowVars, workerVars
<1>3. ASSUME NEW i \in Row, LeaseExpires(i) PROVE TypeOK'
  BY <1>3 DEF LeaseExpires, TypeOK, workerVars
<1>4. ASSUME NEW i \in Row, BecomesDue(i) PROVE TypeOK'
  BY <1>4 DEF BecomesDue, TypeOK, workerVars
<1>5. ASSUME NEW w \in Loop, ClaimBatch(w) PROVE TypeOK'
  BY <1>5, ClaimType, BoundAssumption DEF ClaimBatch
<1>6. ASSUME NEW w \in Worker \ Loop, NEW i \in Row, ClaimOne(w, i) PROVE TypeOK'
  BY <1>6, ClaimType DEF ClaimOne
<1>7. ASSUME NEW w \in Worker, Work(w) PROVE TypeOK'
  BY <1>7, WorkType
<1>8. ASSUME NEW w \in Worker, Abandon(w) PROVE TypeOK'
  <2>1. faults' \in [Row -> 0..MaxFaults]
    BY <1>8, BoundAssumption DEF Abandon, Holds, TypeOK
  <2> QED
    BY <1>8, <2>1, BoundAssumption DEF Abandon, TypeOK, rowVars
<1>9. CASE UNCHANGED vars
  BY <1>9 DEF vars, TypeOK, rowVars, workerVars
<1> QED
  BY <1>1, <1>2, <1>3, <1>4, <1>5, <1>6, <1>7, <1>8, <1>9 DEF Next

\* The columns of channel_outbox and the workers' state keep their types, and a
\* row is leased exactly while it is processing.
THEOREM ChannelTypeCorrect == Spec => []TypeOK
<1>1. Init => TypeOK
  BY InitType
<1>2. TypeOK /\ [Next]_vars => TypeOK'
  BY StepType
<1> QED
  BY <1>1, <1>2, PTL DEF Spec

-----------------------------------------------------------------------------
(* Leases.                                                                 *)

\* What a worker holds within its lease is its own.
HeldIsLeased ==
  \A w \in Worker, i \in Row \ overrun : Holds(w, i) =>
    /\ lease[i] = "running"
    /\ \A u \in Worker \ {w} : ~Holds(u, i)

LEMMA ClaimHeld ==
  ASSUME TypeOK, HeldIsLeased,
         NEW w \in Worker, NEW wanted \in SUBSET Row, NEW n, Claim(w, wanted, n)
  PROVE  HeldIsLeased'
<1> PICK mine \in SUBSET Row :
           /\ \A i \in mine : Claimable(i)
           /\ batch[w] = {} /\ batch' = [batch EXCEPT ![w] = mine]
           /\ status' = [i \in Row |-> IF i \in mine THEN "processing" ELSE status[i]]
           /\ lease' = [i \in Row |-> IF i \in mine THEN "running" ELSE lease[i]]
           /\ UNCHANGED <<request, due, step, next, answers, told, audit, faults, overrun>>
  BY ClaimTakes
<1>1. \A i \in mine \ overrun, u \in Worker : ~Holds(u, i)
  BY DEF HeldIsLeased, Claimable
<1> QED
  BY <1>1 DEF HeldIsLeased, Holds, TypeOK

\* Steps of a worker on its own row take nothing from anybody else.
LEMMA WorkHeld ==
  ASSUME TypeOK, HeldIsLeased, NEW w \in Worker, Work(w)
  PROVE  HeldIsLeased'
<1>1. CASE Look(w) \/ PublishRaises(w) \/ Published(w) \/ RecordAnswer(w)
  BY <1>1 DEF Look, PublishRaises, Published, RecordAnswer, HeldIsLeased, Holds, rowVars
<1>2. ASSUME NEW shown \in BOOLEAN, NEW delivered \in BOOLEAN, Publish(w, shown, delivered)
      PROVE  HeldIsLeased'
  BY <1>2 DEF Publish, HeldIsLeased, Holds, rowVars
<1>3. CASE Complete(w) \/ Retry(w)
  <2>1. /\ Current(w) \in Row /\ Holds(w, Current(w))
        /\ batch' = [batch EXCEPT ![w] = @ \ {Current(w)}]
        /\ lease' = [lease EXCEPT ![Current(w)] = "null"] /\ overrun' = overrun
    BY <1>3, CurrentIsHeld DEF Complete, Retry, At, Proceed, LeaseCleared
  <2>2. \A u \in Worker, i \in Row : Holds(u, i)' => Holds(u, i)
    BY <2>1 DEF Holds, TypeOK
  <2>3. \A u \in Worker, i \in Row \ overrun : Holds(u, i)' => i # Current(w)
    BY <2>1 DEF HeldIsLeased, Holds, TypeOK
  <2> QED
    BY <2>1, <2>2, <2>3 DEF HeldIsLeased, TypeOK
<1> QED
  BY <1>1, <1>2, <1>3 DEF Work

LEMMA StepHeld == TypeOK /\ HeldIsLeased /\ [Next]_vars => HeldIsLeased'
<1> SUFFICES ASSUME TypeOK, HeldIsLeased, [Next]_vars PROVE HeldIsLeased'
  OBVIOUS
<1>1. ASSUME NEW i \in Row, CreateRequest(i) \/ CloseRequest(i) \/ BecomesDue(i)
      PROVE  HeldIsLeased'
  BY <1>1 DEF CreateRequest, CloseRequest, BecomesDue, HeldIsLeased, Holds, rowVars, workerVars
<1>2. ASSUME NEW i \in Row, LeaseExpires(i) PROVE HeldIsLeased'
  BY <1>2 DEF LeaseExpires, HeldIsLeased, Holds, TypeOK, workerVars
<1>3. ASSUME NEW w \in Loop, ClaimBatch(w) PROVE HeldIsLeased'
  BY <1>3, ClaimHeld, BoundAssumption DEF ClaimBatch
<1>4. ASSUME NEW w \in Worker \ Loop, NEW i \in Row, ClaimOne(w, i) PROVE HeldIsLeased'
  BY <1>4, ClaimHeld DEF ClaimOne
<1>5. ASSUME NEW w \in Worker, Work(w) PROVE HeldIsLeased'
  BY <1>5, WorkHeld
<1>6. ASSUME NEW w \in Worker, Abandon(w) PROVE HeldIsLeased'
  BY <1>6 DEF Abandon, HeldIsLeased, Holds, TypeOK, rowVars
<1>7. CASE UNCHANGED vars
  BY <1>7 DEF vars, HeldIsLeased, Holds, rowVars, workerVars
<1> QED
  BY <1>1, <1>2, <1>3, <1>4, <1>5, <1>6, <1>7 DEF Next

\* Two workers share a row only after its lease ran out under a live one.
THEOREM LeasesAreExclusive == Spec => []LeaseIsExclusive
<1>1. Init => HeldIsLeased
  BY DEF Init, HeldIsLeased, Holds
<1>2. HeldIsLeased => LeaseIsExclusive
  BY DEF HeldIsLeased, LeaseIsExclusive
<1> QED
  BY <1>1, <1>2, StepHeld, ChannelTypeCorrect, PTL DEF Spec

-----------------------------------------------------------------------------
(* Replays.                                                                *)

\* w has shown its current row i in channel c since it claimed it.
ShownBy(w, i, c) ==
  /\ Holds(w, i) /\ i = Current(w)
  /\ step[w] \in {"audit", "complete"} \/ (step[w] = "publish" /\ next[w] > c)

\* One message per fault, and one of the try that is not over or closed the row.
Accounted(i, c) == status[i] = "done" \/ \E w \in Worker : ShownBy(w, i, c)

ToldBounded ==
  \A i \in Row \ overrun, c \in Channel :
    told[i][c] <= faults[i] + (IF Accounted(i, c) THEN 1 ELSE 0)

\* A row in the hands of a worker, within the lease, is not done.
LEMMA HeldIsOpen ==
  ASSUME TypeOK, HeldIsLeased, NEW w \in Worker, NEW i \in Row \ overrun, Holds(w, i)
  PROVE  /\ status[i] = "processing"
         /\ \A c \in Channel : ~ShownBy(w, i, c) => ~Accounted(i, c)
BY DEF TypeOK, HeldIsLeased, Accounted, ShownBy

\* Steps that leave told and faults alone only have to keep what is accounted.
LEMMA ToldKept ==
  ASSUME TypeOK, ToldBounded, UNCHANGED <<told, faults>>, overrun \subseteq overrun',
         \A i \in Row \ overrun', c \in Channel : Accounted(i, c) => Accounted(i, c)'
  PROVE  ToldBounded'
<1> SUFFICES ASSUME NEW i \in Row \ overrun', NEW c \in Channel
             PROVE  told'[i][c] <= faults'[i] + (IF Accounted(i, c)' THEN 1 ELSE 0)
  BY DEF ToldBounded
<1>1. told[i][c] <= faults[i] + (IF Accounted(i, c) THEN 1 ELSE 0)
  BY DEF ToldBounded
<1>2. told[i][c] \in Nat /\ faults[i] \in Nat
  BY BoundAssumption DEF TypeOK
<1>3. Accounted(i, c) => Accounted(i, c)'
  OBVIOUS
<1> HIDE DEF Accounted
<1>4. told'[i][c] = told[i][c] /\ faults'[i] = faults[i]
  OBVIOUS
<1>5. CASE Accounted(i, c)
  BY <1>1, <1>2, <1>3, <1>4, <1>5
<1>6. CASE ~Accounted(i, c)
  <2>1. told[i][c] <= faults[i]
    BY <1>1, <1>2, <1>6
  <2> QED
    BY <1>2, <1>4, <2>1
<1> QED
  BY <1>5, <1>6

LEMMA ClaimTold ==
  ASSUME TypeOK, HeldIsLeased, ToldBounded,
         NEW w \in Worker, NEW wanted \in SUBSET Row, NEW n, Claim(w, wanted, n)
  PROVE  ToldBounded'
<1> PICK mine \in SUBSET Row :
           /\ \A i \in mine : Claimable(i)
           /\ batch[w] = {} /\ batch' = [batch EXCEPT ![w] = mine]
           /\ status' = [i \in Row |-> IF i \in mine THEN "processing" ELSE status[i]]
           /\ lease' = [i \in Row |-> IF i \in mine THEN "running" ELSE lease[i]]
           /\ UNCHANGED <<request, due, step, next, answers, told, audit, faults, overrun>>
  BY ClaimTakes
<1>1. ASSUME NEW i \in Row \ overrun', NEW c \in Channel, Accounted(i, c)
      PROVE  Accounted(i, c)'
  <2>1. CASE status[i] = "done"
    <3>1. i \notin mine
      BY <2>1 DEF Claimable
    <3> QED
      BY <2>1, <3>1 DEF Accounted
  <2>2. CASE status[i] # "done"
    <3>1. PICK u \in Worker : ShownBy(u, i, c)
      BY <1>1, <2>2 DEF Accounted
    <3>2. u # w
      BY <3>1 DEF ShownBy, Holds
    <3>3. ShownBy(u, i, c)'
      BY <3>1, <3>2 DEF ShownBy, Holds, Current, TypeOK
    <3> QED
      BY <3>3 DEF Accounted
  <2> QED
    BY <2>1, <2>2
<1> QED
  BY <1>1, ToldKept

\* What another worker has shown stays accounted while w works on its row.
LEMMA OthersShow ==
  ASSUME TypeOK, NEW w \in Worker, NEW u \in Worker \ {w}, NEW i \in Row, NEW c \in Channel,
         batch'[u] = batch[u], step'[u] = step[u], next'[u] = next[u], ShownBy(u, i, c)
  PROVE  ShownBy(u, i, c)'
BY DEF ShownBy, Holds, Current

LEMMA WorkTold ==
  ASSUME TypeOK, HeldIsLeased, ToldBounded, NEW w \in Worker, Work(w)
  PROVE  ToldBounded'
<1>o. \A u \in Worker \ {w} : batch'[u] = batch[u] /\ step'[u] = step[u] /\ next'[u] = next[u]
  BY DEF Work, Look, Publish, PublishRaises, Published, RecordAnswer, Complete, Retry, Proceed, TypeOK
<1>c. ASSUME batch[w] # {}
      PROVE  Current(w) \in Row /\ Holds(w, Current(w))
  BY <1>c, CurrentIsHeld
<1>1. CASE Look(w) \/ Published(w) \/ RecordAnswer(w)
  <2>1. UNCHANGED <<told, faults, overrun, status, batch>>
    BY <1>1 DEF Look, Published, RecordAnswer, rowVars
  <2>2. ASSUME NEW i \in Row, NEW c \in Channel, ShownBy(w, i, c)
        PROVE  ShownBy(w, i, c)'
    BY <1>1, <2>1, <2>2 DEF Look, Published, RecordAnswer, At, ShownBy, Holds, Current, TypeOK
  <2>3. \A i \in Row \ overrun', c \in Channel : Accounted(i, c) => Accounted(i, c)'
    BY <1>o, <2>1, <2>2, OthersShow DEF Accounted
  <2> QED
    BY <2>1, <2>3, ToldKept
<1>2. ASSUME NEW shown \in BOOLEAN, NEW delivered \in BOOLEAN, Publish(w, shown, delivered)
      PROVE  ToldBounded'
  <2>1. /\ Current(w) \in Row /\ Holds(w, Current(w)) /\ step[w] = "publish" /\ next[w] \in Channel
        /\ next' = [next EXCEPT ![w] = next[w] + 1]
        /\ told' = IF shown THEN [told EXCEPT ![Current(w)][next[w]] = @ + 1] ELSE told
        /\ UNCHANGED <<faults, overrun, status, batch, step>>
    BY <1>2, <1>c DEF Publish, At, rowVars
  <2>2. next[w] \in Nat /\ Channel \subseteq Nat
    BY <2>1, BoundAssumption DEF Channel
  <2>3. ASSUME NEW i \in Row, NEW c \in Channel, ShownBy(w, i, c)
        PROVE  ShownBy(w, i, c)'
    BY <2>1, <2>2, <2>3 DEF ShownBy, Holds, Current, TypeOK
  <2>4. \A i \in Row, c \in Channel : Accounted(i, c) => Accounted(i, c)'
    BY <1>o, <2>1, <2>3, OthersShow DEF Accounted
  <2> SUFFICES ASSUME NEW i \in Row \ overrun, NEW c \in Channel
               PROVE  told'[i][c] <= faults[i] + (IF Accounted(i, c)' THEN 1 ELSE 0)
    BY <2>1 DEF ToldBounded
  <2>5. /\ told[i][c] <= faults[i] + (IF Accounted(i, c) THEN 1 ELSE 0)
        /\ told[i][c] \in Nat /\ faults[i] \in Nat
    BY BoundAssumption DEF ToldBounded, TypeOK
  <2>6. CASE i = Current(w) /\ c = next[w]
    <3>1. ~ShownBy(w, i, c)
      BY <2>1, <2>2, <2>6 DEF ShownBy
    <3>2. ~Accounted(i, c)
      BY <2>1, <2>6, <3>1, HeldIsOpen
    <3>3. told'[i][c] <= told[i][c] + 1
      BY <2>1, <2>5, <2>6 DEF TypeOK
    <3>4. ShownBy(w, i, c)'
      BY <2>1, <2>2, <2>6 DEF ShownBy, Holds, Current, TypeOK
    <3>5. Accounted(i, c)'
      BY <3>4 DEF Accounted
    <3>6. told'[i][c] \in Nat
      BY <2>1, <2>5, <2>6 DEF TypeOK
    <3> QED
      BY <2>5, <3>2, <3>3, <3>5, <3>6
  <2>7. CASE ~(i = Current(w) /\ c = next[w])
    <3>1. told'[i][c] = told[i][c]
      BY <2>1, <2>7 DEF TypeOK
    <3>2. CASE Accounted(i, c)
      BY <2>4, <2>5, <3>1, <3>2
    <3>3. CASE ~Accounted(i, c)
      <4>1. told[i][c] <= faults[i]
        BY <2>5, <3>3
      <4> QED
        BY <2>5, <3>1, <4>1
    <3> QED
      BY <3>2, <3>3
  <2> QED
    BY <2>6, <2>7
<1>3. CASE PublishRaises(w)
  <2>1. /\ Current(w) \in Row /\ Holds(w, Current(w))
        /\ faults' = [faults EXCEPT ![Current(w)] = @ + 1]
        /\ UNCHANGED <<told, overrun, status>>
    BY <1>3, <1>c DEF PublishRaises, At, rowVars
  <2> SUFFICES ASSUME NEW i \in Row \ overrun, NEW c \in Channel
               PROVE  told[i][c] <= faults'[i] + (IF Accounted(i, c)' THEN 1 ELSE 0)
    BY <2>1 DEF ToldBounded
  <2>2. /\ told[i][c] <= faults[i] + (IF Accounted(i, c) THEN 1 ELSE 0)
        /\ told[i][c] \in Nat /\ faults[i] \in Nat
    BY BoundAssumption DEF ToldBounded, TypeOK
  <2>3. CASE i = Current(w)
    <3>1. faults'[i] = faults[i] + 1
      BY <2>1, <2>3 DEF TypeOK
    <3>2. told[i][c] <= faults[i] + 1
      BY <2>2
    <3> QED
      BY <2>2, <3>1, <3>2
  <2>4. CASE i # Current(w)
    <3>1. faults'[i] = faults[i]
      BY <2>1, <2>4 DEF TypeOK
    <3>2. ~ShownBy(w, i, c)
      BY <2>4 DEF ShownBy
    <3>3. Accounted(i, c) => Accounted(i, c)'
      BY <1>o, <2>1, <3>2, OthersShow DEF Accounted
    <3>4. CASE Accounted(i, c)
      BY <2>2, <3>1, <3>3, <3>4
    <3>5. CASE ~Accounted(i, c)
      <4>1. told[i][c] <= faults[i]
        BY <2>2, <3>5
      <4> QED
        BY <2>2, <3>1, <4>1
    <3> QED
      BY <3>4, <3>5
  <2> QED
    BY <2>3, <2>4
<1>4. CASE Complete(w) \/ Retry(w)
  <2>1. /\ Current(w) \in Row /\ Holds(w, Current(w))
        /\ UNCHANGED <<told, faults, overrun>>
        /\ \A i \in Row \ {Current(w)} : status'[i] = status[i]
        /\ Complete(w) => status'[Current(w)] = "done"
        /\ Retry(w) => step[w] = "retry"
    BY <1>4, <1>c DEF Complete, Retry, At, TypeOK
  <2>2. ASSUME NEW i \in Row \ overrun', NEW c \in Channel, Accounted(i, c)
        PROVE  Accounted(i, c)'
    <3>1. CASE i = Current(w)
      <4>1. i \in Row \ overrun
        BY <2>1
      <4>2. ShownBy(w, i, c)
        BY <2>1, <2>2, <3>1, <4>1, HeldIsOpen
      <4>3. Complete(w)
        BY <1>4, <2>1, <4>2 DEF ShownBy
      <4> QED
        BY <2>1, <3>1, <4>3 DEF Accounted
    <3>2. CASE i # Current(w)
      <4>1. ~ShownBy(w, i, c)
        BY <3>2 DEF ShownBy
      <4> QED
        BY <1>o, <2>1, <2>2, <3>2, <4>1, OthersShow DEF Accounted
    <3> QED
      BY <3>1, <3>2
  <2> QED
    BY <2>1, <2>2, ToldKept
<1> QED
  BY <1>1, <1>2, <1>3, <1>4 DEF Work

LEMMA AbandonTold ==
  ASSUME TypeOK, ToldBounded, NEW w \in Worker, Abandon(w)
  PROVE  ToldBounded'
<1>1. /\ UNCHANGED <<told, status, overrun>>
      /\ faults' = [i \in Row |-> IF Holds(w, i) THEN faults[i] + 1 ELSE faults[i]]
      /\ \A u \in Worker \ {w} :
           batch'[u] = batch[u] /\ step'[u] = step[u] /\ next'[u] = next[u]
  BY DEF Abandon, TypeOK, rowVars
<1> SUFFICES ASSUME NEW i \in Row \ overrun, NEW c \in Channel
             PROVE  told[i][c] <= faults'[i] + (IF Accounted(i, c)' THEN 1 ELSE 0)
  BY <1>1 DEF ToldBounded
<1>2. /\ told[i][c] <= faults[i] + (IF Accounted(i, c) THEN 1 ELSE 0)
      /\ told[i][c] \in Nat /\ faults[i] \in Nat
  BY BoundAssumption DEF ToldBounded, TypeOK
<1>3. CASE Holds(w, i)
  <2>1. faults'[i] = faults[i] + 1
    BY <1>1, <1>3
  <2>2. told[i][c] <= faults[i] + 1
    BY <1>2
  <2> QED
    BY <1>2, <2>1, <2>2
<1>4. CASE ~Holds(w, i)
  <2>1. faults'[i] = faults[i]
    BY <1>1, <1>4
  <2>2. ~ShownBy(w, i, c)
    BY <1>4 DEF ShownBy
  <2>3. Accounted(i, c) => Accounted(i, c)'
    BY <1>1, <2>2, OthersShow DEF Accounted
  <2>4. CASE Accounted(i, c)
    BY <1>2, <2>1, <2>3, <2>4
  <2>5. CASE ~Accounted(i, c)
    <3>1. told[i][c] <= faults[i]
      BY <1>2, <2>5
    <3> QED
      BY <1>2, <2>1, <3>1
  <2> QED
    BY <2>4, <2>5
<1> QED
  BY <1>3, <1>4

LEMMA StepTold == TypeOK /\ HeldIsLeased /\ ToldBounded /\ [Next]_vars => ToldBounded'
<1> SUFFICES ASSUME TypeOK, HeldIsLeased, ToldBounded, [Next]_vars PROVE ToldBounded'
  OBVIOUS
<1>1. ASSUME NEW i \in Row,
             CreateRequest(i) \/ CloseRequest(i) \/ LeaseExpires(i) \/ BecomesDue(i)
      PROVE  ToldBounded'
  <2>1. UNCHANGED <<told, faults, batch, step, next>> /\ overrun \subseteq overrun'
    BY <1>1 DEF CreateRequest, CloseRequest, LeaseExpires, BecomesDue, rowVars, workerVars
  <2>2. \A j \in Row : status[j] = "done" => status'[j] = "done"
    BY <1>1 DEF CreateRequest, CloseRequest, LeaseExpires, BecomesDue, TypeOK, rowVars
  <2>3. \A j \in Row, c \in Channel : Accounted(j, c) => Accounted(j, c)'
    BY <2>1, <2>2 DEF Accounted, ShownBy, Holds, Current
  <2> QED
    BY <2>1, <2>3, ToldKept
<1>2. ASSUME NEW w \in Loop, ClaimBatch(w) PROVE ToldBounded'
  BY <1>2, ClaimTold, BoundAssumption DEF ClaimBatch
<1>3. ASSUME NEW w \in Worker \ Loop, NEW i \in Row, ClaimOne(w, i) PROVE ToldBounded'
  BY <1>3, ClaimTold DEF ClaimOne
<1>4. ASSUME NEW w \in Worker, Work(w) PROVE ToldBounded'
  BY <1>4, WorkTold
<1>5. ASSUME NEW w \in Worker, Abandon(w) PROVE ToldBounded'
  BY <1>5, AbandonTold
<1>6. CASE UNCHANGED vars
  BY <1>6 DEF vars, rowVars, workerVars, ToldBounded, Accounted, ShownBy, Holds, Current
<1> QED
  BY <1>1, <1>2, <1>3, <1>4, <1>5, <1>6 DEF Next

\* Within its lease, a message is shown once and once more per crash or
\* publisher exception: publish_one is not repeated for any other reason.
THEOREM ReplaysHaveCause == Spec => []ReplayHasCause
<1>1. Init => ToldBounded
  BY DEF Init, ToldBounded, Accounted, ShownBy, Holds
<1>2. TypeOK /\ ToldBounded => ReplayHasCause
  <2> SUFFICES ASSUME TypeOK, ToldBounded, NEW i \in Row \ overrun, NEW c \in Channel
               PROVE  told[i][c] <= 1 + faults[i]
    BY DEF ReplayHasCause
  <2>1. told[i][c] <= faults[i] + (IF Accounted(i, c) THEN 1 ELSE 0)
    BY DEF ToldBounded
  <2>2. told[i][c] \in Nat /\ faults[i] \in Nat
    BY BoundAssumption DEF TypeOK
  <2> QED
    BY <2>1, <2>2
<1>3. Spec => []HeldIsLeased
  <2>1. Init => HeldIsLeased
    BY DEF Init, HeldIsLeased, Holds
  <2> QED
    BY <2>1, StepHeld, ChannelTypeCorrect, PTL DEF Spec
<1> QED
  BY <1>1, <1>2, <1>3, StepTold, ChannelTypeCorrect, PTL DEF Spec

-----------------------------------------------------------------------------
(* A finished row is accounted for.                                        *)

\* Every channel has its event.
AllAnswered(i) == \A c \in Channel : Answered(i, c)

Skipped(i) == request[i] = "closed" /\ SkippedTerminal \in audit[i]

\* What a worker knows about its current row i is true of the row.
KnowsRow(w, i) ==
  /\ step[w] = "look" => answers[w] = {}
  /\ \A c \in answers[w] : told[i][c] > 0
  /\ step[w] = "complete" => Skipped(i)
  /\ step[w] = "audit" => \A c \in Channel : c < next[w] => Answered(i, c)

AuditTrue ==
  /\ \A i \in Row : status[i] = "done" => Skipped(i) \/ AllAnswered(i)
  /\ \A w \in Worker : IF batch[w] = {} THEN answers[w] = {} /\ step[w] = "look"
                                        ELSE KnowsRow(w, Current(w))

\* The audit, the messages shown and terminal statuses only grow.
Grows ==
  /\ \A i \in Row : audit[i] \subseteq audit'[i]
  /\ \A i \in Row, c \in Channel : told[i][c] > 0 => told'[i][c] > 0
  /\ \A i \in Row : request[i] = "closed" => request'[i] = "closed"

LEMMA StepGrows ==
  ASSUME TypeOK, Next
  PROVE  Grows
<1>c. ASSUME NEW w \in Worker, batch[w] # {} PROVE Current(w) \in Row
  BY <1>c, CurrentIsHeld
<1>1. ASSUME NEW w \in Worker, NEW shown \in BOOLEAN, NEW delivered \in BOOLEAN,
             Publish(w, shown, delivered)
      PROVE  Grows
  <2>1. Current(w) \in Row /\ next[w] \in Channel
    BY <1>1, <1>c DEF Publish, At
  <2>2. \A i \in Row, c \in Channel : told[i][c] > 0 => told'[i][c] > 0
    <3> TAKE i \in Row, c \in Channel
    <3>1. told[i][c] \in Nat
      BY DEF TypeOK
    <3>2. told'[i][c] = told[i][c] \/ told'[i][c] = told[i][c] + 1
      BY <1>1, <2>1 DEF Publish, TypeOK
    <3> QED
      BY <3>1, <3>2
  <2> QED
    BY <1>1, <2>2 DEF Publish, Grows
<1>2. ASSUME NEW w \in Worker, Look(w) \/ RecordAnswer(w) PROVE Grows
  BY <1>2, <1>c DEF Look, RecordAnswer, At, Grows, TypeOK
<1>3. ASSUME NEW w \in Worker,
             PublishRaises(w) \/ Published(w) \/ Complete(w) \/ Retry(w) \/ Abandon(w)
      PROVE  Grows
  BY <1>3 DEF PublishRaises, Published, Complete, Retry, Abandon, Grows
<1>4. ASSUME NEW i \in Row,
             CreateRequest(i) \/ CloseRequest(i) \/ LeaseExpires(i) \/ BecomesDue(i)
      PROVE  Grows
  BY <1>4 DEF CreateRequest, CloseRequest, LeaseExpires, BecomesDue, Grows, TypeOK
<1>5. ASSUME NEW w \in Worker, NEW wanted, NEW n, Claim(w, wanted, n) PROVE Grows
  BY <1>5 DEF Claim, Grows
<1>6. ASSUME NEW w \in Loop, ClaimBatch(w) PROVE Grows
  BY <1>5, <1>6, BoundAssumption DEF ClaimBatch
<1>7. ASSUME NEW w \in Worker \ Loop, NEW i \in Row, ClaimOne(w, i) PROVE Grows
  BY <1>5, <1>7 DEF ClaimOne
<1> QED
  BY <1>1, <1>2, <1>3, <1>4, <1>6, <1>7 DEF Next, Work

\* What is known of a row stays true while others work on it.
LEMMA KnownStays ==
  ASSUME TypeOK, Grows, NEW w \in Worker, NEW i \in Row, KnowsRow(w, i),
         step'[w] = step[w], next'[w] = next[w], answers'[w] = answers[w]
  PROVE  KnowsRow(w, i)'
BY DEF KnowsRow, Grows, Skipped, Answered, TypeOK

\* Both parts of AuditTrue from what becomes of the rows and of one worker.
LEMMA AuditKept ==
  ASSUME TypeOK, AuditTrue, Grows, NEW w \in Worker,
         \A u \in Worker \ {w} : /\ batch'[u] = batch[u] /\ step'[u] = step[u]
                                 /\ next'[u] = next[u] /\ answers'[u] = answers[u],
         \A i \in Row : status'[i] = "done" => status[i] = "done" \/ Skipped(i) \/ AllAnswered(i),
         IF batch'[w] = {} THEN answers'[w] = {} /\ step'[w] = "look"
                           ELSE KnowsRow(w, Current(w))'
  PROVE  AuditTrue'
<1>1. \A i \in Row : status'[i] = "done" => (Skipped(i) \/ AllAnswered(i))'
  BY DEF AuditTrue, Grows, Skipped, AllAnswered, Answered, TypeOK
<1>2. ASSUME NEW u \in Worker \ {w}, batch[u] # {}
      PROVE  KnowsRow(u, Current(u))'
  <2>1. Current(u) \in Row /\ KnowsRow(u, Current(u))
    BY <1>2, CurrentIsHeld DEF AuditTrue
  <2>2. PICK i \in Row : i = Current(u)
    BY <2>1
  <2>3. KnowsRow(u, i)'
    BY <2>1, <2>2, KnownStays
  <2>4. Current(u)' = i
    BY <2>2 DEF Current
  <2> QED
    BY <2>3, <2>4 DEF KnowsRow, Skipped, Answered
<1>3. \A u \in Worker : IF batch'[u] = {} THEN answers'[u] = {} /\ step'[u] = "look"
                                          ELSE KnowsRow(u, Current(u))'
  BY <1>2 DEF AuditTrue
<1> QED
  BY <1>1, <1>3 DEF AuditTrue

LEMMA WorkAudited ==
  ASSUME TypeOK, AuditTrue, NEW w \in Worker, Work(w)
  PROVE  AuditTrue'
<1>g. Grows
  BY StepGrows DEF Next
<1>o. \A u \in Worker \ {w} : /\ batch'[u] = batch[u] /\ step'[u] = step[u]
                              /\ next'[u] = next[u] /\ answers'[u] = answers[u]
  BY DEF Work, Look, Publish, PublishRaises, Published, RecordAnswer, Complete, Retry, Proceed, TypeOK
<1>b. batch[w] # {}
  BY DEF Work, Look, Publish, PublishRaises, Published, RecordAnswer, Complete, Retry, At
<1>i. PICK i \in Row : i = Current(w) /\ KnowsRow(w, i)
  BY <1>b, CurrentIsHeld DEF AuditTrue
<1>s. ASSUME UNCHANGED <<status, batch>>, KnowsRow(w, i)'
      PROVE  AuditTrue'
  <2>1. Current(w)' = i
    BY <1>s, <1>i DEF Current
  <2>2. KnowsRow(w, Current(w))'
    BY <1>s, <2>1 DEF KnowsRow, Skipped, Answered
  <2> QED
    BY <1>g, <1>o, <1>b, <1>s, <2>2, AuditKept
<1>1. CASE Look(w)
  <2>1. CASE Skips(i)
    BY <1>1, <1>i, <1>s, <2>1 DEF Look, Skips, KnowsRow, Skipped, TypeOK, rowVars
  <2>2. CASE ~Skips(i)
    BY <1>1, <1>i, <1>s, <2>2 DEF Look, KnowsRow, Skipped, TypeOK, rowVars
  <2> QED
    BY <2>1, <2>2
<1>2. ASSUME NEW shown \in BOOLEAN, NEW delivered \in BOOLEAN, Publish(w, shown, delivered)
      PROVE  AuditTrue'
  <2>1. /\ step'[w] = "publish" /\ answers'[w] \subseteq answers[w] \cup {next[w]}
        /\ delivered => told'[i][next[w]] = told[i][next[w]] + 1
        /\ ~delivered => answers'[w] = answers[w]
        /\ next[w] \in Channel
    BY <1>2, <1>i DEF Publish, At, TypeOK
  <2>2. \A c \in answers'[w] : told'[i][c] > 0
    <3> TAKE c \in answers'[w]
    <3>1. CASE c \in answers[w]
      BY <1>g, <1>i, <3>1 DEF KnowsRow, Grows, TypeOK
    <3>2. CASE c \notin answers[w]
      <4>1. c = next[w] /\ delivered
        BY <2>1, <3>2
      <4>2. told[i][c] \in Nat
        BY <2>1, <4>1 DEF TypeOK
      <4> QED
        BY <2>1, <4>1, <4>2
    <3> QED
      BY <3>1, <3>2
  <2> QED
    BY <1>2, <1>s, <2>1, <2>2 DEF Publish, KnowsRow, rowVars
<1>3. CASE PublishRaises(w)
  BY <1>3, <1>i, <1>s DEF PublishRaises, KnowsRow, TypeOK, rowVars
<1>4. CASE Published(w)
  <2>1. \A c \in Channel : ~(c < 1)
    BY BoundAssumption DEF Channel
  <2> QED
    BY <1>4, <1>i, <1>s, <2>1 DEF Published, KnowsRow, TypeOK, rowVars
<1>5. CASE RecordAnswer(w)
  <2>1. /\ step[w] = "audit" /\ next[w] \in Channel /\ next'[w] = next[w] + 1
        /\ audit'[i] = audit[i] \cup AnswerEvent(w, next[w])
        /\ UNCHANGED <<step, answers, told, status, batch>>
    BY <1>5, <1>i DEF RecordAnswer, At, TypeOK, rowVars
  <2>0. PICK now \in Channel : now = next[w]
    BY <2>1
  <2>2. Answered(i, now)'
    BY <1>i, <2>0, <2>1 DEF AnswerEvent, Answered, KnowsRow
  <2>3. ASSUME NEW c \in Channel, c < next'[w] PROVE Answered(i, c)'
    <3>1. CASE c = now
      BY <2>2, <3>1
    <3>2. CASE c # now
      <4>1. c < next[w]
        BY <2>0, <2>1, <2>3, <3>2, BoundAssumption DEF Channel
      <4> QED
        BY <1>i, <2>1, <4>1 DEF KnowsRow, Answered
    <3> QED
      BY <3>1, <3>2
  <2> QED
    BY <1>i, <1>s, <2>1, <2>3 DEF KnowsRow
<1>6. CASE Complete(w) \/ Retry(w)
  <2>1. /\ step'[w] = "look" /\ answers'[w] = {}
        /\ \A j \in Row \ {i} : status'[j] = status[j]
        /\ Retry(w) => status'[i] = "pending"
    BY <1>6, <1>i DEF Complete, Retry, Proceed, TypeOK
  <2>2. ASSUME Complete(w) PROVE Skipped(i) \/ AllAnswered(i)
    <3>1. CASE step[w] = "complete"
      BY <1>i, <3>1 DEF KnowsRow
    <3>2. CASE step[w] = "audit" /\ next[w] \notin Channel
      <4>1. \A c \in Channel : c < next[w]
        BY <3>2, BoundAssumption DEF TypeOK, Channel
      <4> QED
        BY <1>i, <3>2, <4>1 DEF KnowsRow, AllAnswered
    <3> QED
      BY <2>2, <3>1, <3>2 DEF Complete, At
  <2>3. \A j \in Row : status'[j] = "done" => status[j] = "done" \/ Skipped(j) \/ AllAnswered(j)
    BY <1>6, <2>1, <2>2
  <2>4. KnowsRow(w, Current(w))'
    BY <2>1 DEF KnowsRow
  <2> QED
    BY <1>g, <1>o, <2>1, <2>3, <2>4, AuditKept
<1> QED
  BY <1>1, <1>2, <1>3, <1>4, <1>5, <1>6 DEF Work

LEMMA StepAudited == TypeOK /\ AuditTrue /\ [Next]_vars => AuditTrue'
<1> SUFFICES ASSUME TypeOK, AuditTrue, [Next]_vars PROVE AuditTrue'
  OBVIOUS
<1>1. ASSUME NEW i \in Row, Next,
             CreateRequest(i) \/ CloseRequest(i) \/ LeaseExpires(i) \/ BecomesDue(i)
      PROVE  AuditTrue'
  <2>1. Grows /\ UNCHANGED <<batch, step, next, answers>>
    BY <1>1, StepGrows DEF CreateRequest, CloseRequest, LeaseExpires, BecomesDue, workerVars
  <2>2. \A j \in Row : status'[j] = "done" => status[j] = "done"
    BY <1>1 DEF CreateRequest, CloseRequest, LeaseExpires, BecomesDue, TypeOK, rowVars
  <2>3. \A j \in Row : status'[j] = "done" => (Skipped(j) \/ AllAnswered(j))'
    BY <2>1, <2>2 DEF AuditTrue, Grows, Skipped, AllAnswered, Answered, TypeOK
  <2>4. ASSUME NEW u \in Worker, batch[u] # {} PROVE KnowsRow(u, Current(u))'
    <3>1. PICK j \in Row : j = Current(u) /\ KnowsRow(u, j)
      BY <2>4, CurrentIsHeld DEF AuditTrue
    <3>2. KnowsRow(u, j)' /\ Current(u)' = j
      BY <2>1, <3>1, KnownStays DEF Current
    <3> QED
      BY <3>2 DEF KnowsRow, Skipped, Answered
  <2> QED
    BY <2>1, <2>3, <2>4 DEF AuditTrue
<1>2. ASSUME NEW w \in Worker, NEW wanted \in SUBSET Row, NEW n, Next, Claim(w, wanted, n)
      PROVE  AuditTrue'
  <2> PICK mine \in SUBSET Row :
             /\ \A i \in mine : Claimable(i)
             /\ batch[w] = {} /\ batch' = [batch EXCEPT ![w] = mine]
             /\ status' = [i \in Row |-> IF i \in mine THEN "processing" ELSE status[i]]
             /\ lease' = [i \in Row |-> IF i \in mine THEN "running" ELSE lease[i]]
             /\ UNCHANGED <<request, due, step, next, answers, told, audit, faults, overrun>>
    BY <1>2, ClaimTakes
  <2>1. answers'[w] = {} /\ step'[w] = "look"
    BY DEF AuditTrue
  <2>2. KnowsRow(w, Current(w))'
    BY <2>1 DEF KnowsRow
  <2>3. /\ Grows
        /\ \A u \in Worker \ {w} : /\ batch'[u] = batch[u] /\ step'[u] = step[u]
                                   /\ next'[u] = next[u] /\ answers'[u] = answers[u]
        /\ \A i \in Row : status'[i] = "done" => status[i] = "done"
    BY <1>2, StepGrows DEF TypeOK
  <2> QED
    BY <2>1, <2>2, <2>3, AuditKept
<1>3. ASSUME NEW w \in Loop, Next, ClaimBatch(w) PROVE AuditTrue'
  BY <1>2, <1>3, BoundAssumption DEF ClaimBatch
<1>4. ASSUME NEW w \in Worker \ Loop, NEW i \in Row, Next, ClaimOne(w, i) PROVE AuditTrue'
  BY <1>2, <1>4 DEF ClaimOne
<1>5. ASSUME NEW w \in Worker, Work(w) PROVE AuditTrue'
  BY <1>5, WorkAudited
<1>6. ASSUME NEW w \in Worker, Next, Abandon(w) PROVE AuditTrue'
  <2>1. /\ Grows /\ status' = status
        /\ batch'[w] = {} /\ answers'[w] = {} /\ step'[w] = "look"
        /\ \A u \in Worker \ {w} : /\ batch'[u] = batch[u] /\ step'[u] = step[u]
                                   /\ next'[u] = next[u] /\ answers'[u] = answers[u]
    BY <1>6, StepGrows DEF Abandon, TypeOK, rowVars
  <2> QED
    BY <2>1, AuditKept
<1>7. CASE UNCHANGED vars
  BY <1>7 DEF vars, rowVars, workerVars, AuditTrue, KnowsRow, Skipped, AllAnswered, Answered, Current
<1> QED
  BY <1>1, <1>3, <1>4, <1>5, <1>6, <1>7 DEF Next

\* complete_channel_outbox closes a row only when the audit says of every
\* channel that the human was told there or could not be, or that the request
\* was terminal: however workers crash, retry and overtake each other.
THEOREM DoneRowsAreAccounted == Spec => []DoneIsAccounted
<1>1. Init => AuditTrue
  BY DEF Init, AuditTrue
<1>2. AuditTrue => DoneIsAccounted
  BY DEF AuditTrue, DoneIsAccounted, Skipped, AllAnswered
<1> QED
  BY <1>1, <1>2, StepAudited, ChannelTypeCorrect, PTL DEF Spec

-----------------------------------------------------------------------------
(* The outbox implements Publication.                                      *)

Stages == [i \in Row |-> StageOf(status[i])]
Withdrawn == {i \in Row : request[i] = "closed"}

\* Whoever holds a row holds one that is owed, or exposed.
LEMMA HeldIsInHand ==
  ASSUME TypeOK, HeldIsLeased, NEW w \in Worker, NEW i \in Row, Holds(w, i)
  PROVE  P!InHand(i)
<1>1. i \notin overrun => status[i] = "processing"
  BY HeldIsOpen
<1> QED
  BY <1>1 DEF P!InHand, StageOf

\* Where neither columns nor histories change, nothing is seen.
LEMMA Unseen ==
  ASSUME UNCHANGED <<request, told, audit, faults, overrun>>, UNCHANGED Stages
  PROVE  UNCHANGED P!pvars
BY DEF P!pvars, Stages

\* A claim takes rows that are owed already.
LEMMA ClaimUnseen ==
  ASSUME TypeOK, NEW w \in Worker, NEW wanted \in SUBSET Row, NEW n, Claim(w, wanted, n)
  PROVE  UNCHANGED P!pvars
<1> PICK mine \in SUBSET Row :
           /\ \A i \in mine : Claimable(i)
           /\ batch[w] = {} /\ batch' = [batch EXCEPT ![w] = mine]
           /\ status' = [i \in Row |-> IF i \in mine THEN "processing" ELSE status[i]]
           /\ lease' = [i \in Row |-> IF i \in mine THEN "running" ELSE lease[i]]
           /\ UNCHANGED <<request, due, step, next, answers, told, audit, faults, overrun>>
  BY ClaimTakes
<1>1. \A i \in Row : StageOf(status'[i]) = StageOf(status[i])
  BY DEF Claimable, StageOf
<1>2. Stages' = Stages
  BY <1>1 DEF Stages
<1> QED
  BY <1>2, Unseen

\* What a worker knows when it completes a row settles the row.
LEMMA CompletedIsSettled ==
  ASSUME TypeOK, AuditTrue, NEW w \in Worker, NEW i \in Row, i = Current(w), batch[w] # {},
         step[w] = "complete" \/ (step[w] = "audit" /\ next[w] \notin Channel)
  PROVE  P!Settled(i)
<1>1. KnowsRow(w, i)
  BY DEF AuditTrue
<1>2. CASE step[w] = "complete"
  BY <1>1, <1>2 DEF KnowsRow, Skipped, SkippedTerminal, P!Settled, P!TooLate
<1>3. CASE step[w] = "audit" /\ next[w] \notin Channel
  <2>1. \A c \in Channel : c < next[w]
    BY <1>3, BoundAssumption DEF TypeOK, Channel
  <2>2. \A c \in Channel : Answered(i, c)
    BY <1>1, <1>3, <2>1 DEF KnowsRow
  <2> QED
    BY <2>2 DEF Answered, P!Settled, P!Verdict
<1> QED
  BY <1>2, <1>3

LEMMA WorkPublishes ==
  ASSUME TypeOK, HeldIsLeased, ToldBounded, AuditTrue, NEW w \in Worker, Work(w)
  PROVE  P!PNext \/ UNCHANGED P!pvars
<1>b. batch[w] # {}
  BY DEF Work, Look, Publish, PublishRaises, Published, RecordAnswer, Complete, Retry, At
<1>i. PICK i \in Row : i = Current(w) /\ Holds(w, i) /\ KnowsRow(w, i)
  BY <1>b, CurrentIsHeld DEF AuditTrue
<1>h. P!InHand(i)
  BY <1>i, HeldIsInHand
<1>1. CASE Look(w)
  <2>1. CASE Skips(i)
    <3>1. /\ audit' = [audit EXCEPT ![i] = @ \cup {SkippedTerminal}]
          /\ UNCHANGED <<request, status, told, faults, overrun>>
      BY <1>1, <1>i, <2>1 DEF Look, rowVars
    <3>2. P!RecordTooLate(i)
      BY <1>h, <2>1, <3>1 DEF P!RecordTooLate, P!TooLate, SkippedTerminal, Skips
    <3> QED
      BY <3>2 DEF P!PNext
  <2>2. CASE ~Skips(i)
    <3>1. UNCHANGED <<request, status, told, audit, faults, overrun>>
      BY <1>1, <1>i, <2>2 DEF Look, rowVars
    <3> QED
      BY <3>1, Unseen DEF Stages
  <2> QED
    BY <2>1, <2>2
<1>2. ASSUME NEW s \in BOOLEAN, NEW delivered \in BOOLEAN, Publish(w, s, delivered)
      PROVE  P!PNext \/ UNCHANGED P!pvars
  <2>1. PICK c \in Channel : c = next[w]
    BY <1>2 DEF Publish
  <2>2. /\ step[w] = "publish" /\ UNCHANGED <<request, status, audit, faults, overrun>>
        /\ told' = IF s THEN [told EXCEPT ![i][c] = @ + 1] ELSE told
    BY <1>2, <1>i, <2>1 DEF Publish, At, rowVars
  <2>3. CASE s
    <3>1. i \in overrun \/ told[i][c] <= faults[i]
      <4> SUFFICES ASSUME i \notin overrun PROVE told[i][c] <= faults[i]
        OBVIOUS
      <4>1. ~ShownBy(w, i, c)
        <5>1. ~(next[w] > c)
          BY <2>1, BoundAssumption DEF Channel
        <5> QED
          BY <2>2, <5>1 DEF ShownBy
      <4>2. ~Accounted(i, c)
        BY <1>i, <4>1, HeldIsOpen
      <4>3. told[i][c] <= faults[i] + (IF Accounted(i, c) THEN 1 ELSE 0)
        BY DEF ToldBounded
      <4>4. told[i][c] \in Nat /\ faults[i] \in Nat
        BY BoundAssumption DEF TypeOK
      <4> QED
        BY <4>2, <4>3, <4>4
    <3>2. P!Show(i, c)
      BY <1>h, <2>2, <2>3, <3>1 DEF P!Show
    <3> QED
      BY <3>2 DEF P!PNext
  <2>4. CASE ~s
    BY <2>2, <2>4, Unseen DEF Stages
  <2> QED
    BY <2>3, <2>4
<1>3. CASE PublishRaises(w)
  <2>1. /\ faults' = [faults EXCEPT ![i] = @ + 1]
        /\ UNCHANGED <<request, status, told, audit, overrun>>
    BY <1>3, <1>i DEF PublishRaises, rowVars
  <2>2. faults' = [j \in Row |-> IF j \in {i} THEN faults[j] + 1 ELSE faults[j]]
    BY <2>1 DEF TypeOK
  <2>3. P!Mishap({i})
    BY <1>h, <2>1, <2>2 DEF P!Mishap, P!InHand
  <2> QED
    BY <2>3 DEF P!PNext
<1>4. CASE Published(w)
  BY <1>4, Unseen DEF Published, rowVars, Stages
<1>5. CASE RecordAnswer(w)
  <2>1. PICK c \in Channel : c = next[w]
    BY <1>5 DEF RecordAnswer
  <2>2. /\ audit' = [audit EXCEPT ![i] = @ \cup AnswerEvent(w, c)]
        /\ UNCHANGED <<request, status, told, faults, overrun>>
    BY <1>5, <1>i, <2>1 DEF RecordAnswer, rowVars
  <2>3. PICK verdict \in P!Verdict(c) :
           /\ AnswerEvent(w, c) = {verdict}
           /\ verdict = <<"channel_delivered", c>> => told[i][c] > 0
    BY <1>i DEF AnswerEvent, KnowsRow, P!Verdict
  <2>4. P!Record(i, c)
    BY <1>h, <2>2, <2>3 DEF P!Record
  <2> QED
    BY <2>4 DEF P!PNext
<1>6. CASE Complete(w)
  <2>1. /\ status' = [status EXCEPT ![i] = "done"]
        /\ UNCHANGED <<request, told, audit, faults, overrun>>
        /\ step[w] = "complete" \/ (step[w] = "audit" /\ next[w] \notin Channel)
    BY <1>6, <1>i DEF Complete, At
  <2>2. P!Settled(i)
    BY <1>i, <1>b, <2>1, CompletedIsSettled
  <2>3. Stages' = [Stages EXCEPT ![i] = "handled"]
    BY <2>1 DEF Stages, StageOf, TypeOK
  <2>4. CASE status[i] = "done"
    <3>1. Stages' = Stages
      BY <2>3, <2>4 DEF Stages, StageOf
    <3> QED
      BY <2>1, <3>1, Unseen
  <2>5. CASE status[i] # "done"
    <3>1. Stages[i] = "owed"
      BY <1>i, <2>5 DEF Stages, StageOf, Holds, TypeOK
    <3>2. P!Handle(i)
      BY <2>1, <2>2, <2>3, <3>1 DEF P!Handle, Stages
    <3> QED
      BY <3>2 DEF P!PNext
  <2> QED
    BY <2>4, <2>5
<1>7. CASE Retry(w)
  <2>1. /\ status' = [status EXCEPT ![i] = "pending"]
        /\ UNCHANGED <<request, told, audit, faults, overrun>>
    BY <1>7, <1>i DEF Retry
  <2>2. Stages' = [Stages EXCEPT ![i] = "owed"]
    BY <2>1 DEF Stages, StageOf, TypeOK
  <2>3. CASE status[i] = "done"
    <3>1. i \in overrun /\ Stages[i] = "handled"
      BY <1>i, <2>3, HeldIsOpen DEF Stages, StageOf
    <3>2. P!OweAgain(i)
      BY <2>1, <2>2, <3>1 DEF P!OweAgain, Stages
    <3> QED
      BY <3>2 DEF P!PNext
  <2>4. CASE status[i] # "done"
    <3>1. Stages[i] = "owed"
      BY <1>i, <2>4 DEF Stages, StageOf, Holds, TypeOK
    <3>2. Stages' = Stages
      BY <2>2, <3>1 DEF Stages
    <3> QED
      BY <2>1, <3>2, Unseen
  <2> QED
    BY <2>3, <2>4
<1> QED
  BY <1>1, <1>2, <1>3, <1>4, <1>5, <1>6, <1>7 DEF Work

LEMMA StepPublishes ==
  TypeOK /\ HeldIsLeased /\ ToldBounded /\ AuditTrue /\ [Next]_vars => [P!PNext]_(P!pvars)
<1> SUFFICES ASSUME TypeOK, HeldIsLeased, ToldBounded, AuditTrue, [Next]_vars
             PROVE  P!PNext \/ UNCHANGED P!pvars
  OBVIOUS
<1>1. ASSUME NEW i \in Row, CreateRequest(i) PROVE P!PNext
  <2>1. status[i] = "none"
    BY <1>1 DEF CreateRequest, TypeOK
  <2>2. /\ Stages[i] = "none" /\ Stages' = [Stages EXCEPT ![i] = "owed"]
        /\ Withdrawn' = Withdrawn
    BY <1>1, <2>1 DEF CreateRequest, Stages, StageOf, Withdrawn, TypeOK
  <2>3. P!Arise(i)
    BY <1>1, <2>2 DEF CreateRequest, P!Arise, Stages, Withdrawn
  <2> QED
    BY <2>3 DEF P!PNext
<1>2. ASSUME NEW i \in Row, CloseRequest(i) PROVE P!PNext
  <2>1. Stages[i] # "none" /\ Withdrawn' = Withdrawn \cup {i}
    BY <1>2 DEF CloseRequest, Stages, StageOf, Withdrawn, TypeOK
  <2>2. P!Withdraw(i)
    BY <1>2, <2>1 DEF CloseRequest, P!Withdraw, Stages, Withdrawn, rowVars
  <2> QED
    BY <2>2 DEF P!PNext
<1>3. ASSUME NEW i \in Row, LeaseExpires(i) PROVE P!PNext \/ UNCHANGED P!pvars
  <2>1. UNCHANGED <<request, status, told, audit, faults>>
    BY <1>3 DEF LeaseExpires
  <2>2. CASE overrun' = overrun
    BY <2>1, <2>2, Unseen DEF Stages
  <2>3. CASE overrun' = overrun \cup {i}
    <3>1. Stages[i] = "owed"
      BY <1>3 DEF LeaseExpires, Stages, StageOf, TypeOK
    <3>2. P!Expose(i)
      BY <2>1, <2>3, <3>1 DEF P!Expose, Stages
    <3> QED
      BY <3>2 DEF P!PNext
  <2> QED
    BY <1>3, <2>2, <2>3 DEF LeaseExpires
<1>4. ASSUME NEW i \in Row, BecomesDue(i) PROVE UNCHANGED P!pvars
  BY <1>4, Unseen DEF BecomesDue, Stages
<1>5. ASSUME NEW w \in Loop, ClaimBatch(w) PROVE UNCHANGED P!pvars
  BY <1>5, ClaimUnseen, BoundAssumption DEF ClaimBatch
<1>6. ASSUME NEW w \in Worker \ Loop, NEW i \in Row, ClaimOne(w, i) PROVE UNCHANGED P!pvars
  BY <1>6, ClaimUnseen DEF ClaimOne
<1>7. ASSUME NEW w \in Worker, Abandon(w) PROVE P!PNext
  <2>1. /\ faults' = [i \in Row |-> IF Holds(w, i) THEN faults[i] + 1 ELSE faults[i]]
        /\ UNCHANGED <<request, status, told, audit, overrun>>
    BY <1>7 DEF Abandon, rowVars
  <2>2. PICK hit \in SUBSET Row : hit = batch[w]
    BY DEF TypeOK
  <2>3. \A i \in hit : P!InHand(i)
    BY <2>2, HeldIsInHand DEF Holds
  <2>4. P!Mishap(hit)
    BY <2>1, <2>2, <2>3 DEF P!Mishap, Holds
  <2> QED
    BY <2>4 DEF P!PNext
<1>8. CASE UNCHANGED vars
  BY <1>8, Unseen DEF vars, rowVars, Stages
<1> QED
  BY <1>1, <1>2, <1>3, <1>4, <1>5, <1>6, <1>7, <1>8, WorkPublishes DEF Next

\* ImplementsPublication: who counts messages, verdicts and mishaps sees
\* Publication, whatever claim_channel_outbox, the publishers and the writes of
\* complete_channel_outbox and retry_channel_outbox do to each other.
THEOREM OutboxImplementsPublication == Spec => ImplementsPublication
<1>1. Init => P!PInit
  BY DEF Init, P!PInit, StageOf
<1>2. Init => HeldIsLeased /\ ToldBounded /\ AuditTrue
  BY DEF Init, HeldIsLeased, Holds, ToldBounded, Accounted, ShownBy, AuditTrue
<1> QED
  BY <1>1, <1>2, StepHeld, StepTold, StepAudited, StepPublishes, ChannelTypeCorrect, PTL
     DEF Spec, ImplementsPublication, P!PSpec
=============================================================================
