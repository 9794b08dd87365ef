--------------------------- MODULE ChannelOutbox ----------------------------
(***************************************************************************)
(* Publication of requests in the human-facing channels: the               *)
(* channel_outbox table of app/store.py, the workers of app/main.py that   *)
(* drain it, and publish_request, which tells the enabled channels one     *)
(* after the other.                                                        *)
(*                                                                         *)
(* A worker claims rows under a lease, and for each of them looks at the   *)
(* request, publishes it, records what every channel answered, and closes  *)
(* the row.  None of the later writes asks who holds the lease.  Time is   *)
(* abstract: a lease runs out and a retry becomes due at any moment.       *)
(* Deleted requests (clear_all) are left out, and the configuration of the *)
(* channels does not change.                                               *)
(***************************************************************************)
EXTENDS Integers, FiniteSets

CONSTANTS
  Worker,     \* tasks that drain the outbox: loops and HTTP background tasks
  Loop,       \* the background loops among them
  Channels,   \* number of enabled channels, told in the order 1, 2, ...
  Rows,       \* bound: requests created, in order
  BatchLimit, \* rows a loop claims at once (16 in the code)
  MaxFaults   \* bound: crashes and publisher exceptions that hit a row

ASSUME BoundAssumption == /\ Loop \subseteq Worker
                          /\ Channels \in Nat \ {0} /\ Rows \in Nat
                          /\ BatchLimit \in Nat \ {0} /\ MaxFaults \in Nat

Row == 1..Rows
Channel == 1..Channels

VARIABLES
  request,   \* request[i]: absent, open or closed (a terminal status)
  status,    \* channel_outbox.status
  lease,     \* channel_outbox.lease_until: null, running or over
  due,       \* rows whose available_at has passed
  batch,     \* batch[w]: claimed rows w has not finished with
  step,      \* step[w]: what w does with the first row of its batch
  next,      \* next[w]: the channel that w turns to next
  answers,   \* answers[w]: the channels that reported delivered=true to w
  told,      \* told[i][c]: messages about request i shown in channel c
  audit,     \* audit[i]: channel_* events of request i, as a set
  faults,    \* faults[i]: crashes and exceptions that hit a try to publish i
  overrun    \* rows whose lease has run out under a live worker

rowVars == <<status, lease, due>>
workerVars == <<batch, step, next, answers>>
vars == <<request, rowVars, workerVars, told, audit, faults, overrun>>

Init ==
  /\ request = [i \in Row |-> "absent"]
  /\ status = [i \in Row |-> "none"]
  /\ lease = [i \in Row |-> "null"]
  /\ due = {}
  /\ batch = [w \in Worker |-> {}]
  /\ step = [w \in Worker |-> "look"]
  /\ next = [w \in Worker |-> 1]
  /\ answers = [w \in Worker |-> {}]
  /\ told = [i \in Row |-> [c \in Channel |-> 0]]
  /\ audit = [i \in Row |-> {}]
  /\ faults = [i \in Row |-> 0]
  /\ overrun = {}

Holds(w, i) == i \in batch[w]
At(w, s) == batch[w] # {} /\ step[w] = s

\* The row of its batch a worker deals with: it goes through them in order.
First(rows) == CHOOSE i \in rows : \A j \in rows : i <= j
Current(w) == First(batch[w])

-----------------------------------------------------------------------------
(* Requests and clocks.                                                    *)

\* create_with_status commits the request together with its row.
CreateRequest(i) ==
  /\ request[i] = "absent"
  /\ \A j \in Row : j < i => request[j] # "absent"
  /\ request' = [request EXCEPT ![i] = "open"]
  /\ status' = [status EXCEPT ![i] = "pending"]
  /\ due' = due \cup {i}
  /\ UNCHANGED <<lease, workerVars, told, audit, faults, overrun>>

\* The request is resolved, expired, cancelled or superseded elsewhere.
CloseRequest(i) ==
  /\ request[i] = "open"
  /\ request' = [request EXCEPT ![i] = "closed"]
  /\ UNCHANGED <<rowVars, workerVars, told, audit, faults, overrun>>

\* lease_until passes, possibly under a worker slower than its lease.
LeaseExpires(i) ==
  /\ lease[i] = "running"
  /\ lease' = [lease EXCEPT ![i] = "over"]
  /\ overrun' = IF \E w \in Worker : Holds(w, i) THEN overrun \cup {i} ELSE overrun
  /\ UNCHANGED <<request, status, due, workerVars, told, audit, faults>>

\* available_at of a scheduled retry passes.
BecomesDue(i) ==
  /\ status[i] # "none"
  /\ i \notin due
  /\ due' = due \cup {i}
  /\ UNCHANGED <<request, status, lease, workerVars, told, audit, faults, overrun>>

-----------------------------------------------------------------------------
(* The workers.                                                            *)

\* Mutation: the lease is not looked at.
ClaimableLeased(i) == status[i] \notin {"none", "done"} /\ i \in due

\* Mutation: only rows without a lease are claimed.
ClaimableFree(i) ==
  status[i] \notin {"none", "done"} /\ i \in due /\ lease[i] = "null"

\* Mutation: a finished row may be claimed.
ClaimableDone(i) == status[i] # "none" /\ i \in due /\ lease[i] # "running"

\* status!='done' AND available_at<=now AND (lease_until IS NULL OR <=now)
Claimable(i) ==
  status[i] \notin {"none", "done"} /\ i \in due /\ lease[i] # "running"

\* ORDER BY created_at LIMIT n
Oldest(rows, n) == {i \in rows : Cardinality({j \in rows : j < i}) < n}

\* Store.claim_channel_outbox
Claim(w, wanted, limit) ==
  LET mine == Oldest({i \in wanted : Claimable(i)}, limit)
  IN  /\ batch[w] = {}
      /\ mine # {}
      /\ batch' = [batch EXCEPT ![w] = mine]
      /\ status' = [i \in Row |-> IF i \in mine THEN "processing" ELSE status[i]]
      /\ lease' = [i \in Row |-> IF i \in mine THEN "running" ELSE lease[i]]
      /\ UNCHANGED <<request, due, step, next, answers, told, audit, faults, overrun>>

\* _channel_outbox_loop takes whatever is due.
ClaimBatch(w) == Claim(w, Row, BatchLimit)

\* _drain_channel_outbox_request takes the row of the request just created.
ClaimOne(w, i) == Claim(w, {i}, 1)

\* The request has reached a terminal status.
Skips(i) == request[i] = "closed"

SkippedTerminal == <<"channel_publish_skipped_terminal", 0>>

\* store.get(rid): a closed request is skipped, an open one published.
Look(w) ==
  LET i == Current(w)
  IN  /\ At(w, "look")
      /\ IF Skips(i)
         THEN /\ step' = [step EXCEPT ![w] = "complete"]
              /\ audit' = [audit EXCEPT ![i] = @ \cup {SkippedTerminal}]
         ELSE /\ step' = [step EXCEPT ![w] = "publish"]
              /\ UNCHANGED audit
      /\ next' = [next EXCEPT ![w] = 1]
      /\ answers' = [answers EXCEPT ![w] = {}]
      /\ UNCHANGED <<request, rowVars, batch, told, faults, overrun>>

\* publish_one of the next channel returns: the message is shown and the
\* answer says so, or the answer is lost, or neither.
Publish(w, shown, delivered) ==
  LET i == Current(w)
      c == next[w]
  IN  /\ At(w, "publish")
      /\ c \in Channel
      /\ delivered => shown
      /\ told' = IF shown THEN [told EXCEPT ![i][c] = @ + 1] ELSE told
      /\ answers' = IF delivered THEN [answers EXCEPT ![w] = @ \cup {c}] ELSE answers
      /\ next' = [next EXCEPT ![w] = c + 1]
      /\ UNCHANGED <<request, rowVars, batch, step, audit, faults, overrun>>

\* publish_request raises (broken configuration, a card that cannot be
\* rendered), possibly after some channels were told.
PublishRaises(w) ==
  LET i == Current(w)
  IN  /\ At(w, "publish")
      /\ faults[i] < MaxFaults
      /\ step' = [step EXCEPT ![w] = "retry"]
      /\ faults' = [faults EXCEPT ![i] = @ + 1]
      /\ UNCHANGED <<request, rowVars, batch, next, answers, told, audit, overrun>>

\* Every channel has been told; the answers are recorded from the first on.
Published(w) ==
  /\ At(w, "publish")
  /\ next[w] \notin Channel
  /\ step' = [step EXCEPT ![w] = "audit"]
  /\ next' = [next EXCEPT ![w] = 1]
  /\ UNCHANGED <<request, rowVars, batch, answers, told, audit, faults, overrun>>

\* Mutation: only deliveries are recorded.
AnswerEventGood(w, c) ==
  IF c \in answers[w] THEN {<<"channel_delivered", c>>} ELSE {}

\* channel_delivered or channel_undeliverable
AnswerEvent(w, c) ==
  IF c \in answers[w] THEN {<<"channel_delivered", c>>}
                      ELSE {<<"channel_undeliverable", c>>}

\* store.record_event for one channel.
RecordAnswer(w) ==
  LET i == Current(w)
  IN  /\ At(w, "audit")
      /\ next[w] \in Channel
      /\ audit' = [audit EXCEPT ![i] = @ \cup AnswerEvent(w, next[w])]
      /\ next' = [next EXCEPT ![w] = @ + 1]
      /\ UNCHANGED <<request, rowVars, batch, step, answers, told, faults, overrun>>

\* The worker goes on to the next row of its batch.
Proceed(w) ==
  /\ batch' = [batch EXCEPT ![w] = @ \ {Current(w)}]
  /\ step' = [step EXCEPT ![w] = "look"]
  /\ next' = [next EXCEPT ![w] = 1]
  /\ answers' = [answers EXCEPT ![w] = {}]

\* SET lease_until=NULL
LeaseCleared(i) == [lease EXCEPT ![i] = "null"]

\* Store.complete_channel_outbox, whatever the row has become.
Complete(w) ==
  LET i == Current(w)
  IN  /\ At(w, "complete") \/ (At(w, "audit") /\ next[w] \notin Channel)
      /\ status' = [status EXCEPT ![i] = "done"]
      /\ lease' = LeaseCleared(i)
      /\ Proceed(w)
      /\ UNCHANGED <<request, due, told, audit, faults, overrun>>

\* Store.retry_channel_outbox, whatever the row has become.
Retry(w) ==
  LET i == Current(w)
  IN  /\ At(w, "retry")
      /\ status' = [status EXCEPT ![i] = "pending"]
      /\ lease' = LeaseCleared(i)
      /\ due' = due \ {i}
      /\ Proceed(w)
      /\ UNCHANGED <<request, told, audit, faults, overrun>>

\* The worker drops its batch: a crash, a shutdown, a failing store call.  A
\* publisher thread that asyncio leaves running tells the remaining channels
\* as if it had done so before.
Abandon(w) ==
  /\ batch[w] # {}
  /\ \A i \in batch[w] : faults[i] < MaxFaults
  /\ faults' = [i \in Row |-> IF Holds(w, i) THEN faults[i] + 1 ELSE faults[i]]
  /\ batch' = [batch EXCEPT ![w] = {}]
  /\ step' = [step EXCEPT ![w] = "look"]
  /\ next' = [next EXCEPT ![w] = 1]
  /\ answers' = [answers EXCEPT ![w] = {}]
  /\ UNCHANGED <<request, rowVars, told, audit, overrun>>

-----------------------------------------------------------------------------
Work(w) ==
  \/ Look(w)
  \/ \E shown, delivered \in BOOLEAN : Publish(w, shown, delivered)
  \/ PublishRaises(w)
  \/ Published(w)
  \/ RecordAnswer(w)
  \/ Complete(w)
  \/ Retry(w)

Next ==
  \/ \E i \in Row : CreateRequest(i)
  \/ \E i \in Row : CloseRequest(i)
  \/ \E i \in Row : LeaseExpires(i)
  \/ \E i \in Row : BecomesDue(i)
  \/ \E w \in Loop : ClaimBatch(w)
  \/ \E w \in Worker \ Loop, i \in Row : ClaimOne(w, i)
  \/ \E w \in Worker : Work(w)
  \/ \E w \in Worker : Abandon(w)

Spec == Init /\ [][Next]_vars

\* Loops poll for ever, workers go on unless they die, clocks advance.
Fairness ==
  /\ \A w \in Loop : WF_vars(ClaimBatch(w))
  /\ \A w \in Worker : WF_vars(Work(w))
  /\ \A i \in Row : WF_vars(LeaseExpires(i)) /\ WF_vars(BecomesDue(i))

FairSpec == Spec /\ Fairness

-----------------------------------------------------------------------------
(* Properties.                                                             *)

AuditEvent ==
  {SkippedTerminal} \cup ({"channel_delivered", "channel_undeliverable"} \X Channel)

\* Columns have their types, a request has a row, a row is leased exactly while
\* it is processing, and workers hold rows that exist.
TypeOK ==
  /\ request \in [Row -> {"absent", "open", "closed"}]
  /\ status \in [Row -> {"none", "pending", "processing", "done"}]
  /\ lease \in [Row -> {"null", "running", "over"}]
  /\ \A i \in Row : lease[i] # "null" <=> status[i] = "processing"
  /\ \A i \in Row : request[i] = "absent" <=> status[i] = "none"
  /\ \A w \in Worker : \A i \in batch[w] : request[i] # "absent"
  /\ due \subseteq Row
  /\ batch \in [Worker -> SUBSET Row]
  /\ step \in [Worker -> {"look", "publish", "audit", "complete", "retry"}]
  /\ next \in [Worker -> 1..(Channels + 1)]
  /\ answers \in [Worker -> SUBSET Channel]
  /\ told \in [Row -> [Channel -> Nat]]
  /\ audit \in [Row -> SUBSET AuditEvent]
  /\ faults \in [Row -> 0..MaxFaults]
  /\ overrun \subseteq Row

Answered(i, c) ==
  \/ <<"channel_delivered", c>> \in audit[i] /\ told[i][c] > 0
  \/ <<"channel_undeliverable", c>> \in audit[i]

\* A row is closed only with evidence for every channel: an event that says
\* the human was told there or could not be, or that it was too late to tell.
\* Crashes, retries and workers that overtake each other leave no gap.
DoneIsAccounted ==
  \A i \in Row : status[i] = "done" =>
    \/ request[i] = "closed" /\ SkippedTerminal \in audit[i]
    \/ \A c \in Channel : Answered(i, c)

\* Two workers hold one row at the same time only after its lease ran out under
\* a live one.
LeaseIsExclusive ==
  \A u, w \in Worker, i \in Row : u # w /\ Holds(u, i) /\ Holds(w, i) => i \in overrun

\* A message is shown a second time only after a crash, a publisher exception
\* or an overrun lease.
ReplayHasCause ==
  \A i \in Row \ overrun, c \in Channel : told[i][c] <= 1 + faults[i]

StageOf(s) == IF s = "none" THEN "none" ELSE IF s = "done" THEN "handled" ELSE "owed"

P == INSTANCE Publication WITH
       Request <- Row,
       stage <- [i \in Row |-> StageOf(status[i])],
       withdrawn <- {i \in Row : request[i] = "closed"},
       shown <- told,
       said <- audit,
       mishaps <- faults,
       exposed <- overrun

\* Whoever counts messages, verdicts and mishaps need not know of workers and
\* leases: claims are unseen, a row is handled once its verdicts are on record,
\* and only an overrun lets a slow worker show it again or reopen it.
ImplementsPublication == P!PSpec

\* Every request is published or skipped in the end, and stays so, even if
\* slow workers reopen its row on the way.
EventuallyHandled ==
  \A i \in Row : status[i] # "none" ~> [](status[i] = "done")
=============================================================================
