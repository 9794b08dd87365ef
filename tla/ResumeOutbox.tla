---------------------------- MODULE ResumeOutbox ----------------------------
(***************************************************************************)
(* Delivery of resolved decisions to webhooks: the resume_outbox table of  *)
(* app/store.py and the workers of app/main.py that drain it (the          *)
(* background loop of every Gateway process and the HTTP handlers that     *)
(* drain one row), the receiver at the other end of the POST, and the      *)
(* operator who reconciles uncertain rows.                                 *)
(*                                                                         *)
(* A worker claims rows in one transaction, then handles them one after    *)
(* the other: it posts, waits, and records the outcome in a transaction of *)
(* its own.  Between two of these anything may happen: leases run out,     *)
(* other workers sweep, the operator reconciles, the worker disappears.    *)
(*                                                                         *)
(* Time is abstract: a lease may have run out at any moment after it was   *)
(* given, and a worker may be slower than its lease (a batch of 16 rows    *)
(* with a timeout of 10 seconds each has one lease of 30).                 *)
(* Rows exist only for resolved requests with a webhook URL (RequestStore, *)
(* IntentsMatchRequests and TerminalIsFrozen), so the branches of          *)
(* _process_resume_outbox_request for other requests are left out.         *)
(***************************************************************************)
EXTENDS Integers, FiniteSets

CONSTANTS
  Worker,     \* tasks that drain the outbox: loops and HTTP handlers
  Loop,       \* the background loops among them
  Rows,       \* bound: rows enqueued, in created_at order
  BatchLimit, \* rows a loop claims at once (16 in the code)
  MaxRetries  \* bound: retries the operator authorizes for a row

ASSUME BoundAssumption == /\ Loop \subseteq Worker /\ IsFiniteSet(Worker)
                          /\ Rows \in Nat /\ BatchLimit \in Nat \ {0}
                          /\ MaxRetries \in Nat

Row == 1..Rows
RowStatus == {"none", "pending", "processing", "done", "uncertain"}
PostState == {"none", "travelling", "handled", "confirmed", "accepted", "failed"}

VARIABLES
  status,      \* resume_outbox.status
  attempts,    \* resume_outbox.attempts
  expired,     \* processing rows whose lease_until has passed
  batch,       \* batch[w]: claimed rows w has not finished with
  post,        \* post[w]: the POST for the first row of w's batch
  dispatched,  \* dispatched[i]: POSTs sent for row i
  late,        \* late[i]: POSTs on their way that no worker waits for
  executions,  \* executions[i]: times the receiver acted on row i
  authorized,  \* authorized[i]: retries the operator authorized
  hasty        \* hasty[i]: those authorized while an attempt was under way

rowVars == <<status, attempts, expired>>
workerVars == <<batch, post>>
remoteVars == <<dispatched, late, executions>>
operatorVars == <<authorized, hasty>>
vars == <<rowVars, workerVars, remoteVars, operatorVars>>

Init ==
  /\ status = [i \in Row |-> "none"]
  /\ attempts = [i \in Row |-> 0]
  /\ expired = {}
  /\ batch = [w \in Worker |-> {}]
  /\ post = [w \in Worker |-> "none"]
  /\ dispatched = [i \in Row |-> 0]
  /\ late = [i \in Row |-> 0]
  /\ executions = [i \in Row |-> 0]
  /\ authorized = [i \in Row |-> 0]
  /\ hasty = [i \in Row |-> 0]

-----------------------------------------------------------------------------
(* The Gateway.                                                            *)

\* Store.resolve finalizes the next request with a webhook.
Enqueue(i) ==
  /\ status[i] = "none"
  /\ \A j \in Row : j < i => status[j] # "none"
  /\ status' = [status EXCEPT ![i] = "pending"]
  /\ UNCHANGED <<attempts, expired, workerVars, remoteVars, operatorVars>>

\* The lease of a claimed row passes its lease_until.
LeaseExpires(i) ==
  /\ status[i] = "processing"
  /\ i \notin expired
  /\ expired' = expired \cup {i}
  /\ UNCHANGED <<status, attempts, workerVars, remoteVars, operatorVars>>

\* SET lease_until=NULL, or a new lease.
Released(rows) == expired \ rows

\* Mutation: an abandoned attempt may be claimed again.
AvailableAgain(wanted) ==
  {i \in wanted : status[i] = "pending" \/ i \in expired}

\* The rows a claim may take.
Available(wanted) == {i \in wanted : status[i] = "pending"}

\* ORDER BY created_at LIMIT n
Oldest(rows, n) == {i \in rows : Cardinality({j \in rows : j < i}) < n}

\* The row of its batch a worker deals with: it goes through them in order.
First(rows) == CHOOSE i \in rows : \A j \in rows : i <= j
Current(w) == First(batch[w])

\* Mutation: expired leases are left alone.
SweptNone == {}

\* The processing rows whose lease is over when a claim looks.
Swept == {i \in expired : status[i] = "processing"}

\* Store.claim_resume_outbox: first every expired attempt becomes uncertain,
\* then pending rows are claimed, all in one transaction.
Claim(w, wanted, limit) ==
  LET swept == Swept
      mine == Oldest(Available(wanted), limit)
  IN  /\ batch[w] = {}
      /\ swept # {} \/ mine # {}
      /\ status' = [i \in Row |-> IF i \in mine THEN "processing"
                                  ELSE IF i \in swept THEN "uncertain"
                                  ELSE status[i]]
      /\ attempts' = [i \in Row |-> IF i \in mine THEN attempts[i] + 1
                                    ELSE attempts[i]]
      /\ expired' = Released(swept \cup mine)
      /\ batch' = [batch EXCEPT ![w] = mine]
      /\ UNCHANGED <<post, remoteVars, operatorVars>>

\* _resume_outbox_loop takes whatever is due.
ClaimBatch(w) == Claim(w, Row, BatchLimit)

\* _drain_resume_outbox_request takes one row, after a finalized answer.
ClaimOne(w, i) == status[i] # "none" /\ Claim(w, {i}, 1)

\* _process_resume_outbox_request: the POST goes out, without a look at the
\* outbox row.
Dispatch(w) ==
  /\ batch[w] # {}
  /\ post[w] = "none"
  /\ post' = [post EXCEPT ![w] = "travelling"]
  /\ dispatched' = [dispatched EXCEPT ![Current(w)] = @ + 1]
  /\ UNCHANGED <<rowVars, batch, late, executions, operatorVars>>

\* Mutation: the outcome is written whatever has become of the row.
RecordsAlways(i) == TRUE

\* WHERE request_id=? AND status='processing'
Records(i) == status[i] = "processing"

\* Mutation: a failed POST frees the row for another try.
OutcomeRetried(reply) ==
  IF reply \in {"confirmed", "accepted"} THEN "done" ELSE "pending"

\* complete_resume_outbox for every 2xx, confirmed or not;
\* mark_resume_outbox_uncertain for a transport error or any other status.
Outcome(reply) ==
  IF reply \in {"confirmed", "accepted"} THEN "done" ELSE "uncertain"

\* The worker stores the outcome of the first row of its batch and goes on.
Record(w) ==
  LET i == Current(w)
  IN  /\ post[w] \in {"confirmed", "accepted", "failed"}
      /\ IF Records(i)
         THEN /\ status' = [status EXCEPT ![i] = Outcome(post[w])]
              /\ expired' = Released({i})
         ELSE UNCHANGED <<status, expired>>
      /\ batch' = [batch EXCEPT ![w] = @ \ {i}]
      /\ post' = [post EXCEPT ![w] = "none"]
      /\ UNCHANGED <<attempts, remoteVars, operatorVars>>

\* The worker drops its batch: the process dies, the task is cancelled at
\* shutdown, or the loop's except clause catches a failing store call.
Abandon(w) ==
  /\ batch[w] # {}
  /\ batch' = [batch EXCEPT ![w] = {}]
  /\ post' = [post EXCEPT ![w] = "none"]
  /\ late' = IF post[w] = "travelling"
             THEN [late EXCEPT ![Current(w)] = @ + 1] ELSE late
  /\ UNCHANGED <<rowVars, dispatched, executions, operatorVars>>

-----------------------------------------------------------------------------
(* The receiver and the network.                                           *)

\* The receiver acts on a POST whose sender still waits.
Execute(w) ==
  /\ post[w] = "travelling"
  /\ post' = [post EXCEPT ![w] = "handled"]
  /\ executions' = [executions EXCEPT ![Current(w)] = @ + 1]
  /\ UNCHANGED <<rowVars, batch, dispatched, late, operatorVars>>

\* resume() returns.  The receiver confirms, accepts without a receipt or
\* rejects what it acted on, or its answer is lost.
Reply(w, reply) ==
  /\ post[w] = "handled"
  /\ post' = [post EXCEPT ![w] = reply]
  /\ UNCHANGED <<rowVars, batch, remoteVars, operatorVars>>

\* resume() returns with a POST that was queued (a 2xx without a receipt),
\* refused or timed out: the receiver may still act on it.
ReplyEarly(w, reply) ==
  /\ post[w] = "travelling"
  /\ post' = [post EXCEPT ![w] = reply]
  /\ late' = [late EXCEPT ![Current(w)] = @ + 1]
  /\ UNCHANGED <<rowVars, batch, dispatched, executions, operatorVars>>

\* The receiver acts on a POST nobody waits for.
ExecuteLate(i) ==
  /\ late[i] > 0
  /\ late' = [late EXCEPT ![i] = @ - 1]
  /\ executions' = [executions EXCEPT ![i] = @ + 1]
  /\ UNCHANGED <<rowVars, workerVars, dispatched, operatorVars>>

\* A POST is lost or was refused.
Vanish(i) ==
  /\ late[i] > 0
  /\ late' = [late EXCEPT ![i] = @ - 1]
  /\ UNCHANGED <<rowVars, workerVars, dispatched, executions, operatorVars>>

-----------------------------------------------------------------------------
(* The operator, who audits the receiver before answering.                 *)

\* Nothing that could still act on row i is under way.
Quiescent(i) ==
  /\ late[i] = 0
  /\ \A w \in Worker : i \notin batch[w]

\* Only uncertain rows can be reconciled.
Reconcilable(i) == status[i] = "uncertain"

\* reconcile_resume_outbox(disposition="executed")
ReconcileExecuted(i) ==
  /\ Reconcilable(i)
  /\ executions[i] > 0
  /\ status' = [status EXCEPT ![i] = "done"]
  /\ expired' = Released({i})
  /\ UNCHANGED <<attempts, workerVars, remoteVars, operatorVars>>

\* reconcile_resume_outbox(disposition="not_executed")
ReconcileNotExecuted(i) ==
  /\ Reconcilable(i)
  /\ executions[i] = 0
  /\ authorized[i] < MaxRetries
  /\ status' = [status EXCEPT ![i] = "pending"]
  /\ expired' = Released({i})
  /\ authorized' = [authorized EXCEPT ![i] = @ + 1]
  /\ hasty' = IF Quiescent(i) THEN hasty ELSE [hasty EXCEPT ![i] = @ + 1]
  /\ UNCHANGED <<attempts, workerVars, remoteVars>>

-----------------------------------------------------------------------------
Next ==
  \/ \E i \in Row : Enqueue(i)
  \/ \E i \in Row : LeaseExpires(i)
  \/ \E w \in Loop : ClaimBatch(w)
  \/ \E w \in Worker \ Loop, i \in Row : ClaimOne(w, i)
  \/ \E w \in Worker : Dispatch(w)
  \/ \E w \in Worker : Record(w)
  \/ \E w \in Worker : Abandon(w)
  \/ \E w \in Worker : Execute(w)
  \/ \E w \in Worker, reply \in {"confirmed", "accepted", "failed"} : Reply(w, reply)
  \/ \E w \in Worker, reply \in {"accepted", "failed"} : ReplyEarly(w, reply)
  \/ \E i \in Row : ExecuteLate(i)
  \/ \E i \in Row : Vanish(i)
  \/ \E i \in Row : ReconcileExecuted(i)
  \/ \E i \in Row : ReconcileNotExecuted(i)

Spec == Init /\ [][Next]_vars

\* Loops poll for ever, httpx gives up after its timeout, clocks advance.
\* Nothing obliges receiver, network or operator to act, or a handler to run.
Fairness ==
  /\ \A w \in Loop : WF_vars(ClaimBatch(w))
  /\ \A w \in Worker : /\ WF_vars(Dispatch(w))
                       /\ WF_vars(Reply(w, "failed") \/ ReplyEarly(w, "failed"))
                       /\ WF_vars(Record(w))
  /\ \A i \in Row : WF_vars(LeaseExpires(i))

FairSpec == Spec /\ Fairness

-----------------------------------------------------------------------------
(* Properties.                                                             *)

\* Columns have their types, a POST belongs to a claimed row, and only
\* processing rows have a lease.
TypeOK ==
  /\ status \in [Row -> RowStatus]
  /\ attempts \in [Row -> Nat]
  /\ expired \subseteq {i \in Row : status[i] = "processing"}
  /\ batch \in [Worker -> SUBSET Row]
  /\ post \in [Worker -> PostState]
  /\ \A w \in Worker : post[w] # "none" => batch[w] # {}
  /\ dispatched \in [Row -> Nat]
  /\ late \in [Row -> Nat]
  /\ executions \in [Row -> Nat]
  /\ authorized \in [Row -> 0..MaxRetries]
  /\ hasty \in [Row -> Nat] /\ \A i \in Row : hasty[i] <= authorized[i]

\* One automatic attempt per finalized boundary and one more for each retry
\* the operator authorized: sweeps, crashes, slow workers and claims that race
\* never add to it.
AttemptsAuthorized ==
  \A i \in Row :
    attempts[i] = authorized[i] + (IF status[i] \in {"none", "pending"} THEN 0 ELSE 1)

\* The receiver acts on a boundary at most once, and once more for each retry
\* the operator, who saw no effect yet, allowed while an attempt was still
\* under way.  With an operator who waits for quiescence it is once for good,
\* whatever is lost, late, swept or abandoned.
NoAutomaticReplay == \A i \in Row : executions[i] <= 1 + hasty[i]

\* w will post, or has posted and neither heard from it nor given it up, for
\* row i: an attempt that may still become an execution.
Carries(w, i) ==
  i \in batch[w] /\ (i = Current(w) => post[w] \in {"none", "travelling"})

Carriers(i) == {w \in Worker : Carries(w, i)}

StageOf(s) ==
  CASE s = "none" -> "none"
    [] s = "pending" -> "owed"
    [] s = "processing" -> "attempted"
    [] s = "done" -> "delivered"
    [] s = "uncertain" -> "uncertain"

D == INSTANCE Delivery WITH
       Intent <- Row,
       stage <- [i \in Row |-> StageOf(status[i])],
       live <- [i \in Row |-> late[i] + Cardinality(Carriers(i))],
       sent <- {i \in Row : dispatched[i] > 0},
       effects <- executions

\* Receivers and operators need not know of workers, leases and POSTs: a claim
\* is an attempt, a sweep gives attempts up, a crash lets what was not sent
\* lapse, and an outcome that comes late concludes nothing that is settled.
ImplementsDelivery == D!DSpec

\* Every resume intent is delivered or put before the operator, as long as
\* workers poll: no crash, lost answer or expired lease strands it.
Settles ==
  \A i \in Row :
    status[i] \in {"pending", "processing"} ~> status[i] \in {"done", "uncertain"}
=============================================================================
