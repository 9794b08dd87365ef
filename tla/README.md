# Verification of human:// (HumanQueue)

human:// is a gateway between agents and people.  An agent that needs a human raises a
*request*; the gateway stores it in SQLite, shows it in chat channels and a web queue, collects
claims and votes, and when enough eligible people agree it stores one canonical *resolution* and
resumes the machine that asked.  Several gateway processes may share one database, each with its
own HTTP handlers and its own background loops.

This directory holds TLA+ models of that system, TLC configurations that check them on small
instances, and TLAPS proofs for instances of every size.  `PROJECT.json` maps every definition to
the lines it was written from.

## 1. Inventory

| part | source | state | operations | what makes it correct |
|---|---|---|---|---|
| Request store | `app/store.py`, `app/models.py` | tables `requests`, `votes`, `events` | `create_with_status`, `claim`, `resolve`, `apply_machine_outcome` | one request per idempotency key; one open tip per worldline; resolutions backed by the votes the route asks for; one terminal transition; intents written with the state they belong to |
| Resume outbox | `app/store.py:545-834`, `app/main.py:140-235`, `app/resume.py` | table `resume_outbox`, a worker's batch, POSTs in transit | claim with sweep, POST, complete, mark uncertain, reconcile | no automatic replay of a possibly executed action; no stranded intent; only the operator ends uncertainty |
| Channel outbox | `app/store.py:845-937`, `app/main.py:76-137`, `humanqueue/channels/webhook.py` | table `channel_outbox` with leases, a worker's batch | claim under lease, look, publish, audit, complete, retry | every request is published or skipped in the end, with evidence for every channel; a replay has a cause |
| Gateway handlers | `app/main.py:290-656` | what a handler has read and not yet written or answered | create, claim, resolve, channel callback, outcome, batch | what a caller is told fits the row; only the winner resumes the machine |
| Client SDK | `humanqueue/client.py` | one ask: attempts, key, polling | ask, wait | an ambiguous create is retried under one key; the answer returned is the canonical one |
| Attention budget | `app/scoring.py`, `app/store.py:121-219` | table `budgets`, `surface_mode` and `created_at` of requests | score, count the sliding hour, choose a surface, set the policy | refusable interrupts stay within the hourly limit |
| Runtime connectors | `humanqueue/connectors/`, `humanqueue/assets/`, `app/adapters.py` | a hook's event, its wait, what it told its runtime | translate an event into keys, ask, allow or deny or stay silent | a tool is released only by the decision about it; a missing native identity never dedupes or supersedes |
| `humanq prove codex` | `humanqueue/cli.py:380-592` | the captured boundary and what was read of the event log | watch one boundary from request to execution | a verified receipt has an approval and an execution behind it |
| Local files | `humanqueue/config.py`, `humanqueue/connectors/codex.py`, `humanqueue/cli.py` | `config.json`, `hooks.json`, its backup copy, the hashes Codex trusts | onboard, token, channel, connect, disconnect, trust | no lost configuration change, no lost foreign handler, no false report of trust |
| Chat channels | `humanqueue/channels/slack.py`, `telegram.py` | cards and their buttons, the Telegram offset | publish, button press, poll | no press is skipped; buttons only go when a vote counts |
| Presence and connector registries | `app/presence_registry.py`, `app/connector_registry.py`, `app/context_enrichment.py` | rows per source and session, an event log | record an event, show a session, enrich a request | a session shows its newest event; a request carries the context of its turn |
| Backup | `app/sqlite_utils.py` | a temporary file and a destination | copy, check, publish | what is published passed its check; no existing file replaced silently |
| Event stream, metrics, sandbox, frontier | `app/store.py`, `app/main.py` | none of their own | reports | - |
| Humanize, auth, MCP, web page | `app/humanize.py`, ... | none | translation | - |

How they interact.  Handlers and loops call `Store`; every write method of `Store` is one
`BEGIN IMMEDIATE` transaction, so transactions of all processes are serialised by SQLite, and
everything between two transactions interleaves.  `create_with_status` writes the request together
with its `channel_outbox` row; `resolve` writes the resolution together with its `resume_outbox`
row.  Loops and handlers then drain those rows: they claim in one transaction, talk to the outside
world without a lock, and record the result in another transaction.  A creation handler schedules
the drain of its own row, a resolving handler drains the row of the request it finalized.

What is hard.  Handlers decide on reads made before their transaction; leases of 30 seconds cover
batches of 16 rows that may take 10 seconds each; a POST may be acted on although its sender saw a
failure; a worker may die between any two steps; `claimed` means both "somebody owns it" and "a
vote waits for a quorum"; a batch is read once and resolved item by item.  `PROJECT.json` lists
these as hazards at the lines where they bite.

## 2. Modules

    Boundary <--refines-- RequestStore
    RequestStore <--EXTENDS-- Gateway <--EXTENDS-- ChannelCards
                          <-- ClientAsk
                          <-- NativeHook <-- CodexProof
                          <-- AttentionBudget
    Delivery <--refines-- ResumeOutbox          what becomes of the store's two intents
    Publication <--refines-- ChannelOutbox
    LocalFiles <-- CodexTrust         the files of the command line
    SessionRegistry <-- DatabaseBackup
    RequestStoreProofs <-- GatewayProofs (ChannelCards), RequestCreationProofs (ClientAsk,
                           AttentionBudget), NativeHookProofs (CodexProof)
    ResumeOutboxProofs, ChannelOutboxProofs, CodexTrustProofs, DatabaseBackupProofs
                                      EXTEND the module of their name
    MC<module> EXTENDS <module> for TLC

Modules that extend another one take its actions as they are, so that a step of a handler, a client
or a hook that commits something *is* a step of the store (`HandlersUseTheStore` and its likes
prove it), and every theorem about the store holds of them.

**Boundary** is what the machine that asked may rely on: a boundary opens once, closes once as
answered, withdrawn or replaced, carries an answer only if it was answered, and incurs a resume
obligation only in the answering step.  It knows no votes, claims, routes or keys.

**RequestStore** models `Store`.  A variable is a column (`status`, `claimedBy`, `supersededBy`,
`resolution`), a table (`votes`, `channelOutbox`, `resumeOutbox`) or the lifecycle part of the
events table (`audit`).  One action per outcome of a transaction: `Create` / `CreateRepeated`
(`create_with_status` inserts, with supersession, or returns the stored row), `Claim`, `Finalize` /
`AwaitQuorum` (`resolve` with and without the needed votes), `MachineOutcome`, and `Late` (the
transaction finds the request closed, or claimed for a claim, and writes nothing).  Request ids are
random in the code; id *i* is the *i*-th insert here, so that "newer" can be said.  A decision
stands for a fingerprint of action and values.  When a resolution is finalized the leader of the
count is taken nondeterministically among decisions that no other one beats, as `most_common` may.

**Delivery** is what operators and receivers may rely on when a decision is delivered: an intent is
attempted once each time it is owed, an attempt that is live takes effect once at most, at any later
time, and an attempt that was given up or failed leaves the intent uncertain until an operator who
has looked at the effects confirms it or owes it again.  It knows no workers, batches, leases or
POSTs.

**ResumeOutbox** models the delivery of resume intents.  Time is abstract: `LeaseExpires` may
happen at any moment after a claim, also while the worker is alive, because a batch may take longer
than its lease.  `Claim` is the whole transaction, the sweep of expired attempts to `uncertain`
included.  A worker posts without looking at the row (`Dispatch`), the receiver may act before,
after or without the sender noticing (`Execute`, `Reply`, `ReplyEarly`, `ExecuteLate`, `Vanish`),
and `Record` writes the outcome only if the row is still `processing`.  `ReconcileExecuted` and
`ReconcileNotExecuted` are an operator who tells the truth about what the receiver has done *so
far*; `hasty` counts the retries such an operator allowed while an earlier attempt could still act.
`ClaimOne` lets a handler drain any row at any time, which is more often than the code does.  The
`failed` status is left out: it needs a resolved request without a webhook URL, which has no row.

**Publication** is what people may rely on when they are told of a request: it is shown in a channel
once and once more per mishap, a delivery is recorded only of what was shown, and the request is
handled only when every channel has a verdict or it was withdrawn.  Only a request whose publication
has outlived its lease may be shown more often and be owed again.

**ChannelOutbox** models publication: claim under a lease, `Look` at the request, `Publish` channel
by channel, `RecordAnswer` channel by channel, then `Complete`, or `Retry` after an exception.
`Complete` and `Retry` write whatever the row has become, as the code does.  A message may be shown
although its answer says otherwise.  `faults` and `overrun` are histories: which tries were hit by
a crash or an exception, which rows outlived a lease under a live worker.

**Gateway** composes the handlers with the transactions of `RequestStore`.  A handler serves one
call: `Check` is the read before the transaction, `CommitAnswer`, `CommitOutcome`, `CommitItem` are
the transaction together with what the handler makes of the row it gets back, `ResumeAndRecord` is
the resume, `Crash` may come between any two.  `reply` is what the caller hears.

**ClientAsk** is the blocking ask of the Python SDK, as the runtime hooks use it, over the store's
transactions.  `Send` posts under the key of the ask (`KeyOf`: the given one, or one generated once
for all attempts); the Gateway may handle the POST the client waits for (`Serve`) or one it has
given up (`ServeLate`); `AttemptFails` is a transport error or a 5xx, before or after the commit;
`Poll` and `GiveUp` are the end of `wait`.  A poll that is answered with an HTTP error raises,
though the request lives on: the code retries transport failures only.  `Others` are all other
callers of the Gateway.

**NativeHook** is the permission hook of Codex, Claude Code, Cursor and OpenCode and the import
adapters, over the store.  `Keys` derives the idempotency and supersession keys from an event in the
way of each runtime (`CodexRef`, `ClaudeRef`, `CursorRef`, `OpenCodeRef`, `Stable`); hashes are the
tuples they are taken of.  `AskHuman` is a create that was heard, `AskFails` one that was not, committed
or not; `HearAnswer` and `WaitFails` are the ends of the wait, and `NativeAnswer` and `Fallback` what
the runtime is told.  `raisedBy`
remembers for which event a request was made.

**CodexProof** adds the reports of Codex' observers, lost, late or in another order (`Observe`,
`ArriveLate`), the execution of tool calls (`Run`, `RunUnasked`), and the loop of `prove` with its
reads in the order of the code: baseline, candidate, capture, boundary, resolution, evidence.

**LocalFiles** runs three commands at once.  Each reads, computes and writes in separate steps, and
opening a file for writing empties it, which holds of the backup copy too (`KeepCopy` opens it,
`CopyHooks` fills it); two writers leave a mixture (`Torn`); the process may die (`Die`), and the
owner may edit the file (`OwnerEdits`), between any two steps.  `load_config` reads an unreadable
file as {}, the installer refuses one.  **CodexTrust** adds the trust command and Codex' own bookkeeping: a hash for the place
of every handler.

**ChannelCards** composes the Telegram poller and the Slack worker with the handlers of Gateway: a
press is served by a handler which the worker may stop waiting for after four seconds.  `served`
remembers which handlers were given the presses of which chat.

**SessionRegistry** numbers the turns of one session.  A report is handled in three transactions
(event and session row, source, presence row), which other handlers and a crash may separate;
`CreateRequest` and `CreateLate` are requests that take the session's context with them, in time or
after their hook has given up.  `SessionContext` is what `enrich_with_session_context` takes of the
row: its status, turn, prompt and answer, and not the tool call, which the request brings itself.
**DatabaseBackup** lets two backups copy that database, step by step, while the owner of the
destination puts files there and the disk of the Gateway may fail.

**AttentionBudget** decides the surface in the creating transaction of the store: the priority with
its deadline pressure, the count over the last hour, the policy in force.  Hours pass at any moment,
and `created_at` may lie before the transaction.

The `MC` modules hold model values and the sets of payloads, routes and calls that TLC tries.

## 3. What the runs check

| run | question | instance and why it is enough |
|---|---|---|
| QuorumVoting | every interleaving of claims, votes, changed votes, machine answers and outcomes: votes back resolutions, a reached quorum does not wait, ownership and quorum progress share `claimed` without confusion; and creations stay within the interrupt budget | 3 actors, 2 decisions, one request in every way for all routes (every mode, listed and open, a repeated name, human-only and any kind): requests share nothing but keys, and 3 actors with 2 decisions make ties, splits and changed majorities. For the budget 3 requests, 2 hours, limits 2 and 1: one more creation than the limit, a slide of the window in between, and a policy set in between. `Bound` keeps the two questions apart |
| Worldlines | requests that share sources and keys: tips, idempotency, exact intents, one terminal event, and the refinement of Boundary | 3 requests, 2 sources, 1 key used as both kinds of key, 2 actors. 3 requests allow a chain of supersessions and a retry of a superseded one |
| ResumeDelivery | attempts and executions stay within what the operator authorized; the refinement of Delivery; every intent is settled (liveness) | 1 loop, 1 handler, 2 rows in one batch, 1 retry per row: a slow worker in the middle of a batch, the sweep, the retry and the second attempt |
| ChannelDelivery | a row is shared only after an overrun, closed only with evidence for every channel, and closed in the end (liveness); the refinement of Publication, with which a row is told again only after an overrun or a fault | loop and handler, 1 row, 2 channels (a publisher may raise between them), 2 faults. Rows of one batch are handled one after the other; the theorems of `ChannelOutboxProofs` cover batches of any size |
| GatewayCalls | what callers are told, across races and crashes; who resumes; no resolution without somebody who resumes it | 4 calls of any kind over 2 requests. Most races need a creation and two rivals; the fourth call lets a third party close the request |
| ClientAsks | one obligation per ask, the canonical answer only, and no ask left hanging (liveness), over a network that loses, delays and duplicates | 2 asks of one worldline, one with a generated key and one with a key other agents use too, 2 POSTs each (3 in the code; the second try already meets every outcome of the first), 2 requests |
| NativeHooks | events without identity share nothing; a tool is released by its own decision; only its own turn is replaced | 2 hooks, 2 requests, 30 events: all runtimes with and without session, turn and call, the same call twice, another call, another input, another session. Each property relates two events, so two hooks suffice |
| CodexProofs | a verified receipt has its approval and its execution | 2 tool calls of one session: the probed one and a rival of the same turn and tool, of another tool, of another turn, or without a turn |
| LocalCommands | what sequential use, foreign handlers, the backup copy (itself made in two steps) and a reported trust may be relied on for | 3 commands of any kind, 2 runtimes, 2 channels, 1 foreign handler. Two commands race, the third shows what they left behind |
| ChannelPresses | no press confirmed before it was tried; a card without buttons was pressed in its own chat and the press counts | 2 presses, 4 calls on 1 request, 2 routes (open to anybody, and two named actors who must agree): a creation, two presses (in Telegram, in Slack, or the same one again) and a rival. One answer ends the open route and only waits in the other, which are the two kinds of success a worker can hear |
| SharedDatabase | what requests, the presence list and backups show of a session whose reports are lost, late, overtaken or cut off | 2 turns, 4 lifecycle events, 2 backups. Beside a running backup only the first event (`Bound`): the copy is of one moment, so one event before and after it make the difference |

One run is expected to fail, with one finding: **GatewayBatchRace**.  `resolve_batch` drops the flag
of `Store.resolve` and resumes what somebody else finalized (`app/store.py:467`,
`app/main.py:510`), while `app/store.py:304` says that callers use the flag to decide whether to
resume.  For a webhook the second resume drains an outbox row that is already claimed or done, so the
receiver is not called twice (NoAutomaticReplay); for a native request it records a second
`resume_not_applicable` event.

Other places where the code and its documents differ, which the models reproduce and no run singles
out:

* every attempt without a 2xx answer becomes `uncertain` (`app/main.py:189`), where
  `docs/protocol.md:146` has "explicit transport failure -> failed";
* a batch worker slower than its lease posts a row that was swept, reconciled and claimed again
  (`app/main.py:231`), and two live workers may publish one row after an overrun
  (`app/store.py:858`), against the unconditional sentences of `CLAIMS.md:16` and `:22`; `hasty` and
  `overrun` are these cases in AttemptsAuthorized, NoAutomaticReplay and ReplayHasCause, and `exposed` in Publication;
* a channel callback that loses inside the transaction hears 200 `waiting_for_quorum`
  (`app/main.py:323`), where `docs/connectors.md:237` says it rejects resolved requests; so
  WaitingMeansVoted speaks of `resolve_request` only;
* the OpenCode plugin makes keys of fallback labels when an id is missing, against
  `docs/protocol.md:309`; `Guarded` leaves these events out of the properties of NativeHook, and
  `aliased` those of Cursor whose ids come under their other names;
* the Telegram keyboard is removed on every 200, also for a vote that finishes nothing
  (`docs/connectors.md:262`: after a successful resolution), and no worker marks superseded cards
  read-only (`docs/connectors.md:271`);
* `PostToolUse` of another call of the same turn and tool is taken as evidence
  (`humanqueue/cli.py:380`, `docs/connectors.md:102`); ReceiptIsSound allows this substitution only;
* the copy of hooks.json is no safe point by itself: an install killed inside `shutil.copy2`
  (`humanqueue/connectors/codex.py:203`) leaves an empty copy, which exists and is never made again,
  so that after a second killed install neither file is readable; and a copy made before the owner
  added handlers holds none of them.  No document promises more.  BackupRecovers excepts the first
  (`uncopied`) and says of the second exactly what the copy holds;
* a file that comes between the second look and `os.replace` is lost (`app/sqlite_utils.py:132`),
  against `docs/self-host.md:61`; KeepsWhatWasThere excepts it by `late`.

Bounds.  `MaxRequests` bounds the ids; `MaxRetries` the retries an operator allows for a row;
`MaxFaults` the crashes and exceptions per channel row; `Handler`, `Hook`, `Process` and `Backup` the
calls, hooks, commands and backups of one behaviour; `Rows`, `Channels` and `BatchLimit` the outbox
instances (the code claims 16); `Attempts` the POSTs of an ask; `MaxPresses`, `MaxTurn`, `MaxEvents`
and `MaxClock` what their names say; `Rewritten` the changes of a file that are told apart.  Symmetry
is used for handlers, hooks, commands and backups, which no property tells apart, and never with
liveness.

Deadlock.  All runs but QuorumVoting and Worldlines may stop when the bounded work is done
(`CHECK_DEADLOCK FALSE`).

Histories.  `hasty`, `overrun`, `faults`, `raced`, `alone`, `expected`, `theirs`, `saved`,
`served`, `rewrites`, `late` and `history` record what has happened, for properties that must say "unless"; no action of the code
reads them.

### Fairness

`ResumeOutbox!FairSpec`: the loop polls for ever (`_resume_outbox_loop` catches every exception), so
its claim, dispatch and record are weakly fair; an attempt ends because httpx has a timeout of 10
seconds, so *failing* is weakly fair, while success is not assumed; leases run out because clocks
advance.  Nothing is assumed of the receiver, the network, the operator, or of handlers that might
claim.  Workers may be abandoned without bound, since a resume attempt is never retried by itself.

`ChannelOutbox!FairSpec`: the same for the channel loop, the steps of a worker, leases and
`available_at`.  Without a bound on crashes and exceptions a row may be retried for ever, which is
what the code does; the theorem is that finitely many faults are survived.

`ClientAsk!FairCSpec`: an attempt ends because httpx has a timeout, a retry follows its pause, and
polls get through in the end.  Nobody has to answer, and no caller has to give up.

## 4. What is proved

`RequestStoreProofs` proves for every finite set of actors, every set of decisions, sources, keys
and payloads, and every number of requests, from the three assumptions of `RequestStore` (payloads
are well typed and pass `validate_quorum`; the sets are finite; the null values are no data):

* `TypeCorrect`: `Spec => []TypeOK`.  The part about `issued` carries the others: a row is absent
  exactly if its id has not been handed out.
* `CountedOnce`: no actor has two votes on a request (the upsert removes the old one).
* `NeverLeftWaiting` and `ResolutionsAreBacked`.  Neither is inductive alone.  The invariant used
  for both is TypeOK, OneVoteEach, *every stored vote was admitted by the route* (`BallotsAdmitted`),
  NoQuorumLeftWaiting, and ResolutionBacked.  The arithmetic rests on one lemma about upserts: with
  one vote per actor a new answer raises the count of its own decision by at most one and of no
  other.  Hence, when the transaction reaches the required number, it reaches it exactly, only for
  the caller's decision, and the caller's vote is in it, so the leader is that decision.
* `OnlyTheTipIsOpen` and `SupersessionIsForward`: a creation takes the largest id and closes every
  open request of its worldline in the same step; ids and payloads of inserted rows never change.
  The two lemmas `CreateRows` (a creation inserts one new row and changes only what it replaces)
  and `OtherSteps` (every other step keeps the insert's columns) carry these and the next ones.
* `RetriesAreIdempotent` (OneRequestPerKey): the lookup sees rows of every status, so no creation
  adds a second row under a key, and no other step changes a key.
* `IntentsAreExact` (IntentsMatchRequests): inductive row by row, since no closed row is ever
  resolved and no step but the two transactions touches an intent.
* `OneTerminalTransition` (OneTerminalEvent): the log of an open or absent row holds no closing
  event, the closing step appends its own, and what follows it (`resume_enqueued`) is none.
* `ClaimsAreExplained` (ClaimedMeansOwnedOrVoted) and `OwnersStay` (OwnerNeverReplaced): the
  invariant `Ownership` adds that rows not yet inserted have neither owner nor votes, without which
  a fresh pending row could not be shown unowned.
* `ClosedIsForGood` (TerminalIsFrozen): every action that writes a row requires it to be open.
* `StoreImplementsBoundary`: creation maps to Open, the finalizing vote to Answer, a machine outcome
  to Withdraw, and claims and waiting votes to stuttering.

The other proof modules have no bound on workers, rows, channels, handlers, hooks or creations
either.

**ResumeOutboxProofs.**  `OutboxTypeCorrect`; `AttemptsAreAuthorized` (attempts are added by claims
of pending rows only, and a row becomes pending again by the operator only); `NeverReplayed` from
the invariant `EffectsBounded`: what the receiver did, what it may still do with a late POST, and the
workers that still *carry* the row (it is in their batch, or its POST is open) together are at most
one more than the operator hastily allowed.  The property alone is not inductive, because a worker
that was overrun still holds the row.  `OutboxImplementsDelivery`: the stage of an intent is its
status, and its live attempts are its late POSTs together with the workers that carry it, so that a
claim attempts what it takes and gives up what it sweeps, a crash lets a whole batch lapse but for
the POST under way, and an outcome concludes an attempt or, when the row was settled meanwhile,
nothing.  It needs `SentInv` (what is waited for, or late, was sent), since an outcome or an effect
may only follow a POST, and the lemmas that count `Carriers`.

**ChannelOutboxProofs.**  `ChannelTypeCorrect`; `LeasesAreExclusive` from `HeldIsLeased` (a row that
was never overrun and is held has a running lease and one holder); `ReplaysHaveCause` from
`ToldBounded` (a channel was told at most as often as there were faults, and once more if the row is
done or its one holder has told it); `DoneRowsAreAccounted` from `AuditTrue` (every holder has an
audit row or a pending answer for every channel it went past).  `OutboxImplementsPublication` puts
these together: claims and looks are stuttering, since only rows that are owed are claimed;
`HeldIsLeased` makes a late `Retry` or `Complete` of a row that is not exposed impossible,
`ToldBounded` is the guard of Show, and what `AuditTrue` says of a worker that completes is that the
row is settled.  ReplayHasCause and LeaseIsExclusive say parts of it that a reader may want apart;
ReplayHasCause is proved and not run, since the refinement that is run implies it.

**GatewayProofs.**  `HandlersUseTheStore`: the handlers take steps of the store only.
`AnswersFitTheRow`, `RefusalsAreTrue`, `WinnersResume`, `ResolutionsAreResumed` and
`WaitingHasAVote` rest on what a step of the store leaves of a row (`RowGoesOn`: closed rows and
owners stay, votes are replaced only by votes of the same actor), on `Honest` (what each handler said
is true of its row, and its conduct: no answer before the commit, no resume before the answer except
what a batch collects), on `Sole` (one finalizer) and on ResumeOwed itself.  `Sole` needs `Honest`:
who finalizes finds an open row, and an earlier finalizer's row is resolved.  A handler that died
with a resume to do counts as owing it: what is delivered then is the row of the outbox
(IntentsMatchRequests, Settles).

Of the chats, `ChatsUseTheHandlers`: they take steps of the handlers only, and therefore, with
`StoreImplementsBoundary`, `ChatsKeepTheBoundary`: whatever presses, workers, handlers and crashes
do, the machine that asked sees Boundary.  `PressesAreTried` from `InOrder`: the batch in the worker's hands starts right after the higher of
what Telegram has forgotten and what the worker remembers, and everything up to there has been tried
but the one press that is being posted.  NoPressSkipped alone says nothing of the next poll, which
forgets what the worker's memory holds.  `ButtonsStandForVotes` from `Serves` (whoever is waited for
serves a press, and was given it in the chat of the worker that waits) and `Cards`, with `Honest`
and ResolutionBacked: status 200 is told of a vote in a quorum or of a resolution, which has the
finalizer's vote in it; a vote stays with its actor, and what a handler has answered, with success,
stays answered.  Nothing is assumed of the presses but that they are calls of resolve.

**RequestCreationProofs.**  `ClientsUseTheStore`; `AsksRaiseOneObligation` and `AnswersAreCanonical`
from `Bookkeeping` (the requests a client's POSTs reached carry its payload; an answer is the resolution
of the request it is bound to) together with OneRequestPerKey.

`BudgetHolds` from `BudgetKept`: for *every* refusable interrupt of the last hour, not only the
newest, those up to it were within the limit in force when it came.  `BudgetAssumption` types the
policies.

**NativeHookProofs.**  `DecisionsReleaseTheirCall`, `TurnsAreReplacedApart` and
`UnidentifiedShareNothing` from `HookInv` (`Provenance`: a request has the payload of the event it
was raised by; `RequestFits`: a hook's request has its key or is its own; `ToldFits`) and from
`TipsFit` for supersession.  `KeysTellCallsApart` is the lemma about the keys themselves.  Its
assumption `IdentityAssumption` says what the ids of the runtimes mean: a turn is not called like a
tool call or like a label of the plugin, one call of OpenCode has one input, Cursor's hook is about
its shell only.  The module also holds `ReceiptsAreSound` about CodexProof, from `RanType` (what was
executed has an event, for good), `Reported` (every report of an execution in the log or on its way is
true) and `Watched` (what the command has seen of its request and of the log at each stage).

**CodexTrustProofs** is about LocalFiles and CodexTrust, for any number of commands, channels,
runtimes, foreign handlers and overlaps.  `LocalFilesInvariant` is the conjunction of five
invariants, and each property rests on one of them:

* `ForeignHandlersStay` on `HooksInv`: not only the file but every document a command holds to write
  it (`Holding`) has the owner's handlers in their order, so that whichever of several writers comes
  last changes nothing of them.  The property alone says nothing of memory.  The lemmas about `Kept`
  say what filtering a list does to its parts: `strip_humanq` of an installed document is
  `strip_humanq` of the original, and installing leaves one handler of humanq.
* `KilledInstallsRecover` on `BackupInv` with `AloneInv`: without overlap hooks.json is empty only
  while its one writer is at work or after it was killed, so what `CopyHooks` copies is readable and
  has the owner's handlers (`HooksInv`) as they are at that moment (`saved`).  From then on the copy
  rests, and before that the file has not been opened.  Where a kill fell inside the copy, nothing is
  claimed, there or later.
* `ConfigurationIsSequential` on `SequentialInv`: at each step a command's document and the file are
  what the commands before it left, as far as the command has come (`Progress`).  `expected` is the
  file of a user who runs the same commands one by one in the order they ended.
* `TrustIsOfTheRuntime` on `TrustInv`: what Codex told of the hook still holds while nobody has
  changed the file, and after one change the file is that of the command's own runtime, or the hash
  is; a written trust that is reported therefore took two changes to be of another runtime.

`FileAssumption` says that a missing, an empty and a torn file are three different things and no
documents.  `CommandAssumption` types the commands, and says that no handler is both foreign and of
humanq.

**DatabaseBackupProofs** is about SessionRegistry and DatabaseBackup, for any number of turns, events
and backups; a step of a backup leaves the session alone (`SessionSteps`).

* `CopiesAreOfOneMoment` (BackupsFitTheirLog) from `FilesInv`: row and log fit in the database, in
  every copy that is on its way and in the published file, and a copy past its check is intact.  The
  lemma `RecordFits` says that COALESCE of a row that fits its log fits the log with the event
  appended.  `HasNewest` is what it needs of a log: among the events that report a field there is a
  newest one.  It is kept in the invariant, where it would otherwise take an induction over the log.
* `RequestsCarryTheirTurn` (ContextOfItsTurn) from `OneReport` (a session whose reports were all
  waited for has the report of its newest event under way while its hook observes, and none else)
  and `RowInv`: the row then never runs ahead of the session nor, without losses, behind it, and it
  holds the last answer of an *earlier* turn while a turn is going on.
* `PresenceFollowsTheLog` (PresenceIsNewestReport) from `HandlerInv`: what is in a handler is on
  record, and without overlap it is one report and the newest.
* `DefaultBackupsKeepFiles` is the action property KeepsWhatWasThere, from `LookedInv`: past its
  second look a default-mode backup has an empty destination or one that was filled since.

TLC checked each property on the runs above before it was proved, and the inductive invariants of the
last two modules on the instances of LocalCommands and SharedDatabase.

Only model-checked: liveness (Settles, EventuallyHandled, AskConcludes), which under fairness is out of
reach of TLAPS, and with it ENABLED.  Every invariant and action property of a passing run is proved.
What keeps a proof out of reach elsewhere is induction over data: the library's folds and its
SelectSeq compute by recursion, of which the provers know nothing.  So the models select handlers of
a list by their places (`Nth`, `Selected`), and take the newest value of a field as that of the
greatest place (`Newest`); both are defined without recursion and mean the same.

## 5. What is not modelled

* Authentication, request validation, wording, metrics, policy reports, the MCP server, the web page
  and the JavaScript SDK: no state, or no state that others read.
* The event stream: a read-only poller over sequence numbers that are committed in order.
* `clear_all` and demo data delete tables; nothing is promised about requests across it.
* The scanners of `humanqueue/presence.py` poll their runtimes and post; `Posted` in SessionRegistry
  stands for what they post.  `doctor` and the listings of the command line only print.
* The adapter for GitHub has one supersession key per repository and environment, and fixed labels
  where these are missing (`app/adapters.py:108`); it is not among the runtimes of NativeHook.
* An empty idempotency key: the lookup is skipped but the unique index applies, so a second such
  request of a source fails with an integrity error and changes nothing.  Keys are non-empty here.
* The resume events of the log: `complete_resume_outbox` writes its event also if its update found
  the row swept; the row, on which retries are decided, is modelled.
* The baseline of `prove` holds the first 100 pending requests; pages are not modelled.
* Removing the Codex hooks makes no copy of the file; BackupRecovers speaks of installs.
* A deferred request is scored once, at its creation, and may never surface.
* SQLite itself: a transaction is atomic and durable.

## 6. What could come next

One specification of a decision's whole way, from the boundary through both outboxes, composed of
Boundary, Delivery and Publication; type correctness of the modules over the store as theorems; the
liveness of a press from a chat to its resolution; two sessions of one source in SessionRegistry.
