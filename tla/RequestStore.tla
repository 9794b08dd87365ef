---------------------------- MODULE RequestStore ----------------------------
(***************************************************************************)
(* The request tables of app/store.py: creation with idempotency and       *)
(* supersession, ownership claims, human resolutions with quorum voting,   *)
(* machine outcomes, and the two outbox intents written in the same        *)
(* transactions.  Every write method of Store runs in one SQLite write     *)
(* transaction (BEGIN IMMEDIATE), shared by all Gateway workers, so each   *)
(* is one action here and interleaves with the others freely.              *)
(*                                                                         *)
(* Abstractions.  Request ids are random in the code; here id i is the     *)
(* i-th request inserted, which is what "newer" means below.  A payload is *)
(* an Ask record with the fields the transactions branch on.  A decision   *)
(* is a fingerprint class: action and values, the comment left out, as in  *)
(* Store._fingerprint.  Of the events table, audit keeps the lifecycle     *)
(* events; vote and quorum_wait events repeat what votes holds.  The       *)
(* surface a request gets and the retention helper clear_all are not here. *)
(***************************************************************************)
EXTENDS Integers, Sequences, FiniteSets

CONSTANTS
  Actor,         \* names under which answers and claims are made
  Decision,      \* fingerprints of action and values
  Source,        \* runtimes that raise requests
  Key,           \* idempotency and supersession keys
  Ask,           \* payloads the runtimes may submit
  MaxRequests,   \* bound: requests created in one behaviour
  NoKey, NoAsk, NoResolution, Nobody

Id == 1..MaxRequests
ActorKind == {"human", "service"}  \* system and policy act like service
Active == {"pending", "claimed"}
Terminal == {"resolved", "expired", "cancelled", "superseded"}
Vote == [actor : Actor, decision : Decision, kind : ActorKind]
Resolution == [decision : Decision, actor : Actor, kind : ActorKind,
               voters : SUBSET Actor]

Route == [mode : {"single", "any_of", "quorum", "all_of"},
          actors : Seq(Actor), quorum : Nat \ {0}, kind : {"human", "any"}]

\* RoutePolicy.validate_quorum: what the API accepts as a route.
ValidRoute(r) ==
  /\ r.mode = "all_of" /\ r.actors # <<>> => r.quorum = Len(r.actors)
  /\ r.mode = "quorum" /\ r.actors # <<>> => r.quorum <= Len(r.actors)

\* webhook: resume.mode is "webhook" and a URL is given.
Payload == [source : Source, idem : Key \cup {NoKey}, tip : Key \cup {NoKey},
            route : Route, webhook : BOOLEAN]

ASSUME AskAssumption == /\ Ask \subseteq Payload
                        /\ \A a \in Ask : ValidRoute(a.route)
ASSUME FiniteAssumption == /\ IsFiniteSet(Actor) /\ MaxRequests \in Nat
ASSUME NullAssumption == /\ NoKey \notin Key
                         /\ Nobody \notin Actor
                         /\ NoResolution \notin Resolution

VARIABLES
  issued,         \* requests inserted so far
  ask,            \* requests.payload
  status,         \* requests.status, "absent" before the insert
  claimedBy,      \* requests.claimed_by
  supersededBy,   \* requests.superseded_by, 0 for NULL
  votes,          \* rows of the votes table
  resolution,     \* requests.resolution and resolved_by
  audit,          \* lifecycle rows of the events table, per request
  channelOutbox,  \* requests with a channel_outbox row
  resumeOutbox    \* requests with a resume_outbox row

vars == <<issued, ask, status, claimedBy, supersededBy, votes, resolution,
          audit, channelOutbox, resumeOutbox>>

Init ==
  /\ issued = 0
  /\ ask = [i \in Id |-> NoAsk]
  /\ status = [i \in Id |-> "absent"]
  /\ claimedBy = [i \in Id |-> Nobody]
  /\ supersededBy = [i \in Id |-> 0]
  /\ votes = [i \in Id |-> {}]
  /\ resolution = [i \in Id |-> NoResolution]
  /\ audit = [i \in Id |-> <<>>]
  /\ channelOutbox = {}
  /\ resumeOutbox = {}

-----------------------------------------------------------------------------
(* Creation.                                                               *)

\* Mutation: retries match only requests that are still open.
ExistingOpen(a) ==
  {i \in Id : /\ a.idem # NoKey
              /\ status[i] \in Active
              /\ ask[i].source = a.source
              /\ ask[i].idem = a.idem}

\* The row an idempotent retry of a finds, in whatever status it is.
Existing(a) ==
  {i \in Id : /\ a.idem # NoKey
              /\ status[i] # "absent"
              /\ ask[i].source = a.source
              /\ ask[i].idem = a.idem}

\* Mutation: requests somebody has claimed are not replaced.
ReplacedPending(a) ==
  {i \in Id : /\ a.tip # NoKey
              /\ status[i] = "pending"
              /\ ask[i].source = a.source
              /\ ask[i].tip = a.tip}

\* Mutation: closed requests are marked superseded too.
ReplacedEvenClosed(a) ==
  {i \in Id : /\ a.tip # NoKey
              /\ status[i] # "absent"
              /\ ask[i].source = a.source
              /\ ask[i].tip = a.tip}

\* The obligations a new request of a's worldline makes obsolete.
Replaced(a) ==
  {i \in Id : /\ a.tip # NoKey
              /\ status[i] \in Active
              /\ ask[i].source = a.source
              /\ ask[i].tip = a.tip}

\* Store.create_with_status with no row to return: the request, its channel
\* intent and the closing of what it replaces are one transaction.
Create(a) ==
  /\ issued < MaxRequests
  /\ Existing(a) = {}
  /\ LET new == issued + 1
         old == Replaced(a)
     IN  /\ issued' = new
         /\ ask' = [ask EXCEPT ![new] = a]
         /\ status' = [i \in Id |-> IF i = new THEN "pending"
                                    ELSE IF i \in old THEN "superseded"
                                    ELSE status[i]]
         /\ supersededBy' = [i \in Id |-> IF i \in old THEN new
                                          ELSE supersededBy[i]]
         /\ audit' = [i \in Id |->
                        IF i = new THEN Append(audit[i], "created")
                        ELSE IF i \in old THEN Append(audit[i], "superseded")
                        ELSE audit[i]]
         /\ channelOutbox' = channelOutbox \cup {new}
  /\ UNCHANGED <<claimedBy, votes, resolution, resumeOutbox>>

\* Store.create_with_status finds the key taken: the stored row is returned.
CreateRepeated(a) == Existing(a) # {} /\ UNCHANGED vars

-----------------------------------------------------------------------------
(* Ownership and answers.                                                  *)

\* Mutation: the route's actor list is not consulted.
EligibleAnyone(i, b) == TRUE

\* An empty actor list admits everybody.
Eligible(i, b) ==
  LET listed == ask[i].route.actors
  IN  listed = <<>> \/ \E n \in 1..Len(listed) : listed[n] = b

\* Mutation: machine provenance passes on human-only requests.
KindIgnored(i, k) == TRUE

\* The actor-kind gate of Store.resolve.
KindAllowed(i, k) == ask[i].route.kind = "human" => k = "human"

\* Agreeing votes Store.resolve asks for.  A list with a repeated name counts
\* the name twice.
Required(r) ==
  CASE r.mode = "quorum" -> r.quorum
    [] r.mode = "all_of" -> IF r.actors # <<>> THEN Len(r.actors) ELSE r.quorum
    [] OTHER -> 1

\* INSERT ... ON CONFLICT(request_id, actor) DO UPDATE.
Upsert(ballot, v) == {w \in ballot : w.actor # v.actor} \cup {v}

Backing(ballot, d) == {v \in ballot : v.decision = d}
Count(ballot, d) == Cardinality(Backing(ballot, d))

\* Counter.most_common(1): some decision no other one beats.
Leads(ballot, d) ==
  \A e \in Decision : Count(ballot, e) <= Count(ballot, d)

\* Mutation: one vote more than the quorum is asked for.
ReachedStrictly(i, ballot, d) ==
  Count(ballot, d) > Required(ask[i].route)

Reached(i, ballot, d) == Count(ballot, d) >= Required(ask[i].route)

\* Mutation: the terminal check is dropped.
IsOpenAlways(i) == status[i] # "absent"

\* The terminal check of resolve and apply_machine_outcome.
IsOpen(i) == status[i] \in Active

\* The request is unowned as far as its status says.
Claimable(i) == status[i] = "pending"

\* Store.claim on a pending request.
Claim(i, b) ==
  /\ Claimable(i)
  /\ Eligible(i, b)
  /\ status' = [status EXCEPT ![i] = "claimed"]
  /\ claimedBy' = [claimedBy EXCEPT ![i] = b]
  /\ audit' = [audit EXCEPT ![i] = Append(@, "claimed")]
  /\ UNCHANGED <<issued, ask, supersededBy, votes, resolution, channelOutbox,
                 resumeOutbox>>

\* Store.resolve up to the count: the gates and the upserted vote.
Cast(i, v) ==
  /\ IsOpen(i)
  /\ Eligible(i, v.actor)
  /\ KindAllowed(i, v.kind)
  /\ votes' = [votes EXCEPT ![i] = Upsert(@, v)]

\* Mutation: every resolution enqueues a resume.
WantsResumeAlways(i) == TRUE

\* resume.mode is "webhook" and there is a URL.
WantsResume(i) == ask[i].webhook

\* Store.resolve, finalized: the leading decision w becomes canonical, with
\* the caller as its provenance, and the resume intent is written with it.
Finalize(i, v, w) ==
  /\ Cast(i, v)
  /\ Leads(votes'[i], w)
  /\ Reached(i, votes'[i], w)
  /\ status' = [status EXCEPT ![i] = "resolved"]
  /\ resolution' = [resolution EXCEPT ![i] =
       [decision |-> w, actor |-> v.actor, kind |-> v.kind,
        voters |-> {u.actor : u \in Backing(votes'[i], w)}]]
  /\ IF WantsResume(i)
     THEN /\ resumeOutbox' = resumeOutbox \cup {i}
          /\ audit' = [audit EXCEPT ![i] = @ \o <<"resolved", "resume_enqueued">>]
     ELSE /\ audit' = [audit EXCEPT ![i] = Append(@, "resolved")]
          /\ UNCHANGED resumeOutbox
  /\ UNCHANGED <<issued, ask, claimedBy, supersededBy, channelOutbox>>

\* Store.resolve, not finalized: the request shows as claimed, with whatever
\* owner it had, possibly none.
AwaitQuorum(i, v) ==
  /\ Cast(i, v)
  /\ \A d \in Decision : ~Reached(i, votes'[i], d)
  /\ status' = [status EXCEPT ![i] = "claimed"]
  /\ UNCHANGED <<issued, ask, claimedBy, supersededBy, resolution, audit,
                 channelOutbox, resumeOutbox>>

\* Mutation: the outcome is logged without its prefix.
OutcomeEventBare(outcome) == outcome

\* f"machine_{outcome}"
OutcomeEvent(outcome) ==
  IF outcome = "expired" THEN "machine_expired" ELSE "machine_cancelled"

\* Store.apply_machine_outcome: expiry or cancellation, never an answer.
MachineOutcome(i, outcome) ==
  /\ IsOpen(i)
  /\ status' = [status EXCEPT ![i] = outcome]
  /\ audit' = [audit EXCEPT ![i] = Append(@, OutcomeEvent(outcome))]
  /\ UNCHANGED <<issued, ask, claimedBy, supersededBy, votes, resolution,
                 channelOutbox, resumeOutbox>>

\* claim, resolve and apply_machine_outcome on a closed request, and claim on a
\* claimed one: the stored row is returned and nothing is written.
Late(i) == status[i] \in Terminal \cup {"claimed"} /\ UNCHANGED vars

-----------------------------------------------------------------------------
Next ==
  \/ \E a \in Ask : Create(a)
  \/ \E a \in Ask : CreateRepeated(a)
  \/ \E i \in Id, b \in Actor : Claim(i, b)
  \/ \E i \in Id, v \in Vote, w \in Decision : Finalize(i, v, w)
  \/ \E i \in Id, v \in Vote : AwaitQuorum(i, v)
  \/ \E i \in Id, outcome \in {"expired", "cancelled"} : MachineOutcome(i, outcome)
  \/ \E i \in Id : Late(i)

Spec == Init /\ [][Next]_vars

-----------------------------------------------------------------------------
(* Properties.                                                             *)

AuditEvent == {"created", "claimed", "resolved", "resume_enqueued",
               "superseded", "machine_expired", "machine_cancelled"}
TerminalEvent == {"resolved", "superseded", "machine_expired",
                  "machine_cancelled"}
ClosingEvent(s) ==
  CASE s = "resolved" -> "resolved"
    [] s = "superseded" -> "superseded"
    [] s = "expired" -> "machine_expired"
    [] OTHER -> "machine_cancelled"

\* Rows have the columns' types, and ids are handed out in order.
TypeOK ==
  /\ issued \in 0..MaxRequests
  /\ ask \in [Id -> Ask \cup {NoAsk}]
  /\ status \in [Id -> Active \cup Terminal \cup {"absent"}]
  /\ \A i \in Id : status[i] = "absent" <=> i > issued
  /\ \A i \in Id : status[i] # "absent" => ask[i] \in Ask
  /\ claimedBy \in [Id -> Actor \cup {Nobody}]
  /\ supersededBy \in [Id -> Id \cup {0}]
  /\ votes \in [Id -> SUBSET Vote]
  /\ resolution \in [Id -> Resolution \cup {NoResolution}]
  /\ audit \in [Id -> Seq(AuditEvent)]
  /\ channelOutbox \subseteq Id
  /\ resumeOutbox \subseteq Id

\* PRIMARY KEY(request_id, actor) of votes: nobody is counted twice, however
\* often and under whatever kind they answer.
OneVoteEach ==
  \A i \in Id : \A u, v \in votes[i] : u.actor = v.actor => u = v

\* As long as a request is open no decision has the votes it needs: a quorum
\* that is reached is never left waiting, and none is reached behind the back
\* of the transaction that counts.
NoQuorumLeftWaiting ==
  \A i \in Id : status[i] \in Active =>
    \A d \in Decision : Count(votes[i], d) < Required(ask[i].route)

Listed(r, b) == \E n \in 1..Len(r.actors) : r.actors[n] = b
Admits(r, v) == /\ r.actors = <<>> \/ Listed(r, v.actor)
                /\ r.kind = "human" => v.kind = "human"

Backed(i) ==
  LET r == resolution[i]
      backing == {v \in votes[i] : v.decision = r.decision}
  IN  /\ r \in Resolution
      /\ r.voters = {v.actor : v \in backing}
      /\ Cardinality(backing) = Required(ask[i].route)
      /\ [actor |-> r.actor, decision |-> r.decision, kind |-> r.kind] \in backing
      /\ \A v \in backing : Admits(ask[i].route, v)
      /\ \A d \in Decision \ {r.decision} :
           Count(votes[i], d) < Required(ask[i].route)

\* A canonical resolution rests on exactly the required number of agreeing
\* votes, all admitted by the route, the finalizer's own among them, and no
\* other decision has as many: a changed vote, a repeated answer or a
\* machine's answer never tips a boundary.  Expiry, cancellation and
\* supersession leave no answer at all.
ResolutionBacked ==
  \A i \in Id : IF status[i] = "resolved" THEN Backed(i)
               ELSE resolution[i] = NoResolution

SameWorldline(i, j) ==
  /\ ask[i].source = ask[j].source
  /\ ask[i].tip = ask[j].tip
  /\ ask[i].tip # NoKey

\* An open request of a worldline is its newest request: after any order of
\* creations, answers and expiries at most one tip can still be approved.
ActiveIsNewest ==
  \A i, j \in Id :
    /\ status[i] \in Active
    /\ status[j] # "absent"
    /\ SameWorldline(i, j)
    => j <= i

\* superseded_by names a newer request of the same worldline, and is set on
\* superseded requests alone.
SupersededByNewer ==
  \A i \in Id :
    /\ supersededBy[i] # 0 <=> status[i] = "superseded"
    /\ status[i] = "superseded" =>
         /\ supersededBy[i] > i
         /\ supersededBy[i] <= issued
         /\ SameWorldline(i, supersededBy[i])

\* A retried creation never adds a second request under its key, whatever
\* became of the first in the meantime.
OneRequestPerKey ==
  \A i, j \in Id :
    /\ status[i] # "absent" /\ status[j] # "absent"
    /\ ask[i].idem # NoKey
    /\ ask[i].source = ask[j].source
    /\ ask[i].idem = ask[j].idem
    => i = j

\* Intents are neither lost nor invented: every request has its publish
\* intent, and exactly the resolved webhook requests have a resume intent.
IntentsMatchRequests ==
  /\ channelOutbox = {i \in Id : status[i] # "absent"}
  /\ resumeOutbox = {i \in Id : status[i] = "resolved" /\ ask[i].webhook}

\* The audit log tells of one terminal transition, the one that won.
OneTerminalEvent ==
  \A i \in Id :
    LET closings == {n \in DOMAIN audit[i] : audit[i][n] \in TerminalEvent}
    IN  IF status[i] \in Terminal
        THEN \E n \in closings : /\ closings = {n}
                                 /\ audit[i][n] = ClosingEvent(status[i])
        ELSE closings = {}

\* A request shown as claimed has an owner who was eligible, or a vote that
\* waits for a quorum; a pending one has neither.
ClaimedMeansOwnedOrVoted ==
  \A i \in Id :
    /\ status[i] = "pending" => claimedBy[i] = Nobody /\ votes[i] = {}
    /\ status[i] = "claimed" => claimedBy[i] # Nobody \/ votes[i] # {}
    /\ claimedBy[i] # Nobody /\ ask[i].route.actors # <<>> =>
         Listed(ask[i].route, claimedBy[i])

Row(i) == <<ask[i], status[i], claimedBy[i], supersededBy[i], votes[i],
            resolution[i], audit[i], i \in resumeOutbox>>

\* A closed request never changes again: losing answers, late expiries, new
\* creations and claims leave no trace in it.
TerminalIsFrozen ==
  [][\A i \in Id : status[i] \in Terminal => Row(i)' = Row(i)]_vars

\* Ownership is taken once and never passes to somebody else.
OwnerNeverReplaced ==
  [][\A i \in Id : claimedBy[i] # Nobody => claimedBy'[i] = claimedBy[i]]_vars

-----------------------------------------------------------------------------
(* The store implements the abstract boundary.                             *)

StageOf(s) ==
  CASE s = "absent" -> "unknown"
    [] s \in Active -> "open"
    [] s = "resolved" -> "answered"
    [] s = "superseded" -> "replaced"
    [] OTHER -> "withdrawn"

B == INSTANCE Boundary WITH
       None <- NoResolution,
       stage <- [i \in Id |-> StageOf(status[i])],
       answer <- [i \in Id |-> IF status[i] = "resolved"
                               THEN resolution[i].decision ELSE NoResolution],
       owed <- resumeOutbox

\* Votes, claims and quorum waits are invisible to the machine that asked;
\* what it sees is one opening and at most one closing.
ImplementsBoundary == B!BSpec
=============================================================================
