------------------------- MODULE RequestStoreProofs -------------------------
(***************************************************************************)
(* Theorems about RequestStore for every set of actors, decisions, keys    *)
(* and payloads and every number of requests.  Each property is shown      *)
(* inductive relative to the ones before it.                               *)
(***************************************************************************)
EXTENDS RequestStore, FiniteSetTheorems, TLAPS

-----------------------------------------------------------------------------
(* Type correctness.                                                       *)

LEMMA InitType == Init => TypeOK
BY FiniteAssumption DEF Init, TypeOK, Id, Active, Terminal, Resolution, AuditEvent

\* A creation hands out the next id and only touches rows that exist.
LEMMA CreateType ==
  ASSUME TypeOK, NEW a \in Ask, Create(a)
  PROVE  TypeOK'
<1> DEFINE new == issued + 1
           old == Replaced(a)
<1>1. /\ new \in Id /\ new = issued' /\ issued' \in 0..MaxRequests
      /\ old \subseteq Id /\ new \notin old
  BY FiniteAssumption DEF TypeOK, Create, Replaced, Id, Active
<1>2. ask' \in [Id -> Ask \cup {NoAsk}] /\ ask' = [ask EXCEPT ![new] = a]
  BY <1>1 DEF TypeOK, Create
<1>3. /\ status' = [i \in Id |-> IF i = new THEN "pending"
                                ELSE IF i \in old THEN "superseded"
                                ELSE status[i]]
      /\ status' \in [Id -> Active \cup Terminal \cup {"absent"}]
  BY <1>1 DEF TypeOK, Create, Active, Terminal
<1>4. \A i \in Id : status'[i] = "absent" <=> i > issued'
  BY <1>1, <1>3, FiniteAssumption DEF TypeOK, Id, Replaced, Active
<1>5. \A i \in Id : status'[i] # "absent" => ask'[i] \in Ask
  BY <1>1, <1>2, <1>3 DEF TypeOK, Replaced, Active
<1>6. supersededBy' \in [Id -> Id \cup {0}]
  BY <1>1 DEF TypeOK, Create
<1>7. audit' \in [Id -> Seq(AuditEvent)]
  BY <1>1 DEF TypeOK, Create, AuditEvent
<1>8. channelOutbox' \subseteq Id
  BY <1>1 DEF TypeOK, Create
<1> QED
  BY <1>1, <1>2, <1>3, <1>4, <1>5, <1>6, <1>7, <1>8 DEF TypeOK, Create

LEMMA ClaimType ==
  ASSUME TypeOK, NEW i \in Id, NEW b \in Actor, Claim(i, b)
  PROVE  TypeOK'
BY DEF TypeOK, Claim, Claimable, Active, AuditEvent

\* The upserted ballot is again a set of votes.
LEMMA CastType ==
  ASSUME TypeOK, NEW i \in Id, NEW v \in Vote, Cast(i, v)
  PROVE  /\ votes' \in [Id -> SUBSET Vote]
         /\ votes'[i] = Upsert(votes[i], v)
         /\ \A j \in Id \ {i} : votes'[j] = votes[j]
         /\ status[i] \in Active
BY DEF TypeOK, Cast, Upsert, IsOpen

LEMMA FinalizeType ==
  ASSUME TypeOK, NEW i \in Id, NEW v \in Vote, NEW w \in Decision,
         Finalize(i, v, w)
  PROVE  TypeOK'
<1>1. votes' \in [Id -> SUBSET Vote] /\ status[i] \in Active
  BY CastType DEF Finalize
<1>2. {u.actor : u \in Backing(votes'[i], w)} \subseteq Actor
  BY <1>1 DEF Backing, Vote
<1>3. [decision |-> w, actor |-> v.actor, kind |-> v.kind,
       voters |-> {u.actor : u \in Backing(votes'[i], w)}] \in Resolution
  BY <1>2 DEF Resolution, Vote
<1>4. resolution' \in [Id -> Resolution \cup {NoResolution}]
  BY <1>3 DEF TypeOK, Finalize
<1>5. audit' \in [Id -> Seq(AuditEvent)] /\ resumeOutbox' \subseteq Id
  <2>1. <<"resolved", "resume_enqueued">> \in Seq(AuditEvent)
    BY DEF AuditEvent
  <2>2. audit[i] \o <<"resolved", "resume_enqueued">> \in Seq(AuditEvent)
    BY <2>1 DEF TypeOK
  <2>3. Append(audit[i], "resolved") \in Seq(AuditEvent)
    BY DEF TypeOK, AuditEvent
  <2> QED
    BY <2>2, <2>3 DEF TypeOK, Finalize
<1> QED
  BY <1>1, <1>4, <1>5 DEF TypeOK, Finalize, Active, Terminal

LEMMA AwaitQuorumType ==
  ASSUME TypeOK, NEW i \in Id, NEW v \in Vote, AwaitQuorum(i, v)
  PROVE  TypeOK'
<1>1. votes' \in [Id -> SUBSET Vote] /\ status[i] \in Active
  BY CastType DEF AwaitQuorum
<1> QED
  BY <1>1 DEF TypeOK, AwaitQuorum, Active

LEMMA MachineOutcomeType ==
  ASSUME TypeOK, NEW i \in Id, NEW outcome \in {"expired", "cancelled"},
         MachineOutcome(i, outcome)
  PROVE  TypeOK'
<1>1. Append(audit[i], OutcomeEvent(outcome)) \in Seq(AuditEvent)
  BY DEF TypeOK, OutcomeEvent, AuditEvent
<1> QED
  BY <1>1 DEF TypeOK, MachineOutcome, IsOpen, Active, Terminal

LEMMA NextType == TypeOK /\ [Next]_vars => TypeOK'
<1> SUFFICES ASSUME TypeOK, [Next]_vars PROVE TypeOK'
  OBVIOUS
<1>1. CASE UNCHANGED vars
  BY <1>1 DEF vars, TypeOK
<1>2. ASSUME NEW a \in Ask, Create(a) PROVE TypeOK'
  BY <1>2, CreateType
<1>3. ASSUME NEW i \in Id, NEW b \in Actor, Claim(i, b) PROVE TypeOK'
  BY <1>3, ClaimType
<1>4. ASSUME NEW i \in Id, NEW v \in Vote, NEW w \in Decision, Finalize(i, v, w)
      PROVE TypeOK'
  BY <1>4, FinalizeType
<1>5. ASSUME NEW i \in Id, NEW v \in Vote, AwaitQuorum(i, v) PROVE TypeOK'
  BY <1>5, AwaitQuorumType
<1>6. ASSUME NEW i \in Id, NEW outcome \in {"expired", "cancelled"},
             MachineOutcome(i, outcome)
      PROVE TypeOK'
  BY <1>6, MachineOutcomeType
<1> QED
  BY <1>1, <1>2, <1>3, <1>4, <1>5, <1>6 DEF Next, CreateRepeated, Late

\* Every column of the request tables keeps its type, rows appear in the
\* order of their ids and hold a payload from the moment they exist.
THEOREM TypeCorrect == Spec => []TypeOK
<1>1. Init => TypeOK
  BY InitType
<1>2. TypeOK /\ [Next]_vars => TypeOK'
  BY NextType
<1> QED
  BY <1>1, <1>2, PTL DEF Spec

-----------------------------------------------------------------------------
(* Votes and quorums.                                                      *)

LEMMA RequiredIsPositive ==
  ASSUME NEW r \in Route
  PROVE  Required(r) \in Nat \ {0}
<1>1. r.actors \in Seq(Actor) /\ r.quorum \in Nat \ {0}
  BY DEF Route
<1>2. r.actors # <<>> => Len(r.actors) \in Nat \ {0}
  BY <1>1
<1> QED
  BY <1>1, <1>2 DEF Required

LEMMA AskRoute ==
  ASSUME NEW a \in Ask
  PROVE  a.route \in Route
BY AskAssumption DEF Payload

\* The votes table of a request is finite, has one row per actor, and holds
\* only answers its route admits.
BallotsAdmitted ==
  \A i \in Id :
    /\ IsFiniteSet(votes[i])
    /\ status[i] = "absent" => votes[i] = {}
    /\ \A v \in votes[i] : Admits(ask[i].route, v)

\* What an upsert does to a ballot box, and to the count of each decision.
LEMMA UpsertKeepsKey ==
  ASSUME NEW ballot \in SUBSET Vote, NEW v \in Vote,
         \A x, y \in ballot : x.actor = y.actor => x = y
  PROVE  \A x, y \in Upsert(ballot, v) : x.actor = y.actor => x = y
BY DEF Upsert

LEMMA UpsertFinite ==
  ASSUME NEW ballot, IsFiniteSet(ballot), NEW v
  PROVE  IsFiniteSet(Upsert(ballot, v))
<1>1. IsFiniteSet({w \in ballot : w.actor # v.actor})
  BY FS_Subset
<1> QED
  BY <1>1, FS_AddElement DEF Upsert

LEMMA BackingFinite ==
  ASSUME NEW ballot, IsFiniteSet(ballot), NEW d
  PROVE  /\ IsFiniteSet(Backing(ballot, d))
         /\ Count(ballot, d) \in Nat
<1>1. Backing(ballot, d) \in SUBSET ballot
  BY DEF Backing
<1>2. IsFiniteSet(Backing(ballot, d))
  BY <1>1, FS_Subset
<1> QED
  BY <1>2, FS_CardinalityType DEF Count

\* A decision the new vote does not name cannot gain support; the one it
\* names gains at most one vote.
LEMMA UpsertCounts ==
  ASSUME NEW ballot \in SUBSET Vote, IsFiniteSet(ballot), NEW v \in Vote,
         NEW d \in Decision
  PROVE  /\ d # v.decision => Count(Upsert(ballot, v), d) <= Count(ballot, d)
         /\ Count(Upsert(ballot, v), d) <= Count(ballot, d) + 1
<1> DEFINE before == Backing(ballot, d)
           after == Backing(Upsert(ballot, v), d)
<1>1. IsFiniteSet(before)
  BY BackingFinite
<1>2. after \subseteq before \cup {v}
  BY DEF Backing, Upsert
<1>3. CASE d # v.decision
  <2>1. after \in SUBSET before
    BY <1>2, <1>3 DEF Backing
  <2>2. Cardinality(after) <= Cardinality(before)
    BY <1>1, <2>1, FS_Subset
  <2>3. Cardinality(before) \in Nat /\ Cardinality(after) \in Nat
    BY <1>1, <2>1, FS_Subset, FS_CardinalityType
  <2> QED
    BY <2>2, <2>3 DEF Count
<1>4. CASE d = v.decision
  <2>0. Cardinality(before) \in Nat
    BY <1>1, FS_CardinalityType
  <2>1. /\ IsFiniteSet(before \cup {v})
        /\ Cardinality(before \cup {v}) <= Cardinality(before) + 1
    <3>1. /\ IsFiniteSet(before \cup {v})
          /\ Cardinality(before \cup {v}) =
               IF v \in before THEN Cardinality(before) ELSE Cardinality(before) + 1
      BY ONLY <1>1, FS_AddElement
    <3> HIDE DEF before
    <3> QED
      BY <2>0, <3>1
  <2>2. after \in SUBSET (before \cup {v})
    BY <1>2
  <2>3. IsFiniteSet(after) /\ Cardinality(after) <= Cardinality(before \cup {v})
    BY <2>1, <2>2, FS_Subset
  <2>4. /\ Cardinality(after) \in Nat /\ Cardinality(before) \in Nat
        /\ Cardinality(before \cup {v}) \in Nat
    BY <1>1, <2>1, <2>3, FS_CardinalityType
  <2> QED
    BY <1>4, <2>1, <2>3, <2>4 DEF Count
<1> QED
  BY <1>3, <1>4

VotesInv == OneVoteEach /\ BallotsAdmitted

\* The vote table keeps its key and only ever holds admitted votes.
LEMMA VotesStep ==
  ASSUME TypeOK, VotesInv, [Next]_vars
  PROVE  VotesInv'
<1>1. ASSUME NEW i \in Id, NEW v \in Vote, Cast(i, v), ask' = ask,
             status[i] # "absent", \A j \in Id : status'[j] = "absent" => status[j] = "absent"
      PROVE  VotesInv'
  <2>1. /\ votes'[i] = Upsert(votes[i], v)
        /\ \A j \in Id \ {i} : votes'[j] = votes[j]
        /\ votes[i] \in SUBSET Vote
        /\ status[i] \in Active
    BY <1>1, CastType DEF TypeOK
  <2>2. IsFiniteSet(votes'[i])
    BY <2>1, UpsertFinite DEF VotesInv, BallotsAdmitted
  <2>3. Admits(ask[i].route, v)
    BY <1>1 DEF Cast, Eligible, KindAllowed, Admits, Listed
  <2>4. \A u \in votes'[i] : Admits(ask[i].route, u)
    BY <2>1, <2>3 DEF VotesInv, BallotsAdmitted, Upsert
  <2>5. status'[i] # "absent"
    BY <1>1
  <2>6. BallotsAdmitted'
    BY <1>1, <2>1, <2>2, <2>4, <2>5 DEF VotesInv, BallotsAdmitted
  <2>7. \A x, y \in votes'[i] : x.actor = y.actor => x = y
    BY <2>1, UpsertKeepsKey DEF VotesInv, OneVoteEach
  <2>8. OneVoteEach'
    BY <2>1, <2>7 DEF VotesInv, OneVoteEach
  <2> QED
    BY <2>6, <2>8 DEF VotesInv
<1>2. CASE UNCHANGED vars
  BY <1>2 DEF vars, VotesInv, OneVoteEach, BallotsAdmitted
<1>3. ASSUME NEW a \in Ask, Create(a) PROVE VotesInv'
  <2>1. /\ issued + 1 \in Id /\ status[issued + 1] = "absent"
        /\ votes' = votes
        /\ \A j \in Id \ {issued + 1} : ask'[j] = ask[j]
        /\ \A j \in Id : status'[j] = "absent" => status[j] = "absent"
    BY <1>3, FiniteAssumption DEF Create, TypeOK, Id, Replaced
  <2> QED
    BY <2>1 DEF VotesInv, OneVoteEach, BallotsAdmitted
<1>4. ASSUME NEW i \in Id, NEW b \in Actor, Claim(i, b) PROVE VotesInv'
  BY <1>4 DEF Claim, Claimable, TypeOK, VotesInv, OneVoteEach, BallotsAdmitted
<1>5. ASSUME NEW i \in Id, NEW v \in Vote, NEW w \in Decision, Finalize(i, v, w)
      PROVE VotesInv'
  BY <1>1, <1>5 DEF Finalize, Cast, IsOpen, Active, TypeOK
<1>6. ASSUME NEW i \in Id, NEW v \in Vote, AwaitQuorum(i, v) PROVE VotesInv'
  BY <1>1, <1>6 DEF AwaitQuorum, Cast, IsOpen, Active, TypeOK
<1>7. ASSUME NEW i \in Id, NEW outcome \in {"expired", "cancelled"},
             MachineOutcome(i, outcome)
      PROVE VotesInv'
  BY <1>7 DEF MachineOutcome, TypeOK, VotesInv, OneVoteEach, BallotsAdmitted
<1> QED
  BY <1>2, <1>3, <1>4, <1>5, <1>6, <1>7 DEF Next, CreateRepeated, Late

LEMMA EmptyCount ==
  ASSUME NEW d
  PROVE  Count({}, d) = 0
<1>1. Backing({}, d) = {}
  BY DEF Backing
<1> QED
  BY <1>1, FS_EmptySet DEF Count

\* An open request never holds enough votes for any decision.
LEMMA WaitingStep ==
  ASSUME TypeOK, VotesInv, NoQuorumLeftWaiting, [Next]_vars
  PROVE  NoQuorumLeftWaiting'
<1> USE DEF NoQuorumLeftWaiting
<1>1. CASE UNCHANGED vars
  BY <1>1 DEF vars
<1>2. ASSUME NEW a \in Ask, Create(a) PROVE NoQuorumLeftWaiting'
  <2> DEFINE new == issued + 1
  <2>1. /\ new \in Id /\ status[new] = "absent"
        /\ votes' = votes
        /\ ask'[new] = a
        /\ \A j \in Id \ {new} :
             /\ ask'[j] = ask[j]
             /\ status'[j] \in Active => status[j] \in Active
    BY <1>2, FiniteAssumption DEF Create, TypeOK, Id, Active, Terminal
  <2> HIDE DEF new
  <2>2. votes[new] = {}
    BY <2>1 DEF VotesInv, BallotsAdmitted
  <2>3. \A d \in Decision : Count(votes'[new], d) < Required(ask'[new].route)
    <3>1. Required(a.route) \in Nat \ {0}
      BY AskRoute, RequiredIsPositive
    <3>2. \A d \in Decision : Count(votes'[new], d) = 0
      BY <2>1, <2>2, EmptyCount
    <3> QED
      BY <2>1, <3>1, <3>2
  <2>4. ASSUME NEW j \in Id, status'[j] \in Active
        PROVE  \A d \in Decision : Count(votes'[j], d) < Required(ask'[j].route)
    <3>1. CASE j = new
      BY <2>3, <3>1
    <3>2. CASE j # new
      BY <2>1, <2>4, <3>2
    <3> QED
      BY <3>1, <3>2
  <2> QED
    BY <2>4
<1>3. ASSUME NEW i \in Id, NEW b \in Actor, Claim(i, b) PROVE NoQuorumLeftWaiting'
  BY <1>3 DEF Claim, Claimable, TypeOK, Active
<1>4. ASSUME NEW i \in Id, NEW v \in Vote, NEW w \in Decision, Finalize(i, v, w)
      PROVE NoQuorumLeftWaiting'
  <2>1. /\ \A j \in Id \ {i} : votes'[j] = votes[j]
        /\ status'[i] = "resolved"
        /\ \A j \in Id \ {i} : status'[j] = status[j]
        /\ ask' = ask
    BY <1>4, CastType DEF Finalize, TypeOK
  <2>2. ASSUME NEW j \in Id, status'[j] \in Active
        PROVE  \A d \in Decision : Count(votes'[j], d) < Required(ask'[j].route)
    <3>1. j # i
      BY <2>1, <2>2 DEF Active
    <3> QED
      BY <2>1, <2>2, <3>1
  <2> QED
    BY <2>2
<1>5. ASSUME NEW i \in Id, NEW v \in Vote, AwaitQuorum(i, v)
      PROVE NoQuorumLeftWaiting'
  <2>1. /\ \A j \in Id \ {i} : votes'[j] = votes[j]
        /\ \A j \in Id \ {i} : status'[j] = status[j]
        /\ ask' = ask
        /\ status[i] \in Active
        /\ votes'[i] = Upsert(votes[i], v)
    BY <1>5, CastType DEF AwaitQuorum, TypeOK
  <2>2. \A d \in Decision : /\ Count(votes'[i], d) \in Nat
                            /\ Required(ask[i].route) \in Nat
    <3>1. IsFiniteSet(votes'[i])
      BY <2>1, UpsertFinite DEF VotesInv, BallotsAdmitted
    <3>2. ask[i] \in Ask
      BY <2>1 DEF TypeOK, Active
    <3> QED
      BY <3>1, <3>2, BackingFinite, AskRoute, RequiredIsPositive
  <2>3. \A d \in Decision : Count(votes'[i], d) < Required(ask'[i].route)
    BY <1>5, <2>1, <2>2 DEF AwaitQuorum, Reached
  <2> QED
    BY <2>1, <2>3
<1>6. ASSUME NEW i \in Id, NEW outcome \in {"expired", "cancelled"},
             MachineOutcome(i, outcome)
      PROVE NoQuorumLeftWaiting'
  BY <1>6 DEF MachineOutcome, TypeOK, Active
<1> QED
  BY <1>1, <1>2, <1>3, <1>4, <1>5, <1>6 DEF Next, CreateRepeated, Late

\* The transaction that finalizes is the one whose own vote completed the
\* quorum: the leading decision is the caller's, with just enough votes.
LEMMA FinalizeCompletesQuorum ==
  ASSUME TypeOK, VotesInv, NoQuorumLeftWaiting,
         NEW i \in Id, NEW v \in Vote, NEW w \in Decision, Finalize(i, v, w)
  PROVE  /\ w = v.decision
         /\ v \in Backing(votes'[i], w)
         /\ Count(votes'[i], w) = Required(ask[i].route)
         /\ \A d \in Decision \ {w} : Count(votes'[i], d) < Required(ask[i].route)
<1> DEFINE q == Required(ask[i].route)
<1>1. /\ votes'[i] = Upsert(votes[i], v)
      /\ status[i] \in Active
      /\ votes[i] \in SUBSET Vote
      /\ IsFiniteSet(votes[i])
  BY CastType DEF Finalize, TypeOK, VotesInv, BallotsAdmitted
<1>2. q \in Nat
  BY <1>1, AskRoute, RequiredIsPositive DEF TypeOK, Active
<1>3. \A d \in Decision : /\ Count(votes[i], d) \in Nat
                          /\ Count(votes'[i], d) \in Nat
  BY <1>1, UpsertFinite, BackingFinite
<1>4. \A d \in Decision : Count(votes[i], d) < q
  BY <1>1 DEF NoQuorumLeftWaiting
<1>5. \A d \in Decision : d # v.decision => Count(votes'[i], d) < q
  BY <1>1, <1>2, <1>3, <1>4, UpsertCounts
<1>6. Count(votes'[i], w) >= q
  BY DEF Finalize, Reached
<1>7. w = v.decision
  BY <1>2, <1>3, <1>5, <1>6
<1>8. Count(votes'[i], w) <= Count(votes[i], w) + 1
  BY <1>1, UpsertCounts
<1>9. Count(votes'[i], w) = q
  BY <1>2, <1>3, <1>4, <1>6, <1>8
<1>10. v \in Backing(votes'[i], w)
  BY <1>1, <1>7 DEF Backing, Upsert
<1> QED
  BY <1>5, <1>7, <1>9, <1>10

\* A resolved request is backed by its votes, and stays so.
LEMMA BackedStep ==
  ASSUME TypeOK, VotesInv, VotesInv', NoQuorumLeftWaiting, ResolutionBacked,
         [Next]_vars
  PROVE  ResolutionBacked'
<1> DEFINE Good(j) == IF status[j] = "resolved" THEN Backed(j)
                      ELSE resolution[j] = NoResolution
<1> SUFFICES ASSUME NEW j \in Id PROVE Good(j)'
  BY DEF ResolutionBacked
<1>0. Good(j)
  BY DEF ResolutionBacked
<1>1. ASSUME ask'[j] = ask[j], votes'[j] = votes[j], resolution'[j] = resolution[j],
             \/ status'[j] = status[j]
             \/ status[j] # "resolved" /\ status'[j] # "resolved"
      PROVE  Good(j)'
  BY <1>0, <1>1 DEF Backed
<1>2. CASE UNCHANGED vars
  BY <1>1, <1>2 DEF vars
<1>3. ASSUME NEW a \in Ask, Create(a) PROVE Good(j)'
  <2> DEFINE new == issued + 1
  <2>1. /\ new \in Id /\ status[new] = "absent" /\ status'[new] = "pending"
        /\ votes' = votes /\ resolution' = resolution
        /\ j # new => ask'[j] = ask[j]
        /\ j # new => \/ status'[j] = status[j]
                      \/ status[j] # "resolved" /\ status'[j] # "resolved"
    BY <1>3, FiniteAssumption DEF Create, TypeOK, Id, Replaced, Active
  <2> HIDE DEF new
  <2>2. CASE j = new
    BY <1>0, <2>1, <2>2
  <2>3. CASE j # new
    BY <1>1, <2>1, <2>3
  <2> QED
    BY <2>2, <2>3
<1>4. ASSUME NEW i \in Id, NEW b \in Actor, Claim(i, b) PROVE Good(j)'
  <2>1. /\ ask' = ask /\ votes' = votes /\ resolution' = resolution
        /\ \/ status'[j] = status[j]
           \/ status[j] # "resolved" /\ status'[j] # "resolved"
    BY <1>4 DEF Claim, Claimable, TypeOK
  <2> QED
    BY <1>1, <2>1
<1>5. ASSUME NEW i \in Id, NEW v \in Vote, NEW w \in Decision, Finalize(i, v, w)
      PROVE Good(j)'
  <2>1. /\ ask' = ask
        /\ status'[i] = "resolved"
        /\ resolution'[i] = [decision |-> w, actor |-> v.actor, kind |-> v.kind,
                            voters |-> {u.actor : u \in Backing(votes'[i], w)}]
        /\ j # i => status'[j] = status[j] /\ resolution'[j] = resolution[j]
        /\ j # i => votes'[j] = votes[j]
    BY <1>5, CastType DEF Finalize, TypeOK
  <2>2. CASE j # i
    BY <1>1, <2>1, <2>2
  <2>3. CASE j = i
    <3> DEFINE r == resolution'[i]
               backing == {u \in votes'[i] : u.decision = r.decision}
    <3>1. /\ r.decision = w /\ r.actor = v.actor /\ r.kind = v.kind
          /\ r.voters = {u.actor : u \in Backing(votes'[i], w)}
      BY <2>1
    <3>2. backing = Backing(votes'[i], w)
      BY <3>1 DEF Backing
    <3>3. r \in Resolution
      <4>1. votes'[i] \subseteq Vote
        BY <1>5, CastType DEF Finalize
      <4>2. {u.actor : u \in Backing(votes'[i], w)} \subseteq Actor
        BY <4>1 DEF Backing, Vote
      <4> QED
        BY <2>1, <4>2 DEF Resolution, Vote
    <3>4. /\ w = v.decision
          /\ v \in backing
          /\ Cardinality(backing) = Required(ask'[i].route)
          /\ \A d \in Decision \ {r.decision} :
               Count(votes'[i], d) < Required(ask'[i].route)
      BY <1>5, <2>1, <3>1, <3>2, FinalizeCompletesQuorum DEF Count
    <3>5. [actor |-> r.actor, decision |-> r.decision, kind |-> r.kind] \in backing
      BY <3>1, <3>4 DEF Vote
    <3>6. \A u \in backing : Admits(ask'[i].route, u)
      BY DEF VotesInv, BallotsAdmitted
    <3>7. Backed(i)'
      BY <3>1, <3>2, <3>3, <3>4, <3>5, <3>6 DEF Backed
    <3> QED
      BY <2>1, <2>3, <3>7
  <2> QED
    BY <2>2, <2>3
<1>6. ASSUME NEW i \in Id, NEW v \in Vote, AwaitQuorum(i, v) PROVE Good(j)'
  <2>1. /\ ask' = ask /\ resolution' = resolution
        /\ status[i] \in Active /\ status'[i] = "claimed"
        /\ j # i => votes'[j] = votes[j] /\ status'[j] = status[j]
    BY <1>6, CastType DEF AwaitQuorum, TypeOK
  <2>2. CASE j = i
    BY <1>0, <2>1, <2>2 DEF Active
  <2>3. CASE j # i
    BY <1>1, <2>1, <2>3
  <2> QED
    BY <2>2, <2>3
<1>7. ASSUME NEW i \in Id, NEW outcome \in {"expired", "cancelled"},
             MachineOutcome(i, outcome)
      PROVE Good(j)'
  <2>1. /\ ask' = ask /\ votes' = votes /\ resolution' = resolution
        /\ \/ status'[j] = status[j]
           \/ status[j] # "resolved" /\ status'[j] # "resolved"
    BY <1>7 DEF MachineOutcome, IsOpen, Active, TypeOK
  <2> QED
    BY <1>1, <2>1
<1> QED
  BY <1>2, <1>3, <1>4, <1>5, <1>6, <1>7 DEF Next, CreateRepeated, Late

QuorumInv == TypeOK /\ VotesInv /\ NoQuorumLeftWaiting /\ ResolutionBacked

LEMMA QuorumInvariant == Spec => []QuorumInv
<1>1. Init => QuorumInv
  <2> SUFFICES ASSUME Init PROVE QuorumInv
    OBVIOUS
  <2>1. TypeOK
    BY InitType
  <2>2. VotesInv
    BY FS_EmptySet DEF Init, VotesInv, OneVoteEach, BallotsAdmitted
  <2>3. NoQuorumLeftWaiting /\ ResolutionBacked
    BY DEF Init, NoQuorumLeftWaiting, ResolutionBacked, Active
  <2> QED
    BY <2>1, <2>2, <2>3 DEF QuorumInv
<1>2. QuorumInv /\ [Next]_vars => QuorumInv'
  <2> SUFFICES ASSUME QuorumInv, [Next]_vars PROVE QuorumInv'
    OBVIOUS
  <2>1. TypeOK'
    BY NextType DEF QuorumInv
  <2>2. VotesInv'
    BY VotesStep DEF QuorumInv
  <2>3. NoQuorumLeftWaiting'
    BY WaitingStep DEF QuorumInv
  <2>4. ResolutionBacked'
    BY <2>2, BackedStep DEF QuorumInv
  <2> QED
    BY <2>1, <2>2, <2>3, <2>4 DEF QuorumInv
<1> QED
  BY <1>1, <1>2, PTL DEF Spec

\* Nobody is counted twice towards a quorum, for any number of actors.
THEOREM CountedOnce == Spec => []OneVoteEach
<1>1. QuorumInv => OneVoteEach
  BY DEF QuorumInv, VotesInv
<1> QED
  BY <1>1, QuorumInvariant, PTL

\* The transaction that brings a decision to its quorum finalizes it: no
\* open request ever holds enough agreeing votes.
THEOREM NeverLeftWaiting == Spec => []NoQuorumLeftWaiting
<1>1. QuorumInv => NoQuorumLeftWaiting
  BY DEF QuorumInv
<1> QED
  BY <1>1, QuorumInvariant, PTL

\* Every canonical resolution has exactly its quorum of distinct, admitted
\* voters behind it, the recorded finalizer among them.
THEOREM ResolutionsAreBacked == Spec => []ResolutionBacked
<1>1. QuorumInv => ResolutionBacked
  BY DEF QuorumInv
<1> QED
  BY <1>1, QuorumInvariant, PTL

-----------------------------------------------------------------------------
(* Worldlines, idempotency and intents.                                    *)

\* What the insert of request new does to the rows.
Inserted(new, a) ==
  /\ new = issued + 1 /\ issued' = new
  /\ \A j \in Id : status[j] # "absent" <=> j < new
  /\ \A j \in Id : status'[j] # "absent" => j <= new
  /\ ask' = [ask EXCEPT ![new] = a]
  /\ status' = [j \in Id |-> IF j = new THEN "pending"
                             ELSE IF j \in Replaced(a) THEN "superseded"
                             ELSE status[j]]
  /\ supersededBy' = [j \in Id |-> IF j \in Replaced(a) THEN new
                                   ELSE supersededBy[j]]

LEMMA CreateRows ==
  ASSUME TypeOK, NEW a \in Ask, Create(a)
  PROVE  \E new \in Id : Inserted(new, a)
<1>1. issued + 1 \in Id /\ issued \in Nat /\ \A j \in Id : j \in Int
  BY FiniteAssumption DEF TypeOK, Create, Id
<1>2. \A j \in Id : status[j] # "absent" <=> j < issued + 1
  BY <1>1 DEF TypeOK
<1>3. \A j \in Id : status'[j] # "absent" => j <= issued + 1
  BY <1>1, <1>2 DEF Create, Replaced, Active
<1> QED
  BY <1>1, <1>2, <1>3 DEF Create, Inserted

\* What every other step leaves of a row: the insert's columns stay, and no
\* closed request is opened, or superseded.
Kept(j) ==
  /\ ask'[j] = ask[j]
  /\ supersededBy'[j] = supersededBy[j]
  /\ status'[j] = "absent" <=> status[j] = "absent"
  /\ status'[j] = "superseded" <=> status[j] = "superseded"
  /\ status'[j] \in Active => status[j] \in Active

LEMMA OtherSteps ==
  ASSUME TypeOK, [Next]_vars, NEW j \in Id
  PROVE  (\E a \in Ask : Create(a)) \/ (Kept(j) /\ issued' = issued)
<1>1. CASE UNCHANGED vars
  BY <1>1 DEF vars, Kept
<1>2. ASSUME NEW i \in Id, NEW b \in Actor, Claim(i, b)
      PROVE  Kept(j) /\ issued' = issued
  BY <1>2 DEF Claim, Claimable, TypeOK, Active, Kept
<1>3. ASSUME NEW i \in Id, NEW v \in Vote, NEW w \in Decision, Finalize(i, v, w)
      PROVE  Kept(j) /\ issued' = issued
  BY <1>3 DEF Finalize, Cast, IsOpen, TypeOK, Active, Kept
<1>4. ASSUME NEW i \in Id, NEW v \in Vote, AwaitQuorum(i, v)
      PROVE  Kept(j) /\ issued' = issued
  BY <1>4 DEF AwaitQuorum, Cast, IsOpen, TypeOK, Active, Kept
<1>5. ASSUME NEW i \in Id, NEW outcome \in {"expired", "cancelled"},
             MachineOutcome(i, outcome)
      PROVE  Kept(j) /\ issued' = issued
  BY <1>5 DEF MachineOutcome, IsOpen, TypeOK, Active, Kept
<1> QED
  BY <1>1, <1>2, <1>3, <1>4, <1>5 DEF Next, CreateRepeated, Late

LEMMA NewestStep ==
  ASSUME TypeOK, ActiveIsNewest, [Next]_vars
  PROVE  ActiveIsNewest'
<1> SUFFICES ASSUME NEW i \in Id, NEW j \in Id, status'[i] \in Active,
                    status'[j] # "absent", SameWorldline(i, j)'
             PROVE  j <= i
  BY DEF ActiveIsNewest
<1>1. ASSUME NEW a \in Ask, Create(a) PROVE j <= i
  <2>1. PICK new \in Id : Inserted(new, a)
    BY <1>1, CreateRows
  <2>2. i \in Int /\ j \in Int /\ new \in Int
    BY FiniteAssumption DEF Id
  <2>3. CASE i = new
    BY <2>1, <2>2, <2>3 DEF Inserted
  <2>4. CASE i # new
    <3>1. status[i] \in Active /\ i \notin Replaced(a) /\ ask'[i] = ask[i]
      BY <2>1, <2>4 DEF Inserted, Active, TypeOK
    <3>2. j # new
      BY <3>1, <2>1 DEF Inserted, SameWorldline, Replaced, TypeOK
    <3>3. ask'[j] = ask[j] /\ status[j] # "absent"
      BY <3>2, <2>1 DEF Inserted, TypeOK, Replaced, Active
    <3> QED
      BY <3>1, <3>3 DEF ActiveIsNewest, SameWorldline
  <2> QED
    BY <2>3, <2>4
<1>2. CASE Kept(i) /\ Kept(j)
  BY <1>2 DEF Kept, ActiveIsNewest, SameWorldline
<1> QED
  BY <1>1, <1>2, OtherSteps

\* Whatever the order of creations, answers, claims and expiries, the open
\* request of a worldline is its newest (Store.create_with_status).
THEOREM OnlyTheTipIsOpen == Spec => []ActiveIsNewest
<1>1. Init => ActiveIsNewest
  BY DEF Init, ActiveIsNewest, Active
<1>2. TypeOK /\ ActiveIsNewest /\ [Next]_vars => ActiveIsNewest'
  BY NewestStep
<1> QED
  BY <1>1, <1>2, TypeCorrect, PTL DEF Spec

LEMMA SupersededStep ==
  ASSUME TypeOK, SupersededByNewer, [Next]_vars
  PROVE  SupersededByNewer'
<1> DEFINE Good(i) ==
      /\ supersededBy[i] # 0 <=> status[i] = "superseded"
      /\ status[i] = "superseded" =>
           /\ supersededBy[i] > i
           /\ supersededBy[i] <= issued
           /\ SameWorldline(i, supersededBy[i])
<1> SUFFICES ASSUME NEW i \in Id PROVE Good(i)'
  BY DEF SupersededByNewer
<1>1. Good(i) /\ i \in Int /\ issued \in Int /\ supersededBy[i] \in Id \cup {0}
  BY FiniteAssumption DEF SupersededByNewer, TypeOK, Id
<1>2. ASSUME NEW a \in Ask, Create(a) PROVE Good(i)'
  <2>1. PICK new \in Id : Inserted(new, a)
    BY <1>2, CreateRows
  <2>2. new \in Int /\ new > 0 /\ new = issued + 1 /\ issued' = new
    BY <2>1, FiniteAssumption DEF Inserted, Id
  <2>3. new \notin Replaced(a) /\ status[new] = "absent"
    BY <2>1, <2>2 DEF Inserted, Replaced, Active
  <2>4. CASE i \in Replaced(a)
    <3>1. i < new /\ i # new
      BY <2>1, <2>2, <2>4, <1>1 DEF Inserted, Replaced, Active
    <3>2. ask'[i] = ask[i] /\ ask'[new] = a
      BY <2>1, <3>1 DEF Inserted, TypeOK
    <3>3. SameWorldline(i, new)'
      BY <3>2, <2>4 DEF SameWorldline, Replaced
    <3>4. status'[i] = "superseded" /\ supersededBy'[i] = new
      BY <2>1, <2>4, <3>1 DEF Inserted
    <3> QED
      BY <3>1, <3>3, <3>4, <2>2, <1>1 DEF SameWorldline
  <2>5. CASE i \notin Replaced(a)
    <3>1. supersededBy'[i] = supersededBy[i]
      BY <2>1, <2>5 DEF Inserted
    <3>2. CASE i = new
      BY <3>1, <3>2, <2>1, <2>3, <1>1 DEF Inserted
    <3>3. CASE i # new
      <4>1. status'[i] = status[i] /\ ask'[i] = ask[i]
        BY <2>1, <2>5, <3>3 DEF Inserted, TypeOK
      <4>2. CASE status[i] # "superseded"
        BY <4>1, <4>2, <3>1, <1>1
      <4>3. CASE status[i] = "superseded"
        <5>1. supersededBy[i] \in Id /\ supersededBy[i] # new
              /\ supersededBy[i] <= issued' /\ supersededBy[i] > i
          BY <4>3, <1>1, <2>2, FiniteAssumption DEF Id
        <5>2. ask'[supersededBy[i]] = ask[supersededBy[i]]
          BY <5>1, <2>1 DEF Inserted, TypeOK
        <5>3. SameWorldline(i, supersededBy[i])'
          BY <5>2, <4>1, <4>3, <3>1, <1>1 DEF SameWorldline
        <5> QED
          BY <5>1, <5>3, <4>1, <4>3, <3>1, <1>1 DEF SameWorldline
      <4> QED
        BY <4>2, <4>3
    <3> QED
      BY <3>2, <3>3
  <2> QED
    BY <2>4, <2>5
<1>3. CASE issued' = issued /\ \A j \in Id : Kept(j)
  <2>1. CASE status[i] # "superseded"
    BY <2>1, <1>1, <1>3 DEF Kept
  <2>2. CASE status[i] = "superseded"
    BY <2>2, <1>1, <1>3 DEF Kept, SameWorldline
  <2> QED
    BY <2>1, <2>2
<1> QED
  BY <1>2, <1>3, OtherSteps

\* superseded_by of a superseded request always leads to a newer request of
\* the same worldline (Store.create_with_status).
THEOREM SupersessionIsForward == Spec => []SupersededByNewer
<1>1. Init => SupersededByNewer
  BY DEF Init, SupersededByNewer
<1>2. TypeOK /\ SupersededByNewer /\ [Next]_vars => SupersededByNewer'
  BY SupersededStep
<1> QED
  BY <1>1, <1>2, TypeCorrect, PTL DEF Spec

LEMMA KeyStep ==
  ASSUME TypeOK, OneRequestPerKey, [Next]_vars
  PROVE  OneRequestPerKey'
<1> DEFINE Clash(i, j) == /\ status[i] # "absent" /\ status[j] # "absent"
                          /\ ask[i].idem # NoKey
                          /\ ask[i].source = ask[j].source
                          /\ ask[i].idem = ask[j].idem
<1> SUFFICES ASSUME NEW i \in Id, NEW j \in Id, Clash(i, j)' PROVE i = j
  BY DEF OneRequestPerKey
<1>1. ASSUME NEW a \in Ask, Create(a) PROVE i = j
  <2>1. PICK new \in Id : Inserted(new, a)
    BY <1>1, CreateRows
  <2>2. ASSUME NEW k \in Id, k # new, status'[k] # "absent"
        PROVE  ask'[k] = ask[k] /\ status[k] # "absent"
    BY <2>1, <2>2 DEF Inserted, TypeOK, Replaced, Active
  <2>3. ASSUME NEW k \in Id, k # new, status'[k] # "absent", a.idem # NoKey,
               ask'[k].source = a.source, ask'[k].idem = a.idem
        PROVE  FALSE
    <3>1. k \in Existing(a)
      BY <2>2, <2>3 DEF Existing
    <3> QED
      BY <3>1, <1>1 DEF Create
  <2>4. ask'[new] = a
    BY <2>1 DEF Inserted, TypeOK
  <2>5. CASE i = new
    BY <2>3, <2>4, <2>5
  <2>6. CASE j = new
    BY <2>3, <2>4, <2>6
  <2>7. CASE i # new /\ j # new
    BY <2>2, <2>7 DEF OneRequestPerKey
  <2> QED
    BY <2>5, <2>6, <2>7
<1>2. CASE Kept(i) /\ Kept(j)
  BY <1>2 DEF Kept, OneRequestPerKey
<1> QED
  BY <1>1, <1>2, OtherSteps

\* No retry of a creation, whenever it comes, adds a second request under its
\* key (Store.create_with_status, the lookup inside the transaction).
THEOREM RetriesAreIdempotent == Spec => []OneRequestPerKey
<1>1. Init => OneRequestPerKey
  BY DEF Init, OneRequestPerKey
<1>2. TypeOK /\ OneRequestPerKey /\ [Next]_vars => OneRequestPerKey'
  BY KeyStep
<1> QED
  BY <1>1, <1>2, TypeCorrect, PTL DEF Spec

-----------------------------------------------------------------------------
(* What no step may do.                                                    *)

LEMMA ClosedRowIsKept ==
  ASSUME TypeOK, Next, NEW j \in Id, status[j] \in Terminal
  PROVE  Row(j)' = Row(j)
<1>1. ASSUME NEW a \in Ask, Create(a) PROVE Row(j)' = Row(j)
  <2>1. j # issued + 1 /\ j \notin Replaced(a)
    BY <1>1, FiniteAssumption DEF TypeOK, Terminal, Active, Replaced, Id
  <2>2. ask'[j] = ask[j] /\ status'[j] = status[j]
    BY <1>1, <2>1 DEF Create, TypeOK
  <2>3. supersededBy'[j] = supersededBy[j] /\ audit'[j] = audit[j]
    BY <1>1, <2>1 DEF Create, TypeOK
  <2> QED
    BY <1>1, <2>2, <2>3 DEF Row, Create
<1>2. ASSUME NEW i \in Id, NEW b \in Actor, Claim(i, b) PROVE Row(j)' = Row(j)
  <2>1. i # j
    BY <1>2 DEF Claim, Claimable, Terminal
  <2> QED
    BY <1>2, <2>1 DEF Claim, Row, TypeOK
<1>3. ASSUME NEW i \in Id, NEW v \in Vote, NEW w \in Decision, Finalize(i, v, w)
      PROVE  Row(j)' = Row(j)
  <2>1. i # j
    BY <1>3 DEF Finalize, Cast, IsOpen, Active, Terminal
  <2>2. votes'[j] = votes[j] /\ status'[j] = status[j] /\ resolution'[j] = resolution[j]
    BY <1>3, <2>1 DEF Finalize, Cast, TypeOK
  <2>3. audit'[j] = audit[j] /\ (j \in resumeOutbox' <=> j \in resumeOutbox)
    BY <1>3, <2>1 DEF Finalize, TypeOK
  <2> QED
    BY <1>3, <2>2, <2>3 DEF Finalize, Row
<1>4. ASSUME NEW i \in Id, NEW v \in Vote, AwaitQuorum(i, v) PROVE Row(j)' = Row(j)
  <2>1. i # j
    BY <1>4 DEF AwaitQuorum, Cast, IsOpen, Active, Terminal
  <2>2. votes'[j] = votes[j] /\ status'[j] = status[j]
    BY <1>4, <2>1 DEF AwaitQuorum, Cast, TypeOK
  <2> QED
    BY <1>4, <2>2 DEF AwaitQuorum, Row
<1>5. ASSUME NEW i \in Id, NEW outcome \in {"expired", "cancelled"},
             MachineOutcome(i, outcome)
      PROVE  Row(j)' = Row(j)
  <2>1. i # j
    BY <1>5 DEF MachineOutcome, IsOpen, Active, Terminal
  <2> QED
    BY <1>5, <2>1 DEF MachineOutcome, Row, TypeOK
<1>6. ASSUME UNCHANGED vars PROVE Row(j)' = Row(j)
  BY <1>6 DEF vars, Row
<1> QED
  BY <1>1, <1>2, <1>3, <1>4, <1>5, <1>6 DEF Next, CreateRepeated, Late

\* A closed request is never written again (the terminal checks of claim,
\* resolve and apply_machine_outcome, and the filter of supersession).
THEOREM ClosedIsForGood == Spec => TerminalIsFrozen
<1>1. TypeOK /\ [Next]_vars
        => [\A i \in Id : status[i] \in Terminal => Row(i)' = Row(i)]_vars
  BY ClosedRowIsKept
<1> QED
  BY <1>1, TypeCorrect, PTL DEF Spec, TerminalIsFrozen

-----------------------------------------------------------------------------
(* Intents and the audit log.                                              *)

LEMMA IntentsStep ==
  ASSUME TypeOK, IntentsMatchRequests, [Next]_vars
  PROVE  IntentsMatchRequests'
<1> DEFINE Good(j) == /\ j \in channelOutbox <=> status[j] # "absent"
                      /\ j \in resumeOutbox <=> status[j] = "resolved" /\ ask[j].webhook
<1>0. /\ \A j \in Id : Good(j)
      /\ channelOutbox \subseteq Id /\ resumeOutbox \subseteq Id
  BY DEF IntentsMatchRequests
<1>t. channelOutbox' \subseteq Id /\ resumeOutbox' \subseteq Id
  BY NextType DEF TypeOK
<1> SUFFICES ASSUME NEW j \in Id PROVE Good(j)'
  BY <1>t DEF IntentsMatchRequests
<1>1. ASSUME NEW a \in Ask, Create(a) PROVE Good(j)'
  <2>1. PICK new \in Id : Inserted(new, a)
    BY <1>1, CreateRows
  <2>2. channelOutbox' = channelOutbox \cup {new} /\ resumeOutbox' = resumeOutbox
    BY <1>1, <2>1 DEF Create, Inserted
  <2>3. CASE j = new
    <3>1. status[j] = "absent" /\ status'[j] = "pending"
      BY <2>1, <2>3, FiniteAssumption DEF Inserted, Id
    <3> QED
      BY <3>1, <2>2, <2>3, <1>0
  <2>4. CASE j \in Replaced(a) /\ j # new
    <3>1. status[j] \in Active /\ status'[j] = "superseded"
      BY <2>1, <2>4 DEF Inserted, Replaced
    <3> QED
      BY <3>1, <2>2, <2>4, <1>0 DEF Active
  <2>5. CASE j \notin Replaced(a) /\ j # new
    <3>1. status'[j] = status[j] /\ ask'[j] = ask[j]
      BY <2>1, <2>5 DEF Inserted, TypeOK
    <3> QED
      BY <3>1, <2>2, <2>5, <1>0
  <2> QED
    BY <2>3, <2>4, <2>5
<1>2. ASSUME NEW i \in Id, NEW s, status[i] \in Active, s \notin {"absent", "resolved"},
             status' = [status EXCEPT ![i] = s],
             UNCHANGED <<ask, channelOutbox, resumeOutbox>>
      PROVE  Good(j)'
  <2>1. CASE i = j
    BY <1>2, <2>1, <1>0 DEF Active, TypeOK
  <2>2. CASE i # j
    BY <1>2, <2>2, <1>0 DEF TypeOK
  <2> QED
    BY <2>1, <2>2
<1>3. ASSUME NEW i \in Id, NEW b \in Actor, Claim(i, b) PROVE Good(j)'
  <2>1. status[i] \in Active /\ status' = [status EXCEPT ![i] = "claimed"]
        /\ UNCHANGED <<ask, channelOutbox, resumeOutbox>>
    BY <1>3 DEF Claim, Claimable, Active
  <2> QED
    BY <2>1, <1>2
<1>4. ASSUME NEW i \in Id, NEW v \in Vote, NEW w \in Decision, Finalize(i, v, w)
      PROVE  Good(j)'
  <2>1. /\ status[i] \in Active /\ status' = [status EXCEPT ![i] = "resolved"]
        /\ UNCHANGED <<ask, channelOutbox>>
        /\ resumeOutbox' = IF ask[i].webhook THEN resumeOutbox \cup {i} ELSE resumeOutbox
    BY <1>4 DEF Finalize, Cast, IsOpen, WantsResume
  <2>2. CASE i = j
    <3>1. j \notin resumeOutbox /\ j \in channelOutbox /\ status'[j] = "resolved"
      BY <2>1, <2>2, <1>0 DEF Active, TypeOK
    <3> QED
      BY <3>1, <2>1, <2>2
  <2>3. CASE i # j
    <3>1. status'[j] = status[j]
      BY <2>1, <2>3 DEF TypeOK
    <3> QED
      BY <3>1, <2>1, <2>3, <1>0
  <2> QED
    BY <2>2, <2>3
<1>5. ASSUME NEW i \in Id, NEW v \in Vote, AwaitQuorum(i, v) PROVE Good(j)'
  <2>1. status[i] \in Active /\ status' = [status EXCEPT ![i] = "claimed"]
        /\ UNCHANGED <<ask, channelOutbox, resumeOutbox>>
    BY <1>5 DEF AwaitQuorum, Cast, IsOpen
  <2> QED
    BY <2>1, <1>2
<1>6. ASSUME NEW i \in Id, NEW outcome \in {"expired", "cancelled"},
             MachineOutcome(i, outcome)
      PROVE  Good(j)'
  <2>1. status[i] \in Active /\ status' = [status EXCEPT ![i] = outcome]
        /\ UNCHANGED <<ask, channelOutbox, resumeOutbox>>
    BY <1>6 DEF MachineOutcome, IsOpen
  <2> QED
    BY <2>1, <1>2
<1>7. CASE UNCHANGED vars
  BY <1>7, <1>0 DEF vars
<1> QED
  BY <1>1, <1>3, <1>4, <1>5, <1>6, <1>7 DEF Next, CreateRepeated, Late

\* The outbox rows are exactly the owed ones: written in the transaction that
\* owes them (create_with_status, resolve) and on no other path.
THEOREM IntentsAreExact == Spec => []IntentsMatchRequests
<1>1. Init => IntentsMatchRequests
  BY DEF Init, IntentsMatchRequests
<1>2. TypeOK /\ IntentsMatchRequests /\ [Next]_vars => IntentsMatchRequests'
  BY IntentsStep
<1> QED
  BY <1>1, <1>2, TypeCorrect, PTL DEF Spec

Closings(log) == {n \in DOMAIN log : log[n] \in TerminalEvent}

LEMMA AppendProgress ==
  ASSUME NEW log \in Seq(AuditEvent), NEW e \in AuditEvent \ TerminalEvent
  PROVE  /\ Append(log, e) \in Seq(AuditEvent)
         /\ Closings(Append(log, e)) = Closings(log)
         /\ \A n \in Closings(log) : Append(log, e)[n] = log[n]
<1>1. /\ Len(log) \in Nat /\ DOMAIN log = 1..Len(log)
      /\ Append(log, e) \in Seq(AuditEvent)
      /\ DOMAIN Append(log, e) = 1..(Len(log) + 1)
      /\ \A n \in 1..Len(log) : Append(log, e)[n] = log[n]
      /\ Append(log, e)[Len(log) + 1] = e
  OBVIOUS
<1>2. \A n \in 1..(Len(log) + 1) : n \in 1..Len(log) \/ n = Len(log) + 1
  BY <1>1
<1> QED
  BY <1>1, <1>2 DEF Closings

LEMMA AppendClosing ==
  ASSUME NEW log \in Seq(AuditEvent), Closings(log) = {}, NEW e \in TerminalEvent
  PROVE  /\ Append(log, e) \in Seq(AuditEvent)
         /\ \E n \in Nat : Closings(Append(log, e)) = {n} /\ Append(log, e)[n] = e
<1>1. e \in AuditEvent
  BY DEF TerminalEvent, AuditEvent
<1>2. /\ Len(log) \in Nat /\ DOMAIN log = 1..Len(log)
      /\ Append(log, e) \in Seq(AuditEvent)
      /\ DOMAIN Append(log, e) = 1..(Len(log) + 1)
      /\ \A n \in 1..Len(log) : Append(log, e)[n] = log[n]
      /\ Append(log, e)[Len(log) + 1] = e
  BY <1>1
<1>3. \A n \in 1..(Len(log) + 1) : n \in 1..Len(log) \/ n = Len(log) + 1
  BY <1>2
<1>4. Closings(Append(log, e)) = {Len(log) + 1}
  BY <1>2, <1>3 DEF Closings
<1> QED
  BY <1>2, <1>4

LEMMA AppendBoth ==
  ASSUME NEW log \in Seq(AuditEvent), NEW e \in AuditEvent, NEW f \in AuditEvent
  PROVE  log \o <<e, f>> = Append(Append(log, e), f)
<1>1. /\ log \o <<e, f>> \in Seq(AuditEvent)
      /\ Append(Append(log, e), f) \in Seq(AuditEvent)
      /\ Len(log \o <<e, f>>) = Len(log) + 2
      /\ Len(Append(Append(log, e), f)) = Len(log) + 2
  OBVIOUS
<1>2. \A n \in 1..(Len(log) + 2) :
        (log \o <<e, f>>)[n] = Append(Append(log, e), f)[n]
  OBVIOUS
<1> QED
  BY <1>1, <1>2

\* What OneTerminalEvent says of one row.
Logged(log, s) ==
  IF s \in Terminal
  THEN \E n \in Nat : Closings(log) = {n} /\ log[n] = ClosingEvent(s)
  ELSE Closings(log) = {}

LEMMA LoggedProgress ==
  ASSUME NEW log \in Seq(AuditEvent), NEW s, NEW t, Logged(log, s),
         s \notin Terminal, t \notin Terminal, NEW e \in AuditEvent \ TerminalEvent
  PROVE  Logged(Append(log, e), t)
BY AppendProgress DEF Logged

LEMMA LoggedClosing ==
  ASSUME NEW log \in Seq(AuditEvent), NEW s, Logged(log, s), s \notin Terminal,
         NEW t \in Terminal
  PROVE  Logged(Append(log, ClosingEvent(t)), t)
<1>1. ClosingEvent(t) \in TerminalEvent
  BY DEF ClosingEvent, TerminalEvent
<1> QED
  BY <1>1, AppendClosing DEF Logged

LEMMA LoggedIntent ==
  ASSUME NEW log \in Seq(AuditEvent), NEW t \in Terminal, Logged(log, t)
  PROVE  Logged(Append(log, "resume_enqueued"), t)
<1>1. "resume_enqueued" \in AuditEvent \ TerminalEvent
  BY DEF AuditEvent, TerminalEvent
<1> QED
  BY <1>1, AppendProgress DEF Logged

LEMMA AuditStep ==
  ASSUME TypeOK, \A i \in Id : Logged(audit[i], status[i]), [Next]_vars
  PROVE  (\A i \in Id : Logged(audit[i], status[i]))'
<1> SUFFICES ASSUME NEW j \in Id PROVE Logged(audit'[j], status'[j])
  OBVIOUS
<1>0. Logged(audit[j], status[j]) /\ audit[j] \in Seq(AuditEvent)
  BY DEF TypeOK
<1>1. ASSUME NEW a \in Ask, Create(a) PROVE Logged(audit'[j], status'[j])
  <2>1. PICK new \in Id : Inserted(new, a) /\ new = issued + 1
    BY <1>1, CreateRows DEF Inserted
  <2>2. audit' = [i \in Id |-> IF i = new THEN Append(audit[i], "created")
                               ELSE IF i \in Replaced(a) THEN Append(audit[i], "superseded")
                               ELSE audit[i]]
    BY <1>1, <2>1 DEF Create
  <2>3. CASE j = new
    <3>1. status[j] = "absent" /\ status'[j] = "pending"
      BY <2>1, <2>3, FiniteAssumption DEF Inserted, TypeOK, Id
    <3>2. "created" \in AuditEvent \ TerminalEvent
      BY DEF AuditEvent, TerminalEvent
    <3>3. Logged(Append(audit[j], "created"), "pending")
      BY <3>1, <3>2, <1>0, LoggedProgress DEF Terminal
    <3> QED
      BY <3>1, <3>3, <2>2, <2>3
  <2>4. CASE j \in Replaced(a) /\ j # new
    <3>1. status[j] \in Active /\ status'[j] = "superseded"
      BY <2>1, <2>4 DEF Inserted, Replaced
    <3>2. Logged(Append(audit[j], ClosingEvent("superseded")), "superseded")
      BY <3>1, <1>0, LoggedClosing DEF Active, Terminal
    <3>3. audit'[j] = Append(audit[j], "superseded")
      BY <2>2, <2>4
    <3> QED
      BY <3>1, <3>2, <3>3 DEF ClosingEvent
  <2>5. CASE j \notin Replaced(a) /\ j # new
    <3>1. status'[j] = status[j] /\ audit'[j] = audit[j]
      BY <2>1, <2>2, <2>5 DEF Inserted, TypeOK
    <3> QED
      BY <3>1, <1>0
  <2> QED
    BY <2>3, <2>4, <2>5
<1>2. ASSUME NEW i \in Id, i # j, NEW s, NEW log,
             status' = [status EXCEPT ![i] = s], audit' = [audit EXCEPT ![i] = log]
      PROVE  Logged(audit'[j], status'[j])
  BY <1>0, <1>2 DEF TypeOK
<1>3. ASSUME NEW i \in Id, NEW b \in Actor, Claim(i, b)
      PROVE  Logged(audit'[j], status'[j])
  <2>1. CASE i = j
    <3>1. /\ status[j] = "pending" /\ status'[j] = "claimed"
          /\ audit'[j] = Append(audit[j], "claimed")
      BY <1>3, <2>1 DEF Claim, Claimable, TypeOK
    <3>2. "claimed" \in AuditEvent \ TerminalEvent
      BY DEF AuditEvent, TerminalEvent
    <3> QED
      BY <3>1, <3>2, <1>0, LoggedProgress DEF Terminal
  <2>2. CASE i # j
    BY <1>2, <1>3, <2>2 DEF Claim
  <2> QED
    BY <2>1, <2>2
<1>4. ASSUME NEW i \in Id, NEW v \in Vote, NEW w \in Decision, Finalize(i, v, w)
      PROVE  Logged(audit'[j], status'[j])
  <2>1. CASE i = j
    <3>1. /\ status[j] \in Active /\ status'[j] = "resolved"
          /\ audit'[j] \in {Append(audit[j], "resolved"),
                            audit[j] \o <<"resolved", "resume_enqueued">>}
      BY <1>4, <2>1 DEF Finalize, Cast, IsOpen, TypeOK
    <3>2. Logged(Append(audit[j], ClosingEvent("resolved")), "resolved")
      BY <3>1, <1>0, LoggedClosing DEF Active, Terminal
    <3>3. Logged(Append(audit[j], "resolved"), "resolved")
      BY <3>2 DEF ClosingEvent
    <3>4. Append(audit[j], "resolved") \in Seq(AuditEvent)
      BY <1>0 DEF AuditEvent
    <3>5. Logged(Append(Append(audit[j], "resolved"), "resume_enqueued"), "resolved")
      BY <3>3, <3>4, LoggedIntent DEF Terminal
    <3>6. audit[j] \o <<"resolved", "resume_enqueued">>
            = Append(Append(audit[j], "resolved"), "resume_enqueued")
      BY <1>0, AppendBoth DEF AuditEvent
    <3> QED
      BY <3>1, <3>3, <3>5, <3>6
  <2>2. CASE i # j
    <3>1. status'[j] = status[j] /\ audit'[j] = audit[j]
      BY <1>4, <2>2 DEF Finalize, TypeOK
    <3> QED
      BY <3>1, <1>0
  <2> QED
    BY <2>1, <2>2
<1>5. ASSUME NEW i \in Id, NEW v \in Vote, AwaitQuorum(i, v)
      PROVE  Logged(audit'[j], status'[j])
  <2>1. status[i] \in Active /\ status' = [status EXCEPT ![i] = "claimed"] /\ audit' = audit
    BY <1>5 DEF AwaitQuorum, Cast, IsOpen
  <2>2. /\ audit'[j] = audit[j]
        /\ status'[j] # status[j] => status[j] \in Active /\ status'[j] = "claimed"
    BY <2>1 DEF TypeOK
  <2> QED
    BY <2>2, <1>0 DEF Logged, Active, Terminal
<1>6. ASSUME NEW i \in Id, NEW outcome \in {"expired", "cancelled"},
             MachineOutcome(i, outcome)
      PROVE  Logged(audit'[j], status'[j])
  <2>1. CASE i = j
    <3>1. /\ status[j] \in Active /\ status'[j] = outcome
          /\ audit'[j] = Append(audit[j], OutcomeEvent(outcome))
      BY <1>6, <2>1 DEF MachineOutcome, IsOpen, TypeOK
    <3>2. OutcomeEvent(outcome) = ClosingEvent(outcome)
      BY DEF OutcomeEvent, ClosingEvent
    <3> QED
      BY <3>1, <3>2, <1>0, LoggedClosing DEF Active, Terminal
  <2>2. CASE i # j
    BY <1>2, <1>6, <2>2 DEF MachineOutcome
  <2> QED
    BY <2>1, <2>2
<1>7. CASE UNCHANGED vars
  BY <1>7, <1>0 DEF vars
<1> QED
  BY <1>1, <1>3, <1>4, <1>5, <1>6, <1>7 DEF Next, CreateRepeated, Late

\* The audit log names one terminal transition per closed request, the one
\* that set its status, and none for an open one: whichever of resolve,
\* supersession and machine outcome commits first silences the others.
THEOREM OneTerminalTransition == Spec => []OneTerminalEvent
<1> DEFINE Log == \A i \in Id : Logged(audit[i], status[i])
<1>1. Init => Log
  <2> SUFFICES ASSUME Init, NEW i \in Id PROVE Logged(audit[i], status[i])
    OBVIOUS
  <2>1. audit[i] = <<>> /\ status[i] = "absent"
    BY DEF Init
  <2>2. Closings(<<>>) = {}
    BY DEF Closings
  <2> QED
    BY <2>1, <2>2 DEF Logged, Terminal
<1>2. TypeOK /\ Log /\ [Next]_vars => Log'
  BY AuditStep
<1>3. Log => OneTerminalEvent
  <2> SUFFICES ASSUME Log, NEW i \in Id
               PROVE  IF status[i] \in Terminal
                      THEN \E n \in Closings(audit[i]) :
                             /\ Closings(audit[i]) = {n}
                             /\ audit[i][n] = ClosingEvent(status[i])
                      ELSE Closings(audit[i]) = {}
    BY DEF OneTerminalEvent, Closings
  <2>1. Logged(audit[i], status[i])
    OBVIOUS
  <2> QED
    BY <2>1 DEF Logged
<1> HIDE DEF Log
<1> QED
  BY <1>1, <1>2, <1>3, TypeCorrect, PTL DEF Spec

-----------------------------------------------------------------------------
(* Ownership.                                                              *)

\* ClaimedMeansOwnedOrVoted, with the rows that are still to be inserted.
Ownership ==
  \A i \in Id :
    /\ status[i] \in {"absent", "pending"} => claimedBy[i] = Nobody /\ votes[i] = {}
    /\ status[i] = "claimed" => claimedBy[i] # Nobody \/ votes[i] # {}
    /\ claimedBy[i] # Nobody /\ ask[i].route.actors # <<>> =>
         Listed(ask[i].route, claimedBy[i])

LEMMA OwnershipStep ==
  ASSUME TypeOK, Ownership, [Next]_vars
  PROVE  Ownership'
<1> DEFINE Good(j) ==
      /\ status[j] \in {"absent", "pending"} => claimedBy[j] = Nobody /\ votes[j] = {}
      /\ status[j] = "claimed" => claimedBy[j] # Nobody \/ votes[j] # {}
      /\ claimedBy[j] # Nobody /\ ask[j].route.actors # <<>> =>
           Listed(ask[j].route, claimedBy[j])
<1> SUFFICES ASSUME NEW j \in Id PROVE Good(j)'
  BY DEF Ownership
<1>0. Good(j)
  BY DEF Ownership
<1>1. ASSUME NEW a \in Ask, Create(a) PROVE Good(j)'
  <2>1. PICK new \in Id : Inserted(new, a)
    BY <1>1, CreateRows
  <2>2. UNCHANGED <<claimedBy, votes>>
    BY <1>1 DEF Create
  <2>3. CASE j = new
    <3>1. status[j] = "absent"
      BY <2>1, <2>3, FiniteAssumption DEF Inserted, TypeOK, Id
    <3>2. status'[j] = "pending"
      BY <2>1, <2>3 DEF Inserted
    <3> QED
      BY <3>1, <3>2, <2>2, <1>0
  <2>4. CASE j # new
    <3>1. ask'[j] = ask[j] /\ status'[j] \in {status[j], "superseded"}
      BY <2>1, <2>4 DEF Inserted, TypeOK
    <3> QED
      BY <3>1, <2>2, <1>0
  <2> QED
    BY <2>3, <2>4
<1>2. ASSUME NEW i \in Id, NEW b \in Actor, Claim(i, b) PROVE Good(j)'
  <2>1. ask' = ask /\ votes' = votes
    BY <1>2 DEF Claim
  <2>2. CASE i = j
    <3>1. status'[j] = "claimed" /\ claimedBy'[j] = b /\ b # Nobody
      BY <1>2, <2>2, NullAssumption DEF Claim, TypeOK
    <3>2. ask[j].route.actors # <<>> => Listed(ask[j].route, b)
      BY <1>2, <2>2 DEF Claim, Eligible, Listed
    <3> QED
      BY <2>1, <3>1, <3>2
  <2>3. CASE i # j
    <3>1. status'[j] = status[j] /\ claimedBy'[j] = claimedBy[j]
      BY <1>2, <2>3 DEF Claim, TypeOK
    <3> QED
      BY <2>1, <3>1, <1>0
  <2> QED
    BY <2>2, <2>3
<1>3. ASSUME NEW i \in Id, NEW v \in Vote, Cast(i, v), UNCHANGED <<ask, claimedBy>>,
             NEW s \in {"claimed", "resolved"}, status' = [status EXCEPT ![i] = s]
      PROVE  Good(j)'
  <2>1. CASE i = j
    <3>1. status'[j] = s /\ votes'[j] # {}
      BY <1>3, <2>1 DEF Cast, Upsert, TypeOK
    <3> QED
      BY <3>1, <1>3, <1>0
  <2>2. CASE i # j
    <3>1. status'[j] = status[j] /\ votes'[j] = votes[j]
      BY <1>3, <2>2 DEF Cast, TypeOK
    <3> QED
      BY <3>1, <1>3, <1>0
  <2> QED
    BY <2>1, <2>2
<1>4. ASSUME NEW i \in Id, NEW v \in Vote, NEW w \in Decision, Finalize(i, v, w)
      PROVE  Good(j)'
  BY <1>3, <1>4 DEF Finalize
<1>5. ASSUME NEW i \in Id, NEW v \in Vote, AwaitQuorum(i, v) PROVE Good(j)'
  BY <1>3, <1>5 DEF AwaitQuorum
<1>6. ASSUME NEW i \in Id, NEW outcome \in {"expired", "cancelled"},
             MachineOutcome(i, outcome)
      PROVE  Good(j)'
  <2>1. status'[j] \in {status[j], outcome} /\ UNCHANGED <<ask, claimedBy, votes>>
    BY <1>6 DEF MachineOutcome, TypeOK
  <2> QED
    BY <2>1, <1>0
<1>7. CASE UNCHANGED vars
  BY <1>7, <1>0 DEF vars
<1> QED
  BY <1>1, <1>2, <1>4, <1>5, <1>6, <1>7 DEF Next, CreateRepeated, Late

LEMMA OwnershipInvariant == Spec => []Ownership
<1>1. Init => Ownership
  BY DEF Init, Ownership
<1>2. TypeOK /\ Ownership /\ [Next]_vars => Ownership'
  BY OwnershipStep
<1> QED
  BY <1>1, <1>2, TypeCorrect, PTL DEF Spec

\* "claimed" means an eligible owner or a vote that waits for a quorum, and
\* "pending" means neither, though claim and resolve share the status.
THEOREM ClaimsAreExplained == Spec => []ClaimedMeansOwnedOrVoted
<1>1. Ownership => ClaimedMeansOwnedOrVoted
  BY DEF Ownership, ClaimedMeansOwnedOrVoted
<1> QED
  BY <1>1, OwnershipInvariant, PTL

LEMMA OwnerStep ==
  ASSUME TypeOK, Ownership, [Next]_vars, NEW j \in Id, claimedBy[j] # Nobody
  PROVE  claimedBy'[j] = claimedBy[j]
<1>1. ASSUME NEW i \in Id, NEW b \in Actor, Claim(i, b)
      PROVE  claimedBy'[j] = claimedBy[j]
  <2>1. i # j
    BY <1>1 DEF Claim, Claimable, Ownership
  <2> QED
    BY <1>1, <2>1 DEF Claim, TypeOK
<1> QED
  BY <1>1 DEF Next, vars, Create, CreateRepeated, Finalize, AwaitQuorum, MachineOutcome, Late

\* Whoever owns a request keeps it: claims of others, votes and machine
\* outcomes never change claimed_by.
THEOREM OwnersStay == Spec => OwnerNeverReplaced
<1>1. TypeOK /\ Ownership /\ [Next]_vars
        => [\A i \in Id : claimedBy[i] # Nobody => claimedBy'[i] = claimedBy[i]]_vars
  BY OwnerStep
<1> QED
  BY <1>1, TypeCorrect, OwnershipInvariant, PTL DEF Spec, OwnerNeverReplaced

-----------------------------------------------------------------------------
(* The store implements Boundary.                                          *)

Stages == [i \in Id |-> StageOf(status[i])]
Decided == [i \in Id |-> IF status[i] = "resolved"
                         THEN resolution[i].decision ELSE NoResolution]

LEMMA InitImplements == Init => B!BInit
BY DEF Init, B!BInit, StageOf, Active

LEMMA CreateImplements ==
  ASSUME TypeOK, NEW a \in Ask, Create(a)
  PROVE  B!BNext
<1>1. PICK new \in Id : Inserted(new, a)
  BY CreateRows
<1>2. new \notin Replaced(a) /\ status[new] = "absent"
  BY <1>1, FiniteAssumption DEF Inserted, Replaced, Active, Id
<1>3. \A j \in Replaced(a) : j \in Id /\ status[j] \in Active
  BY DEF Replaced
<1>4. Stages' = [j \in Id |-> IF j = new THEN "open"
                              ELSE IF j \in Replaced(a) THEN "replaced"
                              ELSE Stages[j]]
  BY <1>1 DEF Inserted, Stages, StageOf, Active
<1>5. Decided' = Decided
  <2>1. resolution' = resolution
    BY DEF Create
  <2>2. ASSUME NEW j \in Id PROVE status'[j] = "resolved" <=> status[j] = "resolved"
    BY <1>1, <1>2, <1>3 DEF Inserted, Active
  <2> QED
    BY <2>1, <2>2 DEF Decided
<1>6. resumeOutbox' = resumeOutbox
  BY DEF Create
<1>7. B!Open(new, Replaced(a))
  BY <1>2, <1>3, <1>4, <1>5, <1>6 DEF B!Open, B!IsOpen, Stages, Decided, StageOf, Active
<1> QED
  BY <1>3, <1>7 DEF B!BNext

LEMMA FinalizeImplements ==
  ASSUME TypeOK, NEW i \in Id, NEW v \in Vote, NEW w \in Decision, Finalize(i, v, w)
  PROVE  B!BNext
<1>1. status[i] \in Active /\ status' = [status EXCEPT ![i] = "resolved"]
  BY DEF Finalize, Cast, IsOpen
<1>2. resolution'[i].decision = w /\ \A j \in Id \ {i} : resolution'[j] = resolution[j]
  BY DEF Finalize, TypeOK
<1>3. Stages' = [Stages EXCEPT ![i] = "answered"]
  BY <1>1 DEF Stages, StageOf, Active, TypeOK
<1>4. Decided' = [Decided EXCEPT ![i] = w]
  BY <1>1, <1>2 DEF Decided, TypeOK
<1>5. resumeOutbox' \in {resumeOutbox, resumeOutbox \cup {i}}
  BY DEF Finalize
<1>6. B!Answer(i, w)
  BY <1>1, <1>3, <1>4, <1>5 DEF B!Answer, B!IsOpen, Stages, Decided, StageOf, Active
<1> QED
  BY <1>6 DEF B!BNext

LEMMA OutcomeImplements ==
  ASSUME TypeOK, NEW i \in Id, NEW outcome \in {"expired", "cancelled"},
         MachineOutcome(i, outcome)
  PROVE  B!BNext
<1>1. status[i] \in Active /\ status' = [status EXCEPT ![i] = outcome]
  BY DEF MachineOutcome, IsOpen
<1>2. Stages' = [Stages EXCEPT ![i] = "withdrawn"]
  BY <1>1 DEF Stages, StageOf, Active, TypeOK
<1>3. Decided' = Decided /\ resumeOutbox' = resumeOutbox
  BY <1>1 DEF Decided, TypeOK, MachineOutcome, Active
<1>4. B!Withdraw(i)
  BY <1>1, <1>2, <1>3 DEF B!Withdraw, B!IsOpen, Stages, Decided, StageOf, Active
<1> QED
  BY <1>4 DEF B!BNext

\* Claims and votes that wait are invisible.
LEMMA ProgressIsHidden ==
  ASSUME TypeOK, NEW i \in Id, status[i] \in Active,
         status' = [status EXCEPT ![i] = "claimed"],
         UNCHANGED <<resolution, resumeOutbox>>
  PROVE  UNCHANGED B!bvars
<1>1. Stages' = Stages
  BY DEF Stages, StageOf, Active, TypeOK
<1>2. Decided' = Decided
  BY DEF Decided, Active, TypeOK
<1> QED
  BY <1>1, <1>2 DEF B!bvars, Stages, Decided

LEMMA StepImplements == TypeOK /\ [Next]_vars => [B!BNext]_(B!bvars)
<1> SUFFICES ASSUME TypeOK, [Next]_vars PROVE [B!BNext]_(B!bvars)
  OBVIOUS
<1>1. ASSUME NEW a \in Ask, Create(a) PROVE B!BNext
  BY <1>1, CreateImplements
<1>2. ASSUME NEW i \in Id, NEW b \in Actor, Claim(i, b) PROVE UNCHANGED B!bvars
  BY <1>2, ProgressIsHidden DEF Claim, Claimable, Active
<1>3. ASSUME NEW i \in Id, NEW v \in Vote, NEW w \in Decision, Finalize(i, v, w)
      PROVE  B!BNext
  BY <1>3, FinalizeImplements
<1>4. ASSUME NEW i \in Id, NEW v \in Vote, AwaitQuorum(i, v) PROVE UNCHANGED B!bvars
  BY <1>4, ProgressIsHidden DEF AwaitQuorum, Cast, IsOpen
<1>5. ASSUME NEW i \in Id, NEW outcome \in {"expired", "cancelled"},
             MachineOutcome(i, outcome)
      PROVE  B!BNext
  BY <1>5, OutcomeImplements
<1>6. ASSUME UNCHANGED vars PROVE UNCHANGED B!bvars
  BY <1>6 DEF vars, B!bvars
<1> QED
  BY <1>1, <1>2, <1>3, <1>4, <1>5, <1>6 DEF Next, CreateRepeated, Late

\* The tables of app/store.py implement the abstract boundary: one opening, at
\* most one closing, an answer only from an answering step, and the resume
\* obligation incurred in that step.
THEOREM StoreImplementsBoundary == Spec => ImplementsBoundary
<1> QED
  BY InitImplements, StepImplements, TypeCorrect, PTL DEF Spec, ImplementsBoundary, B!BSpec
=============================================================================
