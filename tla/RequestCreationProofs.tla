----------------------- MODULE RequestCreationProofs -----------------------
(***************************************************************************)
(* Theorems about the two ways into the request store: ClientAsk, for      *)
(* every number of asks, attempts, payloads and requests, and              *)
(* AttentionBudget, for every set of groups, policies and hours.  Every    *)
(* step of the SDK, and every step of the budget, is a step of the store or*)
(* leaves it alone, so that what RequestStoreProofs shows of the store     *)
(* holds here.                                                             *)
(***************************************************************************)
EXTENDS ClientAsk, AttentionBudget, RequestStoreProofs

-----------------------------------------------------------------------------
(* The store under its clients.                                            *)

LEMMA PayloadsAreAsks ==
  ASSUME NEW c \in Client
  PROVE  /\ Payloads(c) \in Ask
         /\ Payloads(c).source = Wants[c].source
         /\ Payloads(c).idem = KeyOf(c) /\ KeyOf(c) \in Key /\ KeyOf(c) # NoKey
<1>1. Wants[c] \in Payload /\ Fresh[c] \in Key /\ Payloads(c) \in Ask
  BY ClientAssumption
<1>2. KeyOf(c) \in Key
  BY <1>1 DEF KeyOf, Payload
<1>3. Payloads(c).source = Wants[c].source /\ Payloads(c).idem = KeyOf(c)
  BY <1>1, <1>2 DEF Payloads, Payload
<1> QED
  BY <1>1, <1>2, <1>3, NullAssumption

LEMMA ReachIsStoreStep ==
  ASSUME NEW c \in Client, NEW i \in Id, Reach(c, i)
  PROVE  Next
BY PayloadsAreAsks DEF Reach, Next

LEMMA StoreStep ==
  ASSUME [CNext]_cvars
  PROVE  [Next]_vars
<1>1. ASSUME NEW c \in Client, Serve(c) \/ ServeLate(c) PROVE Next
  BY <1>1, ReachIsStoreStep DEF Serve, ServeLate
<1>2. ASSUME NEW c \in Client,
             Send(c) \/ Receive(c) \/ AttemptFails(c) \/ Vanish(c) \/ Poll(c) \/ GiveUp(c)
      PROVE  UNCHANGED vars
  BY <1>2 DEF Send, Receive, AttemptFails, Vanish, Poll, GiveUp
<1>3. CASE Others
  BY <1>3 DEF Others, Next
<1>4. CASE UNCHANGED cvars
  BY <1>4 DEF cvars
<1> QED
  BY <1>1, <1>2, <1>3, <1>4 DEF CNext

\* Whatever the clients and the network do, the Gateway's store behaves as
\* RequestStore allows.
THEOREM ClientsUseTheStore == CSpec => Spec
<1>1. CInit => Init
  BY DEF CInit
<1>2. [CNext]_cvars => [Next]_vars
  BY StoreStep
<1> QED
  BY <1>1, <1>2, PTL DEF CSpec, Spec

-----------------------------------------------------------------------------
(* What a client knows of its request.                                     *)

ClientTypeOK ==
  /\ phase \in [Client -> {"idle", "posting", "backoff", "waiting"} \cup Concluded]
  /\ post \in [Client -> {"none", "travelling", "served"}]
  /\ bound \in [Client -> Id \cup {0}]
  /\ reached \in [Client -> SUBSET Id]
  /\ result \in [Client -> Resolution \cup {NoResolution}]

\* Request i was created for c, or is the one its key already named.
Raised(c, i) ==
  status[i] # "absent" /\ ask[i].source = Wants[c].source /\ ask[i].idem = KeyOf(c)

\* Requests that POSTs of c led to carry its key, the id c waits with is one of
\* them, and what c returned is still the resolution there.
Bookkeeping ==
  \A c \in Client :
    /\ \A i \in reached[c] : Raised(c, i)
    /\ post[c] # "none" => phase[c] = "posting"
    /\ post[c] = "served" \/ phase[c] \in {"waiting", "answered"} => bound[c] \in reached[c]
    /\ phase[c] = "answered" => /\ status[bound[c]] = "resolved"
                                /\ result[c] = resolution[bound[c]]

\* What a step of the store leaves of a request.
LEMMA RaisedStays ==
  ASSUME TypeOK, [Next]_vars, NEW c \in Client, NEW i \in Id, Raised(c, i)
  PROVE  Raised(c, i)'
<1>1. ASSUME NEW a \in Ask, Create(a) PROVE Raised(c, i)'
  <2>1. PICK new \in Id : Inserted(new, a)
    BY <1>1, CreateRows
  <2>2. i # new /\ new \in Int
    BY <2>1, FiniteAssumption DEF Inserted, Raised, Id
  <2> QED
    BY <2>1, <2>2 DEF Inserted, Raised, TypeOK
<1>2. CASE Kept(i)
  BY <1>2 DEF Kept, Raised
<1> QED
  BY <1>1, <1>2, OtherSteps

LEMMA ResolvedStays ==
  ASSUME TypeOK, [Next]_vars, NEW i \in Id, status[i] = "resolved"
  PROVE  status'[i] = "resolved" /\ resolution'[i] = resolution[i]
<1>1. CASE Next
  BY <1>1, ClosedRowIsKept DEF Row, Terminal
<1>2. CASE UNCHANGED vars
  BY <1>2 DEF vars
<1> QED
  BY <1>1, <1>2

\* A POST that is handled leads to a request that carries the key of the ask.
LEMMA ReachRaises ==
  ASSUME TypeOK, NEW c \in Client, NEW i \in Id, Reach(c, i)
  PROVE  Raised(c, i)'
<1> DEFINE a == Payloads(c)
<1>a. a \in Ask /\ a.source = Wants[c].source /\ a.idem = KeyOf(c)
  BY PayloadsAreAsks
<1>1. CASE Create(a) /\ i = issued'
  <2>1. PICK new \in Id : Inserted(new, a)
    BY <1>1, <1>a, CreateRows
  <2>2. ask'[i] = a /\ status'[i] = "pending"
    BY <1>1, <2>1 DEF Inserted, TypeOK
  <2> QED
    BY <1>a, <2>2 DEF Raised
<1>2. CASE CreateRepeated(a) /\ i \in Existing(a)
  BY <1>a, <1>2 DEF CreateRepeated, Existing, Raised, vars
<1> QED
  BY <1>1, <1>2 DEF Reach

\* Steps after which a client other than c knows what it knew.
LEMMA KnowledgeStays ==
  ASSUME TypeOK, ClientTypeOK, Bookkeeping, [Next]_vars, NEW c \in Client,
         phase'[c] = phase[c], post'[c] = post[c], bound'[c] = bound[c],
         reached'[c] = reached[c], result'[c] = result[c]
  PROVE  /\ \A i \in reached'[c] : Raised(c, i)'
         /\ post'[c] # "none" => phase'[c] = "posting"
         /\ post'[c] = "served" \/ phase'[c] \in {"waiting", "answered"}
              => bound'[c] \in reached'[c]
         /\ phase'[c] = "answered" => /\ status'[bound'[c]] = "resolved"
                                      /\ result'[c] = resolution'[bound'[c]]
<1>1. \A i \in reached'[c] : Raised(c, i)'
  BY RaisedStays DEF Bookkeeping, ClientTypeOK
<1>2. phase[c] = "answered" => bound[c] \in Id
  BY DEF Bookkeeping, ClientTypeOK
<1>3. phase'[c] = "answered" => /\ status'[bound'[c]] = "resolved"
                                /\ result'[c] = resolution'[bound'[c]]
  BY <1>2, ResolvedStays DEF Bookkeeping
<1> QED
  BY <1>1, <1>3 DEF Bookkeeping

LEMMA ClientStep ==
  ASSUME TypeOK, ClientTypeOK, Bookkeeping, [CNext]_cvars
  PROVE  ClientTypeOK'
<1>1. ASSUME NEW c \in Client, Send(c) \/ Receive(c) \/ AttemptFails(c) \/ Vanish(c) \/ GiveUp(c)
      PROVE  ClientTypeOK'
  BY <1>1 DEF Send, Receive, AttemptFails, Vanish, GiveUp, ClientTypeOK, Concluded
<1>2. ASSUME NEW c \in Client, Serve(c) \/ ServeLate(c) PROVE ClientTypeOK'
  BY <1>2 DEF Serve, ServeLate, Reach, ClientTypeOK
<1>3. ASSUME NEW c \in Client, Poll(c) PROVE ClientTypeOK'
  <2>1. bound[c] \in Id
    BY <1>3 DEF Poll, Bookkeeping, ClientTypeOK
  <2> QED
    BY <1>3, <2>1 DEF Poll, ClientTypeOK, TypeOK, Concluded
<1>4. CASE Others \/ UNCHANGED cvars
  BY <1>4 DEF Others, cvars, clientVars, ClientTypeOK
<1> QED
  BY <1>1, <1>2, <1>3, <1>4 DEF CNext

LEMMA BookStep ==
  ASSUME TypeOK, ClientTypeOK, Bookkeeping, [CNext]_cvars
  PROVE  Bookkeeping'
<1>s. [Next]_vars
  BY StoreStep
<1> DEFINE Same(d) == /\ phase'[d] = phase[d] /\ post'[d] = post[d]
                      /\ bound'[d] = bound[d] /\ reached'[d] = reached[d]
                      /\ result'[d] = result[d]
           Knows(d) == /\ \A i \in reached'[d] : Raised(d, i)'
                       /\ post'[d] # "none" => phase'[d] = "posting"
                       /\ post'[d] = "served" \/ phase'[d] \in {"waiting", "answered"}
                            => bound'[d] \in reached'[d]
                       /\ phase'[d] = "answered" => /\ status'[bound'[d]] = "resolved"
                                                    /\ result'[d] = resolution'[bound'[d]]
<1>k. ASSUME NEW d \in Client, Same(d) PROVE Knows(d)
  BY <1>s, <1>k, KnowledgeStays
<1>r. \A d \in Client : \A i \in reached[d] : Raised(d, i)'
  BY <1>s, RaisedStays DEF Bookkeeping, ClientTypeOK
<1>a. \A d \in Client : phase[d] = "answered" =>
        bound[d] \in Id /\ status'[bound[d]] = "resolved" /\ result[d] = resolution'[bound[d]]
  BY <1>s, ResolvedStays DEF Bookkeeping, ClientTypeOK
<1>1. ASSUME NEW c \in Client, NEW d \in Client, d # c,
             Send(c) \/ Serve(c) \/ Receive(c) \/ AttemptFails(c) \/ ServeLate(c) \/ Vanish(c)
               \/ Poll(c) \/ GiveUp(c)
      PROVE  Same(d)
  BY <1>1 DEF Send, Serve, Receive, AttemptFails, ServeLate, Vanish, Poll, GiveUp, Reach, ClientTypeOK
<1>2. ASSUME NEW c \in Client,
             Send(c) \/ Receive(c) \/ AttemptFails(c) \/ Vanish(c) \/ GiveUp(c)
      PROVE  Knows(c)
  BY <1>2, <1>r, <1>a
     DEF Send, Receive, AttemptFails, Vanish, GiveUp, Bookkeeping, ClientTypeOK
<1>3. ASSUME NEW c \in Client, NEW i \in Id, Reach(c, i),
             phase'[c] = phase[c], result'[c] = result[c],
             \/ post[c] = "travelling" /\ post'[c] = "served" /\ bound'[c] = i
             \/ post'[c] = post[c] /\ bound'[c] = bound[c]
      PROVE  Knows(c)
  <2>1. Raised(c, i)' /\ reached'[c] = reached[c] \cup {i}
    BY <1>3, ReachRaises DEF Reach, ClientTypeOK
  <2>2. \A j \in reached'[c] : Raised(c, j)'
    BY <1>r, <2>1
  <2> QED
    BY <1>3, <1>a, <2>1, <2>2 DEF Bookkeeping
<1>4. ASSUME NEW c \in Client, Serve(c) PROVE Knows(c)
  <2>1. PICK i \in Id : Reach(c, i) /\ bound' = [bound EXCEPT ![c] = i]
    BY <1>4 DEF Serve
  <2> QED
    BY <1>3, <1>4, <2>1 DEF Serve, ClientTypeOK
<1>5. ASSUME NEW c \in Client, ServeLate(c) PROVE Knows(c)
  <2>1. PICK i \in Id : Reach(c, i)
    BY <1>5 DEF ServeLate
  <2> QED
    BY <1>3, <1>5, <2>1 DEF ServeLate
<1>6. ASSUME NEW c \in Client, Poll(c) PROVE Knows(c)
  <2>1. bound[c] \in reached[c] /\ bound[c] \in Id /\ phase[c] = "waiting"
    BY <1>6 DEF Poll, Bookkeeping, ClientTypeOK
  <2>2. UNCHANGED <<status, resolution, post, bound, reached>>
    BY <1>6 DEF Poll, vars
  <2>3. CASE Answered(bound[c]) /\ phase' = [phase EXCEPT ![c] = "answered"]
               /\ result' = [result EXCEPT ![c] = resolution[bound[c]]]
    BY <1>r, <2>1, <2>2, <2>3 DEF Answered, Bookkeeping, ClientTypeOK
  <2>4. CASE Ended(bound[c]) /\ phase' = [phase EXCEPT ![c] = "closed"]
    BY <1>r, <2>1, <2>2, <2>4 DEF Bookkeeping, ClientTypeOK
  <2> QED
    BY <1>6, <2>3, <2>4 DEF Poll
<1>7. CASE Others \/ UNCHANGED cvars
  <2>1. \A d \in Client : Same(d)
    BY <1>7 DEF Others, cvars, clientVars
  <2> QED
    BY <1>k, <2>1 DEF Bookkeeping
<1>8. ASSUME NEW c \in Client,
             Send(c) \/ Serve(c) \/ Receive(c) \/ AttemptFails(c) \/ ServeLate(c) \/ Vanish(c)
               \/ Poll(c) \/ GiveUp(c)
      PROVE  Bookkeeping'
  <2>1. Knows(c)
    BY <1>2, <1>4, <1>5, <1>6, <1>8
  <2>2. \A d \in Client \ {c} : Knows(d)
    BY <1>k, <1>1, <1>8
  <2>3. \A d \in Client : Knows(d)
    BY <2>1, <2>2
  <2> QED
    BY <2>3 DEF Bookkeeping
<1> QED
  BY <1>7, <1>8 DEF CNext

LEMMA ClientInvariant == CSpec => [](ClientTypeOK /\ Bookkeeping)
<1>1. CInit => ClientTypeOK /\ Bookkeeping
  BY DEF CInit, ClientTypeOK, Bookkeeping, Concluded
<1>2. TypeOK /\ ClientTypeOK /\ Bookkeeping /\ [CNext]_cvars => (ClientTypeOK /\ Bookkeeping)'
  BY ClientStep, BookStep
<1> QED
  BY <1>1, <1>2, ClientsUseTheStore, TypeCorrect, PTL DEF CSpec

-----------------------------------------------------------------------------
(* What an ask promises.                                                   *)

\* One call of HumanQueue.ask raises at most one human obligation, however
\* many POSTs are sent, lost, delayed or handled twice.
THEOREM AsksRaiseOneObligation == CSpec => []OneObligation
<1>1. OneRequestPerKey /\ ClientTypeOK /\ Bookkeeping => OneObligation
  <2> SUFFICES ASSUME OneRequestPerKey, ClientTypeOK, Bookkeeping, NEW c \in Client
               PROVE  Cardinality(reached[c]) <= 1
    BY DEF OneObligation
  <2>1. \A i, j \in reached[c] : i = j
    BY PayloadsAreAsks DEF OneRequestPerKey, Bookkeeping, Raised, ClientTypeOK
  <2>2. CASE reached[c] = {}
    BY <2>2, FS_EmptySet
  <2>3. CASE reached[c] # {}
    <3>1. PICK i : reached[c] = {i}
      BY <2>1, <2>3
    <3> QED
      BY <3>1, FS_Singleton
  <2> QED
    BY <2>2, <2>3
<1> QED
  BY <1>1, ClientInvariant, ClientsUseTheStore, RetriesAreIdempotent, PTL

\* What HumanQueue.ask returns is the canonical, quorum-backed resolution of
\* the one request it raised, at its own source.
THEOREM AnswersAreCanonical == CSpec => []AnswerIsCanonical
<1>1. OneRequestPerKey /\ ResolutionBacked /\ ClientTypeOK /\ Bookkeeping => AnswerIsCanonical
  <2> SUFFICES ASSUME OneRequestPerKey, ResolutionBacked, ClientTypeOK, Bookkeeping,
                      NEW c \in Client, phase[c] = "answered"
               PROVE  /\ reached[c] = {bound[c]}
                      /\ result[c] = resolution[bound[c]]
                      /\ Backed(bound[c])
                      /\ ask[bound[c]].source = Wants[c].source
    BY DEF AnswerIsCanonical
  <2>1. /\ bound[c] \in reached[c] /\ bound[c] \in Id
        /\ status[bound[c]] = "resolved" /\ result[c] = resolution[bound[c]]
    BY DEF Bookkeeping, ClientTypeOK
  <2>2. \A i \in reached[c] : i = bound[c]
    BY <2>1, PayloadsAreAsks DEF OneRequestPerKey, Bookkeeping, Raised, ClientTypeOK
  <2>3. Backed(bound[c])
    BY <2>1 DEF ResolutionBacked
  <2>4. ask[bound[c]].source = Wants[c].source
    BY <2>1 DEF Bookkeeping, Raised
  <2> QED
    BY <2>1, <2>2, <2>3, <2>4
<1> QED
  BY <1>1, ClientInvariant, ClientsUseTheStore, RetriesAreIdempotent, ResolutionsAreBacked, PTL

-----------------------------------------------------------------------------
(* The store under the budget.                                             *)

LEMMA SurfacingIsStoreStep ==
  ASSUME [BNext]_bvars
  PROVE  [Next]_vars
<1>1. ASSUME NEW a \in Ask, NEW at, CreateSurfaced(a, at) PROVE Next
  BY <1>1 DEF CreateSurfaced, Next
<1>2. ASSUME NEW g \in Group, NEW p \in Policy, SetBudget(g, p) PROVE UNCHANGED vars
  BY <1>2 DEF SetBudget
<1>3. CASE Tick \/ UNCHANGED bvars
  BY <1>3 DEF Tick, bvars
<1>4. CASE Answer
  BY <1>4 DEF Answer, Next
<1> QED
  BY <1>1, <1>2, <1>3, <1>4 DEF BNext

LEMMA SurfacesUseTheStore == BSpec => Spec
<1>1. BInit => Init
  BY DEF BInit
<1>2. [BNext]_bvars => [Next]_vars
  BY SurfacingIsStoreStep
<1> QED
  BY <1>1, <1>2, PTL DEF BSpec, Spec

LEMMA AnswersLeaveAsks ==
  ASSUME Answer
  PROVE  UNCHANGED <<issued, ask>>
BY DEF Answer, CreateRepeated, Claim, Finalize, AwaitQuorum, MachineOutcome, Late, vars

-----------------------------------------------------------------------------
(* The budget.                                                             *)

BudgetTypeOK ==
  /\ clock \in Nat
  /\ policy \in [Group -> BudgetPolicy]
  /\ surfaced \in [Id -> [at : Int, mode : {"none", "interrupt", "batch", "defer", "queue"},
                          limit : Nat]]

\* The refusable interrupts of g in the last hour up to request i.
Before(g, i) == {j \in Soft(g) : j <= i}

\* When each of them came, it and those before it fitted the budget; hours that
\* pass only take some of them away.
BudgetKept ==
  \A g \in Group : \A i \in Soft(g) : Cardinality(Before(g, i)) <= surfaced[i].limit

\* What is counted is a finite set of requests that exist.
LEMMA CountedAreFinite ==
  ASSUME TypeOK, NEW g
  PROVE  /\ 1..issued \subseteq Id /\ issued \in Nat
         /\ IsFiniteSet(Interrupts(g)) /\ Cardinality(Interrupts(g)) \in Nat
         /\ Soft(g) \subseteq 1..issued /\ IsFiniteSet(Soft(g))
<1>1. issued \in Nat /\ 1..issued \subseteq Id
  BY FiniteAssumption DEF TypeOK, Id
<1>2. IsFiniteSet(1..issued)
  BY <1>1, FS_Interval
<1>3. Interrupts(g) \subseteq 1..issued /\ Soft(g) \subseteq 1..issued
  BY DEF Interrupts, Soft
<1> QED
  BY <1>1, <1>2, <1>3, FS_Subset, FS_CardinalityType

LEMMA BudgetType ==
  ASSUME TypeOK, BudgetTypeOK, [BNext]_bvars
  PROVE  BudgetTypeOK'
<1>1. ASSUME NEW a \in Ask, NEW at \in {clock - 1, clock}, CreateSurfaced(a, at)
      PROVE  BudgetTypeOK'
  <2>1. Traits[a].group \in Group /\ policy[Traits[a].group].max \in Nat /\ at \in Int
    BY <1>1, BudgetAssumption DEF BudgetTypeOK, BudgetPolicy
  <2>2. Surface(a, at) \in {"interrupt", "batch", "defer", "queue"}
    BY DEF Surface
  <2> HIDE DEF Surface
  <2> QED
    BY <1>1, <2>1, <2>2 DEF CreateSurfaced, BudgetTypeOK
<1>2. ASSUME NEW g \in Group, NEW p \in Policy, SetBudget(g, p) PROVE BudgetTypeOK'
  BY <1>2, BudgetAssumption DEF SetBudget, BudgetTypeOK
<1>3. CASE Tick
  BY <1>3 DEF Tick, BudgetTypeOK
<1>4. CASE Answer \/ UNCHANGED bvars
  BY <1>4 DEF Answer, budgetVars, bvars, BudgetTypeOK
<1> QED
  BY <1>1, <1>2, <1>3, <1>4 DEF BNext

\* A new request joins its group only within the budget.
LEMMA CreateKeepsBudget ==
  ASSUME TypeOK, BudgetTypeOK, BudgetKept, NEW a \in Ask, NEW at \in {clock - 1, clock},
         CreateSurfaced(a, at)
  PROVE  BudgetKept'
<1> DEFINE new == issued + 1
<1>1. /\ new \in Id /\ issued' = new /\ issued \in Nat /\ clock \in Nat
      /\ \A j \in 1..issued : j \in Id /\ j # new
  BY FiniteAssumption DEF CreateSurfaced, Create, TypeOK, BudgetTypeOK, Id
<1>2. /\ ask'[new] = a /\ \A j \in 1..issued : ask'[j] = ask[j]
      /\ surfaced'[new] = [at |-> at, mode |-> Surface(a, at), limit |-> policy[Traits[a].group].max]
      /\ \A j \in 1..issued : surfaced'[j] = surfaced[j]
      /\ clock' = clock
  BY <1>1 DEF CreateSurfaced, Create, TypeOK, BudgetTypeOK
<1> SUFFICES ASSUME NEW g \in Group, NEW i \in Soft(g)'
             PROVE  Cardinality(Before(g, i)') <= surfaced'[i].limit
  BY DEF BudgetKept
<1>3. \A j \in 1..issued : j \in Soft(g)' <=> j \in Soft(g)
  BY <1>1, <1>2 DEF Soft
<1>4. i \in 1..issued \/ i = new
  BY <1>1 DEF Soft
<1>5. CASE i \in 1..issued
  <2>1. Before(g, i)' = Before(g, i)
    <3>1. \A j : j \in Before(g, i)' <=> j \in 1..issued /\ j \in Soft(g)' /\ j <= i
      BY <1>1, <1>5 DEF Before, Soft
    <3>2. \A j : j \in Before(g, i) <=> j \in 1..issued /\ j \in Soft(g) /\ j <= i
      BY DEF Before, Soft
    <3> QED
      BY <1>3, <3>1, <3>2
  <2> QED
    BY <1>2, <1>3, <1>5, <2>1 DEF BudgetKept
<1>6. CASE i = new
  <2>1. /\ Surface(a, at) = "interrupt" /\ ~Traits[a].hard /\ Traits[a].group = g
    BY <1>2, <1>6 DEF Soft
  <2>2. Affordable(a, at)
    BY <2>1 DEF Surface
  <2>3. Cardinality(Interrupts(g)) < policy[g].max /\ policy[g].max \in Nat
    BY <2>1, <2>2 DEF Affordable, BudgetTypeOK, BudgetPolicy
  <2>4. IsFiniteSet(Interrupts(g)) /\ Cardinality(Interrupts(g)) \in Nat
    BY CountedAreFinite
  <2>5. Before(g, i)' \subseteq Interrupts(g) \cup {new}
    <3> SUFFICES ASSUME NEW j \in Soft(g)', j # new PROVE j \in Interrupts(g)
      BY DEF Before
    <3>1. j \in 1..issued
      BY <1>1 DEF Soft
    <3>2. /\ surfaced[j].mode = "interrupt" /\ clock - surfaced[j].at <= 1
          /\ Traits[ask[j]].group = g
      BY <1>3, <3>1 DEF Soft
    <3>3. surfaced[j].at \in Int
      BY <1>1, <3>1 DEF BudgetTypeOK
    <3> QED
      BY <1>1, <3>1, <3>2, <3>3 DEF Interrupts
  <2>6. /\ IsFiniteSet(Interrupts(g) \cup {new})
        /\ Cardinality(Interrupts(g) \cup {new}) <= Cardinality(Interrupts(g)) + 1
        /\ Cardinality(Interrupts(g) \cup {new}) \in Nat
    <3>1. /\ IsFiniteSet(Interrupts(g) \cup {new})
          /\ \/ Cardinality(Interrupts(g) \cup {new}) = Cardinality(Interrupts(g))
             \/ Cardinality(Interrupts(g) \cup {new}) = Cardinality(Interrupts(g)) + 1
      BY <2>4, FS_AddElement
    <3> QED
      BY <2>4, <3>1
  <2>7. /\ Cardinality(Before(g, i)') <= Cardinality(Interrupts(g) \cup {new})
        /\ Cardinality(Before(g, i)') \in Nat
    BY <2>5, <2>6, FS_Subset, FS_CardinalityType
  <2>8. surfaced'[i].limit = policy[g].max
    BY <1>2, <1>6, <2>1
  <2> HIDE DEF Before, Interrupts
  <2> QED
    BY <2>3, <2>4, <2>6, <2>7, <2>8
<1> QED
  BY <1>4, <1>5, <1>6

\* Fewer interrupts, the same limits.
LEMMA FewerKeepBudget ==
  ASSUME TypeOK, BudgetTypeOK, BudgetKept, UNCHANGED <<issued, ask, surfaced>>,
         clock' \in Nat, clock' >= clock
  PROVE  BudgetKept'
<1> SUFFICES ASSUME NEW g \in Group, NEW i \in Soft(g)'
             PROVE  Cardinality(Before(g, i)') <= surfaced[i].limit
  BY DEF BudgetKept
<1>1. \A j \in Soft(g)' : j \in Soft(g)
  <2> TAKE j \in Soft(g)'
  <2>1. j \in 1..issued /\ clock' - surfaced[j].at <= 1
    BY DEF Soft
  <2>2. surfaced[j].at \in Int /\ clock \in Nat
    BY <2>1, CountedAreFinite DEF BudgetTypeOK
  <2>3. clock - surfaced[j].at <= 1
    BY <2>1, <2>2
  <2> QED
    BY <2>1, <2>3 DEF Soft
<1>2. Before(g, i)' \subseteq Before(g, i)
  BY <1>1 DEF Before
<1>3. IsFiniteSet(Before(g, i))
  BY CountedAreFinite, FS_Subset DEF Before
<1>4. /\ Cardinality(Before(g, i)') <= Cardinality(Before(g, i))
      /\ Cardinality(Before(g, i)') \in Nat /\ Cardinality(Before(g, i)) \in Nat
  BY <1>2, <1>3, FS_Subset, FS_CardinalityType
<1>5. Cardinality(Before(g, i)) <= surfaced[i].limit /\ surfaced[i].limit \in Nat
  <2>1. i \in Soft(g) /\ i \in Id
    BY <1>1, CountedAreFinite
  <2> QED
    BY <2>1 DEF BudgetKept, BudgetTypeOK
<1> HIDE DEF Before
<1> QED
  BY <1>4, <1>5

LEMMA BudgetStep ==
  ASSUME TypeOK, BudgetTypeOK, BudgetKept, [BNext]_bvars
  PROVE  BudgetKept'
<1>1. ASSUME NEW a \in Ask, NEW at \in {clock - 1, clock}, CreateSurfaced(a, at)
      PROVE  BudgetKept'
  BY <1>1, CreateKeepsBudget
<1>2. ASSUME NEW g \in Group, NEW p \in Policy, SetBudget(g, p) PROVE BudgetKept'
  BY <1>2, FewerKeepBudget DEF SetBudget, vars, BudgetTypeOK
<1>3. CASE Tick
  BY <1>3, FewerKeepBudget DEF Tick, vars, BudgetTypeOK
<1>4. CASE Answer
  BY <1>4, FewerKeepBudget, AnswersLeaveAsks DEF Answer, budgetVars, BudgetTypeOK
<1>5. CASE UNCHANGED bvars
  BY <1>5, FewerKeepBudget DEF bvars, budgetVars, vars, BudgetTypeOK
<1> QED
  BY <1>1, <1>2, <1>3, <1>4, <1>5 DEF BNext

\* The soft interrupts of a group within an hour never exceed the limit under
\* which the newest of them was admitted (choose_surface and
\* _interrupts_last_hour inside the creating transaction), for any number of
\* concurrent creations, answers and changes of the policy.
THEOREM BudgetHolds == BSpec => []InterruptsWithinBudget
<1>1. BInit => BudgetTypeOK /\ BudgetKept
  BY BudgetAssumption DEF BInit, Init, BudgetTypeOK, BudgetKept, NotSurfaced, Soft
<1>2. TypeOK /\ BudgetTypeOK /\ BudgetKept /\ [BNext]_bvars => (BudgetTypeOK /\ BudgetKept)'
  BY BudgetType, BudgetStep
<1>3. BudgetKept => InterruptsWithinBudget
  <2> SUFFICES ASSUME BudgetKept, NEW g \in Group, NEW i \in Soft(g),
                      \A j \in Soft(g) : j <= i
               PROVE  Cardinality(Soft(g)) <= surfaced[i].limit
    BY DEF InterruptsWithinBudget
  <2>1. Before(g, i) = Soft(g)
    BY DEF Before
  <2> QED
    BY <2>1 DEF BudgetKept
<1> QED
  BY <1>1, <1>2, <1>3, SurfacesUseTheStore, TypeCorrect, PTL DEF BSpec
=============================================================================
