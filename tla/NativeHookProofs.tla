-------------------------- MODULE NativeHookProofs --------------------------
(***************************************************************************)
(* Theorems about NativeHook, and about CodexProof at the end, for every   *)
(* number of hooks, every set of events the assumptions admit, and every   *)
(* number of requests.  What the store promises comes from                 *)
(* RequestStoreProofs.                                                     *)
(***************************************************************************)
EXTENDS CodexProof, RequestStoreProofs

-----------------------------------------------------------------------------
(* The store under its hooks.                                              *)

LEMMA ReachIsStoreStep ==
  ASSUME NEW e \in Event, NEW i \in Id, Reaches(e, i)
  PROVE  Next
BY PayloadAssumption DEF Reaches, Next

LEMMA StoreStep ==
  ASSUME [HNext]_hvars
  PROVE  [Next]_vars
<1>1. ASSUME NEW h \in Hook, NEW e \in Event, AskHuman(h, e) \/ AskFails(h, e)
      PROVE  [Next]_vars
  BY <1>1, ReachIsStoreStep DEF AskHuman, AskFails
<1>2. ASSUME NEW h \in Hook, HearAnswer(h) \/ WaitFails(h) PROVE UNCHANGED vars
  BY <1>2 DEF HearAnswer, WaitFails
<1>3. CASE Others
  <2>1. ASSUME NEW i \in Id, NEW v \in Vote, Finalize(i, v, v.decision) PROVE Next
    BY <2>1 DEF Next, Vote
  <2> QED
    BY <1>3, <2>1 DEF Others, Next
<1>4. CASE UNCHANGED hvars
  BY <1>4 DEF hvars
<1> QED
  BY <1>1, <1>2, <1>3, <1>4 DEF HNext

LEMMA HooksUseTheStore == HSpec => Spec
<1>1. HInit => Init
  BY DEF HInit
<1>2. [HNext]_hvars => [Next]_vars
  BY StoreStep
<1> QED
  BY <1>1, <1>2, PTL DEF HSpec, Spec

-----------------------------------------------------------------------------
(* Where requests come from.                                               *)

HookTypeOK ==
  /\ event \in [Hook -> Event \cup {NoEvent}]
  /\ phase \in [Hook -> {"idle", "waiting", "done"}]
  /\ request \in [Hook -> Id \cup {0}]
  /\ told \in [Hook -> {"nothing", "allow", "deny", "ask"}]
  /\ raisedBy \in [Id -> Event \cup {NoEvent}]

\* Every request was raised for an event, with the payload of the event.
Provenance ==
  \A i \in Id : status[i] # "absent" =>
    raisedBy[i] \in Event /\ ask[i] = PayloadOf(raisedBy[i])

\* f is the event e, or one that e's key cannot tell from it.
SameKey(f, e) ==
  \/ f = e
  \/ f.runtime = e.runtime /\ Keys(f).idem = Keys(e).idem /\ Keys(e).idem # NoKey

\* A hook's request was raised for its event or found under its key; it is the
\* only one with a request that has no key.
RequestFits ==
  \A h \in Hook : request[h] # 0 =>
    /\ status[request[h]] # "absent" /\ event[h] \in Event
    /\ SameKey(raisedBy[request[h]], event[h])
    /\ \A g \in Hook \ {h} : request[g] = request[h] => Keys(event[h]).idem # NoKey

\* What h told its runtime is what its request says, for good.
ToldFits ==
  \A h \in Hook :
    /\ phase[h] = "idle" => request[h] = 0 /\ told[h] = "nothing"
    /\ phase[h] = "waiting" => request[h] # 0
    /\ told[h] \in {"allow", "deny"} =>
         /\ request[h] # 0 /\ status[request[h]] = "resolved"
         /\ resolution[request[h]].decision
              \in IF told[h] = "allow" THEN Approving ELSE Rejecting

HookInv == HookTypeOK /\ Provenance /\ RequestFits /\ ToldFits

\* What a create, or its repetition, does to the requests.
LEMMA ReachesRows ==
  ASSUME TypeOK, HookTypeOK, Provenance, NEW e \in Event, NEW i \in Id, Reaches(e, i)
  PROVE  /\ raisedBy' \in [Id -> Event \cup {NoEvent}]
         /\ \A j \in Id : status[j] # "absent" =>
              status'[j] # "absent" /\ ask'[j] = ask[j] /\ raisedBy'[j] = raisedBy[j]
         /\ \A j \in Id \ {i} : status'[j] # "absent" => status[j] # "absent"
         /\ status'[i] # "absent" /\ raisedBy'[i] \in Event
         /\ ask'[i] = PayloadOf(raisedBy'[i])
         /\ SameKey(raisedBy'[i], e)
         /\ status[i] # "absent" => Keys(e).idem # NoKey
<1> DEFINE a == PayloadOf(e)
<1>a. a \in Ask
  BY PayloadAssumption
<1>1. CASE /\ Create(a) /\ i = issued' /\ raisedBy' = [raisedBy EXCEPT ![i] = e]
  <2>1. PICK new \in Id : Inserted(new, a)
    BY <1>a, <1>1, CreateRows
  <2>2. i = new
    BY <1>1, <2>1 DEF Inserted
  <2>3. \A j \in Id : status[j] # "absent" => j # i
    BY <2>1, <2>2, FiniteAssumption DEF Inserted, Id
  <2>4. \A j \in Id \ {i} : ask'[j] = ask[j] /\ raisedBy'[j] = raisedBy[j]
    BY <1>1, <2>1, <2>2 DEF Inserted, TypeOK, HookTypeOK
  <2>5. \A j \in Id \ {i} : status'[j] # "absent" <=> status[j] # "absent"
    BY <2>1, <2>2 DEF Inserted, TypeOK, Replaced, Active
  <2>6. ask'[i] = a /\ raisedBy'[i] = e /\ status'[i] # "absent"
    BY <1>1, <2>1, <2>2 DEF Inserted, TypeOK, HookTypeOK
  <2>7. raisedBy' \in [Id -> Event \cup {NoEvent}]
    BY <1>1 DEF HookTypeOK
  <2> HIDE DEF a
  <2> QED
    BY <2>3, <2>4, <2>5, <2>6, <2>7 DEF SameKey, a
<1>2. CASE CreateRepeated(a) /\ i \in Existing(a) /\ UNCHANGED raisedBy
  <2>1. /\ status[i] # "absent" /\ ask[i].source = a.source /\ ask[i].idem = a.idem
        /\ a.idem # NoKey /\ UNCHANGED <<status, ask, raisedBy>>
    BY <1>2 DEF CreateRepeated, Existing, vars
  <2>2. raisedBy[i] \in Event /\ ask[i] = PayloadOf(raisedBy[i])
    BY <2>1 DEF Provenance
  <2>3. SameKey(raisedBy[i], e) /\ Keys(e).idem # NoKey
    BY <2>1, <2>2 DEF SameKey, PayloadOf
  <2> QED
    BY <2>1, <2>2, <2>3 DEF HookTypeOK
<1> QED
  BY <1>1, <1>2 DEF Reaches

\* What a resolution, an expiry or a cancellation does to them.
LEMMA OthersRows ==
  ASSUME TypeOK, Others
  PROVE  /\ \A j \in Id : status'[j] # "absent" <=> status[j] # "absent"
         /\ UNCHANGED <<ask, supersededBy>>
<1>1. ASSUME NEW i \in Id, NEW v \in Vote, Finalize(i, v, v.decision)
      PROVE  /\ \A j \in Id : status'[j] # "absent" <=> status[j] # "absent"
             /\ UNCHANGED <<ask, supersededBy>>
  BY <1>1 DEF Finalize, Cast, IsOpen, Active, TypeOK
<1>2. ASSUME NEW i \in Id, NEW outcome \in {"expired", "cancelled"}, MachineOutcome(i, outcome)
      PROVE  /\ \A j \in Id : status'[j] # "absent" <=> status[j] # "absent"
             /\ UNCHANGED <<ask, supersededBy>>
  BY <1>2 DEF MachineOutcome, IsOpen, Active, TypeOK
<1> QED
  BY <1>1, <1>2 DEF Others

LEMMA ResolvedStays ==
  ASSUME TypeOK, [Next]_vars, NEW i \in Id, status[i] = "resolved"
  PROVE  status'[i] = "resolved" /\ resolution'[i] = resolution[i]
<1>1. CASE Next
  BY <1>1, ClosedRowIsKept DEF Row, Terminal
<1>2. CASE UNCHANGED vars
  BY <1>2 DEF vars
<1> QED
  BY <1>1, <1>2

\* A hook that did nothing keeps what it knows when the requests only grow.
LEMMA HookStays ==
  ASSUME TypeOK, HookInv, [HNext]_hvars, NEW h \in Hook,
         event'[h] = event[h], request'[h] = request[h], phase'[h] = phase[h],
         told'[h] = told[h]
  PROVE  /\ phase'[h] = "idle" => request'[h] = 0 /\ told'[h] = "nothing"
         /\ phase'[h] = "waiting" => request'[h] # 0
         /\ told'[h] \in {"allow", "deny"} =>
              /\ request'[h] # 0 /\ status'[request'[h]] = "resolved"
              /\ resolution'[request'[h]].decision
                   \in IF told'[h] = "allow" THEN Approving ELSE Rejecting
<1>1. told[h] \in {"allow", "deny"} => request[h] \in Id
  BY DEF HookInv, HookTypeOK, ToldFits
<1>2. told[h] \in {"allow", "deny"} =>
        /\ status'[request[h]] = "resolved"
        /\ resolution'[request[h]] = resolution[request[h]]
  BY <1>1, StoreStep, ResolvedStays DEF HookInv, ToldFits
<1> QED
  BY <1>1, <1>2 DEF HookInv, ToldFits

\* The hook that reaches a boundary, heard or not.
LEMMA AskStep ==
  ASSUME TypeOK, HookInv, NEW h \in Hook, NEW e \in Event, AskHuman(h, e) \/ AskFails(h, e)
  PROVE  HookInv'
<1>n. HNext
  BY DEF HNext
<1>0. HookTypeOK /\ Provenance /\ RequestFits /\ ToldFits
  BY DEF HookInv
<1>1. /\ phase[h] = "idle" /\ request[h] = 0 /\ told[h] = "nothing"
      /\ event' = [event EXCEPT ![h] = e]
  BY <1>0 DEF AskHuman, AskFails, ToldFits
<1>2. \A g \in Hook \ {h} : /\ event'[g] = event[g] /\ phase'[g] = phase[g]
                            /\ request'[g] = request[g] /\ told'[g] = told[g]
  BY <1>0 DEF AskHuman, AskFails, HookTypeOK
<1>t. /\ phase'[h] # "idle" /\ told'[h] \in {"nothing", "ask"}
      /\ phase'[h] = "waiting" => request'[h] # 0
  <2>1. CASE AskHuman(h, e)
    BY <1>0, <1>1, <2>1 DEF AskHuman, HookTypeOK, Id
  <2>2. CASE AskFails(h, e)
    BY <1>0, <1>1, <2>2 DEF AskFails, HookTypeOK, Fallback
  <2> QED
    BY <2>1, <2>2
<1>3. ToldFits'
  <2> SUFFICES ASSUME NEW g \in Hook
               PROVE  /\ phase'[g] = "idle" => request'[g] = 0 /\ told'[g] = "nothing"
                      /\ phase'[g] = "waiting" => request'[g] # 0
                      /\ told'[g] \in {"allow", "deny"} =>
                           /\ request'[g] # 0 /\ status'[request'[g]] = "resolved"
                           /\ resolution'[request'[g]].decision
                                \in IF told'[g] = "allow" THEN Approving ELSE Rejecting
    BY DEF ToldFits
  <2>1. CASE g = h
    BY <1>t, <2>1
  <2>2. CASE g # h
    BY <1>n, <1>2, <2>2, HookStays
  <2> QED
    BY <2>1, <2>2
<1>4. CASE \E i \in Id : Reaches(e, i) /\ (request' = [request EXCEPT ![h] = i] \/ request' = request)
  <2> PICK i \in Id :
        Reaches(e, i) /\ (request' = [request EXCEPT ![h] = i] \/ request' = request)
    BY <1>4
  <2>1. /\ raisedBy' \in [Id -> Event \cup {NoEvent}]
        /\ \A j \in Id : status[j] # "absent" =>
             status'[j] # "absent" /\ ask'[j] = ask[j] /\ raisedBy'[j] = raisedBy[j]
        /\ \A j \in Id \ {i} : status'[j] # "absent" => status[j] # "absent"
        /\ status'[i] # "absent" /\ raisedBy'[i] \in Event
        /\ ask'[i] = PayloadOf(raisedBy'[i])
        /\ SameKey(raisedBy'[i], e)
        /\ status[i] # "absent" => Keys(e).idem # NoKey
    BY <1>0, ReachesRows
  <2>2. HookTypeOK'
    BY <1>0, <2>1 DEF AskHuman, AskFails, HookTypeOK, Fallback
  <2>3. Provenance'
    BY <1>0, <2>1 DEF Provenance
  <2>4. RequestFits'
    <3> SUFFICES ASSUME NEW g \in Hook, request'[g] # 0
                 PROVE  /\ status'[request'[g]] # "absent" /\ event'[g] \in Event
                        /\ SameKey(raisedBy'[request'[g]], event'[g])
                        /\ \A k \in Hook \ {g} : request'[k] = request'[g]
                             => Keys(event'[g]).idem # NoKey
      BY DEF RequestFits
    <3>1. CASE g = h
      <4>1. request'[h] = i /\ event'[h] = e
        BY <1>0, <1>1, <3>1 DEF HookTypeOK
      <4>2. ASSUME NEW k \in Hook \ {g}, request'[k] = i PROVE Keys(e).idem # NoKey
        <5>1. request[k] = i
          BY <1>2, <3>1, <4>2
        <5>2. status[i] # "absent"
          BY <1>0, <5>1 DEF RequestFits, Id
        <5> QED
          BY <2>1, <5>2
      <4> QED
        BY <2>1, <3>1, <4>1, <4>2
    <3>2. CASE g # h
      <4>1. /\ request'[g] = request[g] /\ event'[g] = event[g]
            /\ request[g] \in Id /\ status[request[g]] # "absent" /\ event[g] \in Event
            /\ SameKey(raisedBy[request[g]], event[g])
        BY <1>0, <1>2, <3>2 DEF RequestFits, HookTypeOK
      <4>2. SameKey(raisedBy'[request'[g]], event'[g])
        BY <2>1, <4>1
      <4>3. ASSUME NEW k \in Hook \ {g}, request'[k] = request'[g]
            PROVE  Keys(event[g]).idem # NoKey
        <5>1. CASE k # h
          BY <1>0, <1>2, <4>1, <4>3, <5>1 DEF RequestFits
        <5>2. CASE k = h
          <6>1. request'[h] = i /\ status[i] # "absent"
            BY <1>0, <1>1, <4>1, <4>3, <5>2 DEF HookTypeOK
          <6>2. raisedBy'[i] = raisedBy[request[g]]
            BY <2>1, <4>1, <4>3, <5>2, <6>1
          <6>3. Keys(e).idem # NoKey /\ SameKey(raisedBy'[i], e)
            BY <2>1, <6>1
          <6> HIDE DEF Keys
          <6> QED
            BY <4>1, <6>2, <6>3 DEF SameKey
        <5> QED
          BY <5>1, <5>2
      <4> QED
        BY <2>1, <4>1, <4>2, <4>3
    <3> QED
      BY <3>1, <3>2
  <2> QED
    BY <1>3, <2>2, <2>3, <2>4 DEF HookInv
<1>5. CASE UNCHANGED <<vars, raisedBy, request>>
  <2>1. HookTypeOK'
    BY <1>0, <1>5 DEF AskHuman, AskFails, HookTypeOK, Fallback
  <2>2. Provenance'
    BY <1>0, <1>5 DEF Provenance, vars
  <2>3. RequestFits'
    BY <1>0, <1>1, <1>2, <1>5 DEF RequestFits, vars
  <2> QED
    BY <1>3, <2>1, <2>2, <2>3 DEF HookInv
<1> QED
  BY <1>4, <1>5 DEF AskHuman, AskFails

LEMMA HookStep ==
  ASSUME TypeOK, HookInv, [HNext]_hvars
  PROVE  HookInv'
<1>0. HookTypeOK /\ Provenance /\ RequestFits /\ ToldFits
  BY DEF HookInv
<1>1. ASSUME NEW h \in Hook, NEW e \in Event, AskHuman(h, e) \/ AskFails(h, e)
      PROVE  HookInv'
  BY <1>1, AskStep
<1>2. ASSUME NEW h \in Hook, HearAnswer(h) \/ WaitFails(h)
      PROVE  HookInv'
  <2>1. /\ UNCHANGED <<vars, event, request, raisedBy>>
        /\ phase[h] = "waiting" /\ phase' = [phase EXCEPT ![h] = "done"]
    BY <1>2 DEF HearAnswer, WaitFails
  <2>2. HookTypeOK'
    BY <1>0, <1>2 DEF HearAnswer, WaitFails, HookTypeOK, NativeAnswer, Fallback
  <2>3. Provenance' /\ RequestFits'
    BY <1>0, <2>1 DEF Provenance, RequestFits, vars
  <2>4. ASSUME NEW g \in Hook \ {h}
        PROVE  event'[g] = event[g] /\ request'[g] = request[g] /\ phase'[g] = phase[g]
                 /\ told'[g] = told[g]
    BY <1>0, <1>2 DEF HearAnswer, WaitFails, HookTypeOK
  <2>5. /\ phase'[h] = "done" /\ request[h] # 0
        /\ told'[h] \in {"allow", "deny"} =>
             /\ status[request[h]] = "resolved"
             /\ resolution[request[h]].decision
                  \in IF told'[h] = "allow" THEN Approving ELSE Rejecting
    BY <1>0, <1>2 DEF HearAnswer, WaitFails, HookTypeOK, ToldFits, NativeAnswer, Fallback
  <2>6. ToldFits'
    BY <1>0, <2>1, <2>4, <2>5 DEF ToldFits, vars
  <2> QED
    BY <2>2, <2>3, <2>6 DEF HookInv
<1>3. CASE Others \/ UNCHANGED hvars
  <2>1. /\ \A j \in Id : status'[j] # "absent" <=> status[j] # "absent"
        /\ UNCHANGED <<ask, event, phase, request, told, raisedBy>>
    BY <1>3, OthersRows DEF Others, hookVars, hvars, vars
  <2>2. HookTypeOK'
    BY <1>0, <2>1 DEF HookTypeOK
  <2>3. Provenance'
    BY <1>0, <2>1 DEF Provenance
  <2>4. RequestFits'
    BY <1>0, <2>1 DEF RequestFits, HookTypeOK
  <2>5. ToldFits'
    BY <2>1, HookStays DEF ToldFits
  <2> QED
    BY <2>2, <2>3, <2>4, <2>5 DEF HookInv
<1> QED
  BY <1>1, <1>2, <1>3 DEF HNext

LEMMA HookInvariant == HSpec => []HookInv
<1>1. HInit => HookInv
  BY DEF HInit, Init, HookInv, HookTypeOK, Provenance, RequestFits, ToldFits
<1>2. TypeOK /\ HookInv /\ [HNext]_hvars => HookInv'
  BY HookStep
<1> QED
  BY <1>1, <1>2, HooksUseTheStore, TypeCorrect, PTL DEF HSpec

-----------------------------------------------------------------------------
(* Approvals.                                                              *)

\* Keys that are equal stand for the same call.
LEMMA KeysTellCallsApart ==
  ASSUME NEW e \in Event, NEW f \in Event, Guarded(e), SameKey(f, e), f # e
  PROVE  SameCall(f, e)
<1>1. f.runtime = e.runtime /\ Keys(f).idem = Keys(e).idem /\ Keys(e).idem # NoKey
  BY DEF SameKey
<1>a. /\ e.turn = f.call => e.turn = Missing
      /\ f.turn = e.call => f.turn = Missing
      /\ e.runtime \in Runtime
  BY IdentityAssumption, HookAssumption
<1>2. CASE e.runtime = "codex"
  <2>1. Stable(e) /\ Stable(f) /\ CodexRef(e) = CodexRef(f)
    BY <1>1, <1>2 DEF Keys
  <2>2. /\ e.session = f.session /\ NativeTurn(e) = NativeTurn(f)
        /\ e.tool = f.tool /\ e.input = f.input /\ NativeTurn(e) # Missing
    BY <2>1 DEF CodexRef, Stable
  <2> QED
    BY <1>1, <1>a, <2>2 DEF SameCall, NativeTurn
<1>3. CASE e.runtime = "claude-code"
  <2>1. Stable(e) /\ ClaudeRef(e) = ClaudeRef(f)
    BY <1>1, <1>3 DEF Keys
  <2> QED
    BY <1>1, <2>1 DEF SameCall, ClaudeRef, Stable, NativeTurn
<1>4. CASE e.runtime = "cursor"
  <2>1. CursorStable(e) /\ CursorRef(e) = CursorRef(f) /\ ~e.aliased
    BY <1>1, <1>4 DEF Keys, Guarded
  <2>2. e.session = f.session /\ e.turn = f.turn /\ e.input = f.input /\ e.turn # Missing
    BY <2>1 DEF CursorRef, CursorStable
  <2>3. e.tool = f.tool
    BY <1>1, <1>4, IdentityAssumption
  <2> QED
    BY <1>1, <2>2, <2>3 DEF SameCall
<1>5. CASE e.runtime = "opencode"
  <2>1. OpenCodeRef(e) = OpenCodeRef(f) /\ e.turn # Missing /\ e.call # Missing
    BY <1>1, <1>5 DEF Keys, Guarded
  <2>2. e.turn # "message" /\ e.call # "permission"
    BY <1>5, IdentityAssumption
  <2>3. e.session = f.session /\ e.tool = f.tool /\ e.turn = f.turn /\ e.call = f.call
    BY <2>1, <2>2 DEF OpenCodeRef
  <2>4. e.input = f.input
    BY <1>1, <1>5, <2>1, <2>3, IdentityAssumption
  <2> QED
    BY <1>1, <2>1, <2>3, <2>4 DEF SameCall
<1>6. CASE e.runtime \in {"a2a", "openai-agents"}
  BY <1>1, <1>6 DEF Keys
<1> QED
  BY <1>a, <1>2, <1>3, <1>4, <1>5, <1>6 DEF Runtime

\* What the runtimes run or refuse is what a person decided about that very
\* call: no key of the hooks or the plugin confuses two calls that their ids
\* tell apart, and nothing but a human resolution becomes allow or deny.
THEOREM DecisionsReleaseTheirCall == HSpec => []ReleasedByItsDecision
<1>1. HookInv /\ ResolutionBacked => ReleasedByItsDecision
  <2> SUFFICES ASSUME HookInv, ResolutionBacked, NEW h \in Hook,
                      told[h] \in {"allow", "deny"}, Guarded(event[h])
               PROVE  /\ status[request[h]] = "resolved" /\ Backed(request[h])
                      /\ resolution[request[h]].kind = "human"
                      /\ resolution[request[h]].decision
                           \in IF told[h] = "allow" THEN Approving ELSE Rejecting
                      /\ \/ raisedBy[request[h]] = event[h]
                         \/ SameCall(raisedBy[request[h]], event[h])
    BY DEF ReleasedByItsDecision
  <2>1. PICK i \in Id : i = request[h]
    BY DEF HookInv, HookTypeOK, ToldFits
  <2>2. /\ status[i] = "resolved"
        /\ resolution[i].decision \in IF told[h] = "allow" THEN Approving ELSE Rejecting
    BY <2>1 DEF HookInv, ToldFits
  <2>3. event[h] \in Event /\ raisedBy[i] \in Event /\ SameKey(raisedBy[i], event[h])
    BY <2>1, <2>2 DEF HookInv, RequestFits, Provenance, Id
  <2>4. raisedBy[i] = event[h] \/ SameCall(raisedBy[i], event[h])
    BY <2>3, KeysTellCallsApart
  <2>5. Backed(i)
    BY <2>2 DEF ResolutionBacked
  <2>6. ask[i] = PayloadOf(raisedBy[i])
    BY <2>2 DEF HookInv, Provenance
  <2>7. ask[i].route.kind = "human"
    BY <2>6 DEF PayloadOf, OpenRoute
  <2>8. resolution[i].kind = "human"
    BY <2>5, <2>7 DEF Backed, Admits
  <2> QED
    BY <2>1, <2>2, <2>4, <2>5, <2>8
<1>2. HSpec => []HookInv
  BY HookInvariant
<1> QED
  BY <1>1, <1>2, HooksUseTheStore, ResolutionsAreBacked, PTL

-----------------------------------------------------------------------------
(* Supersession.                                                           *)

SameTip(e, f) ==
  e.runtime = f.runtime /\ Keys(e).tip = Keys(f).tip /\ Keys(e).tip # NoKey

\* A replaced request and the one that replaced it have the same worldline.
TipsFit ==
  \A i \in Id : supersededBy[i] # 0 =>
    /\ supersededBy[i] \in Id
    /\ status[i] # "absent" /\ status[supersededBy[i]] # "absent"
    /\ SameTip(raisedBy[i], raisedBy[supersededBy[i]])

LEMMA ReachesTips ==
  ASSUME TypeOK, HookTypeOK, Provenance, TipsFit, NEW e \in Event, NEW n \in Id, Reaches(e, n)
  PROVE  TipsFit'
<1> DEFINE a == PayloadOf(e)
<1>a. a \in Ask
  BY PayloadAssumption
<1>r. /\ \A j \in Id : status[j] # "absent" =>
           status'[j] # "absent" /\ raisedBy'[j] = raisedBy[j]
      /\ status'[n] # "absent"
  BY ReachesRows
<1>1. CASE /\ Create(a) /\ n = issued' /\ raisedBy' = [raisedBy EXCEPT ![n] = e]
  <2>1. PICK new \in Id : Inserted(new, a)
    BY <1>a, <1>1, CreateRows
  <2>2. /\ new = n /\ raisedBy'[n] = e
        /\ supersededBy' = [j \in Id |-> IF j \in Replaced(a) THEN n ELSE supersededBy[j]]
    BY <1>1, <2>1 DEF Inserted, HookTypeOK
  <2> SUFFICES ASSUME NEW i \in Id, supersededBy'[i] # 0
               PROVE  /\ supersededBy'[i] \in Id
                      /\ status'[i] # "absent" /\ status'[supersededBy'[i]] # "absent"
                      /\ SameTip(raisedBy'[i], raisedBy'[supersededBy'[i]])
    BY DEF TipsFit
  <2>3. CASE i \in Replaced(a)
    <3>1. /\ a.tip # NoKey /\ status[i] # "absent"
          /\ ask[i].source = a.source /\ ask[i].tip = a.tip
      BY <2>3 DEF Replaced, Active
    <3>2. ask[i] = PayloadOf(raisedBy[i])
      BY <3>1 DEF Provenance
    <3>3. SameTip(raisedBy[i], e)
      BY <3>1, <3>2 DEF SameTip, PayloadOf
    <3>4. supersededBy'[i] = n /\ raisedBy'[i] = raisedBy[i] /\ status'[i] # "absent"
      BY <1>r, <2>2, <2>3, <3>1
    <3> QED
      BY <1>r, <2>2, <3>3, <3>4
  <2>4. CASE i \notin Replaced(a)
    <3>1. PICK j \in Id : /\ j = supersededBy[i] /\ j = supersededBy'[i]
                          /\ status[i] # "absent" /\ status[j] # "absent"
                          /\ SameTip(raisedBy[i], raisedBy[j])
      BY <2>2, <2>4 DEF TipsFit
    <3>2. /\ raisedBy'[i] = raisedBy[i] /\ raisedBy'[j] = raisedBy[j]
          /\ status'[i] # "absent" /\ status'[j] # "absent"
      BY <1>r, <3>1
    <3> QED
      BY <3>1, <3>2
  <2> QED
    BY <2>3, <2>4
<1>2. CASE UNCHANGED <<vars, raisedBy>>
  BY <1>2 DEF TipsFit, vars
<1> QED
  BY <1>1, <1>2 DEF Reaches, CreateRepeated

LEMMA TipsStep ==
  ASSUME TypeOK, HookInv, TipsFit, [HNext]_hvars
  PROVE  TipsFit'
<1>1. ASSUME NEW h \in Hook, NEW e \in Event, AskHuman(h, e) \/ AskFails(h, e)
      PROVE  TipsFit'
  <2>1. (\E n \in Id : Reaches(e, n)) \/ UNCHANGED <<vars, raisedBy>>
    BY <1>1 DEF AskHuman, AskFails
  <2>2. CASE UNCHANGED <<vars, raisedBy>>
    BY <2>2 DEF TipsFit, vars
  <2> QED
    BY <2>1, <2>2, ReachesTips DEF HookInv
<1>2. ASSUME NEW h \in Hook, HearAnswer(h) \/ WaitFails(h) PROVE TipsFit'
  BY <1>2 DEF HearAnswer, WaitFails, TipsFit, vars
<1>3. CASE Others
  <2>1. /\ \A j \in Id : status'[j] # "absent" <=> status[j] # "absent"
        /\ UNCHANGED <<supersededBy, raisedBy>>
    BY <1>3, OthersRows DEF Others, hookVars
  <2> QED
    BY <2>1 DEF TipsFit
<1>4. CASE UNCHANGED hvars
  BY <1>4 DEF hvars, hookVars, vars, TipsFit
<1> QED
  BY <1>1, <1>2, <1>3, <1>4 DEF HNext

LEMMA TipsInvariant == HSpec => []TipsFit
<1>1. HInit => TipsFit
  BY DEF HInit, Init, TipsFit
<1> QED
  BY <1>1, TipsStep, HookInvariant, HooksUseTheStore, TypeCorrect, PTL DEF HSpec

\* A boundary is made obsolete only by a newer one of the same tool in the same
\* turn, task or run, because the worldline keys of the hooks and adapters say
\* that much and nothing else.
THEOREM TurnsAreReplacedApart == HSpec => []ReplacedWithinItsTurn
<1>1. HookInv /\ TipsFit => ReplacedWithinItsTurn
  <2> SUFFICES ASSUME HookInv, TipsFit, NEW i \in Id, supersededBy[i] # 0,
                      NEW e, e = raisedBy[i], NEW f, f = raisedBy[supersededBy[i]]
               PROVE  /\ Identified(e) /\ Identified(f) /\ e.runtime = f.runtime
                      /\ IF Imports(e) THEN e.call = f.call
                         ELSE /\ e.session = f.session /\ e.tool = f.tool
                              /\ NativeTurn(e) = NativeTurn(f)
    BY DEF ReplacedWithinItsTurn
  <2>1. e \in Event /\ f \in Event /\ SameTip(e, f)
    BY DEF TipsFit, HookInv, Provenance
  <2>2. e.runtime \in Runtime /\ e.runtime = f.runtime
    BY <2>1, HookAssumption DEF SameTip
  <2>3. CASE e.runtime \in {"codex", "claude-code"}
    <3>1. Stable(e) /\ Stable(f)
      BY <2>1, <2>3 DEF SameTip, Keys, TurnTip
    <3>2. TurnTip(e) = TurnTip(f)
      BY <2>1, <2>3 DEF SameTip, Keys
    <3>3. e.session = f.session /\ NativeTurn(e) = NativeTurn(f) /\ e.tool = f.tool
      BY <3>1, <3>2 DEF TurnTip
    <3>4. Identified(e) /\ Identified(f) /\ ~Imports(e)
      BY <2>2, <2>3, <3>1 DEF Identified, Imports, Stable, NativeTurn
    <3> QED
      BY <2>2, <3>3, <3>4
  <2>4. CASE e.runtime \in {"cursor", "opencode"}
    BY <2>1, <2>4 DEF SameTip, Keys
  <2>5. CASE e.runtime \in {"a2a", "openai-agents"}
    <3>1. ImportTip(e) = ImportTip(f) /\ ImportTip(e) # NoKey
      BY <2>1, <2>5 DEF SameTip, Keys
    <3>2. e.call # Missing /\ f.call # Missing /\ e.call = f.call
      BY <3>1 DEF ImportTip
    <3> QED
      BY <2>2, <2>5, <3>2 DEF Identified, Imports
  <2> QED
    BY <2>2, <2>3, <2>4, <2>5 DEF Runtime
<1> QED
  BY <1>1, HookInvariant, TipsInvariant, PTL

\* An event without ids that the runtime's integration looks for gets no key.
LEMMA UnidentifiedHasNoKeys ==
  ASSUME NEW e \in Event, Guarded(e), ~Identified(e)
  PROVE  Keys(e).idem = NoKey /\ Keys(e).tip = NoKey
<1>1. e.runtime \in Runtime /\ (e.runtime = "opencode" => e.session # Missing)
  BY HookAssumption, IdentityAssumption
<1>2. CASE e.runtime \in {"codex", "claude-code"}
  <2>1. ~Stable(e)
    BY <1>2 DEF Identified, Imports, Stable, NativeTurn
  <2> QED
    BY <1>2, <2>1 DEF Keys, TurnTip
<1>3. CASE e.runtime = "cursor"
  <2>1. ~CursorStable(e)
    BY <1>3 DEF Identified, Imports, CursorStable
  <2> QED
    BY <1>3, <2>1 DEF Keys
<1>4. CASE e.runtime = "opencode"
  BY <1>1, <1>4 DEF Identified, Imports, Guarded
<1>5. CASE e.runtime \in {"a2a", "openai-agents"}
  BY <1>5 DEF Identified, Imports, Keys, ImportTip
<1> QED
  BY <1>1, <1>2, <1>3, <1>4, <1>5 DEF Runtime

\* "No stable identity -> no idempotency, no supersession" (docs/protocol.md),
\* for the events whose translation looks at what is missing.
THEOREM UnidentifiedShareNothing == HSpec => []UnidentifiedStaysApart
<1>1. HookInv /\ TipsFit => UnidentifiedStaysApart
  <2> SUFFICES ASSUME HookInv, TipsFit, NEW h \in Hook, event[h] # NoEvent,
                      Guarded(event[h]), ~Identified(event[h]), request[h] # 0
               PROVE  /\ \A g \in Hook \ {h} : request[g] # request[h]
                      /\ supersededBy[request[h]] = 0
                      /\ \A j \in Id : supersededBy[j] # request[h]
    BY DEF UnidentifiedStaysApart, Apart
  <2>1. PICK i \in Id : i = request[h]
    BY DEF HookInv, HookTypeOK
  <2>2. event[h] \in Event /\ SameKey(raisedBy[i], event[h])
    BY <2>1 DEF HookInv, RequestFits
  <2>3. Keys(event[h]).idem = NoKey /\ Keys(event[h]).tip = NoKey
    BY <2>2, UnidentifiedHasNoKeys
  <2>4. raisedBy[i] = event[h]
    BY <2>2, <2>3 DEF SameKey
  <2>5. \A g \in Hook \ {h} : request[g] # request[h]
    BY <2>3 DEF HookInv, RequestFits
  <2>6. Keys(raisedBy[i]).tip = NoKey
    BY <2>3, <2>4
  <2> HIDE DEF Keys
  <2>7. supersededBy[i] = 0 /\ \A j \in Id : supersededBy[j] # i
    BY <2>6 DEF TipsFit, SameTip, Id
  <2> QED
    BY <2>1, <2>5, <2>7
<1> QED
  BY <1>1, HookInvariant, TipsInvariant, PTL

-----------------------------------------------------------------------------
(* The receipt of prove.                                                   *)

Message == {Report(name, e) : name \in {"PermissionRequest", "PostToolUse"}, e \in Event}

\* What Codex executed it was handed.
RanType ==
  /\ HookTypeOK
  /\ \A h \in Hook : phase[h] = "idle" => told[h] = "nothing"
  /\ \A h \in Hook : phase[h] # "idle" => event[h] \in Event
  /\ ran \subseteq {h \in Hook : phase[h] # "idle"}

\* m reports a call that was executed, if it says so.
TrueReport(m) ==
  m.name = "PostToolUse" => \E h \in ran : event[h] \in Event /\ m = Report("PostToolUse", event[h])

Reported ==
  /\ log \in Seq(Message) /\ transit \subseteq Message
  /\ \A n \in 1..Len(log) : TrueReport(log[n])
  /\ \A m \in transit : TrueReport(m)

\* What the command knows at each of its stages.
Watched ==
  /\ stage \in {"read", "resolution", "post", "verified"} =>
       captured \in Id /\ captured \notin baseline /\ status[captured] # "absent"
  /\ stage \in {"post", "verified"} => Approved(captured)
  /\ stage = "verified" =>
       evidence \in 1..Len(log) /\ Matches(log[evidence], "PostToolUse", raisedBy[captured])

ReceiptInv == RanType /\ Provenance /\ Reported /\ Watched

\* Neither Codex nor the command does to a request what the hooks, a person or
\* a machine could not do.
LEMMA ReceiptRows ==
  ASSUME TypeOK, RanType, Provenance, [PNext]_pvars
  PROVE  /\ [Next]_vars
         /\ raisedBy' \in [Id -> Event \cup {NoEvent}]
         /\ \A i \in Id : status[i] # "absent" =>
              status'[i] # "absent" /\ raisedBy'[i] = raisedBy[i]
         /\ Provenance'
<1>t. HookTypeOK
  BY DEF RanType
<1>1. ASSUME NEW e \in Event, NEW n \in Id, Reaches(e, n)
      PROVE  /\ [Next]_vars
             /\ raisedBy' \in [Id -> Event \cup {NoEvent}]
             /\ \A i \in Id : status[i] # "absent" =>
                  status'[i] # "absent" /\ raisedBy'[i] = raisedBy[i]
             /\ Provenance'
  <2>1. /\ raisedBy' \in [Id -> Event \cup {NoEvent}]
        /\ \A j \in Id : status[j] # "absent" =>
             status'[j] # "absent" /\ ask'[j] = ask[j] /\ raisedBy'[j] = raisedBy[j]
        /\ \A j \in Id \ {n} : status'[j] # "absent" => status[j] # "absent"
        /\ status'[n] # "absent" /\ raisedBy'[n] \in Event
        /\ ask'[n] = PayloadOf(raisedBy'[n])
    BY <1>t, <1>1, ReachesRows
  <2>2. Provenance'
    BY <2>1 DEF Provenance
  <2> QED
    BY <1>1, <2>1, <2>2, ReachIsStoreStep
<1>2. CASE Others
  <2>1. /\ \A j \in Id : status'[j] # "absent" <=> status[j] # "absent"
        /\ UNCHANGED <<ask, raisedBy>>
    BY <1>2, OthersRows DEF Others, hookVars
  <2>2. HNext
    BY <1>2 DEF HNext
  <2> QED
    BY <1>t, <2>1, <2>2, StoreStep DEF Provenance, HookTypeOK
<1>3. CASE UNCHANGED <<vars, raisedBy>>
  BY <1>t, <1>3 DEF vars, Provenance, HookTypeOK
<1>4. \/ \E e \in Event, n \in Id : Reaches(e, n)
      \/ Others
      \/ UNCHANGED <<vars, raisedBy>>
  BY DEF PNext, Codex, AskBoundary, AskHuman, AskFails, RunUnasked, Run, ArriveLate, HearAnswer,
     WaitFails, Start, Capture, ReadBoundary, SeeResolution, FindPost, GiveUpProof, pvars, hvars,
     hookVars
<1> QED
  BY <1>1, <1>2, <1>3, <1>4

\* A call that was executed stays what it was.
LEMMA RanStep ==
  ASSUME TypeOK, RanType, Provenance, [PNext]_pvars
  PROVE  RanType' /\ ran \subseteq ran' /\ \A h \in ran : event'[h] = event[h]
<1>t. /\ HookTypeOK
      /\ raisedBy' \in [Id -> Event \cup {NoEvent}]
  BY ReceiptRows DEF RanType
<1>1. ASSUME NEW h \in Hook, NEW e \in Event, AskBoundary(h, e) \/ RunUnasked(h, e)
      PROVE  RanType' /\ ran \subseteq ran' /\ \A g \in ran : event'[g] = event[g]
  <2>1. /\ phase[h] = "idle" /\ event' = [event EXCEPT ![h] = e]
        /\ h \notin ran /\ ran' \in {ran, ran \cup {h}}
    BY <1>1 DEF AskBoundary, AskHuman, AskFails, RunUnasked, RanType
  <2>2. /\ phase' \in [Hook -> {"idle", "waiting", "done"}] /\ phase'[h] # "idle"
        /\ \A g \in Hook \ {h} : phase'[g] = phase[g] /\ told'[g] = told[g]
    BY <1>t, <1>1 DEF AskBoundary, AskHuman, AskFails, RunUnasked, HookTypeOK
  <2>3. /\ request' \in [Hook -> Id \cup {0}]
        /\ told' \in [Hook -> {"nothing", "allow", "deny", "ask"}]
    BY <1>t, <1>1 DEF AskBoundary, AskHuman, AskFails, RunUnasked, HookTypeOK, Fallback
  <2>4. HookTypeOK'
    BY <1>t, <2>1, <2>2, <2>3 DEF HookTypeOK
  <2> QED
    BY <1>t, <2>1, <2>2, <2>4 DEF RanType, HookTypeOK
<1>2. ASSUME NEW h \in Hook, Run(h)
      PROVE  RanType' /\ ran \subseteq ran' /\ \A g \in ran : event'[g] = event[g]
  BY <1>t, <1>2 DEF Run, hvars, hookVars, RanType, HookTypeOK, Fallback
<1>3. ASSUME NEW h \in Hook, HearAnswer(h) \/ WaitFails(h), UNCHANGED ran
      PROVE  RanType' /\ ran \subseteq ran' /\ \A g \in ran : event'[g] = event[g]
  <2>1. /\ UNCHANGED <<event, request, raisedBy, ran>>
        /\ phase[h] = "waiting" /\ phase' = [phase EXCEPT ![h] = "done"]
        /\ told' \in [Hook -> {"nothing", "allow", "deny", "ask"}]
        /\ \A g \in Hook \ {h} : told'[g] = told[g]
    BY <1>t, <1>3 DEF HearAnswer, WaitFails, HookTypeOK, NativeAnswer, Fallback
  <2> QED
    BY <1>t, <2>1 DEF RanType, HookTypeOK
<1>4. CASE UNCHANGED <<event, phase, request, told, ran>>
  BY <1>t, <1>4 DEF RanType, HookTypeOK
<1>5. \/ \E h \in Hook, e \in Event : AskBoundary(h, e) \/ RunUnasked(h, e)
      \/ \E h \in Hook : Run(h)
      \/ \E h \in Hook : (HearAnswer(h) \/ WaitFails(h)) /\ UNCHANGED ran
      \/ UNCHANGED <<event, phase, request, told, ran>>
  BY DEF PNext, Codex, Others, ArriveLate, Start, Capture, ReadBoundary, SeeResolution, FindPost,
     GiveUpProof, pvars, hvars, hookVars
<1> QED
  BY <1>1, <1>2, <1>3, <1>4, <1>5

\* Nothing enters the log, or the way to it, but true reports.
LEMMA ObserveStep ==
  ASSUME Reported, NEW name \in {"PermissionRequest", "PostToolUse"}, NEW e \in Event,
         Observe(name, e), TrueReport(Report(name, e))',
         \A m \in Message : TrueReport(m) => TrueReport(m)'
  PROVE  /\ Reported'
         /\ Len(log) <= Len(log') /\ \A n \in 1..Len(log) : log'[n] = log[n]
<1>1. Report(name, e) \in Message
  BY DEF Message
<1>2. log \in Seq(Message) /\ Len(log) \in Nat /\ \A n \in 1..Len(log) : log[n] \in Message
  BY DEF Reported
<1>3. CASE log' = Append(log, Report(name, e)) /\ UNCHANGED transit
  <2>1. /\ log' \in Seq(Message) /\ Len(log') = Len(log) + 1
        /\ \A n \in 1..Len(log) : log'[n] = log[n]
        /\ log'[Len(log) + 1] = Report(name, e)
    BY <1>1, <1>2, <1>3
  <2>2. ASSUME NEW n \in 1..Len(log') PROVE TrueReport(log[n])'
    <3>1. CASE n \in 1..Len(log)
      BY <1>2, <2>1, <3>1 DEF Reported, TrueReport
    <3>2. CASE n = Len(log) + 1
      BY <2>1, <3>2 DEF TrueReport
    <3> QED
      BY <1>2, <2>1, <3>1, <3>2
  <2>3. \A m \in transit : TrueReport(m)'
    BY DEF Reported
  <2> QED
    BY <1>2, <1>3, <2>1, <2>2, <2>3 DEF Reported
<1>4. CASE transit' \subseteq transit \cup {Report(name, e)} /\ UNCHANGED log
  <2>1. ASSUME NEW n \in 1..Len(log) PROVE TrueReport(log[n])'
    BY <1>2, <1>4 DEF Reported, TrueReport
  <2>2. \A m \in transit' : TrueReport(m)'
    BY <1>4 DEF Reported
  <2>3. transit' \subseteq Message
    BY <1>1, <1>4 DEF Reported
  <2> QED
    BY <1>2, <1>4, <2>1, <2>2, <2>3 DEF Reported, TrueReport
<1> QED
  BY <1>3, <1>4 DEF Observe

LEMMA ReportedStep ==
  ASSUME TypeOK, RanType, Provenance, Reported, [PNext]_pvars
  PROVE  /\ Reported'
         /\ Len(log) <= Len(log') /\ \A n \in 1..Len(log) : log'[n] = log[n]
<1>r. RanType' /\ ran \subseteq ran' /\ \A h \in ran : event'[h] = event[h]
  BY RanStep
<1>k. \A m \in Message : TrueReport(m) => TrueReport(m)'
  BY <1>r DEF TrueReport
<1>l. log \in Seq(Message) /\ Len(log) \in Nat /\ \A n \in 1..Len(log) : log[n] \in Message
  BY DEF Reported
<1>1. ASSUME NEW h \in Hook, NEW e \in Event, AskBoundary(h, e)
      PROVE  /\ Reported'
             /\ Len(log) <= Len(log') /\ \A n \in 1..Len(log) : log'[n] = log[n]
  <2>1. TrueReport(Report("PermissionRequest", e))'
    BY DEF TrueReport, Report
  <2> QED
    BY <1>1, <1>k, <2>1, ObserveStep DEF AskBoundary
<1>2. ASSUME NEW h \in Hook, h \in ran', event'[h] \in Event, Observe("PostToolUse", event'[h])
      PROVE  /\ Reported'
             /\ Len(log) <= Len(log') /\ \A n \in 1..Len(log) : log'[n] = log[n]
  <2>1. PICK e \in Event : e = event'[h]
    BY <1>2
  <2>2. TrueReport(Report("PostToolUse", e))'
    BY <1>2, <2>1 DEF TrueReport
  <2> QED
    BY <1>2, <1>k, <2>1, <2>2, ObserveStep
<1>3. ASSUME NEW h \in Hook, NEW e \in Event, RunUnasked(h, e)
      PROVE  h \in ran' /\ event'[h] \in Event /\ Observe("PostToolUse", event'[h])
  BY <1>3 DEF RunUnasked, RanType, HookTypeOK
<1>4. ASSUME NEW h \in Hook, Run(h)
      PROVE  h \in ran' /\ event'[h] \in Event /\ Observe("PostToolUse", event'[h])
  BY <1>4 DEF Run, RanType, Fallback, hvars, hookVars
<1>5. ASSUME NEW m \in transit, ArriveLate(m)
      PROVE  /\ Reported'
             /\ Len(log) <= Len(log') /\ \A n \in 1..Len(log) : log'[n] = log[n]
  <2>1. m \in Message /\ TrueReport(m)'
    BY <1>k DEF Reported
  <2>2. /\ log' \in Seq(Message) /\ Len(log') = Len(log) + 1
        /\ \A n \in 1..Len(log) : log'[n] = log[n]
        /\ log'[Len(log) + 1] = m
    BY <1>5, <1>l, <2>1 DEF ArriveLate
  <2>3. ASSUME NEW n \in 1..Len(log') PROVE TrueReport(log[n])'
    <3>1. CASE n \in 1..Len(log)
      BY <1>k, <1>l, <2>2, <3>1 DEF Reported, TrueReport
    <3>2. CASE n = Len(log) + 1
      BY <2>1, <2>2, <3>2 DEF TrueReport
    <3> QED
      BY <1>l, <2>2, <3>1, <3>2
  <2>4. transit' \subseteq Message /\ \A k \in transit' : TrueReport(k)'
    BY <1>5, <1>k DEF ArriveLate, Reported
  <2> QED
    BY <1>l, <2>2, <2>3, <2>4 DEF Reported
<1>6. CASE UNCHANGED <<log, transit>>
  <2>1. ASSUME NEW n \in 1..Len(log) PROVE TrueReport(log[n])'
    BY <1>k, <1>l, <1>6 DEF Reported, TrueReport
  <2>2. \A k \in transit' : TrueReport(k)'
    BY <1>k, <1>6 DEF Reported
  <2> QED
    BY <1>l, <1>6, <2>1, <2>2 DEF Reported
<1>7. \/ \E h \in Hook, e \in Event : AskBoundary(h, e) \/ RunUnasked(h, e)
      \/ \E h \in Hook : Run(h)
      \/ \E m \in transit : ArriveLate(m)
      \/ UNCHANGED <<log, transit>>
  BY DEF PNext, Codex, Start, Capture, ReadBoundary, SeeResolution, FindPost, GiveUpProof, pvars
<1> QED
  BY <1>1, <1>2, <1>3, <1>4, <1>5, <1>6, <1>7

\* What the command has seen of its request and of the log stays true.
LEMMA WatchedStep ==
  ASSUME TypeOK, ReceiptInv, [PNext]_pvars
  PROVE  Watched'
<1>0. RanType /\ Provenance /\ Reported /\ Watched
  BY DEF ReceiptInv
<1>1. /\ [Next]_vars
      /\ \A i \in Id : status[i] # "absent" =>
           status'[i] # "absent" /\ raisedBy'[i] = raisedBy[i]
      /\ Len(log) \in Nat /\ Len(log') \in Nat
      /\ Len(log) <= Len(log') /\ \A n \in 1..Len(log) : log'[n] = log[n]
  BY <1>0, ReceiptRows, ReportedStep DEF Reported
<1>2. ASSUME NEW i \in Id, Approved(i) PROVE Approved(i)'
  BY <1>1, <1>2, ResolvedStays DEF Approved
<1>3. CASE UNCHANGED proofVars
  <2>1. UNCHANGED <<stage, baseline, captured, evidence>>
    BY <1>3 DEF proofVars
  <2>2. CASE stage \in {"read", "resolution", "post", "verified"}
    <3>1. captured \in Id /\ status[captured] # "absent" /\ captured \notin baseline
      BY <1>0, <2>2 DEF Watched
    <3>2. /\ status'[captured] # "absent" /\ raisedBy'[captured] = raisedBy[captured]
          /\ stage \in {"post", "verified"} => Approved(captured)'
      BY <1>0, <1>1, <1>2, <2>1, <3>1 DEF Watched, Approved
    <3>3. stage = "verified" =>
            /\ evidence \in 1..Len(log') /\ log'[evidence] = log[evidence]
            /\ Matches(log[evidence], "PostToolUse", raisedBy[captured])
      BY <1>0, <1>1 DEF Watched
    <3> QED
      BY <2>1, <3>1, <3>2, <3>3 DEF Watched, Matches
  <2>3. CASE stage \notin {"read", "resolution", "post", "verified"}
    BY <2>1, <2>3 DEF Watched
  <2> QED
    BY <2>2, <2>3
<1>4. CASE Start
  BY <1>4 DEF Start, Watched
<1>5. ASSUME NEW i \in Id, Capture(i) PROVE Watched'
  BY <1>5 DEF Capture, Candidate, Watched, hvars, vars
<1>6. CASE ReadBoundary
  BY <1>0, <1>6 DEF ReadBoundary, Watched, hvars, vars
<1>7. CASE SeeResolution
  BY <1>0, <1>7 DEF SeeResolution, Watched, hvars, vars, Approved
<1>8. CASE FindPost
  <2>1. PICK n \in 1..Len(log) :
          evidence' = n /\ Matches(log[n], "PostToolUse", raisedBy[captured])
    BY <1>0, <1>8 DEF FindPost, Reported
  <2>2. UNCHANGED <<status, resolution, raisedBy, log, baseline, captured>>
    BY <1>8 DEF FindPost, hvars, vars, hookVars
  <2>3. /\ stage = "post"
        /\ captured \in Id /\ captured \notin baseline /\ status[captured] # "absent"
        /\ Approved(captured)
    BY <1>0, <1>8 DEF FindPost, Watched
  <2> QED
    BY <2>1, <2>2, <2>3 DEF Watched, Matches, Approved
<1>9. CASE GiveUpProof
  BY <1>9 DEF GiveUpProof, Watched
<1>10. \/ Start \/ ReadBoundary \/ SeeResolution \/ FindPost \/ GiveUpProof
       \/ (\E i \in Id : Capture(i))
       \/ UNCHANGED proofVars
  BY DEF PNext, Codex, AskBoundary, RunUnasked, Run, ArriveLate, pvars
<1> QED
  BY <1>3, <1>4, <1>5, <1>6, <1>7, <1>8, <1>9, <1>10

LEMMA ReceiptInvariant == PSpec => []TypeOK /\ []ReceiptInv /\ []ResolutionBacked
<1>1. PInit => Init /\ ReceiptInv
  BY DEF PInit, HInit, Init, ReceiptInv, RanType, HookTypeOK, Provenance, Reported, Watched
<1>2. TypeOK /\ ReceiptInv /\ [PNext]_pvars => [Next]_vars /\ ReceiptInv'
  BY ReceiptRows, RanStep, ReportedStep, WatchedStep DEF ReceiptInv
<1>3. Init => TypeOK
  BY InitType
<1>4. TypeOK /\ [Next]_vars => TypeOK'
  BY NextType
<1>5. PSpec => []TypeOK /\ []ReceiptInv
  BY <1>1, <1>2, <1>3, <1>4, PTL DEF PSpec
<1>6. PSpec => Spec
  BY <1>1, <1>2, <1>5, PTL DEF PSpec, Spec
<1> QED
  BY <1>5, <1>6, ResolutionsAreBacked, PTL

\* _codex_post_tool_proof compares the turn and the tool, not the call: a
\* verified receipt shows a person's approval of a new boundary and an executed
\* call of its turn and tool, which is the captured one unless it has a rival.
THEOREM ReceiptsAreSound == PSpec => []ReceiptIsSound
<1>1. ReceiptInv /\ ResolutionBacked => ReceiptIsSound
  <2> SUFFICES ASSUME ReceiptInv, ResolutionBacked, stage = "verified"
               PROVE  /\ captured \notin baseline
                      /\ Approved(captured) /\ Backed(captured)
                      /\ resolution[captured].kind = "human"
                      /\ log[evidence].name = "PostToolUse"
                      /\ \E h \in ran :
                           /\ event[h].call = log[evidence].call
                           /\ \A g \in Own(captured) : h = g \/ h \in Rivals(g)
    BY DEF ReceiptIsSound
  <2>1. /\ captured \in Id /\ captured \notin baseline /\ Approved(captured)
        /\ status[captured] = "resolved"
        /\ evidence \in 1..Len(log)
        /\ Matches(log[evidence], "PostToolUse", raisedBy[captured])
    BY DEF ReceiptInv, Watched, Approved
  <2>2. Backed(captured)
    BY <2>1 DEF ResolutionBacked
  <2>3. ask[captured].route.kind = "human"
    <3>1. ask[captured] = PayloadOf(raisedBy[captured])
      BY <2>1 DEF ReceiptInv, Provenance
    <3> QED
      BY <3>1 DEF PayloadOf, OpenRoute
  <2>4. resolution[captured].kind = "human"
    BY <2>2, <2>3 DEF Backed, Admits
  <2>5. PICK h \in ran : event[h] \in Event /\ log[evidence] = Report("PostToolUse", event[h])
    BY <2>1 DEF ReceiptInv, Reported, TrueReport, Matches
  <2>6. /\ event[h].call = log[evidence].call
        /\ event[h].session = raisedBy[captured].session
        /\ event[h].turn = raisedBy[captured].turn
        /\ event[h].tool = raisedBy[captured].tool
    BY <2>1, <2>5 DEF Report, Matches
  <2>7. h \in Hook /\ event[h] # NoEvent
    BY <2>5, HookAssumption DEF ReceiptInv, RanType
  <2>8. \A g \in Own(captured) : h = g \/ h \in Rivals(g)
    BY <2>6, <2>7 DEF Own, Rivals
  <2>9. log[evidence].name = "PostToolUse"
    BY <2>1 DEF Matches
  <2> QED
    BY <2>1, <2>2, <2>4, <2>6, <2>8, <2>9
<1> QED
  BY <1>1, ReceiptInvariant, PTL
=============================================================================
