-------------------------- MODULE CodexTrustProofs ---------------------------
(***************************************************************************)
(* Theorems about the files of LocalFiles under the commands of CodexTrust,*)
(* for every number of commands, runtimes, channels and foreign handlers.  *)
(***************************************************************************)
EXTENDS CodexTrust, FiniteSetTheorems, TLAPS

-----------------------------------------------------------------------------
(* The handlers in a document.                                             *)

\* What is kept of the front of a document is that front.
LEMMA KeptFront ==
  ASSUME NEW T, NEW doc \in Seq(T), NEW S, NEW n \in 0..Len(doc),
         {i \in DOMAIN doc : doc[i] \in S} = 1..n
  PROVE  Kept(doc, S) = [k \in 1..n |-> doc[k]]
<1>1. Cardinality(1..n) = n
  BY FS_Interval
<1>2. ASSUME NEW k \in 1..n
      PROVE  Nth(1..n, k) = k
  <2>1. ASSUME NEW i \in 1..n PROVE Cardinality({m \in 1..n : m <= i}) = i
    <3>1. {m \in 1..n : m <= i} = 1..i
      OBVIOUS
    <3>2. Cardinality(1..i) = i
      BY FS_Interval
    <3> QED
      BY <3>1, <3>2
  <2> QED
    BY <2>1 DEF Nth
<1>3. Kept(doc, S) = Selected(doc, 1..n)
  BY DEF Kept
<1>4. Selected(doc, 1..n) = [k \in 1..n |-> doc[k]]
  BY <1>1, <1>2 DEF Selected
<1> QED
  BY <1>3, <1>4

\* A single handler of a kind is all that is kept of it.
LEMMA KeptSingle ==
  ASSUME NEW T, NEW doc \in Seq(T), NEW S, NEW n \in DOMAIN doc,
         {i \in DOMAIN doc : doc[i] \in S} = {n}
  PROVE  Kept(doc, S) = <<doc[n]>>
<1>1. Cardinality({n}) = 1
  BY FS_Singleton
<1>2. Nth({n}, 1) = n
  <2>1. {m \in {n} : m <= n} = {n}
    OBVIOUS
  <2> QED
    BY <1>1, <2>1 DEF Nth
<1>3. Kept(doc, S) = Selected(doc, {n})
  BY DEF Kept
<1>4. Selected(doc, {n}) = [k \in 1..1 |-> doc[n]]
  <2>1. \A k \in 1..1 : k = 1
    OBVIOUS
  <2> QED
    BY <1>1, <1>2, <2>1 DEF Selected
<1> QED
  BY <1>3, <1>4

\* Documents as the commands and the owner leave them: handlers of others, and
\* one of humanq behind them.
HookDoc ==
  Seq(Foreign) \cup {doc \in Seq(Foreign \cup Runtime) :
                      \E o \in Seq(Foreign), r \in Runtime : doc = Append(o, r)}

LEMMA HookDocForms ==
  /\ \A o \in Seq(Foreign) : o \in HookDoc
  /\ \A o \in Seq(Foreign), r \in Runtime : Append(o, r) \in HookDoc
  /\ \A doc \in HookDoc : \/ doc \in Seq(Foreign)
                          \/ \E o \in Seq(Foreign), r \in Runtime : doc = Append(o, r)
<1>1. \A o \in Seq(Foreign), r \in Runtime : Append(o, r) \in Seq(Foreign \cup Runtime)
  OBVIOUS
<1> QED
  BY <1>1 DEF HookDoc

LEMMA KeptOfOthers ==
  ASSUME NEW o \in Seq(Foreign)
  PROVE  Others(o) = o /\ Ours(o) = <<>>
<1>1. {i \in DOMAIN o : o[i] \in Foreign} = 1..Len(o)
  OBVIOUS
<1>2. {i \in DOMAIN o : o[i] \in Runtime} = 1..0
  BY CommandAssumption
<1>3. Others(o) = [k \in 1..Len(o) |-> o[k]]
  BY <1>1, KeptFront, Len(o) \in 0..Len(o) DEF Others
<1>4. Ours(o) = [k \in 1..0 |-> o[k]]
  BY <1>2, KeptFront, 0 \in 0..Len(o) DEF Ours
<1> QED
  BY <1>3, <1>4

LEMMA KeptOfInstalled ==
  ASSUME NEW o \in Seq(Foreign), NEW r \in Runtime
  PROVE  Others(Append(o, r)) = o /\ Ours(Append(o, r)) = <<r>>
<1> DEFINE doc == Append(o, r)
<1>1. /\ doc \in Seq(Foreign \cup Runtime) /\ Len(doc) = Len(o) + 1 /\ DOMAIN doc = 1..Len(o) + 1
      /\ doc[Len(o) + 1] = r /\ \A i \in 1..Len(o) : doc[i] = o[i] /\ o[i] \in Foreign
  OBVIOUS
<1>2. {i \in DOMAIN doc : doc[i] \in Foreign} = 1..Len(o)
  BY <1>1, CommandAssumption
<1>3. {i \in DOMAIN doc : doc[i] \in Runtime} = {Len(o) + 1}
  BY <1>1, CommandAssumption
<1>4. Others(doc) = [k \in 1..Len(o) |-> doc[k]]
  <2> HIDE DEF doc
  <2> QED
    BY <1>1, <1>2, KeptFront, Len(o) \in 0..Len(doc) DEF Others
<1>5. Ours(doc) = <<doc[Len(o) + 1]>>
  <2> HIDE DEF doc
  <2> QED
    BY <1>1, <1>3, KeptSingle DEF Ours
<1>6. Others(doc) = [k \in 1..Len(o) |-> o[k]]
  BY <1>1, <1>4
<1> QED
  BY <1>1, <1>5, <1>6

\* A handler the owner puts in front changes nothing else.
LEMMA OwnersHandlerInFront ==
  ASSUME NEW doc \in HookDoc, NEW f \in Foreign
  PROVE  /\ <<f>> \o doc \in HookDoc
         /\ Others(<<f>> \o doc) = <<f>> \o Others(doc)
         /\ Ours(<<f>> \o doc) = Ours(doc)
<1>1. CASE doc \in Seq(Foreign)
  <2>1. <<f>> \o doc \in Seq(Foreign)
    BY <1>1
  <2> QED
    BY <1>1, <2>1, KeptOfOthers, HookDocForms
<1>2. ASSUME NEW o \in Seq(Foreign), NEW r \in Runtime, doc = Append(o, r)
      PROVE  /\ <<f>> \o doc \in HookDoc
             /\ Others(<<f>> \o doc) = <<f>> \o Others(doc)
             /\ Ours(<<f>> \o doc) = Ours(doc)
  <2>1. <<f>> \o o \in Seq(Foreign) /\ <<f>> \o doc = Append(<<f>> \o o, r)
    BY <1>2
  <2>2. Append(<<f>> \o o, r) \in HookDoc
    BY <2>1, HookDocForms
  <2>3. Others(doc) = o /\ Ours(doc) = <<r>>
    BY <1>2, KeptOfInstalled
  <2>4. Others(<<f>> \o doc) = <<f>> \o o /\ Ours(<<f>> \o doc) = <<r>>
    BY <2>1, KeptOfInstalled
  <2> QED
    BY <2>1, <2>2, <2>3, <2>4
<1> QED
  BY <1>1, <1>2, HookDocForms

\* Every such document has its others in order and one hook of humanq at most.
LEMMA HookDocTyped ==
  ASSUME NEW doc \in HookDoc
  PROVE  /\ Parsed(doc) /\ doc \in Seq(Foreign \cup Runtime)
         /\ Others(doc) \in Seq(Foreign) /\ Others(doc) \in HookDoc
         /\ Others(Others(doc)) = Others(doc)
         /\ \/ Ours(doc) = <<>> /\ \A n \in DOMAIN doc : doc[n] \notin Runtime
            \/ \E n \in DOMAIN doc : /\ doc[n] \in Runtime /\ Ours(doc) = <<doc[n]>>
                                     /\ \A m \in DOMAIN doc : doc[m] \in Runtime => m = n
<1>1. Seq(Foreign) \subseteq Seq(Foreign \cup Runtime)
  OBVIOUS
<1>2. CASE doc \in Seq(Foreign)
  <2>1. \A n \in DOMAIN doc : doc[n] \notin Runtime
    BY <1>2, CommandAssumption
  <2> QED
    BY <1>1, <1>2, <2>1, KeptOfOthers, HookDocForms, FileAssumption DEF Parsed
<1>3. ASSUME NEW o \in Seq(Foreign), NEW r \in Runtime, doc = Append(o, r)
      PROVE  /\ doc \in Seq(Foreign \cup Runtime)
             /\ Others(doc) = o /\ Ours(doc) = <<r>>
             /\ Len(o) + 1 \in DOMAIN doc /\ doc[Len(o) + 1] = r
             /\ \A m \in DOMAIN doc : doc[m] \in Runtime => m = Len(o) + 1
  <2>1. /\ doc \in Seq(Foreign \cup Runtime) /\ DOMAIN doc = 1..Len(o) + 1
        /\ doc[Len(o) + 1] = r /\ \A i \in 1..Len(o) : doc[i] = o[i] /\ o[i] \in Foreign
    BY <1>3
  <2> QED
    BY <1>3, <2>1, KeptOfInstalled, CommandAssumption
<1>4. ASSUME NEW o \in Seq(Foreign), NEW r \in Runtime, doc = Append(o, r)
      PROVE  Parsed(doc) /\ o \in HookDoc /\ Others(o) = o
  BY <1>3, <1>4, KeptOfOthers, HookDocForms, FileAssumption DEF Parsed
<1>5. CASE doc \notin Seq(Foreign)
  <2>1. PICK o \in Seq(Foreign), r \in Runtime : doc = Append(o, r)
    BY <1>5, HookDocForms
  <2>2. Parsed(doc) /\ doc \in Seq(Foreign \cup Runtime) /\ o \in HookDoc /\ Others(o) = o
    BY <1>3, <1>4, <2>1
  <2>3. /\ Others(doc) = o /\ Ours(doc) = <<doc[Len(o) + 1]>>
        /\ Len(o) + 1 \in DOMAIN doc /\ doc[Len(o) + 1] \in Runtime
        /\ \A m \in DOMAIN doc : doc[m] \in Runtime => m = Len(o) + 1
    BY <1>3, <2>1
  <2> QED
    BY <2>2, <2>3
<1> QED
  BY <1>2, <1>5

LEMMA InstalledTyped ==
  ASSUME NEW doc \in HookDoc, NEW r \in Runtime
  PROVE  Installed(doc, r) \in HookDoc /\ Others(Installed(doc, r)) = Others(doc)
<1>1. Others(doc) \in Seq(Foreign)
  BY HookDocTyped
<1>2. Installed(doc, r) = Append(Others(doc), r)
  BY DEF Installed
<1> QED
  BY <1>1, <1>2, KeptOfInstalled, HookDocForms
-----------------------------------------------------------------------------
(* Types.                                                                  *)

Step == {"idle", "ensure", "load", "create", "creating", "edit", "saving", "hooks", "keep",
         "copying", "install", "installing", "inventory", "look", "endorse", "confirm", "done",
         "failed", "dead", "halfway", "uncopied"}

\* Steps between reading hooks.json and having written it, and those of trust.
Holding == {"keep", "copying", "install", "installing"}
Asking == {"inventory", "look", "endorse", "confirm"}

LocalTypeOK ==
  /\ config \in Config \cup {Absent, Empty, Torn} /\ expected \in Config \cup {Absent}
  /\ hooks \in HookDoc \cup {Absent, Empty, Torn}
  /\ backup \in HookDoc \cup {Absent, Empty, Torn}
  /\ cmd \in [Process -> Command \cup {NoCommand}]
  /\ at \in [Process -> Step] /\ after \in [Process -> {"done", "hooks", "load", "edit"}]
  /\ mem \in [Process -> [config : Config \cup {Absent}, hooks : HookDoc]]
  /\ alone \in BOOLEAN /\ raced \in BOOLEAN
  /\ theirs \in Seq(Foreign) /\ saved \in Seq(Foreign)
  /\ \A p \in Process : at[p] # "idle" => cmd[p] \in Command
  /\ \A p \in Process :
       at[p] \in {"create", "creating", "edit", "saving"} => mem[p].config \in Config

TrustTypeOK ==
  /\ seen \in [Process -> [key : Nat, hash : Runtime \cup {NoHash},
                           status : {"unknown", "trusted", "untrusted", "modified"}]]
  /\ verdict \in [Process -> {"none", "refused", "already", "changed"}]
  /\ rewrites \in [Process -> 0..Rewritten]
  /\ lastHash \in [Process -> Runtime \cup {NoHash}]

-----------------------------------------------------------------------------
(* Inductive invariants.                                                   *)

\* The owner's handlers are in the file and in every copy that will be written.
HooksInv ==
  /\ Parsed(hooks) /\ ~raced => Others(hooks) = theirs
  /\ hooks = Absent => theirs = <<>>
  /\ \A p \in Process : at[p] \in {"keep", "copying"} => hooks # Absent
  /\ \A p \in Process : at[p] \in Holding /\ ~raced => Others(mem[p].hooks) = theirs

\* Without overlap hooks.json is a document, or missing, except while one
\* command writes it or after one was killed doing so, which ends all editing.
OneByOne ==
  /\ \A p, q \in Process : Running(p) /\ Running(q) => p = q
  /\ \A p \in Process : at[p] \in {"installing", "halfway"} => hooks = Empty
  /\ \A p, q \in Process : at[p] = "halfway" => at[q] \notin Holding
  /\ hooks \notin {Empty, Torn} \/ \E p \in Process : at[p] \in {"installing", "halfway"}

AloneInv == alone => OneByOne

BackupInv ==
  alone /\ ~raced =>
    /\ (\A p \in Process : at[p] \notin {"copying", "uncopied"}) =>
         backup = Absent \/ (Parsed(backup) /\ Others(backup) = saved)
    /\ \A p \in Process : at[p] = "copying" => backup = Empty
    /\ \A p \in Process :
         at[p] \in {"install", "installing", "halfway"} /\ cmd[p].op = "connect" /\ theirs # <<>>
           => backup # Absent

\* What a command that ensures a configuration makes of the one it found.
Base(p) == IF expected = Absent \/ cmd[p].op = "renew" THEN NewConfig(p) ELSE expected

\* Where ensure_config returns to.
Returns(p) ==
  /\ cmd[p].op \in {"onboard", "renew", "serve", "connect", "add", "rotate"}
  /\ after[p] = CASE cmd[p].op = "connect" -> "hooks" [] cmd[p].op = "add" -> "load"
                   [] cmd[p].op = "rotate" -> "edit" [] OTHER -> "done"

\* config.json and the document in memory, as far as a command has come.
Progress(p) ==
  /\ at[p] \in {"ensure", "create", "creating"} => Returns(p)
  /\ at[p] \in {"ensure", "create"} => config = expected
  /\ at[p] \in {"create", "creating"} => mem[p].config = NewConfig(p) /\ Base(p) = NewConfig(p)
  /\ at[p] \in {"creating", "saving"} => config = Empty
  /\ at[p] = "load" =>
       /\ cmd[p].op \in {"serve", "rotate", "remove", "add"}
       /\ config = IF cmd[p].op = "add" THEN Base(p) ELSE expected
  /\ at[p] = "edit" =>
       /\ cmd[p].op \in {"rotate", "remove", "add"}
       /\ config = Base(p) /\ mem[p].config = Base(p)
       /\ cmd[p].op = "remove" => expected # Absent
  /\ at[p] = "saving" => mem[p].config = Effect(p, expected)
  /\ at[p] \in {"hooks"} \cup Holding =>
       /\ cmd[p].op \in {"connect", "disconnect"}
       /\ config = IF cmd[p].op = "connect" THEN Base(p) ELSE expected
  /\ at[p] \in Asking => cmd[p].op = "trust" /\ config = expected

NobodyKilled == \A p \in Process : at[p] \notin {"dead", "halfway", "uncopied"}

InStep ==
  /\ (\A p \in Process : ~Running(p)) => config = expected
  /\ \A p \in Process : Running(p) => Progress(p)

SequentialInv == alone /\ NobodyKilled => InStep

\* What a trusting command was told is still so, or the file was changed since.
TrustInv ==
  /\ \A p \in Process :
       at[p] \in {"look", "endorse", "confirm"} /\ rewrites[p] = 0 /\ Parsed(hooks)
         /\ seen[p].key # 0 => Ours(hooks) = <<seen[p].hash>>
  /\ \A p \in Process :
       at[p] \in {"endorse", "confirm"} =>
         /\ seen[p].key # 0
         /\ \/ seen[p].hash = cmd[p].arg \/ rewrites[p] >= 2
            \/ rewrites[p] = 1 /\ (Parsed(hooks) => Ours(hooks) = <<cmd[p].arg>>)
  /\ \A p \in Process :
       verdict[p] \in {"already", "changed"} =>
         /\ at[p] = "done"
         /\ seen[p].hash = cmd[p].arg \/ rewrites[p] >= IF verdict[p] = "changed" THEN 2 ELSE 1
         /\ verdict[p] = "changed" => lastHash[p] = seen[p].hash

-----------------------------------------------------------------------------
(* Types are kept.                                                         *)

LEMMA CommandTyped ==
  ASSUME NEW c \in Command
  PROVE  /\ c # NoCommand /\ c.op \in {"onboard", "renew", "serve", "rotate", "add", "remove",
                                      "connect", "disconnect", "trust"}
         /\ c.op \in {"add", "remove"} => c.arg \in Channel
         /\ c.op \notin {"add", "remove"} => c.arg \in Runtime
BY CommandAssumption DEF CommandType

LEMMA NewConfigTyped == \A p \in Process : NewConfig(p) \in Config
BY DEF NewConfig, Config

LEMMA EditedTyped ==
  ASSUME NEW p \in Process, NEW c \in Command, NEW doc \in Config
  PROVE  Edited(p, c, doc) \in Config
BY CommandTyped DEF Edited, Config

LEMMA EffectTyped ==
  ASSUME NEW p \in Process, cmd[p] \in Command, NEW file \in Config \cup {Absent}
  PROVE  Effect(p, file) \in Config \cup {Absent}
<1>1. NewConfig(p) \in Config
  BY NewConfigTyped
<1> QED
  BY <1>1, CommandTyped DEF Effect, Config

\* What a change of the program counter of p is.
LEMMA GoesTyped ==
  ASSUME LocalTypeOK, NEW p \in Process, NEW s \in Step, Goes(p, s), at[p] # "idle" \/ s # "done"
  PROVE  /\ at' \in [Process -> Step] /\ expected' \in Config \cup {Absent}
         /\ at'[p] = s /\ \A q \in Process : q # p => at'[q] = at[q]
<1>1. CASE s = "done"
  BY <1>1, EffectTyped DEF Goes, LocalTypeOK
<1>2. CASE s # "done"
  BY <1>2 DEF Goes, LocalTypeOK
<1> QED
  BY <1>1, <1>2

\* The steps of trust: at most the program counter of one command moves.
TrustMove ==
  /\ UNCHANGED <<config, hooks, backup, cmd, after, mem, alone, theirs, saved, raced>>
  /\ \E p \in Process, s \in {"look", "endorse", "confirm", "done", "failed"} :
       at[p] \in Asking /\ s # at[p] /\ Goes(p, s)

LEMMA TrustMoves ==
  ASSUME NEW p \in Process,
         FirstInventory(p) \/ LookAtFile(p) \/ WriteTrust(p) \/ Confirm(p) \/ AskingFails(p)
  PROVE  TrustMove
<1>1. CASE FirstInventory(p) \/ WriteTrust(p)
  BY <1>1 DEF FirstInventory, WriteTrust, TrustMove, Asking
<1>2. CASE LookAtFile(p)
  BY <1>2 DEF LookAtFile, Reports, TrustMove, Asking
<1>3. CASE Confirm(p)
  BY <1>3 DEF Confirm, Reports, TrustMove, Asking
<1>4. CASE AskingFails(p)
  BY <1>4 DEF AskingFails, Reports, TrustMove, Asking
<1> QED
  BY <1>1, <1>2, <1>3, <1>4

LEMMA StepSplit ==
  ASSUME [TNext]_tvars
  PROVE  LNext \/ TrustMove \/ UNCHANGED lvars
<1>1. CASE Changes
  BY <1>1 DEF Changes
<1>2. CASE UserTrusts \/ UNCHANGED tvars
  BY <1>2 DEF UserTrusts, tvars
<1> QED
  BY <1>1, <1>2, TrustMoves DEF TNext

LEMMA LocalTypeInit == TInit => LocalTypeOK
<1> SUFFICES ASSUME TInit PROVE LocalTypeOK
  OBVIOUS
<1>1. <<>> \in Seq(Foreign) /\ <<>> \in HookDoc /\ \A f \in Foreign : <<f>> \in Seq(Foreign)
  <2>1. <<>> \in Seq(Foreign) /\ \A f \in Foreign : <<f>> \in Seq(Foreign)
    OBVIOUS
  <2> QED
    BY <2>1, HookDocForms
<1>2. hooks \in HookDoc \cup {Absent} /\ theirs \in Seq(Foreign) /\ saved \in Seq(Foreign)
  BY <1>1, HookDocForms DEF TInit, LInit
<1> QED
  BY <1>1, <1>2 DEF TInit, LInit, LocalTypeOK, NoMemory, Step

LEMMA BeginTyped ==
  ASSUME LocalTypeOK, NEW p \in Process, NEW c \in Command, Begin(p, c)
  PROVE  LocalTypeOK'
<1>1. First(c.op) \in Step \ {"done", "idle", "create", "creating", "edit", "saving"}
  BY CommandTyped DEF First, Step
<1>2. AfterEnsure(c.op) \in {"done", "hooks", "load", "edit"}
  BY DEF AfterEnsure
<1>3. /\ at' \in [Process -> Step] /\ expected' \in Config \cup {Absent}
      /\ at'[p] = First(c.op) /\ \A q \in Process : q # p => at'[q] = at[q]
  BY <1>1, GoesTyped DEF Begin
<1>4. alone' \in BOOLEAN
  BY DEF Begin, LocalTypeOK
<1> HIDE DEF First, AfterEnsure, Running
<1> QED
  BY <1>1, <1>2, <1>3, <1>4 DEF Begin, LocalTypeOK

LEMMA LoadTyped ==
  ASSUME LocalTypeOK, NEW p \in Process, Load(p)
  PROVE  LocalTypeOK'
<1>1. at[p] = "load" /\ cmd[p] \in Command
  BY DEF Load, LocalTypeOK
<1>2. CASE Parsed(config)
  <2>1. config \in Config
    BY <1>2 DEF Parsed, LocalTypeOK
  <2>2. PICK s \in {"done", "edit"} : Goes(p, s)
    BY <1>2 DEF Load
  <2>3. /\ at' \in [Process -> Step] /\ expected' \in Config \cup {Absent}
        /\ at'[p] = s /\ \A q \in Process : q # p => at'[q] = at[q]
    BY <1>1, <2>2, GoesTyped DEF Step
  <2>4. mem' \in [Process -> [config : Config \cup {Absent}, hooks : HookDoc]]
        /\ mem'[p].config = config /\ \A q \in Process : q # p => mem'[q] = mem[q]
    BY <1>2, <2>1 DEF Load, Remembers, LocalTypeOK
  <2> QED
    BY <1>1, <1>2, <2>1, <2>3, <2>4 DEF Load, LocalTypeOK
<1>3. CASE ~Parsed(config)
  <2>1. PICK s \in {"done", "ensure"} : Goes(p, s)
    BY <1>3 DEF Load
  <2>2. /\ at' \in [Process -> Step] /\ expected' \in Config \cup {Absent}
        /\ at'[p] = s /\ \A q \in Process : q # p => at'[q] = at[q]
    BY <1>1, <2>1, GoesTyped DEF Step
  <2>3. after' \in [Process -> {"done", "hooks", "load", "edit"}]
    BY <1>3 DEF Load, LocalTypeOK
  <2> QED
    BY <1>1, <1>3, <2>1, <2>2, <2>3 DEF Load, LocalTypeOK
<1> QED
  BY <1>2, <1>3

LEMMA EnsureTyped ==
  ASSUME LocalTypeOK, NEW p \in Process, Ensure(p)
  PROVE  LocalTypeOK'
<1>1. at[p] = "ensure" /\ cmd[p] \in Command
  BY DEF Ensure, LocalTypeOK
<1>2. PICK doc \in Config, s \in {"done", "hooks", "load", "edit", "create"} :
        Remembers(p, doc) /\ Goes(p, s)
  BY NewConfigTyped DEF Ensure, Parsed, LocalTypeOK
<1>3. /\ at' \in [Process -> Step] /\ expected' \in Config \cup {Absent}
      /\ at'[p] = s /\ \A q \in Process : q # p => at'[q] = at[q]
  BY <1>1, <1>2, GoesTyped DEF Step
<1>4. mem' \in [Process -> [config : Config \cup {Absent}, hooks : HookDoc]]
      /\ mem'[p].config = doc /\ \A q \in Process : q # p => mem'[q] = mem[q]
  BY <1>2 DEF Remembers, LocalTypeOK
<1> QED
  BY <1>1, <1>2, <1>3, <1>4 DEF Ensure, LocalTypeOK

LEMMA OpenConfigTyped ==
  ASSUME LocalTypeOK, NEW p \in Process, OpenConfig(p)
  PROVE  LocalTypeOK'
<1>1. at[p] \in {"create", "edit"} /\ cmd[p] \in Command /\ mem[p].config \in Config
  BY DEF OpenConfig, LocalTypeOK
<1>2. PICK s \in {"creating", "saving"} : Goes(p, s)
  BY DEF OpenConfig
<1>3. /\ at' \in [Process -> Step] /\ expected' \in Config \cup {Absent}
      /\ at'[p] = s /\ \A q \in Process : q # p => at'[q] = at[q]
  BY <1>1, <1>2, GoesTyped DEF Step
<1>4. Edited(p, cmd[p], mem[p].config) \in Config
  BY <1>1, EditedTyped
<1>5. /\ mem' \in [Process -> [config : Config \cup {Absent}, hooks : HookDoc]]
      /\ mem'[p].config \in Config /\ \A q \in Process : q # p => mem'[q] = mem[q]
  BY <1>1, <1>4 DEF OpenConfig, Remembers, LocalTypeOK
<1> QED
  BY <1>1, <1>2, <1>3, <1>5 DEF OpenConfig, LocalTypeOK

LEMMA WriteConfigTyped ==
  ASSUME LocalTypeOK, NEW p \in Process, WriteConfig(p)
  PROVE  LocalTypeOK'
<1>1. at[p] \in {"creating", "saving"} /\ cmd[p] \in Command /\ mem[p].config \in Config
  BY DEF WriteConfig, LocalTypeOK
<1>2. config' \in Config \cup {Torn}
  BY <1>1 DEF WriteConfig, Flushed
<1>3. PICK s \in {"done", "hooks", "load", "edit"} : Goes(p, s) /\ (s # "done" => at[p] = "creating")
  BY <1>1 DEF WriteConfig, LocalTypeOK
<1>4. /\ at' \in [Process -> Step] /\ expected' \in Config \cup {Absent}
      /\ at'[p] = s /\ \A q \in Process : q # p => at'[q] = at[q]
  BY <1>1, <1>3, GoesTyped DEF Step
<1>5. /\ mem' \in [Process -> [config : Config \cup {Absent}, hooks : HookDoc]]
      /\ at[p] = "creating" => mem' = mem
      /\ \A q \in Process : q # p => mem'[q] = mem[q]
  BY <1>1 DEF WriteConfig, Remembers, LocalTypeOK
<1> QED
  BY <1>1, <1>2, <1>3, <1>4, <1>5 DEF WriteConfig, LocalTypeOK

\* What the steps on hooks.json do to types, given what they make of the
\* file, the copy and the document in memory.
LEMMA HooksStepTyped ==
  ASSUME LocalTypeOK, NEW p \in Process, NEW s \in Step \ {"create", "creating", "edit", "saving", "idle"},
         Goes(p, s), at[p] # "idle",
         UNCHANGED <<config, cmd, after, alone, theirs, raced>>, saved' \in Seq(Foreign),
         hooks' \in HookDoc \cup {Absent, Empty, Torn},
         backup' \in HookDoc \cup {Absent, Empty, Torn},
         mem' = mem \/ \E doc \in HookDoc : RemembersHooks(p, doc)
  PROVE  LocalTypeOK'
<1>1. /\ at' \in [Process -> Step] /\ expected' \in Config \cup {Absent}
      /\ at'[p] = s /\ \A q \in Process : q # p => at'[q] = at[q]
  BY GoesTyped
<1>2. /\ mem' \in [Process -> [config : Config \cup {Absent}, hooks : HookDoc]]
      /\ \A q \in Process : mem'[q].config = mem[q].config
  <2>1. CASE mem' = mem
    BY <2>1 DEF LocalTypeOK
  <2>2. ASSUME NEW doc \in HookDoc, RemembersHooks(p, doc)
        PROVE  /\ mem' \in [Process -> [config : Config \cup {Absent}, hooks : HookDoc]]
               /\ \A q \in Process : mem'[q].config = mem[q].config
    <3>1. mem \in [Process -> [config : Config \cup {Absent}, hooks : HookDoc]]
      BY DEF LocalTypeOK
    <3>2. mem' = [mem EXCEPT ![p].hooks = doc]
      BY <2>2 DEF RemembersHooks
    <3> QED
      BY <3>1, <3>2
  <2> QED
    BY <2>1, <2>2
<1> QED
  BY <1>1, <1>2 DEF LocalTypeOK

LEMMA ReadTyped ==
  ASSUME LocalTypeOK, NEW p \in Process, ReadToInstall(p) \/ ReadToUninstall(p)
  PROVE  LocalTypeOK'
<1>1. cmd[p] \in Command /\ at[p] = "hooks"
  BY DEF ReadToInstall, ReadToUninstall, LocalTypeOK
<1>2. <<>> \in HookDoc
  <2>1. <<>> \in Seq(Foreign)
    OBVIOUS
  <2> QED
    BY <2>1, HookDocForms
<1>3. \A doc \in HookDoc : Others(doc) \in HookDoc
  BY HookDocTyped
<1>4. Parsed(hooks) => hooks \in HookDoc
  BY DEF Parsed, LocalTypeOK
<1>5. CASE ReadToInstall(p)
  <2>1. cmd[p].arg \in Runtime
    BY <1>1, <1>5, CommandTyped DEF ReadToInstall
  <2>2. \A doc \in HookDoc : Installed(doc, cmd[p].arg) \in HookDoc
    BY <2>1, InstalledTyped
  <2>3. PICK s \in {"install", "keep", "failed"} : Goes(p, s)
    BY <1>5 DEF ReadToInstall, Keep
  <2>4. mem' = mem \/ \E doc \in HookDoc : RemembersHooks(p, doc)
    BY <1>2, <1>4, <1>5, <2>2 DEF ReadToInstall
  <2>5. UNCHANGED <<config, hooks, backup, cmd, after, alone, theirs, saved, raced>>
    BY <1>5 DEF ReadToInstall
  <2> QED
    BY <1>1, <2>3, <2>4, <2>5, HooksStepTyped DEF LocalTypeOK, Step
<1>6. CASE ReadToUninstall(p)
  <2>1. PICK s \in {"install", "done", "failed"} : Goes(p, s)
    BY <1>6 DEF ReadToUninstall
  <2>2. mem' = mem \/ \E doc \in HookDoc : RemembersHooks(p, doc)
    BY <1>3, <1>4, <1>6 DEF ReadToUninstall
  <2>3. UNCHANGED <<config, hooks, backup, cmd, after, alone, theirs, saved, raced>>
    BY <1>6 DEF ReadToUninstall
  <2> QED
    BY <1>1, <2>1, <2>2, <2>3, HooksStepTyped DEF LocalTypeOK, Step
<1> QED
  BY <1>5, <1>6

LEMMA WriteTyped ==
  ASSUME LocalTypeOK, NEW p \in Process, KeepCopy(p) \/ CopyHooks(p) \/ OpenHooks(p) \/ WriteHooks(p)
  PROVE  LocalTypeOK'
<1>1. PICK s \in {"copying", "install", "installing", "done"} : Goes(p, s) /\ at[p] # "idle"
  BY DEF KeepCopy, CopyHooks, OpenHooks, WriteHooks
<1>2. <<>> \in HookDoc
  <2>1. <<>> \in Seq(Foreign)
    OBVIOUS
  <2> QED
    BY <2>1, HookDocForms
<1>3. UNCHANGED <<config, cmd, after, alone, theirs, raced>>
  BY DEF KeepCopy, CopyHooks, OpenHooks, WriteHooks
<1>4. hooks' \in HookDoc \cup {Absent, Empty, Torn}
  BY DEF KeepCopy, CopyHooks, OpenHooks, WriteHooks, Flushed, LocalTypeOK
<1>5. backup' \in HookDoc \cup {Absent, Empty, Torn}
  BY DEF KeepCopy, CopyHooks, OpenHooks, WriteHooks, Flushed, LocalTypeOK
<1>6. mem' = mem \/ \E doc \in HookDoc : RemembersHooks(p, doc)
  BY <1>2 DEF KeepCopy, CopyHooks, OpenHooks, WriteHooks
<1>7. saved' \in Seq(Foreign)
  BY DEF KeepCopy, CopyHooks, OpenHooks, WriteHooks, LocalTypeOK
<1> QED
  BY <1>1, <1>3, <1>4, <1>5, <1>6, <1>7, HooksStepTyped DEF Step

LEMMA OwnerTyped ==
  ASSUME LocalTypeOK, NEW f \in Foreign, OwnerEdits(f)
  PROVE  LocalTypeOK'
<1>1. <<f>> \in Seq(Foreign) /\ theirs' \in Seq(Foreign)
  BY DEF OwnerEdits, LocalTypeOK
<1>2. hooks' \in HookDoc
  BY <1>1, HookDocForms, OwnersHandlerInFront DEF OwnerEdits, Parsed, LocalTypeOK
<1>3. raced' \in BOOLEAN
  BY DEF OwnerEdits, LocalTypeOK
<1>4. UNCHANGED <<config, backup, cmd, at, after, mem, expected, alone, saved>>
  BY DEF OwnerEdits, processVars
<1> QED
  BY <1>1, <1>2, <1>3, <1>4 DEF LocalTypeOK

LEMMA DieTyped ==
  ASSUME LocalTypeOK, NEW p \in Process, Die(p)
  PROVE  LocalTypeOK'
<1>1. at[p] # "idle"
  BY DEF Die, Running
<1>2. PICK s \in {"dead", "halfway", "uncopied"} : Goes(p, s)
  BY DEF Die, Cut
<1>3. /\ at' \in [Process -> Step] /\ expected' \in Config \cup {Absent}
      /\ at'[p] = s /\ \A q \in Process : q # p => at'[q] = at[q]
  BY <1>1, <1>2, GoesTyped DEF Step
<1>4. NoMemory \in [config : Config \cup {Absent}, hooks : HookDoc]
  <2>1. <<>> \in Seq(Foreign)
    OBVIOUS
  <2> QED
    BY <2>1, HookDocForms DEF NoMemory
<1>5. /\ mem' \in [Process -> [config : Config \cup {Absent}, hooks : HookDoc]]
      /\ \A q \in Process : q # p => mem'[q] = mem[q]
  BY <1>4 DEF Die, LocalTypeOK
<1> QED
  BY <1>1, <1>2, <1>3, <1>5 DEF Die, LocalTypeOK

LEMMA TrustMoveTyped ==
  ASSUME LocalTypeOK, TrustMove
  PROVE  LocalTypeOK'
<1>1. PICK p \in Process, s \in {"look", "endorse", "confirm", "done", "failed"} :
        at[p] \in Asking /\ Goes(p, s)
  BY DEF TrustMove
<1>2. at[p] # "idle"
  BY <1>1 DEF Asking
<1>3. /\ at' \in [Process -> Step] /\ expected' \in Config \cup {Absent}
      /\ at'[p] = s /\ \A q \in Process : q # p => at'[q] = at[q]
  BY <1>1, <1>2, GoesTyped DEF Step
<1> QED
  BY <1>1, <1>2, <1>3 DEF TrustMove, LocalTypeOK

LEMMA LocalTypeStep == LocalTypeOK /\ [TNext]_tvars => LocalTypeOK'
<1> SUFFICES ASSUME LocalTypeOK, [TNext]_tvars PROVE LocalTypeOK'
  OBVIOUS
<1>1. CASE LNext
  BY <1>1, BeginTyped, LoadTyped, EnsureTyped, OpenConfigTyped, WriteConfigTyped, ReadTyped,
     WriteTyped, OwnerTyped, DieTyped DEF LNext
<1>2. CASE UNCHANGED lvars
  BY <1>2 DEF lvars, processVars, historyVars, LocalTypeOK
<1> QED
  BY <1>1, <1>2, StepSplit, TrustMoveTyped

-----------------------------------------------------------------------------
(* The handlers of others survive.                                         *)

\* Steps that leave hooks.json, its copy and all documents for it alone.
QuietStep(p) ==
  /\ UNCHANGED <<hooks, backup, theirs, saved, raced>>
  /\ at' \in [Process -> Step] /\ at[p] # at'[p] /\ at'[p] \notin Holding \cup {"idle"}
  /\ at[p] \notin {"halfway", "uncopied"}
  /\ at[p] = "installing" <=> at'[p] = "halfway"
  /\ at[p] = "copying" <=> at'[p] = "uncopied"
  /\ at'[p] = "halfway" => cmd'[p] = cmd[p]
  /\ \A q \in Process : q # p => at'[q] = at[q] /\ mem'[q] = mem[q] /\ cmd'[q] = cmd[q]
  /\ alone' => alone /\ (Running(p) \/ \A q \in Process : ~Running(q))

LEMMA BeginIsQuiet ==
  ASSUME LocalTypeOK, NEW p \in Process, NEW c \in Command, Begin(p, c)
  PROVE  QuietStep(p)
<1>1. First(c.op) \in {"ensure", "load", "hooks", "inventory"}
  BY CommandTyped DEF First
<1>2. /\ at' \in [Process -> Step] /\ at'[p] = First(c.op)
      /\ \A q \in Process : q # p => at'[q] = at[q]
  BY <1>1, GoesTyped DEF Begin, Step
<1>3. at[p] = "idle" /\ \A q \in Process : q # p => cmd'[q] = cmd[q]
  BY DEF Begin, LocalTypeOK
<1>4. alone' => alone /\ \A q \in Process : ~Running(q)
  BY DEF Begin, LocalTypeOK
<1>5. UNCHANGED <<hooks, backup, mem, theirs, saved, raced>>
  BY DEF Begin
<1> HIDE DEF First, Running
<1> QED
  BY <1>1, <1>2, <1>3, <1>4, <1>5 DEF QuietStep, Holding

LEMMA ConfigStepIsQuiet ==
  ASSUME LocalTypeOK, NEW p \in Process,
         Load(p) \/ Ensure(p) \/ OpenConfig(p) \/ WriteConfig(p) \/ Die(p)
  PROVE  QuietStep(p)
<1>1. /\ at[p] \in Step /\ at[p] \notin {"idle", "halfway", "uncopied"}
      /\ Die(p) \/ at[p] \in {"load", "ensure", "create", "edit", "creating", "saving"}
  BY DEF Load, Ensure, OpenConfig, WriteConfig, Die, Running, LocalTypeOK
<1>2. PICK s \in {"done", "edit", "ensure", "create", "hooks", "load", "creating", "saving",
                  "dead", "halfway", "uncopied"} :
        /\ Goes(p, s) /\ s # at[p]
        /\ s = "halfway" <=> at[p] = "installing"
        /\ s = "uncopied" <=> at[p] = "copying"
  <2>1. CASE Load(p)
    BY <2>1 DEF Load
  <2>2. CASE Ensure(p)
    BY <2>2 DEF Ensure, LocalTypeOK
  <2>3. CASE OpenConfig(p)
    BY <2>3 DEF OpenConfig
  <2>4. CASE WriteConfig(p)
    BY <2>4 DEF WriteConfig, LocalTypeOK
  <2>5. CASE Die(p)
    BY <2>5 DEF Die, Cut, Running
  <2> QED
    BY <2>1, <2>2, <2>3, <2>4, <2>5
<1>3. /\ at' \in [Process -> Step] /\ at'[p] = s
      /\ \A q \in Process : q # p => at'[q] = at[q]
  BY <1>1, <1>2, GoesTyped DEF Step
<1>4. \A q \in Process : q # p => mem'[q] = mem[q]
  BY DEF Load, Ensure, OpenConfig, WriteConfig, Die, Remembers, LocalTypeOK
<1>5. UNCHANGED <<hooks, backup, cmd, theirs, saved, raced, alone>>
  BY DEF Load, Ensure, OpenConfig, WriteConfig, Die
<1>6. Running(p)
  BY <1>1 DEF Running, Die
<1>7. /\ at[p] # at'[p] /\ at'[p] \notin Holding \cup {"idle"}
      /\ at[p] \notin {"halfway", "uncopied"}
      /\ at[p] = "installing" <=> at'[p] = "halfway"
      /\ at[p] = "copying" <=> at'[p] = "uncopied"
  BY <1>1, <1>2, <1>3 DEF Holding
<1> QED
  BY <1>3, <1>4, <1>5, <1>6, <1>7 DEF QuietStep

LEMMA TrustMoveIsQuiet ==
  ASSUME LocalTypeOK, TrustMove
  PROVE  \E p \in Process : QuietStep(p)
<1>1. PICK p \in Process, s \in {"look", "endorse", "confirm", "done", "failed"} :
        at[p] \in Asking /\ s # at[p] /\ Goes(p, s)
  BY DEF TrustMove
<1>2. at[p] \notin {"idle", "halfway", "uncopied", "installing", "copying"} /\ Running(p)
  BY <1>1 DEF Asking, Running
<1>3. /\ at' \in [Process -> Step] /\ at'[p] = s
      /\ \A q \in Process : q # p => at'[q] = at[q]
  BY <1>1, <1>2, GoesTyped DEF Step
<1> QED
  BY <1>1, <1>2, <1>3 DEF TrustMove, QuietStep, Holding

\* Every step is quiet, or one of the few on hooks.json.
LEMMA LocalSteps ==
  ASSUME LocalTypeOK, [TNext]_tvars
  PROVE  \/ \E p \in Process : QuietStep(p)
         \/ \E p \in Process : \/ ReadToInstall(p) \/ KeepCopy(p) \/ CopyHooks(p) \/ ReadToUninstall(p)
                               \/ OpenHooks(p) \/ WriteHooks(p)
         \/ \E f \in Foreign : OwnerEdits(f)
         \/ UNCHANGED lvars
BY StepSplit, BeginIsQuiet, ConfigStepIsQuiet, TrustMoveIsQuiet DEF LNext

LEMMA HooksInit == TInit => HooksInv
<1> SUFFICES ASSUME TInit PROVE HooksInv
  OBVIOUS
<1>1. hooks # Absent => hooks \in Seq(Foreign) /\ theirs = hooks
  <2>1. PICK f \in Foreign : hooks \in {Absent, <<f>>}
    BY DEF TInit, LInit
  <2>2. <<f>> \in Seq(Foreign)
    OBVIOUS
  <2> QED
    BY <2>1, <2>2 DEF TInit, LInit
<1> QED
  BY <1>1, KeptOfOthers DEF TInit, LInit, HooksInv, Holding, Parsed

LEMMA QuietHooks ==
  ASSUME HooksInv, NEW p \in Process, QuietStep(p)
  PROVE  HooksInv'
<1>1. ASSUME NEW q \in Process, at'[q] \in Holding PROVE at'[q] = at[q] /\ mem'[q] = mem[q]
  BY <1>1 DEF QuietStep
<1> QED
  BY <1>1 DEF QuietStep, HooksInv, Holding, Parsed

LEMMA ReadHooks ==
  ASSUME LocalTypeOK, HooksInv, NEW p \in Process, ReadToInstall(p) \/ ReadToUninstall(p)
  PROVE  /\ UNCHANGED <<config, hooks, backup, cmd, after, alone, theirs, saved, raced>>
         /\ at[p] = "hooks" /\ cmd[p] \in Command /\ at' \in [Process -> Step]
         /\ \A q \in Process : q # p => at'[q] = at[q] /\ mem'[q] = mem[q]
         /\ at'[p] \in {"keep", "install", "done", "failed"}
         /\ at'[p] = "failed" => hooks # Absent /\ ~Parsed(hooks)
         /\ at'[p] = "keep" => hooks # Absent /\ Parsed(hooks)
         /\ at'[p] = "install" => hooks = Absent \/ Parsed(hooks)
         /\ at'[p] = "install" /\ cmd[p].op = "connect" => hooks = Absent
         /\ at'[p] = "done" => cmd[p].op = "disconnect"
         /\ at'[p] \in Holding /\ ~raced => Others(mem'[p].hooks) = theirs
<1>1. at[p] = "hooks" /\ cmd[p] \in Command
  BY DEF ReadToInstall, ReadToUninstall, LocalTypeOK
<1>2. <<>> \in Seq(Foreign) /\ <<>> \in HookDoc /\ Others(<<>>) = <<>>
  <2>1. <<>> \in Seq(Foreign)
    OBVIOUS
  <2> QED
    BY <2>1, HookDocForms, KeptOfOthers
<1>3. Parsed(hooks) => hooks \in HookDoc
  BY DEF Parsed, LocalTypeOK
<1>4. UNCHANGED <<config, hooks, backup, cmd, after, alone, theirs, saved, raced>>
  BY DEF ReadToInstall, ReadToUninstall
<1>5. CASE ReadToInstall(p)
  <2>1. cmd[p].arg \in Runtime /\ cmd[p].op = "connect"
    BY <1>1, <1>5, CommandTyped DEF ReadToInstall
  <2>2. PICK s \in {"install", "keep", "failed"} :
          /\ Goes(p, s)
          /\ s = "failed" => hooks # Absent /\ ~Parsed(hooks) /\ mem' = mem
          /\ s = "keep" => /\ hooks # Absent /\ Parsed(hooks)
                          /\ RemembersHooks(p, Installed(hooks, cmd[p].arg))
          /\ s = "install" => hooks = Absent /\ RemembersHooks(p, Installed(<<>>, cmd[p].arg))
    BY <1>5 DEF ReadToInstall, Keep, NoHooks
  <2>3. /\ at' \in [Process -> Step] /\ at'[p] = s
        /\ \A q \in Process : q # p => at'[q] = at[q]
    BY <1>1, <2>2, GoesTyped DEF Step
  <2>4. \A doc : RemembersHooks(p, doc) =>
           mem'[p].hooks = doc /\ \A q \in Process : q # p => mem'[q] = mem[q]
    BY DEF RemembersHooks, LocalTypeOK
  <2>5. Others(Installed(<<>>, cmd[p].arg)) = <<>>
    BY <1>2, <2>1, InstalledTyped
  <2>6. Parsed(hooks) => Others(Installed(hooks, cmd[p].arg)) = Others(hooks)
    BY <1>3, <2>1, InstalledTyped
  <2>7. \A q \in Process : q # p => mem'[q] = mem[q]
    BY <2>2, <2>4
  <2>8. s \in Holding /\ ~raced => Others(mem'[p].hooks) = theirs
    BY <2>2, <2>4, <2>5, <2>6 DEF HooksInv, Holding
  <2> QED
    BY <1>1, <1>4, <2>1, <2>2, <2>3, <2>7, <2>8
<1>6. CASE ReadToUninstall(p)
  <2>1. cmd[p].op = "disconnect"
    BY <1>6 DEF ReadToUninstall
  <2>2. PICK s \in {"install", "done", "failed"} :
          /\ Goes(p, s)
          /\ s = "failed" => hooks # Absent /\ ~Parsed(hooks)
          /\ s = "install" => Parsed(hooks) /\ RemembersHooks(p, Others(hooks))
          /\ mem' = mem \/ RemembersHooks(p, Others(hooks))
    BY <1>6 DEF ReadToUninstall
  <2>3. /\ at' \in [Process -> Step] /\ at'[p] = s
        /\ \A q \in Process : q # p => at'[q] = at[q]
    BY <1>1, <2>2, GoesTyped DEF Step
  <2>4. RemembersHooks(p, Others(hooks)) =>
           mem'[p].hooks = Others(hooks) /\ \A q \in Process : q # p => mem'[q] = mem[q]
    BY DEF RemembersHooks, LocalTypeOK
  <2>5. Parsed(hooks) => Others(Others(hooks)) = Others(hooks)
    BY <1>3, HookDocTyped
  <2>6. s \in Holding /\ ~raced => Others(mem'[p].hooks) = theirs
    BY <2>2, <2>4, <2>5 DEF HooksInv, Holding
  <2>7. \A q \in Process : q # p => mem'[q] = mem[q]
    BY <2>2, <2>4
  <2> QED
    BY <1>1, <1>4, <2>1, <2>2, <2>3, <2>6, <2>7
<1> QED
  BY <1>5, <1>6

LEMMA ChangeHooks ==
  ASSUME LocalTypeOK, NEW p \in Process, KeepCopy(p) \/ CopyHooks(p) \/ OpenHooks(p) \/ WriteHooks(p)
  PROVE  /\ UNCHANGED <<config, cmd, after, alone, theirs, raced>>
         /\ at[p] \in Holding /\ cmd[p] \in Command /\ at' \in [Process -> Step]
         /\ \A q \in Process : q # p => at'[q] = at[q] /\ mem'[q] = mem[q]
         /\ \/ /\ KeepCopy(p) /\ at[p] = "keep" /\ mem' = mem /\ hooks' = hooks /\ saved' = saved
               /\ \/ backup = Absent /\ backup' = Empty /\ at'[p] = "copying"
                  \/ backup # Absent /\ backup' = backup /\ at'[p] = "install"
            \/ /\ CopyHooks(p) /\ at[p] = "copying" /\ at'[p] = "install" /\ mem' = mem
               /\ hooks' = hooks /\ saved' = theirs
               /\ hooks # Empty /\ backup = Empty => backup' = hooks
            \/ /\ OpenHooks(p) /\ at[p] = "install" /\ at'[p] = "installing" /\ mem' = mem
               /\ hooks' = Empty /\ backup' = backup /\ saved' = saved
            \/ /\ WriteHooks(p) /\ at[p] = "installing" /\ at'[p] = "done" /\ backup' = backup
               /\ saved' = saved
               /\ hooks' = mem[p].hooks \/ (hooks # Empty /\ hooks' = Torn)
<1>1. PICK s \in {"copying", "install", "installing", "done"} : Goes(p, s) /\ at[p] # "idle"
  BY DEF KeepCopy, CopyHooks, OpenHooks, WriteHooks
<1>2. /\ at' \in [Process -> Step] /\ at'[p] = s
      /\ \A q \in Process : q # p => at'[q] = at[q]
  BY <1>1, GoesTyped DEF Step
<1>3. UNCHANGED <<config, cmd, after, alone, theirs, raced>>
  BY DEF KeepCopy, CopyHooks, OpenHooks, WriteHooks
<1>4. \A q \in Process : q # p => mem'[q] = mem[q]
  BY DEF KeepCopy, CopyHooks, OpenHooks, WriteHooks, RemembersHooks, LocalTypeOK
<1>5. at[p] \in Holding /\ cmd[p] \in Command
  BY DEF KeepCopy, CopyHooks, OpenHooks, WriteHooks, Holding, LocalTypeOK
<1>6. ASSUME NEW t \in Step, Goes(p, t) PROVE at'[p] = t
  BY <1>6 DEF Goes, LocalTypeOK
<1>7. CASE KeepCopy(p)
  BY <1>2, <1>3, <1>4, <1>5, <1>6, <1>7 DEF KeepCopy, Step
<1>8. CASE OpenHooks(p)
  BY <1>2, <1>3, <1>4, <1>5, <1>6, <1>8 DEF OpenHooks, Step
<1>9. CASE WriteHooks(p)
  BY <1>2, <1>3, <1>4, <1>5, <1>6, <1>9 DEF WriteHooks, Flushed, Step
<1>10. CASE CopyHooks(p)
  BY <1>2, <1>3, <1>4, <1>5, <1>6, <1>10 DEF CopyHooks, Flushed, Step
<1> QED
  BY <1>7, <1>8, <1>9, <1>10

LEMMA HooksStep == LocalTypeOK /\ HooksInv /\ [TNext]_tvars => HooksInv'
<1> SUFFICES ASSUME LocalTypeOK, HooksInv, [TNext]_tvars PROVE HooksInv'
  OBVIOUS
<1>1. ASSUME NEW p \in Process, ReadToInstall(p) \/ ReadToUninstall(p) PROVE HooksInv'
  BY <1>1, ReadHooks DEF HooksInv, Holding, Parsed
<1>2. ASSUME NEW p \in Process, KeepCopy(p) \/ CopyHooks(p) \/ OpenHooks(p) \/ WriteHooks(p) PROVE HooksInv'
  <2>1. hooks' # Absent /\ (Parsed(hooks') /\ ~raced => Others(hooks') = theirs)
    BY <1>2, ChangeHooks, HookDocTyped, FileAssumption
    DEF HooksInv, Holding, Parsed, LocalTypeOK
  <2>2. ASSUME NEW q \in Process, at'[q] \in Holding
        PROVE  at[q] \in Holding /\ mem'[q] = mem[q]
    BY <1>2, <2>2, ChangeHooks DEF Holding
  <2> QED
    BY <1>2, <2>1, <2>2, ChangeHooks DEF HooksInv, Parsed, Holding
<1>3. ASSUME NEW f \in Foreign, OwnerEdits(f) PROVE HooksInv'
  <2>1. UNCHANGED <<at, mem>> /\ hooks' # Absent
    <3>1. <<f>> \in Seq(Foreign)
      OBVIOUS
    <3>2. hooks' \in HookDoc
      BY <1>3, <3>1, HookDocForms, OwnersHandlerInFront DEF OwnerEdits, Parsed, LocalTypeOK
    <3>3. hooks' # Absent
      BY <3>2, HookDocTyped DEF Parsed
    <3> QED
      BY <1>3, <3>3 DEF OwnerEdits, processVars
  <2>2. raced => raced'
    BY <1>3 DEF OwnerEdits
  <2>3. ASSUME ~raced' PROVE Others(hooks') = theirs'
    <3>1. CASE hooks = Absent
      <4>1. <<f>> \in Seq(Foreign) /\ theirs = <<>> /\ theirs' = <<f>>
        BY <1>3, <3>1 DEF OwnerEdits, HooksInv
      <4> QED
        BY <1>3, <3>1, <4>1, KeptOfOthers DEF OwnerEdits
    <3>2. CASE Parsed(hooks)
      <4>1. hooks \in HookDoc /\ Others(hooks) = theirs /\ hooks # Absent
        BY <2>2, <2>3, <3>2 DEF HooksInv, LocalTypeOK, Parsed
      <4> QED
        BY <1>3, <4>1, OwnersHandlerInFront DEF OwnerEdits
    <3> QED
      BY <1>3, <3>1, <3>2 DEF OwnerEdits
  <2>4. ASSUME NEW p \in Process, at[p] \in Holding PROVE raced'
    BY <1>3, <2>4 DEF OwnerEdits, Running, Holding
  <2> QED
    BY <2>1, <2>2, <2>3, <2>4 DEF HooksInv
<1>4. CASE UNCHANGED lvars
  BY <1>4 DEF lvars, processVars, historyVars, HooksInv, Parsed
<1> QED
  BY <1>1, <1>2, <1>3, <1>4, LocalSteps, QuietHooks

-----------------------------------------------------------------------------
(* Commands that do not overlap, and the copy.                             *)

LEMMA AloneInit == TInit => AloneInv
<1> SUFFICES ASSUME TInit PROVE AloneInv
  OBVIOUS
<1>1. \A p \in Process : at[p] = "idle"
  BY DEF TInit, LInit
<1>2. hooks \notin {Empty, Torn}
  <2>1. PICK f \in Foreign : hooks \in {Absent, <<f>>}
    BY DEF TInit, LInit
  <2>2. <<f>> \in Seq(Foreign)
    OBVIOUS
  <2> QED
    BY <2>1, <2>2, HookDocForms, HookDocTyped, FileAssumption DEF Parsed
<1> QED
  BY <1>1, <1>2 DEF AloneInv, OneByOne, Running

LEMMA QuietAlone ==
  ASSUME AloneInv, NEW p \in Process, QuietStep(p)
  PROVE  AloneInv'
<1> SUFFICES ASSUME alone' PROVE OneByOne'
  BY DEF AloneInv
<1>1. alone /\ OneByOne
  BY DEF QuietStep, AloneInv
<1>2. ASSUME NEW q \in Process, Running(q)' PROVE q = p
  <2> SUFFICES ASSUME q # p PROVE FALSE
    OBVIOUS
  <2>1. Running(q)
    BY <1>2 DEF QuietStep, Running
  <2> QED
    BY <1>1, <2>1 DEF QuietStep, OneByOne
<1>3. ASSUME NEW q \in Process, at'[q] \in {"installing", "halfway"} PROVE hooks' = Empty
  BY <1>1, <1>3 DEF QuietStep, Holding, OneByOne
<1>4. ASSUME NEW q \in Process, NEW r \in Process, at'[q] = "halfway", at'[r] \in Holding
      PROVE  FALSE
  <2>1. r # p /\ at[r] \in Holding /\ Running(r)
    BY <1>4 DEF QuietStep, Holding, Running
  <2>2. CASE q # p
    BY <1>1, <1>4, <2>1, <2>2 DEF QuietStep, OneByOne
  <2>3. CASE q = p
    BY <1>1, <1>4, <2>1, <2>3 DEF QuietStep, Running, OneByOne
  <2> QED
    BY <2>2, <2>3
<1>5. hooks' \notin {Empty, Torn} \/ \E q \in Process : at'[q] \in {"installing", "halfway"}
  <2>1. ASSUME NEW q \in Process, at[q] \in {"installing", "halfway"}
        PROVE  at'[q] \in {"installing", "halfway"}
    BY <2>1 DEF QuietStep
  <2> QED
    BY <1>1, <2>1 DEF QuietStep, OneByOne
<1> QED
  BY <1>2, <1>3, <1>4, <1>5 DEF OneByOne

LEMMA AloneStep == LocalTypeOK /\ HooksInv /\ AloneInv /\ [TNext]_tvars => AloneInv'
<1> SUFFICES ASSUME LocalTypeOK, HooksInv, AloneInv, [TNext]_tvars PROVE AloneInv'
  OBVIOUS
<1>1. ASSUME NEW p \in Process, ReadToInstall(p) \/ ReadToUninstall(p), alone' PROVE OneByOne'
  <2>1. OneByOne /\ Running(p) /\ at[p] = "hooks"
    BY <1>1, ReadHooks DEF AloneInv, Running
  <2>2. ASSUME NEW q \in Process, q # p PROVE at'[q] = at[q] /\ ~Running(q)
    BY <1>1, <2>1, <2>2, ReadHooks DEF OneByOne
  <2>3. at'[p] \in Holding => hooks \notin {Empty, Torn}
    BY <1>1, ReadHooks, FileAssumption DEF Holding, Parsed
  <2>4. hooks' = hooks /\ at'[p] \notin {"installing", "halfway"}
    BY <1>1, ReadHooks
  <2> QED
    BY <2>1, <2>2, <2>3, <2>4, FileAssumption DEF OneByOne, Running, Holding
<1>2. ASSUME NEW p \in Process, KeepCopy(p) \/ CopyHooks(p) \/ OpenHooks(p) \/ WriteHooks(p), alone'
      PROVE  OneByOne'
  <2>1. OneByOne /\ Running(p) /\ at[p] \in Holding
    BY <1>2, ChangeHooks DEF AloneInv, Running, Holding
  <2>2. ASSUME NEW q \in Process, q # p
        PROVE  at'[q] = at[q] /\ ~Running(q) /\ at[q] # "halfway" /\ at[q] \notin Holding
    BY <1>2, <2>1, <2>2, ChangeHooks DEF OneByOne, Running, Holding
  <2>3. \/ at'[p] \in {"copying", "install"} /\ hooks' = hooks /\ at[p] # "installing"
        \/ at'[p] = "installing" /\ hooks' = Empty
        \/ at'[p] = "done" /\ hooks' \notin {Empty, Torn}
    <3>1. CASE at[p] = "installing"
      <4>1. hooks = Empty
        BY <2>1, <3>1 DEF OneByOne
      <4>2. mem[p].hooks \in HookDoc
        BY DEF LocalTypeOK
      <4> QED
        BY <1>2, <3>1, <4>1, <4>2, ChangeHooks, HookDocTyped DEF Parsed
    <3> QED
      BY <1>2, <3>1, ChangeHooks
  <2> QED
    BY <2>1, <2>2, <2>3 DEF OneByOne, Running, Holding
<1>3. ASSUME NEW f \in Foreign, OwnerEdits(f), alone' PROVE OneByOne'
  <2>1. OneByOne /\ at' = at /\ (Parsed(hooks) \/ hooks = Absent)
    BY <1>3 DEF OwnerEdits, processVars, AloneInv
  <2>2. hooks' \notin {Empty, Torn}
    <3>1. <<f>> \in Seq(Foreign)
      OBVIOUS
    <3>2. hooks' \in HookDoc
      BY <1>3, <3>1, HookDocForms, OwnersHandlerInFront DEF OwnerEdits, Parsed, LocalTypeOK
    <3> QED
      BY <3>2, HookDocTyped DEF Parsed
  <2> QED
    BY <2>1, <2>2, FileAssumption DEF OneByOne, Running, Parsed
<1>4. CASE UNCHANGED lvars
  BY <1>4 DEF lvars, processVars, historyVars, AloneInv, OneByOne, Running
<1> QED
  BY <1>1, <1>2, <1>3, <1>4, LocalSteps, QuietAlone DEF AloneInv

LEMMA BackupInit == TInit => BackupInv
BY DEF TInit, LInit, BackupInv

LEMMA BackupStep ==
  LocalTypeOK /\ HooksInv /\ AloneInv /\ BackupInv /\ [TNext]_tvars => BackupInv'
<1> SUFFICES ASSUME LocalTypeOK, HooksInv, AloneInv, BackupInv, [TNext]_tvars PROVE BackupInv'
  OBVIOUS
<1>1. ASSUME NEW p \in Process, QuietStep(p) PROVE BackupInv'
  <2>1. ASSUME NEW q \in Process, at'[q] \in {"install", "installing", "halfway"}
        PROVE  at[q] \in {"install", "installing", "halfway"} /\ cmd'[q] = cmd[q]
    BY <1>1, <2>1 DEF QuietStep, Holding
  <2>2. ASSUME NEW q \in Process
        PROVE  /\ at'[q] = "copying" => at[q] = "copying"
               /\ at[q] \in {"copying", "uncopied"} => at'[q] \in {"copying", "uncopied"}
    BY <1>1, <2>2 DEF QuietStep, Holding
  <2>3. UNCHANGED <<backup, theirs, saved, raced>> /\ (alone' => alone)
    BY <1>1 DEF QuietStep
  <2> QED
    BY <2>1, <2>2, <2>3 DEF BackupInv, Parsed
<1>2. ASSUME NEW p \in Process, ReadToInstall(p) \/ ReadToUninstall(p) PROVE BackupInv'
  <2>1. UNCHANGED <<hooks, backup, cmd, alone, theirs, saved, raced>>
    BY <1>2, ReadHooks
  <2>2. ASSUME NEW q \in Process, at'[q] \in {"install", "installing", "halfway"},
               cmd[q].op = "connect", theirs # <<>>
        PROVE  at[q] \in {"install", "installing", "halfway"}
    BY <1>2, <2>2, ReadHooks DEF HooksInv
  <2>3. ASSUME NEW q \in Process
        PROVE  /\ at'[q] = "copying" => at[q] = "copying"
               /\ at[q] \in {"copying", "uncopied"} => at'[q] \in {"copying", "uncopied"}
    BY <1>2, <2>3, ReadHooks
  <2> QED
    BY <2>1, <2>2, <2>3 DEF BackupInv, Parsed
<1>3. ASSUME NEW p \in Process, KeepCopy(p) \/ CopyHooks(p) \/ OpenHooks(p) \/ WriteHooks(p)
      PROVE  BackupInv'
  <2> SUFFICES ASSUME alone, ~raced
               PROVE  /\ (\A q \in Process : at'[q] \notin {"copying", "uncopied"}) =>
                           backup' = Absent \/ (Parsed(backup') /\ Others(backup') = saved')
                      /\ \A q \in Process : at'[q] = "copying" => backup' = Empty
                      /\ \A q \in Process :
                           at'[q] \in {"install", "installing", "halfway"} /\ cmd[q].op = "connect"
                             /\ theirs # <<>> => backup' # Absent
    BY <1>3, ChangeHooks DEF BackupInv, Parsed
  <2>1. /\ at[p] \in Holding /\ Running(p) /\ OneByOne
        /\ \A q \in Process : q # p => at'[q] = at[q] /\ at[q] # "copying"
    BY <1>3, ChangeHooks DEF AloneInv, OneByOne, Running, Holding
  <2>2. CASE at[p] = "copying"
    <3>1. Parsed(hooks) /\ hooks # Empty /\ backup = Empty
      <4>1. backup = Empty /\ hooks # Absent
        BY <2>2 DEF BackupInv, HooksInv
      <4>2. \A q \in Process : at[q] \notin {"installing", "halfway"}
        BY <2>1, <2>2 DEF OneByOne, Running
      <4> QED
        BY <2>1, <4>1, <4>2 DEF OneByOne, Parsed
    <3>2. backup' = hooks /\ saved' = theirs /\ at'[p] = "install"
      BY <1>3, <2>2, <3>1, ChangeHooks
    <3>3. Parsed(backup') /\ Others(backup') = saved' /\ backup' # Absent
      BY <3>1, <3>2 DEF HooksInv, Parsed
    <3> QED
      BY <2>1, <3>2, <3>3
  <2>3. CASE at[p] = "keep" /\ backup = Absent
    <3>1. backup' = Empty /\ at'[p] = "copying"
      BY <1>3, <2>3, ChangeHooks
    <3> QED
      BY <3>1, FileAssumption
  <2>4. CASE at[p] # "copying" /\ ~(at[p] = "keep" /\ backup = Absent)
    <3>1. backup' = backup /\ saved' = saved
      BY <1>3, <2>4, ChangeHooks
    <3>2. ASSUME NEW q \in Process
          PROVE  /\ at'[q] # "copying"
                 /\ at[q] \in {"copying", "uncopied"} => at'[q] = at[q]
                 /\ at'[q] \in {"install", "installing", "halfway"} =>
                      at[q] \in {"install", "installing", "halfway"} \/ backup # Absent
      BY <1>3, <2>1, <2>4, <3>2, ChangeHooks DEF Holding
    <3> QED
      BY <3>1, <3>2 DEF BackupInv
  <2> QED
    BY <2>2, <2>3, <2>4
<1>4. ASSUME NEW f \in Foreign, OwnerEdits(f) PROVE BackupInv'
  <2>1. UNCHANGED <<backup, at, cmd, alone, saved>> /\ (raced => raced')
    BY <1>4 DEF OwnerEdits, processVars
  <2>2. ASSUME NEW q \in Process, at[q] \in {"install", "installing", "halfway"}, alone
        PROVE  raced'
    BY <1>4, <2>2, FileAssumption DEF OwnerEdits, AloneInv, OneByOne, Running, Parsed
  <2> QED
    BY <2>1, <2>2 DEF BackupInv, Parsed
<1>5. CASE UNCHANGED lvars
  BY <1>5 DEF lvars, processVars, historyVars, BackupInv, Parsed
<1> QED
  BY <1>1, <1>2, <1>3, <1>4, <1>5, LocalSteps

-----------------------------------------------------------------------------
(* Trust.                                                                  *)

LEMMA InventoryTyped ==
  ASSUME LocalTypeOK
  PROVE  /\ Inventory(hooks) \in [key : Nat, hash : Runtime \cup {NoHash},
                                 status : {"unknown", "trusted", "untrusted", "modified"}]
         /\ Inventory(hooks).key # 0 => Parsed(hooks) /\ Ours(hooks) = <<Inventory(hooks).hash>>
<1>1. CASE ~Parsed(hooks) \/ Ours(hooks) = <<>>
  BY <1>1 DEF Inventory, Nothing
<1>2. CASE Parsed(hooks) /\ Ours(hooks) # <<>>
  <2>1. hooks \in HookDoc
    BY <1>2 DEF LocalTypeOK, Parsed
  <2>2. PICK n \in DOMAIN hooks : /\ hooks[n] \in Runtime /\ Ours(hooks) = <<hooks[n]>>
                                 /\ \A m \in DOMAIN hooks : hooks[m] \in Runtime => m = n
    BY <1>2, <2>1, HookDocTyped
  <2>3. (CHOOSE m \in DOMAIN hooks : hooks[m] \in Runtime) = n
    BY <2>2
  <2>4. n \in Nat
    BY <2>1, HookDocTyped
  <2>5. Inventory(hooks) = [key |-> n, hash |-> hooks[n],
          status |-> IF trusted[n] = hooks[n] THEN "trusted"
                     ELSE IF trusted[n] = NoHash THEN "untrusted" ELSE "modified"]
    BY <1>2, <2>3, Zenon DEF Inventory
  <2> QED
    BY <1>2, <2>2, <2>4, <2>5
<1> QED
  BY <1>1, <1>2

\* A trusting command finds its own hook only where it is the only one.
LEMMA MatchIsOurs ==
  ASSUME LocalTypeOK, NEW p \in Process, MatchesRuntime(p)
  PROVE  Parsed(hooks) /\ Ours(hooks) = <<cmd[p].arg>>
<1>1. hooks \in HookDoc /\ Parsed(hooks)
  BY DEF MatchesRuntime, LocalTypeOK, Parsed
<1>2. cmd[p].arg \in ToSet(Ours(hooks))
  BY DEF MatchesRuntime
<1>3. Ours(hooks) = <<>> \/ \E h \in Runtime : Ours(hooks) = <<h>>
  BY <1>1, HookDocTyped
<1> QED
  BY <1>1, <1>2, <1>3 DEF ToSet

\* The commands of LocalFiles leave alone who asks Codex and who is done.
LEMMA LocalLeavesAsking ==
  ASSUME LocalTypeOK, LNext, NEW q \in Process
  PROVE  /\ at'[q] \in {"look", "endorse", "confirm"} => at'[q] = at[q] /\ cmd'[q] = cmd[q]
         /\ at[q] = "done" => at'[q] = "done" /\ cmd'[q] = cmd[q]
<1>1. ASSUME NEW p \in Process, NEW s \in Step \ {"look", "endorse", "confirm"}, Goes(p, s),
             at[p] # "done", q # p => cmd'[q] = cmd[q]
      PROVE  /\ at'[q] \in {"look", "endorse", "confirm"} => at'[q] = at[q] /\ cmd'[q] = cmd[q]
             /\ at[q] = "done" => at'[q] = "done" /\ cmd'[q] = cmd[q]
  BY <1>1 DEF Goes, LocalTypeOK
<1>2. ASSUME NEW p \in Process, NEW c \in Command, Begin(p, c)
      PROVE  \E s \in Step \ {"look", "endorse", "confirm"} :
               Goes(p, s) /\ at[p] # "done" /\ (q # p => cmd'[q] = cmd[q])
  <2>1. First(c.op) \in Step \ {"look", "endorse", "confirm"}
    BY CommandTyped DEF First, Step
  <2> QED
    BY <1>2, <2>1 DEF Begin, LocalTypeOK
<1>3. ASSUME NEW p \in Process, Load(p) \/ Ensure(p) \/ OpenConfig(p) \/ WriteConfig(p) \/ Die(p)
      PROVE  \E s \in Step \ {"look", "endorse", "confirm"} :
               Goes(p, s) /\ at[p] # "done" /\ cmd' = cmd
  <2>1. CASE Load(p)
    BY <2>1 DEF Load, Step
  <2>2. CASE Ensure(p)
    BY <2>2 DEF Ensure, LocalTypeOK, Step
  <2>3. CASE OpenConfig(p)
    BY <2>3 DEF OpenConfig, Step
  <2>4. CASE WriteConfig(p)
    BY <2>4 DEF WriteConfig, LocalTypeOK, Step
  <2>5. CASE Die(p)
    BY <2>5 DEF Die, Cut, Running, Step
  <2> QED
    BY <1>3, <2>1, <2>2, <2>3, <2>4, <2>5
<1>4. ASSUME NEW p \in Process, ReadToInstall(p) \/ KeepCopy(p) \/ CopyHooks(p) \/ ReadToUninstall(p)
                              \/ OpenHooks(p) \/ WriteHooks(p)
      PROVE  \E s \in Step \ {"look", "endorse", "confirm"} :
               Goes(p, s) /\ at[p] # "done" /\ cmd' = cmd
  BY <1>4 DEF ReadToInstall, KeepCopy, CopyHooks, ReadToUninstall, OpenHooks, WriteHooks, Keep, Step
<1>5. ASSUME NEW f \in Foreign, OwnerEdits(f) PROVE UNCHANGED <<at, cmd>>
  BY <1>5 DEF OwnerEdits, processVars
<1>6. CASE UNCHANGED <<at, cmd>>
  BY <1>6
<1> QED
  BY <1>1, <1>2, <1>3, <1>4, <1>5, <1>6 DEF LNext

LEMMA TrustTypeInit == TInit => TrustTypeOK
BY DEF TInit, TrustTypeOK, Nothing, Rewritten

LEMMA TrustTypeStep == LocalTypeOK /\ TrustTypeOK /\ [TNext]_tvars => TrustTypeOK'
<1> SUFFICES ASSUME LocalTypeOK, TrustTypeOK, [TNext]_tvars PROVE TrustTypeOK'
  OBVIOUS
<1>1. /\ Inventory(hooks) \in [key : Nat, hash : Runtime \cup {NoHash},
                               status : {"unknown", "trusted", "untrusted", "modified"}]
      /\ Inventory(hooks).hash \in Runtime \cup {NoHash}
  BY InventoryTyped
<1>2. CASE Changes
  BY <1>2 DEF Changes, TrustTypeOK, Rewritten
<1>3. ASSUME NEW p \in Process, NEW v \in {"refused", "already", "changed"}, Reports(p, v)
      PROVE  /\ verdict' \in [Process -> {"none", "refused", "already", "changed"}]
             /\ lastHash' \in [Process -> Runtime \cup {NoHash}]
  <2> HIDE DEF Inventory
  <2> QED
    BY <1>1, <1>3 DEF Reports, TrustTypeOK
<1>4. ASSUME NEW p \in Process, FirstInventory(p) PROVE TrustTypeOK'
  <2> HIDE DEF Inventory
  <2> QED
    BY <1>1, <1>4 DEF FirstInventory, TrustTypeOK, Rewritten
<1>5. ASSUME NEW p \in Process, LookAtFile(p) \/ WriteTrust(p) \/ Confirm(p) \/ AskingFails(p)
      PROVE  TrustTypeOK'
  <2>1. UNCHANGED <<seen, rewrites>>
    BY <1>5 DEF LookAtFile, WriteTrust, Confirm, AskingFails
  <2>2. \/ UNCHANGED <<verdict, lastHash>>
        \/ \E v \in {"refused", "already", "changed"} : Reports(p, v)
    BY <1>5 DEF LookAtFile, WriteTrust, Confirm, AskingFails
  <2> QED
    BY <1>3, <2>1, <2>2 DEF TrustTypeOK
<1>6. CASE UserTrusts \/ UNCHANGED tvars
  BY <1>6 DEF UserTrusts, tvars, trustVars, TrustTypeOK
<1> QED
  BY <1>2, <1>4, <1>5, <1>6 DEF TNext

LEMMA TrustInit == TInit => TrustInv
BY DEF TInit, LInit, TrustInv, Nothing

LEMMA ChangesKeepTrust ==
  ASSUME LocalTypeOK, TrustTypeOK, TrustInv, Changes
  PROVE  TrustInv'
<1>1. UNCHANGED <<seen, verdict, lastHash>>
  BY DEF Changes
<1>2. ASSUME NEW p \in Process
      PROVE  /\ rewrites[p] \in 0..2 /\ rewrites'[p] \in 0..2 /\ rewrites'[p] >= rewrites[p]
             /\ at[p] \notin {"look", "endorse", "confirm"} => rewrites'[p] = rewrites[p]
             /\ hooks' = hooks \/ ~Parsed(hooks') => rewrites'[p] = rewrites[p]
             /\ at[p] \in {"look", "endorse", "confirm"} /\ hooks' # hooks /\ Parsed(hooks') =>
                  rewrites'[p] >= 1 /\ (rewrites[p] >= 1 => rewrites'[p] = 2)
  BY DEF Changes, TrustTypeOK, Rewritten
<1>3. ASSUME NEW p \in Process
      PROVE  /\ at'[p] \in {"look", "endorse", "confirm"} => at'[p] = at[p] /\ cmd'[p] = cmd[p]
             /\ at[p] = "done" => at'[p] = "done" /\ cmd'[p] = cmd[p]
  BY LocalLeavesAsking DEF Changes
<1> SUFFICES ASSUME NEW p \in Process
             PROVE  /\ at'[p] \in {"look", "endorse", "confirm"} /\ rewrites'[p] = 0
                         /\ Parsed(hooks') /\ seen[p].key # 0 => Ours(hooks') = <<seen[p].hash>>
                    /\ at'[p] \in {"endorse", "confirm"} =>
                         /\ seen[p].key # 0
                         /\ \/ seen[p].hash = cmd'[p].arg \/ rewrites'[p] >= 2
                            \/ rewrites'[p] = 1 /\ (Parsed(hooks') => Ours(hooks') = <<cmd'[p].arg>>)
                    /\ verdict[p] \in {"already", "changed"} =>
                         /\ at'[p] = "done"
                         /\ \/ seen[p].hash = cmd'[p].arg
                            \/ rewrites'[p] >= IF verdict[p] = "changed" THEN 2 ELSE 1
                         /\ verdict[p] = "changed" => lastHash[p] = seen[p].hash
  BY <1>1, Zenon DEF TrustInv, Parsed, Ours, Kept, Selected
<1>4. CASE hooks' = hooks
  BY <1>2, <1>3, <1>4 DEF TrustInv
<1>5. CASE hooks' # hooks
  BY <1>2, <1>3, <1>5 DEF TrustInv
<1> QED
  BY <1>4, <1>5

\* What Confirm sees when it verifies, after what TrustInv says of its wait.
LEMMA VerifiedFits ==
  ASSUME LocalTypeOK, TrustTypeOK, TrustInv, NEW p \in Process, at[p] = "confirm",
         Verified(p, Inventory(hooks))
  PROVE  /\ seen[p].hash = cmd[p].arg \/ rewrites[p] >= 2
         /\ Inventory(hooks).hash = seen[p].hash
<1> DEFINE now == Inventory(hooks)
<1>1. now.key = seen[p].key /\ now.hash = seen[p].hash /\ seen[p].key # 0
  BY DEF Verified, TrustInv
<1>2. Parsed(hooks) /\ Ours(hooks) = <<now.hash>>
  BY <1>1, InventoryTyped
<1> HIDE DEF now
<1>3. seen[p].hash = cmd[p].arg \/ rewrites[p] >= 2 \/ Ours(hooks) = <<cmd[p].arg>>
  BY <1>2 DEF TrustInv
<1>4. \A x, y : <<x>> = <<y>> => x = y
  OBVIOUS
<1> QED
  BY <1>1, <1>2, <1>3, <1>4 DEF now

LEMMA ReportKeepsTrust ==
  ASSUME LocalTypeOK, TrustTypeOK, TrustInv, NEW p \in Process, at[p] \in Asking,
         NEW v \in {"refused", "already", "changed"}, Reports(p, v),
         UNCHANGED <<hooks, cmd, seen, rewrites>>,
         v \in {"already", "changed"} =>
           seen[p].hash = cmd[p].arg \/ rewrites[p] >= IF v = "changed" THEN 2 ELSE 1,
         v = "changed" => Inventory(hooks).hash = seen[p].hash
  PROVE  TrustInv'
<1> HIDE DEF Inventory
<1>1. /\ at'[p] = IF v = "refused" THEN "failed" ELSE "done"
      /\ verdict'[p] = v /\ lastHash'[p] = Inventory(hooks).hash
      /\ \A q \in Process : q # p => /\ at'[q] = at[q] /\ verdict'[q] = verdict[q]
                                    /\ lastHash'[q] = lastHash[q]
  BY DEF Reports, Goes, LocalTypeOK, TrustTypeOK
<1>2. ASSUME NEW q \in Process, at'[q] \in {"look", "endorse", "confirm"} PROVE at'[q] = at[q]
  BY <1>1, <1>2
<1>3. ASSUME NEW q \in Process, verdict'[q] \in {"already", "changed"}
      PROVE  /\ at'[q] = "done"
             /\ seen[q].hash = cmd[q].arg
                  \/ rewrites[q] >= IF verdict'[q] = "changed" THEN 2 ELSE 1
             /\ verdict'[q] = "changed" => lastHash'[q] = seen[q].hash
  <2>1. CASE q = p
    BY <1>1, <1>3, <2>1
  <2>2. CASE q # p
    BY <1>1, <1>3, <2>2 DEF TrustInv
  <2> QED
    BY <2>1, <2>2
<1> QED
  BY <1>2, <1>3 DEF TrustInv, Parsed

LEMMA TrustInvStep == LocalTypeOK /\ TrustTypeOK /\ TrustInv /\ [TNext]_tvars => TrustInv'
<1> SUFFICES ASSUME LocalTypeOK, TrustTypeOK, TrustInv, [TNext]_tvars PROVE TrustInv'
  OBVIOUS
<1>1. ASSUME NEW p \in Process, FirstInventory(p) PROVE TrustInv'
  <2>1. /\ at[p] = "inventory" /\ at'[p] = "look" /\ seen'[p] = Inventory(hooks) /\ rewrites'[p] = 0
        /\ \A q \in Process : q # p => /\ at'[q] = at[q] /\ seen'[q] = seen[q]
                                      /\ rewrites'[q] = rewrites[q]
    BY <1>1 DEF FirstInventory, Goes, LocalTypeOK, TrustTypeOK
  <2>2. UNCHANGED <<hooks, cmd, verdict, lastHash>>
    BY <1>1 DEF FirstInventory
  <2>3. seen'[p].key # 0 => Ours(hooks) = <<seen'[p].hash>>
    BY <2>1, InventoryTyped
  <2>4. ASSUME NEW q \in Process, at'[q] \in {"endorse", "confirm"} \/ verdict[q] \in {"already", "changed"}
        PROVE  q # p
    BY <2>1, <2>4 DEF TrustInv
  <2>5. ASSUME NEW q \in Process, at'[q] \in {"look", "endorse", "confirm"}, rewrites'[q] = 0,
               Parsed(hooks), seen'[q].key # 0
        PROVE  Ours(hooks) = <<seen'[q].hash>>
    <3>1. CASE q = p
      BY <2>3, <2>5, <3>1
    <3>2. CASE q # p
      BY <2>1, <2>5, <3>2 DEF TrustInv
    <3> QED
      BY <3>1, <3>2
  <2> QED
    BY <2>1, <2>2, <2>4, <2>5 DEF TrustInv, Parsed
<1>2. ASSUME NEW p \in Process, LookAtFile(p) PROVE TrustInv'
  <2>1. at[p] = "look" /\ UNCHANGED <<hooks, cmd, seen, rewrites>>
    BY <1>2 DEF LookAtFile
  <2>2. ASSUME MatchesRuntime(p), seen[p].key # 0
        PROVE  /\ Parsed(hooks) /\ Ours(hooks) = <<cmd[p].arg>>
               /\ rewrites[p] \in 0..2 /\ (seen[p].hash = cmd[p].arg \/ rewrites[p] >= 1)
    <3>1. Parsed(hooks) /\ Ours(hooks) = <<cmd[p].arg>>
      BY <2>2, MatchIsOurs
    <3>2. rewrites[p] = 0 => <<cmd[p].arg>> = <<seen[p].hash>>
      BY <2>1, <2>2, <3>1 DEF TrustInv
    <3>3. \A x, y : <<x>> = <<y>> => x = y
      OBVIOUS
    <3> QED
      BY <3>1, <3>2, <3>3 DEF TrustTypeOK, Rewritten
  <2>3. CASE Reports(p, "refused")
    BY <2>1, <2>3, ReportKeepsTrust DEF Asking
  <2>4. CASE MatchesRuntime(p) /\ seen[p].key # 0 /\ Reports(p, "already")
    BY <2>1, <2>2, <2>4, ReportKeepsTrust DEF Asking
  <2>5. CASE MatchesRuntime(p) /\ seen[p].key # 0 /\ Goes(p, "endorse")
               /\ UNCHANGED <<verdict, lastHash>>
    <3>1. at'[p] = "endorse" /\ \A q \in Process : q # p => at'[q] = at[q]
      BY <2>5 DEF Goes, LocalTypeOK
    <3>2. ASSUME NEW q \in Process, at'[q] \in {"look", "endorse", "confirm"}
          PROVE  at[q] \in {"look", "endorse", "confirm"} /\ (q # p => at'[q] = at[q])
      BY <2>1, <3>1, <3>2
    <3>3. verdict[p] \notin {"already", "changed"}
      BY <2>1 DEF TrustInv
    <3>4. \/ seen[p].hash = cmd[p].arg \/ rewrites[p] >= 2
          \/ rewrites[p] = 1 /\ Ours(hooks) = <<cmd[p].arg>>
      BY <2>2, <2>5
    <3>5. ASSUME NEW q \in Process, at'[q] \in {"endorse", "confirm"}
          PROVE  /\ seen[q].key # 0
                 /\ \/ seen[q].hash = cmd[q].arg \/ rewrites[q] >= 2
                    \/ rewrites[q] = 1 /\ (Parsed(hooks) => Ours(hooks) = <<cmd[q].arg>>)
      <4>1. CASE q = p
        BY <2>5, <3>4, <4>1
      <4>2. CASE q # p
        BY <3>1, <3>5, <4>2 DEF TrustInv
      <4> QED
        BY <4>1, <4>2
    <3>6. ASSUME NEW q \in Process, verdict[q] \in {"already", "changed"}
          PROVE  at'[q] = at[q]
      BY <3>1, <3>3, <3>6
    <3> QED
      BY <2>1, <2>5, <3>2, <3>5, <3>6 DEF TrustInv, Parsed
  <2> QED
    BY <1>2, <2>3, <2>4, <2>5 DEF LookAtFile
<1>3. ASSUME NEW p \in Process, WriteTrust(p) PROVE TrustInv'
  <2>1. /\ at[p] = "endorse" /\ at'[p] = "confirm" /\ \A q \in Process : q # p => at'[q] = at[q]
        /\ UNCHANGED <<hooks, cmd, seen, rewrites, verdict, lastHash>>
    BY <1>3 DEF WriteTrust, Goes, LocalTypeOK
  <2>2. verdict[p] \notin {"already", "changed"}
    BY <2>1 DEF TrustInv
  <2>3. ASSUME NEW q \in Process
        PROVE  /\ at'[q] \in {"look", "endorse", "confirm"} => at[q] \in {"look", "endorse", "confirm"}
               /\ at'[q] \in {"endorse", "confirm"} => at[q] \in {"endorse", "confirm"}
               /\ verdict[q] \in {"already", "changed"} => at'[q] = at[q]
    BY <2>1, <2>2
  <2> QED
    BY <2>1, <2>3 DEF TrustInv, Parsed
<1>4. ASSUME NEW p \in Process, Confirm(p) PROVE TrustInv'
  <2>1. at[p] = "confirm" /\ UNCHANGED <<hooks, cmd, seen, rewrites>>
    BY <1>4 DEF Confirm
  <2>2. CASE Verified(p, Inventory(hooks))
    <3>1. Reports(p, "changed")
      BY <1>4, <2>2, Zenon DEF Confirm
    <3> QED
      BY <2>1, <2>2, <3>1, VerifiedFits, ReportKeepsTrust DEF Asking
  <2>3. CASE ~Verified(p, Inventory(hooks))
    <3>1. Reports(p, "refused")
      BY <1>4, <2>3, Zenon DEF Confirm
    <3> QED
      BY <2>1, <3>1, ReportKeepsTrust DEF Asking
  <2> QED
    BY <2>2, <2>3
<1>5. ASSUME NEW p \in Process, AskingFails(p) PROVE TrustInv'
  <2>1. /\ at[p] \in Asking /\ Reports(p, "refused")
        /\ UNCHANGED <<hooks, cmd, seen, rewrites>>
    BY <1>5 DEF AskingFails, Asking
  <2> QED
    BY <2>1, ReportKeepsTrust
<1>6. CASE UserTrusts \/ UNCHANGED tvars
  <2>1. UNCHANGED <<hooks, cmd, at, seen, rewrites, verdict, lastHash>>
    BY <1>6 DEF UserTrusts, tvars, trustVars, lvars, processVars
  <2> QED
    BY <2>1 DEF TrustInv, Parsed
<1> QED
  BY <1>1, <1>2, <1>3, <1>4, <1>5, <1>6, ChangesKeepTrust DEF TNext

-----------------------------------------------------------------------------
(* Commands that do not overlap have their effects in order.               *)

LEMMA BaseTyped ==
  ASSUME LocalTypeOK, NEW p \in Process
  PROVE  Base(p) \in Config
BY NewConfigTyped DEF Base, LocalTypeOK

LEMMA EffectFromBase ==
  ASSUME NEW p \in Process
  PROVE  /\ cmd[p].op \in {"onboard", "renew", "serve", "connect"} => Effect(p, expected) = Base(p)
         /\ cmd[p].op \in {"disconnect", "trust"} => Effect(p, expected) = expected
         /\ cmd[p].op = "remove" /\ expected = Absent => Effect(p, expected) = expected
BY DEF Effect, Base

LEMMA EffectOfEdit ==
  ASSUME LocalTypeOK, NEW p \in Process, cmd[p].op \in {"rotate", "add", "remove"},
         cmd[p].op = "remove" => expected # Absent
  PROVE  Edited(p, cmd[p], Base(p)) = Effect(p, expected)
<1> DEFINE doc == Base(p)
<1>1. doc \in [token : Process \X {"created", "rotated"}, channels : SUBSET Channel]
  BY BaseTyped DEF Config
<1>2. CASE cmd[p].op = "rotate"
  <2>1. Effect(p, expected) = [token |-> <<p, "rotated">>, channels |-> doc.channels]
    BY <1>2 DEF Effect, Base
  <2>2. Edited(p, cmd[p], doc) = [doc EXCEPT !.token = <<p, "rotated">>]
    BY <1>2 DEF Edited
  <2> HIDE DEF doc
  <2> QED
    BY <1>1, <2>1, <2>2 DEF doc
<1>3. CASE cmd[p].op = "add"
  <2>1. Effect(p, expected) = [token |-> doc.token, channels |-> doc.channels \cup {cmd[p].arg}]
    BY <1>3 DEF Effect, Base
  <2>2. Edited(p, cmd[p], doc) = [doc EXCEPT !.channels = doc.channels \cup {cmd[p].arg}]
    BY <1>3 DEF Edited
  <2> HIDE DEF doc
  <2> QED
    BY <1>1, <2>1, <2>2 DEF doc
<1>4. CASE cmd[p].op = "remove"
  <2>1. Effect(p, expected) = [token |-> doc.token, channels |-> doc.channels \ {cmd[p].arg}]
    BY <1>4 DEF Effect, Base
  <2>2. Edited(p, cmd[p], doc) = [doc EXCEPT !.channels = doc.channels \ {cmd[p].arg}]
    BY <1>4 DEF Edited
  <2> HIDE DEF doc
  <2> QED
    BY <1>1, <2>1, <2>2 DEF doc
<1> QED
  BY <1>2, <1>3, <1>4

LEMMA EffectOfNothing ==
  ASSUME NEW p \in Process, cmd[p].op = "remove", expected \in Config,
         cmd[p].arg \notin expected.channels
  PROVE  Effect(p, expected) = expected
<1>1. expected # Absent
  BY FileAssumption
<1>2. Effect(p, expected) =
        [token |-> expected.token, channels |-> expected.channels \ {cmd[p].arg}]
  BY <1>1 DEF Effect
<1> QED
  BY <1>2 DEF Config

\* Where only one command runs, it is its own progress that matters.
LEMMA OneProgresses ==
  ASSUME LocalTypeOK, AloneInv, SequentialInv, alone, NobodyKilled', NEW p \in Process,
         Running(p), \A q \in Process : q # p => at'[q] = at[q],
         OneByOne /\ Progress(p) => IF Running(p)' THEN Progress(p)' ELSE config' = expected'
  PROVE  InStep'
<1>1. OneByOne
  BY DEF AloneInv
<1>2. NobodyKilled
  BY DEF NobodyKilled, Running
<1>3. Progress(p)
  BY <1>2 DEF SequentialInv, InStep
<1>4. \A q \in Process : Running(q)' => q = p
  BY <1>1 DEF OneByOne, Running
<1> HIDE DEF Progress, Running
<1> QED
  BY <1>1, <1>3, <1>4 DEF InStep

LEMMA BeginInStep ==
  ASSUME LocalTypeOK, SequentialInv, alone', NobodyKilled', NEW p \in Process, NEW c \in Command,
         Begin(p, c)
  PROVE  InStep'
<1>1. alone /\ \A q \in Process : ~Running(q)
  BY DEF Begin, LocalTypeOK
<1>2. at[p] = "idle" /\ First(c.op) \in {"ensure", "load", "hooks", "inventory"}
  BY CommandTyped DEF Begin, First
<1>3. at'[p] = First(c.op) /\ (\A q \in Process : q # p => at'[q] = at[q]) /\ expected' = expected
  BY <1>2 DEF Begin, Goes, LocalTypeOK
<1>4. NobodyKilled
  BY <1>2, <1>3 DEF NobodyKilled
<1>5. config' = expected'
  BY <1>1, <1>3, <1>4 DEF Begin, SequentialInv, InStep
<1>6. cmd'[p] = c /\ after'[p] = AfterEnsure(c.op)
  BY DEF Begin, LocalTypeOK
<1>7. Progress(p)'
  BY <1>2, <1>3, <1>5, <1>6, CommandTyped
  DEF Progress, Returns, AfterEnsure, First, Holding, Asking
<1>8. \A q \in Process : Running(q)' => q = p
  BY <1>1, <1>3 DEF Running
<1> HIDE DEF Progress, Running
<1> QED
  BY <1>5, <1>7, <1>8 DEF InStep

LEMMA LoadInStep ==
  ASSUME LocalTypeOK, NEW p \in Process, Load(p), Progress(p)
  PROVE  IF Running(p)' THEN Progress(p)' ELSE config' = expected'
<1>1. /\ at[p] = "load" /\ cmd[p].op \in {"serve", "rotate", "remove", "add"}
      /\ config = IF cmd[p].op = "add" THEN Base(p) ELSE expected
      /\ UNCHANGED <<config, cmd>>
  BY DEF Load, Progress
<1>2. Base(p) \in Config /\ expected \in Config \cup {Absent}
  BY BaseTyped DEF LocalTypeOK
<1>3. \A s : Goes(p, s) => at'[p] = s /\ expected' = IF s = "done" THEN Effect(p, expected) ELSE expected
  BY DEF Goes, LocalTypeOK
<1>4. CASE Parsed(config) /\ (cmd[p].op = "serve" \/ (cmd[p].op = "remove" /\ cmd[p].arg \notin config.channels))
  <2>1. expected = config /\ expected \in Config
    BY <1>1, <1>2, <1>4 DEF Parsed
  <2>2. Base(p) = expected
    BY <1>4, <2>1, FileAssumption DEF Base
  <2>3. Effect(p, expected) = expected
    BY <1>4, <2>1, <2>2, EffectFromBase, EffectOfNothing
  <2>4. at'[p] = "done" /\ expected' = Effect(p, expected)
    BY <1>3, <1>4 DEF Load
  <2> QED
    BY <1>1, <2>1, <2>3, <2>4 DEF Running
<1>5. CASE Parsed(config) /\ ~(cmd[p].op = "serve" \/ (cmd[p].op = "remove" /\ cmd[p].arg \notin config.channels))
  <2>1. at'[p] = "edit" /\ expected' = expected /\ mem'[p].config = config
    BY <1>3, <1>5 DEF Load, Remembers, LocalTypeOK
  <2>2. cmd[p].op # "add" => expected = config /\ expected # Absent
    BY <1>1, <1>5 DEF Parsed
  <2>3. config = Base(p)
    BY <1>1, <2>2 DEF Base
  <2>4. Base(p)' = Base(p)
    BY <1>1, <2>1 DEF Base, NewConfig
  <2> HIDE DEF Base, Running
  <2> QED
    BY <1>1, <1>5, <2>1, <2>2, <2>3, <2>4 DEF Progress, Holding, Asking, Running
<1>6. CASE ~Parsed(config)
  <2>1. expected = Absent /\ config = Absent /\ cmd[p].op # "add"
    BY <1>1, <1>2, <1>6, FileAssumption DEF Parsed
  <2>2. CASE cmd[p].op = "remove"
    <3>1. at'[p] = "done" /\ expected' = Effect(p, expected)
      BY <1>3, <1>6, <2>2 DEF Load
    <3> QED
      BY <1>1, <2>1, <2>2, <3>1, EffectFromBase DEF Running
  <2>3. CASE cmd[p].op # "remove"
    <3>1. at'[p] = "ensure" /\ expected' = expected
      BY <1>3, <1>6, <2>3 DEF Load
    <3>2. after'[p] = IF cmd[p].op = "serve" THEN "done" ELSE "edit"
      BY <1>6 DEF Load, LocalTypeOK
    <3> QED
      BY <1>1, <2>1, <2>3, <3>1, <3>2 DEF Progress, Returns, Holding, Asking, Running
  <2> QED
    BY <2>2, <2>3
<1> QED
  BY <1>4, <1>5, <1>6

LEMMA EnsureInStep ==
  ASSUME LocalTypeOK, NEW p \in Process, Ensure(p), Progress(p)
  PROVE  IF Running(p)' THEN Progress(p)' ELSE config' = expected'
<1>1. /\ at[p] = "ensure" /\ Returns(p) /\ config = expected
      /\ UNCHANGED <<config, cmd, after>>
  BY DEF Ensure, Progress
<1>2. Base(p) \in Config /\ expected \in Config \cup {Absent}
  BY BaseTyped DEF LocalTypeOK
<1>3. \A s : Goes(p, s) => at'[p] = s /\ expected' = IF s = "done" THEN Effect(p, expected) ELSE expected
  BY DEF Goes, LocalTypeOK
<1>4. \A doc : Remembers(p, doc) => mem'[p].config = doc
  BY DEF Remembers, LocalTypeOK
<1>5. CASE Parsed(config) /\ cmd[p].op # "renew"
  <2>1. mem'[p].config = config /\ at'[p] = after[p] /\ expected # Absent
        /\ expected' = IF after[p] = "done" THEN Effect(p, expected) ELSE expected
    BY <1>1, <1>3, <1>4, <1>5 DEF Ensure, Parsed
  <2>2. Base(p) = expected
    BY <1>5, <2>1 DEF Base
  <2>3. CASE after[p] = "done"
    <3>1. Effect(p, expected) = expected
      BY <1>1, <2>2, <2>3, EffectFromBase DEF Returns
    <3> QED
      BY <1>1, <2>1, <2>3, <3>1 DEF Running
  <2>4. CASE after[p] # "done"
    <3>1. Base(p)' = Base(p) /\ expected' = expected
      BY <1>1, <2>1, <2>4 DEF Base, NewConfig
    <3> HIDE DEF Base
    <3> QED
      BY <1>1, <1>5, <2>1, <2>2, <2>4, <3>1 DEF Progress, Returns, Holding, Asking, Running
  <2> QED
    BY <2>3, <2>4
<1>6. CASE ~(Parsed(config) /\ cmd[p].op # "renew")
  <2>1. mem'[p].config = NewConfig(p) /\ at'[p] = "create" /\ expected' = expected
    BY <1>3, <1>4, <1>6 DEF Ensure
  <2>2. Base(p) = NewConfig(p)
    BY <1>1, <1>2, <1>6, FileAssumption DEF Base, Parsed
  <2>3. Base(p)' = Base(p) /\ NewConfig(p)' = NewConfig(p)
    BY <1>1, <2>1 DEF Base, NewConfig
  <2> HIDE DEF Base, NewConfig
  <2> QED
    BY <1>1, <2>1, <2>2, <2>3 DEF Progress, Returns, Holding, Asking, Running
<1> QED
  BY <1>5, <1>6

LEMMA OpenConfigInStep ==
  ASSUME LocalTypeOK, NEW p \in Process, OpenConfig(p), Progress(p)
  PROVE  IF Running(p)' THEN Progress(p)' ELSE config' = expected'
<1>1. UNCHANGED <<cmd, after>> /\ config' = Empty
  BY DEF OpenConfig
<1>2. \A s : Goes(p, s) => at'[p] = s /\ expected' = IF s = "done" THEN Effect(p, expected) ELSE expected
  BY DEF Goes, LocalTypeOK
<1>3. CASE at[p] = "create"
  <2>1. mem' = mem /\ at'[p] = "creating" /\ expected' = expected
    BY <1>2, <1>3 DEF OpenConfig
  <2>2. Base(p)' = Base(p) /\ NewConfig(p)' = NewConfig(p)
    BY <1>1, <2>1 DEF Base, NewConfig
  <2>3. Returns(p) /\ mem[p].config = NewConfig(p) /\ Base(p) = NewConfig(p)
    BY <1>3 DEF Progress
  <2> HIDE DEF Base, NewConfig
  <2> QED
    BY <1>1, <2>1, <2>2, <2>3 DEF Progress, Returns, Holding, Asking, Running
<1>4. CASE at[p] = "edit"
  <2>1. /\ cmd[p].op \in {"rotate", "remove", "add"} /\ mem[p].config = Base(p)
        /\ cmd[p].op = "remove" => expected # Absent
    BY <1>4 DEF Progress
  <2>2. /\ at'[p] = "saving" /\ expected' = expected
        /\ mem'[p].config = Edited(p, cmd[p], mem[p].config)
    BY <1>2, <1>4 DEF OpenConfig, Remembers, LocalTypeOK
  <2>3. mem'[p].config = Effect(p, expected)
    BY <2>1, <2>2, EffectOfEdit
  <2>4. Effect(p, expected)' = Effect(p, expected)
    BY <1>1, <2>2 DEF Effect, NewConfig
  <2> HIDE DEF Effect
  <2> QED
    BY <1>1, <2>2, <2>3, <2>4 DEF Progress, Holding, Asking, Running
<1> QED
  BY <1>3, <1>4 DEF OpenConfig

LEMMA WriteConfigInStep ==
  ASSUME LocalTypeOK, NEW p \in Process, WriteConfig(p), Progress(p)
  PROVE  IF Running(p)' THEN Progress(p)' ELSE config' = expected'
<1>1. UNCHANGED <<cmd, after>> /\ config' = mem[p].config /\ at[p] \in {"creating", "saving"}
  BY DEF WriteConfig, Flushed, Progress
<1>2. \A s : Goes(p, s) => at'[p] = s /\ expected' = IF s = "done" THEN Effect(p, expected) ELSE expected
  BY DEF Goes, LocalTypeOK
<1>3. CASE at[p] = "creating"
  <2>1. /\ mem' = mem /\ at'[p] = after[p]
        /\ expected' = IF after[p] = "done" THEN Effect(p, expected) ELSE expected
    BY <1>2, <1>3 DEF WriteConfig
  <2>2. Returns(p) /\ mem[p].config = NewConfig(p) /\ Base(p) = NewConfig(p)
    BY <1>3 DEF Progress
  <2>3. CASE after[p] = "done"
    <3>1. Effect(p, expected) = Base(p)
      BY <2>2, <2>3, EffectFromBase DEF Returns
    <3> QED
      BY <1>1, <2>1, <2>2, <2>3, <3>1 DEF Running
  <2>4. CASE after[p] # "done"
    <3>1. Base(p)' = Base(p) /\ expected' = expected
      BY <1>1, <2>1, <2>4 DEF Base, NewConfig
    <3> HIDE DEF Base, NewConfig
    <3> QED
      BY <1>1, <2>1, <2>2, <2>4, <3>1 DEF Progress, Returns, Holding, Asking, Running
  <2> QED
    BY <2>3, <2>4
<1>4. CASE at[p] = "saving"
  <2>1. at'[p] = "done" /\ expected' = Effect(p, expected)
    BY <1>2, <1>4 DEF WriteConfig
  <2>2. mem[p].config = Effect(p, expected)
    BY <1>4 DEF Progress
  <2> QED
    BY <1>1, <2>1, <2>2 DEF Running
<1> QED
  BY <1>1, <1>3, <1>4

LEMMA HooksStepInStep ==
  ASSUME LocalTypeOK, HooksInv, NEW p \in Process, Progress(p), Running(p), OneByOne,
         \A q \in Process : at[q] # "halfway",
         \/ ReadToInstall(p) \/ ReadToUninstall(p)
         \/ KeepCopy(p) \/ CopyHooks(p) \/ OpenHooks(p) \/ WriteHooks(p)
  PROVE  IF Running(p)' THEN Progress(p)' ELSE config' = expected'
<1>1. \A s : Goes(p, s) => at'[p] = s /\ expected' = IF s = "done" THEN Effect(p, expected) ELSE expected
  BY DEF Goes, LocalTypeOK
<1>2. UNCHANGED <<config, cmd>> /\ at[p] \in {"hooks"} \cup Holding
  BY ReadHooks, ChangeHooks
<1>3. /\ cmd[p].op \in {"connect", "disconnect"}
      /\ config = IF cmd[p].op = "connect" THEN Base(p) ELSE expected
  BY <1>2 DEF Progress
<1>4. PICK s \in {"done", "failed"} \cup Holding : Goes(p, s)
  BY DEF ReadToInstall, ReadToUninstall, KeepCopy, CopyHooks, OpenHooks, WriteHooks, Keep, Holding
<1>5. s # "failed"
  <2> SUFFICES ASSUME s = "failed" PROVE FALSE
    OBVIOUS
  <2>1. at[p] = "hooks" /\ hooks # Absent /\ ~Parsed(hooks)
    BY <1>1, <1>4, ReadHooks, ChangeHooks
  <2>2. \A q \in Process : at[q] # "installing"
    BY <2>1 DEF OneByOne, Running
  <2> QED
    BY <2>1, <2>2 DEF OneByOne, Parsed
<1>6. CASE s = "done"
  <2>1. Effect(p, expected) = config
    BY <1>3, EffectFromBase
  <2> QED
    BY <1>1, <1>2, <1>4, <1>6, <2>1 DEF Running
<1>7. CASE s \in Holding
  <2>1. at'[p] = s /\ expected' = expected
    BY <1>1, <1>4, <1>7 DEF Holding
  <2>2. Base(p)' = Base(p)
    BY <1>2, <2>1 DEF Base, NewConfig
  <2> HIDE DEF Base
  <2> QED
    BY <1>2, <1>3, <1>7, <2>1, <2>2 DEF Progress, Holding, Asking, Running
<1> QED
  BY <1>5, <1>6, <1>7

LEMMA TrustInStep ==
  ASSUME LocalTypeOK, NEW p \in Process, NEW s \in {"look", "endorse", "confirm", "done", "failed"},
         at[p] \in Asking, Goes(p, s), UNCHANGED <<config, cmd>>, Progress(p)
  PROVE  IF Running(p)' THEN Progress(p)' ELSE config' = expected'
<1>1. at'[p] = s /\ expected' = IF s = "done" THEN Effect(p, expected) ELSE expected
  BY DEF Goes, LocalTypeOK
<1>2. cmd[p].op = "trust" /\ config = expected
  BY DEF Progress
<1>3. expected' = expected
  BY <1>1, <1>2, EffectFromBase
<1> QED
  BY <1>1, <1>2, <1>3 DEF Progress, Holding, Asking, Running

LEMMA SequentialInit == TInit => SequentialInv
BY DEF TInit, LInit, SequentialInv, InStep, Running

LEMMA SequentialStep ==
  LocalTypeOK /\ HooksInv /\ AloneInv /\ SequentialInv /\ [TNext]_tvars => SequentialInv'
<1> SUFFICES ASSUME LocalTypeOK, HooksInv, AloneInv, SequentialInv, [TNext]_tvars,
                    alone', NobodyKilled'
             PROVE  InStep'
  BY DEF SequentialInv
<1>1. ASSUME NEW p \in Process, Load(p) \/ Ensure(p) \/ OpenConfig(p) \/ WriteConfig(p)
      PROVE  InStep'
  <2>1. Running(p) /\ alone /\ \A q \in Process : q # p => at'[q] = at[q]
    BY <1>1, ConfigStepIsQuiet DEF QuietStep, Running, Load, Ensure, OpenConfig, WriteConfig
  <2>2. Progress(p) => IF Running(p)' THEN Progress(p)' ELSE config' = expected'
    BY <1>1, LoadInStep, EnsureInStep, OpenConfigInStep, WriteConfigInStep
  <2> QED
    BY <2>1, <2>2, OneProgresses
<1>2. ASSUME NEW p \in Process, Die(p) PROVE FALSE
  <2>1. at'[p] \in {"dead", "halfway", "uncopied"}
    BY <1>2 DEF Die, Cut, Goes, LocalTypeOK
  <2> QED
    BY <2>1 DEF NobodyKilled
<1>3. ASSUME NEW p \in Process,
             \/ ReadToInstall(p) \/ ReadToUninstall(p)
             \/ KeepCopy(p) \/ CopyHooks(p) \/ OpenHooks(p) \/ WriteHooks(p)
      PROVE  InStep'
  <2>1. /\ at[p] \in {"hooks"} \cup Holding /\ alone
        /\ \A q \in Process : q # p => at'[q] = at[q]
    BY <1>3, ReadHooks, ChangeHooks
  <2>2. Running(p) /\ \A q \in Process : at[q] # "halfway"
    BY <2>1 DEF Running, Holding, NobodyKilled
  <2>3. OneByOne /\ Progress(p) => IF Running(p)' THEN Progress(p)' ELSE config' = expected'
    BY <1>3, <2>2, HooksStepInStep
  <2> QED
    BY <2>1, <2>2, <2>3, OneProgresses
<1>4. CASE TrustMove
  <2>1. PICK p \in Process, s \in {"look", "endorse", "confirm", "done", "failed"} :
          at[p] \in Asking /\ Goes(p, s)
    BY <1>4 DEF TrustMove
  <2>2. Running(p) /\ alone /\ UNCHANGED <<config, cmd>>
    BY <1>4, <2>1 DEF TrustMove, Running, Asking
  <2>3. \A q \in Process : q # p => at'[q] = at[q]
    BY <2>1 DEF Goes, LocalTypeOK
  <2>4. Progress(p) => IF Running(p)' THEN Progress(p)' ELSE config' = expected'
    BY <2>1, <2>2, TrustInStep
  <2> QED
    BY <2>2, <2>3, <2>4, OneProgresses
<1>5. ASSUME UNCHANGED <<config, cmd, at, after, mem, expected, alone>> PROVE InStep'
  <2>1. NobodyKilled /\ alone
    BY <1>5 DEF NobodyKilled
  <2>2. InStep
    BY <2>1 DEF SequentialInv
  <2>3. \A p \in Process : Running(p)' = Running(p)
    BY <1>5 DEF Running
  <2>4. ASSUME NEW p \in Process, Progress(p) PROVE Progress(p)'
    <3>1. /\ Base(p)' = Base(p) /\ Effect(p, expected)' = Effect(p, expected)
          /\ NewConfig(p)' = NewConfig(p) /\ Returns(p)' = Returns(p)
      BY <1>5, Zenon DEF Base, Effect, NewConfig, Returns
    <3> HIDE DEF Base, Effect, NewConfig, Returns
    <3> QED
      BY <1>5, <2>4, <3>1 DEF Progress
  <2> HIDE DEF Progress, Running
  <2> QED
    BY <1>5, <2>2, <2>3, <2>4 DEF InStep
<1>6. ASSUME NEW f \in Foreign, OwnerEdits(f) PROVE InStep'
  BY <1>5, <1>6 DEF OwnerEdits, processVars
<1>7. CASE UNCHANGED lvars
  BY <1>5, <1>7 DEF lvars, processVars, historyVars
<1>8. ASSUME NEW p \in Process, NEW c \in Command, Begin(p, c) PROVE InStep'
  BY <1>8, BeginInStep
<1> QED
  BY <1>1, <1>2, <1>3, <1>4, <1>6, <1>7, <1>8, StepSplit DEF LNext

-----------------------------------------------------------------------------
(* Theorems.                                                               *)

LocalInv == LocalTypeOK /\ TrustTypeOK /\ HooksInv /\ AloneInv /\ BackupInv /\ SequentialInv /\ TrustInv

\* The inductive invariant of the commands, of the owner of hooks.json and of
\* Codex holds, whatever overlaps, is killed or edited (save_config,
\* install_codex_hooks, uninstall_codex_hooks, trust_codex_hook).
THEOREM LocalFilesInvariant == TSpec => []LocalInv
<1>1. TInit => LocalInv
  BY LocalTypeInit, TrustTypeInit, HooksInit, AloneInit, BackupInit, SequentialInit, TrustInit
  DEF LocalInv
<1>2. LocalInv /\ [TNext]_tvars => LocalInv'
  BY LocalTypeStep, TrustTypeStep, HooksStep, AloneStep, BackupStep, SequentialStep, TrustInvStep
  DEF LocalInv
<1> QED
  BY <1>1, <1>2, PTL DEF TSpec

\* The configuration is never a surprise: commands that did not overlap and were
\* not killed have left what they would leave one by one.
THEOREM ConfigurationIsSequential == TSpec => []ConfigIsSequential
<1>1. LocalInv => ConfigIsSequential
  <2> SUFFICES ASSUME LocalInv, alone, \A p \in Process : at[p] \in {"idle", "done", "failed"}
               PROVE  config = expected
    BY DEF ConfigIsSequential
  <2>1. NobodyKilled /\ \A p \in Process : ~Running(p)
    BY DEF NobodyKilled, Running
  <2> QED
    BY <2>1 DEF LocalInv, SequentialInv, InStep
<1> QED
  BY <1>1, LocalFilesInvariant, PTL

\* Overlapping and killed installs and removals lose no handler of the owner,
\* and leave one of humanq at most.
THEOREM ForeignHandlersStay == TSpec => []ForeignHandlersSurvive
<1>1. LocalInv => ForeignHandlersSurvive
  <2> SUFFICES ASSUME LocalInv, Parsed(hooks)
               PROVE  Len(Ours(hooks)) <= 1 /\ (~raced => Others(hooks) = theirs)
    BY DEF ForeignHandlersSurvive
  <2>1. hooks \in HookDoc
    BY DEF LocalInv, LocalTypeOK, Parsed
  <2>2. Ours(hooks) = <<>> \/ \E h \in Runtime : Ours(hooks) = <<h>>
    BY <2>1, HookDocTyped
  <2>3. Len(Ours(hooks)) <= 1
    <3>1. CASE Ours(hooks) = <<>>
      BY <3>1
    <3>2. ASSUME NEW h \in Runtime, Ours(hooks) = <<h>> PROVE Len(Ours(hooks)) = 1
      BY <3>2
    <3> QED
      BY <2>2, <3>1, <3>2
  <2> QED
    BY <2>3 DEF LocalInv, HooksInv
<1> QED
  BY <1>1, LocalFilesInvariant, PTL

\* A killed install leaves a readable copy with the handlers that others had when
\* it was made, unless an earlier one was killed while it made the copy
\* (install_codex_hooks).
THEOREM KilledInstallsRecover == TSpec => []BackupRecovers
<1>1. LocalInv => BackupRecovers
  <2> SUFFICES ASSUME LocalInv, NEW p \in Process, alone, ~raced, at[p] = "halfway",
                      cmd[p].op = "connect", theirs # <<>>,
                      \A q \in Process : at[q] # "uncopied"
               PROVE  Parsed(backup) /\ Others(backup) = saved
    BY DEF BackupRecovers
  <2>1. \A q \in Process : at[q] # "copying"
    BY DEF LocalInv, AloneInv, OneByOne, Holding
  <2> QED
    BY <2>1 DEF LocalInv, BackupInv
<1> QED
  BY <1>1, LocalFilesInvariant, PTL

\* A trust that is reported is of the hook that is there, or the file was changed
\* meanwhile, twice where the trust was written.
THEOREM TrustIsOfTheRuntime == TSpec => []TrustFitsRuntime
<1>1. LocalInv => TrustFitsRuntime
  BY DEF LocalInv, TrustInv, TrustFitsRuntime
<1> QED
  BY <1>1, LocalFilesInvariant, PTL

=============================================================================
