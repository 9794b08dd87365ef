----------------------------- MODULE LocalFiles ------------------------------
(***************************************************************************)
(* The two files the humanq command line edits: its own config.json        *)
(* (humanqueue/config.py) and the hooks.json of Codex                      *)
(* (humanqueue/connectors/codex.py; the installers of Claude Code and      *)
(* Cursor go through the same steps on a file of their own).  Every command*)
(* is a process that reads a file, computes a document in memory, opens the*)
(* file for writing, which empties it, and writes the document when it is  *)
(* closed.  There is no lock: commands overlap, may be killed between any  *)
(* two steps, and the owner of hooks.json edits it, too.                   *)
(*                                                                         *)
(* A document is the token and the channels, or the list of handlers of one*)
(* hook event.  The observers of the other events are installed and removed*)
(* by the same write.                                                      *)
(***************************************************************************)
EXTENDS Naturals, Sequences, FiniteSets, SequencesExt

CONSTANTS
  Process,    \* commands started in one behaviour (the bound of the module)
  Channel,    \* channel names
  Runtime,    \* Python runtimes that humanq is installed in
  Foreign,    \* handlers that are not humanq's
  Command,    \* what may be started: [op, arg]
  Absent,     \* there is no such file
  Empty,      \* the file is open for writing, or its writer died
  Torn,       \* the file holds a mixture of two writes
  NoCommand

CommandType == [op : {"onboard", "renew", "serve", "rotate", "add", "remove",
                      "connect", "disconnect", "trust"},
                arg : Channel \cup Runtime]

ASSUME CommandAssumption ==
  /\ Command \subseteq CommandType /\ NoCommand \notin Command
  /\ \A c \in Command : IF c.op \in {"add", "remove"} THEN c.arg \in Channel ELSE c.arg \in Runtime
  /\ Runtime \cap Foreign = {}

\* A configuration, and what is in place of a document where there is none.
Config == [token : Process \X {"created", "rotated"}, channels : SUBSET Channel]
ASSUME FileAssumption ==
  /\ \A file \in {Absent, Empty, Torn} : file \notin Config \cup Seq(Foreign \cup Runtime)
  /\ Absent # Empty /\ Empty # Torn /\ Torn # Absent

VARIABLES
  config,   \* config.json
  hooks,    \* hooks.json
  backup,   \* hooks.json.humanq.bak
  cmd,      \* cmd[p]: the command p runs
  at,       \* at[p]: its next step
  after,    \* after[p]: its step once the configuration exists
  mem,      \* mem[p]: the documents p has in memory
  expected, \* config.json, if the commands had run one by one as they ended
  alone,    \* no two commands have run at the same time
  theirs,   \* the handlers the owner of hooks.json has put there
  saved,    \* what theirs was when hooks.json was copied
  raced     \* the owner has edited hooks.json while a command was running

processVars == <<cmd, at, after, mem>>
historyVars == <<expected, alone, theirs, saved, raced>>
lvars == <<config, hooks, backup, processVars, historyVars>>

Parsed(file) == file \notin {Absent, Empty, Torn}
Running(p) == at[p] \notin {"idle", "done", "failed", "dead", "halfway", "uncopied"}

NoMemory == [config |-> Absent, hooks |-> <<>>]

\* A missing hooks.json, or one that has only handlers of others.
LInit ==
  /\ config = Absent /\ backup = Absent
  /\ \E f \in Foreign : hooks \in {Absent, <<f>>}
  /\ cmd = [p \in Process |-> NoCommand]
  /\ at = [p \in Process |-> "idle"]
  /\ after = [p \in Process |-> "done"]
  /\ mem = [p \in Process |-> NoMemory]
  /\ expected = Absent /\ alone = TRUE /\ raced = FALSE /\ saved = <<>>
  /\ theirs = IF hooks = Absent THEN <<>> ELSE hooks

\* generate_token: a token nobody has used.
NewConfig(p) == [token |-> <<p, "created">>, channels |-> {}]

\* A command of one process in the eyes of its user.
Effect(p, file) ==
  LET c == cmd[p]
      doc == IF file = Absent \/ c.op = "renew" THEN NewConfig(p) ELSE file
  IN  CASE c.op \in {"disconnect", "trust"} -> file
        [] c.op = "rotate" -> [token |-> <<p, "rotated">>, channels |-> doc.channels]
        [] c.op = "add" -> [token |-> doc.token, channels |-> doc.channels \cup {c.arg}]
        [] c.op = "remove" ->
             IF file = Absent THEN file
             ELSE [token |-> doc.token, channels |-> doc.channels \ {c.arg}]
        [] OTHER -> doc

\* p goes to step s; a command that has done all its steps has succeeded.
Goes(p, s) ==
  /\ at' = [at EXCEPT ![p] = s]
  /\ expected' = IF s = "done" THEN Effect(p, expected) ELSE expected

Remembers(p, doc) == mem' = [mem EXCEPT ![p].config = doc]
RemembersHooks(p, doc) == mem' = [mem EXCEPT ![p].hooks = doc]

\* The first step of a command.
First(op) ==
  CASE op \in {"onboard", "renew", "connect", "add"} -> "ensure"
    [] op \in {"serve", "rotate", "remove"} -> "load"
    [] op = "disconnect" -> "hooks"
    [] op = "trust" -> "inventory"

\* What follows the ensure_config a command starts with.
AfterEnsure(op) ==
  CASE op = "connect" -> "hooks" [] op = "add" -> "load" [] OTHER -> "done"

Begin(p, c) ==
  /\ at[p] = "idle"
  /\ cmd' = [cmd EXCEPT ![p] = c]
  /\ after' = [after EXCEPT ![p] = AfterEnsure(c.op)]
  /\ alone' = (alone /\ \A q \in Process : ~Running(q))
  /\ Goes(p, First(c.op))
  /\ UNCHANGED <<config, hooks, backup, mem, theirs, saved, raced>>

-----------------------------------------------------------------------------
(* config.json                                                             *)

\* Mutation: the channel table starts from nothing.
EditedFromNothing(p, c, doc) ==
  CASE c.op = "rotate" -> [doc EXCEPT !.token = <<p, "rotated">>]
    [] c.op = "add" -> [doc EXCEPT !.channels = {c.arg}]
    [] OTHER -> [doc EXCEPT !.channels = @ \ {c.arg}]

\* What rotate_token, save_channel and remove_channel change in a document.
Edited(p, c, doc) ==
  CASE c.op = "rotate" -> [doc EXCEPT !.token = <<p, "rotated">>]
    [] c.op = "add" -> [doc EXCEPT !.channels = @ \cup {c.arg}]
    [] OTHER -> [doc EXCEPT !.channels = @ \ {c.arg}]

\* load_config: an unreadable file counts as none.
Load(p) ==
  LET c == cmd[p]
  IN  /\ at[p] = "load"
      /\ IF Parsed(config)
         THEN /\ Remembers(p, config)
              /\ Goes(p, IF c.op = "serve" \/ (c.op = "remove" /\ c.arg \notin config.channels)
                         THEN "done" ELSE "edit")
              /\ UNCHANGED after
         ELSE /\ Goes(p, IF c.op = "remove" THEN "done" ELSE "ensure")
              /\ after' = [after EXCEPT ![p] = IF c.op = "serve" THEN "done" ELSE "edit"]
              /\ UNCHANGED mem
      /\ UNCHANGED <<config, hooks, backup, cmd, alone, theirs, saved, raced>>

\* ensure_config reads the file, again if its caller just did, and keeps what
\* it finds unless it is forced.
Ensure(p) ==
  /\ at[p] = "ensure"
  /\ IF Parsed(config) /\ cmd[p].op # "renew"
     THEN Remembers(p, config) /\ Goes(p, after[p])
     ELSE Remembers(p, NewConfig(p)) /\ Goes(p, "create")
  /\ UNCHANGED <<config, hooks, backup, cmd, after, alone, theirs, saved, raced>>

\* save_config opens the file, for a new document or an edited one.
OpenConfig(p) ==
  /\ at[p] \in {"create", "edit"}
  /\ config' = Empty
  /\ IF at[p] = "create" THEN Goes(p, "creating") /\ UNCHANGED mem
     ELSE Goes(p, "saving") /\ Remembers(p, Edited(p, cmd[p], mem[p].config))
  /\ UNCHANGED <<hooks, backup, cmd, after, alone, theirs, saved, raced>>

\* What a file holds when doc is written to its start: the file is still
\* empty, or another writer was faster and the rest of its text may remain.
Flushed(file, doc) == IF file = Empty THEN {doc} ELSE {doc, Torn}

\* The document reaches config.json.
WriteConfig(p) ==
  /\ at[p] \in {"creating", "saving"}
  /\ config' \in Flushed(config, mem[p].config)
  /\ Goes(p, IF at[p] = "creating" THEN after[p] ELSE "done")
  /\ IF at[p] = "creating" THEN UNCHANGED mem ELSE Remembers(p, Absent)
  /\ UNCHANGED <<hooks, backup, cmd, after, alone, theirs, saved, raced>>

-----------------------------------------------------------------------------
(* hooks.json                                                              *)

\* The k-th of some places of a document, and the handlers at these places.
Nth(places, k) == CHOOSE n \in places : Cardinality({m \in places : m <= n}) = k
Selected(doc, places) == [k \in 1..Cardinality(places) |-> doc[Nth(places, k)]]

\* The handlers of a document that are in S.
Kept(doc, S) == Selected(doc, {n \in DOMAIN doc : doc[n] \in S})

Others(doc) == Kept(doc, Foreign)
Ours(doc) == Kept(doc, Runtime)

\* strip_humanq, then the handler of the runtime humanq runs in.
Installed(doc, r) == Append(Others(doc), r)

\* Mutation: a file that cannot be parsed is treated like a missing one.
NoHooksUnparsable(file) == ~Parsed(file)

\* install_codex_hooks starts from nothing only where there is no file.
NoHooks(file) == file = Absent

\* Mutation: nothing is kept.
KeepNever(file) == "install"

\* An existing file is copied before it is changed.
Keep(file) == IF file = Absent THEN "install" ELSE "keep"

\* install_codex_hooks reads; what cannot be parsed is left alone.
ReadToInstall(p) ==
  /\ at[p] = "hooks" /\ cmd[p].op = "connect"
  /\ IF NoHooks(hooks) THEN RemembersHooks(p, Installed(<<>>, cmd[p].arg)) /\ Goes(p, Keep(Absent))
     ELSE IF Parsed(hooks)
     THEN RemembersHooks(p, Installed(hooks, cmd[p].arg)) /\ Goes(p, Keep(hooks))
     ELSE Goes(p, "failed") /\ UNCHANGED mem
  /\ UNCHANGED <<config, hooks, backup, cmd, after, alone, theirs, saved, raced>>

\* shutil.copy2 creates the copy, which is empty at first, unless there is one.
KeepCopy(p) ==
  /\ at[p] = "keep"
  /\ IF backup = Absent THEN backup' = Empty /\ Goes(p, "copying")
     ELSE Goes(p, "install") /\ UNCHANGED backup
  /\ UNCHANGED <<config, hooks, cmd, after, mem, alone, theirs, saved, raced>>

\* It copies the file, and not what was parsed; an empty one adds nothing.
CopyHooks(p) ==
  /\ at[p] = "copying"
  /\ backup' \in IF hooks = Empty THEN {backup} ELSE Flushed(backup, hooks)
  /\ saved' = theirs
  /\ Goes(p, "install")
  /\ UNCHANGED <<config, hooks, cmd, after, mem, alone, theirs, raced>>

\* uninstall_codex_hooks reads; it keeps no copy and writes only a change.
ReadToUninstall(p) ==
  /\ at[p] = "hooks" /\ cmd[p].op = "disconnect"
  /\ IF hooks = Absent THEN Goes(p, "done") /\ UNCHANGED mem
     ELSE IF ~Parsed(hooks) THEN Goes(p, "failed") /\ UNCHANGED mem
     ELSE /\ RemembersHooks(p, Others(hooks))
          /\ Goes(p, IF Ours(hooks) = <<>> THEN "done" ELSE "install")
  /\ UNCHANGED <<config, hooks, backup, cmd, after, alone, theirs, saved, raced>>

OpenHooks(p) ==
  /\ at[p] = "install"
  /\ hooks' = Empty
  /\ Goes(p, "installing")
  /\ UNCHANGED <<config, backup, cmd, after, mem, alone, theirs, saved, raced>>

WriteHooks(p) ==
  /\ at[p] = "installing"
  /\ hooks' \in Flushed(hooks, mem[p].hooks)
  /\ Goes(p, "done")
  /\ RemembersHooks(p, <<>>)
  /\ UNCHANGED <<config, backup, cmd, after, alone, theirs, saved, raced>>

\* The owner of hooks.json adds a handler in front, or creates the file.
OwnerEdits(f) ==
  /\ f \notin ToSet(theirs)
  /\ Parsed(hooks) \/ hooks = Absent
  /\ hooks' = IF hooks = Absent THEN <<f>> ELSE <<f>> \o hooks
  /\ theirs' = <<f>> \o theirs
  /\ raced' = (raced \/ \E p \in Process : Running(p))
  /\ UNCHANGED <<config, backup, processVars, expected, alone, saved>>

\* Where a kill leaves the file or the copy cut off.
Cut(step) ==
  CASE step = "installing" -> "halfway" [] step = "copying" -> "uncopied" [] OTHER -> "dead"

\* The process is killed, perhaps with a file open that it has emptied.
Die(p) ==
  /\ Running(p)
  /\ Goes(p, Cut(at[p]))
  /\ mem' = [mem EXCEPT ![p] = NoMemory]
  /\ UNCHANGED <<config, hooks, backup, cmd, after, alone, theirs, saved, raced>>

LNext ==
  \/ \E p \in Process, c \in Command : Begin(p, c)
  \/ \E p \in Process :
       \/ Load(p) \/ Ensure(p) \/ OpenConfig(p) \/ WriteConfig(p)
       \/ ReadToInstall(p) \/ KeepCopy(p) \/ CopyHooks(p) \/ ReadToUninstall(p)
       \/ OpenHooks(p) \/ WriteHooks(p) \/ Die(p)
  \/ \E f \in Foreign : OwnerEdits(f)

LSpec == LInit /\ [][LNext]_lvars

-----------------------------------------------------------------------------
(* Properties.                                                             *)

\* Commands that do not overlap, and are not killed, have their effects in the
\* order they ended: no command loses the token or a channel of an earlier one.
ConfigIsSequential ==
  alone /\ (\A p \in Process : at[p] \in {"idle", "done", "failed"}) =>
    config = expected

\* Whoever can read hooks.json finds the handlers of its owner, all and in
\* their order, and one handler of humanq at most: overlapping and killed
\* installs and removals included, unless the owner edited at the same time.
ForeignHandlersSurvive ==
  Parsed(hooks) =>
    /\ Len(Ours(hooks)) <= 1
    /\ ~raced => Others(hooks) = theirs

\* An install that was killed with hooks.json emptied leaves a readable copy
\* with the owner's handlers as they were when it was made, if the file had any
\* and nobody else wrote beside it.  The copy is made once: what the owner added
\* later is lost, and a copy that was itself cut off by a kill stays cut off.
BackupRecovers ==
  \A p \in Process :
    /\ alone /\ ~raced
    /\ at[p] = "halfway" /\ cmd[p].op = "connect" /\ theirs # <<>>
    /\ \A q \in Process : at[q] # "uncopied"
    => Parsed(backup) /\ Others(backup) = saved
=============================================================================
