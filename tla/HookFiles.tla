----------------------------- MODULE HookFiles -----------------------------
(***************************************************************************)
(* hooks install and hooks uninstall, which the lifecycle commands call    *)
(* too, on the file of one harness, while another such command runs and    *)
(* the user or the harness changes the same file.                          *)
(*                                                                         *)
(* Claude Code, Codex and Cursor keep hooks in a JSON file (doc) that is   *)
(* read, changed by HookMerge and renamed over; Codex has a rule file too. *)
(* The hook of Cline and the plugin of OpenCode are whole files (file):    *)
(* created exclusively, and moved to a quarantine name before they are     *)
(* removed or replaced.  OpenCode's plugin changes with the release and    *)
(* its place with the environment: a receipt under a lock records both.    *)
(***************************************************************************)
EXTENDS HookMerge

CONSTANTS
  Procs,         \* commands that may run at the same time
  None,          \* no process, and no file
  Harnesses,     \* subset of the five harnesses
  Docs,          \* contents a JSON file may have at first
  Edits,         \* handlers a user may still add
  Paths,         \* places OPENCODE_CONFIG_DIR may select
  Releases,      \* releases, each with its own plugin; OpenCode's only
  MaxCommands,   \* harness -> bound on commands
  MaxFaults,     \* bound on failing steps and crashes
  MaxEdits       \* bound on changes by the user

ASSUME ConstantsAssumption ==
  /\ Harnesses \subseteq {"claude", "codex", "cursor", "cline", "opencode"}
  /\ Paths # {} /\ Releases # {} /\ MaxCommands \in [Harnesses -> Nat] /\ {MaxFaults, MaxEdits} \subseteq Nat

VARIABLES
  harness, plain, \* constant in a behaviour: the harness, and whether the spec has no matcher
  doc, rule,      \* the JSON file; Codex's rule: None, "canonical" or "modified"
  file,           \* place -> what is there
  left,           \* contents left under quarantine names
  receipt,        \* place -> release whose digest is recorded, None if the place is not
  lock,           \* holder of the receipt lock
  run,            \* process -> the command it runs, or how its last one ended
  mine,           \* ghost: place -> what the user put there last
  saved,          \* ghost: handlers the user has saved
  excused,        \* ghost: handlers and places the user changed where the code cannot notice it
  unrecorded,     \* ghost: places whose new plugin was never recorded because a step failed
  commands, faults, edits

jsonVars  == <<doc, rule, saved>>
ownedVars == <<file, left, receipt, lock, mine, unrecorded>>
bounds    == <<commands, edits>>
vars == <<harness, plain, jsonVars, ownedVars, run, excused, bounds, faults>>

NoReceipt == [p \in Paths |-> None]
Json     == {"claude", "codex", "cursor"}
Places   == IF harness = "opencode" THEN Paths ELSE {CHOOSE p \in Paths : TRUE}
Foreign  == {"user", "edited", "link"}  \* a file of the user's, one with our comment in it, no regular file
Contents == {None, "partial", "legacy"} \cup Releases \cup Foreign \cup Procs  \* i: being written by i

\* What may be at a place is told apart.
ASSUME ContentsAssumption ==
  /\ Procs \cap Releases = {} /\ None \notin Foreign \cup {"partial", "legacy"}
  /\ (Procs \cup Releases) \cap ({None, "partial", "legacy"} \cup Foreign) = {}
  /\ None \notin {"canonical", "modified"}

\* Every handler that may ever be in the JSON file; what a user adds is not ours.
Handlers == {"own", "apm", "old"} \cup Edits \cup UNION {HandlersOf(d) : d \in Docs}
ASSUME HandlersAssumption ==
  Docs \subseteq Seq(GroupsOf(Handlers)) /\ Edits \cap {"own", "apm", "old"} = {}

Idle == [phase |-> "done", action |-> "none", path |-> None, release |-> None, todo |-> {},
         snap |-> <<>>, held |-> None, known |-> NoReceipt, failed |-> FALSE, quiet |-> FALSE]

\* A file from before: nothing, our hook, an older release's, or somebody else's.
Init ==
  /\ harness \in Harnesses /\ plain \in (IF harness \in {"claude", "codex"} THEN BOOLEAN ELSE {TRUE})
  /\ doc \in {d \in Docs : /\ harness \in Json \/ d = <<>>
                           /\ harness = "cursor" => Flat(d)}
  /\ rule \in (IF harness = "codex" THEN {None, "canonical", "modified"} ELSE {None})
  /\ saved = HandlersOf(doc) \ Owned(harness)
  /\ file \in [Paths -> IF harness = "cline" THEN {None, "legacy", "user", "edited", "link"}
                        ELSE IF harness = "opencode" THEN {None, "user", "edited"} ELSE {None}]
  /\ \A p \in Paths \ Places : file[p] = None
  /\ mine = [p \in Paths |-> IF file[p] \in Foreign THEN file[p] ELSE None]
  /\ left = {} /\ receipt = NoReceipt /\ lock = None
  /\ run = [i \in Procs |-> Idle] /\ excused = {} /\ unrecorded = {}
  /\ commands = 0 /\ faults = 0 /\ edits = 0

-----------------------------------------------------------------------------
\* Frames and steps of a command.
At(i, phase)   == run[i].phase = phase
Goto(i, phase) == run' = [run EXCEPT ![i].phase = phase]
Works          == UNCHANGED faults
Fails          == faults < MaxFaults /\ faults' = faults + 1
OnlyJson       == UNCHANGED <<harness, plain, ownedVars, excused, bounds>>
OnlyOwned      == UNCHANGED <<harness, plain, jsonVars, mine, bounds>>
OnlyRun        == UNCHANGED <<harness, plain, jsonVars, ownedVars, excused, bounds>>
Running(i)     == ~At(i, "done")

\* The end of a command: what it reports is kept as long as nothing disturbs it.
Ended(i, failed) ==
  LET r == run[i] IN
  [run EXCEPT ![i] = IF failed \/ r.failed \/ ~r.quiet THEN Idle
                     ELSE [Idle EXCEPT !.action = r.action, !.path = r.path, !.release = r.release, !.quiet = TRUE]]
\* Mutant of Unlock: a lock that is never given back.
UnlockNever(i) == UNCHANGED lock

Unlock(i) == lock' = IF lock = i /\ run'[i].phase = "done" THEN None ELSE lock

Disturbed == [j \in Procs |-> IF Running(j) THEN [run[j] EXCEPT !.quiet = FALSE] ELSE Idle]

\* The end of the work on one place: OpenCode's uninstall goes on with the next one.
Over(i, failed) ==
  IF harness = "opencode" /\ run[i].action = "uninstall"
    THEN [run EXCEPT ![i].phase = "place", ![i].failed = @ \/ failed, ![i].held = None]
    ELSE Ended(i, failed)

\* hooks install or hooks uninstall of some release; commands that overlap disturb
\* each other.
Start(i) ==
  \E action \in {"install", "uninstall"}, path \in Places, release \in Releases :
    /\ ~Running(i) /\ commands < MaxCommands[harness] /\ commands' = commands + 1
    /\ harness # "opencode" => release = CHOOSE r \in Releases : TRUE
    /\ LET alone == \A j \in Procs : ~Running(j) IN
       run' = [j \in Procs |->
                 IF j = i THEN [Idle EXCEPT !.action = action, !.path = path, !.release = release, !.quiet = alone,
                                  !.phase = CASE harness \in Json -> "read"
                                              [] harness = "opencode" /\ action = "install" -> "lock"
                                              [] OTHER -> "inspect"]
                 ELSE Disturbed[j]]
    /\ UNCHANGED <<harness, plain, jsonVars, ownedVars, excused, edits, faults>>

-----------------------------------------------------------------------------
\* JSON files: updateHookFile, then Codex's rule.

\* What follows the hooks file: install does the rule in any case, uninstall only
\* after success.
AfterDoc(i, failed) ==
  IF harness = "codex" /\ (run[i].action = "install" \/ ~failed)
    THEN [run EXCEPT ![i].phase = "rule", ![i].failed = failed, ![i].snap = <<>>]
    ELSE Ended(i, failed)

\* The file the command read, changed.
Changed(i) ==
  IF run[i].action = "install" THEN Merge(harness, plain, run[i].snap)
                               ELSE RemoveOwned(harness, run[i].snap)

ReadDoc(i) ==
  /\ At(i, "read") /\ OnlyRun
  /\ \/ Works /\ run' = [run EXCEPT ![i].phase = "write", ![i].snap = doc]
     \/ Fails /\ run' = AfterDoc(i, TRUE)

\* A temporary file renamed over the other, when there is a change.
WriteDoc(i) ==
  /\ At(i, "write") /\ harness \in Json /\ OnlyJson /\ UNCHANGED <<rule, saved>>
  /\ \/ /\ Works /\ run' = AfterDoc(i, FALSE)
        /\ doc' = IF Changed(i) = run[i].snap THEN doc ELSE Changed(i)
     \/ Fails /\ run' = AfterDoc(i, TRUE) /\ UNCHANGED doc

\* Install replaces whatever is there; uninstall keeps a rule that was changed.
Rule(i) ==
  /\ At(i, "rule") /\ OnlyJson /\ UNCHANGED <<doc, saved>>
  /\ \/ /\ Works /\ run' = Ended(i, FALSE)
        /\ rule' = CASE run[i].action = "install" -> "canonical"
                     [] run[i].action = "uninstall" /\ rule = "canonical" -> None
                     [] OTHER -> rule
     \/ Fails /\ run' = Ended(i, TRUE) /\ UNCHANGED rule

-----------------------------------------------------------------------------
\* Whole files: what a command may replace or remove.  A plugin of another release
\* is known by the recorded digest only.
Known(i, p, c) ==
  IF harness = "cline" THEN c \in {"legacy", run[i].release}
  ELSE c \in Releases /\ c \in {run[i].release, run[i].known[p]}

\* Content that carries the owner comment, which a user may have edited.
Claimed(c) == c = "edited" \/ (harness = "opencode" /\ c \in Releases)

\* Cline; and OpenCode's uninstall as long as there is no receipt.
Inspect(i) ==
  LET c    == file[run[i].path]
      take == IF harness = "cline" THEN "isolate" ELSE "lock"
  IN  /\ At(i, "inspect") /\ Works /\ OnlyRun
      /\ run' = CASE run[i].action = "install" /\ c = None -> [run EXCEPT ![i].phase = "create"]
                  [] run[i].action = "install" /\ c # None -> Ended(i, c # run[i].release)
                  [] run[i].action = "uninstall" /\ harness = "opencode" /\ receipt # NoReceipt -> [run EXCEPT ![i].phase = take]
                  [] OTHER -> IF Known(i, run[i].path, c) THEN [run EXCEPT ![i].phase = take] ELSE Ended(i, Claimed(c))

\* Mutant of ToClear: uninstall clears the selected place only.
ToClearSelected(i) == {run[i].path}

\* Uninstall clears every recorded place and the selected one.
ToClear(i) == {p \in Paths : receipt[p] # None} \cup {run[i].path}

\* The receipt is read under its lock.
Lock(i) ==
  /\ At(i, "lock") /\ lock = None
  /\ OnlyOwned /\ UNCHANGED <<file, left, receipt, excused, unrecorded>>
  /\ \/ /\ Works /\ lock' = i
        /\ run' = [run EXCEPT ![i].known = receipt, ![i].phase = IF run[i].action = "install" THEN "look" ELSE "place",
                     ![i].todo = IF run[i].action = "install" THEN {} ELSE ToClear(i)]
     \/ Fails /\ run' = Ended(i, TRUE) /\ UNCHANGED lock

\* Mutant of Found: a plugin that is current needs no look at the receipt.
FoundCurrent(i, c) ==
  CASE c = None -> [run EXCEPT ![i].phase = "record"]
    [] c = run[i].release -> Ended(i, FALSE)
    [] c # run[i].release /\ Known(i, run[i].path, c) -> [run EXCEPT ![i].phase = "isolate"]
    [] OTHER -> Ended(i, TRUE)

\* OpenCode's install: record, then create; or replace, then record.
Found(i, c) ==
  CASE c = None -> [run EXCEPT ![i].phase = "record"]
    [] c = run[i].release -> [run EXCEPT ![i].phase = "confirm"]
    [] c # run[i].release /\ Known(i, run[i].path, c) -> [run EXCEPT ![i].phase = "isolate"]
    [] OTHER -> Ended(i, TRUE)

Look(i) ==
  /\ At(i, "look") /\ Works /\ OnlyOwned /\ UNCHANGED <<file, left, receipt, excused, unrecorded>>
  /\ run' = Found(i, file[run[i].path])
  /\ Unlock(i)

\* Mutant of ReceiptAfter: the receipt goes even when a place could not be cleared.
ReceiptGone(i) == NoReceipt

ReceiptAfter(i) == IF run[i].failed THEN receipt ELSE NoReceipt

\* OpenCode's uninstall: the next place, or the end.  Every recorded place must give
\* up a plugin that is known; one that is not recorded may hold anything.
Place(i) ==
  /\ At(i, "place") /\ OnlyOwned /\ UNCHANGED <<file, left, excused, unrecorded>>
  /\ \/ \E p \in run[i].todo :
          LET gone == [run EXCEPT ![i].todo = @ \ {p}, ![i].path = p]
              ours == Known(i, p, file[p])
          IN  /\ Works /\ UNCHANGED <<receipt, lock>>
              /\ run' = CASE ours -> [gone EXCEPT ![i].phase = "isolate"]
                          [] ~ours /\ file[p] # None /\ run[i].known[p] # None -> [gone EXCEPT ![i].failed = TRUE]
                          [] OTHER -> gone
     \/ /\ run[i].todo = {} /\ Works /\ run' = Ended(i, FALSE) /\ Unlock(i)
        /\ receipt' = ReceiptAfter(i)
     \/ run[i].todo = {} /\ Fails /\ run' = Ended(i, TRUE) /\ Unlock(i) /\ UNCHANGED receipt

-----------------------------------------------------------------------------
\* Writing, moving and removing whole files.

\* What i was writing, complete or given up, wherever the file is now.
Become(c, i, new) == IF c = i THEN new ELSE c
FilesBecome(i, new) ==
  /\ file' = [p \in Paths |-> Become(file[p], i, new)]
  /\ left' = {Become(c, i, new) : c \in left}
HeldBecome(runs, i, new) == [j \in Procs |-> [runs[j] EXCEPT !.held = Become(@, i, new)]]

\* The exclusive creation.  After it failed, a plugin that was moved away is put back.
Create(i) ==
  LET p == run[i].path IN
  /\ At(i, "create") /\ OnlyOwned /\ UNCHANGED <<left, receipt, excused, unrecorded>>
  /\ \/ /\ file[p] = None /\ Works
        /\ file' = [file EXCEPT ![p] = i] /\ Goto(i, "write") /\ UNCHANGED lock
     \/ /\ (file[p] # None /\ Works) \/ Fails
        /\ run' = IF run[i].held = None THEN Ended(i, TRUE) ELSE [run EXCEPT ![i].phase = "restore"]
        /\ Unlock(i) /\ UNCHANGED file

\* The content goes to the file that was created, the removal of a failed one to the
\* name it had.
Write(i) ==
  LET p == run[i].path IN
  /\ At(i, "write") /\ harness \notin Json /\ OnlyOwned /\ UNCHANGED <<receipt, unrecorded>>
  /\ \/ /\ Works /\ FilesBecome(i, run[i].release) /\ UNCHANGED excused
        /\ run' = HeldBecome(IF run[i].held = None THEN Ended(i, FALSE) ELSE [run EXCEPT ![i].phase = "discard"],
                             i, run[i].release)
     \/ /\ Fails /\ file' = [file EXCEPT ![p] = None] /\ left' = {Become(c, i, "partial") : c \in left}
        /\ run' = HeldBecome(IF run[i].held = None THEN Ended(i, TRUE) ELSE [run EXCEPT ![i].phase = "restore"],
                             i, "partial")
        /\ excused' = IF file[p] \in {i, None} THEN excused ELSE excused \cup {p}
  /\ Unlock(i)

\* The rename to a quarantine name.
Isolate(i) ==
  LET p == run[i].path IN
  /\ At(i, "isolate") /\ OnlyOwned /\ UNCHANGED <<left, receipt, excused, unrecorded>>
  /\ \/ /\ file[p] # None /\ Works
        /\ run' = [run EXCEPT ![i].held = file[p], ![i].phase = "recheck"]
        /\ file' = [file EXCEPT ![p] = None] /\ UNCHANGED lock
     \/ /\ (file[p] = None /\ Works) \/ Fails
        /\ run' = Over(i, TRUE) /\ Unlock(i) /\ UNCHANGED file

\* What was moved is read again: the file may have been replaced since it was read.
Recheck(i) ==
  LET c == run[i].held IN
  /\ At(i, "recheck") /\ OnlyOwned /\ UNCHANGED <<file, receipt, excused, unrecorded>>
  /\ \/ /\ Known(i, run[i].path, c) /\ Works /\ UNCHANGED <<left, lock>>
        /\ Goto(i, IF run[i].action = "install" THEN "create" ELSE "discard")
     \/ /\ ~Known(i, run[i].path, c) /\ ~(harness = "cline" /\ c = "link") /\ Works
        /\ Goto(i, "restore") /\ UNCHANGED <<left, lock>>
     \/ /\ (harness = "cline" /\ c = "link" /\ Works) \/ Fails
        /\ left' = left \cup {c} /\ run' = Over(i, TRUE) /\ Unlock(i)

\* Mutant of Restored: a rename, which replaces a file that is there again.
RestoredOver(i, p) == file' = [file EXCEPT ![p] = run[i].held] /\ UNCHANGED left

\* A hard link, which never replaces a file that is there again.
Restored(i, p) ==
  IF file[p] = None THEN file' = [file EXCEPT ![p] = run[i].held] /\ UNCHANGED left
                    ELSE left' = left \cup {run[i].held} /\ UNCHANGED file

Restore(i) ==
  LET p == run[i].path IN
  /\ At(i, "restore") /\ OnlyOwned /\ UNCHANGED <<receipt, excused, unrecorded>>
  /\ run' = Over(i, TRUE) /\ Unlock(i)
  /\ \/ Works /\ Restored(i, p)
     \/ Fails /\ left' = left \cup {run[i].held} /\ UNCHANGED file

\* A failed removal leaves the file under the quarantine name; a new plugin that
\* replaced it stays, unrecorded.
Discard(i) ==
  /\ At(i, "discard") /\ OnlyOwned /\ UNCHANGED <<file, receipt, excused>>
  /\ \/ /\ Works /\ UNCHANGED <<left, unrecorded>>
        /\ run' = IF run[i].action = "install" THEN [run EXCEPT ![i].held = None, ![i].phase = "confirm"]
                                              ELSE Over(i, FALSE)
     \/ /\ Fails /\ left' = left \cup {run[i].held} /\ run' = Over(i, TRUE)
        /\ unrecorded' = IF run[i].action = "install" THEN unrecorded \cup {run[i].path} ELSE unrecorded
  /\ Unlock(i)

\* The receipt, before the plugin is created (record) or after it replaced another
\* (confirm).
Record(i) ==
  LET p    == run[i].path
      then == IF At(i, "record") THEN [run EXCEPT ![i].phase = "create"] ELSE Ended(i, FALSE)
  IN  /\ At(i, "record") \/ At(i, "confirm")
      /\ OnlyOwned /\ UNCHANGED <<file, left, excused>>
      /\ \/ /\ Works /\ run' = then
            /\ receipt' = [receipt EXCEPT ![p] = run[i].release] /\ unrecorded' = unrecorded \ {p}
         \/ /\ Fails /\ receipt[p] # run[i].release /\ run' = Ended(i, TRUE) /\ UNCHANGED receipt
            /\ unrecorded' = IF At(i, "confirm") THEN unrecorded \cup {p} ELSE unrecorded
      /\ Unlock(i)

\* The kernel frees the lock of a process that is killed; nothing else is undone.
Crash(i) ==
  LET held == run[i].held
      now  == {Become(c, i, "partial") : c \in left}
  IN  /\ Running(i) /\ Fails /\ OnlyOwned /\ UNCHANGED <<receipt, excused>>
      /\ file' = [p \in Paths |-> Become(file[p], i, "partial")]
      /\ left' = IF held = None THEN now ELSE now \cup {held}
      /\ run' = HeldBecome(Ended(i, TRUE), i, "partial") /\ Unlock(i)
      /\ unrecorded' = IF At(i, "confirm") \/ (At(i, "discard") /\ run[i].action = "install")
                         THEN unrecorded \cup {run[i].path} ELSE unrecorded

-----------------------------------------------------------------------------
\* The user, or the harness, changes the file.
Edit      == edits < MaxEdits /\ edits' = edits + 1 /\ run' = Disturbed

\* Saves one more handler; a command that has read the file cannot know of it.
SaveHandler(h) ==
  /\ harness \in Json /\ h \notin HandlersOf(doc) /\ Edit
  /\ \/ doc # <<>> /\ doc' = [doc EXCEPT ![1].handlers = Append(@, h)]
     \/ harness # "cursor" /\ doc' = Append(doc, [NewGroup EXCEPT !.handlers = <<h>>])
  /\ saved' = saved \cup {h}
  /\ excused' = IF \E i \in Procs : At(i, "write") THEN excused \cup {h} ELSE excused
  /\ UNCHANGED <<harness, plain, rule, ownedVars, commands, faults>>

\* Puts another file in place, or removes what is there.
PutFile(p, c) ==
  /\ harness \notin Json /\ p \in Places /\ file[p] # c /\ Edit
  /\ file' = [file EXCEPT ![p] = c] /\ mine' = [mine EXCEPT ![p] = c]
  /\ UNCHANGED <<harness, plain, jsonVars, left, receipt, lock, excused, unrecorded, commands, faults>>

-----------------------------------------------------------------------------
StepOf(i) ==
  \/ ReadDoc(i) \/ WriteDoc(i) \/ Rule(i)
  \/ Inspect(i) \/ Lock(i) \/ Look(i) \/ Place(i)
  \/ Create(i) \/ Write(i) \/ Isolate(i) \/ Recheck(i) \/ Restore(i) \/ Discard(i) \/ Record(i)

Next ==
  \/ \E i \in Procs : Start(i) \/ StepOf(i) \/ Crash(i)
  \/ \E h \in Edits : SaveHandler(h)
  \/ \E p \in Paths, c \in Foreign \cup {None} : PutFile(p, c)

Spec == Init /\ [][Next]_vars

-----------------------------------------------------------------------------
\* What hooks status shows, of some release and with place p selected.
PluginState(r, p) ==
  CASE file[p] = None -> "missing"
    [] file[p] = r -> "installed"
    [] file[p] \in Releases \ {r} /\ file[p] = receipt[p] -> "outdated"
    [] OTHER -> "invalid"

OpenCodeStatus(r, p) ==
  LET shown == {PluginState(r, q) : q \in {p} \cup {q \in Paths : receipt[q] # None}}
  IN  IF "invalid" \in shown THEN "invalid" ELSE IF "outdated" \in shown THEN "outdated" ELSE PluginState(r, p)

ClineStatus(r, p) ==
  CASE file[p] = None -> "missing"
    [] file[p] = r -> "installed"
    [] file[p] = "legacy" -> "outdated"
    [] OTHER -> "invalid"

JsonStatus ==
  CASE Merge(harness, plain, doc) # doc -> "missing"
    [] Merge(harness, plain, doc) = doc /\ harness = "codex" /\ rule # "canonical" -> "invalid"
    [] OTHER -> "installed"

Status(r, p) ==
  CASE harness = "opencode" -> OpenCodeStatus(r, p)
    [] harness = "cline" -> ClineStatus(r, p)
    [] OTHER -> JsonStatus

-----------------------------------------------------------------------------
TypeOK ==
  /\ harness \in Harnesses /\ plain \in BOOLEAN /\ rule \in {None, "canonical", "modified"}
  /\ \A k \in DOMAIN doc : DOMAIN doc[k] = DOMAIN NewGroup
  /\ file \in [Paths -> Contents] /\ mine \in [Paths -> Foreign \cup {None}]
  /\ left \subseteq Contents \ {None} /\ receipt \in [Paths -> Releases \cup {None}]
  /\ lock \in Procs \cup {None} /\ (lock # None => Running(lock))
  /\ \A i \in Procs : run[i].held \in Contents /\ (run[i].held # None => Running(i))
  /\ excused \subseteq saved \cup Paths /\ unrecorded \subseteq Paths
  /\ {commands, faults, edits} \subseteq Nat

\* A file of the user's at our place (hooks_cline.go, hooks_opencode.go) is still there, or
\* under a quarantine name, whatever commands met it between their steps: except the
\* file that a failed creation removes by its name.
UserFileKept ==
  \A p \in Paths : mine[p] # None =>
    file[p] = mine[p] \/ mine[p] \in left \/ p \in excused \/ \E i \in Procs : run[i].held = mine[p]

\* A handler the user saved (updateHookFile, the merges and removals) is in the file, unless
\* it was saved between the read and the rename of a command.
UserHandlersKept == saved \ HandlersOf(doc) \subseteq excused

Alone(i, action) == At(i, "done") /\ run[i].action = action /\ run[i].quiet

\* An install that reports success and that nothing disturbed (installHooks) leaves one
\* hook, which hooks status shows as installed, and a plugin whose digest is recorded,
\* whatever earlier commands, crashes and releases left behind.
InstallHonest ==
  \A i \in Procs : Alone(i, "install") =>
    LET r == run[i].release
        p == run[i].path
    IN  CASE harness = "opencode" -> PluginState(r, p) = "installed" /\ receipt[p] = r
          [] harness = "cline" -> Status(r, p) = "installed"
          [] OTHER -> /\ Status(r, p) = "installed"
                      /\ \E k \in DOMAIN doc : \E n \in DOMAIN doc[k].handlers : Canonical(harness, doc, k, n)

\* An uninstall that reports success and that nothing disturbed (uninstallHooks) leaves
\* nothing of ours that could run: the managed CLI is removed next.
RemoveHonest ==
  \A i \in Procs : Alone(i, "uninstall") =>
    CASE harness = "opencode" -> receipt = NoReceipt /\ \A p \in Paths : file[p] \notin Releases
      [] harness = "cline" -> file[run[i].path] \notin {"legacy", run[i].release}
      [] OTHER -> rule # "canonical" /\ HandlersOf(doc) \cap Removable = {}

\* While no command holds the lock, the receipt has the digest of every plugin of ours
\* (installOpenCodePlugin): a later release can replace or remove it.  Only the plugin of an
\* install that failed or was killed between the replacement and the receipt is an exception.
Recognised ==
  harness = "opencode" /\ lock = None => \A p \in Paths \ unrecorded : file[p] \in Releases => receipt[p] = file[p]

\* On every file that occurs (mergeGroupedHooks, removeGroupedHooks, mergeCursorHook,
\* removeCursorHook): a second merge changes nothing, one more removal changes nothing, and
\* neither moves, drops or regroups a handler of the user's.
MergeStable ==
  harness \in Json =>
    LET merged  == Merge(harness, plain, doc)
        removed == RemoveOwned(harness, merged)
    IN  /\ Merge(harness, plain, merged) = merged /\ RemoveOwned(harness, removed) = removed
        /\ UserPart(harness, merged) = UserPart(harness, doc)
        /\ UserPart(harness, removed) = UserPart(harness, doc)
-----------------------------------------------------------------------------
\* The inductive invariant, of JSON files.

\* Nothing but the file, the rule and the commands is used, and a handler the user saved is
\* none that a command may remove.
JsonRuns == [phase : {"done", "read", "write", "rule"}, action : {"none", "install", "uninstall"},
             path : Paths \cup {None}, release : Releases \cup {None}, todo : {{}}, snap : Seq(GroupsOf(Handlers)),
             held : {None}, known : {NoReceipt}, failed : BOOLEAN, quiet : BOOLEAN]

JsonShapeInv ==
  /\ harness \in Json \cap Harnesses /\ plain \in BOOLEAN /\ FileOf(Handlers, harness, doc)
  /\ rule \in (IF harness = "codex" THEN {None, "canonical", "modified"} ELSE {None})
  /\ file = [p \in Paths |-> None] /\ mine = file /\ left = {} /\ receipt = NoReceipt /\ lock = None /\ unrecorded = {}
  /\ saved \cap Owned(harness) = {} /\ excused \subseteq saved \cup Paths /\ {commands, faults, edits} \subseteq Nat
  /\ run \in [Procs -> JsonRuns]

\* What it leaves of Codex's rule.
RuleMade(action, r) ==
  /\ action = "install" /\ harness = "codex" => r = "canonical"
  /\ action = "uninstall" => r # "canonical"

\* What a command has read is a file with every handler that the user has not saved since;
\* and it is still what the file is, unless something has disturbed the command.
JsonOk(i) ==
  LET r == run[i] IN
  /\ Running(i) => r.action # "none"
  /\ At(i, "rule") => harness = "codex"
  /\ At(i, "write") => FileOf(Handlers, harness, r.snap) /\ saved \ excused \subseteq HandlersOf(r.snap)
  /\ r.quiet =>
       /\ \A j \in Procs \ {i} : ~Running(j)
       /\ At(i, "write") => r.snap = doc
       /\ At(i, "rule") => r.failed \/ Made(harness, plain, r.action, doc)
       /\ At(i, "done") => Made(harness, plain, r.action, doc) /\ RuleMade(r.action, rule)

JsonInv == JsonShapeInv /\ UserHandlersKept /\ \A i \in Procs : JsonOk(i)

-----------------------------------------------------------------------------
\* The inductive invariant, of whole files.

\* Steps with whole files, and those that OpenCode takes under the receipt lock.
Locked == {"look", "place", "record", "create", "write", "isolate", "recheck", "restore", "discard", "confirm"}
Steps  == {"done", "inspect", "lock"} \cup Locked

Runs   == [phase : Steps, action : {"none", "install", "uninstall"}, path : Paths \cup {None},
           release : Releases \cup {None}, todo : SUBSET Paths, snap : {<<>>}, held : Contents,
           known : [Paths -> Releases \cup {None}], failed : BOOLEAN, quiet : BOOLEAN]

ShapeInv == TypeOK /\ harness \notin Json /\ doc = <<>> /\ rule = None /\ saved = {} /\ run \in [Procs -> Runs]

\* The step says which command it is of and what it has moved away: once it was read
\* again, only what the command may remove.
CommandOk(i) ==
  LET r == run[i] IN
  /\ Running(i) => r.action # "none" /\ r.path \in Paths /\ r.release \in Releases
  /\ r.phase \in {"recheck", "restore", "discard"} => r.held # None
  /\ r.held # None => r.phase \in {"recheck", "restore", "discard", "create", "write"}
  /\ r.held # None /\ r.phase \in {"discard", "create", "write"} =>
       r.held \in Releases \/ (harness = "cline" /\ r.held = "legacy")
  /\ harness = "cline" =>
       /\ r.phase \notin {"lock", "look", "place", "record", "confirm"}
       /\ r.phase \in {"create", "write"} => r.action = "install" /\ r.held = None
       /\ r.phase \in {"isolate", "recheck", "restore", "discard"} => r.action = "uninstall"
  /\ harness = "opencode" =>
       /\ r.phase \in {"inspect", "place"} => r.action = "uninstall"
       /\ r.phase \in {"look", "record", "create", "write", "confirm"} => r.action = "install"

CommandInv == \A i \in Procs : CommandOk(i)

LockInv == \A i \in Procs : lock = i <=> harness = "opencode" /\ run[i].phase \in Locked

\* A file of the user's that was moved away is put back where it was.
KeepInv ==
  \A p \in Paths : mine[p] # None =>
    file[p] = mine[p] \/ mine[p] \in left \/ p \in excused \/ \E i \in Procs : run[i].held = mine[p] /\ run[i].path = p

\* A plugin that is not complete is in the hands of the command that writes it.
WriterInv ==
  harness = "opencode" =>
    /\ \A p \in Paths : file[p] \in Procs => At(file[p], "write") /\ run[file[p]].path = p
    /\ \A i \in Procs : run[i].held \notin Procs

\* Every plugin of ours is at a place that is recorded, and with its digest unless a
\* command has yet to record it.
Replacing(i) == run[i].phase \in {"discard", "confirm"} /\ run[i].action = "install"
ReceiptInv ==
  harness = "opencode" => \A p \in Paths : file[p] \in Releases =>
    receipt[p] # None /\ (receipt[p] = file[p] \/ p \in unrecorded \/ \E i \in Procs : Replacing(i) /\ run[i].path = p)

\* What the holder of the lock may rely on: no plugin at the place it works on until its
\* own is there, and a digest for what it may put back.
HolderInv ==
  harness = "opencode" => \A i \in Procs :
    LET r == run[i]
        p == run[i].path
    IN  /\ r.phase \in {"record", "create", "write", "recheck", "restore"} \/ (At(i, "discard") /\ ~Replacing(i)) =>
             file[p] \notin Releases
        /\ Replacing(i) /\ file[p] \in Releases => file[p] = r.release
        /\ r.phase \in {"create", "write"} /\ r.held = None => receipt[p] = r.release
        /\ r.held \in Releases => receipt[p] # None /\ (receipt[p] = r.held \/ p \in unrecorded \/ At(i, "discard"))

\* An uninstall that has not failed has every plugin of ours still on its list.
ListInv ==
  harness = "opencode" => \A i \in Procs :
    run[i].action = "uninstall" /\ run[i].phase \in Locked =>
      /\ run[i].known = receipt
      /\ ~run[i].failed => \A p \in Paths : file[p] \in Releases => p \in run[i].todo \/ (At(i, "isolate") /\ p = run[i].path)

\* Nothing else runs beside a command that nothing has disturbed, and what it wrote or
\* moved away is as it left it.
QuietInv ==
  \A i \in Procs : run[i].quiet =>
    LET at == file[run[i].path] IN
    /\ \A j \in Procs \ {i} : ~Running(j)
    /\ At(i, "write") => at = i
    /\ Replacing(i) => at = run[i].release
    /\ harness = "cline" /\ run[i].phase \in {"recheck", "discard"} => at = None

\* What is there after a command that reports success and that nothing disturbed.
EndInv ==
  \A i \in Procs :
    LET at == file[run[i].path] IN
    /\ Alone(i, "install") =>
         /\ run[i].path \in Paths /\ run[i].release \in Releases /\ at = run[i].release
         /\ harness = "opencode" => receipt[run[i].path] = run[i].release
    /\ Alone(i, "uninstall") =>
         /\ harness = "cline" => at \notin {"legacy", run[i].release}
         /\ harness = "opencode" => receipt = NoReceipt /\ \A p \in Paths : file[p] \notin Releases

WholeInv ==
  /\ ShapeInv /\ CommandInv /\ LockInv /\ KeepInv /\ WriterInv
  /\ ReceiptInv /\ HolderInv /\ ListInv /\ QuietInv /\ EndInv

IInv == IF harness \in Json THEN JsonInv ELSE WholeInv
=============================================================================
