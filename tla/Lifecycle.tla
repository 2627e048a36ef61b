----------------------------- MODULE Lifecycle -----------------------------
(***************************************************************************)
(* install, update and uninstall: one command at a time changes the        *)
(* managed executable, the PATH entry and its receipt, the configuration   *)
(* and the native hooks, and any of its steps may fail or be the last one  *)
(* before the process is killed.  On Windows an update replaces a running  *)
(* executable and leaves its old image to a helper process.  What a single *)
(* hook file goes through is the subject of HookFiles.                     *)
(***************************************************************************)
EXTENDS Naturals, FiniteSets

CONSTANTS
  Platforms,     \* subset of {"posix", "windows"}
  Targets,       \* the harnesses whose hooks are managed
  Selections,    \* the selections --harnesses makes
  Profiles,      \* the profiles SHELL may select on POSIX
  Registry,      \* the place of the user PATH on Windows
  None,          \* no place: there is no receipt
  LastRelease,   \* releases are 1 .. LastRelease, the last one is the latest
  MaxCommands,   \* bound on the commands a person runs
  MaxFaults,     \* bound on failing steps (a rollback that fails as well is no other) and crashes
  MaxEdits,      \* bound on edits of PATH by the user or another installer
  Attempts       \* removals the cleanup helper tries (20 in the code)

ASSUME ConstantsAssumption ==
  /\ Platforms \subseteq {"posix", "windows"} /\ Platforms # {}
  /\ Selections \subseteq SUBSET Targets \ {{}}
  /\ Registry \notin Profiles /\ None \notin Profiles \cup {Registry}
  /\ {LastRelease, Attempts} \subseteq Nat \ {0}
  /\ {MaxCommands, MaxFaults, MaxEdits} \subseteq Nat

VARIABLES
  platform, apm, \* constant in a behaviour; apm: the external tool is on PATH
  exe,           \* release of the managed executable, 0 if there is none
  staged,        \* commands whose .update-new image is on disk
  stale,         \* command -> release of its .update-old image, 0 if none
  helper,        \* command -> removals it still tries, 0 without one, or Lost
  path,          \* place -> entries equal to the managed one, other entries
  receipt,       \* place the ownership receipt names, None if there is none
  configured,    \* the env file holds an endpoint
  cache,         \* the cache directory holds data
  hooks,         \* harnesses with a native hook
  legacy,        \* the APM package of an older release is still installed
  skill,         \* the optional configure skill is installed
  run,           \* the command that runs, or how the last one ended
  users,         \* ghost: what the user put into each place
  orphans,       \* ghost: places whose entry the receipt no longer accounts for
  spent,         \* ghost: the entry the receipt names has been removed
  excused,       \* ghost: PATH was edited, or an entry of the user's taken for ours, unnoticed
  stranded,      \* ghost: a swap ended without an executable
  commands, faults, edits

images    == <<exe, staged, stale, helper>>
paths     == <<path, receipt, orphans, spent>>
telemetry == <<configured, cache, hooks, legacy, skill>>
userVars  == <<users, excused, edits>>
vars == <<platform, apm, images, paths, telemetry, userVars, run, stranded, commands, faults>>

Releases == 1 .. LastRelease
Corrupt  == LastRelease + 1                \* a download that is not the release
Places   == IF platform = "windows" THEN {Registry} ELSE Profiles
Ids      == 1 .. MaxCommands
Lost     == Attempts + 1                   \* the helper could not start, was killed or gave up
Actions  == {"install", "update", "uninstall"}

\* What a process that has not started yet knows.
NoRun == [action |-> "none", phase |-> "done", managed |-> FALSE, image |-> 0,
          targets |-> {}, todo |-> {}, place |-> None, loaded |-> FALSE,
          snap |-> [same |-> 0, other |-> 0], seen |-> None, rest |-> {},
          purge |-> FALSE, failed |-> FALSE]

\* Before any installation, or with release 1 in place: with native hooks, or with the package
\* of an older release that still brings the hooks.
Init ==
  /\ platform \in Platforms /\ exe \in {0, 1} /\ apm \in (IF exe = 0 THEN BOOLEAN ELSE {TRUE})
  /\ staged = {} /\ stale = [i \in Ids |-> 0] /\ helper = [i \in Ids |-> 0]
  /\ receipt \in (IF exe = 0 THEN {None} ELSE Places) /\ orphans = {} /\ spent = FALSE
  /\ users = [p \in Profiles \cup {Registry} |-> [same |-> 0, other |-> 0]]
  /\ path = [p \in DOMAIN users |-> [same |-> IF p = receipt THEN 1 ELSE 0, other |-> 0]]
  /\ configured = (exe = 1) /\ legacy \in BOOLEAN
  /\ hooks = (IF exe = 1 /\ ~legacy THEN Targets ELSE {}) /\ cache = TRUE /\ skill = FALSE
  /\ run = NoRun /\ stranded = FALSE /\ excused = FALSE
  /\ commands = 0 /\ faults = 0 /\ edits = 0

-----------------------------------------------------------------------------
\* Frames.
At(phase)    == run.phase = phase
Goto(phase)  == run' = [run EXCEPT !.phase = phase]
Works        == UNCHANGED faults
Fails        == faults < MaxFaults /\ faults' = faults + 1
End(failed)  == run' = [run EXCEPT !.phase = "done", !.failed = @ \/ failed]
Base         == UNCHANGED <<platform, apm, commands, userVars>>
OnlyImages    == Base /\ UNCHANGED <<paths, telemetry>>
OnlyPaths     == Base /\ UNCHANGED <<images, telemetry, stranded>>
OnlyTelemetry == Base /\ UNCHANGED <<images, paths, stranded>>
OnlyRun       == OnlyTelemetry /\ UNCHANGED telemetry

\* The managed executable itself may run the command (then its own image is the
\* source), or an image the bootstrap script has downloaded.
InstallSource(managed, image) ==
  IF managed THEN exe # 0 /\ image = exe ELSE image \in Releases

\* install, and update of a bootstrap image, after a preflight that passed; the
\* shell selects the profile, and PATH may already hold the managed directory.
StartInstall ==
  \E action \in {"install", "update"}, managed \in BOOLEAN, image \in Releases,
     targets \in Selections, place \in Places, loaded \in BOOLEAN :
    /\ At("done") /\ commands < MaxCommands /\ commands' = commands + 1
    /\ InstallSource(managed, image)
    /\ loaded => platform = "posix"
    /\ run' = [NoRun EXCEPT !.action = action, !.managed = managed, !.image = image,
                !.targets = targets, !.place = place, !.loaded = loaded,
                !.phase = IF ~managed THEN "copy" ELSE IF action = "update" THEN "latest" ELSE "ensure"]
    /\ UNCHANGED <<platform, apm, images, paths, telemetry, userVars, stranded, faults>>

\* uninstall takes no selection; the installed Windows executable refuses to
\* remove itself.
StartUninstall ==
  \E managed \in BOOLEAN, purge \in BOOLEAN :
    /\ At("done") /\ commands < MaxCommands /\ commands' = commands + 1
    /\ managed => exe # 0 /\ platform = "posix"
    /\ run' = [NoRun EXCEPT !.action = "uninstall", !.managed = managed, !.purge = purge,
                            !.todo = Targets, !.phase = "unhook"]
    /\ UNCHANGED <<platform, apm, images, paths, telemetry, userVars, stranded, faults>>

\* A preflight that fails changes nothing.
Refuse ==
  /\ At("done") /\ commands < MaxCommands /\ commands' = commands + 1
  /\ run' = [NoRun EXCEPT !.failed = TRUE]
  /\ UNCHANGED <<platform, apm, images, paths, telemetry, userVars, stranded, faults>>

-----------------------------------------------------------------------------
\* Self-update: the managed executable hands over to a verified newer release.

\* compareSemver(installed, latest) >= 0: nothing to fetch, refresh the rest.
\* Otherwise the release is downloaded into a private directory, perhaps damaged.
ResolveLatest ==
  /\ At("latest") /\ OnlyRun
  /\ \/ Works /\ run.image >= LastRelease /\ Goto("ensure")
     \/ Works /\ run.image < LastRelease /\ run' = [run EXCEPT !.phase = "verify", !.image = LastRelease]
     \/ Fails /\ run.image < LastRelease /\ run' = [run EXCEPT !.phase = "verify", !.image = Corrupt]
     \/ Fails /\ End(TRUE)

\* Mutant of ChecksumMatches: the digest is not compared.
ChecksumMatchesAny(image) == TRUE

\* Only the image whose digest SHA256SUMS names is ever started.
ChecksumMatches(image) == image = LastRelease

\* The verified image runs as a child, which repeats the preflight.
Verify ==
  /\ At("verify") /\ OnlyRun
  /\ \/ Works /\ IF ChecksumMatches(run.image)
                  THEN Goto(IF platform = "windows" THEN "stage" ELSE "copy")
                  ELSE End(TRUE)
     \/ Fails /\ End(TRUE)

\* A command ends on a failing step; what it staged is removed on the way out.
SwapFails == End(TRUE) /\ staged' = staged \ {commands}

Stage ==
  /\ At("stage") /\ OnlyImages /\ UNCHANGED <<exe, stale, helper, stranded>>
  /\ \/ Works /\ staged' = staged \cup {commands} /\ Goto("aside")
     \/ Fails /\ SwapFails

\* The running image moves out of the way under a name of its own.
MoveAside ==
  /\ At("aside") /\ OnlyImages /\ UNCHANGED <<helper, stranded>>
  /\ \/ /\ Works /\ exe # 0 /\ exe' = 0 /\ stale' = [stale EXCEPT ![commands] = exe]
        /\ Goto("swap") /\ UNCHANGED staged
     \/ Fails /\ SwapFails /\ UNCHANGED <<exe, stale>>

SwapIn ==
  /\ At("swap") /\ OnlyImages /\ UNCHANGED <<stale, helper, stranded>>
  /\ \/ Works /\ exe' = run.image /\ staged' = staged \ {commands} /\ Goto("helper")
     \/ Fails /\ Goto("back") /\ UNCHANGED <<exe, staged>>

\* The rollback of a swap; what made the swap fail may fail the rollback as well, and
\* then nothing is left in place.
MoveBack ==
  /\ At("back") /\ OnlyImages /\ UNCHANGED helper /\ SwapFails /\ Works
  /\ \/ exe' = stale[commands] /\ stale' = [stale EXCEPT ![commands] = 0] /\ UNCHANGED stranded
     \/ stranded' = TRUE /\ UNCHANGED <<exe, stale>>

\* A helper that cannot be started is only a warning.
StartHelper ==
  /\ At("helper") /\ OnlyImages /\ UNCHANGED <<exe, staged, stale, stranded>> /\ Goto("ensure")
  /\ \/ Works /\ helper' = [helper EXCEPT ![commands] = Attempts]
     \/ Fails /\ helper' = [helper EXCEPT ![commands] = Lost]

Running(i) == helper[i] \in 1 .. Attempts

\* Mutant of CleanUp: the helper ends at the first removal that fails.
CleanUpOnce(i) ==
  /\ Running(i) /\ ~(commands = i /\ ~At("done"))
  /\ UNCHANGED <<platform, apm, exe, staged, paths, telemetry, userVars, run, stranded, commands>>
  /\ helper' = [helper EXCEPT ![i] = 0]
  /\ \/ Works /\ stale' = [stale EXCEPT ![i] = 0]
     \/ Fails /\ UNCHANGED stale

\* The helper waits for the command that was replaced, then tries to remove its
\* image, which a process may still hold, a bounded number of times.
CleanUp(i) ==
  /\ Running(i) /\ ~(commands = i /\ ~At("done"))
  /\ UNCHANGED <<platform, apm, exe, staged, paths, telemetry, userVars, run, stranded, commands>>
  /\ \/ Works /\ stale' = [stale EXCEPT ![i] = 0] /\ helper' = [helper EXCEPT ![i] = 0]
     \/ /\ Fails /\ UNCHANGED stale
        /\ helper' = [helper EXCEPT ![i] = IF @ = 1 THEN Lost ELSE @ - 1]

\* The helper is killed.
HelperDies(i) ==
  /\ Running(i) /\ Fails /\ helper' = [helper EXCEPT ![i] = Lost]
  /\ UNCHANGED <<platform, apm, exe, staged, stale, paths, telemetry, userVars, run, stranded, commands>>

-----------------------------------------------------------------------------
\* install and update: the managed CLI first, and nothing else without it.

\* Windows keeps an image that a process runs from.
Busy == platform = "windows" /\ \E i \in Ids : Running(i)

\* copyExecutableAtomically: a temporary copy renamed over the target.
CopyExecutable ==
  /\ At("copy") /\ OnlyImages /\ UNCHANGED <<staged, stale, helper, stranded>>
  /\ \/ Works /\ ~Busy /\ exe' = run.image /\ Goto("ensure")
     \/ Works /\ Busy /\ End(TRUE) /\ UNCHANGED exe
     \/ Fails /\ End(TRUE) /\ UNCHANGED exe

\* Mutant of EnsureRead: an entry in any profile is taken for one in this shell's.
EnsureReadAnywhere ==
  /\ At("ensure") /\ OnlyRun
  /\ \/ Works /\ (run.loaded \/ \E p \in Places : path[p].same > 0) /\ Goto("configure")
     \/ /\ Works /\ ~run.loaded /\ path[run.place].same = 0
        /\ run' = [run EXCEPT !.phase = "append", !.snap = path[run.place]]
     \/ Fails /\ End(TRUE)

\* Ensure reads the profile or the registry value: an entry that is there
\* already is left alone and gets no receipt.
EnsureRead ==
  /\ At("ensure") /\ OnlyRun
  /\ \/ Works /\ (run.loaded \/ path[run.place].same > 0) /\ Goto("configure")
     \/ /\ Works /\ ~run.loaded /\ path[run.place].same = 0
        /\ run' = [run EXCEPT !.phase = "append", !.snap = path[run.place]]
     \/ Fails /\ End(TRUE)

\* What is written is the content that was read, and the entry.
EnsureWrite ==
  /\ At("append") /\ OnlyPaths /\ UNCHANGED <<receipt, orphans, spent>>
  /\ \/ /\ Works /\ path' = [path EXCEPT ![run.place] = [run.snap EXCEPT !.same = @ + 1]]
        /\ Goto(IF platform = "windows" THEN "notify" ELSE "receipt")
     \/ Fails /\ End(TRUE) /\ UNCHANGED path

\* The entry is taken out again: by uninstall, or when no receipt can be written.
Removing == run.action = "uninstall" \/ run.failed

\* An install that ends here leaves an entry without receipt.
Orphaned == IF run.action = "uninstall" THEN orphans ELSE orphans \cup {run.place}

\* Windows announces the change; if that fails the value read before comes back.
Notify ==
  /\ At("notify") /\ OnlyRun
  /\ \/ /\ Works
        /\ run' = [run EXCEPT !.phase = IF Removing THEN "unpath" ELSE "receipt",
                              !.rest = @ \ {run.place}]
     \/ Fails /\ Goto("restore")

Restore ==
  /\ At("restore") /\ OnlyPaths /\ UNCHANGED receipt /\ End(TRUE) /\ Works
  /\ \/ /\ path' = [path EXCEPT ![run.place] = run.snap]
        /\ spent' = (spent /\ run.action # "uninstall")
        /\ orphans' = IF run.failed THEN Orphaned ELSE orphans
     \/ orphans' = (IF run.failed THEN orphans ELSE Orphaned) /\ UNCHANGED <<path, spent>>

WriteReceipt ==
  /\ At("receipt") /\ OnlyPaths /\ UNCHANGED path
  /\ \/ /\ Works /\ receipt' = run.place /\ spent' = FALSE /\ Goto("configure")
        /\ orphans' = orphans \cup (IF spent THEN {} ELSE {receipt} \ {None, run.place})
     \/ /\ Fails /\ UNCHANGED <<receipt, orphans, spent>>
        /\ run' = [run EXCEPT !.phase = "unpath", !.failed = TRUE, !.seen = run.place,
                              !.rest = {run.place}]

Configure ==
  /\ At("configure") /\ OnlyTelemetry /\ UNCHANGED <<cache, hooks, legacy, skill>>
  /\ \/ Works /\ configured' = TRUE /\ Goto("migrate")
     \/ Fails /\ End(TRUE) /\ UNCHANGED configured

\* migrateLegacyTelemetryAPM: the package that brought the hooks before is
\* uninstalled first, or no hook is installed.
MigrateLegacy ==
  /\ At("migrate") /\ OnlyTelemetry /\ UNCHANGED <<configured, cache, hooks, skill>>
  /\ \/ /\ Works /\ (apm \/ ~legacy) /\ legacy' = FALSE
        /\ run' = [run EXCEPT !.phase = "hooks", !.todo = run.targets]
     \/ Works /\ ~apm /\ legacy /\ End(TRUE) /\ UNCHANGED legacy
     \/ Fails /\ End(TRUE) /\ UNCHANGED legacy

\* Targets come in a fixed order, and one that fails does not stop the others.
FirstOf(todo) == CHOOSE t \in todo : TRUE

InstallHook ==
  LET t == FirstOf(run.todo) IN
    /\ At("hooks") /\ run.todo # {} /\ OnlyTelemetry /\ UNCHANGED <<configured, cache, legacy, skill>>
    /\ \/ Works /\ hooks' = hooks \cup {t} /\ run' = [run EXCEPT !.todo = @ \ {t}]
       \/ Fails /\ UNCHANGED hooks /\ run' = [run EXCEPT !.todo = @ \ {t}, !.failed = TRUE]

HooksInstalled ==
  /\ At("hooks") /\ run.todo = {} /\ OnlyRun /\ Works
  /\ IF run.failed THEN End(TRUE) ELSE Goto("skill")

\* The configure skill is optional: without apm it is skipped, a failure, to install it or to
\* compile it afterwards, warns.
InstallSkill ==
  /\ At("skill") /\ OnlyTelemetry /\ End(FALSE) /\ UNCHANGED <<configured, cache, hooks, legacy>>
  /\ \/ Works /\ skill' = (skill \/ apm)
     \/ Fails /\ apm /\ skill' \in {skill, TRUE}

-----------------------------------------------------------------------------
\* uninstall: every hook first, the managed CLI only if none is left.

RemoveHook ==
  LET t == FirstOf(run.todo) IN
    /\ At("unhook") /\ run.todo # {} /\ OnlyTelemetry /\ UNCHANGED <<configured, cache, legacy, skill>>
    /\ \/ Works /\ hooks' = hooks \ {t} /\ run' = [run EXCEPT !.todo = @ \ {t}]
       \/ Fails /\ UNCHANGED hooks /\ run' = [run EXCEPT !.todo = @ \ {t}, !.failed = TRUE]

\* Mutant of HooksRemoved: the directories are purged whatever the hooks did.
HooksRemovedOrNot ==
  /\ At("unhook") /\ run.todo = {} /\ OnlyRun /\ Works
  /\ Goto(IF run.purge THEN "purge" ELSE "unskill")

HooksRemoved ==
  /\ At("unhook") /\ run.todo = {} /\ OnlyRun /\ Works
  /\ Goto(IF run.purge /\ ~run.failed THEN "purge" ELSE "unskill")

\* Both directories are tried; one that remains fails the component.
Purge ==
  /\ At("purge") /\ OnlyTelemetry /\ UNCHANGED <<hooks, legacy, skill>>
  /\ \/ Works /\ configured' = FALSE /\ cache' = FALSE /\ Goto("unskill")
     \/ /\ Fails /\ \/ configured' = FALSE /\ UNCHANGED cache
                    \/ cache' = FALSE /\ UNCHANGED configured
        /\ run' = [run EXCEPT !.phase = "unskill", !.failed = TRUE]

\* Mutant of UninstallSkill: the managed CLI goes although telemetry failed.
UninstallSkillRegardless ==
  /\ At("unskill") /\ OnlyTelemetry /\ Works /\ Goto("readReceipt")
  /\ skill' = (skill /\ ~apm) /\ UNCHANGED <<configured, cache, hooks, legacy>>

UninstallSkill ==
  /\ At("unskill") /\ OnlyTelemetry /\ UNCHANGED <<configured, cache, hooks, legacy>>
  /\ \/ Works /\ skill' = (skill /\ ~apm)
     \/ Fails /\ skill /\ apm /\ UNCHANGED skill
  /\ IF run.failed THEN End(TRUE) ELSE Goto("readReceipt")

\* Mutants of Owned: without a receipt nothing, or everything, is taken for owned.
OwnedByReceipt(seen) == IF seen # None THEN {seen} ELSE {}
OwnedAnywhere(seen)  == IF seen # None THEN {seen} ELSE Places

\* The places Remove looks at: the one the receipt names; without a receipt no
\* Windows entry is owned, but any of the profiles may hold the block.
Owned(seen) ==
  IF seen # None THEN {seen} ELSE IF platform = "windows" THEN {} ELSE Profiles

ReadReceipt ==
  /\ At("readReceipt") /\ OnlyRun
  /\ \/ Works /\ run' = [run EXCEPT !.phase = "unpath", !.seen = receipt, !.rest = Owned(receipt)]
     \/ Fails /\ End(TRUE)

RemovePathRead ==
  LET p == FirstOf(run.rest) IN
    /\ At("unpath") /\ run.rest # {} /\ OnlyPaths /\ UNCHANGED <<path, receipt, spent>>
    /\ \/ /\ Works /\ UNCHANGED orphans
          /\ run' = IF path[p].same = 0 THEN [run EXCEPT !.rest = @ \ {p}]
                    ELSE [run EXCEPT !.phase = "unappend", !.place = p, !.snap = path[p]]
       \/ Fails /\ End(TRUE) /\ orphans' = Orphaned

\* Every block of a profile goes, but only the last of equal registry entries.  An
\* uninstall that took the entry and then failed leaves the receipt, so the next one
\* takes an equal entry of the user for its own.
RemoveEntry(content) ==
  [content EXCEPT !.same = IF platform = "windows" THEN @ - 1 ELSE 0]

RemovePathWrite ==
  /\ At("unappend") /\ UNCHANGED <<platform, apm, commands, users, edits, images, telemetry, stranded, receipt>>
  /\ excused' = (excused \/ (spent /\ run.action = "uninstall"))
  /\ \/ /\ Works /\ path' = [path EXCEPT ![run.place] = RemoveEntry(run.snap)]
        /\ spent' = (spent \/ (run.action = "uninstall" /\ receipt # None)) /\ UNCHANGED orphans
        /\ IF platform = "windows" THEN Goto("notify")
           ELSE run' = [run EXCEPT !.phase = "unpath", !.rest = @ \ {run.place}]
     \/ Fails /\ End(TRUE) /\ orphans' = Orphaned /\ UNCHANGED <<path, spent>>

PathRemoved ==
  /\ At("unpath") /\ run.rest = {} /\ OnlyRun /\ Works
  /\ IF run.action = "uninstall" THEN Goto("unexe") ELSE End(TRUE)

RemoveExecutable ==
  /\ At("unexe") /\ OnlyImages /\ UNCHANGED <<staged, stale, helper, stranded>>
  /\ \/ Works /\ ~Busy /\ exe' = 0 /\ IF run.seen # None THEN Goto("unreceipt") ELSE End(FALSE)
     \/ Works /\ Busy /\ End(TRUE) /\ UNCHANGED exe
     \/ Fails /\ End(TRUE) /\ UNCHANGED exe

RemoveReceipt ==
  /\ At("unreceipt") /\ OnlyPaths /\ UNCHANGED <<path, orphans>>
  /\ \/ Works /\ receipt' = None /\ spent' = FALSE /\ End(FALSE)
     \/ Fails /\ End(TRUE) /\ UNCHANGED <<receipt, spent>>

-----------------------------------------------------------------------------
\* The surroundings.

\* The command and the child it waits for are killed.
Crash ==
  /\ ~At("done") /\ Fails
  /\ run' = [NoRun EXCEPT !.failed = TRUE]
  /\ stranded' = (stranded \/ run.phase \in {"swap", "back"})
  /\ orphans' = IF run.phase \in {"notify", "restore", "receipt", "unpath", "unappend"} THEN Orphaned
                ELSE orphans
  /\ UNCHANGED <<platform, apm, images, telemetry, userVars, path, receipt, spent, commands>>

\* The user, or another installer, adds an entry.  The code cannot notice one that
\* comes between its own read and write.
UserEdit ==
  \E p \in Places, kind \in {"same", "other"} :
    /\ edits < MaxEdits /\ edits' = edits + 1
    /\ kind = (IF platform = "windows" THEN "same" ELSE "other")
    /\ path' = [path EXCEPT ![p][kind] = @ + 1] /\ users' = [users EXCEPT ![p][kind] = @ + 1]
    /\ excused' = \/ excused
                  \/ run.phase \in {"append", "notify", "restore", "unappend"} /\ run.place = p
    /\ UNCHANGED <<platform, apm, images, telemetry, receipt, orphans, spent, run, stranded, commands, faults>>

Command ==
  \/ ResolveLatest \/ Verify \/ Stage \/ MoveAside \/ SwapIn \/ MoveBack \/ StartHelper
  \/ CopyExecutable \/ EnsureRead \/ EnsureWrite \/ Notify \/ Restore \/ WriteReceipt
  \/ Configure \/ MigrateLegacy \/ InstallHook \/ HooksInstalled \/ InstallSkill
  \/ RemoveHook \/ HooksRemoved \/ Purge \/ UninstallSkill \/ ReadReceipt
  \/ RemovePathRead \/ RemovePathWrite \/ PathRemoved \/ RemoveExecutable \/ RemoveReceipt

Helper == \E i \in Ids : CleanUp(i) \/ HelperDies(i)

Next == StartInstall \/ StartUninstall \/ Refuse \/ Command \/ Helper \/ Crash \/ UserEdit

Spec == Init /\ [][Next]_vars

\* The operating system runs the command to its end, and each helper.
FairSpec == Spec /\ WF_vars(Command) /\ \A i \in Ids : WF_vars(CleanUp(i))

-----------------------------------------------------------------------------
\* Properties.

\* Every variable has a value of its kind, and a receipt only names a place.
TypeOK ==
  /\ platform \in Platforms /\ exe \in 0 .. LastRelease
  /\ staged \subseteq Ids /\ stale \in [Ids -> 0 .. LastRelease]
  /\ helper \in [Ids -> 0 .. Lost]
  /\ path \in [Profiles \cup {Registry} -> [same : Nat, other : Nat]] /\ users \in [DOMAIN path -> [same : Nat, other : Nat]]
  /\ receipt \in Places \cup {None} /\ orphans \subseteq Places
  /\ hooks \subseteq Targets /\ {configured, cache, legacy, skill, spent, excused, stranded} \subseteq BOOLEAN
  /\ run.todo \subseteq Targets /\ run.rest \subseteq Places

\* A native hook runs the managed executable at every prompt: while one is
\* installed there is a verified executable, except inside the two renames of a
\* Windows swap and after one that was killed there or could not be rolled back; of what
\* follows such a swap in the same behaviour it says nothing more.
HooksCallable ==
  hooks # {} => \/ exe \in Releases
                \/ exe = 0 /\ (run.phase \in {"swap", "back"} \/ stranded)

\* install and update bring hooks only after an endpoint is saved and the package that
\* would report the same calls a second time is gone, and the hooks outlive neither: purging
\* starts when the last hook is removed.  `hooks install` asks for neither and is no command
\* of this module.
HooksReady == hooks # {} => configured /\ ~legacy

\* An install or update that reports no failure has installed all of it: the
\* executable, an entry on PATH, the configuration and every selected hook; an
\* update of the managed executable ends at the latest release.
InstallHonest ==
  At("done") /\ run.action \in {"install", "update"} /\ ~run.failed =>
    /\ exe \in Releases /\ configured /\ ~legacy /\ run.targets \subseteq hooks
    /\ run.loaded \/ path[run.place].same > 0
    /\ run.action = "update" /\ run.managed => exe = LastRelease

\* An uninstall that reports no failure has left nothing: no hook, no executable, no
\* receipt, no purged directory, and on PATH what users have put there.  The
\* exception is an entry the receipt does not account for: a crash or a failed
\* rollback came before the receipt, or a later install under another shell replaced it.
UninstallClean ==
  At("done") /\ run.action = "uninstall" /\ ~run.failed =>
    /\ hooks = {} /\ exe = 0 /\ receipt = None
    /\ run.purge => ~configured /\ ~cache
    /\ \A p \in Places : \/ path[p].same = users[p].same \/ excused
                         \/ p \in orphans /\ (platform = "windows" \/ run.seen # None)

\* No command removes what a user or another installer put on PATH, also not an entry equal
\* to its own, with two exceptions that the code cannot notice: PATH was edited between the
\* read and the write of a command, or an uninstall meets the receipt of one before it that
\* removed the entry and then failed, and takes an equal entry of the user's.
PathKept ==
  ~excused => \A p \in Places : /\ path[p].same >= users[p].same
                                /\ path[p].other = users[p].other

\* The old image of a swapped executable is removed in the end, if a helper was started
\* and neither killed nor refused every time.
StaleRemoved ==
  \A i \in Ids : Running(i) ~> stale[i] = 0 \/ helper[i] = Lost

-----------------------------------------------------------------------------
(* The inductive invariant, and what it adds to the properties above. *)

Installs     == run.action \in {"install", "update"}
Uninstalls   == run.action = "uninstall"
In(phases)   == run.phase \in phases
Succeeded    == At("done") /\ ~run.failed
SetupPhases  == {"ensure", "append", "receipt", "configure", "migrate", "hooks", "skill"}
SwapPhases   == {"stage", "aside", "swap", "back", "helper"}
PathPhases   == {"notify", "restore", "unpath", "unappend"}
LeavePhases  == {"unhook", "purge", "unskill", "readReceipt", "unexe", "unreceipt"}

Phases == {"done", "latest", "verify", "copy"} \cup SwapPhases \cup SetupPhases \cup PathPhases \cup LeavePhases

\* What a command knows.
Runs == [action : Actions \cup {"none"}, phase : Phases, managed : BOOLEAN, image : 0 .. Corrupt,
         targets : SUBSET Targets, todo : SUBSET Targets, place : Places \cup {None},
         loaded : BOOLEAN, snap : [same : Nat, other : Nat], seen : Places \cup {None},
         rest : SUBSET Places, purge : BOOLEAN, failed : BOOLEAN]

\* Which phases belong to which command, and where it may have failed.
RunInv ==
  /\ run \in Runs
  /\ commands \in 0 .. MaxCommands /\ (~At("done") => commands \in Ids)
  /\ In({"latest", "verify", "copy"} \cup SwapPhases \cup SetupPhases) => Installs
  /\ In(LeavePhases) => Uninstalls
  /\ In(PathPhases) => Installs \/ Uninstalls
  /\ Installs \/ In(PathPhases \ {"unpath"}) => run.place \in Places
  /\ run.failed => In({"hooks", "unhook", "unskill", "done"}) \/ (Installs /\ In(PathPhases))
  /\ Installs /\ In({"unpath", "unappend"}) => run.failed
  /\ In({"notify", "restore"}) => platform = "windows"

\* The release in place once an install or update has come past the executable.
Upgraded == exe \in Releases /\ (run.action = "update" /\ run.managed => exe = LastRelease)

\* Where the executable is in each phase; only a swap leaves its place empty.
ImageInv ==
  /\ At("latest") => run.image = exe /\ exe \in Releases
  /\ At("copy") => run.image \in Releases /\ (run.action = "update" /\ run.managed => run.image = LastRelease)
  /\ In({"stage", "aside", "swap", "back"}) => run.image = LastRelease
  /\ In({"swap", "back"}) => exe = 0 /\ stale[commands] \in Releases
  /\ In({"helper"} \cup SetupPhases) \/ (Installs /\ (In(PathPhases) \/ Succeeded)) => Upgraded
  /\ HooksCallable
  /\ At("unreceipt") \/ (Uninstalls /\ Succeeded) => exe = 0

\* An uninstall that has not failed has removed every hook but those it has yet to do.
HookInv ==
  /\ HooksReady
  /\ In({"migrate", "hooks", "skill"}) \/ (Installs /\ Succeeded) => configured
  /\ In({"hooks", "skill"}) \/ (Installs /\ Succeeded) => ~legacy
  /\ At("hooks") /\ ~run.failed => run.targets \subseteq hooks \cup run.todo
  /\ At("skill") \/ (Installs /\ Succeeded) => run.targets \subseteq hooks
  /\ Uninstalls /\ ~run.failed => hooks \subseteq run.todo /\ (~At("unhook") => run.todo = {})
  /\ Uninstalls /\ ~run.failed /\ run.purge /\ ~In({"unhook", "purge"}) => ~configured /\ ~cache

\* A place holds what users have put there, or one entry more.
Exact(p) == path[p].same = users[p].same
Extra(p) == path[p].same = users[p].same + 1

EntryInv ==
  \A p \in Places : /\ Exact(p) \/ Extra(p)
                    /\ path[p].other = users[p].other
                    /\ platform = "posix" => users[p].same = 0

\* What a command that changes a place has read of it.
SnapInv ==
  /\ At("append") => run.snap = path[run.place] /\ run.snap.same = 0
  /\ At("unappend") => run.snap = path[run.place]
  /\ In({"notify", "restore"}) =>
       /\ run.snap.other = path[run.place].other
       /\ IF Removing THEN Exact(run.place) /\ run.snap.same = path[run.place].same + 1
          ELSE Extra(run.place) /\ run.snap.same = 0 /\ path[run.place].same = 1
  /\ Installs /\ (In({"receipt", "unappend"}) \/ (At("unpath") /\ run.rest # {})) => Extra(run.place)

\* Every entry that no user has put there has a receipt, is in the hands of a
\* command that goes on, or counts as an orphan; the receipt of an entry on Windows
\* is right until the entry is removed.
AccountInv ==
  /\ \A p \in Places : Extra(p) =>
       \/ p \in orphans \/ (p = receipt /\ ~spent)
       \/ Installs /\ In({"receipt"} \cup PathPhases) /\ p = run.place
  /\ platform = "windows" /\ receipt # None /\ ~spent => Extra(receipt)
  /\ platform = "windows" /\ Installs /\ In({"append", "receipt"} \cup PathPhases) => receipt = None \/ spent
  /\ Uninstalls /\ In({"notify", "restore"}) => spent
  /\ Installs /\ At("unpath") /\ run.rest = {} => Exact(run.place)

\* The places an uninstall has dealt with.
Cleaned(p) == Exact(p) \/ (p \in orphans /\ (platform = "windows" \/ run.seen # None))

Leaving == Uninstalls /\ (In({"unexe", "unreceipt"} \cup PathPhases) \/ Succeeded)

LeaveInv ==
  /\ Uninstalls /\ In({"unexe", "unreceipt"} \cup PathPhases) =>
       run.seen = receipt /\ run.rest \subseteq Owned(receipt)
  /\ Uninstalls /\ In({"unappend", "notify", "restore"}) => run.place \in run.rest
  /\ Uninstalls /\ (In({"unexe", "unreceipt"}) \/ Succeeded) => run.rest = {}
  /\ Uninstalls /\ Succeeded => receipt = None
  /\ Installs => run.rest \subseteq {run.place}
  /\ At("unappend") => run.snap.same > 0
  /\ In({"receipt", "configure", "migrate", "hooks", "skill"}) \/ (At("notify") /\ ~Removing)
       \/ (Installs /\ Succeeded) => run.loaded \/ path[run.place].same > 0

CleanInv == Leaving => \A p \in Places \ run.rest : Cleaned(p)

\* PATH, unless it was edited where the code cannot notice it.
PathInv ==
  /\ LeaveInv
  /\ excused \/ (EntryInv /\ SnapInv /\ AccountInv /\ CleanInv)

IInv == TypeOK /\ RunInv /\ ImageInv /\ HookInv /\ PathInv
=============================================================================
