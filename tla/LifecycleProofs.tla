--------------------------- MODULE LifecycleProofs ---------------------------
(***************************************************************************)
(* Proofs about Lifecycle for every number of commands, faults, edits,     *)
(* releases, profiles and harnesses: the inductive invariant IInv and the  *)
(* safety properties it implies.                                           *)
(***************************************************************************)
EXTENDS Lifecycle, TLAPS

-----------------------------------------------------------------------------
(* How a command goes on: what each way of updating `run` does to its fields. *)

\* What a command is told when it starts.
Keeps ==
  /\ run'.action = run.action /\ run'.image = run.image /\ run'.targets = run.targets
  /\ (run'.managed <=> run.managed) /\ (run'.loaded <=> run.loaded) /\ (run'.purge <=> run.purge)

\* And what it has found out.
Same == Keeps /\ run'.place = run.place /\ run'.snap = run.snap /\ run'.seen = run.seen

SameFailed == run'.failed <=> run.failed
SameTodo   == run'.todo = run.todo /\ run'.rest = run.rest

\* It goes on with phase s, or ends for a failure.
Turn(s) == run' \in Runs /\ run'.phase = s /\ SameFailed /\ SameTodo /\ Same
Stop    == run' \in Runs /\ run'.phase = "done" /\ run'.failed /\ SameTodo /\ Same

\* The places do not move.
LEMMA PlacesStay ==
  ASSUME UNCHANGED platform
  PROVE  Places' = Places /\ Runs' = Runs
BY DEF Places, Runs

\* A command that ends keeps what it knows.
LEMMA Ends ==
  ASSUME run \in Runs
  PROVE  (End(TRUE) => Stop) /\ (End(FALSE) => Turn("done"))
<1>1. ASSUME NEW b \in BOOLEAN, End(b)
      PROVE  run' \in Runs /\ run'.phase = "done" /\ (run'.failed <=> run.failed \/ b) /\ SameTodo /\ Same
  <2>1. PICK x \in BOOLEAN : x = (run.failed \/ b)
    OBVIOUS
  <2>2. run' = [run EXCEPT !.phase = "done", !.failed = x]
    BY <1>1, <2>1 DEF End
  <2>3. x <=> run.failed \/ b
    BY <2>1
  <2>4. run' \in Runs
    BY <2>2 DEF Runs, Phases
  <2>5. run'.phase = "done" /\ SameTodo /\ Same
    BY <2>2 DEF Runs, Same, Keeps, SameTodo
  <2>6. run'.failed = x
    BY <2>2 DEF Runs
  <2> QED BY <2>3, <2>4, <2>5, <2>6
<1> QED BY <1>1 DEF Stop, Turn, SameFailed

\* So does one that goes on with another phase.
LEMMA Goes ==
  ASSUME run \in Runs
  PROVE  \A s \in Phases : Goto(s) => Turn(s)
BY DEF Goto, Turn, Runs, Same, Keeps, SameFailed, SameTodo

LEMMA Gotos ==
  ASSUME run \in Runs
  PROVE  /\ Goto("ensure") => Turn("ensure")
         /\ Goto("verify") => Turn("verify")
         /\ Goto("copy") => Turn("copy")
         /\ Goto("stage") => Turn("stage")
         /\ Goto("aside") => Turn("aside")
         /\ Goto("swap") => Turn("swap")
         /\ Goto("back") => Turn("back")
         /\ Goto("helper") => Turn("helper")
         /\ Goto("configure") => Turn("configure")
         /\ Goto("notify") => Turn("notify")
         /\ Goto("receipt") => Turn("receipt")
         /\ Goto("restore") => Turn("restore")
         /\ Goto("migrate") => Turn("migrate")
         /\ Goto("skill") => Turn("skill")
         /\ Goto("purge") => Turn("purge")
         /\ Goto("unskill") => Turn("unskill")
         /\ Goto("readReceipt") => Turn("readReceipt")
         /\ Goto("unexe") => Turn("unexe")
         /\ Goto("unreceipt") => Turn("unreceipt")
BY Goes DEF Phases, SwapPhases, SetupPhases, PathPhases, LeavePhases

\* A process that has not started knows nothing.
LEMMA NoRunKnown == NoRun \in Runs
<1>1. 0 \in 0 .. Corrupt
  BY ConstantsAssumption DEF Corrupt
<1> QED BY <1>1 DEF NoRun, Runs, Phases, Actions

\* A command that is refused or killed.
LEMMA Restarts ==
  ASSUME run' = [NoRun EXCEPT !.failed = TRUE]
  PROVE  run' \in Runs /\ run'.failed /\ run'.phase = "done" /\ run'.action = "none"
<1>1. run' \in Runs
  BY NoRunKnown DEF Runs
<1> QED BY <1>1 DEF NoRun, Runs

\* install and update begin with their choice of release, harnesses and profile.
LEMMA InstallStarts ==
  ASSUME StartInstall
  PROVE  /\ run.phase = "done" /\ commands < MaxCommands /\ commands' = commands + 1
         /\ UNCHANGED <<platform, apm, images, paths, telemetry, userVars, stranded, faults>>
         /\ run' \in Runs /\ run'.failed = FALSE /\ run'.action \in {"install", "update"}
         /\ run'.image \in Releases /\ run'.rest = {} /\ run'.place \in Places /\ run'.targets \subseteq Targets
         /\ (run'.managed => run'.image = exe /\ exe # 0)
         /\ run'.phase = IF ~run'.managed THEN "copy" ELSE IF run'.action = "update" THEN "latest" ELSE "ensure"
<1>1. PICK action \in {"install", "update"}, managed \in BOOLEAN, image \in Releases, targets \in Selections,
           place \in Places, loaded \in BOOLEAN :
        /\ At("done") /\ commands < MaxCommands /\ commands' = commands + 1
        /\ InstallSource(managed, image)
        /\ loaded => platform = "posix"
        /\ run' = [NoRun EXCEPT !.action = action, !.managed = managed, !.image = image,
                    !.targets = targets, !.place = place, !.loaded = loaded,
                    !.phase = IF ~managed THEN "copy" ELSE IF action = "update" THEN "latest" ELSE "ensure"]
        /\ UNCHANGED <<platform, apm, images, paths, telemetry, userVars, stranded, faults>>
  BY Zenon DEF StartInstall
<1>2. PICK s \in Phases : s = IF ~managed THEN "copy" ELSE IF action = "update" THEN "latest" ELSE "ensure"
  BY DEF Phases, SetupPhases
<1>3. run' = [NoRun EXCEPT !.action = action, !.managed = managed, !.image = image,
                !.targets = targets, !.place = place, !.loaded = loaded, !.phase = s]
  BY <1>1, <1>2
<1>4. image \in 0 .. Corrupt /\ targets \subseteq Targets
  BY ConstantsAssumption DEF Corrupt, Releases
<1>5. run' \in Runs
  BY <1>3, <1>4, NoRunKnown DEF Runs, Actions
<1>6. run'.phase = s /\ run'.action = action /\ run'.image = image /\ run'.place = place /\ run'.targets = targets
      /\ run'.rest = {}
  BY <1>3 DEF NoRun
<1>7. run'.failed = FALSE
  BY <1>3 DEF NoRun
<1>8. run'.managed = managed
  BY <1>3 DEF NoRun
<1>9. managed => image = exe /\ exe # 0
  BY <1>1 DEF InstallSource
<1> QED BY <1>1, <1>2, <1>4, <1>5, <1>6, <1>7, <1>8, <1>9 DEF At

\* uninstall begins with every harness.
LEMMA UninstallStarts ==
  ASSUME StartUninstall
  PROVE  /\ run.phase = "done" /\ commands < MaxCommands /\ commands' = commands + 1
         /\ UNCHANGED <<platform, apm, images, paths, telemetry, userVars, stranded, faults>>
         /\ run' \in Runs /\ run'.failed = FALSE /\ run'.action = "uninstall"
         /\ run'.phase = "unhook" /\ run'.todo = Targets
<1>1. PICK managed \in BOOLEAN, purge \in BOOLEAN :
        run' = [NoRun EXCEPT !.action = "uninstall", !.managed = managed, !.purge = purge,
                             !.todo = Targets, !.phase = "unhook"]
  BY DEF StartUninstall
<1>2. run' \in Runs
  BY ZenonT(60), <1>1, NoRunKnown DEF Runs, Actions, Phases, LeavePhases
<1>3. run'.failed = FALSE
  BY <1>1 DEF NoRun
<1>4. run'.action = "uninstall" /\ run'.phase = "unhook" /\ run'.todo = Targets
  BY <1>1 DEF NoRun
<1> QED BY <1>2, <1>3, <1>4 DEF StartUninstall, At

\* A newer release is fetched.
LEMMA LatestResolved ==
  ASSUME run \in Runs, ResolveLatest
  PROVE  /\ run.phase = "latest" /\ OnlyRun
         /\ \/ run.image >= LastRelease /\ Turn("ensure")
            \/ Stop
            \/ run' \in Runs /\ run'.phase = "verify" /\ SameFailed /\ SameTodo
               /\ run'.action = run.action /\ run'.place = run.place
<1>1. LastRelease \in 0 .. Corrupt /\ Corrupt \in 0 .. Corrupt
  BY ConstantsAssumption DEF Corrupt
<1>2. ASSUME NEW x \in 0 .. Corrupt, run' = [run EXCEPT !.phase = "verify", !.image = x]
      PROVE  run' \in Runs /\ run'.phase = "verify" /\ SameFailed /\ SameTodo
             /\ run'.action = run.action /\ run'.place = run.place
  BY <1>2 DEF Runs, Phases, SameFailed, SameTodo
<1> QED BY <1>1, <1>2, Ends, Gotos DEF ResolveLatest, At

\* The profile or the registry value has been read.
LEMMA EntryLookedUp ==
  ASSUME RunInv, TypeOK, EnsureRead
  PROVE  /\ run.phase = "ensure" /\ OnlyRun
         /\ \/ (run.loaded \/ path[run.place].same > 0) /\ Turn("configure")
            \/ /\ path[run.place].same = 0
               /\ run' \in Runs /\ run'.phase = "append" /\ run'.snap = path[run.place]
               /\ run'.place = run.place /\ run'.seen = run.seen /\ Keeps /\ SameFailed /\ SameTodo
            \/ Stop
<1>1. run \in Runs /\ (run.phase = "ensure" => path[run.place] \in [same : Nat, other : Nat])
  BY DEF RunInv, TypeOK, In, SetupPhases, Installs, Places
<1>2. ASSUME NEW c \in [same : Nat, other : Nat], run' = [run EXCEPT !.phase = "append", !.snap = c]
      PROVE  /\ run' \in Runs /\ run'.phase = "append" /\ run'.snap = c
             /\ run'.place = run.place /\ run'.seen = run.seen /\ Keeps /\ SameFailed /\ SameTodo
  BY <1>1, <1>2 DEF Runs, Phases, SetupPhases, Keeps, SameFailed, SameTodo
<1> QED BY <1>1, <1>2, Ends, Gotos DEF EnsureRead, At

\* Windows has been told.
LEMMA ChangeAnnounced ==
  ASSUME run \in Runs, Notify
  PROVE  /\ run.phase = "notify" /\ OnlyRun
         /\ \/ /\ run' \in Runs /\ run'.phase = IF Removing THEN "unpath" ELSE "receipt"
               /\ run'.rest = run.rest \ {run.place} /\ run'.todo = run.todo /\ Same /\ SameFailed
            \/ Turn("restore")
<1>1. ASSUME NEW s \in Phases, run' = [run EXCEPT !.phase = s, !.rest = @ \ {run.place}]
      PROVE  run' \in Runs /\ run'.phase = s
             /\ run'.rest = run.rest \ {run.place} /\ run'.todo = run.todo /\ Same /\ SameFailed
  BY <1>1 DEF Runs, Same, Keeps, SameFailed
<1>2. (IF Removing THEN "unpath" ELSE "receipt") \in Phases
  BY DEF Phases, PathPhases, SetupPhases
<1> QED BY <1>1, <1>2, Gotos DEF Notify, At

\* The receipt is written, or the entry is to be taken out again.
LEMMA ReceiptWritten ==
  ASSUME run \in Runs, run.place \in Places, WriteReceipt
  PROVE  /\ run.phase = "receipt" /\ OnlyPaths /\ path' = path
         /\ \/ /\ receipt' = run.place /\ spent' = FALSE /\ Turn("configure")
               /\ orphans' = orphans \cup (IF spent THEN {} ELSE {receipt} \ {None, run.place})
            \/ /\ UNCHANGED <<receipt, orphans, spent>>
               /\ run' \in Runs /\ run'.phase = "unpath" /\ run'.failed /\ run'.rest = {run.place}
               /\ run'.place = run.place /\ run'.todo = run.todo /\ Keeps
<1>1. ASSUME run' = [run EXCEPT !.phase = "unpath", !.failed = TRUE, !.seen = run.place, !.rest = {run.place}]
      PROVE  /\ run' \in Runs /\ run'.phase = "unpath" /\ run'.failed /\ run'.rest = {run.place}
             /\ run'.place = run.place /\ run'.todo = run.todo /\ Keeps
  BY <1>1 DEF Runs, Phases, PathPhases, Keeps
<1> QED BY <1>1, Gotos DEF WriteReceipt, At

\* The hooks of the selected harnesses come next.
LEMMA LegacyMigrated ==
  ASSUME run \in Runs, MigrateLegacy
  PROVE  /\ run.phase = "migrate" /\ OnlyTelemetry /\ UNCHANGED <<configured, cache, hooks, skill>>
         /\ \/ /\ legacy' = FALSE /\ run' \in Runs /\ run'.phase = "hooks" /\ run'.todo = run.targets
               /\ run'.rest = run.rest /\ Same /\ SameFailed
            \/ legacy' = legacy /\ Stop
<1>1. ASSUME run' = [run EXCEPT !.phase = "hooks", !.todo = run.targets]
      PROVE  /\ run' \in Runs /\ run'.phase = "hooks" /\ run'.todo = run.targets
             /\ run'.rest = run.rest /\ Same /\ SameFailed
  BY <1>1 DEF Runs, Phases, SetupPhases, Same, Keeps, SameFailed
<1> QED BY <1>1, Ends DEF MigrateLegacy, At

\* One harness less to do.
LEMMA HarnessDone ==
  ASSUME run \in Runs, NEW t
  PROVE  /\ run' = [run EXCEPT !.todo = @ \ {t}] =>
              run' \in Runs /\ run'.phase = run.phase /\ run'.todo = run.todo \ {t} /\ run'.rest = run.rest
              /\ Same /\ SameFailed
         /\ run' = [run EXCEPT !.todo = @ \ {t}, !.failed = TRUE] =>
              run' \in Runs /\ run'.phase = run.phase /\ run'.todo = run.todo \ {t} /\ run'.rest = run.rest
              /\ Same /\ run'.failed
<1>1. ASSUME run' = [run EXCEPT !.todo = @ \ {t}]
      PROVE  run' \in Runs /\ run'.phase = run.phase /\ run'.todo = run.todo \ {t} /\ run'.rest = run.rest
             /\ Same /\ SameFailed
  BY <1>1 DEF Runs, Same, Keeps, SameFailed
<1>2. ASSUME run' = [run EXCEPT !.todo = @ \ {t}, !.failed = TRUE]
      PROVE  run' \in Runs /\ run'.phase = run.phase /\ run'.todo = run.todo \ {t} /\ run'.rest = run.rest
             /\ Same /\ run'.failed
  BY <1>2 DEF Runs, Same, Keeps
<1> QED BY <1>1, <1>2

LEMMA HookInstalled ==
  ASSUME run \in Runs, InstallHook
  PROVE  /\ run.phase = "hooks" /\ OnlyTelemetry /\ UNCHANGED <<configured, cache, legacy, skill>>
         /\ run' \in Runs /\ run'.phase = "hooks" /\ run'.rest = run.rest /\ Same
         /\ \E t \in run.todo : /\ run'.todo = run.todo \ {t}
                                /\ (hooks' = hooks \cup {t} /\ SameFailed) \/ (hooks' = hooks /\ run'.failed)
BY HarnessDone DEF InstallHook, FirstOf, At

LEMMA HookRemoved ==
  ASSUME run \in Runs, RemoveHook
  PROVE  /\ run.phase = "unhook" /\ OnlyTelemetry /\ UNCHANGED <<configured, cache, legacy, skill>>
         /\ run' \in Runs /\ run'.phase = "unhook" /\ run'.rest = run.rest /\ Same
         /\ \E t \in run.todo : /\ run'.todo = run.todo \ {t}
                                /\ (hooks' = hooks \ {t} /\ SameFailed) \/ (hooks' = hooks /\ run'.failed)
BY HarnessDone DEF RemoveHook, FirstOf, At

\* Both directories are gone, or the command has failed.
LEMMA Purged ==
  ASSUME run \in Runs, Purge
  PROVE  /\ run.phase = "purge" /\ OnlyTelemetry /\ UNCHANGED <<hooks, legacy, skill>>
         /\ \/ ~configured' /\ ~cache' /\ Turn("unskill")
            \/ run' \in Runs /\ run'.phase = "unskill" /\ run'.failed /\ SameTodo /\ Same
<1>1. ASSUME run' = [run EXCEPT !.phase = "unskill", !.failed = TRUE]
      PROVE  run' \in Runs /\ run'.phase = "unskill" /\ run'.failed /\ SameTodo /\ Same
  BY <1>1 DEF Runs, Phases, LeavePhases, Same, Keeps, SameTodo
<1> QED BY <1>1, Gotos DEF Purge, At

\* uninstall knows the receipt.
LEMMA ReceiptKnown ==
  ASSUME run \in Runs, receipt \in Places \cup {None}, ReadReceipt
  PROVE  /\ run.phase = "readReceipt" /\ OnlyRun
         /\ \/ /\ run' \in Runs /\ run'.phase = "unpath" /\ run'.seen = receipt /\ run'.rest = Owned(receipt)
               /\ run'.place = run.place /\ run'.todo = run.todo /\ Keeps /\ SameFailed
            \/ Stop
<1>1. Owned(receipt) \subseteq Places
  BY DEF Owned, Places
<1>2. ASSUME run' = [run EXCEPT !.phase = "unpath", !.seen = receipt, !.rest = Owned(receipt)]
      PROVE  /\ run' \in Runs /\ run'.phase = "unpath" /\ run'.seen = receipt /\ run'.rest = Owned(receipt)
             /\ run'.place = run.place /\ run'.todo = run.todo /\ Keeps /\ SameFailed
  BY <1>1, <1>2 DEF Runs, Phases, PathPhases, Keeps, SameFailed
<1> QED BY <1>2, Ends DEF ReadReceipt, At

\* One of the places has been read.
LEMMA EntryFound ==
  ASSUME run \in Runs, TypeOK, RemovePathRead
  PROVE  /\ run.phase = "unpath" /\ OnlyPaths /\ UNCHANGED <<path, receipt, spent>>
         /\ \E p \in run.rest :
              \/ /\ path[p].same = 0 /\ orphans' = orphans
                 /\ run' \in Runs /\ run'.phase = "unpath" /\ run'.rest = run.rest \ {p}
                 /\ run'.todo = run.todo /\ Same /\ SameFailed
              \/ /\ path[p].same # 0 /\ orphans' = orphans
                 /\ run' \in Runs /\ run'.phase = "unappend" /\ run'.place = p /\ run'.snap = path[p]
                 /\ run'.seen = run.seen /\ Keeps /\ SameFailed /\ SameTodo
              \/ Stop /\ orphans' = Orphaned
<1>1. PICK p \in run.rest : p = FirstOf(run.rest)
  BY DEF RemovePathRead, FirstOf
<1>2. p \in Places /\ path[p] \in [same : Nat, other : Nat]
  BY DEF Runs, TypeOK, Places
<1>3. ASSUME run' = [run EXCEPT !.rest = @ \ {p}]
      PROVE  /\ run' \in Runs /\ run'.phase = run.phase /\ run'.rest = run.rest \ {p}
             /\ run'.todo = run.todo /\ Same /\ SameFailed
  BY <1>3 DEF Runs, Same, Keeps, SameFailed
<1>4. ASSUME NEW c \in [same : Nat, other : Nat],
             run' = [run EXCEPT !.phase = "unappend", !.place = p, !.snap = c]
      PROVE  /\ run' \in Runs /\ run'.phase = "unappend" /\ run'.place = p /\ run'.snap = c
             /\ run'.seen = run.seen /\ Keeps /\ SameFailed /\ SameTodo
  BY <1>2, <1>4 DEF Runs, Phases, PathPhases, Keeps, SameFailed, SameTodo
<1> QED BY <1>1, <1>2, <1>3, <1>4, Ends DEF RemovePathRead, At

\* The entry has been taken out of it.
LEMMA EntryRemoved ==
  ASSUME run \in Runs, RemovePathWrite
  PROVE  /\ run.phase = "unappend" /\ UNCHANGED <<platform, apm, commands, users, edits, images, telemetry, stranded, receipt>>
         /\ excused' = (excused \/ (spent /\ run.action = "uninstall"))
         /\ \/ /\ path' = [path EXCEPT ![run.place] = RemoveEntry(run.snap)]
               /\ spent' = (spent \/ (run.action = "uninstall" /\ receipt # None)) /\ orphans' = orphans
               /\ IF platform = "windows" THEN Turn("notify")
                  ELSE /\ run' \in Runs /\ run'.phase = "unpath" /\ run'.rest = run.rest \ {run.place}
                       /\ run'.todo = run.todo /\ Same /\ SameFailed
            \/ Stop /\ orphans' = Orphaned /\ UNCHANGED <<path, spent>>
<1>1. ASSUME run' = [run EXCEPT !.phase = "unpath", !.rest = @ \ {run.place}]
      PROVE  /\ run' \in Runs /\ run'.phase = "unpath" /\ run'.rest = run.rest \ {run.place}
             /\ run'.todo = run.todo /\ Same /\ SameFailed
  BY <1>1 DEF Runs, Phases, PathPhases, Same, Keeps, SameFailed
<1>2. run.phase = "unappend" /\ UNCHANGED <<platform, apm, commands, users, edits, images, telemetry, stranded, receipt>>
  BY DEF RemovePathWrite, At
<1>3. excused' = (excused \/ (spent /\ run.action = "uninstall"))
  BY Zenon DEF RemovePathWrite
<1>4. CASE /\ path' = [path EXCEPT ![run.place] = RemoveEntry(run.snap)]
           /\ spent' = (spent \/ (run.action = "uninstall" /\ receipt # None)) /\ UNCHANGED orphans
           /\ IF platform = "windows" THEN Goto("notify")
              ELSE run' = [run EXCEPT !.phase = "unpath", !.rest = @ \ {run.place}]
  BY <1>1, <1>2, <1>3, <1>4, Gotos
<1>5. CASE End(TRUE) /\ orphans' = Orphaned /\ UNCHANGED <<path, spent>>
  BY <1>2, <1>3, <1>5, Ends
<1> QED BY <1>4, <1>5, Zenon DEF RemovePathWrite

-----------------------------------------------------------------------------
(* The phases of a command *)

\* Every phase hands over to one of the same command, with values of their kinds.
LEMMA RunStep ==
  ASSUME TypeOK, RunInv, [Next]_vars
  PROVE  RunInv'
<1> USE ConstantsAssumption DEF At, In, Installs, Uninstalls, SwapPhases, SetupPhases, PathPhases, LeavePhases,
        Turn, Stop, Same, Keeps, SameFailed, SameTodo, Base, OnlyRun, OnlyImages, OnlyPaths, OnlyTelemetry, SwapFails
<1>0. run \in Runs /\ commands \in Nat /\ (UNCHANGED platform => Places' = Places /\ Runs' = Runs)
  BY PlacesStay DEF RunInv
<1>1. CASE Verify
  BY <1>0, <1>1, Ends, Gotos DEF Verify, RunInv
<1>2. CASE Stage
  BY <1>0, <1>2, Ends, Gotos DEF Stage, RunInv
<1>3. CASE MoveAside
  BY <1>0, <1>3, Ends, Gotos DEF MoveAside, RunInv
<1>4. CASE SwapIn
  BY <1>0, <1>4, Ends, Gotos DEF SwapIn, RunInv
<1>5. CASE MoveBack
  BY <1>0, <1>5, Ends, Gotos DEF MoveBack, RunInv
<1>6. CASE StartHelper
  BY <1>0, <1>6, Ends, Gotos DEF StartHelper, RunInv
<1>7. CASE CopyExecutable
  BY <1>0, <1>7, Ends, Gotos DEF CopyExecutable, RunInv
<1>8. CASE EnsureWrite
  BY <1>0, <1>8, Ends, Gotos DEF EnsureWrite, RunInv
<1>9. CASE Restore
  BY <1>0, <1>9, Ends, Gotos DEF Restore, RunInv
<1>10. CASE Configure
  BY <1>0, <1>10, Ends, Gotos DEF Configure, RunInv
<1>11. CASE HooksInstalled
  BY <1>0, <1>11, Ends, Gotos DEF HooksInstalled, RunInv
<1>12. CASE InstallSkill
  BY <1>0, <1>12, Ends, Gotos DEF InstallSkill, RunInv
<1>13. CASE HooksRemoved
  BY <1>0, <1>13, Ends, Gotos DEF HooksRemoved, RunInv
<1>14. CASE UninstallSkill
  BY <1>0, <1>14, Ends, Gotos DEF UninstallSkill, RunInv
<1>15. CASE PathRemoved
  BY <1>0, <1>15, Ends, Gotos DEF PathRemoved, RunInv
<1>16. CASE RemoveExecutable
  BY <1>0, <1>16, Ends, Gotos DEF RemoveExecutable, RunInv
<1>17. CASE RemoveReceipt
  BY <1>0, <1>17, Ends, Gotos DEF RemoveReceipt, RunInv
<1>18. CASE ResolveLatest
  BY <1>0, <1>18, LatestResolved DEF RunInv
<1>19. CASE EnsureRead
  BY <1>0, <1>19, EntryLookedUp DEF RunInv
<1>20. CASE Notify
  BY <1>0, <1>20, ChangeAnnounced DEF RunInv, Removing
<1>21. CASE WriteReceipt
  <2>1. run.place \in Places
    BY <1>21 DEF WriteReceipt, RunInv
  <2> QED BY <1>0, <1>21, <2>1, ReceiptWritten DEF RunInv
<1>22. CASE MigrateLegacy
  BY <1>0, <1>22, LegacyMigrated DEF RunInv
<1>23. CASE InstallHook
  BY <1>0, <1>23, HookInstalled DEF RunInv
<1>24. CASE RemoveHook
  BY <1>0, <1>24, HookRemoved DEF RunInv
<1>25. CASE Purge
  BY <1>0, <1>25, Purged DEF RunInv
<1>26. CASE ReadReceipt
  BY <1>0, <1>26, ReceiptKnown DEF RunInv, TypeOK
<1>27. CASE RemovePathRead
  <2>1. PICK p \in run.rest :
          \/ run' \in Runs /\ run'.phase = "unpath" /\ Same /\ SameFailed
          \/ run' \in Runs /\ run'.phase = "unappend" /\ run'.place = p /\ Keeps /\ SameFailed
          \/ Stop
    BY <1>0, <1>27, EntryFound
  <2>2. p \in Places /\ run.phase = "unpath" /\ UNCHANGED <<platform, commands>>
    BY <1>0, <1>27, EntryFound DEF Runs
  <2> QED BY <1>0, <2>1, <2>2 DEF RunInv
<1>28. CASE RemovePathWrite
  BY <1>0, <1>28, EntryRemoved DEF RunInv
<1>29. CASE StartInstall
  <2>1. /\ run' \in Runs /\ ~run'.failed /\ run'.action \in {"install", "update"} /\ run'.place \in Places
        /\ run'.phase \in {"copy", "latest", "ensure"} /\ commands < MaxCommands /\ commands' = commands + 1
        /\ platform' = platform
    BY <1>29, InstallStarts
  <2> QED BY <1>0, <2>1 DEF RunInv, Ids, Actions
<1>30. CASE StartUninstall
  BY <1>0, <1>30, UninstallStarts DEF RunInv, Ids, Actions
<1>31. CASE Refuse \/ Crash
  BY <1>0, <1>31, Restarts DEF Refuse, Crash, RunInv, Actions
<1>32. CASE Helper \/ UserEdit \/ UNCHANGED vars
  BY ZenonT(60), <1>0, <1>32 DEF Helper, CleanUp, HelperDies, UserEdit, vars, RunInv
<1> QED
  BY <1>1, <1>2, <1>3, <1>4, <1>5, <1>6, <1>7, <1>8, <1>9, <1>10, <1>11, <1>12, <1>13, <1>14, <1>15, <1>16, <1>17, <1>18, <1>19, <1>20, <1>21, <1>22, <1>23, <1>24, <1>25, <1>26, <1>27, <1>28, <1>29, <1>30, <1>31, <1>32
     DEF Next, Command

-----------------------------------------------------------------------------
(* Types *)

\* What a step leaves alone.
LEMMA Frames ==
  ASSUME [Next]_vars
  PROVE  /\ UNCHANGED platform
         /\ \/ Stage \/ MoveAside \/ SwapIn \/ MoveBack \/ StartHelper \/ CopyExecutable \/ RemoveExecutable \/ Helper
            \/ UNCHANGED images
         /\ \/ EnsureWrite \/ Restore \/ WriteReceipt \/ RemovePathRead \/ RemovePathWrite \/ RemoveReceipt
            \/ Crash \/ UserEdit \/ UNCHANGED paths
         /\ \/ Configure \/ MigrateLegacy \/ InstallHook \/ InstallSkill \/ RemoveHook \/ Purge \/ UninstallSkill
            \/ UNCHANGED telemetry
         /\ RemovePathWrite \/ UserEdit \/ UNCHANGED userVars
         /\ MoveBack \/ Crash \/ UNCHANGED stranded
<1> USE DEF Base, OnlyImages, OnlyPaths, OnlyTelemetry, OnlyRun
<1>1. CASE Stage \/ MoveAside \/ SwapIn \/ MoveBack \/ StartHelper \/ CopyExecutable \/ RemoveExecutable \/ Helper
  BY <1>1 DEF Stage, MoveAside, SwapIn, MoveBack, StartHelper, CopyExecutable, RemoveExecutable, Helper,
              CleanUp, HelperDies
<1>2. CASE EnsureWrite \/ Restore \/ WriteReceipt \/ RemovePathRead \/ RemovePathWrite \/ RemoveReceipt \/ Crash \/ UserEdit
  BY <1>2 DEF EnsureWrite, Restore, WriteReceipt, RemovePathRead, RemovePathWrite, RemoveReceipt, Crash, UserEdit
<1>3. CASE Configure \/ MigrateLegacy \/ InstallHook \/ InstallSkill \/ RemoveHook \/ Purge \/ UninstallSkill
  BY <1>3 DEF Configure, MigrateLegacy, InstallHook, InstallSkill, RemoveHook, Purge, UninstallSkill
<1>4. CASE ResolveLatest \/ Verify \/ EnsureRead \/ Notify \/ HooksInstalled \/ HooksRemoved \/ ReadReceipt \/ PathRemoved
  BY <1>4 DEF ResolveLatest, Verify, EnsureRead, Notify, HooksInstalled, HooksRemoved, ReadReceipt, PathRemoved
<1>5. CASE StartInstall \/ StartUninstall \/ Refuse \/ UNCHANGED vars
  BY <1>5 DEF StartInstall, StartUninstall, Refuse, vars
<1> QED BY <1>1, <1>2, <1>3, <1>4, <1>5 DEF Next, Command

\* The executables are releases.
LEMMA ImagesTyped ==
  ASSUME TypeOK, RunInv, ImageInv, [Next]_vars
  PROVE  /\ exe' \in 0 .. LastRelease /\ staged' \subseteq Ids /\ stale' \in [Ids -> 0 .. LastRelease]
         /\ helper' \in [Ids -> 0 .. Lost]
<1> USE ConstantsAssumption DEF TypeOK
<1>1. 0 \in 0 .. LastRelease /\ LastRelease \in 0 .. LastRelease /\ Attempts \in 0 .. Lost /\ Lost \in 0 .. Lost /\ 0 \in 0 .. Lost
      /\ \A i \in 1 .. Lost : i - 1 \in 0 .. Lost
  BY DEF Lost
<1>2. ~At("done") => commands \in Ids
  BY DEF RunInv
<1>3. /\ At("copy") => run.image \in 0 .. LastRelease
      /\ At("swap") => run.image \in 0 .. LastRelease
  BY <1>1 DEF ImageInv, In, At, Releases
<1> HIDE DEF Lost
<1>4. CASE Stage \/ SwapIn \/ CopyExecutable \/ RemoveExecutable
  <2>1. UNCHANGED <<stale, helper>>
    BY <1>4 DEF Stage, SwapIn, CopyExecutable, RemoveExecutable
  <2>2. exe' \in 0 .. LastRelease
    BY <1>1, <1>3, <1>4 DEF Stage, SwapIn, CopyExecutable, RemoveExecutable
  <2>3. staged' \subseteq Ids
    BY <1>2, <1>4 DEF Stage, SwapIn, CopyExecutable, RemoveExecutable, SwapFails, At
  <2> QED BY <2>1, <2>2, <2>3
<1>5. CASE MoveAside \/ MoveBack \/ StartHelper
  <2>1. staged' \subseteq Ids
    BY <1>5 DEF MoveAside, MoveBack, StartHelper, SwapFails
  <2>2. exe' \in 0 .. LastRelease
    BY <1>1, <1>2, <1>5 DEF MoveAside, MoveBack, StartHelper, At
  <2>3. stale' \in [Ids -> 0 .. LastRelease]
    BY <1>1, <1>2, <1>5 DEF MoveAside, MoveBack, StartHelper, At
  <2>4. helper' \in [Ids -> 0 .. Lost]
    BY <1>1, <1>2, <1>5 DEF MoveAside, MoveBack, StartHelper, At
  <2> QED BY <2>1, <2>2, <2>3, <2>4
<1>6. CASE Helper
  BY <1>1, <1>6 DEF Helper, CleanUp, HelperDies, Running, Lost
<1>7. CASE UNCHANGED images
  BY <1>7 DEF images
<1> QED BY <1>4, <1>5, <1>6, <1>7, Frames

\* A place holds numbers of entries, and so does what is read of it.
LEMMA PathsTyped ==
  ASSUME TypeOK, RunInv, PathInv, [Next]_vars
  PROVE  /\ path' \in [Profiles \cup {Registry} -> [same : Nat, other : Nat]]
         /\ users' \in [Profiles \cup {Registry} -> [same : Nat, other : Nat]]
         /\ receipt' \in Places \cup {None} /\ orphans' \subseteq Places
<1> DEFINE Content == [same : Nat, other : Nat]
           All == Profiles \cup {Registry}
<1>1. /\ path \in [All -> Content] /\ users \in [All -> Content]
      /\ receipt \in Places \cup {None} /\ orphans \subseteq Places
      /\ Places \subseteq All
  BY DEF TypeOK, Places
<1>2. run.snap \in Content
  BY DEF RunInv, Runs
<1>3. At("append") \/ At("receipt") \/ At("notify") \/ At("restore") \/ At("unappend") => run.place \in Places
  BY DEF RunInv, In, At, Installs, SetupPhases, PathPhases
<1> HIDE DEF All
<1>0. Places' = Places
  BY Frames, PlacesStay
<1> SUFFICES /\ path' \in [All -> Content] /\ users' \in [All -> Content]
             /\ receipt' \in Places \cup {None} /\ orphans' \subseteq Places
  BY <1>0 DEF All
<1>4. CASE EnsureWrite
  <2>1. [run.snap EXCEPT !.same = @ + 1] \in Content
    BY <1>2
  <2> HIDE DEF Content
  <2> QED BY <1>1, <1>3, <1>4, <2>1 DEF EnsureWrite, OnlyPaths, Base, userVars
<1>5. CASE Restore
  <2> HIDE DEF Content
  <2>1. path' \in [All -> Content] /\ UNCHANGED <<users, receipt>>
    BY <1>1, <1>2, <1>3, <1>5 DEF Restore, OnlyPaths, Base, userVars
  <2>2. orphans' \subseteq Places
    BY <1>1, <1>3, <1>5 DEF Restore, Orphaned
  <2> QED BY <1>1, <2>1, <2>2
<1>6. CASE WriteReceipt \/ RemoveReceipt
  <2> HIDE DEF Content
  <2>1. UNCHANGED <<path, users>>
    BY <1>6 DEF WriteReceipt, RemoveReceipt, OnlyPaths, Base, userVars
  <2>2. receipt' \in Places \cup {None} /\ orphans' \subseteq Places
    BY <1>1, <1>3, <1>6 DEF WriteReceipt, RemoveReceipt
  <2> QED BY <1>1, <2>1, <2>2
<1>7. CASE RemovePathRead \/ Crash
  <2> HIDE DEF Content
  <2>1. UNCHANGED <<path, users, receipt>>
    BY <1>7 DEF RemovePathRead, Crash, OnlyPaths, Base, userVars
  <2>2. orphans' \subseteq orphans \cup {run.place}
    BY <1>7 DEF RemovePathRead, Crash, Orphaned
  <2>3. run.action # "uninstall" /\ run.phase \in {"notify", "restore", "receipt", "unpath", "unappend"} => run.place \in Places
    BY DEF RunInv, In, Installs, Uninstalls, SetupPhases, PathPhases
  <2>4. orphans' \subseteq Places
    BY <1>1, <1>7, <2>3 DEF RemovePathRead, Crash, Orphaned, At
  <2> QED BY <1>1, <2>1, <2>4
<1>8. CASE RemovePathWrite
  <2>1. run.snap.same > 0
    BY <1>8 DEF PathInv, LeaveInv, RemovePathWrite
  <2>2. RemoveEntry(run.snap) \in Content
    BY <1>2, <2>1 DEF RemoveEntry
  <2> HIDE DEF Content
  <2>3. path' \in [All -> Content] /\ UNCHANGED <<users, receipt>>
    BY <1>1, <1>8, <2>2 DEF RemovePathWrite
  <2>4. orphans' \subseteq Places
    BY <1>1, <1>3, <1>8 DEF RemovePathWrite, Orphaned
  <2> QED BY <1>1, <2>3, <2>4
<1>9. CASE UserEdit
  <2>1. PICK p \in Places, kind \in {"same", "other"} :
          path' = [path EXCEPT ![p][kind] = @ + 1] /\ users' = [users EXCEPT ![p][kind] = @ + 1]
    BY <1>9 DEF UserEdit
  <2>2. \A c \in Content : [c EXCEPT ![kind] = @ + 1] \in Content
    <3>1. CASE kind = "same"
      BY <3>1
    <3>2. CASE kind = "other"
      BY <3>2
    <3> QED BY <3>1, <3>2
  <2> HIDE DEF Content
  <2>3. path' \in [All -> Content] /\ users' \in [All -> Content]
    BY <1>1, <2>1, <2>2
  <2> QED BY <1>1, <1>9, <2>3 DEF UserEdit
<1>10. CASE UNCHANGED <<paths, userVars>>
  BY <1>1, <1>10 DEF paths, userVars
<1> QED BY <1>4, <1>5, <1>6, <1>7, <1>8, <1>9, <1>10, Frames

\* Harnesses and flags.
LEMMA TelemetryTyped ==
  ASSUME TypeOK, RunInv, [Next]_vars
  PROVE  /\ hooks' \subseteq Targets
         /\ configured' \in BOOLEAN /\ cache' \in BOOLEAN /\ legacy' \in BOOLEAN /\ skill' \in BOOLEAN
<1>1. hooks \subseteq Targets /\ run \in Runs
  BY DEF TypeOK, RunInv
<1>2. configured \in BOOLEAN /\ cache \in BOOLEAN /\ legacy \in BOOLEAN /\ skill \in BOOLEAN
  BY DEF TypeOK
<1>3. CASE Configure
  BY <1>1, <1>2, <1>3 DEF Configure
<1>4. CASE MigrateLegacy
  BY <1>1, <1>2, <1>4 DEF MigrateLegacy
<1>5. CASE InstallHook \/ RemoveHook
  <2>1. UNCHANGED <<configured, cache, legacy, skill>>
    BY <1>5 DEF InstallHook, RemoveHook
  <2>2. run.todo \subseteq Targets
    BY DEF TypeOK
  <2>3. hooks' \subseteq hooks \cup run.todo
    BY <1>1, <1>5, HookInstalled, HookRemoved
  <2> QED BY <1>1, <1>2, <2>1, <2>2, <2>3
<1>6. CASE InstallSkill \/ UninstallSkill
  <2>1. UNCHANGED <<configured, cache, legacy, hooks>>
    BY <1>6 DEF InstallSkill, UninstallSkill
  <2>2. (skill \/ apm) \in BOOLEAN /\ (skill /\ ~apm) \in BOOLEAN
    OBVIOUS
  <2>3. skill' \in BOOLEAN
    BY <1>2, <1>6, <2>2, Zenon DEF InstallSkill, UninstallSkill
  <2> QED BY <1>1, <1>2, <2>1, <2>3
<1>7. CASE Purge
  BY <1>1, <1>2, <1>7 DEF Purge
<1>8. CASE UNCHANGED telemetry
  BY <1>1, <1>2, <1>8 DEF telemetry
<1> QED BY <1>3, <1>4, <1>5, <1>6, <1>7, <1>8, Frames

LEMMA GhostsTyped ==
  ASSUME TypeOK, RunInv, [Next]_vars
  PROVE  spent' \in BOOLEAN /\ excused' \in BOOLEAN /\ stranded' \in BOOLEAN
<1>1. spent \in BOOLEAN /\ excused \in BOOLEAN /\ stranded \in BOOLEAN
  BY DEF TypeOK
<1>2. spent' \in BOOLEAN
  <2>1. CASE Restore
    <3>1. (spent /\ run.action # "uninstall") \in BOOLEAN
      OBVIOUS
    <3> QED BY <1>1, <2>1, <3>1, Zenon DEF Restore
  <2>2. CASE RemovePathWrite
    <3>1. (spent \/ (run.action = "uninstall" /\ receipt # None)) \in BOOLEAN
      OBVIOUS
    <3> QED BY <1>1, <2>2, <3>1, Zenon DEF RemovePathWrite
  <2>3. CASE ~(Restore \/ RemovePathWrite)
    BY <1>1, <2>3, Frames DEF EnsureWrite, WriteReceipt, RemovePathRead, RemoveReceipt, Crash, UserEdit, paths
  <2> QED BY <2>1, <2>2, <2>3
<1>3. excused' \in BOOLEAN
  <2>1. CASE RemovePathWrite
    <3>1. (excused \/ (spent /\ run.action = "uninstall")) \in BOOLEAN
      OBVIOUS
    <3> QED BY <2>1, <3>1, Zenon DEF RemovePathWrite
  <2>2. CASE UserEdit
    <3>1. PICK p \in Places :
            excused' = \/ excused
                       \/ run.phase \in {"append", "notify", "restore", "unappend"} /\ run.place = p
      BY <2>2, Zenon DEF UserEdit
    <3>2. (\/ excused
           \/ run.phase \in {"append", "notify", "restore", "unappend"} /\ run.place = p) \in BOOLEAN
      OBVIOUS
    <3> QED BY <3>1, <3>2, Zenon
  <2>3. CASE UNCHANGED userVars
    BY <1>1, <2>3 DEF userVars
  <2> QED BY <2>1, <2>2, <2>3, Frames
<1>4. stranded' \in BOOLEAN
  <2>1. CASE MoveBack
    BY <1>1, <2>1 DEF MoveBack
  <2>2. CASE Crash
    <3>1. (stranded \/ run.phase \in {"swap", "back"}) \in BOOLEAN
      OBVIOUS
    <3> QED BY <2>2, <3>1, Zenon DEF Crash
  <2> QED BY <1>1, <2>1, <2>2, Frames
<1> QED BY <1>2, <1>3, <1>4

\* Every variable keeps its kind.
LEMMA TypeStep ==
  ASSUME TypeOK, RunInv, ImageInv, PathInv, [Next]_vars
  PROVE  TypeOK'
<1>1. platform' \in Platforms /\ platform' = platform /\ Places' = Places
  BY Frames, PlacesStay DEF TypeOK
<1>2. run'.todo \subseteq Targets /\ run'.rest \subseteq Places'
  BY RunStep DEF RunInv, Runs
<1>3. {configured', cache', legacy', skill', spent', excused', stranded'} \subseteq BOOLEAN /\ hooks' \subseteq Targets
  BY TelemetryTyped, GhostsTyped
<1>4. DOMAIN path' = Profiles \cup {Registry}
  BY PathsTyped
<1> QED BY <1>1, <1>2, <1>3, <1>4, ImagesTyped, PathsTyped DEF TypeOK

-----------------------------------------------------------------------------
(* The executable *)

\* Only a swap takes the executable from its place while hooks call it, and what comes there is a release.
LEMMA ImageStep ==
  ASSUME TypeOK, RunInv, ImageInv, HookInv, [Next]_vars
  PROVE  ImageInv'
<1> USE ConstantsAssumption DEF At, In, Installs, Uninstalls, Succeeded, SwapPhases, SetupPhases, PathPhases, LeavePhases,
        Turn, Stop, Same, Keeps, SameFailed, SameTodo, Base, OnlyRun, OnlyImages, OnlyPaths, OnlyTelemetry, SwapFails,
        Releases, Upgraded, HooksCallable, images, telemetry
<1>0. /\ run \in Runs /\ exe \in 0 .. LastRelease /\ receipt \in Places \cup {None}
      /\ LastRelease \in Nat \ {0}
  BY DEF RunInv, TypeOK
<1>1. CASE StartInstall
  BY <1>0, <1>1, InstallStarts DEF ImageInv, RunInv
<1>2. CASE StartUninstall
  BY <1>0, <1>2, UninstallStarts DEF ImageInv, RunInv
<1>3. CASE ResolveLatest
  BY <1>0, <1>3, LatestResolved DEF ImageInv, RunInv
<1>4. CASE Verify
  <2>1. UNCHANGED <<exe, stale, hooks, stranded, commands>> /\ run.phase = "verify"
    BY <1>4 DEF Verify
  <2>2. Stop \/ (run.image = LastRelease /\ (Turn("stage") \/ Turn("copy")))
    BY <1>0, <1>4, Ends, Gotos DEF Verify, ChecksumMatches
  <2> QED BY <1>0, <2>1, <2>2 DEF ImageInv
<1>5. CASE Stage
  BY <1>0, <1>5, Ends, Gotos DEF Stage, ImageInv, RunInv
<1>6. CASE MoveAside
  <2>1. CASE Goto("swap")
    <3>1. exe' = 0 /\ stale'[commands] = exe /\ exe # 0 /\ UNCHANGED <<hooks, stranded, commands>> /\ Turn("swap")
      BY <1>0, <1>6, <2>1, Ends, Gotos DEF MoveAside, TypeOK, RunInv
    <3>2. run.image = LastRelease
      BY <1>6 DEF MoveAside, ImageInv
    <3> QED BY <1>0, <3>1, <3>2 DEF ImageInv
  <2>2. CASE ~Goto("swap")
    BY <1>0, <1>6, <2>2, Ends DEF MoveAside, ImageInv
  <2> QED BY <2>1, <2>2
<1>7. CASE SwapIn
  BY <1>0, <1>7, Ends, Gotos DEF SwapIn, ImageInv, RunInv
<1>8. CASE MoveBack
  BY <1>0, <1>8, Ends, Gotos DEF MoveBack, ImageInv, RunInv
<1>9. CASE StartHelper
  BY <1>0, <1>9, Ends, Gotos DEF StartHelper, ImageInv, RunInv
<1>10. CASE CopyExecutable
  BY <1>0, <1>10, Ends, Gotos DEF CopyExecutable, ImageInv, RunInv
<1>11. CASE EnsureRead
  BY <1>0, <1>11, EntryLookedUp DEF ImageInv, RunInv
<1>12. CASE EnsureWrite
  BY <1>0, <1>12, Ends, Gotos DEF EnsureWrite, ImageInv, RunInv
<1>13. CASE Notify
  BY <1>0, <1>13, ChangeAnnounced DEF ImageInv, RunInv, Removing
<1>14. CASE Restore
  BY <1>0, <1>14, Ends, Gotos DEF Restore, ImageInv, RunInv
<1>15. CASE WriteReceipt
  <2>1. run.place \in Places
    BY <1>15 DEF WriteReceipt, RunInv
  <2> QED BY <1>0, <1>15, <2>1, ReceiptWritten DEF ImageInv, RunInv
<1>16. CASE Configure
  BY <1>0, <1>16, Ends, Gotos DEF Configure, ImageInv, RunInv
<1>17. CASE MigrateLegacy
  BY <1>0, <1>17, LegacyMigrated DEF ImageInv, RunInv
<1>18. CASE InstallHook
  BY <1>0, <1>18, HookInstalled DEF ImageInv, RunInv
<1>19. CASE HooksInstalled
  BY <1>0, <1>19, Ends, Gotos DEF HooksInstalled, ImageInv, RunInv
<1>20. CASE InstallSkill
  BY <1>0, <1>20, Ends, Gotos DEF InstallSkill, ImageInv, RunInv
<1>21. CASE RemoveHook
  BY <1>0, <1>21, HookRemoved DEF ImageInv, RunInv
<1>22. CASE HooksRemoved
  BY <1>0, <1>22, Ends, Gotos DEF HooksRemoved, ImageInv, RunInv
<1>23. CASE Purge
  BY <1>0, <1>23, Purged DEF ImageInv, RunInv
<1>24. CASE UninstallSkill
  BY <1>0, <1>24, Ends, Gotos DEF UninstallSkill, ImageInv, RunInv
<1>25. CASE ReadReceipt
  BY <1>0, <1>25, ReceiptKnown DEF ImageInv, RunInv
<1>26. CASE RemovePathRead
  BY <1>0, <1>26, EntryFound DEF ImageInv, RunInv
<1>27. CASE RemovePathWrite
  BY <1>0, <1>27, EntryRemoved DEF ImageInv, RunInv
<1>28. CASE PathRemoved
  BY <1>0, <1>28, Ends, Gotos DEF PathRemoved, ImageInv, RunInv
<1>29. CASE RemoveExecutable
  BY <1>0, <1>29, Ends, Gotos DEF RemoveExecutable, ImageInv, RunInv, HookInv
<1>30. CASE RemoveReceipt
  BY <1>0, <1>30, Ends, Gotos DEF RemoveReceipt, ImageInv, RunInv, HookInv
<1>31. CASE Refuse \/ Crash
  BY <1>0, <1>31, Restarts DEF Refuse, Crash, ImageInv, RunInv
<1>32. CASE Helper
  <2>1. PICK i \in Ids : CleanUp(i) \/ HelperDies(i)
    BY <1>32 DEF Helper
  <2>2. UNCHANGED <<exe, hooks, run, stranded, commands>>
    BY <2>1 DEF CleanUp, HelperDies
  <2>3. run.phase # "done" => stale'[commands] = stale[commands]
    BY <2>1 DEF CleanUp, HelperDies, TypeOK, RunInv
  <2> QED BY <2>2, <2>3 DEF ImageInv
<1>33. CASE UserEdit \/ UNCHANGED vars
  <2>1. UNCHANGED <<exe, stale, hooks, run, stranded, commands>>
    BY <1>33 DEF UserEdit, vars
  <2> QED BY <2>1 DEF ImageInv
<1> QED
  BY <1>1, <1>2, <1>3, <1>4, <1>5, <1>6, <1>7, <1>8, <1>9, <1>10, <1>11, <1>12, <1>13, <1>14, <1>15, <1>16, <1>17, <1>18, <1>19, <1>20, <1>21, <1>22, <1>23, <1>24, <1>25, <1>26, <1>27, <1>28, <1>29, <1>30, <1>31, <1>32, <1>33
     DEF Next, Command

-----------------------------------------------------------------------------
(* The hooks *)

\* A hook comes after the configuration and goes before it.
LEMMA HookStep ==
  ASSUME TypeOK, RunInv, HookInv, [Next]_vars
  PROVE  HookInv'
<1> USE DEF At, In, Installs, Uninstalls, Succeeded, SwapPhases, SetupPhases, PathPhases, LeavePhases,
        Turn, Stop, Same, Keeps, SameFailed, SameTodo, Base, OnlyRun, OnlyImages, OnlyPaths, OnlyTelemetry, SwapFails,
        HooksReady, telemetry
<1>0. run \in Runs /\ receipt \in Places \cup {None} /\ hooks \subseteq Targets
  BY DEF RunInv, TypeOK
<1>1. CASE StartInstall
  BY <1>0, <1>1, InstallStarts DEF HookInv, RunInv
<1>2. CASE StartUninstall
  BY <1>0, <1>2, UninstallStarts DEF HookInv, RunInv
<1>3. CASE ResolveLatest
  BY <1>0, <1>3, LatestResolved DEF HookInv, RunInv
<1>4. CASE Verify
  BY <1>0, <1>4, Ends, Gotos DEF Verify, HookInv, RunInv
<1>5. CASE Stage
  BY <1>0, <1>5, Ends, Gotos DEF Stage, HookInv, RunInv
<1>6. CASE MoveAside
  BY <1>0, <1>6, Ends, Gotos DEF MoveAside, HookInv, RunInv
<1>7. CASE SwapIn
  BY <1>0, <1>7, Ends, Gotos DEF SwapIn, HookInv, RunInv
<1>8. CASE MoveBack
  BY <1>0, <1>8, Ends, Gotos DEF MoveBack, HookInv, RunInv
<1>9. CASE StartHelper
  BY <1>0, <1>9, Ends, Gotos DEF StartHelper, HookInv, RunInv
<1>10. CASE CopyExecutable
  BY <1>0, <1>10, Ends, Gotos DEF CopyExecutable, HookInv, RunInv
<1>11. CASE EnsureRead
  BY <1>0, <1>11, EntryLookedUp DEF HookInv, RunInv
<1>12. CASE EnsureWrite
  BY <1>0, <1>12, Ends, Gotos DEF EnsureWrite, HookInv, RunInv
<1>13. CASE Notify
  BY <1>0, <1>13, ChangeAnnounced DEF HookInv, RunInv, Removing
<1>14. CASE Restore
  BY <1>0, <1>14, Ends, Gotos DEF Restore, HookInv, RunInv
<1>15. CASE WriteReceipt
  <2>1. run.place \in Places
    BY <1>15 DEF WriteReceipt, RunInv
  <2>2. run.phase = "receipt" /\ UNCHANGED <<hooks, configured, cache, legacy>>
    BY <1>15 DEF WriteReceipt
  <2>3. Turn("configure") \/ (run'.phase = "unpath" /\ run'.failed /\ Keeps)
    BY <1>0, <1>15, <2>1, ReceiptWritten
  <2> QED BY <2>2, <2>3 DEF HookInv, RunInv
<1>16. CASE Configure
  BY <1>0, <1>16, Ends, Gotos DEF Configure, HookInv, RunInv
<1>17. CASE MigrateLegacy
  <2>1. CASE Stop
    BY <1>0, <1>17, <2>1, LegacyMigrated DEF HookInv, RunInv
  <2>2. CASE ~Stop
    <3>1. /\ run.phase = "migrate" /\ UNCHANGED <<hooks, configured, cache>> /\ legacy' = FALSE
          /\ run'.phase = "hooks" /\ run'.todo = run.targets /\ Same
      BY <1>0, <1>17, <2>2, LegacyMigrated
    <3> QED BY <3>1 DEF HookInv, RunInv
  <2> QED BY <2>1, <2>2
<1>18. CASE InstallHook
  BY <1>0, <1>18, HookInstalled DEF HookInv, RunInv
<1>19. CASE HooksInstalled
  BY <1>0, <1>19, Ends, Gotos DEF HooksInstalled, HookInv, RunInv
<1>20. CASE InstallSkill
  BY <1>0, <1>20, Ends, Gotos DEF InstallSkill, HookInv, RunInv
<1>21. CASE RemoveHook
  BY <1>0, <1>21, HookRemoved DEF HookInv, RunInv
<1>22. CASE HooksRemoved
  BY <1>0, <1>22, Ends, Gotos DEF HooksRemoved, HookInv, RunInv
<1>23. CASE Purge
  BY <1>0, <1>23, Purged DEF HookInv, RunInv
<1>24. CASE UninstallSkill
  BY <1>0, <1>24, Ends, Gotos DEF UninstallSkill, HookInv, RunInv
<1>25. CASE ReadReceipt
  BY <1>0, <1>25, ReceiptKnown DEF HookInv, RunInv
<1>26. CASE RemovePathRead
  BY <1>0, <1>26, EntryFound DEF HookInv, RunInv
<1>27. CASE RemovePathWrite
  BY <1>0, <1>27, EntryRemoved DEF HookInv, RunInv
<1>28. CASE PathRemoved
  BY <1>0, <1>28, Ends, Gotos DEF PathRemoved, HookInv, RunInv
<1>29. CASE RemoveExecutable
  BY <1>0, <1>29, Ends, Gotos DEF RemoveExecutable, HookInv, RunInv
<1>30. CASE RemoveReceipt
  BY <1>0, <1>30, Ends, Gotos DEF RemoveReceipt, HookInv, RunInv
<1>31. CASE Refuse \/ Crash
  BY <1>0, <1>31, Restarts DEF Refuse, Crash, HookInv, RunInv
<1>32. CASE Helper \/ UserEdit \/ UNCHANGED vars
  <2>1. UNCHANGED <<hooks, configured, cache, legacy, run>>
    BY <1>32 DEF Helper, CleanUp, HelperDies, UserEdit, vars
  <2> QED BY <2>1 DEF HookInv
<1> QED
  BY <1>1, <1>2, <1>3, <1>4, <1>5, <1>6, <1>7, <1>8, <1>9, <1>10, <1>11, <1>12, <1>13, <1>14, <1>15, <1>16, <1>17, <1>18, <1>19, <1>20, <1>21, <1>22, <1>23, <1>24, <1>25, <1>26, <1>27, <1>28, <1>29, <1>30, <1>31, <1>32
     DEF Next, Command

-----------------------------------------------------------------------------
(* The entries on PATH *)

\* A user adds one entry to one place, and nothing else changes.
LEMMA EditAdds ==
  ASSUME TypeOK, UserEdit
  PROVE  /\ UNCHANGED <<platform, receipt, orphans, spent, run>>
         /\ \E p \in Places, d \in {0, 1}, e \in {0, 1} :
              /\ platform = "posix" => d = 0
              /\ ~excused' => ~excused /\ ~(run.phase \in {"append", "notify", "restore", "unappend"} /\ run.place = p)
              /\ path'[p].same = path[p].same + d /\ path'[p].other = path[p].other + e
              /\ users'[p].same = users[p].same + d /\ users'[p].other = users[p].other + e
              /\ \A q \in Places \ {p} : path'[q] = path[q] /\ users'[q] = users[q]
<1> DEFINE Content == [same : Nat, other : Nat]
<1>1. PICK p \in Places, kind \in {"same", "other"} :
        /\ kind = (IF platform = "windows" THEN "same" ELSE "other")
        /\ path' = [path EXCEPT ![p][kind] = @ + 1] /\ users' = [users EXCEPT ![p][kind] = @ + 1]
        /\ excused' = \/ excused
                      \/ run.phase \in {"append", "notify", "restore", "unappend"} /\ run.place = p
  BY Zenon DEF UserEdit
<1>2. ~excused' => ~excused /\ ~(run.phase \in {"append", "notify", "restore", "unappend"} /\ run.place = p)
  BY <1>1, Zenon
<1>3. /\ path \in [Profiles \cup {Registry} -> Content] /\ users \in [Profiles \cup {Registry} -> Content]
      /\ p \in Profiles \cup {Registry}
  BY <1>1 DEF TypeOK, Places
<1>4. \A q \in Places \ {p} : path'[q] = path[q] /\ users'[q] = users[q]
  BY <1>1, <1>3 DEF Places
<1>5. CASE platform = "windows"
  <2>1. path' = [path EXCEPT ![p].same = @ + 1] /\ users' = [users EXCEPT ![p].same = @ + 1]
    BY <1>1, <1>5
  <2>2. /\ path'[p].same = path[p].same + 1 /\ path'[p].other = path[p].other + 0
        /\ users'[p].same = users[p].same + 1 /\ users'[p].other = users[p].other + 0
    BY <1>3, <2>1
  <2> QED BY <1>2, <1>4, <1>5, <2>2 DEF UserEdit
<1>6. CASE platform # "windows"
  <2>1. path' = [path EXCEPT ![p].other = @ + 1] /\ users' = [users EXCEPT ![p].other = @ + 1]
    BY <1>1, <1>6
  <2>2. /\ path'[p].same = path[p].same + 0 /\ path'[p].other = path[p].other + 1
        /\ users'[p].same = users[p].same + 0 /\ users'[p].other = users[p].other + 1
    BY <1>3, <2>1
  <2> QED BY <1>2, <1>4, <2>2 DEF UserEdit
<1> QED BY <1>5, <1>6

\* The places a command still has to look at.
LEMMA LeaveStep ==
  ASSUME TypeOK, RunInv, LeaveInv, [Next]_vars
  PROVE  LeaveInv'
<1> USE DEF At, In, Installs, Uninstalls, Succeeded, SwapPhases, SetupPhases, PathPhases, LeavePhases, Removing,
        Turn, Stop, Same, Keeps, SameFailed, SameTodo, Base, OnlyRun, OnlyImages, OnlyPaths, OnlyTelemetry, SwapFails,
        paths, Owned
<1>0. run \in Runs /\ receipt \in Places \cup {None}
  BY DEF RunInv, TypeOK
<1>1. CASE StartInstall
  BY <1>0, <1>1, InstallStarts DEF LeaveInv, RunInv
<1>2. CASE StartUninstall
  BY <1>0, <1>2, UninstallStarts DEF LeaveInv, RunInv
<1>3. CASE ResolveLatest
  BY <1>0, <1>3, LatestResolved DEF LeaveInv, RunInv
<1>4. CASE Verify
  BY <1>0, <1>4, Ends, Gotos DEF Verify, LeaveInv, RunInv
<1>5. CASE Stage
  BY <1>0, <1>5, Ends, Gotos DEF Stage, LeaveInv, RunInv
<1>6. CASE MoveAside
  BY <1>0, <1>6, Ends, Gotos DEF MoveAside, LeaveInv, RunInv
<1>7. CASE SwapIn
  BY <1>0, <1>7, Ends, Gotos DEF SwapIn, LeaveInv, RunInv
<1>8. CASE MoveBack
  BY <1>0, <1>8, Ends, Gotos DEF MoveBack, LeaveInv, RunInv
<1>9. CASE StartHelper
  BY <1>0, <1>9, Ends, Gotos DEF StartHelper, LeaveInv, RunInv
<1>10. CASE CopyExecutable
  BY <1>0, <1>10, Ends, Gotos DEF CopyExecutable, LeaveInv, RunInv
<1>11. CASE EnsureRead
  BY <1>0, <1>11, EntryLookedUp DEF LeaveInv, RunInv
<1>12. CASE EnsureWrite
  <2>1. CASE End(TRUE)
    BY <1>0, <1>12, <2>1, Ends DEF EnsureWrite, LeaveInv, RunInv
  <2>2. CASE ~End(TRUE)
    <3>1. (Turn("notify") \/ Turn("receipt")) /\ UNCHANGED <<platform, receipt>> /\ run.phase = "append"
      BY <1>0, <1>12, <2>2, Gotos DEF EnsureWrite
    <3>2. path' = [path EXCEPT ![run.place] = [run.snap EXCEPT !.same = @ + 1]]
      BY <1>12, <2>2 DEF EnsureWrite
    <3>3. path'[run.place].same > 0
      BY <1>0, <3>1, <3>2 DEF TypeOK, RunInv, Runs, Places
    <3> QED BY <3>1, <3>3 DEF LeaveInv, RunInv
  <2> QED BY <2>1, <2>2
<1>13. CASE Notify
  BY <1>0, <1>13, ChangeAnnounced DEF LeaveInv, RunInv
<1>14. CASE Restore
  BY <1>0, <1>14, Ends, Gotos DEF Restore, LeaveInv, RunInv
<1>15. CASE WriteReceipt
  <2>1. run.place \in Places
    BY <1>15 DEF WriteReceipt, RunInv
  <2> QED BY <1>0, <1>15, <2>1, ReceiptWritten DEF LeaveInv, RunInv
<1>16. CASE Configure
  BY <1>0, <1>16, Ends, Gotos DEF Configure, LeaveInv, RunInv
<1>17. CASE MigrateLegacy
  BY <1>0, <1>17, LegacyMigrated DEF LeaveInv, RunInv
<1>18. CASE InstallHook
  BY <1>0, <1>18, HookInstalled DEF LeaveInv, RunInv
<1>19. CASE HooksInstalled
  BY <1>0, <1>19, Ends, Gotos DEF HooksInstalled, LeaveInv, RunInv
<1>20. CASE InstallSkill
  BY <1>0, <1>20, Ends, Gotos DEF InstallSkill, LeaveInv, RunInv
<1>21. CASE RemoveHook
  BY <1>0, <1>21, HookRemoved DEF LeaveInv, RunInv
<1>22. CASE HooksRemoved
  BY <1>0, <1>22, Ends, Gotos DEF HooksRemoved, LeaveInv, RunInv
<1>23. CASE Purge
  BY <1>0, <1>23, Purged DEF LeaveInv, RunInv
<1>24. CASE UninstallSkill
  BY <1>0, <1>24, Ends, Gotos DEF UninstallSkill, LeaveInv, RunInv
<1>25. CASE ReadReceipt
  BY <1>0, <1>25, ReceiptKnown DEF LeaveInv, RunInv
<1>26. CASE RemovePathRead
  <2>1. UNCHANGED <<platform, path, receipt>> /\ run.phase = "unpath"
    BY <1>26 DEF RemovePathRead
  <2>2. PICK p \in run.rest :
          \/ run'.phase = "unpath" /\ run'.rest = run.rest \ {p} /\ Same /\ SameFailed
          \/ path[p].same # 0 /\ run'.phase = "unappend" /\ run'.place = p /\ run'.snap = path[p]
             /\ run'.seen = run.seen /\ Keeps /\ SameFailed /\ SameTodo
          \/ Stop
    BY <1>0, <1>26, EntryFound
  <2>3. path[p].same \in Nat
    BY <1>0 DEF TypeOK, Places
  <2> QED BY <2>1, <2>2, <2>3 DEF LeaveInv, RunInv
<1>27. CASE RemovePathWrite
  BY <1>0, <1>27, EntryRemoved DEF LeaveInv, RunInv
<1>28. CASE PathRemoved
  BY <1>0, <1>28, Ends, Gotos DEF PathRemoved, LeaveInv, RunInv
<1>29. CASE RemoveExecutable
  BY <1>0, <1>29, Ends, Gotos DEF RemoveExecutable, LeaveInv, RunInv
<1>30. CASE RemoveReceipt
  BY <1>0, <1>30, Ends, Gotos DEF RemoveReceipt, LeaveInv, RunInv
<1>31. CASE Refuse \/ Crash
  BY <1>0, <1>31, Restarts DEF Refuse, Crash, LeaveInv, RunInv
<1>32. CASE UserEdit
  <2>1. UNCHANGED <<platform, receipt, run>>
    BY <1>32, EditAdds
  <2>2. \A p \in Places : path[p].same > 0 => path'[p].same > 0
    <3>1. \A p \in Places : path[p].same \in Nat
      BY DEF TypeOK, Places
    <3> QED BY <1>32, <3>1, EditAdds
  <2>3. Installs => run.place \in Places
    BY DEF RunInv
  <2> QED BY <2>1, <2>2, <2>3 DEF LeaveInv, RunInv
<1>33. CASE Helper \/ UNCHANGED vars
  <2>1. UNCHANGED <<platform, path, receipt, run>>
    BY <1>33 DEF Helper, CleanUp, HelperDies, vars
  <2> QED BY <2>1 DEF LeaveInv
<1> QED
  BY <1>1, <1>2, <1>3, <1>4, <1>5, <1>6, <1>7, <1>8, <1>9, <1>10, <1>11, <1>12, <1>13, <1>14, <1>15, <1>16, <1>17, <1>18, <1>19, <1>20, <1>21, <1>22, <1>23, <1>24, <1>25, <1>26, <1>27, <1>28, <1>29, <1>30, <1>31, <1>32, <1>33
     DEF Next, Command

Accounted == EntryInv /\ SnapInv /\ AccountInv /\ CleanInv

\* Entries are numbers.
LEMMA EntriesCounted ==
  ASSUME TypeOK
  PROVE  /\ \A p \in Places : path[p] \in [same : Nat, other : Nat] /\ users[p] \in [same : Nat, other : Nat]
         /\ \A p \in Places : /\ path[p].same \in Nat /\ users[p].same \in Nat
                              /\ path[p].other \in Nat /\ users[p].other \in Nat
                              /\ ~(Exact(p) /\ Extra(p))
BY DEF TypeOK, Places, Exact, Extra

\* A step that neither changes a place nor stands between two that do.
LEMMA QuietStep ==
  ASSUME Accounted, UNCHANGED <<platform, path, users, receipt, orphans, spent>>,
         ~In({"receipt"} \cup PathPhases), ~In({"append", "receipt"} \cup PathPhases)',
         Leaving' => Leaving /\ run'.rest = run.rest /\ run'.seen = run.seen
  PROVE  Accounted'
<1>1. \A p : (Exact(p)' <=> Exact(p)) /\ (Extra(p)' <=> Extra(p))
  BY DEF Exact, Extra
<1>2. Places' = Places
  BY PlacesStay
<1> HIDE DEF Exact, Extra
<1>3. EntryInv'
  BY <1>1, <1>2 DEF Accounted, EntryInv
<1>4. SnapInv'
  BY DEF SnapInv, In, At, PathPhases
<1>5. AccountInv'
  BY <1>1, <1>2 DEF Accounted, AccountInv, In, At, PathPhases
<1>6. CleanInv'
  BY <1>1, <1>2 DEF Accounted, CleanInv, Cleaned
<1> QED BY <1>3, <1>4, <1>5, <1>6 DEF Accounted

\* The steps that have nothing to do with PATH.
LEMMA ElsewhereStep ==
  ASSUME TypeOK, RunInv, Accounted,
         \/ StartInstall \/ StartUninstall \/ Refuse \/ ResolveLatest \/ Verify \/ Stage \/ MoveAside \/ SwapIn
         \/ MoveBack \/ StartHelper \/ CopyExecutable \/ Configure \/ MigrateLegacy \/ InstallHook \/ HooksInstalled
         \/ InstallSkill \/ RemoveHook \/ HooksRemoved \/ Purge \/ UninstallSkill \/ RemoveExecutable
  PROVE  Accounted'
<1> USE DEF At, In, Installs, Uninstalls, Succeeded, Leaving, SwapPhases, SetupPhases, PathPhases, LeavePhases,
        Turn, Stop, Same, Keeps, SameFailed, SameTodo
<1>0. run \in Runs
  BY DEF RunInv
<1>1. UNCHANGED <<platform, path, users, receipt, orphans, spent>>
  BY DEF StartInstall, StartUninstall, Refuse, ResolveLatest, Verify, Stage, MoveAside, SwapIn, MoveBack, StartHelper,
         CopyExecutable, Configure, MigrateLegacy, InstallHook, HooksInstalled, InstallSkill, RemoveHook, HooksRemoved,
         Purge, UninstallSkill, RemoveExecutable, Base, OnlyRun, OnlyImages, OnlyTelemetry, paths, userVars
<1>2. ~In({"receipt"} \cup PathPhases)
  BY ZenonT(60) DEF StartInstall, StartUninstall, Refuse, ResolveLatest, Verify, Stage, MoveAside, SwapIn, MoveBack, StartHelper,
         CopyExecutable, Configure, MigrateLegacy, InstallHook, HooksInstalled, InstallSkill, RemoveHook, HooksRemoved,
         Purge, UninstallSkill, RemoveExecutable
<1>3. /\ ~In({"append", "receipt"} \cup PathPhases)'
      /\ Leaving' => Leaving /\ run'.rest = run.rest /\ run'.seen = run.seen
  <2>1. CASE StartInstall \/ StartUninstall \/ Refuse
    BY <2>1, InstallStarts, UninstallStarts, Restarts DEF Refuse
  <2>2. CASE ResolveLatest
    BY <1>0, <2>2, LatestResolved DEF RunInv
  <2>3. CASE MigrateLegacy
    BY <1>0, <2>3, LegacyMigrated DEF RunInv
  <2>4. CASE InstallHook \/ RemoveHook
    BY <1>0, <2>4, HookInstalled, HookRemoved DEF RunInv
  <2>5. CASE Purge
    BY <1>0, <2>5, Purged DEF RunInv
  <2>6. CASE Verify \/ Stage \/ MoveAside \/ SwapIn \/ MoveBack \/ StartHelper \/ CopyExecutable \/ Configure
             \/ HooksInstalled \/ InstallSkill
    <3>1. Installs
      BY <2>6 DEF RunInv, Verify, Stage, MoveAside, SwapIn, MoveBack, StartHelper, CopyExecutable, Configure,
                  HooksInstalled, InstallSkill
    <3>2. Stop \/ \E s \in {"stage", "copy", "aside", "swap", "back", "helper", "ensure", "migrate", "skill", "done"} : Turn(s)
      BY <1>0, <2>6, Ends, Gotos DEF Verify, Stage, MoveAside, SwapIn, MoveBack, StartHelper, CopyExecutable,
                  Configure, HooksInstalled, InstallSkill, SwapFails
    <3> QED BY <3>1, <3>2
  <2>7. CASE HooksRemoved \/ UninstallSkill
    BY <1>0, <2>7, Ends, Gotos DEF HooksRemoved, UninstallSkill
  <2>8. CASE RemoveExecutable
    BY <1>0, <2>8, Ends, Gotos DEF RemoveExecutable, RunInv
  <2> QED BY <2>1, <2>2, <2>3, <2>4, <2>5, <2>6, <2>7, <2>8
<1> HIDE DEF In, Leaving
<1> QED BY <1>1, <1>2, <1>3, QuietStep

\* The steps that read a place or write the receipt.
LEMMA ReadingStep ==
  ASSUME TypeOK, RunInv, LeaveInv, Accounted,
         EnsureRead \/ Notify \/ WriteReceipt \/ ReadReceipt \/ RemovePathRead \/ PathRemoved \/ RemoveReceipt
  PROVE  Accounted'
<1> USE ConstantsAssumption
<1>0. run \in Runs /\ receipt \in Places \cup {None} /\ Places' = Places
      /\ (Installs => run.place \in Places) /\ (platform = "windows" => Places = {Registry}) /\ None \notin Places
  <2>1. platform' = platform
    BY DEF EnsureRead, Notify, WriteReceipt, ReadReceipt, RemovePathRead, PathRemoved, RemoveReceipt,
           OnlyRun, OnlyPaths, OnlyTelemetry, Base
  <2> QED BY <2>1, PlacesStay DEF RunInv, TypeOK, Places
<1>1. UNCHANGED <<platform, path, users>>
  BY DEF EnsureRead, Notify, WriteReceipt, ReadReceipt, RemovePathRead, PathRemoved, RemoveReceipt,
         OnlyRun, OnlyPaths, OnlyTelemetry, Base, paths, userVars
<1>2. \A p : (Exact(p)' <=> Exact(p)) /\ (Extra(p)' <=> Extra(p))
  BY <1>1 DEF Exact, Extra
<1>3. \A p \in Places : Exact(p) \/ Extra(p)
  BY DEF Accounted, EntryInv
<1>4. \A p \in Places : ~(Exact(p) /\ Extra(p)) /\ (path[p].same = 0 => Exact(p))
  BY <1>3, EntriesCounted DEF Exact, Extra
<1>5. EntryInv'
  BY <1>0, <1>1, <1>2 DEF Accounted, EntryInv
<1> HIDE DEF Exact, Extra
<1> USE DEF At, In, Installs, Uninstalls, Succeeded, Leaving, SwapPhases, SetupPhases, PathPhases, LeavePhases,
        Turn, Stop, Same, Keeps, SameFailed, SameTodo, Removing
<1>6. CASE EnsureRead
  <2>1. UNCHANGED <<receipt, orphans, spent>> /\ run.phase = "ensure" /\ Installs
    BY <1>6 DEF EnsureRead, OnlyRun, OnlyTelemetry, paths, RunInv
  <2>2. \/ run'.phase \in {"configure", "done"} /\ Same
        \/ run'.phase = "append" /\ run'.snap = path[run.place] /\ run'.place = run.place /\ Keeps
           /\ path[run.place].same = 0
    BY <1>6, EntryLookedUp
  <2>3. SnapInv'
    BY <1>1, <2>1, <2>2 DEF SnapInv
  <2>4. AccountInv'
    <3>1. platform = "windows" /\ run'.phase = "append" => receipt = None \/ spent
      BY <1>0, <1>4, <2>1, <2>2 DEF Accounted, AccountInv
    <3> QED BY <1>0, <1>1, <1>2, <2>1, <2>2, <3>1 DEF Accounted, AccountInv
  <2>5. CleanInv'
    BY <2>1, <2>2 DEF CleanInv
  <2> QED BY <1>5, <2>3, <2>4, <2>5 DEF Accounted
<1>7. CASE Notify
  <2>1. UNCHANGED <<receipt, orphans, spent>> /\ run.phase = "notify" /\ platform = "windows" /\ run.place \in Places
    BY <1>7 DEF Notify, OnlyRun, OnlyTelemetry, paths, RunInv
  <2>2. \/ run'.phase = (IF Removing THEN "unpath" ELSE "receipt") /\ run'.rest = run.rest \ {run.place} /\ Same /\ SameFailed
        \/ run'.phase = "restore" /\ Same /\ SameFailed /\ SameTodo
    BY <1>0, <1>7, ChangeAnnounced
  <2>3. Installs \/ Uninstalls
    BY <2>1 DEF RunInv
  <2>4. IF Removing THEN Exact(run.place) ELSE Extra(run.place) /\ Installs
    BY <2>1, <2>3 DEF Accounted, SnapInv
  <2>5. Installs => run.rest \subseteq {run.place}
    BY DEF LeaveInv
  <2>6. SnapInv'
    BY <1>1, <1>2, <2>1, <2>2, <2>4, <2>5 DEF Accounted, SnapInv
  <2>7. AccountInv'
    BY <1>0, <1>1, <1>2, <1>4, <2>1, <2>2, <2>3, <2>4 DEF Accounted, AccountInv
  <2>8. CleanInv'
    BY <1>0, <1>1, <1>2, <2>1, <2>2, <2>3, <2>4 DEF Accounted, CleanInv, Cleaned
  <2> QED BY <1>5, <2>6, <2>7, <2>8 DEF Accounted
<1>8. CASE WriteReceipt
  <2>1. run.phase = "receipt" /\ Installs /\ run.place \in Places
    BY <1>8 DEF WriteReceipt, RunInv
  <2>2. \/ /\ receipt' = run.place /\ spent' = FALSE /\ run'.phase = "configure" /\ Same
           /\ orphans' = orphans \cup (IF spent THEN {} ELSE {receipt} \ {None, run.place})
        \/ /\ UNCHANGED <<receipt, orphans, spent>>
           /\ run'.phase = "unpath" /\ run'.rest = {run.place} /\ run'.place = run.place /\ Keeps
    BY <1>0, <1>8, <2>1, ReceiptWritten
  <2>3. Extra(run.place)
    BY <2>1 DEF Accounted, SnapInv
  <2>4. SnapInv'
    BY <1>2, <2>1, <2>2, <2>3 DEF SnapInv
  <2>5. AccountInv'
    BY <1>0, <1>1, <1>2, <2>1, <2>2, <2>3 DEF Accounted, AccountInv
  <2>6. CleanInv'
    BY <2>1, <2>2 DEF CleanInv
  <2> QED BY <1>5, <2>4, <2>5, <2>6 DEF Accounted
<1>9. CASE ReadReceipt
  <2>1. UNCHANGED <<receipt, orphans, spent>> /\ run.phase = "readReceipt" /\ Uninstalls
    BY <1>9 DEF ReadReceipt, OnlyRun, OnlyTelemetry, paths, RunInv
  <2>2. \/ run'.phase = "unpath" /\ run'.seen = receipt /\ run'.rest = Owned(receipt) /\ Keeps
        \/ Stop
    BY <1>0, <1>9, ReceiptKnown
  <2>3. SnapInv'
    BY <2>1, <2>2 DEF SnapInv
  <2>4. AccountInv'
    BY <1>0, <1>1, <1>2, <2>1, <2>2 DEF Accounted, AccountInv
  <2>5. CleanInv'
    <3>1. \A p \in Places \ Owned(receipt) : Exact(p) \/ (p \in orphans /\ (platform = "windows" \/ receipt # None))
      BY <1>0, <1>3, <2>1 DEF Accounted, AccountInv, Owned, Places, TypeOK
    <3> QED BY <1>0, <1>1, <1>2, <2>1, <2>2, <3>1 DEF CleanInv, Cleaned
  <2> QED BY <1>5, <2>3, <2>4, <2>5 DEF Accounted
<1>10. CASE RemovePathRead
  <2>1. UNCHANGED <<receipt, spent>> /\ run.phase = "unpath" /\ (Installs \/ Uninstalls)
    BY <1>10 DEF RemovePathRead, RunInv
  <2>2. PICK p \in run.rest :
          \/ /\ path[p].same = 0 /\ orphans' = orphans
             /\ run'.phase = "unpath" /\ run'.rest = run.rest \ {p} /\ Same /\ SameFailed
          \/ /\ orphans' = orphans
             /\ run'.phase = "unappend" /\ run'.place = p /\ run'.snap = path[p]
             /\ run'.seen = run.seen /\ Keeps /\ SameFailed /\ SameTodo
          \/ Stop /\ orphans' = Orphaned
    BY <1>0, <1>10, EntryFound
  <2>3. p \in Places /\ (Installs => p = run.place /\ Extra(p))
    BY <1>0, <2>1 DEF Runs, LeaveInv, Accounted, SnapInv
  <2>4. SnapInv'
    BY <1>1, <1>2, <1>4, <2>1, <2>2, <2>3 DEF SnapInv
  <2>5. AccountInv'
    BY <1>0, <1>1, <1>2, <1>4, <2>1, <2>2, <2>3 DEF Accounted, AccountInv, Orphaned
  <2>6. CleanInv'
    BY <1>0, <1>1, <1>2, <1>4, <2>1, <2>2, <2>3 DEF Accounted, CleanInv, Cleaned, Orphaned
  <2> QED BY <1>5, <2>4, <2>5, <2>6 DEF Accounted
<1>11. CASE PathRemoved
  <2>1. UNCHANGED <<receipt, orphans, spent>> /\ run.phase = "unpath" /\ run.rest = {} /\ (Installs \/ Uninstalls)
    BY <1>11 DEF PathRemoved, OnlyRun, OnlyTelemetry, paths, RunInv
  <2>2. IF Uninstalls THEN Turn("unexe") ELSE Stop
    BY <1>0, <1>11, Ends, Gotos DEF PathRemoved
  <2>3. SnapInv'
    BY <2>2 DEF SnapInv
  <2>4. AccountInv'
    BY <1>0, <1>1, <1>2, <1>4, <2>1, <2>2 DEF Accounted, AccountInv
  <2>5. CleanInv'
    BY <1>0, <1>1, <1>2, <2>1, <2>2 DEF Accounted, CleanInv, Cleaned
  <2> QED BY <1>5, <2>3, <2>4, <2>5 DEF Accounted
<1>12. CASE RemoveReceipt
  <2>1. orphans' = orphans /\ run.phase = "unreceipt" /\ Uninstalls /\ run.rest = {}
    BY <1>12 DEF RemoveReceipt, RunInv, LeaveInv
  <2>2. \/ receipt' = None /\ spent' = FALSE /\ Turn("done")
        \/ UNCHANGED <<receipt, spent>> /\ Stop
    BY <1>0, <1>12, Ends DEF RemoveReceipt
  <2>3. \A p \in Places : Cleaned(p)
    BY <2>1 DEF Accounted, CleanInv
  <2>4. SnapInv'
    BY <2>2 DEF SnapInv
  <2>5. AccountInv'
    BY <1>0, <1>1, <1>2, <1>4, <2>1, <2>2, <2>3 DEF Accounted, AccountInv, Cleaned
  <2>6. CleanInv'
    BY <1>0, <1>1, <1>2, <2>1, <2>2, <2>3 DEF CleanInv, Cleaned
  <2> QED BY <1>5, <2>4, <2>5, <2>6 DEF Accounted
<1> QED BY <1>6, <1>7, <1>8, <1>9, <1>10, <1>11, <1>12

\* A place whose content is known after it has been written.
LEMMA PlaceWritten ==
  ASSUME TypeOK, NEW p \in Places, NEW c \in [same : Nat, other : Nat], path' = [path EXCEPT ![p] = c]
  PROVE  path'[p] = c /\ \A q \in Places \ {p} : path'[q] = path[q]
BY DEF TypeOK, Places

\* What is written: the content that was read with one entry more, or without it.
LEMMA EntryAppended ==
  ASSUME NEW s \in [same : Nat, other : Nat]
  PROVE  \E c \in [same : Nat, other : Nat] :
           c = [s EXCEPT !.same = @ + 1] /\ c.same = s.same + 1 /\ c.other = s.other
<1>1. PICK n \in Nat : n = s.same + 1
  OBVIOUS
<1>2. [s EXCEPT !.same = @ + 1] = [s EXCEPT !.same = n]
  BY <1>1
<1>3. /\ [s EXCEPT !.same = n] \in [same : Nat, other : Nat]
      /\ [s EXCEPT !.same = n].same = n /\ [s EXCEPT !.same = n].other = s.other
  OBVIOUS
<1> QED BY <1>1, <1>2, <1>3, Zenon

LEMMA EntryTaken ==
  ASSUME NEW s \in [same : Nat, other : Nat], s.same > 0
  PROVE  \E c \in [same : Nat, other : Nat] :
           /\ c = RemoveEntry(s) /\ c.other = s.other
           /\ c.same = IF platform = "windows" THEN s.same - 1 ELSE 0
<1>1. PICK n \in Nat : n = IF platform = "windows" THEN s.same - 1 ELSE 0
  OBVIOUS
<1>2. RemoveEntry(s) = [s EXCEPT !.same = n]
  BY <1>1 DEF RemoveEntry
<1> QED BY <1>1, <1>2

\* The steps that write a place.
LEMMA WritingStep ==
  ASSUME TypeOK, RunInv, LeaveInv, Accounted, ~excused',
         EnsureWrite \/ Restore \/ RemovePathWrite
  PROVE  Accounted'
<1> USE ConstantsAssumption
<1> DEFINE Content == [same : Nat, other : Nat]
<1>0. /\ run \in Runs /\ receipt \in Places \cup {None} /\ Places' = Places /\ None \notin Places
      /\ run.place \in Places /\ run.snap \in Content
      /\ (platform = "windows" => Places = {Registry})
  <2>1. platform' = platform
    BY DEF EnsureWrite, Restore, RemovePathWrite, OnlyPaths, Base
  <2>2. run.place \in Places
    BY DEF EnsureWrite, Restore, RemovePathWrite, RunInv, At, In, PathPhases, SetupPhases
  <2>3. run \in Runs
    BY DEF RunInv
  <2> QED BY <2>1, <2>2, <2>3, PlacesStay DEF Runs, TypeOK, Places
<1>1. users' = users /\ receipt' = receipt /\ platform' = platform
  BY DEF EnsureWrite, Restore, RemovePathWrite, OnlyPaths, Base, userVars
<1>2. \A p \in Places : Exact(p) \/ Extra(p)
  BY DEF Accounted, EntryInv
<1>3. \A p \in Places : path[p].other = users[p].other /\ (platform = "posix" => users[p].same = 0)
  BY DEF Accounted, EntryInv
<1>4. \A p \in Places : path[p] \in Content /\ path[p].same \in Nat /\ users[p].same \in Nat /\ ~(Exact(p) /\ Extra(p))
  BY EntriesCounted
<1>5. \A p \in Places : path'[p] = path[p] => (Exact(p)' <=> Exact(p)) /\ (Extra(p)' <=> Extra(p))
  BY <1>1 DEF Exact, Extra
\* What is left to show of each case: that the place written is as it should be.
<1>a. PICK here \in Places : here = run.place
  BY <1>0
<1>6. ASSUME \A q \in Places \ {here} : path'[q] = path[q],
             Exact(here)' \/ Extra(here)', path'[here].other = path[here].other
      PROVE  EntryInv'
  <2> HIDE DEF Exact, Extra
  <2>1. \A p \in Places : Exact(p)' \/ Extra(p)'
    BY <1>2, <1>5, <1>6
  <2>2. \A p \in Places : path'[p].other = users'[p].other
    BY <1>1, <1>3, <1>6
  <2> QED BY <1>0, <1>1, <1>3, <2>1, <2>2 DEF EntryInv
<1>7. \A p \in Places : Extra(p)' => ~Exact(p)'
  BY <1>1, <1>4 DEF Exact, Extra
<1> HIDE DEF Content, Exact, Extra
<1> USE DEF At, In, Installs, Uninstalls, Succeeded, Leaving, SwapPhases, SetupPhases, PathPhases, LeavePhases,
        Turn, Stop, Same, Keeps, SameFailed, SameTodo, Removing
<1>8. CASE EnsureWrite
  <2>1. UNCHANGED <<orphans, spent>> /\ run.phase = "append" /\ Installs /\ ~Uninstalls /\ ~run.failed
    BY <1>8 DEF EnsureWrite, RunInv
  <2>2. CASE End(TRUE) /\ UNCHANGED path
    <3>1. Stop
      BY <1>0, <2>2, Ends
    <3>2. ~In({"receipt"} \cup PathPhases) /\ ~In({"append", "receipt"} \cup PathPhases)' /\ ~Leaving'
      BY <2>1, <3>1
    <3> HIDE DEF In, Leaving
    <3> QED BY <1>1, <2>1, <2>2, <3>2, QuietStep
  <2>3. CASE /\ path' = [path EXCEPT ![run.place] = [run.snap EXCEPT !.same = @ + 1]]
             /\ Goto(IF platform = "windows" THEN "notify" ELSE "receipt")
    <3>1. IF platform = "windows" THEN Turn("notify") ELSE Turn("receipt")
      BY <1>0, <2>3, Gotos
    <3>2. run.snap = path[run.place] /\ run.snap.same = 0
      BY <2>1 DEF Accounted, SnapInv
    <3>3. PICK c \in [same : Nat, other : Nat] :
            c = [run.snap EXCEPT !.same = @ + 1] /\ c.same = 1 /\ c.other = run.snap.other
      <4>1. run.snap \in [same : Nat, other : Nat]
        BY <1>0 DEF Content
      <4> QED BY <3>2, <4>1, EntryAppended
    <3>a. path' = [path EXCEPT ![here] = c]
      BY <1>a, <2>3, <3>3
    <3>4. /\ path'[here].same = 1 /\ path'[here].other = path[here].other
          /\ \A q \in Places \ {here} : path'[q] = path[q]
      <4>1. path'[here] = c /\ \A q \in Places \ {here} : path'[q] = path[q]
        BY <3>3, <3>a, PlaceWritten
      <4> QED BY <1>a, <3>2, <3>3, <4>1
    <3>5. users[here].same = 0
      BY <1>a, <1>2, <1>4, <3>2 DEF Exact, Extra
    <3>6. Extra(here)'
      BY <1>1, <3>4, <3>5 DEF Extra
    <3>7. run'.place = here /\ run'.snap = run.snap
      BY <1>a, <3>1
    <3>8. EntryInv'
      BY <1>6, <3>4, <3>6
    <3>9. SnapInv'
      BY <1>a, <2>1, <3>1, <3>2, <3>4, <3>6, <3>7 DEF SnapInv
    <3>10. AccountInv'
      <4>1. platform = "windows" => receipt = None \/ spent
        BY <2>1 DEF Accounted, AccountInv
      <4>2. \A p \in Places \ {here} : Extra(p)' => p \in orphans \/ (p = receipt /\ ~spent)
        BY <1>5, <2>1, <3>4 DEF Accounted, AccountInv
      <4> QED BY <1>0, <1>1, <2>1, <3>1, <3>7, <4>1, <4>2 DEF AccountInv
    <3>11. CleanInv'
      BY <2>1, <3>1 DEF CleanInv
    <3> QED BY <3>8, <3>9, <3>10, <3>11 DEF Accounted
  <2> QED BY <1>8, <2>2, <2>3, Zenon DEF EnsureWrite
<1>9. CASE Restore
  <2>1. run.phase = "restore" /\ platform = "windows" /\ (Installs \/ Uninstalls) /\ Stop
    BY <1>0, <1>9, Ends DEF Restore, RunInv
  <2>2. /\ run.snap.other = path[here].other
        /\ IF Removing THEN Exact(here) /\ run.snap.same = path[here].same + 1
           ELSE Extra(here) /\ run.snap.same = 0 /\ path[here].same = 1
    BY <1>a, <2>1 DEF Accounted, SnapInv
  <2>3. Installs => receipt = None \/ spent
    BY <2>1 DEF Accounted, AccountInv
  <2>4. Uninstalls => ~run.failed /\ here = receipt /\ spent
    <3>1. Uninstalls => run.place \in Owned(receipt)
      BY <2>1 DEF LeaveInv
    <3>2. Uninstalls => spent
      BY <2>1 DEF Accounted, AccountInv
    <3> QED BY <1>a, <2>1, <3>1, <3>2 DEF Owned, RunInv
  <2>5. SnapInv' /\ CleanInv'
    BY <2>1 DEF SnapInv, CleanInv
  <2>6. CASE /\ path' = [path EXCEPT ![run.place] = run.snap]
             /\ spent' = (spent /\ run.action # "uninstall")
             /\ orphans' = IF run.failed THEN Orphaned ELSE orphans
    <3>1. path'[here] = run.snap /\ \A q \in Places \ {here} : path'[q] = path[q]
      <4>1. PICK c \in [same : Nat, other : Nat] : c = run.snap
        BY <1>0 DEF Content
      <4>2. path' = [path EXCEPT ![here] = c]
        BY <1>a, <2>6, <4>1
      <4> QED BY <4>1, <4>2, PlaceWritten
    <3>2. IF Removing THEN Extra(here)' ELSE Exact(here)'
      BY <1>1, <1>4, <2>2, <3>1 DEF Exact, Extra
    <3>3. EntryInv'
      BY <1>6, <2>2, <3>1, <3>2
    <3>4. \A p \in Places \ {here} : Extra(p)' => p \in orphans \/ (p = receipt /\ ~spent)
      BY <1>5, <1>a, <3>1 DEF Accounted, AccountInv
    <3>5. IF Uninstalls THEN ~spent' /\ orphans' = orphans
          ELSE (spent' <=> spent) /\ orphans' = IF run.failed THEN orphans \cup {here} ELSE orphans
      BY <1>a, <2>4, <2>6 DEF Orphaned
    <3>6. AccountInv'
      BY <1>0, <1>1, <1>7, <2>1, <2>3, <2>4, <3>2, <3>4, <3>5 DEF AccountInv
    <3> QED BY <2>5, <3>3, <3>6 DEF Accounted
  <2>7. CASE orphans' = (IF run.failed THEN orphans ELSE Orphaned) /\ UNCHANGED <<path, spent>>
    <3>1. \A p \in Places : (Exact(p)' <=> Exact(p)) /\ (Extra(p)' <=> Extra(p))
      BY <1>5, <2>7
    <3>2. EntryInv'
      BY <1>2, <1>6, <1>a, <2>7, <3>1
    <3>3. IF Uninstalls THEN orphans' = orphans
          ELSE orphans' = IF run.failed THEN orphans ELSE orphans \cup {here}
      BY <1>a, <2>4, <2>7 DEF Orphaned
    <3>4. AccountInv'
      BY <1>0, <1>1, <1>4, <1>a, <2>1, <2>2, <2>3, <2>4, <2>7, <3>1, <3>3 DEF Accounted, AccountInv
    <3> QED BY <2>5, <3>2, <3>4 DEF Accounted
  <2> QED BY <1>9, <2>6, <2>7, Zenon DEF Restore
<1>10. CASE RemovePathWrite
  <2>1. /\ run.phase = "unappend" /\ (Installs \/ Uninstalls) /\ (Installs <=> ~Uninstalls)
        /\ run.snap = path[here] /\ run.snap.same > 0
        /\ (Installs => run.failed /\ Extra(here) /\ run.rest \subseteq {here})
        /\ (Uninstalls => here \in run.rest)
    BY <1>10, <1>a DEF RemovePathWrite, RunInv, Accounted, SnapInv, LeaveInv
  <2>2. Uninstalls => /\ run.rest \subseteq Owned(receipt) /\ run.seen = receipt
                      /\ (receipt # None => here = receipt)
                      /\ (platform = "windows" => here = receipt /\ receipt # None)
    BY <1>0, <2>1 DEF LeaveInv, Owned
  <2>3. ~(spent /\ Uninstalls)
    BY <1>0, <1>10, EntryRemoved
  <2>4. platform = "windows" => Extra(here) /\ (Installs => receipt = None \/ spent)
    BY <2>1, <2>2, <2>3 DEF Accounted, AccountInv
  <2>5. CASE Stop /\ orphans' = Orphaned /\ UNCHANGED <<path, spent>>
    <3>1. \A p \in Places : (Exact(p)' <=> Exact(p)) /\ (Extra(p)' <=> Extra(p))
      BY <1>5, <2>5
    <3>2. EntryInv'
      BY <1>2, <1>6, <1>a, <2>5, <3>1
    <3>3. orphans' = IF Uninstalls THEN orphans ELSE orphans \cup {here}
      BY <1>a, <2>5 DEF Orphaned
    <3>4. AccountInv'
      BY <1>0, <1>1, <1>4, <1>a, <2>1, <2>4, <2>5, <3>1, <3>3 DEF Accounted, AccountInv
    <3>5. SnapInv' /\ CleanInv'
      BY <2>5 DEF SnapInv, CleanInv
    <3> QED BY <3>2, <3>4, <3>5 DEF Accounted
  <2>6. CASE /\ path' = [path EXCEPT ![run.place] = RemoveEntry(run.snap)]
             /\ spent' = (spent \/ (run.action = "uninstall" /\ receipt # None)) /\ orphans' = orphans
             /\ IF platform = "windows" THEN Turn("notify")
                ELSE /\ run' \in Runs /\ run'.phase = "unpath" /\ run'.rest = run.rest \ {run.place}
                     /\ run'.todo = run.todo /\ Same /\ SameFailed
    <3>1. PICK c \in [same : Nat, other : Nat] :
            /\ c = RemoveEntry(run.snap) /\ c.other = path[here].other
            /\ c.same = IF platform = "windows" THEN path[here].same - 1 ELSE 0
      <4>1. run.snap \in [same : Nat, other : Nat]
        BY <1>0 DEF Content
      <4> QED BY <2>1, <4>1, EntryTaken
    <3>2. path' = [path EXCEPT ![here] = c]
      BY <1>a, <2>6, <3>1
    <3>3. path'[here] = c /\ \A q \in Places \ {here} : path'[q] = path[q]
      BY <3>2, PlaceWritten
    <3>4. Exact(here)'
      <4>1. platform = "windows" => path[here].same = users[here].same + 1
        BY <2>4 DEF Extra
      <4>2. platform # "windows" => users[here].same = 0
        BY <1>3 DEF TypeOK
      <4>3. path'[here].same = users'[here].same
        BY <1>1, <1>4, <3>1, <3>3, <4>1, <4>2
      <4> QED BY <4>3 DEF Exact
    <3>5. EntryInv'
      BY <1>6, <3>1, <3>3, <3>4
    <3>6. \A p \in Places \ {here} : (Exact(p)' <=> Exact(p)) /\ (Extra(p)' <=> Extra(p))
      BY <1>5, <3>3
    <3>7. /\ (spent' <=> spent \/ (Uninstalls /\ receipt # None))
          /\ Same /\ SameFailed /\ (Installs' <=> Installs) /\ (Uninstalls' <=> Uninstalls)
          /\ run'.place = here /\ run'.snap = run.snap /\ run'.seen = run.seen
      BY <1>a, <2>6
    <3>8. IF platform = "windows" THEN run'.phase = "notify" /\ run'.rest = run.rest
          ELSE run'.phase = "unpath" /\ run'.rest = run.rest \ {here}
      BY <1>a, <2>6
    <3> HIDE <2>6
    <3> HIDE DEF Turn, Stop, Keeps, Same, SameTodo
    <3>9. SnapInv'
      <4>1. platform = "windows" => /\ run'.snap.other = path'[here].other
                                    /\ run'.snap.same = path'[here].same + 1
        BY <1>4, <2>1, <3>1, <3>3, <3>7
      <4>2. Removing'
        BY <2>1, <3>7
      <4> QED BY <1>1, <2>1, <3>4, <3>7, <3>8, <4>1, <4>2 DEF SnapInv
    <3>10. AccountInv'
      <4>1. \A p \in Places \ {here} : Extra(p)' => p \in orphans' \/ (p = receipt' /\ ~spent')
        BY <1>1, <1>a, <2>1, <2>2, <2>6, <3>6, <3>7 DEF Accounted, AccountInv
      <4> QED BY <1>0, <1>1, <1>7, <2>1, <2>2, <2>4, <3>4, <3>7, <3>8, <4>1 DEF AccountInv
    <3>11. CleanInv'
      BY <1>0, <1>1, <2>1, <2>6, <3>4, <3>6, <3>7, <3>8 DEF Accounted, CleanInv, Cleaned
    <3> QED BY <3>5, <3>9, <3>10, <3>11 DEF Accounted
  <2> QED BY <1>0, <1>10, <2>5, <2>6, EntryRemoved, Zenon
<1> QED BY <1>8, <1>9, <1>10

\* The surroundings leave every account in order, unless the user edits a place that a
\* command has read and not yet written.
LEMMA SurroundingsStep ==
  ASSUME TypeOK, RunInv, Accounted, ~excused',
         Crash \/ UserEdit \/ Helper \/ UNCHANGED vars
  PROVE  Accounted'
<1>0. Places' = Places
  <2>1. platform' = platform
    BY DEF Crash, UserEdit, Helper, CleanUp, HelperDies, vars
  <2> QED BY <2>1, PlacesStay
<1>1. CASE Crash
  <2>1. UNCHANGED <<platform, path, users, receipt, spent>>
    BY <1>1 DEF Crash, userVars
  <2>2. \A p : (Exact(p)' <=> Exact(p)) /\ (Extra(p)' <=> Extra(p))
    BY <2>1 DEF Exact, Extra
  <2>3. run'.phase = "done" /\ run'.action = "none"
    BY <1>1, Restarts DEF Crash
  <2>4. orphans' = IF run.phase \in {"notify", "restore", "receipt", "unpath", "unappend"} THEN Orphaned ELSE orphans
    BY <1>1 DEF Crash
  <2>5. orphans \subseteq orphans' /\ (Installs /\ In({"receipt"} \cup PathPhases) => run.place \in orphans')
    BY <2>4 DEF Orphaned, Installs, In, PathPhases
  <2> HIDE DEF Exact, Extra
  <2>6. EntryInv'
    BY <1>0, <2>1, <2>2 DEF Accounted, EntryInv
  <2>7. SnapInv' /\ CleanInv'
    BY <2>3 DEF SnapInv, CleanInv, Leaving, In, At, Installs, Uninstalls, PathPhases
  <2>8. AccountInv'
    BY <1>0, <2>1, <2>2, <2>3, <2>5 DEF Accounted, AccountInv, In, At, Installs, Uninstalls, PathPhases
  <2> QED BY <2>6, <2>7, <2>8 DEF Accounted
<1>2. CASE UserEdit
  <2>1. UNCHANGED <<platform, receipt, orphans, spent, run>>
    BY <1>2, EditAdds
  <2>2. PICK h \in Places, d \in {0, 1}, e \in {0, 1} :
          /\ platform = "posix" => d = 0
          /\ ~(run.phase \in {"append", "notify", "restore", "unappend"} /\ run.place = h)
          /\ path'[h].same = path[h].same + d /\ path'[h].other = path[h].other + e
          /\ users'[h].same = users[h].same + d /\ users'[h].other = users[h].other + e
          /\ \A q \in Places \ {h} : path'[q] = path[q] /\ users'[q] = users[q]
    BY <1>2, EditAdds
  <2>3. \A p \in Places : path[p].same \in Nat /\ users[p].same \in Nat /\ path[p].other \in Nat /\ users[p].other \in Nat
    BY EntriesCounted
  <2>4. \A p \in Places : (Exact(p)' <=> Exact(p)) /\ (Extra(p)' <=> Extra(p))
    BY <2>2, <2>3 DEF Exact, Extra
  <2>5. In({"append", "notify", "restore", "unappend"}) => run.place \in Places /\ path'[run.place] = path[run.place]
    BY <2>2 DEF RunInv, In, At, PathPhases, SetupPhases
  <2>6. Installs => run.place \in Places
    BY DEF RunInv
  <2>7. EntryInv'
    <3> HIDE DEF Exact, Extra
    <3>1. \A p \in Places : Exact(p)' \/ Extra(p)'
      BY <2>4 DEF Accounted, EntryInv
    <3>2. \A p \in Places : path'[p].other = users'[p].other
      BY <2>2, <2>3 DEF Accounted, EntryInv
    <3>3. platform = "posix" => \A p \in Places : users'[p].same = 0
      BY <2>2, <2>3 DEF Accounted, EntryInv
    <3> QED BY <1>0, <2>1, <3>1, <3>2, <3>3 DEF EntryInv
  <2> HIDE DEF Exact, Extra
  <2>8. \A p \in Places : run'.place = p => (Exact(run.place)' <=> Exact(run.place)) /\ (Extra(run.place)' <=> Extra(run.place))
    <3>1. ASSUME NEW p \in Places, run'.place = p
          PROVE  (Exact(run.place)' <=> Exact(p)') /\ (Extra(run.place)' <=> Extra(p)') /\ run.place = p
      BY <2>1, <3>1 DEF Exact, Extra
    <3> QED BY <2>4, <3>1
  <2>9. SnapInv'
    BY <2>1, <2>5, <2>6, <2>8 DEF Accounted, SnapInv, Removing, In, At, Installs, PathPhases
  <2>10. receipt \in Places \cup {None}
    BY DEF TypeOK
  <2>11. receipt \in Places => (Extra(receipt)' <=> Extra(receipt))
    <3>1. ASSUME NEW p \in Places, receipt = p
          PROVE  Extra(receipt)' <=> Extra(p)'
      BY <2>1, <3>1 DEF Extra
    <3> QED BY <2>4, <3>1
  <2>12. AccountInv'
    BY <1>0, <2>1, <2>4, <2>6, <2>8, <2>10, <2>11 DEF Accounted, AccountInv, In, At, Installs, Uninstalls, PathPhases
  <2>13. CleanInv'
    BY <1>0, <2>1, <2>4 DEF Accounted, CleanInv, Cleaned, Leaving, In, At, Installs, Uninstalls, Succeeded, PathPhases
  <2> QED BY <2>7, <2>9, <2>12, <2>13 DEF Accounted
<1>3. CASE Helper \/ UNCHANGED vars
  <2>1. UNCHANGED <<platform, path, users, receipt, orphans, spent, run>>
    BY <1>3 DEF Helper, CleanUp, HelperDies, vars, paths, userVars
  <2>2. \A p : (Exact(p)' <=> Exact(p)) /\ (Extra(p)' <=> Extra(p))
    BY <2>1 DEF Exact, Extra
  <2>3. EntryInv'
    BY <1>0, <2>1, <2>2 DEF Accounted, EntryInv, Exact, Extra
  <2>4. SnapInv'
    BY <2>1 DEF Accounted, SnapInv, In, At, Removing, Exact, Extra, Installs
  <2>5. AccountInv'
    BY <1>0, <2>1 DEF Accounted, AccountInv, In, At, Extra, Exact, Installs, Uninstalls
  <2>6. CleanInv'
    BY <1>0, <2>1 DEF Accounted, CleanInv, Cleaned, Leaving, In, At, Exact, Uninstalls, Succeeded
  <2> QED BY <2>3, <2>4, <2>5, <2>6 DEF Accounted
<1> QED BY <1>1, <1>2, <1>3

\* Once an edit has gone unnoticed it stays so.
LEMMA ExcusedStays ==
  ASSUME [Next]_vars
  PROVE  ~excused' => ~excused
BY Zenon DEF Next, Command, StartInstall, StartUninstall, Refuse, ResolveLatest, Verify, Stage, MoveAside, SwapIn, MoveBack,
       StartHelper, CopyExecutable, EnsureRead, EnsureWrite, Notify, Restore, WriteReceipt, Configure, MigrateLegacy,
       InstallHook, HooksInstalled, InstallSkill, RemoveHook, HooksRemoved, Purge, UninstallSkill, ReadReceipt,
       RemovePathRead, RemovePathWrite, PathRemoved, RemoveExecutable, RemoveReceipt, Crash, UserEdit, Helper, CleanUp,
       HelperDies, Base, OnlyRun, OnlyImages, OnlyPaths, OnlyTelemetry, vars, userVars

LEMMA PathStep ==
  ASSUME TypeOK, RunInv, PathInv, [Next]_vars
  PROVE  PathInv'
<1>1. LeaveInv'
  BY LeaveStep DEF PathInv
<1>2. CASE ~excused'
  <2>1. Accounted
    BY <1>2, ExcusedStays DEF PathInv, Accounted
  <2>2. Accounted'
    BY <1>2, <2>1, ElsewhereStep, ReadingStep, WritingStep, SurroundingsStep DEF Next, Command, PathInv
  <2> QED BY <1>1, <2>2 DEF PathInv, Accounted
<1> QED BY <1>1, <1>2 DEF PathInv

-----------------------------------------------------------------------------
(* The invariant *)

\* It holds before the first command.
LEMMA InitInv == Init => IInv
<1> SUFFICES ASSUME Init PROVE IInv
  OBVIOUS
<1> USE ConstantsAssumption
<1>1. run = NoRun /\ run \in Runs
  BY NoRunKnown DEF Init
<1>2. /\ run.phase = "done" /\ run.action = "none" /\ run.todo = {} /\ run.rest = {} /\ run.failed = FALSE
      /\ run.place = None
  BY <1>1 DEF NoRun
<1>3. /\ users = [p \in Profiles \cup {Registry} |-> [same |-> 0, other |-> 0]]
      /\ path = [p \in Profiles \cup {Registry} |-> [same |-> IF p = receipt THEN 1 ELSE 0, other |-> 0]]
  BY DEF Init
<1>4. /\ users \in [Profiles \cup {Registry} -> [same : Nat, other : Nat]]
      /\ path \in [Profiles \cup {Registry} -> [same : Nat, other : Nat]]
  BY <1>3
<1>5. \A p \in Places : /\ users[p].same = 0 /\ users[p].other = 0
                        /\ path[p].same = (IF p = receipt THEN 1 ELSE 0) /\ path[p].other = 0
  BY <1>3 DEF Places
<1>6. exe \in {0, 1} /\ (exe = 0 => hooks = {} /\ receipt = None) /\ (exe = 1 => configured /\ receipt \in Places)
      /\ (hooks # {} => exe = 1 /\ ~legacy) /\ hooks \subseteq Targets /\ exe \in 0 .. LastRelease
  <2>1. exe = 1 => configured
    BY Zenon DEF Init
  <2>2. exe \in {0, 1} /\ hooks = (IF exe = 1 /\ ~legacy THEN Targets ELSE {})
    BY Zenon DEF Init
  <2>3. exe = 0 => receipt = None
    BY DEF Init
  <2>4. exe = 1 => receipt \in Places
    BY DEF Init
  <2>5. exe \in 0 .. LastRelease
    BY <2>2
  <2>6. hooks \subseteq Targets /\ (hooks # {} => exe = 1 /\ ~legacy)
    BY <2>2
  <2> QED BY <2>1, <2>2, <2>3, <2>4, <2>5, <2>6
<1>7. TypeOK
  <2>1. stale \in [Ids -> 0 .. LastRelease] /\ helper \in [Ids -> 0 .. Lost] /\ staged \subseteq Ids
    <3>1. 0 \in 0 .. Lost /\ 0 \in 0 .. LastRelease
      BY DEF Lost
    <3> QED BY <3>1 DEF Init
  <2>2. {configured, cache, legacy, skill, spent, excused, stranded} \subseteq BOOLEAN
    <3>1. configured \in BOOLEAN
      BY Zenon DEF Init
    <3>2. legacy \in BOOLEAN
      BY DEF Init
    <3> QED BY <3>1, <3>2 DEF Init
  <2>3. DOMAIN path = Profiles \cup {Registry}
    BY <1>3
  <2> QED BY <1>1, <1>2, <1>4, <1>6, <2>1, <2>2, <2>3 DEF Init, TypeOK
<1>8. RunInv
  BY <1>1, <1>2 DEF Init, RunInv, At, In, Installs, Uninstalls, SwapPhases, SetupPhases, PathPhases, LeavePhases
<1>9. ImageInv
  BY <1>2, <1>6 DEF ImageInv, HooksCallable, At, In, Installs, Uninstalls, Succeeded, SwapPhases, SetupPhases, PathPhases, Releases
<1>10. HookInv
  BY <1>2, <1>6 DEF HookInv, HooksReady, At, In, Installs, Uninstalls, Succeeded
<1>11. LeaveInv
  BY <1>2 DEF LeaveInv, At, In, Installs, Uninstalls, Succeeded, PathPhases
<1>12. EntryInv
  BY <1>5 DEF EntryInv, Exact, Extra
<1>13. SnapInv /\ CleanInv
  BY <1>2 DEF SnapInv, CleanInv, Leaving, At, In, Installs, Uninstalls, PathPhases
<1>14. AccountInv
  <2>1. spent = FALSE
    BY DEF Init
  <2>2. receipt \in Places \cup {None}
    BY DEF Init
  <2> QED BY <1>2, <1>5, <2>1, <2>2 DEF AccountInv, Extra, Exact, At, In, Installs, Uninstalls, PathPhases
<1> QED BY <1>7, <1>8, <1>9, <1>10, <1>11, <1>12, <1>13, <1>14 DEF IInv, PathInv

\* Every step of a command, of a helper, of the user, and a crash preserve it.
LEMMA Inductive == IInv /\ [Next]_vars => IInv'
BY TypeStep, RunStep, ImageStep, HookStep, PathStep DEF IInv

\* The inductive invariant.
THEOREM Invariance == Spec => []IInv
BY InitInv, Inductive, PTL DEF Spec

\* Every variable has a value of its kind, and a receipt only names a place.
THEOREM TypesKept == Spec => []TypeOK
<1>1. IInv => TypeOK
  BY DEF IInv
<1> QED BY <1>1, Invariance, PTL

\* While a native hook is installed there is a verified executable for it to run,
\* except inside the two renames of a Windows swap and after one that ended there.
THEOREM HooksFindExecutable == Spec => []HooksCallable
<1>1. IInv => HooksCallable
  BY DEF IInv, ImageInv
<1> QED BY <1>1, Invariance, PTL

\* Hooks exist only with a saved endpoint and without the package that would report
\* the same calls a second time.
THEOREM HooksAfterConfiguration == Spec => []HooksReady
<1>1. IInv => HooksReady
  BY DEF IInv, HookInv
<1> QED BY <1>1, Invariance, PTL

\* An install or update that reports no failure has installed all of it.
THEOREM SuccessIsComplete == Spec => []InstallHonest
<1>1. IInv => InstallHonest
  BY DEF IInv, ImageInv, HookInv, PathInv, LeaveInv, InstallHonest, Upgraded, Installs, Succeeded, At, In
<1> QED BY <1>1, Invariance, PTL

\* An uninstall that reports no failure has left nothing but what users have put
\* on PATH and the entries no receipt accounts for.
THEOREM UninstallLeavesNothing == Spec => []UninstallClean
<1>1. IInv => UninstallClean
  <2> SUFFICES ASSUME IInv, At("done"), run.action = "uninstall", ~run.failed PROVE UninstallClean
    BY Zenon DEF UninstallClean
  <2>1. Uninstalls /\ Succeeded
    BY DEF Uninstalls, Succeeded
  <2>2. exe = 0
    BY <2>1 DEF IInv, ImageInv
  <2>3. hooks = {} /\ (run.purge => ~configured /\ ~cache)
    BY <2>1 DEF IInv, HookInv, At, In
  <2>4. receipt = None /\ run.rest = {}
    BY <2>1 DEF IInv, PathInv, LeaveInv
  <2>5. ~excused => \A p \in Places : Cleaned(p)
    BY <2>1, <2>4 DEF IInv, PathInv, CleanInv, Leaving
  <2> QED BY <2>2, <2>3, <2>4, <2>5 DEF UninstallClean, Cleaned, Exact
<1> QED BY <1>1, Invariance, PTL

\* No command removes what a user or another installer put on PATH, unless PATH was edited
\* between a command's own read and write, or an uninstall met the receipt of one before it
\* that had removed the entry and then failed, and took an equal entry of the user's.
THEOREM UserEntriesKept == Spec => []PathKept
<1>1. IInv => PathKept
  <2>1. TypeOK => \A p \in Places : path[p].same \in Nat /\ users[p].same \in Nat
    BY DEF TypeOK, Places
  <2> QED BY <2>1 DEF IInv, PathInv, EntryInv, Exact, Extra, PathKept
<1> QED BY <1>1, Invariance, PTL

=============================================================================
