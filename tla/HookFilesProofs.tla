-------------------------- MODULE HookFilesProofs --------------------------
(***************************************************************************)
(* Proofs about HookFiles for any commands, places, releases and bounds:   *)
(* what installs and uninstalls do to whole files, the hook of Cline and   *)
(* the plugin of OpenCode.                                                 *)
(***************************************************************************)
EXTENDS HookFiles, HookMergeProofs

-----------------------------------------------------------------------------
(* What a step does to the commands *)

\* The commands but that of i stay as they are.
Alters(i) == run' \in [Procs -> Runs] /\ \A j \in Procs \ {i} : run'[j] = run[j]

\* The command of i goes on with another step; what it has moved away stays its own.
Moves(i, phase) ==
  /\ Alters(i) /\ run'[i].phase = phase /\ run'[i].held = run[i].held
  /\ run'[i].action = run[i].action /\ run'[i].release = run[i].release /\ (run'[i].quiet <=> run[i].quiet)
  /\ run'[i].path = run[i].path \/ run[i].held = None

\* It goes on with another step and what it knows is the same.
Goes(i, phase) ==
  /\ Moves(i, phase) /\ run'[i].path = run[i].path
  /\ run'[i].todo = run[i].todo /\ run'[i].known = run[i].known /\ (run'[i].failed <=> run[i].failed)

\* It ends; only a success that nothing disturbed leaves its account.
Ends(i, failed) ==
  /\ Alters(i) /\ run'[i].phase = "done" /\ run'[i].held = None
  /\ ~run'[i].quiet => run'[i].action = "none"
  /\ run'[i].quiet =>
       /\ ~failed /\ ~run[i].failed /\ run[i].quiet
       /\ run'[i].action = run[i].action /\ run'[i].path = run[i].path /\ run'[i].release = run[i].release

\* OpenCode's uninstall goes on with the next place.
Turns(i, failed) ==
  /\ Alters(i) /\ run'[i].phase = "place" /\ run'[i].held = None
  /\ run'[i].action = run[i].action /\ run'[i].path = run[i].path /\ run'[i].release = run[i].release
  /\ run'[i].todo = run[i].todo /\ run'[i].known = run[i].known
  /\ (run'[i].failed <=> run[i].failed \/ failed) /\ (run'[i].quiet <=> run[i].quiet)

\* A record with another phase, and one with a failure, differ in nothing else.
LEMMA PhaseSet ==
  ASSUME NEW r \in Runs, NEW phase \in Steps, NEW s, s = [r EXCEPT !.phase = phase]
  PROVE  /\ s \in Runs /\ s.phase = phase /\ s.action = r.action /\ s.path = r.path /\ s.release = r.release
         /\ s.todo = r.todo /\ s.held = r.held /\ s.known = r.known /\ (s.failed <=> r.failed) /\ (s.quiet <=> r.quiet)
<1>1. r \in Runs /\ s \in Runs
  BY DEF Runs
<1> QED BY <1>1 DEF Runs

LEMMA FailedSet ==
  ASSUME NEW r \in Runs, NEW s, s = [r EXCEPT !.failed = TRUE]
  PROVE  /\ s \in Runs /\ s.phase = r.phase /\ s.action = r.action /\ s.path = r.path /\ s.release = r.release
         /\ s.todo = r.todo /\ s.held = r.held /\ s.known = r.known /\ s.failed /\ (s.quiet <=> r.quiet)
<1>1. r \in Runs /\ s \in Runs
  BY DEF Runs
<1> QED BY <1>1 DEF Runs

\* A step that only says where the command goes on.
LEMMA GoesShape ==
  ASSUME NEW i \in Procs, run \in [Procs -> Runs], NEW phase \in Steps, run' = [run EXCEPT ![i].phase = phase]
  PROVE  Goes(i, phase)
<1>1. run[i] \in Runs /\ run'[i] = [run[i] EXCEPT !.phase = phase] /\ \A j \in Procs \ {i} : run'[j] = run[j]
  OBVIOUS
<1>2. /\ run'[i] \in Runs /\ run'[i].phase = phase /\ run'[i].action = run[i].action /\ run'[i].path = run[i].path
      /\ run'[i].release = run[i].release /\ run'[i].todo = run[i].todo /\ run'[i].held = run[i].held
      /\ run'[i].known = run[i].known /\ (run'[i].failed <=> run[i].failed) /\ (run'[i].quiet <=> run[i].quiet)
  BY <1>1, PhaseSet
<1>3. run' \in [Procs -> Runs]
  BY <1>1, <1>2
<1> QED BY <1>1, <1>2, <1>3 DEF Goes, Moves, Alters

\* The end of a command, as the fields of its record.
LEMMA EndsShape ==
  ASSUME NEW i \in Procs, run \in [Procs -> Runs], NEW failed \in BOOLEAN, run' = Ended(i, failed)
  PROVE  Ends(i, failed)
BY ContentsAssumption DEF Ended, Runs, Steps, Idle, NoReceipt, Contents, Ends, Alters

\* The end of the work on one place: the next place, or the end of the command.
LEMMA OverShape ==
  ASSUME NEW i \in Procs, run \in [Procs -> Runs], NEW failed \in BOOLEAN, run' = Over(i, failed)
  PROVE  IF harness = "opencode" /\ run[i].action = "uninstall" THEN Turns(i, failed) ELSE Ends(i, failed)
<1>1. CASE harness = "opencode" /\ run[i].action = "uninstall"
  <2>1. PICK b \in BOOLEAN : b = (run[i].failed \/ failed)
    OBVIOUS
  <2>2. run' = [run EXCEPT ![i] = [run[i] EXCEPT !.phase = "place", !.failed = b, !.held = None]]
    BY <1>1, <2>1 DEF Over
  <2>3. run[i] \in Runs /\ "place" \in Steps /\ None \in Contents
    BY DEF Steps, Locked, Contents
  <2>4. [run[i] EXCEPT !.phase = "place", !.failed = b, !.held = None] \in Runs
    BY <2>3 DEF Runs
  <2> QED BY <1>1, <2>1, <2>2, <2>3, <2>4 DEF Runs, Turns, Alters
<1>2. CASE ~(harness = "opencode" /\ run[i].action = "uninstall")
  BY <1>2, EndsShape DEF Over
<1> QED BY <1>1, <1>2

\* Commands that differ in what they hold at most.
Alike(r, s) ==
  /\ r.phase = s.phase /\ r.action = s.action /\ r.path = s.path /\ r.release = s.release
  /\ r.todo = s.todo /\ r.known = s.known /\ (r.failed <=> s.failed) /\ (r.quiet <=> s.quiet)

\* The commands but that of i stay as they are, unless they have moved away what i was
\* writing.
Others(i, new) ==
  /\ run' \in [Procs -> Runs]
  /\ \A j \in Procs \ {i} : Alike(run'[j], run[j]) /\ run'[j].held = Become(run[j].held, i, new)

\* Giving up or completing a file changes what commands hold, and nothing else of them.
LEMMA BecomeShape ==
  ASSUME NEW i \in Procs, NEW new \in Contents, NEW runs \in [Procs -> Runs], run' = HeldBecome(runs, i, new)
  PROVE  /\ run' \in [Procs -> Runs]
         /\ \A j \in Procs : Alike(run'[j], runs[j]) /\ run'[j].held = Become(runs[j].held, i, new)
<1>1. ASSUME NEW j \in Procs
      PROVE  run'[j] = [runs[j] EXCEPT !.held = Become(runs[j].held, i, new)]
  BY DEF HeldBecome
<1>2. ASSUME NEW j \in Procs
      PROVE  runs[j] \in Runs /\ run'[j] \in Runs
  BY <1>1 DEF Runs, Become
<1>3. run' \in [Procs -> Runs]
  BY <1>2 DEF HeldBecome
<1> QED BY <1>1, <1>2, <1>3 DEF Runs, Alike

\* A command ends while the file it was writing is completed or given up.
LEMMA BecomeEnded ==
  ASSUME NEW i \in Procs, NEW new \in Contents, NEW failed \in BOOLEAN, run \in [Procs -> Runs],
         run' = HeldBecome(Ended(i, failed), i, new)
  PROVE  /\ Others(i, new) /\ run'[i].phase = "done" /\ run'[i].held = None
         /\ ~run'[i].quiet => run'[i].action = "none"
         /\ run'[i].quiet =>
              /\ ~failed /\ ~run[i].failed /\ run[i].quiet
              /\ run'[i].action = run[i].action /\ run'[i].path = run[i].path /\ run'[i].release = run[i].release
<1>1. /\ Ended(i, failed) \in [Procs -> Runs] /\ \A j \in Procs \ {i} : Ended(i, failed)[j] = run[j]
      /\ Ended(i, failed)[i].phase = "done" /\ Ended(i, failed)[i].held = None
      /\ ~Ended(i, failed)[i].quiet => Ended(i, failed)[i].action = "none"
      /\ Ended(i, failed)[i].quiet =>
           /\ ~failed /\ ~run[i].failed /\ run[i].quiet
           /\ Ended(i, failed)[i].action = run[i].action /\ Ended(i, failed)[i].path = run[i].path
           /\ Ended(i, failed)[i].release = run[i].release
  BY ContentsAssumption DEF Ended, Runs, Steps, Idle, NoReceipt, Contents
<1> HIDE DEF Ended
<1>2. None # i
  BY ContentsAssumption
<1> QED BY <1>1, <1>2, BecomeShape DEF Others, Become, Alike

\* A command goes on while the file it was writing is completed or given up.
LEMMA BecomeGoes ==
  ASSUME NEW i \in Procs, NEW new \in Contents, NEW phase \in Steps, run \in [Procs -> Runs],
         run' = HeldBecome([run EXCEPT ![i].phase = phase], i, new), run[i].held # i
  PROVE  /\ Others(i, new) /\ run'[i].phase = phase /\ run'[i].held = run[i].held
         /\ run'[i].action = run[i].action /\ run'[i].path = run[i].path /\ run'[i].release = run[i].release
         /\ (run'[i].quiet <=> run[i].quiet)
<1>1. PICK runs : runs = [run EXCEPT ![i].phase = phase]
  OBVIOUS
<1>2. /\ runs \in [Procs -> Runs] /\ \A j \in Procs \ {i} : runs[j] = run[j]
      /\ runs[i].phase = phase /\ runs[i].held = run[i].held
      /\ runs[i].action = run[i].action /\ runs[i].path = run[i].path /\ runs[i].release = run[i].release
      /\ (runs[i].quiet <=> run[i].quiet)
  <2>1. run[i] \in Runs /\ [run[i] EXCEPT !.phase = phase] \in Runs
    BY DEF Runs
  <2> QED BY <1>1, <2>1 DEF Runs
<1>3. run' = HeldBecome(runs, i, new)
  BY <1>1
<1>4. run' \in [Procs -> Runs] /\ \A j \in Procs : Alike(run'[j], runs[j]) /\ run'[j].held = Become(runs[j].held, i, new)
  BY <1>2, <1>3, BecomeShape
<1>5. Others(i, new)
  BY <1>2, <1>4 DEF Others
<1> QED BY <1>2, <1>4, <1>5 DEF Alike, Become

\* Only a command that has moved the file of i away sees it change.
LEMMA OthersHold ==
  ASSUME NEW i \in Procs, NEW new \in Contents \ {None}, Others(i, new), NEW j \in Procs \ {i}
  PROVE  /\ run[j].held # i => run'[j].held = run[j].held
         /\ run[j].held = i => run'[j].held = new
         /\ run'[j].held = None <=> run[j].held = None
BY ContentsAssumption DEF Others, Alike, Become

\* The other commands are where they were, with something of the same kind in hand.
LEMMA OthersCommands ==
  ASSUME CommandInv, harness' = harness, NEW i \in Procs, NEW new \in Contents \ {None}, Others(i, new), CommandOk(i)'
  PROVE  CommandInv'
<1> SUFFICES ASSUME NEW j \in Procs, j # i
             PROVE  CommandOk(j)'
  BY DEF CommandInv
<1>1. CommandOk(j) /\ (harness = "opencode" \/ harness = "cline" \/ harness \notin {"opencode", "cline"})
  BY DEF CommandInv
<1>2. /\ run[j].held \in Releases \cup {"legacy"} => run'[j].held = run[j].held
      /\ run'[j].held = None <=> run[j].held = None
  BY OthersHold, ContentsAssumption
<1> QED BY <1>1, <1>2 DEF CommandOk, Others, Alike, Running, At

-----------------------------------------------------------------------------
(* Steps that leave the files and the receipt alone *)

\* What no step of a command changes.
Frame == UNCHANGED <<harness, plain, doc, rule, saved, mine>> /\ {commands', faults', edits'} \subseteq Nat

\* Every step of a command on whole files leaves the JSON files and the places of the user alone.
LEMMA FrameOfStep ==
  ASSUME WholeInv, Works \/ Fails, OnlyOwned \/ OnlyRun
  PROVE  Frame
<1>1. commands \in Nat /\ faults \in Nat /\ edits \in Nat
  BY DEF WholeInv, ShapeInv, TypeOK
<1>2. UNCHANGED <<harness, plain, doc, rule, saved, mine, commands, edits>>
  BY DEF OnlyOwned, OnlyRun, jsonVars, ownedVars, bounds
<1>3. faults' \in Nat
  BY <1>1 DEF Works, Fails
<1> QED BY <1>1, <1>2, <1>3 DEF Frame

\* The types of what a step leaves alone need no further look.
LEMMA ShapeKeeps ==
  ASSUME ShapeInv, Frame, run' \in [Procs -> Runs], \A j \in Procs : run'[j].held # None => Running(j)',
         lock' \in Procs \cup {None}, lock' # None => Running(lock)',
         file' \in [Paths -> Contents], receipt' \in [Paths -> Releases \cup {None}],
         left' \subseteq Contents \ {None}, excused' \subseteq saved \cup Paths, unrecorded' \subseteq Paths
  PROVE  ShapeInv'
<1>1. UNCHANGED <<harness, plain, doc, rule, saved, mine>> /\ {commands', faults', edits'} \subseteq Nat
  BY DEF Frame
<1>2. \A j \in Procs : run'[j].held \in Contents
  BY DEF Runs
<1>3. \A k \in DOMAIN doc' : DOMAIN doc'[k] = DOMAIN NewGroup
  BY <1>1 DEF ShapeInv, TypeOK
<1>4. /\ harness' \in Harnesses /\ plain' \in BOOLEAN /\ rule' \in {None, "canonical", "modified"}
      /\ mine' \in [Paths -> Foreign \cup {None}] /\ harness' \notin Json /\ doc' = <<>> /\ rule' = None
      /\ excused' \subseteq saved' \cup Paths
  BY <1>1 DEF ShapeInv, TypeOK
<1> QED BY <1>1, <1>2, <1>3, <1>4 DEF ShapeInv, TypeOK

\* A command ends and hands over nothing: what it held is under a quarantine name or was
\* ours, and what it had still to record counts as unrecorded.
LEMMA EndKeeps ==
  ASSUME WholeInv, Frame, NEW i \in Procs, NEW failed \in BOOLEAN, Ends(i, failed), Unlock(i), EndInv',
         Running(i), ~At(i, "write"), UNCHANGED <<file, receipt, excused>>,
         left \subseteq left', left' \subseteq Contents \ {None}, run[i].held \in left' \cup {None, "legacy"} \cup Releases,
         unrecorded \subseteq unrecorded', unrecorded' \subseteq Paths, Replacing(i) => run[i].path \in unrecorded'
  PROVE  WholeInv'
<1>1. /\ ShapeInv /\ CommandInv /\ LockInv /\ KeepInv /\ WriterInv
      /\ ReceiptInv /\ HolderInv /\ ListInv /\ QuietInv
  BY DEF WholeInv
<1>2. UNCHANGED <<harness, plain, doc, rule, saved, mine>> /\ {commands', faults', edits'} \subseteq Nat
  BY DEF Frame
<1>3. /\ run' \in [Procs -> Runs] /\ \A j \in Procs \ {i} : run'[j] = run[j]
      /\ run'[i].phase = "done" /\ run'[i].held = None /\ (run'[i].quiet => run[i].quiet)
  BY DEF Ends, Alters
<1>4. lock' = IF lock = i THEN None ELSE lock
  BY <1>3 DEF Unlock
<1>5. ShapeInv'
  <2>1. lock' \in Procs \cup {None} /\ (lock' # None => Running(lock)')
    BY <1>1, <1>3, <1>4 DEF ShapeInv, TypeOK, Running, At
  <2>2. \A j \in Procs : run'[j].held # None => Running(j)'
    BY <1>1, <1>3 DEF ShapeInv, TypeOK, Running, At
  <2>3. /\ file' \in [Paths -> Contents] /\ receipt' \in [Paths -> Releases \cup {None}]
        /\ excused' \subseteq saved \cup Paths
    BY <1>1 DEF ShapeInv, TypeOK
  <2> QED BY <1>1, <1>3, <2>1, <2>2, <2>3, ShapeKeeps
<1>6. CommandInv'
  BY <1>1, <1>2, <1>3 DEF CommandInv, CommandOk, Running, At
<1>7. LockInv'
  BY <1>1, <1>2, <1>3, <1>4, ContentsAssumption DEF LockInv, Locked
<1>8. KeepInv'
  BY <1>1, <1>2, <1>3, ContentsAssumption DEF KeepInv, ShapeInv, TypeOK, Foreign
<1>9. WriterInv'
  BY <1>1, <1>2, <1>3, ContentsAssumption DEF WriterInv, At
<1>10. ReceiptInv'
  BY <1>1, <1>2, <1>3 DEF ReceiptInv, Replacing
<1>11. HolderInv'
  BY <1>1, <1>2, <1>3, ContentsAssumption DEF HolderInv, Replacing, At
<1>12. ListInv'
  BY <1>1, <1>2, <1>3 DEF ListInv, Locked, At
<1>13. QuietInv'
  BY <1>1, <1>2, <1>3 DEF QuietInv, Replacing, At, Running
<1> QED BY <1>5, <1>6, <1>7, <1>8, <1>9, <1>10, <1>11, <1>12, <1>13 DEF WholeInv

\* A command that ends in failure gives no account.
LEMMA FailureHonest ==
  ASSUME WholeInv, Frame, NEW i \in Procs, Ends(i, TRUE), Running(i), UNCHANGED <<file, receipt>>
  PROVE  EndInv'
BY DEF WholeInv, EndInv, QuietInv, Ends, Alters, Alone, At, Running, NoReceipt, Frame

\* An uninstall of OpenCode turns to the next place: after the plugin of this one was
\* removed, or after it failed.
LEMMA TurnKeeps ==
  ASSUME WholeInv, Frame, NEW i \in Procs, NEW failed \in BOOLEAN, Turns(i, failed),
         harness = "opencode", run[i].action = "uninstall", run[i].phase \in {"isolate", "recheck", "restore", "discard"},
         failed \/ At(i, "discard"), UNCHANGED <<file, receipt, lock, excused, unrecorded>>,
         left \subseteq left', left' \subseteq Contents \ {None}, run[i].held \in left' \cup {None, "legacy"} \cup Releases
  PROVE  WholeInv'
<1>1. /\ ShapeInv /\ CommandInv /\ LockInv /\ KeepInv /\ WriterInv
      /\ ReceiptInv /\ HolderInv /\ ListInv /\ QuietInv /\ EndInv
  BY DEF WholeInv
<1>2. UNCHANGED <<harness, plain, doc, rule, saved, mine>> /\ {commands', faults', edits'} \subseteq Nat
  BY DEF Frame
<1>3. /\ run' \in [Procs -> Runs] /\ \A j \in Procs \ {i} : run'[j] = run[j]
      /\ run'[i].phase = "place" /\ run'[i].held = None /\ (run'[i].quiet <=> run[i].quiet)
      /\ run'[i].action = run[i].action /\ run'[i].path = run[i].path /\ run'[i].release = run[i].release
      /\ run'[i].todo = run[i].todo /\ run'[i].known = run[i].known /\ (run'[i].failed <=> run[i].failed \/ failed)
  BY DEF Turns, Alters
<1>4. run[i].path \in Paths /\ run[i].release \in Releases
  BY <1>1 DEF CommandInv, CommandOk, Running, At
<1>5. ShapeInv'
  <2>1. lock' \in Procs \cup {None} /\ (lock' # None => Running(lock)')
    BY <1>1, <1>3 DEF ShapeInv, TypeOK, Running, At
  <2>2. \A j \in Procs : run'[j].held # None => Running(j)'
    BY <1>1, <1>3 DEF ShapeInv, TypeOK, Running, At
  <2>3. /\ file' \in [Paths -> Contents] /\ receipt' \in [Paths -> Releases \cup {None}]
        /\ excused' \subseteq saved \cup Paths /\ unrecorded' \subseteq Paths
    BY <1>1 DEF ShapeInv, TypeOK
  <2> QED BY <1>1, <1>3, <2>1, <2>2, <2>3, ShapeKeeps
<1>6. CommandInv'
  BY <1>1, <1>2, <1>3, <1>4 DEF CommandInv, CommandOk, Running, At
<1>7. LockInv'
  BY <1>1, <1>2, <1>3 DEF LockInv, Locked
<1>8. KeepInv'
  BY <1>1, <1>2, <1>3, ContentsAssumption DEF KeepInv, ShapeInv, TypeOK, Foreign
<1>9. WriterInv'
  BY <1>1, <1>2, <1>3, ContentsAssumption DEF WriterInv, At
<1>10. ReceiptInv'
  BY <1>1, <1>2, <1>3 DEF ReceiptInv, Replacing
<1>11. HolderInv'
  BY <1>1, <1>2, <1>3, ContentsAssumption DEF HolderInv, Replacing, At
<1>12. ListInv'
  BY <1>1, <1>2, <1>3 DEF ListInv, Locked, At
<1>13. QuietInv'
  BY <1>1, <1>2, <1>3 DEF QuietInv, Replacing, At, Running
<1>14. EndInv'
  BY <1>1, <1>2, <1>3 DEF EndInv, Alone, At, NoReceipt
<1> QED BY <1>5, <1>6, <1>7, <1>8, <1>9, <1>10, <1>11, <1>12, <1>13, <1>14 DEF WholeInv

\* A command goes on with another step and has changed nothing else.
LEMMA GoKeeps ==
  ASSUME WholeInv, Frame, NEW i \in Procs, NEW phase \in Steps \ {"done"}, Moves(i, phase),
         Running(i), ~At(i, "write"), ~Replacing(i), phase # "write",
         UNCHANGED <<file, left, receipt, excused, unrecorded>>, lock' \in {lock, i}
  PROVE  ShapeInv' /\ KeepInv' /\ WriterInv' /\ ReceiptInv' /\ EndInv'
<1>1. ShapeInv /\ CommandInv /\ KeepInv /\ WriterInv /\ ReceiptInv /\ EndInv
  BY DEF WholeInv
<1>2. UNCHANGED <<harness, plain, doc, rule, saved, mine>> /\ {commands', faults', edits'} \subseteq Nat
  BY DEF Frame
<1>3. /\ run' \in [Procs -> Runs] /\ \A j \in Procs \ {i} : run'[j] = run[j]
      /\ run'[i].phase = phase /\ run'[i].held = run[i].held /\ run'[i].action = run[i].action
      /\ run'[i].path = run[i].path \/ run[i].held = None
  BY DEF Moves, Alters
<1>4. ShapeInv'
  <2>1. lock' \in Procs \cup {None} /\ (lock' # None => Running(lock)')
    BY <1>1, <1>3 DEF ShapeInv, TypeOK, Running, At
  <2>2. \A j \in Procs : run'[j].held # None => Running(j)'
    BY <1>1, <1>3 DEF ShapeInv, TypeOK, Running, At
  <2>3. /\ file' \in [Paths -> Contents] /\ receipt' \in [Paths -> Releases \cup {None}]
        /\ left' \subseteq Contents \ {None} /\ excused' \subseteq saved \cup Paths /\ unrecorded' \subseteq Paths
    BY <1>1 DEF ShapeInv, TypeOK
  <2> QED BY <1>1, <1>3, <2>1, <2>2, <2>3, ShapeKeeps
<1>5. KeepInv'
  BY <1>1, <1>2, <1>3 DEF KeepInv, ShapeInv, TypeOK
<1>6. WriterInv'
  BY <1>1, <1>2, <1>3 DEF WriterInv, At
<1>7. ReceiptInv'
  BY <1>1, <1>2, <1>3 DEF ReceiptInv, Replacing
<1>8. EndInv'
  BY <1>1, <1>2, <1>3 DEF EndInv, Alone, At, NoReceipt
<1> QED BY <1>4, <1>5, <1>6, <1>7, <1>8

-----------------------------------------------------------------------------
(* The steps before the file is touched *)

\* Inspect: nothing moves; what is known goes on to be isolated, the rest ends the command.
LEMMA InspectKeeps ==
  ASSUME WholeInv, NEW i \in Procs, Inspect(i)
  PROVE  WholeInv'
<1>1. /\ ShapeInv /\ CommandInv /\ LockInv /\ KeepInv /\ WriterInv
      /\ ReceiptInv /\ HolderInv /\ ListInv /\ QuietInv /\ EndInv
  BY DEF WholeInv
<1>2. run \in [Procs -> Runs] /\ harness \in {"cline", "opencode"} /\ left \subseteq Contents \ {None} /\ unrecorded \subseteq Paths
  BY <1>1, ConstantsAssumption DEF ShapeInv, TypeOK, Json
<1>3. /\ At(i, "inspect") /\ Frame /\ Running(i) /\ UNCHANGED <<file, left, receipt, lock, excused, unrecorded>>
  BY FrameOfStep DEF Inspect, OnlyRun, ownedVars, Works, At, Running
<1>4. /\ run[i].held = None /\ run[i].path \in Paths /\ run[i].release \in Releases /\ lock # i
      /\ run[i].action \in {"install", "uninstall"} /\ (harness = "opencode" => run[i].action = "uninstall")
  BY <1>1, <1>2, <1>3 DEF CommandInv, CommandOk, LockInv, Locked, At, Running, Runs
<1>5. CASE \E phase \in {"create", "lock", "isolate"} :
             /\ Goes(i, phase)
             /\ phase = "create" => harness = "cline" /\ run[i].action = "install"
             /\ phase = "isolate" => harness = "cline" /\ run[i].action = "uninstall"
             /\ phase = "lock" => harness = "opencode" 
  <2>1. PICK phase \in {"create", "lock", "isolate"} :
             /\ Goes(i, phase)
             /\ phase = "create" => harness = "cline" /\ run[i].action = "install"
             /\ phase = "isolate" => harness = "cline" /\ run[i].action = "uninstall"
             /\ phase = "lock" => harness = "opencode" 
    BY <1>5
  <2>2. /\ run' \in [Procs -> Runs] /\ \A j \in Procs \ {i} : run'[j] = run[j]
        /\ run'[i].phase = phase /\ run'[i].held = None /\ run'[i].action = run[i].action
        /\ run'[i].path = run[i].path /\ run'[i].release = run[i].release /\ (run'[i].quiet <=> run[i].quiet)
        /\ Moves(i, phase)
    BY <1>4, <2>1 DEF Goes, Moves, Alters
  <2>3. UNCHANGED <<harness, file, receipt, unrecorded, lock>>
    BY <1>3 DEF Frame
  <2>4. ShapeInv' /\ KeepInv' /\ WriterInv' /\ ReceiptInv' /\ EndInv'
    BY <1>3, <2>2, <2>3, GoKeeps DEF At, Replacing, Steps, Locked
  <2>5. CommandInv'
    BY <1>1, <1>4, <2>1, <2>2, <2>3 DEF CommandInv, CommandOk, Running, At
  <2>6. LockInv'
    BY <1>1, <1>4, <2>1, <2>2, <2>3 DEF LockInv, Locked
  <2>7. HolderInv'
    BY <1>1, <1>2, <2>1, <2>2, <2>3, ContentsAssumption DEF HolderInv, Replacing, At
  <2>8. ListInv'
    BY <1>1, <1>2, <2>1, <2>2, <2>3 DEF ListInv, Locked, At
  <2>9. QuietInv'
    BY <1>1, <1>3, <2>1, <2>2, <2>3 DEF QuietInv, Replacing, At, Running
  <2> QED BY <2>4, <2>5, <2>6, <2>7, <2>8, <2>9 DEF WholeInv
<1>6. CASE \E failed \in BOOLEAN : Ends(i, failed) /\ EndInv'
  BY <1>2, <1>3, <1>4, <1>6, EndKeeps DEF Unlock, At, Replacing
<1>7. CASE run[i].action = "install" /\ file[run[i].path] = None
  <2>1. run' = [run EXCEPT ![i].phase = "create"]
    BY <1>7 DEF Inspect
  <2> QED BY <1>2, <1>4, <1>5, <1>7, <2>1, GoesShape DEF Steps, Locked
<1>8. CASE run[i].action = "install" /\ file[run[i].path] # None
  <2>1. PICK failed \in BOOLEAN : failed = (file[run[i].path] # run[i].release)
    OBVIOUS
  <2>2. Ends(i, failed)
    BY <1>2, <1>8, <2>1, EndsShape DEF Inspect
  <2>3. EndInv'
    <3>1. run'[i].quiet => file[run[i].path] = run[i].release /\ harness = "cline"
      BY <1>2, <1>4, <1>8, <2>1, <2>2 DEF Ends
    <3> QED BY <1>1, <1>3, <1>4, <1>8, <2>2, <3>1 DEF Ends, Alters, EndInv, Alone, At, NoReceipt, Frame
  <2> QED BY <1>6, <2>2, <2>3
<1>9. CASE run[i].action = "uninstall" /\ harness = "opencode" /\ receipt # NoReceipt
  <2>1. run' = [run EXCEPT ![i].phase = "lock"]
    BY <1>9 DEF Inspect
  <2> QED BY <1>2, <1>5, <1>9, <2>1, GoesShape DEF Steps
<1>10. CASE /\ run[i].action = "uninstall" /\ ~(harness = "opencode" /\ receipt # NoReceipt)
            /\ Known(i, run[i].path, file[run[i].path])
  <2>1. run' = [run EXCEPT ![i].phase = IF harness = "cline" THEN "isolate" ELSE "lock"]
    BY <1>10 DEF Inspect
  <2> QED BY <1>2, <1>5, <1>10, <2>1, GoesShape DEF Steps, Locked
<1>11. CASE /\ run[i].action = "uninstall" /\ ~(harness = "opencode" /\ receipt # NoReceipt)
            /\ ~Known(i, run[i].path, file[run[i].path])
  <2>1. PICK failed \in BOOLEAN : failed = Claimed(file[run[i].path])
    BY DEF Claimed
  <2>2. Ends(i, failed)
    BY <1>2, <1>11, <2>1, EndsShape DEF Inspect
  <2>3. CASE harness = "cline"
    <3>1. file[run[i].path] \notin {"legacy", run[i].release}
      BY <1>11, <2>3 DEF Known
    <3>2. EndInv'
      BY <1>1, <1>3, <1>4, <1>11, <2>2, <2>3, <3>1 DEF Ends, Alters, EndInv, Alone, At, NoReceipt, Frame
    <3> QED BY <1>6, <2>2, <3>2
  <2>4. CASE harness = "opencode"
    <3>1. \A p \in Paths : file[p] \notin Releases
      BY <1>1, <1>11, <2>4 DEF ReceiptInv, NoReceipt
    <3>2. EndInv'
      BY <1>1, <1>2, <1>3, <1>4, <1>11, <2>2, <2>4, <3>1 DEF Ends, Alters, EndInv, Alone, At, NoReceipt, Frame
    <3> QED BY <1>6, <2>2, <3>2
  <2> QED BY <1>2, <1>6, <2>2, <2>3, <2>4
<1> QED BY <1>4, <1>7, <1>8, <1>9, <1>10, <1>11

\* Lock: the receipt that the holder knows is the one that is there.
LEMMA LockKeeps ==
  ASSUME WholeInv, NEW i \in Procs, Lock(i)
  PROVE  WholeInv'
<1>1. /\ ShapeInv /\ CommandInv /\ LockInv /\ KeepInv /\ WriterInv
      /\ ReceiptInv /\ HolderInv /\ ListInv /\ QuietInv /\ EndInv
  BY DEF WholeInv
<1>2. /\ run \in [Procs -> Runs] /\ harness \in {"cline", "opencode"} /\ receipt \in [Paths -> Releases \cup {None}]
      /\ left \subseteq Contents \ {None} /\ unrecorded \subseteq Paths
  BY <1>1, ConstantsAssumption DEF ShapeInv, TypeOK, Json
<1>3. /\ At(i, "lock") /\ lock = None /\ Running(i) /\ UNCHANGED <<file, left, receipt, excused, unrecorded>>
      /\ Frame
  BY FrameOfStep DEF Lock, At, Running
<1>4. /\ run[i].held = None /\ run[i].path \in Paths /\ run[i].release \in Releases /\ harness = "opencode"
      /\ run[i].action \in {"install", "uninstall"} 
  BY <1>1, <1>2, <1>3 DEF CommandInv, CommandOk, At, Running, Runs
<1>5. ASSUME NEW j \in Procs
      PROVE  run[j].phase \notin Locked
  BY <1>1, <1>3, <1>4, ContentsAssumption DEF LockInv
<1>6. CASE Works /\ lock' = i
  <2>1. PICK phase \in {"look", "place"}, todo \in SUBSET Paths :
             /\ run' = [run EXCEPT ![i].known = receipt, ![i].phase = phase, ![i].todo = todo]
             /\ phase = "look" => run[i].action = "install"
             /\ phase = "place" => run[i].action = "uninstall" /\ todo = ToClear(i)
    <3>1. ToClear(i) \in SUBSET Paths
      BY <1>4 DEF ToClear
    <3>0. run' = [run EXCEPT ![i].known = receipt, ![i].phase = IF run[i].action = "install" THEN "look" ELSE "place",
                            ![i].todo = IF run[i].action = "install" THEN {} ELSE ToClear(i)]
      BY <1>3, <1>6, ContentsAssumption DEF Lock
    <3>2. PICK todo : todo = IF run[i].action = "install" THEN {} ELSE ToClear(i)
      OBVIOUS
    <3>3. PICK phase : phase = IF run[i].action = "install" THEN "look" ELSE "place"
      OBVIOUS
    <3>4. todo \in SUBSET Paths /\ phase \in {"look", "place"}
      BY <3>1, <3>2, <3>3
    <3> QED BY <1>4, <3>0, <3>2, <3>3, <3>4
  <2>2. [run[i] EXCEPT !.known = receipt, !.phase = phase, !.todo = todo] \in Runs
    <3>1. run[i] \in Runs /\ phase \in Steps
      BY <1>2 DEF Steps, Locked
    <3> QED BY <1>2, <3>1 DEF Runs
  <2>3. /\ run' \in [Procs -> Runs] /\ \A j \in Procs \ {i} : run'[j] = run[j]
        /\ run'[i].phase = phase /\ run'[i].held = None /\ run'[i].action = run[i].action
        /\ run'[i].path = run[i].path /\ run'[i].release = run[i].release /\ (run'[i].quiet <=> run[i].quiet)
        /\ run'[i].known = receipt /\ run'[i].todo = todo
    BY <1>2, <1>4, <2>1, <2>2 DEF Runs
  <2>4. ShapeInv' /\ KeepInv' /\ WriterInv' /\ ReceiptInv' /\ EndInv'
    BY <1>3, <1>4, <1>6, <2>3, GoKeeps DEF At, Replacing, Steps, Locked, Moves, Alters
  <2>5. UNCHANGED <<harness, file, receipt, unrecorded>>
    BY <1>3 DEF Frame
  <2>6. CommandInv'
    BY <1>1, <1>4, <2>1, <2>3, <2>5 DEF CommandInv, CommandOk, Running, At
  <2>7. LockInv'
    BY <1>1, <1>4, <1>5, <1>6, <2>3, <2>5 DEF LockInv, Locked
  <2>8. HolderInv'
    BY <1>1, <1>2, <2>3, <2>5, ContentsAssumption DEF HolderInv, Replacing, At
  <2>9. ListInv'
    <3>1. run[i].action = "uninstall" => \A p \in Paths : file[p] \in Releases => p \in todo
      BY <1>1, <1>4, <2>1 DEF ReceiptInv, ToClear
    <3> QED BY <1>5, <2>3, <2>5, <3>1 DEF ListInv, At
  <2>10. QuietInv'
    BY <1>1, <1>3, <2>3, <2>5 DEF QuietInv, Replacing, At, Running
  <2> QED BY <2>4, <2>6, <2>7, <2>8, <2>9, <2>10 DEF WholeInv
<1>7. CASE Fails /\ run' = Ended(i, TRUE) /\ lock' = lock
  <2>1. Ends(i, TRUE)
    BY <1>2, <1>7, EndsShape
  <2>2. Unlock(i)
    BY <1>3, <1>7, ContentsAssumption DEF Unlock
  <2> QED BY <1>2, <1>3, <1>4, <2>1, <2>2, FailureHonest, EndKeeps DEF At, Replacing
<1> QED BY <1>6, <1>7 DEF Lock

\* Look: the holder of the lock has seen what is at its place.
LEMMA LookKeeps ==
  ASSUME WholeInv, NEW i \in Procs, Look(i)
  PROVE  WholeInv'
<1>1. /\ ShapeInv /\ CommandInv /\ LockInv /\ KeepInv /\ WriterInv
      /\ ReceiptInv /\ HolderInv /\ ListInv /\ QuietInv /\ EndInv
  BY DEF WholeInv
<1>2. /\ run \in [Procs -> Runs] /\ harness \in {"cline", "opencode"}
      /\ left \subseteq Contents \ {None} /\ unrecorded \subseteq Paths
  BY <1>1, ConstantsAssumption DEF ShapeInv, TypeOK, Json
<1>3. /\ At(i, "look") /\ Running(i) /\ UNCHANGED <<file, left, receipt, excused, unrecorded>> /\ Frame
      /\ run' = Found(i, file[run[i].path]) /\ Unlock(i)
  BY FrameOfStep DEF Look, At, Running
<1>4. /\ run[i].held = None /\ run[i].path \in Paths /\ run[i].release \in Releases /\ harness = "opencode"
      /\ run[i].action = "install" /\ lock = i
  BY <1>1, <1>2, <1>3 DEF CommandInv, CommandOk, LockInv, Locked, At, Running, Runs
<1>5. CASE \E phase \in {"record", "confirm", "isolate"} :
             /\ run' = [run EXCEPT ![i].phase = phase]
             /\ phase = "record" => file[run[i].path] = None
             /\ phase = "confirm" => file[run[i].path] = run[i].release
  <2>1. PICK phase \in {"record", "confirm", "isolate"} :
             /\ run' = [run EXCEPT ![i].phase = phase]
             /\ phase = "record" => file[run[i].path] = None
             /\ phase = "confirm" => file[run[i].path] = run[i].release
    BY <1>5
  <2>2. Goes(i, phase)
    BY <1>2, <2>1, GoesShape DEF Steps, Locked
  <2>3. /\ run' \in [Procs -> Runs] /\ \A j \in Procs \ {i} : run'[j] = run[j]
        /\ run'[i].phase = phase /\ run'[i].held = None /\ run'[i].action = run[i].action
        /\ run'[i].path = run[i].path /\ run'[i].release = run[i].release /\ (run'[i].quiet <=> run[i].quiet)
        /\ Moves(i, phase)
    BY <1>4, <2>2 DEF Goes, Moves, Alters
  <2>4. UNCHANGED <<harness, file, receipt, unrecorded, lock>>
    BY <1>3, <2>3 DEF Frame, Unlock
  <2>5. /\ phase = "record" => file[run[i].path] = None
        /\ phase = "confirm" => file[run[i].path] = run[i].release
    BY <2>1
  <2>6. ShapeInv' /\ KeepInv' /\ WriterInv' /\ ReceiptInv' /\ EndInv'
    BY <1>3, <2>3, <2>4, GoKeeps DEF At, Replacing, Steps, Locked
  <2>7. CommandInv'
    BY <1>1, <1>4, <2>3, <2>4 DEF CommandInv, CommandOk, Running, At
  <2>8. LockInv'
    BY <1>1, <1>4, <2>3, <2>4 DEF LockInv, Locked
  <2>9. HolderInv'
    BY <1>1, <1>4, <2>3, <2>4, <2>5, ContentsAssumption DEF HolderInv, Replacing, At
  <2>10. ListInv'
    BY <1>1, <1>4, <2>3, <2>4 DEF ListInv, Locked, At
  <2>11. QuietInv'
    <3>1. \A j \in Procs \ {i} : ~run[j].quiet /\ (run[i].quiet => ~Running(j))
      BY <1>1, <1>3 DEF QuietInv
    <3> QED BY <1>4, <2>3, <2>4, <2>5, <3>1 DEF QuietInv, Replacing, At, Running
  <2> QED BY <2>6, <2>7, <2>8, <2>9, <2>10, <2>11 DEF WholeInv
<1>6. CASE run' = Ended(i, TRUE)
  BY <1>2, <1>3, <1>4, <1>6, EndsShape, FailureHonest, EndKeeps DEF At, Replacing
<1>7. CASE file[run[i].path] = None
  <2>1. run' = [run EXCEPT ![i].phase = "record"]
    BY <1>3, <1>4, <1>7, ContentsAssumption DEF Found, Known
  <2> QED BY <1>5, <1>7, <2>1
<1>8. CASE file[run[i].path] = run[i].release
  <2>1. run' = [run EXCEPT ![i].phase = "confirm"]
    BY <1>3, <1>4, <1>8, ContentsAssumption DEF Found
  <2> QED BY <1>5, <1>8, <2>1
<1>9. CASE file[run[i].path] \notin {None, run[i].release} /\ Known(i, run[i].path, file[run[i].path])
  <2>1. run' = [run EXCEPT ![i].phase = "isolate"]
    BY <1>3, <1>4, <1>9 DEF Found
  <2> QED BY <1>5, <2>1
<1>10. CASE file[run[i].path] \notin {None, run[i].release} /\ ~Known(i, run[i].path, file[run[i].path])
  <2>1. run' = Ended(i, TRUE)
    BY <1>3, <1>4, <1>10 DEF Found
  <2> QED BY <1>6, <2>1
<1> QED BY <1>7, <1>8, <1>9, <1>10

\* Place: a place is struck off the list only when it has no plugin that is known.
LEMMA PlaceKeeps ==
  ASSUME WholeInv, NEW i \in Procs, Place(i)
  PROVE  WholeInv'
<1>1. /\ ShapeInv /\ CommandInv /\ LockInv /\ KeepInv /\ WriterInv
      /\ ReceiptInv /\ HolderInv /\ ListInv /\ QuietInv /\ EndInv
  BY DEF WholeInv
<1>2. /\ run \in [Procs -> Runs] /\ run[i] \in Runs /\ harness \in {"cline", "opencode"}
      /\ left \subseteq Contents \ {None} /\ unrecorded \subseteq Paths
  BY <1>1, ConstantsAssumption DEF ShapeInv, TypeOK, Json
<1>3. /\ At(i, "place") /\ Running(i) /\ UNCHANGED <<file, left, excused, unrecorded>> /\ Frame
  BY FrameOfStep DEF Place, At, Running
<1>4. /\ run[i].held = None /\ run[i].path \in Paths /\ run[i].release \in Releases /\ harness = "opencode"
      /\ run[i].action = "uninstall" /\ lock = i /\ run[i].todo \subseteq Paths /\ run[i].known = receipt
  BY <1>1, <1>2, <1>3 DEF CommandInv, CommandOk, LockInv, ListInv, Locked, At, Running, Runs
<1>5. UNCHANGED <<harness, plain, doc, rule, saved, mine>> /\ {commands', faults', edits'} \subseteq Nat
  BY <1>3 DEF Frame
<1>6. ASSUME NEW p \in run[i].todo, Works, UNCHANGED <<receipt, lock>>,
             LET gone == [run EXCEPT ![i].todo = @ \ {p}, ![i].path = p]
                 ours == Known(i, p, file[p])
             IN  run' = CASE ours -> [gone EXCEPT ![i].phase = "isolate"]
                          [] ~ours /\ file[p] # None /\ run[i].known[p] # None -> [gone EXCEPT ![i].failed = TRUE]
                          [] OTHER -> gone
      PROVE  WholeInv'
  <2> DEFINE gone == [run EXCEPT ![i].todo = @ \ {p}, ![i].path = p]
  <2>1. p \in Paths /\ receipt' = receipt /\ lock' = lock
    BY <1>4, <1>6
  <2>2. gone \in [Procs -> Runs]
    <3>1. [run[i] EXCEPT !.todo = @ \ {p}, !.path = p] \in Runs
      BY <1>2, <1>4, <2>1 DEF Runs
    <3> QED BY <1>2, <3>1
  <2>3. /\ \A j \in Procs \ {i} : gone[j] = run[j]
        /\ gone[i].phase = "place" /\ gone[i].held = None /\ gone[i].action = "uninstall"
        /\ gone[i].release = run[i].release /\ gone[i].path = p /\ gone[i].todo = run[i].todo \ {p}
        /\ gone[i].known = receipt /\ (gone[i].quiet <=> run[i].quiet) /\ (gone[i].failed <=> run[i].failed)
    BY <1>2, <1>3, <1>4 DEF Runs, At
  <2>4. PICK phase \in {"isolate", "place"} :
          /\ Alters(i) /\ run'[i].phase = phase /\ run'[i].held = None /\ run'[i].action = "uninstall"
          /\ run'[i].release = run[i].release /\ run'[i].path = p /\ run'[i].todo = run[i].todo \ {p}
          /\ run'[i].known = receipt /\ (run'[i].quiet <=> run[i].quiet) /\ (run[i].failed => run'[i].failed)
          /\ file[p] \in Releases => phase = "isolate" \/ run'[i].failed
    <3> HIDE DEF gone
    <3>1. CASE Known(i, p, file[p])
      <4>1. run' = [gone EXCEPT ![i].phase = "isolate"]
        BY <1>6, <3>1 DEF gone
      <4>2. gone[i] \in Runs /\ run'[i] = [gone[i] EXCEPT !.phase = "isolate"] /\ \A j \in Procs \ {i} : run'[j] = run[j]
        BY <2>2, <2>3, <4>1
      <4>3. "isolate" \in Steps
        BY DEF Steps, Locked
      <4>4. /\ run'[i] \in Runs /\ run'[i].phase = "isolate" /\ run'[i].held = None /\ run'[i].action = "uninstall"
            /\ run'[i].release = run[i].release /\ run'[i].path = p /\ run'[i].todo = run[i].todo \ {p}
            /\ run'[i].known = receipt /\ (run'[i].quiet <=> run[i].quiet) /\ (run'[i].failed <=> run[i].failed)
        BY <2>3, <4>2, <4>3, PhaseSet
      <4>5. Alters(i)
        BY <2>2, <4>1, <4>2, <4>4 DEF Alters
      <4> QED BY <4>4, <4>5
    <3>2. CASE ~Known(i, p, file[p]) /\ file[p] # None /\ run[i].known[p] # None
      <4>1. run' = [gone EXCEPT ![i].failed = TRUE]
        BY <1>6, <3>2 DEF gone
      <4>2. gone[i] \in Runs /\ run'[i] = [gone[i] EXCEPT !.failed = TRUE] /\ \A j \in Procs \ {i} : run'[j] = run[j]
        BY <2>2, <2>3, <4>1
      <4>3. /\ run'[i] \in Runs /\ run'[i].phase = "place" /\ run'[i].held = None /\ run'[i].action = "uninstall"
            /\ run'[i].release = run[i].release /\ run'[i].path = p /\ run'[i].todo = run[i].todo \ {p}
            /\ run'[i].known = receipt /\ (run'[i].quiet <=> run[i].quiet) /\ run'[i].failed
        BY <2>3, <4>2, FailedSet
      <4>4. Alters(i)
        BY <2>2, <4>1, <4>2, <4>3 DEF Alters
      <4> QED BY <4>3, <4>4
    <3>3. CASE ~Known(i, p, file[p]) /\ ~(file[p] # None /\ run[i].known[p] # None)
      <4>1. run' = gone
        BY <1>6, <3>3 DEF gone
      <4>2. file[p] \notin Releases
        BY <1>1, <1>4, <2>1, <3>3, ContentsAssumption DEF ReceiptInv
      <4> QED BY <2>2, <2>3, <4>1, <4>2 DEF Alters
    <3> QED BY <3>1, <3>2, <3>3
  <2>5. run' \in [Procs -> Runs] /\ \A j \in Procs \ {i} : run'[j] = run[j]
    BY <2>4 DEF Alters
  <2> HIDE DEF gone
  <2>6. ShapeInv' /\ KeepInv' /\ WriterInv' /\ ReceiptInv' /\ EndInv'
    <3>1. Moves(i, phase)
      BY <1>4, <2>4 DEF Moves
    <3>2. phase \in Steps \ {"done"} /\ phase # "write" /\ ~At(i, "write") /\ ~Replacing(i)
      BY <1>3, <2>4 DEF At, Replacing, Steps, Locked
    <3>3. UNCHANGED <<file, left, receipt, excused, unrecorded>> /\ lock' \in {lock, i}
      BY <1>3, <2>1
    <3> QED BY <1>3, <3>1, <3>2, <3>3, GoKeeps
  <2>7. CommandInv'
    BY <1>1, <1>4, <1>5, <2>1, <2>4, <2>5 DEF CommandInv, CommandOk, Running, At
  <2>8. LockInv'
    <3>1. run'[i].phase \in Locked /\ harness = "opencode" /\ lock = i
      BY <1>4, <2>4 DEF Locked
    <3> QED BY <1>1, <1>5, <2>1, <2>5, <3>1 DEF LockInv
  <2>9. HolderInv'
    BY <1>1, <1>3, <1>5, <2>1, <2>4, <2>5, ContentsAssumption DEF HolderInv, Replacing, At
  <2>10. ListInv'
    <3>1. ~run'[i].failed => \A q \in Paths : file[q] \in Releases => q \in run'[i].todo \/ (phase = "isolate" /\ q = p)
      BY <1>1, <1>3, <1>4, <2>4 DEF ListInv, Locked, At
    <3> QED BY <1>1, <1>3, <1>5, <2>1, <2>4, <2>5, <3>1 DEF ListInv, At
  <2>11. QuietInv'
    BY <1>1, <1>3, <1>5, <2>4, <2>5 DEF QuietInv, Replacing, At, Running
  <2> QED BY <2>6, <2>7, <2>8, <2>9, <2>10, <2>11 DEF WholeInv
<1>7. CASE run[i].todo = {} /\ run' = Ended(i, FALSE) /\ Unlock(i) /\ receipt' = ReceiptAfter(i) /\ ~run[i].failed
  <2>1. /\ Ends(i, FALSE) /\ run' \in [Procs -> Runs] /\ \A j \in Procs \ {i} : run'[j] = run[j]
        /\ run'[i].phase = "done" /\ run'[i].held = None /\ (run'[i].quiet => run[i].quiet)
        /\ run'[i].action \in {"none", "uninstall"}
    BY <1>2, <1>4, <1>7, EndsShape DEF Ends, Alters
  <2>2. lock' = None /\ receipt' = NoReceipt /\ \A p \in Paths : file[p] \notin Releases
    BY <1>1, <1>3, <1>4, <1>7, <2>1 DEF Unlock, ReceiptAfter, ListInv, Locked, At
  <2>3. ASSUME NEW j \in Procs
        PROVE  run'[j].phase \notin Locked /\ run'[j].held = None
    BY <1>1, <1>4, <2>1 DEF LockInv, CommandInv, CommandOk, Locked
  <2>4. ShapeInv'
    <3>1. NoReceipt \in [Paths -> Releases \cup {None}]
      BY DEF NoReceipt
    <3> QED BY <1>1, <1>3, <2>1, <2>2, <2>3, <3>1, ShapeKeeps DEF ShapeInv, TypeOK
  <2>5. CommandInv'
    BY <1>1, <1>5, <2>1 DEF CommandInv, CommandOk, Running, At
  <2>6. LockInv'
    BY <2>2, <2>3, ContentsAssumption DEF LockInv
  <2>7. KeepInv'
    BY <1>1, <1>3, <1>4, <1>5, <2>1 DEF KeepInv, ShapeInv, TypeOK
  <2>8. WriterInv'
    BY <1>1, <1>3, <1>5, <2>1, <2>3, ContentsAssumption DEF WriterInv, At
  <2>9. ReceiptInv' /\ HolderInv' /\ ListInv'
    BY <1>3, <1>5, <2>2, <2>3, ContentsAssumption DEF ReceiptInv, HolderInv, ListInv, Locked, Replacing, At
  <2>10. QuietInv'
    BY <1>1, <1>3, <1>5, <2>1 DEF QuietInv, Replacing, At, Running
  <2>11. EndInv'
    BY <1>1, <1>3, <1>4, <1>5, <2>1, <2>2 DEF EndInv, QuietInv, Running, Alone, At
  <2> QED BY <2>4, <2>5, <2>6, <2>7, <2>8, <2>9, <2>10, <2>11 DEF WholeInv
<1>8. CASE \E failed \in BOOLEAN : run' = Ended(i, failed) /\ (failed \/ run[i].failed) /\ Unlock(i) /\ UNCHANGED receipt
  <2>1. PICK failed \in BOOLEAN : run' = Ended(i, failed) /\ (failed \/ run[i].failed) /\ Unlock(i) /\ UNCHANGED receipt
    BY <1>8
  <2>2. Ends(i, failed) /\ Ends(i, TRUE)
    BY <1>2, <2>1, EndsShape DEF Ends, Alters
  <2> QED BY <1>2, <1>3, <1>4, <2>1, <2>2, FailureHonest, EndKeeps DEF At, Replacing
<1>9. CASE run[i].todo = {} /\ run' = Ended(i, FALSE) /\ Unlock(i) /\ receipt' = ReceiptAfter(i) /\ run[i].failed
  BY <1>8, <1>9 DEF ReceiptAfter
<1>10. CASE run[i].todo = {} /\ Fails /\ run' = Ended(i, TRUE) /\ Unlock(i) /\ UNCHANGED receipt
  BY <1>8, <1>10
<1> QED BY <1>6, <1>7, <1>9, <1>10 DEF Place

-----------------------------------------------------------------------------
(* Creating and writing a file *)

\* Create: the place was free, so nothing of the user goes.
LEMMA CreateKeeps ==
  ASSUME WholeInv, NEW i \in Procs, Create(i)
  PROVE  WholeInv'
<1>1. /\ ShapeInv /\ CommandInv /\ LockInv /\ KeepInv /\ WriterInv
      /\ ReceiptInv /\ HolderInv /\ ListInv /\ QuietInv /\ EndInv
  BY DEF WholeInv
<1>2. /\ run \in [Procs -> Runs] /\ harness \in {"cline", "opencode"}
      /\ file \in [Paths -> Contents] /\ receipt \in [Paths -> Releases \cup {None}] /\ mine \in [Paths -> Foreign \cup {None}]
      /\ left \subseteq Contents \ {None} /\ unrecorded \subseteq Paths /\ excused \subseteq saved \cup Paths
  BY <1>1, ConstantsAssumption DEF ShapeInv, TypeOK, Json
<1>3. At(i, "create") /\ Running(i) /\ UNCHANGED <<left, receipt, excused, unrecorded>> /\ Frame
  BY FrameOfStep DEF Create, At, Running
<1>4. /\ run[i].path \in Paths /\ run[i].release \in Releases /\ run[i].action = "install"
      /\ harness = "cline" => run[i].held = None
      /\ lock = i <=> harness = "opencode"
  BY <1>1, <1>2, <1>3 DEF CommandInv, CommandOk, LockInv, Locked, At, Running
<1>5. UNCHANGED <<harness, plain, doc, rule, saved, mine>>
  BY <1>3 DEF Frame
<1>6. CASE /\ file[run[i].path] = None /\ file' = [file EXCEPT ![run[i].path] = i]
           /\ run' = [run EXCEPT ![i].phase = "write"] /\ lock' = lock
  <2>1. /\ run' \in [Procs -> Runs] /\ \A j \in Procs \ {i} : run'[j] = run[j]
        /\ run'[i].phase = "write" /\ run'[i].held = run[i].held /\ run'[i].action = "install"
        /\ run'[i].path = run[i].path /\ run'[i].release = run[i].release /\ (run'[i].quiet <=> run[i].quiet)
    <3>1. Goes(i, "write")
      BY <1>2, <1>6, GoesShape DEF Steps, Locked
    <3> QED BY <1>4, <3>1 DEF Goes, Moves, Alters
  <2>2. /\ file' \in [Paths -> Contents] /\ file'[run[i].path] = i
        /\ \A q \in Paths \ {run[i].path} : file'[q] = file[q]
    BY <1>2, <1>4, <1>6 DEF Contents
  <2>3. i \notin Releases \cup Foreign \cup {None}
    BY ContentsAssumption
  <2>4. ShapeInv'
    <3>1. lock' \in Procs \cup {None} /\ (lock' # None => Running(lock)')
      BY <1>1, <1>6, <2>1 DEF ShapeInv, TypeOK, Running, At
    <3>2. \A j \in Procs : run'[j].held # None => Running(j)'
      BY <1>1, <2>1 DEF ShapeInv, TypeOK, Running, At
    <3> QED BY <1>1, <1>2, <1>3, <2>1, <2>2, <3>1, <3>2, ShapeKeeps
  <2>5. CommandInv'
    BY <1>1, <1>3, <1>4, <1>5, <2>1 DEF CommandInv, CommandOk, Running, At
  <2>6. LockInv'
    BY <1>1, <1>4, <1>5, <1>6, <2>1 DEF LockInv, Locked
  <2>7. KeepInv'
    BY <1>1, <1>3, <1>5, <1>6, <2>1, <2>2 DEF KeepInv
  <2>8. WriterInv'
    BY <1>1, <1>3, <1>5, <2>1, <2>2 DEF WriterInv, At
  <2>9. ReceiptInv'
    BY <1>1, <1>3, <1>5, <2>1, <2>2, <2>3 DEF ReceiptInv, Replacing, At
  <2>10. HolderInv'
    BY <1>1, <1>3, <1>5, <2>1, <2>2, <2>3, ContentsAssumption DEF HolderInv, CommandInv, CommandOk, Replacing, At, Running
  <2>11. ListInv'
    BY <1>1, <1>3, <1>5, <2>1, <2>2, <2>3 DEF ListInv, Locked, At
  <2>12. QuietInv'
    BY <1>1, <1>3, <1>5, <2>1, <2>2 DEF QuietInv, Replacing, At, Running
  <2>13. EndInv'
    BY <1>1, <1>3, <1>4, <1>5, <2>1, <2>2 DEF EndInv, QuietInv, Alone, At, Running, NoReceipt
  <2> QED BY <2>4, <2>5, <2>6, <2>7, <2>8, <2>9, <2>10, <2>11, <2>12, <2>13 DEF WholeInv
<1>7. CASE run[i].held = None /\ run' = Ended(i, TRUE) /\ Unlock(i) /\ UNCHANGED file
  BY <1>2, <1>3, <1>7, EndsShape, FailureHonest, EndKeeps DEF At, Replacing
<1>8. CASE run[i].held # None /\ run' = [run EXCEPT ![i].phase = "restore"] /\ Unlock(i) /\ UNCHANGED file
  <2>1. /\ run' \in [Procs -> Runs] /\ \A j \in Procs \ {i} : run'[j] = run[j]
        /\ run'[i].phase = "restore" /\ run'[i].held = run[i].held /\ run'[i].action = "install"
        /\ run'[i].path = run[i].path /\ run'[i].release = run[i].release /\ (run'[i].quiet <=> run[i].quiet)
        /\ Moves(i, "restore")
    BY <1>2, <1>4, <1>8, GoesShape DEF Goes, Moves, Alters, Steps, Locked
  <2>2. lock' = lock /\ harness = "opencode"
    BY <1>2, <1>4, <1>8, <2>1 DEF Unlock
  <2>3. ShapeInv' /\ KeepInv' /\ WriterInv' /\ ReceiptInv' /\ EndInv'
    BY <1>3, <1>8, <2>1, <2>2, GoKeeps DEF At, Replacing, Steps, Locked
  <2>4. CommandInv'
    BY <1>1, <1>3, <1>4, <1>5, <1>8, <2>1, <2>2 DEF CommandInv, CommandOk, Running, At
  <2>5. LockInv'
    BY <1>1, <1>4, <1>5, <2>1, <2>2 DEF LockInv, Locked
  <2>6. HolderInv'
    BY <1>1, <1>3, <1>5, <1>8, <2>1, <2>2, ContentsAssumption DEF HolderInv, Replacing, At
  <2>7. ListInv'
    BY <1>1, <1>3, <1>5, <1>8, <2>1, <2>2 DEF ListInv, Locked, At
  <2>8. QuietInv'
    BY <1>1, <1>3, <1>5, <1>8, <2>1, <2>2 DEF QuietInv, Replacing, At, Running
  <2> QED BY <2>3, <2>4, <2>5, <2>6, <2>7, <2>8 DEF WholeInv
<1> QED BY <1>6, <1>7, <1>8 DEF Create, Goto

\* Write: what was created becomes the plugin, or is removed by its name.
LEMMA WriteKeeps ==
  ASSUME WholeInv, NEW i \in Procs, Write(i)
  PROVE  WholeInv'
<1>1. /\ ShapeInv /\ CommandInv /\ LockInv /\ KeepInv /\ WriterInv
      /\ ReceiptInv /\ HolderInv /\ ListInv /\ QuietInv /\ EndInv
  BY DEF WholeInv
<1>2. /\ run \in [Procs -> Runs] /\ harness \in {"cline", "opencode"}
      /\ file \in [Paths -> Contents] /\ receipt \in [Paths -> Releases \cup {None}] /\ mine \in [Paths -> Foreign \cup {None}]
      /\ left \subseteq Contents \ {None} /\ unrecorded \subseteq Paths /\ excused \subseteq saved \cup Paths
  BY <1>1, ConstantsAssumption DEF ShapeInv, TypeOK, Json
<1>3. At(i, "write") /\ Running(i) /\ UNCHANGED <<receipt, unrecorded>> /\ Frame /\ Unlock(i)
  BY FrameOfStep DEF Write, At, Running
<1>4. /\ run[i].path \in Paths /\ run[i].release \in Releases /\ run[i].action = "install"
      /\ harness = "cline" => run[i].held = None
      /\ run[i].held # i /\ (lock = i <=> harness = "opencode")
  BY <1>1, <1>2, <1>3, ContentsAssumption DEF CommandInv, CommandOk, LockInv, Locked, At, Running
<1>5. UNCHANGED <<harness, plain, doc, rule, saved, mine>>
  BY <1>3 DEF Frame
<1>6. i \notin Releases \cup Foreign \cup {None, "partial", "legacy"} /\ run[i].release \notin Foreign \cup Procs \cup {None, "partial", "legacy"}
  BY <1>4, ContentsAssumption
<1>7. ASSUME NEW j \in Procs, j # i
      PROVE  /\ run[j].phase \in Locked => harness = "cline"
             /\ run[i].quiet => ~Running(j)
             /\ Running(j) => run[j].path \in Paths
             /\ ~run[j].quiet
  <2>1. run[j].phase \in Locked => harness = "cline"
    BY <1>1, <1>2, <1>4, <1>7 DEF LockInv
  <2>2. (run[i].quiet => ~Running(j)) /\ ~run[j].quiet
    BY <1>1, <1>3, <1>7 DEF QuietInv
  <2>3. Running(j) => run[j].path \in Paths
    BY <1>1 DEF CommandInv, CommandOk
  <2> QED BY <2>1, <2>2, <2>3
<1>8. CASE /\ Works /\ FilesBecome(i, run[i].release) /\ excused' = excused
           /\ run' = HeldBecome(IF run[i].held = None THEN Ended(i, FALSE) ELSE [run EXCEPT ![i].phase = "discard"],
                                i, run[i].release)
  <2>1. /\ file' \in [Paths -> Contents] /\ \A q \in Paths : file'[q] = IF file[q] = i THEN run[i].release ELSE file[q]
        /\ left' \subseteq Contents \ {None} /\ \A c \in left : c # i => c \in left'
    BY <1>2, <1>4, <1>6, <1>8 DEF FilesBecome, Become, Contents
  <2>2. CASE run[i].held = None /\ run' = HeldBecome(Ended(i, FALSE), i, run[i].release)
    <3>1. /\ Others(i, run[i].release) /\ run'[i].phase = "done" /\ run'[i].held = None
          /\ run'[i].quiet => run[i].quiet /\ run'[i].path = run[i].path /\ run'[i].release = run[i].release
          /\ run'[i].action \in {"none", "install"}
      BY <1>2, <1>4, <2>2, BecomeEnded DEF Contents
    <3>2. lock' = IF lock = i THEN None ELSE lock
      BY <1>3, <3>1 DEF Unlock
    <3>3. ShapeInv'
      <4>1. lock' \in Procs \cup {None} /\ (lock' # None => Running(lock)')
        BY <1>1, <3>1, <3>2 DEF ShapeInv, TypeOK, Running, At, Others, Alike
      <4>2. \A j \in Procs : run'[j].held # None => Running(j)'
        BY <1>1, <3>1, ContentsAssumption DEF ShapeInv, TypeOK, Running, At, Others, Alike, Become
      <4> QED BY <1>1, <1>2, <1>3, <1>8, <2>1, <3>1, <4>1, <4>2, ShapeKeeps DEF Others, Alike
    <3>4. CommandInv'
      BY <1>1, <1>5, <1>6, <3>1 DEF CommandInv, CommandOk, Running, At, Others, Alike, Become
    <3>5. LockInv'
      BY <1>1, <1>5, <3>1, <3>2, ContentsAssumption DEF LockInv, Locked, Others, Alike
    <3>6. KeepInv'
      <4>1. ASSUME NEW p \in Paths, mine[p] # None
            PROVE  file'[p] = mine[p] \/ mine[p] \in left' \/ p \in excused
                   \/ \E j \in Procs : run'[j].held = mine[p] /\ run'[j].path = p
        <5>1. mine[p] # i /\ mine[p] # run[i].held
          BY <1>2, <1>6, <2>2, <4>1
        <5>2. ASSUME NEW j \in Procs, run[j].held = mine[p], run[j].path = p
              PROVE  run'[j].held = mine[p] /\ run'[j].path = p
          BY <3>1, <5>1, <5>2 DEF Others, Alike, Become
        <5> QED BY <1>1, <2>1, <4>1, <5>1, <5>2 DEF KeepInv
      <4> QED BY <1>5, <1>8, <4>1 DEF KeepInv
    <3>7. WriterInv'
      BY <1>1, <1>3, <1>5, <1>6, <2>1, <3>1, ContentsAssumption DEF WriterInv, At, Others, Alike, Become
    <3>8. ReceiptInv'
      <4>1. ASSUME harness = "opencode", NEW p \in Paths, file'[p] \in Releases
            PROVE  /\ receipt[p] # None
                   /\ receipt[p] = file'[p] \/ p \in unrecorded \/ \E j \in Procs \ {i} : Replacing(j) /\ run[j].path = p
        <5>1. CASE file[p] = i
          <6>1. p = run[i].path /\ receipt[p] = run[i].release
            BY <1>1, <1>3, <2>2, <4>1, <5>1 DEF WriterInv, HolderInv, At
          <6> QED BY <1>6, <2>1, <5>1, <6>1
        <5>2. CASE file[p] # i
          BY <1>1, <1>3, <2>1, <4>1, <5>2 DEF ReceiptInv, Replacing, At
        <5> QED BY <5>1, <5>2
      <4> QED BY <1>3, <1>5, <3>1, <4>1 DEF ReceiptInv, Replacing, Others, Alike
    <3>9. HolderInv'
      BY <1>1, <1>3, <1>4, <1>5, <1>6, <1>7, <2>1, <3>1, ContentsAssumption
         DEF HolderInv, WriterInv, Replacing, At, Others, Alike, Locked, Become
    <3>10. ListInv'
      BY <1>1, <1>5, <1>7, <3>1 DEF ListInv, Others, Alike, Locked
    <3>11. QuietInv'
      BY <1>1, <1>3, <1>5, <1>7, <3>1 DEF QuietInv, Replacing, At, Running, Others, Alike
    <3>12. EndInv'
      <4>1. run[i].quiet => file'[run[i].path] = run[i].release
        BY <1>1, <1>3, <1>4, <2>1 DEF QuietInv
      <4>2. harness = "opencode" => receipt[run[i].path] = run[i].release
        BY <1>1, <1>3, <2>2 DEF HolderInv, At
      <4> QED BY <1>3, <1>4, <1>5, <1>7, <3>1, <4>1, <4>2 DEF EndInv, Alone, At, Others, Alike
    <3> QED BY <3>3, <3>4, <3>5, <3>6, <3>7, <3>8, <3>9, <3>10, <3>11, <3>12 DEF WholeInv
  <2>3. CASE run[i].held # None /\ run' = HeldBecome([run EXCEPT ![i].phase = "discard"], i, run[i].release)
    <3>1. /\ Others(i, run[i].release) /\ run'[i].phase = "discard" /\ run'[i].held = run[i].held
          /\ run'[i].action = "install" /\ run'[i].path = run[i].path /\ run'[i].release = run[i].release
          /\ (run'[i].quiet <=> run[i].quiet)
      <4>1. "discard" \in Steps /\ run[i].release \in Contents
        BY <1>4 DEF Contents, Steps, Locked
      <4>2. run[i].held # i
        BY <1>4
      <4>3. /\ Others(i, run[i].release) /\ run'[i].phase = "discard" /\ run'[i].held = run[i].held
            /\ run'[i].action = run[i].action /\ run'[i].path = run[i].path /\ run'[i].release = run[i].release
            /\ (run'[i].quiet <=> run[i].quiet)
        BY <1>2, <2>3, <4>1, <4>2, BecomeGoes
      <4> QED BY <1>4, <4>3
    <3>2. lock' = lock /\ harness = "opencode" /\ run[i].held \in Releases
      BY <1>1, <1>2, <1>3, <1>4, <2>3, <3>1 DEF Unlock, CommandInv, CommandOk, At
    <3>3. ShapeInv'
      <4>1. lock' \in Procs \cup {None} /\ (lock' # None => Running(lock)')
        BY <1>1, <3>1, <3>2 DEF ShapeInv, TypeOK, Running, At, Others, Alike
      <4>2. \A j \in Procs : run'[j].held # None => Running(j)'
        BY <1>1, <3>1, ContentsAssumption DEF ShapeInv, TypeOK, Running, At, Others, Alike, Become
      <4> QED BY <1>1, <1>2, <1>3, <1>8, <2>1, <3>1, <4>1, <4>2, ShapeKeeps DEF Others, Alike
    <3>4. CommandInv'
      <4>1. CommandOk(i)'
        BY <1>4, <1>5, <2>3, <3>1, <3>2 DEF CommandOk, Running, At
      <4> QED BY <1>1, <1>4, <1>5, <1>6, <3>1, <4>1, OthersCommands, ContentsAssumption DEF Contents
    <3>5. LockInv'
      BY <1>1, <1>4, <1>5, <3>1, <3>2 DEF LockInv, Locked, Others, Alike
    <3>6. KeepInv'
      <4>1. ASSUME NEW p \in Paths, mine[p] # None
            PROVE  file'[p] = mine[p] \/ mine[p] \in left' \/ p \in excused
                   \/ \E j \in Procs : run'[j].held = mine[p] /\ run'[j].path = p
        <5>1. mine[p] # i
          BY <1>2, <1>6, <4>1
        <5>2. ASSUME NEW j \in Procs, run[j].held = mine[p], run[j].path = p
              PROVE  run'[j].held = mine[p] /\ run'[j].path = p
          BY <3>1, <5>1, <5>2 DEF Others, Alike, Become
        <5> QED BY <1>1, <2>1, <4>1, <5>1, <5>2 DEF KeepInv
      <4> QED BY <1>5, <1>8, <4>1 DEF KeepInv
    <3>7. WriterInv'
      BY <1>1, <1>3, <1>5, <1>6, <2>1, <3>1, <3>2, ContentsAssumption DEF WriterInv, At, Others, Alike, Become
    <3>8. ReceiptInv'
      BY <1>1, <1>3, <1>4, <1>5, <1>6, <1>7, <2>1, <3>1, <3>2, ContentsAssumption
         DEF ReceiptInv, WriterInv, HolderInv, Replacing, At, Others, Alike, Locked
    <3>9. HolderInv'
      BY <1>1, <1>3, <1>4, <1>5, <1>6, <1>7, <2>1, <3>1, <3>2, ContentsAssumption
         DEF HolderInv, WriterInv, Replacing, At, Others, Alike, Locked, Become
    <3>10. ListInv'
      BY <1>1, <1>5, <1>7, <3>1, <3>2 DEF ListInv, Others, Alike, Locked
    <3>11. QuietInv'
      BY <1>1, <1>3, <1>4, <1>5, <1>7, <2>1, <3>1, <3>2 DEF QuietInv, Replacing, At, Running, Others, Alike
    <3>12. EndInv'
      BY <1>1, <1>3, <1>5, <1>7, <3>1 DEF EndInv, Alone, At, Others, Alike
    <3> QED BY <3>3, <3>4, <3>5, <3>6, <3>7, <3>8, <3>9, <3>10, <3>11, <3>12 DEF WholeInv
  <2> QED BY <1>8, <2>2, <2>3
<1>9. CASE /\ Fails /\ file' = [file EXCEPT ![run[i].path] = None] /\ left' = {Become(c, i, "partial") : c \in left}
           /\ run' = HeldBecome(IF run[i].held = None THEN Ended(i, TRUE) ELSE [run EXCEPT ![i].phase = "restore"],
                                i, "partial")
           /\ excused' = IF file[run[i].path] \in {i, None} THEN excused ELSE excused \cup {run[i].path}
  <2>1. /\ file' \in [Paths -> Contents] /\ file'[run[i].path] = None
        /\ \A q \in Paths : q # run[i].path => file'[q] = file[q]
        /\ left' \subseteq Contents \ {None} /\ \A c \in left : c # i => c \in left'
        /\ excused \subseteq excused' /\ excused' \subseteq saved \cup Paths
        /\ file[run[i].path] \notin {i, None} => run[i].path \in excused'
    <3>1. /\ file' \in [Paths -> Contents] /\ file'[run[i].path] = None
          /\ \A q \in Paths : q # run[i].path => file'[q] = file[q]
      BY <1>2, <1>4, <1>9 DEF Contents
    <3>2. left' \subseteq Contents \ {None} /\ \A c \in left : c # i => c \in left'
      BY <1>2, <1>6, <1>9, ContentsAssumption DEF Become, Contents
    <3>3. /\ excused \subseteq excused' /\ excused' \subseteq saved \cup Paths
          /\ file[run[i].path] \notin {i, None} => run[i].path \in excused'
      BY <1>2, <1>4, <1>9
    <3> QED BY <3>1, <3>2, <3>3
  <2>2. ASSUME NEW p \in Paths, mine[p] # None,
               \A j \in Procs : run[j].held = mine[p] /\ run[j].path = p => run'[j].held = mine[p] /\ run'[j].path = p
        PROVE  file'[p] = mine[p] \/ mine[p] \in left' \/ p \in excused'
               \/ \E j \in Procs : run'[j].held = mine[p] /\ run'[j].path = p
    <3>1. mine[p] # i
      BY <1>2, <1>6, <2>2
    <3> QED BY <1>1, <2>1, <2>2, <3>1 DEF KeepInv
  <2>3. harness = "opencode" => \A p \in Paths : file'[p] \in Releases =>
          receipt[p] # None /\ (receipt[p] = file'[p] \/ p \in unrecorded \/ \E j \in Procs \ {i} : Replacing(j) /\ run[j].path = p)
    BY <1>1, <1>3, <2>1, ContentsAssumption DEF ReceiptInv, Replacing, At
  <2>4. CASE run[i].held = None /\ run' = HeldBecome(Ended(i, TRUE), i, "partial")
    <3>1. /\ Others(i, "partial") /\ run'[i].phase = "done" /\ run'[i].held = None
          /\ ~run'[i].quiet /\ run'[i].action = "none"
      BY <1>2, <1>4, <2>4, BecomeEnded DEF Contents
    <3>2. lock' = IF lock = i THEN None ELSE lock
      BY <1>3, <3>1 DEF Unlock
    <3>3. ShapeInv'
      <4>1. lock' \in Procs \cup {None} /\ (lock' # None => Running(lock)')
        BY <1>1, <3>1, <3>2 DEF ShapeInv, TypeOK, Running, At, Others, Alike
      <4>2. \A j \in Procs : run'[j].held # None => Running(j)'
        BY <1>1, <3>1, ContentsAssumption DEF ShapeInv, TypeOK, Running, At, Others, Alike, Become
      <4> QED BY <1>1, <1>2, <1>3, <2>1, <3>1, <4>1, <4>2, ShapeKeeps DEF Others, Alike
    <3>4. CommandInv'
      <4>1. CommandOk(i)'
        BY <1>4, <1>5, <2>4, <3>1, <3>2 DEF CommandOk, Running, At
      <4> QED BY <1>1, <1>4, <1>5, <1>6, <3>1, <4>1, OthersCommands, ContentsAssumption DEF Contents
    <3>5. LockInv'
      BY <1>1, <1>5, <3>1, <3>2, ContentsAssumption DEF LockInv, Locked, Others, Alike
    <3>6. KeepInv'
      <4>1. ASSUME NEW p \in Paths, mine[p] # None, NEW j \in Procs, run[j].held = mine[p], run[j].path = p
            PROVE  run'[j].held = mine[p] /\ run'[j].path = p
        <5>1. mine[p] # i /\ j # i
          BY <1>2, <1>6, <2>4, <4>1
        <5> QED BY <3>1, <4>1, <5>1 DEF Others, Alike, Become
      <4> QED BY <1>5, <2>2, <4>1 DEF KeepInv
    <3>7. WriterInv'
      BY <1>1, <1>3, <1>5, <1>6, <2>1, <3>1, ContentsAssumption DEF WriterInv, At, Others, Alike, Become
    <3>8. ReceiptInv'
      BY <1>3, <1>5, <2>3, <3>1 DEF ReceiptInv, Replacing, Others, Alike
    <3>9. HolderInv'
      BY <1>1, <1>3, <1>5, <1>6, <1>7, <2>1, <3>1, ContentsAssumption
         DEF HolderInv, WriterInv, Replacing, At, Others, Alike, Locked, Become
    <3>10. ListInv'
      BY <1>1, <1>5, <1>7, <3>1 DEF ListInv, Others, Alike, Locked
    <3>11. QuietInv'
      BY <1>1, <1>3, <1>5, <1>7, <3>1 DEF QuietInv, Replacing, At, Running, Others, Alike
    <3>12. EndInv'
      BY <1>7, <3>1 DEF EndInv, Alone, At, Others, Alike
    <3> QED BY <3>3, <3>4, <3>5, <3>6, <3>7, <3>8, <3>9, <3>10, <3>11, <3>12 DEF WholeInv
  <2>5. CASE run[i].held # None /\ run' = HeldBecome([run EXCEPT ![i].phase = "restore"], i, "partial")
    <3>1. /\ Others(i, "partial") /\ run'[i].phase = "restore" /\ run'[i].held = run[i].held
          /\ run'[i].action = "install" /\ run'[i].path = run[i].path /\ run'[i].release = run[i].release
          /\ (run'[i].quiet <=> run[i].quiet)
      <4>1. "restore" \in Steps /\ "partial" \in Contents
        BY DEF Contents, Steps, Locked
      <4>2. run[i].held # i
        BY <1>4
      <4>3. /\ Others(i, "partial") /\ run'[i].phase = "restore" /\ run'[i].held = run[i].held
            /\ run'[i].action = run[i].action /\ run'[i].path = run[i].path /\ run'[i].release = run[i].release
            /\ (run'[i].quiet <=> run[i].quiet)
        BY <1>2, <2>5, <4>1, <4>2, BecomeGoes
      <4> QED BY <1>4, <4>3
    <3>2. lock' = lock /\ harness = "opencode" /\ run[i].held \in Releases
      BY <1>1, <1>2, <1>3, <1>4, <2>5, <3>1 DEF Unlock, CommandInv, CommandOk, At
    <3>3. ShapeInv'
      <4>1. lock' \in Procs \cup {None} /\ (lock' # None => Running(lock)')
        BY <1>1, <3>1, <3>2 DEF ShapeInv, TypeOK, Running, At, Others, Alike
      <4>2. \A j \in Procs : run'[j].held # None => Running(j)'
        BY <1>1, <3>1, ContentsAssumption DEF ShapeInv, TypeOK, Running, At, Others, Alike, Become
      <4> QED BY <1>1, <1>2, <1>3, <2>1, <3>1, <4>1, <4>2, ShapeKeeps DEF Others, Alike
    <3>4. CommandInv'
      <4>1. CommandOk(i)'
        BY <1>4, <1>5, <2>5, <3>1, <3>2 DEF CommandOk, Running, At
      <4> QED BY <1>1, <1>4, <1>5, <1>6, <3>1, <4>1, OthersCommands, ContentsAssumption DEF Contents
    <3>5. LockInv'
      BY <1>1, <1>4, <1>5, <3>1, <3>2 DEF LockInv, Locked, Others, Alike
    <3>6. KeepInv'
      <4>1. ASSUME NEW p \in Paths, mine[p] # None, NEW j \in Procs, run[j].held = mine[p], run[j].path = p
            PROVE  run'[j].held = mine[p] /\ run'[j].path = p
        BY <1>2, <1>6, <3>1, <4>1 DEF Others, Alike, Become
      <4> QED BY <1>5, <2>2, <4>1 DEF KeepInv
    <3>7. WriterInv'
      BY <1>1, <1>3, <1>5, <1>6, <2>1, <3>1, <3>2, ContentsAssumption DEF WriterInv, At, Others, Alike, Become
    <3>8. ReceiptInv'
      BY <1>3, <1>5, <2>3, <3>1 DEF ReceiptInv, Replacing, Others, Alike
    <3>9. HolderInv'
      BY <1>1, <1>3, <1>4, <1>5, <1>6, <1>7, <2>1, <3>1, <3>2, ContentsAssumption
         DEF HolderInv, WriterInv, Replacing, At, Others, Alike, Locked, Become
    <3>10. ListInv'
      BY <1>1, <1>5, <1>7, <3>1, <3>2 DEF ListInv, Others, Alike, Locked
    <3>11. QuietInv'
      BY <1>1, <1>3, <1>4, <1>5, <1>7, <3>1, <3>2 DEF QuietInv, Replacing, At, Running, Others, Alike
    <3>12. EndInv'
      BY <1>7, <3>1 DEF EndInv, Alone, At, Others, Alike
    <3> QED BY <3>3, <3>4, <3>5, <3>6, <3>7, <3>8, <3>9, <3>10, <3>11, <3>12 DEF WholeInv
  <2> QED BY <1>9, <2>4, <2>5
<1> QED BY <1>8, <1>9 DEF Write

-----------------------------------------------------------------------------
(* Moving a file away and back *)

\* Isolate: what was at the place is in hand.
LEMMA IsolateKeeps ==
  ASSUME WholeInv, NEW i \in Procs, Isolate(i)
  PROVE  WholeInv'
<1>1. /\ ShapeInv /\ CommandInv /\ LockInv /\ KeepInv /\ WriterInv
      /\ ReceiptInv /\ HolderInv /\ ListInv /\ QuietInv /\ EndInv
  BY DEF WholeInv
<1>2. /\ run \in [Procs -> Runs] /\ run[i] \in Runs /\ harness \in {"cline", "opencode"}
      /\ file \in [Paths -> Contents] /\ receipt \in [Paths -> Releases \cup {None}] /\ mine \in [Paths -> Foreign \cup {None}]
      /\ left \subseteq Contents \ {None} /\ unrecorded \subseteq Paths /\ excused \subseteq saved \cup Paths
  BY <1>1, ConstantsAssumption DEF ShapeInv, TypeOK, Json
<1>3. At(i, "isolate") /\ Running(i) /\ UNCHANGED <<left, receipt, excused, unrecorded>> /\ Frame
  BY FrameOfStep DEF Isolate, At, Running
<1>4. /\ run[i].path \in Paths /\ run[i].release \in Releases /\ run[i].held = None
      /\ run[i].action \in {"install", "uninstall"} /\ (harness = "cline" => run[i].action = "uninstall")
      /\ (lock = i <=> harness = "opencode")
  BY <1>1, <1>2, <1>3 DEF CommandInv, CommandOk, LockInv, Locked, At, Running, Runs
<1>5. UNCHANGED <<harness, plain, doc, rule, saved, mine>>
  BY <1>3 DEF Frame
<1>6. CASE /\ file[run[i].path] # None /\ file' = [file EXCEPT ![run[i].path] = None] /\ lock' = lock
           /\ run' = [run EXCEPT ![i].held = file[run[i].path], ![i].phase = "recheck"]
  <2>1. /\ run' \in [Procs -> Runs] /\ \A j \in Procs \ {i} : run'[j] = run[j]
        /\ run'[i].phase = "recheck" /\ run'[i].held = file[run[i].path] /\ run'[i].action = run[i].action
        /\ run'[i].path = run[i].path /\ run'[i].release = run[i].release /\ (run'[i].quiet <=> run[i].quiet)
        /\ run'[i].todo = run[i].todo /\ run'[i].known = run[i].known /\ (run'[i].failed <=> run[i].failed)
    <3>1. file[run[i].path] \in Contents /\ "recheck" \in Steps
      BY <1>2, <1>4 DEF Steps, Locked
    <3>2. [run[i] EXCEPT !.held = file[run[i].path], !.phase = "recheck"] \in Runs
      BY <1>2, <3>1 DEF Runs
    <3> QED BY <1>2, <1>6, <3>2 DEF Runs
  <2>2. /\ file' \in [Paths -> Contents] /\ file'[run[i].path] = None
        /\ \A q \in Paths \ {run[i].path} : file'[q] = file[q]
    BY <1>2, <1>4, <1>6 DEF Contents
  <2>3. ShapeInv'
    <3>1. lock' \in Procs \cup {None} /\ (lock' # None => Running(lock)')
      BY <1>1, <1>6, <2>1 DEF ShapeInv, TypeOK, Running, At
    <3>2. \A j \in Procs : run'[j].held # None => Running(j)'
      BY <1>1, <1>3, <2>1 DEF ShapeInv, TypeOK, Running, At
    <3>3. /\ file' \in [Paths -> Contents] /\ receipt' \in [Paths -> Releases \cup {None}] /\ left' \subseteq Contents \ {None}
          /\ excused' \subseteq saved \cup Paths /\ unrecorded' \subseteq Paths
      BY <1>2, <1>3, <2>2
    <3> QED BY <1>1, <1>3, <2>1, <3>1, <3>2, <3>3, ShapeKeeps
  <2>4. CommandInv'
    <3>1. CommandOk(i)'
      BY <1>4, <1>5, <1>6, <2>1 DEF CommandOk, Running, At
    <3>2. ASSUME NEW j \in Procs \ {i}
          PROVE  CommandOk(j)'
      BY <1>1, <1>5, <2>1 DEF CommandInv, CommandOk, Running, At
    <3> QED BY <3>1, <3>2 DEF CommandInv
  <2>5. LockInv'
    BY <1>1, <1>4, <1>5, <1>6, <2>1 DEF LockInv, Locked
  <2>6. KeepInv'
    BY <1>1, <1>2, <1>3, <1>4, <1>5, <2>1, <2>2 DEF KeepInv
  <2>7. WriterInv'
    BY <1>1, <1>2, <1>3, <1>4, <1>5, <2>1, <2>2, ContentsAssumption DEF WriterInv, LockInv, Locked, At
  <2>8. ReceiptInv'
    BY <1>1, <1>3, <1>5, <2>1, <2>2, ContentsAssumption DEF ReceiptInv, Replacing, At
  <2>9. HolderInv'
    <3>1. ASSUME harness = "opencode"
          PROVE  /\ ~Replacing(i)' /\ ~At(i, "create")' /\ ~At(i, "write")' /\ file'[run'[i].path] \notin Releases
                 /\ run'[i].held \in Releases => receipt[run[i].path] # None
                      /\ (receipt[run[i].path] = run'[i].held \/ run[i].path \in unrecorded)
      <4>1. ASSUME NEW j \in Procs, Replacing(j)
            PROVE  FALSE
        BY <1>1, <1>3, <1>4, <3>1, <4>1 DEF LockInv, Locked, Replacing, At
      <4> QED BY <1>1, <1>4, <2>1, <2>2, <3>1, <4>1, ContentsAssumption DEF ReceiptInv, Replacing, At
    <3>2. ASSUME harness = "opencode", NEW j \in Procs \ {i}
          PROVE  run[j].phase \notin Locked /\ run[j].held = None
      BY <1>1, <1>4, <3>2 DEF LockInv, Locked, CommandInv, CommandOk
    <3> QED BY <1>3, <1>5, <2>1, <3>1, <3>2, ContentsAssumption DEF HolderInv, Replacing, At, Locked
  <2>10. ListInv'
    BY <1>1, <1>3, <1>4, <1>5, <2>1, <2>2, ContentsAssumption DEF ListInv, Locked, At
  <2>11. QuietInv'
    BY <1>1, <1>3, <1>5, <2>1, <2>2 DEF QuietInv, Replacing, At, Running
  <2>12. EndInv'
    BY <1>1, <1>3, <1>5, <2>1 DEF EndInv, QuietInv, Alone, At, Running
  <2> QED BY <2>3, <2>4, <2>5, <2>6, <2>7, <2>8, <2>9, <2>10, <2>11, <2>12 DEF WholeInv
<1>7. CASE run' = Over(i, TRUE) /\ Unlock(i) /\ UNCHANGED file
  <2>1. CASE harness = "opencode" /\ run[i].action = "uninstall"
    <3>1. Turns(i, TRUE)
      BY <1>2, <1>7, <2>1, OverShape
    <3>2. lock' = lock
      BY <1>7, <3>1 DEF Unlock, Turns
    <3> QED BY <1>2, <1>3, <1>4, <1>7, <2>1, <3>1, <3>2, TurnKeeps DEF At
  <2>2. CASE ~(harness = "opencode" /\ run[i].action = "uninstall")
    <3>1. Ends(i, TRUE)
      BY <1>2, <1>7, <2>2, OverShape
    <3> QED BY <1>2, <1>3, <1>4, <1>7, <3>1, FailureHonest, EndKeeps DEF At, Replacing
  <2> QED BY <2>1, <2>2
<1> QED BY <1>6, <1>7 DEF Isolate

\* A step that fails after something was moved away leaves it under its quarantine name.
LEMMA LeftKeeps ==
  ASSUME WholeInv, Frame, NEW i \in Procs, run[i].phase \in {"recheck", "restore", "discard"},
         run' = Over(i, TRUE), Unlock(i), left' = left \cup {run[i].held}, UNCHANGED <<file, receipt, excused>>,
         unrecorded' = IF Replacing(i) THEN unrecorded \cup {run[i].path} ELSE unrecorded
  PROVE  WholeInv'
<1>1. /\ run \in [Procs -> Runs] /\ left \subseteq Contents \ {None} /\ unrecorded \subseteq Paths /\ Running(i)
      /\ run[i].held \in Contents \ {None} /\ run[i].path \in Paths /\ ~At(i, "write")
  BY DEF WholeInv, ShapeInv, TypeOK, CommandInv, CommandOk, Running, At, Runs
<1>2. unrecorded \subseteq unrecorded' /\ unrecorded' \subseteq Paths /\ (Replacing(i) => run[i].path \in unrecorded')
  BY <1>1
<1>3. CASE harness = "opencode" /\ run[i].action = "uninstall"
  <2>1. Turns(i, TRUE)
    BY <1>1, <1>3, OverShape
  <2>2. lock' = lock /\ unrecorded' = unrecorded
    BY <1>3, <2>1 DEF Unlock, Turns, Replacing
  <2> QED BY <1>1, <1>3, <2>1, <2>2, TurnKeeps
<1>4. CASE ~(harness = "opencode" /\ run[i].action = "uninstall")
  <2>1. Ends(i, TRUE)
    BY <1>1, <1>4, OverShape
  <2> QED BY <1>1, <1>2, <2>1, FailureHonest, EndKeeps
<1> QED BY <1>3, <1>4

\* Recheck: what goes on to be discarded is known; everything else goes back.
LEMMA RecheckKeeps ==
  ASSUME WholeInv, NEW i \in Procs, Recheck(i)
  PROVE  WholeInv'
<1>1. /\ ShapeInv /\ CommandInv /\ LockInv /\ KeepInv /\ WriterInv
      /\ ReceiptInv /\ HolderInv /\ ListInv /\ QuietInv /\ EndInv
  BY DEF WholeInv
<1>2. /\ run \in [Procs -> Runs] /\ run[i] \in Runs /\ harness \in {"cline", "opencode"}
      /\ file \in [Paths -> Contents] /\ receipt \in [Paths -> Releases \cup {None}] /\ mine \in [Paths -> Foreign \cup {None}]
      /\ left \subseteq Contents \ {None} /\ unrecorded \subseteq Paths /\ excused \subseteq saved \cup Paths
  BY <1>1, ConstantsAssumption DEF ShapeInv, TypeOK, Json
<1>3. At(i, "recheck") /\ Running(i) /\ UNCHANGED <<file, receipt, excused, unrecorded>> /\ Frame
  BY FrameOfStep DEF Recheck, At, Running
<1>4. /\ run[i].path \in Paths /\ run[i].release \in Releases /\ run[i].held # None
      /\ run[i].action \in {"install", "uninstall"} /\ (harness = "cline" => run[i].action = "uninstall")
      /\ (lock = i <=> harness = "opencode")
  BY <1>1, <1>2, <1>3 DEF CommandInv, CommandOk, LockInv, Locked, At, Running, Runs
<1>5. UNCHANGED <<harness, plain, doc, rule, saved, mine>>
  BY <1>3 DEF Frame
<1>6. CASE \E phase \in {"create", "discard", "restore"} :
             /\ run' = [run EXCEPT ![i].phase = phase] /\ UNCHANGED <<left, lock>>
             /\ phase # "restore" => Known(i, run[i].path, run[i].held)
             /\ phase = "create" => run[i].action = "install"
             /\ phase = "discard" => run[i].action = "uninstall"
  <2>1. PICK phase \in {"create", "discard", "restore"} :
             /\ run' = [run EXCEPT ![i].phase = phase] /\ UNCHANGED <<left, lock>>
             /\ phase # "restore" => Known(i, run[i].path, run[i].held)
             /\ phase = "create" => run[i].action = "install"
             /\ phase = "discard" => run[i].action = "uninstall"
    BY <1>6
  <2>2. Goes(i, phase)
    BY <1>2, <2>1, GoesShape DEF Steps, Locked
  <2>3. /\ run' \in [Procs -> Runs] /\ \A j \in Procs \ {i} : run'[j] = run[j]
        /\ run'[i].phase = phase /\ run'[i].held = run[i].held /\ run'[i].action = run[i].action
        /\ run'[i].path = run[i].path /\ run'[i].release = run[i].release /\ (run'[i].quiet <=> run[i].quiet)
        /\ run'[i].todo = run[i].todo /\ run'[i].known = run[i].known /\ (run'[i].failed <=> run[i].failed)
        /\ Moves(i, phase)
    BY <2>2 DEF Goes, Moves, Alters
  <2>4. ShapeInv' /\ KeepInv' /\ WriterInv' /\ ReceiptInv' /\ EndInv'
    BY <1>3, <2>1, <2>3, GoKeeps DEF At, Replacing, Steps, Locked
  <2>5. phase # "restore" => run[i].held \in Releases \/ (harness = "cline" /\ run[i].held = "legacy")
    BY <1>2, <1>4, <2>1 DEF Known
  <2>6. CommandInv'
    BY <1>1, <1>2, <1>4, <1>5, <2>1, <2>3, <2>5 DEF CommandInv, CommandOk, Running, At
  <2>7. LockInv'
    BY <1>1, <1>4, <1>5, <2>1, <2>3 DEF LockInv, Locked
  <2>8. HolderInv'
    BY <1>1, <1>3, <1>4, <1>5, <2>1, <2>3, ContentsAssumption DEF HolderInv, Replacing, At
  <2>9. ListInv'
    BY <1>1, <1>3, <1>4, <1>5, <2>1, <2>3 DEF ListInv, Locked, At
  <2>10. QuietInv'
    BY <1>1, <1>3, <1>5, <2>1, <2>3 DEF QuietInv, Replacing, At, Running
  <2> QED BY <2>4, <2>6, <2>7, <2>8, <2>9, <2>10 DEF WholeInv
<1>7. CASE left' = left \cup {run[i].held} /\ run' = Over(i, TRUE) /\ Unlock(i)
  BY <1>3, <1>7, LeftKeeps DEF At, Replacing
<1> QED BY <1>4, <1>6, <1>7 DEF Recheck, Goto

\* Restore: the place is free, or what was in hand stays under its quarantine name.
LEMMA RestoreKeeps ==
  ASSUME WholeInv, NEW i \in Procs, Restore(i)
  PROVE  WholeInv'
<1>1. /\ ShapeInv /\ CommandInv /\ LockInv /\ KeepInv /\ WriterInv
      /\ ReceiptInv /\ HolderInv /\ ListInv /\ QuietInv /\ EndInv
  BY DEF WholeInv
<1>2. /\ run \in [Procs -> Runs] /\ run[i] \in Runs /\ harness \in {"cline", "opencode"}
      /\ file \in [Paths -> Contents] /\ receipt \in [Paths -> Releases \cup {None}] /\ mine \in [Paths -> Foreign \cup {None}]
      /\ left \subseteq Contents \ {None} /\ unrecorded \subseteq Paths /\ excused \subseteq saved \cup Paths
  BY <1>1, ConstantsAssumption DEF ShapeInv, TypeOK, Json
<1>3. /\ At(i, "restore") /\ Running(i) /\ UNCHANGED <<receipt, excused, unrecorded>> /\ Frame
      /\ run' = Over(i, TRUE) /\ Unlock(i)
  BY FrameOfStep DEF Restore, At, Running
<1>4. /\ run[i].path \in Paths /\ run[i].release \in Releases /\ run[i].held \in Contents \ {None}
      /\ run[i].action \in {"install", "uninstall"} /\ (harness = "cline" => run[i].action = "uninstall")
      /\ (lock = i <=> harness = "opencode")
  BY <1>1, <1>2, <1>3 DEF CommandInv, CommandOk, LockInv, Locked, At, Running, Runs
<1>5. UNCHANGED <<harness, plain, doc, rule, saved, mine>>
  BY <1>3 DEF Frame
<1>6. CASE left' = left \cup {run[i].held} /\ UNCHANGED file
  BY <1>3, <1>6, LeftKeeps DEF At, Replacing
<1>7. CASE file[run[i].path] = None /\ file' = [file EXCEPT ![run[i].path] = run[i].held] /\ left' = left
  <2>1. /\ run' \in [Procs -> Runs] /\ \A j \in Procs \ {i} : run'[j] = run[j]
        /\ run'[i].phase \in {"done", "place"} /\ run'[i].held = None
        /\ run'[i].phase = "done" => ~run'[i].quiet
        /\ run'[i].phase = "place" => /\ harness = "opencode" /\ run'[i].action = "uninstall" /\ run'[i].failed
                                      /\ run'[i].path \in Paths /\ run'[i].release \in Releases
                                      /\ run'[i].known = run[i].known /\ (run'[i].quiet <=> run[i].quiet)
                                      /\ run[i].action = "uninstall"
    BY <1>2, <1>3, <1>4, OverShape DEF Turns, Ends, Alters
  <2>2. lock' = IF lock = i /\ run'[i].phase = "done" THEN None ELSE lock
    BY <1>3 DEF Unlock
  <2>3. /\ file' \in [Paths -> Contents] /\ file'[run[i].path] = run[i].held
        /\ \A q \in Paths \ {run[i].path} : file'[q] = file[q]
    BY <1>2, <1>4, <1>7
  <2>4. ASSUME NEW j \in Procs \ {i}
        PROVE  /\ harness = "opencode" => run[j].phase \notin Locked /\ run[j].held = None
               /\ (run[i].quiet => ~Running(j)) /\ ~run[j].quiet
    <3>1. harness = "opencode" => run[j].phase \notin Locked /\ run[j].held = None
      BY <1>1, <1>4 DEF LockInv, Locked, CommandInv, CommandOk
    <3>2. (run[i].quiet => ~Running(j)) /\ ~run[j].quiet
      BY <1>1, <1>3 DEF QuietInv
    <3> QED BY <3>1, <3>2
  <2>5. ShapeInv'
    <3>1. lock' \in Procs \cup {None} /\ (lock' # None => Running(lock)')
      BY <1>1, <2>1, <2>2 DEF ShapeInv, TypeOK, Running, At
    <3>2. \A j \in Procs : run'[j].held # None => Running(j)'
      <4>1. \A j \in Procs : run[j].held # None => Running(j)
        BY <1>1 DEF ShapeInv, TypeOK
      <4> QED BY <2>1, <4>1 DEF Running, At
    <3>3. /\ file' \in [Paths -> Contents] /\ receipt' \in [Paths -> Releases \cup {None}] /\ left' \subseteq Contents \ {None}
          /\ excused' \subseteq saved \cup Paths /\ unrecorded' \subseteq Paths
      BY <1>2, <1>3, <1>7, <2>3
    <3> QED BY <1>1, <1>3, <2>1, <3>1, <3>2, <3>3, ShapeKeeps
  <2>6. CommandInv'
    BY <1>1, <1>4, <1>5, <2>1 DEF CommandInv, CommandOk, Running, At
  <2>7. LockInv'
    BY <1>1, <1>4, <1>5, <2>1, <2>2, ContentsAssumption DEF LockInv, Locked
  <2>8. KeepInv'
    <3>1. ASSUME NEW p \in Paths, mine[p] # None
          PROVE  file'[p] = mine[p] \/ mine[p] \in left' \/ p \in excused
                 \/ \E j \in Procs : run'[j].held = mine[p] /\ run'[j].path = p
      <4>1. file[p] = mine[p] => file'[p] = mine[p]
        BY <1>7, <2>3, <3>1
      <4>2. ASSUME NEW j \in Procs, run[j].held = mine[p], run[j].path = p
            PROVE  file'[p] = mine[p] \/ (run'[j].held = mine[p] /\ run'[j].path = p)
        BY <2>1, <2>3, <4>2
      <4> QED BY <1>1, <1>7, <3>1, <4>1, <4>2 DEF KeepInv
    <3> QED BY <1>3, <1>5, <3>1 DEF KeepInv
  <2>9. WriterInv'
    <3>1. ASSUME harness = "opencode", NEW p \in Paths, file'[p] \in Procs
          PROVE  file'[p] # i /\ At(file'[p], "write") /\ run[file'[p]].path = p
      <4>1. p # run[i].path
        BY <1>1, <2>3, <3>1 DEF WriterInv
      <4> QED BY <1>1, <1>3, <2>3, <3>1, <4>1 DEF WriterInv, At
    <3> QED BY <1>1, <1>5, <2>1, <3>1, ContentsAssumption DEF WriterInv, At
  <2>10. ReceiptInv'
    <3>1. ASSUME harness = "opencode", NEW p \in Paths, file'[p] \in Releases
          PROVE  receipt[p] # None /\ (receipt[p] = file'[p] \/ p \in unrecorded)
      <4>1. ASSUME NEW j \in Procs
            PROVE  ~Replacing(j)
        BY <1>3, <2>4, <3>1 DEF Replacing, At, Locked
      <4>2. CASE p = run[i].path
        BY <1>1, <1>3, <2>3, <3>1, <4>2 DEF HolderInv, At
      <4>3. CASE p # run[i].path
        BY <1>1, <2>3, <3>1, <4>1, <4>3 DEF ReceiptInv
      <4> QED BY <4>2, <4>3
    <3> QED BY <1>3, <1>5, <3>1 DEF ReceiptInv
  <2>11. HolderInv'
    BY <1>5, <2>1, <2>4, ContentsAssumption DEF HolderInv, Replacing, At, Locked
  <2>12. ListInv'
    <3>1. harness = "opencode" => \A j \in Procs \ {i} : run'[j].phase \notin Locked
      BY <2>1, <2>4
    <3>2. harness = "opencode" /\ run'[i].phase \in Locked => run'[i].known = receipt' /\ run'[i].failed
      BY <1>1, <1>3, <2>1 DEF ListInv, Locked, At
    <3> QED BY <1>5, <3>1, <3>2 DEF ListInv
  <2>13. QuietInv'
    BY <1>5, <2>1, <2>4 DEF QuietInv, Replacing, At, Running
  <2>14. EndInv'
    BY <2>1, <2>4 DEF EndInv, Alone, At
  <2> QED BY <2>5, <2>6, <2>7, <2>8, <2>9, <2>10, <2>11, <2>12, <2>13, <2>14 DEF WholeInv
<1> QED BY <1>6, <1>7 DEF Restore, Restored

\* Discard: what is removed is of ours.
LEMMA DiscardKeeps ==
  ASSUME WholeInv, NEW i \in Procs, Discard(i)
  PROVE  WholeInv'
<1>1. /\ ShapeInv /\ CommandInv /\ LockInv /\ KeepInv /\ WriterInv
      /\ ReceiptInv /\ HolderInv /\ ListInv /\ QuietInv /\ EndInv
  BY DEF WholeInv
<1>2. /\ run \in [Procs -> Runs] /\ run[i] \in Runs /\ harness \in {"cline", "opencode"}
      /\ file \in [Paths -> Contents] /\ receipt \in [Paths -> Releases \cup {None}] /\ mine \in [Paths -> Foreign \cup {None}]
      /\ left \subseteq Contents \ {None} /\ unrecorded \subseteq Paths /\ excused \subseteq saved \cup Paths
  BY <1>1, ConstantsAssumption DEF ShapeInv, TypeOK, Json
<1>3. At(i, "discard") /\ Running(i) /\ UNCHANGED <<file, receipt, excused>> /\ Frame /\ Unlock(i)
  BY FrameOfStep DEF Discard, At, Running
<1>4. /\ run[i].path \in Paths /\ run[i].release \in Releases /\ run[i].held \in {"legacy"} \cup Releases
      /\ run[i].action \in {"install", "uninstall"} /\ (harness = "cline" => run[i].action = "uninstall")
      /\ (lock = i <=> harness = "opencode")
  BY <1>1, <1>2, <1>3 DEF CommandInv, CommandOk, LockInv, Locked, At, Running, Runs
<1>5. UNCHANGED <<harness, plain, doc, rule, saved, mine>>
  BY <1>3 DEF Frame
<1>6. CASE /\ run[i].action = "install" /\ UNCHANGED <<left, unrecorded>>
           /\ run' = [run EXCEPT ![i].held = None, ![i].phase = "confirm"]
  <2>1. /\ run' \in [Procs -> Runs] /\ \A j \in Procs \ {i} : run'[j] = run[j]
        /\ run'[i].phase = "confirm" /\ run'[i].held = None /\ run'[i].action = "install"
        /\ run'[i].path = run[i].path /\ run'[i].release = run[i].release /\ (run'[i].quiet <=> run[i].quiet)
    <3>1. [run[i] EXCEPT !.held = None, !.phase = "confirm"] \in Runs
      BY <1>2 DEF Runs, Steps, Locked, Contents
    <3> QED BY <1>2, <1>6, <3>1 DEF Runs
  <2>2. lock' = lock /\ harness = "opencode"
    BY <1>2, <1>3, <1>4, <1>6, <2>1 DEF Unlock
  <2>3. ShapeInv'
    <3>1. lock' \in Procs \cup {None} /\ (lock' # None => Running(lock)')
      BY <1>1, <2>1, <2>2 DEF ShapeInv, TypeOK, Running, At
    <3>2. \A j \in Procs : run'[j].held # None => Running(j)'
      BY <1>1, <1>3, <2>1 DEF ShapeInv, TypeOK, Running, At
    <3> QED BY <1>1, <1>2, <1>3, <1>6, <2>1, <3>1, <3>2, ShapeKeeps
  <2>4. CommandInv'
    BY <1>1, <1>4, <1>5, <2>1, <2>2 DEF CommandInv, CommandOk, Running, At
  <2>5. LockInv'
    BY <1>1, <1>4, <1>5, <2>1, <2>2 DEF LockInv, Locked
  <2>6. KeepInv'
    BY <1>1, <1>2, <1>3, <1>4, <1>5, <1>6, <2>1, ContentsAssumption DEF KeepInv, Foreign
  <2>7. WriterInv'
    BY <1>1, <1>3, <1>5, <2>1, ContentsAssumption DEF WriterInv, At
  <2>8. ReceiptInv'
    BY <1>1, <1>3, <1>5, <1>6, <2>1 DEF ReceiptInv, Replacing, At
  <2>9. HolderInv'
    BY <1>1, <1>3, <1>5, <1>6, <2>1, ContentsAssumption DEF HolderInv, Replacing, At
  <2>10. ListInv'
    BY <1>1, <1>3, <1>5, <2>1 DEF ListInv, Locked, At
  <2>11. QuietInv'
    BY <1>1, <1>3, <1>5, <1>6, <2>1, <2>2 DEF QuietInv, Replacing, At, Running
  <2>12. EndInv'
    BY <1>1, <1>3, <1>5, <2>1 DEF EndInv, Alone, At, NoReceipt
  <2> QED BY <2>3, <2>4, <2>5, <2>6, <2>7, <2>8, <2>9, <2>10, <2>11, <2>12 DEF WholeInv
<1>7. CASE run[i].action = "uninstall" /\ UNCHANGED <<left, unrecorded>> /\ run' = Over(i, FALSE)
  <2>1. CASE harness = "opencode"
    <3>1. Turns(i, FALSE)
      BY <1>2, <1>7, <2>1, OverShape
    <3>2. lock' = lock
      BY <1>3, <3>1 DEF Unlock, Turns
    <3> QED BY <1>2, <1>3, <1>4, <1>7, <2>1, <3>1, <3>2, TurnKeeps DEF At
  <2>2. CASE harness = "cline"
    <3>1. Ends(i, FALSE)
      BY <1>2, <1>7, <2>2, OverShape
    <3>2. run[i].quiet => file[run[i].path] = None
      BY <1>1, <1>3, <2>2 DEF QuietInv, At
    <3>3. EndInv'
      <4>1. ASSUME NEW j \in Procs \ {i}
            PROVE  ~run'[j].quiet
        BY <1>1, <1>3, <3>1 DEF QuietInv, Ends, Alters
      <4>2. run'[i].quiet => file[run'[i].path] \notin {"legacy", run'[i].release} /\ run'[i].action = "uninstall"
        BY <1>4, <1>7, <3>1, <3>2, ContentsAssumption DEF Ends
      <4> QED BY <1>3, <1>5, <2>2, <4>1, <4>2 DEF EndInv, Alone
    <3> QED BY <1>2, <1>3, <1>4, <1>7, <3>1, <3>3, EndKeeps DEF At, Replacing
  <2> QED BY <1>2, <2>1, <2>2
<1>8. CASE /\ left' = left \cup {run[i].held} /\ run' = Over(i, TRUE)
           /\ unrecorded' = IF run[i].action = "install" THEN unrecorded \cup {run[i].path} ELSE unrecorded
  BY <1>3, <1>8, LeftKeeps DEF At, Replacing
<1> QED BY <1>4, <1>6, <1>7, <1>8 DEF Discard

-----------------------------------------------------------------------------
(* The receipt *)

\* Record: the receipt has the digest before a plugin is created or after it replaced another.
LEMMA RecordKeeps ==
  ASSUME WholeInv, NEW i \in Procs, Record(i)
  PROVE  WholeInv'
<1>1. /\ ShapeInv /\ CommandInv /\ LockInv /\ KeepInv /\ WriterInv
      /\ ReceiptInv /\ HolderInv /\ ListInv /\ QuietInv /\ EndInv
  BY DEF WholeInv
<1>2. /\ run \in [Procs -> Runs] /\ run[i] \in Runs /\ harness \in {"cline", "opencode"}
      /\ file \in [Paths -> Contents] /\ receipt \in [Paths -> Releases \cup {None}] /\ mine \in [Paths -> Foreign \cup {None}]
      /\ left \subseteq Contents \ {None} /\ unrecorded \subseteq Paths /\ excused \subseteq saved \cup Paths
  BY <1>1, ConstantsAssumption DEF ShapeInv, TypeOK, Json
<1>3. /\ run[i].phase \in {"record", "confirm"} /\ Running(i) /\ ~At(i, "write")
      /\ UNCHANGED <<file, left, excused>> /\ Frame /\ Unlock(i)
  BY FrameOfStep DEF Record, At, Running
<1>4. /\ run[i].path \in Paths /\ run[i].release \in Releases /\ run[i].held = None
      /\ run[i].action = "install" /\ lock = i /\ harness = "opencode"
  BY <1>1, <1>2, <1>3 DEF CommandInv, CommandOk, LockInv, Locked, At, Running, Runs
<1>5. UNCHANGED <<harness, plain, doc, rule, saved, mine>>
  BY <1>3 DEF Frame
<1>6. ASSUME NEW j \in Procs \ {i}
      PROVE  run[j].phase \notin Locked /\ run[j].held = None /\ (run[i].quiet => ~Running(j)) /\ ~run[j].quiet
  <2>1. run[j].phase \notin Locked /\ run[j].held = None
    BY <1>1, <1>4 DEF LockInv, Locked, CommandInv, CommandOk
  <2>2. (run[i].quiet => ~Running(j)) /\ ~run[j].quiet
    BY <1>1, <1>3 DEF QuietInv
  <2> QED BY <2>1, <2>2
<1>7. CASE /\ run' = IF At(i, "record") THEN [run EXCEPT ![i].phase = "create"] ELSE Ended(i, FALSE)
           /\ receipt' = [receipt EXCEPT ![run[i].path] = run[i].release] /\ unrecorded' = unrecorded \ {run[i].path}
  <2>1. /\ run' \in [Procs -> Runs] /\ \A j \in Procs \ {i} : run'[j] = run[j]
        /\ run'[i].phase \in {"create", "done"} /\ run'[i].held = None /\ run'[i].action \in {"install", "none"}
        /\ run'[i].phase = "done" => run[i].phase = "confirm"
        /\ run'[i].phase = "create" => run[i].phase = "record"
        /\ run'[i].quiet => run[i].quiet
        /\ run'[i].phase = "create" \/ run'[i].quiet =>
             run'[i].path = run[i].path /\ run'[i].release = run[i].release /\ run'[i].action = "install"
    <3>1. CASE At(i, "record")
      <4>1. Goes(i, "create")
        BY <1>2, <1>7, <3>1, GoesShape DEF Steps, Locked
      <4> QED BY <1>4, <3>1, <4>1 DEF Goes, Moves, Alters, At
    <3>2. CASE ~At(i, "record")
      <4>1. Ends(i, FALSE)
        BY <1>2, <1>7, <3>2, EndsShape
      <4> QED BY <1>3, <1>4, <3>2, <4>1 DEF Ends, Alters, At
    <3> QED BY <3>1, <3>2
  <2>2. lock' = IF run'[i].phase = "done" THEN None ELSE i
    BY <1>3, <1>4 DEF Unlock
  <2>3. /\ receipt' \in [Paths -> Releases \cup {None}] /\ receipt'[run[i].path] = run[i].release
        /\ \A q \in Paths \ {run[i].path} : receipt'[q] = receipt[q]
        /\ unrecorded' \subseteq Paths
    BY <1>2, <1>4, <1>7
  <2>4. file[run[i].path] \in Releases => file[run[i].path] = run[i].release
    BY <1>1, <1>3, <1>4 DEF HolderInv, Replacing
  <2>5. ShapeInv'
    <3>1. lock' \in Procs \cup {None} /\ (lock' # None => Running(lock)')
      BY <1>1, <1>4, <2>1, <2>2 DEF ShapeInv, TypeOK, Running, At
    <3>2. \A j \in Procs : run'[j].held # None => Running(j)'
      BY <1>1, <1>3, <2>1 DEF ShapeInv, TypeOK, Running, At
    <3> QED BY <1>1, <1>2, <1>3, <2>1, <2>3, <3>1, <3>2, ShapeKeeps
  <2>6. CommandInv'
    BY <1>1, <1>4, <1>5, <2>1 DEF CommandInv, CommandOk, Running, At
  <2>7. LockInv'
    BY <1>1, <1>4, <1>5, <1>6, <2>1, <2>2, ContentsAssumption DEF LockInv, Locked
  <2>8. KeepInv'
    BY <1>1, <1>2, <1>3, <1>4, <1>5, <2>1 DEF KeepInv
  <2>9. WriterInv'
    BY <1>1, <1>3, <1>5, <1>6, <2>1, ContentsAssumption DEF WriterInv, At, Locked
  <2>10. ReceiptInv'
    <3>1. ASSUME NEW p \in Paths, file[p] \in Releases
          PROVE  receipt'[p] # None /\ (receipt'[p] = file[p] \/ p \in unrecorded')
      <4>1. CASE p = run[i].path
        BY <1>4, <2>3, <2>4, <3>1, <4>1, ContentsAssumption
      <4>2. CASE p # run[i].path
        <5>1. ASSUME NEW j \in Procs, Replacing(j), run[j].path = p
              PROVE  FALSE
          BY <1>6, <4>2, <5>1 DEF Replacing, Locked
        <5> QED BY <1>1, <1>4, <1>7, <2>3, <3>1, <4>2, <5>1 DEF ReceiptInv
      <4> QED BY <4>1, <4>2
    <3> QED BY <1>3, <3>1 DEF ReceiptInv
  <2>11. HolderInv'
    <3>1. run'[i].phase = "create" => file[run[i].path] \notin Releases
      BY <1>1, <1>4, <2>1 DEF HolderInv
    <3> QED BY <1>3, <1>6, <2>1, <2>3, <3>1, ContentsAssumption DEF HolderInv, Replacing, At, Locked
  <2>12. ListInv'
    BY <1>4, <1>6, <2>1 DEF ListInv, Locked
  <2>13. QuietInv'
    BY <1>3, <1>6, <2>1 DEF QuietInv, Replacing, At, Running
  <2>14. EndInv'
    <3>1. run'[i].phase = "done" /\ run'[i].quiet => file[run[i].path] = run[i].release
      BY <1>1, <1>4, <2>1 DEF QuietInv, Replacing
    <3> QED BY <1>3, <1>4, <1>6, <2>1, <2>3, <3>1 DEF EndInv, Alone, At
  <2> QED BY <2>5, <2>6, <2>7, <2>8, <2>9, <2>10, <2>11, <2>12, <2>13, <2>14 DEF WholeInv
<1>8. CASE /\ run' = Ended(i, TRUE) /\ UNCHANGED receipt
           /\ unrecorded' = IF At(i, "confirm") THEN unrecorded \cup {run[i].path} ELSE unrecorded
  <2>1. unrecorded \subseteq unrecorded' /\ unrecorded' \subseteq Paths /\ (Replacing(i) => run[i].path \in unrecorded')
    BY <1>2, <1>3, <1>4, <1>8 DEF Replacing, At
  <2> QED BY <1>2, <1>3, <1>4, <1>8, <2>1, EndsShape, FailureHonest, EndKeeps
<1> QED BY <1>7, <1>8 DEF Record

-----------------------------------------------------------------------------
(* The other steps *)

\* Crash: the lock is free, and what was in hand is under its quarantine name.
LEMMA CrashKeeps ==
  ASSUME WholeInv, NEW i \in Procs, Crash(i)
  PROVE  WholeInv'
<1>1. /\ ShapeInv /\ CommandInv /\ LockInv /\ KeepInv /\ WriterInv
      /\ ReceiptInv /\ HolderInv /\ ListInv /\ QuietInv /\ EndInv
  BY DEF WholeInv
<1>2. /\ run \in [Procs -> Runs] /\ run[i] \in Runs /\ harness \in {"cline", "opencode"}
      /\ file \in [Paths -> Contents] /\ receipt \in [Paths -> Releases \cup {None}] /\ mine \in [Paths -> Foreign \cup {None}]
      /\ left \subseteq Contents \ {None} /\ unrecorded \subseteq Paths /\ excused \subseteq saved \cup Paths
  BY <1>1, ConstantsAssumption DEF ShapeInv, TypeOK, Json
<1>3. /\ Running(i) /\ UNCHANGED <<receipt, excused>> /\ Frame /\ Unlock(i)
      /\ run' = HeldBecome(Ended(i, TRUE), i, "partial")
  BY FrameOfStep DEF Crash
<1>4. run[i].path \in Paths /\ run[i].held \in Contents
  BY <1>1, <1>2, <1>3 DEF CommandInv, CommandOk, Runs
<1>5. UNCHANGED <<harness, plain, doc, rule, saved, mine>>
  BY <1>3 DEF Frame
<1>6. i \notin Releases \cup Foreign \cup {None, "partial"} /\ "partial" \notin Releases \cup Foreign \cup Procs \cup {None}
  BY ContentsAssumption DEF Foreign
<1>7. ASSUME NEW j \in Procs \ {i}
      PROVE  (run[i].quiet => ~Running(j)) /\ ~run[j].quiet
  BY <1>1, <1>3 DEF QuietInv
<1>8. /\ Others(i, "partial") /\ run'[i].phase = "done" /\ run'[i].held = None
      /\ ~run'[i].quiet /\ run'[i].action = "none"
  BY <1>2, <1>3, BecomeEnded DEF Contents
<1>9. /\ file' \in [Paths -> Contents] /\ \A q \in Paths : file'[q] = IF file[q] = i THEN "partial" ELSE file[q]
      /\ left' \subseteq Contents \ {None} /\ \A c \in left : c # i => c \in left'
      /\ run[i].held # None => run[i].held \in left'
      /\ unrecorded \subseteq unrecorded' /\ unrecorded' \subseteq Paths /\ (Replacing(i) => run[i].path \in unrecorded')
  <2>1. file' \in [Paths -> Contents] /\ \A q \in Paths : file'[q] = IF file[q] = i THEN "partial" ELSE file[q]
    BY <1>2 DEF Crash, Become, Contents
  <2>2. /\ left' \subseteq Contents \ {None} /\ \A c \in left : c # i => c \in left'
        /\ run[i].held # None => run[i].held \in left'
    <3>1. \A c \in left : Become(c, i, "partial") \in Contents \ {None} /\ (c # i => Become(c, i, "partial") = c)
      BY <1>2, <1>6 DEF Become, Contents
    <3>2. left' = {Become(c, i, "partial") : c \in left} \cup (IF run[i].held = None THEN {} ELSE {run[i].held})
      BY DEF Crash
    <3> QED BY <1>4, <3>1, <3>2
  <2>3. unrecorded \subseteq unrecorded' /\ unrecorded' \subseteq Paths /\ (Replacing(i) => run[i].path \in unrecorded')
    BY <1>2, <1>4 DEF Crash, Replacing, At
  <2> QED BY <2>1, <2>2, <2>3
<1>10. lock' = IF lock = i THEN None ELSE lock
  BY <1>3, <1>8 DEF Unlock
<1>11. ShapeInv'
  <2>1. lock' \in Procs \cup {None} /\ (lock' # None => Running(lock)')
    BY <1>1, <1>8, <1>10 DEF ShapeInv, TypeOK, Running, At, Others, Alike
  <2>2. \A j \in Procs : run'[j].held # None => Running(j)'
    BY <1>1, <1>8, ContentsAssumption DEF ShapeInv, TypeOK, Running, At, Others, Alike, Become
  <2> QED BY <1>1, <1>2, <1>3, <1>8, <1>9, <2>1, <2>2, ShapeKeeps DEF Others
<1>12. CommandInv'
  <2>1. CommandOk(i)'
    BY <1>8 DEF CommandOk, Running, At
  <2> QED BY <1>1, <1>5, <1>6, <1>8, <2>1, OthersCommands DEF Contents
<1>13. LockInv'
  BY <1>1, <1>5, <1>8, <1>10, ContentsAssumption DEF LockInv, Locked, Others, Alike
<1>14. KeepInv'
  <2>1. ASSUME NEW p \in Paths, mine[p] # None
        PROVE  file'[p] = mine[p] \/ mine[p] \in left' \/ p \in excused
               \/ \E j \in Procs : run'[j].held = mine[p] /\ run'[j].path = p
    <3>1. mine[p] # i
      BY <1>2, <1>6, <2>1
    <3>2. ASSUME NEW j \in Procs, run[j].held = mine[p], run[j].path = p
          PROVE  mine[p] \in left' \/ (run'[j].held = mine[p] /\ run'[j].path = p)
      BY <1>8, <1>9, <2>1, <3>1, <3>2 DEF Others, Alike, Become
    <3> QED BY <1>1, <1>9, <2>1, <3>1, <3>2 DEF KeepInv
  <2> QED BY <1>3, <1>5, <2>1 DEF KeepInv
<1>15. WriterInv'
  BY <1>1, <1>5, <1>6, <1>8, <1>9, ContentsAssumption DEF WriterInv, At, Others, Alike, Become
<1>16. ReceiptInv'
  <2>1. ASSUME harness = "opencode", NEW p \in Paths, file'[p] \in Releases
        PROVE  /\ receipt[p] # None
               /\ receipt[p] = file'[p] \/ p \in unrecorded' \/ \E j \in Procs \ {i} : Replacing(j) /\ run[j].path = p
    BY <1>1, <1>6, <1>9, <2>1 DEF ReceiptInv
  <2>2. ASSUME NEW j \in Procs \ {i}
        PROVE  (Replacing(j)' <=> Replacing(j)) /\ run'[j].path = run[j].path
    BY <1>8 DEF Others, Alike, Replacing
  <2> QED BY <1>3, <1>5, <2>1, <2>2 DEF ReceiptInv
<1>17. HolderInv'
  <2>1. ASSUME NEW j \in Procs \ {i}, Running(j)
        PROVE  run[j].path \in Paths
    BY <1>1, <2>1 DEF CommandInv, CommandOk
  <2>2. ASSUME NEW j \in Procs \ {i}, harness = "opencode"
        PROVE  run'[j].held = run[j].held
    BY <1>1, <1>8, <2>2 DEF WriterInv, Others, Become
  <2>3. ASSUME NEW j \in Procs \ {i}, Running(j)
        PROVE  file'[run[j].path] \in Releases => file[run[j].path] = file'[run[j].path]
    BY <1>6, <1>9, <2>1, <2>3
  <2>4. ASSUME NEW j \in Procs \ {i}
        PROVE  /\ run'[j].phase = run[j].phase /\ run'[j].path = run[j].path /\ run'[j].release = run[j].release
               /\ (Replacing(j)' <=> Replacing(j)) /\ (At(j, "discard")' <=> At(j, "discard")) /\ (Running(j)' <=> Running(j))
    BY <1>8 DEF Others, Alike, Replacing, At, Running
  <2>5. ASSUME NEW j \in Procs, ~Running(j)
        PROVE  /\ run[j].phase \notin {"record", "create", "write", "recheck", "restore"}
               /\ ~Replacing(j) /\ ~At(j, "discard") /\ run[j].held = None
    BY <1>1, <2>5 DEF CommandInv, CommandOk, Running, At, Replacing
  <2>6. /\ run'[i].phase \notin {"record", "create", "write", "recheck", "restore"}
        /\ ~Replacing(i)' /\ ~At(i, "discard")' /\ run'[i].held \notin Releases
    BY <1>8, ContentsAssumption DEF Replacing, At
  <2>7. ASSUME harness = "opencode", NEW j \in Procs \ {i}, Running(j)
        PROVE  LET r == run'[j]
                   p == run'[j].path
               IN  /\ r.phase \in {"record", "create", "write", "recheck", "restore"} \/ (At(j, "discard")' /\ ~Replacing(j)') =>
                        file'[p] \notin Releases
                   /\ Replacing(j)' /\ file'[p] \in Releases => file'[p] = r.release
                   /\ r.phase \in {"create", "write"} /\ r.held = None => receipt'[p] = r.release
                   /\ r.held \in Releases => receipt'[p] # None /\ (receipt'[p] = r.held \/ p \in unrecorded' \/ At(j, "discard")')
    <3>1. LET r == run[j]
              p == run[j].path
          IN  /\ r.phase \in {"record", "create", "write", "recheck", "restore"} \/ (At(j, "discard") /\ ~Replacing(j)) =>
                   file[p] \notin Releases
              /\ Replacing(j) /\ file[p] \in Releases => file[p] = r.release
              /\ r.phase \in {"create", "write"} /\ r.held = None => receipt[p] = r.release
              /\ r.held \in Releases => receipt[p] # None /\ (receipt[p] = r.held \/ p \in unrecorded \/ At(j, "discard"))
      BY <1>1, <2>7 DEF HolderInv
    <3>2. receipt' = receipt /\ unrecorded \subseteq unrecorded'
      BY <1>3, <1>9
    <3> QED BY <2>2, <2>3, <2>4, <2>7, <3>1, <3>2
  <2>8. ASSUME harness = "opencode", NEW j \in Procs \ {i}, ~Running(j)
        PROVE  /\ run'[j].phase \notin {"record", "create", "write", "recheck", "restore"}
               /\ ~Replacing(j)' /\ ~At(j, "discard")' /\ run'[j].held \notin Releases
    BY <2>2, <2>4, <2>5, <2>8, ContentsAssumption
  <2> QED BY <1>5, <2>6, <2>7, <2>8 DEF HolderInv
<1>18. ListInv'
  <2>1. ASSUME NEW p \in Paths, file'[p] \in Releases
        PROVE  file[p] \in Releases
    BY <1>6, <1>9, <2>1
  <2>2. ASSUME harness = "opencode", NEW j \in Procs \ {i}, run[j].action = "uninstall", run[j].phase \in Locked
        PROVE  /\ run'[j].known = receipt'
               /\ ~run'[j].failed => \A p \in Paths : file'[p] \in Releases => p \in run'[j].todo \/ (At(j, "isolate")' /\ p = run'[j].path)
    <3>1. /\ run[j].known = receipt
          /\ ~run[j].failed => \A p \in Paths : file[p] \in Releases => p \in run[j].todo \/ (At(j, "isolate") /\ p = run[j].path)
      BY <1>1, <2>2 DEF ListInv
    <3>2. /\ run'[j].known = run[j].known /\ run'[j].todo = run[j].todo /\ run'[j].path = run[j].path
          /\ (run'[j].failed <=> run[j].failed) /\ (At(j, "isolate")' <=> At(j, "isolate"))
      BY <1>8 DEF Others, Alike, At
    <3> QED BY <1>3, <2>1, <3>1, <3>2
  <2> QED BY <1>5, <1>8, <2>2 DEF ListInv, Others, Alike, Locked
<1>19. QuietInv'
  BY <1>7, <1>8 DEF QuietInv, Replacing, At, Running, Others, Alike
<1>20. EndInv'
  BY <1>7, <1>8 DEF EndInv, Alone, At, Others, Alike
<1> QED BY <1>11, <1>12, <1>13, <1>14, <1>15, <1>16, <1>17, <1>18, <1>19, <1>20 DEF WholeInv

\* What is left of the commands that something disturbs.
LEMMA DisturbedShape ==
  ASSUME run \in [Procs -> Runs], NEW j \in Procs, run[j].held # None => Running(j)
  PROVE  /\ Disturbed[j] \in Runs /\ Disturbed[j].phase = run[j].phase /\ Disturbed[j].held = run[j].held
         /\ ~Disturbed[j].quiet
         /\ Running(j) =>
              /\ Disturbed[j].action = run[j].action /\ Disturbed[j].path = run[j].path
              /\ Disturbed[j].release = run[j].release /\ Disturbed[j].todo = run[j].todo
              /\ Disturbed[j].known = run[j].known /\ (Disturbed[j].failed <=> run[j].failed)
<1>1. CASE Running(j)
  <2>1. Disturbed[j] = [run[j] EXCEPT !.quiet = FALSE]
    BY <1>1 DEF Disturbed
  <2>2. run[j] \in Runs /\ [run[j] EXCEPT !.quiet = FALSE] \in Runs
    BY DEF Runs
  <2> QED BY <2>1, <2>2 DEF Runs
<1>2. CASE ~Running(j)
  <2>1. Disturbed[j] = Idle
    BY <1>2 DEF Disturbed
  <2>2. Idle \in Runs /\ Idle.phase = "done" /\ Idle.held = None /\ ~Idle.quiet
    BY DEF Idle, Runs, Steps, NoReceipt, Contents
  <2>3. run[j].phase = "done" /\ run[j].held = None
    BY <1>2 DEF Running, At
  <2> QED BY <1>2, <2>1, <2>2, <2>3
<1> QED BY <1>1, <1>2

\* Start: a command that runs alone says so; the others are disturbed.
LEMMA StartKeeps ==
  ASSUME WholeInv, NEW i \in Procs, Start(i)
  PROVE  WholeInv'
<1>1. /\ ShapeInv /\ CommandInv /\ LockInv /\ KeepInv /\ WriterInv
      /\ ReceiptInv /\ HolderInv /\ ListInv /\ QuietInv /\ EndInv
  BY DEF WholeInv
<1>2. /\ run \in [Procs -> Runs] /\ harness \in {"cline", "opencode"} /\ harness \notin Json
      /\ {commands, faults, edits} \subseteq Nat /\ \A j \in Procs : run[j].held # None => Running(j)
  BY <1>1, ConstantsAssumption DEF ShapeInv, TypeOK, Json
<1>3. ~Running(i) /\ UNCHANGED <<file, left, receipt, lock, excused, unrecorded>> /\ Frame
  <2>1. ~Running(i) /\ UNCHANGED <<file, left, receipt, lock, excused, unrecorded>>
    BY DEF Start, ownedVars
  <2>2. UNCHANGED <<harness, plain, doc, rule, saved, mine, edits, faults>> /\ commands' = commands + 1
    BY DEF Start, jsonVars, ownedVars
  <2>3. {commands', faults', edits'} \subseteq Nat
    BY <1>2, <2>2
  <2> QED BY <2>1, <2>2, <2>3 DEF Frame
<1>4. UNCHANGED <<harness, plain, doc, rule, saved, mine>>
  BY <1>3 DEF Frame
<1>5. /\ run' \in [Procs -> Runs] /\ run'[i].phase \in {"lock", "inspect"} /\ run'[i].held = None
      /\ run'[i].action \in {"install", "uninstall"} /\ run'[i].path \in Paths /\ run'[i].release \in Releases
      /\ run'[i].phase = "lock" => harness = "opencode" /\ run'[i].action = "install"
      /\ run'[i].phase = "inspect" => harness = "cline" \/ run'[i].action = "uninstall"
      /\ run'[i].quiet => \A j \in Procs : ~Running(j)
      /\ \A j \in Procs \ {i} : run'[j] = Disturbed[j]
  <2>1. PICK action \in {"install", "uninstall"}, path \in Places, release \in Releases :
          /\ ~Running(i) /\ commands < MaxCommands[harness] /\ commands' = commands + 1
          /\ harness # "opencode" => release = CHOOSE r \in Releases : TRUE
          /\ LET alone == \A j \in Procs : ~Running(j) IN
             run' = [j \in Procs |->
                       IF j = i THEN [Idle EXCEPT !.action = action, !.path = path, !.release = release, !.quiet = alone,
                                        !.phase = CASE harness \in Json -> "read"
                                                    [] harness = "opencode" /\ action = "install" -> "lock"
                                                    [] OTHER -> "inspect"]
                       ELSE Disturbed[j]]
          /\ UNCHANGED <<harness, plain, jsonVars, ownedVars, excused, edits, faults>>
    BY DEF Start
  <2>5. PICK quiet \in BOOLEAN : quiet = (\A j \in Procs : ~Running(j))
    OBVIOUS
  <2>6. PICK phase : phase = CASE harness \in Json -> "read"
                               [] harness = "opencode" /\ action = "install" -> "lock"
                               [] OTHER -> "inspect"
    OBVIOUS
  <2>7. run' = [j \in Procs |->
                  IF j = i THEN [Idle EXCEPT !.action = action, !.path = path, !.release = release, !.quiet = quiet,
                                   !.phase = phase]
                  ELSE Disturbed[j]]
    <3> DEFINE next == CASE harness \in Json -> "read"
                         [] harness = "opencode" /\ action = "install" -> "lock"
                         [] OTHER -> "inspect"
    <3>1. run' = [j \in Procs |->
                    IF j = i THEN [Idle EXCEPT !.action = action, !.path = path, !.release = release,
                                     !.quiet = \A k \in Procs : ~Running(k), !.phase = next]
                    ELSE Disturbed[j]]
      BY <2>1
    <3>2. phase = next
      BY <2>6
    <3> HIDE DEF next
    <3> QED BY <2>5, <3>1, <3>2
  <2>8. harness = "opencode" /\ action = "install" => phase = "lock"
    BY <1>2, <2>6
  <2>9. ~(harness = "opencode" /\ action = "install") => phase = "inspect"
    BY <1>2, <2>6
  <2>2. path \in Paths
    BY <2>1, ConstantsAssumption DEF Places
  <2>3. [Idle EXCEPT !.action = action, !.path = path, !.release = release, !.quiet = quiet, !.phase = phase] \in Runs
    BY <2>1, <2>2, <2>5, <2>8, <2>9 DEF Idle, Runs, Steps, NoReceipt, Contents
  <2>4. \A j \in Procs : Disturbed[j] \in Runs
    BY <1>2, DisturbedShape
  <2>10. run'[i] = [Idle EXCEPT !.action = action, !.path = path, !.release = release, !.quiet = quiet, !.phase = phase]
         /\ \A j \in Procs \ {i} : run'[j] = Disturbed[j]
    BY <2>7
  <2>11. run' \in [Procs -> Runs]
    BY <2>3, <2>4, <2>7
  <2> QED BY <1>2, <2>1, <2>2, <2>5, <2>8, <2>9, <2>10, <2>11 DEF Idle
<1>6. ASSUME NEW j \in Procs \ {i}
      PROVE  /\ run'[j].phase = run[j].phase /\ run'[j].held = run[j].held /\ ~run'[j].quiet
             /\ Running(j) =>
                  /\ run'[j].action = run[j].action /\ run'[j].path = run[j].path /\ run'[j].release = run[j].release
                  /\ run'[j].todo = run[j].todo /\ run'[j].known = run[j].known /\ (run'[j].failed <=> run[j].failed)
  BY <1>2, <1>5, DisturbedShape
<1>7. run[i].phase = "done" /\ run[i].held = None /\ lock # i
  BY <1>1, <1>2, <1>3 DEF Running, At, LockInv, Locked
<1>8. ShapeInv'
  <2>1. lock' \in Procs \cup {None} /\ (lock' # None => Running(lock)')
    BY <1>1, <1>3, <1>5, <1>6 DEF ShapeInv, TypeOK, Running, At
  <2>2. \A j \in Procs : run'[j].held # None => Running(j)'
    BY <1>1, <1>5, <1>6 DEF ShapeInv, TypeOK, Running, At
  <2>3. /\ file' \in [Paths -> Contents] /\ receipt' \in [Paths -> Releases \cup {None}] /\ left' \subseteq Contents \ {None}
        /\ excused' \subseteq saved \cup Paths /\ unrecorded' \subseteq Paths
    BY <1>1, <1>3 DEF ShapeInv, TypeOK
  <2> QED BY <1>1, <1>3, <1>5, <2>1, <2>2, <2>3, ShapeKeeps
<1>9. CommandInv'
  <2>1. CommandOk(i)'
    BY <1>4, <1>5 DEF CommandOk, Running, At
  <2>2. ASSUME NEW j \in Procs \ {i}
        PROVE  CommandOk(j)'
    BY <1>1, <1>4, <1>6 DEF CommandInv, CommandOk, Running, At
  <2> QED BY <2>1, <2>2 DEF CommandInv
<1>10. LockInv'
  BY <1>1, <1>3, <1>4, <1>5, <1>6, <1>7 DEF LockInv, Locked
<1>11. KeepInv'
  <2>1. ASSUME NEW p \in Paths, mine[p] # None, NEW j \in Procs, run[j].held = mine[p], run[j].path = p
        PROVE  run'[j].held = mine[p] /\ run'[j].path = p
    BY <1>2, <1>6, <1>7, <2>1
  <2> QED BY <1>1, <1>3, <1>4, <2>1 DEF KeepInv
<1>12. WriterInv'
  BY <1>1, <1>3, <1>4, <1>5, <1>6, <1>7, ContentsAssumption DEF WriterInv, At, Running
<1>13. ASSUME NEW j \in Procs
       PROVE  (Replacing(j)' <=> Replacing(j)) /\ (Replacing(j) => j # i /\ run'[j].path = run[j].path /\ run'[j].release = run[j].release)
  BY <1>5, <1>6, <1>7 DEF Replacing, Running, At
<1>14. ReceiptInv'
  BY <1>1, <1>3, <1>4, <1>13 DEF ReceiptInv
<1>15. HolderInv'
  <2>1. ASSUME harness = "opencode", NEW j \in Procs \ {i}, Running(j)
        PROVE  LET r == run'[j]
                   p == run'[j].path
               IN  /\ r.phase \in {"record", "create", "write", "recheck", "restore"} \/ (At(j, "discard")' /\ ~Replacing(j)') =>
                        file'[p] \notin Releases
                   /\ Replacing(j)' /\ file'[p] \in Releases => file'[p] = r.release
                   /\ r.phase \in {"create", "write"} /\ r.held = None => receipt'[p] = r.release
                   /\ r.held \in Releases => receipt'[p] # None /\ (receipt'[p] = r.held \/ p \in unrecorded' \/ At(j, "discard")')
    BY <1>1, <1>3, <1>6, <1>13, <2>1 DEF HolderInv, At
  <2>2. ASSUME NEW j \in Procs, j = i \/ ~Running(j)
        PROVE  /\ run'[j].phase \in {"lock", "inspect", "done"} /\ ~Replacing(j)' /\ ~At(j, "discard")' /\ run'[j].held \notin Releases
    BY <1>2, <1>5, <1>6, <2>2, ContentsAssumption DEF Running, At, Replacing
  <2> QED BY <1>4, <2>1, <2>2 DEF HolderInv
<1>16. ListInv'
  <2>1. ASSUME NEW j \in Procs, run'[j].phase \in Locked
        PROVE  j # i /\ Running(j)
    BY <1>5, <1>6, <2>1 DEF Locked, Running, At
  <2> QED BY <1>1, <1>3, <1>4, <1>6, <2>1 DEF ListInv, At
<1>17. QuietInv'
  BY <1>5, <1>6 DEF QuietInv, Replacing, At, Running
<1>18. EndInv'
  BY <1>5, <1>6 DEF EndInv, Alone, At
<1> QED BY <1>8, <1>9, <1>10, <1>11, <1>12, <1>14, <1>15, <1>16, <1>17, <1>18 DEF WholeInv

\* PutFile: a file of the user is no plugin of any release.
LEMMA PutFileKeeps ==
  ASSUME WholeInv, NEW q \in Paths, NEW c \in Foreign \cup {None}, PutFile(q, c)
  PROVE  WholeInv'
<1>1. /\ ShapeInv /\ CommandInv /\ LockInv /\ KeepInv /\ WriterInv
      /\ ReceiptInv /\ HolderInv /\ ListInv /\ QuietInv /\ EndInv
  BY DEF WholeInv
<1>2. /\ run \in [Procs -> Runs] /\ file \in [Paths -> Contents] /\ mine \in [Paths -> Foreign \cup {None}]
      /\ \A j \in Procs : run[j].held # None => Running(j)
  BY <1>1 DEF ShapeInv, TypeOK
<1>3. /\ UNCHANGED <<harness, plain, doc, rule, saved, left, receipt, lock, excused, unrecorded, commands, faults>>
      /\ edits' = edits + 1 /\ run' = Disturbed
  BY DEF PutFile, Edit, jsonVars
<1>4. /\ file' \in [Paths -> Contents] /\ mine' \in [Paths -> Foreign \cup {None}]
      /\ file'[q] = c /\ mine'[q] = c /\ \A p \in Paths \ {q} : file'[p] = file[p] /\ mine'[p] = mine[p]
  BY <1>2 DEF PutFile, Contents
<1>5. c \notin Releases \cup Procs
  BY ContentsAssumption
<1>6. run' \in [Procs -> Runs]
  <2>1. \A j \in Procs : Disturbed[j] \in Runs
    BY <1>2, DisturbedShape
  <2>2. Disturbed = [j \in Procs |-> Disturbed[j]]
    BY DEF Disturbed
  <2> QED BY <1>3, <2>1, <2>2
<1>7. ASSUME NEW j \in Procs
      PROVE  /\ run'[j].phase = run[j].phase /\ run'[j].held = run[j].held /\ ~run'[j].quiet
             /\ Running(j) =>
                  /\ run'[j].action = run[j].action /\ run'[j].path = run[j].path /\ run'[j].release = run[j].release
                  /\ run'[j].todo = run[j].todo /\ run'[j].known = run[j].known /\ (run'[j].failed <=> run[j].failed)
  BY <1>2, <1>3, DisturbedShape
<1>8. ShapeInv'
  <2>1. lock' \in Procs \cup {None} /\ (lock' # None => Running(lock)')
    BY <1>1, <1>3, <1>7 DEF ShapeInv, TypeOK, Running, At
  <2>2. \A j \in Procs : run'[j].held \in Contents /\ (run'[j].held # None => Running(j)')
    BY <1>1, <1>7 DEF ShapeInv, TypeOK, Running, At
  <2>3. {commands', faults', edits'} \subseteq Nat
    BY <1>1, <1>3 DEF ShapeInv, TypeOK
  <2>4. \A k \in DOMAIN doc' : DOMAIN doc'[k] = DOMAIN NewGroup
    BY <1>1, <1>3 DEF ShapeInv, TypeOK
  <2>5. /\ harness' \in Harnesses /\ plain' \in BOOLEAN /\ rule' \in {None, "canonical", "modified"}
        /\ left' \subseteq Contents \ {None} /\ receipt' \in [Paths -> Releases \cup {None}]
        /\ excused' \subseteq saved' \cup Paths /\ unrecorded' \subseteq Paths
        /\ harness' \notin Json /\ doc' = <<>> /\ rule' = None /\ saved' = {}
    BY <1>1, <1>3 DEF ShapeInv, TypeOK
  <2> QED BY <1>4, <1>6, <2>1, <2>2, <2>3, <2>4, <2>5 DEF ShapeInv, TypeOK
<1>9. CommandInv'
  BY <1>1, <1>3, <1>7 DEF CommandInv, CommandOk, Running, At
<1>10. LockInv'
  BY <1>1, <1>3, <1>7 DEF LockInv, Locked
<1>11. KeepInv'
  <2>1. ASSUME NEW p \in Paths, mine[p] # None, NEW j \in Procs, run[j].held = mine[p], run[j].path = p
        PROVE  run'[j].held = mine[p] /\ run'[j].path = p
    BY <1>2, <1>7, <2>1
  <2> QED BY <1>1, <1>3, <1>4, <2>1 DEF KeepInv
<1>12. WriterInv'
  BY <1>1, <1>3, <1>4, <1>5, <1>7 DEF WriterInv, At, Running
<1>13. ASSUME NEW j \in Procs
       PROVE  (Replacing(j)' <=> Replacing(j)) /\ (Replacing(j) => run'[j].path = run[j].path /\ run'[j].release = run[j].release)
  BY <1>1, <1>7 DEF Replacing, Running, At
<1>14. ReceiptInv'
  BY <1>1, <1>3, <1>4, <1>5, <1>13 DEF ReceiptInv
<1>15. HolderInv'
  <2>1. ASSUME harness = "opencode", NEW j \in Procs, Running(j)
        PROVE  LET r == run'[j]
                   p == run'[j].path
               IN  /\ r.phase \in {"record", "create", "write", "recheck", "restore"} \/ (At(j, "discard")' /\ ~Replacing(j)') =>
                        file'[p] \notin Releases
                   /\ Replacing(j)' /\ file'[p] \in Releases => file'[p] = r.release
                   /\ r.phase \in {"create", "write"} /\ r.held = None => receipt'[p] = r.release
                   /\ r.held \in Releases => receipt'[p] # None /\ (receipt'[p] = r.held \/ p \in unrecorded' \/ At(j, "discard")')
    <3>1. run[j].path \in Paths
      BY <1>1, <2>1 DEF CommandInv, CommandOk
    <3>2. file'[run[j].path] \in Releases => file[run[j].path] = file'[run[j].path]
      BY <1>4, <1>5, <3>1
    <3> QED BY <1>1, <1>3, <1>7, <1>13, <2>1, <3>2 DEF HolderInv, At
  <2>2. ASSUME NEW j \in Procs, ~Running(j)
        PROVE  /\ run'[j].phase = "done" /\ ~Replacing(j)' /\ ~At(j, "discard")' /\ run'[j].held \notin Releases
    BY <1>2, <1>7, <2>2, ContentsAssumption DEF Running, At, Replacing
  <2> QED BY <1>3, <2>1, <2>2 DEF HolderInv
<1>16. ListInv'
  <2>1. ASSUME NEW j \in Procs, run'[j].phase \in Locked
        PROVE  Running(j)
    BY <1>7, <2>1 DEF Locked, Running, At
  <2>2. ASSUME NEW p \in Paths, file'[p] \in Releases
        PROVE  file[p] \in Releases
    BY <1>4, <1>5, <2>2
  <2> QED BY <1>1, <1>3, <1>7, <2>1, <2>2 DEF ListInv, At
<1>17. QuietInv'
  BY <1>7 DEF QuietInv
<1>18. EndInv'
  BY <1>7 DEF EndInv, Alone
<1> QED BY <1>8, <1>9, <1>10, <1>11, <1>12, <1>14, <1>15, <1>16, <1>17, <1>18 DEF WholeInv

-----------------------------------------------------------------------------
(* JSON files: what a step does to the commands *)

\* The commands but that of i stay as they are.
JsonAlters(i) == run' \in [Procs -> JsonRuns] /\ \A j \in Procs \ {i} : run'[j] = run[j]

\* The command of i goes on with another step.
JsonGoes(i, phase) ==
  JsonAlters(i) /\ run'[i].phase = phase /\ run'[i].action = run[i].action /\ (run'[i].quiet <=> run[i].quiet)

\* It ends; only a success that nothing disturbed leaves its account.
JsonEnds(i, failed) ==
  /\ JsonAlters(i) /\ run'[i].phase = "done"
  /\ run'[i].quiet => ~failed /\ ~run[i].failed /\ run[i].quiet /\ run'[i].action = run[i].action

\* The end of a command, as the fields of its record.
LEMMA JsonEndsShape ==
  ASSUME NEW i \in Procs, run \in [Procs -> JsonRuns], NEW failed \in BOOLEAN, run' = Ended(i, failed)
  PROVE  JsonEnds(i, failed)
<1>1. Idle \in JsonRuns /\ Idle.phase = "done" /\ ~Idle.quiet
  BY EmptySeq DEF Idle, JsonRuns
<1>2. run[i] \in JsonRuns
  OBVIOUS
<1>3. CASE failed \/ run[i].failed \/ ~run[i].quiet
  <2>1. run' = [run EXCEPT ![i] = Idle]
    BY <1>3 DEF Ended
  <2> QED
    BY <1>1, <2>1 DEF JsonEnds, JsonAlters
<1>4. CASE ~(failed \/ run[i].failed \/ ~run[i].quiet)
  <2>1. PICK r : r = [Idle EXCEPT !.action = run[i].action, !.path = run[i].path, !.release = run[i].release, !.quiet = TRUE]
    OBVIOUS
  <2>2. r \in JsonRuns /\ r.phase = "done" /\ r.action = run[i].action
    BY <1>2, <2>1, EmptySeq DEF Idle, JsonRuns
  <2>3. run' = [run EXCEPT ![i] = r]
    BY <1>4, <2>1 DEF Ended
  <2> QED
    BY <1>4, <2>2, <2>3 DEF JsonEnds, JsonAlters
<1> QED
  BY <1>3, <1>4

\* After the hooks file: Codex's rule, or the end.
LEMMA AfterDocShape ==
  ASSUME NEW i \in Procs, run \in [Procs -> JsonRuns], NEW failed \in BOOLEAN, run' = AfterDoc(i, failed)
  PROVE  IF harness = "codex" /\ (run[i].action = "install" \/ ~failed)
           THEN JsonGoes(i, "rule") /\ (run'[i].failed <=> failed)
           ELSE JsonEnds(i, failed)
<1>1. CASE harness = "codex" /\ (run[i].action = "install" \/ ~failed)
  <2>1. PICK r : r = [run[i] EXCEPT !.phase = "rule", !.failed = failed, !.snap = <<>>]
    OBVIOUS
  <2>2. run[i] \in JsonRuns
    OBVIOUS
  <2>3. r \in JsonRuns /\ r.phase = "rule" /\ (r.failed <=> failed) /\ r.action = run[i].action /\ (r.quiet <=> run[i].quiet)
    BY <2>1, <2>2, EmptySeq DEF JsonRuns
  <2>4. run' = [run EXCEPT ![i] = r]
    BY <1>1, <2>1 DEF AfterDoc
  <2> QED
    BY <1>1, <2>3, <2>4 DEF JsonGoes, JsonAlters
<1>2. CASE ~(harness = "codex" /\ (run[i].action = "install" \/ ~failed))
  BY <1>2, JsonEndsShape DEF AfterDoc
<1> QED
  BY <1>1, <1>2

\* Where a command does something, nobody else is sure to be alone.
LEMMA JsonOthers ==
  ASSUME JsonInv, NEW i \in Procs, Running(i), UNCHANGED <<harness, saved, excused>>, JsonAlters(i)
  PROVE  \A j \in Procs \ {i} : JsonOk(j)'
<1> TAKE j \in Procs \ {i}
<1>1. JsonOk(j) /\ ~run[j].quiet
  BY DEF JsonInv, JsonOk
<1>2. run'[j] = run[j]
  BY DEF JsonAlters
<1> QED
  BY <1>1, <1>2 DEF JsonOk, Running, At

\* What the steps of commands on JSON files leave alone.
JsonFrame ==
  UNCHANGED <<harness, plain, saved, excused, file, mine, left, receipt, lock, unrecorded>> /\ {commands', faults', edits'} \subseteq Nat

\* A step of a command keeps the invariant if what it does to the file and to its own
\* record does.
LEMMA JsonStep ==
  ASSUME JsonInv, NEW i \in Procs, Running(i), JsonFrame, JsonAlters(i), JsonOk(i)',
         FileOf(Handlers, harness, doc'), saved \ HandlersOf(doc') \subseteq excused,
         rule' \in (IF harness = "codex" THEN {None, "canonical", "modified"} ELSE {None})
  PROVE  JsonInv'
<1>1. JsonShapeInv
  BY DEF JsonInv
<1>2. JsonShapeInv'
  BY <1>1 DEF JsonShapeInv, JsonFrame, JsonAlters
<1>3. UserHandlersKept'
  BY DEF UserHandlersKept, JsonFrame
<1>4. \A j \in Procs \ {i} : JsonOk(j)'
  BY JsonOthers DEF JsonFrame
<1> QED
  BY <1>2, <1>3, <1>4 DEF JsonInv

\* The frame of a step.
LEMMA JsonFrameOfStep ==
  ASSUME JsonInv, Works \/ Fails, OnlyJson \/ OnlyRun, saved' = saved
  PROVE  JsonFrame
<1>1. commands \in Nat /\ faults \in Nat /\ edits \in Nat
  BY DEF JsonInv, JsonShapeInv
<1>2. UNCHANGED <<harness, plain, excused, file, mine, left, receipt, lock, unrecorded, commands, edits>>
  BY DEF OnlyJson, OnlyRun, ownedVars, bounds
<1>3. faults' \in Nat
  BY <1>1 DEF Works, Fails
<1> QED
  BY <1>1, <1>2, <1>3 DEF JsonFrame

\* The end of a command: its account is of a file, and a rule, that are as it left them.
LEMMA JsonEndOk ==
  ASSUME JsonInv, NEW i \in Procs, Running(i), NEW failed \in BOOLEAN, JsonEnds(i, failed),
         ~failed /\ ~run[i].failed /\ run[i].quiet => Made(harness, plain, run[i].action, doc') /\ RuleMade(run[i].action, rule'),
         UNCHANGED <<harness, plain, saved, excused>>
  PROVE  JsonOk(i)'
<1>1. run'[i].phase = "done" /\ \A j \in Procs \ {i} : run'[j] = run[j]
  BY DEF JsonEnds, JsonAlters
<1>2. ASSUME run'[i].quiet
      PROVE  /\ \A j \in Procs \ {i} : ~Running(j)'
             /\ Made(harness, plain, run'[i].action, doc') /\ RuleMade(run'[i].action, rule')
  <2>1. ~failed /\ ~run[i].failed /\ run[i].quiet /\ run'[i].action = run[i].action
    BY <1>2 DEF JsonEnds
  <2>2. \A j \in Procs \ {i} : ~Running(j)
    BY <2>1 DEF JsonInv, JsonOk
  <2>3. \A j \in Procs \ {i} : ~Running(j)'
    BY <1>1, <2>2 DEF Running, At
  <2>4. Made(harness, plain, run'[i].action, doc')
    BY <2>1
  <2>5. RuleMade(run'[i].action, rule')
    BY <2>1
  <2> QED
    BY <2>3, <2>4, <2>5
<1> QED
  BY <1>1, <1>2 DEF JsonOk, RuleMade, Running, At

\* A command that has done what it does to the hooks file, or failed to.
LEMMA AfterDocOk ==
  ASSUME JsonInv, NEW i \in Procs, Running(i), NEW failed \in BOOLEAN, run' = AfterDoc(i, failed),
         ~failed /\ run[i].quiet => Made(harness, plain, run[i].action, doc'),
         UNCHANGED <<harness, plain, rule, saved, excused>>
  PROVE  JsonAlters(i) /\ JsonOk(i)'
<1>1. run \in [Procs -> JsonRuns] /\ JsonOk(i) /\ harness \in Json
  BY DEF JsonInv, JsonShapeInv
<1>2. CASE harness = "codex" /\ (run[i].action = "install" \/ ~failed)
  <2>1. JsonGoes(i, "rule") /\ (run'[i].failed <=> failed)
    BY <1>1, <1>2, AfterDocShape
  <2>2. /\ run'[i].phase = "rule" /\ run'[i].action = run[i].action /\ (run'[i].quiet <=> run[i].quiet)
        /\ \A j \in Procs \ {i} : run'[j] = run[j]
    BY <2>1 DEF JsonGoes, JsonAlters
  <2>3. run'[i].action # "none"
    BY <1>1, <2>2 DEF JsonOk
  <2>4. run[i].quiet => \A j \in Procs \ {i} : ~Running(j)'
    BY <1>1, <2>2 DEF JsonOk, Running, At
  <2>5. run'[i].quiet => run'[i].failed \/ Made(harness, plain, run'[i].action, doc')
    BY <2>1, <2>2
  <2>6. JsonOk(i)'
    BY <1>2, <2>2, <2>3, <2>4, <2>5 DEF JsonOk, Running, At
  <2> QED
    BY <2>1, <2>6 DEF JsonGoes
<1>3. CASE ~(harness = "codex" /\ (run[i].action = "install" \/ ~failed))
  <2>1. JsonEnds(i, failed)
    BY <1>1, <1>3, AfterDocShape
  <2>2. ~failed => RuleMade(run[i].action, rule')
    <3> SUFFICES ASSUME ~failed PROVE RuleMade(run[i].action, rule')
      OBVIOUS
    <3>1. harness # "codex" /\ rule = None
      BY <1>3 DEF JsonInv, JsonShapeInv
    <3> QED
      BY <3>1, ContentsAssumption DEF RuleMade
  <2>3. JsonOk(i)'
    BY <2>1, <2>2, JsonEndOk
  <2> QED
    BY <2>1, <2>3 DEF JsonEnds
<1> QED
  BY <1>2, <1>3

\* ReadDoc: what is read has every handler the user saved.
LEMMA ReadDocKeeps ==
  ASSUME JsonInv, NEW i \in Procs, ReadDoc(i)
  PROVE  JsonInv'
<1>1. /\ At(i, "read") /\ Running(i) /\ run \in [Procs -> JsonRuns] /\ JsonOk(i) /\ FileOf(Handlers, harness, doc)
      /\ rule \in (IF harness = "codex" THEN {None, "canonical", "modified"} ELSE {None})
      /\ saved \ HandlersOf(doc) \subseteq excused
  BY DEF JsonInv, JsonShapeInv, ReadDoc, Running, At, UserHandlersKept
<1>2. UNCHANGED <<harness, plain, doc, rule, saved, excused>>
  BY DEF ReadDoc, OnlyRun, jsonVars
<1>3. JsonFrame
  BY <1>2, JsonFrameOfStep DEF ReadDoc
<1>4. CASE run' = [run EXCEPT ![i].phase = "write", ![i].snap = doc]
  <2>1. PICK r : r = [run[i] EXCEPT !.phase = "write", !.snap = doc]
    OBVIOUS
  <2>2. run[i] \in JsonRuns
    BY <1>1
  <2>3. doc \in Seq(GroupsOf(Handlers))
    BY <1>1 DEF FileOf
  <2>4. r \in JsonRuns /\ r.phase = "write" /\ r.snap = doc /\ r.action = run[i].action /\ (r.quiet <=> run[i].quiet)
    BY <2>1, <2>2, <2>3 DEF JsonRuns
  <2>5. run' = [run EXCEPT ![i] = r]
    BY <1>4, <2>1
  <2>6. run' \in [Procs -> JsonRuns] /\ run'[i] = r /\ \A j \in Procs \ {i} : run'[j] = run[j]
    BY <1>1, <2>4, <2>5
  <2>7. JsonOk(i)'
    <3>1. r.action # "none"
      BY <1>1, <2>4 DEF JsonOk
    <3>2. r.quiet => \A j \in Procs \ {i} : ~Running(j)'
      BY <1>1, <2>4, <2>6 DEF JsonOk, Running, At
    <3>3. FileOf(Handlers, harness', run'[i].snap) /\ saved' \ excused' \subseteq HandlersOf(run'[i].snap)
      BY <1>1, <1>2, <2>4, <2>6
    <3> QED
      BY <1>2, <2>4, <2>6, <3>1, <3>2, <3>3 DEF JsonOk, Running, At
  <2>8. JsonAlters(i)
    BY <2>6 DEF JsonAlters
  <2> QED
    BY <1>1, <1>2, <1>3, <2>7, <2>8, JsonStep
<1>5. CASE run' = AfterDoc(i, TRUE)
  <2>1. JsonAlters(i) /\ JsonOk(i)'
    BY <1>1, <1>2, <1>5, AfterDocOk
  <2> QED
    BY <1>1, <1>2, <1>3, <2>1, JsonStep
<1> QED
  BY <1>4, <1>5 DEF ReadDoc

\* What a command makes of what it read: a file with the user's handlers, and what it reports.
LEMMA ChangedDoes ==
  ASSUME JsonInv, NEW i \in Procs, At(i, "write"), NEW w, w = Changed(i)
  PROVE  /\ FileOf(Handlers, harness, w) /\ saved \ excused \subseteq HandlersOf(w)
         /\ Made(harness, plain, run[i].action, w)
<1>1. PICK s : s = run[i].snap
  OBVIOUS
<1>2. /\ FileOf(Handlers, harness, s) /\ saved \ excused \subseteq HandlersOf(s) /\ saved \cap Owned(harness) = {}
      /\ run[i].action \in {"install", "uninstall"} /\ plain \in BOOLEAN
  <2>1. run[i] \in JsonRuns /\ JsonOk(i) /\ Running(i)
    BY DEF JsonInv, JsonShapeInv, Running, At
  <2>2. run[i].action \in {"install", "uninstall"}
    BY <2>1 DEF JsonOk, JsonRuns
  <2> QED
    BY <1>1, <2>1, <2>2 DEF JsonOk, JsonInv, JsonShapeInv
<1>3. "own" \in Handlers
  BY DEF Handlers
<1>4. CASE run[i].action = "install"
  <2>1. PICK m : m = Merge(harness, plain, s)
    OBVIOUS
  <2>2. /\ FileOf(Handlers, harness, Merge(harness, plain, s))
        /\ Merge(harness, plain, Merge(harness, plain, s)) = Merge(harness, plain, s)
        /\ \E k \in DOMAIN Merge(harness, plain, s) : \E n \in DOMAIN Merge(harness, plain, s)[k].handlers :
             Canonical(harness, Merge(harness, plain, s), k, n)
        /\ HandlersOf(s) \ Owned(harness) \subseteq HandlersOf(Merge(harness, plain, s))
        /\ UserPart(harness, Merge(harness, plain, s)) = UserPart(harness, s)
    BY <1>2, <1>3, MergeDoes
  <2>3. w = m
    BY <1>1, <1>4, <2>1 DEF Changed
  <2> QED
    BY <1>2, <1>4, <2>1, <2>2, <2>3 DEF Made
<1>5. CASE run[i].action = "uninstall"
  <2>1. PICK m : m = RemoveOwned(harness, s)
    OBVIOUS
  <2>2. /\ FileOf(Handlers, harness, RemoveOwned(harness, s))
        /\ RemoveOwned(harness, RemoveOwned(harness, s)) = RemoveOwned(harness, s)
        /\ HandlersOf(RemoveOwned(harness, s)) = HandlersOf(s) \ Removable
        /\ UserPart(harness, RemoveOwned(harness, s)) = UserPart(harness, s)
    BY <1>2, RemoveDoes
  <2>3. w = m
    BY <1>1, <1>5, <2>1 DEF Changed
  <2>4. Removable \subseteq Owned(harness)
    BY RemovableOwned
  <2> QED
    BY <1>2, <1>5, <2>1, <2>2, <2>3, <2>4 DEF Made
<1> QED
  BY <1>2, <1>4, <1>5

\* WriteDoc: the file is replaced by what the command made of what it read.
LEMMA WriteDocKeeps ==
  ASSUME JsonInv, NEW i \in Procs, WriteDoc(i)
  PROVE  JsonInv'
<1>1. /\ At(i, "write") /\ Running(i) /\ run \in [Procs -> JsonRuns] /\ JsonOk(i) /\ FileOf(Handlers, harness, doc)
      /\ rule \in (IF harness = "codex" THEN {None, "canonical", "modified"} ELSE {None})
      /\ saved \ HandlersOf(doc) \subseteq excused
  BY DEF JsonInv, JsonShapeInv, WriteDoc, Running, At, UserHandlersKept
<1>2. UNCHANGED <<harness, plain, rule, saved, excused>>
  BY DEF WriteDoc, OnlyJson
<1>3. JsonFrame
  BY <1>2, JsonFrameOfStep DEF WriteDoc
<1>4. CASE run' = AfterDoc(i, FALSE) /\ doc' = IF Changed(i) = run[i].snap THEN doc ELSE Changed(i)
  <2>1. PICK w : w = Changed(i)
    OBVIOUS
  <2>2. /\ FileOf(Handlers, harness, w) /\ saved \ excused \subseteq HandlersOf(w)
        /\ Made(harness, plain, run[i].action, w)
    BY <1>1, <2>1, ChangedDoes
  <2>3. doc' \in {doc, w}
    BY <1>4, <2>1
  <2>4. run[i].quiet => doc' = w
    BY <1>1, <1>4, <2>1 DEF JsonOk
  <2>5. FileOf(Handlers, harness, doc') /\ saved \ HandlersOf(doc') \subseteq excused
    BY <1>1, <2>2, <2>3
  <2>6. run[i].quiet => Made(harness, plain, run[i].action, doc')
    BY <2>2, <2>4
  <2>7. JsonAlters(i) /\ JsonOk(i)'
    BY <1>1, <1>2, <1>4, <2>6, AfterDocOk
  <2> QED
    BY <1>1, <1>2, <1>3, <2>5, <2>7, JsonStep
<1>5. CASE run' = AfterDoc(i, TRUE) /\ doc' = doc
  <2>1. JsonAlters(i) /\ JsonOk(i)'
    BY <1>1, <1>2, <1>5, AfterDocOk
  <2> QED
    BY <1>1, <1>2, <1>3, <1>5, <2>1, JsonStep
<1> QED
  BY <1>4, <1>5 DEF WriteDoc

\* Rule: what Codex's command reports is of the rule too.
LEMMA RuleKeeps ==
  ASSUME JsonInv, NEW i \in Procs, Rule(i)
  PROVE  JsonInv'
<1>1. /\ At(i, "rule") /\ Running(i) /\ run \in [Procs -> JsonRuns] /\ JsonOk(i) /\ FileOf(Handlers, harness, doc)
      /\ rule \in (IF harness = "codex" THEN {None, "canonical", "modified"} ELSE {None})
      /\ saved \ HandlersOf(doc) \subseteq excused
  BY DEF JsonInv, JsonShapeInv, Rule, Running, At, UserHandlersKept
<1>2. UNCHANGED <<harness, plain, doc, saved, excused>> /\ harness = "codex" /\ run[i].action \in {"install", "uninstall"}
  <2>1. run[i] \in JsonRuns
    BY <1>1
  <2>2. harness = "codex" /\ run[i].action \in {"install", "uninstall"}
    BY <1>1, <2>1 DEF JsonOk, JsonRuns
  <2> QED
    BY <2>2 DEF Rule, OnlyJson
<1>3. JsonFrame
  BY <1>2, JsonFrameOfStep DEF Rule
<1>4. ASSUME NEW failed \in BOOLEAN, run' = Ended(i, failed), ~failed => RuleMade(run[i].action, rule'),
             rule' \in {None, "canonical", "modified"}
      PROVE  JsonInv'
  <2>1. JsonEnds(i, failed)
    BY <1>1, <1>4, JsonEndsShape
  <2>2. ~run[i].failed /\ run[i].quiet => Made(harness, plain, run[i].action, doc')
    <3>1. ~run[i].failed /\ run[i].quiet => Made(harness, plain, run[i].action, doc)
      BY <1>1 DEF JsonOk
    <3> QED
      BY <1>2, <3>1
  <2>3. JsonOk(i)'
    BY <1>1, <1>2, <1>4, <2>1, <2>2, JsonEndOk
  <2>4. JsonAlters(i)
    BY <2>1 DEF JsonEnds
  <2> QED
    BY <1>1, <1>2, <1>3, <1>4, <2>3, <2>4, JsonStep
<1>5. CASE /\ run' = Ended(i, FALSE)
           /\ rule' = CASE run[i].action = "install" -> "canonical"
                        [] run[i].action = "uninstall" /\ rule = "canonical" -> None
                        [] OTHER -> rule
  <2>1. run[i].action = "install" => rule' = "canonical"
    BY <1>5
  <2>2. run[i].action = "uninstall" => rule' = IF rule = "canonical" THEN None ELSE rule
    BY <1>5
  <2>3. RuleMade(run[i].action, rule')
    BY <2>1, <2>2, ContentsAssumption DEF RuleMade
  <2>4. rule' \in {None, "canonical", "modified"}
    BY <1>1, <1>2, <2>1, <2>2
  <2> QED
    BY <1>4, <1>5, <2>3, <2>4
<1>6. CASE run' = Ended(i, TRUE) /\ rule' = rule
  BY <1>1, <1>2, <1>4, <1>6
<1> QED
  BY <1>5, <1>6 DEF Rule

\* What is left of the commands on JSON files that something disturbs.
LEMMA JsonDisturbed ==
  ASSUME run \in [Procs -> JsonRuns], NEW j \in Procs
  PROVE  /\ Disturbed[j] \in JsonRuns /\ Disturbed[j].phase = run[j].phase /\ ~Disturbed[j].quiet
         /\ Running(j) => Disturbed[j].action = run[j].action /\ Disturbed[j].snap = run[j].snap
<1>1. run[j] \in JsonRuns
  OBVIOUS
<1>2. CASE Running(j)
  <2>1. Disturbed[j] = [run[j] EXCEPT !.quiet = FALSE]
    BY <1>2 DEF Disturbed
  <2>2. [run[j] EXCEPT !.quiet = FALSE] \in JsonRuns
    BY <1>1 DEF JsonRuns
  <2> QED
    BY <1>1, <2>1, <2>2 DEF JsonRuns
<1>3. CASE ~Running(j)
  <2>1. Disturbed[j] = Idle
    BY <1>3 DEF Disturbed
  <2>2. Idle \in JsonRuns /\ Idle.phase = "done" /\ ~Idle.quiet
    BY EmptySeq DEF Idle, JsonRuns
  <2>3. run[j].phase = "done"
    BY <1>3 DEF Running, At
  <2> QED
    BY <1>3, <2>1, <2>2, <2>3
<1> QED
  BY <1>2, <1>3

\* Start: a command that runs alone says so; the others are disturbed.
LEMMA JsonStartKeeps ==
  ASSUME JsonInv, NEW i \in Procs, Start(i)
  PROVE  JsonInv'
<1>1. /\ run \in [Procs -> JsonRuns] /\ harness \in Json /\ {commands, faults, edits} \subseteq Nat /\ ~Running(i)
      /\ JsonShapeInv /\ UserHandlersKept /\ \A j \in Procs : JsonOk(j)
  BY DEF JsonInv, JsonShapeInv, Start
<1>2. /\ UNCHANGED <<harness, plain, doc, rule, saved, file, left, receipt, lock, mine, unrecorded, excused, edits, faults>>
      /\ commands' = commands + 1
  BY DEF Start, jsonVars, ownedVars
<1>3. /\ run' \in [Procs -> JsonRuns] /\ run'[i].phase = "read" /\ run'[i].action # "none"
      /\ run'[i].quiet => \A j \in Procs : ~Running(j)
      /\ \A j \in Procs \ {i} : run'[j] = Disturbed[j]
  <2>1. PICK action \in {"install", "uninstall"}, path \in Places, release \in Releases :
          /\ ~Running(i) /\ commands < MaxCommands[harness] /\ commands' = commands + 1
          /\ harness # "opencode" => release = CHOOSE r \in Releases : TRUE
          /\ LET alone == \A j \in Procs : ~Running(j) IN
             run' = [j \in Procs |->
                       IF j = i THEN [Idle EXCEPT !.action = action, !.path = path, !.release = release, !.quiet = alone,
                                        !.phase = CASE harness \in Json -> "read"
                                                    [] harness = "opencode" /\ action = "install" -> "lock"
                                                    [] OTHER -> "inspect"]
                       ELSE Disturbed[j]]
          /\ UNCHANGED <<harness, plain, jsonVars, ownedVars, excused, edits, faults>>
    BY DEF Start
  <2>2. PICK quiet \in BOOLEAN : quiet = (\A j \in Procs : ~Running(j))
    OBVIOUS
  <2>3. PICK phase : phase = CASE harness \in Json -> "read"
                               [] harness = "opencode" /\ action = "install" -> "lock"
                               [] OTHER -> "inspect"
    OBVIOUS
  <2>4. phase = "read"
    <3>1. harness # "opencode"
      BY <1>1 DEF Json
    <3> QED
      BY <1>1, <2>3, <3>1
  <2>5. run' = [j \in Procs |->
                  IF j = i THEN [Idle EXCEPT !.action = action, !.path = path, !.release = release, !.quiet = quiet,
                                   !.phase = phase]
                  ELSE Disturbed[j]]
    <3> DEFINE next == CASE harness \in Json -> "read"
                         [] harness = "opencode" /\ action = "install" -> "lock"
                         [] OTHER -> "inspect"
    <3>1. run' = [j \in Procs |->
                    IF j = i THEN [Idle EXCEPT !.action = action, !.path = path, !.release = release,
                                     !.quiet = \A k \in Procs : ~Running(k), !.phase = next]
                    ELSE Disturbed[j]]
      BY <2>1
    <3>2. phase = next
      BY <2>3
    <3> HIDE DEF next
    <3> QED
      BY <2>2, <3>1, <3>2
  <2>6. path \in Paths
    BY <2>1, ConstantsAssumption DEF Places
  <2>7. PICK r : r = [Idle EXCEPT !.action = action, !.path = path, !.release = release, !.quiet = quiet, !.phase = phase]
    OBVIOUS
  <2>8. r \in JsonRuns /\ r.phase = "read" /\ r.action = action /\ (r.quiet <=> quiet)
    BY <2>1, <2>2, <2>4, <2>6, <2>7, EmptySeq DEF Idle, JsonRuns
  <2>9. \A j \in Procs : Disturbed[j] \in JsonRuns
    BY <1>1, JsonDisturbed
  <2>10. run' = [j \in Procs |-> IF j = i THEN r ELSE Disturbed[j]]
    BY <2>5, <2>7
  <2> QED
    BY <2>1, <2>2, <2>8, <2>9, <2>10
<1>4. JsonOk(i)'
  <2>1. run'[i].quiet => \A j \in Procs \ {i} : ~Running(j)'
    <3> SUFFICES ASSUME run'[i].quiet, NEW j \in Procs \ {i} PROVE ~Running(j)'
      OBVIOUS
    <3>1. ~Running(j) /\ run'[j] = Disturbed[j] /\ Disturbed[j].phase = run[j].phase
      BY <1>1, <1>3, JsonDisturbed
    <3> QED
      BY <3>1 DEF Running, At
  <2> QED
    BY <1>3, <2>1 DEF JsonOk, Running, At
<1>5. ASSUME NEW j \in Procs \ {i}
      PROVE  JsonOk(j)'
  <2>1. /\ run'[j].phase = run[j].phase /\ ~run'[j].quiet
        /\ Running(j) => run'[j].action = run[j].action /\ run'[j].snap = run[j].snap
    BY <1>1, <1>3, JsonDisturbed
  <2> QED
    BY <1>1, <1>2, <2>1 DEF JsonOk, Running, At
<1>6. JsonShapeInv'
  <2>1. {commands', faults', edits'} \subseteq Nat
    BY <1>1, <1>2
  <2> QED
    BY <1>1, <1>2, <1>3, <2>1 DEF JsonShapeInv
<1>7. UserHandlersKept'
  BY <1>1, <1>2 DEF UserHandlersKept
<1> QED
  BY <1>4, <1>5, <1>6, <1>7 DEF JsonInv

\* Crash: a command that is killed leaves nothing but what it had written.
LEMMA JsonCrashKeeps ==
  ASSUME JsonInv, NEW i \in Procs, Crash(i)
  PROVE  JsonInv'
<1>1. /\ run \in [Procs -> JsonRuns] /\ Running(i) /\ JsonShapeInv /\ JsonOk(i) /\ {commands, faults, edits} \subseteq Nat
      /\ saved \ HandlersOf(doc) \subseteq excused
  BY DEF JsonInv, JsonShapeInv, Crash, UserHandlersKept
<1>2. UNCHANGED <<harness, plain, doc, rule, saved, mine, receipt, excused, commands, edits>> /\ faults' \in Nat
  <2>1. UNCHANGED <<harness, plain, doc, rule, saved, mine, receipt, excused, commands, edits>> /\ faults' = faults + 1
    BY DEF Crash, OnlyOwned, Fails, jsonVars, bounds
  <2> QED
    BY <1>1, <2>1
<1>3. None # i
  BY ContentsAssumption
<1>4. PICK runs : runs = Ended(i, TRUE)
  OBVIOUS
<1>5. /\ runs \in [Procs -> JsonRuns] /\ \A j \in Procs \ {i} : runs[j] = run[j]
      /\ runs[i].phase = "done" /\ ~runs[i].quiet
  <2>1. Idle \in JsonRuns /\ Idle.phase = "done" /\ ~Idle.quiet
    BY EmptySeq DEF Idle, JsonRuns
  <2>2. runs = [run EXCEPT ![i] = Idle]
    BY <1>4 DEF Ended
  <2> QED
    BY <1>1, <2>1, <2>2
<1>6. run' = runs
  <2>1. run' = [j \in Procs |-> [runs[j] EXCEPT !.held = Become(runs[j].held, i, "partial")]]
    BY <1>4 DEF Crash, HeldBecome
  <2>2. ASSUME NEW j \in Procs
        PROVE  [runs[j] EXCEPT !.held = Become(runs[j].held, i, "partial")] = runs[j]
    <3>1. PICK r \in JsonRuns : r = runs[j]
      BY <1>5
    <3>2. r.held = None /\ Become(None, i, "partial") = None
      BY <1>3, <3>1 DEF Become, JsonRuns
    <3>3. [r EXCEPT !.held = None] = r
      BY <3>2 DEF JsonRuns
    <3> QED
      BY <3>1, <3>2, <3>3
  <2> QED
    BY <1>5, <2>1, <2>2
<1>7. file' = file /\ left' = left /\ lock' = lock /\ unrecorded' = unrecorded
  <2>1. run[i] \in JsonRuns /\ run[i].held = None /\ run[i].phase \in {"read", "write", "rule"}
    BY <1>1 DEF JsonRuns, Running, At
  <2>2. file' = [p \in Paths |-> Become(None, i, "partial")] /\ left' = {} /\ lock = None /\ left = {}
    BY <1>1, <2>1 DEF Crash, JsonShapeInv
  <2>3. lock' = None
    BY <2>2 DEF Crash, Unlock
  <2>4. unrecorded' = unrecorded
    BY <2>1 DEF Crash, At
  <2>5. file' = file
    BY <1>1, <1>3, <2>2 DEF Become, JsonShapeInv
  <2> QED
    BY <2>2, <2>3, <2>4, <2>5
<1>8. JsonFrame
  BY <1>1, <1>2, <1>7 DEF JsonFrame
<1>9. JsonAlters(i) /\ JsonOk(i)'
  BY <1>5, <1>6 DEF JsonAlters, JsonOk, Running, At
<1>10. FileOf(Handlers, harness, doc') /\ rule' \in (IF harness = "codex" THEN {None, "canonical", "modified"} ELSE {None})
  BY <1>1, <1>2 DEF JsonShapeInv
<1> QED
  BY <1>1, <1>2, <1>8, <1>9, <1>10, JsonStep

\* A file with one more handler of the user's has every one it had.
LEMMA OneMore ==
  ASSUME FileOf(Handlers, harness, doc), NEW h \in Edits,
         \/ doc # <<>> /\ doc' = [doc EXCEPT ![1].handlers = Append(@, h)]
         \/ harness # "cursor" /\ doc' = Append(doc, [NewGroup EXCEPT !.handlers = <<h>>])
  PROVE  FileOf(Handlers, harness, doc') /\ HandlersOf(doc) \cup {h} \subseteq HandlersOf(doc')
<1>1. /\ doc \in Seq(GroupsOf(Handlers)) /\ DOMAIN doc = 1 .. Len(doc) /\ Len(doc) \in Nat
      /\ \A n \in 1 .. Len(doc) : doc[n] \in GroupsOf(Handlers)
  BY LenProperties, ElementOfSeq DEF FileOf
<1>2. h \in Handlers
  BY DEF Handlers
<1>3. CASE doc # <<>> /\ doc' = [doc EXCEPT ![1].handlers = Append(@, h)]
  <2>1. 1 \in 1 .. Len(doc)
    <3>1. Len(doc) # 0
      BY <1>1, <1>3, EmptySeq
    <3> QED
      BY <1>1, <3>1
  <2>2. PICK l : l = Append(doc[1].handlers, h)
    OBVIOUS
  <2>3. doc[1].handlers \in Seq(Handlers)
    BY <1>1, <2>1 DEF GroupsOf
  <2>4. l \in Seq(Handlers) /\ Range(l) = Range(doc[1].handlers) \cup {h}
    BY <1>2, <2>2, <2>3, AppendProperties, RangeAppend
  <2>5. PICK g : g = [doc[1] EXCEPT !.handlers = l]
    OBVIOUS
  <2>6. g \in GroupsOf(Handlers) /\ g.handlers = l /\ g.match = doc[1].match /\ g.source = doc[1].source /\ g.extra = doc[1].extra
    BY <1>1, <2>1, <2>4, <2>5 DEF GroupsOf
  <2>7. doc' = [doc EXCEPT ![1] = g]
    BY <1>3, <2>2, <2>5
  <2>8. /\ [doc EXCEPT ![1] = g] \in Seq(GroupsOf(Handlers)) /\ Len([doc EXCEPT ![1] = g]) = Len(doc)
        /\ \A j \in 1 .. Len(doc) : [doc EXCEPT ![1] = g][j] = IF j = 1 THEN g ELSE doc[j]
    BY <1>1, <2>1, <2>6, ExceptSeq
  <2>9. doc' \in Seq(GroupsOf(Handlers)) /\ Len(doc') = Len(doc) /\ DOMAIN doc' = 1 .. Len(doc)
    BY <2>7, <2>8, LenProperties
  <2>10. doc'[1] = g /\ \A j \in 1 .. Len(doc) : j # 1 => doc'[j] = doc[j]
    BY <2>1, <2>7, <2>8
  <2>11. harness = "cursor" => Flat(doc)'
    BY <2>6, <2>9, <2>10 DEF FileOf, Flat
  <2>12. h \in HandlersOf(doc')
    BY <2>1, <2>4, <2>6, <2>9, <2>10 DEF HandlersOf
  <2>13. \A j \in DOMAIN doc : Range(doc[j].handlers) \subseteq HandlersOf(doc')
    <3> TAKE j \in DOMAIN doc
    <3>1. Range(doc[j].handlers) \subseteq Range(doc'[j].handlers)
      BY <1>1, <2>1, <2>4, <2>6, <2>10
    <3> QED
      BY <1>1, <2>9, <3>1 DEF HandlersOf
  <2>14. HandlersOf(doc) \subseteq HandlersOf(doc')
    BY <2>13 DEF HandlersOf
  <2> QED
    BY <2>9, <2>11, <2>12, <2>14 DEF FileOf
<1>4. CASE harness # "cursor" /\ doc' = Append(doc, [NewGroup EXCEPT !.handlers = <<h>>])
  <2>1. PICK g : g = [NewGroup EXCEPT !.handlers = <<h>>]
    OBVIOUS
  <2>2. <<h>> \in Seq(Handlers) /\ h \in Range(<<h>>)
    BY <1>2 DEF Range
  <2>3. g \in GroupsOf(Handlers) /\ g.handlers = <<h>>
    BY <2>1, <2>2 DEF NewGroup, GroupsOf
  <2>4. PICK d : d = Append(doc, g)
    OBVIOUS
  <2>5. /\ d \in Seq(GroupsOf(Handlers)) /\ Len(d) = Len(doc) + 1 /\ d[Len(doc) + 1] = g
        /\ \A j \in 1 .. Len(doc) : d[j] = doc[j]
    <3>1. doc \in Seq(GroupsOf(Handlers)) /\ g \in GroupsOf(Handlers)
      BY <1>1, <2>3
    <3> QED
      BY <2>4, <3>1, AppendProperties
  <2>6. DOMAIN d = 1 .. Len(doc) + 1
    BY <2>5, LenProperties
  <2>7. Len(doc) + 1 \in DOMAIN d /\ \A j \in 1 .. Len(doc) : j \in DOMAIN d
    BY <1>1, <2>6
  <2>8. h \in Range(d[Len(doc) + 1].handlers)
    BY <2>2, <2>3, <2>5
  <2>9. h \in HandlersOf(d)
    BY <2>7, <2>8 DEF HandlersOf
  <2>10. \A j \in DOMAIN doc : Range(doc[j].handlers) \subseteq HandlersOf(d)
    <3> TAKE j \in DOMAIN doc
    <3>1. j \in DOMAIN d /\ d[j] = doc[j]
      BY <1>1, <2>5, <2>7
    <3> QED
      BY <3>1 DEF HandlersOf
  <2>11. HandlersOf(doc) \subseteq HandlersOf(d)
    BY <2>10 DEF HandlersOf
  <2>12. doc' = d
    BY <1>4, <2>1, <2>4
  <2> QED
    BY <1>4, <2>5, <2>9, <2>11, <2>12 DEF FileOf
<1> QED
  BY <1>3, <1>4

\* SaveHandler: what is saved after a command has read the file is excused.
LEMMA SaveHandlerKeeps ==
  ASSUME JsonInv, NEW h \in Edits, SaveHandler(h)
  PROVE  JsonInv'
<1>1. /\ run \in [Procs -> JsonRuns] /\ {commands, faults, edits} \subseteq Nat
      /\ JsonShapeInv /\ FileOf(Handlers, harness, doc) /\ saved \ HandlersOf(doc) \subseteq excused
      /\ \A j \in Procs : JsonOk(j)
  BY DEF JsonInv, JsonShapeInv, UserHandlersKept
<1>2. /\ UNCHANGED <<harness, plain, rule, file, left, receipt, lock, mine, unrecorded, commands, faults>>
      /\ edits' = edits + 1 /\ run' = Disturbed /\ saved' = saved \cup {h}
      /\ excused' = IF \E j \in Procs : At(j, "write") THEN excused \cup {h} ELSE excused
      /\ \/ doc # <<>> /\ doc' = [doc EXCEPT ![1].handlers = Append(@, h)]
         \/ harness # "cursor" /\ doc' = Append(doc, [NewGroup EXCEPT !.handlers = <<h>>])
  BY DEF SaveHandler, Edit, ownedVars
<1>3. FileOf(Handlers, harness, doc') /\ HandlersOf(doc) \cup {h} \subseteq HandlersOf(doc')
  BY <1>1, <1>2, OneMore
<1>4. run' \in [Procs -> JsonRuns] /\ \A j \in Procs : run'[j] = Disturbed[j]
  <2>1. \A j \in Procs : Disturbed[j] \in JsonRuns
    BY <1>1, JsonDisturbed
  <2> QED
    BY <1>2, <2>1 DEF Disturbed
<1>5. ASSUME NEW j \in Procs
      PROVE  JsonOk(j)'
  <2>1. /\ run'[j].phase = run[j].phase /\ ~run'[j].quiet
        /\ Running(j) => run'[j].action = run[j].action /\ run'[j].snap = run[j].snap
    BY <1>1, <1>4, JsonDisturbed
  <2>2. At(j, "write") => saved' \ excused' \subseteq saved \ excused
    BY <1>2
  <2> QED
    BY <1>1, <1>2, <2>1, <2>2 DEF JsonOk, Running, At
<1>6. UserHandlersKept'
  BY <1>1, <1>2, <1>3 DEF UserHandlersKept
<1>7. JsonShapeInv'
  <2>1. saved' \cap Owned(harness') = {}
    <3>1. h \notin Owned(harness)
      BY HandlersAssumption DEF Owned, Removable
    <3> QED
      BY <1>1, <1>2, <3>1 DEF JsonShapeInv
  <2>2. excused' \subseteq saved' \cup Paths /\ {commands', faults', edits'} \subseteq Nat
    BY <1>1, <1>2 DEF JsonShapeInv
  <2> QED
    BY <1>1, <1>2, <1>3, <1>4, <2>1, <2>2 DEF JsonShapeInv
<1> QED
  BY <1>5, <1>6, <1>7 DEF JsonInv

-----------------------------------------------------------------------------
(* The inductive invariant *)

\* A step that changes nothing, of JSON files.
LEMMA JsonStutterKeeps ==
  ASSUME JsonInv, UNCHANGED vars
  PROVE  JsonInv'
<1>1. /\ harness' = harness /\ plain' = plain /\ doc' = doc /\ rule' = rule /\ saved' = saved /\ file' = file
      /\ left' = left /\ receipt' = receipt /\ lock' = lock /\ mine' = mine /\ unrecorded' = unrecorded
      /\ run' = run /\ excused' = excused /\ commands' = commands /\ edits' = edits /\ faults' = faults
  BY DEF vars, jsonVars, ownedVars, bounds
<1>2. JsonShapeInv' /\ UserHandlersKept'
  BY <1>1 DEF JsonInv, JsonShapeInv, UserHandlersKept
<1>3. \A j \in Procs : JsonOk(j)'
  BY <1>1 DEF JsonInv, JsonOk, RuleMade, Running, At
<1> QED
  BY <1>2, <1>3 DEF JsonInv

\* The inductive step for JSON files: one lemma per action.
LEMMA JsonKeeps ==
  ASSUME JsonInv, [Next]_vars
  PROVE  JsonInv'
<1>1. harness \in Json /\ run \in [Procs -> JsonRuns]
  BY DEF JsonInv, JsonShapeInv
<1>2. ASSUME NEW i \in Procs, StepOf(i)
      PROVE  JsonInv'
  <2>1. run[i].phase \in {"done", "read", "write", "rule"}
    BY <1>1 DEF JsonRuns
  <2>2. /\ ~Inspect(i) /\ ~Lock(i) /\ ~Look(i) /\ ~Place(i) /\ ~Create(i) /\ ~Isolate(i)
        /\ ~Recheck(i) /\ ~Restore(i) /\ ~Discard(i) /\ ~Record(i)
    BY <2>1 DEF Inspect, Lock, Look, Place, Create, Isolate, Recheck, Restore, Discard, Record, At
  <2>3. ~Write(i)
    BY <1>1 DEF Write
  <2> QED
    BY <1>2, <2>2, <2>3, ReadDocKeeps, WriteDocKeeps, RuleKeeps DEF StepOf
<1>3. ASSUME NEW i \in Procs, Start(i) \/ Crash(i)
      PROVE  JsonInv'
  BY <1>3, JsonStartKeeps, JsonCrashKeeps
<1>4. ASSUME NEW h \in Edits, SaveHandler(h)
      PROVE  JsonInv'
  BY <1>4, SaveHandlerKeeps
<1>5. ASSUME NEW p \in Paths, NEW c \in Foreign \cup {None}, PutFile(p, c)
      PROVE  FALSE
  BY <1>1, <1>5 DEF PutFile
<1> QED
  BY <1>2, <1>3, <1>4, <1>5, JsonStutterKeeps DEF Next

\* A step that changes nothing.
LEMMA StutterKeeps ==
  ASSUME WholeInv, UNCHANGED vars
  PROVE  WholeInv'
<1>1. /\ harness' = harness /\ plain' = plain /\ doc' = doc /\ rule' = rule /\ saved' = saved /\ file' = file
      /\ left' = left /\ receipt' = receipt /\ lock' = lock /\ mine' = mine /\ unrecorded' = unrecorded
      /\ run' = run /\ excused' = excused /\ commands' = commands /\ edits' = edits /\ faults' = faults
  BY DEF vars, jsonVars, ownedVars, bounds
<1>2. ShapeInv' /\ CommandInv' /\ LockInv'
  BY <1>1 DEF WholeInv, ShapeInv, TypeOK, CommandInv, CommandOk, LockInv, Running, At
<1>3. KeepInv' /\ WriterInv' /\ ReceiptInv'
  BY <1>1 DEF WholeInv, KeepInv, WriterInv, ReceiptInv, Replacing, At
<1>4. HolderInv' /\ ListInv'
  BY <1>1 DEF WholeInv, HolderInv, ListInv, Replacing, At
<1>5. QuietInv' /\ EndInv'
  BY <1>1 DEF WholeInv, QuietInv, EndInv, Replacing, Alone, Running, At
<1> QED BY <1>2, <1>3, <1>4, <1>5 DEF WholeInv

\* The inductive step for whole files: one lemma per action.
LEMMA WholeKeeps ==
  ASSUME WholeInv, [Next]_vars
  PROVE  WholeInv'
<1>1. harness \notin Json /\ run \in [Procs -> Runs]
  BY DEF WholeInv, ShapeInv
<1>2. ASSUME NEW i \in Procs, StepOf(i)
      PROVE  WholeInv'
  <2>1. ~ReadDoc(i) /\ ~Rule(i)
    <3>1. run[i].phase \in Steps
      BY <1>1 DEF Runs
    <3> QED BY <3>1 DEF ReadDoc, Rule, At, Steps, Locked
  <2>2. ~WriteDoc(i)
    BY <1>1 DEF WriteDoc
  <2> QED BY <1>2, <2>1, <2>2, InspectKeeps, LockKeeps, LookKeeps, PlaceKeeps, CreateKeeps, WriteKeeps,
             IsolateKeeps, RecheckKeeps, RestoreKeeps, DiscardKeeps, RecordKeeps DEF StepOf
<1>3. ASSUME NEW i \in Procs, Start(i) \/ Crash(i)
      PROVE  WholeInv'
  BY <1>3, StartKeeps, CrashKeeps
<1>4. ASSUME NEW h \in Edits, SaveHandler(h)
      PROVE  FALSE
  BY <1>1, <1>4 DEF SaveHandler
<1>5. ASSUME NEW p \in Paths, NEW c \in Foreign \cup {None}, PutFile(p, c)
      PROVE  WholeInv'
  BY <1>5, PutFileKeeps
<1> QED BY <1>2, <1>3, <1>4, <1>5, StutterKeeps DEF Next

\* The inductive invariant holds at first.
LEMMA InitInv == Init => IInv
<1> SUFFICES ASSUME Init PROVE IInv
  OBVIOUS
<1>1. CASE harness \in Json
  <2>1. harness \notin {"cline", "opencode"} /\ harness \in Harnesses /\ plain \in BOOLEAN
    BY <1>1 DEF Json, Init
  <2>2. file = [p \in Paths |-> None]
    <3>1. file \in [Paths -> {None}]
      BY <2>1 DEF Init
    <3> QED
      BY <3>1
  <2>3. mine = file
    <3>1. None \notin Foreign
      BY ContentsAssumption
    <3>2. mine = [p \in Paths |-> IF file[p] \in Foreign THEN file[p] ELSE None]
      BY DEF Init
    <3> QED
      BY <2>2, <3>1, <3>2
  <2>4. FileOf(Handlers, harness, doc)
    <3>1. doc \in Docs /\ (harness = "cursor" => Flat(doc))
      BY <1>1 DEF Init
    <3> QED
      BY <3>1, HandlersAssumption DEF FileOf
  <2>5. saved = HandlersOf(doc) \ Owned(harness) /\ excused = {}
    BY DEF Init
  <2>6. Idle \in JsonRuns /\ Idle.phase = "done" /\ ~Idle.quiet
    BY EmptySeq DEF Idle, JsonRuns
  <2>7. run \in [Procs -> JsonRuns] /\ \A i \in Procs : run[i] = Idle
    BY <2>6 DEF Init
  <2>8. JsonShapeInv
    <3>1. rule \in (IF harness = "codex" THEN {None, "canonical", "modified"} ELSE {None})
      BY DEF Init
    <3>2. left = {} /\ receipt = NoReceipt /\ lock = None /\ unrecorded = {} /\ commands = 0 /\ faults = 0 /\ edits = 0
      BY DEF Init
    <3> QED
      BY <1>1, <2>1, <2>2, <2>3, <2>4, <2>5, <2>7, <3>1, <3>2 DEF JsonShapeInv
  <2>9. UserHandlersKept
    BY <2>5 DEF UserHandlersKept
  <2>10. \A i \in Procs : JsonOk(i)
    BY <2>6, <2>7 DEF JsonOk, Running, At
  <2> QED
    BY <1>1, <2>8, <2>9, <2>10 DEF IInv, JsonInv
<1>2. CASE harness \notin Json
  <2>1. harness \in {"cline", "opencode"} /\ harness \in Harnesses
    BY <1>2, ConstantsAssumption DEF Init, Json
  <2>2. doc = <<>> /\ rule = None /\ saved = {}
    <3>1. doc = <<>> /\ rule = None /\ saved = HandlersOf(doc) \ Owned(harness)
      BY <1>2, <2>1 DEF Init
    <3>2. HandlersOf(<<>>) = {}
      BY DEF HandlersOf
    <3> QED BY <3>1, <3>2
  <2>3. /\ file \in [Paths -> {None, "legacy"} \cup Foreign] /\ receipt = NoReceipt /\ lock = None
        /\ left = {} /\ excused = {} /\ unrecorded = {} /\ commands = 0 /\ faults = 0 /\ edits = 0
    BY <2>1 DEF Init, Foreign
  <2>4. /\ mine \in [Paths -> Foreign \cup {None}] /\ \A p \in Paths : mine[p] # None => file[p] = mine[p]
    BY DEF Init
  <2>5. Idle \in Runs /\ Idle.phase = "done" /\ Idle.held = None /\ ~Idle.quiet /\ Idle.action = "none"
    BY DEF Idle, Runs, Steps, NoReceipt, Contents
  <2>6. run \in [Procs -> Runs] /\ \A i \in Procs : run[i] = Idle
    BY <2>5 DEF Init
  <2>7. harness = "opencode" => file \in [Paths -> {None} \cup Foreign]
    BY DEF Init, Foreign
  <2>8. ShapeInv
    <3>1. plain \in BOOLEAN
      BY <2>1 DEF Init
    <3>2. file \in [Paths -> Contents] /\ receipt \in [Paths -> Releases \cup {None}]
      BY <2>3 DEF Contents, NoReceipt
    <3>3. \A i \in Procs : run[i].held \in Contents /\ run[i].held = None
      BY <2>5, <2>6 DEF Contents
    <3> QED BY <1>2, <2>1, <2>2, <2>3, <2>4, <2>6, <3>1, <3>2, <3>3 DEF ShapeInv, TypeOK
  <2>9. CommandInv
    BY <2>5, <2>6 DEF CommandInv, CommandOk, Running, At
  <2>10. LockInv /\ KeepInv
    BY <2>3, <2>4, <2>5, <2>6, ContentsAssumption DEF LockInv, KeepInv, Locked
  <2>11. WriterInv /\ ReceiptInv
    BY <2>5, <2>6, <2>7, ContentsAssumption DEF WriterInv, ReceiptInv
  <2>12. HolderInv
    BY <2>5, <2>6, ContentsAssumption DEF HolderInv, Replacing, At
  <2>13. ListInv
    BY <2>5, <2>6 DEF ListInv, Locked
  <2>14. QuietInv /\ EndInv
    BY <2>5, <2>6 DEF QuietInv, EndInv, Alone
  <2> QED BY <1>2, <2>8, <2>9, <2>10, <2>11, <2>12, <2>13, <2>14 DEF IInv, WholeInv
<1> QED BY <1>1, <1>2

\* Every step keeps it.
LEMMA Inductive == IInv /\ [Next]_vars => IInv'
<1> SUFFICES ASSUME IInv, [Next]_vars PROVE IInv'
  OBVIOUS
<1>1. CASE harness \in Json
  <2>1. JsonInv'
    BY <1>1, JsonKeeps DEF IInv
  <2> QED
    BY <2>1 DEF IInv, JsonInv, JsonShapeInv
<1>2. CASE harness \notin Json
  <2>1. WholeInv'
    BY <1>2, WholeKeeps DEF IInv
  <2> QED BY <2>1 DEF IInv, WholeInv, ShapeInv
<1> QED BY <1>1, <1>2

-----------------------------------------------------------------------------
(* What holds of every behaviour *)

\* The inductive invariant.
THEOREM Invariance == Spec => []IInv
BY InitInv, Inductive, PTL DEF Spec

\* Every variable has a value of its kind, whatever the harness, and only a command that is
\* running holds the receipt lock or something it has moved away.
THEOREM TypesKept == Spec => []TypeOK
<1>1. IInv => TypeOK
  <2> SUFFICES ASSUME IInv PROVE TypeOK
    OBVIOUS
  <2>1. CASE harness \in Json
    <3>1. JsonShapeInv
      BY <2>1 DEF IInv, JsonInv
    <3>2. \A k \in DOMAIN doc : DOMAIN doc[k] = DOMAIN NewGroup
      <4> TAKE k \in DOMAIN doc
      <4>1. doc \in Seq(GroupsOf(Handlers))
        BY <3>1 DEF JsonShapeInv, FileOf
      <4>2. k \in 1 .. Len(doc)
        BY <4>1, LenProperties
      <4>3. doc[k] \in GroupsOf(Handlers)
        BY <4>1, <4>2, ElementOfSeq
      <4>4. DOMAIN doc[k] = {"match", "source", "extra", "handlers"}
        BY <4>3 DEF GroupsOf
      <4> QED
        BY <4>4 DEF NewGroup
    <3>3. file \in [Paths -> Contents] /\ mine \in [Paths -> Foreign \cup {None}] /\ receipt \in [Paths -> Releases \cup {None}]
      BY <3>1 DEF JsonShapeInv, Contents, NoReceipt
    <3>4. \A i \in Procs : run[i].held \in Contents /\ run[i].held = None
      <4> TAKE i \in Procs
      <4>1. run[i] \in JsonRuns
        BY <3>1 DEF JsonShapeInv
      <4> QED
        BY <4>1 DEF JsonRuns, Contents
    <3> QED
      BY <3>1, <3>2, <3>3, <3>4 DEF JsonShapeInv, TypeOK
  <2>2. CASE harness \notin Json
    BY <2>2 DEF IInv, WholeInv, ShapeInv
  <2> QED
    BY <2>1, <2>2
<1> QED BY <1>1, Invariance, PTL

\* No command, however many of them meet at a place and wherever they are killed, loses
\* a file of the user's: it is still there, with a command that puts it back, or under a
\* quarantine name; except the file a failed creation removes by its name.
THEOREM FilesOfUserKept == Spec => []UserFileKept
<1>1. IInv => UserFileKept
  BY DEF IInv, JsonInv, JsonShapeInv, WholeInv, KeepInv, UserFileKept
<1> QED BY <1>1, Invariance, PTL

\* Whenever the receipt lock is free, the receipt has the digest of every plugin of ours, of
\* any release and at any place, and the next install or uninstall recognises it; except one
\* whose install failed or was killed between the replacement and the receipt.
THEOREM PluginsRecognised == Spec => []Recognised
<1>1. IInv => Recognised
  <2> SUFFICES ASSUME IInv, harness = "opencode", lock = None,
                      NEW p \in Paths \ unrecorded, file[p] \in Releases
               PROVE  receipt[p] = file[p]
    BY DEF Recognised
  <2>1. LockInv /\ ReceiptInv
    BY DEF IInv, WholeInv, Json
  <2>2. ASSUME NEW i \in Procs
        PROVE  ~Replacing(i)
    BY <2>1, ContentsAssumption DEF LockInv, Replacing, Locked
  <2> QED BY <2>1, <2>2 DEF ReceiptInv
<1> QED BY <1>1, Invariance, PTL

\* No command, however many of them read and replace a JSON file and wherever they are killed,
\* loses a handler that the user saved, unless it was saved between the read and the rename.
THEOREM HandlersOfUserKept == Spec => []UserHandlersKept
<1>1. IInv => UserHandlersKept
  <2> SUFFICES ASSUME IInv, harness \notin Json PROVE UserHandlersKept
    BY DEF IInv, JsonInv
  <2>1. saved = {}
    BY DEF IInv, WholeInv, ShapeInv
  <2> QED BY <2>1 DEF UserHandlersKept
<1> QED BY <1>1, Invariance, PTL

\* Whatever the file has become, one more merge or removal changes nothing after the first,
\* and neither moves, drops or regroups a handler of the user's.
THEOREM MergesStable == Spec => []MergeStable
<1>1. IInv => MergeStable
  <2> SUFFICES ASSUME IInv, harness \in Json
               PROVE  LET merged  == Merge(harness, plain, doc)
                          removed == RemoveOwned(harness, merged)
                      IN  /\ Merge(harness, plain, merged) = merged /\ RemoveOwned(harness, removed) = removed
                          /\ UserPart(harness, merged) = UserPart(harness, doc)
                          /\ UserPart(harness, removed) = UserPart(harness, doc)
    BY DEF MergeStable
  <2>1. FileOf(Handlers, harness, doc) /\ plain \in BOOLEAN
    BY DEF IInv, JsonInv, JsonShapeInv
  <2>2. "own" \in Handlers
    BY DEF Handlers
  <2>3. PICK m : m = Merge(harness, plain, doc)
    OBVIOUS
  <2>4. /\ FileOf(Handlers, harness, m) /\ Merge(harness, plain, m) = m
        /\ UserPart(harness, m) = UserPart(harness, doc)
    BY <2>1, <2>2, <2>3, MergeDoes
  <2>5. /\ FileOf(Handlers, harness, RemoveOwned(harness, m))
        /\ RemoveOwned(harness, RemoveOwned(harness, m)) = RemoveOwned(harness, m)
        /\ HandlersOf(RemoveOwned(harness, m)) = HandlersOf(m) \ Removable
        /\ UserPart(harness, RemoveOwned(harness, m)) = UserPart(harness, m)
    <3>1. FileOf(Handlers, harness, m)
      BY <2>4
    <3> QED BY <3>1, RemoveDoes
  <2> QED BY <2>3, <2>4, <2>5
<1> QED BY <1>1, Invariance, PTL

\* An install that reports success and that nothing disturbed has left one hook, which hooks
\* status shows as installed: one canonical handler in a file of any length, the hook of
\* Cline, or a plugin whose digest is recorded.
THEOREM InstallsHonest == Spec => []InstallHonest
<1>1. IInv => InstallHonest
  <2> SUFFICES ASSUME IInv, NEW i \in Procs, Alone(i, "install")
               PROVE  LET r == run[i].release
                          p == run[i].path
                      IN  CASE harness = "opencode" -> PluginState(r, p) = "installed" /\ receipt[p] = r
                            [] harness = "cline" -> Status(r, p) = "installed"
                            [] OTHER -> /\ Status(r, p) = "installed"
                                        /\ \E k \in DOMAIN doc : \E n \in DOMAIN doc[k].handlers : Canonical(harness, doc, k, n)
    BY DEF InstallHonest
  <2>1. CASE harness \in Json
    <3>1. harness \notin {"opencode", "cline"} /\ JsonOk(i) /\ At(i, "done") /\ run[i].action = "install" /\ run[i].quiet
      BY <2>1 DEF IInv, JsonInv, Json, Alone
    <3>2. Made(harness, plain, "install", doc) /\ RuleMade("install", rule)
      BY <3>1 DEF JsonOk
    <3>3. /\ Merge(harness, plain, doc) = doc /\ (harness = "codex" => rule = "canonical")
          /\ \E k \in DOMAIN doc : \E n \in DOMAIN doc[k].handlers : Canonical(harness, doc, k, n)
      BY <3>2 DEF Made, RuleMade
    <3>4. JsonStatus = "installed"
      BY <3>3 DEF JsonStatus
    <3>5. Status(run[i].release, run[i].path) = "installed"
      BY <3>1, <3>4 DEF Status
    <3> QED
      BY <3>1, <3>3, <3>5
  <2>2. CASE harness \notin Json
    <3>1. harness \in {"cline", "opencode"}
      BY <2>2, ConstantsAssumption DEF IInv, WholeInv, ShapeInv, TypeOK, Json
    <3>2. /\ run[i].path \in Paths /\ run[i].release \in Releases /\ file[run[i].path] = run[i].release
          /\ harness = "opencode" => receipt[run[i].path] = run[i].release
      BY <2>2 DEF IInv, WholeInv, EndInv
    <3>3. file[run[i].path] # None
      BY <3>2, ContentsAssumption
    <3>4. PluginState(run[i].release, run[i].path) = "installed"
      BY <3>2, <3>3 DEF PluginState
    <3>5. ClineStatus(run[i].release, run[i].path) = "installed"
      BY <3>2, <3>3, ContentsAssumption DEF ClineStatus
    <3>6. harness = "cline" => Status(run[i].release, run[i].path) = ClineStatus(run[i].release, run[i].path)
      BY DEF Status
    <3> QED BY <3>1, <3>2, <3>4, <3>5, <3>6
  <2> QED BY <2>1, <2>2
<1> QED BY <1>1, Invariance, PTL

\* An uninstall that reports success and that nothing disturbed has left nothing of ours that
\* could run: no removable handler in a file of any length and no canonical rule, no hook of
\* Cline, and at no place a plugin of any release.
THEOREM RemovalsHonest == Spec => []RemoveHonest
<1>1. IInv => RemoveHonest
  <2> SUFFICES ASSUME IInv, NEW i \in Procs, Alone(i, "uninstall")
               PROVE  CASE harness = "opencode" -> receipt = NoReceipt /\ \A p \in Paths : file[p] \notin Releases
                        [] harness = "cline" -> file[run[i].path] \notin {"legacy", run[i].release}
                        [] OTHER -> rule # "canonical" /\ HandlersOf(doc) \cap Removable = {}
    BY DEF RemoveHonest
  <2>1. CASE harness \in Json
    <3>1. harness \notin {"opencode", "cline"} /\ JsonOk(i) /\ At(i, "done") /\ run[i].action = "uninstall" /\ run[i].quiet
      BY <2>1 DEF IInv, JsonInv, Json, Alone
    <3>2. Made(harness, plain, "uninstall", doc) /\ RuleMade("uninstall", rule)
      BY <3>1 DEF JsonOk
    <3>3. rule # "canonical" /\ HandlersOf(doc) \cap Removable = {}
      BY <3>2 DEF Made, RuleMade
    <3> QED
      BY <3>1, <3>3
  <2>2. CASE harness \notin Json
    <3>1. harness \in {"cline", "opencode"}
      BY <2>2, ConstantsAssumption DEF IInv, WholeInv, ShapeInv, TypeOK, Json
    <3> QED BY <2>2, <3>1 DEF IInv, WholeInv, EndInv
  <2> QED BY <2>1, <2>2
<1> QED BY <1>1, Invariance, PTL

=============================================================================
