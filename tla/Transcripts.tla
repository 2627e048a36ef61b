---------------------------- MODULE Transcripts ----------------------------
(***************************************************************************)
(* Skill detection from the transcripts of Codex and Cursor: an `ingest`   *)
(* process reads a transcript that the harness is still writing, emits the *)
(* lines that start at or beyond the stored byte offset, and stores where  *)
(* it stopped (transcript_codex.go, transcript_cursor.go, OffsetStore in   *)
(* outbox.go).  Hooks of one session run at the same time.                 *)
(*                                                                         *)
(* A line is three positions long: after the first its JSON is cut, after  *)
(* the second it lacks only the newline, after the third it is complete.   *)
(* Every line names a skill of its own.                                    *)
(***************************************************************************)
EXTENDS Naturals, FiniteSets

CONSTANTS
  Hooks,        \* slots in which the harness runs `ingest`
  None,         \* no process, and no stored offset
  Transcripts,  \* the transcript files of one session
  Parent,       \* the session's own transcript; the others are of subagents
  MaxLines,     \* bound on the lines of the parent
  ChildLines,   \* bound on the lines of a subagent's transcript
  Agents,       \* harnesses to consider, among "codex" and "cursor"
  OldOffsets,   \* offsets an older release may have left for the session
  MaxFaults,    \* bound on crashes and failed calls
  MaxRotations  \* bound on truncations

ASSUME TranscriptAssumption ==
  /\ None \notin Hooks
  /\ None \notin Nat
  /\ Parent \in Transcripts
  /\ MaxLines \in Nat /\ ChildLines \in 0 .. MaxLines /\ MaxFaults \in Nat /\ MaxRotations \in Nat
  /\ Agents \subseteq {"codex", "cursor"}
  /\ OldOffsets \subseteq {3 * k : k \in 0 .. MaxLines}

VARIABLES
  agent,     \* the harness of the session
  \* files
  size,      \* length of each transcript
  age,       \* how often it was truncated
  stored,    \* the offset file of each transcript, or None
  legacy,    \* the offset file an older release kept for the whole session
  keyLock,   \* holder of the offset file's lock
  \* what each hook holds
  pc,        \* its place
  queue,     \* transcripts still to scan
  at,        \* the transcript it scans, or None
  keyed,     \* useOffset: there is a session id and an offset store
  migrate,   \* migrateLegacyParentOffset
  offset,    \* where emitting starts
  end,       \* where the scan ended
  scanned,   \* lines emitted by the scan under way
  held,      \* lines of the finished scans, not yet in the outbox
  \* history
  counted,   \* lines that reached the outbox
  twice,     \* lines that reached it more than once
  excused,   \* lines of scans that stored no offset or did not learn theirs
  missed,    \* lines that a crash, a failed Enqueue or a cut read lost
  faults,
  rotations

files   == <<agent, size, age, stored, legacy, keyLock>>
locals  == <<pc, queue, at, keyed, migrate, offset, end, scanned, held>>
history == <<counted, twice, excused, missed, faults, rotations>>
vars    == <<files, locals, history>>

Steps == {"idle", "next", "lock", "load", "scan", "save"}

Live == IF agent = "codex" THEN {Parent} ELSE Transcripts

Line(t, k) == <<t, age[t], k>>

\* Lines of t whose JSON is whole, newline or not.
Readable(t) == {k \in 0 .. MaxLines - 1 : 3 * k + 2 <= size[t]}

\* Lines of t that end in a newline.
Complete(t) == {k \in 0 .. MaxLines - 1 : 3 * k + 3 <= size[t]}

\* Load: no offset file counts as 0.
Load(t) == IF stored[t] = None THEN 0 ELSE stored[t]

Held == UNION {scanned[p] \cup held[p] : p \in Hooks}

-----------------------------------------------------------------------------
Init ==
  /\ agent \in Agents
  /\ legacy \in OldOffsets
  /\ size = [t \in Transcripts |-> IF t = Parent THEN legacy ELSE 0]
  /\ age = [t \in Transcripts |-> 0]
  /\ stored = [t \in Transcripts |-> IF agent = "codex" /\ t = Parent THEN legacy ELSE None]
  /\ keyLock = [t \in Transcripts |-> None]
  /\ pc = [p \in Hooks |-> "idle"]
  /\ queue = [p \in Hooks |-> {}]
  /\ at = [p \in Hooks |-> None]
  /\ keyed = [p \in Hooks |-> FALSE]
  /\ migrate = [p \in Hooks |-> FALSE]
  /\ offset = [p \in Hooks |-> 0]
  /\ end = [p \in Hooks |-> 0]
  /\ scanned = [p \in Hooks |-> {}]
  /\ held = [p \in Hooks |-> {}]
  /\ counted = {}
  /\ twice = {}
  /\ excused = {}
  /\ missed = {}
  /\ faults = 0
  /\ rotations = 0

-----------------------------------------------------------------------------
(* The harness *)

\* A line is written piece by piece.
Append(t) ==
  /\ t \in Live
  /\ size[t] < 3 * (IF t = Parent THEN MaxLines ELSE ChildLines)
  /\ size' = [size EXCEPT ![t] = @ + 1]
  /\ UNCHANGED <<agent, age, stored, legacy, keyLock, locals, history>>

\* The harness starts the transcript over.
Truncate(t) ==
  /\ t \in Live
  /\ rotations < MaxRotations
  /\ rotations' = rotations + 1
  /\ size' = [size EXCEPT ![t] = 0]
  /\ age' = [age EXCEPT ![t] = @ + 1]
  /\ UNCHANGED <<agent, stored, legacy, keyLock, locals,
                 counted, twice, excused, missed, faults>>
-----------------------------------------------------------------------------
(* The hook *)

Goto(p, step) == pc' = [pc EXCEPT ![p] = step]

Fault == faults < MaxFaults /\ faults' = faults + 1

Begin(p, T, legacyToo) ==
  /\ pc[p] = "idle"
  /\ Goto(p, "next")
  /\ queue' = [queue EXCEPT ![p] = T]
  /\ migrate' = [migrate EXCEPT ![p] = legacyToo]
  /\ \/ keyed' = [keyed EXCEPT ![p] = TRUE] /\ UNCHANGED faults
     \/ keyed' = [keyed EXCEPT ![p] = FALSE] /\ Fault
  /\ UNCHANGED <<files, at, offset, end, scanned, held,
                 counted, twice, excused, missed, rotations>>

\* Codex runs its Stop hook.
Stop(p) == agent = "codex" /\ Begin(p, {Parent}, FALSE)

\* Mutant of AfterAgentResponse: the subagents' transcripts are left to their own hooks.
AfterAgentResponseParentOnly(p) == agent = "cursor" /\ Begin(p, {Parent}, TRUE)

\* Cursor runs afterAgentResponse: the parent and its direct subagents.
AfterAgentResponse(p) == agent = "cursor" /\ Begin(p, Transcripts, TRUE)

\* Cursor runs subagentStop: one subagent's transcript.
SubagentStop(p) ==
  /\ agent = "cursor"
  /\ \E t \in Transcripts \ {Parent} : Begin(p, {t}, FALSE)

\* The loop over the transcripts: the parent comes first.
Open(p) ==
  /\ pc[p] = "next"
  /\ \E t \in queue[p] :
       /\ Parent \in queue[p] => t = Parent
       /\ at' = [at EXCEPT ![p] = t]
       /\ queue' = [queue EXCEPT ![p] = @ \ {t}]
       /\ Goto(p, IF keyed[p] THEN "lock" ELSE "scan")
  /\ UNCHANGED <<files, keyed, migrate, offset, end, scanned, held, history>>

\* The transcript cannot be opened or its offset not locked: no events of it.
OpenFails(p) ==
  /\ pc[p] \in {"next", "lock"}
  /\ Fault
  /\ \/ /\ pc[p] = "lock"
        /\ UNCHANGED queue
     \/ /\ pc[p] = "next"
        /\ \E t \in queue[p] :
             /\ Parent \in queue[p] => t = Parent
             /\ queue' = [queue EXCEPT ![p] = @ \ {t}]
  /\ at' = [at EXCEPT ![p] = None]
  /\ Goto(p, "next")
  /\ UNCHANGED <<files, keyed, migrate, offset, end, scanned, held,
                 counted, twice, excused, missed, rotations>>

\* Mutant of LockOffset: the hook does not wait.
LockOffsetIgnored(p) ==
  /\ pc[p] = "lock"
  /\ keyLock' = [keyLock EXCEPT ![at[p]] = p]
  /\ Goto(p, "load")
  /\ UNCHANGED <<agent, size, age, stored, legacy, queue, at, keyed, migrate, offset, end,
                 scanned, held, history>>

\* A blocking lock on the transcript's offset file.
LockOffset(p) ==
  /\ pc[p] = "lock"
  /\ keyLock[at[p]] = None
  /\ keyLock' = [keyLock EXCEPT ![at[p]] = p]
  /\ Goto(p, "load")
  /\ UNCHANGED <<agent, size, age, stored, legacy, queue, at, keyed, migrate, offset, end,
                 scanned, held, history>>

\* Mutant of Recorded: the older release's offset is forgotten.
RecordedNew(p) == Load(at[p])

\* The offset on record: the session's old one until the transcript has its own.
Recorded(p) ==
  IF migrate[p] /\ at[p] = Parent /\ stored[Parent] = None THEN legacy ELSE Load(at[p])

\* An offset beyond the file belongs to an earlier one: start over.
Start(p) == IF Recorded(p) > size[at[p]] THEN 0 ELSE Recorded(p)

LoadOffset(p) ==
  /\ pc[p] = "load"
  /\ offset' = [offset EXCEPT ![p] = Start(p)]
  /\ Goto(p, "scan")
  /\ UNCHANGED <<files, queue, at, keyed, migrate, end, scanned, held, history>>

\* What else the hook may take for its offset: 0 when the offset file cannot be
\* read or parsed, the session's old offset when the transcript's own seems not
\* to be there, the offset on record when the transcript's length is not known.
Misread(p) == {0, Recorded(p)} \cup (IF migrate[p] /\ at[p] = Parent THEN {legacy} ELSE {})

\* The lines from there to where it should have started are emitted again.
LoadFails(p) ==
  /\ pc[p] = "load"
  /\ Fault
  /\ \E from \in Misread(p) :
       /\ offset' = [offset EXCEPT ![p] = from]
       /\ excused' = excused \cup
            {Line(at[p], k) : k \in {j \in 0 .. MaxLines - 1 : from <= 3 * j /\ 3 * j < Start(p)}}
  /\ Goto(p, "scan")
  /\ UNCHANGED <<files, queue, at, keyed, migrate, end, scanned, held,
                 counted, twice, missed, rotations>>

\* Mutant of Scan: Cursor's scan takes in a last line without newline.
ScanCutShort(p) ==
  /\ pc[p] = "scan"
  /\ LET t == at[p]
         emitted == {Line(t, k) : k \in {j \in Readable(t) : 3 * j >= offset[p]}}
     IN /\ scanned' = [scanned EXCEPT ![p] = emitted]
        /\ end' = [end EXCEPT ![p] = size[t]]
        /\ excused' = IF keyed[p] THEN excused ELSE excused \cup emitted
  /\ Goto(p, "save")
  /\ UNCHANGED <<files, queue, at, keyed, migrate, offset, held,
                 counted, twice, missed, faults, rotations>>

\* Mutant of Scan: a line that starts at the offset is not emitted.
ScanStrict(p) ==
  /\ pc[p] = "scan"
  /\ LET t == at[p]
         lines == IF agent = "codex" THEN Readable(t) ELSE Complete(t)
         emitted == {Line(t, k) : k \in {j \in lines : 3 * j > offset[p]}}
     IN /\ scanned' = [scanned EXCEPT ![p] = emitted]
        /\ end' = [end EXCEPT ![p] = IF agent = "codex" THEN size[t] ELSE 3 * Cardinality(Complete(t))]
        /\ excused' = IF keyed[p] THEN excused ELSE excused \cup emitted
  /\ Goto(p, "save")
  /\ UNCHANGED <<files, queue, at, keyed, migrate, offset, held,
                 counted, twice, missed, faults, rotations>>

\* Mutant of Scan: the end is counted one too far.
ScanOneMore(p) ==
  /\ pc[p] = "scan"
  /\ LET t == at[p]
         lines == IF agent = "codex" THEN Readable(t) ELSE Complete(t)
         emitted == {Line(t, k) : k \in {j \in lines : 3 * j >= offset[p]}}
     IN /\ scanned' = [scanned EXCEPT ![p] = emitted]
        /\ end' = [end EXCEPT ![p] = size[t] + 1]
        /\ excused' = IF keyed[p] THEN excused ELSE excused \cup emitted
  /\ Goto(p, "save")
  /\ UNCHANGED <<files, queue, at, keyed, migrate, offset, held,
                 counted, twice, missed, faults, rotations>>

\* Codex emits every line it can parse and ends at the end of the file; Cursor
\* stops before a last line without newline.
Scan(p) ==
  /\ pc[p] = "scan"
  /\ LET t == at[p]
         lines == IF agent = "codex" THEN Readable(t) ELSE Complete(t)
         emitted == {Line(t, k) : k \in {j \in lines : 3 * j >= offset[p]}}
     IN /\ scanned' = [scanned EXCEPT ![p] = emitted]
        /\ end' = [end EXCEPT ![p] = IF agent = "codex" THEN size[t] ELSE 3 * Cardinality(Complete(t))]
        /\ excused' = IF keyed[p] THEN excused ELSE excused \cup emitted
  /\ Goto(p, "save")
  /\ UNCHANGED <<files, queue, at, keyed, migrate, offset, held,
                 counted, twice, missed, faults, rotations>>

\* The function returns: its events join the others, its lock is released.
Return(p) ==
  /\ held' = [held EXCEPT ![p] = @ \cup scanned[p]]
  /\ scanned' = [scanned EXCEPT ![p] = {}]
  /\ at' = [at EXCEPT ![p] = None]
  /\ keyLock' = [t \in Transcripts |-> IF keyLock[t] = p THEN None ELSE keyLock[t]]
  /\ offset' = [offset EXCEPT ![p] = 0]
  /\ end' = [end EXCEPT ![p] = 0]
  /\ Goto(p, "next")
  /\ UNCHANGED <<agent, size, age, legacy, queue, keyed, migrate, counted, twice, rotations>>

\* The line a scan has cut in two: its rest will start before the offset.
Cut(p) == IF end[p] % 3 = 1 THEN {Line(at[p], end[p] \div 3)} ELSE {}

Save(p) ==
  /\ pc[p] = "save"
  /\ stored' = IF keyed[p] THEN [stored EXCEPT ![at[p]] = end[p]] ELSE stored
  /\ missed' = IF keyed[p] THEN missed \cup Cut(p) ELSE missed
  /\ Return(p)
  /\ UNCHANGED <<excused, faults>>

\* The error of Save is not looked at.
SaveFails(p) ==
  /\ pc[p] = "save" /\ keyed[p]
  /\ Fault
  /\ excused' = excused \cup scanned[p]
  /\ Return(p)
  /\ UNCHANGED <<stored, missed>>

\* Every transcript is scanned: ingest enqueues the events.
Enqueue(p) ==
  /\ pc[p] = "next" /\ queue[p] = {}
  /\ \E l \in held[p] :
       /\ counted' = counted \cup {l}
       /\ twice' = IF l \in counted THEN twice \cup {l} ELSE twice
       /\ held' = [held EXCEPT ![p] = @ \ {l}]
  /\ UNCHANGED <<files, pc, queue, at, keyed, migrate, offset, end, scanned,
                 excused, missed, faults, rotations>>

\* ingest logs the error and goes on; the offset has moved.
EnqueueFails(p) ==
  /\ pc[p] = "next" /\ queue[p] = {}
  /\ Fault
  /\ \E l \in held[p] :
       /\ missed' = missed \cup {l}
       /\ held' = [held EXCEPT ![p] = @ \ {l}]
  /\ UNCHANGED <<files, pc, queue, at, keyed, migrate, offset, end, scanned,
                 counted, twice, excused, rotations>>

\* The process is gone, with what it held.
Gone(p) ==
  /\ Goto(p, "idle")
  /\ queue' = [queue EXCEPT ![p] = {}]
  /\ at' = [at EXCEPT ![p] = None]
  /\ keyed' = [keyed EXCEPT ![p] = FALSE]
  /\ migrate' = [migrate EXCEPT ![p] = FALSE]
  /\ offset' = [offset EXCEPT ![p] = 0]
  /\ end' = [end EXCEPT ![p] = 0]
  /\ scanned' = [scanned EXCEPT ![p] = {}]
  /\ held' = [held EXCEPT ![p] = {}]

Exit(p) ==
  /\ pc[p] = "next" /\ queue[p] = {} /\ held[p] = {}
  /\ Gone(p)
  /\ UNCHANGED <<files, history>>

\* Its offsets are stored already: the lines it held are not read again.
Crash(p) ==
  /\ pc[p] # "idle"
  /\ Fault
  /\ missed' = missed \cup held[p]
  /\ keyLock' = [t \in Transcripts |-> IF keyLock[t] = p THEN None ELSE keyLock[t]]
  /\ Gone(p)
  /\ UNCHANGED <<agent, size, age, stored, legacy, counted, twice, excused, rotations>>

-----------------------------------------------------------------------------
Step(p) ==
  \/ Open(p) \/ LockOffset(p) \/ LoadOffset(p) \/ Scan(p) \/ Save(p)
  \/ Enqueue(p) \/ Exit(p)

Trouble(p) == OpenFails(p) \/ LoadFails(p) \/ SaveFails(p) \/ EnqueueFails(p) \/ Crash(p)

Hook(p) == Stop(p) \/ AfterAgentResponse(p) \/ SubagentStop(p)

Next ==
  \/ \E t \in Transcripts : Append(t) \/ Truncate(t)
  \/ \E p \in Hooks : Hook(p) \/ Step(p) \/ Trouble(p)

Spec == Init /\ [][Next]_vars

\* The operating system runs every hook to its end, a hook that waits for an
\* offset lock is granted it at some time, and the harness runs hooks as long
\* as the session goes on; no subagent needs to stop.
Fairness ==
  \A p \in Hooks :
    /\ WF_vars(Step(p))
    /\ SF_vars(LockOffset(p))
    /\ SF_vars(Stop(p) \/ AfterAgentResponse(p))

FairSpec == Spec /\ Fairness

-----------------------------------------------------------------------------
(* Properties *)

Lines == Transcripts \X (0 .. MaxRotations) \X (0 .. MaxLines - 1)
Offsets == 0 .. 3 * MaxLines

TypeOK ==
  /\ agent \in Agents
  /\ size \in [Transcripts -> Offsets]
  /\ age \in [Transcripts -> 0 .. MaxRotations]
  /\ stored \in [Transcripts -> Offsets \cup {None}]
  /\ legacy \in Offsets
  /\ keyLock \in [Transcripts -> Hooks \cup {None}]
  /\ pc \in [Hooks -> Steps]
  /\ queue \in [Hooks -> SUBSET Transcripts]
  /\ at \in [Hooks -> Transcripts \cup {None}]
  /\ keyed \in [Hooks -> BOOLEAN] /\ migrate \in [Hooks -> BOOLEAN]
  /\ offset \in [Hooks -> Offsets] /\ end \in [Hooks -> Offsets]
  /\ scanned \in [Hooks -> SUBSET Lines] /\ held \in [Hooks -> SUBSET Lines]
  /\ counted \subseteq Lines /\ twice \subseteq Lines
  /\ excused \subseteq Lines /\ missed \subseteq Lines
  /\ faults \in Nat /\ rotations \in Nat

\* A line reaches the outbox a second time only when a scan that emitted it
\* could not store its offset or had no session to store it under, or when it
\* lies before the stored offset that some scan failed to read: hooks that run
\* at the same time on one transcript never emit the same line.
CountedOnce == twice \subseteq excused

\* Whatever lies before a stored offset has been counted, is held by a running
\* hook, or was lost to a crash, a failed Enqueue or a cut read: the offset
\* never runs ahead of the events (while no transcript is truncated).
NoneSkipped ==
  rotations = 0 =>
    \A t \in Transcripts, k \in 0 .. MaxLines - 1 :
      3 * k < Load(t) /\ ~(t = Parent /\ 3 * k < legacy)
        => Line(t, k) \in counted \cup Held \cup missed

\* A line that ends before the stored offset is counted or about to be.
AllCounted ==
  \A t \in Live : \A k \in Complete(t) :
    3 * k < Load(t) /\ ~(t = Parent /\ 3 * k < legacy) => Line(t, k) \in counted \cup Held

\* Without crashes, failed calls and truncations Cursor loses nothing: its scan
\* leaves a line that is still being written to the next one.
CursorCountsAll == agent = "cursor" /\ faults = 0 /\ rotations = 0 => AllCounted

\* Lines that an older release counted under its one offset per session are
\* not counted again after the upgrade, but by a scan that had no session or
\* that failed to read the offset it should have started from.
LegacyHonoured ==
  \A k \in 0 .. MaxLines - 1 :
    3 * k < legacy => <<Parent, 0, k>> \notin counted \ excused

\* A hook that finishes late never moves the offset back behind one that was
\* stored meanwhile (while no transcript is truncated).
OffsetsAdvance ==
  [][\A t \in Transcripts : rotations = 0 /\ stored[t] # None =>
       stored'[t] # None /\ stored'[t] >= stored[t]]_vars

\* Every complete line of every transcript of the session is counted in the
\* end, unless a crash, a failed call, a cut read or a truncation lost it:
\* hooks that wait for each other's locks all get their turn.
EventuallyCounted ==
  \A t \in Transcripts, k \in 0 .. MaxLines - 1 :
    (k \in Complete(t) /\ ~(t = Parent /\ 3 * k < legacy))
      ~> (<<t, 0, k>> \in counted \cup missed \/ rotations > 0)

\* "one skill run counts once": Codex loses nothing either.
CodexCountsAll == agent = "codex" /\ faults = 0 /\ rotations = 0 => AllCounted

-----------------------------------------------------------------------------
(* The inductive invariant, and what it adds to the properties above. *)

\* Lines of finished scans.
Passed == counted \cup UNION {held[p] : p \in Hooks}

\* Between lock and release.
Owns(p) == keyed[p] /\ pc[p] \in {"load", "scan", "save"}

\* One keyed hook at a time is between the lock and the release of a transcript.
LockInv ==
  /\ \A p \in Hooks : pc[p] \in {"lock", "load", "scan", "save"} => at[p] \in Transcripts
  /\ \A p \in Hooks : pc[p] \in {"lock", "load"} => keyed[p]
  /\ \A p \in Hooks, t \in Transcripts : keyLock[t] = p <=> Owns(p) /\ at[p] = t

\* Lines are never of an age to come.
AgeInv ==
  /\ \A t \in Transcripts : age[t] <= rotations
  /\ rotations <= MaxRotations
  /\ \A l \in counted \cup Held : l[2] <= age[l[1]]

\* Cursor's offsets are the starts of lines.
LineStart(n) == \A k \in 0 .. MaxLines : 3 * k < n => 3 * k + 3 <= n

\* Offsets lie within a transcript that was never truncated, and its old offset within them.
OffsetInv ==
  /\ LineStart(legacy)
  /\ agent = "cursor" => /\ \A t \in Transcripts : LineStart(Load(t))
                         /\ \A p \in Hooks : LineStart(end[p])
  /\ \A t \in Transcripts : age[t] = 0 => Load(t) <= size[t]
  /\ age[Parent] = 0 => legacy <= size[Parent] /\ (stored[Parent] = None \/ legacy <= stored[Parent])
  /\ agent = "codex" => stored[Parent] # None
  /\ \A p \in Hooks : Parent \in queue[p] \/ (at[p] = Parent /\ pc[p] \notin {"idle", "next"}) =>
       agent = "codex" \/ migrate[p]
  /\ \A p \in Hooks : Owns(p) /\ pc[p] = "scan" /\ at[p] = Parent /\ age[Parent] = 0 =>
       \A k \in 0 .. MaxLines - 1 :
         offset[p] <= 3 * k /\ 3 * k < legacy => <<Parent, 0, k>> \in excused
  /\ \A p \in Hooks : pc[p] = "save" /\ age[at[p]] = 0 =>
       /\ end[p] <= size[at[p]]
       /\ Owns(p) => Load(at[p]) <= end[p] /\ (at[p] = Parent => legacy <= end[p])

\* What a scan under the lock of its transcript may still emit has not been emitted.
OnceInv ==
  /\ \A l \in Passed \ excused :
       l[2] = age[l[1]] => 3 * l[3] < Load(l[1]) /\ Load(l[1]) <= size[l[1]]
  /\ \A p \in Hooks : Owns(p) /\ pc[p] = "scan" =>
       \A l \in Passed \ excused : l[1] = at[p] /\ l[2] = age[at[p]] => 3 * l[3] < offset[p]
  /\ \A p \in Hooks : Owns(p) /\ pc[p] = "save" =>
       \A l \in (Passed \cup scanned[p]) \ excused :
         l[1] = at[p] /\ l[2] = age[at[p]] => 3 * l[3] < end[p] /\ end[p] <= size[at[p]]
  /\ \A p \in Hooks : \A l \in scanned[p] : pc[p] = "save" /\ l[1] = at[p] /\ (keyed[p] \/ l \in excused)
  /\ \A p, q \in Hooks : p # q => (scanned[p] \cup held[p]) \cap (scanned[q] \cup held[q]) \subseteq excused
  /\ \A p \in Hooks : (scanned[p] \cup held[p]) \cap counted \subseteq excused

Old(t, k) == t = Parent /\ 3 * k < legacy

\* What lies before an offset has left its scan, or leaves it with the scan that saves it.
SkipInv ==
  rotations = 0 =>
    \A t \in Transcripts, k \in 0 .. MaxLines - 1 : ~Old(t, k) =>
      /\ 3 * k < Load(t) => Line(t, k) \in Passed \cup missed
      /\ \A p \in Hooks : Owns(p) /\ at[p] = t =>
           /\ pc[p] = "scan" /\ 3 * k < offset[p] => Line(t, k) \in Passed \cup missed
           /\ pc[p] = "save" /\ 3 * k < end[p] => Line(t, k) \in Passed \cup missed \cup scanned[p] \cup Cut(p)

\* Only codex cuts lines, and no line of an older release is emitted.
LossInv ==
  /\ agent = "cursor" /\ faults = 0 => missed = {}
  /\ \A k \in 0 .. MaxLines - 1 : 3 * k < legacy => <<Parent, 0, k>> \notin (counted \cup Held) \ excused

IInv == TypeOK /\ LockInv /\ AgeInv /\ OffsetInv /\ OnceInv /\ CountedOnce /\ SkipInv /\ LossInv
=============================================================================
