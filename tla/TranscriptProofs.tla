-------------------------- MODULE TranscriptProofs --------------------------
(***************************************************************************)
(* Proofs about Transcripts for every number of hooks, transcripts, lines, *)
(* faults and truncations: the inductive invariant IInv and the safety     *)
(* properties it implies.                                                  *)
(***************************************************************************)
EXTENDS Transcripts, TLAPS, FiniteSetTheorems

-----------------------------------------------------------------------------
(* Facts about lines *)

\* Cursor's scan ends behind the last complete line.
LEMMA CompleteEnd ==
  ASSUME TypeOK, NEW t \in Transcripts
  PROVE  LET e == 3 * Cardinality(Complete(t)) IN
         /\ e \in Offsets /\ e <= size[t] /\ size[t] < e + 3 /\ LineStart(e)
         /\ \A n \in Nat : LineStart(n) /\ n <= size[t] => n <= e
<1> DEFINE n == size[t] \div 3
<1>1. size[t] \in Nat /\ size[t] <= 3 * MaxLines /\ MaxLines \in Nat
  BY TranscriptAssumption DEF TypeOK, Offsets
<1>2. n \in Nat /\ 3 * n <= size[t] /\ size[t] < 3 * n + 3
  BY <1>1
<1> HIDE DEF n
<1>3. Complete(t) = 0 .. n - 1
  BY <1>1, <1>2 DEF Complete
<1>4. Cardinality(Complete(t)) = n
  BY <1>2, <1>3, FS_Interval
<1>5. n <= MaxLines
  BY <1>1, <1>2
<1>6. LineStart(3 * n)
  BY <1>1, <1>2 DEF LineStart
<1>7. ASSUME NEW m \in Nat, LineStart(m), m <= size[t] PROVE m <= 3 * n
  <2>1. n \in 0 .. MaxLines
    BY <1>1, <1>2, <1>5
  <2>2. 3 * n < m => 3 * n + 3 <= m
    BY <1>7, <2>1 DEF LineStart
  <2> QED BY <1>1, <1>2, <1>7, <2>2
<1> HIDE DEF LineStart
<1> QED BY <1>1, <1>2, <1>4, <1>5, <1>6, <1>7 DEF Offsets

\* The lines a scan emits are of its transcript and its time, at or beyond the offset, and whole.
LEMMA EmittedLines ==
  ASSUME TypeOK, NEW p \in Hooks, Scan(p), at[p] \in Transcripts
  PROVE  /\ scanned'[p] \subseteq Lines
         /\ \A l \in scanned'[p] :
              /\ l = Line(at[p], l[3]) /\ l[3] \in 0 .. MaxLines - 1
              /\ 3 * l[3] >= offset[p] /\ 3 * l[3] < end'[p]
         /\ end'[p] \in Offsets /\ end'[p] <= size[at[p]]
<1> DEFINE t == at[p]
<1> DEFINE lines == IF agent = "codex" THEN Readable(t) ELSE Complete(t)
<1>1. scanned'[p] = {Line(t, k) : k \in {j \in lines : 3 * j >= offset[p]}}
  BY DEF Scan, TypeOK
<1>2. end'[p] = IF agent = "codex" THEN size[t] ELSE 3 * Cardinality(Complete(t))
  BY DEF Scan, TypeOK
<1>3. size[t] \in Nat /\ size[t] \in Offsets
  BY TranscriptAssumption DEF TypeOK, Offsets
<1>4. end'[p] \in Offsets /\ end'[p] <= size[t]
  BY <1>2, <1>3, CompleteEnd
<1>5. ASSUME NEW k \in lines PROVE k \in 0 .. MaxLines - 1 /\ 3 * k < end'[p]
  <2>1. k \in 0 .. MaxLines - 1
    BY <1>5 DEF Readable, Complete
  <2>2. CASE agent = "codex"
    BY <1>2, <1>3, <2>1, <2>2, <1>5, TranscriptAssumption DEF Readable
  <2>3. CASE agent # "codex"
    <3>1. 3 * k + 3 <= size[t]
      BY <1>5, <2>3 DEF Complete
    <3> DEFINE e == 3 * Cardinality(Complete(t))
    <3>2. e \in Nat /\ size[t] < e + 3
      BY <1>3, CompleteEnd, TranscriptAssumption DEF Offsets
    <3> HIDE DEF e
    <3>3. 3 * k < e
      BY <1>3, <2>1, <3>1, <3>2, TranscriptAssumption
    <3> QED BY <1>2, <2>1, <2>3, <3>3 DEF e
  <2> QED BY <2>2, <2>3
<1>6. ASSUME NEW k \in lines PROVE Line(t, k) \in Lines
  BY <1>5, <1>6 DEF TypeOK, Lines, Line
<1> HIDE DEF lines
<1> QED BY <1>1, <1>4, <1>5, <1>6 DEF Line

-----------------------------------------------------------------------------
(* Types *)

\* A hook of either harness takes some transcripts in hand.
LEMMA HookBegins ==
  ASSUME NEW p \in Hooks, Hook(p)
  PROVE  \E T \in SUBSET Transcripts, legacyToo \in BOOLEAN :
           Begin(p, T, legacyToo) /\ (Parent \in T => agent = "codex" \/ legacyToo)
<1>1. CASE Stop(p)
  BY <1>1, TranscriptAssumption DEF Stop
<1>2. CASE AfterAgentResponse(p)
  BY <1>2 DEF AfterAgentResponse
<1>3. CASE SubagentStop(p)
  <2>1. PICK t \in Transcripts \ {Parent} : Begin(p, {t}, FALSE)
    BY <1>3 DEF SubagentStop
  <2>2. {t} \in SUBSET Transcripts /\ Parent \notin {t}
    OBVIOUS
  <2> QED BY <2>1, <2>2
<1> QED BY <1>1, <1>2, <1>3 DEF Hook

\* The files of the session and the bounds keep their types.
LEMMA TypeStep ==
  ASSUME TypeOK, LockInv, AgeInv, [Next]_vars
  PROVE  TypeOK'
<1> USE TranscriptAssumption DEF TypeOK
<1>1. ASSUME NEW t \in Transcripts, Append(t) PROVE TypeOK'
  BY <1>1 DEF Append, locals, history, Offsets
<1>2. ASSUME NEW t \in Transcripts, Truncate(t) PROVE TypeOK'
  BY <1>2 DEF Truncate, locals, AgeInv, Offsets
<1>3. ASSUME NEW p \in Hooks, Hook(p) PROVE TypeOK'
  <2>1. PICK T \in SUBSET Transcripts, legacyToo \in BOOLEAN : Begin(p, T, legacyToo)
    BY <1>3, HookBegins
  <2>2. migrate' \in [Hooks -> BOOLEAN] /\ keyed' \in [Hooks -> BOOLEAN]
    BY <2>1, Zenon DEF Begin
  <2>3. faults' \in Nat
    BY <2>1 DEF Begin, Fault
  <2>4. pc' \in [Hooks -> Steps] /\ queue' \in [Hooks -> SUBSET Transcripts]
    BY <2>1 DEF Begin, Goto, Steps
  <2> QED BY <2>1, <2>2, <2>3, <2>4 DEF Begin, files
<1>4. ASSUME NEW p \in Hooks, Open(p) PROVE TypeOK'
  BY <1>4 DEF Open, files, history, Goto, Steps
<1>5. ASSUME NEW p \in Hooks, OpenFails(p) PROVE TypeOK'
  BY <1>5 DEF OpenFails, files, Goto, Fault, Steps
<1>6. ASSUME NEW p \in Hooks, LockOffset(p) PROVE TypeOK'
  BY <1>6 DEF LockOffset, history, Goto, Steps
<1>7. ASSUME NEW p \in Hooks, LoadOffset(p) PROVE TypeOK'
  BY <1>7 DEF LoadOffset, LockInv, Start, Recorded, Load, files, history, Goto, Steps, Offsets
<1>8. ASSUME NEW p \in Hooks, Scan(p) PROVE TypeOK'
  <2>1. scanned'[p] \subseteq Lines /\ end'[p] \in Offsets
    BY <1>8, EmittedLines DEF LockInv, Scan
  <2>2. scanned' \in [Hooks -> SUBSET Lines] /\ end' \in [Hooks -> Offsets]
    BY <1>8, <2>1 DEF Scan
  <2>3. excused' \subseteq excused \cup scanned'[p]
    BY <1>8 DEF Scan
  <2> QED BY <1>8, <2>1, <2>2, <2>3 DEF Scan, files, Goto, Steps
<1>9. ASSUME NEW p \in Hooks, Save(p) PROVE TypeOK'
  <2>1. Cut(p) \subseteq Lines
    <3>1. CASE end[p] % 3 = 1
      <4>1. end[p] \in Nat /\ end[p] <= 3 * MaxLines
        BY DEF Offsets
      <4>2. end[p] \div 3 \in 0 .. MaxLines - 1
        BY <3>1, <4>1
      <4> QED BY <1>9, <3>1, <4>2 DEF Cut, Line, Lines, Save, LockInv
    <3>2. CASE end[p] % 3 # 1
      BY <3>2 DEF Cut
    <3> QED BY <3>1, <3>2
  <2> QED BY <1>9, <2>1 DEF Save, Return, LockInv, Goto, Steps, Offsets
<1>10. ASSUME NEW p \in Hooks, SaveFails(p) PROVE TypeOK'
  BY <1>10 DEF SaveFails, Return, Fault, Goto, Steps, Offsets
<1>11. ASSUME NEW p \in Hooks, Enqueue(p) PROVE TypeOK'
  BY <1>11 DEF Enqueue, files
<1>12. ASSUME NEW p \in Hooks, EnqueueFails(p) PROVE TypeOK'
  BY <1>12 DEF EnqueueFails, files, Fault
<1>13. ASSUME NEW p \in Hooks, Exit(p) PROVE TypeOK'
  BY <1>13 DEF Exit, Gone, files, history, Goto, Steps, Offsets
<1>14. ASSUME NEW p \in Hooks, Crash(p) PROVE TypeOK'
  BY <1>14 DEF Crash, Gone, Fault, Goto, Steps, Offsets
<1>15. ASSUME UNCHANGED vars PROVE TypeOK'
  BY <1>15 DEF vars, files, locals, history
<1>16. ASSUME NEW p \in Hooks, LoadFails(p) PROVE TypeOK'
  <2>1. PICK from \in Misread(p) :
          /\ offset' = [offset EXCEPT ![p] = from]
          /\ excused' = excused \cup
               {Line(at[p], k) : k \in {j \in 0 .. MaxLines - 1 : from <= 3 * j /\ 3 * j < Start(p)}}
    BY <1>16 DEF LoadFails
  <2>2. at[p] \in Transcripts /\ age[at[p]] \in 0 .. MaxRotations
    BY <1>16 DEF LoadFails, LockInv
  <2>3. from \in Offsets
    BY <2>2 DEF Misread, Recorded, Load, Offsets
  <2>4. \A k \in 0 .. MaxLines - 1 : Line(at[p], k) \in Lines
    BY <2>2 DEF Line, Lines
  <2>5. excused' \subseteq Lines
    BY <2>1, <2>4
  <2> QED BY <1>16, <2>1, <2>3, <2>5 DEF LoadFails, files, Fault, Goto, Steps
<1> QED
  BY <1>1, <1>2, <1>3, <1>4, <1>5, <1>6, <1>7, <1>8, <1>9, <1>10, <1>11, <1>12, <1>13, <1>14, <1>15,
     <1>16
     DEF Next, Step, Trouble

\* What is excused once stays so.
LEMMA ExcusedKept ==
  ASSUME [Next]_vars
  PROVE  excused \subseteq excused'
<1>1. ASSUME NEW p \in Hooks, Hook(p) PROVE excused \subseteq excused'
  BY <1>1, HookBegins DEF Begin
<1> QED
  BY <1>1 DEF Next, Step, Trouble, Append, Truncate, Open, OpenFails, LockOffset, LoadOffset, LoadFails,
       Scan, Save, SaveFails, Enqueue, EnqueueFails, Exit, Crash, vars, history

-----------------------------------------------------------------------------
(* The locks *)

\* A hook that reaches or leaves the locked part takes or releases its lock with it.
LEMMA LockStep ==
  ASSUME TypeOK, LockInv, [Next]_vars
  PROVE  LockInv'
<1> USE TranscriptAssumption DEF LockInv, Owns, TypeOK
<1>1. ASSUME NEW t \in Transcripts, Append(t) \/ Truncate(t) PROVE LockInv'
  BY <1>1 DEF Append, Truncate, locals
<1>2. ASSUME NEW p \in Hooks, Hook(p) PROVE LockInv'
  <2>1. PICK T \in SUBSET Transcripts, legacyToo \in BOOLEAN : Begin(p, T, legacyToo)
    BY <1>2, HookBegins
  <2> QED BY <2>1 DEF Begin, files, Goto
<1>3. ASSUME NEW p \in Hooks, Open(p) PROVE LockInv'
  BY <1>3 DEF Open, files, Goto
<1>4. ASSUME NEW p \in Hooks, OpenFails(p) PROVE LockInv'
  BY <1>4 DEF OpenFails, files, Goto
<1>5. ASSUME NEW p \in Hooks, LockOffset(p) PROVE LockInv'
  BY <1>5 DEF LockOffset, Goto
<1>6. ASSUME NEW p \in Hooks, LoadOffset(p) \/ LoadFails(p) \/ Scan(p) PROVE LockInv'
  <2>1. \A q \in Hooks : Owns(q)' <=> Owns(q)
    BY <1>6 DEF LoadOffset, LoadFails, Scan, Goto
  <2>2. UNCHANGED <<keyLock, at, keyed>>
    BY <1>6 DEF LoadOffset, LoadFails, Scan, files
  <2>3. pc[p] \in {"load", "scan"} /\ \E step \in {"scan", "save"} : pc' = [pc EXCEPT ![p] = step]
    BY <1>6 DEF LoadOffset, LoadFails, Scan, Goto
  <2>4. \A q \in Hooks, t \in Transcripts : keyLock'[t] = q <=> Owns(q)' /\ at'[q] = t
    <3> HIDE DEF Owns
    <3> QED BY <2>1, <2>2
  <2>5. \A q \in Hooks : pc'[q] \in {"lock", "load", "scan", "save"} => at'[q] \in Transcripts
    BY <2>2, <2>3
  <2>6. \A q \in Hooks : pc'[q] \in {"lock", "load"} => keyed'[q]
    BY <2>2, <2>3
  <2> QED BY <2>4, <2>5, <2>6
<1>7. ASSUME NEW p \in Hooks, Save(p) \/ SaveFails(p) PROVE LockInv'
  <2>1. Return(p)
    BY <1>7 DEF Save, SaveFails
  <2>2. \A q \in Hooks \ {p} : pc'[q] = pc[q] /\ at'[q] = at[q] /\ keyed'[q] = keyed[q]
    BY <2>1 DEF Return, Goto
  <2>3. pc'[p] = "next"
    BY <2>1 DEF Return, Goto
  <2>4. \A t \in Transcripts : keyLock'[t] = IF keyLock[t] = p THEN None ELSE keyLock[t]
    BY <2>1 DEF Return
  <2> HIDE DEF TypeOK
  <2> QED BY <2>2, <2>3, <2>4
<1>8. ASSUME NEW p \in Hooks, Enqueue(p) \/ EnqueueFails(p) PROVE LockInv'
  BY <1>8 DEF Enqueue, EnqueueFails, files
<1>9. ASSUME NEW p \in Hooks, Exit(p) PROVE LockInv'
  BY <1>9 DEF Exit, Gone, files, Goto
<1>10. ASSUME NEW p \in Hooks, Crash(p) PROVE LockInv'
  BY <1>10 DEF Crash, Gone, Goto
<1>11. ASSUME UNCHANGED vars PROVE LockInv'
  BY <1>11 DEF vars, files, locals
<1> QED
  BY <1>1, <1>2, <1>3, <1>4, <1>5, <1>6, <1>7, <1>8, <1>9, <1>10, <1>11 DEF Next, Step, Trouble

-----------------------------------------------------------------------------
(* The age of lines *)

\* A scan emits lines of its time, and a truncation begins a new one.
LEMMA AgeStep ==
  ASSUME TypeOK, LockInv, AgeInv, [Next]_vars
  PROVE  AgeInv'
<1> USE TranscriptAssumption DEF AgeInv, TypeOK, Held
<1>1. ASSUME NEW t \in Transcripts, Append(t) PROVE AgeInv'
  BY <1>1 DEF Append, locals, history
<1>2. ASSUME NEW t \in Transcripts, Truncate(t) PROVE AgeInv'
  <2>1. \A s \in Transcripts : age'[s] \in Nat /\ age[s] <= age'[s] /\ age'[s] <= rotations'
    BY <1>2 DEF Truncate
  <2>2. ASSUME NEW l \in counted \cup Held PROVE l[1] \in Transcripts /\ l[2] \in Nat
    BY <2>2 DEF Lines
  <2>3. counted' \cup Held' = counted \cup Held
    BY <1>2 DEF Truncate, locals
  <2>4. rotations' <= MaxRotations
    BY <1>2 DEF Truncate
  <2>5. \A l \in counted \cup Held : l[2] <= age'[l[1]]
    BY <2>1, <2>2
  <2> QED BY <2>1, <2>3, <2>4, <2>5
<1>3. ASSUME NEW p \in Hooks, Hook(p) PROVE AgeInv'
  <2>1. PICK T \in SUBSET Transcripts, legacyToo \in BOOLEAN : Begin(p, T, legacyToo)
    BY <1>3, HookBegins
  <2> QED BY <2>1 DEF Begin, files
<1>4. ASSUME NEW p \in Hooks,
             Open(p) \/ OpenFails(p) \/ LockOffset(p) \/ LoadOffset(p) \/ LoadFails(p)
      PROVE  AgeInv'
  BY <1>4 DEF Open, OpenFails, LockOffset, LoadOffset, LoadFails, files, history
<1>5. ASSUME NEW p \in Hooks, Scan(p) PROVE AgeInv'
  <2>1. \A l \in scanned'[p] : l[2] = age[l[1]] /\ l[2] \in Nat
    BY <1>5, EmittedLines DEF Scan, LockInv, Line
  <2>2. counted' \cup Held' \subseteq counted \cup Held \cup scanned'[p]
    BY <1>5 DEF Scan
  <2> QED BY <1>5, <2>1, <2>2 DEF Scan, files
<1>6. ASSUME NEW p \in Hooks, Save(p) \/ SaveFails(p) PROVE AgeInv'
  BY <1>6 DEF Save, SaveFails, Return
<1>7. ASSUME NEW p \in Hooks, Enqueue(p) \/ EnqueueFails(p) PROVE AgeInv'
  BY <1>7 DEF Enqueue, EnqueueFails, files
<1>8. ASSUME NEW p \in Hooks, Exit(p) \/ Crash(p) PROVE AgeInv'
  BY <1>8 DEF Exit, Crash, Gone, files, history
<1>9. ASSUME UNCHANGED vars PROVE AgeInv'
  BY <1>9 DEF vars, files, locals, history
<1> QED
  BY <1>1, <1>2, <1>3, <1>4, <1>5, <1>6, <1>7, <1>8, <1>9 DEF Next, Step, Trouble

-----------------------------------------------------------------------------
(* Offsets *)

\* A stored offset is where some scan of the same hook ended.
LEMMA OffsetStep ==
  ASSUME TypeOK, LockInv, AgeInv, OffsetInv, [Next]_vars
  PROVE  OffsetInv'
<1> USE TranscriptAssumption
<1>0. /\ \A t \in Transcripts : size[t] \in Nat /\ age[t] \in Nat /\ Load(t) \in Nat
      /\ legacy \in Nat /\ \A p \in Hooks : end[p] \in Nat /\ offset[p] \in Nat
  BY DEF TypeOK, Offsets, Load
<1>11. excused \subseteq excused'
  BY ExcusedKept
<1>1. ASSUME NEW t \in Transcripts, Append(t) PROVE OffsetInv'
  <2>1. \A s \in Transcripts : size'[s] \in Nat /\ size[s] <= size'[s]
    BY <1>0, <1>1 DEF Append, TypeOK
  <2>2. UNCHANGED <<agent, age, stored, legacy, keyed, pc, queue, at, migrate, offset, end>>
    BY <1>1 DEF Append, locals
  <2> QED BY <1>11, <1>0, <2>1, <2>2 DEF OffsetInv, LockInv, Owns, Load
<1>2. ASSUME NEW t \in Transcripts, Truncate(t) PROVE OffsetInv'
  <2>1. \A s \in Transcripts : age'[s] = 0 => age[s] = 0 /\ size'[s] = size[s]
    BY <1>0, <1>2 DEF Truncate, TypeOK
  <2>2. UNCHANGED <<agent, stored, legacy, keyed, pc, queue, at, migrate, offset, end>>
    BY <1>2 DEF Truncate, locals
  <2> QED BY <1>11, <1>0, <2>1, <2>2 DEF OffsetInv, LockInv, Owns, Load
<1>3. ASSUME NEW p \in Hooks, Hook(p) PROVE OffsetInv'
  <2>1. PICK T \in SUBSET Transcripts, legacyToo \in BOOLEAN :
          Begin(p, T, legacyToo) /\ (Parent \in T => agent = "codex" \/ legacyToo)
    BY <1>3, HookBegins
  <2>2. UNCHANGED <<files, at, offset, end>>
    BY <2>1 DEF Begin
  <2>3. \A q \in Hooks : \/ q # p /\ pc'[q] = pc[q] /\ keyed'[q] = keyed[q] /\ queue'[q] = queue[q] /\ migrate'[q] = migrate[q]
                         \/ q = p /\ pc'[q] = "next" /\ queue'[q] = T /\ migrate'[q] = legacyToo
    BY <2>1, Zenon DEF Begin, Goto, TypeOK
  <2> QED BY <1>11, <2>1, <2>2, <2>3 DEF OffsetInv, LockInv, Owns, Load, files
<1>4. ASSUME NEW p \in Hooks, Open(p) \/ OpenFails(p) \/ LockOffset(p) PROVE OffsetInv'
  <2>1. UNCHANGED <<agent, size, age, stored, legacy, keyed, migrate, offset, end>>
    BY <1>4 DEF Open, OpenFails, LockOffset, files
  <2>2. \A q \in Hooks \ {p} : pc'[q] = pc[q] /\ at'[q] = at[q] /\ queue'[q] = queue[q]
    BY <1>4 DEF Open, OpenFails, LockOffset, Goto, TypeOK
  <2>3. pc'[p] \in {"next", "lock", "load", "scan"} /\ (pc'[p] = "scan" => ~keyed[p])
    BY <1>4 DEF Open, OpenFails, LockOffset, Goto, TypeOK
  <2>4. queue'[p] \subseteq queue[p] /\ (pc'[p] # "next" /\ at'[p] = Parent => Parent \in queue[p] \/ (at[p] = Parent /\ pc[p] = "lock"))
    BY <1>4 DEF Open, OpenFails, LockOffset, Goto, TypeOK
  <2> QED BY <1>11, <2>1, <2>2, <2>3, <2>4 DEF OffsetInv, LockInv, Owns, Load
<1>5. ASSUME NEW p \in Hooks, LoadOffset(p) \/ LoadFails(p) PROVE OffsetInv'
  <2>1. UNCHANGED <<agent, size, age, stored, legacy, keyed, migrate, queue, at, end>>
    BY <1>5 DEF LoadOffset, LoadFails, files
  <2>2. \A q \in Hooks \ {p} : pc'[q] = pc[q] /\ offset'[q] = offset[q]
    BY <1>5 DEF LoadOffset, LoadFails, Goto, TypeOK
  <2>3. pc[p] = "load" /\ pc'[p] = "scan"
    BY <1>5 DEF LoadOffset, LoadFails, Goto, TypeOK
  <2>4. at[p] = Parent /\ age[Parent] = 0 => legacy <= Start(p)
    BY <1>0, <2>3 DEF OffsetInv, Start, Recorded, Load
  <2>5. offset'[p] = Start(p) \/ \A k \in 0 .. MaxLines - 1 :
          offset'[p] <= 3 * k /\ 3 * k < Start(p) => Line(at[p], k) \in excused'
    BY <1>5 DEF LoadOffset, LoadFails, TypeOK
  <2>6. Start(p) \in Nat
    BY <1>0, <2>3 DEF Start, Recorded, LockInv
  <2>7. at[p] = Parent /\ age[Parent] = 0 =>
          \A k \in 0 .. MaxLines - 1 :
            offset'[p] <= 3 * k /\ 3 * k < legacy => <<Parent, 0, k>> \in excused'
    <3> SUFFICES ASSUME at[p] = Parent, age[Parent] = 0, NEW k \in 0 .. MaxLines - 1,
                        offset'[p] <= 3 * k, 3 * k < legacy
                 PROVE  <<Parent, 0, k>> \in excused'
      OBVIOUS
    <3>1. 3 * k < Start(p)
      BY <1>0, <2>4, <2>6
    <3>2. offset'[p] # Start(p)
      BY <1>0, <2>6, <3>1
    <3> QED BY <2>5, <3>1, <3>2 DEF Line
  <2> QED BY <1>11, <2>1, <2>2, <2>3, <2>7 DEF OffsetInv, LockInv, Owns, Load
<1>6. ASSUME NEW p \in Hooks, Scan(p) PROVE OffsetInv'
  <2>1. UNCHANGED <<agent, size, age, stored, legacy, keyed, migrate, queue, at, offset>>
    BY <1>6 DEF Scan, files
  <2>2. \A q \in Hooks \ {p} : pc'[q] = pc[q] /\ end'[q] = end[q]
    BY <1>6 DEF Scan, Goto, TypeOK
  <2>3. pc[p] = "scan" /\ pc'[p] = "save" /\ at[p] \in Transcripts
    BY <1>6 DEF Scan, Goto, TypeOK, LockInv
  <2>4. end'[p] = IF agent = "codex" THEN size[at[p]] ELSE 3 * Cardinality(Complete(at[p]))
    BY <1>6 DEF Scan, TypeOK
  <2>5. agent \in {"codex", "cursor"}
    BY DEF TypeOK
  <2>6. agent = "cursor" => LineStart(end'[p])
    BY <2>3, <2>4, CompleteEnd
  <2>7. end'[p] <= size[at[p]]
    BY <1>0, <2>3, <2>4, CompleteEnd
  <2>8. ASSUME NEW n \in Nat, agent = "cursor" => LineStart(n), n <= size[at[p]] PROVE n <= end'[p]
    BY <2>3, <2>4, <2>5, <2>8, CompleteEnd
  <2>9. age[at[p]] = 0 => Load(at[p]) <= end'[p] /\ (at[p] = Parent => legacy <= end'[p])
    BY <1>0, <2>3, <2>8 DEF OffsetInv
  <2> QED BY <1>11, <2>1, <2>2, <2>3, <2>6, <2>7, <2>9 DEF OffsetInv, LockInv, Owns, Load
<1>7. ASSUME NEW p \in Hooks, Save(p) \/ SaveFails(p) PROVE OffsetInv'
  <2>1. Return(p) /\ pc[p] = "save" /\ at[p] \in Transcripts
    BY <1>7 DEF Save, SaveFails, LockInv
  <2>2. UNCHANGED <<agent, size, age, legacy, keyed, migrate, queue>>
    BY <2>1 DEF Return
  <2>3. \A q \in Hooks \ {p} : pc'[q] = pc[q] /\ end'[q] = end[q] /\ at'[q] = at[q] /\ offset'[q] = offset[q]
    BY <2>1 DEF Return, Goto, TypeOK
  <2>4. pc'[p] = "next" /\ end'[p] = 0 /\ LineStart(0)
    BY <2>1 DEF Return, Goto, TypeOK, LineStart
  <2>5. stored' = stored \/ (Owns(p) /\ stored' = [stored EXCEPT ![at[p]] = end[p]])
    BY <1>7, <2>1 DEF Save, SaveFails, Owns
  <2>6. \A t \in Transcripts : \/ stored'[t] = stored[t]
                               \/ Owns(p) /\ t = at[p] /\ stored'[t] = end[p]
    BY <2>5 DEF TypeOK
  <2>7. \A q \in Hooks \ {p} : Owns(q)' <=> Owns(q)
    BY <2>2, <2>3 DEF Owns
  <2>8. \A q \in Hooks \ {p} : ~(Owns(p) /\ Owns(q) /\ at[q] = at[p])
    BY <2>1 DEF LockInv
  <2>9. \A t \in Transcripts : \/ Load(t)' = Load(t) /\ stored'[t] = stored[t]
                               \/ Owns(p) /\ t = at[p] /\ Load(t)' = end[p] /\ stored'[t] = end[p] /\ stored'[t] # None
    BY <1>0, <2>6 DEF Load
  <2>10. ~Owns(p)'
    BY <2>4 DEF Owns
  <2> HIDE DEF Owns, Load
  <2> QED BY <1>11, <1>0, <2>1, <2>2, <2>3, <2>4, <2>7, <2>8, <2>9, <2>10 DEF OffsetInv, LockInv
<1>8. ASSUME NEW p \in Hooks, Enqueue(p) \/ EnqueueFails(p) PROVE OffsetInv'
  BY <1>11, <1>8 DEF Enqueue, EnqueueFails, files, OffsetInv, Owns, Load
<1>9. ASSUME NEW p \in Hooks, Exit(p) \/ Crash(p) PROVE OffsetInv'
  <2>1. UNCHANGED <<agent, size, age, stored, legacy>>
    BY <1>9 DEF Exit, Crash, files
  <2>2. Gone(p)
    BY <1>9 DEF Exit, Crash
  <2>3. /\ \A q \in Hooks \ {p} : /\ pc'[q] = pc[q] /\ end'[q] = end[q] /\ at'[q] = at[q] /\ offset'[q] = offset[q]
                                  /\ queue'[q] = queue[q]
        /\ pc'[p] = "idle" /\ end'[p] = 0 /\ queue'[p] = {}
    BY <2>2 DEF Gone, Goto, TypeOK
  <2>4. \A q \in Hooks \ {p} : keyed'[q] = keyed[q] /\ migrate'[q] = migrate[q]
    BY <2>2, Zenon DEF Gone, TypeOK
  <2>5. LineStart(0)
    BY DEF LineStart
  <2> QED BY <1>11, <2>1, <2>3, <2>4, <2>5 DEF OffsetInv, Owns, Load
<1>10. ASSUME UNCHANGED vars PROVE OffsetInv'
  BY <1>11, <1>10 DEF vars, files, locals, OffsetInv, Owns, Load
<1> QED
  BY <1>1, <1>2, <1>3, <1>4, <1>5, <1>6, <1>7, <1>8, <1>9, <1>10 DEF Next, Step, Trouble

-----------------------------------------------------------------------------
(* Each line once *)

\* Lines have a transcript, an age and a place.
LEMMA LineTypes ==
  ASSUME TypeOK, NEW l \in counted \cup Held
  PROVE  l[1] \in Transcripts /\ l[2] \in Nat /\ l[3] \in Nat /\ age[l[1]] \in Nat
BY DEF TypeOK, Lines, Held

\* What is handed on was emitted.
LEMMA PassedHeld ==
  Passed \subseteq counted \cup Held /\ \A p \in Hooks : scanned[p] \subseteq Held /\ held[p] \subseteq Passed
BY DEF Passed, Held

\* A scan under the lock emits nothing that an earlier one has emitted; without the lock,
\* everything it emits is excused.
LEMMA ScanOnce ==
  ASSUME TypeOK, LockInv, OnceInv, NEW p \in Hooks, Scan(p), NEW l \in scanned'[p], l \notin excused'
  PROVE  Owns(p) /\ l \notin Passed /\ \A q \in Hooks \ {p} : l \notin scanned[q]
<1>1. keyed[p]
  BY DEF Scan, TypeOK
<1>2. at[p] \in Transcripts /\ pc[p] = "scan" /\ excused \subseteq excused'
  BY DEF LockInv, Scan
<1>3. Owns(p)
  BY <1>1, <1>2 DEF Owns
<1>4. l[1] = at[p] /\ l[2] = age[at[p]] /\ 3 * l[3] >= offset[p] /\ l[3] \in Nat /\ offset[p] \in Nat
  BY <1>2, EmittedLines, TranscriptAssumption DEF Line, TypeOK, Offsets
<1>5. l \notin Passed
  BY <1>2, <1>3, <1>4 DEF OnceInv
<1>6. ASSUME NEW q \in Hooks \ {p}, l \in scanned[q] PROVE FALSE
  <2>1. pc[q] = "save" /\ at[q] = at[p] /\ keyed[q]
    BY <1>2, <1>4, <1>6 DEF OnceInv
  <2>2. Owns(q)
    BY <2>1 DEF Owns
  <2> QED BY <1>2, <1>3, <2>1, <2>2 DEF LockInv
<1> QED BY <1>3, <1>5, <1>6

\* No step emits a line that a hook holds or the outbox has, unless it is excused.
LEMMA OnceStep ==
  ASSUME TypeOK, LockInv, AgeInv, OffsetInv, OnceInv, CountedOnce, [Next]_vars
  PROVE  OnceInv' /\ CountedOnce'
<1> USE TranscriptAssumption
<1>0. /\ \A t \in Transcripts : size[t] \in Nat /\ age[t] \in Nat /\ Load(t) \in Nat
      /\ legacy \in Nat /\ \A p \in Hooks : end[p] \in Nat /\ offset[p] \in Nat
  BY DEF TypeOK, Offsets, Load
<1>1. ASSUME NEW t \in Transcripts, Append(t) PROVE OnceInv' /\ CountedOnce'
  <2>1. \A s \in Transcripts : size'[s] \in Nat /\ size[s] <= size'[s]
    BY <1>0, <1>1 DEF Append, TypeOK
  <2>2. UNCHANGED <<agent, age, stored, keyed, pc, at, offset, end, scanned, held, counted, excused, twice>>
    BY <1>1 DEF Append, locals, history
  <2>3. \A l \in Passed : l[1] \in Transcripts
    BY LineTypes, PassedHeld
  <2>4. UNCHANGED Passed
    BY <2>2 DEF Passed
  <2> HIDE DEF Passed
  <2> QED BY <1>0, <2>1, <2>2, <2>3, <2>4 DEF OnceInv, CountedOnce, LockInv, Owns, Load
<1>2. ASSUME NEW t \in Transcripts, Truncate(t) PROVE OnceInv' /\ CountedOnce'
  <2>1. UNCHANGED <<agent, stored, keyed, pc, at, offset, end, scanned, held, counted, excused, twice>>
    BY <1>2 DEF Truncate, locals
  <2>2. \A s \in Transcripts : \/ s = t /\ age'[s] = age[s] + 1
                               \/ age'[s] = age[s] /\ size'[s] = size[s]
    BY <1>2 DEF Truncate, TypeOK
  <2>3. ASSUME NEW l \in counted \cup Held, l[2] = age'[l[1]]
        PROVE  l[2] = age[l[1]] /\ size'[l[1]] = size[l[1]]
    BY <1>0, <2>2, <2>3, LineTypes DEF AgeInv
  <2>4. UNCHANGED Passed
    BY <2>1 DEF Passed
  <2>5. Passed \subseteq counted \cup Held /\ \A p \in Hooks : scanned[p] \subseteq counted \cup Held
    BY PassedHeld
  <2> HIDE DEF Passed, Held
  <2> QED BY <1>0, <2>1, <2>3, <2>4, <2>5 DEF OnceInv, CountedOnce, LockInv, Owns, Load
<1>3. ASSUME NEW p \in Hooks, Hook(p) \/ Open(p) \/ OpenFails(p) \/ LockOffset(p) PROVE OnceInv' /\ CountedOnce'
  <2>1. UNCHANGED <<size, age, stored, offset, end, scanned, held, counted, excused, twice>>
    <3>1. CASE Hook(p)
      BY <3>1, HookBegins DEF Begin, files
    <3> QED BY <1>3, <3>1 DEF Open, OpenFails, LockOffset, files, history
  <2>2. /\ \A q \in Hooks \ {p} : pc'[q] = pc[q] /\ at'[q] = at[q] /\ (keyed'[q] <=> keyed[q])
        /\ pc[p] \in {"idle", "next", "lock"}
        /\ pc'[p] \in {"next", "lock", "load", "scan"} /\ (pc'[p] = "scan" => ~keyed'[p])
    <3>1. CASE Hook(p)
      BY <3>1, HookBegins DEF Begin, files, Goto, TypeOK
    <3> QED BY <1>3, <3>1 DEF Open, OpenFails, LockOffset, Goto, TypeOK
  <2>3. UNCHANGED Passed
    BY <2>1 DEF Passed
  <2>4. scanned[p] = {}
    BY <2>2 DEF OnceInv
  <2> HIDE DEF Passed
  <2> QED BY <2>1, <2>2, <2>3, <2>4 DEF OnceInv, CountedOnce, Owns, Load
<1>4. ASSUME NEW p \in Hooks, LoadOffset(p) \/ LoadFails(p) PROVE OnceInv' /\ CountedOnce'
  <2>1. UNCHANGED <<size, age, stored, keyed, at, end, scanned, held, counted, twice>> /\ excused \subseteq excused'
    BY <1>4 DEF LoadOffset, LoadFails, files, history
  <2>2. \A q \in Hooks \ {p} : pc'[q] = pc[q] /\ offset'[q] = offset[q]
    BY <1>4 DEF LoadOffset, LoadFails, Goto, TypeOK
  <2>3. pc[p] = "load" /\ pc'[p] = "scan" /\ at[p] \in Transcripts
    BY <1>4 DEF LoadOffset, LoadFails, Goto, TypeOK, LockInv
  <2>4. ASSUME NEW l \in Passed \ excused', l[1] = at[p], l[2] = age[at[p]] PROVE 3 * l[3] < offset'[p]
    <3>1. 3 * l[3] < Load(at[p]) /\ Load(at[p]) <= size[at[p]]
      BY <2>1, <2>4 DEF OnceInv
    <3>2. l[3] \in 0 .. MaxLines - 1 /\ l = Line(at[p], l[3])
      BY <2>4 DEF TypeOK, Passed, Lines, Line
    <3>3. stored[at[p]] # None
      BY <2>3, <3>1, <3>2 DEF Load
    <3>4. Start(p) = Load(at[p])
      BY <1>0, <2>3, <3>1, <3>3 DEF Start, Recorded
    <3>5. CASE offset'[p] = Start(p)
      BY <3>1, <3>4, <3>5
    <3>6. CASE offset'[p] # Start(p)
      <4>1. PICK from \in Misread(p) : /\ offset'[p] = from
              /\ excused' = excused \cup
                   {Line(at[p], k) : k \in {j \in 0 .. MaxLines - 1 : from <= 3 * j /\ 3 * j < Start(p)}}
        BY <1>4, <3>6 DEF LoadOffset, LoadFails, TypeOK
      <4>2. from \in Nat
        BY <1>0, <2>3 DEF Misread, Recorded
      <4>3. ~(from <= 3 * l[3])
        <5> SUFFICES ASSUME from <= 3 * l[3] PROVE FALSE
          OBVIOUS
        <5>1. l[3] \in {j \in 0 .. MaxLines - 1 : from <= 3 * j /\ 3 * j < Start(p)}
          BY <3>1, <3>2, <3>4
        <5> QED BY <2>4, <3>2, <4>1, <5>1
      <4> QED BY <3>2, <4>1, <4>2, <4>3
    <3> QED BY <3>5, <3>6
  <2>5. UNCHANGED Passed /\ scanned[p] = {}
    BY <2>1, <2>3 DEF Passed, OnceInv
  <2> HIDE DEF Passed
  <2> QED BY <2>1, <2>2, <2>3, <2>4, <2>5 DEF OnceInv, CountedOnce, Owns, Load
<1>5. ASSUME NEW p \in Hooks, Scan(p) PROVE OnceInv' /\ CountedOnce'
  <2>1. UNCHANGED <<agent, size, age, stored, keyed, at, offset, held, counted, twice>>
    BY <1>5 DEF Scan, files
  <2>2. \A q \in Hooks \ {p} : pc'[q] = pc[q] /\ end'[q] = end[q] /\ scanned'[q] = scanned[q]
    BY <1>5 DEF Scan, Goto, TypeOK
  <2>3. pc[p] = "scan" /\ pc'[p] = "save" /\ at[p] \in Transcripts
    BY <1>5 DEF Scan, Goto, TypeOK, LockInv
  <2>4. excused \subseteq excused' /\ excused' \subseteq excused \cup scanned'[p] /\ (keyed[p] \/ scanned'[p] \subseteq excused')
    BY <1>5 DEF Scan, TypeOK
  <2>5. \A l \in scanned'[p] : l \in excused' \/ (Owns(p) /\ l \notin Passed /\ \A q \in Hooks \ {p} : l \notin scanned[q])
    BY <1>5, ScanOnce
  <2>6. \A l \in scanned'[p] : l[1] = at[p] /\ 3 * l[3] < end'[p]
    BY <1>5, <2>3, EmittedLines DEF Line
  <2>7. end'[p] \in Nat /\ end'[p] <= size[at[p]]
    BY <1>5, <2>3, EmittedLines DEF Offsets
  <2>8. Load(at[p]) <= size[at[p]] => Load(at[p]) <= end'[p]
    <3>1. end'[p] = IF agent = "codex" THEN size[at[p]] ELSE 3 * Cardinality(Complete(at[p]))
      BY <1>5 DEF Scan, TypeOK
    <3>2. agent \in {"codex", "cursor"}
      BY DEF TypeOK
    <3>3. agent = "cursor" => LineStart(Load(at[p]))
      BY <2>3 DEF OffsetInv
    <3> QED BY <1>0, <2>3, <3>1, <3>2, <3>3, CompleteEnd
  <2>9. UNCHANGED Passed
    BY <2>1 DEF Passed
  <2>10. \A l \in Passed : l[3] \in Nat
    BY LineTypes, PassedHeld
  <2>11. \A l \in Passed \ excused : l[1] = at[p] /\ l[2] = age[at[p]] => 3 * l[3] < end'[p]
    BY <1>0, <2>3, <2>7, <2>8, <2>10 DEF OnceInv
  <2>12. \A q \in Hooks : Owns(q)' <=> IF q = p THEN keyed[p] ELSE Owns(q)
    BY <2>1, <2>2, <2>3 DEF Owns
  <2>13. \A q \in Hooks : held[q] \subseteq Passed
    BY PassedHeld
  <2>14. counted \subseteq Passed
    BY DEF Passed
  <2>15. UNCHANGED Load(at[p]) /\ \A t \in Transcripts : Load(t)' = Load(t)
    BY <2>1 DEF Load
  <2> HIDE DEF Passed, Owns, Load
  <2>16. \A l \in Passed \ excused' : l[2] = age'[l[1]] => 3 * l[3] < Load(l[1])' /\ Load(l[1])' <= size'[l[1]]
    <3>1. \A l \in Passed : l[1] \in Transcripts
      BY LineTypes, PassedHeld
    <3> QED BY <2>1, <2>4, <2>15, <3>1 DEF OnceInv
  <2>17. \A q \in Hooks : Owns(q)' /\ pc'[q] = "scan" =>
           \A l \in Passed \ excused' : l[1] = at'[q] /\ l[2] = age'[at'[q]] => 3 * l[3] < offset'[q]
    BY <2>1, <2>2, <2>3, <2>4, <2>12 DEF OnceInv
  <2>18. \A q \in Hooks : Owns(q)' /\ pc'[q] = "save" =>
           \A l \in (Passed \cup scanned'[q]) \ excused' :
             l[1] = at'[q] /\ l[2] = age'[at'[q]] => 3 * l[3] < end'[q] /\ end'[q] <= size'[at'[q]]
    BY <2>1, <2>2, <2>3, <2>4, <2>6, <2>7, <2>11, <2>12 DEF OnceInv
  <2>19. \A q \in Hooks : \A l \in scanned'[q] : pc'[q] = "save" /\ l[1] = at'[q] /\ (keyed'[q] \/ l \in excused')
    BY <2>1, <2>2, <2>3, <2>4, <2>6 DEF OnceInv
  <2>20. \A q, r \in Hooks : q # r => (scanned'[q] \cup held'[q]) \cap (scanned'[r] \cup held'[r]) \subseteq excused'
    BY <2>1, <2>2, <2>4, <2>5, <2>13 DEF OnceInv
  <2>21. \A q \in Hooks : (scanned'[q] \cup held'[q]) \cap counted' \subseteq excused'
    BY <2>1, <2>2, <2>4, <2>5, <2>14 DEF OnceInv
  <2>22. CountedOnce'
    BY <2>1, <2>4 DEF CountedOnce
  <2> QED BY <2>9, <2>16, <2>17, <2>18, <2>19, <2>20, <2>21, <2>22 DEF OnceInv
<1>6. ASSUME NEW p \in Hooks, Save(p) \/ SaveFails(p) PROVE OnceInv' /\ CountedOnce'
  <2>0. PICK t \in Transcripts : t = at[p]
    BY <1>6 DEF Save, SaveFails, LockInv
  <2>1. Return(p) /\ pc[p] = "save" /\ at[p] = t
    BY <1>6, <2>0 DEF Save, SaveFails
  <2>2. UNCHANGED <<size, age, keyed, counted, twice>>
    BY <2>1 DEF Return
  <2>3. \A q \in Hooks \ {p} : /\ pc'[q] = pc[q] /\ end'[q] = end[q] /\ at'[q] = at[q] /\ offset'[q] = offset[q]
                               /\ scanned'[q] = scanned[q] /\ held'[q] = held[q]
    BY <2>1 DEF Return, Goto, TypeOK
  <2>4. pc'[p] = "next" /\ scanned'[p] = {} /\ held'[p] = held[p] \cup scanned[p]
    BY <2>1 DEF Return, Goto, TypeOK
  <2>5. \/ stored' = [stored EXCEPT ![at[p]] = end[p]] /\ excused' = excused /\ Owns(p)
        \/ stored' = stored /\ excused \subseteq excused' /\ scanned[p] \subseteq excused'
    BY <1>6, <2>1 DEF Save, SaveFails, Owns, OnceInv
  <2>6. \A s \in Transcripts : s # t => Load(s)' = Load(s)
    BY <2>1, <2>5 DEF Load, TypeOK
  <2>7. \/ Load(t)' = end[p] /\ excused' = excused /\ Owns(p)
        \/ Load(t)' = Load(t) /\ excused \subseteq excused' /\ scanned[p] \subseteq excused'
    BY <1>0, <2>1, <2>5 DEF Load, TypeOK
  <2>8. Passed' = Passed \cup scanned[p]
    BY <2>2, <2>3, <2>4 DEF Passed
  <2>9. \A q \in Hooks \ {p} : Owns(q)' <=> Owns(q)
    BY <2>2, <2>3 DEF Owns
  <2>10. \A q \in Hooks \ {p} : ~(Owns(p) /\ Owns(q) /\ at[q] = at[p])
    BY <2>1 DEF LockInv
  <2>11. \A l \in scanned[p] \ excused' : Owns(p) /\ l[1] = t
    BY <2>1, <2>7 DEF OnceInv, Owns
  <2>12. ~Owns(p)'
    BY <2>4 DEF Owns
  <2>13. \A l \in Passed : l[1] \in Transcripts
    BY LineTypes, PassedHeld
  <2> HIDE DEF Passed, Owns, Load
  <2>14. ASSUME NEW l \in Passed' \ excused', l[2] = age'[l[1]]
         PROVE  3 * l[3] < Load(l[1])' /\ Load(l[1])' <= size'[l[1]]
    <3>1. CASE l \in scanned[p]
      BY <2>1, <2>2, <2>7, <2>11, <2>14, <3>1 DEF OnceInv
    <3>2. CASE l \in Passed /\ l[1] # t
      BY <2>2, <2>6, <2>7, <2>13, <2>14, <3>2 DEF OnceInv
    <3>3. CASE l \in Passed /\ l[1] = t
      BY <2>1, <2>2, <2>7, <2>14, <3>3 DEF OnceInv
    <3> QED BY <2>8, <2>14, <3>1, <3>2, <3>3
  <2>15. \A q \in Hooks : Owns(q)' /\ pc'[q] = "scan" =>
           \A l \in Passed' \ excused' : l[1] = at'[q] /\ l[2] = age'[at'[q]] => 3 * l[3] < offset'[q]
    BY <2>2, <2>3, <2>7, <2>8, <2>9, <2>10, <2>11, <2>12 DEF OnceInv
  <2>16. \A q \in Hooks : Owns(q)' /\ pc'[q] = "save" =>
           \A l \in (Passed' \cup scanned'[q]) \ excused' :
             l[1] = at'[q] /\ l[2] = age'[at'[q]] => 3 * l[3] < end'[q] /\ end'[q] <= size'[at'[q]]
    BY <2>2, <2>3, <2>7, <2>8, <2>9, <2>10, <2>11, <2>12 DEF OnceInv
  <2>17. \A q \in Hooks : \A l \in scanned'[q] : pc'[q] = "save" /\ l[1] = at'[q] /\ (keyed'[q] \/ l \in excused')
    BY <2>2, <2>3, <2>4, <2>7 DEF OnceInv
  <2>18. \A q \in Hooks : scanned'[q] \cup held'[q] = scanned[q] \cup held[q]
    BY <2>3, <2>4
  <2>19. CountedOnce'
    BY <2>2, <2>7 DEF CountedOnce
  <2> QED BY <2>2, <2>7, <2>14, <2>15, <2>16, <2>17, <2>18, <2>19 DEF OnceInv
<1>7. ASSUME NEW p \in Hooks, Enqueue(p) PROVE OnceInv' /\ CountedOnce'
  <2>1. PICK l \in held[p] : /\ counted' = counted \cup {l}
                             /\ twice' = IF l \in counted THEN twice \cup {l} ELSE twice
                             /\ held' = [held EXCEPT ![p] = @ \ {l}]
    BY <1>7 DEF Enqueue
  <2>2. UNCHANGED <<size, age, stored, keyed, pc, at, offset, end, scanned, excused>> /\ pc[p] = "next"
    BY <1>7 DEF Enqueue, files
  <2>3. \A q \in Hooks : IF q = p THEN held'[q] = held[q] \ {l} ELSE held'[q] = held[q]
    BY <2>1 DEF TypeOK
  <2>4. Passed' = Passed
    BY <2>1, <2>3 DEF Passed
  <2>5. scanned[p] = {}
    BY <2>2 DEF OnceInv
  <2> HIDE DEF Passed
  <2>6. \A q \in Hooks : (scanned'[q] \cup held'[q]) \cap counted' \subseteq excused'
    BY <2>1, <2>2, <2>3, <2>5 DEF OnceInv
  <2>7. CountedOnce'
    BY <2>1, <2>2 DEF OnceInv, CountedOnce
  <2> QED BY <2>2, <2>3, <2>4, <2>6, <2>7 DEF OnceInv, Owns, Load
<1>8. ASSUME NEW p \in Hooks, EnqueueFails(p) \/ Exit(p) \/ Crash(p) PROVE OnceInv' /\ CountedOnce'
  <2>1. UNCHANGED <<size, age, stored, counted, excused, twice>>
    BY <1>8 DEF EnqueueFails, Exit, Crash, files, history
  <2>2. \A q \in Hooks \ {p} : /\ pc'[q] = pc[q] /\ end'[q] = end[q] /\ at'[q] = at[q] /\ offset'[q] = offset[q]
                               /\ scanned'[q] = scanned[q] /\ held'[q] = held[q] /\ (keyed'[q] <=> keyed[q])
    BY <1>8 DEF EnqueueFails, Exit, Crash, Gone, files, Goto, TypeOK
  <2>3. pc'[p] \in {"idle", "next"} /\ held'[p] \subseteq held[p] /\ scanned'[p] = {}
    <3>1. pc[p] = "next" => scanned[p] = {}
      BY DEF OnceInv
    <3> QED BY <1>8, <3>1 DEF EnqueueFails, Exit, Crash, Gone, Goto, TypeOK
  <2>4. Passed' \subseteq Passed
    BY <2>1, <2>2, <2>3 DEF Passed
  <2> HIDE DEF Passed
  <2> QED BY <2>1, <2>2, <2>3, <2>4 DEF OnceInv, CountedOnce, Owns, Load
<1>9. ASSUME UNCHANGED vars PROVE OnceInv' /\ CountedOnce'
  BY <1>9 DEF vars, files, locals, history, OnceInv, CountedOnce, Owns, Load, Passed
<1> QED
  BY <1>1, <1>2, <1>3, <1>4, <1>5, <1>6, <1>7, <1>8, <1>9 DEF Next, Step, Trouble

-----------------------------------------------------------------------------
(* No line is passed over *)

\* A scan emits every line between its offset and its end, but for the one it cuts.
LEMMA ScanCovers ==
  ASSUME TypeOK, NEW p \in Hooks, Scan(p), at[p] \in Transcripts,
         NEW k \in 0 .. MaxLines - 1, offset[p] <= 3 * k, 3 * k < end'[p]
  PROVE  Line(at[p], k) \in scanned'[p] \cup Cut(p)'
<1> DEFINE t == at[p]
<1> DEFINE lines == IF agent = "codex" THEN Readable(t) ELSE Complete(t)
<1>1. scanned'[p] = {Line(t, j) : j \in {j \in lines : 3 * j >= offset[p]}}
  BY DEF Scan, TypeOK
<1>2. end'[p] = IF agent = "codex" THEN size[t] ELSE 3 * Cardinality(Complete(t))
  BY DEF Scan, TypeOK
<1>3. size[t] \in Nat /\ offset[p] \in Nat /\ MaxLines \in Nat
  BY TranscriptAssumption DEF TypeOK, Offsets
<1>4. CASE k \in lines
  BY <1>1, <1>3, <1>4
<1>5. CASE k \notin lines
  <2>1. CASE agent = "codex"
    <3>1. size[t] = 3 * k + 1
      BY <1>2, <1>3, <1>5, <2>1 DEF Readable
    <3>2. end'[p] % 3 = 1 /\ end'[p] \div 3 = k
      BY <1>2, <1>3, <2>1, <3>1
    <3>3. at'[p] = t /\ age' = age
      BY DEF Scan, files
    <3> QED BY <3>2, <3>3 DEF Cut, Line
  <2>2. CASE agent # "codex"
    <3> DEFINE e == 3 * Cardinality(Complete(t))
    <3>1. e \in Nat /\ e <= size[t] /\ LineStart(e)
      BY <1>3, CompleteEnd DEF Offsets
    <3>2. 3 * k < e
      BY <1>2, <2>2
    <3> HIDE DEF e
    <3>3. 3 * k + 3 <= size[t]
      BY <1>3, <3>1, <3>2 DEF LineStart
    <3> QED BY <1>5, <2>2, <3>3 DEF Complete
  <2> QED BY <2>1, <2>2
<1> QED BY <1>4, <1>5

\* A line leaves its scan with the offset that passes it, and stays with the hook, the outbox or
\* the lost ones.
LEMMA SkipStep ==
  ASSUME TypeOK, LockInv, AgeInv, OnceInv, SkipInv, [Next]_vars
  PROVE  SkipInv'
<1> USE TranscriptAssumption
<1>0. /\ \A t \in Transcripts : size[t] \in Nat /\ Load(t) \in Nat
      /\ legacy \in Nat /\ rotations \in Nat /\ \A p \in Hooks : end[p] \in Nat /\ offset[p] \in Nat
  BY DEF TypeOK, Offsets, Load
<1>1. ASSUME NEW t \in Transcripts, Append(t) \/ UNCHANGED vars PROVE SkipInv'
  <2>1. UNCHANGED <<age, stored, legacy, rotations, locals, counted, missed>>
    BY <1>1 DEF Append, vars, files, history
  <2>2. UNCHANGED <<pc, at, keyed, offset, end, scanned, held, missed, rotations>>
    BY <2>1 DEF locals
  <2>3. UNCHANGED Passed /\ \A p \in Hooks : (Owns(p)' <=> Owns(p)) /\ Cut(p)' = Cut(p)
    BY <2>1, <2>2 DEF Passed, Owns, Cut, Line
  <2>4. \A s \in Transcripts : Load(s)' = Load(s) /\ \A k : Line(s, k)' = Line(s, k) /\ (Old(s, k)' <=> Old(s, k))
    BY <2>1 DEF Load, Line, Old
  <2> HIDE DEF Passed, Owns, Load, Cut, Line, Old
  <2> QED BY <2>2, <2>3, <2>4 DEF SkipInv
<1>2. ASSUME NEW t \in Transcripts, Truncate(t) PROVE SkipInv'
  BY <1>0, <1>2 DEF Truncate, SkipInv
<1>3. ASSUME NEW p \in Hooks, Hook(p) \/ Open(p) \/ OpenFails(p) \/ LockOffset(p) PROVE SkipInv'
  <2>1. UNCHANGED <<age, stored, legacy, offset, end, scanned, held, counted, missed, rotations>>
    <3>1. CASE Hook(p)
      BY <3>1, HookBegins DEF Begin, files
    <3> QED BY <1>3, <3>1 DEF Open, OpenFails, LockOffset, files, history
  <2>2. /\ \A q \in Hooks \ {p} : pc'[q] = pc[q] /\ at'[q] = at[q] /\ (keyed'[q] <=> keyed[q])
        /\ pc'[p] \in {"next", "lock", "load", "scan"} /\ (pc'[p] = "scan" => ~keyed'[p])
    <3>1. CASE Hook(p)
      BY <3>1, HookBegins DEF Begin, files, Goto, TypeOK
    <3> QED BY <1>3, <3>1 DEF Open, OpenFails, LockOffset, Goto, TypeOK
  <2>3. UNCHANGED Passed /\ \A q \in Hooks \ {p} : (Owns(q)' <=> Owns(q)) /\ Cut(q)' = Cut(q)
    BY <2>1, <2>2 DEF Passed, Owns, Cut, Line
  <2>4. ~(Owns(p)' /\ pc'[p] \in {"scan", "save"})
    BY <2>2 DEF Owns
  <2>5. \A s \in Transcripts : Load(s)' = Load(s) /\ \A k : Line(s, k)' = Line(s, k) /\ (Old(s, k)' <=> Old(s, k))
    BY <2>1 DEF Load, Line, Old
  <2> HIDE DEF Passed, Owns, Load, Cut, Line, Old
  <2> QED BY <2>1, <2>2, <2>3, <2>4, <2>5 DEF SkipInv
<1>4. ASSUME NEW p \in Hooks, LoadOffset(p) \/ LoadFails(p) PROVE SkipInv'
  <2>1. UNCHANGED <<age, stored, legacy, keyed, at, end, scanned, held, counted, missed, rotations>>
    BY <1>4 DEF LoadOffset, LoadFails, files, history
  <2>2. \A q \in Hooks \ {p} : pc'[q] = pc[q] /\ offset'[q] = offset[q]
    BY <1>4 DEF LoadOffset, LoadFails, Goto, TypeOK
  <2>3. pc[p] = "load" /\ pc'[p] = "scan" /\ offset'[p] \in Misread(p)
    BY <1>4 DEF LoadOffset, LoadFails, Start, Misread, Goto, TypeOK
  <2>4. at[p] \in Transcripts
    BY <2>3 DEF LockInv
  <2>5. ASSUME NEW k \in 0 .. MaxLines - 1, ~Old(at[p], k), 3 * k < offset'[p] PROVE 3 * k < Load(at[p])
    BY <1>0, <2>3, <2>4, <2>5 DEF Misread, Recorded, Old
  <2>6. UNCHANGED Passed
    BY <2>1 DEF Passed
  <2>7. UNCHANGED Load(at[p]) /\ \A t \in Transcripts : Load(t)' = Load(t)
    BY <2>1 DEF Load
  <2> HIDE DEF Passed, Load
  <2> QED BY <2>1, <2>2, <2>3, <2>4, <2>5, <2>6, <2>7 DEF SkipInv, Line, Old, Owns, Cut
<1>5. ASSUME NEW p \in Hooks, Scan(p) PROVE SkipInv'
  <2>1. UNCHANGED <<age, stored, legacy, keyed, at, offset, held, counted, missed, rotations>>
    BY <1>5 DEF Scan, files
  <2>2. \A q \in Hooks \ {p} : pc'[q] = pc[q] /\ end'[q] = end[q] /\ scanned'[q] = scanned[q]
    BY <1>5 DEF Scan, Goto, TypeOK
  <2>3. pc[p] = "scan" /\ pc'[p] = "save" /\ at[p] \in Transcripts
    BY <1>5 DEF Scan, Goto, TypeOK, LockInv
  <2>4. ASSUME NEW k \in 0 .. MaxLines - 1, rotations = 0, Owns(p), ~Old(at[p], k), 3 * k < end'[p]
        PROVE  Line(at[p], k) \in Passed \cup missed \cup scanned'[p] \cup Cut(p)'
    <3>1. CASE 3 * k < offset[p]
      BY <2>3, <2>4, <3>1 DEF SkipInv
    <3>2. CASE offset[p] <= 3 * k
      BY <1>5, <2>3, <2>4, <3>2, ScanCovers
    <3> QED BY <1>0, <3>1, <3>2
  <2>5. UNCHANGED Passed
    BY <2>1 DEF Passed
  <2>6. \A q \in Hooks \ {p} : Cut(q)' = Cut(q) /\ (Owns(q)' <=> Owns(q))
    BY <2>1, <2>2 DEF Cut, Line, Owns
  <2>7. Owns(p)' <=> Owns(p)
    BY <2>1, <2>3 DEF Owns
  <2>8. \A t \in Transcripts : Load(t)' = Load(t) /\ \A k : Line(t, k)' = Line(t, k) /\ (Old(t, k)' <=> Old(t, k))
    BY <2>1 DEF Load, Line, Old
  <2> HIDE DEF Passed, Load, Cut, Owns, Line, Old
  <2> QED BY <2>1, <2>2, <2>3, <2>4, <2>5, <2>6, <2>7, <2>8 DEF SkipInv
<1>6. ASSUME NEW p \in Hooks, Save(p) \/ SaveFails(p) PROVE SkipInv'
  <2>0. PICK t \in Transcripts : t = at[p]
    BY <1>6 DEF Save, SaveFails, LockInv
  <2>1. Return(p) /\ pc[p] = "save" /\ at[p] = t
    BY <1>6, <2>0 DEF Save, SaveFails
  <2>2. UNCHANGED <<age, legacy, keyed, counted, rotations>>
    BY <2>1 DEF Return
  <2>3. \A q \in Hooks \ {p} : /\ pc'[q] = pc[q] /\ end'[q] = end[q] /\ at'[q] = at[q] /\ offset'[q] = offset[q]
                               /\ scanned'[q] = scanned[q] /\ held'[q] = held[q]
    BY <2>1 DEF Return, Goto, TypeOK
  <2>4. pc'[p] = "next" /\ held'[p] = held[p] \cup scanned[p]
    BY <2>1 DEF Return, Goto, TypeOK
  <2>5. \/ stored' = [stored EXCEPT ![at[p]] = end[p]] /\ missed' = missed \cup Cut(p) /\ Owns(p)
        \/ stored' = stored /\ missed' = missed
    BY <1>6, <2>1 DEF Save, SaveFails, Owns
  <2>6. \A s \in Transcripts : s # t => Load(s)' = Load(s)
    BY <2>1, <2>5 DEF Load, TypeOK
  <2>7. \/ Load(t)' = end[p] /\ missed' = missed \cup Cut(p) /\ Owns(p)
        \/ Load(t)' = Load(t) /\ missed' = missed
    BY <1>0, <2>1, <2>5 DEF Load, TypeOK
  <2>8. Passed' = Passed \cup scanned[p]
    BY <2>2, <2>3, <2>4 DEF Passed
  <2>9. \A q \in Hooks \ {p} : (Owns(q)' <=> Owns(q)) /\ Cut(q)' = Cut(q)
    BY <2>2, <2>3 DEF Owns, Cut, Line
  <2>10. ~Owns(p)'
    BY <2>4 DEF Owns
  <2>11. \A s \in Transcripts, k \in Nat : Line(s, k)' = Line(s, k) /\ (Old(s, k)' <=> Old(s, k))
    BY <2>2 DEF Line, Old
  <2> HIDE DEF Passed, Owns, Load, Cut, Line, Old
  <2> QED BY <2>1, <2>2, <2>3, <2>6, <2>7, <2>8, <2>9, <2>10, <2>11 DEF SkipInv
<1>7. ASSUME NEW p \in Hooks, Enqueue(p) \/ EnqueueFails(p) \/ Exit(p) \/ Crash(p) PROVE SkipInv'
  <2>1. UNCHANGED <<age, stored, legacy, rotations>>
    BY <1>7 DEF Enqueue, EnqueueFails, Exit, Crash, files, history
  <2>2. \A q \in Hooks \ {p} : /\ pc'[q] = pc[q] /\ end'[q] = end[q] /\ at'[q] = at[q] /\ offset'[q] = offset[q]
                               /\ scanned'[q] = scanned[q] /\ held'[q] = held[q] /\ (keyed'[q] <=> keyed[q])
    BY <1>7 DEF Enqueue, EnqueueFails, Exit, Crash, Gone, files, Goto, TypeOK
  <2>3. pc'[p] \in {"idle", "next"}
    BY <1>7 DEF Enqueue, EnqueueFails, Exit, Crash, Gone, Goto, TypeOK
  <2>4. counted \subseteq counted' /\ missed \subseteq missed' /\ held[p] \subseteq held'[p] \cup counted' \cup missed'
    BY <1>7 DEF Enqueue, EnqueueFails, Exit, Crash, Gone, history, TypeOK
  <2>5. Passed \cup missed \subseteq Passed' \cup missed'
    BY <2>2, <2>4 DEF Passed
  <2>6. \A q \in Hooks \ {p} : (Owns(q)' <=> Owns(q)) /\ Cut(q)' = Cut(q)
    BY <2>1, <2>2 DEF Owns, Cut, Line
  <2>7. ~Owns(p)'
    BY <2>3 DEF Owns
  <2>8. \A t \in Transcripts : Load(t)' = Load(t) /\ \A k : Line(t, k)' = Line(t, k) /\ (Old(t, k)' <=> Old(t, k))
    BY <2>1 DEF Load, Line, Old
  <2> HIDE DEF Passed, Owns, Load, Cut, Line, Old
  <2> QED BY <2>1, <2>2, <2>5, <2>6, <2>7, <2>8 DEF SkipInv
<1> QED
  BY <1>1, <1>2, <1>3, <1>4, <1>5, <1>6, <1>7 DEF Next, Step, Trouble

-----------------------------------------------------------------------------
(* What is lost, and what an older release has counted *)

\* The end of a cursor scan cuts no line.
LEMMA CursorCutsNothing ==
  ASSUME TypeOK, OffsetInv, agent = "cursor", NEW p \in Hooks
  PROVE  Cut(p) = {}
<1>1. end[p] \in Nat /\ end[p] <= 3 * MaxLines /\ MaxLines \in Nat /\ LineStart(end[p])
  BY TranscriptAssumption DEF TypeOK, Offsets, OffsetInv
<1>2. end[p] % 3 # 1
  <2> SUFFICES ASSUME end[p] % 3 = 1 PROVE FALSE
    OBVIOUS
  <2> DEFINE k == end[p] \div 3
  <2>1. k \in 0 .. MaxLines /\ end[p] = 3 * k + 1
    BY <1>1
  <2> HIDE DEF k
  <2> QED BY <1>1, <2>1 DEF LineStart
<1> QED BY <1>2 DEF Cut

\* Only a failure loses a line of cursor, and a scan that learned its offset starts behind the lines
\* of an older release.
LEMMA LossStep ==
  ASSUME TypeOK, LockInv, OffsetInv, OnceInv, LossInv, [Next]_vars
  PROVE  LossInv'
<1> USE TranscriptAssumption
<1> DEFINE Seen == (counted \cup Held) \ excused
<1>0. LossInv <=> /\ agent = "cursor" /\ faults = 0 => missed = {}
                  /\ \A k \in 0 .. MaxLines - 1 : 3 * k < legacy => <<Parent, 0, k>> \notin Seen
  BY DEF LossInv
<1>1. LossInv' <=> /\ agent' = "cursor" /\ faults' = 0 => missed' = {}
                   /\ \A k \in 0 .. MaxLines - 1 : 3 * k < legacy' => <<Parent, 0, k>> \notin Seen'
  BY DEF LossInv
<1>2. ASSUME UNCHANGED <<agent, legacy, faults, missed>>, Seen' \subseteq Seen PROVE LossInv'
  <2> HIDE DEF Seen
  <2> QED BY <1>0, <1>1, <1>2
<1>3. ASSUME UNCHANGED <<agent, legacy>>, faults' # 0, Seen' \subseteq Seen PROVE LossInv'
  <2> HIDE DEF Seen
  <2> QED BY <1>0, <1>1, <1>3
<1>4. faults \in Nat
  BY DEF TypeOK
<1>5. ASSUME NEW t \in Transcripts, Append(t) \/ Truncate(t) PROVE LossInv'
  <2>1. UNCHANGED <<agent, legacy, faults, missed, excused, counted, scanned, held>>
    BY <1>5 DEF Append, Truncate, locals, history
  <2>2. Seen' \subseteq Seen
    BY <2>1 DEF Held
  <2> QED BY <1>2, <2>1, <2>2
<1>6. ASSUME NEW p \in Hooks,
             Hook(p) \/ Open(p) \/ OpenFails(p) \/ LockOffset(p) \/ LoadOffset(p) \/ LoadFails(p)
      PROVE  LossInv'
  <2>1. /\ UNCHANGED <<agent, legacy, missed, counted, scanned, held>> /\ excused \subseteq excused'
        /\ faults' \in {faults, faults + 1}
    <3>1. CASE Hook(p)
      BY <3>1, HookBegins DEF Begin, Fault, files
    <3> QED BY <1>6, <3>1 DEF Open, OpenFails, LockOffset, LoadOffset, LoadFails, Fault, files, history
  <2>2. Seen' \subseteq Seen
    BY <2>1 DEF Held
  <2> HIDE DEF Seen
  <2> QED BY <1>2, <1>3, <1>4, <2>1, <2>2
<1>7. ASSUME NEW p \in Hooks, Scan(p) PROVE LossInv'
  <2>1. UNCHANGED <<agent, age, legacy, faults, missed, counted, held>> /\ excused \subseteq excused'
    BY <1>7 DEF Scan, files
  <2>2. \A q \in Hooks \ {p} : scanned'[q] = scanned[q]
    BY <1>7 DEF Scan
  <2>3. pc[p] = "scan" /\ at[p] \in Transcripts
    BY <1>7 DEF Scan, LockInv
  <2>4. scanned'[p] \subseteq excused' \/ Owns(p)
    BY <1>7, <2>3 DEF Scan, TypeOK, Owns
  <2>5. ASSUME NEW k \in 0 .. MaxLines - 1, 3 * k < legacy, Owns(p), <<Parent, 0, k>> \in scanned'[p]
        PROVE  <<Parent, 0, k>> \in excused'
    <3>1. Parent = at[p] /\ 0 = age[at[p]] /\ 3 * k >= offset[p]
      BY <1>7, <2>3, <2>5, EmittedLines DEF Line
    <3>2. offset[p] \in Nat
      BY DEF TypeOK, Offsets
    <3>3. <<Parent, 0, k>> \in excused
      BY <2>3, <2>5, <3>1, <3>2 DEF OffsetInv
    <3> QED BY <2>1, <3>3
  <2>6. Seen' \subseteq Seen \cup (scanned'[p] \ excused')
    BY <2>1, <2>2 DEF Held
  <2> HIDE DEF Seen
  <2> QED BY <1>0, <1>1, <2>1, <2>4, <2>5, <2>6
<1>8. ASSUME NEW p \in Hooks, Save(p) \/ SaveFails(p) PROVE LossInv'
  <2>1. Return(p) /\ excused \subseteq excused'
    BY <1>8 DEF Save, SaveFails
  <2>2. \A q \in Hooks : scanned'[q] \cup held'[q] = scanned[q] \cup held[q]
    BY <2>1 DEF Return, TypeOK
  <2>3. UNCHANGED <<agent, legacy, counted>>
    BY <2>1 DEF Return
  <2>4. Seen' \subseteq Seen
    BY <2>1, <2>2, <2>3 DEF Held
  <2>5. \/ faults' = faults + 1
        \/ faults' = faults /\ missed' \in {missed, missed \cup Cut(p)}
    BY <1>8 DEF Save, SaveFails, Fault
  <2> HIDE DEF Seen
  <2> QED BY <1>0, <1>1, <1>4, <2>3, <2>4, <2>5, CursorCutsNothing
<1>9. ASSUME NEW p \in Hooks, Enqueue(p) \/ EnqueueFails(p) \/ Exit(p) \/ Crash(p) PROVE LossInv'
  <2>1. UNCHANGED <<agent, legacy, excused>> /\ (faults' = faults + 1 \/ UNCHANGED <<faults, missed>>)
    BY <1>9 DEF Enqueue, EnqueueFails, Exit, Crash, Fault, files, history
  <2>2. \A q \in Hooks : scanned'[q] \subseteq scanned[q] /\ held'[q] \subseteq held[q]
    BY <1>9 DEF Enqueue, EnqueueFails, Exit, Crash, Gone, TypeOK
  <2>3. counted' \subseteq counted \cup held[p]
    BY <1>9 DEF Enqueue, EnqueueFails, Exit, Crash, history
  <2>4. Seen' \subseteq Seen
    BY <2>1, <2>2, <2>3 DEF Held
  <2> HIDE DEF Seen
  <2> QED BY <1>2, <1>3, <1>4, <2>1, <2>4
<1>10. ASSUME UNCHANGED vars PROVE LossInv'
  BY <1>2, <1>10 DEF vars, files, locals, history, Held
<1> HIDE DEF Seen
<1> QED
  BY <1>5, <1>6, <1>7, <1>8, <1>9, <1>10 DEF Next, Step, Trouble

-----------------------------------------------------------------------------
(* The theorems *)

\* The invariant holds before the first hook runs: an older release left the offset of whole lines.
LEMMA InitInv == Init => IInv
<1> SUFFICES ASSUME Init PROVE IInv
  OBVIOUS
<1> USE TranscriptAssumption
<1>1. PICK n \in 0 .. MaxLines : legacy = 3 * n
  BY DEF Init
<1>2. TypeOK
  BY <1>1 DEF Init, TypeOK, Offsets, Steps
<1>3. LineStart(legacy) /\ LineStart(0)
  BY <1>1 DEF LineStart
<1>4. \A t \in Transcripts : Load(t) \in {0, legacy} /\ Load(t) <= size[t]
  BY <1>1 DEF Init, Load
<1>5. /\ \A p \in Hooks : pc[p] = "idle" /\ queue[p] = {} /\ at[p] = None /\ end[p] = 0 /\ keyed[p] = FALSE
                          /\ scanned[p] = {} /\ held[p] = {}
      /\ counted = {} /\ twice = {} /\ missed = {} /\ rotations = 0
      /\ \A t \in Transcripts : age[t] = 0 /\ keyLock[t] = None
  BY DEF Init
<1>6. Passed = {} /\ Held = {}
  BY <1>5 DEF Passed, Held
<1>7. LockInv
  BY <1>5 DEF LockInv, Owns
<1>8. AgeInv
  BY <1>5, <1>6 DEF AgeInv
<1>9. OffsetInv
  <2>1. legacy <= size[Parent] /\ (stored[Parent] = None \/ legacy <= stored[Parent])
    BY <1>1 DEF Init
  <2>2. agent = "codex" => stored[Parent] # None
    BY <1>1 DEF Init
  <2> QED BY <1>3, <1>4, <1>5, <2>1, <2>2 DEF OffsetInv, Owns
<1>10. OnceInv /\ CountedOnce
  BY <1>5, <1>6 DEF OnceInv, CountedOnce, Owns
<1>11. SkipInv
  <2>1. ASSUME NEW t \in Transcripts, NEW k \in 0 .. MaxLines - 1, ~Old(t, k) PROVE ~(3 * k < Load(t))
    BY <1>1, <2>1 DEF Init, Load, Old
  <2> QED BY <1>5, <2>1 DEF SkipInv, Owns
<1>12. LossInv
  BY <1>5, <1>6 DEF LossInv
<1> QED BY <1>2, <1>7, <1>8, <1>9, <1>10, <1>11, <1>12 DEF IInv

\* Every step keeps the invariant.
LEMMA Inductive == IInv /\ [Next]_vars => IInv'
BY TypeStep, LockStep, AgeStep, OffsetStep, OnceStep, SkipStep, LossStep DEF IInv

\* The invariant holds in every reachable state.
THEOREM Invariance == Spec => []IInv
BY InitInv, Inductive, PTL DEF Spec

\* Every variable keeps a value of its kind: no offset leaves the transcript's bounds.
THEOREM TypesKept == Spec => []TypeOK
<1>1. IInv => TypeOK
  BY DEF IInv
<1> QED BY <1>1, Invariance, PTL

\* Hooks of one session that run at the same time never count the same line twice: a line reaches the
\* outbox again only after a scan that stored no offset, or that failed to read the offset it lies
\* before (transcript_codex.go, transcript_cursor.go, OffsetStore.Load).
THEOREM LinesCountedOnce == Spec => []CountedOnce
<1>1. IInv => CountedOnce
  BY DEF IInv
<1> QED BY <1>1, Invariance, PTL

\* The stored offset never runs ahead of the events: what lies before it is counted, held by a hook
\* that still runs, or known to be lost (Save before the release of the lock).
THEOREM OffsetBehindEvents == Spec => []NoneSkipped
<1>1. IInv => NoneSkipped
  <2>1. Passed \subseteq counted \cup Held
    BY DEF Passed, Held
  <2> QED BY <2>1 DEF IInv, SkipInv, NoneSkipped, Old
<1> QED BY <1>1, Invariance, PTL

\* While nothing fails and no transcript is truncated, cursor's scan loses no line.
THEOREM CursorLosesNothing == Spec => []CursorCountsAll
<1>1. IInv => CursorCountsAll
  <2>1. Passed \subseteq counted \cup Held
    BY DEF Passed, Held
  <2>2. \A t \in Live : \A k \in Complete(t) : t \in Transcripts /\ k \in 0 .. MaxLines - 1
    BY TranscriptAssumption DEF Live, Complete
  <2> QED BY <2>1, <2>2 DEF IInv, SkipInv, LossInv, CursorCountsAll, AllCounted, Old
<1> QED BY <1>1, Invariance, PTL

\* Lines before the one offset an older release kept for the session are not counted again
\* (migrateLegacyParentOffset), but by a scan without a session or with an unreadable offset.
THEOREM UpgradeCountsNothingAgain == Spec => []LegacyHonoured
<1>1. IInv => LegacyHonoured
  BY DEF IInv, LossInv, LegacyHonoured
<1> QED BY <1>1, Invariance, PTL

\* A hook that ends late stores no offset before one that was stored meanwhile, as it holds the lock
\* from Load to Save.
THEOREM OffsetsNeverGoBack == Spec => OffsetsAdvance
<1> DEFINE Advance == \A t \in Transcripts : rotations = 0 /\ stored[t] # None =>
                        stored'[t] # None /\ stored'[t] >= stored[t]
<1>1. IInv /\ [Next]_vars => [Advance]_vars
  <2> SUFFICES ASSUME IInv, [Next]_vars, NEW t \in Transcripts, rotations = 0, stored[t] # None
               PROVE  stored'[t] # None /\ stored'[t] >= stored[t]
    OBVIOUS
  <2>1. stored[t] \in Nat /\ TypeOK
    BY TranscriptAssumption DEF IInv, TypeOK, Offsets
  <2>2. CASE \E p \in Hooks : Save(p)
    <3>1. PICK p \in Hooks : Save(p)
      BY <2>2
    <3>2. pc[p] = "save" /\ at[p] \in Transcripts
      BY <3>1 DEF Save, IInv, LockInv
    <3>3. age[at[p]] = 0
      BY <3>2, TranscriptAssumption DEF IInv, AgeInv, TypeOK
    <3>4. keyed[p] => Load(at[p]) <= end[p]
      BY <3>2, <3>3 DEF IInv, OffsetInv, Owns
    <3>5. end[p] \in Nat
      BY TranscriptAssumption DEF IInv, TypeOK, Offsets
    <3> QED BY <2>1, <3>1, <3>2, <3>4, <3>5, TranscriptAssumption DEF Save, Load, TypeOK
  <2>3. CASE ~\E p \in Hooks : Save(p)
    <3>1. UNCHANGED stored
      <4>1. ASSUME NEW p \in Hooks, Hook(p) PROVE UNCHANGED stored
        BY <4>1, HookBegins DEF Begin, files
      <4> QED BY <2>3, <4>1 DEF Next, Step, Trouble, Append, Truncate, Open, LockOffset, LoadOffset, LoadFails, Scan,
                    Enqueue, Exit, OpenFails, SaveFails, EnqueueFails, Crash, vars, files
    <3> QED BY <2>1, <3>1
  <2> QED BY <2>2, <2>3
<1>2. Spec => [][Advance]_vars
  BY <1>1, Invariance, PTL DEF Spec
<1> QED BY <1>2 DEF OffsetsAdvance
=============================================================================
