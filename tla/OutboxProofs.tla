---------------------------- MODULE OutboxProofs ----------------------------
(***************************************************************************)
(* Proofs about Outbox for every number of processes, every cap and every  *)
(* bound: the inductive invariant IInv, the safety properties it implies,  *)
(* and the refinement of EventBuffer.                                      *)
(***************************************************************************)
EXTENDS Outbox, TLAPS, WellFoundedInduction, FiniteSetTheorems

-----------------------------------------------------------------------------
(* Facts about names *)

\* List's order: a nonempty listing has an oldest name, and it is in it.
LEMMA OldestIn ==
  ASSUME NEW S \in SUBSET Names, S # {}
  PROVE  Oldest(S) \in S /\ \A m \in S : Oldest(S) <= m
<1>1. S \in SUBSET Nat
  BY DEF Names
<1> DEFINE Less == {ss \in Nat \X Nat : ss[1] < ss[2]}
<1>2. IsWellFoundedOn(Less, Nat)
  BY NatLessThanWellFounded DEF OpToRel
<1>3. PICK n \in S : \A m \in S : <<m, n>> \notin Less
  <2> HIDE DEF Less
  <2> QED BY <1>1, <1>2, WFMin
<1>4. ASSUME NEW m \in S PROVE n <= m
  <2>1. m \in Nat /\ n \in Nat
    BY <1>1
  <2>2. <<m, n>> \in Less <=> m < n
    BY <2>1
  <2> QED BY <1>3, <2>1, <2>2
<1> QED BY <1>3, <1>4 DEF Oldest

\* Counting newer names: a larger set of buffered names never has fewer.
LEMMA MoreNewer ==
  ASSUME NEW S \in SUBSET Names, NEW T \in SUBSET Names, S \subseteq T,
         NEW n \in Names, Cardinality({m \in S : m > n}) >= Cap
  PROVE  Cardinality({m \in T : m > n}) >= Cap
<1> DEFINE A == {m \in S : m > n}
           B == {m \in T : m > n}
<1>1. IsFiniteSet(Names)
  <2>1. LastName \in Int /\ 0 \in Int
    BY BoundAssumption
  <2> QED BY <2>1, FS_Interval DEF Names
<1>2. IsFiniteSet(B) /\ IsFiniteSet(A)
  BY <1>1, FS_Subset
<1>3. Cardinality(A) <= Cardinality(B)
  BY <1>2, FS_Subset
<1>4. Cardinality(A) \in Nat /\ Cardinality(B) \in Nat
  BY <1>2, FS_CardinalityType
<1> HIDE DEF A, B
<1>5. Cardinality(A) >= Cap => Cardinality(B) >= Cap
  BY <1>3, <1>4, BoundAssumption
<1> QED BY <1>5 DEF A, B

-----------------------------------------------------------------------------
(* Types *)

\* A process that ends has well-typed, empty memory.
LEMMA FinishTypes ==
  ASSUME LocalTypes, NEW p \in Proc, NEW answer \in Results, Finish(p, answer)
  PROVE  LocalTypes'
BY DEF LocalTypes, Finish, Goto, Steps, Results

\* So has one whose Flush returned without error.
LEMMA FlushedTypes ==
  ASSUME LocalTypes, NEW p \in Proc, Flushed(p)
  PROVE  LocalTypes'
<1>1. CASE p \in Testers
  BY <1>1 DEF LocalTypes, Flushed, Goto, Steps
<1>2. CASE p \notin Testers
  BY <1>2, FinishTypes DEF Flushed, Results
<1> QED BY <1>1, <1>2

\* A command starts with well-typed memory.
LEMMA BeginTypes ==
  ASSUME SharedTypes, LocalTypes, NEW p \in Proc, NEW n \in Nat, NEW step \in Steps, Begin(p, n, step)
  PROVE  LocalTypes'
BY DEF SharedTypes, LocalTypes, Begin, Goto, Results

\* Releasing the lock leaves it with a process or with none.
LEMMA UnlockTypes ==
  ASSUME lock \in Proc \cup {None}, NEW p \in Proc, Unlock(p)
  PROVE  lock' \in Proc \cup {None}
BY DEF Unlock

\* The collector only ever gets names.
LEMMA ReceiveTypes ==
  ASSUME HistoryTypes, NEW S \in SUBSET Names, Receive(S)
  PROVE  received' \subseteq Names /\ repeated' \subseteq Names
BY DEF HistoryTypes, Receive

\* Every step keeps the types, given which names a process may hold.
LEMMA TypeStep ==
  ASSUME TypeOK, CommandInv, NameInv, [Next]_vars
  PROVE  TypeOK'
<1> USE DEF TypeOK
<1>1. ASSUME NEW p \in Proc, Ingest(p) PROVE TypeOK'
  <2>1. SharedTypes'
    BY <1>1 DEF Ingest, Begin, shared, SharedTypes
  <2>2. LocalTypes'
    BY <1>1, BoundAssumption, BeginTypes DEF Ingest, Steps
  <2>3. HistoryTypes'
    BY <1>1 DEF Ingest, Begin, history, HistoryTypes
  <2> QED BY <2>1, <2>2, <2>3
<1>2. ASSUME NEW p \in Proc, FlushCommand(p) PROVE TypeOK'
  <2>1. SharedTypes'
    BY <1>2 DEF FlushCommand, Begin, shared, SharedTypes
  <2>2. LocalTypes'
    BY <1>2, BeginTypes DEF FlushCommand, Steps
  <2>3. HistoryTypes'
    BY <1>2 DEF FlushCommand, Begin, history, HistoryTypes
  <2> QED BY <2>1, <2>2, <2>3
<1>3. ASSUME NEW p \in Proc, SelftestCommand(p) PROVE TypeOK'
  <2>1. SharedTypes'
    BY <1>3 DEF SelftestCommand, Begin, shared, SharedTypes
  <2>2. LocalTypes'
    BY <1>3, BeginTypes DEF SelftestCommand, Steps
  <2>3. HistoryTypes'
    BY <1>3 DEF SelftestCommand, Begin, history, HistoryTypes
  <2> QED BY <2>1, <2>2, <2>3
<1>4. ASSUME NEW p \in Proc, WriteTemp(p) PROVE TypeOK'
  <2>1. SharedTypes'
    BY <1>4 DEF WriteTemp, shared, SharedTypes
  <2>2. LocalTypes'
    BY <1>4, BoundAssumption DEF WriteTemp, LocalTypes, HistoryTypes, Goto, Steps, Names
  <2>3. HistoryTypes'
    BY <1>4, BoundAssumption DEF WriteTemp, HistoryTypes
  <2> QED BY <2>1, <2>2, <2>3
<1>5. ASSUME NEW p \in Proc, Rename(p) PROVE TypeOK'
  <2>1. SharedTypes'
    BY <1>5 DEF Rename, SharedTypes, NameInv
  <2>2. LocalTypes'
    BY <1>5 DEF Rename, LocalTypes, CommandInv, NameInv, AfterEnqueue, Goto, Steps
  <2>3. HistoryTypes'
    BY <1>5 DEF Rename, HistoryTypes, NameInv
  <2> QED BY <2>1, <2>2, <2>3
<1>6. ASSUME NEW p \in Proc, EnqueueFails(p) PROVE TypeOK'
  <2>1. SharedTypes'
    BY <1>6 DEF EnqueueFails, shared, SharedTypes
  <2>2. LocalTypes'
    BY <1>6, FinishTypes DEF EnqueueFails, LocalTypes, CommandInv, AfterEnqueue, Goto, Steps, Results
  <2>3. HistoryTypes'
    BY <1>6 DEF EnqueueFails, history, HistoryTypes
  <2> QED BY <2>1, <2>2, <2>3
<1>7. ASSUME NEW p \in Proc, ListExcess(p) PROVE TypeOK'
  <2>1. SharedTypes'
    BY <1>7 DEF ListExcess, shared, SharedTypes
  <2>2. LocalTypes'
    BY <1>7 DEF ListExcess, SharedTypes, LocalTypes, Excess, Goto, Steps
  <2>3. HistoryTypes'
    BY <1>7 DEF ListExcess, history, HistoryTypes
  <2> QED BY <2>1, <2>2, <2>3
<1>8. ASSUME NEW p \in Proc, Drop(p) PROVE TypeOK'
  <2>1. SharedTypes'
    BY <1>8 DEF Drop, SharedTypes
  <2>2. LocalTypes'
    BY <1>8 DEF Drop, LocalTypes, Goto, Steps
  <2>3. HistoryTypes'
    BY <1>8 DEF Drop, SharedTypes, HistoryTypes
  <2> QED BY <2>1, <2>2, <2>3
<1>9. ASSUME NEW p \in Proc, DropFails(p) PROVE TypeOK'
  <2>1. SharedTypes'
    BY <1>9 DEF DropFails, shared, SharedTypes
  <2>2. LocalTypes'
    BY <1>9 DEF DropFails, LocalTypes, Goto, Steps
  <2>3. HistoryTypes'
    BY <1>9, BoundAssumption DEF DropFails, HistoryTypes, Fault
  <2> QED BY <2>1, <2>2, <2>3
<1>10. ASSUME NEW p \in Proc, Decide(p) PROVE TypeOK'
  <2>1. SharedTypes'
    BY <1>10 DEF Decide, shared, SharedTypes
  <2>2. LocalTypes'
    BY <1>10, FinishTypes DEF Decide, LocalTypes, Goto, Steps, Results
  <2>3. HistoryTypes'
    BY <1>10 DEF Decide, history, HistoryTypes
  <2> QED BY <2>1, <2>2, <2>3
<1>11. ASSUME NEW p \in Proc, TouchFlushStamp(p) PROVE TypeOK'
  <2>1. SharedTypes'
    BY <1>11 DEF TouchFlushStamp, SharedTypes
  <2>2. LocalTypes'
    BY <1>11 DEF TouchFlushStamp, LocalTypes, Goto, Steps
  <2>3. HistoryTypes'
    BY <1>11 DEF TouchFlushStamp, history, HistoryTypes
  <2> QED BY <2>1, <2>2, <2>3
<1>12. ASSUME NEW p \in Proc, FlushStart(p) PROVE TypeOK'
  <2>1. SharedTypes'
    BY <1>12 DEF FlushStart, shared, SharedTypes
  <2>2. LocalTypes'
    BY <1>12, FlushedTypes DEF FlushStart, LocalTypes, Goto, Steps
  <2>3. HistoryTypes'
    BY <1>12 DEF FlushStart, history, HistoryTypes
  <2> QED BY <2>1, <2>2, <2>3
<1>13. ASSUME NEW p \in Proc, TryLock(p) PROVE TypeOK'
  <2>1. SharedTypes'
    BY <1>13 DEF TryLock, SharedTypes
  <2>2. LocalTypes'
    BY <1>13 DEF TryLock, LocalTypes, Goto, Steps
  <2>3. HistoryTypes'
    BY <1>13 DEF TryLock, history, HistoryTypes
  <2> QED BY <2>1, <2>2, <2>3
<1>14. ASSUME NEW p \in Proc, LockBusy(p) PROVE TypeOK'
  <2>1. SharedTypes'
    BY <1>14 DEF LockBusy, shared, SharedTypes
  <2>2. LocalTypes'
    BY <1>14, FinishTypes, FlushedTypes DEF LockBusy, Results
  <2>3. HistoryTypes'
    BY <1>14 DEF LockBusy, history, HistoryTypes
  <2> QED BY <2>1, <2>2, <2>3
<1>15. ASSUME NEW p \in Proc, ListLocked(p) PROVE TypeOK'
  <2>1. SharedTypes'
    BY <1>15, UnlockTypes DEF ListLocked, SharedTypes
  <2>2. LocalTypes'
    BY <1>15, FinishTypes, FlushedTypes DEF ListLocked, SharedTypes, LocalTypes, Goto, Steps, Results
  <2>3. HistoryTypes'
    BY <1>15 DEF ListLocked, history, HistoryTypes
  <2> QED BY <2>1, <2>2, <2>3
<1>16. ASSUME NEW p \in Proc, ReadEvent(p) PROVE TypeOK'
  <2>1. SharedTypes'
    BY <1>16 DEF ReadEvent, shared, SharedTypes
  <2>2. LocalTypes'
    BY <1>16, OldestIn DEF ReadEvent, LocalTypes, CommandInv, Goto, Steps
  <2>3. HistoryTypes'
    BY <1>16 DEF ReadEvent, history, HistoryTypes
  <2> QED BY <2>1, <2>2, <2>3
<1>17. ASSUME NEW p \in Proc, Export(p) PROVE TypeOK'
  <2>1. SharedTypes'
    BY <1>17 DEF Export, shared, SharedTypes
  <2>2. LocalTypes'
    BY <1>17 DEF Export, LocalTypes, Goto, Steps
  <2>3. HistoryTypes'
    BY <1>17, ReceiveTypes DEF Export, HistoryTypes, LocalTypes
  <2> QED BY <2>1, <2>2, <2>3
<1>18. ASSUME NEW p \in Proc, DeliveryFails(p) PROVE TypeOK'
  <2>1. SharedTypes'
    BY <1>18, UnlockTypes DEF DeliveryFails, SharedTypes
  <2>2. LocalTypes'
    BY <1>18, FinishTypes DEF DeliveryFails, Results
  <2>3. HistoryTypes'
    <3>1. MayHaveArrived(p) \subseteq SUBSET Names
      BY DEF MayHaveArrived, LocalTypes
    <3>2. faults' \in Nat
      BY <1>18, BoundAssumption DEF DeliveryFails, Fault, HistoryTypes
    <3> QED BY <1>18, <3>1, <3>2, ReceiveTypes DEF DeliveryFails, HistoryTypes, SharedTypes
  <2> QED BY <2>1, <2>2, <2>3
<1>19. ASSUME NEW p \in Proc, RemoveSent(p) PROVE TypeOK'
  <2>1. SharedTypes'
    BY <1>19 DEF RemoveSent, SharedTypes
  <2>2. LocalTypes'
    BY <1>19 DEF RemoveSent, LocalTypes
  <2>3. HistoryTypes'
    BY <1>19 DEF RemoveSent, history, HistoryTypes
  <2> QED BY <2>1, <2>2, <2>3
<1>20. ASSUME NEW p \in Proc, RemoveFails(p) PROVE TypeOK'
  <2>1. SharedTypes'
    BY <1>20 DEF RemoveFails, shared, SharedTypes
  <2>2. LocalTypes'
    BY <1>20 DEF RemoveFails, LocalTypes
  <2>3. HistoryTypes'
    BY <1>20, BoundAssumption DEF RemoveFails, SharedTypes, HistoryTypes, Fault
  <2> QED BY <2>1, <2>2, <2>3
<1>21. ASSUME NEW p \in Proc, Settle(p) PROVE TypeOK'
  <2>1. SharedTypes'
    BY <1>21, UnlockTypes DEF Settle, SharedTypes, LocalTypes
  <2>2. LocalTypes'
    BY <1>21, FinishTypes, FlushedTypes DEF Settle, Results
  <2>3. HistoryTypes'
    BY <1>21 DEF Settle, history, HistoryTypes
  <2> QED BY <2>1, <2>2, <2>3
<1>22. ASSUME NEW p \in Proc, ListProbes(p) PROVE TypeOK'
  <2>1. SharedTypes'
    BY <1>22 DEF ListProbes, shared, SharedTypes
  <2>2. LocalTypes'
    BY <1>22, FinishTypes DEF ListProbes, SharedTypes, LocalTypes, Goto, Steps, Results
  <2>3. HistoryTypes'
    BY <1>22 DEF ListProbes, history, HistoryTypes
  <2> QED BY <2>1, <2>2, <2>3
<1>23. ASSUME NEW p \in Proc, CountProbe(p) PROVE TypeOK'
  <2>1. SharedTypes'
    BY <1>23 DEF CountProbe, shared, SharedTypes
  <2>2. LocalTypes'
    BY <1>23, FinishTypes DEF CountProbe, LocalTypes, Results
  <2>3. HistoryTypes'
    BY <1>23 DEF CountProbe, history, HistoryTypes
  <2> QED BY <2>1, <2>2, <2>3
<1>24. ASSUME NEW p \in Proc, Crash(p) PROVE TypeOK'
  <2>1. SharedTypes'
    BY <1>24, UnlockTypes DEF Crash, SharedTypes
  <2>2. LocalTypes'
    BY <1>24, FinishTypes DEF Crash, Results
  <2>3. HistoryTypes'
    <3>1. MayHaveArrived(p) \subseteq SUBSET Names
      BY DEF MayHaveArrived, LocalTypes
    <3>2. faults' \in Nat
      BY <1>24, BoundAssumption DEF Crash, Fault, HistoryTypes
    <3> QED BY <1>24, <3>1, <3>2, ReceiveTypes DEF Crash, HistoryTypes, SharedTypes
  <2> QED BY <2>1, <2>2, <2>3
<1>25. ASSUME Tick PROVE TypeOK'
  BY <1>25 DEF Tick, locals, history, SharedTypes, LocalTypes, HistoryTypes
<1>26. ASSUME Configure PROVE TypeOK'
  BY <1>26 DEF Configure, locals, history, SharedTypes, LocalTypes, HistoryTypes
<1>27. ASSUME UNCHANGED vars PROVE TypeOK'
  BY <1>27 DEF vars, shared, locals, history, SharedTypes, LocalTypes, HistoryTypes
<1>28. ASSUME NEW p \in Proc, ListFails(p) PROVE TypeOK'
  <2>1. SharedTypes'
    BY <1>28, UnlockTypes DEF ListFails, SharedTypes
  <2>2. LocalTypes'
    BY <1>28, FinishTypes DEF ListFails, LocalTypes, Goto, Steps, Results
  <2>3. HistoryTypes'
    BY <1>28, BoundAssumption DEF ListFails, HistoryTypes, Fault
  <2> QED BY <2>1, <2>2, <2>3
<1>29. ASSUME NEW p \in Proc, ProbesUnlisted(p) PROVE TypeOK'
  <2>1. SharedTypes'
    BY <1>29 DEF ProbesUnlisted, shared, SharedTypes
  <2>2. LocalTypes'
    BY <1>29, FinishTypes DEF ProbesUnlisted, Results
  <2>3. HistoryTypes'
    <3>1. p \in Testers /\ promised[p] \subseteq Names
      BY <1>29 DEF ProbesUnlisted, CommandInv, Delivering, LocalTypes, Proc
    <3> QED BY <1>29, <3>1, BoundAssumption DEF ProbesUnlisted, HistoryTypes, Fault
  <2> QED BY <2>1, <2>2, <2>3
<1>30. ASSUME NEW p \in Proc, ProbeUnread(p) PROVE TypeOK'
  <2>1. SharedTypes'
    BY <1>30 DEF ProbeUnread, shared, SharedTypes
  <2>2. LocalTypes'
    BY <1>30, FinishTypes DEF ProbeUnread, LocalTypes, Results
  <2>3. HistoryTypes'
    <3>1. p \in Testers /\ Oldest(listed[p]) \in Names
      BY <1>30 DEF ProbeUnread, CommandInv, Delivering, SharedTypes, Proc
    <3> QED BY <1>30, <3>1, BoundAssumption DEF ProbeUnread, HistoryTypes, Fault
  <2> QED BY <2>1, <2>2, <2>3
<1> QED
  BY <1>1, <1>2, <1>3, <1>4, <1>5, <1>6, <1>7, <1>8, <1>9, <1>10, <1>11,
     <1>12, <1>13, <1>14, <1>15, <1>16, <1>17, <1>18, <1>19, <1>20, <1>21,
     <1>22, <1>23, <1>24, <1>25, <1>26, <1>27, <1>28, <1>29, <1>30
     DEF Next, Command, Step

-----------------------------------------------------------------------------
(* Commands *)

\* Ending a command leaves no step to account for.
LEMMA FinishCommand ==
  ASSUME LocalTypes, CommandInv, NEW p \in Proc, NEW answer, Finish(p, answer)
  PROVE  CommandInv'
BY DEF LocalTypes, CommandInv, Finish, Goto, Delivering

\* After Flush a selftest counts probes and the others end.
LEMMA FlushedCommand ==
  ASSUME LocalTypes, CommandInv, NEW p \in Proc, Flushed(p), pc[p] # "idle"
  PROVE  CommandInv'
<1>1. CASE p \in Testers
  BY <1>1, ProcAssumption DEF LocalTypes, CommandInv, Flushed, Goto, Delivering
<1>2. CASE p \notin Testers
  BY <1>2, FinishCommand DEF Flushed
<1> QED BY <1>1, <1>2

\* A command starts with a step of its own kind and events to enqueue, if it
\* starts with enqueueing.
LEMMA BeginCommand ==
  ASSUME LocalTypes, CommandInv, NEW p \in Proc, NEW n \in Nat, NEW step, Begin(p, n, step),
         p \in Flushers => step = "lock",
         step = "enqueue" => n > 0,
         step \in {"rotate", "enqueue", "lock"}
  PROVE  CommandInv'
BY DEF LocalTypes, CommandInv, Begin, Goto, Delivering

\* Commands keep to their own steps.
LEMMA CommandStep ==
  ASSUME LocalTypes, CommandInv, [Next]_vars
  PROVE  CommandInv'
<1>1. ASSUME NEW p \in Proc, Ingest(p) PROVE CommandInv'
  BY <1>1, BeginCommand, ProcAssumption, BoundAssumption DEF Ingest
<1>2. ASSUME NEW p \in Proc, FlushCommand(p) PROVE CommandInv'
  BY <1>2, BeginCommand DEF FlushCommand
<1>3. ASSUME NEW p \in Proc, SelftestCommand(p) PROVE CommandInv'
  BY <1>3, BeginCommand, ProcAssumption DEF SelftestCommand
<1>4. ASSUME NEW p \in Proc, WriteTemp(p) PROVE CommandInv'
  BY <1>4 DEF WriteTemp, Goto, LocalTypes, CommandInv, Delivering
<1>5. ASSUME NEW p \in Proc, Rename(p) PROVE CommandInv'
  BY <1>5 DEF Rename, AfterEnqueue, Goto, LocalTypes, CommandInv, Delivering
<1>6. ASSUME NEW p \in Proc, EnqueueFails(p) PROVE CommandInv'
  BY <1>6, FinishCommand
  DEF EnqueueFails, AfterEnqueue, Goto, LocalTypes, CommandInv, Delivering
<1>7. ASSUME NEW p \in Proc, ListExcess(p) PROVE CommandInv'
  BY <1>7 DEF ListExcess, shared, Goto, LocalTypes, CommandInv, Delivering
<1>8. ASSUME NEW p \in Proc, Drop(p) PROVE CommandInv'
  BY <1>8 DEF Drop, shared, Goto, LocalTypes, CommandInv, Delivering
<1>9. ASSUME NEW p \in Proc, DropFails(p) PROVE CommandInv'
  BY <1>9 DEF DropFails, shared, Goto, LocalTypes, CommandInv, Delivering
<1>10. ASSUME NEW p \in Proc, Decide(p) PROVE CommandInv'
  BY <1>10, FinishCommand DEF Decide, Goto, LocalTypes, CommandInv, Delivering
<1>11. ASSUME NEW p \in Proc, TouchFlushStamp(p) PROVE CommandInv'
  BY <1>11 DEF TouchFlushStamp, shared, Goto, LocalTypes, CommandInv, Delivering
<1>12. ASSUME NEW p \in Proc, FlushStart(p) PROVE CommandInv'
  BY <1>12, FlushedCommand
  DEF FlushStart, Goto, LocalTypes, CommandInv, Delivering
<1>13. ASSUME NEW p \in Proc, TryLock(p) PROVE CommandInv'
  BY <1>13 DEF TryLock, shared, Goto, LocalTypes, CommandInv, Delivering
<1>14. ASSUME NEW p \in Proc, LockBusy(p) PROVE CommandInv'
  BY <1>14, FinishCommand, FlushedCommand DEF LockBusy
<1>15. ASSUME NEW p \in Proc, ListLocked(p) PROVE CommandInv'
  BY <1>15, FinishCommand, FlushedCommand
  DEF ListLocked, Goto, LocalTypes, CommandInv, Delivering
<1>16. ASSUME NEW p \in Proc, ReadEvent(p) PROVE CommandInv'
  BY <1>16 DEF ReadEvent, shared, Goto, LocalTypes, CommandInv, Delivering
<1>17. ASSUME NEW p \in Proc, Export(p) PROVE CommandInv'
  BY <1>17 DEF Export, Goto, LocalTypes, CommandInv, Delivering
<1>18. ASSUME NEW p \in Proc, DeliveryFails(p) PROVE CommandInv'
  BY <1>18, FinishCommand DEF DeliveryFails
<1>19. ASSUME NEW p \in Proc, RemoveSent(p) PROVE CommandInv'
  BY <1>19 DEF RemoveSent, Goto, LocalTypes, CommandInv, Delivering
<1>20. ASSUME NEW p \in Proc, RemoveFails(p) PROVE CommandInv'
  BY <1>20 DEF RemoveFails, Goto, LocalTypes, CommandInv, Delivering
<1>21. ASSUME NEW p \in Proc, Settle(p) PROVE CommandInv'
  BY <1>21, FinishCommand, FlushedCommand DEF Settle
<1>22. ASSUME NEW p \in Proc, ListProbes(p) PROVE CommandInv'
  BY <1>22, FinishCommand, ProcAssumption
  DEF ListProbes, Goto, LocalTypes, CommandInv, Delivering
<1>23. ASSUME NEW p \in Proc, CountProbe(p) PROVE CommandInv'
  BY <1>23, FinishCommand DEF CountProbe, LocalTypes, CommandInv, Delivering
<1>24. ASSUME NEW p \in Proc, Crash(p) PROVE CommandInv'
  BY <1>24, FinishCommand DEF Crash
<1>25. ASSUME Tick PROVE CommandInv'
  BY <1>25 DEF Tick, locals, CommandInv
<1>26. ASSUME Configure PROVE CommandInv'
  BY <1>26 DEF Configure, locals, CommandInv
<1>27. ASSUME UNCHANGED vars PROVE CommandInv'
  BY <1>27 DEF vars, locals, CommandInv
<1>28. ASSUME NEW p \in Proc, ListFails(p) PROVE CommandInv'
  BY <1>28, FinishCommand DEF ListFails, Goto, LocalTypes, CommandInv, Delivering
<1>29. ASSUME NEW p \in Proc, ProbesUnlisted(p) PROVE CommandInv'
  BY <1>29, FinishCommand DEF ProbesUnlisted
<1>30. ASSUME NEW p \in Proc, ProbeUnread(p) PROVE CommandInv'
  BY <1>30, FinishCommand DEF ProbeUnread, LocalTypes, CommandInv, Delivering
<1> QED
  BY <1>1, <1>2, <1>3, <1>4, <1>5, <1>6, <1>7, <1>8, <1>9, <1>10, <1>11,
     <1>12, <1>13, <1>14, <1>15, <1>16, <1>17, <1>18, <1>19, <1>20, <1>21,
     <1>22, <1>23, <1>24, <1>25, <1>26, <1>27, <1>28, <1>29, <1>30
  DEF Next, Command, Step

-----------------------------------------------------------------------------
(* Names *)

\* A process that ends remembers no name but those it promised.
LEMMA FinishNames ==
  ASSUME LocalTypes, NameInv, NEW p \in Proc, NEW answer, Finish(p, answer),
         UNCHANGED <<clock, enqueued>>
  PROVE  NameInv'
BY DEF LocalTypes, NameInv, Finish, Goto

\* So does one whose Flush returned without error.
LEMMA FlushedNames ==
  ASSUME LocalTypes, NameInv, NEW p \in Proc, Flushed(p), UNCHANGED <<clock, enqueued>>
  PROVE  NameInv'
<1>1. CASE p \in Testers
  BY <1>1 DEF LocalTypes, NameInv, Flushed, Goto
<1>2. CASE p \notin Testers
  BY <1>2, FinishNames DEF Flushed
<1> QED BY <1>1, <1>2

\* Names stay unique and known.
LEMMA NameStep ==
  ASSUME TypeOK, CommandInv, StoreInv, NameInv, [Next]_vars
  PROVE  NameInv'
<1> USE DEF TypeOK
<1>1. ASSUME NEW p \in Proc, Ingest(p) PROVE NameInv'
  BY <1>1 DEF Ingest, Begin, LocalTypes, NameInv, Goto, history
<1>2. ASSUME NEW p \in Proc, FlushCommand(p) PROVE NameInv'
  BY <1>2 DEF FlushCommand, Begin, LocalTypes, NameInv, Goto, history
<1>3. ASSUME NEW p \in Proc, SelftestCommand(p) PROVE NameInv'
  BY <1>3 DEF SelftestCommand, Begin, LocalTypes, NameInv, Goto, history
<1>4. ASSUME NEW p \in Proc, WriteTemp(p) PROVE NameInv'
  BY <1>4
  DEF WriteTemp, LocalTypes, HistoryTypes, NameInv, StoreInv, Goto, Names
<1>5. ASSUME NEW p \in Proc, Rename(p) PROVE NameInv'
  BY <1>5 DEF Rename, LocalTypes, NameInv, AfterEnqueue, Goto
<1>6. ASSUME NEW p \in Proc, EnqueueFails(p) PROVE NameInv'
  BY <1>6, FinishNames
  DEF EnqueueFails, LocalTypes, NameInv, Goto, AfterEnqueue, history
<1>7. ASSUME NEW p \in Proc, ListExcess(p) PROVE NameInv'
  BY <1>7 DEF ListExcess, LocalTypes, NameInv, Goto, StoreInv, Excess, history
<1>8. ASSUME NEW p \in Proc, Drop(p) PROVE NameInv'
  BY <1>8 DEF Drop, LocalTypes, NameInv, Goto
<1>9. ASSUME NEW p \in Proc, DropFails(p) PROVE NameInv'
  BY <1>9 DEF DropFails, LocalTypes, NameInv, Goto
<1>10. ASSUME NEW p \in Proc, Decide(p) PROVE NameInv'
  BY <1>10, FinishNames DEF Decide, LocalTypes, NameInv, Goto, history
<1>11. ASSUME NEW p \in Proc, TouchFlushStamp(p) PROVE NameInv'
  BY <1>11 DEF TouchFlushStamp, LocalTypes, NameInv, Goto, history
<1>12. ASSUME NEW p \in Proc, FlushStart(p) PROVE NameInv'
  BY <1>12, FlushedNames DEF FlushStart, LocalTypes, NameInv, Goto, history
<1>13. ASSUME NEW p \in Proc, TryLock(p) PROVE NameInv'
  BY <1>13 DEF TryLock, LocalTypes, NameInv, Goto, history
<1>14. ASSUME NEW p \in Proc, LockBusy(p) PROVE NameInv'
  BY <1>14, FinishNames, FlushedNames DEF LockBusy, history
<1>15. ASSUME NEW p \in Proc, ListLocked(p) PROVE NameInv'
  BY <1>15, FinishNames, FlushedNames
  DEF ListLocked, LocalTypes, NameInv, Goto, StoreInv, history
<1>16. ASSUME NEW p \in Proc, ReadEvent(p) PROVE NameInv'
  BY <1>16, OldestIn
  DEF ReadEvent, LocalTypes, NameInv, Goto, CommandInv, history
<1>17. ASSUME NEW p \in Proc, Export(p) PROVE NameInv'
  BY <1>17 DEF Export, LocalTypes, NameInv, Goto
<1>18. ASSUME NEW p \in Proc, DeliveryFails(p) PROVE NameInv'
  BY <1>18, FinishNames DEF DeliveryFails
<1>19. ASSUME NEW p \in Proc, RemoveSent(p) PROVE NameInv'
  BY <1>19 DEF RemoveSent, LocalTypes, NameInv, Goto, history
<1>20. ASSUME NEW p \in Proc, RemoveFails(p) PROVE NameInv'
  BY <1>20 DEF RemoveFails, LocalTypes, NameInv, Goto
<1>21. ASSUME NEW p \in Proc, Settle(p) PROVE NameInv'
  BY <1>21, FinishNames, FlushedNames DEF Settle, history
<1>22. ASSUME NEW p \in Proc, ListProbes(p) PROVE NameInv'
  BY <1>22, FinishNames
  DEF ListProbes, LocalTypes, NameInv, Goto, StoreInv, history
<1>23. ASSUME NEW p \in Proc, CountProbe(p) PROVE NameInv'
  BY <1>23, FinishNames DEF CountProbe, LocalTypes, NameInv, Goto, history
<1>24. ASSUME NEW p \in Proc, Crash(p) PROVE NameInv'
  BY <1>24, FinishNames DEF Crash
<1>25. ASSUME Tick PROVE NameInv'
  BY <1>25 DEF Tick, locals, history, NameInv
<1>26. ASSUME Configure PROVE NameInv'
  BY <1>26 DEF Configure, locals, history, NameInv
<1>27. ASSUME UNCHANGED vars PROVE NameInv'
  BY <1>27 DEF vars, locals, history, NameInv
<1>28. ASSUME NEW p \in Proc, ListFails(p) PROVE NameInv'
  BY <1>28, FinishNames DEF ListFails, LocalTypes, NameInv, Goto
<1>29. ASSUME NEW p \in Proc, ProbesUnlisted(p) PROVE NameInv'
  BY <1>29, FinishNames DEF ProbesUnlisted
<1>30. ASSUME NEW p \in Proc, ProbeUnread(p) PROVE NameInv'
  BY <1>30, FinishNames DEF ProbeUnread, LocalTypes, NameInv, Goto
<1> QED
  BY <1>1, <1>2, <1>3, <1>4, <1>5, <1>6, <1>7, <1>8, <1>9, <1>10, <1>11,
     <1>12, <1>13, <1>14, <1>15, <1>16, <1>17, <1>18, <1>19, <1>20, <1>21,
     <1>22, <1>23, <1>24, <1>25, <1>26, <1>27, <1>28, <1>29, <1>30
  DEF Next, Command, Step

\* Files, deliveries and drops stay among the names given.
LEMMA StoreStep ==
  ASSUME TypeOK, StoreInv, NameInv, [Next]_vars
  PROVE  StoreInv'
<1> USE DEF TypeOK
<1>1. ASSUME NEW p \in Proc, Ingest(p) PROVE StoreInv'
  BY <1>1 DEF Ingest, Begin, shared, history, StoreInv
<1>2. ASSUME NEW p \in Proc, FlushCommand(p) PROVE StoreInv'
  BY <1>2 DEF FlushCommand, Begin, shared, history, StoreInv
<1>3. ASSUME NEW p \in Proc, SelftestCommand(p) PROVE StoreInv'
  BY <1>3 DEF SelftestCommand, Begin, shared, history, StoreInv
<1>4. ASSUME NEW p \in Proc, WriteTemp(p) PROVE StoreInv'
  BY <1>4 DEF WriteTemp, StoreInv, HistoryTypes, Names, shared
<1>5. ASSUME NEW p \in Proc, Rename(p) PROVE StoreInv'
  BY <1>5 DEF Rename, StoreInv, NameInv
<1>6. ASSUME NEW p \in Proc, EnqueueFails(p) PROVE StoreInv'
  BY <1>6 DEF EnqueueFails, StoreInv, shared, history
<1>7. ASSUME NEW p \in Proc, ListExcess(p) PROVE StoreInv'
  BY <1>7 DEF ListExcess, StoreInv, shared, history
<1>8. ASSUME NEW p \in Proc, Drop(p) PROVE StoreInv'
  BY <1>8 DEF Drop, StoreInv
<1>9. ASSUME NEW p \in Proc, DropFails(p) PROVE StoreInv'
  BY <1>9 DEF DropFails, StoreInv, shared
<1>10. ASSUME NEW p \in Proc, Decide(p) PROVE StoreInv'
  BY <1>10 DEF Decide, StoreInv, shared, history
<1>11. ASSUME NEW p \in Proc, TouchFlushStamp(p) PROVE StoreInv'
  BY <1>11 DEF TouchFlushStamp, StoreInv, history
<1>12. ASSUME NEW p \in Proc, FlushStart(p) PROVE StoreInv'
  BY <1>12 DEF FlushStart, StoreInv, shared, history
<1>13. ASSUME NEW p \in Proc, TryLock(p) PROVE StoreInv'
  BY <1>13 DEF TryLock, StoreInv, history
<1>14. ASSUME NEW p \in Proc, LockBusy(p) PROVE StoreInv'
  BY <1>14 DEF LockBusy, StoreInv, shared, history
<1>15. ASSUME NEW p \in Proc, ListLocked(p) PROVE StoreInv'
  BY <1>15 DEF ListLocked, StoreInv, history
<1>16. ASSUME NEW p \in Proc, ReadEvent(p) PROVE StoreInv'
  BY <1>16 DEF ReadEvent, StoreInv, shared, history
<1>17. ASSUME NEW p \in Proc, Export(p) PROVE StoreInv'
  BY <1>17 DEF Export, StoreInv, NameInv, Receive, shared
<1>18. ASSUME NEW p \in Proc, DeliveryFails(p) PROVE StoreInv'
  BY <1>18 DEF DeliveryFails, StoreInv, NameInv, Receive, MayHaveArrived
<1>19. ASSUME NEW p \in Proc, RemoveSent(p) PROVE StoreInv'
  BY <1>19 DEF RemoveSent, StoreInv, history
<1>20. ASSUME NEW p \in Proc, RemoveFails(p) PROVE StoreInv'
  BY <1>20 DEF RemoveFails, StoreInv, shared
<1>21. ASSUME NEW p \in Proc, Settle(p) PROVE StoreInv'
  BY <1>21 DEF Settle, StoreInv, history
<1>22. ASSUME NEW p \in Proc, ListProbes(p) PROVE StoreInv'
  BY <1>22 DEF ListProbes, StoreInv, shared, history
<1>23. ASSUME NEW p \in Proc, CountProbe(p) PROVE StoreInv'
  BY <1>23 DEF CountProbe, StoreInv, shared, history
<1>24. ASSUME NEW p \in Proc, Crash(p) PROVE StoreInv'
  BY <1>24 DEF Crash, StoreInv, NameInv, Receive, MayHaveArrived
<1>25. ASSUME Tick PROVE StoreInv'
  BY <1>25 DEF Tick, history, StoreInv
<1>26. ASSUME Configure PROVE StoreInv'
  BY <1>26 DEF Configure, history, StoreInv
<1>27. ASSUME UNCHANGED vars PROVE StoreInv'
  BY <1>27 DEF vars, shared, history, StoreInv
<1>28. ASSUME NEW p \in Proc, ListFails(p) PROVE StoreInv'
  BY <1>28 DEF ListFails, StoreInv
<1>29. ASSUME NEW p \in Proc, ProbesUnlisted(p) PROVE StoreInv'
  BY <1>29 DEF ProbesUnlisted, StoreInv, shared
<1>30. ASSUME NEW p \in Proc, ProbeUnread(p) PROVE StoreInv'
  BY <1>30 DEF ProbeUnread, StoreInv, shared
<1> QED
  BY <1>1, <1>2, <1>3, <1>4, <1>5, <1>6, <1>7, <1>8, <1>9, <1>10, <1>11,
     <1>12, <1>13, <1>14, <1>15, <1>16, <1>17, <1>18, <1>19, <1>20, <1>21,
     <1>22, <1>23, <1>24, <1>25, <1>26, <1>27, <1>28, <1>29, <1>30
  DEF Next, Command, Step

-----------------------------------------------------------------------------
(* The flush lock *)

\* A process that ends outside a delivery, or releases the lock, excludes nobody.
LEMMA EndLock ==
  ASSUME LocalTypes, LockInv, NEW p \in Proc, NEW answer,
         Finish(p, answer) \/ Flushed(p), Unlock(p) \/ UNCHANGED lock
  PROVE  LockInv'
BY DEF LocalTypes, LockInv, Finish, Flushed, Unlock, Goto, Delivering

\* The lock excludes a second deliverer.
LEMMA LockStep ==
  ASSUME LocalTypes, LockInv, [Next]_vars
  PROVE  LockInv'
<1>1. ASSUME NEW p \in Proc, Ingest(p) PROVE LockInv'
  BY <1>1 DEF Ingest, Begin, LocalTypes, LockInv, Goto, Delivering, shared
<1>2. ASSUME NEW p \in Proc, FlushCommand(p) PROVE LockInv'
  BY <1>2 DEF FlushCommand, Begin, LocalTypes, LockInv, Goto, Delivering, shared
<1>3. ASSUME NEW p \in Proc, SelftestCommand(p) PROVE LockInv'
  BY <1>3
  DEF SelftestCommand, Begin, LocalTypes, LockInv, Goto, Delivering, shared
<1>4. ASSUME NEW p \in Proc, WriteTemp(p) PROVE LockInv'
  BY <1>4 DEF WriteTemp, LocalTypes, LockInv, Goto, Delivering, shared
<1>5. ASSUME NEW p \in Proc, Rename(p) PROVE LockInv'
  BY <1>5 DEF Rename, LocalTypes, LockInv, Goto, Delivering, AfterEnqueue
<1>6. ASSUME NEW p \in Proc, EnqueueFails(p) PROVE LockInv'
  BY <1>6, EndLock
  DEF EnqueueFails, LocalTypes, LockInv, Goto, Delivering, AfterEnqueue,
     shared
<1>7. ASSUME NEW p \in Proc, ListExcess(p) PROVE LockInv'
  BY <1>7 DEF ListExcess, LocalTypes, LockInv, Goto, Delivering, shared
<1>8. ASSUME NEW p \in Proc, Drop(p) PROVE LockInv'
  BY <1>8 DEF Drop, LocalTypes, LockInv, Goto, Delivering
<1>9. ASSUME NEW p \in Proc, DropFails(p) PROVE LockInv'
  BY <1>9 DEF DropFails, LocalTypes, LockInv, Goto, Delivering, shared
<1>10. ASSUME NEW p \in Proc, Decide(p) PROVE LockInv'
  BY <1>10, EndLock DEF Decide, LocalTypes, LockInv, Goto, Delivering, shared
<1>11. ASSUME NEW p \in Proc, TouchFlushStamp(p) PROVE LockInv'
  BY <1>11 DEF TouchFlushStamp, LocalTypes, LockInv, Goto, Delivering
<1>12. ASSUME NEW p \in Proc, FlushStart(p) PROVE LockInv'
  BY <1>12, EndLock
  DEF FlushStart, LocalTypes, LockInv, Goto, Delivering, shared
<1>13. ASSUME NEW p \in Proc, TryLock(p) PROVE LockInv'
  BY <1>13, ProcAssumption DEF TryLock, LocalTypes, LockInv, Goto, Delivering
<1>14. ASSUME NEW p \in Proc, LockBusy(p) PROVE LockInv'
  BY <1>14, EndLock DEF LockBusy, shared
<1>15. ASSUME NEW p \in Proc, ListLocked(p) PROVE LockInv'
  BY <1>15, EndLock DEF ListLocked, LocalTypes, LockInv, Goto, Delivering
<1>16. ASSUME NEW p \in Proc, ReadEvent(p) PROVE LockInv'
  BY <1>16 DEF ReadEvent, LocalTypes, LockInv, Goto, Delivering, shared
<1>17. ASSUME NEW p \in Proc, Export(p) PROVE LockInv'
  BY <1>17 DEF Export, LocalTypes, LockInv, Goto, Delivering, shared
<1>18. ASSUME NEW p \in Proc, DeliveryFails(p) PROVE LockInv'
  BY <1>18, EndLock DEF DeliveryFails
<1>19. ASSUME NEW p \in Proc, RemoveSent(p) PROVE LockInv'
  BY <1>19 DEF RemoveSent, LocalTypes, LockInv, Goto, Delivering
<1>20. ASSUME NEW p \in Proc, RemoveFails(p) PROVE LockInv'
  BY <1>20 DEF RemoveFails, LocalTypes, LockInv, Goto, Delivering, shared
<1>21. ASSUME NEW p \in Proc, Settle(p) PROVE LockInv'
  BY <1>21, EndLock DEF Settle
<1>22. ASSUME NEW p \in Proc, ListProbes(p) PROVE LockInv'
  BY <1>22, EndLock
  DEF ListProbes, LocalTypes, LockInv, Goto, Delivering, shared
<1>23. ASSUME NEW p \in Proc, CountProbe(p) PROVE LockInv'
  BY <1>23, EndLock
  DEF CountProbe, LocalTypes, LockInv, Goto, Delivering, shared
<1>24. ASSUME NEW p \in Proc, Crash(p) PROVE LockInv'
  BY <1>24, EndLock DEF Crash
<1>25. ASSUME Tick PROVE LockInv'
  BY <1>25 DEF Tick, locals, LockInv
<1>26. ASSUME Configure PROVE LockInv'
  BY <1>26 DEF Configure, locals, LockInv
<1>27. ASSUME UNCHANGED vars PROVE LockInv'
  BY <1>27 DEF vars, shared, locals, LockInv
<1>28. ASSUME NEW p \in Proc, ListFails(p) PROVE LockInv'
  BY <1>28, EndLock DEF ListFails, LocalTypes, LockInv, Goto, Delivering, Unlock
<1>29. ASSUME NEW p \in Proc, ProbesUnlisted(p) PROVE LockInv'
  BY <1>29, EndLock DEF ProbesUnlisted, shared
<1>30. ASSUME NEW p \in Proc, ProbeUnread(p) PROVE LockInv'
  BY <1>30, EndLock DEF ProbeUnread, LocalTypes, LockInv, Goto, Delivering, shared
<1> QED
  BY <1>1, <1>2, <1>3, <1>4, <1>5, <1>6, <1>7, <1>8, <1>9, <1>10, <1>11,
     <1>12, <1>13, <1>14, <1>15, <1>16, <1>17, <1>18, <1>19, <1>20, <1>21,
     <1>22, <1>23, <1>24, <1>25, <1>26, <1>27, <1>28, <1>29, <1>30
  DEF Next, Command, Step

-----------------------------------------------------------------------------
(* Rotation *)

\* A step that buffers no fewer names keeps what was old enough so.
LEMMA KeptOld ==
  ASSUME enqueued \subseteq Names, enqueued' \subseteq Names, enqueued \subseteq enqueued',
         NEW n \in Names, Cardinality({m \in enqueued : m > n}) >= Cap
  PROVE  Cardinality({m \in enqueued' : m > n}) >= Cap
BY MoreNewer

\* What Rotate means to drop of a listing has Cap newer names in it.
LEMMA ExcessOld ==
  ASSUME NEW S \in SUBSET Names, NEW T \in SUBSET Names, S \subseteq T, NEW n \in Excess(S)
  PROVE  Cardinality({m \in T : m > n}) >= Cap
BY MoreNewer DEF Excess

\* Ending a command, or going on without a listing, leaves no drop pending.
LEMMA EndDrop ==
  ASSUME LocalTypes, DropInv, NEW p \in Proc, NEW answer,
         Finish(p, answer) \/ Flushed(p), UNCHANGED enqueued
  PROVE  DropInv'
BY DEF LocalTypes, DropInv, Finish, Flushed, Goto

\* A command that starts has nothing to drop.
LEMMA BeginDrop ==
  ASSUME LocalTypes, DropInv, NEW p \in Proc, NEW n, NEW step, Begin(p, n, step), step # "drop"
  PROVE  DropInv'
BY DEF LocalTypes, DropInv, Begin, Goto, history

\* A listing taken for rotation never outgrows its reason.
LEMMA DropStep ==
  ASSUME TypeOK, StoreInv, NameInv, DropInv, [Next]_vars
  PROVE  DropInv'
<1> USE DEF TypeOK
<1>1. ASSUME NEW p \in Proc, Ingest(p) PROVE DropInv'
  BY <1>1, BeginDrop DEF Ingest
<1>2. ASSUME NEW p \in Proc, FlushCommand(p) PROVE DropInv'
  BY <1>2, BeginDrop DEF FlushCommand
<1>3. ASSUME NEW p \in Proc, SelftestCommand(p) PROVE DropInv'
  BY <1>3, BeginDrop DEF SelftestCommand
<1>4. ASSUME NEW p \in Proc, WriteTemp(p) PROVE DropInv'
  BY <1>4 DEF WriteTemp, LocalTypes, DropInv, Goto
<1>5. ASSUME NEW p \in Proc, Rename(p) PROVE DropInv'
  BY ZenonT(60), <1>5, KeptOld
  DEF Rename, LocalTypes, DropInv, Goto, AfterEnqueue, HistoryTypes, NameInv
<1>6. ASSUME NEW p \in Proc, EnqueueFails(p) PROVE DropInv'
  BY ZenonT(60), <1>6, EndDrop
  DEF EnqueueFails, LocalTypes, DropInv, Goto, AfterEnqueue, history
<1>7. ASSUME NEW p \in Proc, ListExcess(p) PROVE DropInv'
  <2>1. files \subseteq enqueued /\ enqueued' = enqueued /\ enqueued \subseteq Names
    BY <1>7 DEF ListExcess, StoreInv, HistoryTypes, history
  <2>2. \A n \in Excess(files) : Cardinality({m \in enqueued : m > n}) >= Cap
    BY <2>1, ExcessOld
  <2>3. \A q \in Proc : pc'[q] = "drop" =>
          listed'[q] = (IF q = p THEN Excess(files) ELSE listed[q]) /\ (q # p => pc[q] = "drop")
    BY <1>7 DEF ListExcess, LocalTypes, Goto
  <2> HIDE DEF TypeOK
  <2> QED BY <2>1, <2>2, <2>3 DEF DropInv
<1>8. ASSUME NEW p \in Proc, Drop(p) PROVE DropInv'
  BY <1>8 DEF Drop, LocalTypes, DropInv, Goto
<1>9. ASSUME NEW p \in Proc, DropFails(p) PROVE DropInv'
  BY <1>9 DEF DropFails, LocalTypes, DropInv, Goto
<1>10. ASSUME NEW p \in Proc, Decide(p) PROVE DropInv'
  BY <1>10, EndDrop DEF Decide, LocalTypes, DropInv, Goto, history
<1>11. ASSUME NEW p \in Proc, TouchFlushStamp(p) PROVE DropInv'
  BY <1>11 DEF TouchFlushStamp, LocalTypes, DropInv, Goto, history
<1>12. ASSUME NEW p \in Proc, FlushStart(p) PROVE DropInv'
  BY <1>12, EndDrop DEF FlushStart, LocalTypes, DropInv, Goto, history
<1>13. ASSUME NEW p \in Proc, TryLock(p) PROVE DropInv'
  BY <1>13 DEF TryLock, LocalTypes, DropInv, Goto, history
<1>14. ASSUME NEW p \in Proc, LockBusy(p) PROVE DropInv'
  BY <1>14, EndDrop DEF LockBusy, history
<1>15. ASSUME NEW p \in Proc, ListLocked(p) PROVE DropInv'
  BY <1>15, EndDrop DEF ListLocked, LocalTypes, DropInv, Goto, history
<1>16. ASSUME NEW p \in Proc, ReadEvent(p) PROVE DropInv'
  BY <1>16 DEF ReadEvent, LocalTypes, DropInv, Goto, history
<1>17. ASSUME NEW p \in Proc, Export(p) PROVE DropInv'
  BY <1>17 DEF Export, LocalTypes, DropInv, Goto
<1>18. ASSUME NEW p \in Proc, DeliveryFails(p) PROVE DropInv'
  BY <1>18, EndDrop DEF DeliveryFails
<1>19. ASSUME NEW p \in Proc, RemoveSent(p) PROVE DropInv'
  BY <1>19 DEF RemoveSent, LocalTypes, DropInv, Goto, history
<1>20. ASSUME NEW p \in Proc, RemoveFails(p) PROVE DropInv'
  BY <1>20 DEF RemoveFails, LocalTypes, DropInv, Goto
<1>21. ASSUME NEW p \in Proc, Settle(p) PROVE DropInv'
  BY <1>21, EndDrop DEF Settle, history
<1>22. ASSUME NEW p \in Proc, ListProbes(p) PROVE DropInv'
  BY <1>22, EndDrop DEF ListProbes, LocalTypes, DropInv, Goto, history
<1>23. ASSUME NEW p \in Proc, CountProbe(p) PROVE DropInv'
  BY <1>23, EndDrop DEF CountProbe, LocalTypes, DropInv, Goto, history
<1>24. ASSUME NEW p \in Proc, Crash(p) PROVE DropInv'
  BY <1>24, EndDrop DEF Crash
<1>25. ASSUME Tick PROVE DropInv'
  BY <1>25 DEF Tick, locals, history, DropInv
<1>26. ASSUME Configure PROVE DropInv'
  BY <1>26 DEF Configure, locals, history, DropInv
<1>27. ASSUME UNCHANGED vars PROVE DropInv'
  BY <1>27 DEF vars, shared, locals, history, DropInv
<1>28. ASSUME NEW p \in Proc, ListFails(p) PROVE DropInv'
  BY <1>28, EndDrop DEF ListFails, LocalTypes, DropInv, Goto
<1>29. ASSUME NEW p \in Proc, ProbesUnlisted(p) PROVE DropInv'
  BY <1>29, EndDrop DEF ProbesUnlisted
<1>30. ASSUME NEW p \in Proc, ProbeUnread(p) PROVE DropInv'
  BY <1>30, EndDrop DEF ProbeUnread, LocalTypes, DropInv, Goto
<1> QED
  BY <1>1, <1>2, <1>3, <1>4, <1>5, <1>6, <1>7, <1>8, <1>9, <1>10, <1>11,
     <1>12, <1>13, <1>14, <1>15, <1>16, <1>17, <1>18, <1>19, <1>20, <1>21,
     <1>22, <1>23, <1>24, <1>25, <1>26, <1>27, <1>28, <1>29, <1>30
  DEF Next, Command, Step

\* Only names with Cap newer ones are dropped.
LEMMA NewestStep ==
  ASSUME TypeOK, CommandInv, NameInv, DropInv, NewestKept, [Next]_vars
  PROVE  NewestKept'
<1> USE DEF TypeOK
<1>1. ASSUME NEW p \in Proc, Ingest(p) PROVE NewestKept'
  BY <1>1 DEF Ingest, Begin, NewestKept, history
<1>2. ASSUME NEW p \in Proc, FlushCommand(p) PROVE NewestKept'
  BY <1>2 DEF FlushCommand, Begin, NewestKept, history
<1>3. ASSUME NEW p \in Proc, SelftestCommand(p) PROVE NewestKept'
  BY <1>3 DEF SelftestCommand, Begin, NewestKept, history
<1>4. ASSUME NEW p \in Proc, WriteTemp(p) PROVE NewestKept'
  BY <1>4 DEF WriteTemp, NewestKept
<1>5. ASSUME NEW p \in Proc, Rename(p) PROVE NewestKept'
  BY <1>5, KeptOld DEF Rename, NewestKept, HistoryTypes, LocalTypes, NameInv
<1>6. ASSUME NEW p \in Proc, EnqueueFails(p) PROVE NewestKept'
  BY <1>6 DEF EnqueueFails, NewestKept, history
<1>7. ASSUME NEW p \in Proc, ListExcess(p) PROVE NewestKept'
  BY <1>7 DEF ListExcess, NewestKept, history
<1>8. ASSUME NEW p \in Proc, Drop(p) PROVE NewestKept'
  BY <1>8, OldestIn
  DEF Drop, NewestKept, DropInv, CommandInv, LocalTypes, HistoryTypes
<1>9. ASSUME NEW p \in Proc, DropFails(p) PROVE NewestKept'
  BY <1>9 DEF DropFails, NewestKept
<1>10. ASSUME NEW p \in Proc, Decide(p) PROVE NewestKept'
  BY <1>10 DEF Decide, NewestKept, history
<1>11. ASSUME NEW p \in Proc, TouchFlushStamp(p) PROVE NewestKept'
  BY <1>11 DEF TouchFlushStamp, NewestKept, history
<1>12. ASSUME NEW p \in Proc, FlushStart(p) PROVE NewestKept'
  BY <1>12 DEF FlushStart, NewestKept, history
<1>13. ASSUME NEW p \in Proc, TryLock(p) PROVE NewestKept'
  BY <1>13 DEF TryLock, NewestKept, history
<1>14. ASSUME NEW p \in Proc, LockBusy(p) PROVE NewestKept'
  BY <1>14 DEF LockBusy, NewestKept, history
<1>15. ASSUME NEW p \in Proc, ListLocked(p) PROVE NewestKept'
  BY <1>15 DEF ListLocked, NewestKept, history
<1>16. ASSUME NEW p \in Proc, ReadEvent(p) PROVE NewestKept'
  BY <1>16 DEF ReadEvent, NewestKept, history
<1>17. ASSUME NEW p \in Proc, Export(p) PROVE NewestKept'
  BY <1>17 DEF Export, NewestKept
<1>18. ASSUME NEW p \in Proc, DeliveryFails(p) PROVE NewestKept'
  BY <1>18 DEF DeliveryFails, NewestKept
<1>19. ASSUME NEW p \in Proc, RemoveSent(p) PROVE NewestKept'
  BY <1>19 DEF RemoveSent, NewestKept, history
<1>20. ASSUME NEW p \in Proc, RemoveFails(p) PROVE NewestKept'
  BY <1>20 DEF RemoveFails, NewestKept
<1>21. ASSUME NEW p \in Proc, Settle(p) PROVE NewestKept'
  BY <1>21 DEF Settle, NewestKept, history
<1>22. ASSUME NEW p \in Proc, ListProbes(p) PROVE NewestKept'
  BY <1>22 DEF ListProbes, NewestKept, history
<1>23. ASSUME NEW p \in Proc, CountProbe(p) PROVE NewestKept'
  BY <1>23 DEF CountProbe, NewestKept, history
<1>24. ASSUME NEW p \in Proc, Crash(p) PROVE NewestKept'
  BY <1>24 DEF Crash, NewestKept
<1>25. ASSUME Tick PROVE NewestKept'
  BY <1>25 DEF Tick, history, NewestKept
<1>26. ASSUME Configure PROVE NewestKept'
  BY <1>26 DEF Configure, history, NewestKept
<1>27. ASSUME UNCHANGED vars PROVE NewestKept'
  BY <1>27 DEF vars, shared, history, NewestKept
<1>28. ASSUME NEW p \in Proc, ListFails(p) PROVE NewestKept'
  BY <1>28 DEF ListFails, NewestKept
<1>29. ASSUME NEW p \in Proc, ProbesUnlisted(p) PROVE NewestKept'
  BY <1>29 DEF ProbesUnlisted, NewestKept
<1>30. ASSUME NEW p \in Proc, ProbeUnread(p) PROVE NewestKept'
  BY <1>30 DEF ProbeUnread, NewestKept
<1> QED
  BY <1>1, <1>2, <1>3, <1>4, <1>5, <1>6, <1>7, <1>8, <1>9, <1>10, <1>11,
     <1>12, <1>13, <1>14, <1>15, <1>16, <1>17, <1>18, <1>19, <1>20, <1>21,
     <1>22, <1>23, <1>24, <1>25, <1>26, <1>27, <1>28, <1>29, <1>30
  DEF Next, Command, Step

-----------------------------------------------------------------------------
(* Delivery *)

\* A file leaves the outbox for the collector or for newer ones.
LEMMA NoLossStep ==
  ASSUME TypeOK, DeliveryInv, NoLoss, [Next]_vars
  PROVE  NoLoss'
<1> USE DEF TypeOK
<1>1. ASSUME NEW p \in Proc, Ingest(p) PROVE NoLoss'
  BY <1>1 DEF Ingest, Begin, NoLoss, shared, history
<1>2. ASSUME NEW p \in Proc, FlushCommand(p) PROVE NoLoss'
  BY <1>2 DEF FlushCommand, Begin, NoLoss, shared, history
<1>3. ASSUME NEW p \in Proc, SelftestCommand(p) PROVE NoLoss'
  BY <1>3 DEF SelftestCommand, Begin, NoLoss, shared, history
<1>4. ASSUME NEW p \in Proc, WriteTemp(p) PROVE NoLoss'
  BY <1>4 DEF WriteTemp, NoLoss, shared
<1>5. ASSUME NEW p \in Proc, Rename(p) PROVE NoLoss'
  BY <1>5 DEF Rename, NoLoss
<1>6. ASSUME NEW p \in Proc, EnqueueFails(p) PROVE NoLoss'
  BY <1>6 DEF EnqueueFails, NoLoss, shared, history
<1>7. ASSUME NEW p \in Proc, ListExcess(p) PROVE NoLoss'
  BY <1>7 DEF ListExcess, NoLoss, shared, history
<1>8. ASSUME NEW p \in Proc, Drop(p) PROVE NoLoss'
  BY <1>8 DEF Drop, NoLoss
<1>9. ASSUME NEW p \in Proc, DropFails(p) PROVE NoLoss'
  BY <1>9 DEF DropFails, NoLoss, shared
<1>10. ASSUME NEW p \in Proc, Decide(p) PROVE NoLoss'
  BY <1>10 DEF Decide, NoLoss, shared, history
<1>11. ASSUME NEW p \in Proc, TouchFlushStamp(p) PROVE NoLoss'
  BY <1>11 DEF TouchFlushStamp, NoLoss, history
<1>12. ASSUME NEW p \in Proc, FlushStart(p) PROVE NoLoss'
  BY <1>12 DEF FlushStart, NoLoss, shared, history
<1>13. ASSUME NEW p \in Proc, TryLock(p) PROVE NoLoss'
  BY <1>13 DEF TryLock, NoLoss, history
<1>14. ASSUME NEW p \in Proc, LockBusy(p) PROVE NoLoss'
  BY <1>14 DEF LockBusy, NoLoss, shared, history
<1>15. ASSUME NEW p \in Proc, ListLocked(p) PROVE NoLoss'
  BY <1>15 DEF ListLocked, NoLoss, history
<1>16. ASSUME NEW p \in Proc, ReadEvent(p) PROVE NoLoss'
  BY <1>16 DEF ReadEvent, NoLoss, shared, history
<1>17. ASSUME NEW p \in Proc, Export(p) PROVE NoLoss'
  BY <1>17 DEF Export, NoLoss, shared, Receive
<1>18. ASSUME NEW p \in Proc, DeliveryFails(p) PROVE NoLoss'
  BY <1>18 DEF DeliveryFails, NoLoss, Receive
<1>19. ASSUME NEW p \in Proc, RemoveSent(p) PROVE NoLoss'
  BY <1>19, OldestIn DEF RemoveSent, NoLoss, DeliveryInv, LocalTypes, history
<1>20. ASSUME NEW p \in Proc, RemoveFails(p) PROVE NoLoss'
  BY <1>20 DEF RemoveFails, NoLoss, shared
<1>21. ASSUME NEW p \in Proc, Settle(p) PROVE NoLoss'
  BY <1>21 DEF Settle, NoLoss, history
<1>22. ASSUME NEW p \in Proc, ListProbes(p) PROVE NoLoss'
  BY <1>22 DEF ListProbes, NoLoss, shared, history
<1>23. ASSUME NEW p \in Proc, CountProbe(p) PROVE NoLoss'
  BY <1>23 DEF CountProbe, NoLoss, shared, history
<1>24. ASSUME NEW p \in Proc, Crash(p) PROVE NoLoss'
  BY <1>24 DEF Crash, NoLoss, Receive
<1>25. ASSUME Tick PROVE NoLoss'
  BY <1>25 DEF Tick, shared, history, NoLoss
<1>26. ASSUME Configure PROVE NoLoss'
  BY <1>26 DEF Configure, shared, history, NoLoss
<1>27. ASSUME UNCHANGED vars PROVE NoLoss'
  BY <1>27 DEF vars, shared, shared, history, NoLoss
<1>28. ASSUME NEW p \in Proc, ListFails(p) PROVE NoLoss'
  BY <1>28 DEF ListFails, NoLoss
<1>29. ASSUME NEW p \in Proc, ProbesUnlisted(p) PROVE NoLoss'
  BY <1>29 DEF ProbesUnlisted, NoLoss, shared
<1>30. ASSUME NEW p \in Proc, ProbeUnread(p) PROVE NoLoss'
  BY <1>30 DEF ProbeUnread, NoLoss, shared
<1> QED
  BY <1>1, <1>2, <1>3, <1>4, <1>5, <1>6, <1>7, <1>8, <1>9, <1>10, <1>11,
     <1>12, <1>13, <1>14, <1>15, <1>16, <1>17, <1>18, <1>19, <1>20, <1>21,
     <1>22, <1>23, <1>24, <1>25, <1>26, <1>27, <1>28, <1>29, <1>30
  DEF Next, Command, Step

\* The end of a command, its batch settled or never sent.
LEMMA EndDelivery ==
  ASSUME LocalTypes, DeliveryInv, NEW p \in Proc, NEW answer,
         Finish(p, answer) \/ Flushed(p), batch[p] = {},
         UNCHANGED <<files, received, unsettled>>
  PROVE  DeliveryInv'
BY DEF LocalTypes, DeliveryInv, Finish, Flushed, Goto

\* A command that starts has sent nothing.
LEMMA BeginDelivery ==
  ASSUME LocalTypes, DeliveryInv, NEW p \in Proc, NEW n, NEW step, Begin(p, n, step),
         step \notin {"read", "export", "remove"}, pc[p] = "idle"
  PROVE  DeliveryInv'
BY DEF LocalTypes, DeliveryInv, Begin, Goto, shared, history

\* The collector has a file twice in prospect only when its sender is in doubt.
LEMMA DeliveryStep ==
  ASSUME TypeOK, StoreInv, NameInv, LockInv, DeliveryInv, [Next]_vars
  PROVE  DeliveryInv'
<1> USE DEF TypeOK
<1>1. ASSUME NEW p \in Proc, Ingest(p) PROVE DeliveryInv'
  BY <1>1, BeginDelivery DEF Ingest
<1>2. ASSUME NEW p \in Proc, FlushCommand(p) PROVE DeliveryInv'
  BY <1>2, BeginDelivery DEF FlushCommand
<1>3. ASSUME NEW p \in Proc, SelftestCommand(p) PROVE DeliveryInv'
  BY <1>3, BeginDelivery DEF SelftestCommand
<1>4. ASSUME NEW p \in Proc, WriteTemp(p) PROVE DeliveryInv'
  BY <1>4 DEF WriteTemp, LocalTypes, DeliveryInv, Goto, shared
<1>5. ASSUME NEW p \in Proc, Rename(p) PROVE DeliveryInv'
  BY <1>5
  DEF Rename, LocalTypes, DeliveryInv, Goto, StoreInv, NameInv, AfterEnqueue
<1>6. ASSUME NEW p \in Proc, EnqueueFails(p) PROVE DeliveryInv'
  BY <1>6, EndDelivery
  DEF EnqueueFails, LocalTypes, DeliveryInv, Goto, AfterEnqueue, shared,
     history
<1>7. ASSUME NEW p \in Proc, ListExcess(p) PROVE DeliveryInv'
  BY <1>7 DEF ListExcess, LocalTypes, DeliveryInv, Goto, shared, history
<1>8. ASSUME NEW p \in Proc, Drop(p) PROVE DeliveryInv'
  BY <1>8 DEF Drop, LocalTypes, DeliveryInv, Goto
<1>9. ASSUME NEW p \in Proc, DropFails(p) PROVE DeliveryInv'
  BY <1>9 DEF DropFails, LocalTypes, DeliveryInv, Goto, shared
<1>10. ASSUME NEW p \in Proc, Decide(p) PROVE DeliveryInv'
  BY <1>10, EndDelivery
  DEF Decide, LocalTypes, DeliveryInv, Goto, shared, history
<1>11. ASSUME NEW p \in Proc, TouchFlushStamp(p) PROVE DeliveryInv'
  BY <1>11 DEF TouchFlushStamp, LocalTypes, DeliveryInv, Goto, history
<1>12. ASSUME NEW p \in Proc, FlushStart(p) PROVE DeliveryInv'
  BY <1>12, EndDelivery
  DEF FlushStart, LocalTypes, DeliveryInv, Goto, shared, history
<1>13. ASSUME NEW p \in Proc, TryLock(p) PROVE DeliveryInv'
  BY <1>13 DEF TryLock, LocalTypes, DeliveryInv, Goto, history
<1>14. ASSUME NEW p \in Proc, LockBusy(p) PROVE DeliveryInv'
  BY <1>14, EndDelivery
  DEF LockBusy, LocalTypes, DeliveryInv, Goto, shared, history
<1>15. ASSUME NEW p \in Proc, ListLocked(p) PROVE DeliveryInv'
  BY <1>15, EndDelivery DEF ListLocked, LocalTypes, DeliveryInv, Goto, history
<1>16. ASSUME NEW p \in Proc, ReadEvent(p) PROVE DeliveryInv'
  BY <1>16
  DEF ReadEvent, LocalTypes, DeliveryInv, Goto, LockInv, Delivering, shared,
     history
<1>17. ASSUME NEW p \in Proc, Export(p) PROVE DeliveryInv'
  BY <1>17
  DEF Export, LocalTypes, DeliveryInv, Goto, LockInv, Delivering, shared,
     Receive
<1>18. ASSUME NEW p \in Proc, DeliveryFails(p) PROVE DeliveryInv'
  BY <1>18
  DEF DeliveryFails, LocalTypes, DeliveryInv, Goto, Receive, MayHaveArrived,
     Finish
<1>19. ASSUME NEW p \in Proc, RemoveSent(p) PROVE DeliveryInv'
  BY <1>19 DEF RemoveSent, LocalTypes, DeliveryInv, Goto, shared, history
<1>20. ASSUME NEW p \in Proc, RemoveFails(p) PROVE DeliveryInv'
  BY <1>20 DEF RemoveFails, LocalTypes, DeliveryInv, Goto, shared, history
<1>21. ASSUME NEW p \in Proc, Settle(p) PROVE DeliveryInv'
  BY <1>21, EndDelivery DEF Settle, LocalTypes, DeliveryInv, Goto, history
<1>22. ASSUME NEW p \in Proc, ListProbes(p) PROVE DeliveryInv'
  BY <1>22, EndDelivery
  DEF ListProbes, LocalTypes, DeliveryInv, Goto, shared, history
<1>23. ASSUME NEW p \in Proc, CountProbe(p) PROVE DeliveryInv'
  BY <1>23, EndDelivery
  DEF CountProbe, LocalTypes, DeliveryInv, Goto, shared, history
<1>24. ASSUME NEW p \in Proc, Crash(p) PROVE DeliveryInv'
  BY <1>24
  DEF Crash, LocalTypes, DeliveryInv, Goto, Receive, MayHaveArrived, Finish
<1>25. ASSUME Tick PROVE DeliveryInv'
  BY <1>25 DEF Tick, locals, history, DeliveryInv
<1>26. ASSUME Configure PROVE DeliveryInv'
  BY <1>26 DEF Configure, locals, history, DeliveryInv
<1>27. ASSUME UNCHANGED vars PROVE DeliveryInv'
  BY <1>27 DEF vars, shared, locals, history, DeliveryInv
<1>28. ASSUME NEW p \in Proc, ListFails(p) PROVE DeliveryInv'
  BY <1>28, EndDelivery DEF ListFails, LocalTypes, DeliveryInv, Goto
<1>29. ASSUME NEW p \in Proc, ProbesUnlisted(p) PROVE DeliveryInv'
  BY <1>29, EndDelivery DEF ProbesUnlisted, DeliveryInv, shared
<1>30. ASSUME NEW p \in Proc, ProbeUnread(p) PROVE DeliveryInv'
  BY <1>30, EndDelivery DEF ProbeUnread, LocalTypes, DeliveryInv, Goto, shared
<1> QED
  BY <1>1, <1>2, <1>3, <1>4, <1>5, <1>6, <1>7, <1>8, <1>9, <1>10, <1>11,
     <1>12, <1>13, <1>14, <1>15, <1>16, <1>17, <1>18, <1>19, <1>20, <1>21,
     <1>22, <1>23, <1>24, <1>25, <1>26, <1>27, <1>28, <1>29, <1>30
  DEF Next, Command, Step

\* A repeated delivery has a sender in doubt.
LEMMA RepeatStep ==
  ASSUME TypeOK, DeliveryInv, RepeatOnlyIfUnsettled, [Next]_vars
  PROVE  RepeatOnlyIfUnsettled'
<1> USE DEF TypeOK
<1>1. ASSUME NEW p \in Proc, Ingest(p) PROVE RepeatOnlyIfUnsettled'
  BY <1>1 DEF Ingest, Begin, RepeatOnlyIfUnsettled, history
<1>2. ASSUME NEW p \in Proc, FlushCommand(p) PROVE RepeatOnlyIfUnsettled'
  BY <1>2 DEF FlushCommand, Begin, RepeatOnlyIfUnsettled, history
<1>3. ASSUME NEW p \in Proc, SelftestCommand(p) PROVE RepeatOnlyIfUnsettled'
  BY <1>3 DEF SelftestCommand, Begin, RepeatOnlyIfUnsettled, history
<1>4. ASSUME NEW p \in Proc, WriteTemp(p) PROVE RepeatOnlyIfUnsettled'
  BY <1>4 DEF WriteTemp, RepeatOnlyIfUnsettled
<1>5. ASSUME NEW p \in Proc, Rename(p) PROVE RepeatOnlyIfUnsettled'
  BY <1>5 DEF Rename, RepeatOnlyIfUnsettled
<1>6. ASSUME NEW p \in Proc, EnqueueFails(p) PROVE RepeatOnlyIfUnsettled'
  BY <1>6 DEF EnqueueFails, RepeatOnlyIfUnsettled, history
<1>7. ASSUME NEW p \in Proc, ListExcess(p) PROVE RepeatOnlyIfUnsettled'
  BY <1>7 DEF ListExcess, RepeatOnlyIfUnsettled, history
<1>8. ASSUME NEW p \in Proc, Drop(p) PROVE RepeatOnlyIfUnsettled'
  BY <1>8 DEF Drop, RepeatOnlyIfUnsettled
<1>9. ASSUME NEW p \in Proc, DropFails(p) PROVE RepeatOnlyIfUnsettled'
  BY <1>9 DEF DropFails, RepeatOnlyIfUnsettled
<1>10. ASSUME NEW p \in Proc, Decide(p) PROVE RepeatOnlyIfUnsettled'
  BY <1>10 DEF Decide, RepeatOnlyIfUnsettled, history
<1>11. ASSUME NEW p \in Proc, TouchFlushStamp(p) PROVE RepeatOnlyIfUnsettled'
  BY <1>11 DEF TouchFlushStamp, RepeatOnlyIfUnsettled, history
<1>12. ASSUME NEW p \in Proc, FlushStart(p) PROVE RepeatOnlyIfUnsettled'
  BY <1>12 DEF FlushStart, RepeatOnlyIfUnsettled, history
<1>13. ASSUME NEW p \in Proc, TryLock(p) PROVE RepeatOnlyIfUnsettled'
  BY <1>13 DEF TryLock, RepeatOnlyIfUnsettled, history
<1>14. ASSUME NEW p \in Proc, LockBusy(p) PROVE RepeatOnlyIfUnsettled'
  BY <1>14 DEF LockBusy, RepeatOnlyIfUnsettled, history
<1>15. ASSUME NEW p \in Proc, ListLocked(p) PROVE RepeatOnlyIfUnsettled'
  BY <1>15 DEF ListLocked, RepeatOnlyIfUnsettled, history
<1>16. ASSUME NEW p \in Proc, ReadEvent(p) PROVE RepeatOnlyIfUnsettled'
  BY <1>16 DEF ReadEvent, RepeatOnlyIfUnsettled, history
<1>17. ASSUME NEW p \in Proc, Export(p) PROVE RepeatOnlyIfUnsettled'
  BY <1>17 DEF Export, RepeatOnlyIfUnsettled, DeliveryInv, Receive
<1>18. ASSUME NEW p \in Proc, DeliveryFails(p) PROVE RepeatOnlyIfUnsettled'
  BY <1>18
  DEF DeliveryFails, RepeatOnlyIfUnsettled, DeliveryInv, Receive,
     MayHaveArrived
<1>19. ASSUME NEW p \in Proc, RemoveSent(p) PROVE RepeatOnlyIfUnsettled'
  BY <1>19 DEF RemoveSent, RepeatOnlyIfUnsettled, history
<1>20. ASSUME NEW p \in Proc, RemoveFails(p) PROVE RepeatOnlyIfUnsettled'
  BY <1>20 DEF RemoveFails, RepeatOnlyIfUnsettled
<1>21. ASSUME NEW p \in Proc, Settle(p) PROVE RepeatOnlyIfUnsettled'
  BY <1>21 DEF Settle, RepeatOnlyIfUnsettled, history
<1>22. ASSUME NEW p \in Proc, ListProbes(p) PROVE RepeatOnlyIfUnsettled'
  BY <1>22 DEF ListProbes, RepeatOnlyIfUnsettled, history
<1>23. ASSUME NEW p \in Proc, CountProbe(p) PROVE RepeatOnlyIfUnsettled'
  BY <1>23 DEF CountProbe, RepeatOnlyIfUnsettled, history
<1>24. ASSUME NEW p \in Proc, Crash(p) PROVE RepeatOnlyIfUnsettled'
  BY <1>24
  DEF Crash, RepeatOnlyIfUnsettled, DeliveryInv, Receive, MayHaveArrived
<1>25. ASSUME Tick PROVE RepeatOnlyIfUnsettled'
  BY <1>25 DEF Tick, history, RepeatOnlyIfUnsettled
<1>26. ASSUME Configure PROVE RepeatOnlyIfUnsettled'
  BY <1>26 DEF Configure, history, RepeatOnlyIfUnsettled
<1>27. ASSUME UNCHANGED vars PROVE RepeatOnlyIfUnsettled'
  BY <1>27 DEF vars, shared, history, RepeatOnlyIfUnsettled
<1>28. ASSUME NEW p \in Proc, ListFails(p) PROVE RepeatOnlyIfUnsettled'
  BY <1>28 DEF ListFails, RepeatOnlyIfUnsettled
<1>29. ASSUME NEW p \in Proc, ProbesUnlisted(p) PROVE RepeatOnlyIfUnsettled'
  BY <1>29 DEF ProbesUnlisted, RepeatOnlyIfUnsettled
<1>30. ASSUME NEW p \in Proc, ProbeUnread(p) PROVE RepeatOnlyIfUnsettled'
  BY <1>30 DEF ProbeUnread, RepeatOnlyIfUnsettled
<1> QED
  BY <1>1, <1>2, <1>3, <1>4, <1>5, <1>6, <1>7, <1>8, <1>9, <1>10, <1>11,
     <1>12, <1>13, <1>14, <1>15, <1>16, <1>17, <1>18, <1>19, <1>20, <1>21,
     <1>22, <1>23, <1>24, <1>25, <1>26, <1>27, <1>28, <1>29, <1>30
  DEF Next, Command, Step

-----------------------------------------------------------------------------
(* What a flush and a selftest report *)

\* The end of a command closes its account.
LEMMA EndAccount ==
  ASSUME LocalTypes, AccountInv, NEW p \in Proc, NEW answer,
         Finish(p, answer) \/ (Flushed(p) /\ p \notin Flushers),
         files' \subseteq files, received \subseteq received'
  PROVE  AccountInv'
BY DEF LocalTypes, AccountInv, Finish, Flushed, Goto, Proc

\* A command starts with an empty account.
LEMMA BeginAccount ==
  ASSUME LocalTypes, AccountInv, NEW p \in Proc, NEW n, NEW step, Begin(p, n, step),
         step \notin {"read", "export", "remove"}
  PROVE  AccountInv'
BY DEF LocalTypes, AccountInv, Begin, Goto, Proc, shared, history

\* A flush keeps account of every file of its listing.
LEMMA AccountStep ==
  ASSUME TypeOK, CommandInv, StoreInv, NameInv, AccountInv, [Next]_vars
  PROVE  AccountInv'
<1> USE DEF TypeOK
<1>1. ASSUME NEW p \in Proc, Ingest(p) PROVE AccountInv'
  BY <1>1, BeginAccount DEF Ingest
<1>2. ASSUME NEW p \in Proc, FlushCommand(p) PROVE AccountInv'
  BY <1>2, BeginAccount DEF FlushCommand
<1>3. ASSUME NEW p \in Proc, SelftestCommand(p) PROVE AccountInv'
  BY <1>3, BeginAccount DEF SelftestCommand
<1>4. ASSUME NEW p \in Proc, WriteTemp(p) PROVE AccountInv'
  BY <1>4 DEF WriteTemp, LocalTypes, AccountInv, Goto, shared, Proc
<1>5. ASSUME NEW p \in Proc, Rename(p) PROVE AccountInv'
  BY <1>5, ProcAssumption
  DEF Rename, LocalTypes, AccountInv, Goto, NameInv, CommandInv, Delivering,
     AfterEnqueue, Proc
<1>6. ASSUME NEW p \in Proc, EnqueueFails(p) PROVE AccountInv'
  BY <1>6, EndAccount
  DEF EnqueueFails, LocalTypes, AccountInv, Goto, CommandInv, Delivering,
     AfterEnqueue, shared, history, Proc
<1>7. ASSUME NEW p \in Proc, ListExcess(p) PROVE AccountInv'
  BY <1>7 DEF ListExcess, LocalTypes, AccountInv, Goto, shared, history, Proc
<1>8. ASSUME NEW p \in Proc, Drop(p) PROVE AccountInv'
  BY <1>8 DEF Drop, LocalTypes, AccountInv, Goto, Proc
<1>9. ASSUME NEW p \in Proc, DropFails(p) PROVE AccountInv'
  BY <1>9 DEF DropFails, LocalTypes, AccountInv, Goto, shared, Proc
<1>10. ASSUME NEW p \in Proc, Decide(p) PROVE AccountInv'
  BY <1>10, EndAccount
  DEF Decide, LocalTypes, AccountInv, Goto, shared, history, Proc
<1>11. ASSUME NEW p \in Proc, TouchFlushStamp(p) PROVE AccountInv'
  BY <1>11
  DEF TouchFlushStamp, LocalTypes, AccountInv, Goto, CommandInv, Delivering,
     history, Proc
<1>12. ASSUME NEW p \in Proc, FlushStart(p) PROVE AccountInv'
  BY <1>12, EndAccount
  DEF FlushStart, LocalTypes, AccountInv, Goto, CommandInv, Delivering,
     shared, history, Proc
<1>13. ASSUME NEW p \in Proc, TryLock(p) PROVE AccountInv'
  BY <1>13
  DEF TryLock, LocalTypes, AccountInv, Goto, CommandInv, Delivering, history,
     Proc
<1>14. ASSUME NEW p \in Proc, LockBusy(p) PROVE AccountInv'
  BY <1>14, EndAccount, ProcAssumption
  DEF LockBusy, Strict, Flushed, shared, history
<1>15. ASSUME NEW p \in Proc, ListLocked(p) PROVE AccountInv'
  BY <1>15, EndAccount, ProcAssumption
  DEF ListLocked, LocalTypes, AccountInv, Goto, Strict, Flushed, history,
     Proc
<1>16. ASSUME NEW p \in Proc, ReadEvent(p) PROVE AccountInv'
  BY <1>16
  DEF ReadEvent, LocalTypes, AccountInv, Goto, Strict, shared, history, Proc
<1>17. ASSUME NEW p \in Proc, Export(p) PROVE AccountInv'
  BY <1>17 DEF Export, LocalTypes, AccountInv, Goto, shared, Receive, Proc
<1>18. ASSUME NEW p \in Proc, DeliveryFails(p) PROVE AccountInv'
  BY <1>18, EndAccount DEF DeliveryFails, Receive
<1>19. ASSUME NEW p \in Proc, RemoveSent(p) PROVE AccountInv'
  BY <1>19
  DEF RemoveSent, LocalTypes, AccountInv, Goto, Strict, shared, history, Proc
<1>20. ASSUME NEW p \in Proc, RemoveFails(p) PROVE AccountInv'
  BY <1>20
  DEF RemoveFails, LocalTypes, AccountInv, Goto, Strict, shared, history,
     Proc
<1>21. ASSUME NEW p \in Proc, Settle(p) PROVE AccountInv'
  BY <1>21, EndAccount, ProcAssumption DEF Settle, Flushed, history
<1>22. ASSUME NEW p \in Proc, ListProbes(p) PROVE AccountInv'
  BY <1>22, EndAccount
  DEF ListProbes, LocalTypes, AccountInv, Goto, shared, history, Proc
<1>23. ASSUME NEW p \in Proc, CountProbe(p) PROVE AccountInv'
  BY <1>23, EndAccount
  DEF CountProbe, LocalTypes, AccountInv, Goto, shared, history, Proc
<1>24. ASSUME NEW p \in Proc, Crash(p) PROVE AccountInv'
  BY <1>24, EndAccount DEF Crash, Receive
<1>25. ASSUME Tick PROVE AccountInv'
  BY <1>25 DEF Tick, locals, history, AccountInv
<1>26. ASSUME Configure PROVE AccountInv'
  BY <1>26 DEF Configure, locals, history, AccountInv
<1>27. ASSUME UNCHANGED vars PROVE AccountInv'
  BY <1>27 DEF vars, shared, locals, history, AccountInv
<1>28. ASSUME NEW p \in Proc, ListFails(p) PROVE AccountInv'
  BY <1>28, EndAccount DEF ListFails, LocalTypes, AccountInv, Goto, Proc
<1>29. ASSUME NEW p \in Proc, ProbesUnlisted(p) PROVE AccountInv'
  BY <1>29, EndAccount DEF ProbesUnlisted, shared
<1>30. ASSUME NEW p \in Proc, ProbeUnread(p) PROVE AccountInv'
  BY <1>30, EndAccount DEF ProbeUnread, LocalTypes, AccountInv, Goto, shared, Proc
<1> QED
  BY <1>1, <1>2, <1>3, <1>4, <1>5, <1>6, <1>7, <1>8, <1>9, <1>10, <1>11,
     <1>12, <1>13, <1>14, <1>15, <1>16, <1>17, <1>18, <1>19, <1>20, <1>21,
     <1>22, <1>23, <1>24, <1>25, <1>26, <1>27, <1>28, <1>29, <1>30
  DEF Next, Command, Step

\* An answer given for a listing that was delivered and removed is honest.
LEMMA EndHonest ==
  ASSUME LocalTypes, FlushHonest, NEW p \in Proc, NEW answer,
         Finish(p, answer) \/ (Flushed(p) /\ p \notin Flushers),
         p \in Flushers /\ answer = "ok" => promised[p] \subseteq received /\ promised[p] \cap files = {},
         files' \subseteq files, received \subseteq received'
  PROVE  FlushHonest'
BY ProcAssumption DEF LocalTypes, FlushHonest, Finish, Flushed, Goto, Proc

\* A command that starts has not answered yet.
LEMMA BeginHonest ==
  ASSUME LocalTypes, FlushHonest, NEW p \in Proc, NEW n, NEW step, Begin(p, n, step)
  PROVE  FlushHonest'
BY DEF LocalTypes, FlushHonest, Begin, Proc, shared, history

\* An answer, once true, stays true: no name comes back.
LEMMA HonestStep ==
  ASSUME TypeOK, CommandInv, StoreInv, NameInv, AccountInv, FlushHonest, [Next]_vars
  PROVE  FlushHonest'
<1> USE DEF TypeOK
<1>1. ASSUME NEW p \in Proc, Ingest(p) PROVE FlushHonest'
  BY <1>1, BeginHonest DEF Ingest
<1>2. ASSUME NEW p \in Proc, FlushCommand(p) PROVE FlushHonest'
  BY <1>2, BeginHonest DEF FlushCommand
<1>3. ASSUME NEW p \in Proc, SelftestCommand(p) PROVE FlushHonest'
  BY <1>3, BeginHonest DEF SelftestCommand
<1>4. ASSUME NEW p \in Proc, WriteTemp(p) PROVE FlushHonest'
  BY <1>4 DEF WriteTemp, FlushHonest, shared
<1>5. ASSUME NEW p \in Proc, Rename(p) PROVE FlushHonest'
  BY <1>5, ProcAssumption DEF Rename, FlushHonest, LocalTypes, NameInv, Proc
<1>6. ASSUME NEW p \in Proc, EnqueueFails(p) PROVE FlushHonest'
  BY <1>6, EndHonest DEF EnqueueFails, FlushHonest, shared, history
<1>7. ASSUME NEW p \in Proc, ListExcess(p) PROVE FlushHonest'
  BY <1>7 DEF ListExcess, FlushHonest, shared, history
<1>8. ASSUME NEW p \in Proc, Drop(p) PROVE FlushHonest'
  BY <1>8 DEF Drop, FlushHonest
<1>9. ASSUME NEW p \in Proc, DropFails(p) PROVE FlushHonest'
  BY <1>9 DEF DropFails, FlushHonest, shared
<1>10. ASSUME NEW p \in Proc, Decide(p) PROVE FlushHonest'
  BY <1>10, EndHonest DEF Decide, FlushHonest, shared, history
<1>11. ASSUME NEW p \in Proc, TouchFlushStamp(p) PROVE FlushHonest'
  BY <1>11 DEF TouchFlushStamp, FlushHonest, history
<1>12. ASSUME NEW p \in Proc, FlushStart(p) PROVE FlushHonest'
  BY <1>12, EndHonest
  DEF FlushStart, FlushHonest, CommandInv, Delivering, shared, history
<1>13. ASSUME NEW p \in Proc, TryLock(p) PROVE FlushHonest'
  BY <1>13 DEF TryLock, FlushHonest, history
<1>14. ASSUME NEW p \in Proc, LockBusy(p) PROVE FlushHonest'
  BY <1>14, EndHonest DEF LockBusy, Strict, shared, history
<1>15. ASSUME NEW p \in Proc, ListLocked(p) PROVE FlushHonest'
  <2>1. CASE files = {} /\ Flushed(p)
    <3>1. p \in Flushers => promised[p] = {}
      BY <1>15 DEF ListLocked, AccountInv
    <3>2. p \in Flushers => Finish(p, "ok")
      BY <2>1, ProcAssumption DEF Flushed
    <3>3. UNCHANGED <<files, received>>
      BY <1>15 DEF ListLocked, history
    <3> QED BY <2>1, <3>1, <3>2, <3>3, EndHonest
  <2>2. CASE Finish(p, "error")
    BY <1>15, <2>2, EndHonest DEF ListLocked, history
  <2>3. CASE ~(files = {} /\ Flushed(p)) /\ ~Finish(p, "error")
    BY <1>15, <2>3 DEF ListLocked, FlushHonest, LocalTypes, CommandInv, Proc, history
  <2> QED BY <2>1, <2>2, <2>3
<1>16. ASSUME NEW p \in Proc, ReadEvent(p) PROVE FlushHonest'
  BY <1>16 DEF ReadEvent, FlushHonest, shared, history
<1>17. ASSUME NEW p \in Proc, Export(p) PROVE FlushHonest'
  BY <1>17 DEF Export, FlushHonest, shared, Receive
<1>18. ASSUME NEW p \in Proc, DeliveryFails(p) PROVE FlushHonest'
  BY <1>18, EndHonest DEF DeliveryFails, Receive
<1>19. ASSUME NEW p \in Proc, RemoveSent(p) PROVE FlushHonest'
  BY <1>19 DEF RemoveSent, FlushHonest, history
<1>20. ASSUME NEW p \in Proc, RemoveFails(p) PROVE FlushHonest'
  BY <1>20 DEF RemoveFails, FlushHonest, shared
<1>21. ASSUME NEW p \in Proc, Settle(p) PROVE FlushHonest'
  <2>1. CASE retained[p]
    BY <1>21, <2>1, EndHonest DEF Settle, history
  <2>2. CASE ~retained[p]
    <3>1. p \in Flushers => promised[p] \subseteq received /\ promised[p] \cap files = {}
      BY <1>21, <2>2 DEF Settle, AccountInv
    <3>2. Flushed(p) /\ (p \in Flushers => Finish(p, "ok"))
      BY <1>21, <2>2, ProcAssumption DEF Settle, Flushed
    <3>3. UNCHANGED <<files, received>>
      BY <1>21 DEF Settle, history
    <3> QED BY <3>1, <3>2, <3>3, EndHonest
  <2> QED BY <2>1, <2>2
<1>22. ASSUME NEW p \in Proc, ListProbes(p) PROVE FlushHonest'
  BY <1>22, EndHonest
  DEF ListProbes, FlushHonest, CommandInv, Delivering, shared, history
<1>23. ASSUME NEW p \in Proc, CountProbe(p) PROVE FlushHonest'
  BY <1>23, EndHonest
  DEF CountProbe, FlushHonest, CommandInv, Delivering, shared, history
<1>24. ASSUME NEW p \in Proc, Crash(p) PROVE FlushHonest'
  BY <1>24, EndHonest DEF Crash, Receive
<1>25. ASSUME Tick PROVE FlushHonest'
  BY <1>25 DEF Tick, shared, locals, history, FlushHonest
<1>26. ASSUME Configure PROVE FlushHonest'
  BY <1>26 DEF Configure, shared, locals, history, FlushHonest
<1>27. ASSUME UNCHANGED vars PROVE FlushHonest'
  BY <1>27 DEF vars, shared, locals, history, FlushHonest
<1>28. ASSUME NEW p \in Proc, ListFails(p) PROVE FlushHonest'
  BY <1>28, EndHonest DEF ListFails, FlushHonest
<1>29. ASSUME NEW p \in Proc, ProbesUnlisted(p) PROVE FlushHonest'
  BY <1>29, EndHonest DEF ProbesUnlisted, CommandInv, Delivering, shared
<1>30. ASSUME NEW p \in Proc, ProbeUnread(p) PROVE FlushHonest'
  BY <1>30, EndHonest DEF ProbeUnread, FlushHonest, CommandInv, Delivering, shared
<1> QED
  BY <1>1, <1>2, <1>3, <1>4, <1>5, <1>6, <1>7, <1>8, <1>9, <1>10, <1>11,
     <1>12, <1>13, <1>14, <1>15, <1>16, <1>17, <1>18, <1>19, <1>20, <1>21,
     <1>22, <1>23, <1>24, <1>25, <1>26, <1>27, <1>28, <1>29, <1>30
  DEF Next, Command, Step

\* A command that ends, or a selftest that goes on to count, keeps its probe.
LEMMA EndProbe ==
  ASSUME LocalTypes, ProbeInv, NEW p \in Proc, NEW answer,
         Finish(p, answer) \/ (Flushed(p) /\ pc[p] \notin {"idle", "enqueue", "rename"}),
         files' \subseteq files, UNCHANGED probes, unseen \subseteq unseen'
  PROVE  ProbeInv'
BY DEF LocalTypes, ProbeInv, Finish, Flushed, Goto, Proc

\* A selftest starts with its probe still to enqueue.
LEMMA BeginProbe ==
  ASSUME LocalTypes, ProbeInv, NEW p \in Proc, NEW n, NEW step, Begin(p, n, step),
         p \in Testers => step = "enqueue"
  PROVE  ProbeInv'
BY DEF LocalTypes, ProbeInv, Begin, Goto, Proc, shared, history

\* A selftest does not lose sight of its probe.
LEMMA ProbeStep ==
  ASSUME TypeOK, NameInv, ProbeInv, [Next]_vars
  PROVE  ProbeInv'
<1> USE DEF TypeOK
<1>1. ASSUME NEW p \in Proc, Ingest(p) PROVE ProbeInv'
  BY <1>1, BeginProbe, ProcAssumption DEF Ingest
<1>2. ASSUME NEW p \in Proc, FlushCommand(p) PROVE ProbeInv'
  BY <1>2, BeginProbe, ProcAssumption DEF FlushCommand
<1>3. ASSUME NEW p \in Proc, SelftestCommand(p) PROVE ProbeInv'
  BY <1>3, BeginProbe, ProcAssumption DEF SelftestCommand
<1>4. ASSUME NEW p \in Proc, WriteTemp(p) PROVE ProbeInv'
  BY <1>4 DEF WriteTemp, LocalTypes, ProbeInv, Goto, Proc, shared
<1>5. ASSUME NEW p \in Proc, Rename(p) PROVE ProbeInv'
  BY <1>5 DEF Rename, LocalTypes, ProbeInv, Goto, Proc, NameInv, AfterEnqueue
<1>6. ASSUME NEW p \in Proc, EnqueueFails(p) PROVE ProbeInv'
  BY <1>6, EndProbe
  DEF EnqueueFails, LocalTypes, ProbeInv, Goto, Proc, AfterEnqueue, shared,
     history
<1>7. ASSUME NEW p \in Proc, ListExcess(p) PROVE ProbeInv'
  BY <1>7 DEF ListExcess, LocalTypes, ProbeInv, Goto, Proc, shared, history
<1>8. ASSUME NEW p \in Proc, Drop(p) PROVE ProbeInv'
  BY <1>8 DEF Drop, LocalTypes, ProbeInv, Goto, Proc
<1>9. ASSUME NEW p \in Proc, DropFails(p) PROVE ProbeInv'
  BY <1>9 DEF DropFails, LocalTypes, ProbeInv, Goto, Proc, shared
<1>10. ASSUME NEW p \in Proc, Decide(p) PROVE ProbeInv'
  BY <1>10, EndProbe
  DEF Decide, LocalTypes, ProbeInv, Goto, Proc, shared, history
<1>11. ASSUME NEW p \in Proc, TouchFlushStamp(p) PROVE ProbeInv'
  BY <1>11 DEF TouchFlushStamp, LocalTypes, ProbeInv, Goto, Proc, history
<1>12. ASSUME NEW p \in Proc, FlushStart(p) PROVE ProbeInv'
  BY <1>12, EndProbe
  DEF FlushStart, LocalTypes, ProbeInv, Goto, Proc, shared, history
<1>13. ASSUME NEW p \in Proc, TryLock(p) PROVE ProbeInv'
  BY <1>13 DEF TryLock, LocalTypes, ProbeInv, Goto, Proc, history
<1>14. ASSUME NEW p \in Proc, LockBusy(p) PROVE ProbeInv'
  BY <1>14, EndProbe
  DEF LockBusy, LocalTypes, ProbeInv, Goto, Proc, shared, history
<1>15. ASSUME NEW p \in Proc, ListLocked(p) PROVE ProbeInv'
  BY <1>15, EndProbe, ProcAssumption
  DEF ListLocked, LocalTypes, ProbeInv, Goto, Proc, Strict, history
<1>16. ASSUME NEW p \in Proc, ReadEvent(p) PROVE ProbeInv'
  BY <1>16 DEF ReadEvent, LocalTypes, ProbeInv, Goto, Proc, shared, history
<1>17. ASSUME NEW p \in Proc, Export(p) PROVE ProbeInv'
  BY <1>17 DEF Export, LocalTypes, ProbeInv, Goto, Proc, shared
<1>18. ASSUME NEW p \in Proc, DeliveryFails(p) PROVE ProbeInv'
  BY <1>18, EndProbe DEF DeliveryFails
<1>19. ASSUME NEW p \in Proc, RemoveSent(p) PROVE ProbeInv'
  BY <1>19 DEF RemoveSent, LocalTypes, ProbeInv, Goto, Proc, history
<1>20. ASSUME NEW p \in Proc, RemoveFails(p) PROVE ProbeInv'
  BY <1>20 DEF RemoveFails, LocalTypes, ProbeInv, Goto, Proc, shared
<1>21. ASSUME NEW p \in Proc, Settle(p) PROVE ProbeInv'
  BY <1>21, EndProbe DEF Settle, history
<1>22. ASSUME NEW p \in Proc, ListProbes(p) PROVE ProbeInv'
  BY <1>22, EndProbe
  DEF ListProbes, LocalTypes, ProbeInv, Goto, Proc, shared, history
<1>23. ASSUME NEW p \in Proc, CountProbe(p) PROVE ProbeInv'
  BY <1>23, EndProbe
  DEF CountProbe, LocalTypes, ProbeInv, Goto, Proc, shared, history
<1>24. ASSUME NEW p \in Proc, Crash(p) PROVE ProbeInv'
  BY <1>24, EndProbe DEF Crash
<1>25. ASSUME Tick PROVE ProbeInv'
  BY <1>25 DEF Tick, shared, locals, history, ProbeInv
<1>26. ASSUME Configure PROVE ProbeInv'
  BY <1>26 DEF Configure, shared, locals, history, ProbeInv
<1>27. ASSUME UNCHANGED vars PROVE ProbeInv'
  BY <1>27 DEF vars, shared, locals, history, ProbeInv
<1>28. ASSUME NEW p \in Proc, ListFails(p) PROVE ProbeInv'
  BY <1>28, EndProbe DEF ListFails, LocalTypes, ProbeInv, Goto, Proc
<1>29. ASSUME NEW p \in Proc, ProbesUnlisted(p) PROVE ProbeInv'
  BY <1>29, EndProbe DEF ProbesUnlisted, shared
<1>30. ASSUME NEW p \in Proc, ProbeUnread(p) PROVE ProbeInv'
  BY <1>30, EndProbe DEF ProbeUnread, LocalTypes, ProbeInv, Goto, Proc, shared
<1> QED
  BY <1>1, <1>2, <1>3, <1>4, <1>5, <1>6, <1>7, <1>8, <1>9, <1>10, <1>11,
     <1>12, <1>13, <1>14, <1>15, <1>16, <1>17, <1>18, <1>19, <1>20, <1>21,
     <1>22, <1>23, <1>24, <1>25, <1>26, <1>27, <1>28, <1>29, <1>30
  DEF Next, Command, Step

\* An ok given for a probe that has gone, or that was not looked at, is right.
LEMMA EndLeft ==
  ASSUME LocalTypes, SelftestLeft, NEW p \in Proc, NEW answer,
         Finish(p, answer) \/ Flushed(p),
         p \in Testers /\ answer = "ok" =>
           promised[p] # {} /\ \A n \in promised[p] :
             n \in (received \cup dropped) \ files \/ <<p, n>> \in unseen',
         files' \subseteq files, received \subseteq received', dropped \subseteq dropped',
         unseen \subseteq unseen'
  PROVE  SelftestLeft'
BY DEF LocalTypes, SelftestLeft, Finish, Flushed, Goto, Proc

\* A command that starts has not answered yet.
LEMMA BeginLeft ==
  ASSUME LocalTypes, SelftestLeft, NEW p \in Proc, NEW n, NEW step, Begin(p, n, step)
  PROVE  SelftestLeft'
BY DEF LocalTypes, SelftestLeft, Begin, Proc, shared, history

\* A selftest says ok only of a probe that is gone or that it failed to look at.
LEMMA LeftStep ==
  ASSUME TypeOK, CommandInv, NameInv, ProbeInv, NoLoss, SelftestLeft, [Next]_vars
  PROVE  SelftestLeft'
<1> USE DEF TypeOK
<1>1. ASSUME NEW p \in Proc, Ingest(p) PROVE SelftestLeft'
  BY <1>1, BeginLeft DEF Ingest
<1>2. ASSUME NEW p \in Proc, FlushCommand(p) PROVE SelftestLeft'
  BY <1>2, BeginLeft DEF FlushCommand
<1>3. ASSUME NEW p \in Proc, SelftestCommand(p) PROVE SelftestLeft'
  BY <1>3, BeginLeft DEF SelftestCommand
<1>4. ASSUME NEW p \in Proc, WriteTemp(p) PROVE SelftestLeft'
  BY <1>4 DEF WriteTemp, SelftestLeft, shared
<1>5. ASSUME NEW p \in Proc, Rename(p) PROVE SelftestLeft'
  BY <1>5 DEF Rename, SelftestLeft, CommandInv, LocalTypes, NameInv, Proc
<1>6. ASSUME NEW p \in Proc, EnqueueFails(p) PROVE SelftestLeft'
  BY <1>6, EndLeft DEF EnqueueFails, SelftestLeft, shared, history
<1>7. ASSUME NEW p \in Proc, ListExcess(p) PROVE SelftestLeft'
  BY <1>7 DEF ListExcess, SelftestLeft, shared, history
<1>8. ASSUME NEW p \in Proc, Drop(p) PROVE SelftestLeft'
  BY <1>8 DEF Drop, SelftestLeft
<1>9. ASSUME NEW p \in Proc, DropFails(p) PROVE SelftestLeft'
  BY <1>9 DEF DropFails, SelftestLeft, shared
<1>10. ASSUME NEW p \in Proc, Decide(p) PROVE SelftestLeft'
  BY <1>10, EndLeft DEF Decide, SelftestLeft, shared, history
<1>11. ASSUME NEW p \in Proc, TouchFlushStamp(p) PROVE SelftestLeft'
  BY <1>11 DEF TouchFlushStamp, SelftestLeft, history
<1>12. ASSUME NEW p \in Proc, FlushStart(p) PROVE SelftestLeft'
  BY <1>12, EndLeft DEF FlushStart, SelftestLeft, shared, history
<1>13. ASSUME NEW p \in Proc, TryLock(p) PROVE SelftestLeft'
  BY <1>13 DEF TryLock, SelftestLeft, history
<1>14. ASSUME NEW p \in Proc, LockBusy(p) PROVE SelftestLeft'
  BY <1>14, EndLeft DEF LockBusy, SelftestLeft, shared, history
<1>15. ASSUME NEW p \in Proc, ListLocked(p) PROVE SelftestLeft'
  <2>1. CASE Flushed(p) \/ Finish(p, "error")
    BY <1>15, <2>1, EndLeft DEF ListLocked, history
  <2>2. CASE ~(Flushed(p) \/ Finish(p, "error"))
    BY <1>15, <2>2, ProcAssumption DEF ListLocked, SelftestLeft, LocalTypes, Strict, Proc, history
  <2> QED BY <2>1, <2>2
<1>16. ASSUME NEW p \in Proc, ReadEvent(p) PROVE SelftestLeft'
  BY <1>16 DEF ReadEvent, SelftestLeft, shared, history
<1>17. ASSUME NEW p \in Proc, Export(p) PROVE SelftestLeft'
  BY <1>17 DEF Export, SelftestLeft, Receive, shared
<1>18. ASSUME NEW p \in Proc, DeliveryFails(p) PROVE SelftestLeft'
  BY <1>18, EndLeft DEF DeliveryFails, Receive
<1>19. ASSUME NEW p \in Proc, RemoveSent(p) PROVE SelftestLeft'
  BY <1>19 DEF RemoveSent, SelftestLeft, history
<1>20. ASSUME NEW p \in Proc, RemoveFails(p) PROVE SelftestLeft'
  BY <1>20 DEF RemoveFails, SelftestLeft, shared
<1>21. ASSUME NEW p \in Proc, Settle(p) PROVE SelftestLeft'
  BY <1>21, EndLeft DEF Settle, history
<1>22. ASSUME NEW p \in Proc, ListProbes(p) PROVE SelftestLeft'
  <2>1. CASE files = {}
    <3>1. p \in Testers => promised[p] # {} /\ promised[p] \subseteq (received \cup dropped) \ files
      BY <1>22, <2>1 DEF ListProbes, ProbeInv, NameInv, NoLoss
    <3> QED BY <1>22, <2>1, <3>1, EndLeft DEF ListProbes, shared, history
  <2>2. CASE files # {}
    BY <1>22, <2>2 DEF ListProbes, SelftestLeft, shared, history
  <2> QED BY <2>1, <2>2
<1>23. ASSUME NEW p \in Proc, CountProbe(p) PROVE SelftestLeft'
  <2>1. CASE Finish(p, "undelivered")
    BY <1>23, <2>1, EndLeft DEF CountProbe, shared, history
  <2>2. CASE Finish(p, "ok") /\ Oldest(listed[p]) \notin files \cap probes
                               /\ listed[p] = {Oldest(listed[p])}
    <3>1. p \in Testers => promised[p] # {} /\ \A n \in promised[p] :
            n \in (received \cup dropped) \ files \/ <<p, n>> \in unseen
      BY <1>23, <2>2 DEF CountProbe, ProbeInv, NameInv, NoLoss
    <3> QED BY <1>23, <2>2, <3>1, EndLeft DEF CountProbe, shared, history
  <2>3. CASE UNCHANGED <<result, promised>>
    BY <1>23, <2>3 DEF CountProbe, SelftestLeft, shared, history
  <2> QED BY <1>23, <2>1, <2>2, <2>3 DEF CountProbe
<1>24. ASSUME NEW p \in Proc, Crash(p) PROVE SelftestLeft'
  BY <1>24, EndLeft DEF Crash, Receive
<1>25. ASSUME Tick PROVE SelftestLeft'
  BY <1>25 DEF Tick, shared, locals, history, SelftestLeft
<1>26. ASSUME Configure PROVE SelftestLeft'
  BY <1>26 DEF Configure, shared, locals, history, SelftestLeft
<1>27. ASSUME UNCHANGED vars PROVE SelftestLeft'
  BY <1>27 DEF vars, shared, locals, history, SelftestLeft
<1>28. ASSUME NEW p \in Proc, ListFails(p) PROVE SelftestLeft'
  BY <1>28, EndLeft DEF ListFails, SelftestLeft
<1>29. ASSUME NEW p \in Proc, ProbesUnlisted(p) PROVE SelftestLeft'
  <2>1. p \in Testers => promised[p] # {} /\ \A n \in promised[p] : <<p, n>> \in unseen'
    BY <1>29 DEF ProbesUnlisted, ProbeInv
  <2> QED BY <1>29, <2>1, EndLeft DEF ProbesUnlisted, shared
<1>30. ASSUME NEW p \in Proc, ProbeUnread(p) PROVE SelftestLeft'
  <2>1. CASE Finish(p, "ok") /\ listed[p] = {Oldest(listed[p])}
    <3>1. p \in Testers => promised[p] # {} /\ \A n \in promised[p] :
            n \in (received \cup dropped) \ files \/ <<p, n>> \in unseen'
      BY <1>30, <2>1 DEF ProbeUnread, ProbeInv, NameInv, NoLoss
    <3> QED BY <1>30, <2>1, <3>1, EndLeft DEF ProbeUnread, shared
  <2>2. CASE UNCHANGED <<result, promised>>
    BY <1>30, <2>2 DEF ProbeUnread, SelftestLeft, shared
  <2> QED BY <1>30, <2>1, <2>2 DEF ProbeUnread
<1> QED
  BY <1>1, <1>2, <1>3, <1>4, <1>5, <1>6, <1>7, <1>8, <1>9, <1>10, <1>11,
     <1>12, <1>13, <1>14, <1>15, <1>16, <1>17, <1>18, <1>19, <1>20, <1>21,
     <1>22, <1>23, <1>24, <1>25, <1>26, <1>27, <1>28, <1>29, <1>30
  DEF Next, Command, Step

-----------------------------------------------------------------------------
(* The inductive invariant and what it implies *)

\* The invariant holds in an outbox that no process has touched.
LEMMA InitIInv == Init => IInv
<1> SUFFICES ASSUME Init PROVE IInv
  OBVIOUS
<1>1. \A n \in Damaged : n \in Nat /\ n < FirstName /\ n <= LastName
  BY BoundAssumption
<1>2. TypeOK
  <2>1. files \subseteq Names /\ enqueued \subseteq Names
    BY <1>1, BoundAssumption DEF Init, Names
  <2>2. clock \in 0 .. LastName + 1
    BY BoundAssumption DEF Init
  <2> QED BY <2>1, <2>2 DEF Init, TypeOK, SharedTypes, LocalTypes, HistoryTypes, Steps, Results
<1>3. CommandInv
  BY DEF Init, CommandInv
<1>4. StoreInv /\ NameInv
  BY <1>1 DEF Init, StoreInv, NameInv
<1>5. LockInv /\ DropInv
  BY DEF Init, LockInv, DropInv, Delivering
<1>6. DeliveryInv
  BY DEF Init, DeliveryInv
<1>7. AccountInv /\ ProbeInv /\ FlushHonest /\ SelftestLeft
  BY DEF Init, AccountInv, ProbeInv, FlushHonest, SelftestLeft, Proc
<1>8. NoLoss /\ NewestKept /\ RepeatOnlyIfUnsettled
  BY DEF Init, NoLoss, NewestKept, RepeatOnlyIfUnsettled
<1> QED BY <1>2, <1>3, <1>4, <1>5, <1>6, <1>7, <1>8 DEF IInv

\* Every step preserves the invariant: one lemma above for each of its parts.
LEMMA StepIInv == IInv /\ [Next]_vars => IInv'
<1> SUFFICES ASSUME IInv, [Next]_vars PROVE IInv'
  OBVIOUS
<1> USE DEF IInv
<1>1. TypeOK'
  BY TypeStep
<1>2. CommandInv'
  BY CommandStep DEF TypeOK
<1>3. StoreInv' /\ NameInv'
  BY StoreStep, NameStep
<1>4. LockInv'
  BY LockStep DEF TypeOK
<1>5. DropInv' /\ NewestKept'
  BY DropStep, NewestStep
<1>6. DeliveryInv' /\ NoLoss' /\ RepeatOnlyIfUnsettled'
  BY DeliveryStep, NoLossStep, RepeatStep
<1>7. AccountInv' /\ FlushHonest'
  BY AccountStep, HonestStep
<1>8. ProbeInv' /\ SelftestLeft'
  BY ProbeStep, LeftStep
<1> QED BY <1>1, <1>2, <1>3, <1>4, <1>5, <1>6, <1>7, <1>8

\* The outbox directory, the lock, the processes and the history stand in the
\* relations of IInv at every moment of every execution.
THEOREM Invariance == Spec => []IInv
BY InitIInv, StepIInv, PTL DEF Spec

\* Every variable of the outbox keeps its type.
THEOREM TypeCorrect == Spec => []TypeOK
<1>1. IInv => TypeOK
  BY DEF IInv
<1> QED BY <1>1, Invariance, PTL

\* No command, crash or failed delivery loses a buffered event.
THEOREM NothingLost == Spec => []NoLoss
<1>1. IInv => NoLoss
  BY DEF IInv
<1> QED BY <1>1, Invariance, PTL

\* Rotation gives up an event only for BufferCap newer ones.
THEOREM NewestStay == Spec => []NewestKept
<1>1. IInv => NewestKept
  BY DEF IInv
<1> QED BY <1>1, Invariance, PTL

\* The flush lock keeps a settled delivery from being repeated.
THEOREM NoNeedlessRepeat == Spec => []RepeatOnlyIfUnsettled
<1>1. IInv => RepeatOnlyIfUnsettled
  BY DEF IInv
<1> QED BY <1>1, Invariance, PTL

\* A successful `flush` has delivered and removed all it found.
THEOREM FlushIsHonest == Spec => []FlushHonest
<1>1. IInv => FlushHonest
  BY DEF IInv
<1> QED BY <1>1, Invariance, PTL

\* A successful `selftest` has seen its probe leave the outbox, or has failed
\* to list the outbox or to read the probe.
THEOREM SelftestSawItLeave == Spec => []SelftestLeft
<1>1. IInv => SelftestLeft
  BY DEF IInv
<1> QED BY <1>1, Invariance, PTL

\* The recorded delivery error is cleared only by the one process that holds
\* the lock and has settled its delivery.
THEOREM ErrorClearedOnlyByHolder == Spec => ErrorClearedByHolder
<1> DEFINE A == lastError /\ ~lastError' =>
       \E p \in Proc : lock = p /\ pc[p] = "remove" /\ batch[p] = {}
                        /\ \A q \in Proc \ {p} : pc[q] \notin Delivering
<1>1. IInv /\ [Next]_vars => [A]_vars
  <2> SUFFICES ASSUME IInv, [Next]_vars, lastError, ~lastError'
               PROVE \E p \in Proc : lock = p /\ pc[p] = "remove" /\ batch[p] = {}
                        /\ \A q \in Proc \ {p} : pc[q] \notin Delivering
    OBVIOUS
  <2>1. PICK p \in Proc : Settle(p)
    <3>1. \/ \E p \in Proc : Command(p) \/ Step(p) \/ Crash(p)
          \/ UNCHANGED lastError
      BY DEF Next, Tick, Configure, vars, shared
    <3>2. ASSUME NEW p \in Proc, Command(p) PROVE UNCHANGED lastError
      BY <3>2 DEF Command, Ingest, FlushCommand, SelftestCommand, Begin, shared
    <3>3. ASSUME NEW p \in Proc, Crash(p) PROVE UNCHANGED lastError
      BY <3>3 DEF Crash
    <3>4. ASSUME NEW p \in Proc, Step(p), ~Settle(p) PROVE lastError' = lastError \/ lastError'
      BY <3>4 DEF Step, WriteTemp, Rename, EnqueueFails, ListExcess, Drop, DropFails, Decide,
           TouchFlushStamp, FlushStart, TryLock, LockBusy, ListLocked, ReadEvent, Export,
           DeliveryFails, RemoveSent, RemoveFails, ListFails, ListProbes, CountProbe,
           ProbesUnlisted, ProbeUnread, shared
    <3> QED BY <3>1, <3>2, <3>3, <3>4
  <2>2. pc[p] = "remove" /\ batch[p] = {}
    BY <2>1 DEF Settle
  <2> QED BY <2>2 DEF IInv, LockInv, Delivering
<1> QED BY <1>1, Invariance, PTL DEF Spec, ErrorClearedByHolder

-----------------------------------------------------------------------------
(* The outbox implements EventBuffer *)

\* The abstract buffer counts as the outbox does.
LEMMA Counting == \A S : Buffer!Cardinality(S) = Cardinality(S)
BY DEF Buffer!Cardinality, Cardinality

\* Every step of a process is a step of the abstract buffer or none.
LEMMA ProcessRefines ==
  ASSUME IInv, NEW p \in Proc, Command(p) \/ Step(p) \/ Crash(p)
  PROVE  [Buffer!Next]_Buffer!vars
<1>1. CASE Command(p)
  BY <1>1 DEF Command, Ingest, FlushCommand, SelftestCommand, Begin, shared, history, Buffer!vars
<1>2. CASE Rename(p)
  <2>1. writing[p] \in Names \ enqueued
    BY <1>2 DEF Rename, IInv, NameInv
  <2>2. Buffer!Accept
    BY <1>2, <2>1 DEF Rename, Buffer!Accept
  <2> QED BY <2>2 DEF Buffer!Next
<1>3. CASE Drop(p)
  <2>1. listed[p] \in SUBSET Names /\ listed[p] # {}
    BY <1>3 DEF Drop, IInv, TypeOK, LocalTypes, CommandInv
  <2>2. Cardinality({m \in enqueued : m > Oldest(listed[p])}) >= Cap
    BY <1>3, <2>1, OldestIn DEF Drop, IInv, DropInv
  <2>3. PICK n \in files : /\ Cardinality({m \in enqueued : m > n}) >= Cap
                           /\ files' = files \ {n} /\ dropped' = dropped \cup {n}
                           /\ UNCHANGED <<enqueued, received, repeated, unsettled>>
    BY <1>3, <2>2 DEF Drop
  <2>4. Buffer!Drop
    BY <2>3, Counting DEF Buffer!Drop, Buffer!Newer
  <2> QED BY <2>4 DEF Buffer!Next
<1>4. CASE Export(p)
  <2>1. batch[p] \in SUBSET enqueued /\ batch[p] \cap received \subseteq unsettled
    BY <1>4 DEF Export, IInv, NameInv, DeliveryInv
  <2>2. Buffer!Deliver
    BY <1>4, <2>1 DEF Export, Receive, shared, Buffer!Deliver
  <2> QED BY <2>2 DEF Buffer!Next
<1>5. CASE DeliveryFails(p)
  <2>1. PICK S \in MayHaveArrived(p) : Receive(S) /\ unsettled' = unsettled \cup S
    BY <1>5 DEF DeliveryFails
  <2>2. S \in SUBSET enqueued /\ S \cap received \subseteq unsettled
    BY <2>1 DEF MayHaveArrived, IInv, NameInv, DeliveryInv
  <2>3. Buffer!Deliver
    BY <1>5, <2>1, <2>2 DEF DeliveryFails, Receive, Buffer!Deliver
  <2> QED BY <2>3 DEF Buffer!Next
<1>6. CASE Crash(p)
  <2> DEFINE Left == IF pc[p] = "remove" THEN batch[p] \cap files ELSE {}
  <2>1. PICK S \in MayHaveArrived(p) : Receive(S) /\ unsettled' = unsettled \cup S \cup Left
    BY <1>6 DEF Crash
  <2>2. S \in SUBSET enqueued /\ S \cap received \subseteq unsettled
    BY <2>1 DEF MayHaveArrived, IInv, NameInv, DeliveryInv
  <2>3. Left \subseteq received /\ Left \subseteq enqueued
    BY DEF IInv, NameInv, DeliveryInv
  <2> HIDE DEF Left
  <2>4. Buffer!Deliver
    <3>1. (S \cup Left) \in SUBSET enqueued /\ (S \cup Left) \subseteq S \cup received
      BY <2>2, <2>3
    <3>2. unsettled' = unsettled \cup (S \cup Left)
      BY <2>1
    <3> QED BY <1>6, <2>1, <2>2, <3>1, <3>2 DEF Crash, Receive, Buffer!Deliver
  <2> QED BY <2>4 DEF Buffer!Next
<1>7. CASE RemoveSent(p)
  <2>1. Oldest(batch[p]) \in received
    BY <1>7, OldestIn DEF RemoveSent, IInv, TypeOK, LocalTypes, DeliveryInv
  <2>2. CASE Oldest(batch[p]) \in files
    BY <1>7, <2>1, <2>2 DEF RemoveSent, history, Buffer!Next, Buffer!Discard
  <2>3. CASE Oldest(batch[p]) \notin files
    BY <1>7, <2>3 DEF RemoveSent, history, Buffer!vars
  <2> QED BY <2>2, <2>3
<1>8. CASE RemoveFails(p)
  <2>1. Oldest(batch[p]) \in received /\ Oldest(batch[p]) \in enqueued
    BY <1>8, OldestIn DEF RemoveFails, IInv, TypeOK, LocalTypes, DeliveryInv, NameInv
  <2>2. Buffer!Deliver
    <3> DEFINE D == {Oldest(batch[p])}
    <3>1. D \in SUBSET enqueued /\ D \subseteq {} \cup received /\ {} \in SUBSET enqueued
      BY <2>1
    <3>2. /\ received' = received \cup {} /\ repeated' = repeated \cup ({} \cap received)
          /\ unsettled' = unsettled \cup D
          /\ UNCHANGED <<enqueued, files, dropped>>
      BY <1>8 DEF RemoveFails, shared
    <3> HIDE DEF D
    <3> QED BY <3>1, <3>2 DEF Buffer!Deliver
  <2> QED BY <2>2 DEF Buffer!Next
<1>9. CASE \/ WriteTemp(p) \/ EnqueueFails(p) \/ ListExcess(p) \/ DropFails(p) \/ Decide(p)
           \/ TouchFlushStamp(p) \/ FlushStart(p) \/ TryLock(p) \/ LockBusy(p)
  BY <1>9 DEF WriteTemp, EnqueueFails, ListExcess, DropFails, Decide, TouchFlushStamp,
       FlushStart, TryLock, LockBusy, shared, history, Buffer!vars
<1>10. CASE ListLocked(p) \/ ReadEvent(p) \/ Settle(p) \/ ListProbes(p) \/ CountProbe(p)
  BY <1>10 DEF ListLocked, ReadEvent, Settle, ListProbes, CountProbe, shared, history, Buffer!vars
<1>11. CASE ListFails(p) \/ ProbesUnlisted(p) \/ ProbeUnread(p)
  BY <1>11 DEF ListFails, ProbesUnlisted, ProbeUnread, shared, Buffer!vars
<1> QED
  BY <1>1, <1>2, <1>3, <1>4, <1>5, <1>6, <1>7, <1>8, <1>9, <1>10, <1>11 DEF Step

\* Whatever the processes do, an observer of the buffer and of the collector
\* sees what EventBuffer allows.
THEOREM Refinement == Spec => ImplementsBuffer
<1>1. Init => Buffer!Init
  BY DEF Init, Buffer!Init
<1>2. IInv /\ [Next]_vars => [Buffer!Next]_Buffer!vars
  <2> SUFFICES ASSUME IInv, [Next]_vars PROVE [Buffer!Next]_Buffer!vars
    OBVIOUS
  <2>1. CASE \E p \in Proc : Command(p) \/ Step(p) \/ Crash(p)
    BY <2>1, ProcessRefines
  <2>2. CASE Tick \/ Configure \/ UNCHANGED vars
    BY <2>2 DEF Tick, Configure, vars, shared, history, Buffer!vars
  <2> QED BY <2>1, <2>2 DEF Next
<1> QED
  BY <1>1, <1>2, Invariance, PTL DEF Spec, ImplementsBuffer, Buffer!Spec

=============================================================================
