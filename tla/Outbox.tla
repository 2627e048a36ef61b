------------------------------- MODULE Outbox -------------------------------
(***************************************************************************)
(* The machine-global event buffer of ai-agent-telemetry and the three     *)
(* kinds of command that work on it at the same time: `ingest`, `flush`    *)
(* (flushExplicit) and `selftest`.  The buffer is a directory with         *)
(* one file per event (outbox.go); a command is an operating system        *)
(* process that shares nothing with the others but that directory, the     *)
(* flush lock and the two marker files in it (flush.go, main.go).          *)
(*                                                                         *)
(* A file is its name; names are numbers, ordered as List sorts them.      *)
(***************************************************************************)
EXTENDS Naturals, FiniteSets

CONSTANTS
  Hooks,      \* slots in which a harness runs `ingest`
  Flushers,   \* slots in which a person runs `flush`
  Testers,    \* slots in which a person runs `selftest`
  None,       \* no process holds the flush lock
  Cap,        \* settings.BufferCap: what Rotate keeps
  CountN,     \* flushCountN: files that make an ingest flush at once
  PerHook,    \* most events that one hook payload carries
  Damaged,    \* files found at start that Read or eventRecord rejects
  FirstName,  \* the first name this model's Enqueue gives
  LastName,   \* bound on the names given
  MaxFaults   \* bound on crashes, failed exports, removals, listings and looks at a probe

Proc == Hooks \cup Flushers \cup Testers
Strict(p) == p \in Flushers
Names == 0 .. LastName

ASSUME ProcAssumption ==
  /\ Hooks \cap Flushers = {}
  /\ Hooks \cap Testers = {}
  /\ Flushers \cap Testers = {}
  /\ None \notin Proc

ASSUME BoundAssumption ==
  /\ Cap \in Nat
  /\ CountN \in Nat
  /\ PerHook \in Nat
  /\ MaxFaults \in Nat
  /\ FirstName \in Nat
  /\ LastName \in Nat
  /\ FirstName <= LastName
  /\ \A n \in Damaged : n \in Nat /\ n < FirstName

VARIABLES
  \* the outbox directory and the configuration, shared by every process
  files,       \* event files: what List returns
  lock,        \* holder of .flush.lock
  fresh,       \* .lastflush is younger than flushIntervalT
  configured,  \* an endpoint is saved in env
  lastError,   \* .last_delivery_error exists
  \* what each process holds
  pc,          \* its place in the command, "idle" when no command runs
  todo,        \* events still to enqueue
  writing,     \* the name of its temporary file, or None
  endpoint,    \* the endpoint it resolved at its start is not empty
  listed,      \* names of a listing still to be handled
  batch,       \* sentNames: emitted, or exported and still to be removed
  retained,    \* retainedIssues is not empty
  result,      \* how its last command ended
  promised,    \* the names an "ok" of that command speaks for
  \* history
  clock,       \* the next name Enqueue will give
  enqueued,    \* every name that was ever a file
  probes,      \* those of them that hold a selftest probe
  received,    \* names the collector has got
  repeated,    \* names the collector has got more than once
  dropped,     \* names Rotate removed
  unsettled,   \* names received whose sender could not remove them
  unseen,      \* pairs of a selftest and a probe that it failed to look at
  faults       \* faults so far

shared  == <<files, lock, fresh, configured, lastError>>
locals  == <<pc, todo, writing, endpoint, listed, batch, retained, result, promised>>
history == <<clock, enqueued, probes, received, repeated, dropped, unsettled, unseen, faults>>
vars    == <<shared, locals, history>>

Steps == {"idle", "enqueue", "rename", "rotate", "drop", "decide", "stamp",
          "flush", "lock", "list", "read", "export", "remove", "probe", "count"}
Delivering == {"list", "read", "export", "remove"}   \* between TryLock and Unlock
Results == {"none", "ok", "undelivered", "error"}

\* List sorts by name: the head of a listing.
Oldest(S) == CHOOSE n \in S : \A m \in S : n <= m

\* Mutants of Excess: one file too many, and the newest instead of the oldest.
ExcessOneMore(S) == {n \in S : Cardinality({m \in S : m > n}) + 1 >= Cap}
ExcessOneLess(S) == {n \in S : Cardinality({m \in S : m > n}) > Cap}
ExcessNewest(S)  == {n \in S : Cardinality({m \in S : m < n}) >= Cap}

\* names[:len(names)-limit]: what Rotate removes of the listing S.
Excess(S) == {n \in S : Cardinality({m \in S : m > n}) >= Cap}

-----------------------------------------------------------------------------
Init ==
  /\ files = Damaged
  /\ lock = None
  /\ fresh = FALSE
  /\ configured \in BOOLEAN
  /\ lastError = FALSE
  /\ pc = [p \in Proc |-> "idle"]
  /\ todo = [p \in Proc |-> 0]
  /\ writing = [p \in Proc |-> None]
  /\ endpoint = [p \in Proc |-> FALSE]
  /\ listed = [p \in Proc |-> {}]
  /\ batch = [p \in Proc |-> {}]
  /\ retained = [p \in Proc |-> FALSE]
  /\ result = [p \in Proc |-> "none"]
  /\ promised = [p \in Proc |-> {}]
  /\ clock = FirstName
  /\ enqueued = Damaged
  /\ probes = {}
  /\ received = {}
  /\ repeated = {}
  /\ dropped = {}
  /\ unsettled = {}
  /\ unseen = {}
  /\ faults = 0

-----------------------------------------------------------------------------
(* Steps of every command *)

Goto(p, step) == pc' = [pc EXCEPT ![p] = step]

Fault == faults < MaxFaults /\ faults' = faults + 1

\* The process ends: nothing of its memory survives but what it answered.
Finish(p, answer) ==
  /\ Goto(p, "idle")
  /\ todo' = [todo EXCEPT ![p] = 0]
  /\ writing' = [writing EXCEPT ![p] = None]
  /\ endpoint' = [endpoint EXCEPT ![p] = FALSE]
  /\ listed' = [listed EXCEPT ![p] = {}]
  /\ batch' = [batch EXCEPT ![p] = {}]
  /\ retained' = [retained EXCEPT ![p] = FALSE]
  /\ result' = [result EXCEPT ![p] = IF p \in Hooks THEN "none" ELSE answer]
  /\ UNCHANGED promised

\* Flush returns no error: a hook and a flush end, a selftest counts probes.
Flushed(p) ==
  IF p \in Testers
  THEN /\ Goto(p, "probe")
       /\ UNCHANGED <<todo, writing, endpoint, listed, batch, retained, result, promised>>
  ELSE Finish(p, "ok")

\* The deferred release(), or the operating system on a crash.
Unlock(p) == lock' = IF lock = p THEN None ELSE lock

Begin(p, n, step) ==
  /\ Goto(p, step)
  /\ todo' = [todo EXCEPT ![p] = n]
  /\ endpoint' = [endpoint EXCEPT ![p] = configured]
  /\ result' = [result EXCEPT ![p] = "none"]
  /\ promised' = [promised EXCEPT ![p] = {}]
  /\ UNCHANGED <<shared, writing, listed, batch, retained, history>>

\* A harness runs `ingest`; detection and policy left n events.
Ingest(p) ==
  /\ p \in Hooks /\ pc[p] = "idle"
  /\ \E n \in 0 .. PerHook : Begin(p, n, IF n = 0 THEN "rotate" ELSE "enqueue")

FlushCommand(p) ==
  /\ p \in Flushers /\ pc[p] = "idle"
  /\ Begin(p, 0, "lock")

SelftestCommand(p) ==
  /\ p \in Testers /\ pc[p] = "idle"
  /\ configured
  /\ Begin(p, 1, "enqueue")

-----------------------------------------------------------------------------
(* Enqueue *)

\* The event's name is fixed when its temporary file is written.
WriteTemp(p) ==
  /\ pc[p] = "enqueue"
  /\ clock <= LastName
  /\ writing' = [writing EXCEPT ![p] = clock]
  /\ clock' = clock + 1
  /\ Goto(p, "rename")
  /\ UNCHANGED <<shared, todo, endpoint, listed, batch, retained, result, promised,
                 enqueued, probes, received, repeated, dropped, unsettled, unseen, faults>>

\* Mutant of AfterEnqueue: the loop runs once too often.
AfterEnqueueOneMore(p, n) == IF n >= 0 THEN "enqueue"
                             ELSE IF p \in Hooks THEN "rotate" ELSE "flush"

\* What follows an Enqueue when n more events wait.
AfterEnqueue(p, n) == IF n > 0 THEN "enqueue"
                      ELSE IF p \in Hooks THEN "rotate" ELSE "flush"

Rename(p) ==
  /\ pc[p] = "rename"
  /\ files' = files \cup {writing[p]}
  /\ enqueued' = enqueued \cup {writing[p]}
  /\ probes' = IF p \in Testers THEN probes \cup {writing[p]} ELSE probes
  /\ promised' = [promised EXCEPT ![p] = IF p \in Testers THEN {writing[p]} ELSE @]
  /\ writing' = [writing EXCEPT ![p] = None]
  /\ todo' = [todo EXCEPT ![p] = @ - 1]
  /\ Goto(p, AfterEnqueue(p, todo[p] - 1))
  /\ UNCHANGED <<lock, fresh, configured, lastError, endpoint, listed, batch, retained,
                 result, clock, received, repeated, dropped, unsettled, unseen, faults>>

\* No identifier, an invalid event, or a write or rename that fails: a hook
\* logs it and goes on with the next event, a selftest ends.
EnqueueFails(p) ==
  /\ pc[p] \in {"enqueue", "rename"}
  /\ IF p \in Testers
     THEN Finish(p, "error")
     ELSE /\ writing' = [writing EXCEPT ![p] = None]
          /\ todo' = [todo EXCEPT ![p] = @ - 1]
          /\ Goto(p, AfterEnqueue(p, todo[p] - 1))
          /\ UNCHANGED <<endpoint, listed, batch, retained, result, promised>>
  /\ UNCHANGED <<shared, history>>

-----------------------------------------------------------------------------
(* Rotate *)

ListExcess(p) ==
  /\ pc[p] = "rotate"
  /\ listed' = [listed EXCEPT ![p] = Excess(files)]
  /\ Goto(p, IF Excess(files) = {} THEN "decide" ELSE "drop")
  /\ UNCHANGED <<shared, todo, writing, endpoint, batch, retained, result, promised, history>>

Drop(p) ==
  /\ pc[p] = "drop"
  /\ LET n == Oldest(listed[p])
     IN /\ n \in files
        /\ files' = files \ {n}
        /\ dropped' = dropped \cup {n}
        /\ listed' = [listed EXCEPT ![p] = @ \ {n}]
        /\ Goto(p, IF listed[p] = {n} THEN "decide" ELSE "drop")
  /\ UNCHANGED <<lock, fresh, configured, lastError, todo, writing, endpoint, batch, retained,
                 result, promised, clock, enqueued, probes, received, repeated, unsettled, unseen, faults>>

\* Remove fails, for one because another process removed the file already:
\* Rotate returns and leaves the rest of what it meant to drop.
DropFails(p) ==
  /\ pc[p] = "drop"
  /\ \/ Oldest(listed[p]) \notin files /\ UNCHANGED faults
     \/ Oldest(listed[p]) \in files /\ Fault
  /\ listed' = [listed EXCEPT ![p] = {}]
  /\ Goto(p, "decide")
  /\ UNCHANGED <<shared, todo, writing, endpoint, batch, retained, result, promised,
                 clock, enqueued, probes, received, repeated, dropped, unsettled, unseen>>

-----------------------------------------------------------------------------
(* The opportunistic flush of a hook *)

\* Mutant of ShouldFlush: both conditions are asked for.
ShouldFlushBoth == files # {} /\ Cardinality(files) >= CountN /\ ~fresh

ShouldFlush == files # {} /\ (Cardinality(files) >= CountN \/ ~fresh)

Decide(p) ==
  /\ pc[p] = "decide"
  /\ IF ShouldFlush
     THEN /\ Goto(p, "stamp")
          /\ UNCHANGED <<todo, writing, endpoint, listed, batch, retained, result, promised>>
     ELSE Finish(p, "none")
  /\ UNCHANGED <<shared, history>>

TouchFlushStamp(p) ==
  /\ pc[p] = "stamp"
  /\ fresh' = TRUE
  /\ Goto(p, "flush")
  /\ UNCHANGED <<files, lock, configured, lastError, todo, writing, endpoint, listed, batch,
                 retained, result, promised, history>>

\* Mutant of FlushStart: an empty outbox clears the recorded error.
FlushStartClears(p) ==
  /\ pc[p] = "flush"
  /\ IF endpoint[p] /\ files # {}
     THEN /\ Goto(p, "lock")
          /\ UNCHANGED <<todo, writing, endpoint, listed, batch, retained, result, promised>>
     ELSE Flushed(p)
  /\ lastError' = (lastError /\ files # {})
  /\ UNCHANGED <<files, lock, fresh, configured, history>>

\* Flush before its lock: no endpoint or nothing to send.
FlushStart(p) ==
  /\ pc[p] = "flush"
  /\ IF endpoint[p] /\ files # {}
     THEN /\ Goto(p, "lock")
          /\ UNCHANGED <<todo, writing, endpoint, listed, batch, retained, result, promised>>
     ELSE Flushed(p)
  /\ UNCHANGED <<shared, history>>

-----------------------------------------------------------------------------
(* Delivery *)

\* Mutant of TryLock: the answer of the lock is not looked at.
TryLockIgnored(p) ==
  /\ pc[p] = "lock"
  /\ lock' = p
  /\ Goto(p, "list")
  /\ UNCHANGED <<files, fresh, configured, lastError, todo, writing, endpoint, listed, batch,
                 retained, result, promised, history>>

TryLock(p) ==
  /\ pc[p] = "lock"
  /\ lock = None
  /\ lock' = p
  /\ Goto(p, "list")
  /\ UNCHANGED <<files, fresh, configured, lastError, todo, writing, endpoint, listed, batch,
                 retained, result, promised, history>>

LockBusy(p) ==
  /\ pc[p] = "lock"
  /\ lock # None
  /\ IF Strict(p) THEN Finish(p, "error") ELSE Flushed(p)
  /\ UNCHANGED <<shared, history>>

\* The listing under the lock; a strict flush resolves its endpoint only now.
ListLocked(p) ==
  /\ pc[p] = "list"
  /\ \/ /\ files = {}
        /\ Flushed(p)
        /\ Unlock(p)
     \/ /\ files # {} /\ Strict(p) /\ ~configured
        /\ Finish(p, "error")
        /\ Unlock(p)
     \/ /\ files # {} /\ (Strict(p) => configured)
        /\ listed' = [listed EXCEPT ![p] = files]
        /\ promised' = [promised EXCEPT ![p] = IF Strict(p) THEN files ELSE @]
        /\ Goto(p, "read")
        /\ UNCHANGED <<todo, writing, endpoint, batch, retained, result, lock>>
  /\ UNCHANGED <<files, fresh, configured, lastError, history>>

\* Mutant of ReadEvent: an unreadable file is skipped without a word.
ReadEventSilent(p) ==
  /\ pc[p] = "read"
  /\ LET n == Oldest(listed[p])
     IN /\ batch' = [batch EXCEPT ![p] = IF n \in files \ Damaged THEN @ \cup {n} ELSE @]
        /\ listed' = [listed EXCEPT ![p] = @ \ {n}]
        /\ Goto(p, IF listed[p] = {n} THEN "export" ELSE "read")
  /\ UNCHANGED <<shared, todo, writing, endpoint, retained, result, promised, history>>

\* One turn of the loop of deliverEvents.
ReadEvent(p) ==
  /\ pc[p] = "read"
  /\ LET n == Oldest(listed[p])
         readable == n \in files \ Damaged
     IN /\ batch' = [batch EXCEPT ![p] = IF readable THEN @ \cup {n} ELSE @]
        /\ retained' = [retained EXCEPT ![p] = @ \/ (~readable /\ Strict(p))]
        /\ listed' = [listed EXCEPT ![p] = @ \ {n}]
        /\ Goto(p, IF listed[p] = {n} THEN "export" ELSE "read")
  /\ UNCHANGED <<shared, todo, writing, endpoint, result, promised, history>>

\* The collector gets the names of S.
Receive(S) ==
  /\ received' = received \cup S
  /\ repeated' = repeated \cup (S \cap received)

\* Mutant of Export: the error of the export is not looked at.
ExportUnchecked(p) ==
  /\ pc[p] = "export"
  /\ \E S \in SUBSET batch[p] : Receive(S)
  /\ Goto(p, "remove")
  /\ UNCHANGED <<shared, todo, writing, endpoint, listed, batch, retained, result, promised,
                 clock, enqueued, probes, dropped, unsettled, unseen, faults>>

\* Mutant of Export: the lock is released before the files are removed.
ExportUnlocks(p) ==
  /\ pc[p] = "export"
  /\ Receive(batch[p])
  /\ Unlock(p)
  /\ Goto(p, "remove")
  /\ UNCHANGED <<files, fresh, configured, lastError, todo, writing, endpoint, listed, batch,
                 retained, result, promised, clock, enqueued, probes, dropped, unsettled, unseen, faults>>

\* provider.Shutdown exports the batch and the collector accepts it.
Export(p) ==
  /\ pc[p] = "export"
  /\ Receive(batch[p])
  /\ Goto(p, "remove")
  /\ UNCHANGED <<shared, todo, writing, endpoint, listed, batch, retained, result, promised,
                 clock, enqueued, probes, dropped, unsettled, unseen, faults>>

\* What may have reached the collector when a delivery is cut short.
MayHaveArrived(p) == IF pc[p] = "export" THEN SUBSET batch[p] ELSE {{}}

\* No exporter, an expired budget, a refused or partly refused batch, a reply
\* that was lost: nothing is removed.
DeliveryFails(p) ==
  /\ pc[p] \in {"read", "export"}
  /\ Fault
  /\ \E S \in MayHaveArrived(p) :
       /\ Receive(S)
       /\ unsettled' = unsettled \cup S
  /\ lastError' = TRUE
  /\ Unlock(p)
  /\ Finish(p, "error")
  /\ UNCHANGED <<files, fresh, configured, clock, enqueued, probes, dropped, unseen>>

\* One turn of the removal loop; the file may be gone by Rotate.
RemoveSent(p) ==
  /\ pc[p] = "remove" /\ batch[p] # {}
  /\ LET n == Oldest(batch[p])
     IN /\ files' = files \ {n}
        /\ retained' = [retained EXCEPT ![p] = @ \/ (n \notin files /\ Strict(p))]
        /\ batch' = [batch EXCEPT ![p] = @ \ {n}]
  /\ UNCHANGED <<lock, fresh, configured, lastError, pc, todo, writing, endpoint, listed,
                 result, promised, history>>

RemoveFails(p) ==
  /\ pc[p] = "remove" /\ batch[p] # {}
  /\ Fault
  /\ LET n == Oldest(batch[p])
     IN /\ n \in files
        /\ unsettled' = unsettled \cup {n}
        /\ retained' = [retained EXCEPT ![p] = @ \/ Strict(p)]
        /\ batch' = [batch EXCEPT ![p] = @ \ {n}]
  /\ UNCHANGED <<shared, pc, todo, writing, endpoint, listed, result, promised,
                 clock, enqueued, probes, received, repeated, dropped, unseen>>

Settle(p) ==
  /\ pc[p] = "remove" /\ batch[p] = {}
  /\ lastError' = retained[p]
  /\ Unlock(p)
  /\ IF retained[p] THEN Finish(p, "error") ELSE Flushed(p)
  /\ UNCHANGED <<files, fresh, configured, history>>

\* The directory cannot be listed, or the lock not taken for another reason than that it is
\* held: a rotation gives up, shouldFlush says no, a flush ends with the error.
ListFails(p) ==
  /\ Fault
  /\ \/ /\ pc[p] = "rotate"
        /\ Goto(p, "decide")
        /\ UNCHANGED <<todo, writing, endpoint, listed, batch, retained, result, promised>>
     \/ /\ pc[p] \in {"decide", "flush", "lock", "list"}
        /\ pc[p] = "flush" => endpoint[p]
        /\ Finish(p, "error")
  /\ Unlock(p)
  /\ UNCHANGED <<files, fresh, configured, lastError,
                 clock, enqueued, probes, received, repeated, dropped, unsettled, unseen>>

-----------------------------------------------------------------------------
(* probesRemaining: list, then read every file of the listing *)

\* Mutant of ListProbes: a flush without error counts as delivered.
ListProbesTrusting(p) ==
  /\ pc[p] = "probe"
  /\ Finish(p, "ok")
  /\ UNCHANGED <<shared, history>>

ListProbes(p) ==
  /\ pc[p] = "probe"
  /\ IF files = {}
     THEN Finish(p, "ok")
     ELSE /\ listed' = [listed EXCEPT ![p] = files]
          /\ Goto(p, "count")
          /\ UNCHANGED <<todo, writing, endpoint, batch, retained, result, promised>>
  /\ UNCHANGED <<shared, history>>

CountProbe(p) ==
  /\ pc[p] = "count"
  /\ LET n == Oldest(listed[p])
     IN IF n \in files \cap probes
        THEN Finish(p, "undelivered")
        ELSE IF listed[p] = {n}
             THEN Finish(p, "ok")
             ELSE /\ listed' = [listed EXCEPT ![p] = @ \ {n}]
                  /\ UNCHANGED <<pc, todo, writing, endpoint, batch, retained, result, promised>>
  /\ UNCHANGED <<shared, history>>

\* probesRemaining answers 0 when its listing fails.
ProbesUnlisted(p) ==
  /\ pc[p] = "probe"
  /\ Fault
  /\ unseen' = unseen \cup ({p} \X promised[p])
  /\ Finish(p, "ok")
  /\ UNCHANGED <<shared, clock, enqueued, probes, received, repeated, dropped, unsettled>>

\* A file that is there and cannot be read counts as no probe.
ProbeUnread(p) ==
  /\ pc[p] = "count"
  /\ Fault
  /\ LET n == Oldest(listed[p])
     IN /\ n \in files
        /\ unseen' = unseen \cup {<<p, n>>}
        /\ IF listed[p] = {n}
           THEN Finish(p, "ok")
           ELSE /\ listed' = [listed EXCEPT ![p] = @ \ {n}]
                /\ UNCHANGED <<pc, todo, writing, endpoint, batch, retained, result, promised>>
  /\ UNCHANGED <<shared, clock, enqueued, probes, received, repeated, dropped, unsettled>>

-----------------------------------------------------------------------------
(* The surroundings *)

\* A process is killed. A temporary file it leaves is never listed again.
Crash(p) ==
  /\ pc[p] # "idle"
  /\ Fault
  /\ \E S \in MayHaveArrived(p) :
       /\ Receive(S)
       /\ unsettled' = unsettled \cup S \cup (IF pc[p] = "remove" THEN batch[p] \cap files ELSE {})
  /\ Unlock(p)
  /\ Finish(p, "none")
  /\ UNCHANGED <<files, fresh, configured, lastError, clock, enqueued, probes, dropped, unseen>>

\* The stamp of the last attempt passes flushIntervalT.
Tick ==
  /\ fresh
  /\ fresh' = FALSE
  /\ UNCHANGED <<files, lock, configured, lastError, locals, history>>

\* `configure` saves an endpoint.
Configure ==
  /\ ~configured
  /\ configured' = TRUE
  /\ UNCHANGED <<files, lock, fresh, lastError, locals, history>>

\* What a running command does when nothing goes wrong around it.
Step(p) ==
  \/ WriteTemp(p) \/ Rename(p) \/ EnqueueFails(p)
  \/ ListExcess(p) \/ Drop(p) \/ DropFails(p)
  \/ Decide(p) \/ TouchFlushStamp(p) \/ FlushStart(p)
  \/ TryLock(p) \/ LockBusy(p) \/ ListLocked(p) \/ ReadEvent(p) \/ Export(p)
  \/ DeliveryFails(p) \/ RemoveSent(p) \/ RemoveFails(p) \/ Settle(p)
  \/ ListFails(p) \/ ListProbes(p) \/ CountProbe(p) \/ ProbesUnlisted(p) \/ ProbeUnread(p)

Command(p) == Ingest(p) \/ FlushCommand(p) \/ SelftestCommand(p)

Next ==
  \/ \E p \in Proc : Command(p) \/ Step(p) \/ Crash(p)
  \/ Tick
  \/ Configure

Spec == Init /\ [][Next]_vars

-----------------------------------------------------------------------------
(* Fairness *)

\* The operating system runs every command to its end, every harness keeps
\* running hooks, and time passes.
Fairness ==
  /\ \A p \in Proc : WF_vars(Step(p))
  /\ \A p \in Hooks : WF_vars(Ingest(p))
  /\ WF_vars(Tick)

FairSpec == Spec /\ Fairness

-----------------------------------------------------------------------------
(* Properties *)

SharedTypes ==
  /\ files \subseteq Names
  /\ lock \in Proc \cup {None}
  /\ fresh \in BOOLEAN /\ configured \in BOOLEAN /\ lastError \in BOOLEAN

LocalTypes ==
  /\ pc \in [Proc -> Steps]
  /\ todo \in [Proc -> Nat]
  /\ writing \in [Proc -> Names \cup {None}]
  /\ endpoint \in [Proc -> BOOLEAN]
  /\ listed \in [Proc -> SUBSET Names]
  /\ batch \in [Proc -> SUBSET Names]
  /\ retained \in [Proc -> BOOLEAN]
  /\ result \in [Proc -> Results]
  /\ promised \in [Proc -> SUBSET Names]

HistoryTypes ==
  /\ clock \in 0 .. LastName + 1
  /\ enqueued \subseteq Names /\ probes \subseteq Names
  /\ received \subseteq Names /\ repeated \subseteq Names
  /\ dropped \subseteq Names /\ unsettled \subseteq Names
  /\ unseen \subseteq Testers \X Names
  /\ faults \in Nat

\* Every variable has its type: no counter of a loop runs below zero, no
\* command leaves its steps, and only names that Enqueue may give are in use.
TypeOK == SharedTypes /\ LocalTypes /\ HistoryTypes

\* An event that Enqueue buffered is still buffered, has reached the
\* collector, or was dropped by Rotate: no interleaving of ingest, flush and
\* selftest, no failed export and no crash of a process loses it.
NoLoss == enqueued \subseteq files \cup received \cup dropped

\* Rotate drops an event only when at least BufferCap newer ones were
\* buffered, however late it acts on the listing it took.
NewestKept == \A n \in dropped : Cardinality({m \in enqueued : m > n}) >= Cap

\* The collector gets an event again only after a delivery whose outcome the
\* sender never learned or a removal that failed: the flush lock, taken before
\* the second listing, keeps two deliveries from sending the same file.
RepeatOnlyIfUnsettled == repeated \subseteq unsettled

\* When `flush` reports success, everything it found in the outbox has reached
\* the collector and is no longer buffered: flushExplicit "reports every
\* retained event as an error", those that other processes remove meanwhile
\* included.
FlushHonest ==
  \A p \in Flushers : result[p] = "ok" =>
    promised[p] \subseteq received /\ promised[p] \cap files = {}

\* When `selftest` reports success its probe is no longer buffered, by
\* delivery (its own or that of another process) or by rotation; only when the
\* selftest failed to list the outbox or to read that very file may the probe
\* still be there (probesRemaining counts neither as a probe).
SelftestLeft ==
  \A p \in Testers : result[p] = "ok" =>
    /\ promised[p] # {}
    /\ \A n \in promised[p] : n \in (received \cup dropped) \ files \/ <<p, n>> \in unseen

\* .last_delivery_error disappears only when a process that holds the lock
\* has just settled a delivery, so no success hides the failure of another
\* delivery still under way.
ErrorClearedByHolder ==
  [][lastError /\ ~lastError' =>
       \E p \in Proc : lock = p /\ pc[p] = "remove" /\ batch[p] = {}
                        /\ \A q \in Proc \ {p} : pc[q] \notin Delivering]_vars

\* Once an endpoint is saved and failures end, every valid event leaves the
\* outbox although hooks only flush when enough piled up or time passed.
EventuallyLeaves ==
  \A n \in FirstName .. LastName :
    (n \in files /\ configured) ~> (n \notin files)

\* An outbox that exceeds the cap is cut to it by the hooks that follow, even
\* when a concurrent removal makes one rotation give up.
CapRestored == (Cardinality(files) > Cap) ~> (Cardinality(files) <= Cap)

\* The outbox implements the buffer its documentation describes.
Buffer == INSTANCE EventBuffer WITH
            Events <- Names, Present <- Damaged, accepted <- enqueued, buffered <- files,
            delivered <- received, doubted <- unsettled

\* The refinement as a property of the outbox.
ImplementsBuffer == Buffer!Spec

\* Rotate "deletes the oldest event files until at most limit remain": once
\* every command has ended undisturbed the outbox is within the cap.
CapWhenQuiet ==
  (\A p \in Proc : pc[p] = "idle") /\ faults = 0 => Cardinality(files) <= Cap

\* A selftest that reports success has had its probe accepted by the
\* collector (selftestResult.Delivered).
SelftestDelivered ==
  \A p \in Testers : result[p] = "ok" => promised[p] \subseteq received

-----------------------------------------------------------------------------
(* The inductive invariant behind the safety properties *)

\* Which steps each kind of command goes through, and what it still owes.
CommandInv ==
  \A p \in Proc :
    /\ p \in Flushers => pc[p] \in {"idle", "lock"} \cup Delivering
    /\ p \in Hooks => pc[p] \notin {"probe", "count"}
    /\ pc[p] \in {"enqueue", "rename"} => todo[p] > 0
    /\ pc[p] \in {"drop", "read", "count"} => listed[p] # {}
    /\ pc[p] # "idle" => result[p] = "none"

\* Whatever the directory, the collector and the history know was a file, and
\* every file's name was given before.
StoreInv ==
  /\ \A n \in enqueued : n < clock
  /\ files \cup received \cup dropped \cup unsettled \cup probes \subseteq enqueued

\* What a process remembers was a file; the name it is about to turn into a
\* file is its own and was none yet.
NameInv ==
  /\ \A p \in Proc : listed[p] \cup batch[p] \cup promised[p] \subseteq enqueued
  /\ \A p \in Proc : pc[p] = "rename" =>
       writing[p] \in Names /\ writing[p] < clock /\ writing[p] \notin enqueued
  /\ \A p, q \in Proc : pc[p] = "rename" /\ pc[q] = "rename" /\ p # q =>
       writing[p] # writing[q]

\* Whoever delivers holds the lock.
LockInv == \A p \in Proc : pc[p] \in Delivering => lock = p

\* What a rotation still means to drop is old enough, by its listing.
DropInv ==
  \A p \in Proc : pc[p] = "drop" =>
    \A n \in listed[p] : Cardinality({m \in enqueued : m > n}) >= Cap

\* A file the collector has is one its sender is about to remove or could not
\* remove; what the lock holder read before its export is not in flight twice.
DeliveryInv ==
  /\ \A n \in files \cap received :
       n \in unsettled \/ \E p \in Proc : pc[p] = "remove" /\ n \in batch[p]
  /\ \A p \in Proc : pc[p] = "remove" => batch[p] \subseteq received
  /\ \A p \in Proc : pc[p] \in {"read", "export"} => batch[p] \cap received \subseteq unsettled
  /\ \A p \in Proc : pc[p] \notin {"read", "export", "remove"} => batch[p] = {}

\* A strict flush without a retained issue accounts for all it listed.
AccountInv ==
  \A p \in Flushers :
    /\ pc[p] \in {"lock", "list"} => promised[p] = {}
    /\ pc[p] = "read" /\ ~retained[p] => promised[p] \subseteq listed[p] \cup batch[p]
    /\ pc[p] = "export" /\ ~retained[p] => promised[p] \subseteq batch[p]
    /\ pc[p] = "remove" /\ ~retained[p] =>
         promised[p] \subseteq received /\ promised[p] \cap files \subseteq batch[p]

\* A selftest that counts probes still has its own before it, if buffered.
ProbeInv ==
  \A p \in Testers :
    /\ pc[p] \notin {"idle", "enqueue", "rename"} => promised[p] # {}
    /\ promised[p] \subseteq probes
    /\ pc[p] = "count" => \A n \in promised[p] \cap files : n \in listed[p] \/ <<p, n>> \in unseen

IInv ==
  /\ TypeOK /\ CommandInv /\ StoreInv /\ NameInv /\ LockInv /\ DropInv
  /\ DeliveryInv /\ AccountInv /\ ProbeInv
  /\ NoLoss /\ NewestKept /\ RepeatOnlyIfUnsettled /\ FlushHonest /\ SelftestLeft
=============================================================================
