--------------------------- MODULE OpenCodePlugin ---------------------------
(***************************************************************************)
(* opencode_plugin.mjs: the plugin sees every tool call of an OpenCode     *)
(* server twice, in the hooks execute.before and execute.after, and in the *)
(* event stream when the call fails.  From these it reports every call of  *)
(* an MCP tool once, with its outcome, and every skill attached to a       *)
(* delivered prompt once.                                                  *)
(*                                                                         *)
(* The nested calls of one "execute" call (Code Mode) share its key and a  *)
(* tool here, so the queue the plugin keeps for them is a number.  The     *)
(* hooks wait for registry lookups and the observer for a context lookup;  *)
(* everything else may happen in between.                                  *)
(***************************************************************************)
EXTENDS Naturals, Sequences, FiniteSets, SequencesExt

CONSTANTS
  Code,          \* the "execute" call; its key
  Nested,        \* calls made inside it
  Direct,        \* calls of their own, each its own key
  Prompts,       \* queued prompts, each with a skill attached
  SettledCap,    \* settled keys remembered; 2048 in the code
  MaxActors,     \* number of calls and prompts of one behaviour
  MaxStream,     \* bound on events that are not handled yet
  MaxLosses      \* bound on disconnections and failing lookups

ASSUME ConstantsAssumption ==
  /\ Code \notin Nested \cup Direct /\ Nested \cap Direct = {} /\ IsFiniteSet(Nested \cup Direct)
  /\ {"up", "down"} \cap Prompts = {}
  /\ SettledCap \in Nat \ {0} /\ {MaxActors, MaxStream, MaxLosses} \subseteq Nat

VARIABLES
  \* the server (external)
  kind,          \* direct call -> "mcp" or "skill"; constant in a behaviour
  call, outcome, \* call -> how far it is; "none", "completed", "error" or "denied"
  outer,         \* how far the execute call is
  published,     \* keys whose failure is in the stream or was
  prompt,        \* prompt -> "new", "queued", "cancelled" or "delivered"
  \* the plugin
  pending,       \* key -> tracked calls that have no outcome yet
  activeCode,    \* the execute call is known to run
  settled,       \* keys that need no more reports, oldest first
  stream,        \* events not handled yet
  observer,      \* "up", "down", or the prompt whose context it waits for
  inbox,         \* prompts whose attachments are cached
  stopped,
  sent,          \* key -> reports by outcome
  activated,     \* prompt -> times its skill was reported
  \* ghosts
  losses,        \* events or lookups were lost
  missed,        \* keys of calls that were tracked after their failure was handled
  reopened       \* keys that were settled and no longer are

server  == <<kind, call, outcome, outer, published, prompt>>
calls   == <<pending, activeCode, settled>>
reports == <<sent, activated>>
ghosts  == <<losses, missed, reopened>>
vars == <<server, calls, stream, observer, inbox, stopped, reports, ghosts>>

Calls    == Nested \cup Direct
Keys     == {Code} \cup Direct
KeyOf(c) == IF c \in Nested THEN Code ELSE c
Mcp(c)   == IF c \in Nested THEN TRUE ELSE kind[c] = "mcp"
NoCalls  == [k \in Keys |-> 0]

Init ==
  /\ kind \in [Direct -> {"mcp", "skill"}]
  /\ \E actors \in SUBSET (Calls \cup Prompts) :
       /\ Cardinality(actors) = MaxActors
       /\ call = [c \in Calls |-> IF c \in actors THEN "new" ELSE "unused"]
       /\ prompt = [e \in Prompts |-> IF e \in actors THEN "new" ELSE "unused"]
  /\ outcome = [c \in Calls |-> "none"]
  /\ outer = "new" /\ published = {}
  /\ pending = NoCalls /\ activeCode = FALSE /\ settled = <<>>
  /\ stream = <<>> /\ observer = "up" /\ inbox = {} /\ stopped = FALSE
  /\ sent = [k \in Keys |-> [succeeded |-> 0, failed |-> 0]]
  /\ activated = [e \in Prompts |-> 0]
  /\ losses = 0 /\ missed = {} /\ reopened = {}

-----------------------------------------------------------------------------
Loss == losses < MaxLosses /\ losses' = losses + 1
Kept == UNCHANGED losses

\* emit: nothing is sent once the plugin is stopped.
Emit(k, result, n) == sent' = IF stopped THEN sent ELSE [sent EXCEPT ![k][result] = @ + n]

\* Mutant of FailPending: only the first call is reported.
FailFirst(k) ==
  Emit(k, "failed", IF pending[k] > 0 THEN 1 ELSE 0) /\ pending' = [pending EXCEPT ![k] = 0]

\* Every call of k that is tracked and has no outcome is reported as failed.
FailPending(k) == Emit(k, "failed", pending[k]) /\ pending' = [pending EXCEPT ![k] = 0]

\* Mutant of IsSettled: nothing is remembered.
NeverSettled(k) == FALSE

IsSettled(k) == k \in Range(settled)
Unsettle(k)  ==
  IF k \in Range(settled) THEN RemoveAt(settled, CHOOSE i \in DOMAIN settled : settled[i] = k) ELSE settled

\* Mutant of Settle: no cap.
SettleAll(k) ==
  settled' = (IF IsSettled(k) THEN settled ELSE Append(settled, k)) /\ UNCHANGED reopened

\* Settled keys are a set in insertion order; the oldest is forgotten at the cap.
Settle(k) ==
  LET added == IF IsSettled(k) THEN settled ELSE Append(settled, k)
  IN  IF Len(added) > SettledCap
        THEN settled' = Tail(added) /\ reopened' = reopened \cup {Head(added)}
        ELSE settled' = added /\ UNCHANGED reopened

\* An event of the server; nobody gets it while the stream is down.
Publish(event) ==
  /\ Len(stream) < MaxStream
  /\ stream' = IF observer = "down" THEN stream ELSE Append(stream, event)

-----------------------------------------------------------------------------
\* execute.before of the execute call, and of another call: it waits for its identity.
BeforeCode ==
  /\ outer = "new" /\ ~stopped /\ outer' = "running"
  /\ activeCode' = TRUE /\ settled' = (IF activeCode THEN settled ELSE Unsettle(Code))
  /\ UNCHANGED <<kind, call, outcome, published, prompt, pending, stream, observer, inbox, stopped, reports, ghosts>>

Before(c) ==
  LET k == KeyOf(c) IN
  /\ call[c] = "new" /\ ~stopped /\ (c \in Nested => outer \in {"running", "failed"})
  /\ call' = [call EXCEPT ![c] = "before"]
  /\ IF k = Code /\ activeCode THEN UNCHANGED <<settled, reopened>>
     ELSE settled' = Unsettle(k) /\ reopened' = IF IsSettled(k) THEN reopened \cup {k} ELSE reopened
  /\ UNCHANGED <<kind, outcome, outer, published, prompt, pending, activeCode, stream, observer, inbox, stopped,
                 reports, losses, missed>>

\* The registry answers, or fails: then the call is not tracked.
Track(c) ==
  LET k == KeyOf(c) IN
  /\ call[c] = "before" /\ call' = [call EXCEPT ![c] = "running"]
  /\ \/ /\ Kept /\ pending' = IF Mcp(c) THEN [pending EXCEPT ![k] = @ + 1] ELSE pending
        /\ missed' = IF k = Code /\ outer \in {"failed", "failed over"} /\ ~activeCode THEN missed \cup {k} ELSE missed
     \/ Mcp(c) /\ Loss /\ UNCHANGED <<pending, missed>>
  /\ UNCHANGED <<kind, outcome, outer, published, prompt, activeCode, settled, stream, observer, inbox, stopped,
                 reports, reopened>>

\* The call ends.  The failure of a direct call is published before its after hook, or
\* after it (Late); a denied call has no after hook.
End(c, result) ==
  /\ call[c] = "running" /\ outcome[c] = "none" /\ ~stopped
  /\ outcome' = [outcome EXCEPT ![c] = result]
  /\ call' = IF result = "denied" THEN [call EXCEPT ![c] = "over"] ELSE call
  /\ IF c \in Direct /\ result # "completed"
       THEN \/ Publish(<<"failed", c>>) /\ published' = published \cup {c}
            \/ result = "error" /\ UNCHANGED <<stream, published>>
       ELSE UNCHANGED <<stream, published>>
  /\ UNCHANGED <<kind, outer, prompt, calls, observer, inbox, stopped, reports, ghosts>>

Late(c) ==
  /\ call[c] = "over" /\ outcome[c] = "error" /\ c \in Direct \ published /\ ~stopped
  /\ Publish(<<"failed", c>>) /\ published' = published \cup {c}
  /\ UNCHANGED <<kind, call, outcome, outer, prompt, calls, observer, inbox, stopped, reports, ghosts>>

\* execute.after: a settled key has been reported; a tracked call has an identity, for
\* another it is looked up again.
Report(c) == Emit(KeyOf(c), IF outcome[c] = "completed" THEN "succeeded" ELSE "failed", 1)

After(c) ==
  LET k == KeyOf(c) IN
  /\ call[c] = "running" /\ outcome[c] \in {"completed", "error"} /\ ~stopped
  /\ \/ /\ IsSettled(k) /\ call' = [call EXCEPT ![c] = "over"] /\ UNCHANGED <<pending, sent>>
     \/ /\ ~IsSettled(k) /\ pending[k] > 0 /\ call' = [call EXCEPT ![c] = "over"]
        /\ pending' = [pending EXCEPT ![k] = @ - 1] /\ Report(c)
     \/ /\ ~IsSettled(k) /\ ~Mcp(c) /\ call' = [call EXCEPT ![c] = "over"] /\ UNCHANGED pending
        /\ IF outcome[c] = "completed" THEN Report(c) ELSE UNCHANGED sent
     \/ /\ ~IsSettled(k) /\ Mcp(c) /\ pending[k] = 0
        /\ call' = [call EXCEPT ![c] = "after"] /\ UNCHANGED <<pending, sent>>
  /\ UNCHANGED <<kind, outcome, outer, published, prompt, activeCode, settled, stream, observer, inbox, stopped,
                 activated, ghosts>>

Identified(c) ==
  /\ call[c] = "after" /\ call' = [call EXCEPT ![c] = "over"]
  /\ \/ Kept /\ Report(c)
     \/ Loss /\ UNCHANGED sent
  /\ UNCHANGED <<kind, outcome, outer, published, prompt, calls, stream, observer, inbox, stopped, activated, missed,
                 reopened>>

\* The execute call ends when its nested calls have, or fails at any time: then there
\* is an event, and nested calls may still go on before an after hook or without one.
AfterCode ==
  /\ ~stopped
  /\ \/ outer = "running" /\ outer' = "over" /\ \A c \in Nested : call[c] \in {"unused", "new", "over"}
     \/ outer = "failed" /\ outer' = "failed over"
  /\ IF IsSettled(Code) THEN UNCHANGED <<calls, sent, reopened>>
     ELSE FailPending(Code) /\ activeCode' = FALSE /\ Settle(Code)
  /\ UNCHANGED <<kind, call, outcome, published, prompt, stream, observer, inbox, stopped, activated, losses, missed>>

FailCode ==
  /\ outer = "running" /\ outer' = "failed" /\ ~stopped
  /\ Publish(<<"failed", Code>>) /\ published' = published \cup {Code}
  /\ UNCHANGED <<kind, call, outcome, prompt, calls, observer, inbox, stopped, reports, ghosts>>

\* Prompts are queued, then cancelled or delivered; a session may be deleted, moved or
\* reverted, which the plugin answers by forgetting what it cached.
Prompt(e) ==
  /\ ~stopped
  /\ \/ prompt[e] = "new" /\ prompt' = [prompt EXCEPT ![e] = "queued"] /\ Publish(<<"enqueued", e>>)
     \/ prompt[e] = "queued" /\ prompt' = [prompt EXCEPT ![e] = "cancelled"] /\ Publish(<<"cancelled", e>>)
     \/ prompt[e] = "queued" /\ prompt' = [prompt EXCEPT ![e] = "delivered"] /\ Publish(<<"delivered", e>>)
  /\ UNCHANGED <<kind, call, outcome, outer, published, calls, observer, inbox, stopped, reports, ghosts>>

Revert ==
  /\ ~stopped /\ \E e \in Prompts : prompt[e] = "queued"
  /\ \A j \in DOMAIN stream : stream[j][1] # "reverted"
  /\ Publish(<<"reverted", Code>>)
  /\ UNCHANGED <<server, calls, observer, inbox, stopped, reports, ghosts>>

-----------------------------------------------------------------------------
\* The observer handles one event at a time.
Handling(type) == observer = "up" /\ stream # <<>> /\ Head(stream)[1] = type /\ stream' = Tail(stream)
Subject        == Head(stream)[2]

ToolFailed ==
  /\ Handling("failed") /\ FailPending(Subject)
  /\ activeCode' = (activeCode /\ Subject # Code)
  /\ IF pending[Subject] > 0 THEN Settle(Subject) ELSE UNCHANGED <<settled, reopened>>
  /\ UNCHANGED <<server, observer, inbox, stopped, activated, losses, missed>>

Enqueued ==
  /\ Handling("enqueued") /\ inbox' = inbox \cup {Subject}
  /\ UNCHANGED <<server, calls, observer, stopped, reports, ghosts>>

Forgotten ==
  /\ \/ Handling("cancelled") /\ inbox' = inbox \ {Subject}
     \/ Handling("reverted") /\ inbox' = {}
  /\ UNCHANGED <<server, calls, observer, stopped, reports, ghosts>>

\* A prompt that is not cached is looked up in the session's context.
Activate(e) == activated' = IF stopped THEN activated ELSE [activated EXCEPT ![e] = @ + 1]

\* Mutant of Delivered: the context is read even for a prompt that was cached.
DeliveredTwice ==
  /\ Handling("delivered") /\ inbox' = inbox \ {Subject} /\ observer' = Subject
  /\ IF Subject \in inbox THEN Activate(Subject) ELSE UNCHANGED activated
  /\ UNCHANGED <<server, calls, stopped, sent, ghosts>>

Delivered ==
  /\ Handling("delivered") /\ inbox' = inbox \ {Subject}
  /\ IF Subject \in inbox THEN Activate(Subject) /\ UNCHANGED observer
                          ELSE observer' = Subject /\ UNCHANGED activated
  /\ UNCHANGED <<server, calls, stopped, sent, ghosts>>

Context ==
  /\ observer \in Prompts /\ observer' = "up"
  /\ \/ Kept /\ Activate(observer)
     \/ Loss /\ UNCHANGED activated
  /\ UNCHANGED <<server, calls, stream, inbox, stopped, sent, missed, reopened>>

\* The stream ends: what is tracked, cached or still to come is forgotten, and after a
\* pause there is a new stream.
Disconnect ==
  /\ observer = "up" /\ ~stopped /\ Loss
  /\ observer' = "down" /\ stream' = <<>> /\ pending' = NoCalls /\ inbox' = {} /\ activeCode' = FALSE
  /\ UNCHANGED <<server, settled, stopped, reports, missed, reopened>>

Reconnect ==
  /\ observer = "down" /\ ~stopped /\ observer' = "up"
  /\ UNCHANGED <<server, calls, stream, inbox, stopped, reports, ghosts>>

Stop ==
  /\ ~stopped /\ stopped' = TRUE
  /\ pending' = NoCalls /\ inbox' = {} /\ activeCode' = FALSE /\ settled' = <<>> /\ stream' = <<>>
  /\ UNCHANGED <<server, observer, reports, ghosts>>

Next ==
  \/ BeforeCode \/ AfterCode \/ FailCode
  \/ \E c \in Calls : \/ Before(c) \/ Track(c) \/ After(c) \/ Identified(c) \/ Late(c)
                      \/ \E result \in {"completed", "error", "denied"} : End(c, result)
  \/ \E e \in Prompts : Prompt(e)
  \/ Revert \/ ToolFailed \/ Enqueued \/ Forgotten \/ Delivered \/ Context
  \/ Disconnect \/ Reconnect \/ Stop

Spec == Init /\ [][Next]_vars

-----------------------------------------------------------------------------
CallsOf(k)        == {c \in Calls : KeyOf(c) = k}
Attempted(k)      == {c \in CallsOf(k) : call[c] \notin {"unused", "new"}}
Ended(k, results) == {c \in CallsOf(k) : outcome[c] \in results}
Total(k)          == sent[k].succeeded + sent[k].failed

TypeOK ==
  /\ kind \in [Direct -> {"mcp", "skill"}]
  /\ call \in [Calls -> {"unused", "new", "before", "running", "after", "over"}]
  /\ outcome \in [Calls -> {"none", "completed", "error", "denied"}]
  /\ outer \in {"new", "running", "failed", "failed over", "over"} /\ published \subseteq Keys
  /\ prompt \in [Prompts -> {"unused", "new", "queued", "cancelled", "delivered"}]
  /\ pending \in [Keys -> 0 .. Cardinality(Calls)] /\ activeCode \in BOOLEAN
  /\ Range(settled) \subseteq Keys /\ Len(settled) \in 0 .. SettledCap
  /\ Cardinality(Range(settled)) = Len(settled)
  /\ observer \in {"up", "down"} \cup Prompts /\ inbox \subseteq Prompts /\ stopped \in BOOLEAN
  /\ sent \in [Keys -> [succeeded : Nat, failed : Nat]] /\ activated \in [Prompts -> Nat]
  /\ losses \in 0 .. MaxLosses /\ missed \subseteq Keys /\ reopened \subseteq Keys

\* No call is reported twice, whatever the order of its hooks, of the event of its failure
\* and of lost streams (execute.before and after, session.tool.failed), and no outcome is
\* reported that a direct call did not have; unless a later nested call, or the cap,
\* reopened the key.
AtMostOnce ==
  \A k \in Keys \ reopened :
    /\ Total(k) <= Cardinality(Attempted(k))
    /\ sent[k].succeeded <= Cardinality(Ended(k, {"completed"}))
    /\ k \in Direct => sent[k].failed <= Cardinality(Ended(k, {"error", "denied"}))

\* Every event was seen and handled, and every lookup answered.
Quiet == losses = 0 /\ ~stopped /\ stream = <<>> /\ observer = "up"

KeyOver(k) ==
  IF k = Code THEN outer \in {"failed", "failed over", "over"} /\ \A c \in Nested : call[c] \notin {"before", "after"}
              ELSE call[k] = "over"

\* Once a call is over each of its attempts has been reported (docs/agent-integration.md,
\* "Each nested MCP invocation produces its own terminal event", "Denied MCP attempts are
\* included"), successes as such unless the execute call failed, and none stays tracked;
\* except for an execute call of which a nested call was tracked only after its failure had
\* been handled, and for keys that were settled and no longer are.
AllReported ==
  Quiet => \A k \in Keys \ (missed \cup reopened) : KeyOver(k) =>
    LET done == Cardinality(Ended(k, {"completed"})) IN
    /\ pending[k] = 0 /\ (k = Code => ~activeCode)
    /\ IF k = Code \/ Mcp(k) THEN Total(k) = Cardinality(Attempted(k)) ELSE Total(k) = done
    /\ k # Code \/ outer = "over" => sent[k].succeeded = done

\* The skill of a prompt counts once if the prompt is delivered and never otherwise, cached
\* or looked up (session.inbox.* and the context lookup); what is cached is still queued.
SkillOnce ==
  \A e \in Prompts :
    /\ activated[e] <= (IF prompt[e] = "delivered" THEN 1 ELSE 0)
    /\ Quiet => inbox \cap {e} = {} \/ prompt[e] = "queued"
    /\ Quiet /\ prompt[e] = "delivered" => activated[e] = 1

-----------------------------------------------------------------------------
(* The inductive invariant of these properties. *)

Run(k)  == {c \in CallsOf(k) : call[c] \in {"running", "over"}}
Over(k) == {c \in CallsOf(k) : call[c] = "over"}
Done(k) == {c \in Over(k) : outcome[c] = "completed"}

Undisturbed      == losses = 0 /\ ~stopped
Awaited(type, x) == <<type, x>> \in Range(stream)

\* The types of the variables; the settled keys are in some order, each once.
ShapeInv ==
  /\ kind \in [Direct -> {"mcp", "skill"}]
  /\ call \in [Calls -> {"unused", "new", "before", "running", "after", "over"}]
  /\ outcome \in [Calls -> {"none", "completed", "error", "denied"}]
  /\ outer \in {"new", "running", "failed", "failed over", "over"} /\ published \subseteq Keys
  /\ prompt \in [Prompts -> {"unused", "new", "queued", "cancelled", "delivered"}]
  /\ pending \in [Keys -> Nat] /\ activeCode \in BOOLEAN
  /\ settled \in Seq(Keys) /\ Len(settled) <= SettledCap
  /\ \A i, j \in DOMAIN settled : settled[i] = settled[j] => i = j
  /\ stream \in Seq(({"failed"} \X Keys) \cup ({"enqueued", "cancelled", "delivered"} \X Prompts)
                      \cup ({"reverted"} \X {Code}))
  /\ observer \in {"up", "down"} \cup Prompts /\ inbox \subseteq Prompts /\ stopped \in BOOLEAN
  /\ sent \in [Keys -> [succeeded : Nat, failed : Nat]] /\ activated \in [Prompts -> Nat]
  /\ losses \in 0 .. MaxLosses /\ missed \subseteq Keys /\ reopened \subseteq Keys

\* A call and its outcome.
CallInv ==
  \A c \in Calls :
    /\ call[c] \in {"unused", "new", "before"} => outcome[c] = "none"
    /\ call[c] = "after" => outcome[c] \in {"completed", "error"} /\ Mcp(c)
    /\ call[c] = "over" => outcome[c] # "none"
    /\ c \in Nested => /\ outer = "new" => call[c] \in {"unused", "new"}
                       /\ outer = "over" => call[c] \in {"unused", "new", "over"}

\* No more reports and tracked calls than calls, and, if nothing disturbed the plugin, no fewer.
CountInv ==
  \A k \in Keys :
    /\ pending[k] <= Cardinality(Run(k)) /\ sent[k].succeeded <= Cardinality(Done(k))
    /\ k \notin reopened => /\ Total(k) + pending[k] <= Cardinality(Run(k))
                            /\ ~IsSettled(k) /\ ~stopped => Total(k) <= Cardinality(Over(k))
    /\ k \notin reopened /\ Undisturbed /\ (k = Code \/ Mcp(k)) => Total(k) + pending[k] = Cardinality(Run(k))

\* A call of its own: only its failure settles it, and what stays tracked has a failure to come.
DirectInv ==
  \A k \in Direct :
    /\ sent[k].failed > 0 \/ IsSettled(k) \/ Awaited("failed", k) => outcome[k] \in {"error", "denied"}
    /\ IsSettled(k) => pending[k] = 0
    /\ ~Mcp(k) => /\ pending[k] = 0 /\ ~IsSettled(k)
                  /\ Undisturbed => Total(k) = Cardinality(Done(k))
    /\ Undisturbed /\ call[k] = "over" /\ pending[k] > 0 => Awaited("failed", k)

\* The execute call: while it is known to run it is not settled, and then its calls are tracked.
CodeInv ==
  /\ activeCode => ~IsSettled(Code) /\ outer \in {"running", "failed"}
  /\ outer = "new" => ~IsSettled(Code)
  /\ Awaited("failed", Code) => outer \notin {"new", "running"}
  /\ Undisturbed =>
       /\ outer = "running" => activeCode
       /\ activeCode /\ outer = "failed" => Awaited("failed", Code)
       /\ Code \notin missed /\ ~activeCode => pending[Code] = 0
       /\ Code \notin reopened /\ outer \in {"running", "over"} => sent[Code].succeeded = Cardinality(Done(Code))

\* A prompt is activated, looked up or has its delivery in the stream, and no two of these.
PromptInv ==
  /\ observer = "down" => losses > 0
  /\ \A e \in Prompts :
       /\ Awaited("delivered", e) => prompt[e] = "delivered" /\ observer # e /\ activated[e] = 0
       /\ \A i, j \in DOMAIN stream : stream[i] = <<"delivered", e>> /\ stream[j] = <<"delivered", e>> => i = j
       /\ observer = e => prompt[e] = "delivered" /\ activated[e] = 0
       /\ activated[e] <= (IF prompt[e] = "delivered" THEN 1 ELSE 0)
       /\ Undisturbed /\ prompt[e] = "delivered" => activated[e] = 1 \/ observer = e \/ Awaited("delivered", e)
       /\ Undisturbed /\ e \in inbox /\ prompt[e] # "queued" => Awaited("cancelled", e) \/ Awaited("delivered", e)
       /\ Undisturbed => \A i \in DOMAIN stream : stream[i] = <<"enqueued", e>> =>
            prompt[e] = "queued" \/ \E j \in DOMAIN stream : j > i /\ stream[j] \in {<<"cancelled", e>>, <<"delivered", e>>}

IInv == ShapeInv /\ CallInv /\ CountInv /\ DirectInv /\ CodeInv /\ PromptInv
=============================================================================
