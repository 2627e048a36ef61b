# Verification of ai-agent-telemetry

`ai-agent-telemetry` is a command line tool that AI coding harnesses (Claude Code, Codex, Cursor, Cline, OpenCode) run
as a hook. Each run turns one hook payload into telemetry events, buffers them in a per-user directory, and now and
then sends the buffer to an OpenTelemetry collector. There is no daemon: all concurrency is between short-lived
processes that share files, and every process may be killed at any step.

This directory holds TLA+ models of that system, the TLC configurations that check them on small instances, and
machine-checked proofs about them. Line numbers refer to the repository at the modelled commit; `PROJECT.json` maps each
definition to the lines it stands for.

## Inventory

| Component | State it keeps | Operations | Talks to | What is hard |
|---|---|---|---|---|
| Outbox (`outbox.go`) | one file per event, `.last_delivery_error` | Enqueue, List, Read, Remove, Rotate | every command, through the directory | listings go stale while other processes add and remove |
| Flush and delivery (`flush.go`) | `.flush.lock` | Flush (opportunistic), flushExplicit (strict), deliverEvents | outbox, collector, machine id | lock taken between two listings, partial failures, crash between export and removal |
| Ingest (`main.go`) | `.lastflush` | ingest, shouldFlush, touchFlushStamp | adapters, policy, outbox, flush | must never fail the agent's turn; throttles flushes |
| Selftest, status, configure (`commands.go`) | `env`, `repo-allow`, `path-allow` | runSelftest, gatherStatus, applyConfigure | outbox, flush | concludes delivery from a file's absence |
| Offset store (`outbox.go`) | one offset and one lock per transcript | lock, Load, Save | transcript scanning | exactly-once over a growing file |
| Transcript scanning (`transcript_codex.go`, `transcript_cursor.go`) | none of its own | scan from offset, emit, store the end | harness's files, offset store, ingest | half-written lines, truncation, concurrent hooks, upgrade of the key |
| Event schema (`event.go`) | none | validation, reading of old shapes | outbox | compatibility |
| Harness adapters (`detect*.go`) | none | payload to events | ingest | input variety |
| Policy (`policy.go`, `path_policy.go`) | none | repository and path patterns | ingest | pattern matching with `**` |
| Machine id (`config.go`) | `machine-id` | read or create | delivery | crash between creating and writing |
| Hook files (`hooks*.go`, `hookfile.go`, `codex_rule.go`) | each harness's settings | merge, inspect, remove | lifecycle | users and harnesses edit the same files |
| Cline hook (`hooks_cline.go`) | one script, quarantine files | install, inspect, remove | lifecycle | must not delete a user's file |
| OpenCode installer (`hooks_opencode.go`) | plugin, receipt, receipt lock | install, status, remove | lifecycle | two files that must agree |
| OpenCode plugin (`opencode_plugin.mjs`) | pending calls, inbox, settled calls | before/after hooks, event stream | `ingest` | callbacks interleave at each await |
| Lifecycle (`lifecycle.go`, `component_telemetry.go`, `configure_skill.go`, `selection.go`) | none of its own | install, update, uninstall | all installers | one of several steps fails |
| Managed CLI (`managed_cli*.go`) | executable, PATH entry, receipt | install, remove | lifecycle | rollback across two stores |
| Self-update (`update.go`) | staged and stale images | handoff, swap, cleanup | managed CLI, lifecycle | replacing a running executable |
| Legacy APM migration (`legacy_apm.go`) | none | run once | lifecycle | external tool |
| Backend maintenance (`telemetry-backend/scripts`) | transaction file, locks, releases | backup, update, recover | Docker | killed at any step |

For each component, what makes it correct:

* **Outbox, flush, ingest, selftest:** no event is lost except to the cap; the cap evicts the oldest; an event repeats
  only when its sender could not know better; success is reported only when it is true; everything leaves in the end.
* **Transcripts:** each line of a transcript is counted once: not twice by concurrent hooks, and not skipped.
* **Machine id:** one identifier per machine, whatever crashes.
* **Hook files, Cline, OpenCode installer:** what a user or another tool wrote is preserved; what is owned is removed.
* **OpenCode plugin:** each call is reported once with its own outcome.
* **Lifecycle, managed CLI, update:** there is always a working executable for the hooks that call it, and what was
  added is removed by uninstall.
* **Policy, event schema:** the matcher agrees with the documented meaning of patterns; old files stay readable.

## Modules

| Module | Models | Role |
|---|---|---|
| `Outbox` | `outbox.go`, `flush.go`, `main.go` (ingest), `commands.go` (selftest) | the concurrent system of `ingest`, `flush` and `selftest` processes on one outbox |
| `EventBuffer` | what `docs/cli.md` promises of the outbox | abstract specification, implemented by `Outbox` |
| `Transcripts` | `transcript_*.go`, `OffsetStore` | hooks that scan growing transcripts |
| `Lifecycle` | `lifecycle.go`, `component_telemetry.go`, `managed_cli*.go`, `update.go`, `configure_skill.go`, `legacy_apm.go` | `install`, `update`, `uninstall`, with failures and crashes |
| `HookMerge` | the merges and removals of `hooks*.go` | pure operators on a settings file |
| `HookFiles` | `hookfile.go`, `hooks*.go`, `codex_rule.go` | two hooks commands and a user on the file of one harness; extends `HookMerge` |
| `OpenCodePlugin` | `opencode_plugin.mjs` | callbacks and event stream of the plugin |
| `Policy` | `policy.go`, `path_policy.go` | pure operators: matchers and decision |
| `Configuration` | `commands.go` (configure), `config.go` and `policy.go` (loading) | configures and a hook that resolves the policy; extends `Policy` |
| `OutboxProofs`, `TranscriptProofs`, `LifecycleProofs`, `HookFilesProofs`, `HookMergeProofs`, `ConfigurationProofs`, `OpenCodePluginProofs` | | theorems about the module of that name |
| `DataInduction` | | induction over numbers and sequences as lemmas about sets, for `HookMergeProofs` and `ConfigurationProofs` |
| `MC*` | | instances for TLC |

### `Outbox`

A process is an element of `Hooks`, `Flushers` or `Testers`: a slot in which a harness runs `ingest` or a person runs
`flush` or `selftest`, again and again. Shared state is what is on disk: `files` (the event files), `lock`, `fresh`
(`.lastflush` is younger than the interval), `configured` (an endpoint is saved) and `lastError`. Everything else a
process knows (`listed`, `batch`, `retained`, ...) is its own and is lost when it ends. Each file operation is an
action, because another process may act between any two:

| Code | Actions |
|---|---|
| `Enqueue`: choose a name, write a temporary file, rename | `WriteTemp`, `Rename`, `EnqueueFails` |
| `Rotate`: list, remove the excess one by one, stop at the first error | `ListExcess`, `Drop`, `DropFails` |
| `shouldFlush`, `touchFlushStamp` | `Decide`, `TouchFlushStamp` |
| `Flush`, `flushExplicit` up to the listing under the lock | `FlushStart`, `TryLock`, `LockBusy`, `ListLocked` |
| `deliverEvents` | `ReadEvent`, `Export`, `DeliveryFails`, `RemoveSent`, `RemoveFails`, `Settle` |
| a directory that cannot be listed, a lock that cannot be taken | `ListFails` |
| `runSelftest`, `probesRemaining` | `SelftestCommand`, `ListProbes`, `CountProbe`, `ProbesUnlisted`, `ProbeUnread` |
| the surroundings | `Crash`, `Tick`, `Configure` |

A file is a number, its name; names are handed out in the order in which temporary files are written, which is the
order `List` sorts them in. `Damaged` are files that `Read` or `eventRecord` rejects. The collector is the set
`received`; a delivery that fails or is cut by a crash may have reached it in part, and the sender's doubt is recorded in
`unsettled`. A probe that the selftest could not list or read is in `unseen`. The history variables (`enqueued`, `received`,
`repeated`, `dropped`, `unsettled`, `unseen`) appear in no guard of the program; only `clock` and `faults`, which carry the bounds, do.

### `Transcripts`

A transcript is its length. A line takes three positions, so a scan may find its JSON cut, whole without a newline, or
complete. `Append` is the harness writing one piece, `Truncate` the harness starting over. A hook walks through
`Open`, `LockOffset` (blocking), `LoadOffset` or `LoadFails`, `Scan`, `Save` for each transcript of its `queue` and then enqueues
the lines it holds. The Codex hook (`Stop`) has one transcript; Cursor's `AfterAgentResponse` has the parent, then each
subagent, and `SubagentStop` one subagent. `legacy` is the per-session offset of older releases. A hook without session
id or store (`keyed` false) scans everything without lock or offset, as the code does. `LoadFails` is an offset file that cannot be
read or parsed (it counts as 0), one that seems not to exist (the old offset is taken instead), or a transcript whose length is
not known. `excused` has the lines that the code then emits again: those of a scan that stored no offset, and those between the
offset it took and the one on record.

### `Lifecycle`

One command runs at a time (`run`, with the phase it is in); the state is the managed executable (`exe`, a release), the
images of a Windows swap (`staged`, `stale`, `helper`), the PATH entry of each place (`path`: a profile, or the registry
value) with its `receipt`, and the telemetry side (`configured`, `cache`, `hooks`, `legacy`, `skill`). Every file operation
is an action with a disjunct for its failure, and `Crash` may end the command before any of them. The order is the code's:

| Code | Actions |
|---|---|
| `runLifecycle`, preflights | `StartInstall`, `StartUninstall`, `Refuse` |
| `newUpdateHandoff` to `runVerifiedUpdateChild` | `ResolveLatest`, `Verify` |
| `runWindowsUpdateSwapWith` | `Stage`, `MoveAside`, `SwapIn`, `MoveBack`, `StartHelper` |
| `cleanupUpdateImageWith` | `CleanUp`, `HelperDies` |
| managed CLI `Install` | `CopyExecutable`, `EnsureRead`, `EnsureWrite`, `Notify`, `Restore`, `WriteReceipt` |
| telemetry and skill, install | `Configure`, `MigrateLegacy`, `InstallHook`, `HooksInstalled`, `InstallSkill` |
| telemetry and skill, uninstall | `RemoveHook`, `HooksRemoved`, `Purge`, `UninstallSkill` |
| managed CLI `Remove` | `ReadReceipt`, `RemovePathRead`, `RemovePathWrite`, `PathRemoved`, `RemoveExecutable`, `RemoveReceipt` |

`UserEdit` is the user, or another installer, adding an entry to PATH, also between the code's read and write; what the
code cannot notice is recorded in `excused`.

### `HookMerge` and `HookFiles`

A behaviour is about the file of one `harness`. The JSON file of Claude Code, Codex and Cursor is `doc`, a sequence of
groups with a matcher flag, unknown fields, an ownership marker and handlers (`"own"` the canonical one, `"old"` and `"apm"`
earlier ones, others the user's); Cursor has one list. `Merge` and `RemoveOwned` are pure; `ReadDoc`, `WriteDoc` are the
read and the rename, with `SaveHandler`, a save by the user or the harness, possible in between. Cline's hook and OpenCode's
plugin are whole files: `Inspect` or `Lock` and `Look`, then `Create` and `Write`, or `Isolate` (rename to a quarantine name),
`Recheck`, and `Discard` or `Restore`; `Record` writes OpenCode's receipt before `Unlock`. `PutFile` is the user putting a
file at that place at any moment. `Status` is what `hooks status` would show.

### `OpenCodePlugin`

`call`, `outcome`, `outer` and `prompt` are the server's; the rest is the plugin's. Each callback is one action up to its
next `await` and another one after it: `Before` and `Track` (the lookups of `identity`), `After` and `Identified`, `Delivered`
and `Context`. `stream` holds the events that are published and not handled; `Disconnect` loses it and clears the maps,
`Reconnect` follows. `KeyOf` gives nested calls the key of their `execute` call, as in the code.

### `Policy` and `Configuration`

`Policy` translates `matchPathSegments` (a recursion over rests, here a recursive function of their lengths) and
`matchPolicyPathSegments` (a row of positions for each beginning of the pattern, here a recursive function of its length) and
states what both should compute (`Means`). In `Configuration` a configure merges the env file (`Merge`) and replaces
each file by `Open` (which truncates the temporary file of a fixed name), `Fill` (which writes to the opened file, wherever
a rename has put it since) and `Publish`. The hook reads env, repository list and path list in three steps and decides;
each read may fail (`unread`), which counts as no file, or, for the path list, as an invalid one.
`meant` is what the files would hold if each configure took effect at its renames; `shared` are files that two configures
had in hand at once, `spoilt` ones that a configure could not read or that the user edited under one. `seen` records, moment by
moment while the hook reads, what the files allow: `joint` that telemetry was enabled and the lists allowed the event at the
same moment, `off` that it was disabled at some moment, `enabled` what the hook found first, `lists` that the lists allowed the
event at some moment.

## Runs

| Run | Instance | Shows |
|---|---|---|
| `outbox_delivery` | 2 ingests, 1 flush, cap 1, a damaged file, 2 names, 1 fault | `NoLoss`, `RepeatOnlyIfUnsettled`, `FlushHonest`, `NewestKept`, `ErrorClearedByHolder` |
| `outbox_selftest` | 1 ingest with up to 2 events, 1 selftest, 3 names, 1 fault | `TypeOK`, `SelftestLeft`, `IInv`, refinement of `EventBuffer` |
| `outbox_live` | 2 ingests, fair | `EventuallyLeaves`, `CapRestored` |
| `outbox_cap` (violated) | 2 ingests, no fault | finding 1 |
| `outbox_probe` (violated) | 1 ingest, 1 selftest, no fault | finding 2 |
| `transcripts` | 2 hooks, parent and subagent, 1 fault, 1 truncation, both harnesses | `TypeOK`, `CountedOnce`, `NoneSkipped`, `CursorCountsAll`, `LegacyHonoured`, `OffsetsAdvance` |
| `transcripts_live` | 2 hooks, Cursor, 1 fault, fair | `EventuallyCounted` |
| `transcripts_cut` (violated) | 1 hook, Codex, no fault | finding 3 |
| `lifecycle` | 2 commands, both platforms, 2 harnesses, 2 profiles, 2 releases, 1 fault, 1 edit, fair | `HooksCallable`, `HooksReady`, `InstallHonest`, `UninstallClean`, `PathKept`, `StaleRemoved` |
| `hook_files` | 2 processes, 5 harnesses, 2 or 3 commands, 2 releases, 2 roots, 1 fault, 1 change by the user | `UserFileKept`, `UserHandlersKept`, `InstallHonest`, `RemoveHonest`, `Recognised`, `MergeStable` |
| `opencode_plugin` | 1 execute call with 2 nested ones, 1 direct call, 1 prompt, 1 loss | `AtMostOnce`, `AllReported`, `SkillOnce` |
| `configuration` | 2 configures, 4 requests, a hook, 1 fault | `SettingsKept`, `ConfigureHonest`, `NoStranger`, `MatchersAgree` |

What the newer properties say:

* `HooksCallable`: native hooks run the managed executable at every prompt, so while one is installed there is a verified
  executable, except inside the two renames of a Windows swap and after one that was killed there or not rolled back.
  Of what follows such a swap in the same behaviour it says nothing more: `stranded` is never reset. `HooksReady`: hooks of
  install and update exist only with an endpoint saved and the legacy package gone; `hooks install`, which asks for neither, is
  not a lifecycle command and is modelled in `HookFiles` alone. `InstallHonest`, `UninstallClean`: a
  reported success is one. `PathKept`: what a user put on PATH stays, even an entry equal to ours, unless PATH was edited
  between a command's read and write, or an earlier uninstall removed the entry, failed, and left its receipt. `StaleRemoved` (under
  fairness): an old image goes, or its helper was killed or used up its attempts.
* `UserFileKept`: a file of the user's at our place survives every interleaving with the quarantine, in place or under its
  quarantine name. `UserHandlersKept`: only a save between read and rename can be lost. `InstallHonest` and `RemoveHonest`:
  an undisturbed success leaves exactly one hook, or nothing of ours. `Recognised`: the receipt knows every plugin a
  later release must recognise, but that of an install that failed or was killed between replacement and receipt.
  `MergeStable`: merge and removal are idempotent and leave the user's handlers alone.
* `AtMostOnce`, `AllReported`, `SkillOnce`: each call is reported once, with its own outcome, and each skill of a delivered
  prompt counted once, in whatever order hooks, events and lookups come; except for the keys in `missed` and `reopened`:
  the two disagreements on the plugin below, and keys that the cap on settled calls has evicted.
* `SettingsKept`: configures that do not overlap lose nothing, whatever a killed or failed one left. `ConfigureHonest`:
  success means that every file was published, the path list last; a repository list without a pattern (`--repo-allow ','`) asks
  for nothing, as in the code. `NoStranger`: an event is let through only if the settings of one single moment of the hook's
  three reads, taken together, allow it by the meaning of their patterns, with the one exception described under "Policy read
  file by file" below. `MatchersAgree`: both matchers compute `Means` for all patterns of up to four segments over paths
  of up to three.

**Bounds.** Names stop at `LastName`: then no event is buffered any more, but every other step goes on. Two events and
two processes per conflict are enough for the races in question (two on one file, two on one lock, one adding while
another trims), and a cap of one makes every second event an excess. `CountN` is 2, so both reasons to flush occur.
`MaxFaults` is 1 in the passing runs: every single crash or failure at every step; the proofs hold for any number.
`outbox_delivery` identifies the ingest slots by symmetry; the liveness runs use none. In `Transcripts` the parent has
an old line and a new one, the subagent one, so that offsets differ from zero and from each other.
Two lifecycle commands are enough for each to meet what the other left; two releases make one outdated. `Attempts` is 2
instead of 20 and `SettledCap` 1 instead of 2048, so that both are used up. A third hooks command is allowed for Cline and
OpenCode, where a release, a root and a receipt have to meet; `MCDocs` has every small settings file with up to two groups
and owned, older and foreign handlers in every position that the merge tells apart. In `OpenCodePlugin` three of the four
actors act in one behaviour. In `Configuration` one request is empty but for the endpoint, so that the default list applies.

**Deadlock** is checked in the runs of `Outbox` and `Transcripts`: slots can always start another command. The other
models end when their bounds are used up.

**Fairness.** `FairSpec` of `Outbox` assumes weak fairness of each process's steps (the operating system runs it),
of `Ingest` (harnesses keep running hooks: the tool has no other motor) and of `Tick` (time passes). Failures need no
fairness against them, since the bound ends them. `FairSpec` of `Transcripts` assumes weak fairness of each hook's
steps, strong fairness of `LockOffset` (the kernel serves the waiters of a blocking lock; without it a parent's hook
could wait for its subagent's lock for ever while other hooks pass it) and strong fairness of the session's own
hook. No fairness is assumed of `SubagentStop`. `FairSpec` of `Lifecycle` assumes weak fairness of the running command and
of each cleanup helper, which the operating system runs; both are loops without other conditions.

## Findings

1. **A rotation gives up when someone else was faster** (`outbox.go:151`). `Rotate` returns at the first `Remove`
   that fails, also with "no such file" because a concurrent ingest or flush removed it. The rest of the excess stays,
   and with no process running the outbox can exceed its cap, against the comment at `outbox.go:139` and
   `docs/cli.md:274`. The next undisturbed ingest repairs it (`CapRestored`).
2. **A selftest can report a delivery that did not happen** (`commands.go:226`). `Flush` returns no error when the
   lock is held; if a concurrent ingest then rotates the probe away, no probe remains and `Delivered` is true, against
   `commands.go:205`. Neither a listing nor a probe that cannot be read counts as a probe either (`commands.go:233`, `:238`).
   `SelftestLeft` states what an "ok" does guarantee: the probe left by delivery or rotation, or the selftest could not look.
3. **Codex: a line being written when the hook runs is lost** (`transcript_codex.go:106`). The scan counts the
   unterminated last line into the offset. The Cursor scan has the missing case (`transcript_cursor.go:42-44`);
   `docs/cli.md:231-234` promises that one skill run counts once.

### Disagreements without a run of their own

Met while modelling, excluded from the properties by a history variable and described here:

* **OpenCode, late nested call** (`opencode_plugin.mjs:88`). A nested call that starts after the failure of its execute
  call was handled takes the key out of `settled`; a late `execute.after` of a call that the failure already reported is
  then reported again, against the test title at `opencode_plugin_test.mjs:355`. (`reopened`)
* **OpenCode, slow lookup** (`opencode_plugin.mjs:93`). A nested call whose identity lookup ends after the failure of its
  execute call was handled stays in `pending` and may never be reported, against `docs/agent-integration.md`, "Each nested MCP
  invocation produces its own terminal event". (`missed`)
* **PATH receipt** (`managed_cli.go:146`). An install under another shell overwrites the receipt, so uninstall removes only the
  second profile's block, against `docs/cli.md`, "CLI removal reverses that exact mutation". On Windows a crash between
  the PATH write and the receipt leaves the entry for good, an uninstall that removed the entry and then failed lets the next one
  take an equal entry of the user, and the rollback of a failed notification writes back the whole old value. (`orphans`, `spent`, `excused`)
* **Configure at the same time** (`commands.go:164`). Two configures share one temporary file: the "atomic" write can publish a
  truncated or mixed file, or end with "no such file", and keys are lost; an env file that cannot be read counts as empty and
  is replaced; a truncated repository list counts as none, which means the default list. (`shared`, `spoilt`)
* **Policy read file by file** (`policy.go:28`). When a hook has read that telemetry is enabled, the user then disables it and
  a configure widens the repository list before the hook reads that, an event leaves that no moment allowed (`seen.off`); the same
  when the env file cannot be read, which counts as enabled. `NoStranger` bounds this: telemetry was enabled as far as the hook
  could read, and the lists did allow the event. A repository list that cannot be read stands for the default one. Conversely, an event
  that the policy always allowed may be dropped when configure moves it from the path list to the repository list between two reads.
* **Hook files.** Install overwrites a modified Codex rule that uninstall would keep; a crash leaves a partial Cline or OpenCode
  file that later installs refuse; a failed creation removes by name and may hit a file the user put there meanwhile
  (`excused`); a plugin that was replaced but not recorded is foreign to a later release (`unrecorded`).

## Proofs

Each `*Proofs` module proves the safety properties of one module from an inductive invariant `IInv`, which stands at the end of
the module it is about, as a conjunction of named parts. None of the properties is inductive alone. Every part has one lemma per
action or group of actions; `Inductive` puts them together, and each property follows from `Invariance == Spec => []IInv`
(`NoStranger` from `PolicyInv`, which is inductive beside it). TLC has checked each `IInv` on the instances above. The theorems
hold for all values of the constants that satisfy the module's named assumptions: any number of processes, commands, calls or
lines, any caps, and any number of crashes, faults and edits.

| Module | Theorem | States |
|---|---|---|
| `OutboxProofs` | `TypeCorrect`, `NothingLost`, `NewestStay`, `NoNeedlessRepeat`, `FlushIsHonest`, `SelftestSawItLeave` | `TypeOK`, `NoLoss`, `NewestKept`, `RepeatOnlyIfUnsettled`, `FlushHonest`, `SelftestLeft` |
| | `ErrorClearedOnlyByHolder` | the action property `ErrorClearedByHolder` |
| | `Refinement` | `Outbox` implements `EventBuffer` |
| `TranscriptProofs` | `TypesKept`, `LinesCountedOnce`, `OffsetBehindEvents`, `CursorLosesNothing`, `UpgradeCountsNothingAgain` | `TypeOK`, `CountedOnce`, `NoneSkipped`, `CursorCountsAll`, `LegacyHonoured` |
| | `OffsetsNeverGoBack` | the action property `OffsetsAdvance` |
| `LifecycleProofs` | `TypesKept`, `HooksFindExecutable`, `HooksAfterConfiguration`, `SuccessIsComplete`, `UninstallLeavesNothing`, `UserEntriesKept` | `TypeOK`, `HooksCallable`, `HooksReady`, `InstallHonest`, `UninstallClean`, `PathKept` |
| `HookFilesProofs` | `TypesKept`, `FilesOfUserKept`, `PluginsRecognised`, `HandlersOfUserKept` | `TypeOK`, `UserFileKept`, `Recognised`, `UserHandlersKept` |
| | `MergesStable`, `InstallsHonest`, `RemovalsHonest` | `MergeStable`, `InstallHonest`, `RemoveHonest`, for every harness |
| `HookMergeProofs` | `MergeDoes`, `RemoveDoes` | what one merge and one removal do to any settings file |
| `ConfigurationProofs` | `SettingsSurvive`, `ReportsAreTrue`, `StrangersStay`, `Agreement` | `SettingsKept`, `ConfigureHonest`, `NoStranger`, `MatchersAgree` |
| | `MatchersMean` | both matchers compute `Means` of every pattern and path, of any length |
| `OpenCodePluginProofs` | `Typed`, `NothingTwice`, `EverythingReported`, `SkillsCountOnce` | `TypeOK`, `AtMostOnce`, `AllReported`, `SkillOnce` |

**`Outbox`** (assumptions: the three kinds of slots are disjoint and none is `None`; bounds are naturals, damaged files are older
than new ones):

* `LockInv` (who delivers holds the lock) and `DeliveryInv` (a received file is in doubt or about to be removed by the
  process in `remove`; what the lock holder has read was received before only in doubt) carry `NoLoss` and
  `RepeatOnlyIfUnsettled`: the second listing happens under the lock, so it never shows a file another delivery has sent.
* `DropInv` (what a rotation still means to remove has `Cap` newer events) carries `NewestKept`: the set of newer events
  only grows, so an old listing stays right.
* `AccountInv` follows what a strict flush listed through reading, export and removal, for `FlushHonest`.
* `ProbeInv` keeps the selftest's own probe ahead of its counting, or in `unseen`, for `SelftestLeft`.
* `StoreInv`, `NameInv` and `CommandInv` tie names to what was ever a file and say which steps a command goes through;
  `NameInv` is why a rename never revives an old name.

The refinement maps `Rename` to `Accept`, `Export` and the failed or cut deliveries to `Deliver`, `RemoveSent` to `Discard`,
`Drop` to `Drop`, and everything else to a stutter.

**`Transcripts`.** `LockInv`: one keyed hook at a time is between lock and release of a transcript. `OffsetInv`: an offset lies
within a transcript that was never truncated, and Cursor's offsets are starts of lines. `OnceInv`: what a scan under the lock
may still emit has not been emitted, but for lines already excused, which gives `CountedOnce` although the lines are enqueued
after the release. `SkipInv`:
what lies before an offset has left its scan, or leaves it with the scan that saves it. `AgeInv` and `LossInv` say that lines
have an age that has come, that only the Codex scan cuts lines, and that no line of an older release is emitted without excuse.

**`Lifecycle`.** `RunInv` says which phases belong to which command, and what it may have failed at; `ImageInv` where the
executable is in each phase (only a swap leaves its place empty); `HookInv` what an uninstall has removed so far. `PathInv`
is the long one: `EntryInv` (a place holds what users put there, or one entry more), `SnapInv` (what a command has read of a
place is still true), `AccountInv` (every entry that no user put there has a receipt, is in the hands of a command that goes on,
or counts as an orphan) and `CleanInv` (what an uninstall has cleaned stays clean), until an edit in a gap of the code excuses it.

**`HookFiles`** (assumptions: there is a place; what may lie at one is told apart, `ContentsAssumption`; the settings files at the
start are lists of groups, and what a user adds is not one of our handlers, `HandlersAssumption`). `IInv` is one invariant for
the JSON files and one for the whole files, as a behaviour is about one harness.

For JSON files, `JsonShapeInv` says that the file is one of the harness (Cursor's a single list) and that only a read, a write
and the rule are ever to come. `JsonOk` is what a command knows: what it has read still has every handler that was not saved
since; while nothing disturbed the command it is what the file is; and what the command leaves is `Made`, one canonical handler
that the next merge keeps, or nothing removable. A write turns the first into `UserHandlersKept` by `MergeDoes` and `RemoveDoes`.
Those two theorems are about the pure operators, for files of any length: the proof follows the code's passes (drop what is
owned, group by group; drop what became empty; add the canonical handler), each a selection from a sequence, with a lemma for
what a selection keeps and one for what it does to the concatenation of the groups.

For the whole files of Cline and OpenCode, `CommandInv` says which steps belong to which command and that only what it knows for
its own is past the second read. `LockInv`: OpenCode's steps from `look` to `confirm` are those of the lock holder. `KeepInv` strengthens
`UserFileKept`: what was moved away goes back to the place it came from. `WriterInv`: an incomplete plugin lies where its writer
works. `ReceiptInv`: every plugin at a place is recorded with its digest, counts as unrecorded, or has a replacing command that
is about to record it, which without a holder of the lock is `Recognised`; `HolderInv` is what makes it inductive: no other
plugin comes to the place while the holder is between its look and its creation, and what it puts back has a digest. `ListInv`:
an uninstall that has not failed still has every plugin on its list. `QuietInv` and `EndInv`: what an undisturbed command wrote
or moved away is as it left it, up to its report. TLC checked `IInv` on
`MCHookFiles` (431249 states), and the part about whole files with one more fault and edit (713166 states).

**`Configuration`** (assumptions: settings found on disk are records of the three files, `FoundAssumption`; lists are sequences of
patterns, patterns and paths sequences of segments, and the default list is not empty, `ListsAssumption`). `HandInv`: a file that
was never shared is in the hands of one configure; so `DraftInv` can say that its temporary file is empty or holds what this
configure makes of it, and the rename publishes that. `ReportInv`: what was published and what is still to do are together what
was asked. For `NoStranger`, `TextsInv` says that a list file, its temporary file and what a configure is to put there are
lists, or missing, empty or torn, also where two configures mixed them; `ReaderInv` that while a hook reads, what the files say
at that moment is on record in `seen`, and that a repository list it has read which allows the event was on record together with
an enabled env file, unless telemetry was disabled meanwhile. The path list is read last, so what it allows is judged at the
moment of the decision. The theorem needs no exception for files that two configures shared or that a configure could not read.
TLC checked both invariants on `MCConfiguration` (756987 states).

The matchers are compared through `Pieces`: the segments between two positions of a pattern cut the path between two positions
into consecutive pieces. `PiecesFirst` and `PiecesLast` take one segment off either end. `HeadStep` is then one step of the row of
`matchPolicyPathSegments`, which moves along the pattern's beginning, and `TailStep` one step of `matchPathSegments`, which goes
on with the rests; `MeansPieces` is the whole. `Agreement` is `MatchersMean` for the patterns of the run.

**Induction.** The library's induction theorems take an operator as a parameter, which the provers cannot instantiate.
`DataInduction` states induction about a set instead: `NatSetInduction` and `UpToInduction` for numbers, `SeqSetInduction` for
sequences, one element longer at a time. A claim about every `n` becomes "`n` is in the set of those it is true of".
A recursive function is a `CHOOSE`, so its equation may be used only when some function satisfies it: `RecursiveFunction` gives
that for the selections and folds of `HookMergeProofs`, and for the matchers `Pieces` is such a function (`RowsExist`, `MemoExists`).

**`OpenCodePlugin`** (assumptions: the execute call, nested and direct calls are distinct and finitely many, no prompt is called
`"up"` or `"down"`, bounds are naturals and the cap is not 0). `CountInv` compares numbers: reports and tracked calls of a key
are together no more than the calls that have run, reports of a key that is not settled no more than the calls that are over
and, while nothing disturbed the plugin, the two are equal. `DirectInv`: only its failure settles a direct call, and what stays
tracked after its end has a failure to come. `CodeInv`: while the execute call is known to run it is not settled, and when the plugin no
longer knows of it nothing of it is tracked. `CallInv` ties calls to outcomes. `PromptInv`: a prompt is activated, looked up or
has its delivery in the stream, and no two of these; what is enqueued in the stream is queued or has its end behind it.

Only model-checked are the liveness properties (`EventuallyLeaves`, `CapRestored`, `EventuallyCounted`, `StaleRemoved`): the
prover handles no fairness. Every other property of a passing run is a theorem.

## Not modelled

Record attributes, HTTP and TLS, retries inside the exporter (a delivery arrives, fails, or fails after arriving),
wording of messages, event contents, recognising a skill in a transcript line, clock
steps that would make a later name sort before an earlier one, and leftover temporary files of the outbox. Nothing serialises two
lifecycle commands in the code; `Lifecycle` has one at a time, and only its hook files are modelled under two (`HookFiles`), and so are
`hooks install` and `hooks uninstall` on their own. Reading, comparing and removing the Codex rule is one step;
errors of reading or `chmod` while the Cline hook is inspected are left out. Release tags that `configure-skill` skips, and the swap for an executable that vanished before it, are left out. `ca.crt` is written like
`repo-allow` and left out. In `Policy` a segment is a literal, `*` or `**`; wildcards inside a segment, Windows letter case, UNC
volumes and symbolic links are not modelled. The registry lookup of the OpenCode plugin answers or fails; ambiguous server names
count as a failing lookup. A pattern of two segments or more is needed for a repository, as in the code.

`resolveMachineID` runs only under the flush lock; its one hazard, an identifier file cut by a crash, changes no other state.
Validation of events and the harness adapters are stateless. Components with status `not_modelled` in `PROJECT.json` have no state,
or are the plan's remainder.

## Plan

In this order; each module gets its instance, its mutants and, where marked, proofs:

1. done: `Outbox`, `EventBuffer`; `Transcripts`; `Lifecycle`; `HookMerge`, `HookFiles`; `OpenCodePlugin`; `Policy`, `Configuration`.
2. done: proofs of every safety property and action property of these modules, and of the refinement.
3. `BackendMaintenance`: the transaction of backup and update with recovery after a kill.
