---------------------------- MODULE Configuration ----------------------------
(***************************************************************************)
(* The settings of the machine and who reads them (commands.go, config.go, *)
(* policy.go).  A configure merges what it was asked into the env file,    *)
(* replaces repo-allow and replaces or clears path-allow, in this order    *)
(* and stopping at the first error.  A file is replaced through a          *)
(* temporary file of a fixed name, so two configures at once write the     *)
(* same one; nothing locks them.  A hook resolves the policy from the      *)
(* three files, one after the other, and decides about an event.           *)
(*                                                                         *)
(* ca.crt is written the way repo-allow is and left out; the environment   *)
(* variables that override the files are unset.                            *)
(***************************************************************************)
EXTENDS Policy

CONSTANTS Commands,       \* processes that run configure
          Requests,       \* what a configure may be asked
          Events,         \* what a hook may decide about
          Found,          \* what the files may hold at first
          Default,        \* defaultRepoAllow
          None,           \* no such file, or nothing asked
          Empty,          \* a file that was just truncated
          Torn,           \* one text over the rest of a longer one
          MaxCommands, MaxFaults

\* A request has keys to set in the env file, repo: a list or None, and path: a list, None to
\* keep the file, or <<>> to clear it.  A repo that splits to no pattern is <<>>.
Files == {"env", "repo", "path"}

ASSUME FoundAssumption == \A found \in Found : found = [f \in Files |-> found[f]]

\* What the lists are, in the files, in a request and of an event: sequences of patterns, or
\* of repositories or paths, each a sequence of segments.  defaultRepoAllow has a pattern.
Lists == Seq(Seq(STRING))

ASSUME ListsAssumption ==
  /\ Default \in Lists /\ Default # <<>>
  /\ \A found \in Found, f \in {"repo", "path"} : found[f] = None \/ found[f] \in Lists
  /\ \A ask \in Requests :
       /\ ask = [keys |-> ask.keys, repo |-> ask.repo, path |-> ask.path]
       /\ \A f \in {"repo", "path"} : ask[f] = None \/ ask[f] \in Lists
  /\ \A event \in Events : event.remotes \in Lists /\ event.paths \in Lists

VARIABLES
  file,      \* the settings files
  temp,      \* their temporary files
  conf,      \* the configures
  reader,    \* the hook that resolves the policy
  commands, faults, disabled,
  (* history, for the properties *)
  meant,     \* what the files hold if every configure takes effect at its rename
  spoilt,    \* files that a configure could not read, or that the user changed under one
  shared,    \* files that two configures had in hand at once
  seen       \* what the files allowed while the hook read them

vars == <<file, temp, conf, reader, commands, faults, disabled, meant, spoilt, shared, seen>>

Resting(c) == conf[c].pc \in {"idle", "ok", "failed"}
CanFail == faults < MaxFaults
Fault == CanFail /\ faults' = faults + 1
Calm  == UNCHANGED faults

\* What the loaders make of a file: an unreadable one is as good as none.
Keys(f)  == IF f \in {None, Empty, Torn} THEN << >> ELSE f
Lines(f) == IF f \in {None, Empty, Torn} THEN << >> ELSE f

-----------------------------------------------------------------------------
(* configure *)

Unstarted == [pc |-> "idle", ask |-> None, todo |-> {}, data |-> None, held |-> None,
              guessed |-> FALSE, published |-> {}]

\* What a request changes: a repository list without a pattern is left alone, without an error.
Asked(ask) ==
  {f \in Files : CASE f = "env"  -> ask.keys # {}
                   [] f = "repo" -> ask.repo \notin {None, <<>>}
                   [] f = "path" -> ask.path # None}

\* The order in which the files are written.
First(todo) == IF "env" \in todo THEN "env" ELSE IF "repo" \in todo THEN "repo" ELSE "path"

\* repoAllowUnset: a machine without a repository list gets the default one.
WithDefault(ask, list) == IF ask.repo = None /\ list = << >> THEN [ask EXCEPT !.repo = Default] ELSE ask

Start(c) ==
  /\ Resting(c) /\ commands < MaxCommands /\ commands' = commands + 1
  /\ \E ask \in Requests, unread \in BOOLEAN :
       LET full == WithDefault(ask, IF unread THEN << >> ELSE Lines(file["repo"]))
       IN  /\ IF unread THEN Fault /\ spoilt' = spoilt \cup {"repo"} ELSE Calm /\ UNCHANGED spoilt
           /\ conf' = [conf EXCEPT ![c] = [pc |-> "next", ask |-> full, todo |-> Asked(full), data |-> None,
                                           held |-> None, guessed |-> full # ask, published |-> {}]]
  /\ UNCHANGED <<file, temp, reader, disabled, meant>>

At(c, pc, f) == conf[c].pc = pc /\ conf[c].todo # {} /\ First(conf[c].todo) = f

\* writeEnvFile merges into what the file holds, and into nothing when it cannot be read.
Merged(old, c) ==
  [k \in DOMAIN old \cup conf[c].ask.keys |-> IF k \in conf[c].ask.keys THEN c ELSE old[k]]

Merge(c) ==
  /\ At(c, "next", "env")
  /\ \E unread \in BOOLEAN :
       /\ IF unread THEN Fault /\ spoilt' = spoilt \cup {"env"} ELSE Calm /\ UNCHANGED spoilt
       /\ conf' = [conf EXCEPT ![c].pc = "open",
                               ![c].data = Merged(IF unread THEN << >> ELSE Keys(file["env"]), c)]
  /\ UNCHANGED <<file, temp, reader, commands, disabled, meant>>

Text(c, f) == IF f = "env" THEN conf[c].data ELSE conf[c].ask[f]

\* os.WriteFile: open with truncation, then write.
\* Mutant of Truncated: what a killed configure left in the temporary file stays.
TruncatedNot(old) == IF old = None THEN Empty ELSE old

Truncated(old) == Empty

Open(c, f) ==
  /\ At(c, IF f = "env" THEN "open" ELSE "next", f) /\ ~(f = "path" /\ conf[c].ask.path = <<>>)
  /\ temp' = [temp EXCEPT ![f] = Truncated(temp[f])]
  /\ conf' = [conf EXCEPT ![c].pc = "fill", ![c].held = "temp"]
  /\ Calm /\ UNCHANGED <<file, reader, commands, disabled, meant, spoilt>>

Written(old, text) == IF old = Empty THEN {text} ELSE {text, Torn}

\* The write goes to the file that was opened, wherever a rename has put it since.
Fill(c, f) ==
  /\ At(c, "fill", f)
  /\ \/ /\ conf[c].held = "temp" /\ UNCHANGED file
        /\ \E t \in Written(temp[f], Text(c, f)) : temp' = [temp EXCEPT ![f] = t]
     \/ /\ conf[c].held = "file" /\ UNCHANGED temp
        /\ \E t \in Written(file[f], Text(c, f)) : file' = [file EXCEPT ![f] = t]
     \/ conf[c].held = "gone" /\ UNCHANGED <<file, temp>>
  /\ conf' = [conf EXCEPT ![c].pc = "publish"]
  /\ Calm /\ UNCHANGED <<reader, commands, disabled, meant, spoilt>>

\* After c has put another file, or none, at f: the handles of the others move along.
Advanced(c, f, renamed) ==
  [p \in Commands |->
     IF p = c THEN [conf[c] EXCEPT !.pc = "next", !.todo = @ \ {f}, !.data = None,
                                   !.held = None, !.published = @ \cup {f}]
     ELSE IF At(p, "fill", f)
       THEN [conf[p] EXCEPT !.held = IF @ # "temp" THEN "gone" ELSE IF renamed THEN "file" ELSE @]
     ELSE conf[p]]

\* The value that the file must have once c has published it.
Intended(c, f) == IF f = "env" THEN Merged(Keys(meant["env"]), c) ELSE conf[c].ask[f]

Publish(c, f) ==
  /\ At(c, "publish", f) /\ temp[f] # None
  /\ file' = [file EXCEPT ![f] = temp[f]] /\ temp' = [temp EXCEPT ![f] = None]
  /\ conf' = Advanced(c, f, TRUE) /\ meant' = [meant EXCEPT ![f] = Intended(c, f)]
  /\ Calm /\ UNCHANGED <<reader, commands, disabled, spoilt>>

Clear(c) ==
  /\ At(c, "next", "path") /\ conf[c].ask.path = <<>>
  /\ file' = [file EXCEPT !["path"] = None] /\ meant' = [meant EXCEPT !["path"] = None]
  /\ conf' = Advanced(c, "path", FALSE)
  /\ Calm /\ UNCHANGED <<temp, reader, commands, disabled, spoilt>>

\* The record of a configure that has ended; only its report stays.
Ended(c, report) ==
  [conf EXCEPT ![c] = [@ EXCEPT !.pc = report, !.todo = {}, !.data = None, !.held = None, !.guessed = FALSE]]

\* Mutant of Failed: the error of the last step is dropped.
FailedSilently(c) == Ended(c, IF conf[c].todo = {First(conf[c].todo)} THEN "ok" ELSE "failed")

Failed(c) == Ended(c, "failed")

\* From the read on which a write rests to its rename.
InHand(c, f) ==
  \/ \E pc \in {"open", "fill", "publish"} : At(c, pc, f)
  \/ f = "repo" /\ conf[c].guessed /\ ~Resting(c) /\ f \in conf[c].todo

\* Another configure has renamed the temporary file away.
Overtaken(c, f) ==
  /\ At(c, "publish", f) /\ temp[f] = None
  /\ conf' = Failed(c)
  /\ Calm /\ UNCHANGED <<file, temp, reader, commands, disabled, meant, spoilt>>

\* The same, when it takes the path list's temporary file away from under another configure.
Dropped(c) ==
  [p \in Commands |-> IF p # c /\ At(p, "fill", "path") /\ conf[p].held = "temp"
                        THEN [conf[p] EXCEPT !.held = "gone"] ELSE Failed(c)[p]]

\* A step that fails; only the path list's rename takes its temporary file away.
Fails(c, f) ==
  /\ \E pc \in {"next", "open", "fill", "publish"} : At(c, pc, f)
  /\ IF At(c, "publish", "path")
       THEN temp' = [temp EXCEPT !["path"] = None] /\ conf' = Dropped(c)
       ELSE UNCHANGED temp /\ conf' = Failed(c)
  /\ Fault /\ UNCHANGED <<file, reader, commands, disabled, meant, spoilt>>

Finish(c) ==
  /\ conf[c].pc = "next" /\ conf[c].todo = {}
  /\ conf' = Ended(c, "ok")
  /\ Calm /\ UNCHANGED <<file, temp, reader, commands, disabled, meant, spoilt>>

Crash(c) ==
  /\ ~Resting(c) /\ Fault
  /\ conf' = [conf EXCEPT ![c] = Unstarted]
  /\ UNCHANGED <<file, temp, reader, commands, disabled, meant, spoilt>>

\* The user sets AI_AGENT_TELEMETRY_DISABLED in the env file, once.
Disable ==
  LET With(f) == [k \in DOMAIN Keys(f) \cup {"disabled"} |-> IF k = "disabled" THEN "user" ELSE Keys(f)[k]]
  IN  /\ ~disabled /\ disabled' = TRUE
      /\ file' = [file EXCEPT !["env"] = With(file["env"])]
      /\ meant' = [meant EXCEPT !["env"] = With(meant["env"])]
      /\ conf' = [c \in Commands |->
                    IF At(c, "fill", "env") /\ conf[c].held = "file" THEN [conf[c] EXCEPT !.held = "gone"] ELSE conf[c]]
      /\ spoilt' = spoilt \cup (IF \E c \in Commands : InHand(c, "env") THEN {"env"} ELSE {})
      /\ Calm /\ UNCHANGED <<temp, reader, commands>>

-----------------------------------------------------------------------------
(* A hook that resolves the policy and decides. *)

\* Mutant of RepoList: a machine without a list is not restricted.
RepoListOrAll(lines) == lines

RepoList(lines) == IF lines # << >> THEN lines ELSE Default

Enabled(env) == "disabled" \notin DOMAIN Keys(env)

\* A read that fails counts as no file, but for the path list, which is then invalid.
Read(unread) ==
  /\ IF unread = {} THEN Calm ELSE Fault
  /\ UNCHANGED <<file, temp, conf, commands, disabled, meant, spoilt>>

ReadEnv ==
  /\ reader.pc = "idle"
  /\ \E e \in Events, unread \in SUBSET {"env"} :
       /\ Read(unread)
       /\ reader' = [pc |-> "repo", event |-> e, disabled |-> unread = {} /\ ~Enabled(file["env"]),
                     repos |-> << >>, unread |-> unread, ok |-> FALSE]

ReadRepo ==
  /\ reader.pc = "repo"
  /\ \E unread \in SUBSET {"repo"} :
       /\ Read(unread)
       /\ reader' = [reader EXCEPT !.pc = "path", !.unread = @ \cup unread,
                                   !.repos = RepoList(IF unread = {} THEN Lines(file["repo"]) ELSE << >>)]

ReadPath ==
  /\ reader.pc = "path"
  /\ \E unread \in SUBSET {"path"} :
       LET paths  == IF unread = {} THEN Lines(file["path"]) ELSE << >>
           policy == [disabled |-> reader.disabled, repos |-> reader.repos,
                      paths |-> paths, broken |-> unread # {} \/ Broken(paths)]
       IN  /\ Read(unread)
           /\ reader' = [reader EXCEPT !.pc = "done", !.repos = << >>, !.ok = Decide(reader.event, policy).ok]

-----------------------------------------------------------------------------
Unseen == [enabled |-> FALSE, off |-> FALSE, lists |-> FALSE, joint |-> FALSE]

Init ==
  /\ file \in Found
  /\ temp = [f \in Files |-> None]
  /\ conf = [c \in Commands |-> Unstarted]
  /\ reader = [pc |-> "idle"] /\ commands = 0 /\ faults = 0 /\ disabled = FALSE
  /\ meant = file /\ spoilt = {} /\ shared = {} /\ seen = Unseen

ConfigureStep ==
  \E c \in Commands :
    \/ Start(c) \/ Merge(c) \/ Clear(c) \/ Finish(c) \/ Crash(c)
    \/ \E f \in Files : Open(c, f) \/ Fill(c, f) \/ Publish(c, f) \/ Overtaken(c, f) \/ Fails(c, f)

\* What the files say of an event, by the meaning of their patterns.
ByRepo(e, list) ==
  \/ list = <<Anything>>
  \/ \E i \in DOMAIN list, j \in DOMAIN e.remotes :
       Len(list[i]) >= 2 /\ Len(e.remotes[j]) >= 2 /\ Means(list[i], e.remotes[j])

ByPath(e, paths) ==
  /\ \A i \in DOMAIN paths : paths[i] # Deny
  /\ \E i \in DOMAIN paths, j \in DOMAIN e.paths : paths[i] = Anything \/ Means(paths[i], e.paths[j])

ListsAllow(e, repos, paths) == ByRepo(e, IF repos = << >> THEN Default ELSE repos) \/ ByPath(e, paths)

\* What the hook that reads would make of the files at this moment; one that it could not
\* read is as good as none.
Shown(f)   == IF f \in reader.unread THEN None ELSE file[f]
EnabledNow == Enabled(file["env"])
ListsNow   == ListsAllow(reader.event, Lines(Shown("repo")), Lines(file["path"]))

\* Keeps the history; no program step.  Of the moments from the read of the env file to the
\* decision: was telemetry enabled at the first, and disabled at one of them; did the lists
\* allow the event at one, and at one at which telemetry was enabled?
Observe ==
  /\ shared' = shared \cup {f \in Files : \E c, d \in Commands : c # d /\ InHand(c, f)' /\ InHand(d, f)'}
  /\ seen' = IF reader'.pc \in {"idle", "done"} THEN seen
             ELSE [enabled |-> IF reader.pc = "idle" THEN Enabled(Shown("env"))' ELSE seen.enabled,
                   off     |-> seen.off \/ ~EnabledNow',
                   lists   |-> seen.lists \/ ListsNow',
                   joint   |-> seen.joint \/ (EnabledNow' /\ ListsNow')]

Next == (ConfigureStep \/ Disable \/ ReadEnv \/ ReadRepo \/ ReadPath) /\ Observe

Spec == Init /\ [][Next]_vars

-----------------------------------------------------------------------------
(* Properties *)

\* A settings file that no two configures had in hand at once holds exactly what the
\* configures that renamed it made of it, one after the other: no key and no line is lost, and
\* none is taken from what a killed or failed configure left behind.  It says nothing more of
\* a file that a configure could not read, whose settings the merge then loses, or that the
\* user changed while a configure had it in hand (writeEnvFile, writeRepoAllowFile,
\* writePathAllowFile).
SettingsKept == \A f \in Files \ (shared \cup spoilt) : file[f] = meant[f]

\* A configure that reports success has published every file it was asked to change, and one
\* that reports an error has not; the path list is published last.  A repository list without
\* a pattern asks for no change (applyConfigureWithPath, writeRepoAllowFile).
ConfigureHonest ==
  \A c \in Commands :
    /\ conf[c].pc = "ok" => conf[c].published = Asked(conf[c].ask)
    /\ conf[c].pc = "failed" => conf[c].published # Asked(conf[c].ask)
    /\ "path" \in conf[c].published => conf[c].published = Asked(conf[c].ask)

\* No event leaves that the user never allowed, although the policy is read from three files
\* that change meanwhile: the settings of one single moment while the hook read them, taken
\* together, let the event through by the meaning of their patterns.  Only when telemetry is
\* disabled after the hook has read the env file, or when it cannot read that file, may it
\* decide on a mixture that held at no moment; even then telemetry was enabled, as far as the
\* hook could read, when it began, and the lists allowed the event at some moment.  A
\* repository list that cannot be read stands for the default one, as it does in the code
\* (resolveTelemetryPolicy, eventAllowedRemote).
NoStranger ==
  (reader.pc = "done" /\ reader.ok) => seen.joint \/ (seen.off /\ seen.enabled /\ seen.lists)

\* All short patterns over all short paths.
Agree ==
  LET Words(S, n) == UNION {[1 .. k -> S] : k \in 0 .. n}
  IN  \A p \in Words({"a", "*", "**"}, 4), s \in Words({"a", "b"}, 3) :
        (MatchRepo(p, s) <=> Means(p, s)) /\ (MatchPath(p, s) <=> Means(p, s))

\* Whenever a hook decides, the two matchers it uses, written in different ways, give every
\* pattern the same meaning, and the meaning the patterns have: its segments cut the path into
\* consecutive pieces (matchPathSegments, matchPolicyPathSegments).
MatchersAgree == reader.pc # "idle" => Agree

-----------------------------------------------------------------------------
(* The inductive invariant of the two properties about configure, and what it adds to them. *)

\* A configure is a record of these fields, and the settings are files.
ShapeInv ==
  /\ conf = [c \in Commands |-> conf[c]]
  /\ \A c \in Commands :
       LET r == conf[c] IN
       /\ r = [pc |-> r.pc, ask |-> r.ask, todo |-> r.todo, data |-> r.data, held |-> r.held,
               guessed |-> r.guessed, published |-> r.published]
       /\ r.pc \in {"idle", "next", "open", "fill", "publish", "ok", "failed"} /\ r.todo \subseteq Files
  /\ file = [f \in Files |-> file[f]] /\ temp = [f \in Files |-> temp[f]] /\ meant = [f \in Files |-> meant[f]]

\* A file that was never shared is in the hands of one configure.
HandInv ==
  \A f \in Files \ shared, c \in Commands, d \in Commands : InHand(c, f) /\ InHand(d, f) => c = d

\* Its temporary file is empty or holds what this configure makes of the file.
DraftInv ==
  \A c \in Commands, f \in Files \ (shared \cup spoilt) :
    /\ At(c, "fill", f) => conf[c].held = "temp" /\ temp[f] = Empty
    /\ At(c, "publish", f) => temp[f] = Text(c, f)
    /\ f = "env" /\ (At(c, "open", f) \/ At(c, "fill", f) \/ At(c, "publish", f)) =>
         conf[c].data = Merged(Keys(meant["env"]), c)

\* What a configure has published, and still has to.
ReportInv ==
  \A c \in Commands :
    /\ ~Resting(c) => /\ conf[c].todo \cup conf[c].published = Asked(conf[c].ask)
                      /\ conf[c].todo \cap conf[c].published = {}
    /\ conf[c].pc \in {"open", "fill", "publish"} => conf[c].todo # {}
    /\ conf[c].pc = "idle" => conf[c].published = {}

IInv == ShapeInv /\ HandInv /\ DraftInv /\ SettingsKept /\ ReportInv /\ ConfigureHonest

-----------------------------------------------------------------------------
(* The invariant of NoStranger, inductive beside IInv. *)

\* What a list file holds, and what a configure is to put there.
Listing(x) == x \in {None, Empty, Torn} \/ x \in Lists

TextsInv ==
  \A f \in {"repo", "path"} :
    /\ Listing(file[f]) /\ Listing(temp[f])
    /\ \A c \in Commands : conf[c].pc # "idle" => Listing(conf[c].ask[f])

\* While a hook reads, this moment is on record, and so is what it has read.
ReaderInv ==
  /\ reader.pc \in {"idle", "repo", "path", "done"}
  /\ reader.pc \in {"repo", "path"} =>
       /\ reader = [pc |-> reader.pc, event |-> reader.event, disabled |-> reader.disabled,
                    repos |-> reader.repos, unread |-> reader.unread, ok |-> reader.ok]
       /\ reader.event \in Events
       /\ ListsNow => seen.lists
       /\ ListsNow /\ EnabledNow => seen.joint
       /\ ~EnabledNow => seen.off
       /\ ~reader.disabled => seen.enabled
  /\ reader.pc = "repo" => "repo" \notin reader.unread
  /\ reader.pc = "path" =>
       /\ reader.repos \in Lists \ {<<>>}
       /\ ByRepo(reader.event, reader.repos) => seen.lists /\ (seen.joint \/ seen.off)

PolicyInv == TextsInv /\ ReaderInv /\ NoStranger
=============================================================================
