------------------------ MODULE ConfigurationProofs ------------------------
(***************************************************************************)
(* Proofs about Configuration for every set of processes, every request,   *)
(* any contents of the files and any bounds: what configure reports, what  *)
(* the settings files hold, what the patterns of the lists mean, and which *)
(* events a hook lets through.                                             *)
(***************************************************************************)
EXTENDS Configuration, DataInduction

-----------------------------------------------------------------------------
(* What each way of updating `conf` does to the record of a configure. *)

\* The record r of a configure.
Shaped(r) ==
  /\ r = [pc |-> r.pc, ask |-> r.ask, todo |-> r.todo, data |-> r.data, held |-> r.held,
          guessed |-> r.guessed, published |-> r.published]
  /\ r.pc \in {"idle", "next", "open", "fill", "publish", "ok", "failed"} /\ r.todo \subseteq Files

Table(g) == g = [f \in Files |-> g[f]]

\* ShapeInv, one configure and one table at a time.
LEMMA ShapeParts ==
  ShapeInv <=> /\ conf = [c \in Commands |-> conf[c]] /\ \A c \in Commands : Shaped(conf[c])
               /\ Table(file) /\ Table(temp) /\ Table(meant)
BY DEF ShapeInv, Shaped, Table

\* The same of the next state.
LEMMA ShapePartsNext ==
  ShapeInv' <=> /\ conf' = [c \in Commands |-> conf'[c]] /\ \A c \in Commands : Shaped(conf'[c])
                /\ Table(file') /\ Table(temp') /\ Table(meant')
BY DEF ShapeInv, Shaped, Table

\* One file of a table changes.
LEMMA TableChanged ==
  ASSUME NEW g, Table(g), NEW f \in Files, NEW x, NEW h, h = [g EXCEPT ![f] = x]
  PROVE  Table(h) /\ h[f] = x /\ \A k \in Files \ {f} : h[k] = g[k]
BY DEF Table

\* One configure changes.
Only(c) == conf' = [d \in Commands |-> conf'[d]] /\ \A d \in Commands \ {c} : conf'[d] = conf[d]

\* Replacing the record of one configure leaves the others.
LEMMA OneChanges ==
  ASSUME ShapeInv, NEW c \in Commands, NEW r, conf' = [conf EXCEPT ![c] = r]
  PROVE  Only(c) /\ conf'[c] = r
BY ShapeParts DEF Only

\* The record r after a merge, after another process renamed its file, after its own rename
\* and at its end.
Draft(r, x) == [r EXCEPT !.pc = "open", !.data = x]
Move(r, x) == [r EXCEPT !.held = x]
Rename(r, f) ==
  [r EXCEPT !.pc = "next", !.todo = @ \ {f}, !.data = None, !.held = None, !.published = @ \cup {f}]
Report(r, report) ==
  [r EXCEPT !.pc = report, !.todo = {}, !.data = None, !.held = None, !.guessed = FALSE]

\* The record after a merge.
LEMMA Drafted ==
  ASSUME NEW r, Shaped(r), NEW x, NEW s, s = Draft(r, x)
  PROVE  /\ Shaped(s) /\ s.pc = "open" /\ s.data = x /\ s.held = r.held
         /\ s.ask = r.ask /\ s.todo = r.todo /\ s.guessed = r.guessed /\ s.published = r.published
<1>1. r \in [pc : {r.pc}, ask : {r.ask}, todo : {r.todo}, data : {r.data}, held : {r.held},
              guessed : {r.guessed}, published : {r.published}]
  BY DEF Shaped
<1>2. s \in [pc : {"open"}, ask : {r.ask}, todo : {r.todo}, data : {x}, held : {r.held}, guessed : {r.guessed}, published : {r.published}]
  BY <1>1 DEF Draft
<1>3. r.pc \in {"idle", "next", "open", "fill", "publish", "ok", "failed"} /\ r.todo \subseteq Files
  BY DEF Shaped
<1> QED BY <1>2, <1>3 DEF Shaped

\* The record after the temporary file was opened.
LEMMA Opened ==
  ASSUME NEW r, Shaped(r), NEW s,
         s = [r EXCEPT !.pc = "fill", !.held = "temp"]
  PROVE  /\ Shaped(s) /\ s.pc = "fill" /\ s.data = r.data /\ s.held = "temp"
         /\ s.ask = r.ask /\ s.todo = r.todo /\ s.guessed = r.guessed /\ s.published = r.published
<1>1. r \in [pc : {r.pc}, ask : {r.ask}, todo : {r.todo}, data : {r.data}, held : {r.held},
              guessed : {r.guessed}, published : {r.published}]
  BY DEF Shaped
<1>2. s \in [pc : {"fill"}, ask : {r.ask}, todo : {r.todo}, data : {r.data}, held : {"temp"}, guessed : {r.guessed}, published : {r.published}]
  BY <1>1
<1>3. r.pc \in {"idle", "next", "open", "fill", "publish", "ok", "failed"} /\ r.todo \subseteq Files
  BY DEF Shaped
<1> QED BY <1>2, <1>3 DEF Shaped

\* The record after the text was written.
LEMMA Filled ==
  ASSUME NEW r, Shaped(r), NEW s,
         s = [r EXCEPT !.pc = "publish"]
  PROVE  /\ Shaped(s) /\ s.pc = "publish" /\ s.data = r.data /\ s.held = r.held
         /\ s.ask = r.ask /\ s.todo = r.todo /\ s.guessed = r.guessed /\ s.published = r.published
<1>1. PICK a, t, d, h, g, p : r = [pc |-> r.pc, ask |-> a, todo |-> t, data |-> d, held |-> h, guessed |-> g, published |-> p]
  BY DEF Shaped
<1>2. [r EXCEPT !.pc = "publish"]
      = [pc |-> "publish", ask |-> a, todo |-> t, data |-> d, held |-> h, guessed |-> g, published |-> p]
  BY <1>1
<1> QED BY <1>1, <1>2 DEF Shaped

\* The record after its own rename.
LEMMA Renamed ==
  ASSUME NEW r, Shaped(r), NEW f, NEW s, s = Rename(r, f)
  PROVE  /\ Shaped(s) /\ s.pc = "next" /\ s.ask = r.ask /\ s.todo = r.todo \ {f} /\ s.published = r.published \cup {f}
         /\ s.guessed = r.guessed
<1>1. r \in [pc : {r.pc}, ask : {r.ask}, todo : {r.todo}, data : {r.data}, held : {r.held},
              guessed : {r.guessed}, published : {r.published}]
  BY DEF Shaped
<1>2. s \in [pc : {"next"}, ask : {r.ask}, todo : {r.todo \ {f}}, data : {None}, held : {None}, guessed : {r.guessed}, published : {r.published \cup {f}}]
  BY <1>1 DEF Rename
<1>3. r.pc \in {"idle", "next", "open", "fill", "publish", "ok", "failed"} /\ r.todo \subseteq Files
  BY DEF Shaped
<1> QED BY <1>2, <1>3 DEF Shaped

\* The record after a rename by another configure.
LEMMA Moved ==
  ASSUME NEW r, Shaped(r), NEW x, NEW s, s = Move(r, x)
  PROVE  /\ Shaped(s) /\ s.pc = r.pc /\ s.data = r.data /\ s.held = x
         /\ s.ask = r.ask /\ s.todo = r.todo /\ s.guessed = r.guessed /\ s.published = r.published
BY DEF Shaped, Move

\* The record at its end.
LEMMA Reported ==
  ASSUME NEW r, Shaped(r), NEW report \in {"ok", "failed"}, NEW s, s = Report(r, report)
  PROVE  Shaped(s) /\ s.pc = report /\ s.ask = r.ask /\ s.todo = {} /\ s.published = r.published
<1>1. r \in [pc : {r.pc}, ask : {r.ask}, todo : {r.todo}, data : {r.data}, held : {r.held},
              guessed : {r.guessed}, published : {r.published}]
  BY DEF Shaped
<1>2. s \in [pc : {report}, ask : {r.ask}, todo : {{}}, data : {None}, held : {None}, guessed : {FALSE}, published : {r.published}]
  BY <1>1 DEF Report
<1>3. r.pc \in {"idle", "next", "open", "fill", "publish", "ok", "failed"} /\ r.todo \subseteq Files
  BY DEF Shaped
<1> QED BY <1>2, <1>3 DEF Shaped

-----------------------------------------------------------------------------
(* The invariant, one configure and one file at a time *)

\* c is between the read of f and its rename.
Working(c, f) == At(c, "open", f) \/ At(c, "fill", f) \/ At(c, "publish", f)

\* DraftInv for one configure and one file.
Drafts(c, f) ==
  /\ At(c, "fill", f) => conf[c].held = "temp" /\ temp[f] = Empty
  /\ At(c, "publish", f) => temp[f] = Text(c, f)
  /\ f = "env" /\ Working(c, f) => conf[c].data = Merged(Keys(meant["env"]), c)

\* ReportInv and ConfigureHonest for the record r of a configure.
Reports(r) ==
  /\ r.pc \notin {"idle", "ok", "failed"} => r.todo \cup r.published = Asked(r.ask) /\ r.todo \cap r.published = {}
  /\ r.pc \in {"open", "fill", "publish"} => r.todo # {}
  /\ r.pc = "idle" => r.published = {}
  /\ r.pc = "ok" => r.published = Asked(r.ask)
  /\ r.pc = "failed" => r.published # Asked(r.ask)
  /\ "path" \in r.published => r.published = Asked(r.ask)

\* ReportInv and ConfigureHonest, one configure at a time.
LEMMA ReportParts ==
  /\ ReportInv /\ ConfigureHonest <=> \A c \in Commands : Reports(conf[c])
  /\ (ReportInv /\ ConfigureHonest)' <=> \A c \in Commands : Reports(conf'[c])
BY DEF ReportInv, ConfigureHonest, Reports, Resting

\* DraftInv, one configure and one file at a time.
LEMMA DraftParts ==
  /\ DraftInv <=> \A c \in Commands, f \in Files \ (shared \cup spoilt) : Drafts(c, f)
  /\ DraftInv' <=> \A c \in Commands, f \in Files \ (shared' \cup spoilt') : Drafts(c, f)'
BY DEF DraftInv, Drafts, Working

\* Of two configures at the same file one must give way.
LEMMA OneHand ==
  ASSUME NEW c \in Commands, NEW d \in Commands, c # d, NEW f \in Files
  PROVE  /\ HandInv /\ f \notin shared => ~(Working(c, f) /\ Working(d, f))
         /\ HandInv' /\ f \notin shared' => ~(Working(c, f)' /\ Working(d, f)')
BY DEF HandInv, InHand, Working

\* What a step leaves alone stays as it is.
LEMMA DraftStays ==
  ASSUME NEW d \in Commands, NEW f \in Files, Drafts(d, f), conf'[d] = conf[d],
         temp'[f] = temp[f], f = "env" => meant'[f] = meant[f]
  PROVE  Drafts(d, f)'
BY DEF Drafts, Working, At, Text, Merged

\* Of a file it is not working on a configure has no draft.
LEMMA NoDraft ==
  ASSUME NEW d \in Commands, NEW f \in Files
  PROVE  ~Working(d, f)' => Drafts(d, f)'
BY DEF Drafts, Working

\* A configure that does not move works on what it worked on.
LEMMA AtWork ==
  ASSUME NEW d \in Commands, NEW f \in Files, conf'[d] = conf[d]
  PROVE  Working(d, f)' <=> Working(d, f)
BY DEF Working, At

\* Files are written in their order, the path list last.
LEMMA FirstIsNext ==
  ASSUME NEW t \in SUBSET Files, t # {}
  PROVE  First(t) \in t /\ (First(t) = "path" => t = {"path"})
BY DEF First, Files

\* Everything but HandInv.
Kept == ShapeInv /\ DraftInv /\ SettingsKept /\ ReportInv /\ ConfigureHonest

\* One configure changes, and what it has in hand is as it should be.
LEMMA KeptByOne ==
  ASSUME IInv, HandInv', shared \subseteq shared', spoilt \subseteq spoilt', NEW c \in Commands, Only(c), Shaped(conf'[c]),
         Reports(conf'[c]),
         Table(file'), Table(temp'), Table(meant'),
         \A f \in Files \ (shared' \cup spoilt') :
           /\ Drafts(c, f)' /\ file'[f] = meant'[f]
           /\ Working(c, f) \/ Working(c, f)' \/ (temp'[f] = temp[f] /\ (f = "env" => meant'[f] = meant[f]))
  PROVE  Kept'
<1>1. ShapeInv'
  BY ShapeParts, ShapePartsNext DEF IInv, Only
<1>2. DraftInv'
  <2>1. ASSUME NEW d \in Commands \ {c}, NEW f \in Files \ (shared' \cup spoilt')
        PROVE  Drafts(d, f)'
    <3>1. conf'[d] = conf[d] /\ Drafts(d, f)
      BY DraftParts DEF IInv, Only
    <3>2. CASE Working(c, f) \/ Working(c, f)'
      BY <3>1, <3>2, OneHand, AtWork, NoDraft DEF IInv
    <3>3. CASE temp'[f] = temp[f] /\ (f = "env" => meant'[f] = meant[f])
      BY <3>1, <3>3, DraftStays
    <3> QED BY <3>2, <3>3
  <2> QED BY <2>1, DraftParts
<1>3. SettingsKept'
  BY DEF SettingsKept
<1>4. (ReportInv /\ ConfigureHonest)'
  BY ReportParts DEF IInv, Only
<1> QED BY <1>1, <1>2, <1>3, <1>4 DEF Kept

-----------------------------------------------------------------------------
(* One lemma per action *)

\* A configure starts: it has nothing in hand yet.
LEMMA StartStep ==
  ASSUME IInv, HandInv', shared \subseteq shared', NEW c \in Commands, Start(c)
  PROVE  Kept'
<1>1. PICK full : conf' = [conf EXCEPT ![c] = [pc |-> "next", ask |-> full, todo |-> Asked(full), data |-> None,
                                                held |-> None, guessed |-> conf'[c].guessed, published |-> {}]]
                  /\ spoilt \subseteq spoilt' /\ UNCHANGED <<file, temp, meant>>
  <2>1. PICK ask \in Requests, unread \in BOOLEAN :
          LET full == WithDefault(ask, IF unread THEN << >> ELSE Lines(file["repo"]))
          IN  /\ IF unread THEN Fault /\ spoilt' = spoilt \cup {"repo"} ELSE Calm /\ UNCHANGED spoilt
              /\ conf' = [conf EXCEPT ![c] = [pc |-> "next", ask |-> full, todo |-> Asked(full), data |-> None,
                                              held |-> None, guessed |-> full # ask, published |-> {}]]
    BY Zenon DEF Start
  <2> DEFINE full == WithDefault(ask, IF unread THEN << >> ELSE Lines(file["repo"]))
             r == [pc |-> "next", ask |-> full, todo |-> Asked(full), data |-> None,
                   held |-> None, guessed |-> full # ask, published |-> {}]
  <2>2. conf' = [conf EXCEPT ![c] = r]
    BY <2>1
  <2>3. conf'[c] = r
    <3> HIDE DEF r
    <3> QED BY <2>2, OneChanges DEF IInv
  <2>4. conf'[c].guessed = (full # ask)
    BY <2>3
  <2>5. spoilt \subseteq spoilt' /\ UNCHANGED <<file, temp, meant>>
    BY <2>1 DEF Start
  <2> QED BY <2>2, <2>4, <2>5
<1> DEFINE r == [pc |-> "next", ask |-> full, todo |-> Asked(full), data |-> None,
                 held |-> None, guessed |-> conf'[c].guessed, published |-> {}]
<1>2. Asked(full) \subseteq Files
  BY DEF Asked
<1>3. Shaped(r) /\ Reports(r) /\ r.pc = "next"
  BY <1>2 DEF Shaped, Reports
<1> HIDE DEF r
<1>4. Only(c) /\ conf'[c] = r
  BY <1>1, OneChanges DEF IInv, r
<1>5. \A f \in Files : ~Working(c, f)'
  BY <1>3, <1>4 DEF Working, At
<1> QED BY <1>1, <1>3, <1>4, <1>5, NoDraft, KeptByOne, ShapeParts DEF IInv, SettingsKept

\* It merges what it was asked into the env file that it read.
LEMMA MergeStep ==
  ASSUME IInv, HandInv', shared \subseteq shared', NEW c \in Commands, Merge(c)
  PROVE  Kept'
<1>1. PICK x : /\ "env" \notin spoilt' => x = Merged(Keys(file["env"]), c)
               /\ spoilt \subseteq spoilt'
               /\ conf' = [conf EXCEPT ![c] = Draft(conf[c], x)]
  <2>1. PICK unread \in BOOLEAN :
          /\ IF unread THEN Fault /\ spoilt' = spoilt \cup {"env"} ELSE Calm /\ UNCHANGED spoilt
          /\ conf' = [conf EXCEPT ![c].pc = "open", ![c].data = Merged(IF unread THEN << >> ELSE Keys(file["env"]), c)]
    BY Zenon DEF Merge
  <2>2. PICK x : x = Merged(IF unread THEN << >> ELSE Keys(file["env"]), c)
    OBVIOUS
  <2>3. conf' = [conf EXCEPT ![c] = Draft(conf[c], x)]
    BY <2>1, <2>2, ShapeParts DEF IInv, Draft
  <2>4. "env" \notin spoilt' => x = Merged(Keys(file["env"]), c)
    BY <2>1, <2>2
  <2>5. spoilt \subseteq spoilt'
    BY <2>1
  <2> QED BY <2>3, <2>4, <2>5
<1> DEFINE r == Draft(conf[c], x)
<1>2. /\ Shaped(r) /\ r.pc = "open" /\ r.data = x
      /\ r.ask = conf[c].ask /\ r.todo = conf[c].todo /\ r.published = conf[c].published
  BY ShapeParts, Drafted DEF IInv
<1> HIDE DEF r
<1>3. Only(c) /\ conf'[c] = r
  BY <1>1, OneChanges DEF IInv, r
<1>4. At(c, "next", "env") /\ UNCHANGED <<file, temp, meant>>
  BY DEF Merge
<1>5. Reports(conf'[c])
  BY <1>2, <1>3, <1>4, ReportParts DEF IInv, Reports, At
<1>6. \A f \in Files \ (shared' \cup spoilt') : Drafts(c, f)'
  <2>1. ASSUME NEW f \in Files \ (shared' \cup spoilt'), Working(c, f)'
        PROVE  Drafts(c, f)'
    <3>1. f = "env" /\ ~At(c, "fill", f)' /\ ~At(c, "publish", f)'
      BY <1>2, <1>3, <1>4, <2>1 DEF Working, At
    <3>2. x = Merged(Keys(meant["env"]), c)
      BY <1>1, <2>1, <3>1 DEF IInv, SettingsKept
    <3>3. conf'[c].data = Merged(Keys(meant["env"]), c)'
      BY <1>2, <1>3, <1>4, <3>2 DEF Merged
    <3> QED BY <3>1, <3>3 DEF Drafts
  <2> QED BY <2>1, NoDraft
<1> QED BY <1>1, <1>2, <1>3, <1>4, <1>5, <1>6, KeptByOne, ShapeParts DEF IInv, SettingsKept

\* It opens a temporary file, which is empty then.
LEMMA OpenStep ==
  ASSUME IInv, HandInv', shared \subseteq shared', NEW c \in Commands, NEW f \in Files, Open(c, f)
  PROVE  Kept'
<1> DEFINE r == [conf[c] EXCEPT !.pc = "fill", !.held = "temp"]
<1>1. conf' = [conf EXCEPT ![c] = r]
  BY ShapeParts DEF Open, IInv
<1>2. /\ Shaped(r) /\ r.pc = "fill" /\ r.held = "temp" /\ r.data = conf[c].data
      /\ r.ask = conf[c].ask /\ r.todo = conf[c].todo /\ r.published = conf[c].published
  BY ZenonT(60), ShapeParts, Opened DEF IInv
<1> HIDE DEF r
<1>3. Only(c) /\ conf'[c] = r
  BY <1>1, OneChanges DEF IInv
<1>4. (At(c, "open", f) \/ (At(c, "next", f) /\ f # "env")) /\ UNCHANGED <<file, meant, spoilt>>
  BY DEF Open
<1>5. Table(temp') /\ temp'[f] = Empty /\ \A k \in Files \ {f} : temp'[k] = temp[k]
  <2>1. temp' = [temp EXCEPT ![f] = Empty]
    BY DEF Open, Truncated
  <2>2. Table(temp)
    BY ShapeParts DEF IInv
  <2> QED BY <2>1, <2>2 DEF Table
<1>6. Reports(conf'[c])
  BY <1>2, <1>3, <1>4, ReportParts DEF IInv, Reports, At
<1>7. \A k \in Files : Working(c, k)' => k = f
  BY <1>2, <1>3, <1>4 DEF Working, At
<1>8. Working(c, f)' /\ ~At(c, "publish", f)'
  BY <1>2, <1>3, <1>4 DEF Working, At
<1>9. f \notin shared' \cup spoilt' => Drafts(c, f)'
  <2>1. ASSUME f = "env", f \notin shared' \cup spoilt'
        PROVE  conf'[c].data = Merged(Keys(meant["env"]), c)'
    <3>1. Drafts(c, f) /\ Working(c, f)
      BY <1>4, <2>1, DraftParts DEF IInv, Working
    <3>2. conf[c].data = Merged(Keys(meant["env"]), c)
      BY <2>1, <3>1 DEF Drafts
    <3> QED BY <1>2, <1>3, <1>4, <3>2 DEF Merged
  <2> QED BY <1>2, <1>3, <1>4, <1>5, <1>8, <2>1 DEF Drafts
<1>10. \A k \in Files \ (shared' \cup spoilt') : Drafts(c, k)'
  BY <1>7, <1>9, NoDraft
<1> QED BY <1>2, <1>3, <1>4, <1>5, <1>6, <1>8, <1>10, KeptByOne, ShapeParts DEF IInv, SettingsKept

\* It writes its text, into the file that it opened.
LEMMA FillStep ==
  ASSUME IInv, HandInv', shared \subseteq shared', NEW c \in Commands, NEW f \in Files, Fill(c, f)
  PROVE  Kept'
<1> DEFINE r == [conf[c] EXCEPT !.pc = "publish"]
<1>1. conf' = [conf EXCEPT ![c] = r]
  BY ShapeParts DEF Fill, IInv
<1>2. /\ Shaped(r) /\ r.pc = "publish" /\ r.data = conf[c].data /\ r.held = conf[c].held
      /\ r.ask = conf[c].ask /\ r.todo = conf[c].todo /\ r.published = conf[c].published
  BY ShapeParts, Filled DEF IInv
<1> HIDE DEF r
<1>3. Only(c) /\ conf'[c] = r
  BY <1>1, OneChanges DEF IInv
<1>4. At(c, "fill", f) /\ UNCHANGED <<meant, spoilt>>
  BY DEF Fill
<1>5. /\ Table(file') /\ \A k \in Files \ {f} : file'[k] = file[k]
      /\ Table(temp') /\ \A k \in Files \ {f} : temp'[k] = temp[k]
  <2>1. Table(file) /\ Table(temp)
    BY ShapeParts DEF IInv
  <2>2. \/ UNCHANGED file /\ \E t : temp' = [temp EXCEPT ![f] = t]
        \/ UNCHANGED temp /\ \E t : file' = [file EXCEPT ![f] = t]
        \/ UNCHANGED <<file, temp>>
    BY DEF Fill
  <2>3. CASE UNCHANGED file /\ \E t : temp' = [temp EXCEPT ![f] = t]
    <3>1. PICK t : temp' = [temp EXCEPT ![f] = t]
      BY <2>3
    <3>2. file' = file
      BY <2>3
    <3> QED BY <2>1, <3>1, <3>2 DEF Table
  <2>4. CASE UNCHANGED temp /\ \E t : file' = [file EXCEPT ![f] = t]
    <3>1. PICK t : file' = [file EXCEPT ![f] = t]
      BY <2>4
    <3>2. temp' = temp
      BY <2>4
    <3> QED BY <2>1, <3>1, <3>2 DEF Table
  <2>5. CASE UNCHANGED <<file, temp>>
    BY <2>1, <2>5
  <2> QED BY <2>2, <2>3, <2>4, <2>5
<1>6. Reports(conf'[c])
  BY <1>2, <1>3, <1>4, ReportParts DEF IInv, Reports, At
<1>7. \A k \in Files : Working(c, k)' => k = f
  BY <1>2, <1>3, <1>4 DEF Working, At
<1>8. Working(c, f)' /\ ~At(c, "fill", f)' /\ Text(c, f)' = Text(c, f)
  BY <1>2, <1>3, <1>4 DEF Working, At, Text
<1>9. ASSUME f \notin shared' \cup spoilt'
      PROVE  Drafts(c, f)' /\ file' = file
  <2>1. Drafts(c, f) /\ Working(c, f)
    BY <1>4, <1>9, DraftParts DEF IInv, Working
  <2>2. conf[c].held = "temp" /\ temp[f] = Empty
    BY <1>4, <2>1 DEF Drafts
  <2>3. file' = file /\ \E t \in Written(temp[f], Text(c, f)) : temp' = [temp EXCEPT ![f] = t]
    BY <2>2 DEF Fill
  <2>4. temp' = [temp EXCEPT ![f] = Text(c, f)]
    BY <2>2, <2>3 DEF Written
  <2>5. temp'[f] = Text(c, f)'
    BY <2>4, <1>8, ShapeParts DEF IInv, Table
  <2>6. f = "env" => conf'[c].data = Merged(Keys(meant["env"]), c)'
    BY <1>2, <1>3, <1>4, <2>1 DEF Drafts, Merged
  <2> QED BY <1>8, <2>3, <2>5, <2>6 DEF Drafts
<1>10. \A k \in Files \ (shared' \cup spoilt') : Drafts(c, k)' /\ file'[k] = meant'[k]
  <2>1. ASSUME NEW k \in Files \ (shared' \cup spoilt')
        PROVE  Drafts(c, k)' /\ file'[k] = file[k]
    BY <1>5, <1>7, <1>9, NoDraft
  <2> QED BY <1>4, <2>1 DEF IInv, SettingsKept
<1> QED BY <1>2, <1>3, <1>4, <1>5, <1>6, <1>8, <1>10, KeptByOne, ShapeParts DEF IInv

\* It is killed.
LEMMA CrashStep ==
  ASSUME IInv, HandInv', shared \subseteq shared', NEW c \in Commands, Crash(c)
  PROVE  Kept'
<1>1. conf' = [conf EXCEPT ![c] = Unstarted] /\ UNCHANGED <<file, temp, meant, spoilt>>
  BY DEF Crash
<1>2. Only(c) /\ conf'[c] = Unstarted
  BY <1>1, OneChanges DEF IInv
<1>3. Shaped(conf'[c]) /\ Reports(conf'[c]) /\ \A f \in Files : ~Working(c, f)'
  <2>1. Shaped(Unstarted) /\ Reports(Unstarted)
    BY DEF Unstarted, Shaped, Reports
  <2>2. \A f \in Files : ~Working(c, f)'
    BY <1>2 DEF Working, At, Unstarted
  <2> QED BY <1>2, <2>1, <2>2
<1> QED BY <1>1, <1>2, <1>3, NoDraft, KeptByOne, ShapeParts DEF IInv, SettingsKept

\* A configure ends: it reports success when nothing is left to write, and an error before.
LEMMA EndStep ==
  ASSUME IInv, HandInv', shared \subseteq shared', NEW c \in Commands, NEW report \in {"ok", "failed"},
         conf' = Ended(c, report), ~Resting(c), report = "ok" <=> conf[c].todo = {},
         UNCHANGED <<file, meant, spoilt>>, Table(temp'),
         \A f \in Files : temp'[f] # temp[f] => Working(c, f)
  PROVE  Kept'
<1> DEFINE r == Report(conf[c], report)
<1>1. conf' = [conf EXCEPT ![c] = r]
  BY ShapeParts DEF Ended, Report, IInv
<1>2. Shaped(r) /\ r.pc = report /\ r.ask = conf[c].ask /\ r.published = conf[c].published
  BY ShapeParts, Reported DEF IInv
<1> HIDE DEF r
<1>3. Only(c) /\ conf'[c] = r
  BY <1>1, OneChanges DEF IInv
<1>4. Reports(conf'[c])
  <2>1. Reports(conf[c])
    BY ReportParts DEF IInv
  <2>2. conf[c].todo \cup conf[c].published = Asked(conf[c].ask) /\ conf[c].todo \cap conf[c].published = {}
    BY <2>1 DEF Reports, Resting
  <2> QED BY <1>2, <1>3, <2>1, <2>2 DEF Reports
<1>5. \A f \in Files : ~Working(c, f)'
  BY <1>2, <1>3 DEF Working, At
<1> QED BY <1>2, <1>3, <1>4, <1>5, NoDraft, KeptByOne, ShapeParts DEF IInv, SettingsKept

\* It has nothing left to write.
LEMMA FinishStep ==
  ASSUME IInv, HandInv', shared \subseteq shared', NEW c \in Commands, Finish(c)
  PROVE  Kept'
<1>1. conf' = Ended(c, "ok") /\ ~Resting(c) /\ conf[c].todo = {} /\ UNCHANGED <<file, temp, meant, spoilt>>
  BY DEF Finish, Resting
<1>2. Table(temp')
  BY <1>1, ShapeParts DEF IInv
<1> QED BY <1>1, <1>2, EndStep

\* Its temporary file was renamed by another one.
LEMMA OvertakenStep ==
  ASSUME IInv, HandInv', shared \subseteq shared', NEW c \in Commands, NEW f \in Files, Overtaken(c, f)
  PROVE  Kept'
<1>1. conf' = Ended(c, "failed") /\ ~Resting(c) /\ conf[c].todo # {} /\ UNCHANGED <<file, temp, meant, spoilt>>
  BY DEF Overtaken, Failed, At, Resting
<1>2. Table(temp')
  BY <1>1, ShapeParts DEF IInv
<1> QED BY <1>1, <1>2, EndStep

\* The configures after c has failed to rename the path list and removed the temporary file.
LEMMA DroppedParts ==
  ASSUME ShapeInv, NEW c \in Commands, conf' = Dropped(c)
  PROVE  /\ conf' = [p \in Commands |-> conf'[p]]
         /\ conf'[c] = Report(conf[c], "failed")
         /\ \A p \in Commands \ {c} :
              conf'[p] = conf[p] \/ (At(p, "fill", "path") /\ conf'[p] = Move(conf[p], "gone"))
<1>1. conf' = [p \in Commands |-> conf'[p]]
  BY DEF Dropped
<1>2. PICK r : r = Report(conf[c], "failed")
  OBVIOUS
<1>3. Failed(c) = [conf EXCEPT ![c] = r] /\ conf = [d \in Commands |-> conf[d]]
  BY <1>2, ShapeParts DEF Failed, Ended, Report
<1>4. Failed(c)[c] = r /\ \A p \in Commands \ {c} : Failed(c)[p] = conf[p]
  BY <1>3
<1>5. conf'[c] = r
  BY <1>4 DEF Dropped
<1>6. ASSUME NEW p \in Commands \ {c}
      PROVE  conf'[p] = conf[p] \/ (At(p, "fill", "path") /\ conf'[p] = Move(conf[p], "gone"))
  BY <1>4 DEF Dropped, Move
<1> QED BY <1>1, <1>2, <1>5, <1>6

\* The rename of the path list fails.
LEMMA DropStep ==
  ASSUME IInv, HandInv', shared \subseteq shared', NEW c \in Commands, At(c, "publish", "path"),
         conf' = Dropped(c), temp' = [temp EXCEPT !["path"] = None], UNCHANGED <<file, meant, spoilt>>
  PROVE  Kept'
<1> DEFINE r == Report(conf[c], "failed")
<1>1. Shaped(r) /\ r.pc = "failed" /\ r.ask = conf[c].ask /\ r.published = conf[c].published
  BY ShapeParts, Reported DEF IInv
<1> HIDE DEF r
<1>2. /\ conf' = [p \in Commands |-> conf'[p]] /\ conf'[c] = r
      /\ \A p \in Commands \ {c} :
           conf'[p] = conf[p] \/ (At(p, "fill", "path") /\ conf'[p] = Move(conf[p], "gone"))
  BY DroppedParts DEF IInv, r
<1>3. ASSUME NEW p \in Commands \ {c}
      PROVE  /\ Shaped(conf'[p]) /\ Reports(conf'[p])
             /\ conf'[p].pc = conf[p].pc /\ conf'[p].todo = conf[p].todo
  <2>1. Shaped(conf[p]) /\ Reports(conf[p])
    BY ShapeParts, ReportParts DEF IInv
  <2>2. CASE conf'[p] = conf[p]
    BY <2>1, <2>2
  <2>3. CASE At(p, "fill", "path") /\ conf'[p] = Move(conf[p], "gone")
    BY <2>1, <2>3, Moved DEF Reports
  <2> QED BY <1>2, <2>2, <2>3
<1>4. Table(temp') /\ \A k \in Files \ {"path"} : temp'[k] = temp[k]
  <2>1. Table(temp)
    BY ShapeParts DEF IInv
  <2> QED BY <2>1 DEF Table
<1>5. ShapeInv'
  BY <1>1, <1>2, <1>3, <1>4, ShapeParts, ShapePartsNext DEF IInv
<1>6. (ReportInv /\ ConfigureHonest)'
  <2>1. Reports(conf[c]) /\ conf[c].pc \notin {"idle", "ok", "failed"} /\ conf[c].todo # {}
    BY ReportParts DEF IInv, At
  <2>2. conf[c].todo \cup conf[c].published = Asked(conf[c].ask) /\ conf[c].todo \cap conf[c].published = {}
    BY <2>1 DEF Reports
  <2>3. Reports(conf'[c])
    BY <1>1, <1>2, <2>1, <2>2 DEF Reports
  <2> QED BY <1>3, <2>3, ReportParts
<1>7. SettingsKept'
  BY DEF IInv, SettingsKept
<1>8. DraftInv'
  <2>1. ASSUME NEW p \in Commands, NEW k \in Files \ (shared' \cup spoilt'), Working(p, k)'
        PROVE  Drafts(p, k)'
    <3>1. p # c
      BY <1>1, <1>2, <2>1 DEF Working, At
    <3>2. Working(p, k) /\ Drafts(p, k)
      BY <1>3, <2>1, <3>1, DraftParts DEF IInv, Working, At
    <3>3. k # "path"
      <4>1. Working(c, "path") /\ "path" \in Files
        BY DEF Working, Files
      <4> QED BY <2>1, <3>1, <3>2, <4>1, OneHand DEF IInv
    <3>4. conf'[p] = conf[p]
      BY <1>2, <3>1, <3>2, <3>3 DEF Working, At
    <3> QED BY <1>4, <2>1, <3>2, <3>3, <3>4, DraftStays
  <2> QED BY <2>1, NoDraft, DraftParts
<1> QED BY <1>5, <1>6, <1>7, <1>8 DEF Kept

\* One of its steps fails.
LEMMA FailsStep ==
  ASSUME IInv, HandInv', shared \subseteq shared', NEW c \in Commands, NEW f \in Files, Fails(c, f)
  PROVE  Kept'
<1>1. UNCHANGED <<file, meant, spoilt>> /\ ~Resting(c) /\ conf[c].todo # {}
  BY DEF Fails, At, Resting
<1>2. CASE At(c, "publish", "path")
  BY <1>1, <1>2, DropStep DEF Fails
<1>3. CASE ~At(c, "publish", "path")
  <2>1. conf' = Ended(c, "failed") /\ temp' = temp
    BY <1>3 DEF Fails, Failed
  <2>2. Table(temp')
    BY <2>1, ShapeParts DEF IInv
  <2> QED BY <1>1, <2>1, <2>2, EndStep
<1> QED BY <1>2, <1>3

\* The configures after c has put another file, or none, at f.
LEMMA AdvancedParts ==
  ASSUME ShapeInv, NEW c \in Commands, NEW f \in Files, NEW renamed \in BOOLEAN, conf' = Advanced(c, f, renamed)
  PROVE  /\ conf' = [p \in Commands |-> conf'[p]]
         /\ conf'[c] = Rename(conf[c], f)
         /\ \A p \in Commands \ {c} : conf'[p] = conf[p] \/ (At(p, "fill", f) /\ \E x : conf'[p] = Move(conf[p], x))
         /\ \A p \in Commands \ {c} : ~renamed /\ conf[p].held = "temp" => conf'[p] = conf[p]
<1>1. conf' = [p \in Commands |-> conf'[p]]
  BY DEF Advanced
<1>2. conf'[c] = Rename(conf[c], f)
  BY DEF Advanced, Rename
<1>3. ASSUME NEW p \in Commands \ {c}
      PROVE  /\ conf'[p] = conf[p] \/ (At(p, "fill", f) /\ \E x : conf'[p] = Move(conf[p], x))
             /\ ~renamed /\ conf[p].held = "temp" => conf'[p] = conf[p]
  <2>1. CASE At(p, "fill", f)
    <3>1. conf'[p] = [conf[p] EXCEPT !.held = IF conf[p].held # "temp" THEN "gone" ELSE IF renamed THEN "file" ELSE conf[p].held]
      BY <2>1 DEF Advanced
    <3> DEFINE x == IF conf[p].held # "temp" THEN "gone" ELSE IF renamed THEN "file" ELSE conf[p].held
    <3>2. conf'[p] = Move(conf[p], x)
      BY <3>1 DEF Move
    <3>3. ~renamed /\ conf[p].held = "temp" => conf'[p] = [conf[p] EXCEPT !.held = conf[p].held]
      BY <3>1
    <3>4. [conf[p] EXCEPT !.held = conf[p].held] = conf[p]
      BY ShapeParts DEF Shaped
    <3> QED BY <2>1, <3>2, <3>3, <3>4
  <2>2. CASE ~At(p, "fill", f)
    BY <2>2 DEF Advanced
  <2> QED BY <2>1, <2>2
<1> QED BY <1>1, <1>2, <1>3

\* Publish and Clear: f holds what is meant, and what others have in hand is another file.
LEMMA AdvanceStep ==
  ASSUME IInv, HandInv', shared \subseteq shared', NEW c \in Commands, NEW f \in Files, NEW renamed \in BOOLEAN,
         conf' = Advanced(c, f, renamed), UNCHANGED spoilt,
         At(c, "publish", f) \/ (At(c, "next", f) /\ f = "path" /\ ~renamed /\ UNCHANGED temp),
         Table(file'), Table(temp'), Table(meant'),
         \A k \in Files \ {f} : file'[k] = file[k] /\ temp'[k] = temp[k] /\ meant'[k] = meant[k],
         f \notin shared' \cup spoilt' => file'[f] = meant'[f]
  PROVE  Kept'
<1> DEFINE r == Rename(conf[c], f)
<1>1. /\ Shaped(r) /\ r.pc = "next" /\ r.ask = conf[c].ask /\ r.todo = conf[c].todo \ {f}
      /\ r.published = conf[c].published \cup {f}
  BY ShapeParts, Renamed DEF IInv
<1> HIDE DEF r
<1>2. /\ conf' = [p \in Commands |-> conf'[p]] /\ conf'[c] = r
      /\ \A p \in Commands \ {c} : conf'[p] = conf[p] \/ (At(p, "fill", f) /\ \E x : conf'[p] = Move(conf[p], x))
      /\ \A p \in Commands \ {c} : ~renamed /\ conf[p].held = "temp" => conf'[p] = conf[p]
  BY AdvancedParts DEF IInv, r
<1>3. \A p \in Commands \ {c} : /\ Shaped(conf'[p]) /\ conf'[p].pc = conf[p].pc /\ conf'[p].todo = conf[p].todo
                                /\ conf'[p].ask = conf[p].ask /\ conf'[p].published = conf[p].published
  <2> SUFFICES ASSUME NEW p \in Commands \ {c}
               PROVE  /\ Shaped(conf'[p]) /\ conf'[p].pc = conf[p].pc /\ conf'[p].todo = conf[p].todo
                      /\ conf'[p].ask = conf[p].ask /\ conf'[p].published = conf[p].published
    OBVIOUS
  <2>1. Shaped(conf[p])
    BY ShapeParts DEF IInv
  <2> QED BY <1>2, <2>1, Moved
<1>4. ShapeInv'
  BY <1>1, <1>2, <1>3, ShapePartsNext
<1>5. Reports(conf'[c])
  <2>1. Reports(conf[c]) /\ conf[c].pc \notin {"idle", "ok", "failed"} /\ conf[c].todo # {} /\ f = First(conf[c].todo)
    BY ReportParts DEF IInv, At
  <2>2. conf[c].todo \in SUBSET Files
    BY ShapeParts DEF IInv, Shaped
  <2>3. f \in conf[c].todo /\ (f = "path" => conf[c].todo = {"path"})
    BY <2>1, <2>2, FirstIsNext
  <2>4. conf[c].todo \cup conf[c].published = Asked(conf[c].ask) /\ conf[c].todo \cap conf[c].published = {}
    BY <2>1 DEF Reports
  <2>5. "path" \in r.published => r.published = Asked(r.ask)
    BY <1>1, <2>1, <2>3, <2>4 DEF Reports
  <2> QED BY ZenonT(60), <1>1, <1>2, <2>3, <2>4, <2>5 DEF Reports
<1>6. (ReportInv /\ ConfigureHonest)'
  <2>1. ASSUME NEW p \in Commands \ {c}
        PROVE  Reports(conf'[p])
    BY <1>3, ReportParts DEF IInv, Reports
  <2> QED BY <1>5, <2>1, ReportParts
<1>7. SettingsKept'
  BY DEF IInv, SettingsKept
<1>8. DraftInv'
  <2>1. ASSUME NEW p \in Commands, NEW k \in Files \ (shared' \cup spoilt'), Working(p, k)'
        PROVE  Drafts(p, k)'
    <3>1. p # c
      BY <1>1, <1>2, <2>1 DEF Working, At
    <3>2. Working(p, k) /\ Drafts(p, k)
      BY <1>3, <2>1, <3>1, DraftParts DEF IInv, Working, At
    <3>3. CASE k # f
      <4>1. conf'[p] = conf[p]
        BY <1>2, <3>1, <3>2, <3>3 DEF Working, At
      <4> QED BY <2>1, <3>2, <3>3, <4>1, DraftStays
    <3>4. CASE k = f
      <4>1. ~Working(c, f)
        BY <2>1, <3>1, <3>2, <3>4, OneHand DEF IInv
      <4>2. At(c, "next", f) /\ f = "path" /\ ~renamed /\ UNCHANGED temp
        BY <4>1 DEF Working
      <4>3. conf'[p] = conf[p]
        BY <1>2, <3>1, <3>2, <3>4, <4>2 DEF Drafts
      <4> QED BY <2>1, <3>2, <3>4, <4>2, <4>3, DraftStays
    <3> QED BY <3>3, <3>4
  <2> QED BY <2>1, NoDraft, DraftParts
<1> QED BY <1>4, <1>6, <1>7, <1>8 DEF Kept

\* It renames its temporary file to the settings file.
LEMMA PublishStep ==
  ASSUME IInv, HandInv', shared \subseteq shared', NEW c \in Commands, NEW f \in Files, Publish(c, f)
  PROVE  Kept'
<1>1. At(c, "publish", f) /\ conf' = Advanced(c, f, TRUE) /\ UNCHANGED spoilt
  BY DEF Publish
<1>2. /\ file' = [file EXCEPT ![f] = temp[f]] /\ temp' = [temp EXCEPT ![f] = None]
      /\ meant' = [meant EXCEPT ![f] = Intended(c, f)]
  BY DEF Publish
<1>3. Table(file) /\ Table(temp) /\ Table(meant)
  BY ShapeParts DEF IInv
<1>4. /\ Table(file') /\ file'[f] = temp[f] /\ \A k \in Files \ {f} : file'[k] = file[k]
      /\ Table(temp') /\ \A k \in Files \ {f} : temp'[k] = temp[k]
      /\ Table(meant') /\ meant'[f] = Intended(c, f) /\ \A k \in Files \ {f} : meant'[k] = meant[k]
  BY <1>2, <1>3 DEF Table
<1>5. f \notin shared' \cup spoilt' => file'[f] = meant'[f]
  <2>1. ASSUME f \notin shared' \cup spoilt'
        PROVE  temp[f] = Intended(c, f)
    <3>1. Drafts(c, f) /\ Working(c, f)
      BY <1>1, <2>1, DraftParts DEF IInv, Working
    <3> QED BY <1>1, <3>1 DEF Drafts, Text, Intended
  <2> QED BY <1>4, <2>1
<1> QED BY <1>1, <1>4, <1>5, AdvanceStep

\* It removes the path list.
LEMMA ClearStep ==
  ASSUME IInv, HandInv', shared \subseteq shared', NEW c \in Commands, Clear(c)
  PROVE  Kept'
<1>1. At(c, "next", "path") /\ conf' = Advanced(c, "path", FALSE) /\ UNCHANGED <<temp, spoilt>>
  BY DEF Clear
<1>2. file' = [file EXCEPT !["path"] = None] /\ meant' = [meant EXCEPT !["path"] = None]
  BY DEF Clear
<1>3. Table(file) /\ Table(temp) /\ Table(meant) /\ "path" \in Files
  BY ShapeParts DEF IInv, Files
<1>4. /\ Table(file') /\ file'["path"] = None /\ \A k \in Files \ {"path"} : file'[k] = file[k]
      /\ Table(meant') /\ meant'["path"] = None /\ \A k \in Files \ {"path"} : meant'[k] = meant[k]
  BY <1>2, <1>3 DEF Table
<1> QED BY <1>1, <1>3, <1>4, AdvanceStep

\* The user's edit of the env file spoils it for whoever has it in hand.
LEMMA DisableStep ==
  ASSUME IInv, HandInv', shared \subseteq shared', Disable
  PROVE  Kept'
<1> DEFINE With(f) == [k \in DOMAIN Keys(f) \cup {"disabled"} |-> IF k = "disabled" THEN "user" ELSE Keys(f)[k]]
<1>1. /\ file' = [file EXCEPT !["env"] = With(file["env"])] /\ meant' = [meant EXCEPT !["env"] = With(meant["env"])]
      /\ spoilt' = spoilt \cup (IF \E c \in Commands : InHand(c, "env") THEN {"env"} ELSE {})
      /\ conf' = [c \in Commands |->
                    IF At(c, "fill", "env") /\ conf[c].held = "file" THEN [conf[c] EXCEPT !.held = "gone"] ELSE conf[c]]
      /\ UNCHANGED temp
  BY DEF Disable
<1> HIDE DEF With
<1>2. Table(file) /\ Table(temp) /\ Table(meant) /\ "env" \in Files
  BY ShapeParts DEF IInv, Files
<1>3. /\ Table(file') /\ file'["env"] = With(file["env"]) /\ \A k \in Files \ {"env"} : file'[k] = file[k]
      /\ Table(meant') /\ meant'["env"] = With(meant["env"]) /\ \A k \in Files \ {"env"} : meant'[k] = meant[k]
  BY <1>1, <1>2 DEF Table
<1>4. conf' = [c \in Commands |-> conf'[c]]
  BY <1>1
<1>5. ASSUME NEW c \in Commands
      PROVE  /\ Shaped(conf'[c]) /\ Reports(conf'[c])
             /\ ~At(c, "fill", "env") => conf'[c] = conf[c]
             /\ conf'[c].pc = conf[c].pc /\ conf'[c].todo = conf[c].todo
  <2>1. Shaped(conf[c]) /\ Reports(conf[c])
    BY ShapeParts, ReportParts DEF IInv
  <2>2. conf'[c] = conf[c] \/ (At(c, "fill", "env") /\ conf'[c] = Move(conf[c], "gone"))
    BY <1>1 DEF Move
  <2>3. CASE conf'[c] = conf[c]
    BY <2>1, <2>3
  <2>4. CASE At(c, "fill", "env") /\ conf'[c] = Move(conf[c], "gone")
    BY <2>1, <2>4, Moved DEF Reports
  <2> QED BY <2>2, <2>3, <2>4
<1>6. ShapeInv'
  BY <1>1, <1>2, <1>3, <1>4, <1>5, ShapePartsNext
<1>7. SettingsKept'
  BY <1>1, <1>3 DEF IInv, SettingsKept
<1>8. DraftInv'
  <2>1. ASSUME NEW c \in Commands, NEW f \in Files \ (shared' \cup spoilt'), Working(c, f)'
        PROVE  Drafts(c, f)'
    <3>1. Working(c, f) /\ Drafts(c, f)
      BY <1>1, <1>5, <2>1, DraftParts DEF IInv, Working, At
    <3>2. f # "env"
      BY <1>1, <2>1, <3>1 DEF Working, InHand
    <3>3. conf'[c] = conf[c]
      BY <1>5, <3>1, <3>2 DEF Working, At
    <3> QED BY <1>1, <2>1, <3>1, <3>2, <3>3, DraftStays
  <2> QED BY <2>1, NoDraft, DraftParts
<1> QED BY <1>5, <1>6, <1>7, <1>8, ReportParts DEF Kept

\* A hook that reads the settings leaves them alone.
LEMMA ReadStep ==
  ASSUME IInv, HandInv', shared \subseteq shared', ReadEnv \/ ReadRepo \/ ReadPath
  PROVE  Kept'
<1>1. UNCHANGED <<file, temp, conf, meant>>
  BY DEF ReadEnv, ReadRepo, ReadPath, Read
<1>2. spoilt \subseteq spoilt'
  BY DEF ReadEnv, ReadRepo, ReadPath, Read
<1>3. ShapeInv'
  BY <1>1 DEF IInv, ShapeInv
<1>4. SettingsKept'
  BY <1>1, <1>2 DEF IInv, SettingsKept
<1>5. DraftInv'
  BY <1>1, <1>2, DraftParts, DraftStays DEF IInv
<1>6. (ReportInv /\ ConfigureHonest)'
  BY <1>1, ReportParts DEF IInv
<1> QED BY <1>3, <1>4, <1>5, <1>6 DEF Kept

-----------------------------------------------------------------------------
(* The theorems about configure *)

\* Two configures with one file in hand make it a shared file.
LEMMA HandStep ==
  Observe => HandInv' /\ shared \subseteq shared'
BY DEF Observe, HandInv

\* Initially no configure runs.
LEMMA InitInv ==
  Init => IInv
<1> SUFFICES ASSUME Init
             PROVE  IInv
  OBVIOUS
<1>1. conf = [c \in Commands |-> Unstarted] /\ meant = file /\ file = [f \in Files |-> file[f]]
  BY FoundAssumption DEF Init
<1>2. Table(file) /\ Table(temp) /\ Table(meant)
  BY <1>1 DEF Init, Table
<1>3. Shaped(Unstarted) /\ Reports(Unstarted) /\ Unstarted.pc = "idle" /\ ~Unstarted.guessed
  BY DEF Unstarted, Shaped, Reports
<1>4. ShapeInv
  BY <1>1, <1>2, <1>3, ShapeParts
<1>5. HandInv
  BY <1>1, <1>3 DEF HandInv, InHand, At, Resting
<1>6. DraftInv
  BY <1>1, <1>3 DEF DraftInv, At
<1>7. SettingsKept
  BY <1>1 DEF SettingsKept
<1>8. ReportInv /\ ConfigureHonest
  BY <1>1, <1>3, ReportParts
<1> QED BY <1>4, <1>5, <1>6, <1>7, <1>8 DEF IInv

\* Every step keeps the invariant.
LEMMA Inductive ==
  IInv /\ [Next]_vars => IInv'
<1> SUFFICES ASSUME IInv, [Next]_vars
             PROVE  IInv'
  OBVIOUS
<1>1. CASE Next
  <2>1. HandInv' /\ shared \subseteq shared'
    BY <1>1, HandStep DEF Next
  <2>2. Kept'
    <3>1. CASE ConfigureStep
      <4>1. PICK c \in Commands :
              \/ Start(c) \/ Merge(c) \/ Clear(c) \/ Finish(c) \/ Crash(c)
              \/ \E f \in Files : Open(c, f) \/ Fill(c, f) \/ Publish(c, f) \/ Overtaken(c, f) \/ Fails(c, f)
        BY <3>1 DEF ConfigureStep
      <4>2. CASE Start(c)
        BY <2>1, <4>2, StartStep
      <4>3. CASE Merge(c)
        BY <2>1, <4>3, MergeStep
      <4>4. CASE Clear(c)
        BY <2>1, <4>4, ClearStep
      <4>5. CASE Finish(c)
        BY <2>1, <4>5, FinishStep
      <4>6. CASE Crash(c)
        BY <2>1, <4>6, CrashStep
      <4>7. ASSUME NEW f \in Files, Open(c, f)
            PROVE  Kept'
        BY <2>1, <4>7, OpenStep
      <4>8. ASSUME NEW f \in Files, Fill(c, f)
            PROVE  Kept'
        BY <2>1, <4>8, FillStep
      <4>9. ASSUME NEW f \in Files, Publish(c, f)
            PROVE  Kept'
        BY <2>1, <4>9, PublishStep
      <4>10. ASSUME NEW f \in Files, Overtaken(c, f)
             PROVE  Kept'
        BY <2>1, <4>10, OvertakenStep
      <4>11. ASSUME NEW f \in Files, Fails(c, f)
             PROVE  Kept'
        BY <2>1, <4>11, FailsStep
      <4> QED BY <4>1, <4>2, <4>3, <4>4, <4>5, <4>6, <4>7, <4>8, <4>9, <4>10, <4>11
    <3>2. CASE Disable
      BY <2>1, <3>2, DisableStep
    <3>3. CASE ReadEnv \/ ReadRepo \/ ReadPath
      BY <2>1, <3>3, ReadStep
    <3> QED BY <1>1, <3>1, <3>2, <3>3 DEF Next
  <2> QED BY <2>1, <2>2 DEF IInv, Kept
<1>2. CASE UNCHANGED vars
  <2>1. UNCHANGED <<file, temp, conf, meant, spoilt, shared>>
    BY <1>2 DEF vars
  <2>2. ShapeInv' /\ SettingsKept'
    BY <2>1 DEF IInv, ShapeInv, SettingsKept
  <2>3. HandInv'
    BY <2>1 DEF IInv, HandInv, InHand, At, Resting
  <2>4. DraftInv'
    BY <2>1, DraftParts, DraftStays DEF IInv
  <2>5. (ReportInv /\ ConfigureHonest)'
    BY <2>1, ReportParts DEF IInv
  <2> QED BY <2>2, <2>3, <2>4, <2>5 DEF IInv
<1> QED BY <1>1, <1>2

\* The strengthening of the two properties of configure is inductive and holds in every
\* reachable state.
THEOREM Invariance == Spec => []IInv
<1>1. Init => IInv
  BY InitInv
<1>2. IInv /\ [Next]_vars => IInv'
  BY Inductive
<1> QED BY <1>1, <1>2, PTL DEF Spec

\* A settings file that was never shared holds what the configures that renamed it made of it,
\* one after the other, whatever failed or was killed between them (writeEnvFile,
\* writeRepoAllowFile, writePathAllowFile).
THEOREM SettingsSurvive == Spec => []SettingsKept
<1>1. IInv => SettingsKept
  BY DEF IInv
<1> QED BY <1>1, Invariance, PTL

\* What a configure reports is true of what it published, and the path list is the last file it
\* publishes (applyConfigureWithPath).
THEOREM ReportsAreTrue == Spec => []ConfigureHonest
<1>1. IInv => ConfigureHonest
  BY DEF IInv
<1> QED BY <1>1, Invariance, PTL

-----------------------------------------------------------------------------
(* The matchers: any pattern, any path *)

\* Segment n of the pattern stands for what lies between positions i and j of the path.
Covers(pattern, path, n, i, j) ==
  IF pattern[n] = "**" THEN i <= j ELSE j = i + 1 /\ SegmentMatch(pattern[n], path[j])

\* The segments after a up to b cut what lies between positions i and j.
Cuts(pattern, path, a, b, i, j, cut) ==
  /\ cut \in [a .. b -> 0 .. Len(path)] /\ cut[a] = i /\ cut[b] = j
  /\ \A n \in a + 1 .. b : Covers(pattern, path, n, cut[n - 1], cut[n])

Pieces(pattern, path, a, b, i, j) == \E cut : Cuts(pattern, path, a, b, i, j, cut)

\* No segment cuts nothing.
LEMMA PiecesNone ==
  ASSUME NEW pattern, NEW path, NEW a \in Nat, NEW i \in 0 .. Len(path), NEW j \in 0 .. Len(path)
  PROVE  Pieces(pattern, path, a, a, i, j) <=> i = j
<1>1. ASSUME Pieces(pattern, path, a, a, i, j) PROVE i = j
  BY <1>1 DEF Pieces, Cuts
<1>2. ASSUME i = j PROVE Pieces(pattern, path, a, a, i, j)
  <2>1. PICK cut : cut = [n \in a .. a |-> i]
    OBVIOUS
  <2>2. Cuts(pattern, path, a, a, i, j, cut)
    BY <1>2, <2>1 DEF Cuts
  <2> QED
    BY <2>2 DEF Pieces
<1> QED
  BY <1>1, <1>2

\* The last segment cuts the last piece.
LEMMA PiecesLast ==
  ASSUME NEW pattern, NEW path, Len(path) \in Nat, NEW a \in Nat, NEW b \in Nat, a < b,
         NEW i \in 0 .. Len(path), NEW j \in 0 .. Len(path)
  PROVE  Pieces(pattern, path, a, b, i, j) <=>
           \E l \in 0 .. Len(path) : Pieces(pattern, path, a, b - 1, i, l) /\ Covers(pattern, path, b, l, j)
<1>1. ASSUME Pieces(pattern, path, a, b, i, j)
      PROVE  \E l \in 0 .. Len(path) : Pieces(pattern, path, a, b - 1, i, l) /\ Covers(pattern, path, b, l, j)
  <2>1. PICK cut : Cuts(pattern, path, a, b, i, j, cut)
    BY <1>1 DEF Pieces
  <2>2. PICK l \in 0 .. Len(path) : l = cut[b - 1]
    BY <2>1 DEF Cuts
  <2>3. PICK c : c = [n \in a .. b - 1 |-> cut[n]]
    OBVIOUS
  <2>4. c \in [a .. b - 1 -> 0 .. Len(path)]
    BY <2>1, <2>3 DEF Cuts
  <2>5. \A n \in a + 1 .. b - 1 : Covers(pattern, path, n, c[n - 1], c[n])
    <3> TAKE n \in a + 1 .. b - 1
    <3>1. n \in a + 1 .. b /\ n \in a .. b - 1 /\ n - 1 \in a .. b - 1
      OBVIOUS
    <3>2. Covers(pattern, path, n, cut[n - 1], cut[n])
      BY <2>1, <3>1 DEF Cuts
    <3> QED
      BY <2>3, <3>1, <3>2
  <2>6. Cuts(pattern, path, a, b - 1, i, l, c)
    BY <2>1, <2>2, <2>3, <2>4, <2>5 DEF Cuts
  <2>7. Covers(pattern, path, b, l, j)
    <3>1. b \in a + 1 .. b
      OBVIOUS
    <3>2. Covers(pattern, path, b, cut[b - 1], cut[b]) /\ cut[b] = j
      BY <2>1, <3>1 DEF Cuts
    <3> QED
      BY <2>2, <3>2
  <2> QED
    BY <2>6, <2>7 DEF Pieces
<1>2. ASSUME NEW l \in 0 .. Len(path), Pieces(pattern, path, a, b - 1, i, l), Covers(pattern, path, b, l, j)
      PROVE  Pieces(pattern, path, a, b, i, j)
  <2>1. PICK c : Cuts(pattern, path, a, b - 1, i, l, c)
    BY <1>2 DEF Pieces
  <2>2. PICK cut : cut = [n \in a .. b |-> IF n = b THEN j ELSE c[n]]
    OBVIOUS
  <2>3. c \in [a .. b - 1 -> 0 .. Len(path)] /\ c[a] = i /\ c[b - 1] = l
    BY <2>1 DEF Cuts
  <2>4. cut \in [a .. b -> 0 .. Len(path)]
    <3>1. \A n \in a .. b : n # b => n \in a .. b - 1
      OBVIOUS
    <3> QED
      BY <2>2, <2>3, <3>1
  <2>5. cut[a] = i /\ cut[b] = j /\ \A n \in a .. b - 1 : cut[n] = c[n]
    BY <2>2, <2>3
  <2>6. \A n \in a + 1 .. b : Covers(pattern, path, n, cut[n - 1], cut[n])
    <3> TAKE n \in a + 1 .. b
    <3>1. CASE n = b
      <4>1. b - 1 \in a .. b - 1
        OBVIOUS
      <4>2. cut[b - 1] = l
        BY <2>3, <2>5, <4>1
      <4> QED
        BY <1>2, <2>5, <3>1, <4>2
    <3>2. CASE n # b
      <4>1. n \in a + 1 .. b - 1 /\ n \in a .. b - 1 /\ n - 1 \in a .. b - 1
        BY <3>2
      <4>2. Covers(pattern, path, n, c[n - 1], c[n])
        BY <2>1, <4>1 DEF Cuts
      <4> QED
        BY <2>5, <4>1, <4>2
    <3> QED
      BY <3>1, <3>2
  <2>7. Cuts(pattern, path, a, b, i, j, cut)
    BY <2>4, <2>5, <2>6 DEF Cuts
  <2> QED
    BY <2>7 DEF Pieces
<1> QED
  BY <1>1, <1>2

\* The first segment cuts the first piece.
LEMMA PiecesFirst ==
  ASSUME NEW pattern, NEW path, Len(path) \in Nat, NEW a \in Nat, NEW b \in Nat, a < b,
         NEW i \in 0 .. Len(path), NEW j \in 0 .. Len(path)
  PROVE  Pieces(pattern, path, a, b, i, j) <=>
           \E l \in 0 .. Len(path) : Covers(pattern, path, a + 1, i, l) /\ Pieces(pattern, path, a + 1, b, l, j)
<1>1. ASSUME Pieces(pattern, path, a, b, i, j)
      PROVE  \E l \in 0 .. Len(path) : Covers(pattern, path, a + 1, i, l) /\ Pieces(pattern, path, a + 1, b, l, j)
  <2>1. PICK cut : Cuts(pattern, path, a, b, i, j, cut)
    BY <1>1 DEF Pieces
  <2>2. PICK l \in 0 .. Len(path) : l = cut[a + 1]
    BY <2>1 DEF Cuts
  <2>3. PICK c : c = [n \in a + 1 .. b |-> cut[n]]
    OBVIOUS
  <2>4. c \in [a + 1 .. b -> 0 .. Len(path)]
    BY <2>1, <2>3 DEF Cuts
  <2>5. \A n \in (a + 1) + 1 .. b : Covers(pattern, path, n, c[n - 1], c[n])
    <3> TAKE n \in (a + 1) + 1 .. b
    <3>1. n \in a + 1 .. b /\ n - 1 \in a + 1 .. b
      OBVIOUS
    <3>2. Covers(pattern, path, n, cut[n - 1], cut[n])
      BY <2>1, <3>1 DEF Cuts
    <3> QED
      BY <2>3, <3>1, <3>2
  <2>6. Cuts(pattern, path, a + 1, b, l, j, c)
    BY <2>1, <2>2, <2>3, <2>4, <2>5 DEF Cuts
  <2>7. Covers(pattern, path, a + 1, i, l)
    <3>1. a + 1 \in a + 1 .. b /\ (a + 1) - 1 = a
      OBVIOUS
    <3>2. Covers(pattern, path, a + 1, cut[a], cut[a + 1]) /\ cut[a] = i
      BY <2>1, <3>1 DEF Cuts
    <3> QED
      BY <2>2, <3>2
  <2> QED
    BY <2>6, <2>7 DEF Pieces
<1>2. ASSUME NEW l \in 0 .. Len(path), Pieces(pattern, path, a + 1, b, l, j), Covers(pattern, path, a + 1, i, l)
      PROVE  Pieces(pattern, path, a, b, i, j)
  <2>1. PICK c : Cuts(pattern, path, a + 1, b, l, j, c)
    BY <1>2 DEF Pieces
  <2>2. PICK cut : cut = [n \in a .. b |-> IF n = a THEN i ELSE c[n]]
    OBVIOUS
  <2>3. c \in [a + 1 .. b -> 0 .. Len(path)] /\ c[a + 1] = l /\ c[b] = j
    BY <2>1 DEF Cuts
  <2>4. cut \in [a .. b -> 0 .. Len(path)]
    <3>1. \A n \in a .. b : n # a => n \in a + 1 .. b
      OBVIOUS
    <3> QED
      BY <2>2, <2>3, <3>1
  <2>5. cut[a] = i /\ cut[b] = j /\ \A n \in a + 1 .. b : cut[n] = c[n]
    BY <2>2, <2>3
  <2>6. \A n \in a + 1 .. b : Covers(pattern, path, n, cut[n - 1], cut[n])
    <3> TAKE n \in a + 1 .. b
    <3>1. CASE n = a + 1
      <4>1. n - 1 = a /\ cut[n] = l
        BY <2>3, <2>5, <3>1
      <4> QED
        BY <1>2, <2>5, <3>1, <4>1
    <3>2. CASE n # a + 1
      <4>1. n \in (a + 1) + 1 .. b /\ n - 1 \in a + 1 .. b
        BY <3>2
      <4>2. Covers(pattern, path, n, c[n - 1], c[n])
        BY <2>1, <4>1 DEF Cuts
      <4> QED
        BY <2>5, <4>1, <4>2
    <3> QED
      BY <3>1, <3>2
  <2>7. Cuts(pattern, path, a, b, i, j, cut)
    BY <2>4, <2>5, <2>6 DEF Cuts
  <2> QED
    BY <2>7 DEF Pieces
<1> QED
  BY <1>1, <1>2

\* What a pattern means is that its segments cut the whole path.
LEMMA MeansPieces ==
  ASSUME NEW S, NEW pattern \in Seq(S), NEW path \in Seq(S)
  PROVE  Means(pattern, path) <=> Pieces(pattern, path, 0, Len(pattern), 0, Len(path))
<1>1. DOMAIN pattern = 1 .. Len(pattern) /\ Len(pattern) \in Nat /\ Len(path) \in Nat
  BY LenProperties
<1>2. ASSUME Means(pattern, path) PROVE Pieces(pattern, path, 0, Len(pattern), 0, Len(path))
  <2>1. PICK cut \in [0 .. Len(pattern) -> 0 .. Len(path)] :
          /\ cut[0] = 0 /\ cut[Len(pattern)] = Len(path)
          /\ \A n \in DOMAIN pattern :
               IF pattern[n] = "**" THEN cut[n - 1] <= cut[n]
               ELSE cut[n] = cut[n - 1] + 1 /\ SegmentMatch(pattern[n], path[cut[n]])
    BY <1>2 DEF Means
  <2>2. \A n \in 0 + 1 .. Len(pattern) : Covers(pattern, path, n, cut[n - 1], cut[n])
    <3> TAKE n \in 0 + 1 .. Len(pattern)
    <3>1. n \in DOMAIN pattern
      BY <1>1
    <3> QED
      BY <2>1, <3>1 DEF Covers
  <2>3. Cuts(pattern, path, 0, Len(pattern), 0, Len(path), cut)
    BY <2>1, <2>2 DEF Cuts
  <2> QED
    BY <2>3 DEF Pieces
<1>3. ASSUME Pieces(pattern, path, 0, Len(pattern), 0, Len(path)) PROVE Means(pattern, path)
  <2>1. PICK cut : Cuts(pattern, path, 0, Len(pattern), 0, Len(path), cut)
    BY <1>3 DEF Pieces
  <2>2. /\ cut \in [0 .. Len(pattern) -> 0 .. Len(path)] /\ cut[0] = 0 /\ cut[Len(pattern)] = Len(path)
        /\ \A n \in 0 + 1 .. Len(pattern) : Covers(pattern, path, n, cut[n - 1], cut[n])
    BY <2>1 DEF Cuts
  <2>3. \A n \in DOMAIN pattern :
          IF pattern[n] = "**" THEN cut[n - 1] <= cut[n]
          ELSE cut[n] = cut[n - 1] + 1 /\ SegmentMatch(pattern[n], path[cut[n]])
    <3> TAKE n \in DOMAIN pattern
    <3>1. n \in 0 + 1 .. Len(pattern)
      BY <1>1
    <3> QED
      BY <2>2, <3>1 DEF Covers
  <2> QED
    BY <2>2, <2>3 DEF Means
<1> QED
  BY <1>2, <1>3

\* What matchPolicyPathSegments computes of its next row.
LEMMA HeadStep ==
  ASSUME NEW pattern, NEW path, Len(path) \in Nat, NEW n \in Nat, n > 0, NEW i \in 0 .. Len(path)
  PROVE  Pieces(pattern, path, 0, n, 0, i) <=>
           IF pattern[n] = "**" THEN \E j \in 0 .. i : Pieces(pattern, path, 0, n - 1, 0, j)
           ELSE i > 0 /\ Pieces(pattern, path, 0, n - 1, 0, i - 1) /\ SegmentMatch(pattern[n], path[i])
<1>1. Pieces(pattern, path, 0, n, 0, i) <=>
        \E l \in 0 .. Len(path) : Pieces(pattern, path, 0, n - 1, 0, l) /\ Covers(pattern, path, n, l, i)
  BY PiecesLast
<1>2. CASE pattern[n] = "**"
  <2>1. \A l \in 0 .. Len(path) : Covers(pattern, path, n, l, i) <=> l \in 0 .. i
    BY <1>2 DEF Covers
  <2>2. \A l \in 0 .. i : l \in 0 .. Len(path)
    OBVIOUS
  <2> QED
    BY <1>1, <1>2, <2>1, <2>2
<1>3. CASE pattern[n] # "**"
  <2>1. \A l \in 0 .. Len(path) : Covers(pattern, path, n, l, i) <=> i > 0 /\ l = i - 1 /\ SegmentMatch(pattern[n], path[i])
    BY <1>3 DEF Covers
  <2>2. i > 0 => i - 1 \in 0 .. Len(path)
    OBVIOUS
  <2> QED
    BY <1>1, <1>3, <2>1, <2>2
<1> QED
  BY <1>2, <1>3

\* The last n segments of the pattern cut the last k of the path.
TailPieces(pattern, path, n, k) == Pieces(pattern, path, Len(pattern) - n, Len(pattern), Len(path) - k, Len(path))

\* What matchPathSegments computes of a rest.
LEMMA TailStep ==
  ASSUME NEW pattern, NEW path, Len(pattern) \in Nat, Len(path) \in Nat,
         NEW n \in 1 .. Len(pattern), NEW k \in 0 .. Len(path)
  PROVE  TailPieces(pattern, path, n, k) <=>
           IF pattern[Len(pattern) - n + 1] = "**" THEN TailPieces(pattern, path, n - 1, k) \/ (k > 0 /\ TailPieces(pattern, path, n, k - 1))
           ELSE k > 0 /\ SegmentMatch(pattern[Len(pattern) - n + 1], path[Len(path) - k + 1]) /\ TailPieces(pattern, path, n - 1, k - 1)
<1> DEFINE K == Len(path)
           p == Len(pattern) - n + 1
           From(l) == Pieces(pattern, path, p, Len(pattern), l, K)
<1>1. ASSUME NEW x \in 0 .. K
      PROVE  TailPieces(pattern, path, n, x) <=> \E l \in 0 .. K : Covers(pattern, path, p, K - x, l) /\ From(l)
  <2>1. Len(pattern) - n \in Nat /\ Len(pattern) - n < Len(pattern) /\ K - x \in 0 .. K /\ K \in 0 .. K
    OBVIOUS
  <2>2. Pieces(pattern, path, Len(pattern) - n, Len(pattern), K - x, K) <=>
          \E l \in 0 .. K : /\ Covers(pattern, path, (Len(pattern) - n) + 1, K - x, l)
                            /\ Pieces(pattern, path, (Len(pattern) - n) + 1, Len(pattern), l, K)
    BY <2>1, PiecesFirst
  <2> QED
    BY <2>2 DEF TailPieces
<1>2. ASSUME NEW x \in 0 .. K
      PROVE  TailPieces(pattern, path, n - 1, x) <=> From(K - x)
  <2>1. Len(pattern) - (n - 1) = p
    OBVIOUS
  <2> QED
    BY <2>1 DEF TailPieces
<1> HIDE DEF From
<1>3. CASE pattern[p] = "**"
  <2>1. \A i \in 0 .. K, l \in 0 .. K : Covers(pattern, path, p, i, l) <=> i <= l
    BY <1>3 DEF Covers
  <2>2. TailPieces(pattern, path, n, k) <=> \E l \in K - k .. K : From(l)
    <3>1. K - k \in 0 .. K /\ \A l \in K - k .. K : l \in 0 .. K
      OBVIOUS
    <3>2. \A l \in 0 .. K : K - k <= l <=> l \in K - k .. K
      OBVIOUS
    <3> QED
      BY <1>1, <2>1, <3>1, <3>2
  <2>3. k > 0 => (TailPieces(pattern, path, n, k - 1) <=> \E l \in (K - k) + 1 .. K : From(l))
    <3> SUFFICES ASSUME k > 0 PROVE TailPieces(pattern, path, n, k - 1) <=> \E l \in (K - k) + 1 .. K : From(l)
      OBVIOUS
    <3>1. k - 1 \in 0 .. K /\ K - (k - 1) \in 0 .. K /\ K - (k - 1) = (K - k) + 1 /\ \A l \in (K - k) + 1 .. K : l \in 0 .. K
      OBVIOUS
    <3>2. \A l \in 0 .. K : (K - k) + 1 <= l <=> l \in (K - k) + 1 .. K
      OBVIOUS
    <3>3. TailPieces(pattern, path, n, k - 1) <=> \E l \in 0 .. K : Covers(pattern, path, p, K - (k - 1), l) /\ From(l)
      BY <1>1, <3>1
    <3> QED
      BY <2>1, <3>1, <3>2, <3>3
  <2>4. TailPieces(pattern, path, n - 1, k) <=> From(K - k)
    BY <1>2
  <2>5. (\E l \in K - k .. K : From(l)) <=> From(K - k) \/ (k > 0 /\ \E l \in (K - k) + 1 .. K : From(l))
    <3>1. K - k \in K - k .. K
      OBVIOUS
    <3>2. \A l \in K - k .. K : l = K - k \/ (k > 0 /\ l \in (K - k) + 1 .. K)
      OBVIOUS
    <3>3. \A l \in (K - k) + 1 .. K : l \in K - k .. K
      OBVIOUS
    <3> QED
      BY <3>1, <3>2, <3>3
  <2> QED
    BY <1>3, <2>2, <2>3, <2>4, <2>5
<1>4. CASE pattern[p] # "**"
  <2>1. K - k \in 0 .. K
    OBVIOUS
  <2>2. \A l \in 0 .. K : Covers(pattern, path, p, K - k, l) <=> l = (K - k) + 1 /\ SegmentMatch(pattern[p], path[(K - k) + 1])
    BY <1>4 DEF Covers
  <2>3. (K - k) + 1 \in 0 .. K <=> k > 0
    OBVIOUS
  <2>4. k > 0 => (TailPieces(pattern, path, n - 1, k - 1) <=> From((K - k) + 1))
    <3>1. k > 0 => k - 1 \in 0 .. K /\ K - (k - 1) = (K - k) + 1
      OBVIOUS
    <3> QED
      BY <1>2, <3>1
  <2>5. TailPieces(pattern, path, n, k) <=> k > 0 /\ SegmentMatch(pattern[p], path[(K - k) + 1]) /\ From((K - k) + 1)
    BY <1>1, <2>2, <2>3
  <2> QED
    BY <1>4, <2>4, <2>5
<1> QED
  BY <1>3, <1>4

\* The rows of matchPolicyPathSegments, as what they say of each other.
RowsOf(rows, pattern, path) ==
  rows = [n \in 0 .. Len(pattern) |->
            IF n = 0 THEN [i \in 0 .. Len(path) |-> i = 0]
            ELSE [i \in 0 .. Len(path) |->
                    IF pattern[n] = "**" THEN Star(rows[n - 1], i)
                    ELSE i > 0 /\ rows[n - 1][i - 1] /\ SegmentMatch(pattern[n], path[i])]]

\* The rows it uses are a choice of such rows.
LEMMA MatchPathRows ==
  ASSUME NEW pattern, NEW path
  PROVE  MatchPath(pattern, path) = (CHOOSE rows : RowsOf(rows, pattern, path))[Len(pattern)][Len(path)]
BY Zenon DEF MatchPath, RowsOf

\* Rows that say so have what the pieces give.
LEMMA RowsPieces ==
  ASSUME NEW pattern, NEW path, Len(pattern) \in Nat, Len(path) \in Nat, NEW rows, RowsOf(rows, pattern, path)
  PROVE  \A n \in 0 .. Len(pattern) : \A i \in 0 .. Len(path) :
           rows[n][i] \in BOOLEAN /\ (rows[n][i] <=> Pieces(pattern, path, 0, n, 0, i))
<1> DEFINE T == {n \in 0 .. Len(pattern) : \A i \in 0 .. Len(path) :
                   rows[n][i] \in BOOLEAN /\ (rows[n][i] <=> Pieces(pattern, path, 0, n, 0, i))}
<1>1. 0 \in T
  <2> SUFFICES ASSUME NEW i \in 0 .. Len(path)
               PROVE  rows[0][i] \in BOOLEAN /\ (rows[0][i] <=> Pieces(pattern, path, 0, 0, 0, i))
    OBVIOUS
  <2>1. rows[0][i] = (i = 0)
    BY DEF RowsOf
  <2>2. Pieces(pattern, path, 0, 0, 0, i) <=> 0 = i
    BY PiecesNone
  <2> QED
    BY <2>1, <2>2
<1>2. ASSUME NEW n \in 1 .. Len(pattern), n - 1 \in T PROVE n \in T
  <2> SUFFICES ASSUME NEW i \in 0 .. Len(path)
               PROVE  rows[n][i] \in BOOLEAN /\ (rows[n][i] <=> Pieces(pattern, path, 0, n, 0, i))
    OBVIOUS
  <2>1. \A j \in 0 .. Len(path) : rows[n - 1][j] <=> Pieces(pattern, path, 0, n - 1, 0, j)
    BY <1>2
  <2>2. rows[n][i] = IF pattern[n] = "**" THEN Star(rows[n - 1], i)
                     ELSE i > 0 /\ rows[n - 1][i - 1] /\ SegmentMatch(pattern[n], path[i])
    <3>1. n \in 0 .. Len(pattern) /\ n # 0
      OBVIOUS
    <3>2. rows[n] = [k \in 0 .. Len(path) |->
                       IF pattern[n] = "**" THEN Star(rows[n - 1], k)
                       ELSE k > 0 /\ rows[n - 1][k - 1] /\ SegmentMatch(pattern[n], path[k])]
      BY <3>1, Zenon DEF RowsOf
    <3> QED
      BY <3>2, Zenon
  <2>3. Pieces(pattern, path, 0, n, 0, i) <=>
          IF pattern[n] = "**" THEN \E j \in 0 .. i : Pieces(pattern, path, 0, n - 1, 0, j)
          ELSE i > 0 /\ Pieces(pattern, path, 0, n - 1, 0, i - 1) /\ SegmentMatch(pattern[n], path[i])
    BY HeadStep
  <2>4. CASE pattern[n] = "**"
    <3>1. rows[n][i] = Star(rows[n - 1], i)
      BY <2>2, <2>4
    <3>2. Star(rows[n - 1], i) <=> \E j \in 0 .. i : Pieces(pattern, path, 0, n - 1, 0, j)
      <4>1. \A j \in 0 .. i : j \in 0 .. Len(path)
        OBVIOUS
      <4> QED
        BY <2>1, <4>1 DEF Star
    <3>3. Star(rows[n - 1], i) \in BOOLEAN
      BY DEF Star
    <3> QED
      BY <2>3, <2>4, <3>1, <3>2, <3>3
  <2>5. CASE pattern[n] # "**"
    <3>1. rows[n][i] = (i > 0 /\ rows[n - 1][i - 1] /\ SegmentMatch(pattern[n], path[i]))
      BY <2>2, <2>5
    <3>2. i > 0 => (rows[n - 1][i - 1] <=> Pieces(pattern, path, 0, n - 1, 0, i - 1))
      <4>1. i > 0 => i - 1 \in 0 .. Len(path)
        OBVIOUS
      <4> QED
        BY <2>1, <4>1
    <3> QED
      BY <2>3, <2>5, <3>1, <3>2
  <2> QED
    BY <2>4, <2>5
<1>3. \A n \in 0 .. Len(pattern) : n \in T
  <2> HIDE DEF T
  <2> QED
    BY <1>1, <1>2, UpToInduction
<1> QED
  BY <1>3

\* And there are such rows: those the pieces give.
LEMMA RowsExist ==
  ASSUME NEW pattern, NEW path, Len(pattern) \in Nat, Len(path) \in Nat
  PROVE  \E rows : RowsOf(rows, pattern, path)
<1>1. PICK rows : rows = [n \in 0 .. Len(pattern) |-> [i \in 0 .. Len(path) |-> Pieces(pattern, path, 0, n, 0, i)]]
  OBVIOUS
<1>2. ASSUME NEW n \in 0 .. Len(pattern)
      PROVE  rows[n] = IF n = 0 THEN [i \in 0 .. Len(path) |-> i = 0]
                       ELSE [i \in 0 .. Len(path) |->
                               IF pattern[n] = "**" THEN Star(rows[n - 1], i)
                               ELSE i > 0 /\ rows[n - 1][i - 1] /\ SegmentMatch(pattern[n], path[i])]
  <2>1. rows[n] = [i \in 0 .. Len(path) |-> Pieces(pattern, path, 0, n, 0, i)]
    BY <1>1
  <2>2. CASE n = 0
    <3>1. ASSUME NEW i \in 0 .. Len(path) PROVE Pieces(pattern, path, 0, 0, 0, i) = (i = 0)
      <4>1. Pieces(pattern, path, 0, 0, 0, i) <=> i = 0
        BY PiecesNone
      <4>2. Pieces(pattern, path, 0, 0, 0, i) \in BOOLEAN
        BY DEF Pieces
      <4> QED
        BY <4>1, <4>2
    <3> QED
      BY <2>1, <2>2, <3>1
  <2>3. CASE n # 0
    <3>1. ASSUME NEW i \in 0 .. Len(path)
          PROVE  Pieces(pattern, path, 0, n, 0, i) =
                   IF pattern[n] = "**" THEN Star(rows[n - 1], i)
                   ELSE i > 0 /\ rows[n - 1][i - 1] /\ SegmentMatch(pattern[n], path[i])
      <4>1. Pieces(pattern, path, 0, n, 0, i) <=>
              IF pattern[n] = "**" THEN \E j \in 0 .. i : Pieces(pattern, path, 0, n - 1, 0, j)
              ELSE i > 0 /\ Pieces(pattern, path, 0, n - 1, 0, i - 1) /\ SegmentMatch(pattern[n], path[i])
        BY <2>3, HeadStep
      <4>2. \A j \in 0 .. Len(path) : rows[n - 1][j] = Pieces(pattern, path, 0, n - 1, 0, j)
        BY <1>1, <2>3
      <4>3. (\A j \in 0 .. i : j \in 0 .. Len(path)) /\ (i > 0 => i - 1 \in 0 .. Len(path))
        OBVIOUS
      <4>4. Star(rows[n - 1], i) <=> \E j \in 0 .. i : Pieces(pattern, path, 0, n - 1, 0, j)
        BY <4>2, <4>3 DEF Star
      <4>5. i > 0 => (rows[n - 1][i - 1] <=> Pieces(pattern, path, 0, n - 1, 0, i - 1))
        BY <4>2, <4>3
      <4>6. Pieces(pattern, path, 0, n, 0, i) \in BOOLEAN
        BY DEF Pieces
      <4>7. CASE pattern[n] = "**"
        <5>1. Star(rows[n - 1], i) \in BOOLEAN
          BY DEF Star
        <5>2. Pieces(pattern, path, 0, n, 0, i) = Star(rows[n - 1], i)
          BY <4>1, <4>4, <4>6, <4>7, <5>1
        <5> QED
          BY <4>7, <5>2
      <4>8. CASE pattern[n] # "**"
        <5>1. Pieces(pattern, path, 0, n, 0, i) <=> i > 0 /\ rows[n - 1][i - 1] /\ SegmentMatch(pattern[n], path[i])
          BY <4>1, <4>5, <4>8
        <5>2. Pieces(pattern, path, 0, n, 0, i) = (i > 0 /\ rows[n - 1][i - 1] /\ SegmentMatch(pattern[n], path[i]))
          BY <4>6, <5>1
        <5> QED
          BY <4>8, <5>2
      <4> QED
        BY <4>7, <4>8
    <3> QED
      BY <2>1, <2>3, <3>1
  <2> QED
    BY <2>2, <2>3
<1>3. RowsOf(rows, pattern, path)
  BY <1>1, <1>2 DEF RowsOf
<1> QED
  BY <1>3

\* Matching a path is what its pattern means.
LEMMA MatchPathMeans ==
  ASSUME NEW S, NEW pattern \in Seq(S), NEW path \in Seq(S)
  PROVE  MatchPath(pattern, path) <=> Means(pattern, path)
<1>1. Len(pattern) \in Nat /\ Len(path) \in Nat
  BY LenProperties
<1> DEFINE rows == CHOOSE rows : RowsOf(rows, pattern, path)
<1>2. RowsOf(rows, pattern, path)
  <2>1. \E r : RowsOf(r, pattern, path)
    BY <1>1, RowsExist
  <2> QED
    BY <2>1, Zenon
<1>3. MatchPath(pattern, path) = rows[Len(pattern)][Len(path)]
  BY MatchPathRows, Zenon
<1> HIDE DEF rows
<1>4. Len(pattern) \in 0 .. Len(pattern) /\ Len(path) \in 0 .. Len(path)
  BY <1>1
<1>5. rows[Len(pattern)][Len(path)] <=> Pieces(pattern, path, 0, Len(pattern), 0, Len(path))
  BY <1>1, <1>2, <1>4, RowsPieces
<1> QED
  BY <1>3, <1>5, MeansPieces

\* The memo of matchPathSegments, as what its entries say of each other.
MemoOf(m, pattern, id) ==
  m = [rest \in (0 .. Len(pattern)) \X (0 .. Len(id)) |->
         IF rest[1] = 0 THEN rest[2] = 0
         ELSE IF pattern[Len(pattern) - rest[1] + 1] = "**"
           THEN m[<<rest[1] - 1, rest[2]>>] \/ (rest[2] > 0 /\ m[<<rest[1], rest[2] - 1>>])
         ELSE /\ rest[2] > 0 /\ SegmentMatch(pattern[Len(pattern) - rest[1] + 1], id[Len(id) - rest[2] + 1])
              /\ m[<<rest[1] - 1, rest[2] - 1>>]]

\* The memo it uses is a choice of such entries.
LEMMA MatchRepoMemo ==
  ASSUME NEW pattern, NEW id
  PROVE  MatchRepo(pattern, id) = (CHOOSE m : MemoOf(m, pattern, id))[<<Len(pattern), Len(id)>>]
BY Zenon DEF MatchRepo, MemoOf

\* One entry of it.
LEMMA MemoEntry ==
  ASSUME NEW pattern, NEW id, Len(pattern) \in Nat, Len(id) \in Nat, NEW m, MemoOf(m, pattern, id),
         NEW n \in 0 .. Len(pattern), NEW k \in 0 .. Len(id)
  PROVE  m[<<n, k>>] <=>
           IF n = 0 THEN k = 0
           ELSE IF pattern[Len(pattern) - n + 1] = "**" THEN m[<<n - 1, k>>] \/ (k > 0 /\ m[<<n, k - 1>>])
           ELSE k > 0 /\ SegmentMatch(pattern[Len(pattern) - n + 1], id[Len(id) - k + 1]) /\ m[<<n - 1, k - 1>>]
<1>1. PICK rest \in (0 .. Len(pattern)) \X (0 .. Len(id)) : rest = <<n, k>> /\ rest[1] = n /\ rest[2] = k
  <2>1. <<n, k>> \in (0 .. Len(pattern)) \X (0 .. Len(id)) /\ <<n, k>>[1] = n /\ <<n, k>>[2] = k
    OBVIOUS
  <2> QED
    BY <2>1, Zenon
<1>2. m[rest] = IF rest[1] = 0 THEN rest[2] = 0
                ELSE IF pattern[Len(pattern) - rest[1] + 1] = "**"
                  THEN m[<<rest[1] - 1, rest[2]>>] \/ (rest[2] > 0 /\ m[<<rest[1], rest[2] - 1>>])
                ELSE /\ rest[2] > 0 /\ SegmentMatch(pattern[Len(pattern) - rest[1] + 1], id[Len(id) - rest[2] + 1])
                     /\ m[<<rest[1] - 1, rest[2] - 1>>]
  BY Zenon DEF MemoOf
<1> QED
  BY <1>1, <1>2

\* Entries that say so have what the pieces give.
LEMMA MemoPieces ==
  ASSUME NEW pattern, NEW id, Len(pattern) \in Nat, Len(id) \in Nat, NEW m, MemoOf(m, pattern, id)
  PROVE  \A n \in 0 .. Len(pattern) : \A k \in 0 .. Len(id) : m[<<n, k>>] <=> TailPieces(pattern, id, n, k)
<1> DEFINE T == {n \in 0 .. Len(pattern) : \A k \in 0 .. Len(id) : m[<<n, k>>] <=> TailPieces(pattern, id, n, k)}
<1>1. 0 \in T
  <2> SUFFICES ASSUME NEW k \in 0 .. Len(id) PROVE m[<<0, k>>] <=> TailPieces(pattern, id, 0, k)
    OBVIOUS
  <2>1. m[<<0, k>>] <=> k = 0
    <3>1. 0 \in 0 .. Len(pattern)
      OBVIOUS
    <3> QED
      BY <3>1, MemoEntry
  <2>2. TailPieces(pattern, id, 0, k) <=> k = 0
    <3>1. Len(pattern) - 0 = Len(pattern) /\ Len(id) - k \in 0 .. Len(id) /\ Len(id) \in 0 .. Len(id)
      OBVIOUS
    <3>2. Pieces(pattern, id, Len(pattern), Len(pattern), Len(id) - k, Len(id)) <=> Len(id) - k = Len(id)
      BY <3>1, PiecesNone
    <3> QED
      BY <3>1, <3>2 DEF TailPieces
  <2> QED
    BY <2>1, <2>2
<1>2. ASSUME NEW n \in 1 .. Len(pattern), n - 1 \in T PROVE n \in T
  <2> DEFINE U == {k \in 0 .. Len(id) : m[<<n, k>>] <=> TailPieces(pattern, id, n, k)}
  <2>1. n \in 0 .. Len(pattern) /\ n # 0
    OBVIOUS
  <2>2. \A k \in 0 .. Len(id) : m[<<n - 1, k>>] <=> TailPieces(pattern, id, n - 1, k)
    BY <1>2
  <2>3. ASSUME NEW k \in 0 .. Len(id), k > 0 => k - 1 \in U PROVE k \in U
    <3>1. m[<<n, k>>] <=>
            IF pattern[Len(pattern) - n + 1] = "**" THEN m[<<n - 1, k>>] \/ (k > 0 /\ m[<<n, k - 1>>])
            ELSE k > 0 /\ SegmentMatch(pattern[Len(pattern) - n + 1], id[Len(id) - k + 1]) /\ m[<<n - 1, k - 1>>]
      BY <2>1, MemoEntry
    <3>2. TailPieces(pattern, id, n, k) <=>
            IF pattern[Len(pattern) - n + 1] = "**"
              THEN TailPieces(pattern, id, n - 1, k) \/ (k > 0 /\ TailPieces(pattern, id, n, k - 1))
              ELSE /\ k > 0 /\ SegmentMatch(pattern[Len(pattern) - n + 1], id[Len(id) - k + 1])
                   /\ TailPieces(pattern, id, n - 1, k - 1)
      BY TailStep
    <3>3. k > 0 => k - 1 \in 0 .. Len(id) /\ (m[<<n, k - 1>>] <=> TailPieces(pattern, id, n, k - 1))
      BY <2>3
    <3>4. k > 0 => (m[<<n - 1, k - 1>>] <=> TailPieces(pattern, id, n - 1, k - 1))
      BY <2>2, <3>3
    <3>5. m[<<n - 1, k>>] <=> TailPieces(pattern, id, n - 1, k)
      BY <2>2
    <3>6. m[<<n, k>>] <=> TailPieces(pattern, id, n, k)
      <4>1. CASE pattern[Len(pattern) - n + 1] = "**"
        BY <3>1, <3>2, <3>3, <3>5, <4>1
      <4>2. CASE pattern[Len(pattern) - n + 1] # "**"
        BY <3>1, <3>2, <3>4, <4>2
      <4> QED
        BY <4>1, <4>2
    <3> QED
      BY <3>6
  <2>4. 0 \in U /\ \A k \in 1 .. Len(id) : k - 1 \in U => k \in U
    <3>1. 0 \in 0 .. Len(id) /\ ~ (0 > 0) /\ \A k \in 1 .. Len(id) : k \in 0 .. Len(id)
      OBVIOUS
    <3> HIDE DEF U
    <3> QED
      BY <2>3, <3>1
  <2>5. \A k \in 0 .. Len(id) : k \in U
    <3> HIDE DEF U
    <3> QED
      BY <2>4, UpToInduction
  <2> QED
    BY <2>1, <2>5
<1>3. \A n \in 0 .. Len(pattern) : n \in T
  <2> HIDE DEF T
  <2> QED
    BY <1>1, <1>2, UpToInduction
<1> QED
  BY <1>3

\* And there are such entries: those the pieces give.
LEMMA MemoExists ==
  ASSUME NEW pattern, NEW id, Len(pattern) \in Nat, Len(id) \in Nat
  PROVE  \E m : MemoOf(m, pattern, id)
<1>1. PICK m : m = [rest \in (0 .. Len(pattern)) \X (0 .. Len(id)) |-> TailPieces(pattern, id, rest[1], rest[2])]
  OBVIOUS
<1>2. ASSUME NEW n \in 0 .. Len(pattern), NEW k \in 0 .. Len(id)
      PROVE  m[<<n, k>>] = TailPieces(pattern, id, n, k)
  <2>1. <<n, k>> \in (0 .. Len(pattern)) \X (0 .. Len(id)) /\ <<n, k>>[1] = n /\ <<n, k>>[2] = k
    OBVIOUS
  <2> QED
    BY <1>1, <2>1
<1>3. ASSUME NEW rest \in (0 .. Len(pattern)) \X (0 .. Len(id))
      PROVE  TailPieces(pattern, id, rest[1], rest[2]) =
               IF rest[1] = 0 THEN rest[2] = 0
               ELSE IF pattern[Len(pattern) - rest[1] + 1] = "**"
                 THEN m[<<rest[1] - 1, rest[2]>>] \/ (rest[2] > 0 /\ m[<<rest[1], rest[2] - 1>>])
               ELSE /\ rest[2] > 0 /\ SegmentMatch(pattern[Len(pattern) - rest[1] + 1], id[Len(id) - rest[2] + 1])
                    /\ m[<<rest[1] - 1, rest[2] - 1>>]
  <2>1. PICK n \in 0 .. Len(pattern), k \in 0 .. Len(id) : n = rest[1] /\ k = rest[2]
    OBVIOUS
  <2>2. TailPieces(pattern, id, n, k) \in BOOLEAN
    BY DEF TailPieces, Pieces
  <2>3. k > 0 => k - 1 \in 0 .. Len(id)
    OBVIOUS
  <2>4. CASE n = 0
    <3>1. Len(pattern) - 0 = Len(pattern) /\ Len(id) - k \in 0 .. Len(id) /\ Len(id) \in 0 .. Len(id)
      OBVIOUS
    <3>2. Pieces(pattern, id, Len(pattern), Len(pattern), Len(id) - k, Len(id)) <=> Len(id) - k = Len(id)
      BY <3>1, PiecesNone
    <3>3. TailPieces(pattern, id, n, k) <=> k = 0
      BY <2>4, <3>1, <3>2 DEF TailPieces
    <3>4. TailPieces(pattern, id, n, k) = (k = 0)
      BY <2>2, <3>3
    <3> QED
      BY <2>1, <2>4, <3>4
  <2>5. CASE n # 0 /\ pattern[Len(pattern) - n + 1] = "**"
    <3>1. n \in 1 .. Len(pattern) /\ n - 1 \in 0 .. Len(pattern)
      BY <2>5
    <3>2. TailPieces(pattern, id, n, k) <=> TailPieces(pattern, id, n - 1, k) \/ (k > 0 /\ TailPieces(pattern, id, n, k - 1))
      BY <2>5, <3>1, TailStep
    <3>3. m[<<n - 1, k>>] = TailPieces(pattern, id, n - 1, k)
      BY <1>2, <3>1
    <3>4. k > 0 => m[<<n, k - 1>>] = TailPieces(pattern, id, n, k - 1)
      BY <1>2, <2>3
    <3>5. TailPieces(pattern, id, n, k) = (m[<<n - 1, k>>] \/ (k > 0 /\ m[<<n, k - 1>>]))
      BY <2>2, <3>2, <3>3, <3>4
    <3> QED
      BY <2>1, <2>5, <3>5
  <2>6. CASE n # 0 /\ pattern[Len(pattern) - n + 1] # "**"
    <3>1. n \in 1 .. Len(pattern) /\ n - 1 \in 0 .. Len(pattern)
      BY <2>6
    <3>2. TailPieces(pattern, id, n, k) <=>
            /\ k > 0 /\ SegmentMatch(pattern[Len(pattern) - n + 1], id[Len(id) - k + 1])
            /\ TailPieces(pattern, id, n - 1, k - 1)
      BY <2>6, <3>1, TailStep
    <3>3. k > 0 => m[<<n - 1, k - 1>>] = TailPieces(pattern, id, n - 1, k - 1)
      BY <1>2, <2>3, <3>1
    <3>4. TailPieces(pattern, id, n, k) =
            (/\ k > 0 /\ SegmentMatch(pattern[Len(pattern) - n + 1], id[Len(id) - k + 1])
             /\ m[<<n - 1, k - 1>>])
      BY <2>2, <3>2, <3>3
    <3> QED
      BY <2>1, <2>6, <3>4
  <2> QED
    BY <2>4, <2>5, <2>6
<1>4. MemoOf(m, pattern, id)
  BY <1>1, <1>3 DEF MemoOf
<1> QED
  BY <1>4

\* Matching a repository is what its pattern means.
LEMMA MatchRepoMeans ==
  ASSUME NEW S, NEW pattern \in Seq(S), NEW id \in Seq(S)
  PROVE  MatchRepo(pattern, id) <=> Means(pattern, id)
<1>1. Len(pattern) \in Nat /\ Len(id) \in Nat
  BY LenProperties
<1> DEFINE m == CHOOSE m : MemoOf(m, pattern, id)
<1>2. MemoOf(m, pattern, id)
  <2>1. \E x : MemoOf(x, pattern, id)
    BY <1>1, MemoExists
  <2> QED
    BY <2>1, Zenon
<1>3. MatchRepo(pattern, id) = m[<<Len(pattern), Len(id)>>]
  BY MatchRepoMemo, Zenon
<1> HIDE DEF m
<1>4. Len(pattern) \in 0 .. Len(pattern) /\ Len(id) \in 0 .. Len(id)
  BY <1>1
<1>5. m[<<Len(pattern), Len(id)>>] <=> TailPieces(pattern, id, Len(pattern), Len(id))
  BY <1>1, <1>2, <1>4, MemoPieces
<1>6. Len(pattern) - Len(pattern) = 0 /\ Len(id) - Len(id) = 0
  BY <1>1
<1>7. TailPieces(pattern, id, Len(pattern), Len(id)) <=> Pieces(pattern, id, 0, Len(pattern), 0, Len(id))
  BY <1>6 DEF TailPieces
<1> QED
  BY <1>3, <1>5, <1>7, MeansPieces

-----------------------------------------------------------------------------
(* What a hook lets through *)

\* What the record r of a configure is to write.
Texted(r) == r.pc # "idle" => Listing(r.ask["repo"]) /\ Listing(r.ask["path"])

\* TextsInv, one configure at a time.
LEMMA TextsParts ==
  /\ TextsInv <=> /\ \A f \in {"repo", "path"} : Listing(file[f]) /\ Listing(temp[f])
                  /\ \A c \in Commands : Texted(conf[c])
  /\ TextsInv' <=> /\ \A f \in {"repo", "path"} : Listing(file'[f]) /\ Listing(temp'[f])
                   /\ \A c \in Commands : Texted(conf'[c])
BY DEF TextsInv, Texted, Listing

\* What Listing holds of besides the lists.
LEMMA NoListing ==
  Listing(None) /\ Listing(Empty) /\ Listing(Torn) /\ \A x \in Lists : Listing(x)
BY DEF Listing

\* One configure changes, and its request stays.
LEMMA TextedOne ==
  ASSUME TextsInv, NEW c \in Commands, Only(c), Texted(conf[c]) => Texted(conf'[c])
  PROVE  \A d \in Commands : Texted(conf'[d])
BY TextsParts DEF Only

\* A configure that goes on with its request goes on with its texts.
LEMMA TextedSame ==
  ASSUME NEW r, NEW s, Texted(r), r.pc # "idle", s.ask = r.ask
  PROVE  Texted(s)
BY DEF Texted

\* A list file is replaced.
LEMMA ListingChanged ==
  ASSUME NEW g, Table(g), \A f \in {"repo", "path"} : Listing(g[f]), NEW f \in Files,
         NEW x, f # "env" => Listing(x), NEW h, h = [g EXCEPT ![f] = x]
  PROVE  \A k \in {"repo", "path"} : Listing(h[k])
<1>1. h[f] = x /\ \A k \in Files \ {f} : h[k] = g[k]
  BY TableChanged
<1> QED
  BY <1>1 DEF Files

\* What a started configure is asked.
LEMMA AskTexts ==
  ASSUME NEW ask \in Requests, NEW list
  PROVE  Listing(WithDefault(ask, list)["repo"]) /\ Listing(WithDefault(ask, list)["path"])
<1>1. /\ ask = [keys |-> ask.keys, repo |-> ask.repo, path |-> ask.path]
      /\ Listing(ask["repo"]) /\ Listing(ask["path"])
  BY ListsAssumption, NoListing
<1>2. CASE ask.repo = None /\ list = << >>
  <2>1. WithDefault(ask, list) = [keys |-> ask.keys, repo |-> Default, path |-> ask.path]
    BY <1>1, <1>2 DEF WithDefault
  <2> QED
    BY <1>1, <2>1, ListsAssumption, NoListing
<1>3. CASE ~(ask.repo = None /\ list = << >>)
  BY <1>1, <1>3 DEF WithDefault
<1> QED
  BY <1>2, <1>3

\* A configure starts with the texts of its request, or with the default list.
LEMMA StartTexts ==
  ASSUME IInv, TextsInv, NEW c \in Commands, Start(c)
  PROVE  TextsInv'
<1>1. PICK ask \in Requests, unread \in BOOLEAN :
        LET full == WithDefault(ask, IF unread THEN << >> ELSE Lines(file["repo"]))
        IN  /\ IF unread THEN Fault /\ spoilt' = spoilt \cup {"repo"} ELSE Calm /\ UNCHANGED spoilt
            /\ conf' = [conf EXCEPT ![c] = [pc |-> "next", ask |-> full, todo |-> Asked(full), data |-> None,
                                            held |-> None, guessed |-> full # ask, published |-> {}]]
  BY Zenon DEF Start
<1>2. PICK full : full = WithDefault(ask, IF unread THEN << >> ELSE Lines(file["repo"]))
  OBVIOUS
<1>3. PICK r : r = [pc |-> "next", ask |-> full, todo |-> Asked(full), data |-> None,
                    held |-> None, guessed |-> full # ask, published |-> {}]
  OBVIOUS
<1>4. conf' = [conf EXCEPT ![c] = r]
  BY <1>1, <1>2, <1>3
<1>5. Only(c) /\ conf'[c] = r
  BY <1>4, OneChanges DEF IInv
<1>6. Texted(r)
  BY <1>2, <1>3, AskTexts DEF Texted
<1>7. UNCHANGED <<file, temp>>
  BY DEF Start
<1> QED
  BY <1>5, <1>6, <1>7, TextedOne, TextsParts

\* The env file is no list.
LEMMA MergeTexts ==
  ASSUME IInv, TextsInv, NEW c \in Commands, Merge(c)
  PROVE  TextsInv'
<1>1. PICK x : conf' = [conf EXCEPT ![c].pc = "open", ![c].data = x]
  BY Zenon DEF Merge
<1>2. PICK r : r = Draft(conf[c], x)
  OBVIOUS
<1>3. conf' = [conf EXCEPT ![c] = r]
  BY <1>1, <1>2, ShapeParts DEF IInv, Draft
<1>4. Only(c) /\ conf'[c] = r
  BY <1>3, OneChanges DEF IInv
<1>5. Shaped(conf[c]) /\ conf[c].pc # "idle" /\ UNCHANGED <<file, temp>>
  BY ShapeParts DEF IInv, Merge, At
<1>6. r.ask = conf[c].ask
  BY <1>2, <1>5, Drafted
<1> QED
  BY <1>4, <1>5, <1>6, TextedSame, TextedOne, TextsParts

\* An opened temporary file is empty.
LEMMA OpenTexts ==
  ASSUME IInv, TextsInv, NEW c \in Commands, NEW f \in Files, Open(c, f)
  PROVE  TextsInv'
<1>1. PICK r : r = [conf[c] EXCEPT !.pc = "fill", !.held = "temp"]
  OBVIOUS
<1>2. conf' = [conf EXCEPT ![c] = r]
  BY <1>1, ShapeParts DEF Open, IInv
<1>3. Only(c) /\ conf'[c] = r
  BY <1>2, OneChanges DEF IInv
<1>4. Shaped(conf[c]) /\ conf[c].pc # "idle" /\ UNCHANGED file /\ temp' = [temp EXCEPT ![f] = Empty] /\ Table(temp)
  BY ShapeParts DEF IInv, Open, At, Truncated
<1>5. r.ask = conf[c].ask
  BY <1>1, <1>4, Opened
<1>6. \A k \in {"repo", "path"} : Listing(temp'[k])
  BY <1>4, TextsParts, NoListing, ListingChanged
<1> QED
  BY <1>3, <1>4, <1>5, <1>6, TextedSame, TextedOne, TextsParts

\* What is written is the text of the request, or is torn.
LEMMA FillTexts ==
  ASSUME IInv, TextsInv, NEW c \in Commands, NEW f \in Files, Fill(c, f)
  PROVE  TextsInv'
<1>1. PICK r : r = [conf[c] EXCEPT !.pc = "publish"]
  OBVIOUS
<1>2. conf' = [conf EXCEPT ![c] = r]
  BY <1>1, ShapeParts DEF Fill, IInv
<1>3. Only(c) /\ conf'[c] = r
  BY <1>2, OneChanges DEF IInv
<1>4. Shaped(conf[c]) /\ conf[c].pc # "idle" /\ Table(temp) /\ Table(file)
  BY ShapeParts DEF IInv, Fill, At
<1>5. r.ask = conf[c].ask
  BY <1>1, <1>4, Filled
<1>6. \A t : t \in {Text(c, f), Torn} /\ f # "env" => Listing(t)
  <2>1. f # "env" => Listing(Text(c, f))
    BY <1>4, TextsParts DEF Texted, Text, Files
  <2> QED
    BY <2>1, NoListing
<1>7. \A k \in {"repo", "path"} : Listing(file'[k]) /\ Listing(temp'[k])
  <2>1. \/ UNCHANGED file /\ \E t \in {Text(c, f), Torn} : temp' = [temp EXCEPT ![f] = t]
        \/ UNCHANGED temp /\ \E t \in {Text(c, f), Torn} : file' = [file EXCEPT ![f] = t]
        \/ UNCHANGED <<file, temp>>
    BY DEF Fill, Written
  <2>2. CASE UNCHANGED file /\ \E t \in {Text(c, f), Torn} : temp' = [temp EXCEPT ![f] = t]
    <3>1. PICK t \in {Text(c, f), Torn} : temp' = [temp EXCEPT ![f] = t]
      BY <2>2
    <3>2. \A k \in {"repo", "path"} : Listing(temp'[k])
      BY <1>4, <1>6, <3>1, TextsParts, ListingChanged
    <3> QED
      BY <2>2, <3>2, TextsParts
  <2>3. CASE UNCHANGED temp /\ \E t \in {Text(c, f), Torn} : file' = [file EXCEPT ![f] = t]
    <3>1. PICK t \in {Text(c, f), Torn} : file' = [file EXCEPT ![f] = t]
      BY <2>3
    <3>2. \A k \in {"repo", "path"} : Listing(file'[k])
      BY <1>4, <1>6, <3>1, TextsParts, ListingChanged
    <3> QED
      BY <2>3, <3>2, TextsParts
  <2>4. CASE UNCHANGED <<file, temp>>
    BY <2>4, TextsParts
  <2> QED
    BY <2>1, <2>2, <2>3, <2>4
<1> QED
  BY <1>3, <1>4, <1>5, <1>7, TextedSame, TextedOne, TextsParts

\* Publish and Clear: the others keep their requests as well.
LEMMA AdvancedTexts ==
  ASSUME IInv, TextsInv, NEW c \in Commands, NEW f \in Files, NEW renamed \in BOOLEAN, conf' = Advanced(c, f, renamed),
         conf[c].pc # "idle"
  PROVE  \A d \in Commands : Texted(conf'[d])
<1>1. /\ conf'[c] = Rename(conf[c], f)
      /\ \A p \in Commands \ {c} : conf'[p] = conf[p] \/ (At(p, "fill", f) /\ \E x : conf'[p] = Move(conf[p], x))
  BY AdvancedParts DEF IInv
<1>2. \A d \in Commands : Shaped(conf[d]) /\ Texted(conf[d])
  BY TextsParts, ShapeParts DEF IInv
<1>3. Texted(conf'[c])
  BY <1>1, <1>2, Renamed, TextedSame
<1>4. ASSUME NEW d \in Commands \ {c} PROVE Texted(conf'[d])
  <2>1. CASE conf'[d] = conf[d]
    BY <1>2, <2>1
  <2>2. CASE At(d, "fill", f) /\ \E x : conf'[d] = Move(conf[d], x)
    <3>1. PICK x : conf'[d] = Move(conf[d], x)
      BY <2>2
    <3>2. conf'[d].ask = conf[d].ask
      BY <1>2, <3>1, Moved
    <3>3. conf[d].pc # "idle"
      BY <2>2 DEF At
    <3> QED
      BY <1>2, <3>2, <3>3, TextedSame
  <2> QED
    BY <1>1, <2>1, <2>2
<1> QED
  BY <1>3, <1>4

\* A rename brings what the temporary file held.
LEMMA PublishTexts ==
  ASSUME IInv, TextsInv, NEW c \in Commands, NEW f \in Files, Publish(c, f)
  PROVE  TextsInv'
<1>1. conf' = Advanced(c, f, TRUE) /\ conf[c].pc # "idle"
  BY DEF Publish, At
<1>2. \A d \in Commands : Texted(conf'[d])
  BY <1>1, AdvancedTexts
<1>3. file' = [file EXCEPT ![f] = temp[f]] /\ temp' = [temp EXCEPT ![f] = None] /\ Table(file) /\ Table(temp)
  BY ShapeParts DEF IInv, Publish
<1>4. f # "env" => Listing(temp[f])
  BY TextsParts DEF Files
<1>5. \A k \in {"repo", "path"} : Listing(file'[k])
  BY <1>3, <1>4, TextsParts, ListingChanged
<1>6. \A k \in {"repo", "path"} : Listing(temp'[k])
  BY <1>3, TextsParts, NoListing, ListingChanged
<1> QED
  BY <1>2, <1>5, <1>6, TextsParts

\* A cleared list is no file.
LEMMA ClearTexts ==
  ASSUME IInv, TextsInv, NEW c \in Commands, Clear(c)
  PROVE  TextsInv'
<1>1. conf' = Advanced(c, "path", FALSE) /\ conf[c].pc # "idle" /\ "path" \in Files
  BY DEF Clear, At, Files
<1>2. \A d \in Commands : Texted(conf'[d])
  BY <1>1, AdvancedTexts
<1>3. file' = [file EXCEPT !["path"] = None] /\ temp' = temp /\ Table(file)
  BY ShapeParts DEF IInv, Clear
<1>4. \A k \in {"repo", "path"} : Listing(file'[k])
  BY <1>1, <1>3, TextsParts, NoListing, ListingChanged
<1> QED
  BY <1>2, <1>3, <1>4, TextsParts

\* A configure ends, or is killed.
LEMMA EndTexts ==
  ASSUME IInv, TextsInv, NEW c \in Commands,
         \/ Finish(c) \/ Crash(c) \/ \E f \in Files : Overtaken(c, f) \/ Fails(c, f)
  PROVE  TextsInv'
<1>1. UNCHANGED file /\ (UNCHANGED temp \/ temp' = [temp EXCEPT !["path"] = None]) /\ Table(temp) /\ "path" \in Files
  BY ShapeParts DEF IInv, Finish, Crash, Overtaken, Fails, Files
<1>2. \A k \in {"repo", "path"} : Listing(temp'[k])
  <2>1. CASE UNCHANGED temp
    BY <2>1, TextsParts
  <2>2. CASE temp' = [temp EXCEPT !["path"] = None]
    BY <1>1, <2>2, TextsParts, NoListing, ListingChanged
  <2> QED
    BY <1>1, <2>1, <2>2
<1>3. \A d \in Commands : Texted(conf'[d])
  <2>1. CASE Crash(c)
    <3>1. conf' = [conf EXCEPT ![c] = Unstarted]
      BY <2>1 DEF Crash
    <3>2. Only(c) /\ conf'[c] = Unstarted
      BY <3>1, OneChanges DEF IInv
    <3>3. Texted(Unstarted)
      BY DEF Texted, Unstarted
    <3> QED
      BY <3>2, <3>3, TextedOne
  <2>2. CASE conf' = Dropped(c) /\ conf[c].pc # "idle"
    <3>1. /\ conf'[c] = Report(conf[c], "failed")
          /\ \A p \in Commands \ {c} :
               conf'[p] = conf[p] \/ (At(p, "fill", "path") /\ conf'[p] = Move(conf[p], "gone"))
      BY <2>2, DroppedParts DEF IInv
    <3>2. ASSUME NEW d \in Commands PROVE Texted(conf'[d])
      <4>1. Shaped(conf[d]) /\ Texted(conf[d])
        BY TextsParts, ShapeParts DEF IInv
      <4>2. CASE d = c
        <5>1. conf'[d].ask = conf[d].ask
          BY <3>1, <4>1, <4>2, Reported
        <5> QED BY <2>2, <4>1, <4>2, <5>1, TextedSame
      <4>3. CASE At(d, "fill", "path") /\ conf'[d] = Move(conf[d], "gone")
        <5>1. conf'[d].ask = conf[d].ask /\ conf[d].pc # "idle"
          BY <4>1, <4>3, Moved DEF At
        <5> QED BY <4>1, <5>1, TextedSame
      <4> QED BY <3>1, <4>1, <4>2, <4>3
    <3> QED BY <3>2
  <2>3. CASE ~Crash(c) /\ conf' # Dropped(c)
    <3>1. PICK report \in {"ok", "failed"} : conf' = Ended(c, report) /\ conf[c].pc # "idle"
      BY <2>3 DEF Finish, Overtaken, Fails, Failed, At
    <3>2. PICK r : r = Report(conf[c], report)
      OBVIOUS
    <3>3. conf' = [conf EXCEPT ![c] = r]
      BY <3>1, <3>2, ShapeParts DEF Ended, Report, IInv
    <3>4. Only(c) /\ conf'[c] = r
      BY <3>3, OneChanges DEF IInv
    <3>5. r.ask = conf[c].ask
      BY <3>2, ShapeParts, Reported DEF IInv
    <3> QED
      BY <3>1, <3>4, <3>5, TextedSame, TextedOne
  <2>4. ~Crash(c) => conf[c].pc # "idle"
    BY DEF Finish, Overtaken, Fails, At
  <2> QED
    BY <2>1, <2>2, <2>3, <2>4
<1> QED
  BY <1>1, <1>2, <1>3, TextsParts

\* The user edits the env file only.
LEMMA DisableTexts ==
  ASSUME IInv, TextsInv, Disable
  PROVE  TextsInv'
<1>1. PICK x : file' = [file EXCEPT !["env"] = x]
  BY DEF Disable
<1>2. Table(file) /\ "env" \in Files /\ temp' = temp
  BY ShapeParts DEF IInv, Files, Disable
<1>3. \A k \in {"repo", "path"} : Listing(file'[k])
  BY <1>1, <1>2, TextsParts, ListingChanged
<1>4. ASSUME NEW d \in Commands PROVE Texted(conf'[d])
  <2>1. Shaped(conf[d]) /\ Texted(conf[d])
    BY ShapeParts, TextsParts DEF IInv
  <2>2. conf'[d] = conf[d] \/ (At(d, "fill", "env") /\ conf'[d] = Move(conf[d], "gone"))
    BY DEF Disable, Move
  <2>3. CASE conf'[d] = conf[d]
    BY <2>1, <2>3
  <2>4. CASE At(d, "fill", "env") /\ conf'[d] = Move(conf[d], "gone")
    <3>1. conf'[d].ask = conf[d].ask
      BY <2>1, <2>4, Moved
    <3>2. conf[d].pc # "idle"
      BY <2>4 DEF At
    <3> QED
      BY <2>1, <3>1, <3>2, TextedSame
  <2> QED
    BY <2>2, <2>3, <2>4
<1> QED
  BY <1>2, <1>3, <1>4, TextsParts

\* Every step keeps TextsInv.
LEMMA TextsStep ==
  ASSUME IInv, TextsInv, Next
  PROVE  TextsInv'
<1>1. CASE ConfigureStep
  <2>1. PICK c \in Commands :
          \/ Start(c) \/ Merge(c) \/ Clear(c) \/ Finish(c) \/ Crash(c)
          \/ \E f \in Files : Open(c, f) \/ Fill(c, f) \/ Publish(c, f) \/ Overtaken(c, f) \/ Fails(c, f)
    BY <1>1 DEF ConfigureStep
  <2> QED
    BY <2>1, StartTexts, MergeTexts, ClearTexts, EndTexts, OpenTexts, FillTexts, PublishTexts
<1>2. CASE Disable
  BY <1>2, DisableTexts
<1>3. CASE ReadEnv \/ ReadRepo \/ ReadPath
  <2>1. UNCHANGED <<file, temp, conf>>
    BY <1>3 DEF ReadEnv, ReadRepo, ReadPath, Read
  <2> QED
    BY <2>1, TextsParts
<1> QED
  BY <1>1, <1>2, <1>3 DEF Next

\* A file of lists that can be read holds a list.
LEMMA LinesOf ==
  ASSUME NEW x, Listing(x)
  PROVE  Lines(x) \in Lists
<1>1. << >> \in Lists
  BY DEF Lists
<1>2. CASE x \in {None, Empty, Torn}
  BY <1>1, <1>2 DEF Lines
<1>3. CASE x \notin {None, Empty, Torn}
  BY <1>3 DEF Listing, Lines
<1> QED
  BY <1>2, <1>3

\* Of the remotes that are accepted one comes first.
LEMMA FirstAccepted ==
  ASSUME NEW remotes \in Lists, NEW accepted, FirstOf(remotes, accepted) # <<>>
  PROVE  \E i \in DOMAIN remotes : remotes[i] \in accepted /\ FirstOf(remotes, accepted) = remotes[i]
<1> DEFINE good == {i \in DOMAIN remotes : remotes[i] \in accepted}
<1>1. FirstOf(remotes, accepted) = IF good = {} THEN <<>> ELSE remotes[CHOOSE i \in good : \A j \in good : i <= j]
  BY DEF FirstOf
<1>2. good # {}
  BY <1>1
<1>3. good \in SUBSET Nat
  BY LenProperties DEF Lists
<1>4. \E i \in good : \A j \in good : i <= j
  <2> HIDE DEF good
  <2> QED
    BY <1>2, <1>3, LeastNumber
<1>5. (CHOOSE i \in good : \A j \in good : i <= j) \in good
  <2> HIDE DEF good
  <2> QED
    BY <1>4, Zenon
<1> QED
  BY <1>1, <1>2, <1>5

\* An event that the policy lets through is allowed by one of the lists.
LEMMA DecideByLists ==
  ASSUME NEW event \in Events, NEW repos \in Lists, NEW paths \in Lists, NEW off, NEW broken, repos # <<>>,
         Broken(paths) => broken,
         Decide(event, [disabled |-> off, repos |-> repos, paths |-> paths, broken |-> broken]).ok
  PROVE  ~off /\ (ByRepo(event, repos) \/ ByPath(event, paths))
<1> DEFINE policy == [disabled |-> off, repos |-> repos, paths |-> paths, broken |-> broken]
           known  == Range(event.remotes)
           byRepo == FirstOf(event.remotes, {id \in known : RepoAllowed(id, repos)})
<1>1. event.remotes \in Lists /\ event.paths \in Lists
  BY ListsAssumption
<1>2. policy.disabled = off /\ policy.repos = repos /\ policy.paths = paths /\ policy.broken = broken
  OBVIOUS
<1>3. /\ ~off
      /\ Unrestricted(repos) \/ byRepo # <<>> \/ (~broken /\ PathAllowed(event.paths, paths))
  <2>1. Decide(event, policy).ok
    OBVIOUS
  <2> HIDE DEF policy
  <2> QED
    BY <1>2, <2>1 DEF Decide
<1>4. CASE Unrestricted(repos)
  BY <1>3, <1>4 DEF Unrestricted, ByRepo
<1>5. CASE byRepo # <<>>
  <2>1. PICK j \in DOMAIN event.remotes : RepoAllowed(event.remotes[j], repos)
    <3> DEFINE accepted == {id \in known : RepoAllowed(id, repos)}
    <3>1. FirstOf(event.remotes, accepted) # <<>>
      BY <1>5
    <3>2. \A id \in accepted : RepoAllowed(id, repos)
      OBVIOUS
    <3> HIDE DEF accepted
    <3> QED
      BY <1>1, <3>1, <3>2, FirstAccepted
  <2>2. PICK i \in DOMAIN repos : Len(event.remotes[j]) >= 2 /\ Len(repos[i]) >= 2 /\ MatchRepo(repos[i], event.remotes[j])
    BY <2>1 DEF RepoAllowed
  <2>3. event.remotes[j] \in Seq(STRING) /\ repos[i] \in Seq(STRING)
    BY <1>1 DEF Lists
  <2>4. Means(repos[i], event.remotes[j])
    BY <2>2, <2>3, MatchRepoMeans
  <2> QED
    BY <1>3, <2>2, <2>4 DEF ByRepo
<1>6. CASE ~broken /\ PathAllowed(event.paths, paths)
  <2>1. PICK i \in DOMAIN event.paths, j \in DOMAIN paths : paths[j] = Anything \/ MatchPath(paths[j], event.paths[i])
    BY <1>6 DEF PathAllowed
  <2>2. event.paths[i] \in Seq(STRING) /\ paths[j] \in Seq(STRING)
    BY <1>1 DEF Lists
  <2>3. paths[j] = Anything \/ Means(paths[j], event.paths[i])
    BY <2>1, <2>2, MatchPathMeans
  <2> QED
    BY <1>3, <1>6, <2>3 DEF ByPath, Broken
<1> QED
  BY <1>3, <1>4, <1>5, <1>6

-----------------------------------------------------------------------------
(* A hook, one step at a time *)

\* The record of a hook that reads.
Reading(r) ==
  /\ r = [pc |-> r.pc, event |-> r.event, disabled |-> r.disabled, repos |-> r.repos, unread |-> r.unread, ok |-> r.ok]
  /\ r.event \in Events

\* This moment is on record.
Recorded ==
  /\ ListsNow => seen.lists
  /\ ListsNow /\ EnabledNow => seen.joint
  /\ ~EnabledNow => seen.off

\* What the repository list that was read allows is on record.
Listed(r, s) == r.repos \in Lists \ {<<>>} /\ (ByRepo(r.event, r.repos) => s.lists /\ (s.joint \/ s.off))

\* ReaderInv, and of the next state.
LEMMA ReaderParts ==
  /\ ReaderInv <=> /\ reader.pc \in {"idle", "repo", "path", "done"}
                   /\ reader.pc \in {"repo", "path"} =>
                        Reading(reader) /\ Recorded /\ (~reader.disabled => seen.enabled)
                   /\ reader.pc = "repo" => "repo" \notin reader.unread
                   /\ reader.pc = "path" => Listed(reader, seen)
  /\ ReaderInv' <=> /\ reader'.pc \in {"idle", "repo", "path", "done"}
                    /\ reader'.pc \in {"repo", "path"} =>
                         Reading(reader') /\ Recorded' /\ (~reader'.disabled => seen'.enabled)
                    /\ reader'.pc = "repo" => "repo" \notin reader'.unread
                    /\ reader'.pc = "path" => Listed(reader', seen')
BY DEF ReaderInv, Reading, Recorded, Listed

\* Observe, for a hook that reads on: this moment goes on record, and nothing leaves it.
LEMMA ObserveReading ==
  ASSUME Observe, reader'.pc \in {"repo", "path"}
  PROVE  /\ Recorded'
         /\ (seen.lists => seen'.lists) /\ (seen.joint => seen'.joint) /\ (seen.off => seen'.off)
         /\ reader.pc # "idle" /\ seen.enabled => seen'.enabled
         /\ reader.pc = "idle" => (seen'.enabled <=> Enabled(Shown("env"))')
<1> DEFINE e == IF reader.pc = "idle" THEN Enabled(Shown("env"))' ELSE seen.enabled
           o == seen.off \/ ~EnabledNow'
           l == seen.lists \/ ListsNow'
           j == seen.joint \/ (EnabledNow' /\ ListsNow')
<1>1. seen' = [enabled |-> e, off |-> o, lists |-> l, joint |-> j]
  BY Zenon DEF Observe
<1>2. seen'.enabled = e /\ seen'.off = o /\ seen'.lists = l /\ seen'.joint = j
  <2> HIDE DEF e, o, l, j
  <2> QED
    BY <1>1
<1>3. (seen'.off <=> o) /\ (seen'.lists <=> l) /\ (seen'.joint <=> j)
  <2> HIDE DEF o, l, j
  <2> QED
    BY <1>2
<1>4. Recorded'
  BY <1>3, Zenon DEF Recorded
<1>5. reader.pc # "idle" => seen'.enabled = seen.enabled
  BY <1>2, Zenon
<1>6. reader.pc = "idle" => seen'.enabled = Enabled(Shown("env"))'
  BY <1>2, Zenon
<1>7. (seen.lists => seen'.lists) /\ (seen.joint => seen'.joint) /\ (seen.off => seen'.off)
  BY <1>3, Zenon
<1> QED
  BY <1>4, <1>5, <1>6, <1>7

\* What configure and the user do leaves the hook alone.
LEMMA OthersStep ==
  ASSUME ConfigureStep \/ Disable
  PROVE  UNCHANGED reader
<1>1. CASE ConfigureStep
  <2>1. PICK c \in Commands :
          \/ Start(c) \/ Merge(c) \/ Clear(c) \/ Finish(c) \/ Crash(c)
          \/ \E f \in Files : Open(c, f) \/ Fill(c, f) \/ Publish(c, f) \/ Overtaken(c, f) \/ Fails(c, f)
    BY <1>1 DEF ConfigureStep
  <2>2. CASE Start(c) \/ Merge(c)
    BY <2>2 DEF Start, Merge
  <2>3. CASE Clear(c) \/ Finish(c) \/ Crash(c)
    BY <2>3 DEF Clear, Finish, Crash
  <2>4. CASE \E f \in Files : Open(c, f) \/ Fill(c, f) \/ Publish(c, f) \/ Overtaken(c, f) \/ Fails(c, f)
    BY <2>4 DEF Open, Fill, Publish, Overtaken, Fails
  <2> QED
    BY <2>1, <2>2, <2>3, <2>4
<1>2. CASE Disable
  BY <1>2 DEF Disable
<1> QED
  BY <1>1, <1>2

\* The files change under the hook.
LEMMA ReaderOthers ==
  ASSUME ReaderInv, NoStranger, ConfigureStep \/ Disable, Observe
  PROVE  ReaderInv' /\ NoStranger'
<1>1. UNCHANGED reader
  BY OthersStep
<1>2. CASE reader.pc \in {"repo", "path"}
  <2>1. /\ Recorded'
        /\ (seen.lists => seen'.lists) /\ (seen.joint => seen'.joint) /\ (seen.off => seen'.off)
        /\ seen.enabled => seen'.enabled
    BY <1>1, <1>2, ObserveReading
  <2>2. Reading(reader') /\ reader'.pc \in {"repo", "path"} /\ (~reader'.disabled => seen'.enabled)
    BY <1>1, <1>2, <2>1, ReaderParts
  <2>3. reader'.pc = "path" => Listed(reader', seen')
    BY <1>1, <2>1, ReaderParts DEF Listed
  <2>4. reader'.pc = "repo" => "repo" \notin reader'.unread
    BY <1>1, ReaderParts
  <2>5. ReaderInv'
    BY <2>1, <2>2, <2>3, <2>4, ReaderParts
  <2> QED
    BY <2>2, <2>5 DEF NoStranger
<1>3. CASE reader.pc \in {"idle", "done"}
  <2>1. seen' = seen
    BY <1>1, <1>3 DEF Observe
  <2>2. ReaderInv'
    BY <1>1, <1>3, ReaderParts
  <2> QED
    BY <1>1, <2>1, <2>2 DEF NoStranger
<1> QED
  BY <1>2, <1>3 DEF ReaderInv

\* The hook reads the env file.
LEMMA ReaderEnv ==
  ASSUME ReadEnv, Observe
  PROVE  ReaderInv' /\ NoStranger'
<1>1. PICK e \in Events, unread \in SUBSET {"env"} :
        /\ Read(unread)
        /\ reader' = [pc |-> "repo", event |-> e, disabled |-> unread = {} /\ ~Enabled(file["env"]),
                      repos |-> << >>, unread |-> unread, ok |-> FALSE]
  BY DEF ReadEnv
<1>2. PICK b \in BOOLEAN : b <=> unread = {} /\ ~Enabled(file["env"])
  OBVIOUS
<1>3. b = (unread = {} /\ ~Enabled(file["env"]))
  BY <1>2
<1>4. reader' = [pc |-> "repo", event |-> e, disabled |-> b, repos |-> << >>, unread |-> unread, ok |-> FALSE]
  BY <1>1, <1>3
<1>5. reader'.pc = "repo" /\ reader'.unread = unread /\ reader'.disabled = b /\ Reading(reader')
  BY <1>4 DEF Reading
<1>6. Recorded' /\ (seen'.enabled <=> Enabled(Shown("env"))')
  BY <1>5, ObserveReading DEF ReadEnv
<1>7. ~b => Enabled(Shown("env"))'
  <2>1. file' = file
    BY <1>1 DEF Read
  <2>2. CASE unread = {}
    BY <1>2, <1>5, <2>1, <2>2 DEF Shown, Enabled
  <2>3. CASE unread # {}
    <3>1. Shown("env")' = None
      BY <1>5, <2>3 DEF Shown
    <3>2. Enabled(None)
      BY DEF Enabled, Keys
    <3> QED
      BY <3>1, <3>2 DEF Enabled
  <2> QED
    BY <2>2, <2>3
<1> QED
  BY <1>5, <1>6, <1>7, ReaderParts DEF NoStranger

\* It reads the repository list.
LEMMA ReaderRepo ==
  ASSUME TextsInv, ReaderInv, ReadRepo, Observe
  PROVE  ReaderInv' /\ NoStranger'
<1>1. PICK unread \in SUBSET {"repo"} :
        /\ Read(unread)
        /\ reader' = [reader EXCEPT !.pc = "path", !.unread = @ \cup unread,
                                    !.repos = RepoList(IF unread = {} THEN Lines(file["repo"]) ELSE << >>)]
  BY DEF ReadRepo
<1>2. /\ reader.pc = "repo" /\ "repo" \notin reader.unread
      /\ Reading(reader) /\ (~reader.disabled => seen.enabled)
  BY ReaderParts DEF ReadRepo
<1>3. PICK lines : lines = IF unread = {} THEN Lines(file["repo"]) ELSE << >>
  OBVIOUS
<1>4. PICK list : list = RepoList(lines)
  OBVIOUS
<1>5. PICK e, b, k, u, o : reader = [pc |-> "repo", event |-> e, disabled |-> b, repos |-> k, unread |-> u, ok |-> o]
  BY <1>2 DEF Reading
<1>6. /\ reader'.pc = "path" /\ reader'.event = reader.event /\ reader'.disabled = reader.disabled
      /\ reader'.repos = list /\ reader'.unread = u \cup unread /\ Reading(reader')
  <2>1. reader' = [pc |-> "path", event |-> e, disabled |-> b, repos |-> list, unread |-> u \cup unread, ok |-> o]
    BY <1>1, <1>3, <1>4, <1>5
  <2> QED
    BY <1>2, <1>5, <2>1 DEF Reading
<1>7. Recorded' /\ (seen.enabled => seen'.enabled)
  BY <1>2, <1>6, ObserveReading
<1>8. lines \in Lists /\ list \in Lists \ {<<>>}
  <2>1. Lines(file["repo"]) \in Lists /\ << >> \in Lists
    BY TextsParts, LinesOf DEF Lists
  <2>2. lines \in Lists
    BY <1>3, <2>1
  <2> QED
    BY <1>4, <2>2, ListsAssumption DEF RepoList
<1>9. ByRepo(reader'.event, list) => ListsNow'
  <2>2. list = IF lines = << >> THEN Default ELSE lines
    BY <1>4 DEF RepoList
  <2>3. Lines(Shown("repo")') = lines
    <3>1. CASE unread = {}
      <4>1. "repo" \notin u
        BY <1>2, <1>5
      <4> QED
        BY <1>1, <1>3, <1>6, <3>1, <4>1 DEF Shown, Read
    <3>2. CASE unread # {}
      BY <1>3, <1>6, <3>2 DEF Shown, Lines
    <3> QED
      BY <3>1, <3>2
  <2> QED
    BY <2>2, <2>3 DEF ListsNow, ListsAllow
<1>10. Listed(reader', seen')
  BY <1>6, <1>7, <1>8, <1>9 DEF Listed, Recorded
<1> QED
  BY <1>2, <1>6, <1>7, <1>10, ReaderParts DEF NoStranger

\* It reads the path list and decides.
LEMMA ReaderPath ==
  ASSUME TextsInv, ReaderInv, ReadPath, Observe
  PROVE  ReaderInv' /\ NoStranger'
<1>1. PICK unread \in SUBSET {"path"} :
        LET paths  == IF unread = {} THEN Lines(file["path"]) ELSE << >>
            policy == [disabled |-> reader.disabled, repos |-> reader.repos,
                       paths |-> paths, broken |-> unread # {} \/ Broken(paths)]
        IN  /\ Read(unread)
            /\ reader' = [reader EXCEPT !.pc = "done", !.repos = << >>, !.ok = Decide(reader.event, policy).ok]
  BY Zenon DEF ReadPath
<1>2. /\ reader.pc = "path" /\ Reading(reader) /\ Recorded /\ (~reader.disabled => seen.enabled)
      /\ Listed(reader, seen)
  BY ReaderParts DEF ReadPath
<1>3. PICK paths : paths = IF unread = {} THEN Lines(file["path"]) ELSE << >>
  OBVIOUS
<1>4. PICK broken : broken = (unread # {} \/ Broken(paths))
  OBVIOUS
<1>5. PICK ok : ok = Decide(reader.event, [disabled |-> reader.disabled, repos |-> reader.repos,
                                           paths |-> paths, broken |-> broken]).ok
  OBVIOUS
<1>6. reader' = [reader EXCEPT !.pc = "done", !.repos = << >>, !.ok = ok]
  BY <1>1, <1>3, <1>4, <1>5
<1>7. reader'.pc = "done" /\ reader'.ok = ok
  <2>1. PICK e, b, k, u, o : reader = [pc |-> "path", event |-> e, disabled |-> b, repos |-> k, unread |-> u, ok |-> o]
    BY <1>2 DEF Reading
  <2>2. reader' = [pc |-> "done", event |-> e, disabled |-> b, repos |-> << >>, unread |-> u, ok |-> ok]
    BY <1>6, <2>1
  <2> QED
    BY <2>2
<1>8. seen' = seen
  BY <1>7 DEF Observe
<1>9. ASSUME ok PROVE seen.joint \/ (seen.off /\ seen.enabled /\ seen.lists)
  <2>1. paths \in Lists /\ reader.event \in Events /\ (Broken(paths) => broken)
    <3>1. Lines(file["path"]) \in Lists /\ << >> \in Lists
      BY TextsParts, LinesOf DEF Lists
    <3> QED
      BY <1>2, <1>3, <1>4, <3>1 DEF Reading
  <2>2. ~reader.disabled /\ (ByRepo(reader.event, reader.repos) \/ ByPath(reader.event, paths))
    BY <1>2, <1>5, <1>9, <2>1, DecideByLists DEF Listed
  <2>3. CASE ByRepo(reader.event, reader.repos)
    BY <1>2, <2>2, <2>3 DEF Listed
  <2>4. CASE ByPath(reader.event, paths)
    <3>1. paths = Lines(file["path"])
      BY <1>3, <2>4 DEF ByPath
    <3>2. ListsNow
      BY <2>4, <3>1 DEF ListsNow, ListsAllow
    <3> QED
      BY <1>2, <2>2, <3>2 DEF Recorded
  <2> QED
    BY <2>2, <2>3, <2>4
<1> QED
  BY <1>7, <1>8, <1>9, ReaderParts DEF NoStranger

-----------------------------------------------------------------------------
(* The theorems about what is let through *)

\* Initially no hook reads.
LEMMA PolicyInit ==
  Init => PolicyInv
<1> SUFFICES ASSUME Init PROVE PolicyInv
  OBVIOUS
<1>1. TextsInv
  <2>1. \A f \in {"repo", "path"} : Listing(file[f]) /\ Listing(temp[f])
    BY ListsAssumption, NoListing DEF Init, Files
  <2>2. \A c \in Commands : Texted(conf[c])
    BY DEF Init, Texted, Unstarted
  <2> QED
    BY <2>1, <2>2, TextsParts
<1>2. reader.pc = "idle"
  BY DEF Init
<1> QED
  BY <1>1, <1>2, ReaderParts DEF PolicyInv, NoStranger

\* Beside IInv, every step keeps PolicyInv.
LEMMA PolicyStep ==
  IInv /\ PolicyInv /\ [Next]_vars => PolicyInv'
<1> SUFFICES ASSUME IInv, PolicyInv, [Next]_vars PROVE PolicyInv'
  OBVIOUS
<1>1. CASE Next
  <2>1. TextsInv'
    BY <1>1, TextsStep DEF PolicyInv
  <2>2. Observe /\ ((ConfigureStep \/ Disable) \/ ReadEnv \/ ReadRepo \/ ReadPath)
    BY <1>1 DEF Next
  <2>3. ReaderInv' /\ NoStranger'
    BY <2>2, ReaderOthers, ReaderEnv, ReaderRepo, ReaderPath DEF PolicyInv
  <2> QED
    BY <2>1, <2>3 DEF PolicyInv
<1>2. CASE UNCHANGED vars
  <2>1. UNCHANGED <<file, temp, conf, reader, seen>>
    BY <1>2 DEF vars
  <2>2. TextsInv'
    BY <2>1, TextsParts DEF PolicyInv
  <2>3. ReaderInv' /\ NoStranger'
    BY <2>1 DEF PolicyInv, ReaderInv, NoStranger, ListsNow, EnabledNow, Shown
  <2> QED
    BY <2>2, <2>3 DEF PolicyInv
<1> QED
  BY <1>1, <1>2

\* An event is let through only if the settings of one single moment while the hook read them,
\* taken together, let it through by the meaning of their patterns; if telemetry was disabled
\* after the hook had read the env file, or that file could not be read, the hook may decide
\* on a mixture of moments, of which the first had telemetry enabled, as far as it could read,
\* and one had lists that allow the event.  A repository list that cannot be read stands for
\* the default one (resolveTelemetryPolicy, eventAllowedRemote).
THEOREM StrangersStay == Spec => []NoStranger
<1>1. Init => PolicyInv
  BY PolicyInit
<1>2. IInv /\ PolicyInv /\ [Next]_vars => PolicyInv'
  BY PolicyStep
<1>3. PolicyInv => NoStranger
  BY DEF PolicyInv
<1>4. Spec => []IInv
  BY Invariance
<1> QED
  BY <1>1, <1>2, <1>3, <1>4, PTL DEF Spec

\* The two matchers give every pattern of any length over any segments the meaning it has:
\* its segments cut the path into consecutive pieces (matchPathSegments,
\* matchPolicyPathSegments).
THEOREM MatchersMean ==
  ASSUME NEW S, NEW pattern \in Seq(S), NEW path \in Seq(S)
  PROVE  (MatchRepo(pattern, path) <=> Means(pattern, path)) /\ (MatchPath(pattern, path) <=> Means(pattern, path))
BY MatchRepoMeans, MatchPathMeans

\* A function on 1 .. n is a sequence.
LEMMA WordIsSeq ==
  ASSUME NEW n \in Nat, NEW A, NEW S, A \subseteq S, NEW p \in [1 .. n -> A]
  PROVE  p \in Seq(S)
<1>1. p \in [1 .. n -> S]
  OBVIOUS
<1> QED
  BY <1>1, SeqDef

\* Whenever a hook decides, its two matchers agree on the short patterns and paths of the runs.
THEOREM Agreement == Spec => []MatchersAgree
<1>1. MatchersAgree
  <2>1. ASSUME NEW p \in UNION {[1 .. k -> {"a", "*", "**"}] : k \in 0 .. 4}, NEW s \in UNION {[1 .. k -> {"a", "b"}] : k \in 0 .. 3}
        PROVE  (MatchRepo(p, s) <=> Means(p, s)) /\ (MatchPath(p, s) <=> Means(p, s))
    <3>1. PICK n \in 0 .. 4 : p \in [1 .. n -> {"a", "*", "**"}]
      BY <2>1
    <3>2. PICK k \in 0 .. 3 : s \in [1 .. k -> {"a", "b"}]
      BY <2>1
    <3> DEFINE S == {"a", "b", "*", "**"}
    <3>3. {"a", "*", "**"} \subseteq S /\ {"a", "b"} \subseteq S /\ n \in Nat /\ k \in Nat
      OBVIOUS
    <3> HIDE DEF S
    <3>4. p \in Seq(S) /\ s \in Seq(S)
      BY <3>1, <3>2, <3>3, WordIsSeq
    <3> QED
      BY <3>4, MatchersMean
  <2> QED
    BY <2>1 DEF MatchersAgree, Agree
<1> QED
  BY <1>1, PTL

=============================================================================
