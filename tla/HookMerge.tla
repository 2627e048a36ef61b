----------------------------- MODULE HookMerge -----------------------------
(***************************************************************************)
(* How a JSON settings file of Claude Code, Codex or Cursor is changed:    *)
(* the list of one event, as a sequence of groups, before and after.       *)
(*                                                                         *)
(* A group says whether its matcher is the one the hook wants, whether it  *)
(* carries "_apm_source", whether it has keys other than matcher and       *)
(* hooks, and its handlers: "own" is the canonical one, "apm" one marked   *)
(* with "_apm_source", "old" one with the command of an older release, and *)
(* everything else is the user's.  Cursor's flat list of entries is a      *)
(* single group.                                                           *)
(***************************************************************************)
EXTENDS Naturals, SequencesExt

\* What a list of one event may be, with handlers of some set.
GroupsOf(handlers) == [match : BOOLEAN, source : BOOLEAN, extra : BOOLEAN, handlers : Seq(handlers)]

HandlersOf(doc) == UNION {Range(doc[i].handlers) : i \in DOMAIN doc}

\* Uninstall knows the canonical command and the mark only.
Removable == {"own", "apm"}

\* Install takes older commands for its own; Claude Code never had any.
Owned(harness) == Removable \cup IF harness = "claude" THEN {} ELSE {"old"}

NewGroup == [match |-> TRUE, source |-> FALSE, extra |-> FALSE, handlers |-> <<"own">>]

\* A list without the members of drop.
Without(list, drop) ==
  LET kept[n \in 0 .. Len(list)] ==
        IF n = 0 THEN <<>> ELSE IF list[n] \in drop THEN kept[n - 1] ELSE Append(kept[n - 1], list[n])
  IN  kept[Len(list)]

HasOwned(harness, g) == g.source \/ Range(g.handlers) \cap Owned(harness) # {}

\* Mutant of Preferred: only a matcher makes a group reusable.
PreferredWithMatcher(harness, plain, doc) ==
  LET wanted == {i \in DOMAIN doc : doc[i].match}
  IN  IF ~plain /\ wanted # {} THEN Min(wanted) ELSE 0

\* The group the canonical handler goes to: the first wanted one that had an owned
\* handler, else, for a spec with a matcher, the first wanted one, else a new group.
Preferred(harness, plain, doc) ==
  LET wanted == {i \in DOMAIN doc : doc[i].match}
      had    == {i \in wanted : HasOwned(harness, doc[i])}
  IN  CASE had # {} -> Min(had)
        [] had = {} /\ ~plain /\ wanted # {} -> Min(wanted)
        [] OTHER -> 0

MergeGroups(harness, plain, doc) ==
  LET to       == Preferred(harness, plain, doc)
      stripped == [i \in DOMAIN doc |->
                     [doc[i] EXCEPT !.source = FALSE, !.handlers = Without(@, Owned(harness))]]
  IN  IF to = 0 THEN Append(stripped, NewGroup)
      ELSE [stripped EXCEPT ![to].handlers = Append(@, "own")]

\* Cursor's list of entries.
Flat(doc) == Len(doc) = 1 /\ doc[1].match /\ ~doc[1].source /\ ~doc[1].extra

\* Cursor: the first owned entry becomes the canonical one, the others go.
MergeEntries(doc) ==
  LET entries == doc[1].handlers
      owned   == {i \in DOMAIN entries : entries[i] \in Owned("cursor")}
      first   == Min(owned)
  IN  [doc EXCEPT ![1].handlers =
         IF owned = {} THEN Append(entries, "own")
         ELSE Append(SubSeq(entries, 1, first - 1), "own")
                \o Without(SubSeq(entries, first + 1, Len(entries)), Owned("cursor"))]

Merge(harness, plain, doc) ==
  IF harness = "cursor" THEN MergeEntries(doc) ELSE MergeGroups(harness, plain, doc)

\* Mutant of Emptied: a group with one of our handlers goes with all that is in it.
EmptiedOwned(g) == (g.source \/ Range(g.handlers) \cap Removable # {}) /\ ~g.extra

\* A group that the removal empties is dropped, unless it says something else.
Emptied(g) ==
  /\ g.source \/ Range(g.handlers) \cap Removable # {}
  /\ Range(g.handlers) \subseteq Removable /\ ~g.extra

RemoveGroups(doc) ==
  LET kept == Without(doc, {g \in Range(doc) : Emptied(g)})
  IN  [i \in DOMAIN kept |-> [kept[i] EXCEPT !.source = FALSE, !.handlers = Without(@, Removable)]]

RemoveEntries(doc) == [doc EXCEPT ![1].handlers = Without(@, Removable)]

RemoveOwned(harness, doc) ==
  IF harness = "cursor" THEN RemoveEntries(doc) ELSE RemoveGroups(doc)
-----------------------------------------------------------------------------
(* What the properties say of a list. *)

Joined(lists) ==
  LET joined[n \in 0 .. Len(lists)] == IF n = 0 THEN <<>> ELSE joined[n - 1] \o lists[n]
  IN  joined[Len(lists)]

\* The user's handlers of a group, each with whether the group has the wanted matcher.
Tagged(harness, g) ==
  LET users == Without(g.handlers, Owned(harness)) IN [n \in DOMAIN users |-> <<g.match, users[n]>>]

\* The user's handlers in the order in which the file lists them.
UserPart(harness, doc) == Joined([k \in DOMAIN doc |-> Tagged(harness, doc[k])])

\* A file of the harness, with handlers of some set.
FileOf(handlers, harness, doc) == doc \in Seq(GroupsOf(handlers)) /\ (harness = "cursor" => Flat(doc))

\* Handler n of group k is the canonical one, and nothing else is owned.
Canonical(harness, doc, k, n) ==
  /\ doc[k].match /\ doc[k].handlers[n] = "own"
  /\ \A j \in DOMAIN doc : \A m \in DOMAIN doc[j].handlers :
       doc[j].handlers[m] \in Owned(harness) => j = k /\ m = n

\* What an install or an uninstall leaves: the canonical handler alone, which the next merge
\* keeps, or nothing that is removable.
Made(harness, plain, action, doc) ==
  /\ action = "install" =>
       /\ Merge(harness, plain, doc) = doc
       /\ \E k \in DOMAIN doc : \E n \in DOMAIN doc[k].handlers : Canonical(harness, doc, k, n)
  /\ action = "uninstall" => HandlersOf(doc) \cap Removable = {}
=============================================================================
