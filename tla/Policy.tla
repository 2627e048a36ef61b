------------------------------- MODULE Policy -------------------------------
(***************************************************************************)
(* Which events may leave the machine (policy.go, path_policy.go): the     *)
(* decision for one event under one policy, and the two matchers of glob   *)
(* patterns it rests on.                                                   *)
(*                                                                         *)
(* Repositories and paths are sequences of segments, as they are after     *)
(* normalisation.  A segment of a pattern is a literal, "*" for any one    *)
(* segment, or "**" for any number of them; wildcards inside a segment and *)
(* the letter case of Windows paths are left out.                          *)
(***************************************************************************)
EXTENDS Naturals, SequencesExt

SegmentMatch(p, s) == p = "*" \/ p = s

\* matchPathSegments: m[<<n, k>>] says whether the last n segments of the pattern match the
\* last k of the identity.
MatchRepo(pattern, id) ==
  LET N == Len(pattern)
      K == Len(id)
      m[rest \in (0 .. N) \X (0 .. K)] ==
        LET n == rest[1]
            k == rest[2]
        IN  IF n = 0 THEN k = 0
            ELSE IF pattern[N - n + 1] = "**" THEN m[<<n - 1, k>>] \/ (k > 0 /\ m[<<n, k - 1>>])
            ELSE k > 0 /\ SegmentMatch(pattern[N - n + 1], id[K - k + 1]) /\ m[<<n - 1, k - 1>>]
  IN  m[<<N, K>>]

\* Mutant of Star: "**" needs a segment.
StarSome(row, i) == \E j \in 0 .. i - 1 : row[j]

Star(row, i) == \E j \in 0 .. i : row[j]

\* matchPolicyPathSegments: rows[n][i] says whether the first n segments of the pattern match
\* the first i of the path.
MatchPath(pattern, path) ==
  LET rows[n \in 0 .. Len(pattern)] ==
        IF n = 0 THEN [i \in 0 .. Len(path) |-> i = 0]
        ELSE LET row == rows[n - 1] IN
             [i \in 0 .. Len(path) |->
                IF pattern[n] = "**" THEN Star(row, i) ELSE i > 0 /\ row[i - 1] /\ SegmentMatch(pattern[n], path[i])]
  IN  rows[Len(pattern)][Len(path)]

\* What a pattern means: its segments cut the path into consecutive pieces.
Means(pattern, path) ==
  \E cut \in [0 .. Len(pattern) -> 0 .. Len(path)] :
    /\ cut[0] = 0 /\ cut[Len(pattern)] = Len(path)
    /\ \A n \in DOMAIN pattern :
         IF pattern[n] = "**" THEN cut[n - 1] <= cut[n]
         ELSE cut[n] = cut[n - 1] + 1 /\ SegmentMatch(pattern[n], path[cut[n]])

-----------------------------------------------------------------------------
\* A policy has disabled, repos, paths, and broken when the path list is not valid.  The
\* repository pattern "*" alone lifts the restriction, and is no identity otherwise.
Anything == <<"*">>

\* A pattern that loadPathAllowFile refuses, and the whole list with it.
Deny == <<"!">>

Broken(paths) == \E i \in DOMAIN paths : paths[i] = Deny

Unrestricted(repos) == repos = <<>> \/ repos = <<Anything>>

RepoAllowed(id, repos) ==
  Len(id) >= 2 /\ \E i \in DOMAIN repos : Len(repos[i]) >= 2 /\ MatchRepo(repos[i], id)

PathAllowed(paths, allow) ==
  \E i \in DOMAIN paths, j \in DOMAIN allow : allow[j] = Anything \/ MatchPath(allow[j], paths[i])

\* The remotes of an event in the order in which they are tried, its origin first; <<>> is
\* one that has no normal form.
FirstOf(remotes, accepted) ==
  LET good == {i \in DOMAIN remotes : remotes[i] \in accepted}
  IN  IF good = {} THEN <<>> ELSE remotes[CHOOSE i \in good : \A j \in good : i <= j]

Decide(event, policy) ==
  LET known  == Range(event.remotes)
      byRepo == FirstOf(event.remotes, {id \in known : RepoAllowed(id, policy.repos)})
      named  == FirstOf(event.remotes, known \ {<<>>})
  IN  CASE policy.disabled -> [ok |-> FALSE, remote |-> <<>>]
        [] ~policy.disabled /\ Unrestricted(policy.repos) -> [ok |-> TRUE, remote |-> event.remotes[1]]
        [] ~policy.disabled /\ ~Unrestricted(policy.repos) /\ byRepo # <<>> -> [ok |-> TRUE, remote |-> byRepo]
        [] OTHER -> IF ~policy.broken /\ PathAllowed(event.paths, policy.paths)
                      THEN [ok |-> TRUE, remote |-> named] ELSE [ok |-> FALSE, remote |-> <<>>]
=============================================================================
