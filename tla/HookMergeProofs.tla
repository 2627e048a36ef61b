-------------------------- MODULE HookMergeProofs --------------------------
(***************************************************************************)
(* Proofs about HookMerge for lists of any length: what merging and        *)
(* removing make of one, for every harness.                                *)
(***************************************************************************)
EXTENDS HookMerge, DataInduction

-----------------------------------------------------------------------------
(* Lists *)

\* The empty list has no members, and no other list has none.
LEMMA RangeEmpty ==
  /\ Range(<<>>) = {}
  /\ \A S : \A s \in Seq(S) : Range(s) = {} => s = <<>>
<1>1. Range(<<>>) \in SUBSET {}
  <2>1. <<>> \in Seq({})
    BY EmptySeq
  <2> QED
    BY <2>1, RangeOfSeq
<1>2. ASSUME NEW S, NEW s \in Seq(S), Range(s) = {} PROVE s = <<>>
  <2>1. Range(s) = {s[i] : i \in 1 .. Len(s)} /\ Len(s) \in Nat
    BY RangeEquality, LenProperties
  <2>2. ASSUME s # <<>> PROVE FALSE
    <3>1. Len(s) \in Nat \ {0}
      BY <2>2, EmptySeq
    <3>2. 1 \in 1 .. Len(s)
      BY <3>1
    <3> QED
      BY <3>2, <2>1, <1>2
  <2> QED
    BY <2>2
<1> QED
  BY <1>1, <1>2

\* The members of a list with one more element.
LEMMA RangeAppend ==
  ASSUME NEW S, NEW s \in Seq(S), NEW e \in S
  PROVE  Range(Append(s, e)) = Range(s) \cup {e}
<1>1. /\ Append(s, e) \in Seq(S) /\ Len(Append(s, e)) = Len(s) + 1 /\ Len(s) \in Nat
      /\ \A i \in 1 .. Len(s) : Append(s, e)[i] = s[i]
      /\ Append(s, e)[Len(s) + 1] = e
  BY AppendProperties, LenProperties
<1>2. Range(s) = {s[i] : i \in 1 .. Len(s)}
  BY RangeEquality
<1>3. Range(Append(s, e)) = {Append(s, e)[i] : i \in 1 .. Len(s) + 1}
  BY <1>1, RangeEquality
<1>4. 1 .. Len(s) + 1 = 1 .. Len(s) \cup {Len(s) + 1}
  BY <1>1
<1> QED
  BY <1>1, <1>2, <1>3, <1>4

\* The recursive function in the definition of Without.
Keeps(list, drop, f) ==
  f = [n \in 0 .. Len(list) |->
         IF n = 0 THEN <<>> ELSE IF list[n] \in drop THEN f[n - 1] ELSE Append(f[n - 1], list[n])]

\* There is one, and Without is its last value.
LEMMA WithoutKeeps ==
  ASSUME NEW S, NEW s \in Seq(S), NEW drop
  PROVE  \E f \in [0 .. Len(s) -> Seq(S)] : Keeps(s, drop, f) /\ Without(s, drop) = f[Len(s)]
<1>1. Len(s) \in Nat /\ \A n \in 1 .. Len(s) : s[n] \in S
  BY LenProperties, ElementOfSeq
<1>2. <<>> \in Seq(S)
  BY EmptySeq
<1> DEFINE step == [x \in (1 .. Len(s)) \X Seq(S) |-> IF s[x[1]] \in drop THEN x[2] ELSE Append(x[2], s[x[1]])]
<1>3. step \in [(1 .. Len(s)) \X Seq(S) -> Seq(S)]
  <2> SUFFICES ASSUME NEW n \in 1 .. Len(s), NEW t \in Seq(S)
               PROVE  (IF s[n] \in drop THEN t ELSE Append(t, s[n])) \in Seq(S)
    OBVIOUS
  <2> QED
    BY <1>1, AppendProperties
<1>4. \A n \in 1 .. Len(s), t \in Seq(S) : step[<<n, t>>] = IF s[n] \in drop THEN t ELSE Append(t, s[n])
  OBVIOUS
<1> HIDE DEF step
<1>5. PICK f \in [0 .. Len(s) -> Seq(S)] : f[0] = <<>> /\ \A n \in 1 .. Len(s) : f[n] = step[<<n, f[n - 1]>>]
  <2>1. \E f : Stepwise(f, Len(s), Seq(S), <<>>, step)
    BY <1>1, <1>2, <1>3, RecursiveFunction
  <2> QED
    BY <2>1 DEF Stepwise
<1>6. \A n \in 1 .. Len(s) : f[n] = IF s[n] \in drop THEN f[n - 1] ELSE Append(f[n - 1], s[n])
  <2> TAKE n \in 1 .. Len(s)
  <2>1. n - 1 \in 0 .. Len(s)
    BY <1>1
  <2>2. f[n - 1] \in Seq(S)
    BY <2>1
  <2> QED
    BY <2>2, <1>4, <1>5
<1>7. Keeps(s, drop, f)
  <2>1. \A n \in 0 .. Len(s) : f[n] = IF n = 0 THEN <<>> ELSE IF s[n] \in drop THEN f[n - 1] ELSE Append(f[n - 1], s[n])
    <3> TAKE n \in 0 .. Len(s)
    <3>1. n = 0 \/ n \in 1 .. Len(s)
      BY <1>1
    <3> QED
      BY <3>1, <1>5, <1>6
  <2> QED
    BY <2>1, Zenon DEF Keeps
<1> DEFINE g == CHOOSE g : Keeps(s, drop, g)
<1>8. Keeps(s, drop, g)
  BY <1>7, Zenon
<1>9. Without(s, drop) = g[Len(s)]
  BY Zenon DEF Without, Keeps
<1> HIDE DEF g
<1>10. \A n \in 0 .. Len(s) : g[n] = f[n]
  <2> DEFINE T == {n \in 0 .. Len(s) : g[n] = f[n]}
  <2>0. \A n \in 0 .. Len(s) : g[n] = IF n = 0 THEN <<>> ELSE IF s[n] \in drop THEN g[n - 1] ELSE Append(g[n - 1], s[n])
    BY <1>8, Zenon DEF Keeps
  <2>1. 0 \in T
    BY <2>0, <1>1, <1>5
  <2>2. ASSUME NEW n \in 1 .. Len(s), n - 1 \in T PROVE n \in T
    <3>1. n \in 0 .. Len(s) /\ n # 0
      BY <1>1
    <3> QED
      BY <3>1, <2>0, <2>2, <1>6
  <2>3. \A n \in 0 .. Len(s) : n \in T
    <3> HIDE DEF T
    <3> QED
      BY <1>1, <2>1, <2>2, UpToInduction
  <2> QED
    BY <2>3
<1> QED
  BY <1>1, <1>7, <1>9, <1>10

\* What Keeps says of each value.
LEMMA KeepsAt ==
  ASSUME NEW S, NEW s \in Seq(S), NEW drop, NEW f, Keeps(s, drop, f)
  PROVE  f[0] = <<>> /\ \A n \in 1 .. Len(s) : f[n] = IF s[n] \in drop THEN f[n - 1] ELSE Append(f[n - 1], s[n])
<1>1. \A n \in 0 .. Len(s) : f[n] = IF n = 0 THEN <<>> ELSE IF s[n] \in drop THEN f[n - 1] ELSE Append(f[n - 1], s[n])
  BY Zenon DEF Keeps
<1>2. Len(s) \in Nat
  BY LenProperties
<1>3. 0 \in 0 .. Len(s) /\ \A n \in 1 .. Len(s) : n \in 0 .. Len(s) /\ n # 0
  BY <1>2
<1> QED
  BY <1>1, <1>3

\* What remains of a list is a list of the same set.
LEMMA WithoutType ==
  ASSUME NEW S, NEW s \in Seq(S), NEW drop
  PROVE  Without(s, drop) \in Seq(S)
<1>1. PICK f \in [0 .. Len(s) -> Seq(S)] : Keeps(s, drop, f) /\ Without(s, drop) = f[Len(s)]
  BY WithoutKeeps
<1>2. Len(s) \in 0 .. Len(s)
  BY LenProperties
<1> QED
  BY <1>1, <1>2

\* Nothing remains of nothing.
LEMMA WithoutEmpty ==
  ASSUME NEW drop
  PROVE  Without(<<>>, drop) = <<>>
<1>1. <<>> \in Seq({}) /\ Len(<<>>) = 0
  BY EmptySeq
<1>2. PICK f \in [0 .. Len(<<>>) -> Seq({})] : Keeps(<<>>, drop, f) /\ Without(<<>>, drop) = f[Len(<<>>)]
  BY <1>1, WithoutKeeps
<1>3. f[0] = <<>>
  BY <1>1, <1>2, KeepsAt
<1> QED
  BY <1>1, <1>2, <1>3

\* One more element remains unless it is to be dropped.
LEMMA WithoutAppend ==
  ASSUME NEW S, NEW s \in Seq(S), NEW e \in S, NEW drop
  PROVE  Without(Append(s, e), drop) = IF e \in drop THEN Without(s, drop) ELSE Append(Without(s, drop), e)
<1> DEFINE N == Len(s)
<1>1. PICK t : t = Append(s, e)
  OBVIOUS
<1>2. N \in Nat /\ t \in Seq(S) /\ Len(t) = N + 1 /\ t[N + 1] = e /\ \A n \in 1 .. N : t[n] = s[n]
  BY <1>1, LenProperties, AppendProperties
<1>3. PICK f \in [0 .. Len(s) -> Seq(S)] : Keeps(s, drop, f) /\ Without(s, drop) = f[Len(s)]
  BY WithoutKeeps
<1>4. PICK g \in [0 .. Len(t) -> Seq(S)] : Keeps(t, drop, g) /\ Without(t, drop) = g[Len(t)]
  BY <1>2, WithoutKeeps
<1>5. f[0] = <<>> /\ \A n \in 1 .. N : f[n] = IF s[n] \in drop THEN f[n - 1] ELSE Append(f[n - 1], s[n])
  BY <1>3, KeepsAt
<1>6. g[0] = <<>> /\ \A n \in 1 .. N + 1 : g[n] = IF t[n] \in drop THEN g[n - 1] ELSE Append(g[n - 1], t[n])
  BY <1>2, <1>4, KeepsAt
<1> DEFINE T == {n \in 0 .. N : g[n] = f[n]}
<1>7. 0 \in T
  BY <1>2, <1>5, <1>6
<1>8. ASSUME NEW n \in 1 .. N, n - 1 \in T PROVE n \in T
  <2>1. n \in 0 .. N /\ n \in 1 .. N + 1 /\ t[n] = s[n]
    BY <1>2
  <2> QED
    BY <2>1, <1>8, <1>5, <1>6
<1>9. \A n \in 0 .. N : n \in T
  <2> HIDE DEF T
  <2> QED
    BY <1>2, <1>7, <1>8, UpToInduction
<1>10. g[N] = f[N]
  BY <1>2, <1>9
<1>11. g[N + 1] = IF e \in drop THEN g[N] ELSE Append(g[N], e)
  <2>1. N + 1 \in 1 .. N + 1 /\ (N + 1) - 1 = N
    BY <1>2
  <2> QED
    BY <2>1, <1>2, <1>6
<1> QED
  BY <1>1, <1>2, <1>3, <1>4, <1>10, <1>11

\* What remains are the members that are not to be dropped.
LEMMA WithoutRange ==
  ASSUME NEW S, NEW s \in Seq(S), NEW drop
  PROVE  Range(Without(s, drop)) = Range(s) \ drop
<1> DEFINE T == {t \in Seq(S) : Range(Without(t, drop)) = Range(t) \ drop}
<1>1. <<>> \in T
  BY RangeEmpty, WithoutEmpty, EmptySeq
<1>2. ASSUME NEW t \in Seq(S), NEW e \in S, t \in T PROVE Append(t, e) \in T
  <2>1. Append(t, e) \in Seq(S) /\ Range(Append(t, e)) = Range(t) \cup {e}
    BY AppendProperties, RangeAppend
  <2>2. Without(t, drop) \in Seq(S)
    BY WithoutType
  <2>3. CASE e \in drop
    BY <2>1, <2>3, <1>2, WithoutAppend
  <2>4. CASE e \notin drop
    <3>1. Range(Append(Without(t, drop), e)) = Range(Without(t, drop)) \cup {e}
      BY <2>2, RangeAppend
    <3>2. Without(Append(t, e), drop) = Append(Without(t, drop), e)
      BY <2>4, WithoutAppend
    <3>3. Range(Without(t, drop)) = Range(t) \ drop
      BY <1>2
    <3> QED
      BY <2>1, <2>4, <3>1, <3>2, <3>3
  <2> QED
    BY <2>3, <2>4
<1>3. \A t \in Seq(S) : t \in T
  <2> HIDE DEF T
  <2> QED
    BY <1>1, <1>2, SeqSetInduction
<1> QED
  BY <1>3

\* A list with nothing to drop stays as it is.
LEMMA WithoutNone ==
  ASSUME NEW S, NEW s \in Seq(S), NEW drop, Range(s) \cap drop = {}
  PROVE  Without(s, drop) = s
<1> DEFINE T == {t \in Seq(S) : Range(t) \cap drop = {} => Without(t, drop) = t}
<1>1. <<>> \in T
  BY WithoutEmpty, EmptySeq
<1>2. ASSUME NEW t \in Seq(S), NEW e \in S, t \in T PROVE Append(t, e) \in T
  <2>1. Append(t, e) \in Seq(S) /\ Range(Append(t, e)) = Range(t) \cup {e}
    BY AppendProperties, RangeAppend
  <2>2. ASSUME Range(Append(t, e)) \cap drop = {} PROVE Without(Append(t, e), drop) = Append(t, e)
    <3>1. e \notin drop /\ Range(t) \cap drop = {}
      BY <2>1, <2>2
    <3>2. Without(t, drop) = t
      BY <3>1, <1>2
    <3> QED
      BY <3>1, <3>2, WithoutAppend
  <2> QED
    BY <2>1, <2>2
<1>3. \A t \in Seq(S) : t \in T
  <2> HIDE DEF T
  <2> QED
    BY <1>1, <1>2, SeqSetInduction
<1> QED
  BY <1>3

\* A list with nothing else becomes empty.
LEMMA WithoutAll ==
  ASSUME NEW S, NEW s \in Seq(S), NEW drop, Range(s) \subseteq drop
  PROVE  Without(s, drop) = <<>>
<1>1. Range(Without(s, drop)) = {}
  BY WithoutRange
<1> QED
  BY <1>1, WithoutType, RangeEmpty

\* Dropping twice is dropping both.
LEMMA WithoutTwice ==
  ASSUME NEW S, NEW s \in Seq(S), NEW drop, NEW more
  PROVE  Without(Without(s, drop), more) = Without(s, drop \cup more)
<1> DEFINE T == {t \in Seq(S) : Without(Without(t, drop), more) = Without(t, drop \cup more)}
<1>1. <<>> \in T
  BY WithoutEmpty, EmptySeq
<1>2. ASSUME NEW t \in Seq(S), NEW e \in S, t \in T PROVE Append(t, e) \in T
  <2>1. Append(t, e) \in Seq(S) /\ Without(t, drop) \in Seq(S)
    BY AppendProperties, WithoutType
  <2>2. Without(Without(t, drop), more) = Without(t, drop \cup more)
    BY <1>2
  <2>3. Without(Append(t, e), drop) = IF e \in drop THEN Without(t, drop) ELSE Append(Without(t, drop), e)
    BY WithoutAppend
  <2>4. Without(Append(Without(t, drop), e), more) =
          IF e \in more THEN Without(Without(t, drop), more) ELSE Append(Without(Without(t, drop), more), e)
    BY <2>1, WithoutAppend
  <2>5. Without(Append(t, e), drop \cup more) =
          IF e \in drop \cup more THEN Without(t, drop \cup more) ELSE Append(Without(t, drop \cup more), e)
    BY WithoutAppend
  <2>6. Without(Without(Append(t, e), drop), more) = Without(Append(t, e), drop \cup more)
    <3>1. CASE e \in drop
      BY <3>1, <2>2, <2>3, <2>5
    <3>2. CASE e \notin drop /\ e \in more
      BY <3>2, <2>2, <2>3, <2>4, <2>5
    <3>3. CASE e \notin drop /\ e \notin more
      BY <3>3, <2>2, <2>3, <2>4, <2>5
    <3> QED
      BY <3>1, <3>2, <3>3
  <2> QED
    BY <2>1, <2>6
<1>3. \A t \in Seq(S) : t \in T
  <2> HIDE DEF T
  <2> QED
    BY <1>1, <1>2, SeqSetInduction
<1> QED
  BY <1>3

\* Dropping from two lists one after the other.
LEMMA WithoutConcat ==
  ASSUME NEW S, NEW s \in Seq(S), NEW t \in Seq(S), NEW drop
  PROVE  Without(s \o t, drop) = Without(s, drop) \o Without(t, drop)
<1> DEFINE T == {u \in Seq(S) : Without(s \o u, drop) = Without(s, drop) \o Without(u, drop)}
<1>0. Without(s, drop) \in Seq(S)
  BY WithoutType
<1>1. <<>> \in T
  <2>1. s \o <<>> = s /\ Without(s, drop) \o <<>> = Without(s, drop)
    BY <1>0, ConcatEmptySeq
  <2> QED
    BY <2>1, WithoutEmpty, EmptySeq
<1>2. ASSUME NEW u \in Seq(S), NEW e \in S, u \in T PROVE Append(u, e) \in T
  <2>1. Append(u, e) \in Seq(S) /\ Without(u, drop) \in Seq(S) /\ s \o u \in Seq(S) /\ <<e>> \in Seq(S)
    BY AppendProperties, WithoutType, ConcatProperties
  <2>2. s \o Append(u, e) = Append(s \o u, e)
    <3>1. Append(u, e) = u \o <<e>> /\ Append(s \o u, e) = (s \o u) \o <<e>>
      BY <2>1, AppendIsConcat
    <3> QED
      BY <3>1, <2>1, ConcatAssociative
  <2>3. Without(s, drop) \o Append(Without(u, drop), e) = Append(Without(s, drop) \o Without(u, drop), e)
    <3>1. Without(s, drop) \o Without(u, drop) \in Seq(S)
      BY <1>0, <2>1, ConcatProperties
    <3>2. /\ Append(Without(u, drop), e) = Without(u, drop) \o <<e>>
          /\ Append(Without(s, drop) \o Without(u, drop), e) = (Without(s, drop) \o Without(u, drop)) \o <<e>>
      BY <2>1, <3>1, AppendIsConcat
    <3> QED
      BY <3>2, <1>0, <2>1, ConcatAssociative
  <2>4. Without(s \o u, drop) = Without(s, drop) \o Without(u, drop)
    BY <1>2
  <2>5. Without(Append(s \o u, e), drop) = IF e \in drop THEN Without(s \o u, drop) ELSE Append(Without(s \o u, drop), e)
    <3>1. PICK v \in Seq(S) : v = s \o u
      BY <2>1
    <3>2. Without(Append(v, e), drop) = IF e \in drop THEN Without(v, drop) ELSE Append(Without(v, drop), e)
      BY WithoutAppend
    <3> QED
      BY <3>1, <3>2
  <2>6. Without(Append(u, e), drop) = IF e \in drop THEN Without(u, drop) ELSE Append(Without(u, drop), e)
    BY WithoutAppend
  <2>7. Without(s \o Append(u, e), drop) = Without(s, drop) \o Without(Append(u, e), drop)
    <3>1. CASE e \in drop
      BY <3>1, <2>2, <2>4, <2>5, <2>6
    <3>2. CASE e \notin drop
      BY <3>2, <2>2, <2>3, <2>4, <2>5, <2>6
    <3> QED
      BY <3>1, <3>2
  <2> QED
    BY <2>1, <2>7
<1>3. \A u \in Seq(S) : u \in T
  <2> HIDE DEF T
  <2> QED
    BY <1>1, <1>2, SeqSetInduction
<1> QED
  BY <1>3

\* The recursive function in the definition of Joined.
Joins(lists, f) == f = [n \in 0 .. Len(lists) |-> IF n = 0 THEN <<>> ELSE f[n - 1] \o lists[n]]

\* There is one, and Joined is its last value.
LEMMA JoinedJoins ==
  ASSUME NEW S, NEW s \in Seq(Seq(S))
  PROVE  \E f \in [0 .. Len(s) -> Seq(S)] :
           /\ f[0] = <<>> /\ \A n \in 1 .. Len(s) : f[n] = f[n - 1] \o s[n]
           /\ Joined(s) = f[Len(s)]
<1>1. Len(s) \in Nat /\ \A n \in 1 .. Len(s) : s[n] \in Seq(S)
  BY LenProperties, ElementOfSeq
<1>2. <<>> \in Seq(S)
  BY EmptySeq
<1> DEFINE step == [x \in (1 .. Len(s)) \X Seq(S) |-> x[2] \o s[x[1]]]
<1>3. step \in [(1 .. Len(s)) \X Seq(S) -> Seq(S)]
  <2> SUFFICES ASSUME NEW n \in 1 .. Len(s), NEW t \in Seq(S)
               PROVE  t \o s[n] \in Seq(S)
    OBVIOUS
  <2> QED
    BY <1>1, ConcatProperties
<1>4. \A n \in 1 .. Len(s), t \in Seq(S) : step[<<n, t>>] = t \o s[n]
  OBVIOUS
<1> HIDE DEF step
<1>5. PICK f \in [0 .. Len(s) -> Seq(S)] : f[0] = <<>> /\ \A n \in 1 .. Len(s) : f[n] = step[<<n, f[n - 1]>>]
  <2>1. \E f : Stepwise(f, Len(s), Seq(S), <<>>, step)
    BY <1>1, <1>2, <1>3, RecursiveFunction
  <2> QED
    BY <2>1 DEF Stepwise
<1>6. \A n \in 1 .. Len(s) : f[n] = f[n - 1] \o s[n]
  <2> TAKE n \in 1 .. Len(s)
  <2>1. n - 1 \in 0 .. Len(s)
    BY <1>1
  <2>2. f[n - 1] \in Seq(S)
    BY <2>1
  <2> QED
    BY <2>2, <1>4, <1>5
<1>7. Joins(s, f)
  <2>1. \A n \in 0 .. Len(s) : f[n] = IF n = 0 THEN <<>> ELSE f[n - 1] \o s[n]
    <3> TAKE n \in 0 .. Len(s)
    <3>1. n = 0 \/ n \in 1 .. Len(s)
      BY <1>1
    <3> QED
      BY <3>1, <1>5, <1>6
  <2> QED
    BY <2>1, Zenon DEF Joins
<1> DEFINE g == CHOOSE g : Joins(s, g)
<1>8. Joins(s, g)
  BY <1>7, Zenon
<1>9. Joined(s) = g[Len(s)]
  BY Zenon DEF Joined, Joins
<1> HIDE DEF g
<1>10. \A n \in 0 .. Len(s) : g[n] = f[n]
  <2> DEFINE T == {n \in 0 .. Len(s) : g[n] = f[n]}
  <2>0. \A n \in 0 .. Len(s) : g[n] = IF n = 0 THEN <<>> ELSE g[n - 1] \o s[n]
    BY <1>8, Zenon DEF Joins
  <2>1. 0 \in T
    BY <2>0, <1>1, <1>5
  <2>2. ASSUME NEW n \in 1 .. Len(s), n - 1 \in T PROVE n \in T
    <3>1. n \in 0 .. Len(s) /\ n # 0
      BY <1>1
    <3> QED
      BY <3>1, <2>0, <2>2, <1>6
  <2>3. \A n \in 0 .. Len(s) : n \in T
    <3> HIDE DEF T
    <3> QED
      BY <1>1, <2>1, <2>2, UpToInduction
  <2> QED
    BY <2>3
<1>11. Joined(s) = f[Len(s)]
  BY <1>1, <1>9, <1>10
<1> QED
  BY <1>5, <1>6, <1>11

\* Lists joined are a list.
LEMMA JoinedType ==
  ASSUME NEW S, NEW s \in Seq(Seq(S))
  PROVE  Joined(s) \in Seq(S)
<1>1. PICK f \in [0 .. Len(s) -> Seq(S)] : Joined(s) = f[Len(s)]
  BY JoinedJoins
<1>2. Len(s) \in 0 .. Len(s)
  BY LenProperties
<1> QED
  BY <1>1, <1>2

\* One more list follows the others.
LEMMA JoinedAppend ==
  ASSUME NEW S, NEW s \in Seq(Seq(S)), NEW e \in Seq(S)
  PROVE  Joined(Append(s, e)) = Joined(s) \o e
<1> DEFINE N == Len(s)
<1>1. PICK t : t = Append(s, e)
  OBVIOUS
<1>2. N \in Nat /\ t \in Seq(Seq(S)) /\ Len(t) = N + 1 /\ t[N + 1] = e /\ \A n \in 1 .. N : t[n] = s[n]
  BY <1>1, LenProperties, AppendProperties
<1>3. PICK f \in [0 .. Len(s) -> Seq(S)] :
           /\ f[0] = <<>> /\ \A n \in 1 .. Len(s) : f[n] = f[n - 1] \o s[n]
           /\ Joined(s) = f[Len(s)]
  BY JoinedJoins
<1>4. PICK g \in [0 .. Len(t) -> Seq(S)] :
           /\ g[0] = <<>> /\ \A n \in 1 .. Len(t) : g[n] = g[n - 1] \o t[n]
           /\ Joined(t) = g[Len(t)]
  BY <1>2, JoinedJoins
<1> DEFINE T == {n \in 0 .. N : g[n] = f[n]}
<1>5. 0 \in T
  BY <1>2, <1>3, <1>4
<1>6. ASSUME NEW n \in 1 .. N, n - 1 \in T PROVE n \in T
  <2>1. n \in 0 .. N /\ n \in 1 .. N + 1 /\ t[n] = s[n]
    BY <1>2
  <2> QED
    BY <2>1, <1>2, <1>3, <1>4, <1>6
<1>7. \A n \in 0 .. N : n \in T
  <2> HIDE DEF T
  <2> QED
    BY <1>2, <1>5, <1>6, UpToInduction
<1>8. g[N] = f[N]
  BY <1>2, <1>7
<1>9. g[N + 1] = g[N] \o e
  <2>1. N + 1 \in 1 .. N + 1 /\ (N + 1) - 1 = N
    BY <1>2
  <2> QED
    BY <2>1, <1>2, <1>4
<1> QED
  BY <1>1, <1>2, <1>3, <1>4, <1>8, <1>9

-----------------------------------------------------------------------------
(* What the user sees of a list of groups *)

\* A function on 1 .. n is a list of length n.
LEMMA ListOfFunction ==
  ASSUME NEW S, NEW n \in Nat, NEW f \in [1 .. n -> S]
  PROVE  f \in Seq(S) /\ Len(f) = n
OBVIOUS

\* The owned handlers have the removable ones among them.
LEMMA RemovableOwned ==
  ASSUME NEW harness
  PROVE  Removable \subseteq Owned(harness) /\ Removable \cup Owned(harness) = Owned(harness) /\ "own" \in Removable
BY DEF Removable, Owned

\* What is tagged of a group is a list of handlers and matches.
LEMMA TaggedType ==
  ASSUME NEW H, NEW harness, NEW g \in GroupsOf(H)
  PROVE  Tagged(harness, g) \in Seq(BOOLEAN \X H)
<1>1. PICK users \in Seq(H) : users = Without(g.handlers, Owned(harness))
  BY WithoutType DEF GroupsOf
<1>2. Len(users) \in Nat /\ DOMAIN users = 1 .. Len(users) /\ \A n \in 1 .. Len(users) : users[n] \in H
  BY LenProperties, ElementOfSeq
<1>3. [n \in DOMAIN users |-> <<g.match, users[n]>>] \in [1 .. Len(users) -> BOOLEAN \X H]
  BY <1>2 DEF GroupsOf
<1>4. [n \in DOMAIN users |-> <<g.match, users[n]>>] \in Seq(BOOLEAN \X H)
  BY <1>2, <1>3, ListOfFunction
<1> QED
  BY <1>1, <1>4 DEF Tagged

\* It depends on the match and on what remains of the handlers only.
LEMMA TaggedSame ==
  ASSUME NEW harness, NEW g, NEW h, g.match = h.match,
         Without(g.handlers, Owned(harness)) = Without(h.handlers, Owned(harness))
  PROVE  Tagged(harness, g) = Tagged(harness, h)
BY DEF Tagged

\* Nothing is tagged of a group that has only owned handlers.
LEMMA TaggedNone ==
  ASSUME NEW H, NEW harness, NEW g \in GroupsOf(H), Range(g.handlers) \subseteq Owned(harness)
  PROVE  Tagged(harness, g) = <<>>
<1>1. Without(g.handlers, Owned(harness)) = <<>>
  BY WithoutAll DEF GroupsOf
<1>2. DOMAIN <<>> = {}
  OBVIOUS
<1>3. PICK t : t = Tagged(harness, g)
  OBVIOUS
<1>4. DOMAIN t = {}
  BY <1>1, <1>2, <1>3 DEF Tagged
<1>5. t \in Seq(BOOLEAN \X H)
  BY <1>3, TaggedType
<1>6. DOMAIN t = 1 .. Len(t) /\ Range(t) = {t[n] : n \in 1 .. Len(t)}
  BY <1>5, LenProperties, RangeEquality
<1>7. Range(t) = {}
  BY <1>4, <1>6
<1> QED
  BY <1>3, <1>5, <1>7, RangeEmpty

\* The tagged lists of the groups.
TaggedOf(harness, doc) == [k \in DOMAIN doc |-> Tagged(harness, doc[k])]

\* They are a list of lists.
LEMMA TaggedOfType ==
  ASSUME NEW H, NEW harness, NEW d \in Seq(GroupsOf(H))
  PROVE  /\ TaggedOf(harness, d) \in Seq(Seq(BOOLEAN \X H)) /\ Len(TaggedOf(harness, d)) = Len(d)
         /\ UserPart(harness, d) = Joined(TaggedOf(harness, d))
<1>1. Len(d) \in Nat /\ DOMAIN d = 1 .. Len(d) /\ \A n \in 1 .. Len(d) : d[n] \in GroupsOf(H)
  BY LenProperties, ElementOfSeq
<1>2. \A n \in 1 .. Len(d) : Tagged(harness, d[n]) \in Seq(BOOLEAN \X H)
  BY <1>1, TaggedType
<1>3. TaggedOf(harness, d) \in [1 .. Len(d) -> Seq(BOOLEAN \X H)]
  BY <1>1, <1>2 DEF TaggedOf
<1> QED
  BY <1>1, <1>3, ListOfFunction DEF UserPart, TaggedOf

\* The user's part is a list.
LEMMA UserPartType ==
  ASSUME NEW H, NEW harness, NEW d \in Seq(GroupsOf(H))
  PROVE  UserPart(harness, d) \in Seq(BOOLEAN \X H)
<1>1. PICK S : S = BOOLEAN \X H
  OBVIOUS
<1>2. PICK s \in Seq(Seq(S)) : UserPart(harness, d) = Joined(s)
  BY <1>1, TaggedOfType
<1>3. Joined(s) \in Seq(S)
  BY JoinedType
<1> QED
  BY <1>1, <1>2, <1>3

\* One more group adds what is tagged of it.
LEMMA UserPartAppend ==
  ASSUME NEW H, NEW harness, NEW d \in Seq(GroupsOf(H)), NEW g \in GroupsOf(H)
  PROVE  UserPart(harness, Append(d, g)) = UserPart(harness, d) \o Tagged(harness, g)
<1>1. PICK e : e = Append(d, g)
  OBVIOUS
<1>2. /\ Len(d) \in Nat /\ e \in Seq(GroupsOf(H)) /\ Len(e) = Len(d) + 1 /\ e[Len(d) + 1] = g
      /\ \A n \in 1 .. Len(d) : e[n] = d[n]
      /\ DOMAIN d = 1 .. Len(d) /\ DOMAIN e = 1 .. Len(d) + 1
  BY <1>1, LenProperties, AppendProperties
<1>3. PICK s \in Seq(Seq(BOOLEAN \X H)) : s = TaggedOf(harness, d) /\ Len(s) = Len(d)
  <2>1. /\ TaggedOf(harness, d) \in Seq(Seq(BOOLEAN \X H)) /\ Len(TaggedOf(harness, d)) = Len(d)
        /\ UserPart(harness, d) = Joined(TaggedOf(harness, d))
    BY TaggedOfType, Zenon
  <2> QED
    BY <2>1, Zenon
<1>4. PICK t \in Seq(Seq(BOOLEAN \X H)) : t = TaggedOf(harness, e) /\ Len(t) = Len(d) + 1
  BY <1>2, TaggedOfType
<1>5. PICK x \in Seq(BOOLEAN \X H) : x = Tagged(harness, g)
  BY TaggedType
<1>6. PICK u : u = Append(s, x)
  OBVIOUS
<1>6a. u \in Seq(Seq(BOOLEAN \X H)) /\ Len(u) = Len(s) + 1 /\ u[Len(s) + 1] = x /\ \A n \in 1 .. Len(s) : u[n] = s[n]
  BY <1>6, AppendProperties
<1>7. \A n \in 1 .. Len(d) + 1 : t[n] = u[n]
  <2> TAKE n \in 1 .. Len(d) + 1
  <2>1. CASE n = Len(d) + 1
    <3>1. t[n] = Tagged(harness, e[n])
      BY <1>2, <1>4 DEF TaggedOf
    <3> QED
      BY <2>1, <3>1, <1>2, <1>3, <1>5, <1>6a
  <2>2. CASE n # Len(d) + 1
    <3>1. n \in 1 .. Len(d)
      BY <2>2, <1>2
    <3>2. t[n] = Tagged(harness, e[n])
      BY <1>2, <1>4 DEF TaggedOf
    <3>3. s[n] = Tagged(harness, d[n])
      BY <3>1, <1>2, <1>3 DEF TaggedOf
    <3> QED
      BY <3>1, <3>2, <3>3, <1>2, <1>3, <1>6a
  <2> QED
    BY <2>1, <2>2
<1>8. t = u
  BY <1>3, <1>4, <1>6a, <1>7, SeqEqual
<1>9. Joined(u) = Joined(s) \o x
  BY <1>6, JoinedAppend
<1>10. UserPart(harness, e) = Joined(t) /\ UserPart(harness, d) = Joined(s)
  BY <1>2, <1>3, <1>4, TaggedOfType
<1> QED
  BY <1>1, <1>5, <1>8, <1>9, <1>10

\* Groups of which nothing is tagged may go.
LEMMA UserPartWithout ==
  ASSUME NEW H, NEW harness, NEW d \in Seq(GroupsOf(H)), NEW drop, \A g \in drop : Tagged(harness, g) = <<>>
  PROVE  UserPart(harness, Without(d, drop)) = UserPart(harness, d)
<1> DEFINE T == {e \in Seq(GroupsOf(H)) : UserPart(harness, Without(e, drop)) = UserPart(harness, e)}
<1>1. <<>> \in T
  BY WithoutEmpty, EmptySeq
<1>2. ASSUME NEW e \in Seq(GroupsOf(H)), NEW g \in GroupsOf(H), e \in T PROVE Append(e, g) \in T
  <2>1. Append(e, g) \in Seq(GroupsOf(H))
    BY AppendProperties
  <2>2. UserPart(harness, Append(e, g)) = UserPart(harness, e) \o Tagged(harness, g)
    BY UserPartAppend
  <2>3. UserPart(harness, Without(Append(e, g), drop)) = UserPart(harness, Append(e, g))
    <3>1. CASE g \in drop
      <4>1. Tagged(harness, g) = <<>>
        BY <3>1
      <4>2. UserPart(harness, e) \in Seq(BOOLEAN \X H)
        BY UserPartType
      <4>3. UserPart(harness, e) \o <<>> = UserPart(harness, e)
        BY <4>2, ConcatEmptySeq
      <4>4. Without(Append(e, g), drop) = Without(e, drop)
        BY <3>1, WithoutAppend
      <4> QED
        BY <4>1, <4>3, <4>4, <2>2, <1>2
    <3>2. CASE g \notin drop
      <4>1. Without(e, drop) \in Seq(GroupsOf(H)) /\ Without(Append(e, g), drop) = Append(Without(e, drop), g)
        BY <3>2, WithoutAppend, WithoutType
      <4>2. UserPart(harness, Append(Without(e, drop), g)) = UserPart(harness, Without(e, drop)) \o Tagged(harness, g)
        BY <4>1, UserPartAppend
      <4> QED
        BY <4>1, <4>2, <2>2, <1>2
    <3> QED
      BY <3>1, <3>2
  <2> QED
    BY <2>1, <2>3
<1>3. \A e \in Seq(GroupsOf(H)) : e \in T
  <2> HIDE DEF T
  <2> QED
    BY <1>1, <1>2, SeqSetInduction
<1> QED
  BY <1>3

\* Lists of as many groups, of which the same is tagged, look the same to the user.
LEMMA UserPartSame ==
  ASSUME NEW H, NEW harness, NEW d \in Seq(GroupsOf(H)), NEW e \in Seq(GroupsOf(H)), Len(d) = Len(e),
         \A n \in 1 .. Len(d) : Tagged(harness, d[n]) = Tagged(harness, e[n])
  PROVE  UserPart(harness, d) = UserPart(harness, e)
<1>1. DOMAIN d = 1 .. Len(d) /\ DOMAIN e = 1 .. Len(d)
  BY LenProperties
<1>2. TaggedOf(harness, d) = TaggedOf(harness, e)
  BY <1>1 DEF TaggedOf
<1> QED
  BY <1>2, TaggedOfType

-----------------------------------------------------------------------------
(* Merging the groups of Claude Code and Codex *)

\* A set of numbers that is not empty has a least one.
LEMMA MinOfNumbers ==
  ASSUME NEW S \in SUBSET Nat, S # {}
  PROVE  Min(S) \in S
<1> SUFFICES ASSUME \A x \in S : \E y \in S : ~ (x <= y) PROVE FALSE
  BY Zenon DEF Min
<1> DEFINE T == {n \in Nat : \A k \in 0 .. n : k \notin S}
<1>1. 0 \in T
  <2>1. \A y \in S : 0 <= y
    OBVIOUS
  <2>2. 0 \notin S
    BY <2>1
  <2> QED
    BY <2>2
<1>2. ASSUME NEW n \in Nat, n \in T PROVE n + 1 \in T
  <2>1. \A y \in S : n + 1 <= y
    <3> TAKE y \in S
    <3>1. y \notin 0 .. n
      BY <1>2
    <3> QED
      BY <3>1
  <2>2. n + 1 \notin S
    BY <2>1
  <2>3. \A k \in 0 .. n + 1 : k \in 0 .. n \/ k = n + 1
    OBVIOUS
  <2> QED
    BY <2>2, <2>3, <1>2
<1>3. \A n \in Nat : n \in T
  <2> HIDE DEF T
  <2> QED
    BY <1>1, <1>2, NatSetInduction
<1>4. \A n \in Nat : n \notin S
  <2> TAKE n \in Nat
  <2> QED
    BY <1>3
<1> QED
  BY <1>4

\* Group k is the one with a handler of ours, the canonical one at its end.
Settled(H, harness, d, k) ==
  /\ k \in DOMAIN d /\ d[k].match
  /\ \A i \in DOMAIN d : ~d[i].source /\ (i # k => Range(d[i].handlers) \cap Owned(harness) = {})
  /\ \E users \in Seq(H) : users = Without(users, Owned(harness)) /\ d[k].handlers = Append(users, "own")

\* What a merge makes of a group.
Stripped(harness, g) == [g EXCEPT !.source = FALSE, !.handlers = Without(@, Owned(harness))]

\* It is a group, and only its source and its owned handlers are gone.
LEMMA StrippedFields ==
  ASSUME NEW H, NEW harness, NEW g \in GroupsOf(H)
  PROVE  /\ Stripped(harness, g) \in GroupsOf(H)
         /\ Stripped(harness, g).match = g.match /\ Stripped(harness, g).extra = g.extra
         /\ ~Stripped(harness, g).source
         /\ Stripped(harness, g).handlers = Without(g.handlers, Owned(harness))
         /\ Without(g.handlers, Owned(harness)) \in Seq(H)
<1>1. PICK users \in Seq(H) : users = Without(g.handlers, Owned(harness))
  BY WithoutType DEF GroupsOf
<1>2. Stripped(harness, g) = [g EXCEPT !.source = FALSE, !.handlers = users]
  BY <1>1 DEF Stripped
<1> QED
  BY <1>1, <1>2 DEF GroupsOf

\* The group that gets the canonical handler is wanted.
LEMMA PreferredWanted ==
  ASSUME NEW H, NEW harness, NEW plain \in BOOLEAN, NEW d \in Seq(GroupsOf(H))
  PROVE  LET k == Preferred(harness, plain, d)
         IN  k = 0 \/ (k \in 1 .. Len(d) /\ d[k].match)
<1> DEFINE wanted == {i \in DOMAIN d : d[i].match}
           had    == {i \in wanted : HasOwned(harness, d[i])}
<1>1. DOMAIN d = 1 .. Len(d) /\ Len(d) \in Nat
  BY LenProperties
<1>2. wanted \in SUBSET Nat /\ had \in SUBSET Nat /\ had \subseteq wanted
  BY <1>1
<1>3. had # {} => Min(had) \in had
  <2> HIDE DEF had
  <2> QED
    BY <1>2, MinOfNumbers
<1>4. wanted # {} => Min(wanted) \in wanted
  <2> HIDE DEF wanted, had
  <2> QED
    BY <1>2, MinOfNumbers
<1>5. \A i \in wanted : i \in 1 .. Len(d) /\ d[i].match
  BY <1>1
<1>6. Preferred(harness, plain, d) = CASE had # {} -> Min(had)
                                       [] had = {} /\ ~plain /\ wanted # {} -> Min(wanted)
                                       [] OTHER -> 0
  BY DEF Preferred
<1> HIDE DEF wanted, had
<1>7. CASE had # {}
  <2>1. Preferred(harness, plain, d) = Min(had)
    BY <1>6, <1>7
  <2> QED
    BY <2>1, <1>2, <1>3, <1>5, <1>7
<1>8. CASE had = {} /\ ~plain /\ wanted # {}
  <2>1. Preferred(harness, plain, d) = Min(wanted)
    BY <1>6, <1>8
  <2> QED
    BY <2>1, <1>4, <1>5, <1>8
<1>9. CASE had = {} /\ ~(~plain /\ wanted # {})
  <2>1. Preferred(harness, plain, d) = 0
    BY <1>6, <1>9
  <2> QED
    BY <2>1
<1> QED
  BY <1>7, <1>8, <1>9

\* In a settled list it is the one with our handler.
LEMMA PreferredSettled ==
  ASSUME NEW H, "own" \in H, NEW harness, NEW plain \in BOOLEAN, NEW d \in Seq(GroupsOf(H)), NEW k,
         Settled(H, harness, d, k)
  PROVE  Preferred(harness, plain, d) = k /\ k \in 1 .. Len(d)
<1> DEFINE wanted == {i \in DOMAIN d : d[i].match}
           had    == {i \in wanted : HasOwned(harness, d[i])}
<1>1. DOMAIN d = 1 .. Len(d) /\ Len(d) \in Nat /\ k \in DOMAIN d /\ \A i \in DOMAIN d : d[i] \in GroupsOf(H)
  BY LenProperties, ElementOfSeq DEF Settled
<1>2. HasOwned(harness, d[k])
  <2>1. PICK users \in Seq(H) : d[k].handlers = Append(users, "own")
    BY DEF Settled
  <2>2. Range(d[k].handlers) = Range(users) \cup {"own"}
    BY <2>1, RangeAppend
  <2>3. "own" \in Owned(harness)
    BY RemovableOwned
  <2> QED
    BY <2>2, <2>3 DEF HasOwned
<1>3. \A i \in DOMAIN d : HasOwned(harness, d[i]) => i = k
  BY DEF Settled, HasOwned
<1>4. had = {k}
  BY <1>1, <1>2, <1>3 DEF Settled
<1>5. Min({k}) = k
  <2>1. {k} \in SUBSET Nat /\ {k} # {}
    BY <1>1
  <2>2. Min({k}) \in {k}
    BY <2>1, MinOfNumbers
  <2> QED
    BY <2>2
<1> QED
  BY <1>1, <1>4, <1>5 DEF Preferred

\* A merged list: group k has got our handler, or is a new one with it, and the others have
\* lost what was owned.
MergedTo(harness, d, m, k) ==
  /\ \A i \in 1 .. Len(d) : i # k => m[i] = Stripped(harness, d[i])
  /\ \/ /\ k \in 1 .. Len(d) /\ d[k].match /\ Len(m) = Len(d)
        /\ m[k] = [Stripped(harness, d[k]) EXCEPT !.handlers = Append(@, "own")]
     \/ k = Len(d) + 1 /\ Len(m) = k /\ m[k] = NewGroup

\* The new group.
LEMMA NewGroupType ==
  ASSUME NEW H, "own" \in H
  PROVE  /\ NewGroup \in GroupsOf(H) /\ NewGroup.match /\ ~NewGroup.source
         /\ <<>> \in Seq(H) /\ NewGroup.handlers = Append(<<>>, "own")
<1>1. <<"own">> \in Seq(H) /\ <<>> \in Seq(H)
  BY EmptySeq
<1>2. <<"own">> = Append(<<>>, "own")
  OBVIOUS
<1> QED
  BY <1>1, <1>2 DEF NewGroup, GroupsOf

\* What a merge does to a list of groups.
LEMMA MergeGroupsDoes ==
  ASSUME NEW H, "own" \in H, NEW harness, NEW plain \in BOOLEAN, NEW d \in Seq(GroupsOf(H))
  PROVE  /\ MergeGroups(harness, plain, d) \in Seq(GroupsOf(H))
         /\ \E k \in 1 .. Len(d) + 1 :
              /\ MergedTo(harness, d, MergeGroups(harness, plain, d), k)
              /\ k = IF Preferred(harness, plain, d) = 0 THEN Len(d) + 1 ELSE Preferred(harness, plain, d)
<1> DEFINE G == GroupsOf(H)
<1>1. Len(d) \in Nat /\ DOMAIN d = 1 .. Len(d) /\ \A i \in 1 .. Len(d) : d[i] \in G
  BY LenProperties, ElementOfSeq
<1>2. PICK stripped : stripped = [i \in DOMAIN d |-> Stripped(harness, d[i])]
  OBVIOUS
<1>3. \A i \in 1 .. Len(d) : Stripped(harness, d[i]) \in G
  BY <1>1, StrippedFields
<1>4. stripped \in [1 .. Len(d) -> G]
  BY <1>1, <1>2, <1>3
<1>5. /\ stripped \in Seq(G) /\ Len(stripped) = Len(d) /\ DOMAIN stripped = 1 .. Len(d)
      /\ \A i \in 1 .. Len(d) : stripped[i] = Stripped(harness, d[i])
  BY <1>1, <1>2, <1>4, ListOfFunction
<1>6. PICK to : to = Preferred(harness, plain, d)
  OBVIOUS
<1>7. MergeGroups(harness, plain, d) = IF to = 0 THEN Append(stripped, NewGroup)
                                       ELSE [stripped EXCEPT ![to].handlers = Append(@, "own")]
  BY <1>2, <1>6 DEF MergeGroups, Stripped
<1>8. to = 0 \/ (to \in 1 .. Len(d) /\ d[to].match)
  BY <1>6, PreferredWanted
<1>9. CASE to = 0
  <2>1. PICK m : m = Append(stripped, NewGroup)
    OBVIOUS
  <2>2. m \in Seq(G) /\ Len(m) = Len(stripped) + 1 /\ m[Len(stripped) + 1] = NewGroup /\ \A i \in 1 .. Len(stripped) : m[i] = stripped[i]
    BY <1>5, <2>1, NewGroupType, AppendProperties
  <2>3. MergedTo(harness, d, m, Len(d) + 1)
    BY <1>1, <1>5, <2>2 DEF MergedTo
  <2>4. Len(d) + 1 \in 1 .. Len(d) + 1
    BY <1>1
  <2>5. MergeGroups(harness, plain, d) = m
    BY <1>7, <1>9, <2>1
  <2> QED
    BY <1>6, <1>9, <2>2, <2>3, <2>4, <2>5
<1>10. CASE to \in 1 .. Len(d) /\ d[to].match
  <2>1. PICK g : g = [Stripped(harness, d[to]) EXCEPT !.handlers = Append(@, "own")]
    OBVIOUS
  <2>2. g \in G
    <3>1. PICK s \in G : s = Stripped(harness, d[to])
      BY <1>3, <1>10
    <3>2. PICK l \in Seq(H) : l = Append(s.handlers, "own")
      BY AppendProperties DEF GroupsOf
    <3>3. g = [s EXCEPT !.handlers = l]
      BY <2>1, <3>1, <3>2
    <3> QED
      BY <3>3 DEF GroupsOf
  <2>3. PICK m : m = [stripped EXCEPT ![to] = g]
    OBVIOUS
  <2>4. m \in Seq(G) /\ Len(m) = Len(d) /\ \A i \in 1 .. Len(d) : m[i] = IF i = to THEN g ELSE stripped[i]
    BY <1>5, <1>10, <2>2, <2>3, ExceptSeq
  <2>5. [stripped EXCEPT ![to].handlers = Append(@, "own")] = m
    BY <1>5, <1>10, <2>1, <2>3
  <2>6. to # 0
    BY <1>1, <1>10
  <2>7. MergeGroups(harness, plain, d) = m
    BY <1>7, <2>5, <2>6
  <2>8. MergedTo(harness, d, m, to)
    BY <1>5, <1>10, <2>1, <2>4 DEF MergedTo
  <2>9. to \in 1 .. Len(d) + 1
    BY <1>1, <1>10
  <2> QED
    BY <1>6, <2>4, <2>6, <2>7, <2>8, <2>9
<1> QED
  BY <1>8, <1>9, <1>10

\* Which groups there are after a merge, and what they have.
LEMMA MergedFields ==
  ASSUME NEW H, "own" \in H, NEW harness, NEW d \in Seq(GroupsOf(H)), NEW m \in Seq(GroupsOf(H)),
         NEW k \in 1 .. Len(d) + 1, MergedTo(harness, d, m, k)
  PROVE  /\ Len(d) \in Nat /\ DOMAIN d = 1 .. Len(d) /\ DOMAIN m = 1 .. Len(m)
         /\ k \in 1 .. Len(m) /\ m[k].match /\ 1 .. Len(d) \subseteq 1 .. Len(m)
         /\ \A i \in 1 .. Len(m) : i \in 1 .. Len(d) \/ i = k
         /\ \A i \in 1 .. Len(m) : ~m[i].source /\ m[i].handlers \in Seq(H)
         /\ \A i \in 1 .. Len(d) : /\ (m[i].match <=> d[i].match) /\ m[i].match = d[i].match
                                   /\ d[i] \in GroupsOf(H) /\ m[i] \in GroupsOf(H)
                                   /\ Without(d[i].handlers, Owned(harness)) \in Seq(H)
                                   /\ m[i].handlers = IF i = k THEN Append(Without(d[i].handlers, Owned(harness)), "own")
                                                      ELSE Without(d[i].handlers, Owned(harness))
         /\ k \in 1 .. Len(d) \/ (k = Len(d) + 1 /\ Len(m) = k /\ m[k] = NewGroup)
<1> DEFINE G == GroupsOf(H)
<1>1. /\ Len(d) \in Nat /\ DOMAIN d = 1 .. Len(d) /\ DOMAIN m = 1 .. Len(m) /\ Len(m) \in Nat
      /\ \A i \in 1 .. Len(d) : d[i] \in G
      /\ \A i \in 1 .. Len(m) : m[i] \in G
  BY LenProperties, ElementOfSeq
<1>2. \A i \in 1 .. Len(d) : i # k => m[i] = Stripped(harness, d[i])
  BY DEF MergedTo
<1>3. \A i \in 1 .. Len(d) :
        /\ Stripped(harness, d[i]) \in G /\ Stripped(harness, d[i]).match = d[i].match /\ ~Stripped(harness, d[i]).source
        /\ Stripped(harness, d[i]).handlers = Without(d[i].handlers, Owned(harness))
        /\ Without(d[i].handlers, Owned(harness)) \in Seq(H)
  BY <1>1, StrippedFields
<1>4. \A i \in 1 .. Len(m) : m[i].handlers \in Seq(H)
  BY <1>1 DEF GroupsOf
<1>5. CASE k \in 1 .. Len(d) /\ d[k].match /\ Len(m) = Len(d)
           /\ m[k] = [Stripped(harness, d[k]) EXCEPT !.handlers = Append(@, "own")]
  <2>1. PICK g \in G : g = Stripped(harness, d[k])
    BY <1>3, <1>5
  <2>2. /\ m[k].match = d[k].match /\ ~m[k].source
        /\ m[k].handlers = Append(Without(d[k].handlers, Owned(harness)), "own")
    <3>1. PICK l : l = Append(Without(d[k].handlers, Owned(harness)), "own")
      OBVIOUS
    <3>2. g.handlers = Without(d[k].handlers, Owned(harness)) /\ g.match = d[k].match /\ ~g.source
      BY <2>1, <1>3, <1>5
    <3>3. m[k] = [g EXCEPT !.handlers = l]
      BY <1>5, <2>1, <3>1, <3>2
    <3>4. m[k].match = g.match /\ m[k].source = g.source /\ m[k].handlers = l
      BY <3>3 DEF GroupsOf
    <3> QED
      BY <3>1, <3>2, <3>4
  <2>3. \A i \in 1 .. Len(m) : ~m[i].source
    <3> TAKE i \in 1 .. Len(m)
    <3>1. CASE i = k
      BY <3>1, <2>2
    <3>2. CASE i # k
      <4>1. i \in 1 .. Len(d) /\ m[i] = Stripped(harness, d[i])
        BY <3>2, <1>2, <1>5
      <4> QED
        BY <4>1, <1>3
    <3> QED
      BY <3>1, <3>2
  <2>4. \A i \in 1 .. Len(d) :
          /\ m[i].match = d[i].match
          /\ m[i].handlers = IF i = k THEN Append(Without(d[i].handlers, Owned(harness)), "own")
                             ELSE Without(d[i].handlers, Owned(harness))
    BY <1>2, <1>3, <1>5, <2>2
  <2> QED
    BY <1>1, <1>3, <1>4, <1>5, <2>2, <2>3, <2>4
<1>6. CASE k = Len(d) + 1 /\ Len(m) = k /\ m[k] = NewGroup
  <2>1. 1 .. Len(m) = 1 .. Len(d) \cup {k} /\ k \notin 1 .. Len(d)
    BY <1>1, <1>6
  <2>2. NewGroup.match /\ ~NewGroup.source
    BY NewGroupType
  <2>3. \A i \in 1 .. Len(m) : ~m[i].source
    BY <1>2, <1>3, <1>6, <2>1, <2>2
  <2>4. \A i \in 1 .. Len(d) :
          /\ m[i].match = d[i].match
          /\ m[i].handlers = IF i = k THEN Append(Without(d[i].handlers, Owned(harness)), "own")
                             ELSE Without(d[i].handlers, Owned(harness))
    BY <1>2, <1>3, <2>1
  <2> QED
    BY <1>1, <1>3, <1>4, <1>6, <2>1, <2>2, <2>3, <2>4
<1> QED
  BY <1>5, <1>6 DEF MergedTo

\* A merged list is settled.
LEMMA MergedSettled ==
  ASSUME NEW H, "own" \in H, NEW harness, NEW d \in Seq(GroupsOf(H)), NEW m \in Seq(GroupsOf(H)),
         NEW k \in 1 .. Len(d) + 1, MergedTo(harness, d, m, k)
  PROVE  Settled(H, harness, m, k)
<1> DEFINE O == Owned(harness)
<1>0. DOMAIN m = 1 .. Len(m) /\ k \in 1 .. Len(m) /\ m[k].match
  <2>1. DOMAIN m = 1 .. Len(m)
    BY MergedFields
  <2>2. k \in 1 .. Len(m)
    BY MergedFields
  <2>3. m[k].match
    BY MergedFields
  <2> QED
    BY <2>1, <2>2, <2>3
<1>0a. \A i \in 1 .. Len(m) : i \in 1 .. Len(d) \/ i = k
  BY LenProperties DEF MergedTo
<1>0b. \A i \in 1 .. Len(m) : ~m[i].source
  BY MergedFields
<1>0c. k \in 1 .. Len(d) \/ m[k] = NewGroup
  BY MergedFields
<1>1. /\ DOMAIN m = 1 .. Len(m) /\ k \in 1 .. Len(m) /\ m[k].match
      /\ \A i \in 1 .. Len(m) : (i \in 1 .. Len(d) \/ i = k) /\ ~m[i].source
      /\ k \in 1 .. Len(d) \/ m[k] = NewGroup
  BY <1>0, <1>0a, <1>0b, <1>0c
<1>2. \A i \in 1 .. Len(d) :
        /\ d[i] \in GroupsOf(H) /\ Without(d[i].handlers, O) \in Seq(H)
        /\ m[i].handlers = IF i = k THEN Append(Without(d[i].handlers, O), "own") ELSE Without(d[i].handlers, O)
  BY MergedFields
<1>3. \A i \in 1 .. Len(d) :
        /\ Range(Without(d[i].handlers, O)) \cap O = {}
        /\ Without(Without(d[i].handlers, O), O) = Without(d[i].handlers, O)
  <2> TAKE i \in 1 .. Len(d)
  <2>1. d[i].handlers \in Seq(H)
    BY <1>2 DEF GroupsOf
  <2>2. Range(Without(d[i].handlers, O)) \cap O = {}
    BY <2>1, WithoutRange
  <2> HIDE DEF O
  <2> QED
    BY <1>2, <2>2, WithoutNone
<1>4. \A i \in DOMAIN m : ~m[i].source /\ (i # k => Range(m[i].handlers) \cap O = {})
  BY <1>1, <1>2, <1>3
<1>5. \E users \in Seq(H) : users = Without(users, O) /\ m[k].handlers = Append(users, "own")
  <2>1. CASE k \in 1 .. Len(d)
    BY <2>1, <1>2, <1>3
  <2>2. CASE m[k] = NewGroup
    BY <2>2, NewGroupType, WithoutEmpty
  <2> QED
    BY <2>1, <2>2, <1>1
<1> QED
  BY <1>1, <1>4, <1>5 DEF Settled

\* It has the handlers that are not ours.
LEMMA MergedHandlers ==
  ASSUME NEW H, "own" \in H, NEW harness, NEW d \in Seq(GroupsOf(H)), NEW m \in Seq(GroupsOf(H)),
         NEW k \in 1 .. Len(d) + 1, MergedTo(harness, d, m, k)
  PROVE  HandlersOf(d) \ Owned(harness) \subseteq HandlersOf(m)
<1> SUFFICES ASSUME NEW i \in DOMAIN d, NEW h \in Range(d[i].handlers), h \notin Owned(harness)
             PROVE  \E j \in DOMAIN m : h \in Range(m[j].handlers)
  BY DEF HandlersOf
<1>1. i \in 1 .. Len(d) /\ i \in DOMAIN m
  BY MergedFields
<1>2. /\ d[i] \in GroupsOf(H) /\ Without(d[i].handlers, Owned(harness)) \in Seq(H)
      /\ m[i].handlers = IF i = k THEN Append(Without(d[i].handlers, Owned(harness)), "own")
                         ELSE Without(d[i].handlers, Owned(harness))
  BY <1>1, MergedFields
<1>3. Range(Without(d[i].handlers, Owned(harness))) = Range(d[i].handlers) \ Owned(harness)
  BY <1>2, WithoutRange DEF GroupsOf
<1>4. Range(Append(Without(d[i].handlers, Owned(harness)), "own")) = Range(Without(d[i].handlers, Owned(harness))) \cup {"own"}
  BY <1>2, RangeAppend
<1>5. h \in Range(m[i].handlers)
  BY <1>2, <1>3, <1>4
<1> QED
  BY <1>1, <1>5

\* And it looks the same to the user.
LEMMA MergedUsers ==
  ASSUME NEW H, "own" \in H, NEW harness, NEW d \in Seq(GroupsOf(H)), NEW m \in Seq(GroupsOf(H)),
         NEW k \in 1 .. Len(d) + 1, MergedTo(harness, d, m, k)
  PROVE  UserPart(harness, m) = UserPart(harness, d)
<1> DEFINE O == Owned(harness)
<1>1. \A i \in 1 .. Len(d) :
        /\ d[i] \in GroupsOf(H) /\ Without(d[i].handlers, O) \in Seq(H) /\ m[i].match = d[i].match
        /\ m[i].handlers = IF i = k THEN Append(Without(d[i].handlers, O), "own") ELSE Without(d[i].handlers, O)
  BY MergedFields
<1>2. \A i \in 1 .. Len(d) : Tagged(harness, m[i]) = Tagged(harness, d[i])
  <2> TAKE i \in 1 .. Len(d)
  <2>1. PICK l \in Seq(H) : l = Without(d[i].handlers, O)
    BY <1>1
  <2>2. Without(l, O) = l
    <3>1. Range(l) = Range(d[i].handlers) \ O
      BY <1>1, <2>1, WithoutRange DEF GroupsOf
    <3>2. Range(l) \cap O = {}
      BY <3>1
    <3> HIDE DEF O
    <3> QED
      BY <3>2, WithoutNone
  <2>3. Without(Append(l, "own"), O) = l
    <3>1. "own" \in O
      BY RemovableOwned
    <3> HIDE DEF O
    <3> QED
      BY <3>1, <2>2, WithoutAppend
  <2>4. Without(m[i].handlers, O) = Without(d[i].handlers, O)
    BY <1>1, <2>1, <2>2, <2>3
  <2> QED
    BY <1>1, <2>4, TaggedSame
<1>3. \/ k \in 1 .. Len(d) /\ Len(m) = Len(d)
      \/ k = Len(d) + 1 /\ Len(m) = k /\ m[k] = NewGroup
  BY DEF MergedTo
<1>4. CASE Len(m) = Len(d)
  BY <1>2, <1>4, UserPartSame
<1>5. CASE k = Len(d) + 1 /\ Len(m) = k /\ m[k] = NewGroup
  <2>1. m # <<>> /\ Len(d) \in Nat
    BY <1>5, EmptySeq, LenProperties
  <2>2. PICK e \in Seq(GroupsOf(H)), g \in GroupsOf(H) : m = Append(e, g)
    BY <2>1, SequenceEmptyOrAppend
  <2>3. Len(e) = Len(d) /\ g = NewGroup /\ \A i \in 1 .. Len(d) : e[i] = m[i]
    BY <1>5, <2>1, <2>2, AppendProperties, LenProperties
  <2>4. UserPart(harness, e) = UserPart(harness, d)
    BY <1>2, <2>3, UserPartSame
  <2>5. Tagged(harness, NewGroup) = <<>>
    <3>1. Range(NewGroup.handlers) = {"own"}
      <4>1. Range(Append(<<>>, "own")) = Range(<<>>) \cup {"own"}
        BY NewGroupType, RangeAppend
      <4> QED
        BY <4>1, NewGroupType, RangeEmpty
    <3> QED
      BY <3>1, NewGroupType, RemovableOwned, TaggedNone
  <2>6. UserPart(harness, m) = UserPart(harness, e) \o <<>>
    BY <2>2, <2>3, <2>5, UserPartAppend
  <2>7. UserPart(harness, e) \in Seq(BOOLEAN \X H)
    BY UserPartType
  <2> QED
    BY <2>4, <2>6, <2>7, ConcatEmptySeq
<1> QED
  BY <1>3, <1>4, <1>5

\* A settled list is merged already.
LEMMA SettledMerge ==
  ASSUME NEW H, "own" \in H, NEW harness, NEW plain \in BOOLEAN, NEW d \in Seq(GroupsOf(H)), NEW k,
         Settled(H, harness, d, k)
  PROVE  MergeGroups(harness, plain, d) = d
<1> DEFINE O == Owned(harness)
<1>1. PICK m \in Seq(GroupsOf(H)) : m = MergeGroups(harness, plain, d)
  BY MergeGroupsDoes
<1>2. Preferred(harness, plain, d) = k /\ k \in 1 .. Len(d)
  BY PreferredSettled
<1>3. Len(d) \in Nat /\ DOMAIN d = 1 .. Len(d) /\ \A i \in 1 .. Len(d) : d[i] \in GroupsOf(H)
  BY LenProperties, ElementOfSeq
<1>4. MergedTo(harness, d, m, k)
  <2>1. PICK j \in 1 .. Len(d) + 1 :
          /\ MergedTo(harness, d, m, j)
          /\ j = IF Preferred(harness, plain, d) = 0 THEN Len(d) + 1 ELSE Preferred(harness, plain, d)
    BY <1>1, MergeGroupsDoes
  <2>2. j = k
    BY <2>1, <1>2, <1>3
  <2> QED
    BY <2>1, <2>2
<1>5. \A i \in 1 .. Len(d) : ~d[i].source /\ (i # k => Range(d[i].handlers) \cap O = {})
  BY <1>3 DEF Settled
<1>6. PICK users \in Seq(H) : users = Without(users, O) /\ d[k].handlers = Append(users, "own")
  BY DEF Settled
<1>7. \A i \in 1 .. Len(d) : i # k => Stripped(harness, d[i]) = d[i]
  <2> TAKE i \in 1 .. Len(d)
  <2> HAVE i # k
  <2>1. d[i].handlers \in Seq(H) /\ Range(d[i].handlers) \cap Owned(harness) = {} /\ d[i].source = FALSE
    BY <1>3, <1>5 DEF GroupsOf
  <2>2. Without(d[i].handlers, Owned(harness)) = d[i].handlers
    BY <2>1, WithoutNone
  <2>3. [d[i] EXCEPT !.source = FALSE, !.handlers = d[i].handlers] = d[i]
    BY <1>3, <2>1 DEF GroupsOf
  <2> QED
    BY <2>2, <2>3 DEF Stripped
<1>8. [Stripped(harness, d[k]) EXCEPT !.handlers = Append(@, "own")] = d[k]
  <2>1. "own" \in Owned(harness)
    BY RemovableOwned
  <2>2. Without(d[k].handlers, Owned(harness)) = users
    BY <1>6, <2>1, WithoutAppend
  <2>3. PICK g : g = Stripped(harness, d[k])
    OBVIOUS
  <2>4. g = [d[k] EXCEPT !.source = FALSE, !.handlers = users]
    BY <2>2, <2>3 DEF Stripped
  <2>5. PICK l \in Seq(H) : l = d[k].handlers
    BY <1>2, <1>3 DEF GroupsOf
  <2>6. g.handlers = users
    BY <2>4, <1>2, <1>3 DEF GroupsOf
  <2>7. [g EXCEPT !.handlers = l] = d[k]
    BY <2>4, <2>5, <1>2, <1>3, <1>5 DEF GroupsOf
  <2> QED
    BY <2>3, <2>5, <2>6, <2>7, <1>6
<1>9. Len(m) = Len(d) /\ \A i \in 1 .. Len(d) : m[i] = d[i]
  <2>1. Len(m) = Len(d) /\ m[k] = [Stripped(harness, d[k]) EXCEPT !.handlers = Append(@, "own")]
    BY <1>2, <1>3, <1>4 DEF MergedTo
  <2>2. \A i \in 1 .. Len(d) : i # k => m[i] = Stripped(harness, d[i])
    BY <1>4 DEF MergedTo
  <2> QED
    BY <2>1, <2>2, <1>7, <1>8
<1> QED
  BY <1>1, <1>9, SeqEqual

\* It has one canonical handler and nothing else of ours.
LEMMA SettledCanonical ==
  ASSUME NEW H, "own" \in H, NEW harness, NEW d \in Seq(GroupsOf(H)), NEW k, Settled(H, harness, d, k)
  PROVE  k \in DOMAIN d /\ \E n \in DOMAIN d[k].handlers : Canonical(harness, d, k, n)
<1>1. DOMAIN d = 1 .. Len(d) /\ k \in DOMAIN d /\ d[k].match /\ \A i \in 1 .. Len(d) : d[i] \in GroupsOf(H)
  BY LenProperties, ElementOfSeq DEF Settled
<1>2. PICK users \in Seq(H) : users = Without(users, Owned(harness)) /\ d[k].handlers = Append(users, "own")
  BY DEF Settled
<1>3. Range(users) \cap Owned(harness) = {}
  BY <1>2, WithoutRange
<1>4. /\ Len(users) \in Nat /\ DOMAIN users = 1 .. Len(users)
      /\ \A n \in 1 .. Len(users) : users[n] \in Range(users)
  BY LenProperties, RangeEquality
<1>5. PICK l \in Seq(H) : l = d[k].handlers
  BY <1>1 DEF GroupsOf
<1>6. Len(l) = Len(users) + 1 /\ l[Len(users) + 1] = "own" /\ \A n \in 1 .. Len(users) : l[n] = users[n]
  BY <1>2, <1>5, AppendProperties
<1>7. DOMAIN l = 1 .. Len(users) + 1
  BY <1>6, LenProperties
<1> DEFINE n == Len(users) + 1
<1>8. \A m \in DOMAIN l : l[m] \in Owned(harness) => m = n
  <2> TAKE m \in DOMAIN l
  <2>1. m = n \/ m \in 1 .. Len(users)
    BY <1>4, <1>7
  <2>2. m \in 1 .. Len(users) => l[m] \notin Owned(harness)
    BY <1>3, <1>4, <1>6
  <2> QED
    BY <2>1, <2>2
<1>9. \A j \in DOMAIN d : \A m \in DOMAIN d[j].handlers : d[j].handlers[m] \in Owned(harness) => j = k /\ m = n
  <2> SUFFICES ASSUME NEW j \in DOMAIN d, NEW m \in DOMAIN d[j].handlers, d[j].handlers[m] \in Owned(harness)
               PROVE  j = k /\ m = n
    OBVIOUS
  <2>1. d[j].handlers[m] \in Range(d[j].handlers)
    BY DEF Range
  <2>2. j = k
    BY <2>1 DEF Settled
  <2> QED
    BY <2>2, <1>5, <1>8
<1>10. n \in DOMAIN d[k].handlers /\ d[k].handlers[n] = "own"
  BY <1>4, <1>5, <1>6, <1>7
<1>11. Canonical(harness, d, k, n)
  BY <1>1, <1>9, <1>10 DEF Canonical
<1> QED
  BY <1>1, <1>10, <1>11

-----------------------------------------------------------------------------
(* Removing our handlers from the groups of Claude Code and Codex *)

\* What a removal makes of a group that stays.
Cleared(g) == [g EXCEPT !.source = FALSE, !.handlers = Without(@, Removable)]

\* It is a group, and only its source and the removable handlers are gone.
LEMMA ClearedFields ==
  ASSUME NEW H, NEW g \in GroupsOf(H)
  PROVE  /\ Cleared(g) \in GroupsOf(H)
         /\ Cleared(g).match = g.match /\ Cleared(g).extra = g.extra /\ ~Cleared(g).source
         /\ Cleared(g).handlers = Without(g.handlers, Removable)
         /\ Range(Cleared(g).handlers) = Range(g.handlers) \ Removable
         /\ ~Emptied(Cleared(g))
<1>1. PICK l \in Seq(H) : l = Without(g.handlers, Removable)
  BY WithoutType DEF GroupsOf
<1>2. Cleared(g) = [g EXCEPT !.source = FALSE, !.handlers = l]
  BY <1>1 DEF Cleared
<1>3. Range(l) = Range(g.handlers) \ Removable
  BY <1>1, WithoutRange DEF GroupsOf
<1>4. /\ Cleared(g) \in GroupsOf(H)
      /\ Cleared(g).match = g.match /\ Cleared(g).extra = g.extra /\ ~Cleared(g).source
      /\ Cleared(g).handlers = l
  BY <1>2 DEF GroupsOf
<1>5. ~Emptied(Cleared(g))
  BY <1>3, <1>4 DEF Emptied
<1> QED
  BY <1>1, <1>3, <1>4, <1>5

\* A list after a removal: of the list, kept, that is left when the emptied groups are gone,
\* each group is cleared.
RemovedTo(d, r, kept) ==
  /\ kept = Without(d, {g \in Range(d) : Emptied(g)})
  /\ Len(r) = Len(kept) /\ \A i \in 1 .. Len(kept) : r[i] = Cleared(kept[i])

\* What a removal does to a list of groups.
LEMMA RemoveGroupsDoes ==
  ASSUME NEW H, NEW d \in Seq(GroupsOf(H))
  PROVE  /\ RemoveGroups(d) \in Seq(GroupsOf(H))
         /\ \E kept \in Seq(GroupsOf(H)) : RemovedTo(d, RemoveGroups(d), kept)
<1>1. PICK kept \in Seq(GroupsOf(H)) : kept = Without(d, {g \in Range(d) : Emptied(g)})
  BY WithoutType
<1>2. Len(kept) \in Nat /\ DOMAIN kept = 1 .. Len(kept) /\ \A i \in 1 .. Len(kept) : kept[i] \in GroupsOf(H)
  BY LenProperties, ElementOfSeq
<1>3. PICK r : r = [i \in DOMAIN kept |-> Cleared(kept[i])]
  OBVIOUS
<1>4. \A i \in 1 .. Len(kept) : Cleared(kept[i]) \in GroupsOf(H)
  BY <1>2, ClearedFields
<1>5. r \in [1 .. Len(kept) -> GroupsOf(H)]
  BY <1>2, <1>3, <1>4
<1>6. r \in Seq(GroupsOf(H)) /\ Len(r) = Len(kept) /\ \A i \in 1 .. Len(kept) : r[i] = Cleared(kept[i])
  BY <1>2, <1>3, <1>5, ListOfFunction
<1>7. RemoveGroups(d) = r
  BY <1>1, <1>3 DEF RemoveGroups, Cleared
<1>8. RemovedTo(d, r, kept)
  BY <1>1, <1>6 DEF RemovedTo
<1> QED
  BY <1>6, <1>7, <1>8

\* Nothing removable is left, and nothing else is lost.
LEMMA RemoveGroupsHandlers ==
  ASSUME NEW H, NEW d \in Seq(GroupsOf(H))
  PROVE  HandlersOf(RemoveGroups(d)) = HandlersOf(d) \ Removable
<1>1. PICK r \in Seq(GroupsOf(H)) : r = RemoveGroups(d)
  BY RemoveGroupsDoes
<1>2a. PICK kept \in Seq(GroupsOf(H)) : RemovedTo(d, r, kept)
  BY <1>1, RemoveGroupsDoes
<1>2. /\ kept = Without(d, {g \in Range(d) : Emptied(g)})
      /\ Len(r) = Len(kept) /\ \A i \in 1 .. Len(kept) : r[i] = Cleared(kept[i])
  BY <1>2a DEF RemovedTo
<1>3. /\ DOMAIN d = 1 .. Len(d) /\ DOMAIN kept = 1 .. Len(kept) /\ DOMAIN r = 1 .. Len(kept)
      /\ \A i \in 1 .. Len(kept) : kept[i] \in GroupsOf(H)
  BY <1>2, LenProperties, ElementOfSeq
<1>4. Range(kept) = {g \in Range(d) : ~Emptied(g)}
  <2>1. Range(kept) = Range(d) \ {g \in Range(d) : Emptied(g)}
    BY <1>2, WithoutRange
  <2> QED
    BY <2>1
<1>5. \A i \in 1 .. Len(kept) : Range(r[i].handlers) = Range(kept[i].handlers) \ Removable
  <2> TAKE i \in 1 .. Len(kept)
  <2>1. Range(Cleared(kept[i]).handlers) = Range(kept[i].handlers) \ Removable
    BY <1>3, ClearedFields
  <2> QED
    BY <2>1, <1>2
<1>6. ASSUME NEW i \in DOMAIN d, NEW h \in Range(d[i].handlers), h \notin Removable
      PROVE  h \in HandlersOf(r)
  <2>1. d[i] \in Range(d) /\ ~Emptied(d[i])
    BY <1>6 DEF Range, Emptied
  <2>2. PICK j \in DOMAIN kept : kept[j] = d[i]
    BY <2>1, <1>4 DEF Range
  <2>3. h \in Range(r[j].handlers)
    BY <2>2, <1>3, <1>5, <1>6
  <2> QED
    BY <2>2, <2>3, <1>3 DEF HandlersOf
<1>7. ASSUME NEW i \in DOMAIN r, NEW h \in Range(r[i].handlers)
      PROVE  h \in HandlersOf(d) /\ h \notin Removable
  <2>1. h \in Range(kept[i].handlers) /\ h \notin Removable
    BY <1>3, <1>5, <1>7
  <2>2. kept[i] \in Range(d)
    BY <1>3, <1>4 DEF Range
  <2>3. PICK j \in DOMAIN d : d[j] = kept[i]
    BY <2>2 DEF Range
  <2> QED
    BY <2>1, <2>3 DEF HandlersOf
<1>8. HandlersOf(d) \ Removable \subseteq HandlersOf(r)
  BY <1>6 DEF HandlersOf
<1>9. HandlersOf(r) \subseteq HandlersOf(d) \ Removable
  BY <1>7 DEF HandlersOf
<1> QED
  BY <1>1, <1>8, <1>9

\* A second removal changes nothing.
LEMMA RemoveGroupsTwice ==
  ASSUME NEW H, NEW d \in Seq(GroupsOf(H))
  PROVE  RemoveGroups(RemoveGroups(d)) = RemoveGroups(d)
<1>1. PICK r \in Seq(GroupsOf(H)) : r = RemoveGroups(d)
  BY RemoveGroupsDoes
<1>2a. PICK old \in Seq(GroupsOf(H)) : RemovedTo(d, r, old)
  BY <1>1, RemoveGroupsDoes
<1>2. Len(r) = Len(old) /\ \A i \in 1 .. Len(old) : r[i] = Cleared(old[i])
  BY <1>2a DEF RemovedTo
<1>3. DOMAIN r = 1 .. Len(r) /\ \A i \in 1 .. Len(r) : old[i] \in GroupsOf(H) /\ r[i] \in GroupsOf(H)
  BY <1>2, LenProperties, ElementOfSeq
<1>4. \A i \in 1 .. Len(r) : ~Emptied(r[i]) /\ ~r[i].source /\ Range(r[i].handlers) \cap Removable = {}
  <2> TAKE i \in 1 .. Len(r)
  <2>1. r[i] = Cleared(old[i]) /\ old[i] \in GroupsOf(H)
    BY <1>2, <1>3
  <2> QED
    BY <2>1, ClearedFields
<1>5. {g \in Range(r) : Emptied(g)} = {}
  BY <1>3, <1>4 DEF Range
<1>6. PICK s \in Seq(GroupsOf(H)) : s = RemoveGroups(r)
  BY RemoveGroupsDoes
<1>7a. PICK kept \in Seq(GroupsOf(H)) : RemovedTo(r, s, kept)
  BY <1>6, RemoveGroupsDoes
<1>7. /\ kept = Without(r, {g \in Range(r) : Emptied(g)})
      /\ Len(s) = Len(kept) /\ \A i \in 1 .. Len(kept) : s[i] = Cleared(kept[i])
  BY <1>7a DEF RemovedTo
<1>8. kept = r
  <2>1. Without(r, {}) = r
    BY WithoutNone
  <2> QED
    BY <2>1, <1>5, <1>7
<1>9. \A i \in 1 .. Len(r) : Cleared(r[i]) = r[i]
  <2> TAKE i \in 1 .. Len(r)
  <2>1. r[i].handlers \in Seq(H) /\ r[i].source = FALSE
    BY <1>3, <1>4 DEF GroupsOf
  <2>2. Without(r[i].handlers, Removable) = r[i].handlers
    BY <2>1, <1>4, WithoutNone
  <2>3. [r[i] EXCEPT !.source = FALSE, !.handlers = r[i].handlers] = r[i]
    BY <2>1, <1>3 DEF GroupsOf
  <2> QED
    BY <2>2, <2>3 DEF Cleared
<1>10. s = r
  BY <1>7, <1>8, <1>9, SeqEqual
<1> QED
  BY <1>1, <1>6, <1>10

\* The user sees the same list.
LEMMA RemoveGroupsUsers ==
  ASSUME NEW H, NEW harness, NEW d \in Seq(GroupsOf(H))
  PROVE  UserPart(harness, RemoveGroups(d)) = UserPart(harness, d)
<1>1. PICK r \in Seq(GroupsOf(H)) : r = RemoveGroups(d)
  BY RemoveGroupsDoes
<1>2a. PICK kept \in Seq(GroupsOf(H)) : RemovedTo(d, r, kept)
  BY <1>1, RemoveGroupsDoes
<1>2. /\ kept = Without(d, {g \in Range(d) : Emptied(g)})
      /\ Len(r) = Len(kept) /\ \A i \in 1 .. Len(kept) : r[i] = Cleared(kept[i])
  BY <1>2a DEF RemovedTo
<1>3. \A i \in 1 .. Len(kept) : kept[i] \in GroupsOf(H)
  BY ElementOfSeq
<1>4. \A i \in 1 .. Len(kept) : Tagged(harness, kept[i]) = Tagged(harness, r[i])
  <2> TAKE i \in 1 .. Len(kept)
  <2>1. r[i] = Cleared(kept[i]) /\ kept[i].handlers \in Seq(H)
    BY <1>2, <1>3 DEF GroupsOf
  <2>2. r[i].match = kept[i].match /\ r[i].handlers = Without(kept[i].handlers, Removable)
    BY <2>1, <1>3, ClearedFields
  <2>3. Without(Without(kept[i].handlers, Removable), Owned(harness)) = Without(kept[i].handlers, Removable \cup Owned(harness))
    BY <2>1, WithoutTwice
  <2>4. Removable \cup Owned(harness) = Owned(harness)
    BY RemovableOwned
  <2> QED
    BY <2>2, <2>3, <2>4, TaggedSame
<1>5. UserPart(harness, kept) = UserPart(harness, r)
  BY <1>2, <1>4, UserPartSame
<1>6. \A g \in {g \in Range(d) : Emptied(g)} : Tagged(harness, g) = <<>>
  <2> TAKE g \in {e \in Range(d) : Emptied(e)}
  <2>1. g \in GroupsOf(H)
    BY RangeOfSeq
  <2>2. Range(g.handlers) \subseteq Owned(harness)
    BY RemovableOwned DEF Emptied
  <2> QED
    BY <2>1, <2>2, TaggedNone
<1>7. UserPart(harness, kept) = UserPart(harness, d)
  <2>1. PICK drop : drop = {g \in Range(d) : Emptied(g)}
    OBVIOUS
  <2>2. UserPart(harness, Without(d, drop)) = UserPart(harness, d)
    BY <1>6, <2>1, UserPartWithout
  <2> QED
    BY <2>1, <2>2, <1>2
<1> QED
  BY <1>1, <1>5, <1>7

-----------------------------------------------------------------------------
(* The entries of Cursor *)

\* A list is what comes before its n-th element, the element and what comes after it.
LEMMA SplitAt ==
  ASSUME NEW H, NEW e \in Seq(H), NEW n \in 1 .. Len(e)
  PROVE  /\ SubSeq(e, 1, n - 1) \in Seq(H) /\ SubSeq(e, n + 1, Len(e)) \in Seq(H)
         /\ Range(SubSeq(e, 1, n - 1)) = {e[i] : i \in 1 .. n - 1}
         /\ e = Append(SubSeq(e, 1, n - 1), e[n]) \o SubSeq(e, n + 1, Len(e))
<1>1. Len(e) \in Nat /\ \A i \in 1 .. Len(e) : e[i] \in H
  BY LenProperties, ElementOfSeq
<1>2. n - 1 \in Int /\ n + 1 \in Int /\ Len(e) \in Int /\ 1 \in Int
  BY <1>1
<1>3. \A i \in 1 .. n - 1 : e[i] \in H
  BY <1>1
<1>4. \A i \in n + 1 .. Len(e) : e[i] \in H
  BY <1>1
<1>5. PICK a : a = SubSeq(e, 1, n - 1)
  OBVIOUS
<1>6. PICK c : c = SubSeq(e, n + 1, Len(e))
  OBVIOUS
<1>7. a \in Seq(H) /\ Len(a) = n - 1 /\ \A i \in 1 .. n - 1 : a[i] = e[i]
  <2>1. /\ SubSeq(e, 1, n - 1) \in Seq(H)
        /\ Len(SubSeq(e, 1, n - 1)) = IF 1 <= n - 1 THEN (n - 1) - 1 + 1 ELSE 0
        /\ \A i \in 1 .. (n - 1) - 1 + 1 : SubSeq(e, 1, n - 1)[i] = e[1 + i - 1]
    BY <1>2, <1>3, SubSeqProperties
  <2> QED
    BY <2>1, <1>1, <1>5
<1>8. c \in Seq(H) /\ Len(c) = Len(e) - n /\ \A i \in 1 .. Len(e) - n : c[i] = e[n + i]
  <2>1. /\ SubSeq(e, n + 1, Len(e)) \in Seq(H)
        /\ Len(SubSeq(e, n + 1, Len(e))) = IF n + 1 <= Len(e) THEN Len(e) - (n + 1) + 1 ELSE 0
        /\ \A i \in 1 .. Len(e) - (n + 1) + 1 : SubSeq(e, n + 1, Len(e))[i] = e[(n + 1) + i - 1]
    BY <1>2, <1>4, SubSeqProperties
  <2> QED
    BY <2>1, <1>1, <1>6
<1>9. Range(a) = {e[i] : i \in 1 .. n - 1}
  <2>1. Range(a) = {a[i] : i \in 1 .. Len(a)}
    BY <1>7, RangeEquality
  <2> QED
    BY <1>7, <2>1
<1>10. PICK b : b = Append(a, e[n])
  OBVIOUS
<1>11. b \in Seq(H) /\ Len(b) = n /\ b[n] = e[n] /\ \A i \in 1 .. n - 1 : b[i] = e[i]
  <2>1. b \in Seq(H) /\ Len(b) = Len(a) + 1 /\ b[Len(a) + 1] = e[n] /\ \A i \in 1 .. Len(a) : b[i] = a[i]
    BY <1>1, <1>7, <1>10, AppendProperties
  <2> QED
    BY <2>1, <1>7
<1>12. PICK w : w = b \o c
  OBVIOUS
<1>13. w \in Seq(H) /\ Len(w) = Len(b) + Len(c)
       /\ \A i \in 1 .. Len(b) + Len(c) : w[i] = IF i <= Len(b) THEN b[i] ELSE c[i - Len(b)]
  <2>1. b \in Seq(H) /\ c \in Seq(H)
    BY <1>8, <1>11
  <2>2. /\ b \o c \in Seq(H) /\ Len(b \o c) = Len(b) + Len(c)
        /\ \A i \in 1 .. Len(b) + Len(c) : (b \o c)[i] = IF i <= Len(b) THEN b[i] ELSE c[i - Len(b)]
    BY <2>1, ConcatProperties, Zenon
  <2> QED
    BY <1>12, <2>2, Zenon
<1>14. Len(w) = Len(e)
  BY <1>1, <1>8, <1>11, <1>13
<1>15. \A i \in 1 .. Len(e) : w[i] = e[i]
  <2> TAKE i \in 1 .. Len(e)
  <2>1. CASE i <= n
    BY <2>1, <1>1, <1>8, <1>11, <1>13
  <2>2. CASE ~(i <= n)
    <3>1. w[i] = c[i - n] /\ i - n \in 1 .. Len(e) - n /\ n + (i - n) = i
      BY <2>2, <1>1, <1>8, <1>11, <1>13
    <3> QED
      BY <3>1, <1>8
  <2> QED
    BY <2>1, <2>2
<1>16. w = e
  BY <1>13, <1>14, <1>15, SeqEqual
<1> QED
  BY <1>5, <1>6, <1>7, <1>8, <1>9, <1>10, <1>12, <1>16

\* The same from the parts.
LEMMA SplitBack ==
  ASSUME NEW H, NEW a \in Seq(H), NEW c \in Seq(H), NEW x \in H, NEW e, e = Append(a, x) \o c
  PROVE  /\ e \in Seq(H) /\ Len(e) = Len(a) + 1 + Len(c) /\ e[Len(a) + 1] = x
         /\ \A i \in 1 .. Len(a) : e[i] = a[i]
         /\ \A i \in 1 .. Len(c) : e[Len(a) + 1 + i] = c[i]
         /\ Range(e) = Range(a) \cup {x} \cup Range(c)
         /\ SubSeq(e, 1, Len(a)) = a /\ SubSeq(e, Len(a) + 2, Len(e)) = c
<1>1. PICK b : b = Append(a, x)
  OBVIOUS
<1>2. b \in Seq(H) /\ Len(b) = Len(a) + 1 /\ b[Len(a) + 1] = x /\ (\A i \in 1 .. Len(a) : b[i] = a[i]) /\ Len(a) \in Nat /\ Len(c) \in Nat
  BY <1>1, AppendProperties, LenProperties
<1>3. /\ e \in Seq(H) /\ Len(e) = Len(b) + Len(c)
      /\ \A i \in 1 .. Len(b) + Len(c) : e[i] = IF i <= Len(b) THEN b[i] ELSE c[i - Len(b)]
  <2>1. PICK w : w = b \o c
    OBVIOUS
  <2>2. /\ w \in Seq(H) /\ Len(w) = Len(b) + Len(c)
        /\ \A i \in 1 .. Len(b) + Len(c) : w[i] = IF i <= Len(b) THEN b[i] ELSE c[i - Len(b)]
    <3>1. b \in Seq(H)
      BY <1>2
    <3>2. /\ b \o c \in Seq(H) /\ Len(b \o c) = Len(b) + Len(c)
          /\ \A i \in 1 .. Len(b) + Len(c) : (b \o c)[i] = IF i <= Len(b) THEN b[i] ELSE c[i - Len(b)]
      BY <3>1, ConcatProperties
    <3> QED
      BY <3>2, <2>1
  <2>3. e = w
    BY <2>1, <1>1
  <2> QED
    BY <2>2, <2>3
<1>4. \A i \in 1 .. Len(e) : e[i] \in H
  BY <1>3, ElementOfSeq
<1>5. Len(e) = Len(a) + 1 + Len(c) /\ e[Len(a) + 1] = x
  BY <1>2, <1>3
<1>6. \A i \in 1 .. Len(a) : e[i] = a[i]
  BY <1>2, <1>3
<1>7. \A i \in 1 .. Len(c) : e[Len(a) + 1 + i] = c[i]
  <2> TAKE i \in 1 .. Len(c)
  <2>1. Len(a) + 1 + i \in 1 .. Len(b) + Len(c) /\ ~(Len(a) + 1 + i <= Len(b)) /\ (Len(a) + 1 + i) - Len(b) = i
    BY <1>2
  <2> QED
    BY <2>1, <1>3
<1>8. Range(e) = Range(a) \cup {x} \cup Range(c)
  <2>1. Range(b) = Range(a) \cup {x}
    BY <1>1, RangeAppend
  <2>2. Range(b \o c) = Range(b) \cup Range(c)
    BY <1>2, RangeConcatenation
  <2> QED
    BY <2>1, <2>2, <1>1
<1>9. SubSeq(e, 1, Len(a)) = a
  <2>1. 1 \in Int /\ Len(a) \in Int /\ \A i \in 1 .. Len(a) : e[i] \in H
    BY <1>2, <1>4, <1>5
  <2>2. PICK s : s = SubSeq(e, 1, Len(a))
    OBVIOUS
  <2>3. /\ SubSeq(e, 1, Len(a)) \in Seq(H)
        /\ Len(SubSeq(e, 1, Len(a))) = IF 1 <= Len(a) THEN Len(a) - 1 + 1 ELSE 0
        /\ \A i \in 1 .. Len(a) - 1 + 1 : SubSeq(e, 1, Len(a))[i] = e[1 + i - 1]
    BY <2>1, SubSeqProperties
  <2>4. s \in Seq(H) /\ Len(s) = Len(a) /\ \A i \in 1 .. Len(a) : s[i] = a[i]
    BY <2>2, <2>3, <1>2, <1>6
  <2> QED
    BY <2>2, <2>4, SeqEqual
<1>10. SubSeq(e, Len(a) + 2, Len(e)) = c
  <2>1. Len(a) + 2 \in Int /\ Len(e) \in Int /\ \A i \in Len(a) + 2 .. Len(e) : e[i] \in H
    BY <1>2, <1>4, <1>5
  <2>2. PICK s : s = SubSeq(e, Len(a) + 2, Len(e))
    OBVIOUS
  <2>3. /\ SubSeq(e, Len(a) + 2, Len(e)) \in Seq(H)
        /\ Len(SubSeq(e, Len(a) + 2, Len(e))) = IF Len(a) + 2 <= Len(e) THEN Len(e) - (Len(a) + 2) + 1 ELSE 0
        /\ \A i \in 1 .. Len(e) - (Len(a) + 2) + 1 : SubSeq(e, Len(a) + 2, Len(e))[i] = e[(Len(a) + 2) + i - 1]
    BY <2>1, SubSeqProperties
  <2>4. s \in Seq(H) /\ Len(s) = Len(c) /\ \A i \in 1 .. Len(c) : s[i] = e[Len(a) + 1 + i]
    BY <2>2, <2>3, <1>2, <1>5
  <2> QED
    BY <2>2, <2>4, <1>7, SeqEqual
<1> QED
  BY <1>3, <1>5, <1>6, <1>7, <1>8, <1>9, <1>10

\* The entries are a list of handlers.
LEMMA FlatEntries ==
  ASSUME NEW H, NEW d \in Seq(GroupsOf(H)), Flat(d)
  PROVE  d[1].handlers \in Seq(H)
<1>1. 1 \in 1 .. Len(d)
  BY DEF Flat
<1>2. d[1] \in GroupsOf(H)
  BY <1>1, ElementOfSeq
<1> QED
  BY <1>2 DEF GroupsOf

\* The file m is Cursor's list d with the entries l.
FlatTo(H, d, l, m) ==
  /\ m \in Seq(GroupsOf(H)) /\ Flat(m) /\ DOMAIN d = {1} /\ DOMAIN m = {1}
  /\ m[1].handlers = l /\ m[1].match = d[1].match
  /\ d[1].handlers \in Seq(H) /\ HandlersOf(d) = Range(d[1].handlers) /\ HandlersOf(m) = Range(l)
  /\ (l = d[1].handlers => m = d)

\* Cursor's list with other entries.
LEMMA FlatWith ==
  ASSUME NEW H, NEW d \in Seq(GroupsOf(H)), Flat(d), NEW l \in Seq(H)
  PROVE  FlatTo(H, d, l, [d EXCEPT ![1].handlers = l])
<1> DEFINE m == [d EXCEPT ![1].handlers = l]
<1>1. Len(d) = 1 /\ DOMAIN d = {1} /\ d[1] \in GroupsOf(H) /\ d[1].handlers \in Seq(H)
  <2>1. DOMAIN d = 1 .. Len(d) /\ \A i \in 1 .. Len(d) : d[i] \in GroupsOf(H)
    BY LenProperties, ElementOfSeq
  <2>2. Len(d) = 1
    BY DEF Flat
  <2> QED
    BY <2>1, <2>2 DEF GroupsOf
<1>2. PICK g \in GroupsOf(H) : g = [d[1] EXCEPT !.handlers = l]
  BY <1>1 DEF GroupsOf
<1>3. g.handlers = l /\ g.match = d[1].match /\ g.source = d[1].source /\ g.extra = d[1].extra
  BY <1>1, <1>2 DEF GroupsOf
<1>4. m = [d EXCEPT ![1] = g]
  BY <1>1, <1>2
<1>5. m \in Seq(GroupsOf(H)) /\ Len(m) = 1 /\ m[1] = g
  <2>1. 1 \in 1 .. Len(d)
    BY <1>1
  <2>2. /\ [d EXCEPT ![1] = g] \in Seq(GroupsOf(H)) /\ Len([d EXCEPT ![1] = g]) = Len(d)
        /\ \A j \in 1 .. Len(d) : [d EXCEPT ![1] = g][j] = IF j = 1 THEN g ELSE d[j]
    BY <2>1, ExceptSeq
  <2> QED
    BY <2>1, <2>2, <1>1, <1>4
<1>6. DOMAIN m = {1}
  BY <1>1, <1>4
<1>7. Flat(m)
  BY <1>3, <1>5 DEF Flat
<1>8. HandlersOf(d) = Range(d[1].handlers) /\ HandlersOf(m) = Range(l)
  BY <1>1, <1>3, <1>5, <1>6 DEF HandlersOf
<1>9. l = d[1].handlers => m = d
  <2> SUFFICES ASSUME l = d[1].handlers PROVE m = d
    OBVIOUS
  <2>1. g = d[1]
    BY <1>1, <1>2 DEF GroupsOf
  <2> QED
    BY <2>1, <1>1, <1>4
<1> QED
  BY <1>1, <1>3, <1>5, <1>6, <1>7, <1>8, <1>9 DEF FlatTo

\* The canonical entry between the user's.
OneOwned(H, e, a, c) ==
  /\ a \in Seq(H) /\ c \in Seq(H) /\ e = Append(a, "own") \o c
  /\ Range(a) \cap Owned("cursor") = {} /\ Range(c) \cap Owned("cursor") = {}

\* The list of entries that MergeEntries makes.
MergedEntries(entries) ==
  LET owned == {i \in DOMAIN entries : entries[i] \in Owned("cursor")}
      first == Min(owned)
  IN  IF owned = {} THEN Append(entries, "own")
      ELSE Append(SubSeq(entries, 1, first - 1), "own")
             \o Without(SubSeq(entries, first + 1, Len(entries)), Owned("cursor"))

\* The least of the owned positions has none before it.
LEMMA MinBelow ==
  ASSUME NEW S \in SUBSET Nat, S # {}
  PROVE  \A y \in S : Min(S) <= y
<1> DEFINE L == {n \in Nat : \A y \in S : n <= y}
<1>1. \E x \in S : \A y \in S : x <= y
  <2> SUFFICES ASSUME \A x \in S : \E y \in S : ~ (x <= y) PROVE FALSE
    OBVIOUS
  <2>1. 0 \in L
    OBVIOUS
  <2>2. ASSUME NEW n \in Nat, n \in L PROVE n + 1 \in L
    <3>1. n \notin S
      BY <2>2
    <3> QED
      BY <3>1, <2>2
  <2>3. \A n \in Nat : n \in L
    <3> HIDE DEF L
    <3> QED
      BY <2>1, <2>2, NatSetInduction
  <2>4. PICK y \in S : TRUE
    OBVIOUS
  <2>5. y + 1 \in L
    BY <2>3, <2>4
  <2> QED
    BY <2>4, <2>5
<1> QED
  BY <1>1, Zenon DEF Min

\* What a merge does to the entries: the canonical one is among the user's, which stay.
LEMMA MergedEntriesDo ==
  ASSUME NEW H, "own" \in H, NEW e \in Seq(H)
  PROVE  \E a, c : /\ OneOwned(H, MergedEntries(e), a, c)
                   /\ Without(e, Owned("cursor")) = a \o c
<1> DEFINE O == Owned("cursor")
           owned == {i \in DOMAIN e : e[i] \in O}
<1>1. DOMAIN e = 1 .. Len(e) /\ Len(e) \in Nat /\ \A i \in 1 .. Len(e) : e[i] \in H
  BY LenProperties, ElementOfSeq
<1>2. CASE owned = {}
  <2>1. MergedEntries(e) = Append(e, "own")
    BY <1>2 DEF MergedEntries
  <2>2. Append(e, "own") \o <<>> = Append(e, "own") /\ e \o <<>> = e /\ <<>> \in Seq(H) /\ Range(<<>>) = {}
    BY AppendProperties, ConcatEmptySeq, EmptySeq, RangeEmpty
  <2>3. Range(e) \cap O = {}
    BY <1>2, <1>1 DEF Range
  <2>4. Without(e, O) = e
    <3> HIDE DEF O
    <3> QED
      BY <2>3, WithoutNone
  <2>5. OneOwned(H, MergedEntries(e), e, <<>>)
    BY <2>1, <2>2, <2>3 DEF OneOwned
  <2> QED
    BY <2>2, <2>4, <2>5
<1>3. CASE owned # {}
  <2>1. PICK n : n = Min(owned)
    OBVIOUS
  <2>2. owned \in SUBSET Nat
    BY <1>1
  <2>3. n \in owned /\ \A y \in owned : n <= y
    <3> HIDE DEF owned
    <3> QED
      BY <1>3, <2>1, <2>2, MinOfNumbers, MinBelow
  <2>4. n \in 1 .. Len(e) /\ e[n] \in O
    BY <2>3, <1>1
  <2>5. PICK a : a = SubSeq(e, 1, n - 1)
    OBVIOUS
  <2>6. PICK b : b = SubSeq(e, n + 1, Len(e))
    OBVIOUS
  <2>7. a \in Seq(H) /\ b \in Seq(H) /\ Range(a) = {e[i] : i \in 1 .. n - 1} /\ e = Append(a, e[n]) \o b
    <3>1. n \in 1 .. Len(e)
      BY <2>4
    <3>2. /\ SubSeq(e, 1, n - 1) \in Seq(H) /\ SubSeq(e, n + 1, Len(e)) \in Seq(H)
          /\ Range(SubSeq(e, 1, n - 1)) = {e[i] : i \in 1 .. n - 1}
          /\ e = Append(SubSeq(e, 1, n - 1), e[n]) \o SubSeq(e, n + 1, Len(e))
      BY <3>1, SplitAt
    <3> QED
      BY <3>2, <2>5, <2>6
  <2>8. Range(a) \cap O = {}
    <3> SUFFICES ASSUME NEW i \in 1 .. n - 1, e[i] \in O PROVE FALSE
      BY <2>7
    <3>1. i \in owned /\ ~(n <= i)
      BY <1>1, <2>4
    <3> QED
      BY <3>1, <2>3
  <2>9. PICK c \in Seq(H) : c = Without(b, O) /\ Range(c) = Range(b) \ O
    BY <2>7, WithoutType, WithoutRange
  <2>10. MergedEntries(e) = Append(a, "own") \o c
    BY <1>3, <2>1, <2>5, <2>6, <2>9 DEF MergedEntries
  <2>11. OneOwned(H, MergedEntries(e), a, c)
    BY <2>7, <2>8, <2>9, <2>10 DEF OneOwned
  <2>12. Without(e, O) = a \o c
    <3>1. PICK f \in Seq(H) : f = Append(a, e[n])
      BY <1>1, <2>4, <2>7, AppendProperties
    <3>2. Without(f \o b, O) = Without(f, O) \o Without(b, O)
      <4>1. b \in Seq(H)
        BY <2>7
      <4> HIDE DEF O
      <4> QED
        BY <4>1, WithoutConcat, SMTT(20)
    <3>3. Without(f, O) = Without(a, O)
      BY <1>1, <2>4, <2>7, <3>1, WithoutAppend
    <3>4. Without(a, O) = a
      <4> HIDE DEF O
      <4> QED
        BY <2>7, <2>8, WithoutNone
    <3> QED
      BY <3>1, <3>2, <3>3, <3>4, <2>7, <2>9
  <2> QED
    BY <2>11, <2>12
<1> QED
  BY <1>2, <1>3

\* A list with one owned entry, the canonical one, stays as it is.
LEMMA OneOwnedStays ==
  ASSUME NEW H, "own" \in H, NEW e, NEW a, NEW c, OneOwned(H, e, a, c)
  PROVE  /\ MergedEntries(e) = e
         /\ Without(e, Owned("cursor")) = a \o c
         /\ e \in Seq(H) /\ Len(a) + 1 \in DOMAIN e /\ e[Len(a) + 1] = "own"
         /\ \A n \in DOMAIN e : e[n] \in Owned("cursor") => n = Len(a) + 1
<1> DEFINE O == Owned("cursor")
           owned == {i \in DOMAIN e : e[i] \in O}
           k == Len(a) + 1
<1>1. a \in Seq(H) /\ c \in Seq(H) /\ e = Append(a, "own") \o c /\ Range(a) \cap O = {} /\ Range(c) \cap O = {}
  BY DEF OneOwned
<1>2. /\ e \in Seq(H) /\ Len(e) = Len(a) + 1 + Len(c) /\ e[Len(a) + 1] = "own"
      /\ \A i \in 1 .. Len(a) : e[i] = a[i]
      /\ \A i \in 1 .. Len(c) : e[Len(a) + 1 + i] = c[i]
      /\ SubSeq(e, 1, Len(a)) = a /\ SubSeq(e, Len(a) + 2, Len(e)) = c
  BY <1>1, SplitBack
<1>3. /\ Len(a) \in Nat /\ Len(c) \in Nat /\ DOMAIN e = 1 .. Len(e)
      /\ Range(a) = {a[i] : i \in 1 .. Len(a)} /\ Range(c) = {c[i] : i \in 1 .. Len(c)}
  BY <1>1, <1>2, LenProperties, RangeEquality
<1>4. "own" \in O
  BY RemovableOwned
<1>5. k \in DOMAIN e
  BY <1>2, <1>3
<1>6. \A n \in DOMAIN e : e[n] \in O => n = k
  <2> TAKE n \in DOMAIN e
  <2>1. CASE n \in 1 .. Len(a)
    <3>1. e[n] \in Range(a)
      BY <2>1, <1>2, <1>3
    <3> QED
      BY <3>1, <1>1
  <2>2. CASE n = k
    BY <2>2
  <2>3. CASE n > k
    <3>1. n - k \in 1 .. Len(c) /\ Len(a) + 1 + (n - k) = n
      BY <2>3, <1>2, <1>3
    <3>2. e[n] = c[n - k]
      BY <3>1, <1>2
    <3>3. e[n] \in Range(c)
      BY <3>1, <3>2, <1>3
    <3> QED
      BY <3>3, <1>1
  <2>4. n \in 1 .. Len(a) \/ n = k \/ n > k
    <3>1. n \in Nat /\ n > 0
      BY <1>3
    <3> QED
      BY <3>1, <1>3
  <2> QED
    BY <2>1, <2>2, <2>3, <2>4
<1>7. owned = {k}
  BY <1>2, <1>4, <1>5, <1>6
<1>8. Min(owned) = k
  <2>1. {k} \in SUBSET Nat /\ {k} # {}
    BY <1>3
  <2>2. Min({k}) \in {k}
    BY <2>1, MinOfNumbers
  <2> QED
    BY <2>2, <1>7
<1>9. Without(c, O) = c /\ Without(a, O) = a
  <2> HIDE DEF O
  <2> QED
    BY <1>1, WithoutNone
<1>10. k - 1 = Len(a) /\ k + 1 = Len(a) + 2
  BY <1>3
<1>11. MergedEntries(e) = Append(SubSeq(e, 1, k - 1), "own") \o Without(SubSeq(e, k + 1, Len(e)), O)
  BY <1>7, <1>8 DEF MergedEntries
<1>12. MergedEntries(e) = e
  BY <1>1, <1>2, <1>9, <1>10, <1>11
<1>13. Without(e, O) = a \o c
  <2>1. PICK f \in Seq(H) : f = Append(a, "own")
    BY <1>1, AppendProperties
  <2>2. Without(f \o c, O) = Without(f, O) \o Without(c, O)
    BY <1>1, WithoutConcat
  <2>3. Without(f, O) = Without(a, O)
    BY <1>1, <1>4, <2>1, WithoutAppend
  <2> QED
    BY <2>1, <2>2, <2>3, <1>1, <1>9
<1> QED
  BY <1>2, <1>5, <1>6, <1>12, <1>13

-----------------------------------------------------------------------------
(* What a command makes of the file, whichever the harness *)

\* A merge of a file of any length leaves a file in which exactly one handler is ours, the
\* canonical one in a group with the wanted matcher, and which the next merge leaves alone; every
\* handler of the user's is kept, and in the order and under the matcher it had.
THEOREM MergeDoes ==
  ASSUME NEW H, "own" \in H, NEW harness, NEW plain \in BOOLEAN, NEW d, FileOf(H, harness, d)
  PROVE  LET m == Merge(harness, plain, d) IN
         /\ FileOf(H, harness, m)
         /\ Merge(harness, plain, m) = m
         /\ \E k \in DOMAIN m : \E n \in DOMAIN m[k].handlers : Canonical(harness, m, k, n)
         /\ HandlersOf(d) \ Owned(harness) \subseteq HandlersOf(m)
         /\ UserPart(harness, m) = UserPart(harness, d)
<1> USE DEF FileOf
<1>1. CASE harness # "cursor"
  <2>1. PICK m \in Seq(GroupsOf(H)) : m = MergeGroups(harness, plain, d)
    BY MergeGroupsDoes
  <2>2. PICK k \in 1 .. Len(d) + 1 : MergedTo(harness, d, m, k)
    BY <2>1, MergeGroupsDoes
  <2>3. Settled(H, harness, m, k)
    BY <2>2, MergedSettled
  <2>4. MergeGroups(harness, plain, m) = m
    BY <2>3, SettledMerge
  <2>5. \E j \in DOMAIN m : \E n \in DOMAIN m[j].handlers : Canonical(harness, m, j, n)
    BY <2>3, SettledCanonical
  <2>6. HandlersOf(d) \ Owned(harness) \subseteq HandlersOf(m)
    BY <2>2, MergedHandlers
  <2>7. UserPart(harness, m) = UserPart(harness, d)
    BY <2>2, MergedUsers
  <2> QED
    BY <1>1, <2>1, <2>4, <2>5, <2>6, <2>7 DEF Merge
<1>2. CASE harness = "cursor"
  <2>1. Flat(d) /\ d \in Seq(GroupsOf(H))
    BY <1>2
  <2>2. PICK e \in Seq(H) : e = d[1].handlers
    <3>1. d[1].handlers \in Seq(H)
      BY <2>1, FlatEntries
    <3> QED
      BY <3>1
  <2>3. PICK l, a, c : l = MergedEntries(e) /\ OneOwned(H, l, a, c) /\ Without(e, Owned("cursor")) = a \o c
    BY MergedEntriesDo
  <2>4. /\ MergedEntries(l) = l /\ Without(l, Owned("cursor")) = a \o c
        /\ l \in Seq(H) /\ Len(a) + 1 \in DOMAIN l /\ l[Len(a) + 1] = "own"
        /\ \A n \in DOMAIN l : l[n] \in Owned("cursor") => n = Len(a) + 1
    BY <2>3, OneOwnedStays
  <2>5. PICK m : m = [d EXCEPT ![1].handlers = l]
    OBVIOUS
  <2>6. /\ m \in Seq(GroupsOf(H)) /\ Flat(m) /\ DOMAIN d = {1} /\ DOMAIN m = {1}
        /\ m[1].handlers = l /\ m[1].match = d[1].match
        /\ HandlersOf(d) = Range(e) /\ HandlersOf(m) = Range(l)
    <3>1. FlatTo(H, d, l, m)
      BY <2>1, <2>4, <2>5, FlatWith
    <3> QED
      BY <3>1, <2>2 DEF FlatTo
  <2>7. Merge(harness, plain, d) = m
    BY <1>2, <2>2, <2>3, <2>5 DEF Merge, MergeEntries, MergedEntries
  <2>8. Merge(harness, plain, m) = m
    <3>1. Merge(harness, plain, m) = [m EXCEPT ![1].handlers = MergedEntries(m[1].handlers)]
      BY <1>2 DEF Merge, MergeEntries, MergedEntries
    <3>2. FlatTo(H, m, l, [m EXCEPT ![1].handlers = l])
      BY <2>4, <2>6, FlatWith
    <3>3. [m EXCEPT ![1].handlers = l] = m
      BY <3>2, <2>6 DEF FlatTo
    <3> QED
      BY <3>1, <3>3, <2>4, <2>6
  <2>9. Canonical(harness, m, 1, Len(a) + 1)
    BY <1>2, <2>4, <2>6 DEF Canonical, Flat
  <2>10. HandlersOf(d) \ Owned(harness) \subseteq HandlersOf(m)
    <3>1. Range(Without(l, Owned("cursor"))) = Range(l) \ Owned("cursor")
      BY <2>4, WithoutRange
    <3>2. Range(Without(e, Owned("cursor"))) = Range(e) \ Owned("cursor")
      BY WithoutRange
    <3> QED
      BY <3>1, <3>2, <1>2, <2>3, <2>4, <2>6
  <2>11. UserPart(harness, m) = UserPart(harness, d)
    <3>1. Len(m) = Len(d) /\ Len(d) = 1
      BY <2>1, <2>6 DEF Flat
    <3>2. Tagged(harness, d[1]) = Tagged(harness, m[1])
      BY <1>2, <2>2, <2>3, <2>4, <2>6, TaggedSame
    <3>3. \A n \in 1 .. Len(d) : Tagged(harness, d[n]) = Tagged(harness, m[n])
      BY <3>1, <3>2
    <3> QED
      BY <3>1, <3>3, <2>1, <2>6, UserPartSame
  <2>12. \E k \in DOMAIN m : \E n \in DOMAIN m[k].handlers : Canonical(harness, m, k, n)
    BY <2>4, <2>6, <2>9
  <2> QED
    BY <2>6, <2>7, <2>8, <2>10, <2>11, <2>12
<1> QED
  BY <1>1, <1>2

\* A removal from a file of any length takes out the handlers that are removable, all of them
\* and no other; a second one changes nothing; and the user's handlers keep order and matcher.
THEOREM RemoveDoes ==
  ASSUME NEW H, NEW harness, NEW d, FileOf(H, harness, d)
  PROVE  LET r == RemoveOwned(harness, d) IN
         /\ FileOf(H, harness, r)
         /\ RemoveOwned(harness, r) = r
         /\ HandlersOf(r) = HandlersOf(d) \ Removable
         /\ UserPart(harness, r) = UserPart(harness, d)
<1> USE DEF FileOf
<1>1. CASE harness # "cursor"
  <2>1. PICK r \in Seq(GroupsOf(H)) : r = RemoveGroups(d)
    BY RemoveGroupsDoes
  <2>2. RemoveGroups(r) = r
    BY <2>1, RemoveGroupsTwice
  <2>3. HandlersOf(r) = HandlersOf(d) \ Removable
    BY <2>1, RemoveGroupsHandlers
  <2>4. UserPart(harness, r) = UserPart(harness, d)
    BY <2>1, RemoveGroupsUsers
  <2> QED
    BY <1>1, <2>1, <2>2, <2>3, <2>4 DEF RemoveOwned
<1>2. CASE harness = "cursor"
  <2>1. Flat(d) /\ d \in Seq(GroupsOf(H))
    BY <1>2
  <2>2. PICK e \in Seq(H) : e = d[1].handlers
    <3>1. d[1].handlers \in Seq(H)
      BY <2>1, FlatEntries
    <3> QED
      BY <3>1
  <2>3. PICK l \in Seq(H) : l = Without(e, Removable)
    BY WithoutType
  <2>4. PICK r : r = [d EXCEPT ![1].handlers = l]
    OBVIOUS
  <2>5. /\ r \in Seq(GroupsOf(H)) /\ Flat(r) /\ DOMAIN d = {1} /\ DOMAIN r = {1}
        /\ r[1].handlers = l /\ r[1].match = d[1].match
        /\ HandlersOf(d) = Range(e) /\ HandlersOf(r) = Range(l)
    <3>1. FlatTo(H, d, l, r)
      BY <2>1, <2>4, FlatWith
    <3> QED
      BY <3>1, <2>2 DEF FlatTo
  <2>6. RemoveOwned(harness, d) = r
    BY <1>2, <2>2, <2>3, <2>4 DEF RemoveOwned, RemoveEntries
  <2>7. Range(l) = Range(e) \ Removable
    BY <2>3, WithoutRange
  <2>8. RemoveOwned(harness, r) = r
    <3>1. Without(l, Removable) = l
      BY <2>7, WithoutNone
    <3>2. RemoveOwned(harness, r) = [r EXCEPT ![1].handlers = Without(r[1].handlers, Removable)]
      BY <1>2 DEF RemoveOwned, RemoveEntries
    <3>3. FlatTo(H, r, l, [r EXCEPT ![1].handlers = l])
      BY <2>5, FlatWith
    <3>4. [r EXCEPT ![1].handlers = l] = r
      BY <3>3, <2>5 DEF FlatTo
    <3> QED
      BY <3>1, <3>2, <3>4, <2>5
  <2>9. UserPart(harness, r) = UserPart(harness, d)
    <3>1. Len(r) = Len(d) /\ Len(d) = 1
      BY <2>1, <2>5 DEF Flat
    <3>2. Without(Without(e, Removable), Owned(harness)) = Without(e, Removable \cup Owned(harness))
      BY WithoutTwice
    <3>3. Removable \cup Owned(harness) = Owned(harness)
      BY RemovableOwned
    <3>4. Tagged(harness, d[1]) = Tagged(harness, r[1])
      BY <3>2, <3>3, <2>2, <2>3, <2>5, TaggedSame
    <3>5. \A n \in 1 .. Len(d) : Tagged(harness, d[n]) = Tagged(harness, r[n])
      BY <3>1, <3>4
    <3> QED
      BY <3>1, <3>5, <2>1, <2>5, UserPartSame
  <2> QED
    BY <2>5, <2>6, <2>7, <2>8, <2>9
<1> QED
  BY <1>1, <1>2

=============================================================================
