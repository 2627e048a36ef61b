--------------------------- MODULE DataInduction ---------------------------
(***************************************************************************)
(* Induction over numbers and sequences, and the existence of functions    *)
(* defined by recursion, as facts about sets: what is to be shown of every *)
(* n is that n belongs to the set of those it is true of.  The provers     *)
(* instantiate a set, and not the predicate that the theorems of the       *)
(* library take as a parameter.                                            *)
(***************************************************************************)
EXTENDS Naturals, Sequences, SequenceTheorems, WellFoundedInduction, TLAPS

\* A set of numbers that has any has a least one.
LEMMA LeastNumber ==
  ASSUME NEW R \in SUBSET Nat, R # {}
  PROVE  \E x \in R : \A y \in R : x <= y
<1> DEFINE Less == {ss \in Nat \X Nat : ss[1] < ss[2]}
<1>1. IsWellFoundedOn(Less, Nat)
  BY Zenon, NatLessThanWellFounded DEF OpToRel
<1>2. \E x \in R : \A y \in R : ~ (<<y, x>> \in Less)
  <2> HIDE DEF Less
  <2> QED
    BY Zenon, <1>1, WFMin
<1>3. PICK x \in R : \A y \in R : ~ (<<y, x>> \in Less)
  BY <1>2
<1>4. ASSUME NEW y \in R PROVE x <= y
  <2>1. x \in Nat /\ y \in Nat /\ ~ (<<y, x>> \in Less)
    BY <1>3
  <2> QED
    BY <2>1
<1> QED
  BY <1>4

\* A set of numbers with 0, and with n + 1 whenever it has n, has them all: otherwise it would
\* lack a least one.
LEMMA NatSetInduction ==
  ASSUME NEW T, 0 \in T, \A n \in Nat : n \in T => n + 1 \in T
  PROVE  \A n \in Nat : n \in T
<1> SUFFICES ASSUME NEW n \in Nat, n \notin T PROVE FALSE
  OBVIOUS
<1> DEFINE Lacking == {k \in Nat : k \notin T}
<1>1. PICK x \in Lacking : \A y \in Lacking : x <= y
  <2>1. Lacking \in SUBSET Nat /\ Lacking # {}
    OBVIOUS
  <2> HIDE DEF Lacking
  <2> QED
    BY <2>1, LeastNumber
<1>2. x - 1 \in Nat /\ ~ (x <= x - 1) /\ x - 1 \notin T
  <2>1. x \in Nat /\ x \notin T /\ x # 0
    OBVIOUS
  <2>2. x - 1 \in Nat /\ (x - 1) + 1 = x
    BY <2>1
  <2> QED
    BY <2>1, <2>2
<1> QED
  BY <1>1, <1>2

\* The same up to a bound.
LEMMA UpToInduction ==
  ASSUME NEW N \in Nat, NEW T, 0 \in T, \A k \in 1 .. N : k - 1 \in T => k \in T
  PROVE  \A k \in 0 .. N : k \in T
<1> DEFINE R == {n \in Nat : n <= N => n \in T}
<1>1. 0 \in R
  OBVIOUS
<1>2. \A n \in Nat : n \in R => n + 1 \in R
  <2> SUFFICES ASSUME NEW n \in Nat, n \in R, n + 1 <= N PROVE n + 1 \in T
    OBVIOUS
  <2>1. n + 1 \in 1 .. N /\ (n + 1) - 1 = n /\ n \in T
    OBVIOUS
  <2> QED
    BY <2>1
<1>3. \A n \in Nat : n \in R
  <2> HIDE DEF R
  <2> QED
    BY <1>1, <1>2, NatSetInduction
<1> QED
  BY <1>3

\* A set of sequences with the empty one that is closed under appending has them all.
LEMMA SeqSetInduction ==
  ASSUME NEW S, NEW T, <<>> \in T, \A s \in Seq(S), e \in S : s \in T => Append(s, e) \in T
  PROVE  \A s \in Seq(S) : s \in T
<1> DEFINE R == {n \in Nat : \A s \in Seq(S) : Len(s) = n => s \in T}
<1>1. 0 \in R
  BY EmptySeq
<1>2. \A n \in Nat : n \in R => n + 1 \in R
  <2> SUFFICES ASSUME NEW n \in Nat, n \in R, NEW s \in Seq(S), Len(s) = n + 1 PROVE s \in T
    OBVIOUS
  <2>1. s # <<>>
    BY EmptySeq
  <2>2. PICK t \in Seq(S), e \in S : s = Append(t, e)
    BY <2>1, SequenceEmptyOrAppend
  <2>3. Len(t) = n
    BY <2>2, AppendProperties, LenProperties
  <2> QED
    BY <2>2, <2>3
<1>3. \A n \in Nat : n \in R
  <2> HIDE DEF R
  <2> QED
    BY <1>1, <1>2, NatSetInduction
<1> QED
  BY <1>3, LenProperties

\* f is defined up to N by its value at 0 and a step from each value to the next.
Stepwise(f, N, S, base, step) ==
  f \in [0 .. N -> S] /\ f[0] = base /\ \A k \in 1 .. N : f[k] = step[<<k, f[k - 1]>>]

\* There is such a function.
LEMMA RecursiveFunction ==
  ASSUME NEW N \in Nat, NEW S, NEW base \in S, NEW step \in [(1 .. N) \X S -> S]
  PROVE  \E f : Stepwise(f, N, S, base, step)
<1> DEFINE Defined(n, f) == f \in [0 .. n -> S] /\ f[0] = base /\ \A k \in 1 .. n : f[k] = step[<<k, f[k - 1]>>]
           T == {n \in 0 .. N : \E f : Defined(n, f)}
<1>1. 0 \in T
  <2>1. Defined(0, [k \in 0 .. 0 |-> base])
    OBVIOUS
  <2>2. \E f : Defined(0, f)
    BY <2>1
  <2> QED
    BY <2>2
<1>2. ASSUME NEW n \in 1 .. N, n - 1 \in T PROVE n \in T
  <2>1. PICK f : Defined(n - 1, f)
    BY <1>2
  <2>2. PICK next : next = step[<<n, f[n - 1]>>]
    OBVIOUS
  <2>3. next \in S
    <3>1. f[n - 1] \in S
      BY <2>1
    <3> QED
      BY <3>1, <2>2
  <2>4. PICK g : g = [k \in 0 .. n |-> IF k = n THEN next ELSE f[k]]
    OBVIOUS
  <2>5. g \in [0 .. n -> S]
    <3>1. \A k \in 0 .. n : k # n => k \in 0 .. n - 1
      OBVIOUS
    <3> QED
      BY <3>1, <2>1, <2>3, <2>4
  <2>6. g[n] = next /\ \A k \in 0 .. n - 1 : g[k] = f[k]
    BY <2>4
  <2>7. \A k \in 1 .. n : g[k] = step[<<k, g[k - 1]>>]
    <3> TAKE k \in 1 .. n
    <3>1. CASE k = n
      BY <3>1, <2>6, <2>2
    <3>2. CASE k # n
      <4>1. k \in 1 .. n - 1 /\ k \in 0 .. n - 1 /\ k - 1 \in 0 .. n - 1
        BY <3>2
      <4> QED
        BY <4>1, <2>6, <2>1
    <3> QED
      BY <3>1, <3>2
  <2>8. g[0] = base
    BY <2>6, <2>1
  <2>9. Defined(n, g)
    BY <2>5, <2>7, <2>8
  <2> QED
    BY <2>9
<1>3. N \in T
  <2>1. \A k \in 0 .. N : k \in T
    <3> HIDE DEF T
    <3> QED
      BY <1>1, <1>2, UpToInduction
  <2> QED
    BY <2>1
<1>4. PICK f : Defined(N, f)
  BY <1>3
<1>5. Stepwise(f, N, S, base, step)
  BY <1>4 DEF Stepwise
<1> QED
  BY <1>5

=============================================================================
