------------------------ MODULE OpenCodePluginProofs ------------------------
(***************************************************************************)
(* Proofs about OpenCodePlugin for any number of calls and prompts and any *)
(* bounds: what the plugin reports of the calls and of the skills.         *)
(***************************************************************************)
EXTENDS OpenCodePlugin, FiniteSetTheorems, SequenceTheorems, TLAPS

-----------------------------------------------------------------------------
(* Sequences *)

LEMMA AppendRange ==
  ASSUME NEW S, NEW s \in Seq(S), NEW x \in S
  PROVE  /\ Append(s, x) \in Seq(S) /\ Len(Append(s, x)) = Len(s) + 1
         /\ DOMAIN Append(s, x) = 1 .. Len(s) + 1 /\ DOMAIN s = 1 .. Len(s) /\ Len(s) \in Nat
         /\ \A i \in DOMAIN s : Append(s, x)[i] = s[i]
         /\ Append(s, x)[Len(s) + 1] = x
         /\ Range(Append(s, x)) = Range(s) \cup {x}
<1>1. /\ Append(s, x) \in Seq(S) /\ Len(Append(s, x)) = Len(s) + 1
      /\ DOMAIN Append(s, x) = 1 .. Len(s) + 1 /\ DOMAIN s = 1 .. Len(s) /\ Len(s) \in Nat
      /\ \A i \in DOMAIN s : Append(s, x)[i] = s[i]
      /\ Append(s, x)[Len(s) + 1] = x
  OBVIOUS
<1>2. DOMAIN Append(s, x) = DOMAIN s \cup {Len(s) + 1}
  BY <1>1
<1> QED BY <1>1, <1>2 DEF Range

LEMMA TailRange ==
  ASSUME NEW S, NEW s \in Seq(S), s # <<>>
  PROVE  /\ Tail(s) \in Seq(S) /\ Len(Tail(s)) = Len(s) - 1 /\ Len(s) \in Nat \ {0}
         /\ DOMAIN Tail(s) = 1 .. Len(s) - 1 /\ DOMAIN s = 1 .. Len(s)
         /\ \A i \in DOMAIN Tail(s) : Tail(s)[i] = s[i + 1]
         /\ Head(s) = s[1] /\ Head(s) \in Range(s) /\ Head(s) \in S
         /\ Range(s) = Range(Tail(s)) \cup {Head(s)}
<1>1. /\ Tail(s) \in Seq(S) /\ Len(Tail(s)) = Len(s) - 1 /\ Len(s) \in Nat \ {0}
      /\ DOMAIN Tail(s) = 1 .. Len(s) - 1 /\ DOMAIN s = 1 .. Len(s)
      /\ \A i \in DOMAIN Tail(s) : Tail(s)[i] = s[i + 1]
      /\ Head(s) = s[1]
  OBVIOUS
<1>2. Head(s) \in Range(s) /\ Head(s) \in S
  BY <1>1 DEF Range
<1>3. Range(Tail(s)) \subseteq Range(s)
  BY <1>1 DEF Range
<1>4. ASSUME NEW y \in Range(s)
      PROVE  y \in Range(Tail(s)) \cup {Head(s)}
  <2>1. PICK i \in DOMAIN s : y = s[i]
    BY DEF Range
  <2>2. CASE i = 1
    BY <1>1, <2>1, <2>2
  <2>3. CASE i # 1
    <3>1. i - 1 \in DOMAIN Tail(s) /\ Tail(s)[i - 1] = s[i]
      BY <1>1, <2>1, <2>3
    <3> QED BY <2>1, <3>1 DEF Range
  <2> QED BY <2>2, <2>3
<1> QED BY <1>1, <1>2, <1>3, <1>4

\* Sequences in which no element comes twice.
Distinct(s) == \A i, j \in DOMAIN s : s[i] = s[j] => i = j

LEMMA AppendDistinct ==
  ASSUME NEW S, NEW s \in Seq(S), NEW x \in S, Distinct(s), x \notin Range(s)
  PROVE  Distinct(Append(s, x))
<1>1. \A i \in DOMAIN Append(s, x) : i \in DOMAIN s \/ i = Len(s) + 1
  BY AppendRange
<1>2. \A i \in DOMAIN s : s[i] # x
  BY DEF Range
<1> QED BY <1>1, <1>2, AppendRange DEF Distinct

LEMMA TailDistinct ==
  ASSUME NEW S, NEW s \in Seq(S), s # <<>>, Distinct(s)
  PROVE  Distinct(Tail(s)) /\ Head(s) \notin Range(Tail(s))
<1>1. Distinct(Tail(s))
  <2> SUFFICES ASSUME NEW i \in DOMAIN Tail(s), NEW j \in DOMAIN Tail(s), Tail(s)[i] = Tail(s)[j]
               PROVE  i = j
    BY DEF Distinct
  <2>1. i + 1 \in DOMAIN s /\ j + 1 \in DOMAIN s /\ s[i + 1] = s[j + 1] /\ i \in Nat /\ j \in Nat
    BY TailRange
  <2>2. i + 1 = j + 1
    BY <2>1 DEF Distinct
  <2> QED BY <2>1, <2>2
<1>2. Head(s) \notin Range(Tail(s))
  <2> SUFFICES ASSUME NEW i \in DOMAIN Tail(s), Tail(s)[i] = Head(s)
               PROVE  FALSE
    BY DEF Range
  <2>1. i + 1 \in DOMAIN s /\ 1 \in DOMAIN s /\ s[i + 1] = s[1] /\ i \in Nat \ {0}
    BY TailRange
  <2>2. i + 1 = 1
    BY <2>1 DEF Distinct
  <2> QED BY <2>1, <2>2
<1> QED BY <1>1, <1>2

LEMMA Joined ==
  ASSUME NEW S, NEW a \in Seq(S), NEW b \in Seq(S), NEW t, t = a \o b
  PROVE  /\ t \in Seq(S) /\ Len(t) = Len(a) + Len(b) /\ DOMAIN t = 1 .. Len(a) + Len(b)
         /\ \A i \in DOMAIN t : t[i] = IF i <= Len(a) THEN a[i] ELSE b[i - Len(a)]
<1>1. t \in Seq(S) /\ Len(t) = Len(a) + Len(b)
  BY ConcatProperties
<1>2. DOMAIN t = 1 .. Len(a) + Len(b)
  BY <1>1
<1> QED BY <1>1, <1>2, ConcatProperties

LEMMA RemoveRange ==
  ASSUME NEW S, NEW s \in Seq(S), NEW n \in DOMAIN s, Distinct(s)
  PROVE  /\ RemoveAt(s, n) \in Seq(S) /\ Len(RemoveAt(s, n)) <= Len(s)
         /\ Distinct(RemoveAt(s, n)) /\ Range(RemoveAt(s, n)) = Range(s) \ {s[n]}
<1> DEFINE t == RemoveAt(s, n)
<1>1. /\ t \in Seq(S) /\ Len(t) = Len(s) - 1 /\ DOMAIN t = 1 .. Len(s) - 1 /\ DOMAIN s = 1 .. Len(s)
      /\ Len(s) \in Nat /\ n \in 1 .. Len(s)
      /\ \A i \in DOMAIN t : t[i] = IF i < n THEN s[i] ELSE s[i + 1]
  <2> DEFINE a == SubSeq(s, 1, n - 1)
             b == SubSeq(s, n + 1, Len(s))
  <2>1. DOMAIN s = 1 .. Len(s) /\ Len(s) \in Nat /\ n \in 1 .. Len(s)
    OBVIOUS
  <2>2. a \in Seq(S) /\ Len(a) = n - 1 /\ \A i \in 1 .. n - 1 : a[i] = s[i]
    BY <2>1
  <2>3. b \in Seq(S) /\ Len(b) = Len(s) - n /\ \A i \in 1 .. Len(s) - n : b[i] = s[n + i]
    BY <2>1
  <2>4. t = a \o b
    BY DEF RemoveAt
  <2> HIDE DEF a, b, t
  <2>a. /\ t \in Seq(S) /\ Len(t) = Len(a) + Len(b) /\ DOMAIN t = 1 .. Len(a) + Len(b)
        /\ \A i \in DOMAIN t : t[i] = IF i <= Len(a) THEN a[i] ELSE b[i - Len(a)]
    <3>1. a \in Seq(S) /\ b \in Seq(S)
      BY <2>2, <2>3
    <3> QED BY <2>4, <3>1, Joined
  <2>5. t \in Seq(S) /\ Len(t) = Len(s) - 1 /\ DOMAIN t = 1 .. Len(s) - 1
    BY <2>1, <2>2, <2>3, <2>a
  <2>6. ASSUME NEW i \in DOMAIN t
        PROVE  t[i] = IF i < n THEN s[i] ELSE s[i + 1]
    <3>1. t[i] = IF i <= n - 1 THEN a[i] ELSE b[i - (n - 1)]
      BY <2>1, <2>2, <2>3, <2>a, <2>5
    <3>2. CASE i < n
      BY <2>1, <2>2, <2>5, <3>1, <3>2
    <3>3. CASE ~(i < n)
      <4>1. i - (n - 1) \in 1 .. Len(s) - n /\ n + (i - (n - 1)) = i + 1
        BY <2>1, <2>5, <3>3
      <4> QED BY <2>1, <2>3, <2>5, <3>1, <3>3, <4>1
    <3> QED BY <3>2, <3>3
  <2> QED BY <2>1, <2>5, <2>6
<1> HIDE DEF t
<1> DEFINE At(i) == IF i < n THEN i ELSE i + 1
<1>2. \A i \in DOMAIN t : At(i) \in DOMAIN s /\ At(i) # n /\ t[i] = s[At(i)] /\ i \in Nat
  BY <1>1
<1>3. \A i, j \in DOMAIN t : At(i) = At(j) => i = j
  BY <1>1
<1>4. Distinct(t)
  <2> SUFFICES ASSUME NEW i \in DOMAIN t, NEW j \in DOMAIN t, t[i] = t[j]
               PROVE  i = j
    BY DEF Distinct
  <2> HIDE DEF At
  <2>1. At(i) = At(j)
    BY <1>2 DEF Distinct
  <2> QED BY <1>3, <2>1
<1>5. Range(t) = Range(s) \ {s[n]}
  <2>1. ASSUME NEW y \in Range(t)
        PROVE  y \in Range(s) \ {s[n]}
    <3>1. PICK i \in DOMAIN t : y = t[i]
      BY DEF Range
    <3> HIDE DEF At
    <3>2. y = s[At(i)] /\ At(i) \in DOMAIN s /\ At(i) # n
      BY <1>2, <3>1
    <3> QED BY <3>2 DEF Distinct, Range
  <2>2. ASSUME NEW y \in Range(s) \ {s[n]}
        PROVE  y \in Range(t)
    <3>1. PICK i \in DOMAIN s : y = s[i] /\ i # n
      BY DEF Range
    <3>2. CASE i < n
      <4>1. i \in DOMAIN t /\ t[i] = s[i]
        BY <1>1, <3>1, <3>2
      <4> QED BY <3>1, <4>1 DEF Range
    <3>3. CASE i > n
      <4>1. i - 1 \in DOMAIN t /\ t[i - 1] = s[i]
        BY <1>1, <3>1, <3>3
      <4> QED BY <3>1, <4>1 DEF Range
    <3> QED BY <1>1, <3>1, <3>2, <3>3
  <2> QED BY <2>1, <2>2
<1> QED BY <1>1, <1>4, <1>5 DEF t

\* A sequence of distinct elements is as long as the set of its elements is large.
LEMMA DistinctCount ==
  ASSUME NEW S, NEW s \in Seq(S), Distinct(s)
  PROVE  Cardinality(Range(s)) = Len(s)
<1>1. s \in [1 .. Len(s) -> Range(s)] /\ Len(s) \in Nat
  BY DEF Range
<1>2. s \in Bijection(1 .. Len(s), Range(s))
  BY <1>1, Zenon DEF Distinct, Range, Bijection, Injection, Surjection, IsInjective
<1>3. ExistsBijection(1 .. Len(s), Range(s))
  BY <1>2 DEF ExistsBijection
<1> QED BY <1>1, <1>3, FS_CountingElements

-----------------------------------------------------------------------------
(* The settled keys and the stream *)

EventSet ==
  ({"failed"} \X Keys) \cup ({"enqueued", "cancelled", "delivered"} \X Prompts) \cup ({"reverted"} \X {Code})

SettledOK(t) == t \in Seq(Keys) /\ Len(t) <= SettledCap /\ Distinct(t)

LEMMA ShapeSettled ==
  ShapeInv => SettledOK(settled) /\ stream \in Seq(EventSet) /\ reopened \subseteq Keys
BY DEF ShapeInv, SettledOK, Distinct, EventSet

LEMMA Unsettled ==
  ASSUME ShapeInv, NEW k \in Keys
  PROVE  SettledOK(Unsettle(k)) /\ Range(Unsettle(k)) = Range(settled) \ {k}
<1>1. settled \in Seq(Keys) /\ Len(settled) \in Nat /\ Len(settled) <= SettledCap /\ Distinct(settled)
  BY ShapeSettled DEF SettledOK
<1>2. CASE k \notin Range(settled)
  BY <1>1, <1>2 DEF Unsettle, SettledOK
<1>3. CASE k \in Range(settled)
  <2>1. PICK n \in DOMAIN settled : settled[n] = k /\ Unsettle(k) = RemoveAt(settled, n)
    <3>1. \E i \in DOMAIN settled : settled[i] = k
      BY <1>3 DEF Range
    <3> QED BY <1>3, <3>1 DEF Unsettle
  <2>2. /\ Unsettle(k) \in Seq(Keys) /\ Len(Unsettle(k)) <= Len(settled)
        /\ Distinct(Unsettle(k)) /\ Range(Unsettle(k)) = Range(settled) \ {k}
    BY <1>1, <2>1, RemoveRange
  <2>3. Len(Unsettle(k)) \in Nat
    BY <2>2
  <2> QED BY <1>1, <2>2, <2>3, ConstantsAssumption DEF SettledOK
<1> QED BY <1>2, <1>3

LEMMA SettleParts ==
  ASSUME ShapeInv, NEW k \in Keys, Settle(k)
  PROVE  /\ SettledOK(settled') /\ reopened' \subseteq Keys /\ reopened \subseteq reopened'
         /\ k \in Range(settled') /\ Range(settled') \subseteq Range(settled) \cup {k}
         /\ Range(settled) \subseteq Range(settled') \cup reopened'
<1>1. /\ settled \in Seq(Keys) /\ Len(settled) \in Nat /\ Len(settled) <= SettledCap /\ Distinct(settled)
      /\ reopened \subseteq Keys
  BY ShapeSettled DEF SettledOK
<1>2. PICK added : added = IF IsSettled(k) THEN settled ELSE Append(settled, k)
  OBVIOUS
<1>3. /\ added \in Seq(Keys) /\ Distinct(added) /\ Range(added) = Range(settled) \cup {k}
      /\ Len(added) \in Nat /\ Len(added) <= Len(settled) + 1
      /\ added[Len(added)] = k \/ Len(added) <= SettledCap
  <2>1. CASE IsSettled(k)
    BY <1>1, <1>2, <2>1 DEF IsSettled
  <2>2. CASE ~IsSettled(k)
    <3>1. added = Append(settled, k) /\ k \notin Range(settled)
      BY <1>2, <2>2 DEF IsSettled
    <3> QED BY <1>1, <3>1, AppendRange, AppendDistinct
  <2> QED BY <2>1, <2>2
<1>4. SettledCap \in Nat \ {0}
  BY ConstantsAssumption
<1>5. CASE Len(added) > SettledCap
  <2>1. settled' = Tail(added) /\ reopened' = reopened \cup {Head(added)}
    BY <1>2, <1>5 DEF Settle
  <2>2. added # <<>>
    BY <1>3, <1>4, <1>5
  <2>3. Len(added) = SettledCap + 1
    BY <1>1, <1>3, <1>4, <1>5
  <2>4. /\ settled' \in Seq(Keys) /\ Len(settled') = Len(added) - 1 /\ Distinct(settled')
        /\ Head(added) = added[1] /\ Head(added) \in Keys /\ Range(added) = Range(settled') \cup {Head(added)}
    BY <1>3, <2>1, <2>2, TailRange, TailDistinct
  <2>5. Head(added) # k
    <3>1. added[Len(added)] = k /\ Len(added) > 1
      BY <1>3, <1>4, <1>5
    <3>2. 1 \in DOMAIN added /\ Len(added) \in DOMAIN added
      BY <1>3, <3>1
    <3> QED BY <1>3, <2>4, <3>1, <3>2 DEF Distinct
  <2>6. Len(settled') <= SettledCap
    BY <1>4, <2>3, <2>4
  <2>7. SettledOK(settled')
    BY <2>4, <2>6 DEF SettledOK
  <2> QED BY <1>1, <1>3, <2>1, <2>4, <2>5, <2>7
<1>6. CASE ~(Len(added) > SettledCap)
  <2>1. settled' = added /\ reopened' = reopened
    BY <1>2, <1>6 DEF Settle
  <2>2. Len(added) <= SettledCap
    BY <1>3, <1>4, <1>6
  <2> QED BY <1>1, <1>3, <2>1, <2>2 DEF SettledOK
<1> QED BY <1>5, <1>6

\* A published event is awaited, unless nobody listens.
LEMMA Published ==
  ASSUME ShapeInv, NEW event \in EventSet, Publish(event)
  PROVE  /\ stream' \in Seq(EventSet)
         /\ \A type, x : <<type, x>> # event => (Awaited(type, x)' <=> Awaited(type, x))
         /\ Range(stream') \subseteq Range(stream) \cup {event}
         /\ observer # "down" => stream' = Append(stream, event) /\ Range(stream') = Range(stream) \cup {event}
<1>1. stream \in Seq(EventSet)
  BY ShapeSettled
<1>2. CASE observer = "down"
  BY <1>1, <1>2 DEF Publish, Awaited
<1>3. CASE observer # "down"
  <2>1. stream' = Append(stream, event)
    BY <1>3 DEF Publish
  <2>2. stream' \in Seq(EventSet) /\ Range(stream') = Range(stream) \cup {event}
    BY <1>1, <2>1, AppendRange
  <2> QED BY <2>1, <2>2 DEF Awaited
<1> QED BY <1>2, <1>3

\* The observer takes the oldest event.
LEMMA Handled ==
  ASSUME ShapeInv, NEW type, Handling(type)
  PROVE  /\ stream \in Seq(EventSet) /\ stream' \in Seq(EventSet) /\ stream' = Tail(stream) /\ stream # <<>>
         /\ observer = "up" /\ Head(stream) = <<type, Subject>> /\ Head(stream) \in EventSet /\ Awaited(type, Subject)
         /\ Range(stream) = Range(stream') \cup {<<type, Subject>>}
         /\ \A other, x : <<other, x>> # <<type, Subject>> => (Awaited(other, x)' <=> Awaited(other, x))
<1>1. /\ stream \in Seq(EventSet) /\ stream # <<>> /\ stream' = Tail(stream) /\ observer = "up" /\ Head(stream)[1] = type
  BY ShapeSettled DEF Handling
<1>2. /\ stream' \in Seq(EventSet) /\ Head(stream) \in EventSet /\ Head(stream) \in Range(stream)
      /\ Range(stream) = Range(stream') \cup {Head(stream)}
  BY <1>1, TailRange
<1>3. Head(stream) = <<type, Subject>>
  BY <1>1, <1>2 DEF EventSet, Subject
<1> QED BY <1>1, <1>2, <1>3 DEF Awaited

-----------------------------------------------------------------------------
(* Counting calls *)

LEMMA KeyFacts ==
  /\ \A c \in Calls : KeyOf(c) \in Keys /\ (c \in Direct => KeyOf(c) = c /\ c \notin Nested /\ c # Code)
  /\ \A k \in Direct : CallsOf(k) = {k} /\ k \in Calls /\ k \in Keys
  /\ CallsOf(Code) = Nested /\ Code \in Keys
  /\ \A c \in Nested : KeyOf(c) = Code /\ c \in Calls /\ c \notin Direct /\ Mcp(c)
BY ConstantsAssumption DEF Keys, KeyOf, Calls, CallsOf, Mcp

LEMMA FiniteCalls ==
  ASSUME NEW S \in SUBSET Calls
  PROVE  IsFiniteSet(S) /\ Cardinality(S) \in Nat
BY ConstantsAssumption, FS_Subset, FS_CardinalityType DEF Calls

\* Done calls are over, and calls that are over have run.
LEMMA Counts ==
  ASSUME NEW k
  PROVE  /\ Run(k) \subseteq Calls /\ Over(k) \subseteq Run(k) /\ Done(k) \subseteq Over(k)
         /\ Cardinality(Run(k)) \in Nat /\ Cardinality(Over(k)) \in Nat /\ Cardinality(Done(k)) \in Nat
         /\ Cardinality(Done(k)) <= Cardinality(Over(k)) /\ Cardinality(Over(k)) <= Cardinality(Run(k))
<1>1. Run(k) \subseteq Calls /\ Over(k) \subseteq Run(k) /\ Done(k) \subseteq Over(k)
  BY DEF Run, Over, Done, CallsOf
<1>2. IsFiniteSet(Run(k)) /\ IsFiniteSet(Over(k)) /\ IsFiniteSet(Done(k))
  BY <1>1, FiniteCalls
<1>3. Cardinality(Done(k)) <= Cardinality(Over(k)) /\ Cardinality(Over(k)) <= Cardinality(Run(k))
  BY <1>1, <1>2, FS_Subset
<1> QED BY <1>1, <1>2, <1>3, FS_CardinalityType

\* A call of k that runs is not over: of two numbers one is smaller.
LEMMA StillRunning ==
  ASSUME NEW c \in Calls, call[c] = "running"
  PROVE  Cardinality(Over(KeyOf(c))) < Cardinality(Run(KeyOf(c)))
<1> DEFINE k == KeyOf(c)
<1>1. c \in Run(k) /\ c \notin Over(k)
  BY DEF Run, Over, CallsOf
<1>2. Over(k) \subseteq Run(k) /\ IsFiniteSet(Run(k))
  BY Counts, FiniteCalls
<1>3. Cardinality(Over(k)) <= Cardinality(Run(k)) /\ Cardinality(Over(k)) # Cardinality(Run(k))
  BY <1>1, <1>2, FS_Subset
<1> QED BY <1>3, Counts

LEMMA AddCall ==
  ASSUME NEW S \in SUBSET Calls, NEW c \in Calls \ S
  PROVE  Cardinality(S \cup {c}) = Cardinality(S) + 1
BY FiniteCalls, FS_AddElement

LEMMA RemoveCall ==
  ASSUME NEW S \in SUBSET Calls, NEW c \in S
  PROVE  Cardinality(S \ {c}) = Cardinality(S) - 1
BY FiniteCalls, FS_RemoveElement

\* One call moves on.
LEMMA OneCall ==
  ASSUME ShapeInv, NEW c \in Calls, NEW s, call' = [call EXCEPT ![c] = s],
         \A d \in Calls \ {c} : outcome'[d] = outcome[d]
  PROVE  /\ call'[c] = s /\ \A d \in Calls \ {c} : call'[d] = call[d]
         /\ \A k : k # KeyOf(c) => Run(k)' = Run(k) /\ Over(k)' = Over(k) /\ Done(k)' = Done(k)
         /\ Run(KeyOf(c))' = IF s \in {"running", "over"} THEN Run(KeyOf(c)) \cup {c} ELSE Run(KeyOf(c)) \ {c}
         /\ Over(KeyOf(c))' = IF s = "over" THEN Over(KeyOf(c)) \cup {c} ELSE Over(KeyOf(c)) \ {c}
         /\ Done(KeyOf(c))' = IF s = "over" /\ outcome'[c] = "completed" THEN Done(KeyOf(c)) \cup {c}
                              ELSE Done(KeyOf(c)) \ {c}
<1>1. call'[c] = s /\ \A d \in Calls \ {c} : call'[d] = call[d]
  BY DEF ShapeInv
<1>2. \A k : k # KeyOf(c) => \A d \in CallsOf(k) : d \in Calls \ {c} /\ call'[d] = call[d] /\ outcome'[d] = outcome[d]
  BY <1>1 DEF CallsOf
<1>3. \A k : k # KeyOf(c) => Run(k)' = Run(k) /\ Over(k)' = Over(k) /\ Done(k)' = Done(k)
  BY <1>2 DEF Run, Over, Done
<1>4. c \in CallsOf(KeyOf(c)) /\ CallsOf(KeyOf(c)) \subseteq Calls
  BY DEF CallsOf
<1>5. Run(KeyOf(c))' = IF s \in {"running", "over"} THEN Run(KeyOf(c)) \cup {c} ELSE Run(KeyOf(c)) \ {c}
  BY <1>1, <1>4 DEF Run
<1>6. Over(KeyOf(c))' = IF s = "over" THEN Over(KeyOf(c)) \cup {c} ELSE Over(KeyOf(c)) \ {c}
  BY <1>1, <1>4 DEF Over
<1>7. Done(KeyOf(c))' = IF s = "over" /\ outcome'[c] = "completed" THEN Done(KeyOf(c)) \cup {c}
                        ELSE Done(KeyOf(c)) \ {c}
  BY <1>1, <1>4 DEF Over, Done
<1> QED BY <1>1, <1>3, <1>5, <1>6, <1>7

\* The calls are as they were.
LEMMA SameCalls ==
  ASSUME UNCHANGED <<call, outcome>>, NEW k
  PROVE  Run(k)' = Run(k) /\ Over(k)' = Over(k) /\ Done(k)' = Done(k)
BY DEF Run, Over, Done

-----------------------------------------------------------------------------
(* Reports *)

LEMMA EmitFailed ==
  ASSUME ShapeInv, NEW k \in Keys, NEW n \in Nat, Emit(k, "failed", n)
  PROVE  /\ sent' \in [Keys -> [succeeded : Nat, failed : Nat]] /\ \A j \in Keys \ {k} : sent'[j] = sent[j]
         /\ sent'[k].succeeded = sent[k].succeeded
         /\ sent'[k].failed = IF stopped THEN sent[k].failed ELSE sent[k].failed + n
<1>1. sent \in [Keys -> [succeeded : Nat, failed : Nat]] /\ sent[k] \in [succeeded : Nat, failed : Nat]
  BY DEF ShapeInv
<1>2. CASE stopped
  BY <1>1, <1>2 DEF Emit
<1>3. CASE ~stopped
  <2> DEFINE r == [sent[k] EXCEPT !.failed = sent[k].failed + n]
  <2>1. sent' = [sent EXCEPT ![k] = r]
    BY <1>1, <1>3 DEF Emit
  <2>2. r \in [succeeded : Nat, failed : Nat] /\ r.failed = sent[k].failed + n /\ r.succeeded = sent[k].succeeded
    BY <1>1
  <2> HIDE DEF r
  <2> QED BY <1>1, <1>3, <2>1, <2>2
<1> QED BY <1>2, <1>3

LEMMA EmitSucceeded ==
  ASSUME ShapeInv, NEW k \in Keys, NEW n \in Nat, Emit(k, "succeeded", n)
  PROVE  /\ sent' \in [Keys -> [succeeded : Nat, failed : Nat]] /\ \A j \in Keys \ {k} : sent'[j] = sent[j]
         /\ sent'[k].failed = sent[k].failed
         /\ sent'[k].succeeded = IF stopped THEN sent[k].succeeded ELSE sent[k].succeeded + n
<1>1. sent \in [Keys -> [succeeded : Nat, failed : Nat]] /\ sent[k] \in [succeeded : Nat, failed : Nat]
  BY DEF ShapeInv
<1>2. CASE stopped
  BY <1>1, <1>2 DEF Emit
<1>3. CASE ~stopped
  <2> DEFINE r == [sent[k] EXCEPT !.succeeded = sent[k].succeeded + n]
  <2>1. sent' = [sent EXCEPT ![k] = r]
    BY <1>1, <1>3 DEF Emit
  <2>2. r \in [succeeded : Nat, failed : Nat] /\ r.succeeded = sent[k].succeeded + n /\ r.failed = sent[k].failed
    BY <1>1
  <2> HIDE DEF r
  <2> QED BY <1>1, <1>3, <2>1, <2>2
<1> QED BY <1>2, <1>3

\* What is tracked and has no outcome counts as failed.
LEMMA PendingFailed ==
  ASSUME ShapeInv, NEW k \in Keys, FailPending(k)
  PROVE  /\ sent' \in [Keys -> [succeeded : Nat, failed : Nat]] /\ \A j \in Keys \ {k} : sent'[j] = sent[j]
         /\ sent'[k].succeeded = sent[k].succeeded
         /\ sent'[k].failed = IF stopped THEN sent[k].failed ELSE sent[k].failed + pending[k]
         /\ pending' \in [Keys -> Nat] /\ pending'[k] = 0 /\ \A j \in Keys \ {k} : pending'[j] = pending[j]
<1>1. pending \in [Keys -> Nat] /\ pending[k] \in Nat /\ pending' = [pending EXCEPT ![k] = 0] /\ Emit(k, "failed", pending[k])
  BY DEF ShapeInv, FailPending
<1>2. pending' \in [Keys -> Nat] /\ pending'[k] = 0 /\ \A j \in Keys \ {k} : pending'[j] = pending[j]
  BY <1>1
<1> QED BY <1>1, <1>2, EmitFailed

\* A call's own report.
LEMMA ReportParts ==
  ASSUME ShapeInv, NEW c \in Calls, Report(c)
  PROVE  LET k == KeyOf(c)
             r == IF stopped THEN 0 ELSE 1
         IN  /\ sent' \in [Keys -> [succeeded : Nat, failed : Nat]] /\ \A j \in Keys \ {k} : sent'[j] = sent[j]
             /\ outcome[c] = "completed" =>
                  sent'[k].succeeded = sent[k].succeeded + r /\ sent'[k].failed = sent[k].failed
             /\ outcome[c] # "completed" =>
                  sent'[k].succeeded = sent[k].succeeded /\ sent'[k].failed = sent[k].failed + r
<1>1. KeyOf(c) \in Keys /\ sent[KeyOf(c)] \in [succeeded : Nat, failed : Nat]
  BY KeyFacts DEF ShapeInv
<1>2. CASE outcome[c] = "completed"
  <2>1. Emit(KeyOf(c), "succeeded", 1)
    BY <1>2 DEF Report
  <2> QED BY <1>1, <1>2, <2>1, EmitSucceeded
<1>3. CASE outcome[c] # "completed"
  <2>1. Emit(KeyOf(c), "failed", 1)
    BY <1>3 DEF Report
  <2> QED BY <1>1, <1>3, <2>1, EmitFailed
<1> QED BY <1>2, <1>3

-----------------------------------------------------------------------------
(* Types *)

\* Nothing gets undisturbed again.
Onward == (Undisturbed' => Undisturbed) /\ (~stopped' => ~stopped) /\ kind' = kind /\ reopened \subseteq reopened'

ServerTypes ==
  /\ kind \in [Direct -> {"mcp", "skill"}]
  /\ call \in [Calls -> {"unused", "new", "before", "running", "after", "over"}]
  /\ outcome \in [Calls -> {"none", "completed", "error", "denied"}]
  /\ outer \in {"new", "running", "failed", "failed over", "over"} /\ published \subseteq Keys
  /\ prompt \in [Prompts -> {"unused", "new", "queued", "cancelled", "delivered"}]

PluginTypes ==
  /\ pending \in [Keys -> Nat] /\ activeCode \in BOOLEAN /\ SettledOK(settled) /\ stream \in Seq(EventSet)
  /\ observer \in {"up", "down"} \cup Prompts /\ inbox \subseteq Prompts /\ stopped \in BOOLEAN
  /\ sent \in [Keys -> [succeeded : Nat, failed : Nat]] /\ activated \in [Prompts -> Nat]

GhostTypes == losses \in 0 .. MaxLosses /\ missed \subseteq Keys /\ reopened \subseteq Keys

LEMMA ShapeTypes ==
  (ShapeInv <=> ServerTypes /\ PluginTypes /\ GhostTypes) /\ (ShapeInv' <=> ServerTypes' /\ PluginTypes' /\ GhostTypes')
BY DEF ShapeInv, ServerTypes, PluginTypes, GhostTypes, SettledOK, Distinct, EventSet

LEMMA Losing ==
  ASSUME ShapeInv, Loss \/ Kept
  PROVE  losses' \in 0 .. MaxLosses /\ (losses' = 0 => losses = 0)
<1>1. losses \in 0 .. MaxLosses /\ MaxLosses \in Nat
  BY ConstantsAssumption DEF ShapeInv
<1> QED BY <1>1 DEF Loss, Kept

\* Hooks that change a call.
LEMMA HookTypes ==
  ASSUME ShapeInv, NEW c \in Calls, Before(c) \/ Track(c) \/ After(c) \/ Identified(c)
  PROVE  ShapeInv' /\ Onward
<1> DEFINE k == KeyOf(c)
<1>1. k \in Keys
  BY KeyFacts
<1>2. CASE Before(c)
  <2>1. SettledOK(settled')
    BY <1>1, <1>2, Unsettled, ShapeSettled DEF Before
  <2>2. ServerTypes'
    BY <1>2, ShapeTypes DEF Before, ServerTypes
  <2>3. PluginTypes'
    BY <1>2, <2>1, ShapeTypes DEF Before, PluginTypes, reports
  <2>4. reopened' \subseteq Keys /\ reopened \subseteq reopened'
    BY <1>1, <1>2 DEF Before, ShapeInv
  <2>5. GhostTypes' /\ Onward
    BY <1>2, <2>4, ShapeTypes DEF Before, GhostTypes, Onward, Undisturbed
  <2> QED BY <2>2, <2>3, <2>5, ShapeTypes
<1>3. CASE Track(c)
  <2>1. pending' \in [Keys -> Nat]
    <3>1. pending \in [Keys -> Nat]
      BY DEF ShapeInv
    <3>2. pending' = pending \/ pending' = [pending EXCEPT ![k] = pending[k] + 1]
      BY <1>3 DEF Track
    <3> QED BY <1>1, <3>1, <3>2
  <2>2. ServerTypes'
    BY <1>3, ShapeTypes DEF Track, ServerTypes
  <2>3. PluginTypes'
    BY <1>3, <2>1, ShapeTypes DEF Track, PluginTypes, reports
  <2>4. missed' \subseteq Keys
    BY <1>1, <1>3 DEF Track, ShapeInv
  <2>5. Loss \/ Kept
    BY <1>3 DEF Track
  <2>6. GhostTypes' /\ Onward
    BY <1>3, <2>4, <2>5, Losing, ShapeTypes DEF Track, GhostTypes, Onward, Undisturbed
  <2> QED BY <2>2, <2>3, <2>6, ShapeTypes
<1>4. CASE After(c)
  <2>1. pending' \in [Keys -> Nat]
    <3>1. pending \in [Keys -> Nat]
      BY DEF ShapeInv
    <3>2. pending' = pending \/ (pending[k] > 0 /\ pending' = [pending EXCEPT ![k] = pending[k] - 1])
      BY <1>4 DEF After
    <3> QED BY <1>1, <3>1, <3>2
  <2>2. sent' \in [Keys -> [succeeded : Nat, failed : Nat]]
    BY <1>4, ReportParts, ShapeTypes DEF After, PluginTypes
  <2>3. ServerTypes'
    BY <1>4, ShapeTypes DEF After, ServerTypes
  <2>4. PluginTypes'
    BY <1>4, <2>1, <2>2, ShapeTypes DEF After, PluginTypes
  <2>5. GhostTypes' /\ Onward
    BY <1>4, ShapeTypes DEF After, GhostTypes, Onward, Undisturbed, ghosts
  <2> QED BY <2>3, <2>4, <2>5, ShapeTypes
<1>5. CASE Identified(c)
  <2>1. sent' \in [Keys -> [succeeded : Nat, failed : Nat]]
    BY <1>5, ReportParts, ShapeTypes DEF Identified, PluginTypes
  <2>2. ServerTypes'
    BY <1>5, ShapeTypes DEF Identified, ServerTypes
  <2>3. PluginTypes'
    BY <1>5, <2>1, ShapeTypes DEF Identified, PluginTypes, calls
  <2>4. Loss \/ Kept
    BY <1>5 DEF Identified
  <2>5. GhostTypes' /\ Onward
    BY <1>5, <2>4, Losing, ShapeTypes DEF Identified, GhostTypes, Onward, Undisturbed
  <2> QED BY <2>2, <2>3, <2>5, ShapeTypes
<1> QED BY <1>2, <1>3, <1>4, <1>5

LEMMA EventTypes ==
  /\ \A k \in Keys : <<"failed", k>> \in EventSet
  /\ \A e \in Prompts : \A type \in {"enqueued", "cancelled", "delivered"} : <<type, e>> \in EventSet
  /\ <<"reverted", Code>> \in EventSet
BY DEF EventSet

\* What the server does without a hook.
LEMMA ServerStepTypes ==
  ASSUME ShapeInv,
         \/ FailCode \/ Revert
         \/ \E c \in Calls : Late(c) \/ \E result \in {"completed", "error", "denied"} : End(c, result)
         \/ \E e \in Prompts : Prompt(e)
  PROVE  ShapeInv' /\ Onward
<1>1. CASE FailCode
  <2>1. stream' \in Seq(EventSet)
    BY <1>1, EventTypes, KeyFacts, Published DEF FailCode
  <2>2. ServerTypes' /\ PluginTypes' /\ GhostTypes' /\ Onward
    BY <1>1, <2>1, KeyFacts, ShapeTypes
    DEF FailCode, ServerTypes, PluginTypes, GhostTypes, Onward, Undisturbed, calls, reports, ghosts
  <2> QED BY <2>2, ShapeTypes
<1>2. CASE Revert
  <2>1. stream' \in Seq(EventSet)
    BY <1>2, EventTypes, Published DEF Revert
  <2>2. ServerTypes' /\ PluginTypes' /\ GhostTypes' /\ Onward
    BY <1>2, <2>1, ShapeTypes
    DEF Revert, ServerTypes, PluginTypes, GhostTypes, Onward, Undisturbed, server, calls, reports, ghosts
  <2> QED BY <2>2, ShapeTypes
<1>3. ASSUME NEW c \in Calls, Late(c)
      PROVE  ShapeInv' /\ Onward
  <2>1. c \in Keys
    BY <1>3, KeyFacts DEF Late
  <2>2. stream' \in Seq(EventSet)
    BY <1>3, <2>1, EventTypes, Published DEF Late
  <2>3. ServerTypes' /\ PluginTypes' /\ GhostTypes' /\ Onward
    BY <1>3, <2>1, <2>2, ShapeTypes
    DEF Late, ServerTypes, PluginTypes, GhostTypes, Onward, Undisturbed, calls, reports, ghosts
  <2> QED BY <2>3, ShapeTypes
<1>4. ASSUME NEW c \in Calls, NEW result \in {"completed", "error", "denied"}, End(c, result)
      PROVE  ShapeInv' /\ Onward
  <2>1. stream' \in Seq(EventSet) /\ published' \subseteq Keys
    <3>1. CASE UNCHANGED <<stream, published>>
      BY <3>1, ShapeTypes DEF ServerTypes, PluginTypes
    <3>2. CASE c \in Direct /\ Publish(<<"failed", c>>) /\ published' = published \cup {c}
      <4>1. c \in Keys /\ <<"failed", c>> \in EventSet
        BY <3>2, KeyFacts, EventTypes
      <4> QED BY <3>2, <4>1, Published, ShapeTypes DEF ServerTypes
    <3> QED BY <1>4, <3>1, <3>2 DEF End
  <2>2. ServerTypes'
    BY <1>4, <2>1, ShapeTypes DEF End, ServerTypes
  <2>3. PluginTypes'
    BY <1>4, <2>1, ShapeTypes DEF End, PluginTypes, calls, reports
  <2>4. GhostTypes' /\ Onward
    BY <1>4, ShapeTypes DEF End, GhostTypes, Onward, Undisturbed, ghosts
  <2> QED BY <2>2, <2>3, <2>4, ShapeTypes
<1>5. ASSUME NEW e \in Prompts, Prompt(e)
      PROVE  ShapeInv' /\ Onward
  <2>1. \E type \in {"enqueued", "cancelled", "delivered"} : Publish(<<type, e>>)
    BY <1>5 DEF Prompt
  <2>2. stream' \in Seq(EventSet)
    BY <2>1, EventTypes, Published
  <2>3. ServerTypes'
    BY <1>5, ShapeTypes DEF Prompt, ServerTypes
  <2>4. PluginTypes' /\ GhostTypes' /\ Onward
    BY <1>5, <2>2, ShapeTypes DEF Prompt, PluginTypes, GhostTypes, Onward, Undisturbed, calls, reports, ghosts
  <2> QED BY <2>3, <2>4, ShapeTypes
<1> QED BY <1>1, <1>2, <1>3, <1>4, <1>5

LEMMA CodeTypes ==
  ASSUME ShapeInv, BeforeCode \/ AfterCode
  PROVE  ShapeInv' /\ Onward
<1>1. Code \in Keys
  BY KeyFacts
<1>2. CASE BeforeCode
  <2>1. SettledOK(settled')
    BY <1>1, <1>2, Unsettled, ShapeSettled DEF BeforeCode
  <2>2. ServerTypes'
    BY <1>2, ShapeTypes DEF BeforeCode, ServerTypes
  <2>3. PluginTypes'
    BY <1>2, <2>1, ShapeTypes DEF BeforeCode, PluginTypes, reports
  <2>4. GhostTypes' /\ Onward
    BY <1>2, ShapeTypes DEF BeforeCode, GhostTypes, Onward, Undisturbed, ghosts
  <2> QED BY <2>2, <2>3, <2>4, ShapeTypes
<1>3. CASE AfterCode
  <2>1. /\ SettledOK(settled') /\ reopened' \subseteq Keys /\ reopened \subseteq reopened' /\ activeCode' \in BOOLEAN
        /\ sent' \in [Keys -> [succeeded : Nat, failed : Nat]] /\ pending' \in [Keys -> Nat]
    <3>1. CASE IsSettled(Code)
      BY <1>3, <3>1, ShapeTypes DEF AfterCode, PluginTypes, GhostTypes, calls
    <3>2. CASE ~IsSettled(Code)
      <4>1. FailPending(Code) /\ activeCode' = FALSE /\ Settle(Code)
        BY <1>3, <3>2 DEF AfterCode
      <4> QED BY <1>1, <4>1, PendingFailed, SettleParts
    <3> QED BY <3>1, <3>2
  <2>2. ServerTypes'
    BY <1>3, ShapeTypes DEF AfterCode, ServerTypes
  <2>3. PluginTypes'
    BY <1>3, <2>1, ShapeTypes DEF AfterCode, PluginTypes
  <2>4. GhostTypes' /\ Onward
    BY <1>3, <2>1, ShapeTypes DEF AfterCode, GhostTypes, Onward, Undisturbed
  <2> QED BY <2>2, <2>3, <2>4, ShapeTypes
<1> QED BY <1>2, <1>3

LEMMA FailureTypes ==
  ASSUME ShapeInv, ToolFailed
  PROVE  ShapeInv' /\ Onward /\ Subject \in Keys
<1>1. Subject \in Keys /\ stream' \in Seq(EventSet)
  <2>1. <<"failed", Subject>> \in EventSet /\ stream' \in Seq(EventSet)
    BY Handled DEF ToolFailed
  <2> QED BY <2>1 DEF EventSet
<1>2. SettledOK(settled') /\ reopened' \subseteq Keys /\ reopened \subseteq reopened'
  <2>1. CASE pending[Subject] > 0
    BY <1>1, <2>1, SettleParts DEF ToolFailed
  <2>2. CASE ~(pending[Subject] > 0)
    BY <2>2, ShapeTypes DEF ToolFailed, PluginTypes, GhostTypes
  <2> QED BY <2>1, <2>2
<1>3. sent' \in [Keys -> [succeeded : Nat, failed : Nat]] /\ pending' \in [Keys -> Nat]
  BY <1>1, PendingFailed DEF ToolFailed
<1>4. ServerTypes'
  BY ShapeTypes DEF ToolFailed, ServerTypes, server
<1>5. PluginTypes'
  BY <1>1, <1>2, <1>3, ShapeTypes DEF ToolFailed, PluginTypes
<1>6. GhostTypes' /\ Onward
  BY <1>2, ShapeTypes DEF ToolFailed, GhostTypes, Onward, Undisturbed, server
<1> QED BY <1>1, <1>4, <1>5, <1>6, ShapeTypes

\* The observer at a prompt: the calls do not matter.
PromptStep == Enqueued \/ Forgotten \/ Delivered \/ Context \/ Reconnect

LEMMA Activated ==
  ASSUME ShapeInv, NEW e \in Prompts, Activate(e)
  PROVE  /\ activated' \in [Prompts -> Nat] /\ \A d \in Prompts \ {e} : activated'[d] = activated[d]
         /\ activated'[e] = IF stopped THEN activated[e] ELSE activated[e] + 1
<1>1. activated \in [Prompts -> Nat]
  BY DEF ShapeInv
<1> QED BY <1>1 DEF Activate

LEMMA PromptTypes ==
  ASSUME ShapeInv, PromptStep
  PROVE  ShapeInv' /\ Onward
<1>1. UNCHANGED <<server, calls, stopped, sent, missed, reopened>>
  BY DEF PromptStep, Enqueued, Forgotten, Delivered, Context, Reconnect, reports, ghosts
<1>2. /\ stream' \in Seq(EventSet) /\ observer' \in {"up", "down"} \cup Prompts /\ inbox' \subseteq Prompts
      /\ activated' \in [Prompts -> Nat] /\ losses' \in 0 .. MaxLosses /\ (losses' = 0 => losses = 0)
  <2>1. /\ stream \in Seq(EventSet) /\ observer \in {"up", "down"} \cup Prompts /\ inbox \subseteq Prompts
        /\ activated \in [Prompts -> Nat] /\ losses \in 0 .. MaxLosses
    BY ShapeTypes DEF PluginTypes, GhostTypes
  <2>2. CASE Enqueued
    <3>1. stream' \in Seq(EventSet) /\ <<"enqueued", Subject>> \in EventSet
      BY <2>2, Handled DEF Enqueued
    <3>2. Subject \in Prompts
      BY <3>1 DEF EventSet
    <3> QED BY <2>1, <2>2, <3>1, <3>2 DEF Enqueued, reports, ghosts
  <2>3. CASE Forgotten
    <3>1. stream' \in Seq(EventSet)
      BY <2>3, Handled DEF Forgotten
    <3> QED BY <2>1, <2>3, <3>1 DEF Forgotten, reports, ghosts
  <2>4. CASE Delivered
    <3>1. stream' \in Seq(EventSet) /\ <<"delivered", Subject>> \in EventSet
      BY <2>4, Handled DEF Delivered
    <3>2. Subject \in Prompts
      BY <3>1 DEF EventSet
    <3>3. activated' \in [Prompts -> Nat]
      BY <2>1, <2>4, <3>2, Activated DEF Delivered
    <3> QED BY <2>1, <2>4, <3>1, <3>2, <3>3 DEF Delivered, ghosts
  <2>5. CASE Context
    <3>1. activated' \in [Prompts -> Nat]
      BY <2>1, <2>5, Activated DEF Context
    <3>2. Loss \/ Kept
      BY <2>5 DEF Context
    <3> QED BY <2>1, <2>5, <3>1, <3>2, Losing DEF Context
  <2>6. CASE Reconnect
    BY <2>1, <2>6 DEF Reconnect, reports, ghosts
  <2> QED BY <2>2, <2>3, <2>4, <2>5, <2>6 DEF PromptStep
<1>3. ServerTypes' /\ GhostTypes' /\ Onward
  BY <1>1, <1>2, ShapeTypes DEF ServerTypes, GhostTypes, Onward, Undisturbed, server
<1>4. PluginTypes'
  BY <1>1, <1>2, ShapeTypes DEF PluginTypes, calls
<1> QED BY <1>3, <1>4, ShapeTypes

LEMMA EmptyTypes ==
  /\ NoCalls \in [Keys -> Nat] /\ \A k \in Keys : NoCalls[k] = 0
  /\ <<>> \in Seq(EventSet) /\ SettledOK(<<>>) /\ Range(<<>>) = {}
<1>1. NoCalls \in [Keys -> Nat] /\ \A k \in Keys : NoCalls[k] = 0
  BY DEF NoCalls
<1>2. <<>> \in Seq(EventSet) /\ <<>> \in Seq(Keys) /\ Len(<<>>) = 0 /\ DOMAIN <<>> = {}
  BY EmptySeq
<1>3. Distinct(<<>>) /\ Range(<<>>) = {}
  BY <1>2 DEF Distinct, Range
<1> QED BY <1>1, <1>2, <1>3, ConstantsAssumption DEF SettledOK

LEMMA CutTypes ==
  ASSUME ShapeInv, Disconnect \/ Stop
  PROVE  ShapeInv' /\ Onward
<1>1. CASE Disconnect
  <2>1. ServerTypes'
    BY <1>1, ShapeTypes DEF Disconnect, ServerTypes, server
  <2>2. PluginTypes'
    BY <1>1, EmptyTypes, ShapeTypes DEF Disconnect, PluginTypes, reports
  <2>3. Loss
    BY <1>1 DEF Disconnect
  <2>4. GhostTypes' /\ Onward
    BY <1>1, <2>3, Losing, ShapeTypes DEF Disconnect, GhostTypes, Onward, Undisturbed, server
  <2> QED BY <2>1, <2>2, <2>4, ShapeTypes
<1>2. CASE Stop
  <2>1. ServerTypes'
    BY <1>2, ShapeTypes DEF Stop, ServerTypes, server
  <2>2. PluginTypes'
    BY <1>2, EmptyTypes, ShapeTypes DEF Stop, PluginTypes, reports
  <2>3. GhostTypes' /\ Onward
    BY <1>2, ShapeTypes DEF Stop, GhostTypes, Onward, Undisturbed, server, ghosts
  <2> QED BY <2>1, <2>2, <2>3, ShapeTypes
<1> QED BY <1>1, <1>2

LEMMA Typing ==
  ASSUME ShapeInv, Next
  PROVE  ShapeInv' /\ Onward
BY HookTypes, ServerStepTypes, CodeTypes, FailureTypes, PromptTypes, CutTypes DEF Next, PromptStep

-----------------------------------------------------------------------------
(* The invariant, one call and one key at a time, and what leaves it alone *)

CallOf(c) ==
  /\ call[c] \in {"unused", "new", "before"} => outcome[c] = "none"
  /\ call[c] = "after" => outcome[c] \in {"completed", "error"} /\ Mcp(c)
  /\ call[c] = "over" => outcome[c] # "none"
  /\ c \in Nested => /\ outer = "new" => call[c] \in {"unused", "new"}
                     /\ outer = "over" => call[c] \in {"unused", "new", "over"}

CountOf(k) ==
  /\ pending[k] <= Cardinality(Run(k)) /\ sent[k].succeeded <= Cardinality(Done(k))
  /\ k \notin reopened => /\ Total(k) + pending[k] <= Cardinality(Run(k))
                          /\ ~IsSettled(k) /\ ~stopped => Total(k) <= Cardinality(Over(k))
  /\ k \notin reopened /\ Undisturbed /\ (k = Code \/ Mcp(k)) => Total(k) + pending[k] = Cardinality(Run(k))

DirectOf(k) ==
  /\ sent[k].failed > 0 \/ IsSettled(k) \/ Awaited("failed", k) => outcome[k] \in {"error", "denied"}
  /\ IsSettled(k) => pending[k] = 0
  /\ ~Mcp(k) => /\ pending[k] = 0 /\ ~IsSettled(k)
                /\ Undisturbed => Total(k) = Cardinality(Done(k))
  /\ Undisturbed /\ call[k] = "over" /\ pending[k] > 0 => Awaited("failed", k)

LEMMA PartsByKey ==
  /\ CallInv <=> \A c \in Calls : CallOf(c)
  /\ CountInv <=> \A k \in Keys : CountOf(k)
  /\ DirectInv <=> \A k \in Direct : DirectOf(k)
BY DEF CallInv, CountInv, DirectInv, CallOf, CountOf, DirectOf

LEMMA PartsByKeyNext ==
  /\ CallInv' <=> \A c \in Calls : CallOf(c)'
  /\ CountInv' <=> \A k \in Keys : CountOf(k)'
  /\ DirectInv' <=> \A k \in Direct : DirectOf(k)'
BY DEF CallInv, CountInv, DirectInv, CallOf, CountOf, DirectOf

LEMMA CardinalityNext ==
  ASSUME NEW k
  PROVE  /\ Cardinality(Run(k))' = Cardinality(Run(k)') /\ Cardinality(Over(k))' = Cardinality(Over(k)')
         /\ Cardinality(Done(k))' = Cardinality(Done(k)')
OBVIOUS

LEMMA CountNext ==
  ASSUME NEW k,
         pending'[k] <= Cardinality(Run(k)'), sent'[k].succeeded <= Cardinality(Done(k)'),
         k \notin reopened' => Total(k)' + pending'[k] <= Cardinality(Run(k)'),
         k \notin reopened' /\ ~IsSettled(k)' /\ ~stopped' => Total(k)' <= Cardinality(Over(k)'),
         k \notin reopened' /\ Undisturbed' /\ (k = Code \/ Mcp(k)') => Total(k)' + pending'[k] = Cardinality(Run(k)')
  PROVE  CountOf(k)'
BY CardinalityNext DEF CountOf

LEMMA CallStays ==
  ASSUME NEW c \in Calls, CallOf(c), call'[c] = call[c], outcome'[c] = outcome[c], kind' = kind,
         c \in Nested => (outer' = "new" => outer = "new") /\ (outer' = "over" => outer = "over")
  PROVE  CallOf(c)'
BY DEF CallOf, Mcp

LEMMA CountStays ==
  ASSUME NEW k \in Keys, CountOf(k), Onward, pending'[k] = pending[k], sent'[k] = sent[k],
         Run(k)' = Run(k), Over(k)' = Over(k), Done(k)' = Done(k),
         k \notin reopened' => (IsSettled(k) => IsSettled(k)')
  PROVE  CountOf(k)'
BY DEF CountOf, Onward, Total, Mcp

LEMMA DirectStays ==
  ASSUME NEW k \in Direct, DirectOf(k), Onward, pending'[k] = pending[k], sent'[k] = sent[k],
         call'[k] = "over" => call[k] = "over", outcome'[k] = outcome[k], Done(k)' = Done(k),
         IsSettled(k)' => IsSettled(k), Awaited("failed", k)' <=> Awaited("failed", k)
  PROVE  DirectOf(k)'
BY DEF DirectOf, Onward, Total, Mcp

LEMMA CodeStays ==
  ASSUME CodeInv, Onward, UNCHANGED <<outer, activeCode>>, pending'[Code] = pending[Code], sent'[Code] = sent[Code],
         missed \subseteq missed', Done(Code)' = Done(Code), IsSettled(Code)' => IsSettled(Code),
         Awaited("failed", Code)' <=> Awaited("failed", Code)
  PROVE  CodeInv'
BY CardinalityNext DEF CodeInv, Onward

\* The parts about calls.
CallsPart == CallInv /\ CountInv /\ DirectInv /\ CodeInv

\* Steps that concern only prompts.
LEMMA CallsApart ==
  ASSUME ShapeInv, CallsPart, Onward, UNCHANGED <<call, outcome, outer, calls, sent, missed, reopened>>,
         \A k : Awaited("failed", k)' <=> Awaited("failed", k)
  PROVE  CallsPart'
<1>1. UNCHANGED <<pending, activeCode, settled>> /\ \A k : IsSettled(k)' <=> IsSettled(k)
  BY DEF calls, IsSettled
<1>2. \A k : Run(k)' = Run(k) /\ Over(k)' = Over(k) /\ Done(k)' = Done(k)
  BY SameCalls
<1>3. CallInv'
  BY PartsByKey, PartsByKeyNext, CallStays DEF CallsPart, Onward
<1>4. CountInv'
  BY <1>1, <1>2, PartsByKey, PartsByKeyNext, CountStays DEF CallsPart
<1>5. DirectInv'
  BY <1>1, <1>2, PartsByKey, PartsByKeyNext, DirectStays DEF CallsPart
<1>6. CodeInv'
  BY <1>1, <1>2 DEF CallsPart, CodeInv, Onward
<1> QED BY <1>3, <1>4, <1>5, <1>6 DEF CallsPart

LEMMA PromptCalls ==
  ASSUME ShapeInv, CallsPart, Onward, PromptStep \/ Revert \/ \E e \in Prompts : Prompt(e)
  PROVE  CallsPart'
<1>1. UNCHANGED <<call, outcome, outer, calls, sent, missed, reopened>>
  BY DEF PromptStep, Enqueued, Forgotten, Delivered, Context, Reconnect, Revert, Prompt, server, reports, ghosts
<1>2. \A k : Awaited("failed", k)' <=> Awaited("failed", k)
  <2>1. CASE \E type \in {"enqueued", "cancelled", "delivered", "reverted"} : Handling(type)
    <3>1. PICK type \in {"enqueued", "cancelled", "delivered", "reverted"} : Handling(type)
      BY <2>1
    <3>2. \A k : <<"failed", k>> # <<type, Subject>>
      OBVIOUS
    <3> QED BY <3>1, <3>2, Handled
  <2>2. CASE stream' = stream
    BY <2>2 DEF Awaited
  <2>3. CASE Revert
    BY <2>3, EventTypes, Published DEF Revert
  <2>4. ASSUME NEW e \in Prompts, Prompt(e)
        PROVE  \A k : Awaited("failed", k)' <=> Awaited("failed", k)
    <3>1. PICK type \in {"enqueued", "cancelled", "delivered"} : Publish(<<type, e>>)
      BY <2>4 DEF Prompt
    <3>2. \A k : <<"failed", k>> # <<type, e>>
      OBVIOUS
    <3> QED BY <3>1, <3>2, EventTypes, Published
  <2>5. PromptStep => stream' = stream \/ \E type \in {"enqueued", "cancelled", "delivered", "reverted"} : Handling(type)
    BY DEF PromptStep, Enqueued, Forgotten, Delivered, Context, Reconnect
  <2> QED BY <2>1, <2>2, <2>3, <2>4, <2>5
<1> QED BY <1>1, <1>2, CallsApart

-----------------------------------------------------------------------------
(* The parts about calls, one lemma per action *)

LEMMA Numbers ==
  ASSUME ShapeInv, NEW k \in Keys
  PROVE  pending[k] \in Nat /\ sent[k].succeeded \in Nat /\ sent[k].failed \in Nat
BY DEF ShapeInv

LEMMA BeforeCalls ==
  ASSUME ShapeInv, CallsPart, Onward, NEW c \in Calls, Before(c)
  PROVE  CallsPart'
<1>k. PICK k : k = KeyOf(c)
  OBVIOUS
<1>1. /\ k = KeyOf(c)
      /\ call[c] = "new" /\ call' = [call EXCEPT ![c] = "before"] /\ outcome' = outcome
      /\ UNCHANGED <<outer, pending, activeCode, stream, sent, missed>>
      /\ (c \in Nested => outer \in {"running", "failed"}) /\ k \in Keys
  BY <1>k, KeyFacts DEF Before, reports
<1>2. /\ \A j : Run(j)' = Run(j) /\ Over(j)' = Over(j) /\ Done(j)' = Done(j)
      /\ call'[c] = "before" /\ \A d \in Calls \ {c} : call'[d] = call[d]
  <2>1. c \notin Run(k) /\ c \notin Over(k) /\ c \notin Done(k)
    BY <1>1 DEF Run, Over, Done
  <2>2. /\ call'[c] = "before" /\ \A d \in Calls \ {c} : call'[d] = call[d]
        /\ \A j : j # k => Run(j)' = Run(j) /\ Over(j)' = Over(j) /\ Done(j)' = Done(j)
        /\ Run(k)' = Run(k) \ {c} /\ Over(k)' = Over(k) \ {c} /\ Done(k)' = Done(k) \ {c}
    BY <1>1, OneCall
  <2>3. Run(k)' = Run(k) /\ Over(k)' = Over(k) /\ Done(k)' = Done(k)
    BY <2>1, <2>2
  <2> QED BY <2>2, <2>3
<1>3. \A j \in Keys : (IsSettled(j)' => IsSettled(j)) /\ (j \notin reopened' => (IsSettled(j) => IsSettled(j)'))
  <2>1. CASE settled' = settled
    BY <2>1 DEF IsSettled
  <2>2. CASE settled' = Unsettle(k) /\ reopened' = IF IsSettled(k) THEN reopened \cup {k} ELSE reopened
    <3>1. Range(settled') = Range(settled) \ {k}
      BY <1>1, <2>2, Unsettled
    <3> QED BY <2>2, <3>1 DEF IsSettled
  <2> QED BY <1>1, <2>1, <2>2 DEF Before
<1>4. \A j : Awaited("failed", j)' <=> Awaited("failed", j)
  BY <1>1 DEF Awaited
<1>5. CallInv'
  <2>1. CallOf(c)'
    BY <1>1, <1>2, PartsByKey DEF CallsPart, CallOf
  <2>2. \A d \in Calls \ {c} : CallOf(d)'
    BY <1>1, <1>2, PartsByKey, CallStays DEF CallsPart, Onward
  <2> QED BY <2>1, <2>2, PartsByKeyNext
<1>6. CountInv'
  BY <1>1, <1>2, <1>3, PartsByKey, PartsByKeyNext, CountStays DEF CallsPart
<1>7. DirectInv'
  BY <1>1, <1>2, <1>3, <1>4, KeyFacts, PartsByKey, PartsByKeyNext, DirectStays DEF CallsPart
<1>8. CodeInv'
  BY <1>1, <1>2, <1>3, <1>4, KeyFacts DEF CallsPart, CodeInv, Onward
<1> QED BY <1>5, <1>6, <1>7, <1>8 DEF CallsPart

LEMMA TrackCalls ==
  ASSUME ShapeInv, CallsPart, Onward, NEW c \in Calls, Track(c)
  PROVE  CallsPart'
<1>k. PICK k : k = KeyOf(c)
  OBVIOUS
<1>1. /\ k = KeyOf(c)
      /\ call[c] = "before" /\ call' = [call EXCEPT ![c] = "running"] /\ outcome' = outcome
      /\ UNCHANGED <<outer, activeCode, settled, stream, sent, reopened>> /\ k \in Keys
  BY <1>k, KeyFacts DEF Track, reports
<1>2. /\ \A j : j # k => Run(j)' = Run(j)
      /\ \A j : Over(j)' = Over(j) /\ Done(j)' = Done(j)
      /\ call'[c] = "running" /\ \A d \in Calls \ {c} : call'[d] = call[d]
      /\ Cardinality(Run(k)') = Cardinality(Run(k)) + 1
  <2>1. c \notin Run(k) /\ c \notin Over(k) /\ c \notin Done(k)
    BY <1>1 DEF Run, Over, Done
  <2>2. /\ call'[c] = "running" /\ \A d \in Calls \ {c} : call'[d] = call[d]
        /\ \A j : j # k => Run(j)' = Run(j) /\ Over(j)' = Over(j) /\ Done(j)' = Done(j)
        /\ Run(k)' = Run(k) \cup {c} /\ Over(k)' = Over(k) \ {c} /\ Done(k)' = Done(k) \ {c}
    BY <1>1, OneCall
  <2>3. Cardinality(Run(k) \cup {c}) = Cardinality(Run(k)) + 1
    BY <2>1, Counts, AddCall
  <2>4. Over(k)' = Over(k) /\ Done(k)' = Done(k)
    BY <2>1, <2>2
  <2> QED BY <2>2, <2>3, <2>4
<1>3. /\ \A j : IsSettled(j)' <=> IsSettled(j)
      /\ \A j : Awaited("failed", j)' <=> Awaited("failed", j)
  BY <1>1 DEF Awaited, IsSettled
<1>4. outcome[c] = "none" /\ (c \in Nested => outer \notin {"new", "over"})
  BY <1>1, PartsByKey DEF CallsPart, CallOf
<1>5. /\ \A j \in Keys \ {k} : pending'[j] = pending[j]
      /\ pending'[k] = pending[k] \/ (pending'[k] = pending[k] + 1 /\ Mcp(c))
      /\ Undisturbed' /\ Mcp(c) => pending'[k] = pending[k] + 1
      /\ Undisturbed' /\ k = Code /\ outer \in {"failed", "failed over"} /\ ~activeCode => Code \in missed'
      /\ missed \subseteq missed'
  <2>1. pending \in [Keys -> Nat] /\ losses \in 0 .. MaxLosses
    BY DEF ShapeInv
  <2>2. CASE Loss /\ UNCHANGED <<pending, missed>>
    <3>1. losses' # 0
      BY <2>1, <2>2 DEF Loss
    <3> QED BY <2>2, <3>1 DEF Undisturbed
  <2>3. CASE /\ Kept /\ pending' = IF Mcp(c) THEN [pending EXCEPT ![k] = @ + 1] ELSE pending
             /\ missed' = IF k = Code /\ outer \in {"failed", "failed over"} /\ ~activeCode THEN missed \cup {k} ELSE missed
    BY <1>1, <2>1, <2>3
  <2> QED BY <2>2, <2>3, <1>1 DEF Track
<1>6. CallInv'
  <2>1. CallOf(c)'
    BY <1>1, <1>2, <1>4 DEF CallOf
  <2>2. \A d \in Calls \ {c} : CallOf(d)'
    BY <1>1, <1>2, PartsByKey, CallStays DEF CallsPart, Onward
  <2> QED BY <2>1, <2>2, PartsByKeyNext
<1>7. CountInv'
  <2>1. \A j \in Keys \ {k} : CountOf(j)'
    BY <1>1, <1>2, <1>3, <1>5, PartsByKey, CountStays DEF CallsPart
  <2>2. CountOf(k)'
    <3>1. CountOf(k) /\ Cardinality(Run(k)) \in Nat /\ Total(k)' = Total(k) /\ Total(k) \in Nat /\ pending[k] \in Nat
      BY <1>1, PartsByKey, Counts, Numbers DEF CallsPart, Total
    <3>2. k = Code \/ Mcp(k) => Mcp(c)
      BY <1>1, KeyFacts DEF Calls, KeyOf, Mcp
    <3>3. Mcp(k)' = Mcp(k) /\ (Undisturbed' => Undisturbed) /\ (~stopped' => ~stopped) /\ reopened' = reopened
      BY <1>1 DEF Onward, Mcp
    <3>a. Cardinality(Run(k)') = Cardinality(Run(k)) + 1
      BY <1>2
    <3>b. pending'[k] = pending[k] \/ (pending'[k] = pending[k] + 1 /\ Mcp(c))
      BY <1>5
    <3>c. pending[k] <= Cardinality(Run(k)) /\ (k \notin reopened => Total(k) + pending[k] <= Cardinality(Run(k)))
      BY <3>1 DEF CountOf
    <3>4. pending'[k] <= Cardinality(Run(k)')
      BY <3>a, <3>b, <3>c, <3>1
    <3>5. sent'[k].succeeded <= Cardinality(Done(k)')
      BY <1>1, <1>2, <3>1 DEF CountOf
    <3>6. k \notin reopened' => Total(k)' + pending'[k] <= Cardinality(Run(k)')
      BY <3>a, <3>b, <3>c, <3>1, <3>3
    <3>8. k \notin reopened' /\ ~IsSettled(k)' /\ ~stopped' => Total(k)' <= Cardinality(Over(k)')
      BY <1>2, <1>3, <1>5, <3>1, <3>3 DEF CountOf
    <3>7. k \notin reopened' /\ Undisturbed' /\ (k = Code \/ Mcp(k)') => Total(k)' + pending'[k] = Cardinality(Run(k)')
      <4>1. Undisturbed' /\ Mcp(c) => pending'[k] = pending[k] + 1
        BY <1>5
      <4>2. k \notin reopened /\ Undisturbed /\ (k = Code \/ Mcp(k)) => Total(k) + pending[k] = Cardinality(Run(k))
        BY <3>1 DEF CountOf
      <4> QED BY <3>a, <3>1, <3>2, <3>3, <4>1, <4>2
    <3> QED BY <3>4, <3>5, <3>6, <3>7, <3>8, CountNext
  <2> QED BY <2>1, <2>2, PartsByKeyNext
<1>8. DirectInv'
  <2>1. \A j \in Direct \ {c} : DirectOf(j)'
    BY <1>1, <1>2, <1>3, <1>5, KeyFacts, PartsByKey, DirectStays DEF CallsPart, KeyOf
  <2>2. c \in Direct => DirectOf(c)'
    <3>1. c \in Direct => DirectOf(c) /\ k = c /\ Mcp(c)' = Mcp(c)
      BY <1>1, PartsByKey, KeyFacts DEF CallsPart, Onward, Mcp
    <3> QED BY <1>1, <1>2, <1>3, <1>4, <1>5, <3>1 DEF DirectOf, Onward, Total
  <2> QED BY <2>1, <2>2, PartsByKeyNext
<1>9. CodeInv'
  <2>1. Undisturbed' /\ Code \notin missed' /\ ~activeCode' => pending'[Code] = 0
    <3>1. k = Code => c \in Nested
      BY <1>1, KeyFacts DEF Calls
    <3>2. outer \in {"new", "running", "failed", "failed over", "over"}
      BY DEF ShapeInv
    <3> QED BY <1>1, <1>4, <1>5, <3>1, <3>2, KeyFacts DEF CallsPart, CodeInv, Onward
  <2> QED BY <1>1, <1>2, <1>3, <2>1 DEF CallsPart, CodeInv, Onward
<1> QED BY <1>6, <1>7, <1>8, <1>9 DEF CallsPart

\* A step of one call leaves the other calls and keys alone.
LEMMA OneKey ==
  ASSUME ShapeInv, CallsPart, Onward, NEW c \in Calls, NEW k, k = KeyOf(c),
         \A d \in Calls \ {c} : call'[d] = call[d] /\ outcome'[d] = outcome[d],
         \A j : j # k => Run(j)' = Run(j) /\ Over(j)' = Over(j) /\ Done(j)' = Done(j),
         \A j \in Keys \ {k} : pending'[j] = pending[j] /\ sent'[j] = sent[j],
         \A j : j # c => (Awaited("failed", j)' <=> Awaited("failed", j)),
         UNCHANGED <<outer, settled, reopened>>,
         CallOf(c)', CountOf(k)', c \in Direct => DirectOf(c)', CodeInv'
  PROVE  CallsPart'
<1>1. \A j : IsSettled(j)' <=> IsSettled(j)
  BY DEF IsSettled
<1>2. \A d \in Calls \ {c} : CallOf(d)'
  BY PartsByKey, CallStays DEF CallsPart, Onward
<1>3. \A j \in Keys \ {k} : CountOf(j)'
  BY <1>1, PartsByKey, CountStays DEF CallsPart
<1>4. \A j \in Direct \ {c} : DirectOf(j)'
  <2> SUFFICES ASSUME NEW j \in Direct \ {c}
               PROVE  DirectOf(j)'
    OBVIOUS
  <2>1. j # k /\ j \in Keys \ {k} /\ j \in Calls \ {c}
    BY KeyFacts DEF KeyOf
  <2> QED BY <1>1, <2>1, PartsByKey, DirectStays DEF CallsPart
<1>5. k \in Keys
  BY KeyFacts
<1>6. CallInv'
  BY <1>2, PartsByKeyNext
<1>7. CountInv'
  BY <1>3, PartsByKeyNext
<1>8. DirectInv'
  BY <1>4, PartsByKeyNext
<1> QED BY <1>6, <1>7, <1>8 DEF CallsPart

LEMMA EndCalls ==
  ASSUME ShapeInv, CallsPart, PromptInv, Onward, NEW c \in Calls, NEW result \in {"completed", "error", "denied"},
         End(c, result)
  PROVE  CallsPart'
<1>k. PICK k : k = KeyOf(c)
  OBVIOUS
<1>1. /\ k = KeyOf(c) /\ k \in Keys /\ call[c] = "running" /\ outcome[c] = "none"
      /\ outcome' = [outcome EXCEPT ![c] = result]
      /\ call' = IF result = "denied" THEN [call EXCEPT ![c] = "over"] ELSE call
      /\ UNCHANGED <<outer, pending, activeCode, settled, stopped, sent, losses, missed, reopened>>
  BY <1>k, KeyFacts DEF End, calls, reports, ghosts
<1>2. outcome'[c] = result /\ \A d \in Calls \ {c} : outcome'[d] = outcome[d]
  BY <1>1 DEF ShapeInv
<1>3. /\ call'[c] = (IF result = "denied" THEN "over" ELSE "running") /\ \A d \in Calls \ {c} : call'[d] = call[d]
      /\ \A j : j # k => Run(j)' = Run(j) /\ Over(j)' = Over(j)
      /\ \A j : Done(j)' = Done(j)
      /\ Run(k)' = Run(k) /\ Cardinality(Over(k)) <= Cardinality(Over(k)')
  <2>1. c \in Run(k) /\ c \notin Over(k) /\ c \notin Done(k)
    BY <1>1 DEF Run, Over, Done, CallsOf
  <2>2. PICK s : s = IF result = "denied" THEN "over" ELSE "running"
    OBVIOUS
  <2>3. call' = [call EXCEPT ![c] = s]
    <3>1. call = [call EXCEPT ![c] = "running"]
      BY <1>1 DEF ShapeInv
    <3> QED BY <1>1, <2>2, <3>1
  <2>4. /\ call'[c] = s /\ \A d \in Calls \ {c} : call'[d] = call[d]
        /\ \A j : j # k => Run(j)' = Run(j) /\ Over(j)' = Over(j) /\ Done(j)' = Done(j)
        /\ Run(k)' = Run(k) \cup {c} /\ Over(k)' = (IF s = "over" THEN Over(k) \cup {c} ELSE Over(k) \ {c})
        /\ Done(k)' = IF s = "over" /\ outcome'[c] = "completed" THEN Done(k) \cup {c} ELSE Done(k) \ {c}
    BY <1>1, <1>2, <2>2, <2>3, OneCall
  <2>5. Done(k)' = Done(k) /\ Run(k)' = Run(k)
    BY <1>2, <2>1, <2>2, <2>4
  <2>6. Over(k)' = Over(k) \/ Over(k)' = Over(k) \cup {c}
    BY <2>1, <2>4
  <2>7. Cardinality(Over(k) \cup {c}) = Cardinality(Over(k)) + 1
    BY <2>1, Counts, AddCall
  <2>8. Cardinality(Over(k)) <= Cardinality(Over(k)')
    BY <2>6, <2>7, Counts
  <2> QED BY <2>2, <2>4, <2>5, <2>8
<1>4. /\ \A j : j # c => (Awaited("failed", j)' <=> Awaited("failed", j))
      /\ Awaited("failed", c)' => Awaited("failed", c) \/ result \in {"error", "denied"}
      /\ c \in Direct /\ result = "denied" /\ Undisturbed => Awaited("failed", c)'
  <2>1. CASE c \in Direct /\ result # "completed" /\ Publish(<<"failed", c>>)
    <3>1. <<"failed", c>> \in EventSet
      BY <2>1, KeyFacts, EventTypes
    <3>2. Undisturbed => observer # "down"
      <4>1. losses \in 0 .. MaxLosses
        BY DEF ShapeInv
      <4> QED BY <4>1 DEF PromptInv, Undisturbed
    <3>3. \A type, x : <<type, x>> # <<"failed", c>> => (Awaited(type, x)' <=> Awaited(type, x))
      BY <2>1, <3>1, Published
    <3>4. observer # "down" => Range(stream') = Range(stream) \cup {<<"failed", c>>}
      BY <2>1, <3>1, Published
    <3>5. \A j : j # c => <<"failed", j>> # <<"failed", c>>
      OBVIOUS
    <3>6. observer # "down" => Awaited("failed", c)'
      BY <3>4 DEF Awaited
    <3> QED BY <2>1, <3>2, <3>3, <3>5, <3>6
  <2>2. CASE stream' = stream /\ ~(c \in Direct /\ result = "denied")
    BY <2>2 DEF Awaited
  <2> QED BY <2>1, <2>2 DEF End
<1>5. CallOf(c)'
  BY <1>1, <1>2, <1>3, PartsByKey DEF CallsPart, CallOf
<1>6. CountOf(k)'
  <2>1. CountOf(k) /\ Total(k)' = Total(k) /\ Total(k) \in Nat
    BY <1>1, PartsByKey, Numbers DEF CallsPart, Total
  <2>2. (IsSettled(k)' <=> IsSettled(k)) /\ (Mcp(k)' <=> Mcp(k)) /\ (Undisturbed' <=> Undisturbed)
    BY <1>1 DEF IsSettled, Mcp, Onward, Undisturbed
  <2>3. k \notin reopened' /\ ~IsSettled(k)' /\ ~stopped' => Total(k)' <= Cardinality(Over(k)')
    <3>1. k \notin reopened' /\ ~IsSettled(k)' /\ ~stopped' => Total(k) <= Cardinality(Over(k))
      BY <1>1, <2>1, <2>2 DEF CountOf
    <3>2. Cardinality(Over(k)) \in Nat /\ Cardinality(Over(k)') \in Nat /\ Cardinality(Over(k)) <= Cardinality(Over(k)')
      <4>1. Over(k)' \subseteq Calls
        BY DEF Over, CallsOf
      <4> QED BY <1>3, <4>1, Counts, FiniteCalls
    <3> QED BY <2>1, <3>1, <3>2
  <2>4. pending'[k] <= Cardinality(Run(k)') /\ sent'[k].succeeded <= Cardinality(Done(k)')
    BY <1>1, <1>3, <2>1 DEF CountOf
  <2>5. k \notin reopened' => Total(k)' + pending'[k] <= Cardinality(Run(k)')
    BY <1>1, <1>3, <2>1 DEF CountOf
  <2>6. k \notin reopened' /\ Undisturbed' /\ (k = Code \/ Mcp(k)') => Total(k)' + pending'[k] = Cardinality(Run(k)')
    BY <1>1, <1>3, <2>1, <2>2 DEF CountOf
  <2> QED BY <2>3, <2>4, <2>5, <2>6, CountNext
<1>7. c \in Direct => DirectOf(c)'
  <2> SUFFICES ASSUME c \in Direct
               PROVE  DirectOf(c)'
    OBVIOUS
  <2>1. DirectOf(c) /\ k = c /\ Total(c)' = Total(c)
    BY <1>1, PartsByKey, KeyFacts DEF CallsPart, Total
  <2>2. (IsSettled(c)' <=> IsSettled(c)) /\ (Mcp(c)' <=> Mcp(c)) /\ (Undisturbed' <=> Undisturbed)
    BY <1>1 DEF IsSettled, Mcp, Onward, Undisturbed
  <2> QED BY <1>1, <1>2, <1>3, <1>4, <2>1, <2>2, CardinalityNext DEF DirectOf
<1>8. CodeInv'
  <2>1. Code # c
    BY KeyFacts, ConstantsAssumption DEF Calls
  <2>2. (IsSettled(Code)' <=> IsSettled(Code)) /\ (Awaited("failed", Code)' <=> Awaited("failed", Code))
    BY <1>1, <1>4, <2>1 DEF IsSettled
  <2> QED BY <1>1, <1>3, <2>2, CodeStays DEF CallsPart
<1> QED BY <1>1, <1>2, <1>3, <1>4, <1>5, <1>6, <1>7, <1>8, OneKey

LEMMA LateCalls ==
  ASSUME ShapeInv, CallsPart, Onward, NEW c \in Calls, Late(c)
  PROVE  CallsPart'
<1>k. PICK k : k = KeyOf(c)
  OBVIOUS
<1>1. /\ k = KeyOf(c) /\ k = c /\ k \in Keys /\ c \in Direct /\ c # Code /\ outcome[c] = "error"
      /\ UNCHANGED <<call, outcome, outer, pending, activeCode, settled, stopped, sent, losses, missed, reopened>>
  BY <1>k, KeyFacts DEF Late, calls, reports, ghosts
<1>2. \A j : j # c => (Awaited("failed", j)' <=> Awaited("failed", j))
  <2>1. <<"failed", c>> \in EventSet /\ Publish(<<"failed", c>>)
    BY <1>1, EventTypes DEF Late
  <2>2. \A j : j # c => <<"failed", j>> # <<"failed", c>>
    OBVIOUS
  <2> QED BY <2>1, <2>2, Published
<1>3. \A j : (IsSettled(j)' <=> IsSettled(j)) /\ Run(j)' = Run(j) /\ Over(j)' = Over(j) /\ Done(j)' = Done(j)
  BY <1>1, SameCalls DEF IsSettled
<1>4. CallOf(c)'
  BY <1>1, PartsByKey, CallStays DEF CallsPart, Onward
<1>5. CountOf(k)'
  BY <1>1, <1>3, PartsByKey, CountStays DEF CallsPart
<1>6. c \in Direct => DirectOf(c)'
  <2>1. DirectOf(c)
    BY <1>1, PartsByKey DEF CallsPart
  <2>2. (Undisturbed' <=> Undisturbed) /\ (Mcp(c)' <=> Mcp(c)) /\ Total(c)' = Total(c)
    BY <1>1 DEF Undisturbed, Onward, Mcp, Total
  <2>3. Awaited("failed", c) => Awaited("failed", c)'
    <3>1. <<"failed", c>> \in EventSet /\ Publish(<<"failed", c>>)
      BY <1>1, EventTypes DEF Late
    <3>2. observer = "down" => stream' = stream
      BY <3>1 DEF Publish
    <3> QED BY <3>1, <3>2, Published DEF Awaited
  <2> QED BY <1>1, <1>3, <2>1, <2>2, <2>3, CardinalityNext DEF DirectOf
<1>7. CodeInv'
  BY <1>1, <1>2, <1>3, CodeStays DEF CallsPart
<1> QED BY <1>1, <1>2, <1>3, <1>4, <1>5, <1>6, <1>7, OneKey

\* A call is over.
LEMMA CallOver ==
  ASSUME ShapeInv, NEW c \in Calls, NEW k, k = KeyOf(c), call[c] \in {"running", "after"},
         call' = [call EXCEPT ![c] = "over"], outcome' = outcome
  PROVE  /\ call'[c] = "over" /\ \A d \in Calls \ {c} : call'[d] = call[d]
         /\ \A j : j # k => Run(j)' = Run(j) /\ Over(j)' = Over(j) /\ Done(j)' = Done(j)
         /\ Cardinality(Run(k)') = Cardinality(Run(k)) + (IF call[c] = "running" THEN 0 ELSE 1)
         /\ Cardinality(Over(k)') = Cardinality(Over(k)) + 1
         /\ Cardinality(Done(k)') = Cardinality(Done(k)) + (IF outcome[c] = "completed" THEN 1 ELSE 0)
<1>1. (call[c] = "running" <=> c \in Run(k)) /\ c \notin Over(k) /\ c \notin Done(k)
  BY DEF Run, Over, Done, CallsOf
<1>2. /\ call'[c] = "over" /\ \A d \in Calls \ {c} : call'[d] = call[d]
      /\ \A j : j # k => Run(j)' = Run(j) /\ Over(j)' = Over(j) /\ Done(j)' = Done(j)
      /\ Run(k)' = Run(k) \cup {c} /\ Over(k)' = Over(k) \cup {c}
      /\ Done(k)' = IF outcome[c] = "completed" THEN Done(k) \cup {c} ELSE Done(k) \ {c}
  BY OneCall
<1>3. Cardinality(Over(k) \cup {c}) = Cardinality(Over(k)) + 1 /\ Cardinality(Done(k) \cup {c}) = Cardinality(Done(k)) + 1
  <2>1. Over(k) \in SUBSET Calls /\ Done(k) \in SUBSET Calls /\ c \in Calls \ Over(k) /\ c \in Calls \ Done(k)
    BY <1>1, Counts
  <2> QED BY <2>1, AddCall
<1>4. Cardinality(Run(k)) \in Nat /\ Cardinality(Done(k)) \in Nat
  BY Counts
<1>5. Cardinality(Done(k)') = Cardinality(Done(k)) + (IF outcome[c] = "completed" THEN 1 ELSE 0)
  <2>1. CASE outcome[c] = "completed"
    BY <1>2, <1>3, <2>1
  <2>2. CASE outcome[c] # "completed"
    <3>1. Done(k)' = Done(k)
      BY <1>1, <1>2, <2>2
    <3> QED BY <1>4, <2>2, <3>1
  <2> QED BY <2>1, <2>2
<1>6. Cardinality(Run(k)') = Cardinality(Run(k)) + (IF call[c] = "running" THEN 0 ELSE 1)
  <2>1. CASE call[c] = "running"
    <3>1. Run(k)' = Run(k)
      BY <1>1, <1>2, <2>1
    <3> QED BY <1>4, <2>1, <3>1
  <2>2. CASE call[c] # "running"
    <3>1. Cardinality(Run(k) \cup {c}) = Cardinality(Run(k)) + 1
      BY <1>1, <2>2, Counts, AddCall
    <3> QED BY <1>2, <2>2, <3>1
  <2> QED BY <2>1, <2>2
<1> QED BY <1>2, <1>3, <1>5, <1>6

LEMMA IdentifiedCalls ==
  ASSUME ShapeInv, CallsPart, Onward, NEW c \in Calls, Identified(c)
  PROVE  CallsPart'
<1>k. PICK k : k = KeyOf(c)
  OBVIOUS
<1>1. /\ k = KeyOf(c) /\ k \in Keys /\ call[c] = "after" /\ call' = [call EXCEPT ![c] = "over"]
      /\ UNCHANGED <<outcome, outer, pending, activeCode, settled, stream, stopped, missed, reopened>>
  BY <1>k, KeyFacts DEF Identified, calls
<1>2. /\ call'[c] = "over" /\ \A d \in Calls \ {c} : call'[d] = call[d]
      /\ \A j : j # k => Run(j)' = Run(j) /\ Over(j)' = Over(j) /\ Done(j)' = Done(j)
      /\ Cardinality(Run(k)') = Cardinality(Run(k)) + 1
      /\ Cardinality(Over(k)') = Cardinality(Over(k)) + 1
      /\ Cardinality(Done(k)') = Cardinality(Done(k)) + (IF outcome[c] = "completed" THEN 1 ELSE 0)
  BY <1>1, CallOver
<1>3. outcome[c] \in {"completed", "error"} /\ Mcp(c) /\ (c \in Nested => outer \notin {"new", "over"})
  BY <1>1, PartsByKey DEF CallsPart, CallOf
<1>4. \A j : (IsSettled(j)' <=> IsSettled(j)) /\ (Awaited("failed", j)' <=> Awaited("failed", j))
  BY <1>1 DEF IsSettled, Awaited
<1>5. PICK r \in {0, 1} :
        /\ r = 0 => ~Undisturbed'
        /\ \A j \in Keys \ {k} : sent'[j] = sent[j]
        /\ outcome[c] = "completed" => sent'[k].succeeded = sent[k].succeeded + r /\ sent'[k].failed = sent[k].failed
        /\ outcome[c] # "completed" => sent'[k].succeeded = sent[k].succeeded /\ sent'[k].failed = sent[k].failed + r
  <2>1. CASE Kept /\ Report(c)
    <3>1. PICK r : r = IF stopped THEN 0 ELSE 1
      OBVIOUS
    <3>2. /\ \A j \in Keys \ {k} : sent'[j] = sent[j]
          /\ outcome[c] = "completed" => sent'[k].succeeded = sent[k].succeeded + r /\ sent'[k].failed = sent[k].failed
          /\ outcome[c] # "completed" => sent'[k].succeeded = sent[k].succeeded /\ sent'[k].failed = sent[k].failed + r
      BY <1>1, <2>1, <3>1, ReportParts
    <3>3. r \in {0, 1} /\ (r = 0 => ~Undisturbed')
      BY <1>1, <3>1 DEF Undisturbed
    <3> QED BY <3>2, <3>3
  <2>2. CASE Loss /\ UNCHANGED sent
    <3>1. losses \in 0 .. MaxLosses
      BY DEF ShapeInv
    <3>2. losses' # 0
      BY <2>2, <3>1 DEF Loss
    <3>3. 0 \in {0, 1} /\ ~Undisturbed'
      BY <3>2 DEF Undisturbed
    <3> QED BY <1>1, <2>2, <3>3, Numbers
  <2> QED BY <2>1, <2>2 DEF Identified
<1>6. CallOf(c)'
  BY <1>1, <1>2, <1>3 DEF CallOf
<1>7. CountOf(k)'
  <2>1. CountOf(k) /\ pending[k] \in Nat /\ sent[k].succeeded \in Nat /\ sent[k].failed \in Nat
    BY <1>1, PartsByKey, Numbers DEF CallsPart
  <2>2. Cardinality(Run(k)) \in Nat /\ Cardinality(Over(k)) \in Nat /\ Cardinality(Done(k)) \in Nat
    BY Counts
  <2>3. Total(k)' = Total(k) + r /\ Total(k) \in Nat
    BY <1>5, <2>1 DEF Total
  <2>4. (Mcp(k)' <=> Mcp(k)) /\ (Undisturbed' => Undisturbed)
    BY DEF Mcp, Onward
  <2>5. pending[k] <= Cardinality(Run(k)) /\ sent[k].succeeded <= Cardinality(Done(k))
    BY <2>1 DEF CountOf
  <2>6. pending'[k] <= Cardinality(Run(k)')
    BY <1>1, <1>2, <2>1, <2>2, <2>5
  <2>7. sent'[k].succeeded <= Cardinality(Done(k)')
    BY <1>2, <1>5, <2>1, <2>2, <2>5
  <2>8. k \notin reopened => Total(k) + pending[k] <= Cardinality(Run(k))
    BY <2>1 DEF CountOf
  <2>9. k \notin reopened' => Total(k)' + pending'[k] <= Cardinality(Run(k)')
    BY <1>1, <1>2, <2>1, <2>2, <2>3, <2>8
  <2>10. k \notin reopened /\ ~IsSettled(k) /\ ~stopped => Total(k) <= Cardinality(Over(k))
    BY <2>1 DEF CountOf
  <2>11. k \notin reopened' /\ ~IsSettled(k)' /\ ~stopped' => Total(k)' <= Cardinality(Over(k)')
    BY <1>1, <1>2, <1>4, <2>2, <2>3, <2>10
  <2>12. k \notin reopened /\ Undisturbed /\ (k = Code \/ Mcp(k)) => Total(k) + pending[k] = Cardinality(Run(k))
    BY <2>1 DEF CountOf
  <2>13. k \notin reopened' /\ Undisturbed' /\ (k = Code \/ Mcp(k)') => Total(k)' + pending'[k] = Cardinality(Run(k)')
    <3>1. Undisturbed' => r = 1
      BY <1>5
    <3> QED BY <1>1, <1>2, <2>1, <2>2, <2>3, <2>4, <2>12, <3>1
  <2> QED BY <2>6, <2>7, <2>9, <2>11, <2>13, CountNext
<1>8. c \in Direct => DirectOf(c)'
  <2> SUFFICES ASSUME c \in Direct
               PROVE  DirectOf(c)'
    OBVIOUS
  <2>1. DirectOf(c) /\ CountOf(c) /\ k = c /\ c \in Keys /\ CallsOf(c) = {c}
    BY <1>1, PartsByKey, KeyFacts DEF CallsPart
  <2>2. Run(c) = {}
    BY <1>1, <2>1 DEF Run
  <2>3. pending'[c] = 0
    <3>1. Cardinality(Run(c)) = 0
      BY <2>2, FS_EmptySet
    <3> QED BY <1>1, <2>1, <3>1, Numbers DEF CountOf
  <2>4. sent'[c].failed > 0 => sent[c].failed > 0 \/ outcome[c] = "error"
    BY <1>3, <1>5, <2>1
  <2>5. Mcp(c)'
    BY <1>3 DEF Mcp, Onward
  <2> QED BY <1>1, <1>4, <2>1, <2>3, <2>4, <2>5 DEF DirectOf
<1>9. CodeInv'
  <2>1. CASE k # Code
    BY <1>1, <1>2, <1>4, <1>5, <2>1, KeyFacts, CodeStays DEF CallsPart
  <2>2. CASE k = Code
    <3>1. c \in Nested
      BY <1>1, <2>2, KeyFacts DEF Calls
    <3>2. sent[Code].succeeded \in Nat /\ Cardinality(Done(Code)) \in Nat
      BY KeyFacts, Numbers, Counts
    <3>3. Undisturbed' /\ Code \notin reopened' /\ outer' \in {"running", "over"} => sent'[Code].succeeded = Cardinality(Done(Code)')
      <4>1. Undisturbed' => Undisturbed /\ r = 1
        BY <1>5 DEF Onward
      <4>2. Undisturbed /\ Code \notin reopened /\ outer \in {"running", "over"} => sent[Code].succeeded = Cardinality(Done(Code))
        BY DEF CallsPart, CodeInv
      <4> QED BY <1>1, <1>2, <1>5, <2>2, <3>2, <4>1, <4>2
    <3> QED BY <1>1, <1>4, <3>3, CardinalityNext DEF CallsPart, CodeInv, Onward
  <2> QED BY <2>1, <2>2
<1> QED BY <1>1, <1>2, <1>4, <1>5, <1>6, <1>7, <1>8, <1>9, OneKey

\* What every after hook has in common.
LEMMA AfterParts ==
  ASSUME ShapeInv, CallsPart, Onward, NEW c \in Calls, After(c)
  PROVE  /\ KeyOf(c) \in Keys /\ call[c] = "running" /\ outcome[c] \in {"completed", "error"} /\ ~stopped
         /\ UNCHANGED <<outcome, outer, activeCode, settled, stream, stopped, losses, missed, reopened>>
         /\ c \in Nested => outer \notin {"new", "over"}
         /\ \A j : (IsSettled(j)' <=> IsSettled(j)) /\ (Awaited("failed", j)' <=> Awaited("failed", j))
         /\ \A j : Mcp(j)' <=> Mcp(j)
         /\ Undisturbed' <=> Undisturbed
<1>1. /\ KeyOf(c) \in Keys /\ call[c] = "running" /\ outcome[c] \in {"completed", "error"} /\ ~stopped
      /\ UNCHANGED <<outcome, outer, activeCode, settled, stream, stopped, losses, missed, reopened>>
  BY KeyFacts DEF After, ghosts
<1>2. c \in Nested => outer \notin {"new", "over"}
  BY <1>1, PartsByKey DEF CallsPart, CallOf
<1>3. \A j : (IsSettled(j)' <=> IsSettled(j)) /\ (Awaited("failed", j)' <=> Awaited("failed", j))
  BY <1>1 DEF IsSettled, Awaited
<1> QED BY <1>1, <1>2, <1>3 DEF Mcp, Onward, Undisturbed

\* The key is settled: nothing is reported.
LEMMA AfterSettled ==
  ASSUME ShapeInv, CallsPart, Onward, NEW c \in Calls, After(c), IsSettled(KeyOf(c)),
         call' = [call EXCEPT ![c] = "over"], UNCHANGED <<pending, sent>>
  PROVE  CallsPart'
<1>k. PICK k : k = KeyOf(c)
  OBVIOUS
<1>1. /\ k = KeyOf(c) /\ k \in Keys /\ call[c] = "running" /\ outcome[c] \in {"completed", "error"}
      /\ UNCHANGED <<outcome, outer, activeCode, settled, stream, stopped, losses, missed, reopened>>
      /\ c \in Nested => outer \notin {"new", "over"}
      /\ \A j : (IsSettled(j)' <=> IsSettled(j)) /\ (Awaited("failed", j)' <=> Awaited("failed", j))
      /\ \A j : Mcp(j)' <=> Mcp(j)
      /\ Undisturbed' <=> Undisturbed
      /\ IsSettled(k)
  BY <1>k, AfterParts
<1>2. /\ call'[c] = "over" /\ \A d \in Calls \ {c} : call'[d] = call[d]
      /\ \A j : j # k => Run(j)' = Run(j) /\ Over(j)' = Over(j) /\ Done(j)' = Done(j)
      /\ Cardinality(Run(k)') = Cardinality(Run(k))
      /\ Cardinality(Done(k)) <= Cardinality(Done(k)')
  <2>1. /\ call'[c] = "over" /\ \A d \in Calls \ {c} : call'[d] = call[d]
        /\ \A j : j # k => Run(j)' = Run(j) /\ Over(j)' = Over(j) /\ Done(j)' = Done(j)
        /\ Cardinality(Run(k)') = Cardinality(Run(k)) + 0
        /\ Cardinality(Done(k)') = Cardinality(Done(k)) + (IF outcome[c] = "completed" THEN 1 ELSE 0)
    BY <1>1, CallOver
  <2>2. Cardinality(Run(k)) \in Nat /\ Cardinality(Done(k)) \in Nat
    BY Counts
  <2> QED BY <2>1, <2>2
<1>3. CallOf(c)'
  BY <1>1, <1>2 DEF CallOf
<1>4. CountOf(k)'
  <2>1. CountOf(k) /\ sent[k].succeeded \in Nat
    BY <1>1, PartsByKey, Numbers DEF CallsPart
  <2>2. sent'[k].succeeded <= Cardinality(Done(k)')
    <3>1. Cardinality(Done(k)) \in Nat /\ Cardinality(Done(k)') \in Nat
      BY Counts, FiniteCalls DEF Done, Over, CallsOf
    <3>2. sent[k].succeeded <= Cardinality(Done(k)) /\ sent'[k].succeeded = sent[k].succeeded
      BY <2>1 DEF CountOf
    <3> QED BY <1>2, <2>1, <3>1, <3>2
  <2>3. Total(k)' = Total(k)
    BY DEF Total
  <2> QED BY <1>1, <1>2, <2>1, <2>2, <2>3, CountNext DEF CountOf
<1>5. c \in Direct => DirectOf(c)'
  <2> SUFFICES ASSUME c \in Direct
               PROVE  DirectOf(c)'
    OBVIOUS
  <2>1. DirectOf(c) /\ k = c
    BY <1>1, PartsByKey, KeyFacts DEF CallsPart
  <2> QED BY <1>1, <2>1 DEF DirectOf
<1>6. CodeInv'
  <2>1. CASE k # Code
    BY <1>1, <1>2, <2>1, CodeStays DEF CallsPart
  <2>2. CASE k = Code
    <3>1. c \in Nested
      BY <1>1, <2>2, KeyFacts DEF Calls
    <3>2. ~(Undisturbed /\ outer \in {"running", "over"})
      BY <1>1, <2>2, <3>1 DEF CallsPart, CodeInv
    <3> QED BY <1>1, <3>2 DEF CallsPart, CodeInv
  <2> QED BY <2>1, <2>2
<1> QED BY <1>1, <1>2, <1>3, <1>4, <1>5, <1>6, OneKey

\* The key is not settled and the call tracked: it is reported.
LEMMA AfterTracked ==
  ASSUME ShapeInv, CallsPart, Onward, NEW c \in Calls, After(c), ~IsSettled(KeyOf(c)), pending[KeyOf(c)] > 0,
         call' = [call EXCEPT ![c] = "over"], pending' = [pending EXCEPT ![KeyOf(c)] = @ - 1], Report(c)
  PROVE  CallsPart'
<1>k. PICK k : k = KeyOf(c)
  OBVIOUS
<1>1. /\ k = KeyOf(c) /\ k \in Keys /\ call[c] = "running" /\ outcome[c] \in {"completed", "error"} /\ ~stopped
      /\ UNCHANGED <<outcome, outer, activeCode, settled, stream, stopped, losses, missed, reopened>>
      /\ c \in Nested => outer \notin {"new", "over"}
      /\ \A j : (IsSettled(j)' <=> IsSettled(j)) /\ (Awaited("failed", j)' <=> Awaited("failed", j))
      /\ \A j : Mcp(j)' <=> Mcp(j)
      /\ Undisturbed' <=> Undisturbed
      /\ ~IsSettled(k) /\ pending[k] > 0
  BY <1>k, AfterParts
<1>2. /\ call'[c] = "over" /\ \A d \in Calls \ {c} : call'[d] = call[d]
      /\ \A j : j # k => Run(j)' = Run(j) /\ Over(j)' = Over(j) /\ Done(j)' = Done(j)
      /\ Cardinality(Run(k)') = Cardinality(Run(k))
      /\ Cardinality(Over(k)') = Cardinality(Over(k)) + 1
      /\ Cardinality(Done(k)') = Cardinality(Done(k)) + (IF outcome[c] = "completed" THEN 1 ELSE 0)
  <2>1. /\ call'[c] = "over" /\ \A d \in Calls \ {c} : call'[d] = call[d]
        /\ \A j : j # k => Run(j)' = Run(j) /\ Over(j)' = Over(j) /\ Done(j)' = Done(j)
        /\ Cardinality(Run(k)') = Cardinality(Run(k)) + 0
        /\ Cardinality(Over(k)') = Cardinality(Over(k)) + 1
        /\ Cardinality(Done(k)') = Cardinality(Done(k)) + (IF outcome[c] = "completed" THEN 1 ELSE 0)
    BY <1>1, CallOver
  <2>2. Cardinality(Run(k)) \in Nat
    BY Counts
  <2> QED BY <2>1, <2>2
<1>3. /\ \A j \in Keys \ {k} : pending'[j] = pending[j] /\ sent'[j] = sent[j]
      /\ pending'[k] = pending[k] - 1
      /\ outcome[c] = "completed" => sent'[k].succeeded = sent[k].succeeded + 1 /\ sent'[k].failed = sent[k].failed
      /\ outcome[c] # "completed" => sent'[k].succeeded = sent[k].succeeded /\ sent'[k].failed = sent[k].failed + 1
  <2>1. pending \in [Keys -> Nat] /\ pending' = [pending EXCEPT ![k] = pending[k] - 1]
    BY <1>1 DEF ShapeInv
  <2>2. /\ \A j \in Keys \ {k} : sent'[j] = sent[j]
        /\ outcome[c] = "completed" => sent'[k].succeeded = sent[k].succeeded + 1 /\ sent'[k].failed = sent[k].failed
        /\ outcome[c] # "completed" => sent'[k].succeeded = sent[k].succeeded /\ sent'[k].failed = sent[k].failed + 1
    BY <1>1, ReportParts
  <2> QED BY <1>1, <2>1, <2>2
<1>4. /\ pending[k] \in Nat /\ sent[k].succeeded \in Nat /\ sent[k].failed \in Nat
      /\ Cardinality(Run(k)) \in Nat /\ Cardinality(Over(k)) \in Nat /\ Cardinality(Done(k)) \in Nat
  BY <1>1, Numbers, Counts
<1>5. CallOf(c)'
  BY <1>1, <1>2 DEF CallOf
<1>6. CountOf(k) /\ CountOf(k)'
  <2>1. CountOf(k)
    BY <1>1, PartsByKey DEF CallsPart
  <2>2. Total(k)' = Total(k) + 1 /\ Total(k) \in Nat
    BY <1>3, <1>4 DEF Total
  <2>3. Total(k)' + pending'[k] = Total(k) + pending[k]
    BY <1>3, <1>4, <2>2
  <2>4. pending[k] <= Cardinality(Run(k)) /\ sent[k].succeeded <= Cardinality(Done(k))
    BY <2>1 DEF CountOf
  <2>5. pending'[k] <= Cardinality(Run(k)')
    BY <1>2, <1>3, <1>4, <2>4
  <2>6. sent'[k].succeeded <= Cardinality(Done(k)')
    BY <1>2, <1>3, <1>4, <2>4
  <2>7. k \notin reopened /\ ~IsSettled(k) /\ ~stopped => Total(k) <= Cardinality(Over(k))
    BY <2>1 DEF CountOf
  <2>8. k \notin reopened' /\ ~IsSettled(k)' /\ ~stopped' => Total(k)' <= Cardinality(Over(k)')
    BY <1>1, <1>2, <1>4, <2>2, <2>7
  <2>9. k \notin reopened' => Total(k)' + pending'[k] <= Cardinality(Run(k)')
    BY <1>1, <1>2, <2>1, <2>3 DEF CountOf
  <2>10. k \notin reopened' /\ Undisturbed' /\ (k = Code \/ Mcp(k)') => Total(k)' + pending'[k] = Cardinality(Run(k)')
    BY <1>1, <1>2, <2>1, <2>3 DEF CountOf
  <2> QED BY <2>1, <2>5, <2>6, <2>8, <2>9, <2>10, CountNext
<1>7. c \in Direct => DirectOf(c)'
  <2> SUFFICES ASSUME c \in Direct
               PROVE  DirectOf(c)'
    OBVIOUS
  <2>1. DirectOf(c) /\ k = c /\ CallsOf(c) = {c}
    BY <1>1, PartsByKey, KeyFacts DEF CallsPart
  <2>2. pending'[c] = 0
    <3>1. Run(c) = {c}
      BY <1>1, <2>1 DEF Run
    <3>2. Cardinality(Run(c)) = 1
      BY <3>1, FS_Singleton
    <3>3. pending[c] <= 1
      BY <1>6, <2>1, <3>2 DEF CountOf
    <3> QED BY <1>1, <1>3, <1>4, <2>1, <3>3
  <2>3. sent'[c].failed > 0 => sent[c].failed > 0 \/ outcome[c] = "error"
    BY <1>1, <1>3, <2>1
  <2>4. Mcp(c)'
    BY <1>1, <2>1 DEF DirectOf
  <2> QED BY <1>1, <2>1, <2>2, <2>3, <2>4 DEF DirectOf
<1>8. CodeInv'
  <2>1. CASE k # Code
    BY <1>1, <1>2, <1>3, <2>1, KeyFacts, CodeStays DEF CallsPart
  <2>2. CASE k = Code
    <3>1. Undisturbed' /\ Code \notin missed' /\ ~activeCode' => pending'[Code] = 0
      BY <1>1, <1>4, <2>2 DEF CallsPart, CodeInv
    <3>2. Undisturbed' /\ Code \notin reopened' /\ outer' \in {"running", "over"} => sent'[Code].succeeded = Cardinality(Done(Code)')
      <4>1. Undisturbed /\ Code \notin reopened /\ outer \in {"running", "over"} => sent[Code].succeeded = Cardinality(Done(Code))
        BY DEF CallsPart, CodeInv
      <4> QED BY <1>1, <1>2, <1>3, <1>4, <2>2, <4>1
    <3> QED BY <1>1, <3>1, <3>2, CardinalityNext DEF CallsPart, CodeInv
  <2> QED BY <2>1, <2>2
<1> QED BY <1>1, <1>2, <1>3, <1>5, <1>6, <1>7, <1>8, OneKey

\* A skill is reported when it succeeds.
LEMMA AfterSkill ==
  ASSUME ShapeInv, CallsPart, Onward, NEW c \in Calls, After(c), ~IsSettled(KeyOf(c)), ~Mcp(c),
         call' = [call EXCEPT ![c] = "over"], UNCHANGED pending,
         IF outcome[c] = "completed" THEN Report(c) ELSE UNCHANGED sent
  PROVE  CallsPart'
<1>0. c \in Direct /\ KeyOf(c) = c /\ c # Code
  BY KeyFacts DEF Calls
<1>1. /\ c \in Keys /\ call[c] = "running" /\ outcome[c] \in {"completed", "error"} /\ ~stopped
      /\ UNCHANGED <<outcome, outer, activeCode, settled, stream, stopped, losses, missed, reopened>>
      /\ c \in Nested => outer \notin {"new", "over"}
      /\ \A j : (IsSettled(j)' <=> IsSettled(j)) /\ (Awaited("failed", j)' <=> Awaited("failed", j))
      /\ \A j : Mcp(j)' <=> Mcp(j)
      /\ Undisturbed' <=> Undisturbed
      /\ ~IsSettled(c)
  BY <1>0, AfterParts
<1>2. /\ call'[c] = "over" /\ \A d \in Calls \ {c} : call'[d] = call[d]
      /\ \A j : j # c => Run(j)' = Run(j) /\ Over(j)' = Over(j) /\ Done(j)' = Done(j)
      /\ Cardinality(Run(c)') = Cardinality(Run(c))
      /\ Cardinality(Over(c)') = Cardinality(Over(c)) + 1
      /\ Cardinality(Done(c)') = Cardinality(Done(c)) + (IF outcome[c] = "completed" THEN 1 ELSE 0)
  <2>1. /\ call'[c] = "over" /\ \A d \in Calls \ {c} : call'[d] = call[d]
        /\ \A j : j # c => Run(j)' = Run(j) /\ Over(j)' = Over(j) /\ Done(j)' = Done(j)
        /\ Cardinality(Run(c)') = Cardinality(Run(c)) + 0
        /\ Cardinality(Over(c)') = Cardinality(Over(c)) + 1
        /\ Cardinality(Done(c)') = Cardinality(Done(c)) + (IF outcome[c] = "completed" THEN 1 ELSE 0)
    BY <1>0, <1>1, CallOver
  <2>2. Cardinality(Run(c)) \in Nat
    BY Counts
  <2> QED BY <2>1, <2>2
<1>3. PICK r \in {0, 1} :
        /\ r = IF outcome[c] = "completed" THEN 1 ELSE 0
        /\ \A j \in Keys \ {c} : sent'[j] = sent[j]
        /\ sent'[c].succeeded = sent[c].succeeded + r /\ sent'[c].failed = sent[c].failed
  <2>1. CASE outcome[c] = "completed"
    <3>1. /\ \A j \in Keys \ {c} : sent'[j] = sent[j]
          /\ sent'[c].succeeded = sent[c].succeeded + 1 /\ sent'[c].failed = sent[c].failed
      BY <1>0, <1>1, <2>1, ReportParts
    <3> QED BY <2>1, <3>1
  <2>2. CASE outcome[c] # "completed"
    BY <1>1, <2>2, Numbers
  <2> QED BY <2>1, <2>2
<1>4. /\ pending[c] \in Nat /\ sent[c].succeeded \in Nat /\ sent[c].failed \in Nat
      /\ Cardinality(Run(c)) \in Nat /\ Cardinality(Over(c)) \in Nat /\ Cardinality(Done(c)) \in Nat
  BY <1>1, Numbers, Counts
<1>5. CallOf(c)'
  BY <1>1, <1>2 DEF CallOf
<1>6. DirectOf(c) /\ CountOf(c) /\ pending[c] = 0
  <2>1. DirectOf(c) /\ CountOf(c)
    BY <1>0, <1>1, PartsByKey DEF CallsPart
  <2> QED BY <2>1 DEF DirectOf
<1>7. Total(c)' = Total(c) + r /\ Total(c) \in Nat
  BY <1>3, <1>4 DEF Total
<1>8. CountOf(c)'
  <2>1. sent[c].succeeded <= Cardinality(Done(c))
    BY <1>6 DEF CountOf
  <2>2. pending'[c] <= Cardinality(Run(c)')
    BY <1>2, <1>4, <1>6
  <2>3. sent'[c].succeeded <= Cardinality(Done(c)')
    BY <1>2, <1>3, <1>4, <2>1
  <2>4. c \notin reopened => Total(c) <= Cardinality(Over(c))
    BY <1>1, <1>6 DEF CountOf
  <2>5. Cardinality(Over(c)) < Cardinality(Run(c))
    BY <1>0, <1>1, StillRunning
  <2>6. c \notin reopened' => Total(c)' + pending'[c] <= Cardinality(Run(c)')
    <3>1. c \notin reopened => Total(c) + 1 <= Cardinality(Run(c))
      BY <1>4, <1>7, <2>4, <2>5
    <3>2. Total(c)' + pending'[c] = Total(c) + r
      BY <1>4, <1>6, <1>7
    <3> QED BY <1>1, <1>2, <1>4, <1>7, <3>1, <3>2
  <2>7. c \notin reopened' /\ ~IsSettled(c)' /\ ~stopped' => Total(c)' <= Cardinality(Over(c)')
    BY <1>1, <1>2, <1>4, <1>7, <2>4
  <2>8. ~(c = Code \/ Mcp(c)')
    BY <1>0, <1>1
  <2> QED BY <2>2, <2>3, <2>6, <2>7, <2>8, CountNext
<1>9. DirectOf(c)'
  <2>1. Undisturbed' => Total(c)' = Cardinality(Done(c)')
    <3>1. Undisturbed => Total(c) = Cardinality(Done(c))
      BY <1>6 DEF DirectOf
    <3> QED BY <1>1, <1>2, <1>3, <1>4, <1>7, <3>1
  <2>2. sent'[c].failed = sent[c].failed /\ pending'[c] = 0
    BY <1>3, <1>6
  <2> QED BY <1>1, <1>6, <2>1, <2>2, CardinalityNext DEF DirectOf
<1>10. CodeInv'
  BY <1>0, <1>1, <1>2, <1>3, KeyFacts, CodeStays DEF CallsPart
<1> QED BY <1>0, <1>1, <1>2, <1>3, <1>5, <1>8, <1>9, <1>10, OneKey

\* An MCP call that is not tracked waits for its identity.
LEMMA AfterWaits ==
  ASSUME ShapeInv, CallsPart, Onward, NEW c \in Calls, After(c), ~IsSettled(KeyOf(c)), Mcp(c), pending[KeyOf(c)] = 0,
         call' = [call EXCEPT ![c] = "after"], UNCHANGED <<pending, sent>>
  PROVE  CallsPart'
<1>k. PICK k : k = KeyOf(c)
  OBVIOUS
<1>1. /\ k = KeyOf(c) /\ k \in Keys /\ call[c] = "running" /\ outcome[c] \in {"completed", "error"} /\ ~stopped
      /\ UNCHANGED <<outcome, outer, activeCode, settled, stream, stopped, losses, missed, reopened>>
      /\ c \in Nested => outer \notin {"new", "over"}
      /\ \A j : (IsSettled(j)' <=> IsSettled(j)) /\ (Awaited("failed", j)' <=> Awaited("failed", j))
      /\ \A j : Mcp(j)' <=> Mcp(j)
      /\ Undisturbed' <=> Undisturbed
      /\ ~IsSettled(k) /\ pending[k] = 0
  BY <1>k, AfterParts
<1>2. /\ call'[c] = "after" /\ \A d \in Calls \ {c} : call'[d] = call[d]
      /\ \A j : j # k => Run(j)' = Run(j)
      /\ \A j : Over(j)' = Over(j) /\ Done(j)' = Done(j)
      /\ Cardinality(Run(k)') = Cardinality(Run(k)) - 1
  <2>1. c \in Run(k) /\ c \notin Over(k) /\ c \notin Done(k)
    BY <1>1 DEF Run, Over, Done, CallsOf
  <2>2. /\ call'[c] = "after" /\ \A d \in Calls \ {c} : call'[d] = call[d]
        /\ \A j : j # k => Run(j)' = Run(j) /\ Over(j)' = Over(j) /\ Done(j)' = Done(j)
        /\ Run(k)' = Run(k) \ {c} /\ Over(k)' = Over(k) \ {c} /\ Done(k)' = Done(k) \ {c}
    BY <1>1, OneCall
  <2>3. Over(k)' = Over(k) /\ Done(k)' = Done(k)
    BY <2>1, <2>2
  <2>4. Cardinality(Run(k) \ {c}) = Cardinality(Run(k)) - 1
    BY <2>1, Counts, RemoveCall
  <2> QED BY <2>2, <2>3, <2>4
<1>3. CallOf(c)'
  BY <1>1, <1>2 DEF CallOf
<1>4. CountOf(k)'
  <2>1. CountOf(k) /\ Total(k)' = Total(k) /\ Total(k) \in Nat
    BY <1>1, PartsByKey, Numbers DEF CallsPart, Total
  <2>2. Cardinality(Over(k)) < Cardinality(Run(k)) /\ Cardinality(Run(k)) \in Nat /\ Cardinality(Over(k)) \in Nat
    BY <1>1, StillRunning, Counts
  <2>3. k \notin reopened => Total(k) <= Cardinality(Over(k))
    BY <1>1, <2>1 DEF CountOf
  <2>4. pending'[k] <= Cardinality(Run(k)')
    BY <1>1, <1>2, <2>2
  <2>5. sent'[k].succeeded <= Cardinality(Done(k)')
    BY <1>2, <2>1 DEF CountOf
  <2>6. k \notin reopened' => Total(k)' + pending'[k] <= Cardinality(Run(k)')
    BY <1>1, <1>2, <2>1, <2>2, <2>3
  <2>7. k \notin reopened' /\ ~IsSettled(k)' /\ ~stopped' => Total(k)' <= Cardinality(Over(k)')
    BY <1>1, <1>2, <2>1, <2>3
  <2>8. ~(k \notin reopened' /\ Undisturbed' /\ (k = Code \/ Mcp(k)'))
    <3>1. k \notin reopened /\ Undisturbed /\ (k = Code \/ Mcp(k)) => Total(k) + pending[k] = Cardinality(Run(k))
      BY <2>1 DEF CountOf
    <3> QED BY <1>1, <2>1, <2>2, <2>3, <3>1
  <2> QED BY <2>4, <2>5, <2>6, <2>7, <2>8, CountNext
<1>5. c \in Direct => DirectOf(c)'
  <2> SUFFICES ASSUME c \in Direct
               PROVE  DirectOf(c)'
    OBVIOUS
  <2>1. DirectOf(c)
    BY PartsByKey DEF CallsPart
  <2> QED BY <1>1, <1>2, <2>1, DirectStays
<1>6. CodeInv'
  BY <1>1, <1>2, CodeStays DEF CallsPart
<1> QED BY <1>1, <1>2, <1>3, <1>4, <1>5, <1>6, OneKey

LEMMA AfterCalls ==
  ASSUME ShapeInv, CallsPart, Onward, NEW c \in Calls, After(c)
  PROVE  CallsPart'
<1>1. CASE IsSettled(KeyOf(c)) /\ call' = [call EXCEPT ![c] = "over"] /\ UNCHANGED <<pending, sent>>
  BY <1>1, AfterSettled
<1>2. CASE /\ ~IsSettled(KeyOf(c)) /\ pending[KeyOf(c)] > 0 /\ call' = [call EXCEPT ![c] = "over"]
           /\ pending' = [pending EXCEPT ![KeyOf(c)] = @ - 1] /\ Report(c)
  BY <1>2, AfterTracked
<1>3. CASE /\ ~IsSettled(KeyOf(c)) /\ ~Mcp(c) /\ call' = [call EXCEPT ![c] = "over"] /\ UNCHANGED pending
           /\ IF outcome[c] = "completed" THEN Report(c) ELSE UNCHANGED sent
  BY <1>3, AfterSkill
<1>4. CASE /\ ~IsSettled(KeyOf(c)) /\ Mcp(c) /\ pending[KeyOf(c)] = 0
           /\ call' = [call EXCEPT ![c] = "after"] /\ UNCHANGED <<pending, sent>>
  BY <1>4, AfterWaits
<1> QED BY <1>1, <1>2, <1>3, <1>4 DEF After

-----------------------------------------------------------------------------
(* The parts about calls: steps of the execute call, of the observer, and of the plugin as a whole *)

LEMMA BeforeCodeCalls ==
  ASSUME ShapeInv, CallsPart, Onward, BeforeCode
  PROVE  CallsPart'
<1>1. /\ outer = "new" /\ outer' = "running" /\ activeCode' = TRUE
      /\ UNCHANGED <<kind, call, outcome, pending, stream, stopped, sent, losses, missed, reopened>>
  BY DEF BeforeCode, reports, ghosts
<1>2. \A j : IsSettled(j)' <=> IsSettled(j)
  <2>1. ~IsSettled(Code)
    BY <1>1 DEF CallsPart, CodeInv
  <2>2. settled' = settled \/ settled' = Unsettle(Code)
    BY DEF BeforeCode
  <2>3. Range(settled') = Range(settled)
    BY <2>1, <2>2, Unsettled, KeyFacts DEF IsSettled
  <2> QED BY <2>3 DEF IsSettled
<1>3. \A j : Run(j)' = Run(j) /\ Over(j)' = Over(j) /\ Done(j)' = Done(j)
  BY <1>1, SameCalls
<1>4. \A j : Awaited("failed", j)' <=> Awaited("failed", j)
  BY <1>1 DEF Awaited
<1>5. CallInv'
  BY <1>1, PartsByKey, PartsByKeyNext, CallStays DEF CallsPart
<1>6. CountInv'
  BY <1>1, <1>2, <1>3, PartsByKey, PartsByKeyNext, CountStays DEF CallsPart
<1>7. DirectInv'
  BY <1>1, <1>2, <1>3, <1>4, PartsByKey, PartsByKeyNext, DirectStays DEF CallsPart
<1>8. CodeInv'
  <2>1. sent[Code].succeeded = 0 /\ Cardinality(Done(Code)) = 0
    <3>1. Done(Code) = {}
      <4>1. \A c \in Nested : call[c] \in {"unused", "new"}
        BY <1>1, KeyFacts, PartsByKey DEF CallsPart, CallOf
      <4> QED BY <4>1, KeyFacts DEF Done, Over
    <3>2. Cardinality(Done(Code)) = 0
      BY <3>1, FS_EmptySet
    <3>3. CountOf(Code) /\ sent[Code].succeeded \in Nat
      BY KeyFacts, PartsByKey, Numbers DEF CallsPart
    <3> QED BY <3>2, <3>3 DEF CountOf
  <2>2. ~IsSettled(Code)' /\ ~Awaited("failed", Code)'
    BY <1>1, <1>2, <1>4 DEF CallsPart, CodeInv
  <2>3. sent'[Code].succeeded = Cardinality(Done(Code)')
    BY <1>1, <1>3, <2>1
  <2> QED BY <1>1, <2>2, <2>3, CardinalityNext DEF CodeInv
<1> QED BY <1>5, <1>6, <1>7, <1>8 DEF CallsPart

LEMMA AfterCodeCalls ==
  ASSUME ShapeInv, CallsPart, Onward, AfterCode
  PROVE  CallsPart'
<1>1. /\ \/ outer = "running" /\ outer' = "over" /\ \A c \in Nested : call[c] \in {"unused", "new", "over"}
         \/ outer = "failed" /\ outer' = "failed over"
      /\ UNCHANGED <<kind, call, outcome, stream, stopped, losses, missed>> /\ ~stopped
  BY DEF AfterCode
<1>2. \A j : Run(j)' = Run(j) /\ Over(j)' = Over(j) /\ Done(j)' = Done(j)
  BY <1>1, SameCalls
<1>3. \A j : Awaited("failed", j)' <=> Awaited("failed", j)
  BY <1>1 DEF Awaited
<1>4. CallInv'
  <2>1. ASSUME NEW c \in Calls
        PROVE  CallOf(c)'
    BY <1>1, PartsByKey DEF CallsPart, CallOf, Mcp
  <2> QED BY <2>1, PartsByKeyNext
<1>5. CASE IsSettled(Code)
  <2>1. UNCHANGED <<pending, activeCode, settled, sent, reopened>>
    BY <1>5 DEF AfterCode, calls
  <2>2. \A j : IsSettled(j)' <=> IsSettled(j)
    BY <2>1 DEF IsSettled
  <2>3. CountInv'
    BY <1>1, <1>2, <2>1, <2>2, PartsByKey, PartsByKeyNext, CountStays DEF CallsPart
  <2>4. DirectInv'
    BY <1>1, <1>2, <1>3, <2>1, <2>2, PartsByKey, PartsByKeyNext, DirectStays DEF CallsPart
  <2>5. CodeInv'
    BY <1>1, <1>3, <1>5, <2>1, <2>2 DEF CallsPart, CodeInv, Onward
  <2> QED BY <1>4, <2>3, <2>4, <2>5 DEF CallsPart
<1>6. CASE ~IsSettled(Code)
  <2>1. FailPending(Code) /\ activeCode' = FALSE /\ Settle(Code)
    BY <1>6 DEF AfterCode
  <2>2. /\ \A j \in Keys \ {Code} : sent'[j] = sent[j] /\ pending'[j] = pending[j]
        /\ sent'[Code].succeeded = sent[Code].succeeded
        /\ sent'[Code].failed = sent[Code].failed + pending[Code] /\ pending'[Code] = 0
    BY <1>1, <2>1, KeyFacts, PendingFailed
  <2>3. /\ IsSettled(Code)' /\ \A j : IsSettled(j)' => IsSettled(j) \/ j = Code
        /\ \A j : IsSettled(j) => IsSettled(j)' \/ j \in reopened'
        /\ reopened \subseteq reopened'
    <3>1. /\ Code \in Range(settled') /\ Range(settled') \subseteq Range(settled) \cup {Code}
          /\ Range(settled) \subseteq Range(settled') \cup reopened' /\ reopened \subseteq reopened'
      BY <2>1, KeyFacts, SettleParts
    <3> QED BY <3>1 DEF IsSettled
  <2>4. CountInv'
    <3>1. ASSUME NEW j \in Keys \ {Code}
          PROVE  CountOf(j)'
      BY <1>1, <1>2, <2>2, <2>3, PartsByKey, CountStays DEF CallsPart
    <3>2. CountOf(Code)'
      <4>1. CountOf(Code) /\ pending[Code] \in Nat /\ sent[Code].succeeded \in Nat /\ sent[Code].failed \in Nat
        BY KeyFacts, PartsByKey, Numbers DEF CallsPart
      <4>2. Cardinality(Run(Code)) \in Nat
        BY Counts
      <4>3. Total(Code)' + pending'[Code] = Total(Code) + pending[Code] /\ pending'[Code] <= Cardinality(Run(Code)')
        BY <1>2, <2>2, <4>1, <4>2 DEF Total
      <4>4. sent'[Code].succeeded <= Cardinality(Done(Code)')
        BY <1>2, <2>2, <4>1 DEF CountOf
      <4>5. Code \notin reopened' => Total(Code)' + pending'[Code] <= Cardinality(Run(Code)')
        BY <1>2, <2>3, <4>1, <4>3 DEF CountOf
      <4>6. Code \notin reopened' /\ Undisturbed' /\ (Code = Code \/ Mcp(Code)')
              => Total(Code)' + pending'[Code] = Cardinality(Run(Code)')
        BY <1>2, <2>3, <4>1, <4>3 DEF CountOf, Onward
      <4> QED BY <2>3, <4>3, <4>4, <4>5, <4>6, CountNext
    <3> QED BY <3>1, <3>2, PartsByKeyNext
  <2>5. DirectInv'
    <3>1. ASSUME NEW j \in Direct
          PROVE  DirectOf(j)'
      <4>1. j \in Keys \ {Code}
        BY KeyFacts
      <4> QED BY <1>1, <1>2, <1>3, <2>2, <2>3, <4>1, PartsByKey, DirectStays DEF CallsPart
    <3> QED BY <3>1, PartsByKeyNext
  <2>6. CodeInv'
    BY <1>1, <1>2, <1>3, <2>1, <2>2, <2>3, CardinalityNext DEF CallsPart, CodeInv, Onward
  <2> QED BY <1>4, <2>4, <2>5, <2>6 DEF CallsPart
<1> QED BY <1>5, <1>6

\* While nothing disturbs the plugin somebody listens.
LEMMA Listening ==
  ASSUME ShapeInv, PromptInv, Undisturbed
  PROVE  observer # "down"
<1>1. losses \in 0 .. MaxLosses
  BY DEF ShapeInv
<1> QED BY <1>1 DEF PromptInv, Undisturbed

LEMMA FailCodeCalls ==
  ASSUME ShapeInv, CallsPart, PromptInv, Onward, FailCode
  PROVE  CallsPart'
<1>1. /\ outer = "running" /\ outer' = "failed"
      /\ UNCHANGED <<kind, call, outcome, pending, activeCode, settled, stopped, sent, losses, missed, reopened>>
  BY DEF FailCode, calls, reports, ghosts
<1>2. \A j : (IsSettled(j)' <=> IsSettled(j)) /\ Run(j)' = Run(j) /\ Over(j)' = Over(j) /\ Done(j)' = Done(j)
  BY <1>1, SameCalls DEF IsSettled
<1>3. /\ \A j : j # Code => (Awaited("failed", j)' <=> Awaited("failed", j))
      /\ Undisturbed => Awaited("failed", Code)'
  <2>1. <<"failed", Code>> \in EventSet /\ Publish(<<"failed", Code>>)
    BY EventTypes, KeyFacts DEF FailCode
  <2>2. \A j : j # Code => <<"failed", j>> # <<"failed", Code>>
    OBVIOUS
  <2>3. Undisturbed => <<"failed", Code>> \in Range(stream')
    BY <2>1, Published, Listening
  <2> QED BY <2>1, <2>2, <2>3, Published DEF Awaited
<1>4. CallInv'
  BY <1>1, PartsByKey, PartsByKeyNext, CallStays DEF CallsPart
<1>5. CountInv'
  BY <1>1, <1>2, PartsByKey, PartsByKeyNext, CountStays DEF CallsPart
<1>6. DirectInv'
  BY <1>1, <1>2, <1>3, KeyFacts, PartsByKey, PartsByKeyNext, DirectStays DEF CallsPart
<1>7. CodeInv'
  BY <1>1, <1>2, <1>3 DEF CallsPart, CodeInv, Onward
<1> QED BY <1>4, <1>5, <1>6, <1>7 DEF CallsPart

LEMMA ToolFailedCalls ==
  ASSUME ShapeInv, CallsPart, Onward, ToolFailed
  PROVE  CallsPart'
<1>k. PICK k : k = Subject
  OBVIOUS
<1>1. /\ k = Subject /\ k \in Keys /\ FailPending(k) /\ activeCode' = (activeCode /\ k # Code)
      /\ UNCHANGED <<kind, call, outcome, outer, stopped, losses, missed>>
  BY <1>k, FailureTypes DEF ToolFailed, server
<1>2. Awaited("failed", k) /\ \A j : j # k => (Awaited("failed", j)' <=> Awaited("failed", j))
  <2>1. \A j : j # k => <<"failed", j>> # <<"failed", k>>
    OBVIOUS
  <2> QED BY <1>1, <2>1, Handled DEF ToolFailed
<1>3. \A j : Run(j)' = Run(j) /\ Over(j)' = Over(j) /\ Done(j)' = Done(j)
  BY <1>1, SameCalls
<1>4. /\ \A j \in Keys \ {k} : sent'[j] = sent[j] /\ pending'[j] = pending[j]
      /\ sent'[k].succeeded = sent[k].succeeded /\ pending'[k] = 0
      /\ sent'[k].failed = IF stopped THEN sent[k].failed ELSE sent[k].failed + pending[k]
  BY <1>1, PendingFailed
<1>5. /\ pending[k] \in Nat /\ sent[k].succeeded \in Nat /\ sent[k].failed \in Nat /\ Cardinality(Run(k)) \in Nat
  BY <1>1, Numbers, Counts
<1>6. /\ \A j : IsSettled(j)' => IsSettled(j) \/ j = k
      /\ \A j : IsSettled(j) => IsSettled(j)' \/ j \in reopened'
      /\ pending[k] > 0 => IsSettled(k)'
      /\ pending[k] = 0 => (IsSettled(k)' <=> IsSettled(k))
  <2>1. CASE pending[k] > 0
    <3>1. Settle(k)
      BY <1>1, <2>1 DEF ToolFailed
    <3>2. /\ k \in Range(settled') /\ Range(settled') \subseteq Range(settled) \cup {k}
          /\ Range(settled) \subseteq Range(settled') \cup reopened'
      BY <1>1, <3>1, SettleParts
    <3> QED BY <2>1, <3>2 DEF IsSettled
  <2>2. CASE ~(pending[k] > 0)
    <3>1. settled' = settled
      BY <1>1, <2>2 DEF ToolFailed
    <3> QED BY <2>2, <3>1 DEF IsSettled
  <2> QED BY <2>1, <2>2
<1>7. CallInv'
  BY <1>1, PartsByKey, PartsByKeyNext, CallStays DEF CallsPart
<1>8. CountInv'
  <2>1. ASSUME NEW j \in Keys \ {k}
        PROVE  CountOf(j)'
    BY <1>1, <1>3, <1>4, <1>6, PartsByKey, CountStays DEF CallsPart
  <2>2. CountOf(k)'
    <3>1. CountOf(k) /\ (k \notin reopened' => k \notin reopened) /\ (Undisturbed' => Undisturbed)
      BY <1>1, PartsByKey DEF CallsPart, Onward
    <3>2. Total(k)' = (IF stopped THEN Total(k) ELSE Total(k) + pending[k]) /\ Total(k) \in Nat
      BY <1>4, <1>5 DEF Total
    <3>3. k \notin reopened => Total(k) + pending[k] <= Cardinality(Run(k))
      BY <3>1 DEF CountOf
    <3>4. k \notin reopened' => Total(k)' + pending'[k] <= Cardinality(Run(k)')
      BY <1>3, <1>4, <1>5, <3>1, <3>2, <3>3
    <3>5. k \notin reopened' /\ Undisturbed' /\ (k = Code \/ Mcp(k)') => Total(k)' + pending'[k] = Cardinality(Run(k)')
      <4>1. k \notin reopened /\ Undisturbed /\ (k = Code \/ Mcp(k)) => Total(k) + pending[k] = Cardinality(Run(k))
        BY <3>1 DEF CountOf
      <4>2. (Mcp(k)' <=> Mcp(k)) /\ (Undisturbed => ~stopped)
        BY <1>1 DEF Mcp, Undisturbed
      <4> QED BY <1>3, <1>4, <1>5, <3>1, <3>2, <4>1, <4>2
    <3>6. k \notin reopened' /\ ~IsSettled(k)' /\ ~stopped' => Total(k)' <= Cardinality(Over(k)')
      <4>1. k \notin reopened /\ ~IsSettled(k) /\ ~stopped => Total(k) <= Cardinality(Over(k))
        BY <3>1 DEF CountOf
      <4>2. ~IsSettled(k)' => pending[k] = 0 /\ ~IsSettled(k)
        BY <1>5, <1>6
      <4> QED BY <1>1, <1>3, <3>1, <3>2, <4>1, <4>2
    <3>7. pending'[k] <= Cardinality(Run(k)') /\ sent'[k].succeeded <= Cardinality(Done(k)')
      BY <1>3, <1>4, <1>5, <3>1 DEF CountOf
    <3> QED BY <3>4, <3>5, <3>6, <3>7, CountNext
  <2> QED BY <2>1, <2>2, PartsByKeyNext
<1>9. DirectInv'
  <2>1. ASSUME NEW j \in Direct, j # k
        PROVE  DirectOf(j)'
    <3>1. j \in Keys \ {k}
      BY <2>1, KeyFacts
    <3> QED BY <1>1, <1>2, <1>3, <1>4, <1>6, <2>1, <3>1, PartsByKey, DirectStays DEF CallsPart
  <2>2. k \in Direct => DirectOf(k)'
    <3> SUFFICES ASSUME k \in Direct
                 PROVE  DirectOf(k)'
      OBVIOUS
    <3>1. DirectOf(k) /\ (Mcp(k)' <=> Mcp(k)) /\ (Undisturbed' => Undisturbed)
      BY <1>1, PartsByKey DEF CallsPart, Mcp, Onward
    <3>2. outcome'[k] \in {"error", "denied"}
      BY <1>1, <1>2, <3>1 DEF DirectOf
    <3>3. ~Mcp(k) => pending[k] = 0 /\ ~IsSettled(k) /\ (Undisturbed => Total(k) = Cardinality(Done(k)))
      BY <3>1 DEF DirectOf
    <3>4. pending[k] = 0 => Total(k)' = Total(k)
      BY <1>4, <1>5 DEF Total
    <3>5. ~Mcp(k)' => ~IsSettled(k)' /\ (Undisturbed' => Total(k)' = Cardinality(Done(k)'))
      BY <1>3, <1>6, <3>1, <3>3, <3>4
    <3> QED BY <1>4, <3>2, <3>5, CardinalityNext DEF DirectOf
  <2> QED BY <2>1, <2>2, PartsByKeyNext
<1>10. CodeInv'
  <2>1. CASE k # Code
    <3>1. IsSettled(Code)' => IsSettled(Code)
      BY <1>6, <2>1
    <3>2. activeCode' = activeCode
      BY <1>1, <2>1 DEF ShapeInv
    <3> QED BY <1>1, <1>2, <1>3, <1>4, <2>1, <3>1, <3>2, KeyFacts, CodeStays DEF CallsPart
  <2>2. CASE k = Code
    <3>1. outer \notin {"new", "running"}
      BY <1>2, <2>2 DEF CallsPart, CodeInv
    <3> QED BY <1>1, <1>3, <1>4, <2>2, <3>1, CardinalityNext DEF CallsPart, CodeInv, Onward
  <2> QED BY <2>1, <2>2
<1> QED BY <1>7, <1>8, <1>9, <1>10 DEF CallsPart

\* What is tracked and what is awaited is forgotten.
LEMMA CutCalls ==
  ASSUME ShapeInv, CallsPart, Onward, Disconnect \/ Stop
  PROVE  CallsPart'
<1>1. /\ UNCHANGED <<kind, call, outcome, outer, sent, reopened>>
      /\ pending' = NoCalls /\ activeCode' = FALSE /\ stream' = <<>> /\ ~Undisturbed'
      /\ \A j : IsSettled(j)' => IsSettled(j)
      /\ (~stopped' => \A j : IsSettled(j)' <=> IsSettled(j))
  <2>1. CASE Disconnect
    <3>1. losses \in 0 .. MaxLosses /\ losses' = losses + 1
      BY <2>1 DEF ShapeInv, Disconnect, Loss
    <3>2. losses' # 0
      BY <3>1
    <3> QED BY <2>1, <3>2 DEF Disconnect, server, reports, Undisturbed, IsSettled
  <2>2. CASE Stop
    <3>1. Range(settled') = {}
      BY <2>2, EmptyTypes DEF Stop
    <3> QED BY <2>2, <3>1 DEF Stop, server, reports, ghosts, Undisturbed, IsSettled
  <2> QED BY <2>1, <2>2
<1>2. \A j : Run(j)' = Run(j) /\ Over(j)' = Over(j) /\ Done(j)' = Done(j)
  BY <1>1, SameCalls
<1>3. \A j : ~Awaited("failed", j)'
  BY <1>1, EmptyTypes DEF Awaited
<1>4. \A j \in Keys : pending'[j] = 0
  BY <1>1, EmptyTypes
<1>5. CallInv'
  BY <1>1, PartsByKey, PartsByKeyNext, CallStays DEF CallsPart
<1>6. CountInv'
  <2>1. ASSUME NEW j \in Keys
        PROVE  CountOf(j)'
    <3>1. CountOf(j) /\ pending[j] \in Nat /\ Total(j) \in Nat /\ Total(j)' = Total(j) /\ Cardinality(Run(j)) \in Nat
      BY <1>1, PartsByKey, Numbers, Counts DEF CallsPart, Total
    <3>2. j \notin reopened' => Total(j)' + pending'[j] <= Cardinality(Run(j)')
      BY <1>1, <1>2, <1>4, <3>1 DEF CountOf
    <3>3. j \notin reopened' /\ ~IsSettled(j)' /\ ~stopped' => Total(j)' <= Cardinality(Over(j)')
      BY <1>1, <1>2, <3>1 DEF CountOf, Onward
    <3>4. pending'[j] <= Cardinality(Run(j)') /\ sent'[j].succeeded <= Cardinality(Done(j)')
      BY <1>1, <1>2, <1>4, <3>1 DEF CountOf
    <3> QED BY <1>1, <3>2, <3>3, <3>4, CountNext
  <2> QED BY <2>1, PartsByKeyNext
<1>7. DirectInv'
  <2>1. ASSUME NEW j \in Direct
        PROVE  DirectOf(j)'
    <3>1. DirectOf(j) /\ j \in Keys /\ (Mcp(j)' <=> Mcp(j))
      BY <1>1, KeyFacts, PartsByKey DEF CallsPart, Mcp
    <3> QED BY <1>1, <1>3, <1>4, <3>1 DEF DirectOf
  <2> QED BY <2>1, PartsByKeyNext
<1>8. CodeInv'
  BY <1>1, <1>3 DEF CallsPart, CodeInv
<1> QED BY <1>5, <1>6, <1>7, <1>8 DEF CallsPart

LEMMA CallsStep ==
  ASSUME ShapeInv, CallsPart, PromptInv, Onward, Next
  PROVE  CallsPart'
BY BeforeCodeCalls, AfterCodeCalls, FailCodeCalls, BeforeCalls, TrackCalls, AfterCalls, IdentifiedCalls, LateCalls,
   EndCalls, PromptCalls, ToolFailedCalls, CutCalls DEF Next, PromptStep

-----------------------------------------------------------------------------
(* Prompts *)

\* x comes at most once; whenever it comes, one of Y comes later.
Once(s, x)        == \A i, j \in DOMAIN s : s[i] = x /\ s[j] = x => i = j
Followed(s, x, Y) == \A i \in DOMAIN s : s[i] = x => \E j \in DOMAIN s : j > i /\ s[j] \in Y

LEMMA AppendOnce ==
  ASSUME NEW S, NEW s \in Seq(S), NEW y \in S, NEW x, Once(s, x), y # x \/ x \notin Range(s)
  PROVE  Once(Append(s, y), x)
<1>1. \A i \in DOMAIN Append(s, y) : i \in DOMAIN s \/ i = Len(s) + 1
  BY AppendRange
<1>2. x \notin Range(s) => \A i \in DOMAIN s : s[i] # x
  BY DEF Range
<1> QED BY <1>1, <1>2, AppendRange DEF Once

LEMMA AppendFollowed ==
  ASSUME NEW S, NEW s \in Seq(S), NEW y \in S, NEW x, NEW Y, y # x, Followed(s, x, Y) \/ y \in Y
  PROVE  Followed(Append(s, y), x, Y)
<1> SUFFICES ASSUME NEW i \in DOMAIN Append(s, y), Append(s, y)[i] = x
             PROVE  \E j \in DOMAIN Append(s, y) : j > i /\ Append(s, y)[j] \in Y
  BY DEF Followed
<1>1. /\ i \in DOMAIN s /\ s[i] = x /\ Len(s) \in Nat /\ DOMAIN s = 1 .. Len(s) /\ DOMAIN Append(s, y) = 1 .. Len(s) + 1
      /\ Append(s, y)[Len(s) + 1] = y
  BY AppendRange
<1>2. CASE y \in Y
  BY <1>1, <1>2
<1>3. CASE Followed(s, x, Y)
  <2>1. PICK j \in DOMAIN s : j > i /\ s[j] \in Y
    BY <1>1, <1>3 DEF Followed
  <2> QED BY <1>1, <2>1, AppendRange
<1> QED BY <1>2, <1>3

LEMMA TailOnce ==
  ASSUME NEW S, NEW s \in Seq(S), s # <<>>, NEW x, Once(s, x)
  PROVE  Once(Tail(s), x) /\ (Head(s) = x => x \notin Range(Tail(s)))
<1>1. \A i \in DOMAIN Tail(s) : i + 1 \in DOMAIN s /\ i + 1 # 1 /\ Tail(s)[i] = s[i + 1] /\ i \in Nat
  BY TailRange
<1>2. \A i, j \in DOMAIN Tail(s) : i + 1 = j + 1 => i = j
  BY <1>1
<1>3. Once(Tail(s), x)
  <2> SUFFICES ASSUME NEW i \in DOMAIN Tail(s), NEW j \in DOMAIN Tail(s), Tail(s)[i] = x, Tail(s)[j] = x
               PROVE  i = j
    BY DEF Once
  <2>1. i + 1 = j + 1
    BY <1>1 DEF Once
  <2> QED BY <1>2, <2>1
<1>4. ASSUME Head(s) = x, NEW i \in DOMAIN Tail(s), Tail(s)[i] = x
      PROVE  FALSE
  <2>1. 1 \in DOMAIN s /\ s[1] = x
    BY <1>4, TailRange
  <2> QED BY <1>1, <1>4, <2>1 DEF Once
<1> QED BY <1>3, <1>4 DEF Range

LEMMA TailFollowed ==
  ASSUME NEW S, NEW s \in Seq(S), s # <<>>, NEW x, NEW Y, Followed(s, x, Y)
  PROVE  Followed(Tail(s), x, Y)
<1> SUFFICES ASSUME NEW i \in DOMAIN Tail(s), Tail(s)[i] = x
             PROVE  \E j \in DOMAIN Tail(s) : j > i /\ Tail(s)[j] \in Y
  BY DEF Followed
<1>1. i + 1 \in DOMAIN s /\ s[i + 1] = x /\ i \in Nat \ {0}
  BY TailRange
<1>2. PICK j \in DOMAIN s : j > i + 1 /\ s[j] \in Y
  BY <1>1 DEF Followed
<1>3. j - 1 \in DOMAIN Tail(s) /\ j - 1 > i /\ Tail(s)[j - 1] = s[j]
  <2>1. j - 1 \in DOMAIN Tail(s) /\ j - 1 > i /\ (j - 1) + 1 = j
    BY <1>1, <1>2, TailRange
  <2> QED BY <2>1, TailRange
<1> QED BY <1>2, <1>3

Ends(e) == {<<"cancelled", e>>, <<"delivered", e>>}

\* The invariant of one prompt.
PromptOf(e) ==
  /\ Awaited("delivered", e) => prompt[e] = "delivered" /\ observer # e /\ activated[e] = 0
  /\ Once(stream, <<"delivered", e>>)
  /\ observer = e => prompt[e] = "delivered" /\ activated[e] = 0
  /\ activated[e] <= (IF prompt[e] = "delivered" THEN 1 ELSE 0)
  /\ Undisturbed /\ prompt[e] = "delivered" => activated[e] = 1 \/ observer = e \/ Awaited("delivered", e)
  /\ Undisturbed /\ e \in inbox /\ prompt[e] # "queued" => Awaited("cancelled", e) \/ Awaited("delivered", e)
  /\ Undisturbed => prompt[e] = "queued" \/ Followed(stream, <<"enqueued", e>>, Ends(e))

LEMMA PartsByPrompt ==
  PromptInv <=> (observer = "down" => losses > 0) /\ \A e \in Prompts : PromptOf(e)
BY DEF PromptInv, PromptOf, Once, Followed, Ends

LEMMA PartsByPromptNext ==
  PromptInv' <=> (observer' = "down" => losses' > 0) /\ \A e \in Prompts : PromptOf(e)'
BY DEF PromptInv, PromptOf, Once, Followed, Ends

\* What the stream says of a prompt stays, up to events that concern neither its start nor its end.
SameFor(e) ==
  /\ Awaited("delivered", e)' <=> Awaited("delivered", e)
  /\ Awaited("cancelled", e) => Awaited("cancelled", e)'
  /\ Once(stream, <<"delivered", e>>) => Once(stream', <<"delivered", e>>)
  /\ Followed(stream, <<"enqueued", e>>, Ends(e)) => Followed(stream', <<"enqueued", e>>, Ends(e))

LEMMA OtherPublished ==
  ASSUME ShapeInv, NEW e, NEW event \in EventSet, Publish(event),
         event \notin {<<"enqueued", e>>, <<"cancelled", e>>, <<"delivered", e>>}
  PROVE  SameFor(e)
<1>1. stream \in Seq(EventSet)
  BY ShapeSettled
<1>2. (Awaited("delivered", e)' <=> Awaited("delivered", e)) /\ (Awaited("cancelled", e)' <=> Awaited("cancelled", e))
  BY Published
<1>3. stream' = stream \/ stream' = Append(stream, event)
  BY DEF Publish
<1> QED BY <1>1, <1>2, <1>3, AppendOnce, AppendFollowed DEF SameFor

LEMMA OtherHandled ==
  ASSUME ShapeInv, NEW e, NEW type, Handling(type), <<type, Subject>> \notin Ends(e)
  PROVE  SameFor(e)
<1>1. stream \in Seq(EventSet) /\ stream # <<>> /\ stream' = Tail(stream)
  BY Handled
<1>2. (Awaited("delivered", e)' <=> Awaited("delivered", e)) /\ (Awaited("cancelled", e)' <=> Awaited("cancelled", e))
  BY Handled DEF Ends
<1> QED BY <1>1, <1>2, TailOnce, TailFollowed DEF SameFor

LEMMA SameStream ==
  ASSUME stream' = stream, NEW e
  PROVE  SameFor(e)
BY DEF SameFor, Awaited

LEMMA PromptStays ==
  ASSUME Onward, NEW e \in Prompts, PromptOf(e), SameFor(e), prompt'[e] = prompt[e], activated'[e] = activated[e],
         observer' = e <=> observer = e, e \in inbox' => e \in inbox
  PROVE  PromptOf(e)'
BY DEF PromptOf, SameFor, Onward

\* Steps that concern only calls.
LEMMA PromptsApart ==
  ASSUME ShapeInv, PromptInv, Onward, UNCHANGED <<prompt, activated, observer, inbox>>, Loss \/ Kept,
         \A e \in Prompts : SameFor(e)
  PROVE  PromptInv'
<1>1. losses \in 0 .. MaxLosses /\ losses' \in 0 .. MaxLosses /\ (losses' = 0 => losses = 0)
  BY Losing DEF ShapeInv
<1>2. observer' = "down" => losses' > 0
  BY <1>1, PartsByPrompt
<1>3. \A e \in Prompts : PromptOf(e)'
  BY PartsByPrompt, PromptStays
<1> QED BY <1>2, <1>3, PartsByPromptNext

LEMMA CallPrompts ==
  ASSUME ShapeInv, PromptInv, Onward,
         \/ BeforeCode \/ AfterCode \/ FailCode \/ Revert \/ ToolFailed
         \/ \E c \in Calls : \/ Before(c) \/ Track(c) \/ After(c) \/ Identified(c) \/ Late(c)
                             \/ \E result \in {"completed", "error", "denied"} : End(c, result)
  PROVE  PromptInv'
<1>1. CASE BeforeCode \/ AfterCode \/ \E c \in Calls : Before(c) \/ Track(c) \/ After(c) \/ Identified(c)
  <2>1. UNCHANGED <<prompt, activated, observer, inbox, stream>> /\ (Loss \/ Kept)
    BY <1>1 DEF BeforeCode, AfterCode, Before, Track, After, Identified, reports, ghosts, Kept
  <2> QED BY <2>1, SameStream, PromptsApart
<1>2. CASE FailCode \/ Revert
  <2>1. UNCHANGED <<prompt, activated, observer, inbox>> /\ Kept
    BY <1>2 DEF FailCode, Revert, server, reports, ghosts, Kept
  <2>2. ASSUME NEW e \in Prompts
        PROVE  SameFor(e)
    <3>1. PICK type \in {"failed", "reverted"} : Publish(<<type, Code>>) /\ <<type, Code>> \in EventSet
      BY <1>2, EventTypes, KeyFacts DEF FailCode, Revert
    <3>2. <<type, Code>> \notin {<<"enqueued", e>>, <<"cancelled", e>>, <<"delivered", e>>}
      OBVIOUS
    <3> QED BY <3>1, <3>2, OtherPublished
  <2> QED BY <2>1, <2>2, PromptsApart
<1>3. CASE ToolFailed
  <2>1. UNCHANGED <<prompt, activated, observer, inbox>> /\ Kept
    BY <1>3 DEF ToolFailed, server, Kept
  <2>2. ASSUME NEW e \in Prompts
        PROVE  SameFor(e)
    <3>1. <<"failed", Subject>> \notin Ends(e)
      BY DEF Ends
    <3> QED BY <1>3, <3>1, OtherHandled DEF ToolFailed
  <2> QED BY <2>1, <2>2, PromptsApart
<1>4. ASSUME NEW c \in Calls, Late(c) \/ \E result \in {"completed", "error", "denied"} : End(c, result)
      PROVE  PromptInv'
  <2>1. UNCHANGED <<prompt, activated, observer, inbox>> /\ Kept
    BY <1>4 DEF Late, End, reports, ghosts, Kept
  <2>2. ASSUME NEW e \in Prompts
        PROVE  SameFor(e)
    <3>1. stream' = stream \/ (c \in Direct /\ Publish(<<"failed", c>>))
      BY <1>4 DEF Late, End
    <3>2. c \in Direct => <<"failed", c>> \in EventSet
      BY KeyFacts, EventTypes
    <3>3. <<"failed", c>> \notin {<<"enqueued", e>>, <<"cancelled", e>>, <<"delivered", e>>}
      OBVIOUS
    <3> QED BY <3>1, <3>2, <3>3, SameStream, OtherPublished
  <2> QED BY <2>1, <2>2, PromptsApart
<1> QED BY <1>1, <1>2, <1>3, <1>4

\* A prompt moves on at the server.
LEMMA ServerPrompts ==
  ASSUME ShapeInv, PromptInv, Onward, NEW e \in Prompts, Prompt(e)
  PROVE  PromptInv'
<1>1. /\ UNCHANGED <<activated, observer, inbox, losses, stopped>> /\ stream \in Seq(EventSet)
      /\ prompt \in [Prompts -> {"unused", "new", "queued", "cancelled", "delivered"}]
      /\ activated[e] \in Nat
  BY ShapeSettled DEF Prompt, reports, ghosts, ShapeInv
<1>2. PICK type \in {"enqueued", "cancelled", "delivered"} :
        /\ Publish(<<type, e>>) /\ <<type, e>> \in EventSet
        /\ prompt[e] = IF type = "enqueued" THEN "new" ELSE "queued"
        /\ prompt' = [prompt EXCEPT ![e] = IF type = "enqueued" THEN "queued" ELSE type]
  BY EventTypes DEF Prompt
<1>3. observer' = "down" => losses' > 0
  BY <1>1, PartsByPrompt
<1>4. ASSUME NEW d \in Prompts, d # e
      PROVE  PromptOf(d)'
  <2>1. <<type, e>> \notin {<<"enqueued", d>>, <<"cancelled", d>>, <<"delivered", d>>}
    BY <1>4
  <2>2. SameFor(d) /\ prompt'[d] = prompt[d]
    BY <1>1, <1>2, <1>4, <2>1, OtherPublished
  <2> QED BY <1>1, <2>2, PartsByPrompt, PromptStays
<1>5. PromptOf(e)'
  <2>1. PromptOf(e) /\ prompt'[e] = (IF type = "enqueued" THEN "queued" ELSE type)
    BY <1>1, <1>2, PartsByPrompt
  <2>2. activated[e] = 0 /\ observer # e /\ ~Awaited("delivered", e)
    BY <1>1, <1>2, <2>1 DEF PromptOf
  <2>3. /\ Awaited("delivered", e)' => type = "delivered"
        /\ Undisturbed' => stream' = Append(stream, <<type, e>>) /\ Awaited(type, e)'
    <3>1. <<type, e>> # <<"delivered", e>> => (Awaited("delivered", e)' <=> Awaited("delivered", e))
      BY <1>2, Published
    <3>2. Undisturbed' => observer # "down"
      BY Listening DEF Onward
    <3>3. observer # "down" => stream' = Append(stream, <<type, e>>) /\ Range(stream') = Range(stream) \cup {<<type, e>>}
      BY <1>2, Published
    <3> QED BY <2>2, <3>1, <3>2, <3>3 DEF Awaited
  <2>4. Once(stream', <<"delivered", e>>)
    <3>1. Once(stream, <<"delivered", e>>) /\ <<"delivered", e>> \notin Range(stream)
      BY <2>1, <2>2 DEF PromptOf, Awaited
    <3>2. stream' = stream \/ stream' = Append(stream, <<type, e>>)
      BY <1>2 DEF Publish
    <3> QED BY ZenonT(60), <1>1, <1>2, <3>1, <3>2, AppendOnce
  <2>5. Undisturbed' => prompt'[e] = "queued" \/ Followed(stream', <<"enqueued", e>>, Ends(e))
    <3>1. type # "enqueued" => <<type, e>> \in Ends(e) /\ <<type, e>> # <<"enqueued", e>>
      BY DEF Ends
    <3> QED BY <1>1, <1>2, <2>1, <2>3, <3>1, AppendFollowed
  <2> QED BY <1>1, <1>2, <2>1, <2>2, <2>3, <2>4, <2>5 DEF PromptOf
<1> QED BY <1>3, <1>4, <1>5, PartsByPromptNext

\* The observer learns of a queued prompt.
LEMMA EnqueuedPrompts ==
  ASSUME ShapeInv, PromptInv, Onward, Enqueued
  PROVE  PromptInv'
<1>e. PICK e : e = Subject
  OBVIOUS
<1>1. /\ e = Subject /\ Handling("enqueued") /\ inbox' = inbox \cup {e}
      /\ UNCHANGED <<prompt, activated, observer, losses>> /\ e \in Prompts
  <2>1. <<"enqueued", Subject>> \in EventSet
    BY Handled DEF Enqueued
  <2> QED BY <1>e, <2>1 DEF Enqueued, EventSet, server, reports, ghosts
<1>2. \A d \in Prompts : SameFor(d)
  <2>1. \A d \in Prompts : <<"enqueued", Subject>> \notin Ends(d)
    BY DEF Ends
  <2> QED BY <1>1, <2>1, OtherHandled
<1>3. \A d \in Prompts \ {e} : PromptOf(d)'
  BY <1>1, <1>2, PartsByPrompt, PromptStays
<1>4. PromptOf(e)'
  <2>1. PromptOf(e) /\ SameFor(e)
    BY <1>1, <1>2, PartsByPrompt
  <2>2. Undisturbed' /\ prompt'[e] # "queued" => Awaited("cancelled", e)' \/ Awaited("delivered", e)'
    <3>1. Undisturbed' /\ prompt'[e] # "queued" => Followed(stream, <<"enqueued", e>>, Ends(e))
      BY <1>1, <2>1 DEF PromptOf, Onward
    <3>2. <<"enqueued", e>> \in Range(stream)
      BY <1>1, Handled DEF Awaited
    <3>3. Followed(stream, <<"enqueued", e>>, Ends(e)) => Awaited("cancelled", e) \/ Awaited("delivered", e)
      BY <3>2 DEF Followed, Ends, Awaited, Range
    <3> QED BY <2>1, <3>1, <3>3 DEF SameFor
  <2> QED BY <1>1, <2>1, <2>2 DEF PromptOf, SameFor, Onward
<1>5. observer' = "down" => losses' > 0
  BY <1>1, PartsByPrompt
<1> QED BY <1>3, <1>4, <1>5, PartsByPromptNext

\* What was cached is forgotten: of the prompt that was cancelled, or of all.
LEMMA ForgottenPrompts ==
  ASSUME ShapeInv, PromptInv, Onward, Forgotten
  PROVE  PromptInv'
<1>1. UNCHANGED <<prompt, activated, observer, losses>> /\ inbox' \subseteq inbox
  BY DEF Forgotten, server, reports, ghosts
<1>2. observer' = "down" => losses' > 0
  BY <1>1, PartsByPrompt
<1>3. ASSUME NEW d \in Prompts
      PROVE  PromptOf(d)'
  <2>1. CASE SameFor(d)
    BY <1>1, <2>1, PartsByPrompt, PromptStays
  <2>2. CASE Handling("cancelled") /\ inbox' = inbox \ {Subject} /\ Subject = d
    <3>1. /\ stream \in Seq(EventSet) /\ stream # <<>> /\ stream' = Tail(stream)
          /\ (Awaited("delivered", d)' <=> Awaited("delivered", d))
      BY <2>2, Handled
    <3>2. PromptOf(d) /\ d \notin inbox'
      BY <2>2, PartsByPrompt
    <3>3. /\ Once(stream, <<"delivered", d>>) => Once(stream', <<"delivered", d>>)
          /\ Followed(stream, <<"enqueued", d>>, Ends(d)) => Followed(stream', <<"enqueued", d>>, Ends(d))
      BY <3>1, TailOnce, TailFollowed
    <3> QED BY <1>1, <3>1, <3>2, <3>3 DEF PromptOf, Onward
  <2>3. Handling("reverted") => SameFor(d)
    BY OtherHandled DEF Ends
  <2>4. Handling("cancelled") /\ Subject # d => SameFor(d)
    BY OtherHandled DEF Ends
  <2> QED BY <2>1, <2>2, <2>3, <2>4 DEF Forgotten
<1> QED BY <1>2, <1>3, PartsByPromptNext

\* A delivered prompt is activated at once, or its context is looked up.
LEMMA DeliveredPrompts ==
  ASSUME ShapeInv, PromptInv, Onward, Delivered
  PROVE  PromptInv'
<1>e. PICK e : e = Subject
  OBVIOUS
<1>1. /\ e = Subject /\ Handling("delivered") /\ inbox' = inbox \ {e} /\ UNCHANGED <<prompt, losses, stopped>>
      /\ e \in Prompts /\ activated \in [Prompts -> Nat]
      /\ IF e \in inbox THEN Activate(e) /\ UNCHANGED observer ELSE observer' = e /\ UNCHANGED activated
  <2>1. <<"delivered", Subject>> \in EventSet
    BY Handled DEF Delivered
  <2> QED BY <1>e, <2>1 DEF Delivered, EventSet, server, ghosts, ShapeInv
<1>2. /\ stream \in Seq(EventSet) /\ stream # <<>> /\ stream' = Tail(stream) /\ observer = "up"
      /\ Head(stream) = <<"delivered", e>> /\ Awaited("delivered", e)
  BY <1>1, Handled
<1>3. \A d \in Prompts : d # "up" /\ d # "down"
  BY ConstantsAssumption
<1>4. observer' # "down"
  BY <1>1, <1>2, <1>3
<1>5. ASSUME NEW d \in Prompts, d # e
      PROVE  PromptOf(d)'
  <2>1. SameFor(d)
    BY <1>1, <1>5, OtherHandled DEF Ends
  <2>2. activated'[d] = activated[d] /\ (observer' = d <=> observer = d)
    BY <1>1, <1>2, <1>3, <1>5, Activated
  <2> QED BY <1>1, <2>1, <2>2, PartsByPrompt, PromptStays
<1>6. PromptOf(e)'
  <2>1. PromptOf(e) /\ prompt[e] = "delivered" /\ activated[e] = 0
    BY <1>1, <1>2, PartsByPrompt DEF PromptOf
  <2>2. Once(stream', <<"delivered", e>>) /\ ~Awaited("delivered", e)'
    BY <1>2, <2>1, TailOnce DEF PromptOf, Awaited
  <2>3. Followed(stream, <<"enqueued", e>>, Ends(e)) => Followed(stream', <<"enqueued", e>>, Ends(e))
    BY <1>2, TailFollowed
  <2>4. /\ activated'[e] = (IF e \in inbox /\ ~stopped THEN 1 ELSE 0)
        /\ observer' = e <=> e \notin inbox
    BY <1>1, <1>2, <1>3, <2>1, Activated
  <2>5. Undisturbed' => Undisturbed /\ ~stopped
    BY DEF Onward, Undisturbed
  <2> QED BY <1>1, <2>1, <2>2, <2>3, <2>4, <2>5 DEF PromptOf
<1> QED BY <1>4, <1>5, <1>6, PartsByPromptNext

\* The context is read, or cannot be.
LEMMA ContextPrompts ==
  ASSUME ShapeInv, PromptInv, Onward, Context
  PROVE  PromptInv'
<1>e. PICK e : e = observer
  OBVIOUS
<1>1. /\ e = observer /\ e \in Prompts /\ observer' = "up" /\ UNCHANGED <<prompt, stream, inbox, stopped>>
      /\ (Kept /\ Activate(e)) \/ (Loss /\ UNCHANGED activated)
      /\ activated \in [Prompts -> Nat] /\ losses \in 0 .. MaxLosses
  BY <1>e DEF Context, server, ShapeInv
<1>2. \A d \in Prompts : d # "up"
  BY ConstantsAssumption
<1>3. ASSUME NEW d \in Prompts, d # e
      PROVE  PromptOf(d)'
  <2>1. activated'[d] = activated[d]
    BY <1>1, <1>3, Activated
  <2> QED BY <1>1, <1>2, <1>3, <2>1, SameStream, PartsByPrompt, PromptStays
<1>4. PromptOf(e)'
  <2>1. PromptOf(e) /\ prompt[e] = "delivered" /\ activated[e] = 0 /\ ~Awaited("delivered", e)
    BY <1>1, PartsByPrompt DEF PromptOf
  <2>2. activated'[e] \in {0, 1} /\ (Undisturbed' => activated'[e] = 1)
    <3>1. CASE Kept /\ Activate(e)
      BY <1>1, <2>1, <3>1, Activated DEF Undisturbed
    <3>2. CASE Loss /\ UNCHANGED activated
      <4>1. losses' # 0
        BY <1>1, <3>2 DEF Loss
      <4> QED BY <2>1, <3>2, <4>1 DEF Undisturbed
    <3> QED BY <1>1, <3>1, <3>2
  <2>3. observer' # e
    BY <1>1, <1>2
  <2>4. SameFor(e) /\ prompt'[e] = prompt[e] /\ inbox' = inbox
    BY <1>1, SameStream
  <2> QED BY <2>1, <2>2, <2>3, <2>4 DEF PromptOf, SameFor, Onward
<1> QED BY <1>1, <1>3, <1>4, PartsByPromptNext

LEMMA CutPrompts ==
  ASSUME ShapeInv, PromptInv, Onward, Disconnect \/ Stop \/ Reconnect
  PROVE  PromptInv'
<1>1. CASE Reconnect
  <2>1. observer = "down" /\ observer' = "up" /\ UNCHANGED <<prompt, stream, inbox, activated>>
    BY <1>1 DEF Reconnect, server, reports
  <2>2. \A e \in Prompts : e # "up" /\ e # "down"
    BY ConstantsAssumption
  <2>3. \A e \in Prompts : PromptOf(e)'
    BY <2>1, <2>2, SameStream, PartsByPrompt, PromptStays
  <2> QED BY <2>1, <2>3, PartsByPromptNext
<1>2. CASE Disconnect \/ Stop
  <2>1. /\ UNCHANGED <<prompt, activated>> /\ stream' = <<>> /\ ~Undisturbed'
        /\ (observer' = observer /\ losses' = losses) \/ (observer' = "down" /\ losses' > 0)
    <3>1. CASE Disconnect
      <4>1. losses \in 0 .. MaxLosses /\ losses' = losses + 1
        BY <3>1 DEF ShapeInv, Disconnect, Loss
      <4>2. losses' > 0
        BY <4>1
      <4> QED BY <3>1, <4>2 DEF Disconnect, server, reports, Undisturbed
    <3>2. CASE Stop
      BY <3>2 DEF Stop, server, reports, ghosts, Undisturbed
    <3> QED BY <1>2, <3>1, <3>2
  <2>2. observer' = "down" => losses' > 0
    BY <2>1, PartsByPrompt
  <2>3. ASSUME NEW e \in Prompts
        PROVE  PromptOf(e)'
    <3>1. ~Awaited("delivered", e)' /\ Once(stream', <<"delivered", e>>)
      <4>1. DOMAIN stream' = {} /\ Range(stream') = {}
        BY <2>1, EmptyTypes, EmptySeq
      <4> QED BY <4>1 DEF Awaited, Once
    <3>2. PromptOf(e) /\ (observer' = e => observer = e)
      BY <2>1, PartsByPrompt, ConstantsAssumption
    <3> QED BY <2>1, <3>1, <3>2 DEF PromptOf
  <2> QED BY <2>2, <2>3, PartsByPromptNext
<1> QED BY <1>1, <1>2

LEMMA PromptsStep ==
  ASSUME ShapeInv, PromptInv, Onward, Next
  PROVE  PromptInv'
BY CallPrompts, ServerPrompts, EnqueuedPrompts, ForgottenPrompts, DeliveredPrompts, ContextPrompts, CutPrompts DEF Next

-----------------------------------------------------------------------------
(* The invariant *)

LEMMA InitInv == Init => IInv
<1> SUFFICES ASSUME Init
             PROVE  IInv
  OBVIOUS
<1>1. /\ kind \in [Direct -> {"mcp", "skill"}] /\ call \in [Calls -> {"unused", "new"}]
      /\ prompt \in [Prompts -> {"unused", "new"}]
      /\ outcome = [c \in Calls |-> "none"] /\ outer = "new" /\ published = {}
      /\ pending = NoCalls /\ activeCode = FALSE /\ settled = <<>>
      /\ stream = <<>> /\ observer = "up" /\ inbox = {} /\ stopped = FALSE
      /\ sent = [k \in Keys |-> [succeeded |-> 0, failed |-> 0]] /\ activated = [e \in Prompts |-> 0]
      /\ losses = 0 /\ missed = {} /\ reopened = {}
  BY DEF Init
<1>2. ShapeInv
  <2>1. ServerTypes
    BY <1>1 DEF ServerTypes
  <2>2. PluginTypes
    BY <1>1, EmptyTypes DEF PluginTypes
  <2>3. GhostTypes
    BY <1>1, ConstantsAssumption DEF GhostTypes
  <2> QED BY <2>1, <2>2, <2>3, ShapeTypes
<1>3. \A k : ~IsSettled(k) /\ ~Awaited("failed", k) /\ ~Awaited("delivered", k)
  BY <1>1, EmptyTypes DEF IsSettled, Awaited
<1>4. \A k : Run(k) = {} /\ Over(k) = {} /\ Done(k) = {}
  BY <1>1 DEF Run, Over, Done, CallsOf
<1>5. \A k : Cardinality(Run(k)) = 0 /\ Cardinality(Over(k)) = 0 /\ Cardinality(Done(k)) = 0
  BY <1>4, FS_EmptySet
<1>6. \A k \in Keys : pending[k] = 0 /\ sent[k].succeeded = 0 /\ sent[k].failed = 0 /\ Total(k) = 0
  BY <1>1, EmptyTypes DEF Total
<1>7. CallInv
  BY <1>1 DEF CallInv
<1>8. CountInv
  <2>1. \A k \in Keys : CountOf(k)
    BY <1>5, <1>6 DEF CountOf
  <2> QED BY <2>1, PartsByKey
<1>9. DirectInv
  <2>1. \A k \in Direct : DirectOf(k)
    BY <1>3, <1>5, <1>6, KeyFacts DEF DirectOf
  <2> QED BY <2>1, PartsByKey
<1>10. CodeInv
  BY <1>1, <1>3, <1>6, KeyFacts DEF CodeInv
<1>11. PromptInv
  <2>1. ASSUME NEW e \in Prompts
        PROVE  PromptOf(e)
    <3>1. DOMAIN stream = {}
      BY <1>1, EmptySeq
    <3>2. Once(stream, <<"delivered", e>>) /\ Followed(stream, <<"enqueued", e>>, Ends(e))
      BY <3>1 DEF Once, Followed
    <3>3. observer # e /\ activated[e] = 0 /\ prompt[e] # "delivered"
      BY <1>1, ConstantsAssumption
    <3> QED BY <1>1, <1>3, <3>2, <3>3 DEF PromptOf
  <2> QED BY <1>1, <2>1, PartsByPrompt
<1> QED BY <1>2, <1>7, <1>8, <1>9, <1>10, <1>11 DEF IInv

LEMMA Inductive == IInv /\ [Next]_vars => IInv'
<1> SUFFICES ASSUME IInv, [Next]_vars
             PROVE  IInv'
  OBVIOUS
<1>1. ShapeInv /\ CallsPart /\ PromptInv
  BY DEF IInv, CallsPart
<1>2. CASE Next
  BY <1>1, <1>2, Typing, CallsStep, PromptsStep DEF IInv, CallsPart
<1>3. CASE UNCHANGED vars
  <2>1. UNCHANGED <<kind, call, outcome, outer, published, prompt, pending, activeCode, settled, stream, observer,
                    inbox, stopped, sent, activated, losses, missed, reopened>>
    BY <1>3 DEF vars, server, calls, reports, ghosts
  <2>2. ShapeInv' /\ Onward
    BY <1>1, <2>1 DEF ShapeInv, Onward, Undisturbed
  <2>3. CallsPart'
    <3>1. UNCHANGED <<call, outcome, outer, calls, sent, missed, reopened>>
      BY <2>1 DEF calls
    <3> QED BY <1>1, <2>1, <2>2, <3>1, CallsApart DEF Awaited
  <2>4. PromptInv'
    BY <1>1, <2>1, <2>2, SameStream, PromptsApart DEF Kept
  <2> QED BY <2>2, <2>3, <2>4 DEF IInv, CallsPart
<1> QED BY <1>2, <1>3

\* The inductive invariant: every state of the plugin, whatever the server and the stream do.
THEOREM Invariance == Spec => []IInv
BY InitInv, Inductive, PTL DEF Spec

\* The variables have their types; no more calls are tracked than there are, and no more
\* keys settled than the cap of the code allows, each once (settledCalls).
THEOREM Typed == Spec => []TypeOK
<1>1. IInv => TypeOK
  <2> SUFFICES ASSUME IInv
               PROVE  TypeOK
    OBVIOUS
  <2>1. ShapeInv /\ CountInv
    BY DEF IInv
  <2>2. SettledOK(settled) /\ Len(settled) \in 0 .. SettledCap /\ Range(settled) \subseteq Keys
    BY <2>1, ShapeSettled, ConstantsAssumption DEF SettledOK, Range
  <2>3. Cardinality(Range(settled)) = Len(settled)
    BY <2>2, DistinctCount DEF SettledOK
  <2>4. pending \in [Keys -> 0 .. Cardinality(Calls)]
    <3>1. ASSUME NEW k \in Keys
          PROVE  pending[k] \in 0 .. Cardinality(Calls)
      <4>1. Cardinality(Run(k)) \in Nat /\ Cardinality(Calls) \in Nat /\ Cardinality(Run(k)) <= Cardinality(Calls)
        BY Counts, FiniteCalls, FS_Subset
      <4>2. pending[k] \in Nat /\ pending[k] <= Cardinality(Run(k))
        BY <2>1, Numbers DEF CountInv
      <4> QED BY <4>1, <4>2
    <3> QED BY <2>1, <3>1 DEF ShapeInv
  <2> QED BY <2>1, <2>2, <2>3, <2>4 DEF ShapeInv, TypeOK
<1> QED BY <1>1, Invariance, PTL

\* A key that no later call and no full memory reopened has no more reports than calls, no
\* more successes than calls that completed, and a call of its own no failure it did not have.
THEOREM NothingTwice == Spec => []AtMostOnce
<1>1. IInv => AtMostOnce
  <2> SUFFICES ASSUME IInv, NEW k \in Keys \ reopened
               PROVE  /\ Total(k) <= Cardinality(Attempted(k))
                      /\ sent[k].succeeded <= Cardinality(Ended(k, {"completed"}))
                      /\ k \in Direct => sent[k].failed <= Cardinality(Ended(k, {"error", "denied"}))
    BY DEF AtMostOnce
  <2>1. ShapeInv /\ CountOf(k) /\ (k \in Direct => DirectOf(k))
    BY PartsByKey DEF IInv
  <2>2. pending[k] \in Nat /\ sent[k].succeeded \in Nat /\ sent[k].failed \in Nat
    BY <2>1, Numbers
  <2>3. Total(k) \in Nat /\ Total(k) <= Cardinality(Run(k)) /\ Cardinality(Run(k)) \in Nat
    <3>1. Total(k) + pending[k] <= Cardinality(Run(k))
      BY <2>1 DEF CountOf
    <3> QED BY <2>2, <3>1, Counts DEF Total
  <2>4. Total(k) <= Cardinality(Attempted(k))
    <3>1. Run(k) \subseteq Attempted(k) /\ Attempted(k) \subseteq Calls
      BY DEF Run, Attempted, CallsOf
    <3>2. Cardinality(Run(k)) <= Cardinality(Attempted(k)) /\ Cardinality(Attempted(k)) \in Nat
      BY <3>1, FiniteCalls, FS_Subset
    <3> QED BY <2>3, <3>2
  <2>5. sent[k].succeeded <= Cardinality(Ended(k, {"completed"}))
    <3>1. Done(k) \subseteq Ended(k, {"completed"}) /\ Ended(k, {"completed"}) \subseteq Calls
      BY DEF Done, Over, Ended, CallsOf
    <3>2. Cardinality(Done(k)) <= Cardinality(Ended(k, {"completed"})) /\ Cardinality(Ended(k, {"completed"})) \in Nat
      BY <3>1, FiniteCalls, FS_Subset
    <3>3. sent[k].succeeded <= Cardinality(Done(k)) /\ Cardinality(Done(k)) \in Nat
      BY <2>1, Counts DEF CountOf
    <3> QED BY <2>2, <3>2, <3>3
  <2>6. k \in Direct => sent[k].failed <= Cardinality(Ended(k, {"error", "denied"}))
    <3> SUFFICES ASSUME k \in Direct
                 PROVE  sent[k].failed <= Cardinality(Ended(k, {"error", "denied"}))
      OBVIOUS
    <3>1. CallsOf(k) = {k}
      BY KeyFacts
    <3>2. CASE sent[k].failed = 0
      <4>1. Cardinality(Ended(k, {"error", "denied"})) \in Nat
        BY FiniteCalls DEF Ended, CallsOf
      <4> QED BY <3>2, <4>1
    <3>3. CASE sent[k].failed > 0
      <4>1. outcome[k] \in {"error", "denied"}
        BY <2>1, <3>3 DEF DirectOf
      <4>2. Ended(k, {"error", "denied"}) = {k}
        BY <3>1, <4>1 DEF Ended
      <4>3. Cardinality(Ended(k, {"error", "denied"})) = 1
        BY <4>2, FS_Singleton
      <4>4. Cardinality(Run(k)) <= 1
        <5>1. Run(k) \subseteq {k} /\ IsFiniteSet({k}) /\ Cardinality({k}) = 1
          BY <3>1, FS_Singleton DEF Run
        <5> QED BY <5>1, FS_Subset
      <4>5. sent[k].failed <= Total(k)
        BY <2>2 DEF Total
      <4> QED BY <2>2, <2>3, <4>3, <4>4, <4>5
    <3> QED BY <2>2, <3>2, <3>3
  <2> QED BY <2>4, <2>5, <2>6
<1> QED BY <1>1, Invariance, PTL

\* When everything was seen and answered, a call of its own that is over has been reported.
LEMMA DirectReported ==
  ASSUME IInv, Quiet, NEW k \in Direct, k \notin reopened, call[k] = "over"
  PROVE  LET done == Cardinality(Ended(k, {"completed"})) IN
         /\ pending[k] = 0 /\ (IF Mcp(k) THEN Total(k) = Cardinality(Attempted(k)) ELSE Total(k) = done)
         /\ sent[k].succeeded = done
<1>1. ShapeInv /\ CountOf(k) /\ DirectOf(k) /\ CallsOf(k) = {k} /\ k \in Keys
  BY KeyFacts, PartsByKey DEF IInv
<1>2. Undisturbed /\ ~Awaited("failed", k)
  BY EmptyTypes DEF Quiet, Undisturbed, Awaited
<1>3. pending[k] = 0
  BY <1>1, <1>2, Numbers DEF DirectOf
<1>4. /\ Run(k) = {k} /\ Attempted(k) = {k} /\ Over(k) = {k} /\ Done(k) = Ended(k, {"completed"})
      /\ outcome[k] = "completed" => Done(k) = {k}
      /\ outcome[k] # "completed" => Done(k) = {}
  BY <1>1 DEF Run, Attempted, Over, Done, Ended
<1>5. /\ Cardinality(Run(k)) = 1
      /\ outcome[k] = "completed" => Cardinality(Done(k)) = 1
      /\ outcome[k] # "completed" => Cardinality(Done(k)) = 0
  BY <1>4, FS_Singleton, FS_EmptySet
<1>6. sent[k].succeeded \in Nat /\ sent[k].failed \in Nat /\ Total(k) = sent[k].succeeded + sent[k].failed
  BY <1>1, Numbers DEF Total
<1>7. sent[k].succeeded <= Cardinality(Done(k)) /\ (sent[k].failed > 0 => outcome[k] # "completed")
  BY <1>1 DEF CountOf, DirectOf
<1>8. CASE Mcp(k)
  <2>1. Total(k) = 1
    <3>1. Total(k) + pending[k] = Cardinality(Run(k))
      BY <1>1, <1>2, <1>8 DEF CountOf
    <3> QED BY <1>3, <1>5, <1>6, <3>1
  <2>2. sent[k].succeeded = Cardinality(Done(k))
    BY <1>5, <1>6, <1>7, <2>1
  <2> QED BY <1>3, <1>4, <1>5, <1>8, <2>1, <2>2
<1>9. CASE ~Mcp(k)
  <2>1. Total(k) = Cardinality(Done(k))
    BY <1>1, <1>2, <1>9 DEF DirectOf
  <2>2. sent[k].succeeded = Cardinality(Done(k))
    BY <1>5, <1>6, <1>7, <2>1
  <2> QED BY <1>3, <1>4, <1>9, <2>1, <2>2
<1> QED BY <1>8, <1>9

\* The same of an execute call that is over and of the calls made inside it.
LEMMA CodeReported ==
  ASSUME IInv, Quiet, Code \notin reopened, Code \notin missed, outer \notin {"new", "running"},
         \A c \in Nested : call[c] \notin {"before", "after"}
  PROVE  /\ pending[Code] = 0 /\ ~activeCode /\ Total(Code) = Cardinality(Attempted(Code))
         /\ outer = "over" => sent[Code].succeeded = Cardinality(Ended(Code, {"completed"}))
<1>1. ShapeInv /\ CallInv /\ CountOf(Code) /\ CodeInv /\ CallsOf(Code) = Nested /\ Code \in Keys
  BY KeyFacts, PartsByKey DEF IInv
<1>2. Undisturbed /\ ~Awaited("failed", Code)
  BY EmptyTypes DEF Quiet, Undisturbed, Awaited
<1>3. ~activeCode /\ pending[Code] = 0
  BY <1>1, <1>2 DEF CodeInv
<1>4. Attempted(Code) = Run(Code)
  <2>1. \A c \in Nested : call[c] \in {"unused", "new", "running", "over"}
    BY <1>1, KeyFacts DEF ShapeInv
  <2> QED BY <1>1, <2>1 DEF Attempted, Run
<1>5. Total(Code) = Cardinality(Attempted(Code))
  <2>1. Total(Code) + pending[Code] = Cardinality(Run(Code))
    BY <1>1, <1>2 DEF CountOf
  <2>2. sent[Code].succeeded \in Nat /\ sent[Code].failed \in Nat
    BY <1>1, Numbers
  <2>3. Total(Code) \in Nat
    BY <2>2 DEF Total
  <2> QED BY <1>3, <1>4, <2>1, <2>3
<1>6. ASSUME outer = "over"
      PROVE  sent[Code].succeeded = Cardinality(Ended(Code, {"completed"}))
  <2>1. \A c \in Nested : outcome[c] = "completed" => call[c] = "over"
    BY <1>1, <1>6, KeyFacts DEF CallInv
  <2>2. Ended(Code, {"completed"}) = Done(Code)
    BY <1>1, <2>1 DEF Ended, Done, Over
  <2> QED BY <1>1, <1>2, <1>6, <2>2 DEF CodeInv
<1> QED BY <1>3, <1>5, <1>6

\* When every event was seen and every lookup answered, each attempt of a call that is over
\* has been reported, with its outcome, and none stays tracked.  Exceptions are an execute call
\* of which a nested call was tracked only after its failure had been handled (`missed`), and
\* keys that left the settled ones again, by eviction or because a nested call began after
\* that failure (`reopened`).
THEOREM EverythingReported == Spec => []AllReported
<1>1. IInv => AllReported
  <2> SUFFICES ASSUME IInv, Quiet, NEW k \in Keys \ (missed \cup reopened), KeyOver(k)
               PROVE  LET done == Cardinality(Ended(k, {"completed"})) IN
                      /\ pending[k] = 0 /\ (k = Code => ~activeCode)
                      /\ IF k = Code \/ Mcp(k) THEN Total(k) = Cardinality(Attempted(k)) ELSE Total(k) = done
                      /\ k # Code \/ outer = "over" => sent[k].succeeded = done
    BY DEF AllReported
  <2>1. CASE k = Code
    BY <2>1, CodeReported DEF KeyOver
  <2>2. CASE k # Code
    <3>1. k \in Direct /\ call[k] = "over"
      BY <2>2 DEF Keys, KeyOver
    <3> QED BY <2>2, <3>1, DirectReported
  <2> QED BY <2>1, <2>2
<1> QED BY <1>1, Invariance, PTL

\* A skill counts once if its prompt is delivered and never otherwise, and when everything
\* was seen and answered it has been counted and what is cached is still queued.
THEOREM SkillsCountOnce == Spec => []SkillOnce
<1>1. IInv => SkillOnce
  <2> SUFFICES ASSUME IInv, NEW e \in Prompts
               PROVE  /\ activated[e] <= (IF prompt[e] = "delivered" THEN 1 ELSE 0)
                      /\ Quiet => inbox \cap {e} = {} \/ prompt[e] = "queued"
                      /\ Quiet /\ prompt[e] = "delivered" => activated[e] = 1
    BY DEF SkillOnce
  <2>1. PromptOf(e)
    BY PartsByPrompt DEF IInv
  <2>2. Quiet => Undisturbed /\ observer # e /\ ~Awaited("cancelled", e) /\ ~Awaited("delivered", e)
    BY EmptyTypes, ConstantsAssumption DEF Quiet, Undisturbed, Awaited
  <2> QED BY <2>1, <2>2 DEF PromptOf
<1> QED BY <1>1, Invariance, PTL

=============================================================================
