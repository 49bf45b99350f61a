------------------------- MODULE LegacyPipeline_proof -------------------------
(***************************************************************************)
(* Proofs about LegacyPipeline.  The lists of the two threads hold the     *)
(* samples in the order in which they were read, from the framework's end  *)
(* of the pipe back to the lists of the hwcntl thread.  A step moves the   *)
(* first samples of a list to the end of the one before it, or gives them  *)
(* up, so what comes out is in order and nothing is in two places.         *)
(***************************************************************************)
EXTENDS LegacyPipeline, SequenceTheorems, TLAPS

Ordered(list) ==
  \A i, j \in DOMAIN list : i < j /\ list[i] \in Samples /\ list[j] \in Samples => Before(list[i], list[j])

Precedes(X, Y) == \A x \in X \cap Samples, y \in Y \cap Samples : Before(x, y)

\* The samples that wait in the lists of the hwcntl thread, in the shared one and in those
\* of the sensord thread.
Waiting == InList(hwList["acc"]) \cup InList(hwList["gyr"])
Mounted == InList(shared)
Sorted == InList(raw["acc"]) \cup InList(raw["gyr"])
InPlay == Stream \cup Sorted \cup Mounted \cup Waiting

Order ==
  /\ Ordered(Line)
  /\ Ordered(shared) /\ \A s \in Sensors : Ordered(raw[s]) /\ Ordered(hwList[s])
  /\ Precedes(Stream, Sorted \cup Mounted \cup Waiting)
  /\ Precedes(Sorted, Mounted \cup Waiting)
  /\ Precedes(Mounted, Waiting)
  /\ Precedes(InList(hwList["acc"]), InList(hwList["gyr"]))

\* Where the threads and a call of poll are.
ThreadsAt ==
  /\ hw = "acc" => hwList["gyr"] = <<>>
  /\ sensord = "sort" => shared # <<>>
  /\ sensord = "align" => \E s \in Sensors : raw[s] # <<>>
  /\ sensord = "deliver" <=> events # <<>>
  /\ room = 0 => polled = 0

\* Each sensor's lists hold its own samples.
Own == \A s \in Sensors : InList(hwList[s]) \cup InList(raw[s]) \subseteq SamplesOf(s)

Known(x) == x.n <= taken[x.sensor] /\ x.time <= clock

Accounts ==
  /\ \A x \in InPlay \cup lost : Known(x)
  /\ lost \cap InPlay = {}
  /\ \A s \in Sensors : \A n \in 1..taken[s] : \E x \in InPlay \cup lost : x.sensor = s /\ x.n = n
  /\ clock <= 1 + taken["acc"] + taken["gyr"]

IInv == TypeOK /\ ThreadsAt /\ Own /\ Order /\ Accounts

-----------------------------------------------------------------------------
(* Lists.                                                                  *)

\* Before is an order of the samples.
LEMMA BeforeOrders ==
  ASSUME NEW x \in Samples, NEW y \in Samples
  PROVE  /\ ~ Before(x, x)
         /\ \A z \in Samples : Before(x, y) /\ Before(y, z) => Before(x, z)
<1>1. \A w \in Samples : w.sensor \in {"acc", "gyr"} /\ w.n \in Int /\ w.time \in Int
  BY PipelineAssumption DEF Samples, SamplesOf, SampleBound, Times
<1>2. QED
  BY <1>1 DEF Before

LEMMA ListOf ==
  ASSUME NEW S, NEW a \in Seq(S)
  PROVE  InList(a) \subseteq S
<1>1. \A i \in DOMAIN a : a[i] \in S
  BY ElementOfSeq
<1>2. QED
  BY <1>1 DEF InList

LEMMA ListEmpty == InList(<<>>) = {} /\ Ordered(<<>>)
BY DEF InList, Ordered

\* Lists put one behind the other.
LEMMA ListConcat ==
  ASSUME NEW S, NEW a \in Seq(S), NEW b \in Seq(S)
  PROVE  InList(a \o b) = InList(a) \cup InList(b)
<1> DEFINE c == a \o b
<1>1. Len(c) = Len(a) + Len(b) /\ DOMAIN c = 1..Len(c) /\ DOMAIN a = 1..Len(a) /\ DOMAIN b = 1..Len(b)
      /\ Len(a) \in Nat /\ Len(b) \in Nat
  BY ConcatProperties, LenProperties
<1>2. \A i \in 1..Len(c) : c[i] = IF i <= Len(a) THEN a[i] ELSE b[i - Len(a)]
  BY ConcatProperties
<1> HIDE DEF c
<1>3. ASSUME NEW x \in InList(c) PROVE x \in InList(a) \cup InList(b)
  <2>1. PICK i \in 1..Len(c) : x = c[i]
    BY <1>1 DEF InList
  <2>2. CASE i <= Len(a)
    BY <1>1, <1>2, <2>1, <2>2 DEF InList
  <2>3. CASE ~(i <= Len(a))
    <3>1. i - Len(a) \in 1..Len(b)
      BY <1>1, <2>1, <2>3
    <3>2. QED
      BY <1>1, <1>2, <2>1, <2>3, <3>1 DEF InList
  <2>4. QED
    BY <2>2, <2>3
<1>4. ASSUME NEW x \in InList(a) PROVE x \in InList(c)
  <2>1. PICK i \in 1..Len(a) : x = a[i]
    BY <1>1 DEF InList
  <2>2. i \in 1..Len(c) /\ c[i] = x
    BY <1>1, <1>2, <2>1
  <2>3. QED
    BY <1>1, <2>2 DEF InList
<1>5. ASSUME NEW x \in InList(b) PROVE x \in InList(c)
  <2>1. PICK i \in 1..Len(b) : x = b[i]
    BY <1>1 DEF InList
  <2>2. i + Len(a) \in 1..Len(c) /\ ~(i + Len(a) <= Len(a)) /\ (i + Len(a)) - Len(a) = i
    BY <1>1, <2>1
  <2>3. c[i + Len(a)] = x
    BY <1>2, <2>1, <2>2
  <2>4. QED
    BY <1>1, <2>2, <2>3 DEF InList
<1>6. QED
  BY <1>3, <1>4, <1>5 DEF c

LEMMA OrderedConcat ==
  ASSUME NEW S, NEW a \in Seq(S), NEW b \in Seq(S)
  PROVE  Ordered(a \o b) <=> (Ordered(a) /\ Ordered(b) /\ Precedes(InList(a), InList(b)))
<1> DEFINE c == a \o b
<1>1. Len(c) = Len(a) + Len(b) /\ DOMAIN c = 1..Len(c) /\ DOMAIN a = 1..Len(a) /\ DOMAIN b = 1..Len(b)
      /\ Len(a) \in Nat /\ Len(b) \in Nat
  BY ConcatProperties, LenProperties
<1>2. \A i \in 1..Len(c) : c[i] = IF i <= Len(a) THEN a[i] ELSE b[i - Len(a)]
  BY ConcatProperties
<1> HIDE DEF c
<1>3. \A i \in 1..Len(a) : i \in 1..Len(c) /\ c[i] = a[i]
  BY <1>1, <1>2
<1>4. \A i \in 1..Len(b) : i + Len(a) \in 1..Len(c) /\ c[i + Len(a)] = b[i]
  <2> TAKE i \in 1..Len(b)
  <2>1. i + Len(a) \in 1..Len(c) /\ ~(i + Len(a) <= Len(a)) /\ (i + Len(a)) - Len(a) = i
    BY <1>1
  <2>2. QED
    BY <1>2, <2>1
<1>5. ASSUME Ordered(c) PROVE Ordered(a) /\ Ordered(b) /\ Precedes(InList(a), InList(b))
  <2>1. Ordered(a)
    BY <1>1, <1>3, <1>5 DEF Ordered
  <2>2. Ordered(b)
    <3> SUFFICES ASSUME NEW i \in 1..Len(b), NEW j \in 1..Len(b), i < j, b[i] \in Samples, b[j] \in Samples
                 PROVE  Before(b[i], b[j])
      BY <1>1 DEF Ordered
    <3>1. i + Len(a) < j + Len(a)
      BY <1>1
    <3>2. QED
      BY <1>1, <1>4, <1>5, <3>1 DEF Ordered
  <2>3. ASSUME NEW x \in InList(a) \cap Samples, NEW y \in InList(b) \cap Samples PROVE Before(x, y)
    <3>1. PICK i \in 1..Len(a) : x = a[i]
      BY <1>1 DEF InList
    <3>2. PICK j \in 1..Len(b) : y = b[j]
      BY <1>1 DEF InList
    <3>3. i < j + Len(a)
      BY <1>1
    <3>4. QED
      BY <1>1, <1>3, <1>4, <1>5, <3>1, <3>2, <3>3 DEF Ordered
  <2>4. QED
    BY <2>1, <2>2, <2>3 DEF Precedes
<1>6. ASSUME Ordered(a), Ordered(b), Precedes(InList(a), InList(b)) PROVE Ordered(c)
  <2> SUFFICES ASSUME NEW i \in 1..Len(c), NEW j \in 1..Len(c), i < j, c[i] \in Samples, c[j] \in Samples
               PROVE  Before(c[i], c[j])
    BY <1>1 DEF Ordered
  <2>1. CASE j <= Len(a)
    <3>1. i \in 1..Len(a) /\ j \in 1..Len(a)
      BY <1>1, <2>1
    <3>2. QED
      BY <1>1, <1>3, <1>6, <3>1 DEF Ordered
  <2>2. CASE ~(i <= Len(a))
    <3>1. i - Len(a) \in 1..Len(b) /\ j - Len(a) \in 1..Len(b) /\ i - Len(a) < j - Len(a) /\ ~(j <= Len(a))
      BY <1>1, <2>2
    <3>2. c[i] = b[i - Len(a)] /\ c[j] = b[j - Len(a)]
      BY <1>2, <2>2, <3>1
    <3>3. QED
      BY <1>1, <1>6, <3>1, <3>2 DEF Ordered
  <2>3. CASE i <= Len(a) /\ ~(j <= Len(a))
    <3>1. i \in 1..Len(a) /\ j - Len(a) \in 1..Len(b)
      BY <1>1, <2>3
    <3>2. c[i] = a[i] /\ c[j] = b[j - Len(a)]
      BY <1>2, <2>3, <3>1
    <3>3. c[i] \in InList(a) /\ c[j] \in InList(b)
      BY <1>1, <3>1, <3>2 DEF InList
    <3>4. QED
      BY <1>6, <3>3 DEF Precedes
  <2>4. QED
    BY <1>1, <2>1, <2>2, <2>3
<1>7. QED
  BY <1>5, <1>6 DEF c

LEMMA ListOne ==
  ASSUME NEW x
  PROVE  <<x>> \in Seq({x}) /\ Len(<<x>>) = 1 /\ InList(<<x>>) = {x} /\ Ordered(<<x>>)
<1>1. DOMAIN <<x>> = {1} /\ <<x>>[1] = x /\ Len(<<x>>) = 1 /\ <<x>> \in Seq({x})
  OBVIOUS
<1>2. InList(<<x>>) = {x}
  BY <1>1 DEF InList
<1>3. Ordered(<<x>>)
  BY <1>1 DEF Ordered
<1>4. QED
  BY <1>1, <1>2, <1>3

LEMMA ListAppend ==
  ASSUME NEW S, NEW a \in Seq(S), NEW x \in S
  PROVE  /\ Append(a, x) \in Seq(S) /\ Len(Append(a, x)) = Len(a) + 1
         /\ InList(Append(a, x)) = InList(a) \cup {x}
         /\ Ordered(Append(a, x)) <=> (Ordered(a) /\ Precedes(InList(a), {x}))
<1>1. Append(a, x) = a \o <<x>> /\ <<x>> \in Seq(S) /\ Append(a, x) \in Seq(S) /\ Len(Append(a, x)) = Len(a) + 1
  BY AppendProperties, AppendIsConcat
<1>2. InList(Append(a, x)) = InList(a) \cup InList(<<x>>)
  BY <1>1, ListConcat
<1>3. Ordered(Append(a, x)) <=> (Ordered(a) /\ Ordered(<<x>>) /\ Precedes(InList(a), InList(<<x>>)))
  BY <1>1, OrderedConcat
<1>4. QED
  BY <1>1, <1>2, <1>3, ListOne

\* A list is its first k elements and the others.
LEMMA ListSplit ==
  ASSUME NEW S, NEW a \in Seq(S), NEW k \in 0..Len(a)
  PROVE  /\ SubSeq(a, 1, k) \in Seq(S) /\ SubSeq(a, k + 1, Len(a)) \in Seq(S)
         /\ Len(SubSeq(a, 1, k)) = k /\ Len(SubSeq(a, k + 1, Len(a))) = Len(a) - k
         /\ a = SubSeq(a, 1, k) \o SubSeq(a, k + 1, Len(a))
<1>1. Len(a) \in Nat /\ k \in Int /\ k <= Len(a) /\ 0 <= k /\ 1 \in Int
  BY LenProperties
<1>2. 1 \in 1..(Len(a) + 1) /\ k \in (1 - 1)..Len(a) /\ Len(a) \in k..Len(a) /\ k + 1 \in Int /\ Len(a) \in Int
  BY <1>1
<1>3. SubSeq(a, 1, k) \o SubSeq(a, k + 1, Len(a)) = SubSeq(a, 1, Len(a))
  BY <1>2, ConcatAdjacentSubSeq
<1>4. \A i \in 1..k : a[i] \in S
  BY <1>1, ElementOfSeq
<1>5. \A i \in (k + 1)..Len(a) : a[i] \in S
  BY <1>1, ElementOfSeq
<1>6. SubSeq(a, 1, k) \in Seq(S) /\ Len(SubSeq(a, 1, k)) = IF 1 <= k THEN k - 1 + 1 ELSE 0
  BY <1>1, <1>4, SubSeqProperties
<1>7. /\ SubSeq(a, k + 1, Len(a)) \in Seq(S)
      /\ Len(SubSeq(a, k + 1, Len(a))) = IF k + 1 <= Len(a) THEN Len(a) - (k + 1) + 1 ELSE 0
  BY <1>2, <1>5, SubSeqProperties
<1>8. SubSeq(a, 1, Len(a)) = a
  BY SubSeqFull
<1>9. Len(SubSeq(a, 1, k)) = k /\ Len(SubSeq(a, k + 1, Len(a))) = Len(a) - k
  BY <1>1, <1>6, <1>7
<1>10. QED
  BY <1>3, <1>6, <1>7, <1>8, <1>9

LEMMA ListHead ==
  ASSUME NEW S, NEW a \in Seq(S), a # <<>>
  PROVE  /\ Head(a) \in S /\ Tail(a) \in Seq(S) /\ Len(Tail(a)) = Len(a) - 1 /\ Len(a) \in Nat \ {0}
         /\ InList(a) = {Head(a)} \cup InList(Tail(a))
         /\ Ordered(a) <=> (Ordered(Tail(a)) /\ Precedes({Head(a)}, InList(Tail(a))))
<1>1. Head(a) \in S /\ Tail(a) \in Seq(S) /\ Len(Tail(a)) = Len(a) - 1 /\ Len(a) \in Nat \ {0}
  BY HeadTailProperties, EmptySeq
<1>2. a = <<Head(a)>> \o Tail(a)
  <2>1. 1 \in 1..Len(a) /\ Len(a) \in 1..Len(a) /\ 1 + 1 = 2
    BY <1>1
  <2>2. SubSeq(a, 1, Len(a)) = <<a[1]>> \o SubSeq(a, 1 + 1, Len(a))
    BY <2>1, SubSeqRecursiveFirst
  <2>3. SubSeq(a, 1, Len(a)) = a /\ Tail(a) = SubSeq(a, 2, Len(a)) /\ Head(a) = a[1]
    BY SubSeqFull, TailIsSubSeq
  <2>4. QED
    BY <2>1, <2>2, <2>3
<1>3. <<Head(a)>> \in Seq(S)
  BY <1>1
<1>4. InList(a) = InList(<<Head(a)>>) \cup InList(Tail(a))
  BY <1>1, <1>2, <1>3, ListConcat
<1>5. Ordered(a) <=> (Ordered(<<Head(a)>>) /\ Ordered(Tail(a)) /\ Precedes(InList(<<Head(a)>>), InList(Tail(a))))
  BY <1>1, <1>2, <1>3, OrderedConcat
<1>6. QED
  BY <1>1, <1>4, <1>5, ListOne

-----------------------------------------------------------------------------
(* The operators of SimpleList: what they keep, what they give up.         *)

\* The new list has what the old ones had but for what was given up, and that was first.
Keeps(new, gone, old) ==
  /\ InList(new) \cup gone = old
  /\ Len(new) <= Limit

LEMMA PrecedesParts ==
  ASSUME NEW X, NEW Y, NEW Z
  PROVE  /\ Precedes(X, Y \cup Z) <=> (Precedes(X, Y) /\ Precedes(X, Z))
         /\ Precedes(X \cup Y, Z) <=> (Precedes(X, Z) /\ Precedes(Y, Z))
         /\ Precedes({}, X) /\ Precedes(X, {})
         /\ Y \subseteq Z /\ Precedes(X, Z) => Precedes(X, Y)
         /\ Y \subseteq Z /\ Precedes(Z, X) => Precedes(Y, X)
BY DEF Precedes

LEMMA PrecedesIn ==
  ASSUME NEW X, NEW Y, NEW Z, Precedes(X, Y), Precedes(X, Z), NEW V, V \subseteq X, NEW W, W \subseteq Y \cup Z
  PROVE  Precedes(V, W)
BY DEF Precedes

LEMMA NewestSplits ==
  ASSUME NEW S, NEW a \in Seq(S)
  PROVE  /\ Newest(a, Limit) \in Seq(S) /\ Oldest(a, Limit) \in Seq(S)
         /\ Len(Newest(a, Limit)) <= Limit
         /\ a = Oldest(a, Limit) \o Newest(a, Limit)
<1>1. Limit \in Nat /\ Len(a) \in Nat
  BY PipelineAssumption, LenProperties
<1>2. CASE Len(a) <= Limit
  <2>1. Newest(a, Limit) = a /\ Oldest(a, Limit) = <<>>
    BY <1>2 DEF Newest, Oldest
  <2>2. <<>> \in Seq(S) /\ <<>> \o a = a
    BY EmptySeq, ConcatEmptySeq
  <2>3. QED
    BY <1>2, <2>1, <2>2
<1>3. CASE ~(Len(a) <= Limit)
  <2> DEFINE k == Len(a) - Limit
  <2>1. k \in 0..Len(a) /\ Len(a) - k = Limit /\ k + 1 = Len(a) - Limit + 1
    BY <1>1, <1>3
  <2>2. Newest(a, Limit) = SubSeq(a, Len(a) - Limit + 1, Len(a)) /\ Oldest(a, Limit) = SubSeq(a, 1, k)
    BY <1>3 DEF Newest, Oldest
  <2> HIDE DEF k
  <2>3. Newest(a, Limit) = SubSeq(a, k + 1, Len(a))
    BY <2>1, <2>2
  <2>4. /\ SubSeq(a, 1, k) \in Seq(S) /\ SubSeq(a, k + 1, Len(a)) \in Seq(S)
        /\ Len(SubSeq(a, k + 1, Len(a))) = Len(a) - k
        /\ a = SubSeq(a, 1, k) \o SubSeq(a, k + 1, Len(a))
    BY <2>1, ListSplit
  <2>5. Len(Newest(a, Limit)) <= Limit
    BY <1>1, <2>1, <2>3, <2>4
  <2>6. QED
    BY <2>2, <2>3, <2>4, <2>5
<1>4. QED
  BY <1>2, <1>3

LEMMA AddRearKeeps ==
  ASSUME NEW S, NEW a \in Seq(S), Len(a) <= Limit, NEW x \in S
  PROVE  LET new == AddRear(a, x, Limit)
             gone == AddRearFrees(a, Limit)
         IN /\ new \in Seq(S) /\ new # <<>> /\ Keeps(new, gone, InList(a) \cup {x})
            /\ x \in InList(new) /\ gone \subseteq InList(a)
            /\ Ordered(a) /\ Precedes(InList(a), {x}) => Ordered(new) /\ Precedes(gone, InList(new))
<1> DEFINE new == AddRear(a, x, Limit)
<1> DEFINE gone == AddRearFrees(a, Limit)
<1>1. Limit \in Nat \ {0} /\ Len(a) \in Nat
  BY PipelineAssumption, LenProperties
<1>2. CASE Len(a) = Limit
  <2>1. a # <<>>
    BY <1>1, <1>2, EmptySeq
  <2>2. new = Append(Tail(a), x) /\ gone = {Head(a)}
    BY <1>2 DEF AddRear, AddRearFrees
  <2>3. /\ Tail(a) \in Seq(S) /\ Len(Tail(a)) = Len(a) - 1
        /\ InList(a) = {Head(a)} \cup InList(Tail(a))
        /\ Ordered(a) <=> (Ordered(Tail(a)) /\ Precedes({Head(a)}, InList(Tail(a))))
    BY <2>1, ListHead
  <2>4. /\ Append(Tail(a), x) \in Seq(S) /\ Len(Append(Tail(a), x)) = Len(Tail(a)) + 1
        /\ InList(Append(Tail(a), x)) = InList(Tail(a)) \cup {x}
        /\ Ordered(Append(Tail(a), x)) <=> (Ordered(Tail(a)) /\ Precedes(InList(Tail(a)), {x}))
    BY <2>3, ListAppend
  <2>5. Append(Tail(a), x) # <<>>
    BY <2>3, AppendProperties
  <2>6. Len(new) <= Limit
    BY <1>1, <1>2, <2>2, <2>3, <2>4
  <2>7. Keeps(new, gone, InList(a) \cup {x})
    BY <2>2, <2>3, <2>4, <2>6 DEF Keeps
  <2>8. ASSUME Ordered(a), Precedes(InList(a), {x}) PROVE Ordered(new) /\ Precedes(gone, InList(new))
    <3>1. Precedes(InList(Tail(a)), {x}) /\ Precedes({Head(a)}, {x}) /\ Precedes({Head(a)}, InList(Tail(a)))
      BY <2>3, <2>8, PrecedesParts
    <3>2. QED
      BY <2>2, <2>3, <2>4, <2>8, <3>1, PrecedesParts
  <2>9. QED
    BY <2>2, <2>3, <2>4, <2>5, <2>7, <2>8
<1>3. CASE Len(a) # Limit
  <2>1. new = Append(a, x) /\ gone = {}
    BY <1>3 DEF AddRear, AddRearFrees
  <2>2. /\ Append(a, x) \in Seq(S) /\ Len(Append(a, x)) = Len(a) + 1
        /\ InList(Append(a, x)) = InList(a) \cup {x}
        /\ Ordered(Append(a, x)) <=> (Ordered(a) /\ Precedes(InList(a), {x}))
    BY ListAppend
  <2>3. Append(a, x) # <<>>
    BY AppendProperties
  <2>4. Len(new) <= Limit
    BY <1>1, <1>3, <2>1, <2>2
  <2>5. Keeps(new, gone, InList(a) \cup {x})
    BY <2>1, <2>2, <2>4 DEF Keeps
  <2>6. QED
    BY <2>1, <2>2, <2>3, <2>5, PrecedesParts
<1>4. QED
  BY <1>2, <1>3

LEMMA MountRearKeeps ==
  ASSUME NEW S, NEW a \in Seq(S), Len(a) <= Limit, NEW b \in Seq(S)
  PROVE  LET new == MountRear(a, b, Limit)
             gone == MountRearFrees(a, b, Limit)
         IN /\ new \in Seq(S) /\ Keeps(new, gone, InList(a) \cup InList(b))
            /\ Ordered(a) /\ Ordered(b) /\ Precedes(InList(a), InList(b)) =>
                 Ordered(new) /\ Precedes(gone, InList(new))
<1> DEFINE new == MountRear(a, b, Limit)
<1> DEFINE gone == MountRearFrees(a, b, Limit)
<1>1. gone = InList(Oldest(a \o b, Limit))
  BY DEF MountRearFrees, InList
<1>2. CASE b = <<>>
  <2>1. new = a /\ a \o b = a
    BY <1>2, ConcatEmptySeq DEF MountRear
  <2>2. Oldest(a \o b, Limit) = <<>>
    BY <2>1 DEF Oldest
  <2>3. gone = {} /\ InList(b) = {}
    BY <1>1, <1>2, <2>2, ListEmpty
  <2>4. Keeps(new, gone, InList(a) \cup InList(b))
    BY <2>1, <2>3 DEF Keeps
  <2>5. QED
    BY <2>1, <2>3, <2>4, PrecedesParts
<1>3. CASE b # <<>>
  <2> DEFINE c == a \o b
  <2> DEFINE first == Oldest(c, Limit)
  <2>1. new = Newest(c, Limit)
    BY <1>3 DEF MountRear
  <2>2. c \in Seq(S)
    BY ConcatProperties
  <2>3. InList(c) = InList(a) \cup InList(b)
        /\ (Ordered(c) <=> (Ordered(a) /\ Ordered(b) /\ Precedes(InList(a), InList(b))))
    BY ListConcat, OrderedConcat
  <2> HIDE DEF c
  <2>4. new \in Seq(S) /\ first \in Seq(S) /\ Len(new) <= Limit /\ c = first \o new
    BY <2>1, <2>2, NewestSplits
  <2>5. gone = InList(first)
    BY <1>1 DEF c
  <2> HIDE DEF new, gone, first
  <2>6. InList(c) = InList(first) \cup InList(new)
        /\ (Ordered(c) <=> (Ordered(first) /\ Ordered(new) /\ Precedes(InList(first), InList(new))))
    BY <2>4, ListConcat, OrderedConcat
  <2>7. Keeps(new, gone, InList(a) \cup InList(b))
    BY <2>3, <2>4, <2>5, <2>6 DEF Keeps
  <2>8. Ordered(a) /\ Ordered(b) /\ Precedes(InList(a), InList(b)) => Ordered(new) /\ Precedes(gone, InList(new))
    BY <2>3, <2>5, <2>6
  <2>9. QED
    BY <2>4, <2>7, <2>8 DEF new, gone
<1>4. QED
  BY <1>2, <1>3

-----------------------------------------------------------------------------
(* Samples and where they are.                                             *)

LEMMA SampleSets ==
  /\ \A s \in Sensors : SamplesOf(s) \subseteq Samples /\ \A x \in SamplesOf(s) : x.sensor = s
  /\ \A x \in Samples : /\ x.sensor \in Sensors /\ x \in SamplesOf(x.sensor)
                        /\ x.n \in Nat \ {0} /\ x.n <= SampleBound(x.sensor) /\ x.time \in Times
  /\ \A s \in Sensors : SampleBound(s) \in Nat
  /\ Times \subseteq Nat \ {0}
  /\ SamplesOf("acc") \cap SamplesOf("gyr") = {}
<1>1. \A s \in Sensors : SampleBound(s) \in Nat
  BY PipelineAssumption DEF Sensors, SampleBound
<1>2. Times \subseteq Nat \ {0}
  BY PipelineAssumption DEF Times
<1>3. \A s \in Sensors : \A x \in SamplesOf(s) :
        x.sensor = s /\ x.n \in 1..SampleBound(s) /\ x.time \in Times
  BY DEF SamplesOf
<1>4. \A x \in Samples : \E s \in Sensors : x \in SamplesOf(s)
  BY DEF Samples, Sensors
<1>5. \A s \in Sensors : SamplesOf(s) \subseteq Samples
  BY DEF Samples, Sensors
<1>6. \A x \in Samples : /\ x.sensor \in Sensors /\ x \in SamplesOf(x.sensor)
                         /\ x.n \in Nat \ {0} /\ x.n <= SampleBound(x.sensor) /\ x.time \in Times
  BY <1>1, <1>3, <1>4
<1>7. SamplesOf("acc") \cap SamplesOf("gyr") = {}
  BY <1>3 DEF Sensors
<1>8. QED
  BY <1>1, <1>2, <1>3, <1>5, <1>6, <1>7

\* What comes first and what comes later have nothing in common.
LEMMA PrecedesApart ==
  ASSUME NEW X \in SUBSET Samples, NEW Y, Precedes(X, Y)
  PROVE  X \cap Y = {}
BY BeforeOrders DEF Precedes

LEMMA ListsHoldSamples ==
  ASSUME TypeOK
  PROVE  /\ Stream \subseteq Samples /\ Sorted \subseteq Samples /\ Mounted \subseteq Samples
         /\ Waiting \subseteq Samples /\ InPlay \subseteq Samples /\ lost \subseteq Samples
         /\ \A s \in Sensors : InList(hwList[s]) \subseteq Samples /\ InList(raw[s]) \subseteq Samples
<1>1. \A s \in Sensors : hwList[s] \in Seq(Samples) /\ raw[s] \in Seq(Samples)
  BY DEF TypeOK
<1>2. \A s \in Sensors : InList(hwList[s]) \subseteq Samples /\ InList(raw[s]) \subseteq Samples
  BY <1>1, ListOf
<1>3. Mounted \subseteq Samples
  BY ListOf DEF TypeOK, Mounted
<1>4. QED
  BY <1>2, <1>3 DEF TypeOK, Sensors, Stream, Sorted, Waiting, InPlay

LEMMA IInvInit == Init => IInv
<1> SUFFICES ASSUME Init PROVE IInv
  OBVIOUS
<1>1. hwList = [s \in Sensors |-> <<>>] /\ raw = [s \in Sensors |-> <<>>] /\ shared = <<>> /\ events = <<>>
      /\ pipe = <<>> /\ got = <<>> /\ lost = {} /\ clock = 1 /\ taken = [s \in Sensors |-> 0]
  BY DEF Init
<1>2. <<>> \in Seq(Samples) /\ <<>> \in Seq(Events) /\ Len(<<>>) = 0
  BY EmptySeq
<1>3. TypeOK
  <2>1. clock \in Times
    BY <1>1, PipelineAssumption DEF Times
  <2>2. taken \in [Sensors -> Nat] /\ \A s \in Sensors : taken[s] <= SampleBound(s)
    BY <1>1, SampleSets
  <2>3. hwList \in [Sensors -> Seq(Samples)] /\ \A s \in Sensors : Len(hwList[s]) <= Limit
    BY <1>1, <1>2, PipelineAssumption
  <2>4. raw \in [Sensors -> Seq(Samples)] /\ \A s \in Sensors : Len(raw[s]) <= Limit
    BY <1>1, <1>2, PipelineAssumption
  <2>5. Len(shared) <= Limit /\ Len(pipe) <= PipeSize
    BY <1>1, <1>2, PipelineAssumption
  <2>6. room \in 0..Count /\ polled \in 0..Count /\ polled + room <= Count /\ flushes \in 0..MaxFlushes
    BY PipelineAssumption DEF Init
  <2>7. hw \in {"acc", "gyr", "mount"} /\ signalled \in BOOLEAN
        /\ sensord \in {"read", "waiting", "sort", "align", "deliver"}
    BY DEF Init
  <2>8. QED
    BY <1>1, <1>2, <2>1, <2>2, <2>3, <2>4, <2>5, <2>6, <2>7 DEF TypeOK
<1>4. Line = <<>>
  BY <1>1, <1>2, ConcatEmptySeq DEF Line
<1>5. \A s \in Sensors : InList(hwList[s]) = {} /\ InList(raw[s]) = {} /\ Ordered(hwList[s]) /\ Ordered(raw[s])
  BY <1>1, ListEmpty
<1>6. Stream = {} /\ Sorted = {} /\ Mounted = {} /\ Waiting = {} /\ Ordered(Line) /\ Ordered(shared)
  BY <1>1, <1>4, <1>5, ListEmpty DEF Stream, Sorted, Mounted, Waiting, Sensors
<1>7. Order
  BY <1>5, <1>6, PrecedesParts DEF Order, Sensors
<1>8. ThreadsAt
  BY <1>1 DEF ThreadsAt, Init, Sensors
<1>9. Own
  BY <1>5 DEF Own
<1>10. Accounts
  <2>1. InPlay \cup lost = {}
    BY <1>1, <1>6 DEF InPlay
  <2>2. \A s \in Sensors : 1..taken[s] = {}
    BY <1>1
  <2>3. QED
    BY <1>1, <2>1, <2>2 DEF Accounts, Sensors
<1>11. QED
  BY <1>3, <1>7, <1>8, <1>9, <1>10 DEF IInv

-----------------------------------------------------------------------------
(* The hwcntl thread.                                                      *)

LEMMA LineStays ==
  ASSUME UNCHANGED <<got, pipe, events>>
  PROVE  Line' = Line /\ Stream' = Stream
BY DEF Line, Stream, InList

\* A sample is later than all that are known when it is read.
LEMMA SampleIsNew ==
  ASSUME IInv, NEW s \in Sensors, NEW passed \in Passes[s], taken[s] < SampleBound(s)
  PROVE  LET sample == [sensor |-> s, n |-> taken[s] + 1, time |-> clock + passed]
         IN /\ sample \in SamplesOf(s) /\ sample \in Samples
            /\ clock + passed \in Times /\ clock <= clock + passed
            /\ clock + passed <= 1 + (taken["acc"] + taken["gyr"] + 1)
            /\ \A x \in Samples : Known(x) => Before(x, sample)
<1> DEFINE sample == [sensor |-> s, n |-> taken[s] + 1, time |-> clock + passed]
<1>1. clock \in Nat \ {0} /\ taken["acc"] \in Nat /\ taken["gyr"] \in Nat
      /\ taken["acc"] <= SampleBound("acc") /\ taken["gyr"] <= SampleBound("gyr")
  BY SampleSets DEF IInv, TypeOK, Sensors
<1>2. clock <= 1 + taken["acc"] + taken["gyr"]
  BY DEF IInv, Accounts
<1>3. passed \in {0, 1} /\ (s = "acc" => passed = 1) /\ s \in {"acc", "gyr"}
  BY DEF Passes, Sensors
<1>4. SampleBound("acc") \in Nat /\ SampleBound("gyr") \in Nat
      /\ Times = 1..(SampleBound("acc") + SampleBound("gyr") + 1)
  BY SampleSets DEF Times, SampleBound, Sensors
<1>5. clock + passed \in 1..(SampleBound("acc") + SampleBound("gyr") + 1)
  BY <1>1, <1>2, <1>3, <1>4
<1>6. taken[s] + 1 \in 1..SampleBound(s)
  BY <1>1, <1>3, <1>4
<1>7. sample \in SamplesOf(s) /\ sample \in Samples
  BY <1>4, <1>5, <1>6, SampleSets DEF SamplesOf
<1>8. ASSUME NEW x \in Samples, Known(x) PROVE Before(x, sample)
  <2>1. x.sensor \in {"acc", "gyr"} /\ x.n \in Nat /\ x.time \in Nat
    BY SampleSets DEF Sensors
  <2>2. x.n <= taken[x.sensor] /\ x.time <= clock
    BY <1>8 DEF Known
  <2>3. sample.sensor = s /\ sample.n = taken[s] + 1 /\ sample.time = clock + passed
    OBVIOUS
  <2> HIDE DEF sample
  <2>4. QED
    BY <1>1, <1>3, <2>1, <2>2, <2>3 DEF Before
<1>9. QED
  BY <1>1, <1>2, <1>3, <1>4, <1>5, <1>7, <1>8

LEMMA ReadSampleKeeps ==
  ASSUME IInv, NEW s \in Sensors, NEW passed \in Passes[s], ReadSample(s, passed)
  PROVE  IInv'
<1> DEFINE sample == [sensor |-> s, n |-> taken[s] + 1, time |-> clock + passed]
<1> DEFINE new == AddRear(hwList[s], sample, Limit)
<1> DEFINE gone == AddRearFrees(hwList[s], Limit)
<1> USE DEF IInv
<1>1. /\ hw = s /\ taken[s] < SampleBound(s) /\ clock' = clock + passed
      /\ taken' = [taken EXCEPT ![s] = @ + 1] /\ hwList' = [hwList EXCEPT ![s] = new]
      /\ lost' = lost \cup gone
      /\ UNCHANGED <<hw, shared, signalled, pipe, sensord, raw, events, room, polled, got, flushes>>
  BY DEF ReadSample, sensordThread, poller
<1>2. hwList \in [Sensors -> Seq(Samples)] /\ hwList[s] \in Seq(Samples) /\ Len(hwList[s]) <= Limit
      /\ taken \in [Sensors -> Nat] /\ clock \in Nat
  BY SampleSets DEF TypeOK
<1>3. /\ sample \in SamplesOf(s) /\ sample \in Samples /\ clock' \in Times /\ clock <= clock'
      /\ clock' <= 1 + (taken["acc"] + taken["gyr"] + 1)
      /\ \A x \in Samples : Known(x) => Before(x, sample)
  BY <1>1, SampleIsNew
<1>4. sample.sensor = s /\ sample.n = taken[s] + 1 /\ sample.time = clock'
  BY <1>1
<1> HIDE DEF sample
<1>5. /\ new \in Seq(Samples) /\ Keeps(new, gone, InList(hwList[s]) \cup {sample})
      /\ sample \in InList(new) /\ gone \subseteq InList(hwList[s])
      /\ Ordered(hwList[s]) /\ Precedes(InList(hwList[s]), {sample}) => Ordered(new) /\ Precedes(gone, InList(new))
  BY <1>2, <1>3, AddRearKeeps
<1>6. InList(new) \cup gone = InList(hwList[s]) \cup {sample} /\ Len(new) <= Limit
  BY <1>5 DEF Keeps
<1> HIDE DEF new, gone
<1>7. InPlay \subseteq Samples /\ lost \subseteq Samples /\ InList(hwList[s]) \subseteq Samples
  BY ListsHoldSamples
<1>8. /\ \A X \in SUBSET (InPlay \cup lost) : Precedes(X, {sample})
      /\ Stream \subseteq InPlay /\ Sorted \subseteq InPlay /\ Mounted \subseteq InPlay /\ Waiting \subseteq InPlay
  BY <1>3 DEF Precedes, Accounts, InPlay
<1>9. hwList'[s] = new /\ \A t \in Sensors \ {s} : hwList'[t] = hwList[t]
  BY <1>1, <1>2
<1>10. taken'[s] = taken[s] + 1 /\ \A t \in Sensors \ {s} : taken'[t] = taken[t]
  BY <1>1, <1>2
<1>11. Line' = Line /\ Stream' = Stream /\ Sorted' = Sorted /\ Mounted' = Mounted
  BY <1>1, LineStays DEF Sorted, Mounted, InList
<1>12. \A t \in Sensors : InList(hwList[t]) \subseteq Waiting
  BY DEF Waiting, Sensors
<1>13. Waiting' = IF s = "acc" THEN InList(new) \cup InList(hwList["gyr"])
                  ELSE InList(hwList["acc"]) \cup InList(new)
  BY <1>9 DEF Waiting, Sensors
<1>14. Waiting' \cup gone = Waiting \cup {sample}
  BY <1>6, <1>13 DEF Waiting, Sensors
<1>15. TypeOK'
  <2>1. taken' \in [Sensors -> Nat] /\ \A t \in Sensors : taken'[t] <= SampleBound(t)
    BY <1>1, <1>2, <1>10, SampleSets DEF TypeOK
  <2>2. hwList' \in [Sensors -> Seq(Samples)] /\ \A t \in Sensors : Len(hwList'[t]) <= Limit
    BY <1>1, <1>2, <1>5, <1>6, <1>9 DEF TypeOK
  <2>3. lost' \subseteq Samples
    BY <1>1, <1>5, <1>7
  <2>4. QED
    BY <1>1, <1>3, <2>1, <2>2, <2>3 DEF TypeOK
<1>16. ThreadsAt'
  BY <1>1, <1>9 DEF ThreadsAt, Sensors
<1>17. Own'
  <2>1. InList(new) \subseteq SamplesOf(s)
    BY <1>3, <1>6 DEF Own
  <2>2. \A t \in Sensors : InList(hwList'[t]) \subseteq SamplesOf(t) /\ InList(raw'[t]) \subseteq SamplesOf(t)
    BY <1>1, <1>9, <2>1 DEF Own
  <2>3. Own' <=> \A t \in Sensors : InList(hwList'[t]) \cup InList(raw'[t]) \subseteq SamplesOf(t)
    BY DEF Own, InList, SamplesOf, SampleBound, Times
  <2>4. QED
    BY <2>2, <2>3

<1>18. Order'
  <2>1. Ordered(hwList[s]) /\ Precedes(InList(hwList[s]), {sample})
    BY <1>8, <1>12 DEF Order
  <2>2. \A t \in Sensors : Ordered(hwList'[t]) /\ Ordered(raw'[t])
    BY <1>1, <1>5, <1>9, <2>1 DEF Order
  <2>3. Precedes(InList(hwList'["acc"]), InList(hwList'["gyr"]))
    <3>1. CASE s = "acc"
      <4>1. hwList'["gyr"] = <<>>
        BY <1>1, <1>9, <3>1 DEF ThreadsAt, Sensors
      <4>2. QED
        BY <4>1, ListEmpty, PrecedesParts
    <3>2. CASE s = "gyr"
      <4>1. Precedes(InList(hwList["acc"]), InList(hwList["gyr"])) /\ Precedes(InList(hwList["acc"]), {sample})
        BY <1>8, <1>12, <3>2 DEF Order, Sensors
      <4>2. InList(hwList'["gyr"]) \subseteq InList(hwList["gyr"]) \cup {sample} /\ hwList'["acc"] = hwList["acc"]
        BY <1>6, <1>9, <3>2 DEF Sensors
      <4>3. QED
        BY <4>1, <4>2, PrecedesIn
    <3>3. QED
      BY <3>1, <3>2 DEF Sensors
  <2>4. Waiting' \subseteq Waiting \cup {sample}
    BY <1>14
  <2>5. Precedes(Mounted, {sample}) /\ Precedes(Sorted, {sample}) /\ Precedes(Stream, {sample})
    BY <1>8
  <2>6. Precedes(Mounted', Waiting')
    BY <1>11, <2>4, <2>5, PrecedesIn DEF Order
  <2>7. Precedes(Sorted', Mounted' \cup Waiting')
    <3>1. Precedes(Sorted, Mounted \cup Waiting) /\ Mounted \cup Waiting' \subseteq (Mounted \cup Waiting) \cup {sample}
      BY <2>4 DEF Order
    <3>2. QED
      BY <1>11, <2>5, <3>1, PrecedesIn
  <2>8. Precedes(Stream', Sorted' \cup Mounted' \cup Waiting')
    <3>1. Precedes(Stream, Sorted \cup Mounted \cup Waiting)
          /\ Sorted \cup Mounted \cup Waiting' \subseteq (Sorted \cup Mounted \cup Waiting) \cup {sample}
      BY <2>4 DEF Order
    <3>2. QED
      BY <1>11, <2>5, <3>1, PrecedesIn
  <2>9. Ordered(Line') /\ Ordered(shared')
    BY <1>1, <1>11 DEF Order
  <2>10. QED
    BY <2>2, <2>3, <2>6, <2>7, <2>8, <2>9 DEF Order
<1>19. Accounts'
  <2>1. InPlay' \cup lost' = InPlay \cup lost \cup {sample}
    BY <1>1, <1>11, <1>14 DEF InPlay
  <2>2. \A x \in InPlay \cup lost : x \in Samples /\ x.n <= taken[x.sensor] /\ x.time <= clock
    BY <1>7 DEF Accounts, Known
  <2>3. ASSUME NEW x \in InPlay' \cup lost' PROVE x.n <= taken'[x.sensor] /\ x.time <= clock'
    <3>1. CASE x = sample
      <4>1. sample.n <= taken'[sample.sensor] /\ sample.time <= clock'
        BY <1>2, <1>3, <1>4, <1>10, SampleSets
      <4>2. QED
        BY <3>1, <4>1
    <3>2. CASE x # sample
      <4>1. x \in Samples /\ x.n <= taken[x.sensor] /\ x.time <= clock
        BY <2>1, <2>2, <3>2
      <4>2. x.sensor \in Sensors /\ x.n \in Nat /\ x.time \in Nat /\ taken[x.sensor] \in Nat /\ clock' \in Nat
        BY <1>2, <1>3, <4>1, SampleSets
      <4>3. taken'[x.sensor] = taken[x.sensor] \/ taken'[x.sensor] = taken[x.sensor] + 1
        BY <1>10, <4>2
      <4>4. QED
        BY <1>2, <1>3, <4>1, <4>2, <4>3
    <3>3. QED
      BY <3>1, <3>2
  <2>4. lost' \cap InPlay' = {}
    <3>1. sample \notin InPlay \cup lost
      BY <1>3, <1>8, BeforeOrders DEF Precedes
    <3>2. gone \subseteq InList(hwList[s]) /\ gone \subseteq Samples /\ gone \subseteq InPlay
      BY <1>5, <1>7, <1>8, <1>12
    <3>3. gone \cap InList(new) = {}
      <4>1. Precedes(gone, InList(new))
        BY <1>5, <1>8, <1>12 DEF Order
      <4>2. QED
        BY <3>2, <4>1, PrecedesApart
    <3>4. (Stream \cup Sorted \cup Mounted) \cap Waiting = {}
      <4>1. Stream \in SUBSET Samples /\ Sorted \in SUBSET Samples /\ Mounted \in SUBSET Samples
        BY ListsHoldSamples
      <4>2. Precedes(Stream, Waiting) /\ Precedes(Sorted, Waiting) /\ Precedes(Mounted, Waiting)
        BY PrecedesParts DEF Order
      <4>3. QED
        BY <4>1, <4>2, PrecedesApart
    <3>5. \A t \in Sensors \ {s} : InList(hwList[t]) \cap InList(hwList[s]) = {}
      BY SampleSets DEF Own, Sensors
    <3>6. gone \cap Waiting' = {}
      BY <1>5, <1>13, <3>3, <3>5 DEF Sensors
    <3>7. gone \cap InPlay' = {}
      <4>1. gone \subseteq Waiting
        BY <1>5, <1>12
      <4>2. QED
        BY <1>11, <3>4, <3>6, <4>1 DEF InPlay
    <3>8. lost \cap InPlay' = {}
      BY <1>11, <1>14, <3>1 DEF InPlay, Accounts
    <3>9. QED
      BY <1>1, <3>7, <3>8
  <2>5. ASSUME NEW t \in Sensors, NEW n \in 1..taken'[t]
        PROVE  \E x \in InPlay' \cup lost' : x.sensor = t /\ x.n = n
    <3>1. CASE n \in 1..taken[t]
      BY <2>1, <3>1 DEF Accounts
    <3>2. CASE n \notin 1..taken[t]
      <4>1. t = s /\ n = taken[s] + 1
        BY <1>2, <1>10, <3>2
      <4>2. QED
        BY <1>4, <2>1, <4>1
    <3>3. QED
      BY <3>1, <3>2
  <2>6. clock' <= 1 + taken'["acc"] + taken'["gyr"]
    BY <1>2, <1>3, <1>10 DEF Sensors
  <2>7. QED
    BY <2>3, <2>4, <2>5, <2>6 DEF Accounts, Known
<1>20. QED
  BY <1>15, <1>16, <1>17, <1>18, <1>19

LEMMA AccountsStay ==
  ASSUME IInv, UNCHANGED <<taken, clock>>, InPlay' \cup lost' = InPlay \cup lost, lost' \cap InPlay' = {}
  PROVE  Accounts'
<1>1. \A x \in InPlay' \cup lost' : x.n <= taken'[x.sensor] /\ x.time <= clock'
  BY DEF IInv, Accounts, Known
<1>2. \A s \in Sensors : \A n \in 1..taken'[s] : \E x \in InPlay' \cup lost' : x.sensor = s /\ x.n = n
  BY DEF IInv, Accounts
<1>3. clock' <= 1 + taken'["acc"] + taken'["gyr"]
  BY DEF IInv, Accounts
<1>4. QED
  BY <1>1, <1>2, <1>3 DEF Accounts, Known

\* Steps that leave all lists alone.
LEMMA ListsStay ==
  ASSUME IInv, UNCHANGED <<device, hwList, shared, raw, lost, got, pipe, events>>
  PROVE  Own' /\ Order' /\ Accounts'
<1>1. Line' = Line /\ Stream' = Stream
  BY LineStays
<1>2. Sorted' = Sorted /\ Mounted' = Mounted /\ Waiting' = Waiting
  BY DEF Sorted, Mounted, Waiting
<1>3. Own' /\ Order'
  BY <1>1, <1>2 DEF IInv, Own, Order
<1>4. InPlay' = InPlay
  BY <1>1, <1>2 DEF InPlay
<1>5. UNCHANGED <<taken, clock>> /\ InPlay' \cup lost' = InPlay \cup lost /\ lost' \cap InPlay' = {}
  BY <1>4 DEF device, IInv, Accounts
<1>6. QED
  BY <1>3, <1>5, AccountsStay

LEMMA EndOfFileKeeps ==
  ASSUME IInv, NEW s \in Sensors, EndOfFile(s)
  PROVE  IInv'
<1>1. /\ UNCHANGED <<device, hwList, shared, raw, lost, got, pipe, events>>
      /\ UNCHANGED <<signalled, sensord, room, polled, flushes>>
      /\ hw' = IF s = "acc" THEN "gyr" ELSE "mount"
  BY DEF EndOfFile, sensordThread, poller
<1>2. Own' /\ Order' /\ Accounts'
  BY <1>1, ListsStay
<1>3. TypeOK'
  BY <1>1 DEF IInv, TypeOK, device
<1>4. ThreadsAt'
  BY <1>1 DEF IInv, ThreadsAt
<1>5. QED
  BY <1>2, <1>3, <1>4 DEF IInv

LEMMA MountKeeps ==
  ASSUME IInv, Mount
  PROVE  IInv'
<1> DEFINE acc == hwList["acc"]
<1> DEFINE gyr == hwList["gyr"]
<1> DEFINE first == MountRear(shared, acc, Limit)
<1> DEFINE gone1 == MountRearFrees(shared, acc, Limit)
<1> DEFINE second == MountRear(first, gyr, Limit)
<1> DEFINE gone2 == MountRearFrees(first, gyr, Limit)
<1> USE DEF IInv
<1>1. /\ sensord # "sort" /\ hw' = "acc" /\ shared' = second /\ lost' = lost \cup gone1 \cup gone2
      /\ hwList' = [s \in Sensors |-> <<>>]
      /\ signalled' = (signalled \/ (sensord = "waiting" /\ \E s \in Sensors : hwList[s] # <<>>))
      /\ UNCHANGED <<clock, taken, pipe, sensord, raw, events, room, polled, got, flushes>>
  BY DEF Mount, device, sensordThread, poller
<1>2. shared \in Seq(Samples) /\ Len(shared) <= Limit /\ acc \in Seq(Samples) /\ gyr \in Seq(Samples)
  BY DEF TypeOK, Sensors
<1> HIDE DEF acc, gyr
<1>3. /\ first \in Seq(Samples) /\ Keeps(first, gone1, InList(shared) \cup InList(acc))
      /\ Ordered(shared) /\ Ordered(acc) /\ Precedes(InList(shared), InList(acc)) =>
           Ordered(first) /\ Precedes(gone1, InList(first))
  BY <1>2, MountRearKeeps
<1> HIDE DEF first, gone1
<1>4. InList(first) \cup gone1 = InList(shared) \cup InList(acc) /\ Len(first) <= Limit
  BY <1>3 DEF Keeps
<1>5. /\ second \in Seq(Samples) /\ Keeps(second, gone2, InList(first) \cup InList(gyr))
      /\ Ordered(first) /\ Ordered(gyr) /\ Precedes(InList(first), InList(gyr)) =>
           Ordered(second) /\ Precedes(gone2, InList(second))
  BY <1>2, <1>3, <1>4, MountRearKeeps
<1> HIDE DEF second, gone2
<1>6. InList(second) \cup gone2 = InList(first) \cup InList(gyr) /\ Len(second) <= Limit
  BY <1>5 DEF Keeps
<1>7. Mounted = InList(shared) /\ Waiting = InList(acc) \cup InList(gyr)
  BY DEF Mounted, Waiting, acc, gyr
<1>8. /\ Ordered(shared) /\ Ordered(acc) /\ Ordered(gyr) /\ Precedes(InList(shared), InList(acc))
      /\ Precedes(InList(shared), InList(gyr)) /\ Precedes(InList(acc), InList(gyr))
  <2>1. Ordered(shared) /\ Ordered(acc) /\ Ordered(gyr) /\ Precedes(InList(acc), InList(gyr))
    BY DEF Order, Sensors, acc, gyr
  <2>2. Precedes(InList(shared), InList(acc) \cup InList(gyr))
    BY <1>7 DEF Order
  <2>3. QED
    BY <2>1, <2>2, PrecedesParts
<1>9. Ordered(first) /\ Precedes(gone1, InList(first))
  BY <1>3, <1>8
<1>10. Precedes(InList(first), InList(gyr)) /\ Precedes(gone1, InList(gyr))
  BY <1>4, <1>8 DEF Precedes
<1>11. Ordered(second) /\ Precedes(gone2, InList(second))
  BY <1>5, <1>8, <1>9, <1>10
<1>12. Precedes(gone1, InList(second))
  BY <1>6, <1>9, <1>10 DEF Precedes
<1>13. \A s \in Sensors : hwList'[s] = <<>> /\ InList(hwList'[s]) = {} /\ Ordered(hwList'[s])
  BY <1>1, ListEmpty
<1>14. Line' = Line /\ Stream' = Stream /\ Sorted' = Sorted
  BY <1>1, LineStays DEF Sorted
<1>15. Mounted' = InList(second) /\ Waiting' = {}
  BY <1>1, <1>13 DEF Mounted, Waiting, Sensors
<1>16. Mounted' \cup gone1 \cup gone2 = Mounted \cup Waiting
  BY <1>4, <1>6, <1>7, <1>15
<1>17. Stream \in SUBSET Samples /\ Sorted \in SUBSET Samples /\ Mounted \in SUBSET Samples
       /\ Waiting \in SUBSET Samples /\ lost \in SUBSET Samples
  BY ListsHoldSamples
<1>18. gone1 \in SUBSET Samples /\ gone2 \in SUBSET Samples /\ lost' \subseteq Samples
  BY <1>1, <1>16, <1>17
<1>19. TypeOK'
  <2>1. hwList' \in [Sensors -> Seq(Samples)] /\ \A s \in Sensors : Len(hwList'[s]) <= Limit
    BY <1>1, <1>13, EmptySeq, PipelineAssumption
  <2>2. signalled' \in BOOLEAN
    BY <1>1 DEF TypeOK
  <2>3. shared' \in Seq(Samples) /\ Len(shared') <= Limit
    BY <1>1, <1>5, <1>6
  <2>4. QED
    BY <1>1, <1>18, <2>1, <2>2, <2>3 DEF TypeOK
<1>20. ThreadsAt'
  BY <1>1, <1>13 DEF ThreadsAt, Sensors
<1>21. Own'
  BY <1>1, <1>13 DEF Own
<1>22. Order'
  <2>1. Precedes(Sorted, Mounted \cup Waiting) /\ Precedes(Stream, Sorted \cup Mounted \cup Waiting)
    BY DEF Order
  <2>2. Precedes(Sorted', Mounted' \cup Waiting')
    BY <1>14, <1>15, <1>16, <2>1, PrecedesIn
  <2>3. Precedes(Stream', Sorted' \cup Mounted' \cup Waiting')
    <3>1. Sorted' \cup Mounted' \cup Waiting' \subseteq (Sorted \cup Mounted \cup Waiting) \cup {}
      BY <1>14, <1>15, <1>16
    <3>2. QED
      BY <1>14, <2>1, <3>1, PrecedesIn
  <2>4. Precedes(Mounted', Waiting') /\ Precedes(InList(hwList'["acc"]), InList(hwList'["gyr"]))
    BY <1>13, <1>15, PrecedesParts DEF Sensors
  <2>5. Ordered(Line') /\ Ordered(shared') /\ \A s \in Sensors : Ordered(raw'[s]) /\ Ordered(hwList'[s])
    BY <1>1, <1>11, <1>13, <1>14 DEF Order
  <2>6. QED
    BY <2>2, <2>3, <2>4, <2>5 DEF Order
<1>23. Accounts'
  <2>1. InPlay' \cup lost' = InPlay \cup lost
    BY <1>1, <1>14, <1>15, <1>16 DEF InPlay
  <2>2. (gone1 \cup gone2) \cap InList(second) = {}
    BY <1>11, <1>12, <1>18, PrecedesApart
  <2>3. (Stream \cup Sorted) \cap (Mounted \cup Waiting) = {}
    <3>1. Precedes(Stream, Mounted \cup Waiting) /\ Precedes(Sorted, Mounted \cup Waiting)
      BY DEF Order, Precedes
    <3>2. QED
      BY <1>17, <3>1, PrecedesApart
  <2>4. lost' \cap InPlay' = {}
    <3>1. InPlay' = Stream \cup Sorted \cup InList(second) /\ InPlay' \subseteq InPlay
      BY <1>14, <1>15, <1>16 DEF InPlay
    <3>2. gone1 \cup gone2 \subseteq Mounted \cup Waiting
      BY <1>16
    <3>3. QED
      BY <1>1, <2>2, <2>3, <3>1, <3>2 DEF Accounts
  <2>5. QED
    BY <1>1, <2>1, <2>4, AccountsStay
<1>24. QED
  BY <1>19, <1>20, <1>21, <1>22, <1>23

-----------------------------------------------------------------------------
(* The sensord thread.                                                     *)

LEMMA QuietKeeps ==
  ASSUME IInv, ReadRawData \/ WaitForData \/ Wake
  PROVE  IInv'
<1>1. /\ UNCHANGED <<device, hwList, shared, raw, lost, got, pipe, events>>
      /\ UNCHANGED <<hw, room, polled, flushes>>
      /\ sensord # "deliver" /\ sensord' \in {"read", "waiting", "sort"} /\ (sensord' = "sort" => shared # <<>>)
      /\ signalled' \in {signalled, FALSE}
  BY DEF ReadRawData, WaitForData, Wake, hwThread, poller
<1>2. Own' /\ Order' /\ Accounts'
  BY <1>1, ListsStay
<1>3. TypeOK'
  BY <1>1 DEF IInv, TypeOK, device
<1>4. ThreadsAt'
  BY <1>1 DEF IInv, ThreadsAt
<1>5. QED
  BY <1>2, <1>3, <1>4 DEF IInv

LEMMA SortSampleKeeps ==
  ASSUME IInv, SortSample
  PROVE  IInv'
<1> DEFINE sample == Head(shared)
<1> DEFINE s == sample.sensor
<1> DEFINE new == AddRear(raw[s], sample, Limit)
<1> DEFINE gone == AddRearFrees(raw[s], Limit)
<1> USE DEF IInv
<1>1. /\ sensord = "sort" /\ raw' = [raw EXCEPT ![s] = new] /\ lost' = lost \cup gone
      /\ shared' = Tail(shared) /\ sensord' = IF Tail(shared) = <<>> THEN "align" ELSE "sort"
      /\ UNCHANGED <<clock, taken, signalled, events, pipe, hw, hwList, room, polled, got, flushes>>
  BY DEF SortSample, device, hwThread, poller
<1>2. shared \in Seq(Samples) /\ shared # <<>> /\ Len(shared) <= Limit
  BY <1>1 DEF TypeOK, ThreadsAt
<1>3. /\ sample \in Samples /\ Tail(shared) \in Seq(Samples) /\ Len(Tail(shared)) = Len(shared) - 1
      /\ Len(shared) \in Nat \ {0} /\ InList(shared) = {sample} \cup InList(Tail(shared))
      /\ Ordered(shared) <=> (Ordered(Tail(shared)) /\ Precedes({sample}, InList(Tail(shared))))
  BY <1>2, ListHead
<1> HIDE DEF sample
<1>4. s \in Sensors /\ sample \in SamplesOf(s)
  BY <1>3, SampleSets
<1> HIDE DEF s
<1>5. raw \in [Sensors -> Seq(Samples)] /\ raw[s] \in Seq(Samples) /\ Len(raw[s]) <= Limit
  BY <1>4 DEF TypeOK
<1>6. /\ new \in Seq(Samples) /\ new # <<>> /\ Keeps(new, gone, InList(raw[s]) \cup {sample})
      /\ sample \in InList(new) /\ gone \subseteq InList(raw[s])
      /\ Ordered(raw[s]) /\ Precedes(InList(raw[s]), {sample}) => Ordered(new) /\ Precedes(gone, InList(new))
  BY <1>3, <1>5, AddRearKeeps
<1> HIDE DEF new, gone
<1>7. InList(new) \cup gone = InList(raw[s]) \cup {sample} /\ Len(new) <= Limit
  BY <1>6 DEF Keeps
<1>8. raw'[s] = new /\ \A t \in Sensors \ {s} : raw'[t] = raw[t]
  BY <1>1, <1>4, <1>5
<1>9. \A t \in Sensors : InList(raw[t]) \subseteq Sorted
  BY DEF Sorted, Sensors
<1>10. Line' = Line /\ Stream' = Stream /\ Waiting' = Waiting
  BY <1>1, LineStays DEF Waiting
<1>11. Mounted' = InList(Tail(shared)) /\ Mounted = {sample} \cup Mounted'
  BY <1>1, <1>3 DEF Mounted
<1>12. Sorted' = IF s = "acc" THEN InList(new) \cup InList(raw["gyr"]) ELSE InList(raw["acc"]) \cup InList(new)
  BY <1>4, <1>8 DEF Sorted, Sensors
<1>13. Sorted' \cup gone = Sorted \cup {sample}
  BY <1>4, <1>7, <1>12 DEF Sorted, Sensors
<1>14. Stream \in SUBSET Samples /\ Sorted \in SUBSET Samples /\ Mounted \in SUBSET Samples
       /\ Waiting \in SUBSET Samples /\ lost \in SUBSET Samples
  BY ListsHoldSamples
<1>15. gone \in SUBSET Samples /\ gone \subseteq Sorted
  BY <1>4, <1>6, <1>9, <1>14
<1>16. TypeOK'
  <2>1. raw' \in [Sensors -> Seq(Samples)] /\ \A t \in Sensors : Len(raw'[t]) <= Limit
    BY <1>1, <1>4, <1>5, <1>6, <1>7, <1>8 DEF TypeOK
  <2>2. lost' \subseteq Samples
    BY <1>1, <1>14, <1>15
  <2>3. shared' \in Seq(Samples) /\ Len(shared') <= Limit
    BY <1>1, <1>2, <1>3, PipelineAssumption
  <2>4. sensord' \in {"read", "waiting", "sort", "align", "deliver"}
    BY <1>1
  <2>5. QED
    BY <1>1, <2>1, <2>2, <2>3, <2>4 DEF TypeOK
<1>17. ThreadsAt'
  BY <1>1, <1>4, <1>6, <1>8 DEF ThreadsAt
<1>18. Own'
  <2>1. InList(new) \subseteq SamplesOf(s)
    BY <1>4, <1>7 DEF Own
  <2>2. QED
    BY <1>1, <1>8, <2>1 DEF Own
<1>19. Order'
  <2>1. Precedes(Sorted, Mounted \cup Waiting) /\ Precedes(Stream, Sorted \cup Mounted \cup Waiting)
        /\ Precedes(Mounted, Waiting)
    BY DEF Order
  <2>2. Precedes(InList(raw[s]), {sample})
    BY <1>4, <1>9, <1>11, <2>1 DEF Precedes
  <2>3. \A t \in Sensors : Ordered(raw'[t]) /\ Ordered(hwList'[t])
    BY <1>1, <1>4, <1>6, <1>8, <2>2 DEF Order
  <2>4. Precedes(Sorted', Mounted' \cup Waiting')
    <3>1. Precedes({sample}, Mounted') /\ Precedes({sample}, Waiting)
      BY <1>3, <1>11, <2>1 DEF Order, Precedes
    <3>2. Precedes(Sorted, Mounted' \cup Waiting)
      BY <1>11, <2>1 DEF Precedes
    <3>3. Sorted' \subseteq Sorted \cup {sample}
      BY <1>13
    <3>4. QED
      BY <1>10, <3>1, <3>2, <3>3 DEF Precedes
  <2>5. Precedes(Stream', Sorted' \cup Mounted' \cup Waiting')
    <3>1. Sorted' \cup Mounted' \cup Waiting' \subseteq (Sorted \cup Mounted \cup Waiting) \cup {}
      BY <1>10, <1>11, <1>13
    <3>2. Precedes(Stream, {})
      BY PrecedesParts
    <3>3. QED
      BY <1>10, <2>1, <3>1, <3>2, PrecedesIn
  <2>6. Precedes(Mounted', Waiting')
    BY <1>10, <1>11, <2>1 DEF Precedes
  <2>7. Ordered(Line') /\ Ordered(shared') /\ Precedes(InList(hwList'["acc"]), InList(hwList'["gyr"]))
    BY <1>1, <1>3, <1>10 DEF Order
  <2>8. QED
    BY <2>3, <2>4, <2>5, <2>6, <2>7 DEF Order
<1>20. Accounts'
  <2>1. InPlay' \cup lost' = InPlay \cup lost
    BY <1>1, <1>10, <1>11, <1>13 DEF InPlay
  <2>2. gone \cap InList(new) = {}
    <3>1. Precedes(InList(raw[s]), {sample})
      BY <1>4, <1>9, <1>11 DEF Order, Precedes
    <3>2. QED
      BY <1>4, <1>6, <1>15, <3>1, PrecedesApart DEF Order
  <2>3. \A t \in Sensors \ {s} : InList(raw[t]) \cap InList(raw[s]) = {}
    BY <1>4, SampleSets DEF Own, Sensors
  <2>4. gone \cap Sorted' = {}
    BY <1>4, <1>6, <1>12, <2>2, <2>3 DEF Sensors
  <2>5. Stream \cap Sorted = {} /\ Sorted \cap (Mounted \cup Waiting) = {}
    <3>1. Precedes(Stream, Sorted) /\ Precedes(Sorted, Mounted \cup Waiting)
      BY DEF Order, Precedes
    <3>2. QED
      BY <1>14, <3>1, PrecedesApart
  <2>6. InPlay' = Stream \cup Sorted' \cup Mounted' \cup Waiting /\ InPlay' \subseteq InPlay
    BY <1>10, <1>11, <1>13 DEF InPlay
  <2>7. lost' \cap InPlay' = {}
    BY <1>1, <1>11, <1>15, <2>4, <2>5, <2>6 DEF Accounts
  <2>8. QED
    BY <1>1, <2>1, <2>7, AccountsStay
<1>21. QED
  BY <1>16, <1>17, <1>18, <1>19, <1>20

\* What a position takes of a list is its first sample or nothing.
LEMMA TakenSplits ==
  ASSUME NEW a \in Seq(Samples), NEW base, Ordered(a)
  PROVE  /\ Taken(a, base) \in Seq(Samples) /\ Left(a, base) \in Seq(Samples)
         /\ Len(Left(a, base)) <= Len(a)
         /\ InList(a) = InList(Taken(a, base)) \cup InList(Left(a, base))
         /\ Ordered(Taken(a, base)) /\ Ordered(Left(a, base))
         /\ Precedes(InList(Taken(a, base)), InList(Left(a, base)))
         /\ \A x \in InList(Taken(a, base)) : x.time = base
         /\ InList(Taken(a, base)) = {} => a = <<>> \/ Head(a).time # base
<1>1. CASE Takes(a, base)
  <2>1. a # <<>> /\ Head(a).time = base /\ Taken(a, base) = <<Head(a)>> /\ Left(a, base) = Tail(a)
    BY <1>1 DEF Takes, Taken, Left
  <2>2. /\ Head(a) \in Samples /\ Tail(a) \in Seq(Samples) /\ Len(Tail(a)) = Len(a) - 1 /\ Len(a) \in Nat \ {0}
        /\ InList(a) = {Head(a)} \cup InList(Tail(a))
        /\ Ordered(a) <=> (Ordered(Tail(a)) /\ Precedes({Head(a)}, InList(Tail(a))))
    BY <2>1, ListHead
  <2>3. InList(<<Head(a)>>) = {Head(a)} /\ Ordered(<<Head(a)>>)
    BY ListOne
  <2>4. <<Head(a)>> \in Seq(Samples)
    BY <2>2
  <2>5. Len(Tail(a)) <= Len(a)
    BY <2>2
  <2>6. QED
    BY <2>1, <2>2, <2>3, <2>4, <2>5
<1>2. CASE ~ Takes(a, base)
  <2>1. Taken(a, base) = <<>> /\ Left(a, base) = a /\ (a = <<>> \/ Head(a).time # base)
    BY <1>2 DEF Takes, Taken, Left
  <2>2. <<>> \in Seq(Samples) /\ InList(<<>>) = {} /\ Ordered(<<>>)
    BY EmptySeq, ListEmpty
  <2>3. Len(a) <= Len(a)
    BY LenProperties
  <2>4. QED
    BY <2>1, <2>2, <2>3, PrecedesParts
<1>3. QED
  BY <1>1, <1>2

\* The base is the earliest time of all that is left, and of one of the two heads.
LEMMA BaseIsFirst ==
  ASSUME NEW acc \in Seq(Samples), NEW gyr \in Seq(Samples), Ordered(acc), Ordered(gyr), acc # <<>> \/ gyr # <<>>
  PROVE  LET base == BaseTime(acc, gyr)
         IN /\ base \in Nat
            /\ \A x \in InList(acc) \cup InList(gyr) : base <= x.time
            /\ (acc # <<>> /\ Head(acc).time = base) \/ (gyr # <<>> /\ Head(gyr).time = base)
<1> DEFINE base == BaseTime(acc, gyr)
<1>1. ASSUME NEW a \in Seq(Samples), Ordered(a), a # <<>>
      PROVE  Head(a).time \in Nat \ {0} /\ \A x \in InList(a) : x.time \in Nat /\ Head(a).time <= x.time
  <2>1. /\ Head(a) \in Samples /\ Tail(a) \in Seq(Samples) /\ InList(a) = {Head(a)} \cup InList(Tail(a))
        /\ Precedes({Head(a)}, InList(Tail(a))) /\ InList(a) \subseteq Samples
    BY <1>1, ListHead, ListOf
  <2>2. \A x \in Samples : x.time \in Nat \ {0}
    BY SampleSets
  <2>3. ASSUME NEW x \in InList(a) PROVE x.time \in Nat /\ Head(a).time <= x.time
    <3>1. x = Head(a) \/ Before(Head(a), x)
      BY <2>1, <2>3 DEF Precedes
    <3>2. x.time \in Nat /\ Head(a).time \in Nat
      BY <2>1, <2>2, <2>3
    <3>3. QED
      BY <3>1, <3>2 DEF Before
  <2>4. QED
    BY <2>1, <2>2, <2>3
<1>2. CASE acc = <<>>
  <2>1. base = Head(gyr).time /\ gyr # <<>> /\ InList(acc) = {}
    BY <1>2, ListEmpty DEF BaseTime
  <2>2. QED
    BY <1>1, <2>1
<1>3. CASE gyr = <<>>
  <2>1. base = Head(acc).time /\ acc # <<>> /\ InList(gyr) = {}
    BY <1>3, ListEmpty DEF BaseTime
  <2>2. QED
    BY <1>1, <2>1
<1>4. CASE acc # <<>> /\ gyr # <<>>
  <2>1. Head(acc).time \in Nat \ {0} /\ Head(gyr).time \in Nat \ {0}
    BY <1>1, <1>4
  <2>2. base = IF Head(acc).time < Head(gyr).time THEN Head(acc).time ELSE Head(gyr).time
    BY <1>4, <2>1 DEF BaseTime
  <2>3. base \in Nat /\ base <= Head(acc).time /\ base <= Head(gyr).time
        /\ (Head(acc).time = base \/ Head(gyr).time = base)
    BY <2>1, <2>2
  <2>4. ASSUME NEW x \in InList(acc) \cup InList(gyr) PROVE base <= x.time
    <3> HIDE DEF base
    <3>1. x.time \in Nat /\ (Head(acc).time <= x.time \/ Head(gyr).time <= x.time)
      BY <1>1, <1>4
    <3>2. QED
      BY <2>1, <2>3, <3>1
  <2>5. QED
    BY <1>4, <2>3, <2>4
<1>5. QED
  BY <1>2, <1>3, <1>4

\* The samples of one position come before all that is left, whichever sensor they are of.
LEMMA PositionFirst ==
  ASSUME NEW acc \in Seq(Samples), NEW gyr \in Seq(Samples), Ordered(acc), Ordered(gyr), acc # <<>> \/ gyr # <<>>,
         InList(acc) \subseteq SamplesOf("acc"), InList(gyr) \subseteq SamplesOf("gyr")
  PROVE  LET base == BaseTime(acc, gyr)
             position == Taken(acc, base) \o Taken(gyr, base)
             left == InList(Left(acc, base)) \cup InList(Left(gyr, base))
         IN /\ position \in Seq(Samples) /\ position # <<>> /\ Ordered(position)
            /\ InList(position) \cup left = InList(acc) \cup InList(gyr)
            /\ Precedes(InList(position), left)
<1> DEFINE base == BaseTime(acc, gyr)
<1> DEFINE ta == Taken(acc, base)
<1> DEFINE tg == Taken(gyr, base)
<1> DEFINE la == Left(acc, base)
<1> DEFINE lg == Left(gyr, base)
<1>1. /\ base \in Nat /\ \A x \in InList(acc) \cup InList(gyr) : base <= x.time
      /\ (acc # <<>> /\ Head(acc).time = base) \/ (gyr # <<>> /\ Head(gyr).time = base)
  BY BaseIsFirst
<1> HIDE DEF base
<1>2. /\ ta \in Seq(Samples) /\ la \in Seq(Samples) /\ InList(acc) = InList(ta) \cup InList(la)
      /\ Ordered(ta) /\ Precedes(InList(ta), InList(la)) /\ \A x \in InList(ta) : x.time = base
      /\ InList(ta) = {} => acc = <<>> \/ Head(acc).time # base
  BY TakenSplits
<1>3. /\ tg \in Seq(Samples) /\ lg \in Seq(Samples) /\ InList(gyr) = InList(tg) \cup InList(lg)
      /\ Ordered(tg) /\ Precedes(InList(tg), InList(lg)) /\ \A x \in InList(tg) : x.time = base
      /\ InList(tg) = {} => gyr = <<>> \/ Head(gyr).time # base
  BY TakenSplits
<1>4. /\ \A x \in InList(acc) : x \in Samples /\ x.sensor = "acc" /\ x.time \in Nat /\ x.n \in Nat
      /\ \A x \in InList(gyr) : x \in Samples /\ x.sensor = "gyr" /\ x.time \in Nat /\ x.n \in Nat
  BY SampleSets DEF Sensors
<1>5. \A x \in InList(la) : acc # <<>> /\ Head(acc).time <= x.time /\ (InList(ta) # {} \/ base < x.time)
  <2> TAKE x \in InList(la)
  <2>1. acc # <<>>
    BY <1>2, ListEmpty
  <2>2. Head(acc) \in InList(acc) /\ (x = Head(acc) \/ Before(Head(acc), x))
    <3>1. InList(acc) = {Head(acc)} \cup InList(Tail(acc)) /\ Precedes({Head(acc)}, InList(Tail(acc)))
      BY <2>1, ListHead
    <3>2. QED
      BY <1>2, <1>4, <3>1 DEF Precedes
  <2>3. Head(acc).time \in Nat /\ x.time \in Nat /\ base <= Head(acc).time
    BY <1>1, <1>2, <1>4, <2>2
  <2>4. Head(acc).time <= x.time
    BY <2>2, <2>3 DEF Before
  <2>5. QED
    BY <1>1, <1>2, <2>1, <2>3, <2>4
<1> HIDE DEF ta, tg, la, lg
<1>6. Precedes(InList(ta), InList(gyr))
  <2> SUFFICES ASSUME NEW x \in InList(ta), NEW y \in InList(gyr) PROVE Before(x, y)
    BY DEF Precedes
  <2>1. x.time = base /\ x.sensor = "acc" /\ y.sensor = "gyr" /\ y.time \in Nat /\ base <= y.time
    BY <1>1, <1>2, <1>4
  <2>2. QED
    BY <1>1, <2>1 DEF Before
<1>7. Precedes(InList(tg), InList(la))
  <2> SUFFICES ASSUME NEW x \in InList(tg), NEW y \in InList(la) PROVE Before(x, y)
    BY DEF Precedes
  <2>1. x.time = base /\ y.sensor = "acc" /\ y.time \in Nat /\ y \in Samples
    BY <1>2, <1>3, <1>4
  <2>2. base < y.time
    <3>1. CASE InList(ta) = {}
      BY <1>5, <3>1
    <3>2. CASE InList(ta) # {}
      <4>1. PICK z \in InList(ta) : TRUE
        BY <3>2
      <4>2. Before(z, y) /\ z.time = base
        BY <1>2, <1>4, <2>1, <4>1 DEF Precedes
      <4>3. QED
        BY <1>1, <2>1, <4>2 DEF Before
    <3>3. QED
      BY <3>1, <3>2
  <2>3. QED
    BY <1>1, <2>1, <2>2 DEF Before
<1> DEFINE position == ta \o tg
<1>8. position \in Seq(Samples)
  BY <1>2, <1>3, ConcatProperties
<1>9. InList(position) = InList(ta) \cup InList(tg)
      /\ (Ordered(position) <=> (Ordered(ta) /\ Ordered(tg) /\ Precedes(InList(ta), InList(tg))))
  BY <1>2, <1>3, ListConcat, OrderedConcat
<1> HIDE DEF position
<1>10. position # <<>>
  <2>1. InList(ta) # {} \/ InList(tg) # {}
    BY <1>1, <1>2, <1>3
  <2>2. QED
    BY <1>9, <2>1, ListEmpty
<1>11. Ordered(position)
  BY <1>2, <1>3, <1>6, <1>9 DEF Precedes
<1>12. InList(position) \cup (InList(la) \cup InList(lg)) = InList(acc) \cup InList(gyr)
  BY <1>2, <1>3, <1>9
<1>13. Precedes(InList(position), InList(la) \cup InList(lg))
  <2>1. Precedes(InList(ta), InList(lg))
    BY <1>3, <1>6 DEF Precedes
  <2>2. QED
    BY <1>2, <1>3, <1>7, <1>9, <2>1 DEF Precedes
<1>14. QED
  BY <1>8, <1>10, <1>11, <1>12, <1>13 DEF position, ta, tg, la, lg, base

LEMMA LineIsSeq ==
  ASSUME TypeOK
  PROVE  /\ got \in Seq(Events) /\ pipe \in Seq(Events) /\ events \in Seq(Events)
         /\ got \o pipe \in Seq(Events) /\ Line \in Seq(Events)
         /\ InList(Line) = InList(got) \cup InList(pipe) \cup InList(events)
         /\ Ordered(Line) <=> /\ Ordered(got) /\ Ordered(pipe) /\ Ordered(events)
                              /\ Precedes(InList(got), InList(pipe))
                              /\ Precedes(InList(got) \cup InList(pipe), InList(events))
<1>1. got \in Seq(Events) /\ pipe \in Seq(Events) /\ events \in Seq(Events)
  <2>1. Samples \subseteq Events
    BY DEF Events
  <2>2. QED
    BY <2>1, SeqMonotonic DEF TypeOK
<1>2. got \o pipe \in Seq(Events)
  BY <1>1, ConcatProperties
<1>3. Line \in Seq(Events)
  BY <1>1, <1>2, ConcatProperties DEF Line
<1>4. InList(got \o pipe) = InList(got) \cup InList(pipe)
      /\ (Ordered(got \o pipe) <=> (Ordered(got) /\ Ordered(pipe) /\ Precedes(InList(got), InList(pipe))))
  BY <1>1, ListConcat, OrderedConcat
<1>5. InList(Line) = InList(got \o pipe) \cup InList(events)
      /\ (Ordered(Line) <=> (Ordered(got \o pipe) /\ Ordered(events) /\ Precedes(InList(got \o pipe), InList(events))))
  BY <1>1, <1>2, ListConcat, OrderedConcat DEF Line
<1>6. QED
  BY <1>1, <1>2, <1>3, <1>4, <1>5

LEMMA AlignKeeps ==
  ASSUME IInv, Align
  PROVE  IInv'
<1> DEFINE acc == raw["acc"]
<1> DEFINE gyr == raw["gyr"]
<1> DEFINE base == BaseTime(acc, gyr)
<1> DEFINE position == Taken(acc, base) \o Taken(gyr, base)
<1> DEFINE left == InList(Left(acc, base)) \cup InList(Left(gyr, base))
<1> USE DEF IInv
<1>1. /\ sensord = "align" /\ events' = position /\ raw' = [s \in Sensors |-> Left(raw[s], base)]
      /\ sensord' = "deliver"
      /\ UNCHANGED <<clock, taken, shared, signalled, lost, pipe, hw, hwList, room, polled, got, flushes>>
  BY DEF Align, device, hwThread, poller
<1>2. /\ acc \in Seq(Samples) /\ gyr \in Seq(Samples) /\ Ordered(acc) /\ Ordered(gyr)
      /\ InList(acc) \subseteq SamplesOf("acc") /\ InList(gyr) \subseteq SamplesOf("gyr")
      /\ Len(acc) <= Limit /\ Len(gyr) <= Limit /\ (acc # <<>> \/ gyr # <<>>) /\ events = <<>>
  BY <1>1 DEF TypeOK, Order, Own, ThreadsAt, Sensors
<1>3. raw'["acc"] = Left(acc, base) /\ raw'["gyr"] = Left(gyr, base)
  BY <1>1 DEF Sensors
<1> HIDE DEF acc, gyr
<1>4. /\ position \in Seq(Samples) /\ position # <<>> /\ Ordered(position)
      /\ InList(position) \cup left = InList(acc) \cup InList(gyr)
      /\ Precedes(InList(position), left)
  BY <1>2, PositionFirst
<1> HIDE DEF position, base
<1>5. /\ Left(acc, base) \in Seq(Samples) /\ Len(Left(acc, base)) <= Len(acc)
      /\ InList(Left(acc, base)) \subseteq InList(acc) /\ Ordered(Left(acc, base))
  BY <1>2, TakenSplits
<1>6. /\ Left(gyr, base) \in Seq(Samples) /\ Len(Left(gyr, base)) <= Len(gyr)
      /\ InList(Left(gyr, base)) \subseteq InList(gyr) /\ Ordered(Left(gyr, base))
  BY <1>2, TakenSplits
<1>7. Sorted' = left /\ Sorted = InList(acc) \cup InList(gyr) /\ Mounted' = Mounted /\ Waiting' = Waiting
  BY <1>1, <1>3 DEF Sorted, Mounted, Waiting, acc, gyr
<1> HIDE DEF left
<1>8. Len(Left(acc, base)) <= Limit /\ Len(Left(gyr, base)) <= Limit
  BY <1>2, <1>5, <1>6, LenProperties, PipelineAssumption
<1>9. TypeOK'
  <2>1. \A s \in Sensors : raw'[s] \in Seq(Samples) /\ Len(raw'[s]) <= Limit
    BY <1>3, <1>5, <1>6, <1>8 DEF Sensors
  <2>2. raw' \in [Sensors -> Seq(Samples)]
    <3>1. raw' = [s \in Sensors |-> raw'[s]]
      BY <1>1
    <3>2. QED
      BY <2>1, <3>1
  <2>3. sensord' \in {"read", "waiting", "sort", "align", "deliver"}
    BY <1>1
  <2>4. QED
    BY <1>1, <1>4, <2>1, <2>2, <2>3 DEF TypeOK
<1>10. ThreadsAt'
  BY <1>1, <1>4 DEF ThreadsAt
<1>11. Own'
  <2>1. \A s \in Sensors : InList(raw'[s]) \subseteq SamplesOf(s)
    BY <1>2, <1>3, <1>5, <1>6 DEF Sensors
  <2>2. QED
    BY <1>1, <2>1 DEF Own
<1>12. InList(position) \subseteq Samples
  BY <1>4, ListOf
<1>14. Stream' = Stream \cup InList(position) /\ InList(Line) = InList(got) \cup InList(pipe)
  <2>1. InList(Line) = InList(got) \cup InList(pipe) /\ InList(Line)' = InList(got) \cup InList(pipe) \cup InList(position)
    <3>1. InList(Line) = InList(got) \cup InList(pipe) \cup InList(events) /\ InList(events) = {}
      BY <1>2, LineIsSeq, ListEmpty
    <3>2. got' \in Seq(Events) /\ pipe' \in Seq(Events) /\ events' \in Seq(Events)
      BY <1>1, <1>4, LineIsSeq, SeqMonotonic DEF Events
    <3>3. Line' = (got' \o pipe') \o events' /\ got' \o pipe' \in Seq(Events)
      BY <3>2, ConcatProperties DEF Line
    <3>4. InList(got' \o pipe') = InList(got') \cup InList(pipe')
      BY <3>2, ListConcat
    <3>5. InList(Line') = InList(got' \o pipe') \cup InList(events')
      BY <3>2, <3>3, ListConcat
    <3>6. QED
      BY <1>1, <3>1, <3>4, <3>5
  <2>2. QED
    BY <1>12, <2>1 DEF Stream
<1>15. Precedes(Stream, Sorted \cup Mounted \cup Waiting) /\ Precedes(Sorted, Mounted \cup Waiting)
       /\ Precedes(Mounted, Waiting)
  BY DEF Order
<1>16. Precedes(InList(Line), InList(position))
  BY <1>4, <1>7, <1>15 DEF Precedes, Stream
<1>17. Ordered(Line')
  <2>1. Line = got \o pipe /\ Line' = (got \o pipe) \o position /\ Line \in Seq(Events) /\ position \in Seq(Events)
    <3>1. got \o pipe \in Seq(Events) /\ Line \in Seq(Events)
      BY LineIsSeq
    <3>2. Line = got \o pipe
      BY <1>2, <3>1, ConcatEmptySeq DEF Line
    <3>3. position \in Seq(Events)
      BY <1>4, SeqMonotonic DEF Events
    <3>4. QED
      BY <1>1, <3>1, <3>2, <3>3 DEF Line
  <2>2. Ordered(Line)
    BY DEF Order
  <2>3. QED
    BY <1>4, <1>16, <2>1, <2>2, OrderedConcat
<1>18. Order'
  <2>1. \A s \in Sensors : Ordered(raw'[s]) /\ Ordered(hwList'[s])
    BY <1>1, <1>3, <1>5, <1>6 DEF Order, Sensors
  <2>2. Precedes(Stream', Sorted' \cup Mounted' \cup Waiting')
    BY <1>4, <1>7, <1>14, <1>15 DEF Precedes
  <2>3. Precedes(Sorted', Mounted' \cup Waiting') /\ Precedes(Mounted', Waiting')
    BY <1>4, <1>7, <1>15 DEF Precedes
  <2>4. Ordered(shared') /\ Precedes(InList(hwList'["acc"]), InList(hwList'["gyr"]))
    BY <1>1 DEF Order
  <2>5. QED
    BY <1>17, <2>1, <2>2, <2>3, <2>4 DEF Order
<1>19. Accounts'
  <2>1. InPlay' = InPlay
    BY <1>4, <1>7, <1>14 DEF InPlay
  <2>2. QED
    BY <1>1, <2>1, AccountsStay DEF Accounts
<1>20. QED
  BY <1>9, <1>10, <1>11, <1>18, <1>19

\* The event at the head of the position goes to the pipe: the line stays as it is.
LEMMA DeliverEventKeeps ==
  ASSUME IInv, DeliverEvent
  PROVE  IInv'
<1> USE DEF IInv
<1>1. /\ sensord = "deliver" /\ Len(pipe) < PipeSize /\ pipe' = Append(pipe, Head(events)) /\ events' = Tail(events)
      /\ sensord' = (IF Tail(events) # <<>> THEN "deliver"
                     ELSE IF \A s \in Sensors : raw[s] = <<>> THEN "read" ELSE "align")
      /\ UNCHANGED <<clock, taken, shared, signalled, raw, lost, hw, hwList, room, polled, got, flushes>>
  BY DEF DeliverEvent, device, hwThread, poller
<1>2. events # <<>> /\ events \in Seq(Samples)
  BY <1>1 DEF TypeOK, ThreadsAt
<1>3. Head(events) \in Samples /\ Tail(events) \in Seq(Samples)
  BY <1>2, HeadTailProperties
<1>4. Samples \subseteq Events
  BY DEF Events
<1>5. got \in Seq(Events) /\ pipe \in Seq(Events) /\ events \in Seq(Events) /\ Head(events) \in Events
      /\ Tail(events) \in Seq(Events)
  BY <1>3, <1>4, LineIsSeq, SeqMonotonic
<1>6. pipe' \in Seq(Events) /\ Len(pipe') = Len(pipe) + 1 /\ pipe' = pipe \o <<Head(events)>> /\ Len(pipe) \in Nat
      /\ <<Head(events)>> \in Seq(Events)
  BY <1>1, <1>5, AppendProperties, AppendIsConcat, LenProperties
<1>7. events = <<Head(events)>> \o Tail(events)
  <2>1. 1 \in 1..Len(events) /\ Len(events) \in 1..Len(events) /\ 1 + 1 = 2
    BY <1>2, EmptySeq
  <2>2. SubSeq(events, 1, Len(events)) = <<events[1]>> \o SubSeq(events, 1 + 1, Len(events))
    BY <1>2, <2>1, SubSeqRecursiveFirst
  <2>3. SubSeq(events, 1, Len(events)) = events /\ Tail(events) = SubSeq(events, 2, Len(events))
        /\ Head(events) = events[1]
    BY <1>2, SubSeqFull, TailIsSubSeq
  <2>4. QED
    BY <2>1, <2>2, <2>3
<1>8. Line' = Line
  <2> DEFINE h == <<Head(events)>>
  <2> DEFINE t == Tail(events)
  <2>1. h \in Seq(Events) /\ t \in Seq(Events) /\ events = h \o t /\ pipe' = pipe \o h /\ events' = t /\ got' = got
    BY <1>1, <1>5, <1>6, <1>7
  <2> HIDE DEF h, t
  <2>2. got \o pipe \in Seq(Events) /\ pipe \o h \in Seq(Events)
    BY <1>5, <2>1, ConcatProperties
  <2>3. (got \o pipe) \o (h \o t) = ((got \o pipe) \o h) \o t
    BY <2>1, <2>2, ConcatAssociative
  <2>4. (got \o pipe) \o h = got \o (pipe \o h)
    <3>1. got \in Seq(Events) /\ pipe \in Seq(Events) /\ h \in Seq(Events)
      BY <1>5, <2>1
    <3>2. QED
      BY <3>1, ConcatAssociative
  <2>5. QED
    BY <2>1, <2>3, <2>4 DEF Line
<1>9. Stream' = Stream /\ Sorted' = Sorted /\ Mounted' = Mounted /\ Waiting' = Waiting
  BY <1>1, <1>8 DEF Stream, Sorted, Mounted, Waiting
<1>10. TypeOK'
  <2>1. Len(pipe') <= PipeSize
    BY <1>1, <1>6, PipelineAssumption
  <2>2. sensord' \in {"read", "waiting", "sort", "align", "deliver"}
    BY <1>1
  <2>3. QED
    BY <1>1, <1>3, <1>6, <2>1, <2>2 DEF TypeOK
<1>11. ThreadsAt'
  BY <1>1 DEF ThreadsAt
<1>12. Own' /\ Order'
  BY <1>1, <1>8, <1>9 DEF Own, Order
<1>13. Accounts'
  <2>1. InPlay' = InPlay
    BY <1>9 DEF InPlay
  <2>2. QED
    BY <1>1, <2>1, AccountsStay DEF Accounts
<1>14. QED
  BY <1>10, <1>11, <1>12, <1>13

-----------------------------------------------------------------------------
(* The framework.                                                          *)

LEMMA PollKeeps ==
  ASSUME IInv, Poll \/ PollReturns
  PROVE  IInv'
<1>1. /\ UNCHANGED <<device, hwList, shared, raw, lost, got, pipe, events>>
      /\ UNCHANGED <<hw, sensord, signalled, flushes>>
  BY DEF Poll, PollReturns, hwThread, sensordThread
<1>2. (room = 0 /\ room' = Count /\ polled' = polled) \/ (room' = 0 /\ polled' = 0)
  BY DEF Poll, PollReturns
<1>3. room' \in 0..Count /\ polled' \in 0..Count /\ polled' + room' <= Count /\ (room' = 0 => polled' = 0)
  <2>1. Count \in Nat \ {0} /\ room \in 0..Count /\ polled \in 0..Count /\ (room = 0 => polled = 0)
    BY PipelineAssumption DEF IInv, TypeOK, ThreadsAt
  <2>2. QED
    BY <1>2, <2>1
<1>4. Own' /\ Order' /\ Accounts'
  BY <1>1, ListsStay
<1>5. TypeOK'
  BY <1>1, <1>3 DEF IInv, TypeOK, device
<1>6. ThreadsAt'
  BY <1>1, <1>3 DEF IInv, ThreadsAt
<1>7. QED
  BY <1>4, <1>5, <1>6 DEF IInv

LEMMA ReadEventsKeeps ==
  ASSUME IInv, ReadEvents
  PROVE  IInv'
<1> DEFINE n == IF Len(pipe) < room THEN Len(pipe) ELSE room
<1> DEFINE head == SubSeq(pipe, 1, n)
<1> DEFINE tail == SubSeq(pipe, n + 1, Len(pipe))
<1> USE DEF IInv
<1>1. /\ room > 0 /\ pipe # <<>> /\ got' = got \o head /\ pipe' = tail /\ room' = room - n
      /\ polled' = IF room = n THEN 0 ELSE polled + n
      /\ UNCHANGED <<clock, taken, hw, hwList, shared, signalled, sensord, raw, events, lost, flushes>>
  BY DEF ReadEvents, device, hwThread, sensordThread
<1>2. got \in Seq(Events) /\ pipe \in Seq(Events) /\ events \in Seq(Events) /\ Len(pipe) \in Nat
  BY LineIsSeq, LenProperties
<1>3. room \in Nat /\ polled \in Nat /\ Count \in Nat /\ polled + room <= Count
  BY PipelineAssumption DEF TypeOK
<1>4. n \in 0..Len(pipe) /\ n <= room
  BY <1>2, <1>3
<1> HIDE DEF n
<1>5. /\ head \in Seq(Events) /\ tail \in Seq(Events) /\ Len(tail) = Len(pipe) - n /\ pipe = head \o tail
  BY <1>2, <1>4, ListSplit
<1> HIDE DEF head, tail
<1>6. Line' = Line
  <2>1. got' \o pipe' = got \o pipe
    BY <1>1, <1>2, <1>5, ConcatAssociative
  <2>2. QED
    BY <1>1, <2>1 DEF Line
<1>7. Stream' = Stream /\ Sorted' = Sorted /\ Mounted' = Mounted /\ Waiting' = Waiting
  BY <1>1, <1>6 DEF Stream, Sorted, Mounted, Waiting
<1>8. TypeOK'
  <2>1. got' \in Seq(Events) /\ pipe' \in Seq(Events)
    BY <1>1, <1>2, <1>5, ConcatProperties
  <2>2. Len(pipe') <= PipeSize
    <3>1. Len(pipe) <= PipeSize /\ PipeSize \in Nat
      BY PipelineAssumption DEF TypeOK
    <3>2. QED
      BY <1>1, <1>2, <1>4, <1>5, <3>1
  <2>3. room' \in 0..Count /\ polled' \in 0..Count /\ polled' + room' <= Count
    BY <1>1, <1>2, <1>3, <1>4
  <2>4. QED
    BY <1>1, <2>1, <2>2, <2>3 DEF TypeOK
<1>9. ThreadsAt'
  <2>1. room' = 0 => polled' = 0
    BY <1>1, <1>3, <1>4
  <2>2. QED
    BY <1>1, <2>1 DEF ThreadsAt
<1>10. Own' /\ Order'
  BY <1>1, <1>6, <1>7 DEF Own, Order
<1>11. Accounts'
  <2>1. InPlay' = InPlay
    BY <1>7 DEF InPlay
  <2>2. QED
    BY <1>1, <2>1, AccountsStay DEF Accounts
<1>12. QED
  BY <1>8, <1>9, <1>10, <1>11

\* The event of a flush is not a sample, and goes between the pipe and what is not yet written.
LEMMA FlushKeeps ==
  ASSUME IInv, NEW s \in Sensors, Flush(s)
  PROVE  IInv'
<1> DEFINE meta == [sensor |-> "meta", of |-> s]
<1> USE DEF IInv
<1>1. /\ flushes < MaxFlushes /\ Len(pipe) < PipeSize /\ flushes' = flushes + 1 /\ pipe' = Append(pipe, meta)
      /\ UNCHANGED <<clock, taken, hw, hwList, shared, signalled, sensord, raw, events, lost, room, polled, got>>
  BY DEF Flush, device, hwThread, sensordThread, poller
<1>2. meta \in Events
  BY DEF Events
<1>3. meta \notin Samples
  <2>1. meta.sensor = "meta" /\ "meta" \notin Sensors
    BY DEF Sensors
  <2>2. QED
    BY <2>1, SampleSets
<1> HIDE DEF meta
<1>4. pipe \in Seq(Events) /\ Len(pipe) \in Nat
  BY LineIsSeq, LenProperties
<1>5. /\ pipe' \in Seq(Events) /\ Len(pipe') = Len(pipe) + 1 /\ InList(pipe') = InList(pipe) \cup {meta}
      /\ Ordered(pipe') <=> (Ordered(pipe) /\ Precedes(InList(pipe), {meta}))
  BY <1>1, <1>2, <1>4, ListAppend
<1>6. TypeOK'
  <2>1. Len(pipe') <= PipeSize
    BY <1>1, <1>4, <1>5, PipelineAssumption
  <2>2. flushes' \in 0..MaxFlushes
    BY <1>1, PipelineAssumption DEF TypeOK
  <2>3. QED
    BY <1>1, <1>5, <2>1, <2>2 DEF TypeOK
<1>7. /\ InList(Line) = InList(got) \cup InList(pipe) \cup InList(events)
      /\ Ordered(got) /\ Ordered(pipe) /\ Ordered(events) /\ Precedes(InList(got), InList(pipe))
      /\ Precedes(InList(got) \cup InList(pipe), InList(events))
  BY LineIsSeq DEF Order
<1>8. /\ InList(Line') = InList(got) \cup InList(pipe') \cup InList(events)
      /\ Ordered(Line') <=> /\ Ordered(got) /\ Ordered(pipe') /\ Ordered(events)
                            /\ Precedes(InList(got), InList(pipe'))
                            /\ Precedes(InList(got) \cup InList(pipe'), InList(events))
  <2>1. got \in Seq(Events) /\ events \in Seq(Events)
    BY LineIsSeq
  <2>2. Line' = (got \o pipe') \o events /\ got \o pipe' \in Seq(Events)
    BY <1>1, <1>5, <2>1, ConcatProperties DEF Line
  <2>3. InList(got \o pipe') = InList(got) \cup InList(pipe')
    BY <1>5, <2>1, ListConcat
  <2>4. Ordered(got \o pipe') <=> (Ordered(got) /\ Ordered(pipe') /\ Precedes(InList(got), InList(pipe')))
    BY <1>5, <2>1, OrderedConcat
  <2>5. InList(Line') = InList(got \o pipe') \cup InList(events)
    BY <2>1, <2>2, ListConcat
  <2>6. Ordered(Line') <=>
          (Ordered(got \o pipe') /\ Ordered(events) /\ Precedes(InList(got \o pipe'), InList(events)))
    BY <2>1, <2>2, OrderedConcat
  <2>7. QED
    BY <2>3, <2>4, <2>5, <2>6
<1>9. Stream' = Stream
  BY <1>3, <1>5, <1>7, <1>8 DEF Stream
<1>10. Ordered(Line')
  BY <1>3, <1>5, <1>7, <1>8 DEF Precedes
<1>11. Sorted' = Sorted /\ Mounted' = Mounted /\ Waiting' = Waiting
  BY <1>1 DEF Sorted, Mounted, Waiting
<1>12. ThreadsAt'
  BY <1>1 DEF ThreadsAt
<1>13. Own' /\ Order'
  BY <1>1, <1>9, <1>10, <1>11 DEF Own, Order
<1>14. Accounts'
  <2>1. InPlay' = InPlay
    BY <1>9, <1>11 DEF InPlay
  <2>2. QED
    BY <1>1, <2>1, AccountsStay DEF Accounts
<1>15. QED
  BY <1>6, <1>12, <1>13, <1>14

-----------------------------------------------------------------------------
(* The theorems.                                                           *)

LEMMA IInvNext == IInv /\ [Next]_vars => IInv'
<1> SUFFICES ASSUME IInv, [Next]_vars PROVE IInv'
  OBVIOUS
<1>1. CASE HwcntlStep
  BY <1>1, ReadSampleKeeps, EndOfFileKeeps, MountKeeps DEF HwcntlStep
<1>2. CASE SensordStep
  BY <1>2, QuietKeeps, SortSampleKeeps, AlignKeeps, DeliverEventKeeps DEF SensordStep
<1>3. CASE Wake
  BY <1>3, QuietKeeps
<1>4. CASE Framework
  BY <1>4, PollKeeps, ReadEventsKeeps, FlushKeeps DEF Framework
<1>5. CASE UNCHANGED vars
  <2>1. /\ UNCHANGED <<device, hwList, shared, raw, lost, got, pipe, events>>
        /\ UNCHANGED <<hw, sensord, signalled, room, polled, flushes>>
    BY <1>5 DEF vars, device
  <2>2. Own' /\ Order' /\ Accounts'
    BY <2>1, ListsStay
  <2>3. TypeOK' /\ ThreadsAt'
    BY <2>1 DEF IInv, TypeOK, ThreadsAt, device
  <2>4. QED
    BY <2>2, <2>3 DEF IInv
<1>6. QED
  BY <1>1, <1>2, <1>3, <1>4, <1>5 DEF Next

LEMMA Inductive == Spec => []IInv
<1>1. Init => IInv
  BY IInvInit
<1>2. IInv /\ [Next]_vars => IInv'
  BY IInvNext
<1>3. QED
  BY <1>1, <1>2, PTL DEF Spec

\* The variables of the legacy HAL's pipeline keep their types, and no list, nor the pipe or
\* the buffer of poll, grows beyond its limit, whatever the limits are (list_add_rear,
\* list_mount_rear).
THEOREM PipelineTypes == Spec => []TypeOK
<1>1. IInv => TypeOK
  BY DEF IInv
<1>2. QED
  BY <1>1, Inductive, PTL

\* For any number of samples and any limits, what is written to the pipe is in the order in
\* which it was read from the two sensors.
THEOREM StreamIsOrdered == Spec => []StreamOrdered
<1>1. IInv => StreamOrdered
  BY DEF IInv, Order, Ordered, StreamOrdered
<1>2. QED
  BY <1>1, Inductive, PTL

\* For any number of samples and any limits, a sample that was read is in exactly one of the
\* lists, or on its way out, or was given up by a full list.
THEOREM NoSampleAstray == Spec => []SamplesAccounted
<1>1. ASSUME IInv PROVE SamplesAccounted
  <2> DEFINE a == InList(hwList["acc"])
  <2> DEFINE g == InList(hwList["gyr"])
  <2> DEFINE ra == InList(raw["acc"])
  <2> DEFINE rg == InList(raw["gyr"])
  <2>1. /\ Waiting = a \cup g /\ Sorted = ra \cup rg /\ Mounted = InList(shared)
        /\ Stream \in SUBSET Samples /\ Sorted \in SUBSET Samples /\ Mounted \in SUBSET Samples
        /\ Waiting \in SUBSET Samples /\ lost \in SUBSET Samples
    BY <1>1, ListsHoldSamples DEF IInv, Waiting, Sorted, Mounted
  <2>2. a \cap g = {} /\ ra \cap rg = {}
    BY <1>1, SampleSets DEF IInv, Own, Sensors
  <2>3. Stream \cap (Sorted \cup Mounted \cup Waiting) = {} /\ Sorted \cap (Mounted \cup Waiting) = {}
        /\ Mounted \cap Waiting = {}
    BY <1>1, <2>1, PrecedesApart DEF IInv, Order
  <2>4. lost \cap (Stream \cup Sorted \cup Mounted \cup Waiting) = {}
    BY <1>1 DEF IInv, Accounts, InPlay
  <2> DEFINE P == <<a, g, InList(shared), ra, rg, Stream, lost>>
  <2>5. Places = P
    BY DEF Places
  <2>6. DOMAIN P = 1..7 /\ P[1] = a /\ P[2] = g /\ P[3] = InList(shared) /\ P[4] = ra /\ P[5] = rg
        /\ P[6] = Stream /\ P[7] = lost
    OBVIOUS
  <2> HIDE DEF P, a, g, ra, rg
  <2>7. DOMAIN P = {1, 2, 3, 4, 5, 6, 7}
    BY <2>6
  <2>8. \A i, j \in DOMAIN P : i # j => P[i] \cap P[j] = {}
    <3>1. /\ a \cap g = {} /\ a \cap InList(shared) = {} /\ a \cap ra = {} /\ a \cap rg = {}
          /\ a \cap Stream = {} /\ a \cap lost = {} /\ g \cap InList(shared) = {} /\ g \cap ra = {}
          /\ g \cap rg = {} /\ g \cap Stream = {} /\ g \cap lost = {}
      BY <2>1, <2>2, <2>3, <2>4
    <3>2. /\ InList(shared) \cap ra = {} /\ InList(shared) \cap rg = {} /\ InList(shared) \cap Stream = {}
          /\ InList(shared) \cap lost = {} /\ ra \cap rg = {} /\ ra \cap Stream = {} /\ ra \cap lost = {}
          /\ rg \cap Stream = {} /\ rg \cap lost = {} /\ Stream \cap lost = {}
      BY <2>1, <2>2, <2>3, <2>4
    <3>3. ASSUME NEW i \in DOMAIN P, NEW j \in DOMAIN P, i < j PROVE P[i] \cap P[j] = {}
      BY <2>6, <2>7, <3>1, <3>2, <3>3
    <3>4. \A i, j \in DOMAIN P : i # j => i < j \/ j < i
      BY <2>6
    <3>5. QED
      BY <3>3, <3>4
  <2>9. ASSUME NEW s \in Sensors, NEW n \in 1..SampleBound(s)
        PROVE  n <= taken[s] <=> \E i \in DOMAIN P : \E x \in P[i] : x.sensor = s /\ x.n = n
    <3>1. \A x : (\E i \in DOMAIN P : x \in P[i]) <=> x \in InPlay \cup lost
      <4>1. InPlay \cup lost = a \cup g \cup InList(shared) \cup ra \cup rg \cup Stream \cup lost
        BY <2>1 DEF InPlay
      <4>2. QED
        BY <2>6, <2>7, <4>1
    <3>2. (\E i \in DOMAIN P : \E x \in P[i] : x.sensor = s /\ x.n = n)
            <=> \E x \in InPlay \cup lost : x.sensor = s /\ x.n = n
      BY <3>1
    <3>3. ASSUME n <= taken[s] PROVE \E x \in InPlay \cup lost : x.sensor = s /\ x.n = n
      <4>1. taken[s] \in Nat /\ n \in 1..taken[s]
        BY <1>1, <3>3 DEF IInv, TypeOK
      <4>2. QED
        BY <1>1, <4>1 DEF IInv, Accounts
    <3>4. ASSUME NEW x \in InPlay \cup lost, x.sensor = s, x.n = n PROVE n <= taken[s]
      BY <1>1, <3>4 DEF IInv, Accounts, Known
    <3>5. QED
      BY <3>2, <3>3, <3>4
  <2>10. QED
    BY <2>5, <2>8, <2>9 DEF SamplesAccounted
<1>2. QED
  BY <1>1, Inductive, PTL

=============================================================================
