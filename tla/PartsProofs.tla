----------------------------- MODULE PartsProofs -----------------------------
(***************************************************************************)
(* Proofs about the parts around the scheduler and the core: the front     *)
(* queue, sockets and their subscriptions, servers, the resolver of names, *)
(* the pool of objects and the heap, each on its own and for any number of *)
(* threads, items, uses, requests, objects and keys.                       *)
(***************************************************************************)
EXTENDS MultiProducerQueue, TCPSocket, TCPServer, DomainToIP, ThreadLocalPool,
        BinaryHeap, Integers, SequenceTheorems, FiniteSetTheorems,
        WellFoundedInduction, TLAPS

-----------------------------------------------------------------------------
(* Numbers and lists.                                                       *)

\* The empty list has no elements.
LEMMA SetOfEmpty == ToSet(<<>>) = {} /\ IsInjective(<<>>)
BY EmptySeq DEF ToSet, IsInjective

\* Appending adds one element.
LEMMA SetOfAppend ==
  ASSUME NEW S, NEW s \in Seq(S), NEW e \in S
  PROVE  /\ Append(s, e) \in Seq(S)
         /\ ToSet(Append(s, e)) = ToSet(s) \cup {e}
         /\ IsInjective(s) /\ e \notin ToSet(s) => IsInjective(Append(s, e))
<1> DEFINE t == Append(s, e)
<1>1. /\ t \in Seq(S) /\ Len(t) = Len(s) + 1 /\ Len(s) \in Nat
      /\ DOMAIN t = 1..(Len(s) + 1) /\ DOMAIN s = 1..Len(s)
      /\ \A i \in 1..Len(s) : t[i] = s[i]
      /\ t[Len(s) + 1] = e
  BY AppendProperties, LenProperties
<1> HIDE DEF t
<1>2. ToSet(t) = ToSet(s) \cup {e}
  BY <1>1 DEF ToSet
<1>3. IsInjective(s) /\ e \notin ToSet(s) => IsInjective(t)
  BY <1>1 DEF ToSet, IsInjective
<1> QED BY <1>1, <1>2, <1>3 DEF t

\* A concatenation has the elements of both lists, each once when they share none.
LEMMA SetOfConcat ==
  ASSUME NEW S, NEW s \in Seq(S), NEW u \in Seq(S)
  PROVE  /\ s \o u \in Seq(S)
         /\ ToSet(s \o u) = ToSet(s) \cup ToSet(u)
         /\ IsInjective(s) /\ IsInjective(u) /\ ToSet(s) \cap ToSet(u) = {} => IsInjective(s \o u)
<1> DEFINE t == s \o u
<1>1. /\ t \in Seq(S) /\ Len(s) \in Nat /\ Len(u) \in Nat
      /\ DOMAIN t = 1..(Len(s) + Len(u)) /\ DOMAIN s = 1..Len(s) /\ DOMAIN u = 1..Len(u)
      /\ \A i \in 1..(Len(s) + Len(u)) : t[i] = IF i <= Len(s) THEN s[i] ELSE u[i - Len(s)]
  BY ConcatProperties, LenProperties
<1> HIDE DEF t
<1>a. /\ \A i \in DOMAIN s : i \in DOMAIN t /\ t[i] = s[i]
      /\ \A i \in DOMAIN u : i + Len(s) \in DOMAIN t /\ t[i + Len(s)] = u[i]
      /\ \A i \in DOMAIN t : \/ i \in DOMAIN s /\ t[i] = s[i]
                             \/ i - Len(s) \in DOMAIN u /\ t[i] = u[i - Len(s)] /\ i > Len(s)
  BY <1>1
<1>2. ToSet(t) = ToSet(s) \cup ToSet(u)
  BY <1>a DEF ToSet
<1>3. IsInjective(s) /\ IsInjective(u) /\ ToSet(s) \cap ToSet(u) = {} => IsInjective(t)
  <2> SUFFICES ASSUME IsInjective(s), IsInjective(u), ToSet(s) \cap ToSet(u) = {},
                      NEW i \in DOMAIN t, NEW j \in DOMAIN t, t[i] = t[j]
               PROVE  i = j
    BY DEF IsInjective
  <2>1. \A k \in DOMAIN s : s[k] \in ToSet(s)
    BY DEF ToSet
  <2>2. \A k \in DOMAIN u : u[k] \in ToSet(u)
    BY DEF ToSet
  <2>3. CASE i \in DOMAIN s /\ j \in DOMAIN s
    BY <1>a, <2>3 DEF IsInjective
  <2>4. CASE i \notin DOMAIN s /\ j \notin DOMAIN s
    BY <1>1, <1>a, <2>4 DEF IsInjective
  <2>5. CASE i \in DOMAIN s /\ j \notin DOMAIN s
    BY <1>a, <2>1, <2>2, <2>5
  <2>6. CASE i \notin DOMAIN s /\ j \in DOMAIN s
    BY <1>a, <2>1, <2>2, <2>6
  <2> QED BY <2>3, <2>4, <2>5, <2>6
<1> QED BY <1>1, <1>2, <1>3 DEF t

\* The first element leaves, the others stay.
LEMMA SetOfTail ==
  ASSUME NEW S, NEW s \in Seq(S), s # <<>>
  PROVE  /\ Tail(s) \in Seq(S) /\ Head(s) \in S /\ Head(s) \in ToSet(s)
         /\ IsInjective(s) => IsInjective(Tail(s)) /\ ToSet(Tail(s)) = ToSet(s) \ {Head(s)}
<1> DEFINE t == Tail(s)
<1>1. /\ t \in Seq(S) /\ Len(s) \in Nat /\ Len(s) > 0 /\ Head(s) = s[1] /\ Head(s) \in S
      /\ DOMAIN t = 1..(Len(s) - 1) /\ DOMAIN s = 1..Len(s)
      /\ \A i \in 1..(Len(s) - 1) : t[i] = s[i + 1]
  BY HeadTailProperties, LenProperties, EmptySeq
<1> HIDE DEF t
<1>2. Head(s) \in ToSet(s)
  BY <1>1 DEF ToSet
<1>3. ASSUME IsInjective(s)  PROVE IsInjective(t) /\ ToSet(t) = ToSet(s) \ {Head(s)}
  <2>1. IsInjective(t)
    <3> SUFFICES ASSUME NEW a \in DOMAIN t, NEW b \in DOMAIN t, t[a] = t[b]  PROVE a = b
      BY DEF IsInjective
    <3>1. /\ a + 1 \in DOMAIN s /\ b + 1 \in DOMAIN s
          /\ t[a] = s[a + 1] /\ t[b] = s[b + 1] /\ a \in Int /\ b \in Int
      BY <1>1
    <3>2. a + 1 = b + 1
      BY <1>3, <3>1 DEF IsInjective
    <3> QED BY <3>1, <3>2
  <2>2. ToSet(t) \subseteq ToSet(s) \ {Head(s)}
    BY <1>1, <1>3 DEF ToSet, IsInjective
  <2>3. ToSet(s) \ {Head(s)} \subseteq ToSet(t)
    <3> SUFFICES ASSUME NEW i \in DOMAIN s, s[i] # Head(s)  PROVE s[i] \in ToSet(t)
      BY DEF ToSet
    <3>1. i - 1 \in DOMAIN t /\ t[i - 1] = s[i]
      BY <1>1
    <3> QED BY <3>1 DEF ToSet
  <2> QED BY <2>1, <2>2, <2>3
<1> QED BY <1>1, <1>2, <1>3 DEF t

\* Removing from the middle takes away just that element.
LEMMA SetOfRemoveAt ==
  ASSUME NEW S, NEW s \in Seq(S), NEW k \in DOMAIN s
  PROVE  /\ RemoveAt(s, k) \in Seq(S)
         /\ IsInjective(s) => IsInjective(RemoveAt(s, k))
              /\ ToSet(RemoveAt(s, k)) = ToSet(s) \ {s[k]}
<1> DEFINE t == RemoveAt(s, k)
           begins == SubSeq(s, 1, k - 1)
           ends == SubSeq(s, k + 1, Len(s))
<1>1. Len(s) \in Nat /\ DOMAIN s = 1..Len(s) /\ k \in 1..Len(s) /\ \A i \in 1..Len(s) : s[i] \in S
  BY LenProperties, ElementOfSeq
<1>2. /\ begins \in Seq(S) /\ Len(begins) = k - 1
      /\ \A i \in 1..(k - 1) : begins[i] = s[i]
  <2>1. 1 \in Int /\ k - 1 \in Int /\ \A i \in 1..(k - 1) : s[i] \in S
    BY <1>1
  <2> QED BY <1>1, <2>1, SubSeqProperties
<1>3. /\ ends \in Seq(S) /\ Len(ends) = Len(s) - k
      /\ \A i \in 1..(Len(s) - k) : ends[i] = s[k + i]
  <2> DEFINE m == k + 1
  <2>1. m \in Int /\ Len(s) \in Int /\ \A i \in m..Len(s) : s[i] \in S
    BY <1>1
  <2>2. ends = SubSeq(s, m, Len(s))
    OBVIOUS
  <2> HIDE DEF m, ends
  <2>3. /\ ends \in Seq(S)
        /\ Len(ends) = IF m <= Len(s) THEN Len(s) - m + 1 ELSE 0
        /\ \A i \in 1..(Len(s) - m + 1) : ends[i] = s[m + i - 1]
    BY <2>1, <2>2, SubSeqProperties
  <2>4. Len(s) - m + 1 = Len(s) - k /\ \A i \in 1..(Len(s) - k) : m + i - 1 = k + i
    BY <1>1 DEF m
  <2>5. Len(ends) = Len(s) - k
    BY <1>1, <2>3 DEF m
  <2> QED BY ONLY <2>3, <2>4, <2>5
<1>4. /\ t \in Seq(S) /\ DOMAIN t = 1..(Len(s) - 1)
      /\ \A i \in 1..(Len(s) - 1) : t[i] = IF i < k THEN s[i] ELSE s[i + 1]
  <2> HIDE DEF begins, ends
  <2>1. t = begins \o ends
    BY DEF RemoveAt, begins, ends
  <2>2. /\ t \in Seq(S) /\ Len(t) = Len(begins) + Len(ends)
        /\ \A i \in 1..(Len(begins) + Len(ends)) :
              t[i] = IF i <= Len(begins) THEN begins[i] ELSE ends[i - Len(begins)]
    <3>1. begins \in Seq(S) /\ ends \in Seq(S)
      BY <1>2, <1>3
    <3> QED BY ONLY <3>1, <2>1, ConcatProperties, Zenon
  <2>3. Len(t) = Len(s) - 1 /\ DOMAIN t = 1..(Len(s) - 1)
    BY <1>1, <1>2, <1>3, <2>2, LenProperties
  <2>4. ASSUME NEW i \in 1..(Len(s) - 1)  PROVE t[i] = IF i < k THEN s[i] ELSE s[i + 1]
    <3>1. CASE i < k
      BY <1>1, <1>2, <1>3, <2>2, <3>1
    <3>2. CASE i >= k
      <4>1. i - (k - 1) \in 1..(Len(s) - k) /\ k + (i - (k - 1)) = i + 1 /\ ~(i <= k - 1)
              /\ ~(i < k)
        BY <1>1, <3>2
      <4>2. ends[i - (k - 1)] = s[i + 1]
        BY <1>3, <4>1
      <4>3. t[i] = ends[i - (k - 1)]
        BY <1>1, <1>2, <1>3, <2>2, <4>1
      <4> QED BY <4>1, <4>2, <4>3
    <3> QED BY <1>1, <3>1, <3>2
  <2> QED BY <2>2, <2>3, <2>4
<1> HIDE DEF t
<1>5. ASSUME IsInjective(s)  PROVE IsInjective(t) /\ ToSet(t) = ToSet(s) \ {s[k]}
  <2>1. IsInjective(t)
    <3> DEFINE p(i) == IF i < k THEN i ELSE i + 1
    <3>1. \A i \in DOMAIN t : p(i) \in DOMAIN s /\ t[i] = s[p(i)]
      BY <1>1, <1>4
    <3>2. \A i, j \in DOMAIN t : p(i) = p(j) => i = j
      BY <1>1, <1>4
    <3> HIDE DEF p
    <3> QED BY <1>5, <3>1, <3>2 DEF IsInjective
  <2>2. ToSet(t) \subseteq ToSet(s) \ {s[k]}
    BY <1>1, <1>4, <1>5 DEF ToSet, IsInjective
  <2>3. ToSet(s) \ {s[k]} \subseteq ToSet(t)
    <3> SUFFICES ASSUME NEW i \in DOMAIN s, i # k  PROVE s[i] \in ToSet(t)
      BY DEF ToSet
    <3>1. CASE i < k
      <4>1. i \in DOMAIN t /\ t[i] = s[i]
        BY <1>1, <1>4, <3>1
      <4> QED BY <4>1 DEF ToSet
    <3>2. CASE i > k
      <4>1. i - 1 \in DOMAIN t /\ t[i - 1] = s[i]
        BY <1>1, <1>4, <3>2
      <4> QED BY <4>1 DEF ToSet
    <3> QED BY <1>1, <3>1, <3>2
  <2> QED BY <2>1, <2>2, <2>3
<1> QED BY <1>4, <1>5 DEF t

\* The order of the numbers.
Below == {d \in Nat \X Nat : d[1] < d[2]}

\* A set of numbers has a least one.
LEMMA Least ==
  ASSUME NEW S \in SUBSET Nat, S # {}
  PROVE  \E x \in S : \A y \in S : x <= y
<1>1. IsWellFoundedOn(Below, Nat)
  BY NatLessThanWellFounded DEF OpToRel, Below
<1>2. PICK x \in S : \A y \in S : <<y, x>> \notin Below
  BY <1>1, WFMin
<1>3. ASSUME NEW y \in S, ~(x <= y) PROVE FALSE
  <2>1. x \in Nat /\ y \in Nat /\ y < x
    BY <1>3
  <2>2. <<y, x>> \in Below
    BY <2>1 DEF Below
  <2> QED BY <1>2, <2>2
<1> QED BY <1>3

\* Reversing a sequence.
LEMMA ReverseIs ==
  ASSUME NEW S, NEW s \in Seq(S)
  PROVE  /\ Reverse(s) \in Seq(S) /\ Len(Reverse(s)) = Len(s) /\ Len(s) \in Nat
         /\ DOMAIN Reverse(s) = 1..Len(s) /\ DOMAIN s = 1..Len(s)
         /\ \A i \in 1..Len(s) : Reverse(s)[i] = s[Len(s) - i + 1]
         /\ ToSet(Reverse(s)) = ToSet(s)
         /\ IsInjective(s) => IsInjective(Reverse(s))
<1> DEFINE r == Reverse(s)
           n == Len(s)
<1>1. n \in Nat /\ DOMAIN s = 1..n /\ \A i \in 1..n : s[i] \in S
  BY LenProperties, ElementOfSeq
<1>2. r = [i \in 1..n |-> s[n - i + 1]]
  BY DEF Reverse
<1> HIDE DEF n, r
<1>3. \A i \in 1..n : n - i + 1 \in 1..n
  BY <1>1
<1>4. r \in [1..n -> S] /\ DOMAIN r = 1..n /\ \A i \in 1..n : r[i] = s[n - i + 1]
  BY <1>1, <1>2, <1>3
<1>5. r \in Seq(S)
  BY <1>1, <1>4
<1>6. Len(r) = n
  BY <1>1, <1>4, <1>5, LenProperties
<1>7. ToSet(r) = ToSet(s)
  <2>1. \A i \in 1..n : r[i] \in ToSet(s)
    BY <1>1, <1>3, <1>4 DEF ToSet
  <2>2. \A i \in 1..n : s[i] \in ToSet(r)
    <3> SUFFICES ASSUME NEW i \in 1..n  PROVE s[i] \in ToSet(r)
      OBVIOUS
    <3>1. n - i + 1 \in 1..n /\ n - (n - i + 1) + 1 = i
      BY <1>1
    <3>2. r[n - i + 1] = s[i]
      BY <1>4, <3>1
    <3> QED BY <1>4, <3>1, <3>2 DEF ToSet
  <2> QED BY <1>1, <1>4, <2>1, <2>2 DEF ToSet
<1>8. IsInjective(s) => IsInjective(r)
  <2> SUFFICES ASSUME IsInjective(s), NEW i \in 1..n, NEW j \in 1..n, r[i] = r[j]  PROVE i = j
    BY <1>4 DEF IsInjective
  <2>1. n - i + 1 = n - j + 1
    BY <1>1, <1>3, <1>4 DEF IsInjective
  <2> QED BY <1>1, <2>1
<1> QED BY <1>1, <1>4, <1>5, <1>6, <1>7, <1>8 DEF n, r

\* Two sequences of the same length with the same elements are one.
LEMMA SameSequence ==
  ASSUME NEW S, NEW s \in Seq(S), NEW u \in Seq(S), Len(s) = Len(u),
         \A i \in 1..Len(s) : s[i] = u[i]
  PROVE  s = u
BY SeqEqual

\* Reversing a list that was pushed in reverse in front of another one: the order of the
\* pushes.
LEMMA ReversePushed ==
  ASSUME NEW S, NEW l \in Seq(S), NEW h \in Seq(S)
  PROVE  Reverse(Reverse(l) \o h) = Reverse(h) \o l
<1>1. /\ Reverse(l) \in Seq(S) /\ Len(Reverse(l)) = Len(l)
      /\ \A i \in 1..Len(l) : Reverse(l)[i] = l[Len(l) - i + 1]
      /\ Len(l) \in Nat /\ Len(h) \in Nat
  BY ReverseIs
<1>2. /\ Reverse(h) \in Seq(S) /\ Len(Reverse(h)) = Len(h)
      /\ \A i \in 1..Len(h) : Reverse(h)[i] = h[Len(h) - i + 1]
  BY ReverseIs
<1> DEFINE rl == Reverse(l)
           rh == Reverse(h)
           c == rl \o h
           d == rh \o l
           n == Len(l) + Len(h)
<1> HIDE DEF rl, rh
<1>3. /\ c \in Seq(S) /\ Len(c) = n
      /\ \A i \in 1..n : c[i] = IF i <= Len(l) THEN rl[i] ELSE h[i - Len(l)]
  <2>1. rl \in Seq(S) /\ Len(rl) = Len(l)
    BY <1>1 DEF rl
  <2>2. /\ c \in Seq(S) /\ Len(c) = Len(rl) + Len(h)
        /\ \A i \in 1..(Len(rl) + Len(h)) : c[i] = IF i <= Len(rl) THEN rl[i] ELSE h[i - Len(rl)]
    BY ONLY l \in Seq(S), h \in Seq(S), <2>1, ConcatProperties, Zenon
  <2> QED BY <2>1, <2>2, Zenon
<1>5. /\ d \in Seq(S) /\ Len(d) = n
      /\ \A i \in 1..n : d[i] = IF i <= Len(h) THEN rh[i] ELSE l[i - Len(h)]
  <2>1. rh \in Seq(S) /\ Len(rh) = Len(h)
    BY <1>2 DEF rh
  <2>2. /\ d \in Seq(S) /\ Len(d) = Len(rh) + Len(l)
        /\ \A i \in 1..(Len(rh) + Len(l)) : d[i] = IF i <= Len(rh) THEN rh[i] ELSE l[i - Len(rh)]
    BY ONLY l \in Seq(S), h \in Seq(S), <2>1, ConcatProperties, Zenon
  <2>3. Len(h) + Len(l) = n
    BY <1>1
  <2> QED BY <2>1, <2>2, <2>3, Zenon
<1> HIDE DEF c, d
<1>n. n \in Nat /\ n = Len(l) + Len(h)
  BY <1>1
<1> HIDE DEF n
<1>4. /\ Reverse(c) \in Seq(S) /\ Len(Reverse(c)) = n
      /\ \A i \in 1..n : Reverse(c)[i] = c[n - i + 1]
  BY <1>3, ReverseIs
<1>6. ASSUME NEW i \in 1..n  PROVE Reverse(c)[i] = d[i]
  <2>1. n - i + 1 \in 1..n
    BY <1>n
  <2>2. CASE i <= Len(h)
    <3>1. ~(n - i + 1 <= Len(l)) /\ (n - i + 1) - Len(l) = Len(h) - i + 1 /\ i \in 1..Len(h)
      BY <1>1, <1>n, <2>1, <2>2
    <3>2. c[n - i + 1] = h[Len(h) - i + 1]
      BY <1>3, <2>1, <3>1
    <3>3. d[i] = h[Len(h) - i + 1]
      BY <1>2, <1>5, <2>2, <3>1 DEF rh
    <3> QED BY <1>4, <3>2, <3>3
  <2>3. CASE i > Len(h)
    <3>1. /\ n - i + 1 <= Len(l) /\ n - i + 1 \in 1..Len(l)
          /\ Len(l) - (n - i + 1) + 1 = i - Len(h) /\ ~(i <= Len(h))
      BY <1>1, <1>n, <2>1, <2>3
    <3>2. c[n - i + 1] = l[i - Len(h)]
      <4>1. c[n - i + 1] = rl[n - i + 1]
        BY <1>3, <2>1, <3>1
      <4>2. rl[n - i + 1] = l[Len(l) - (n - i + 1) + 1]
        BY <1>1, <3>1 DEF rl
      <4> QED BY <3>1, <4>1, <4>2
    <3>3. d[i] = l[i - Len(h)]
      BY <1>5, <3>1
    <3> QED BY <1>4, <3>2, <3>3
  <2> QED BY <1>1, <2>2, <2>3
<1>7. Reverse(c) = d
  BY <1>4, <1>5, <1>6, SameSequence
<1> QED BY <1>7 DEF c, d, rl, rh

-----------------------------------------------------------------------------
(* Lists and chains.                                                        *)

\* A sequence of items without repetition is no longer than there are items.
LEMMA InLists ==
  ASSUME NEW l \in Seq(Items), IsInjective(l)
  PROVE  l \in Lists
<1>1. Len(l) \in Nat /\ l \in [1..Len(l) -> Items]
  BY LenProperties
<1>2. l \in Injection(1..Len(l), Items)
  BY <1>1 DEF Injection
<1>3. IsFiniteSet(Items)
  BY NullAssumption
<1>4. Cardinality(1..Len(l)) <= Cardinality(Items)
  BY <1>2, <1>3, FS_Injection
<1>5. Cardinality(1..Len(l)) = Len(l)
  BY <1>1, FS_Interval
<1>6. Cardinality(Items) \in Nat
  BY <1>3, FS_CardinalityType
<1>7. Len(l) \in 0..Cardinality(Items)
  BY <1>1, <1>4, <1>5, <1>6
<1> QED BY <1>1, <1>7 DEF Lists

\* What a list of items is.
LEMMA ListsAre ==
  ASSUME NEW l \in Lists
  PROVE  /\ l \in Seq(Items) /\ IsInjective(l) /\ Len(l) \in Nat /\ DOMAIN l = 1..Len(l)
         /\ \A i \in 1..Len(l) : l[i] \in Items /\ l[i] \in ToSet(l)
         /\ ToSet(l) \subseteq Items
         /\ l # <<>> => Len(l) > 0 /\ Head(l) = l[1]
<1>1. PICK n \in 0..Cardinality(Items) : l \in [1..n -> Items]
  BY DEF Lists
<1>2. n \in Nat
  BY <1>1, NullAssumption, FS_CardinalityType
<1>3. l \in Seq(Items)
  BY <1>1, <1>2
<1>4. Len(l) \in Nat /\ DOMAIN l = 1..Len(l) /\ \A i \in 1..Len(l) : l[i] \in Items
  BY <1>3, LenProperties, ElementOfSeq
<1>5. \A i \in 1..Len(l) : l[i] \in ToSet(l)
  BY <1>4 DEF ToSet
<1>6. ToSet(l) \subseteq Items
  BY <1>4 DEF ToSet
<1>7. l # <<>> => Len(l) > 0 /\ Head(l) = l[1]
  BY <1>3, <1>4, EmptySeq
<1>8. IsInjective(l)
  BY DEF Lists
<1> QED BY <1>3, <1>4, <1>5, <1>6, <1>7, <1>8

\* There is an empty list.
LEMMA EmptyIsList == <<>> \in Lists
BY InLists, EmptySeq, SetOfEmpty

\* One list is the beginning of another one from the same item.
LEMMA ChainInside ==
  ASSUME NEW n, NEW l \in Lists, NEW m \in Lists, NEW from,
         IsChain(n, l, from), IsChain(n, m, from)
  PROVE  Len(l) <= Len(m) /\ \A i \in 1..Len(l) : l[i] = m[i]
<1> DEFINE Same(i) == i <= Len(m) /\ l[i] = m[i]
           Bad == {i \in 1..Len(l) : ~Same(i)}
<1>1. /\ Len(l) \in Nat /\ Len(m) \in Nat
      /\ \A i \in 1..Len(l) : l[i] \in Items
      /\ l # <<>> => Len(l) > 0 /\ Head(l) = l[1]
      /\ m # <<>> => Len(m) > 0 /\ Head(m) = m[1]
  BY ListsAre
<1>2. Bad = {}
  <2> SUFFICES ASSUME Bad # {}  PROVE FALSE
    OBVIOUS
  <2>1. Bad \in SUBSET Nat
    BY <1>1
  <2>2. PICK x \in Bad : \A y \in Bad : x <= y
    BY <2>1, Least
  <2>3. x \in 1..Len(l) /\ ~Same(x)
    BY <2>2
  <2>4. l # <<>> /\ from = l[1] /\ from \in Items
    <3>1. l # <<>>
      BY <1>1, <2>3, EmptySeq
    <3> QED BY <1>1, <3>1 DEF IsChain
  <2>5. m # <<>> /\ from = m[1]
    BY <1>1, <2>4, NullAssumption DEF IsChain
  <2>6. CASE x = 1
    <3>1. 1 <= Len(m) /\ l[1] = m[1]
      BY <1>1, <2>4, <2>5
    <3> QED BY <2>3, <2>6, <3>1
  <2>7. CASE x # 1
    <3> DEFINE y == x - 1
    <3>1. y \in 1..Len(l) /\ y # Len(l) /\ ~(x <= y) /\ y + 1 = x
      BY <1>1, <2>3, <2>7
    <3>2. Same(y)
      BY <2>2, <3>1
    <3>3. n[l[y]] = l[x]
      BY <3>1 DEF IsChain
    <3>4. y \in 1..Len(m)
      BY <1>1, <3>1, <3>2
    <3>5. n[m[y]] = IF y = Len(m) THEN Null ELSE m[x]
      BY <3>1, <3>4 DEF IsChain
    <3>6. l[x] \in Items /\ l[x] # Null
      BY <1>1, <2>3, NullAssumption
    <3>7. y # Len(m) /\ m[x] = l[x]
      BY <3>2, <3>3, <3>5, <3>6
    <3>8. x <= Len(m)
      BY <1>1, <2>3, <3>1, <3>4, <3>7
    <3> QED BY <2>3, <3>7, <3>8
  <2> QED BY <2>6, <2>7
<1>3. \A i \in 1..Len(l) : i <= Len(m) /\ l[i] = m[i]
  BY <1>2
<1>4. Len(l) <= Len(m)
  <2>1. CASE Len(l) = 0
    BY <1>1, <2>1
  <2>2. CASE Len(l) # 0
    <3>1. Len(l) \in 1..Len(l)
      BY <1>1, <2>2
    <3> QED BY <1>3, <3>1
  <2> QED BY <2>1, <2>2
<1> QED BY <1>3, <1>4

\* The links tell one list.
LEMMA WalkIs ==
  ASSUME NEW n, NEW l \in Lists, NEW from, IsChain(n, l, from)
  PROVE  Walk(n, from) = l
<1> DEFINE m == CHOOSE x \in Lists : IsChain(n, x, from)
<1>1. m \in Lists /\ IsChain(n, m, from)
  OBVIOUS
<1>2. from # Null => Walk(n, from) = m
  BY DEF Walk
<1> HIDE DEF m
<1>0. CASE from = Null
  <2>1. l \in Seq(Items)
    BY ListsAre
  <2>2. l = <<>>
    BY <1>0, <2>1, NullAssumption DEF IsChain
  <2> QED BY <1>0, <2>2 DEF Walk
<1>3. l \in Seq(Items) /\ m \in Seq(Items) /\ Len(l) \in Nat /\ Len(m) \in Nat
  BY <1>1, ListsAre
<1>4. Len(l) <= Len(m) /\ Len(m) <= Len(l) /\ \A i \in 1..Len(l) : l[i] = m[i]
  BY <1>1, ChainInside
<1>5. Len(l) = Len(m)
  BY <1>3, <1>4
<1>6. l = m
  BY <1>3, <1>4, <1>5, SameSequence
<1> QED BY <1>0, <1>2, <1>6

\* The links of no item are no list.
LEMMA ChainOfNothing ==
  ASSUME NEW n  PROVE IsChain(n, <<>>, Null) /\ Walk(n, Null) = <<>>
<1>1. IsChain(n, <<>>, Null)
  BY EmptySeq DEF IsChain
<1> QED BY <1>1, EmptyIsList, WalkIs

\* A chain is empty when and only when it begins with the null link.
LEMMA ChainIsEmpty ==
  ASSUME NEW n, NEW l \in Lists, NEW from, IsChain(n, l, from)
  PROVE  /\ l = <<>> <=> from = Null
         /\ l # <<>> => from = l[1] /\ from \in Items
<1>1. l # <<>> => Len(l) > 0 /\ Head(l) = l[1] /\ l[1] \in Items
  BY ListsAre
<1> QED BY <1>1, NullAssumption DEF IsChain

\* Links of items outside the chain may change.
LEMMA ChainKept ==
  ASSUME NEW n, NEW m, NEW l \in Lists, NEW from, IsChain(n, l, from),
         \A i \in ToSet(l) : m[i] = n[i]
  PROVE  IsChain(m, l, from)
<1>1. \A k \in 1..Len(l) : m[l[k]] = n[l[k]]
  BY ListsAre
<1> QED BY <1>1 DEF IsChain

\* The chain behind the first item.
LEMMA ChainTail ==
  ASSUME NEW n, NEW l \in Lists, NEW from, IsChain(n, l, from), l # <<>>
  PROVE  /\ from = Head(l) /\ from \in Items /\ Tail(l) \in Lists /\ IsChain(n, Tail(l), n[from])
         /\ ToSet(Tail(l)) = ToSet(l) \ {from} /\ from \in ToSet(l)
         /\ l = <<from>> \o Tail(l)
<1>1. /\ l \in Seq(Items) /\ IsInjective(l) /\ Len(l) \in Nat /\ Len(l) > 0 /\ Head(l) = l[1]
      /\ l[1] \in Items
  BY ListsAre
<1>2. /\ Tail(l) \in Seq(Items) /\ Head(l) \in ToSet(l)
      /\ IsInjective(Tail(l)) /\ ToSet(Tail(l)) = ToSet(l) \ {Head(l)}
  BY <1>1, SetOfTail
<1>3. Tail(l) \in Lists
  BY <1>2, InLists
<1>4. from = Head(l)
  BY DEF IsChain
<1>5. /\ Len(Tail(l)) = Len(l) - 1
      /\ \A i \in 1..(Len(l) - 1) : Tail(l)[i] = l[i + 1]
  <2>1. /\ Len(Tail(l)) = Len(l) - 1
        /\ \A i \in 1..Len(Tail(l)) : Tail(l)[i] = l[i + 1]
    BY <1>1, HeadTailProperties
  <2> QED BY <2>1
<1>6. IsChain(n, Tail(l), n[from])
  <2> DEFINE t == Tail(l)
  <2>a. /\ Len(l) \in Nat /\ Len(l) > 0 /\ t \in Lists /\ Len(t) = Len(l) - 1 /\ from = l[1]
        /\ \A i \in 1..(Len(l) - 1) : t[i] = l[i + 1]
        /\ \A k \in 1..Len(l) : n[l[k]] = IF k = Len(l) THEN Null ELSE l[k + 1]
    BY <1>1, <1>3, <1>4, <1>5 DEF IsChain
  <2> HIDE DEF t
  <2>b. (t # <<>> => Len(t) > 0 /\ Head(t) = t[1]) /\ (t = <<>> => Len(t) = 0)
    BY <2>a, ListsAre, EmptySeq
  <2>1. n[from] = IF t = <<>> THEN Null ELSE Head(t)
    <3>1. n[l[1]] = IF 1 = Len(l) THEN Null ELSE l[1 + 1]
      <4>1. 1 \in 1..Len(l)
        BY <2>a
      <4> QED BY <2>a, <4>1
    <3>2. CASE Len(l) = 1
      BY <2>a, <2>b, <3>1, <3>2
    <3>3. CASE Len(l) # 1
      <4>1. 1 \in 1..(Len(l) - 1) /\ Len(t) > 0
        BY <2>a, <3>3
      <4>2. t[1] = l[1 + 1] /\ t # <<>>
        BY <2>a, <2>b, <4>1
      <4> QED BY <2>a, <2>b, <3>1, <3>3, <4>2
    <3> QED BY <3>2, <3>3
  <2>2. ASSUME NEW k \in 1..Len(t)  PROVE n[t[k]] = IF k = Len(t) THEN Null ELSE t[k + 1]
    <3>1. /\ k + 1 \in 1..Len(l) /\ k \in 1..(Len(l) - 1) /\ (k = Len(t) <=> k + 1 = Len(l))
          /\ k # Len(t) => k + 1 \in 1..(Len(l) - 1)
      BY <2>a
    <3>2. n[l[k + 1]] = IF k + 1 = Len(l) THEN Null ELSE l[(k + 1) + 1]
      BY <2>a, <3>1
    <3>3. t[k] = l[k + 1]
      BY <2>a, <3>1
    <3>4. k # Len(t) => t[k + 1] = l[(k + 1) + 1]
      BY <2>a, <3>1
    <3> QED BY <3>1, <3>2, <3>3, <3>4
  <2> QED BY <2>1, <2>2 DEF IsChain, t
<1>7. l = <<Head(l)>> \o Tail(l)
  <2>1. l = SubSeq(l, 1, Len(l)) /\ Tail(l) = SubSeq(l, 2, Len(l))
    BY <1>1, SubSeqFull, TailIsSubSeq
  <2>2. SubSeq(l, 1, Len(l)) = <<l[1]>> \o SubSeq(l, 1 + 1, Len(l))
    <3>1. 1 \in 1..Len(l) /\ Len(l) \in 1..Len(l)
      BY <1>1
    <3> QED BY <1>1, <3>1, SubSeqRecursiveFirst
  <2> QED BY <1>1, <2>1, <2>2
<1> QED BY <1>1, <1>2, <1>3, <1>4, <1>6, <1>7

\* A list that is pushed in front of a chain.
LEMMA ChainPushed ==
  ASSUME NEW n, NEW h \in Lists, NEW from, IsChain(n, h, from),
         NEW l \in Seq(Items), IsInjective(l), l # <<>>, ToSet(l) \cap ToSet(h) = {},
         n[l[1]] = from, \A k \in 2..Len(l) : n[l[k]] = l[k - 1]
  PROVE  /\ Reverse(l) \o h \in Lists
         /\ IsChain(n, Reverse(l) \o h, l[Len(l)])
         /\ ToSet(Reverse(l) \o h) = ToSet(l) \cup ToSet(h)
<1> DEFINE r == Reverse(l)
           c == r \o h
<1>1. /\ Len(l) \in Nat /\ Len(l) > 0 /\ Len(h) \in Nat /\ h \in Seq(Items) /\ IsInjective(h)
      /\ h # <<>> => Len(h) > 0 /\ Head(h) = h[1]
      /\ h = <<>> => Len(h) = 0
  <2>1. l \in Lists
    BY InLists
  <2> QED BY <2>1, ListsAre, EmptySeq
<1>2. /\ r \in Seq(Items) /\ Len(r) = Len(l) /\ ToSet(r) = ToSet(l) /\ IsInjective(r)
      /\ \A i \in 1..Len(l) : r[i] = l[Len(l) - i + 1]
  BY ReverseIs
<1> HIDE DEF r
<1>3. /\ c \in Seq(Items) /\ Len(c) = Len(l) + Len(h)
      /\ \A i \in 1..(Len(l) + Len(h)) : c[i] = IF i <= Len(l) THEN r[i] ELSE h[i - Len(l)]
  <2>1. /\ c \in Seq(Items) /\ Len(c) = Len(r) + Len(h)
        /\ \A i \in 1..(Len(r) + Len(h)) : c[i] = IF i <= Len(r) THEN r[i] ELSE h[i - Len(r)]
    <3>1. r \in Seq(Items) /\ h \in Seq(Items)
      BY <1>1, <1>2
    <3> QED BY ONLY <3>1, ConcatProperties, Zenon
  <2> QED BY <1>2, <2>1, Zenon
<1>4. ToSet(c) = ToSet(l) \cup ToSet(h) /\ IsInjective(c)
  BY <1>1, <1>2, SetOfConcat
<1> HIDE DEF c
<1>5. c \in Lists
  BY <1>3, <1>4, InLists
<1>6. c # <<>> /\ Head(c) = l[Len(l)]
  <2>1. c # <<>> /\ Head(c) = c[1]
    BY <1>1, <1>3, <1>5, ListsAre, EmptySeq
  <2>2. c[1] = r[1] /\ r[1] = l[Len(l) - 1 + 1] /\ Len(l) - 1 + 1 = Len(l)
    BY <1>1, <1>2, <1>3
  <2> QED BY <2>1, <2>2
<1>7. ASSUME NEW k \in 1..Len(c)  PROVE n[c[k]] = IF k = Len(c) THEN Null ELSE c[k + 1]
  <2>1. CASE k < Len(l)
    <3>0. /\ k \in 1..Len(l) /\ k + 1 \in 1..Len(l) /\ k # Len(c)
          /\ k \in 1..(Len(l) + Len(h)) /\ k + 1 \in 1..(Len(l) + Len(h))
          /\ k <= Len(l) /\ k + 1 <= Len(l)
      BY <1>1, <1>3, <2>1
    <3>a. c[k] = r[k] /\ c[k + 1] = r[k + 1]
      BY <1>3, <3>0
    <3>1. c[k] = l[Len(l) - k + 1] /\ c[k + 1] = l[Len(l) - (k + 1) + 1] /\ k # Len(c)
      BY <1>2, <3>0, <3>a
    <3>2. Len(l) - k + 1 \in 2..Len(l) /\ (Len(l) - k + 1) - 1 = Len(l) - (k + 1) + 1
      BY <1>1, <3>0
    <3>3. n[l[Len(l) - k + 1]] = l[(Len(l) - k + 1) - 1]
      BY <3>2
    <3> QED BY <3>1, <3>2, <3>3
  <2>2. CASE k = Len(l)
    <3>1. c[k] = l[1]
      <4>1. c[k] = r[k] /\ r[k] = l[Len(l) - k + 1] /\ Len(l) - k + 1 = 1
        BY <1>1, <1>2, <1>3, <2>2
      <4> QED BY <4>1
    <3>2. CASE h = <<>>
      <4>1. k = Len(c) /\ from = Null
        BY <1>1, <1>3, <2>2, <3>2 DEF IsChain
      <4> QED BY <3>1, <4>1
    <3>3. CASE h # <<>>
      <4>1. k # Len(c) /\ c[k + 1] = h[(k + 1) - Len(l)] /\ (k + 1) - Len(l) = 1
        BY <1>1, <1>3, <2>2, <3>3
      <4>2. from = h[1]
        BY <1>1, <3>3 DEF IsChain
      <4> QED BY <3>1, <4>1, <4>2
    <3> QED BY <3>2, <3>3
  <2>3. CASE k > Len(l)
    <3> DEFINE j == k - Len(l)
    <3>1. /\ j \in 1..Len(h) /\ c[k] = h[j] /\ (k = Len(c) <=> j = Len(h))
          /\ k # Len(c) => c[k + 1] = h[j + 1]
      <4>1. /\ j \in 1..Len(h) /\ (k = Len(c) <=> j = Len(h)) /\ ~(k <= Len(l))
            /\ k \in 1..(Len(l) + Len(h))
        BY <1>1, <1>3, <2>3
      <4>2. c[k] = h[j]
        BY <1>3, <4>1
      <4>3. ASSUME k # Len(c)  PROVE c[k + 1] = h[j + 1]
        <5>1. k + 1 \in 1..(Len(l) + Len(h)) /\ ~(k + 1 <= Len(l)) /\ (k + 1) - Len(l) = j + 1
          <6>0. Len(c) = Len(l) + Len(h)
            BY <1>3
          <6>1. k \in Nat /\ k <= Len(c)
            BY <1>1, <6>0
          <6>2. k > Len(l) /\ k # Len(c) /\ Len(l) \in Nat /\ Len(h) \in Nat
            BY <1>1, <2>3, <4>3
          <6> QED BY ONLY <6>0, <6>1, <6>2
        <5> QED BY <1>3, <5>1
      <4> QED BY <4>1, <4>2, <4>3
    <3>2. n[h[j]] = IF j = Len(h) THEN Null ELSE h[j + 1]
      BY <3>1 DEF IsChain
    <3> QED BY <3>1, <3>2
  <2> QED BY <1>1, <1>3, <2>1, <2>2, <2>3
<1>8. IsChain(n, c, l[Len(l)])
  BY <1>6, <1>7 DEF IsChain
<1> QED BY <1>4, <1>5, <1>8 DEF c, r

-----------------------------------------------------------------------------
(* The front queue's invariant.                                             *)

Chained(from) == Walk(next, from) \in Lists /\ IsChain(next, Walk(next, from), from)

Chains ==
    /\ Chained(head) /\ Chained(curr) /\ Chained(prev)
    /\ kpc = "outside" => curr = Null /\ prev = Null

Pushing(p) == ppc[p] \in {"link", "exchange"}

\* What a producer knows of the list it pushes: its links, but for the last one, and
\* the last one once it is stored, which may be the old head of another time.
ProducerFits(p) ==
    /\ ppc[p] = "outside" => list[p] = <<>>
    /\ ppc[p] # "outside" => list[p] # <<>>
    /\ Pushing(p) =>
          /\ list[p] \in Lists
          /\ first[p] = list[p][Len(list[p])] /\ last[p] = list[p][1]
          /\ \A k \in 2..Len(list[p]) : next[list[p][k]] = list[p][k - 1]
    /\ ppc[p] = "exchange" => next[last[p]] = oldHead[p]

In(from) == ToSet(Walk(next, from))

Held(p) == IF Pushing(p) THEN ToSet(list[p]) ELSE {}

Apart ==
    /\ In(head) \cap In(curr) = {} /\ In(head) \cap In(prev) = {} /\ In(curr) \cap In(prev) = {}
    /\ free \cap (In(head) \cup In(curr) \cup In(prev)) = {}
    /\ \A p \in Producers : Held(p) \cap (free \cup In(head) \cup In(curr) \cup In(prev)) = {}
    /\ \A p, q \in Producers : p # q => Held(p) \cap Held(q) = {}
    /\ \A i \in Items : \/ i \in free \cup In(head) \cup In(curr) \cup In(prev)
                        \/ \E p \in Producers : i \in Held(p)

FrontInv == TypeOK /\ Chains /\ (\A p \in Producers : ProducerFits(p)) /\ Apart

\* The walk along a chain whose links stay is the same.
LEMMA WalkKept ==
  ASSUME NEW n, NEW m, NEW from, Walk(n, from) \in Lists, IsChain(n, Walk(n, from), from),
         \A i \in ToSet(Walk(n, from)) : m[i] = n[i]
  PROVE  Walk(m, from) = Walk(n, from) /\ IsChain(m, Walk(n, from), from)
<1>1. IsChain(m, Walk(n, from), from)
  BY ChainKept
<1> QED BY <1>1, WalkIs

\* A producer does not notice links that are not of the items it holds.
LEMMA OtherFits ==
  ASSUME NEW p \in Producers, ProducerFits(p),
         ppc'[p] = ppc[p], list'[p] = list[p], first'[p] = first[p], last'[p] = last[p],
         oldHead'[p] = oldHead[p], \A i \in Held(p) : next'[i] = next[i]
  PROVE  ProducerFits(p)'
<1>1. CASE Pushing(p)
  <2>1. /\ list[p] \in Lists /\ list[p] # <<>> /\ Held(p) = ToSet(list[p])
        /\ last[p] = list[p][1]
    BY <1>1 DEF ProducerFits, Held, Pushing
  <2>2. Len(list[p]) \in Nat /\ Len(list[p]) > 0
        /\ \A k \in 1..Len(list[p]) : list[p][k] \in Held(p)
    BY <2>1, ListsAre
  <2>3. \A k \in 2..Len(list[p]) : next'[list[p][k]] = list[p][k - 1]
    <3> SUFFICES ASSUME NEW k \in 2..Len(list[p])  PROVE next'[list[p][k]] = list[p][k - 1]
      OBVIOUS
    <3>1. next[list[p][k]] = list[p][k - 1]
      BY <1>1 DEF ProducerFits
    <3>2. k \in 1..Len(list[p])
      BY <2>2
    <3> QED BY <2>2, <3>1, <3>2
  <2>4. next'[last[p]] = next[last[p]]
    <3>1. 1 \in 1..Len(list[p])
      BY <2>2
    <3> QED BY <2>1, <2>2, <3>1
  <2> QED BY <1>1, <2>3, <2>4 DEF ProducerFits, Pushing
<1>2. CASE ~Pushing(p)
  BY <1>2 DEF ProducerFits, Pushing
<1> QED BY <1>1, <1>2

\* The invariant holds of the empty queue.
LEMMA FrontInit == Init => FrontInv
<1> SUFFICES ASSUME Init  PROVE FrontInv
  OBVIOUS
<1>1. TypeOK
  <2>1. <<>> \in Seq(Items)
    BY EmptySeq
  <2> QED BY <2>1 DEF Init, TypeOK, Links
<1>2. Walk(next, Null) = <<>> /\ IsChain(next, <<>>, Null) /\ <<>> \in Lists /\ ToSet(<<>>) = {}
  BY ChainOfNothing, EmptyIsList, SetOfEmpty
<1>3. Chains
  BY <1>2 DEF Init, Chains, Chained
<1>4. Apart
  BY <1>2 DEF Init, Apart, In, Held, Pushing
<1>5. \A p \in Producers : ProducerFits(p)
  BY DEF Init, ProducerFits, Pushing
<1> QED BY <1>1, <1>3, <1>4, <1>5 DEF FrontInv

\* The reversal of the list in place touches the free items of that list only
\* (MultiProducerQueueIntrusive.h: PushManyFastReversed(), PushManyFast()).
LEMMA PushManyKeeps ==
  ASSUME FrontInv, NEW p \in Producers, NEW l \in FreeLists, PushMany(p, l)
  PROVE  /\ FrontInv'
         /\ Walk(next, head)' = Walk(next, head) /\ Walk(next, curr)' = Walk(next, curr)
         /\ Walk(next, prev)' = Walk(next, prev)
<1>1. /\ l \in Lists /\ l # <<>> /\ ToSet(l) \subseteq free /\ l \in Seq(Items)
      /\ Len(l) \in Nat /\ Len(l) > 0 /\ Head(l) = l[1] /\ DOMAIN l = 1..Len(l)
      /\ \A i \in 1..Len(l) : l[i] \in Items /\ l[i] \in ToSet(l)
      /\ ToSet(l) \subseteq Items /\ IsInjective(l)
  BY ListsAre DEF FreeLists
<1>2. /\ \A i \in Items \ ToSet(l) : next'[i] = next[i]
      /\ \A k \in 2..Len(l) : next'[l[k]] = l[k - 1]
      /\ next' \in [Items -> Links]
  <2> DEFINE At(i) == CHOOSE k \in 2..Len(l) : l[k] = i
  <2>1. next' = [i \in Items |-> IF \E k \in 2..Len(l) : l[k] = i THEN l[At(i) - 1] ELSE next[i]]
    BY DEF PushMany
  <2>2. \A i \in Items : (\E k \in 2..Len(l) : l[k] = i) => At(i) \in 2..Len(l) /\ l[At(i)] = i
    OBVIOUS
  <2> HIDE DEF At
  <2>3. \A k \in 2..Len(l) : k \in 1..Len(l) /\ k - 1 \in 1..Len(l)
    BY <1>1
  <2>4. ASSUME NEW i \in Items \ ToSet(l)  PROVE next'[i] = next[i]
    BY <1>1, <2>1, <2>3
  <2>5. ASSUME NEW k \in 2..Len(l)  PROVE next'[l[k]] = l[k - 1]
    <3>1. l[k] \in Items
      BY <1>1, <2>3
    <3>2. At(l[k]) \in 2..Len(l) /\ l[At(l[k])] = l[k]
      BY <2>2, <3>1
    <3>3. At(l[k]) = k
      BY <1>1, <2>3, <3>2 DEF IsInjective
    <3> QED BY <2>1, <3>1, <3>3
  <2>6. ASSUME NEW i \in Items  PROVE (IF \E k \in 2..Len(l) : l[k] = i THEN l[At(i) - 1]
                 ELSE next[i]) \in Links
    <3>1. CASE \E k \in 2..Len(l) : l[k] = i
      <4>1. At(i) \in 2..Len(l)
        BY <2>2, <3>1
      <4>2. l[At(i) - 1] \in Items
        BY <1>1, <2>3, <4>1
      <4> QED BY <3>1, <4>2 DEF Links
    <3>2. CASE ~\E k \in 2..Len(l) : l[k] = i
      BY <3>2 DEF FrontInv, TypeOK
    <3> QED BY <3>1, <3>2
  <2> QED BY <2>1, <2>4, <2>5, <2>6
<1>3. /\ head' = head /\ curr' = curr /\ prev' = prev /\ kpc' = kpc /\ wasEmpty' = wasEmpty
      /\ free' = free \ ToSet(l) /\ ppc[p] = "outside"
      /\ ppc' = [ppc EXCEPT ![p] = "link"] /\ list' = [list EXCEPT ![p] = l]
      /\ first' = [first EXCEPT ![p] = Last(l)] /\ last' = [last EXCEPT ![p] = Head(l)]
      /\ oldHead' = [oldHead EXCEPT ![p] = head]
  BY DEF PushMany, Set, consumerVars
<1>4. Last(l) = l[Len(l)] /\ Len(l) \in 1..Len(l) /\ 1 \in 1..Len(l)
  BY <1>1 DEF Last
<1>5. TypeOK'
  BY <1>1, <1>2, <1>3, <1>4 DEF FrontInv, TypeOK, Links
<1>6. /\ Walk(next', head) = Walk(next, head) /\ IsChain(next', Walk(next, head), head)
      /\ Walk(next', curr) = Walk(next, curr) /\ IsChain(next', Walk(next, curr), curr)
      /\ Walk(next', prev) = Walk(next, prev) /\ IsChain(next', Walk(next, prev), prev)
  <2>1. /\ In(head) \cap ToSet(l) = {} /\ In(curr) \cap ToSet(l) = {} /\ In(prev) \cap ToSet(l) = {}
    BY <1>1 DEF FrontInv, Apart
  <2>2. Chained(head) /\ Chained(curr) /\ Chained(prev)
    BY DEF FrontInv, Chains
  <2>3. In(head) \subseteq Items /\ In(curr) \subseteq Items /\ In(prev) \subseteq Items
    BY <2>2, ListsAre DEF In, Chained
  <2>4. /\ \A i \in In(head) : next'[i] = next[i]
        /\ \A i \in In(curr) : next'[i] = next[i]
        /\ \A i \in In(prev) : next'[i] = next[i]
    BY <1>2, <2>1, <2>3
  <2> QED BY <2>2, <2>4, WalkKept DEF Chained, In
<1>7. Chains'
  BY <1>3, <1>6 DEF FrontInv, Chains, Chained
<1>8. \A q \in Producers \ {p} : ppc'[q] = ppc[q] /\ list'[q] = list[q] /\ first'[q] = first[q]
                                /\ last'[q] = last[q] /\ oldHead'[q] = oldHead[q]
  BY <1>3 DEF FrontInv, TypeOK
<1>9. ppc'[p] = "link" /\ list'[p] = l /\ first'[p] = l[Len(l)] /\ last'[p] = l[1]
  BY <1>1, <1>3, <1>4 DEF FrontInv, TypeOK
<1>10. ASSUME NEW q \in Producers  PROVE ProducerFits(q)'
  <2>1. CASE q = p
    BY <1>1, <1>2, <1>9, <2>1 DEF ProducerFits, Pushing
  <2>2. CASE q # p
    <3>1. Held(q) \cap ToSet(l) = {}
      BY <1>1 DEF FrontInv, Apart
    <3>2. Held(q) \subseteq Items
      BY ListsAre DEF FrontInv, ProducerFits, Held
    <3> QED BY <1>2, <1>8, <2>2, <3>1, <3>2, OtherFits DEF FrontInv
  <2> QED BY <2>1, <2>2
<1>11. Apart'
  <2>1. In(head)' = In(head) /\ In(curr)' = In(curr) /\ In(prev)' = In(prev)
    BY <1>3, <1>6 DEF In
  <2>2. Held(p) = {} /\ Held(p)' = ToSet(l)
    BY <1>3, <1>9 DEF Held, Pushing
  <2>3. ASSUME NEW q \in Producers \ {p}  PROVE Held(q)' = Held(q)
    BY <1>8 DEF Held, Pushing
  <2> QED BY <1>1, <1>3, <2>1, <2>2, <2>3 DEF FrontInv, Apart
<1> QED BY <1>3, <1>5, <1>6, <1>7, <1>10, <1>11 DEF FrontInv

\* The last item of a list links to what was the head when it was loaded (PrivPushRange()).
LEMMA LinkKeeps ==
  ASSUME FrontInv, NEW p \in Producers, Link(p)
  PROVE  /\ FrontInv'
         /\ Walk(next, head)' = Walk(next, head) /\ Walk(next, curr)' = Walk(next, curr)
         /\ Walk(next, prev)' = Walk(next, prev)
<1>1. /\ head' = head /\ curr' = curr /\ prev' = prev /\ kpc' = kpc /\ wasEmpty' = wasEmpty
      /\ free' = free /\ ppc[p] = "link" /\ ppc' = [ppc EXCEPT ![p] = "exchange"]
      /\ list' = list /\ first' = first /\ last' = last /\ oldHead' = oldHead
      /\ next' = [next EXCEPT ![last[p]] = oldHead[p]]
  BY DEF Link, Set, consumerVars
<1>2. /\ list[p] \in Lists /\ list[p] # <<>> /\ Held(p) = ToSet(list[p]) /\ last[p] = list[p][1]
      /\ first[p] = list[p][Len(list[p])]
      /\ \A k \in 2..Len(list[p]) : next[list[p][k]] = list[p][k - 1]
  BY <1>1 DEF FrontInv, ProducerFits, Held, Pushing
<1>3. /\ Len(list[p]) \in Nat /\ Len(list[p]) > 0 /\ 1 \in 1..Len(list[p])
      /\ IsInjective(list[p]) /\ DOMAIN list[p] = 1..Len(list[p])
      /\ Held(p) \subseteq Items /\ last[p] \in Held(p)
  BY <1>2, ListsAre
<1>4. /\ \A i \in Items \ {last[p]} : next'[i] = next[i]
      /\ next'[last[p]] = oldHead[p] /\ next' \in [Items -> Links]
  BY <1>1, <1>3 DEF FrontInv, TypeOK
<1>5. TypeOK'
  BY <1>1, <1>4 DEF FrontInv, TypeOK
<1>6. /\ Walk(next', head) = Walk(next, head) /\ IsChain(next', Walk(next, head), head)
      /\ Walk(next', curr) = Walk(next, curr) /\ IsChain(next', Walk(next, curr), curr)
      /\ Walk(next', prev) = Walk(next, prev) /\ IsChain(next', Walk(next, prev), prev)
  <2>1. last[p] \notin In(head) /\ last[p] \notin In(curr) /\ last[p] \notin In(prev)
    BY <1>3 DEF FrontInv, Apart
  <2>2. Chained(head) /\ Chained(curr) /\ Chained(prev)
    BY DEF FrontInv, Chains
  <2>3. In(head) \subseteq Items /\ In(curr) \subseteq Items /\ In(prev) \subseteq Items
    BY <2>2, ListsAre DEF In, Chained
  <2>4. /\ \A i \in In(head) : next'[i] = next[i]
        /\ \A i \in In(curr) : next'[i] = next[i]
        /\ \A i \in In(prev) : next'[i] = next[i]
    BY <1>4, <2>1, <2>3
  <2> QED BY <2>2, <2>4, WalkKept DEF Chained, In
<1>7. Chains'
  BY <1>1, <1>6 DEF FrontInv, Chains, Chained
<1>8. ppc'[p] = "exchange" /\ \A q \in Producers \ {p} : ppc'[q] = ppc[q]
  BY <1>1 DEF FrontInv, TypeOK
<1>9. ASSUME NEW q \in Producers  PROVE ProducerFits(q)'
  <2>1. CASE q = p
    <3>1. \A k \in 2..Len(list[p]) : next'[list[p][k]] = list[p][k - 1]
      <4> SUFFICES ASSUME NEW k \in 2..Len(list[p])  PROVE next'[list[p][k]] = list[p][k - 1]
        OBVIOUS
      <4>1. k \in 1..Len(list[p]) /\ k # 1
        BY <1>3
      <4>2. list[p][k] # list[p][1] /\ list[p][k] \in Items
        BY <1>2, <1>3, <4>1, ListsAre DEF IsInjective
      <4> QED BY <1>2, <1>4, <4>2
    <3> QED BY <1>1, <1>2, <1>4, <1>8, <2>1, <3>1 DEF ProducerFits, Pushing
  <2>2. CASE q # p
    <3>1. last[p] \notin Held(q)
      BY <1>3, <2>2 DEF FrontInv, Apart
    <3>2. Held(q) \subseteq Items
      BY ListsAre DEF FrontInv, ProducerFits, Held
    <3> QED BY <1>1, <1>4, <1>8, <2>2, <3>1, <3>2, OtherFits DEF FrontInv
  <2> QED BY <2>1, <2>2
<1>10. Apart'
  <2>1. In(head)' = In(head) /\ In(curr)' = In(curr) /\ In(prev)' = In(prev)
    BY <1>1, <1>6 DEF In
  <2>2. ASSUME NEW q \in Producers  PROVE Held(q)' = Held(q)
    BY <1>1, <1>8 DEF Held, Pushing
  <2> QED BY <1>1, <2>1, <2>2 DEF FrontInv, Apart
<1> QED BY <1>1, <1>5, <1>6, <1>7, <1>9, <1>10 DEF FrontInv

\* A compare-and-exchange that fails loads the head anew (PrivPushRange()).
LEMMA ExchangeFailsKeeps ==
  ASSUME FrontInv, NEW p \in Producers, ExchangeFails(p)
  PROVE  FrontInv'
<1>1. /\ head' = head /\ curr' = curr /\ prev' = prev /\ kpc' = kpc /\ wasEmpty' = wasEmpty
      /\ free' = free /\ ppc[p] = "exchange" /\ ppc' = [ppc EXCEPT ![p] = "link"]
      /\ list' = list /\ first' = first /\ last' = last
      /\ oldHead' = [oldHead EXCEPT ![p] = head] /\ next' = next
  BY DEF ExchangeFails, Set, consumerVars
<1>2. TypeOK'
  BY <1>1 DEF FrontInv, TypeOK
<1>3. Chains'
  BY <1>1 DEF FrontInv, Chains, Chained
<1>4. ppc'[p] = "link" /\ \A q \in Producers \ {p} : ppc'[q] = ppc[q] /\ oldHead'[q] = oldHead[q]
  BY <1>1 DEF FrontInv, TypeOK
<1>5. \A q \in Producers : ProducerFits(q)'
  BY <1>1, <1>4 DEF FrontInv, ProducerFits, Pushing
<1>6. Apart'
  <2>1. In(head)' = In(head) /\ In(curr)' = In(curr) /\ In(prev)' = In(prev)
    BY <1>1 DEF In
  <2>2. ASSUME NEW q \in Producers  PROVE Held(q)' = Held(q)
    BY <1>1, <1>4 DEF Held, Pushing
  <2> QED BY <1>1, <2>1, <2>2 DEF FrontInv, Apart
<1> QED BY <1>2, <1>3, <1>5, <1>6 DEF FrontInv

\* A push returns.
LEMMA ReturnKeeps ==
  ASSUME FrontInv, NEW p \in Producers, Return(p)
  PROVE  FrontInv'
<1>1. /\ head' = head /\ curr' = curr /\ prev' = prev /\ kpc' = kpc /\ next' = next
      /\ free' = free /\ ppc[p] = "pushed" /\ ppc' = [ppc EXCEPT ![p] = "outside"]
      /\ list' = [list EXCEPT ![p] = <<>>]
      /\ first' = [first EXCEPT ![p] = Null] /\ last' = [last EXCEPT ![p] = Null]
      /\ oldHead' = [oldHead EXCEPT ![p] = Null] /\ wasEmpty' = [wasEmpty EXCEPT ![p] = FALSE]
  BY DEF Return, Set, consumerVars
<1>2. TypeOK'
  BY <1>1, EmptySeq DEF FrontInv, TypeOK, Links
<1>3. Chains'
  BY <1>1 DEF FrontInv, Chains, Chained
<1>4. /\ ppc'[p] = "outside" /\ list'[p] = <<>>
      /\ \A q \in Producers \ {p} : ppc'[q] = ppc[q] /\ oldHead'[q] = oldHead[q]
                         /\ list'[q] = list[q] /\ first'[q] = first[q] /\ last'[q] = last[q]
  BY <1>1 DEF FrontInv, TypeOK
<1>5. \A q \in Producers : ProducerFits(q)'
  BY <1>1, <1>4 DEF FrontInv, ProducerFits, Pushing
<1>6. Apart'
  <2>1. In(head)' = In(head) /\ In(curr)' = In(curr) /\ In(prev)' = In(prev)
    BY <1>1 DEF In
  <2>2. ASSUME NEW q \in Producers  PROVE Held(q)' = Held(q)
    BY <1>1, <1>4 DEF Held, Pushing
  <2> QED BY <1>1, <2>1, <2>2 DEF FrontInv, Apart
<1> QED BY <1>2, <1>3, <1>5, <1>6 DEF FrontInv

\* The exchange finds the head that the last item of the list links to, whatever
\* happened to the queue in between.
LEMMA ExchangeKeeps ==
  ASSUME FrontInv, NEW p \in Producers, Exchange(p)
  PROVE  /\ FrontInv'
         /\ list[p] \in Seq(Items) /\ list[p] # <<>>
         /\ Walk(next, head) \in Seq(Items)
         /\ Walk(next, head)' = Reverse(list[p]) \o Walk(next, head)
         /\ Walk(next, curr)' = Walk(next, curr) /\ Walk(next, prev)' = Walk(next, prev)
         /\ Walk(next, head) = <<>> <=> oldHead[p] = Null
<1>1. /\ head = oldHead[p] /\ head' = first[p] /\ curr' = curr /\ prev' = prev /\ kpc' = kpc
      /\ next' = next /\ free' = free /\ ppc[p] = "exchange"
      /\ ppc' = [ppc EXCEPT ![p] = "pushed"]
      /\ list' = list /\ first' = first /\ last' = last /\ oldHead' = oldHead
      /\ wasEmpty' = [wasEmpty EXCEPT ![p] = Result(p)]
  BY DEF Exchange, Set, consumerVars
<1>2. /\ list[p] \in Lists /\ list[p] # <<>> /\ Held(p) = ToSet(list[p]) /\ last[p] = list[p][1]
      /\ first[p] = list[p][Len(list[p])] /\ next[last[p]] = oldHead[p]
      /\ \A k \in 2..Len(list[p]) : next[list[p][k]] = list[p][k - 1]
  BY <1>1 DEF FrontInv, ProducerFits, Held, Pushing
<1>3. list[p] \in Seq(Items) /\ IsInjective(list[p])
  BY <1>2, ListsAre
<1>4. Chained(head) /\ Walk(next, head) \in Lists /\ IsChain(next, Walk(next, head), head)
  BY DEF FrontInv, Chains, Chained
<1>5. ToSet(list[p]) \cap ToSet(Walk(next, head)) = {}
  BY <1>2 DEF FrontInv, Apart, In
<1> DEFINE l == list[p]
           h == Walk(next, head)
<1>6. /\ Reverse(l) \o h \in Lists /\ IsChain(next, Reverse(l) \o h, head')
      /\ ToSet(Reverse(l) \o h) = ToSet(l) \cup ToSet(h)
  <2>1. /\ l \in Seq(Items) /\ IsInjective(l) /\ l # <<>> /\ ToSet(l) \cap ToSet(h) = {}
        /\ h \in Lists /\ IsChain(next, h, head) /\ head' = l[Len(l)]
        /\ next[l[1]] = head /\ \A k \in 2..Len(l) : next[l[k]] = l[k - 1]
    BY <1>1, <1>2, <1>3, <1>4, <1>5
  <2> HIDE DEF l, h
  <2> QED BY <2>1, ChainPushed
<1>7. Walk(next, head') = Reverse(list[p]) \o Walk(next, head)
  BY <1>6, WalkIs
<1>8. Walk(next, head) \in Seq(Items) /\ (Walk(next, head) = <<>> <=> oldHead[p] = Null)
  BY <1>1, <1>4, ListsAre, ChainIsEmpty
<1>9. TypeOK'
  <2>1. Result(p) \in BOOLEAN
    BY DEF Result
  <2>2. wasEmpty' \in [Producers -> BOOLEAN]
    BY <1>1, <2>1 DEF FrontInv, TypeOK
  <2>3. ppc' \in [Producers -> {"outside", "link", "exchange", "pushed"}]
    BY <1>1 DEF FrontInv, TypeOK
  <2>4. head' \in Links
    BY <1>1 DEF FrontInv, TypeOK
  <2> QED BY <1>1, <2>2, <2>3, <2>4 DEF FrontInv, TypeOK
<1>10. Chains'
  BY <1>1, <1>6, <1>7 DEF FrontInv, Chains, Chained
<1>11. ppc'[p] = "pushed" /\ \A q \in Producers \ {p} : ppc'[q] = ppc[q]
  BY <1>1 DEF FrontInv, TypeOK
<1>12. \A q \in Producers : ProducerFits(q)'
  BY <1>1, <1>2, <1>11 DEF FrontInv, ProducerFits, Pushing
<1>13. Apart'
  <2>1. In(head)' = In(head) \cup Held(p) /\ In(curr)' = In(curr) /\ In(prev)' = In(prev)
    BY <1>1, <1>2, <1>6, <1>7 DEF In
  <2>2. Held(p)' = {}
    BY <1>11 DEF Held, Pushing
  <2>3. ASSUME NEW q \in Producers \ {p}  PROVE Held(q)' = Held(q)
    BY <1>1, <1>11 DEF Held, Pushing
  <2> QED BY <1>1, <2>1, <2>2, <2>3 DEF FrontInv, Apart
<1> QED BY <1>1, <1>2, <1>3, <1>7, <1>8, <1>9, <1>10, <1>12, <1>13 DEF FrontInv

\* PopAllFastReversed() takes the whole chain.
LEMMA ExchangeAllKeeps ==
  ASSUME FrontInv, ExchangeAll
  PROVE  /\ FrontInv'
         /\ Walk(next, curr) = <<>> /\ Walk(next, prev) = <<>> /\ Walk(next, prev)' = <<>>
         /\ Walk(next, curr)' = Walk(next, head) /\ Walk(next, head)' = <<>>
         /\ Walk(next, head) \in Seq(Items)
<1>1. /\ kpc = "outside" /\ curr' = head /\ prev' = Null /\ head' = Null /\ kpc' = "reverse"
      /\ next' = next /\ free' = free /\ ppc' = ppc /\ list' = list /\ first' = first
      /\ last' = last /\ oldHead' = oldHead /\ wasEmpty' = wasEmpty /\ curr = Null /\ prev = Null
  BY DEF ExchangeAll, producerVars, FrontInv, Chains
<1>2. /\ Walk(next, Null) = <<>> /\ IsChain(next, <<>>, Null) /\ <<>> \in Lists
      /\ ToSet(<<>>) = {}
  BY ChainOfNothing, EmptyIsList, SetOfEmpty
<1>3. Walk(next, head) \in Seq(Items)
  BY ListsAre DEF FrontInv, Chains, Chained
<1>4. TypeOK'
  BY <1>1 DEF FrontInv, TypeOK, Links
<1>5. Chains'
  BY <1>1, <1>2 DEF FrontInv, Chains, Chained
<1>6. \A q \in Producers : ProducerFits(q)'
  BY <1>1 DEF FrontInv, ProducerFits, Pushing
<1>7. Apart'
  <2>1. In(head)' = {} /\ In(curr)' = In(head) /\ In(prev)' = {} /\ In(curr) = {} /\ In(prev) = {}
    BY <1>1, <1>2 DEF In
  <2>2. ASSUME NEW q \in Producers  PROVE Held(q)' = Held(q)
    BY <1>1 DEF Held, Pushing
  <2> QED BY <1>1, <2>1, <2>2 DEF FrontInv, Apart
<1> QED BY <1>1, <1>2, <1>3, <1>4, <1>5, <1>6, <1>7 DEF FrontInv

\* A list of one item is its own reverse.
LEMMA ReverseOfOne ==
  ASSUME NEW S, NEW e \in S  PROVE Reverse(<<e>>) = <<e>> /\ <<e>> \in Seq(S)
<1>1. <<e>> \in Seq(S) /\ Len(<<e>>) = 1 /\ <<e>>[1] = e
  OBVIOUS
<1> DEFINE r == Reverse(<<e>>)
<1>2. /\ r \in Seq(S) /\ Len(r) = Len(<<e>>)
      /\ \A i \in 1..Len(<<e>>) : r[i] = <<e>>[Len(<<e>>) - i + 1]
  BY <1>1, ReverseIs
<1> HIDE DEF r
<1>3. Len(r) = 1 /\ r[1] = <<e>>[1 - 1 + 1]
  BY <1>1, <1>2
<1>4. \A i \in 1..Len(r) : r[i] = <<e>>[i]
  BY <1>3
<1>5. r = <<e>>
  BY <1>1, <1>2, <1>4, SameSequence
<1> QED BY <1>1, <1>5 DEF r

\* PopAll() moves one item from the chain of the pushes to that in their order.
LEMMA ReverseOneKeeps ==
  ASSUME FrontInv, ReverseOne
  PROVE  /\ FrontInv'
         /\ Walk(next, head)' = Walk(next, head)
         /\ curr \in Items /\ Walk(next, prev) \in Seq(Items)
         /\ Walk(next, curr)' \in Seq(Items)
         /\ Walk(next, curr) = <<curr>> \o Walk(next, curr)'
         /\ Walk(next, prev)' = <<curr>> \o Walk(next, prev)
<1> DEFINE C == Walk(next, curr)
           P == Walk(next, prev)
<1>1. /\ kpc = "reverse" /\ curr # Null /\ next' = [next EXCEPT ![curr] = prev] /\ prev' = curr
      /\ curr' = next[curr] /\ head' = head /\ free' = free /\ kpc' = kpc /\ ppc' = ppc
      /\ list' = list /\ first' = first /\ last' = last /\ oldHead' = oldHead
      /\ wasEmpty' = wasEmpty
  BY DEF ReverseOne, producerVars, Set
<1>2. /\ C \in Lists /\ IsChain(next, C, curr) /\ P \in Lists /\ IsChain(next, P, prev)
      /\ Walk(next, head) \in Lists /\ IsChain(next, Walk(next, head), head)
      /\ In(curr) = ToSet(C) /\ In(prev) = ToSet(P) /\ In(head) = ToSet(Walk(next, head))
  BY DEF FrontInv, Chains, Chained, In
<1> HIDE DEF C, P
<1>3. C # <<>>
  BY <1>1, <1>2, ChainIsEmpty
<1>4. /\ curr \in Items /\ Tail(C) \in Lists /\ IsChain(next, Tail(C), next[curr])
      /\ ToSet(Tail(C)) = In(curr) \ {curr} /\ curr \in In(curr) /\ C = <<curr>> \o Tail(C)
  BY <1>2, <1>3, ChainTail
<1>5. /\ \A i \in Items \ {curr} : next'[i] = next[i]
      /\ next'[curr] = prev /\ next' \in [Items -> Links]
  BY <1>1, <1>4 DEF FrontInv, TypeOK
<1>6. In(head) \subseteq Items /\ In(curr) \subseteq Items /\ In(prev) \subseteq Items
  BY <1>2, ListsAre
<1>7. curr \notin In(head) /\ curr \notin In(prev)
  BY <1>4 DEF FrontInv, Apart
<1>8. Walk(next', head) = Walk(next, head) /\ IsChain(next', Walk(next, head), head)
  BY <1>2, <1>5, <1>6, <1>7, WalkKept
<1>9. IsChain(next', Tail(C), curr') /\ Walk(next', curr') = Tail(C)
  <2>1. \A i \in ToSet(Tail(C)) : next'[i] = next[i]
    BY <1>4, <1>5, <1>6
  <2>2. IsChain(next', Tail(C), curr')
    BY <1>1, <1>4, <2>1, ChainKept
  <2> QED BY <1>4, <2>2, WalkIs
<1>10. IsChain(next', P, prev)
  BY <1>2, <1>5, <1>6, <1>7, ChainKept
<1>11. /\ <<curr>> \o P \in Lists /\ IsChain(next', <<curr>> \o P, prev')
       /\ ToSet(<<curr>> \o P) = {curr} \cup In(prev)
  <2> DEFINE l == <<curr>>
  <2>1. l \in Seq(Items) /\ Reverse(l) = l /\ l # <<>> /\ Len(l) = 1 /\ l[1] = curr
    BY <1>4, ReverseOfOne
  <2>2. DOMAIN l = {1}
    BY <2>1, LenProperties
  <2> HIDE DEF l
  <2>3. IsInjective(l) /\ ToSet(l) = {curr}
    BY <2>1, <2>2 DEF IsInjective, ToSet
  <2>4. ToSet(l) \cap ToSet(P) = {}
    BY <1>2, <1>7, <2>3
  <2>5. next'[l[1]] = prev /\ \A k \in 2..Len(l) : next'[l[k]] = l[k - 1]
    BY <1>5, <2>1
  <2>6. /\ Reverse(l) \o P \in Lists /\ IsChain(next', Reverse(l) \o P, l[Len(l)])
        /\ ToSet(Reverse(l) \o P) = ToSet(l) \cup ToSet(P)
    BY <1>2, <1>10, <2>1, <2>3, <2>4, <2>5, ChainPushed
  <2> QED BY <1>1, <1>2, <2>1, <2>3, <2>6 DEF l
<1>12. Walk(next', prev') = <<curr>> \o P
  BY <1>11, WalkIs
<1>13. TypeOK'
  <2>1. curr' \in Links /\ prev' \in Links
    BY <1>1, <1>4 DEF FrontInv, TypeOK
  <2> QED BY <1>1, <1>5, <2>1 DEF FrontInv, TypeOK
<1>14. Chains'
  BY <1>1, <1>2, <1>4, <1>8, <1>9, <1>11, <1>12 DEF FrontInv, Chains, Chained
<1>15. ASSUME NEW q \in Producers  PROVE ProducerFits(q)'
  <2>1. curr \notin Held(q)
    BY <1>4 DEF FrontInv, Apart
  <2>2. Held(q) \subseteq Items
    BY ListsAre DEF FrontInv, ProducerFits, Held
  <2> QED BY <1>1, <1>5, <2>1, <2>2, OtherFits DEF FrontInv
<1>16. Apart'
  <2>1. /\ In(head)' = In(head) /\ In(curr)' = In(curr) \ {curr} /\ In(prev)' = In(prev) \cup {curr}
    BY <1>1, <1>2, <1>4, <1>8, <1>9, <1>11, <1>12 DEF In
  <2>2. ASSUME NEW q \in Producers  PROVE Held(q)' = Held(q)
    BY <1>1 DEF Held, Pushing
  <2> QED BY <1>1, <1>4, <2>1, <2>2 DEF FrontInv, Apart
<1>17. P \in Seq(Items) /\ Tail(C) \in Seq(Items)
  BY <1>2, <1>4, ListsAre
<1> QED BY <1>1, <1>4, <1>8, <1>9, <1>12, <1>13, <1>14, <1>15, <1>16, <1>17 DEF FrontInv, C, P

\* The consumer is done with the items: they are free again.
LEMMA UseItemsKeeps ==
  ASSUME FrontInv, UseItems
  PROVE  /\ FrontInv'
         /\ Walk(next, head)' = Walk(next, head)
         /\ Walk(next, curr)' = <<>> /\ Walk(next, prev)' = <<>>
<1>1. /\ kpc = "reverse" /\ curr = Null /\ free' = free \cup ToSet(Walk(next, prev))
      /\ prev' = Null /\ kpc' = "outside" /\ head' = head /\ next' = next /\ curr' = curr
      /\ ppc' = ppc /\ list' = list /\ first' = first
      /\ last' = last /\ oldHead' = oldHead /\ wasEmpty' = wasEmpty
  BY DEF UseItems, producerVars
<1>2. /\ Walk(next, Null) = <<>> /\ IsChain(next, <<>>, Null) /\ <<>> \in Lists
      /\ ToSet(<<>>) = {}
  BY ChainOfNothing, EmptyIsList, SetOfEmpty
<1>3. In(prev) \subseteq Items /\ free' = free \cup In(prev)
  BY <1>1, ListsAre DEF FrontInv, Chains, Chained, In
<1>4. TypeOK'
  BY <1>1, <1>3 DEF FrontInv, TypeOK, Links
<1>5. Chains'
  BY <1>1, <1>2 DEF FrontInv, Chains, Chained
<1>6. \A q \in Producers : ProducerFits(q)'
  BY <1>1 DEF FrontInv, ProducerFits, Pushing
<1>7. Apart'
  <2>1. In(head)' = In(head) /\ In(curr)' = {} /\ In(prev)' = {} /\ In(curr) = {}
    BY <1>1, <1>2 DEF In
  <2>2. ASSUME NEW q \in Producers  PROVE Held(q)' = Held(q)
    BY <1>1 DEF Held, Pushing
  <2> QED BY <1>3, <2>1, <2>2 DEF FrontInv, Apart
<1> QED BY <1>1, <1>2, <1>4, <1>5, <1>6, <1>7 DEF FrontInv

\* The invariant of the front queue is inductive.
LEMMA FrontStep == FrontInv /\ [Next]_vars => FrontInv'
<1> SUFFICES ASSUME FrontInv, [Next]_vars  PROVE FrontInv'
  OBVIOUS
<1>1. ASSUME NEW p \in Producers, NEW l \in FreeLists, PushMany(p, l)  PROVE FrontInv'
  BY <1>1, PushManyKeeps
<1>2. ASSUME NEW p \in Producers, Link(p)  PROVE FrontInv'
  BY <1>2, LinkKeeps
<1>3. ASSUME NEW p \in Producers, Exchange(p)  PROVE FrontInv'
  BY <1>3, ExchangeKeeps
<1>4. ASSUME NEW p \in Producers, ExchangeFails(p)  PROVE FrontInv'
  BY <1>4, ExchangeFailsKeeps
<1>5. ASSUME NEW p \in Producers, Return(p)  PROVE FrontInv'
  BY <1>5, ReturnKeeps
<1>6. CASE ExchangeAll
  BY <1>6, ExchangeAllKeeps
<1>7. CASE ReverseOne
  BY <1>7, ReverseOneKeeps
<1>8. CASE UseItems
  BY <1>8, UseItemsKeeps
<1>9. CASE UNCHANGED vars
  <2>1. /\ head' = head /\ next' = next /\ free' = free /\ ppc' = ppc /\ list' = list
        /\ first' = first /\ last' = last /\ oldHead' = oldHead /\ wasEmpty' = wasEmpty
        /\ kpc' = kpc /\ curr' = curr /\ prev' = prev
    BY <1>9 DEF vars, producerVars, consumerVars
  <2> QED BY <2>1 DEF FrontInv, TypeOK, Chains, Chained, ProducerFits, Apart, In, Held, Pushing
<1> QED BY <1>1, <1>2, <1>3, <1>4, <1>5, <1>6, <1>7, <1>8, <1>9
         DEF Next, ProducerStep, ConsumerStep

\* The invariant of the front queue always holds.
LEMMA FrontAlways == Spec => []FrontInv
BY FrontInit, FrontStep, PTL DEF Spec

\* The invariant tells that no item is lost or in two places.
LEMMA FrontKeepsItems == FrontInv => TypeOK /\ NothingLostOrDoubled
<1> SUFFICES ASSUME FrontInv  PROVE NothingLostOrDoubled
  BY DEF FrontInv
<1> DEFINE H == Walk(next, head)
           C == Walk(next, curr)
           P == Walk(next, prev)
<1>1. /\ H \in Seq(Items) /\ IsInjective(H) /\ ToSet(H) = In(head) /\ In(head) \subseteq Items
      /\ C \in Seq(Items) /\ IsInjective(C) /\ ToSet(C) = In(curr) /\ In(curr) \subseteq Items
      /\ P \in Seq(Items) /\ IsInjective(P) /\ ToSet(P) = In(prev) /\ In(prev) \subseteq Items
  BY ListsAre DEF FrontInv, Chains, Chained, In
<1> HIDE DEF H, C, P
<1>2. /\ H \o C \in Seq(Items) /\ IsInjective(H \o C)
      /\ ToSet(H \o C) = In(head) \cup In(curr)
  BY <1>1, SetOfConcat DEF FrontInv, Apart
<1>3. /\ IsInjective((H \o C) \o P)
      /\ ToSet((H \o C) \o P) = In(head) \cup In(curr) \cup In(prev)
  <2> DEFINE d == H \o C
  <2>1. d \in Seq(Items) /\ IsInjective(d) /\ ToSet(d) = In(head) \cup In(curr)
    BY <1>2
  <2> HIDE DEF d
  <2>2. IsInjective(d \o P) /\ ToSet(d \o P) = In(head) \cup In(curr) \cup In(prev)
    BY <1>1, <2>1, SetOfConcat DEF FrontInv, Apart
  <2> QED BY <2>2 DEF d
<1>4. Listed = (H \o C) \o P
  BY DEF Listed, H, C, P
<1>5. IsInjective(Listed) /\ ToSet(Listed) = In(head) \cup In(curr) \cup In(prev)
  BY <1>3, <1>4
<1>6. ASSUME NEW p \in Producers
      PROVE  /\ ToSet(Holding(p)) = Held(p) /\ IsInjective(Holding(p)) /\ Held(p) \subseteq Items
  <2>1. CASE Pushing(p)
    <3>1. list[p] \in Lists /\ Holding(p) = list[p] /\ Held(p) = ToSet(list[p])
      BY <2>1 DEF FrontInv, ProducerFits, Holding, Held, Pushing
    <3> QED BY <3>1, ListsAre
  <2>2. CASE ~Pushing(p)
    BY <2>2, SetOfEmpty DEF Holding, Held, Pushing
  <2> QED BY <2>1, <2>2
<1>7. free \subseteq Items
  BY DEF FrontInv, TypeOK
<1>8. free \cup ToSet(Listed) \cup UNION {ToSet(Holding(p)) : p \in Producers} = Items
  BY <1>1, <1>5, <1>6, <1>7 DEF FrontInv, Apart
<1>9. free \cap ToSet(Listed) = {}
  BY <1>5 DEF FrontInv, Apart
<1>10. ASSUME NEW p \in Producers
       PROVE  /\ IsInjective(Holding(p)) /\ ToSet(Holding(p)) \cap (free \cup ToSet(Listed)) = {}
              /\ \A q \in Producers \ {p} : ToSet(Holding(p)) \cap ToSet(Holding(q)) = {}
  BY <1>5, <1>6 DEF FrontInv, Apart
<1> QED BY <1>5, <1>8, <1>9, <1>10 DEF NothingLostOrDoubled

\* The intrusive front queue never loses an item and never holds one twice: each is free, in
\* the hands of one producer, queued, or popped (MultiProducerQueueIntrusive.h:66-139).
THEOREM FrontQueueKeepsItems == Spec => [](TypeOK /\ NothingLostOrDoubled)
BY FrontAlways, FrontKeepsItems, PTL

-----------------------------------------------------------------------------
(* The front queue is a queue.                                              *)

\* The empty front queue is the empty queue.
LEMMA FrontInitIs == Init => Abstract!Init
<1> SUFFICES ASSUME Init  PROVE Abstract!Init
  OBVIOUS
<1>1. Walk(next, Null) = <<>>
  BY ChainOfNothing
<1>2. <<>> \in Seq(Items) /\ Len(<<>>) = 0 /\ <<>> \o <<>> = <<>>
  BY EmptySeq, ConcatEmptySeq
<1>3. Reverse(<<>>) = <<>>
  BY <1>2, ReverseIs, EmptySeq
<1>4. \A p \in Producers : Reported(p) = "none"
  BY DEF Init, Reported
<1>5. [p \in Producers |-> Reported(p)] = [p \in Producers |-> "none"]
  BY <1>4
<1> QED BY <1>1, <1>2, <1>3, <1>5 DEF Init, Abstract!Init

\* Every step of the front queue is one of the queue, or none: the push happens in the
\* exchange that succeeds, the pop in the exchange that takes everything.
LEMMA FrontStepIs == FrontInv /\ [Next]_vars => [Abstract!Next]_(Abstract!vars)
<1> SUFFICES ASSUME FrontInv, [Next]_vars  PROVE [Abstract!Next]_(Abstract!vars)
  OBVIOUS
<1> DEFINE A == [p \in Producers |-> Reported(p)]
           Q == Reverse(Walk(next, head))
           R == Reverse(Walk(next, curr)) \o Walk(next, prev)
<1>0. <<>> \in Seq(Items) /\ Reverse(<<>>) = <<>> /\ <<>> \o <<>> = <<>>
  BY EmptySeq, ConcatEmptySeq, ReverseIs
<1>1. ASSUME NEW p \in Producers, NEW l \in FreeLists, PushMany(p, l)
      PROVE  Abstract!Next
  <2>1. Q' = Q /\ R' = R
    BY <1>1, PushManyKeeps
  <2>2. A' = A
    <3>1. \A q \in Producers : Reported(q)' = Reported(q)
      BY <1>1 DEF PushMany, Set, Reported, FrontInv, TypeOK
    <3> QED BY <3>1
  <2>3. l \in Abstract!Lists
    <3>1. PICK n \in 0..Cardinality(Items) : l \in [1..n -> Items]
      BY DEF FreeLists, Lists
    <3>2. Cardinality(Items) \in Nat
      BY NullAssumption, FS_CardinalityType
    <3>3. Len(l) = n /\ Len(l) > 0
      BY <3>1, <3>2, ListsAre, LenProperties DEF FreeLists
    <3>4. n \in 1..Cardinality(Items)
      BY <3>1, <3>2, <3>3
    <3>5. Abstract!Cardinality(Items) = Cardinality(Items)
      BY DEF Cardinality, Abstract!Cardinality
    <3> QED BY <3>1, <3>4, <3>5 DEF Abstract!Lists
  <2>4. list[p] = <<>> /\ list' = [list EXCEPT ![p] = l]
    BY <1>1 DEF PushMany, Set, FrontInv, ProducerFits
  <2>5. Abstract!Call(p, l)
    BY <2>1, <2>2, <2>4 DEF Abstract!Call
  <2> QED BY <2>3, <2>5 DEF Abstract!Next
<1>2. ASSUME NEW p \in Producers, Link(p)  PROVE UNCHANGED Abstract!vars
  <2>1. Q' = Q /\ R' = R
    BY <1>2, LinkKeeps
  <2>2. \A q \in Producers : Reported(q)' = Reported(q)
    BY <1>2 DEF Link, Set, Reported, FrontInv, TypeOK
  <2> QED BY <1>2, <2>1, <2>2 DEF Link, Abstract!vars
<1>3. ASSUME NEW p \in Producers, Exchange(p)  PROVE Abstract!Next
  <2> DEFINE h == Walk(next, head)
             l == list[p]
  <2>1. /\ l \in Seq(Items) /\ l # <<>> /\ h \in Seq(Items)
        /\ Walk(next, head)' = Reverse(l) \o h
        /\ Walk(next, curr)' = Walk(next, curr) /\ Walk(next, prev)' = Walk(next, prev)
        /\ h = <<>> <=> oldHead[p] = Null
    BY <1>3, ExchangeKeeps
  <2>2. R' = R
    BY <2>1
  <2>3. Q' = Q \o l
    BY <2>1, ReversePushed
  <2>4. Q = <<>> <=> oldHead[p] = Null
    BY <2>1, <1>0, ReverseIs, EmptySeq
  <2>5. /\ ppc[p] = "exchange" /\ list' = list
        /\ ppc' = [ppc EXCEPT ![p] = "pushed"]
        /\ wasEmpty' = [wasEmpty EXCEPT ![p] = (oldHead[p] = Null)]
    BY <1>3 DEF Exchange, Set, Result
  <2>6. Reported(p) = "none"
    BY <2>5 DEF Reported
  <2>7. Reported(p)' = IF Q = <<>> THEN "first" ELSE "not first"
    <3>1. ppc'[p] = "pushed" /\ wasEmpty'[p] = (oldHead[p] = Null)
      BY <2>5 DEF FrontInv, TypeOK
    <3> QED BY <2>4, <3>1, Zenon DEF Reported
  <2>8. \A q \in Producers \ {p} : Reported(q)' = Reported(q)
    BY <2>5 DEF FrontInv, TypeOK, Reported
  <2>9. A[p] = "none" /\ A' = [A EXCEPT ![p] = IF Q = <<>> THEN "first" ELSE "not first"]
    BY <2>6, <2>7, <2>8
  <2> HIDE DEF A, Q, R
  <2>10. Abstract!Push(p)
    BY <2>1, <2>2, <2>3, <2>5, <2>9 DEF Abstract!Push, A, Q, R
  <2> QED BY <2>10 DEF Abstract!Next
<1>4. ASSUME NEW p \in Producers, ExchangeFails(p)  PROVE UNCHANGED Abstract!vars
  <2>1. \A q \in Producers : Reported(q)' = Reported(q)
    BY <1>4 DEF ExchangeFails, Set, Reported, FrontInv, TypeOK
  <2> QED BY <1>4, <2>1 DEF ExchangeFails, consumerVars, Abstract!vars
<1>5. ASSUME NEW p \in Producers, Return(p)  PROVE Abstract!Next
  <2>1. Reported(p)' = "none"
    BY <1>5 DEF Return, Set, Reported, FrontInv, TypeOK
  <2>2. \A q \in Producers \ {p} : Reported(q)' = Reported(q)
    BY <1>5 DEF Return, Set, Reported, FrontInv, TypeOK
  <2>3. A' = [A EXCEPT ![p] = "none"]
    BY <2>1, <2>2
  <2>4. Abstract!Return(p)
    BY <1>5, <2>3 DEF Return, Set, consumerVars, Abstract!Return
  <2> QED BY <2>4 DEF Abstract!Next
<1>6. CASE ExchangeAll
  <2>1. /\ Walk(next, curr) = <<>> /\ Walk(next, prev) = <<>> /\ Walk(next, prev)' = <<>>
        /\ Walk(next, curr)' = Walk(next, head) /\ Walk(next, head)' = <<>>
        /\ Walk(next, head) \in Seq(Items)
    BY <1>6, ExchangeAllKeeps
  <2>2. R = <<>> /\ Q' = <<>>
    BY <1>0, <2>1
  <2>3. R' = Q
    <3>1. Q \in Seq(Items)
      BY <2>1, ReverseIs
    <3>2. Q \o <<>> = Q
      BY <3>1, ConcatEmptySeq
    <3> QED BY <2>1, <3>2
  <2>4. ppc' = ppc /\ wasEmpty' = wasEmpty /\ list' = list
    BY <1>6 DEF ExchangeAll, producerVars
  <2>5. A' = A
    BY <2>4 DEF Reported
  <2>6. Abstract!PopAll
    BY <2>2, <2>3, <2>4, <2>5 DEF Abstract!PopAll
  <2> QED BY <2>6 DEF Abstract!Next
<1>7. CASE ReverseOne
  <2> DEFINE c == <<curr>>
             t == Walk(next, curr)'
             b == Walk(next, prev)
  <2>1. /\ Walk(next, head)' = Walk(next, head)
        /\ curr \in Items /\ b \in Seq(Items) /\ t \in Seq(Items)
        /\ Walk(next, curr) = c \o t /\ Walk(next, prev)' = c \o b
    BY <1>7, ReverseOneKeeps
  <2>2. Reverse(c) = c /\ c \in Seq(Items)
    BY <2>1, ReverseOfOne
  <2>3. Reverse(c \o t) = Reverse(t) \o c
    <3> HIDE DEF c, t
    <3>1. Reverse(Reverse(c) \o t) = Reverse(t) \o c
      BY <2>1, <2>2, ReversePushed
    <3> QED BY <2>2, <3>1
  <2>4. R' = R
    <3>1. Reverse(t) \in Seq(Items)
      BY <2>1, ReverseIs
    <3>2. (Reverse(t) \o c) \o b = Reverse(t) \o (c \o b)
      <4> HIDE DEF c, t, b
      <4> QED BY <2>1, <2>2, <3>1, ConcatAssociative
    <3> QED BY <2>1, <2>3, <3>2
  <2>5. ppc' = ppc /\ wasEmpty' = wasEmpty /\ list' = list
    BY <1>7 DEF ReverseOne, producerVars
  <2> QED BY <2>1, <2>4, <2>5 DEF Reported, Abstract!vars
<1>8. CASE UseItems
  <2>1. Q' = Q /\ R' = <<>>
    BY <1>0, <1>8, UseItemsKeeps
  <2>2. ppc' = ppc /\ wasEmpty' = wasEmpty /\ list' = list
    BY <1>8 DEF UseItems, producerVars
  <2>3. Abstract!Use
    BY <2>1, <2>2 DEF Abstract!Use, Reported
  <2> QED BY <2>3 DEF Abstract!Next
<1>9. CASE UNCHANGED vars
  BY <1>9 DEF vars, producerVars, consumerVars, Reported, Abstract!vars
<1> QED BY <1>1, <1>2, <1>3, <1>4, <1>5, <1>6, <1>7, <1>8, <1>9
         DEF Next, ProducerStep, ConsumerStep

\* The front queue of the scheduler is a queue: whatever the compare-and-exchange of the
\* producers meets, a push appends the whole list and tells truly whether the queue was empty,
\* a pop takes everything in order (MultiProducerQueueIntrusive.h:66-139).
THEOREM FrontQueueIsQueue == Spec => ImplementsPushQueue
<1>1. Spec => []FrontInv
  BY FrontAlways
<1> QED BY <1>1, FrontInitIs, FrontStepIs, PTL DEF Spec, ImplementsPushQueue, Abstract!Spec

-----------------------------------------------------------------------------
(* Sockets: the invariant.                                                  *)

Stages == {"none", "delayed", "resolve", "start", "resolving", "resolved", "pending", "ended"}
CtlType == [is: BOOLEAN, connect: Stages, attach: BOOLEAN, given: BOOLEAN,
            handshake: BOOLEAN, shutdown: BOOLEAN]
IOEvents == {"off", "empty", "pending", "data", "eof", "error"}
InsideOnEvent == {"event", "ctl", "shutdown", "attach", "connect", "handshake", "take", "takerecv",
                  "recv", "startrecv", "received", "send", "startsend", "sent", "return",
                  "aborted"}

SockType ==
    sock \in [state: {"NEW", "EMPTY", "CONNECTING", "HANDSHAKE", "CONNECTED", "CLOSING", "CLOSED"},
              done: BOOLEAN, running: BOOLEAN, ready: BOOLEAN, owned: BOOLEAN,
              lives: Int, sent: Int, asked: Int]
FrontType == front \in [ctl: CtlType, send: Int, recv: Int]
InnerType == inner \in [ctl: CtlType, send: Int, recv: Int, encrypted: Int,
                        sendEvent: IOEvents, recvEvent: IOEvents]
TaskType == ioTask \in [phase: {"new", "posted", "called", "over"}, woken: BOOLEAN, again: BOOLEAN,
                        closing: BOOLEAN, socket: BOOLEAN]
WorkerType == worker \in InsideOnEvent \cup {"idle", "last", "clear", "onclose"}
SeenType == seen \in [connects: {0, 1}, errors: {0, 1}, closes: {0, 1}, early: {FALSE}]

SocketTypes == SockType /\ FrontType /\ InnerType /\ TaskType /\ WorkerType /\ SeenType

\* Where the worker is, what the task is about and what the state says of both.
PhaseFits ==
    /\ ioTask.phase = "new" => worker = "idle" /\ ~ioTask.closing
         /\ sock.state \in {"NEW", "CLOSED"}
    /\ ioTask.phase = "posted" => worker = "idle"
    /\ ioTask.phase = "called" <=> worker \in InsideOnEvent
    /\ worker \in {"last", "clear", "onclose"} => ioTask.phase = "over"
    /\ ioTask.phase \in {"posted", "called"} \/ worker = "last" =>
          /\ sock.state \notin {"NEW", "CLOSED"}
          /\ ioTask.closing <=> sock.state = "CLOSING"
    /\ worker = "last" => ioTask.closing
    /\ ioTask.phase = "over" /\ worker # "last" => sock.state = "CLOSED"
    /\ sock.state = "NEW" => ioTask.phase = "new"
    /\ sock.running <=> sock.state \notin {"NEW", "CLOSED"}
    /\ ~sock.owned => sock.state \in ClosingStates

\* What nobody uses is like new.
Fresh ==
    /\ ioTask.phase = "new" \/ (ioTask.phase = "over" /\ worker \in {"onclose", "idle"}) =>
          inner = NewInner
    /\ sock.done => sock.state \in {"CONNECTED", "CLOSING"}
    /\ sock.state \in {"NEW", "CLOSED", "EMPTY"} =>
          front.ctl.connect = "none" /\ ~front.ctl.attach
    /\ sock.state \in {"NEW", "CLOSED"} =>
          /\ ~front.ctl.shutdown
          /\ ~Secure => front.ctl = NoCtl

\* A life has one connect or attach, then a handshake, then the I/O, and each of
\* them is in one place.
StagesApart ==
    /\ front.ctl.connect # "none" =>
          ~front.ctl.attach /\ inner.ctl.connect = "none" /\ ~inner.ctl.attach
    /\ front.ctl.attach => inner.ctl.connect = "none" /\ ~inner.ctl.attach
    /\ inner.ctl.connect # "none" => ~inner.ctl.attach
    /\ front.ctl.connect # "none" \/ front.ctl.attach => sock.state \in {"CONNECTING", "CLOSING"}
    /\ front.ctl.connect # "none" \/ front.ctl.attach => ~inner.ctl.handshake /\ ~sock.done
    /\ inner.ctl.connect # "none" \/ inner.ctl.attach => ~inner.ctl.handshake /\ ~sock.done
    /\ inner.ctl.handshake => ~sock.done
    /\ inner.ctl.connect # "none" \/ inner.ctl.attach =>
          sock.state \in {"CONNECTING", "CLOSING"} \/ worker = "clear"
    /\ inner.ctl.handshake => sock.state \in {"HANDSHAKE", "CLOSING"} \/ worker = "clear"
    /\ inner.recvEvent # "off" \/ inner.sendEvent # "off" =>
          inner.ctl.handshake \/ sock.done \/ worker = "clear"

\* The control messages: SSL gives its handshake before the others, a plain socket has
\* none, and is in one as long as DoHandshake() is to come.
CtlFits ==
    /\ front.ctl.given => ~inner.ctl.is
    /\ ~inner.ctl.is => inner.ctl = NoCtl
    /\ worker \in {"shutdown", "attach", "connect", "handshake"} => inner.ctl.is
    /\ ~Secure => ~front.ctl.given /\ ~inner.ctl.given
    /\ ~Secure /\ inner.ctl.handshake => worker \in {"connect", "handshake"}

\* What the subscription has heard of.
SeenFits ==
    /\ sock.state # "CLOSED" => (seen.connects = 1 <=> sock.done)
    /\ seen.errors = 1 => sock.state \in ClosingStates
    /\ seen.closes = 1 => sock.state = "CLOSED" /\ worker # "clear"

SocketFits == PhaseFits /\ Fresh /\ StagesApart /\ CtlFits /\ SeenFits

SocketInv == SocketTypes /\ SocketFits

\* The invariant holds of a new socket.
LEMMA SocketInitially == SocketInit => SocketInv
BY DEF SocketInit, SocketInv, SocketFits, SocketTypes, SockType, FrontType, InnerType,
     TaskType, WorkerType, SeenType,
       PhaseFits, Fresh, StagesApart, CtlFits, SeenFits, NewInner, NoCtl, CtlType, IOEvents,
       InsideOnEvent, Stages, NothingSeen

\* The assertions of the sockets follow from the invariant.
LEMMA SocketIsRight == SocketInv => SocketAssertions
<1> SUFFICES ASSUME SocketInv PROVE SocketAssertions
  OBVIOUS
<1> USE DEF SocketInv, SocketFits, SocketTypes, SockType, FrontType, InnerType, TaskType,
     WorkerType, PhaseFits, Fresh, StagesApart, CtlFits, ClosingStates
<1> QED BY DEF SocketAssertions, MayOpen, CtlType, InsideOnEvent

\* The order of the calls of a subscription follows from the invariant.
LEMMA ToldIsRight == SocketInv => ToldInOrder
<1> SUFFICES ASSUME SocketInv PROVE ToldInOrder
  OBVIOUS
<1>1. /\ seen.connects \in {0, 1} /\ seen.errors \in {0, 1} /\ seen.closes \in {0, 1}
      /\ ~seen.early
  BY DEF SocketInv, SocketFits, SocketTypes, SeenType
<1>2. seen.connects <= 1 /\ seen.errors <= 1 /\ seen.closes <= 1
  BY <1>1
<1> QED BY <1>1, <1>2 DEF SocketInv, SocketFits, SeenFits, ToldInOrder

\* What does not change stays in its range.
LEMMA TypesStay ==
  ASSUME SocketTypes
  PROVE  /\ sock' = sock => SockType'
         /\ front' = front => FrontType'
         /\ inner' = inner => InnerType'
         /\ ioTask' = ioTask => TaskType'
         /\ seen' = seen => SeenType'
         /\ worker' = worker => WorkerType'
BY DEF SocketTypes, SockType, FrontType, InnerType, TaskType, WorkerType, SeenType, CtlType

\* The counters are integers.
LEMMA Sums == \A n \in Int : n + 1 \in Int /\ n - 1 \in Int /\ \A m \in Int : n + m \in Int
OBVIOUS

\* What a close from inside does: the subscription hears of one error only.
LEMMA ClosedFacts ==
  ASSUME SocketInv, NEW error \in BOOLEAN, Closed(error)
  PROVE  /\ sock' = [sock EXCEPT !.state = "CLOSING"]
         /\ ioTask' = [ioTask EXCEPT !.closing = TRUE]
         /\ seen' = seen \/ seen' = [seen EXCEPT !.errors = 1]
<1> USE DEF SocketInv, SocketTypes, SockType, FrontType, InnerType, TaskType, WorkerType,
     SeenType, CtlType, Stages,
          IOEvents, InsideOnEvent
<1>1. CASE sock.state \in ClosingStates \/ ~error
  BY <1>1 DEF Closed, Cancelled
<1>2. CASE sock.state \notin ClosingStates /\ error
  <2>1. seen.errors = 0
    BY <1>2 DEF SocketFits, SeenFits
  <2> QED BY <1>2, <2>1 DEF Closed, Cancelled
<1> QED BY <1>1, <1>2

\* A close under way to the task, whatever has caused it.
LEMMA ClosedKeeps ==
  ASSUME SocketInv, NEW error \in BOOLEAN, Closed(error), worker \in InsideOnEvent,
         worker' \in InsideOnEvent,
         UNCHANGED front, InnerType',
         inner'.ctl.handshake = inner.ctl.handshake,
         inner'.ctl.attach => inner.ctl.attach
  PROVE  SockType' /\ TaskType' /\ SeenType' /\ PhaseFits' /\ Fresh' /\ SeenFits'
<1>1. /\ sock' = [sock EXCEPT !.state = "CLOSING"]
      /\ ioTask' = [ioTask EXCEPT !.closing = TRUE]
      /\ seen' = seen \/ seen' = [seen EXCEPT !.errors = 1]
  BY ClosedFacts
<1> USE DEF SocketInv, SocketTypes, SockType, FrontType, InnerType, TaskType, WorkerType,
     SeenType, CtlType, Stages,
          IOEvents, InsideOnEvent
<1>2. SockType' /\ TaskType' /\ SeenType'
  BY <1>1
<1>3. PhaseFits'
  BY <1>1 DEF SocketFits, PhaseFits, Fresh, StagesApart, CtlFits, SeenFits, NoCtl, NewInner,
       ClosingStates, Secure
<1>4. Fresh'
  BY <1>1 DEF SocketFits, PhaseFits, Fresh, StagesApart, CtlFits, SeenFits, NoCtl, NewInner,
       ClosingStates, Secure
<1>5. SeenFits'
  BY <1>1 DEF SocketFits, PhaseFits, Fresh, StagesApart, CtlFits, SeenFits, NoCtl, NewInner,
       ClosingStates, Secure
<1> QED BY <1>2, <1>3, <1>4, <1>5

\* TCPSocket::Open(), SSLSocket::Open().
LEMMA OpenKeeps ==
  ASSUME SocketInv, Open  PROVE SocketInv'
<1> USE DEF SocketInv, SocketTypes, SockType, FrontType, InnerType, TaskType, WorkerType,
     SeenType, CtlType, Stages,
          IOEvents, InsideOnEvent
<1>1. SockType'
  BY DEF Open
<1>2. CASE front' = front
  <2>1. SocketTypes'
    BY <1>1, <1>2, TypesStay DEF Open
  <2>2. /\ UNCHANGED <<use, inner, ioTask, worker, seen>>
        /\ sock'.state = sock.state /\ sock'.done = sock.done /\ sock'.running = sock.running
        /\ sock'.owned = sock.owned
    BY DEF Open
  <2>3. SocketFits'
    BY <1>2, <2>1, <2>2 DEF SocketFits, PhaseFits, Fresh, StagesApart, CtlFits, SeenFits,
         NoCtl, NewInner, ClosingStates, Secure
  <2> QED BY <2>1, <2>3
<1>3. CASE Secure /\ front' = [front EXCEPT !.ctl = [NewCtl EXCEPT !.given = TRUE]]
  <2>1. FrontType'
    BY <1>3 DEF NewCtl, NoCtl
  <2>2. SocketTypes'
    BY <1>1, <2>1, TypesStay DEF Open
  <2>3. /\ UNCHANGED <<use, inner, ioTask, worker, seen>>
        /\ sock'.state = sock.state /\ sock'.done = sock.done /\ sock'.running = sock.running
        /\ sock'.owned = sock.owned
    BY DEF Open
  <2>4. front'.ctl.connect = "none" /\ ~front'.ctl.attach /\ ~front'.ctl.shutdown
    BY <1>3 DEF NewCtl, NoCtl
  <2>5. sock.state \in {"NEW", "CLOSED"} /\ ~inner.ctl.is
    BY DEF Open, MayOpen, SocketFits, PhaseFits, Fresh, StagesApart, CtlFits, SeenFits, NoCtl,
         NewInner, ClosingStates, Secure
  <2>6. SocketFits'
    BY <1>3, <2>2, <2>3, <2>4, <2>5 DEF SocketFits, PhaseFits, Fresh, StagesApart, CtlFits,
         SeenFits, NoCtl, NewInner, ClosingStates, Secure
  <2> QED BY <2>2, <2>6
<1> QED BY <1>2, <1>3 DEF Open, Secure

\* PostConnect().
LEMMA PostConnectKeeps ==
  ASSUME SocketInv, PostConnect  PROVE SocketInv'
<1> USE DEF SocketInv, SocketTypes, SockType, FrontType, InnerType, TaskType, WorkerType,
     SeenType, CtlType, Stages,
          IOEvents, InsideOnEvent
<1>1. front.ctl.connect = "none" /\ ~front.ctl.attach /\ ~front.ctl.shutdown
        /\ inner = NewInner /\ ~sock.done
      /\ (~Secure => front.ctl = NoCtl)
  BY DEF PostConnect, Posted, MayOpen, SocketFits, PhaseFits, Fresh, StagesApart, CtlFits,
       SeenFits, NoCtl, NewInner, ClosingStates, Secure
<1>2. PICK stage \in ConnectStages :
         front' = [front EXCEPT !.ctl = [[front.ctl EXCEPT !.is = TRUE] EXCEPT !.connect = stage]]
  BY DEF PostConnect, Added
<1>7. /\ front'.ctl \in CtlType /\ front'.ctl.connect = stage /\ ~front'.ctl.attach
      /\ front'.ctl.given = front.ctl.given
  BY <1>1, <1>2 DEF ConnectStages
<1>3. SockType' /\ TaskType' /\ SeenType'
  BY Sums DEF PostConnect, Posted, Woken, NothingSeen
<1>4. FrontType'
  BY <1>2, <1>7
<1>5. SocketTypes'
  BY <1>3, <1>4, TypesStay DEF PostConnect, Posted
<1>6. SocketFits'
  BY <1>1, <1>7, <1>5 DEF PostConnect, Posted, Woken, MayOpen, ConnectStages, NothingSeen,
       SocketFits, PhaseFits, Fresh, StagesApart, CtlFits, SeenFits, NoCtl, NewInner,
       ClosingStates, Secure
<1> QED BY <1>5, <1>6

\* PostWrap().
LEMMA PostWrapKeeps ==
  ASSUME SocketInv, PostWrap  PROVE SocketInv'
<1> USE DEF SocketInv, SocketTypes, SockType, FrontType, InnerType, TaskType, WorkerType,
     SeenType, CtlType, Stages,
          IOEvents, InsideOnEvent
<1>1. front.ctl.connect = "none" /\ ~front.ctl.attach /\ ~front.ctl.shutdown
        /\ inner = NewInner /\ ~sock.done
      /\ (~Secure => front.ctl = NoCtl)
  BY DEF PostWrap, Posted, MayOpen, SocketFits, PhaseFits, Fresh, StagesApart, CtlFits,
       SeenFits, NoCtl, NewInner, ClosingStates, Secure
<1>2. front' = [front EXCEPT !.ctl = [[front.ctl EXCEPT !.is = TRUE] EXCEPT !.attach = TRUE]]
  BY DEF PostWrap, Added
<1>7. /\ front'.ctl \in CtlType /\ front'.ctl.connect = "none" /\ front'.ctl.attach
      /\ front'.ctl.given = front.ctl.given
  BY <1>1, <1>2
<1>3. SockType' /\ TaskType' /\ SeenType'
  BY Sums DEF PostWrap, Posted, Woken, NothingSeen
<1>4. FrontType'
  BY <1>2, <1>7
<1>5. SocketTypes'
  BY <1>3, <1>4, TypesStay DEF PostWrap, Posted
<1>6. SocketFits'
  BY <1>1, <1>7, <1>5 DEF PostWrap, Posted, Woken, MayOpen, NothingSeen, SocketFits, PhaseFits,
       Fresh, StagesApart, CtlFits, SeenFits, NoCtl, NewInner, ClosingStates, Secure
<1> QED BY <1>5, <1>6

\* What PostClose() does to the state and the task.
LEMMA PostCloseFacts ==
  ASSUME SocketInv, NEW s, PostCloseOf(s, ioTask),
         s = sock \/ \E keep \in BOOLEAN : s = [sock EXCEPT !.owned = keep]
  PROVE  /\ SockType' /\ TaskType'
         /\ sock'.done = sock.done /\ sock'.running = sock.running
         /\ ioTask'.phase = ioTask.phase
         /\ sock'.state = IF sock.state \in ClosingStates THEN sock.state
                          ELSE IF sock.state = "NEW" THEN "CLOSED" ELSE "CLOSING"
         /\ ioTask'.closing = (ioTask.closing \/ sock.state \notin ClosingStates \cup {"NEW"})
<1> USE DEF SocketInv, SocketTypes, SockType, FrontType, InnerType, TaskType, WorkerType,
     SeenType, CtlType, Stages,
          IOEvents, InsideOnEvent
<1>1. /\ s.state = sock.state /\ s.done = sock.done /\ s.running = sock.running /\ s \in
             [state: {"NEW", "EMPTY", "CONNECTING", "HANDSHAKE", "CONNECTED", "CLOSING", "CLOSED"},
              done: BOOLEAN, running: BOOLEAN, ready: BOOLEAN, owned: BOOLEAN,
              lives: Int, sent: Int, asked: Int]
  OBVIOUS
<1> DEFINE state == IF sock.state \in ClosingStates THEN sock.state
                    ELSE IF sock.state = "NEW" THEN "CLOSED" ELSE "CLOSING"
<1>2. sock' = [s EXCEPT !.state = state]
  BY <1>1 DEF PostCloseOf
<1>3. state \in {"NEW", "EMPTY", "CONNECTING", "HANDSHAKE", "CONNECTED", "CLOSING", "CLOSED"}
  BY DEF ClosingStates
<1> HIDE DEF state
<1>4. SockType' /\ sock'.done = sock.done /\ sock'.running = sock.running /\ sock'.state = state
  BY <1>1, <1>2, <1>3
<1>5. TaskType' /\ ioTask'.phase = ioTask.phase
      /\ ioTask'.closing = (ioTask.closing \/ sock.state \notin ClosingStates \cup {"NEW"})
  BY <1>1 DEF PostCloseOf, Cancelled
<1> QED BY <1>4, <1>5 DEF state

\* PostClose() and Delete(), from other threads and from the subscription.
LEMMA PostCloseOfKeeps ==
  ASSUME SocketInv, NEW s, PostCloseOf(s, ioTask),
         s = sock \/ \E keep \in BOOLEAN : s = [sock EXCEPT !.owned = keep],
         UNCHANGED <<use, front, inner, seen>>,
         worker' = worker \/ (worker = "event" /\ worker' = "ctl")
  PROVE  SocketInv'
<1> USE DEF SocketInv, SocketTypes, SockType, FrontType, InnerType, TaskType, WorkerType,
     SeenType, CtlType, Stages,
          IOEvents, InsideOnEvent
<1>0. /\ SockType' /\ TaskType'
      /\ sock'.done = sock.done /\ sock'.running = sock.running
      /\ ioTask'.phase = ioTask.phase
      /\ sock'.state = IF sock.state \in ClosingStates THEN sock.state
                          ELSE IF sock.state = "NEW" THEN "CLOSED" ELSE "CLOSING"
      /\ ioTask'.closing = (ioTask.closing \/ sock.state \notin ClosingStates \cup {"NEW"})
  BY PostCloseFacts
<1>1. SocketTypes'
  BY <1>0, TypesStay
<1>2. PhaseFits'
  BY <1>0 DEF SocketFits, PhaseFits, ClosingStates
<1>3. Fresh'
  BY <1>0 DEF SocketFits, PhaseFits, Fresh, NoCtl, NewInner, Secure, ClosingStates
<1>4. StagesApart'
  BY <1>0 DEF SocketFits, PhaseFits, StagesApart, ClosingStates
<1>5. CtlFits'
  BY <1>0 DEF SocketFits, PhaseFits, CtlFits, NoCtl, Secure, ClosingStates
<1>6. SeenFits'
  BY <1>0 DEF SocketFits, PhaseFits, SeenFits, ClosingStates
<1> QED BY <1>1, <1>2, <1>3, <1>4, <1>5, <1>6 DEF SocketFits

\* PostShutdown().
LEMMA PostShutdownKeeps ==
  ASSUME SocketInv, NEW c \in Callers, PostShutdown(c)  PROVE SocketInv'
<1> USE DEF SocketInv, SocketTypes, SockType, FrontType, InnerType, TaskType, WorkerType,
     SeenType, CtlType, Stages,
          IOEvents, InsideOnEvent
<1>1. front' = [front EXCEPT !.ctl = [[front.ctl EXCEPT !.is = TRUE] EXCEPT !.shutdown = TRUE]]
  BY DEF PostShutdown, Added
<1>7. front'.ctl \in CtlType
  BY <1>1
<1>2. FrontType'
  BY <1>1, <1>7
<1>8. TaskType'
  BY DEF PostShutdown, Woken
<1>3. SocketTypes'
  BY <1>2, <1>8, TypesStay DEF PostShutdown
<1>4. /\ front'.ctl.connect = front.ctl.connect /\ front'.ctl.attach = front.ctl.attach
      /\ front'.ctl.given = front.ctl.given
  BY <1>1
<1>5. UNCHANGED <<use, sock, inner, worker, seen>> /\ sock.state \notin {"NEW", "CLOSED"}
      /\ ioTask'.phase = ioTask.phase /\ ioTask'.closing = ioTask.closing
  BY DEF PostShutdown, Woken, ClosingStates
<1>6. SocketFits'
  BY <1>3, <1>4, <1>5 DEF SocketFits, PhaseFits, Fresh, StagesApart, CtlFits, SeenFits, NoCtl,
       NewInner, ClosingStates, Secure
<1> QED BY <1>3, <1>6

\* The core calls OnEvent(): operations in the kernel may have ended.
LEMMA StartEventKeeps ==
  ASSUME SocketInv, StartEvent  PROVE SocketInv'
<1> USE DEF SocketInv, SocketTypes, SockType, FrontType, InnerType, TaskType, WorkerType,
     SeenType, CtlType, Stages,
          IOEvents, InsideOnEvent
<1>1. PICK r \in {"pending", "empty", "data", "eof", "error"},
           s \in {"pending", "empty", "data", "error"},
           o \in {"retry", "ended"} :
        inner' = Ended(inner, r, s,
               IF o = "retry" THEN inner.ctl.connect
               ELSE IF inner.ctl.connect = "resolving" THEN "resolved" ELSE "ended")
  BY DEF StartEvent
<1> DEFINE r1 == IF inner.recvEvent = "pending" THEN r ELSE inner.recvEvent
           s1 == IF inner.sendEvent = "pending" THEN s ELSE inner.sendEvent
           o1 == IF o = "retry" THEN inner.ctl.connect
                 ELSE IF inner.ctl.connect = "resolving" THEN "resolved" ELSE "ended"
           o2 == IF inner.ctl.connect \in {"pending", "resolving"} THEN o1 ELSE inner.ctl.connect
<1>2. inner' = [inner EXCEPT !.recvEvent = r1, !.sendEvent = s1, !.ctl.connect = o2]
  BY <1>1 DEF Ended
<1>3. r1 \in IOEvents /\ s1 \in IOEvents /\ o2 \in Stages
  OBVIOUS
<1>4. /\ r1 = "off" <=> inner.recvEvent = "off"
      /\ s1 = "off" <=> inner.sendEvent = "off"
      /\ o2 = "none" <=> inner.ctl.connect = "none"
      /\ inner.ctl.connect = "none" => o2 = inner.ctl.connect
  OBVIOUS
<1> HIDE DEF r1, s1, o2
<1>5. /\ inner'.ctl.is = inner.ctl.is /\ inner'.ctl.given = inner.ctl.given
      /\ inner'.ctl.attach = inner.ctl.attach /\ inner'.ctl.handshake = inner.ctl.handshake
      /\ inner'.ctl.connect # "none" <=> inner.ctl.connect # "none"
      /\ inner'.recvEvent = "off" <=> inner.recvEvent = "off"
      /\ inner'.sendEvent = "off" <=> inner.sendEvent = "off"
      /\ inner'.ctl \in CtlType
  BY <1>2, <1>3, <1>4
<1>6. ~inner.ctl.is => inner'.ctl = inner.ctl
  <2>1. ~inner.ctl.is => inner.ctl.connect = "none"
    BY DEF SocketFits, CtlFits, NoCtl
  <2>2. inner'.ctl = [inner.ctl EXCEPT !.connect = o2]
    BY <1>2
  <2> QED BY <1>4, <2>1, <2>2
<1>7. InnerType'
  <2>1. inner' = [inner EXCEPT !.recvEvent = r1, !.sendEvent = s1, !.ctl = inner'.ctl]
    BY <1>2
  <2>2. ASSUME NEW d \in CtlType
        PROVE  [inner EXCEPT !.recvEvent = r1, !.sendEvent = s1, !.ctl = d]
                  \in [ctl: CtlType, send: Int, recv: Int, encrypted: Int,
                       sendEvent: IOEvents, recvEvent: IOEvents]
    BY <1>3
  <2> QED BY <1>5, <2>1, <2>2 DEF InnerType
<1>8. TaskType' /\ WorkerType'
  BY DEF StartEvent, Continue
<1>9. SocketTypes'
  BY <1>7, <1>8, TypesStay DEF StartEvent
<1>10. /\ UNCHANGED <<use, sock, front, seen>> /\ worker = "idle" /\ worker' = "event"
       /\ ioTask'.phase = "called" /\ ioTask.phase = "posted" /\ ioTask'.closing = ioTask.closing
  BY DEF StartEvent, Continue
<1>11. SocketFits'
  BY <1>5, <1>6, <1>9, <1>10 DEF SocketFits, PhaseFits, Fresh, StagesApart, CtlFits, SeenFits,
       NoCtl, NewInner, ClosingStates, Secure
<1> QED BY <1>9, <1>11

\* ProcessArgs() has found the socket broken.
LEMMA ProcessArgsKeeps ==
  ASSUME SocketInv, ProcessArgsFails  PROVE SocketInv'
<1> USE DEF SocketInv, SocketTypes, SockType, FrontType, InnerType, TaskType, WorkerType,
     SeenType, CtlType, Stages,
          IOEvents, InsideOnEvent
<1>1. UNCHANGED <<use, front, inner>> /\ worker = "event" /\ worker' = "return" /\ Closed(TRUE)
  BY DEF ProcessArgsFails, Continue
<1>2. InnerType'
  BY <1>1, TypesStay
<1>3. SockType' /\ TaskType' /\ SeenType' /\ PhaseFits' /\ Fresh' /\ SeenFits'
  BY <1>1, <1>2, ClosedKeeps
<1>4. SocketTypes'
  BY <1>1, <1>2, <1>3, TypesStay
<1>5. sock'.state = "CLOSING" /\ sock'.done = sock.done
  BY <1>1, ClosedFacts
<1>6. StagesApart' /\ CtlFits'
  BY <1>1, <1>5 DEF SocketFits, PhaseFits, Fresh, StagesApart, CtlFits, SeenFits, NoCtl,
       NewInner, ClosingStates, Secure
<1> QED BY <1>3, <1>4, <1>6 DEF SocketFits

\* OnEvent() of the subscription, whatever it does.
LEMMA OnEventKeeps ==
  ASSUME SocketInv, OnEvent  PROVE SocketInv'
<1> USE DEF SocketInv, SocketTypes, SockType, FrontType, InnerType, TaskType, WorkerType,
     SeenType, CtlType, Stages,
          IOEvents, InsideOnEvent
<1>0. worker = "event" /\ worker' \in {"ctl", "aborted"} /\ UNCHANGED <<use, seen>>
  BY DEF OnEvent, Continue
<1>1. CASE SendMove \/ Recv \/ UNCHANGED <<sock, front, inner, ioTask>>
  <2>1. UNCHANGED <<sock, front, ioTask>>
    BY <1>1 DEF SendMove, Recv
  <2>2. InnerType' /\ inner'.ctl = inner.ctl /\ inner'.recvEvent = inner.recvEvent
        /\ inner'.sendEvent = inner.sendEvent
    BY <1>1, Sums DEF SendMove, Recv
  <2>3. SocketTypes'
    BY <1>0, <2>1, <2>2, TypesStay
  <2>4. PhaseFits'
    BY <1>0, <2>1, <2>2 DEF SocketFits, PhaseFits, ClosingStates
  <2>5. Fresh'
    BY <1>0, <2>1, <2>2 DEF SocketFits, PhaseFits, Fresh, CtlFits, NoCtl, NewInner, Secure,
         ClosingStates
  <2>6. StagesApart'
    BY <1>0, <2>1, <2>2 DEF SocketFits, PhaseFits, StagesApart, CtlFits, NoCtl, ClosingStates
  <2>7. CtlFits'
    BY <1>0, <2>1, <2>2 DEF SocketFits, PhaseFits, CtlFits, NoCtl, Secure, ClosingStates
  <2>8. SeenFits'
    BY <1>0, <2>1, <2>2 DEF SocketFits, PhaseFits, SeenFits, ClosingStates
  <2> QED BY <2>3, <2>4, <2>5, <2>6, <2>7, <2>8 DEF SocketFits
<1>2. CASE Connect
  <2>1. CASE UNCHANGED <<sock, front, ioTask>>
    <3>1. SocketTypes'
      BY <1>0, <1>2, <2>1, TypesStay DEF Connect
    <3>2. PhaseFits'
      BY <1>0, <1>2, <2>1 DEF Connect, SocketFits, PhaseFits, ClosingStates
    <3>3. Fresh'
      BY <1>0, <1>2, <2>1 DEF Connect, SocketFits, PhaseFits, Fresh, CtlFits, NoCtl, NewInner,
           Secure, ClosingStates
    <3>4. StagesApart'
      BY <1>0, <1>2, <2>1 DEF Connect, SocketFits, PhaseFits, StagesApart, CtlFits, NoCtl,
           ClosingStates
    <3>5. CtlFits'
      BY <1>0, <1>2, <2>1 DEF Connect, SocketFits, PhaseFits, CtlFits, NoCtl, Secure, ClosingStates
    <3>6. SeenFits'
      BY <1>0, <1>2, <2>1 DEF Connect, SocketFits, PhaseFits, SeenFits, ClosingStates
    <3> QED BY <3>1, <3>2, <3>3, <3>4, <3>5, <3>6 DEF SocketFits
  <2>2. CASE /\ sock.state = "EMPTY" /\ sock' = [sock EXCEPT !.state = "CONNECTING"]
             /\ front' = [front EXCEPT !.ctl =
                    [[front.ctl EXCEPT !.is = TRUE] EXCEPT !.connect = "start"]]
             /\ ioTask' = [ioTask EXCEPT !.again = TRUE] /\ inner' = inner
    <3>1. /\ front'.ctl \in CtlType /\ front'.ctl.connect = "start"
          /\ front'.ctl.attach = front.ctl.attach /\ front'.ctl.given = front.ctl.given
      BY <2>2
    <3>2. FrontType'
      BY <2>2, <3>1
    <3>3. SockType' /\ TaskType' /\ sock'.state = "CONNECTING" /\ sock'.done = sock.done
          /\ sock'.running = sock.running /\ sock'.owned = sock.owned
          /\ ioTask'.phase = ioTask.phase /\ ioTask'.closing = ioTask.closing
      BY <2>2
    <3>4. SocketTypes'
      BY <1>0, <2>2, <3>2, <3>3, TypesStay
    <3>5. ~front.ctl.attach /\ inner.ctl.connect = "none" /\ ~inner.ctl.attach
            /\ ~inner.ctl.handshake /\ ~sock.done
      BY <1>0, <2>2 DEF SocketFits, PhaseFits, Fresh, StagesApart, CtlFits, SeenFits, NoCtl,
           NewInner, ClosingStates, Secure
    <3>6. PhaseFits'
      BY <1>0, <2>2, <3>1, <3>3, <3>5 DEF SocketFits, PhaseFits, ClosingStates
    <3>7. Fresh'
      BY <1>0, <2>2, <3>1, <3>3, <3>5 DEF SocketFits, PhaseFits, Fresh, CtlFits, NoCtl,
           NewInner, Secure, ClosingStates
    <3>8. StagesApart'
      BY <1>0, <2>2, <3>1, <3>3, <3>5 DEF SocketFits, PhaseFits, StagesApart, CtlFits, NoCtl,
           ClosingStates
    <3>9. CtlFits'
      BY <1>0, <2>2, <3>1, <3>3, <3>5 DEF SocketFits, PhaseFits, CtlFits, NoCtl, Secure,
           ClosingStates
    <3>10. SeenFits'
      BY <1>0, <2>2, <3>1, <3>3, <3>5 DEF SocketFits, PhaseFits, SeenFits, ClosingStates
    <3> QED BY <3>4, <3>6, <3>7, <3>8, <3>9, <3>10 DEF SocketFits
  <2> QED BY <1>2, <2>1, <2>2 DEF Connect, Added, Again
<1>3. CASE CloseInside /\ worker' = "ctl"
  BY <1>0, <1>3, PostCloseOfKeeps DEF CloseInside
<1> QED BY <1>1, <1>2, <1>3 DEF OnEvent, Continue

\* PrivCtl() merges the control message of the other threads into that of the worker.
LEMMA TakeCtlKeeps ==
  ASSUME SocketInv, TakeCtl  PROVE SocketInv'
<1> USE DEF SocketInv, SocketTypes, SockType, FrontType, InnerType, TaskType, WorkerType,
     SeenType, CtlType, Stages,
          IOEvents, InsideOnEvent
<1>0. worker = "ctl" /\ worker' \in {"shutdown", "take"} /\ UNCHANGED <<use, sock, ioTask, seen>>
      /\ (worker' = "shutdown" <=> front.ctl.is \/ inner.ctl.is)
  BY DEF TakeCtl, Continue
<1>1. CASE front.ctl.is
  <2>1. front' = [front EXCEPT !.ctl = NoCtl]
          /\ inner' = [inner EXCEPT !.ctl = Merged(inner.ctl, front.ctl)]
    BY <1>1 DEF TakeCtl
  <2>2. front'.ctl = NoCtl /\ NoCtl \in CtlType
    BY <2>1 DEF NoCtl
  <2>3. FrontType'
    BY <2>1, <2>2
  <2>4. Merged(inner.ctl, front.ctl) \in CtlType
    BY DEF Merged
  <2>5. inner'.ctl = Merged(inner.ctl, front.ctl) /\ inner'.recvEvent = inner.recvEvent
        /\ inner'.sendEvent = inner.sendEvent
    BY <2>1
  <2>6. InnerType'
    BY <2>1, <2>4
  <2>7. /\ inner'.ctl.is /\ inner'.ctl.handshake = inner.ctl.handshake
        /\ inner'.ctl.connect = IF front.ctl.connect = "none" THEN inner.ctl.connect
             ELSE front.ctl.connect
        /\ inner'.ctl.attach = (inner.ctl.attach \/ front.ctl.attach)
        /\ inner'.ctl.given = (inner.ctl.given \/ front.ctl.given)
    BY <2>5 DEF Merged
  <2>8. ~front'.ctl.is /\ front'.ctl.connect = "none" /\ ~front'.ctl.attach
          /\ ~front'.ctl.given /\ ~front'.ctl.shutdown
    BY <2>2 DEF NoCtl
  <2>9. SocketTypes'
    BY <1>0, <2>3, <2>6, TypesStay
  <2>10. PhaseFits'
    BY <1>0, <1>1, <2>2, <2>5, <2>7, <2>8 DEF SocketFits, PhaseFits, ClosingStates
  <2>11. Fresh'
    BY <1>0, <1>1, <2>2, <2>5, <2>7, <2>8 DEF SocketFits, PhaseFits, Fresh, CtlFits, NoCtl,
         NewInner, Secure, ClosingStates
  <2>12. StagesApart'
    BY <1>0, <1>1, <2>2, <2>5, <2>7, <2>8 DEF SocketFits, PhaseFits, StagesApart, CtlFits,
         NoCtl, ClosingStates
  <2>13. CtlFits'
    BY <1>0, <1>1, <2>2, <2>5, <2>7, <2>8 DEF SocketFits, PhaseFits, CtlFits, NoCtl, Secure,
         ClosingStates
  <2>14. SeenFits'
    BY <1>0, <1>1, <2>2, <2>5, <2>7, <2>8 DEF SocketFits, PhaseFits, SeenFits, ClosingStates
  <2> QED BY <2>9, <2>10, <2>11, <2>12, <2>13, <2>14 DEF SocketFits
<1>2. CASE ~front.ctl.is
  <2>1. UNCHANGED <<front, inner>>
    BY <1>2 DEF TakeCtl
  <2>2. SocketTypes'
    BY <1>0, <2>1, TypesStay
  <2>3. PhaseFits'
    BY <1>0, <1>2, <2>1 DEF SocketFits, PhaseFits, ClosingStates
  <2>4. Fresh'
    BY <1>0, <1>2, <2>1 DEF SocketFits, PhaseFits, Fresh, CtlFits, NoCtl, NewInner, Secure,
         ClosingStates
  <2>5. StagesApart'
    BY <1>0, <1>2, <2>1 DEF SocketFits, PhaseFits, StagesApart, CtlFits, NoCtl, ClosingStates
  <2>6. CtlFits'
    BY <1>0, <1>2, <2>1 DEF SocketFits, PhaseFits, CtlFits, NoCtl, Secure, ClosingStates
  <2>7. SeenFits'
    BY <1>0, <1>2, <2>1 DEF SocketFits, PhaseFits, SeenFits, ClosingStates
  <2> QED BY <2>2, <2>3, <2>4, <2>5, <2>6, <2>7 DEF SocketFits
<1> QED BY <1>1, <1>2

\* DoShutdown() of the control message.
LEMMA DoShutdownKeeps ==
  ASSUME SocketInv, DoShutdown  PROVE SocketInv'
<1> USE DEF SocketInv, SocketTypes, SockType, FrontType, InnerType, TaskType, WorkerType,
     SeenType, CtlType, Stages,
          IOEvents, InsideOnEvent
<1>0. worker = "shutdown" /\ worker' = "attach" /\ UNCHANGED <<use, front>>
  BY DEF DoShutdown, Continue
<1>1. PICK b \in BOOLEAN : inner' = [inner EXCEPT !.ctl.shutdown = b]
  BY DEF DoShutdown
<1>2. /\ inner'.ctl \in CtlType
      /\ inner'.ctl.is = inner.ctl.is /\ inner'.ctl.given = inner.ctl.given
      /\ inner'.ctl.attach = inner.ctl.attach /\ inner'.ctl.handshake = inner.ctl.handshake
      /\ inner'.ctl.connect = inner.ctl.connect /\ inner'.recvEvent = inner.recvEvent
      /\ inner'.sendEvent = inner.sendEvent
  BY <1>1
<1>3. InnerType'
  BY <1>1, <1>2
<1>4. inner.ctl.is
  BY <1>0 DEF SocketFits, CtlFits
<1>5. CASE UNCHANGED <<sock, ioTask, seen>>
  <2>1. SocketTypes'
    BY <1>0, <1>3, <1>5, TypesStay
  <2>2. PhaseFits'
    BY <1>0, <1>2, <1>4, <1>5 DEF SocketFits, PhaseFits, ClosingStates
  <2>3. Fresh'
    BY <1>0, <1>2, <1>4, <1>5 DEF SocketFits, PhaseFits, Fresh, CtlFits, NoCtl, NewInner,
         Secure, ClosingStates
  <2>4. StagesApart'
    BY <1>0, <1>2, <1>4, <1>5 DEF SocketFits, PhaseFits, StagesApart, CtlFits, NoCtl, ClosingStates
  <2>5. CtlFits'
    BY <1>0, <1>2, <1>4, <1>5 DEF SocketFits, PhaseFits, CtlFits, NoCtl, Secure, ClosingStates
  <2>6. SeenFits'
    BY <1>0, <1>2, <1>4, <1>5 DEF SocketFits, PhaseFits, SeenFits, ClosingStates
  <2> QED BY <2>1, <2>2, <2>3, <2>4, <2>5, <2>6 DEF SocketFits
<1>6. CASE Closed(TRUE)
  <2>1. SockType' /\ TaskType' /\ SeenType' /\ PhaseFits' /\ Fresh' /\ SeenFits'
    BY <1>0, <1>2, <1>3, <1>6, ClosedKeeps
  <2>2. SocketTypes'
    BY <1>0, <1>3, <2>1, TypesStay
  <2>3. sock'.state = "CLOSING" /\ sock'.done = sock.done
    BY <1>6, ClosedFacts
  <2>4. StagesApart'
    BY <1>0, <1>2, <2>3 DEF SocketFits, StagesApart
  <2>5. CtlFits'
    BY <1>0, <1>2, <1>4 DEF SocketFits, CtlFits, Secure
  <2> QED BY <2>1, <2>2, <2>4, <2>5 DEF SocketFits
<1> QED BY <1>5, <1>6 DEF DoShutdown

\* The handshake starts: after an attach or a connect, in a socket that is connecting or
\* already closing.
LEMMA HandshakeStartKeeps ==
  ASSUME SocketInv, NEW i, HandshakeStart(i), UNCHANGED <<use, front, seen>>,
         TaskType', ioTask'.phase = ioTask.phase, ioTask'.closing = ioTask.closing,
         \/ worker = "attach" /\ worker' = "connect" /\ inner.ctl.attach
            /\ i = [inner EXCEPT !.ctl.attach = FALSE]
         \/ worker = "connect" /\ worker' = "handshake" /\ inner.ctl.connect # "none"
            /\ i = [inner EXCEPT !.ctl.connect = "none"]
  PROVE  SocketInv'
<1> USE DEF SocketInv, SocketTypes, SockType, FrontType, InnerType, TaskType, WorkerType,
     SeenType, CtlType, Stages,
          IOEvents, InsideOnEvent
<1>1. /\ i.ctl \in CtlType /\ i.ctl.connect = "none" /\ ~i.ctl.attach
      /\ i.ctl.is = inner.ctl.is /\ i.ctl.given = inner.ctl.given
      /\ i \in [ctl: CtlType, send: Int, recv: Int, encrypted: Int,
                 sendEvent: IOEvents, recvEvent: IOEvents]
  <2>1. CASE inner.ctl.attach /\ i = [inner EXCEPT !.ctl.attach = FALSE]
    BY <2>1 DEF SocketFits, StagesApart
  <2>2. CASE inner.ctl.connect # "none" /\ i = [inner EXCEPT !.ctl.connect = "none"]
    BY <2>2 DEF SocketFits, StagesApart
  <2> QED BY <2>1, <2>2
<1>2. inner' = [i EXCEPT !.ctl.handshake = TRUE, !.sendEvent = "empty", !.recvEvent = "empty"]
  BY DEF HandshakeStart
<1>3. /\ inner'.ctl \in CtlType /\ inner'.ctl.connect = "none" /\ ~inner'.ctl.attach
      /\ inner'.ctl.is = inner.ctl.is /\ inner'.ctl.given = inner.ctl.given /\ inner'.ctl.handshake
  BY <1>1, <1>2
<1>4. InnerType'
  BY <1>1, <1>2, <1>3
<1>5. /\ sock.state \in {"CONNECTING", "CLOSING"} /\ inner.ctl.is /\ ~sock.done
      /\ front.ctl.connect = "none" /\ ~front.ctl.attach
  BY DEF SocketFits, StagesApart, CtlFits
<1>6. /\ SockType'
      /\ sock'.state = IF sock.state = "CONNECTING" THEN "HANDSHAKE" ELSE "CLOSING"
      /\ sock'.done = sock.done /\ sock'.running = sock.running /\ sock'.owned = sock.owned
  BY <1>5 DEF HandshakeStart
<1>7. SocketTypes'
  BY <1>4, <1>6, TypesStay
<1>8. PhaseFits'
  BY <1>3, <1>5, <1>6 DEF SocketFits, PhaseFits, ClosingStates
<1>9. Fresh'
  BY <1>3, <1>5, <1>6 DEF SocketFits, PhaseFits, Fresh, CtlFits, NoCtl, NewInner, Secure,
       ClosingStates
<1>10. StagesApart'
  BY <1>3, <1>5, <1>6 DEF SocketFits, PhaseFits, StagesApart, CtlFits, NoCtl, Secure, ClosingStates
<1>11. CtlFits'
  BY <1>3, <1>5, <1>6 DEF SocketFits, PhaseFits, CtlFits, NoCtl, Secure, ClosingStates
<1>12. SeenFits'
  BY <1>3, <1>5, <1>6 DEF SocketFits, PhaseFits, SeenFits, ClosingStates
<1> QED BY <1>7, <1>8, <1>9, <1>10, <1>11, <1>12 DEF SocketFits

\* DoAttach() of the control message.
LEMMA DoAttachKeeps ==
  ASSUME SocketInv, DoAttach  PROVE SocketInv'
<1> USE DEF SocketInv, SocketTypes, SockType, FrontType, InnerType, TaskType, WorkerType,
     SeenType, CtlType, Stages,
          IOEvents, InsideOnEvent
<1>0. worker = "attach" /\ worker' = "connect" /\ UNCHANGED <<use, front, seen>>
  BY DEF DoAttach, Continue
<1>1. CASE inner.ctl.attach
  <2>1. HandshakeStart([inner EXCEPT !.ctl.attach = FALSE])
          /\ ioTask' = [ioTask EXCEPT !.socket = TRUE]
    BY <1>1 DEF DoAttach
  <2>2. TaskType' /\ ioTask'.phase = ioTask.phase /\ ioTask'.closing = ioTask.closing
    BY <2>1
  <2> QED BY <1>0, <1>1, <2>1, <2>2, HandshakeStartKeeps
<1>2. CASE ~inner.ctl.attach
  <2>1. UNCHANGED <<inner, sock, ioTask>>
    BY <1>2 DEF DoAttach
  <2>2. SocketTypes'
    BY <1>0, <2>1, TypesStay
  <2>3. PhaseFits'
    BY <1>0, <1>2, <2>1 DEF SocketFits, PhaseFits, ClosingStates
  <2>4. Fresh'
    BY <1>0, <1>2, <2>1 DEF SocketFits, PhaseFits, Fresh, CtlFits, NoCtl, NewInner, Secure,
         ClosingStates
  <2>5. StagesApart'
    BY <1>0, <1>2, <2>1 DEF SocketFits, PhaseFits, StagesApart, CtlFits, NoCtl, Secure,
         ClosingStates
  <2>6. CtlFits'
    BY <1>0, <1>2, <2>1 DEF SocketFits, PhaseFits, CtlFits, NoCtl, Secure, ClosingStates
  <2>7. SeenFits'
    BY <1>0, <1>2, <2>1 DEF SocketFits, PhaseFits, SeenFits, ClosingStates
  <2> QED BY <2>2, <2>3, <2>4, <2>5, <2>6, <2>7 DEF SocketFits
<1> QED BY <1>1, <1>2

\* DoConnect() of the control message, in each of its stages.
LEMMA DoConnectKeeps ==
  ASSUME SocketInv, DoConnect  PROVE SocketInv'
<1> USE DEF SocketInv, SocketTypes, SockType, FrontType, InnerType, TaskType, WorkerType,
     SeenType, CtlType, Stages,
          IOEvents, InsideOnEvent
<1>0. worker = "connect" /\ worker' = "handshake" /\ UNCHANGED <<use, front>>
        /\ inner.ctl.connect # "none"
  BY DEF DoConnect, Continue
<1>1. /\ sock.state \in {"CONNECTING", "CLOSING"} /\ inner.ctl.is /\ ~sock.done
      /\ front.ctl.connect = "none" /\ ~front.ctl.attach /\ ~inner.ctl.handshake
           /\ ~inner.ctl.attach
  BY <1>0 DEF SocketFits, StagesApart, CtlFits
\* The connect goes on.
<1>2. ASSUME NEW stage \in Stages, stage # "none",
             inner' = inner \/ inner' = [inner EXCEPT !.ctl.connect = stage],
             ioTask' = ioTask \/ ioTask' = [ioTask EXCEPT !.socket = TRUE], UNCHANGED <<sock, seen>>
      PROVE  SocketInv'
  <2>1. /\ inner'.ctl \in CtlType
        /\ inner'.ctl.is = inner.ctl.is /\ inner'.ctl.given = inner.ctl.given
        /\ ~inner'.ctl.attach /\ ~inner'.ctl.handshake /\ inner'.ctl.connect # "none"
        /\ inner'.recvEvent = inner.recvEvent /\ inner'.sendEvent = inner.sendEvent
    <3>1. CASE inner' = inner
      BY <1>0, <1>1, <3>1
    <3>2. CASE inner' = [inner EXCEPT !.ctl.connect = stage]
      BY <1>1, <1>2, <3>2
    <3> QED BY <1>2, <3>1, <3>2
  <2>2. InnerType'
    BY <1>2, <2>1
  <2>3. TaskType' /\ ioTask'.phase = ioTask.phase /\ ioTask'.closing = ioTask.closing
    BY <1>2
  <2>4. SocketTypes'
    BY <1>0, <1>2, <2>2, <2>3, TypesStay
  <2>5. PhaseFits'
    BY <1>0, <1>1, <1>2, <2>1, <2>3 DEF SocketFits, PhaseFits, ClosingStates
  <2>6. Fresh'
    BY <1>0, <1>1, <1>2, <2>1, <2>3 DEF SocketFits, PhaseFits, Fresh, CtlFits, NoCtl, NewInner,
         Secure, ClosingStates
  <2>7. StagesApart'
    BY <1>0, <1>1, <1>2, <2>1, <2>3 DEF SocketFits, PhaseFits, StagesApart, CtlFits, NoCtl,
         Secure, ClosingStates
  <2>8. CtlFits'
    BY <1>0, <1>1, <1>2, <2>1, <2>3 DEF SocketFits, PhaseFits, CtlFits, NoCtl, Secure, ClosingStates
  <2>9. SeenFits'
    BY <1>0, <1>1, <1>2, <2>1, <2>3 DEF SocketFits, PhaseFits, SeenFits, ClosingStates
  <2> QED BY <2>4, <2>5, <2>6, <2>7, <2>8, <2>9 DEF SocketFits
<1>3. CASE ConnectFails
  <2>1. Closed(TRUE) /\ inner' = [inner EXCEPT !.ctl.connect = "none"]
    BY <1>3 DEF ConnectFails, EndConnect
  <2>2. /\ inner'.ctl \in CtlType
        /\ inner'.ctl.is = inner.ctl.is /\ inner'.ctl.given = inner.ctl.given
        /\ ~inner'.ctl.attach /\ ~inner'.ctl.handshake /\ inner'.ctl.connect = "none"
        /\ inner'.recvEvent = inner.recvEvent /\ inner'.sendEvent = inner.sendEvent
    BY <1>1, <2>1
  <2>3. InnerType'
    BY <2>1, <2>2
  <2>4. SockType' /\ TaskType' /\ SeenType' /\ PhaseFits' /\ Fresh' /\ SeenFits'
    BY <1>0, <1>1, <2>1, <2>2, <2>3, ClosedKeeps
  <2>5. SocketTypes'
    BY <1>0, <2>3, <2>4, TypesStay
  <2>6. sock'.state = "CLOSING" /\ sock'.done = sock.done
    BY <2>1, ClosedFacts
  <2>7. StagesApart'
    BY <1>0, <1>1, <2>2, <2>6 DEF SocketFits, StagesApart
  <2>8. CtlFits'
    BY <1>0, <1>1, <2>2 DEF SocketFits, CtlFits, Secure
  <2> QED BY <2>4, <2>5, <2>7, <2>8 DEF SocketFits
<1>4. CASE HandshakeStart(EndConnect(inner))
             /\ ioTask' = Again([ioTask EXCEPT !.socket = TRUE]) /\ seen' = seen
  <2>1. TaskType' /\ ioTask'.phase = ioTask.phase /\ ioTask'.closing = ioTask.closing
    BY <1>4 DEF Again
  <2>2. HandshakeStart([inner EXCEPT !.ctl.connect = "none"])
    BY <1>4 DEF EndConnect
  <2> QED BY <1>0, <1>4, <2>1, <2>2, HandshakeStartKeeps
<1> QED
  <2>1. CASE UNCHANGED <<sock, inner, ioTask, seen>>
    BY <1>2, <2>1, "pending" \in Stages, "pending" # "none"
  <2>2. CASE inner' = [inner EXCEPT !.ctl.connect = "resolving"] /\ UNCHANGED <<sock, ioTask, seen>>
    BY <1>2, <2>2, "resolving" \in Stages, "resolving" # "none"
  <2>3. CASE inner' = [inner EXCEPT !.ctl.connect = "pending"]
               /\ ioTask' = [ioTask EXCEPT !.socket = TRUE]
             /\ UNCHANGED <<sock, seen>>
    BY <1>2, <2>3, "pending" \in Stages, "pending" # "none"
  <2> QED BY <1>3, <1>4, <2>1, <2>2, <2>3 DEF DoConnect

\* A control message that has become idle is deleted; there is nothing left in it.
LEMMA KeptFacts ==
  ASSUME NEW ctl \in CtlType
  PROVE  /\ Kept(ctl) \in CtlType
         /\ Kept(ctl).connect = ctl.connect /\ Kept(ctl).attach = ctl.attach
         /\ Kept(ctl).handshake = ctl.handshake /\ Kept(ctl).given = ctl.given
         /\ Kept(ctl) = NoCtl \/ Kept(ctl) = ctl
BY DEF Kept, IsIdle, NoCtl, CtlType, Stages

\* DoHandshake() of the control message: the connect is told once.
LEMMA DoHandshakeKeeps ==
  ASSUME SocketInv, DoHandshake  PROVE SocketInv'
<1> USE DEF SocketInv, SocketTypes, SockType, FrontType, InnerType, TaskType, WorkerType,
     SeenType, CtlType, Stages,
          IOEvents, InsideOnEvent
<1>0. worker = "handshake" /\ worker' = "take" /\ UNCHANGED <<use, front>> /\ inner.ctl.is
  BY DEF DoHandshake, Continue, SocketFits, CtlFits
<1>1. CASE inner.ctl.handshake /\ HandshakeCommit
  <2> DEFINE hasEnded == EndHandshake(inner.ctl)
  <2>1. hasEnded \in CtlType /\ hasEnded.connect = inner.ctl.connect /\ hasEnded.attach = inner.ctl.attach
        /\ ~hasEnded.handshake /\ ~hasEnded.given /\ hasEnded.is
    BY <1>0 DEF EndHandshake
  <2>2. inner' = [inner EXCEPT !.ctl = Kept(hasEnded)]
    BY <1>1 DEF HandshakeCommit
  <2> HIDE DEF hasEnded
  <2>3. /\ inner'.ctl = Kept(hasEnded) /\ inner'.recvEvent = inner.recvEvent
        /\ inner'.sendEvent = inner.sendEvent
    BY <2>2
  <2>4. /\ inner'.ctl \in CtlType /\ inner'.ctl.connect = inner.ctl.connect
             /\ inner'.ctl.attach = inner.ctl.attach
        /\ ~inner'.ctl.handshake /\ ~inner'.ctl.given
        /\ ~inner'.ctl.is => inner'.ctl = NoCtl
    BY <2>1, <2>3, KeptFacts
  <2>5. InnerType'
    BY <2>2, <2>3, <2>4
  <2>6. sock.state \in {"HANDSHAKE", "CLOSING"} /\ ~sock.done /\ inner.ctl.connect = "none"
          /\ ~inner.ctl.attach
        /\ front.ctl.connect = "none" /\ ~front.ctl.attach
    BY <1>0, <1>1 DEF SocketFits, StagesApart
  <2>7. /\ SockType' /\ sock'.state = IF sock.state = "HANDSHAKE" THEN "CONNECTED" ELSE "CLOSING"
        /\ sock'.done /\ sock'.running = sock.running /\ sock'.owned = sock.owned
    BY <1>1, <2>6 DEF HandshakeCommit
  <2>8. TaskType' /\ ioTask'.phase = ioTask.phase /\ ioTask'.closing = ioTask.closing
    BY <1>1 DEF HandshakeCommit, Again
  <2>9. seen.connects = 0
    BY <2>6 DEF SocketFits, SeenFits
  <2>b. seen' = [seen EXCEPT !.connects = 1]
    BY <1>1, <2>9 DEF HandshakeCommit
  <2>10. /\ SeenType' /\ seen'.connects = 1 /\ seen'.errors = seen.errors
              /\ seen'.closes = seen.closes
    BY <2>b
  <2>11. SocketTypes'
    BY <1>0, <2>5, <2>7, <2>8, <2>10, TypesStay
  <2>12. PhaseFits'
    BY <1>0, <2>3, <2>4, <2>6, <2>7, <2>8, <2>10 DEF SocketFits, PhaseFits, ClosingStates
  <2>13. Fresh'
    BY <1>0, <2>3, <2>4, <2>6, <2>7, <2>8, <2>10 DEF SocketFits, PhaseFits, Fresh, CtlFits,
         NoCtl, NewInner, Secure, ClosingStates
  <2>14. StagesApart'
    BY <1>0, <2>3, <2>4, <2>6, <2>7, <2>8, <2>10 DEF SocketFits, PhaseFits, StagesApart,
         CtlFits, NoCtl, Secure, ClosingStates
  <2>15. CtlFits'
    BY <1>0, <2>3, <2>4, <2>6, <2>7, <2>8, <2>10 DEF SocketFits, PhaseFits, CtlFits, NoCtl,
         Secure, ClosingStates
  <2>16. SeenFits'
    BY <1>0, <2>3, <2>4, <2>6, <2>7, <2>8, <2>10 DEF SocketFits, PhaseFits, SeenFits, ClosingStates
  <2> QED BY <2>11, <2>12, <2>13, <2>14, <2>15, <2>16 DEF SocketFits
<1>2. CASE inner.ctl.handshake /\ HandshakeFails
  <2>1. Closed(TRUE) /\ inner' = inner /\ Secure
    BY <1>0, <1>2 DEF HandshakeFails, SocketFits, CtlFits
  <2>2. InnerType'
    BY <2>1, TypesStay
  <2>3. SockType' /\ TaskType' /\ SeenType' /\ PhaseFits' /\ Fresh' /\ SeenFits'
    BY <1>0, <2>1, <2>2, ClosedKeeps
  <2>4. SocketTypes'
    BY <1>0, <2>2, <2>3, TypesStay
  <2>5. sock'.state = "CLOSING" /\ sock'.done = sock.done
    BY <2>1, ClosedFacts
  <2>6. StagesApart'
    BY <1>0, <2>1, <2>5 DEF SocketFits, StagesApart
  <2>7. CtlFits'
    BY <1>0, <2>1 DEF SocketFits, CtlFits, Secure
  <2> QED BY <2>3, <2>4, <2>6, <2>7 DEF SocketFits
<1>3. CASE /\ inner.ctl.handshake => inner.ctl.given
           /\ inner' = [inner EXCEPT !.ctl = Kept(@)]
           /\ UNCHANGED <<sock, ioTask, seen>>
  <2>1. /\ inner'.ctl = Kept(inner.ctl) /\ inner'.recvEvent = inner.recvEvent
        /\ inner'.sendEvent = inner.sendEvent
    BY <1>3
  <2>2. /\ inner'.ctl \in CtlType /\ inner'.ctl.connect = inner.ctl.connect
             /\ inner'.ctl.attach = inner.ctl.attach
        /\ inner'.ctl.handshake = inner.ctl.handshake /\ inner'.ctl.given = inner.ctl.given
        /\ ~inner'.ctl.is => inner'.ctl = NoCtl
    BY <1>0, <2>1, KeptFacts
  <2>3. InnerType'
    BY <1>3, <2>1, <2>2
  <2>4. SocketTypes'
    BY <1>0, <1>3, <2>3, TypesStay
  <2>5. ~Secure => ~inner.ctl.handshake
    BY <1>3 DEF SocketFits, CtlFits
  <2>6. PhaseFits'
    BY <1>0, <1>3, <2>1, <2>2, <2>5 DEF SocketFits, PhaseFits, ClosingStates
  <2>7. Fresh'
    BY <1>0, <1>3, <2>1, <2>2, <2>5 DEF SocketFits, PhaseFits, Fresh, CtlFits, NoCtl, NewInner,
         Secure, ClosingStates
  <2>8. StagesApart'
    BY <1>0, <1>3, <2>1, <2>2, <2>5 DEF SocketFits, PhaseFits, StagesApart, CtlFits, NoCtl,
         Secure, ClosingStates
  <2>9. CtlFits'
    BY <1>0, <1>3, <2>1, <2>2, <2>5 DEF SocketFits, PhaseFits, CtlFits, NoCtl, Secure, ClosingStates
  <2>10. SeenFits'
    BY <1>0, <1>3, <2>1, <2>2, <2>5 DEF SocketFits, PhaseFits, SeenFits, ClosingStates
  <2> QED BY <2>4, <2>6, <2>7, <2>8, <2>9, <2>10 DEF SocketFits
<1> QED BY <1>1, <1>2, <1>3 DEF DoHandshake

\* PostTask().
LEMMA PostTaskKeeps ==
  ASSUME SocketInv, PostTask  PROVE SocketInv'
<1> USE DEF SocketInv, SocketTypes, SockType, FrontType, InnerType, TaskType, WorkerType,
     SeenType, CtlType, Stages,
          IOEvents, InsideOnEvent
<1>1. SockType' /\ TaskType' /\ SeenType'
  BY Sums DEF PostTask, Posted, NothingSeen
<1>2. SocketTypes'
  BY <1>1, TypesStay DEF PostTask, Posted
<1>3. SocketFits'
  BY <1>2 DEF PostTask, Posted, NothingSeen, MayOpen, SocketFits, PhaseFits, Fresh,
       StagesApart, CtlFits, SeenFits, NoCtl, NewInner,
       ClosingStates, Secure
<1> QED BY <1>2, <1>3

\* PostSend().
LEMMA PostSendMoveKeeps ==
  ASSUME SocketInv, NEW c \in Callers, PostSendMove(c)  PROVE SocketInv'
<1> USE DEF SocketInv, SocketTypes, SockType, FrontType, InnerType, TaskType, WorkerType,
     SeenType, CtlType, Stages,
          IOEvents, InsideOnEvent
<1>1. SockType' /\ FrontType'
  BY Sums DEF PostSendMove
<1>2. SocketTypes'
  BY <1>1, TypesStay DEF PostSendMove
<1>3. SocketFits'
  BY <1>2 DEF PostSendMove, SocketFits, PhaseFits, Fresh, StagesApart, CtlFits, SeenFits,
       NoCtl, NewInner,
       ClosingStates, Secure
<1> QED BY <1>2, <1>3

\* PostRecv().
LEMMA PostRecvKeeps ==
  ASSUME SocketInv, NEW c \in Callers, PostRecv(c)  PROVE SocketInv'
<1> USE DEF SocketInv, SocketTypes, SockType, FrontType, InnerType, TaskType, WorkerType,
     SeenType, CtlType, Stages,
          IOEvents, InsideOnEvent
<1>1. SockType' /\ FrontType'
  BY Sums DEF PostRecv
<1>2. SocketTypes'
  BY <1>1, TypesStay DEF PostRecv
<1>3. SocketFits'
  BY <1>2 DEF PostRecv, SocketFits, PhaseFits, Fresh, StagesApart, CtlFits, SeenFits, NoCtl,
       NewInner,
       ClosingStates, Secure
<1> QED BY <1>2, <1>3

\* PostWakeup().
LEMMA PostWakeupKeeps ==
  ASSUME SocketInv, NEW c \in Callers, PostWakeup(c)  PROVE SocketInv'
<1> USE DEF SocketInv, SocketTypes, SockType, FrontType, InnerType, TaskType, WorkerType,
     SeenType, CtlType, Stages,
          IOEvents, InsideOnEvent
<1>2. SocketTypes'
  BY TypesStay DEF PostWakeup
<1>3. SocketFits'
  BY <1>2 DEF PostWakeup, SocketFits, PhaseFits, Fresh, StagesApart, CtlFits, SeenFits, NoCtl,
       NewInner,
       ClosingStates, Secure
<1> QED BY <1>2, <1>3

\* The wakeup of the task after the unlock.
LEMMA WakeupKeeps ==
  ASSUME SocketInv, NEW c \in Callers, Wakeup(c)  PROVE SocketInv'
<1> USE DEF SocketInv, SocketTypes, SockType, FrontType, InnerType, TaskType, WorkerType,
     SeenType, CtlType, Stages,
          IOEvents, InsideOnEvent
<1>1. TaskType'
  BY DEF Wakeup, Woken
<1>2. SocketTypes'
  BY <1>1, TypesStay DEF Wakeup
<1>3. SocketFits'
  BY <1>2 DEF Wakeup, Woken, SocketFits, PhaseFits, Fresh, StagesApart, CtlFits, SeenFits,
       NoCtl, NewInner,
       ClosingStates, Secure
<1> QED BY <1>2, <1>3

\* There is no connect to do.
LEMMA SkipConnectKeeps ==
  ASSUME SocketInv, SkipConnect  PROVE SocketInv'
<1> USE DEF SocketInv, SocketTypes, SockType, FrontType, InnerType, TaskType, WorkerType,
     SeenType, CtlType, Stages,
          IOEvents, InsideOnEvent
<1>1. WorkerType'
  BY DEF SkipConnect, Continue
<1>2. SocketTypes'
  BY <1>1, TypesStay DEF SkipConnect
<1>3. SocketFits'
  BY <1>2 DEF SkipConnect, Continue, SocketFits, PhaseFits, Fresh, StagesApart, CtlFits,
       SeenFits, NoCtl, NewInner,
       ClosingStates, Secure
<1> QED BY <1>2, <1>3

\* The worker takes the data of the other threads.
LEMMA TakeSendKeeps ==
  ASSUME SocketInv, TakeSend  PROVE SocketInv'
<1> USE DEF SocketInv, SocketTypes, SockType, FrontType, InnerType, TaskType, WorkerType,
     SeenType, CtlType, Stages,
          IOEvents, InsideOnEvent
<1>1. FrontType' /\ InnerType' /\ WorkerType'
  BY Sums DEF TakeSend, Continue
<1>2. SocketTypes'
  BY <1>1, TypesStay DEF TakeSend
<1>3. SocketFits'
  BY <1>2 DEF TakeSend, Continue, SocketFits, PhaseFits, Fresh, StagesApart, CtlFits, SeenFits,
       NoCtl, NewInner,
       ClosingStates, Secure
<1> QED BY <1>2, <1>3

\* The worker takes the receives of the other threads.
LEMMA TakeRecvKeeps ==
  ASSUME SocketInv, TakeRecv  PROVE SocketInv'
<1> USE DEF SocketInv, SocketTypes, SockType, FrontType, InnerType, TaskType, WorkerType,
     SeenType, CtlType, Stages,
          IOEvents, InsideOnEvent
<1>1. FrontType' /\ InnerType' /\ WorkerType'
  BY Sums DEF TakeRecv, Continue
<1>2. SocketTypes'
  BY <1>1, TypesStay DEF TakeRecv
<1>3. SocketFits'
  BY <1>2 DEF TakeRecv, Continue, SocketFits, PhaseFits, Fresh, StagesApart, CtlFits, SeenFits,
       NoCtl, NewInner,
       ClosingStates, Secure
<1> QED BY <1>2, <1>3

\* PrivRecv() starts a receive.
LEMMA StartRecvKeeps ==
  ASSUME SocketInv, StartRecv  PROVE SocketInv'
<1> USE DEF SocketInv, SocketTypes, SockType, FrontType, InnerType, TaskType, WorkerType,
     SeenType, CtlType, Stages,
          IOEvents, InsideOnEvent
<1>1. InnerType' /\ WorkerType'
  BY DEF StartRecv, Continue, IsResult
<1>2. SocketTypes'
  BY <1>1, TypesStay DEF StartRecv
<1>3. SocketFits'
  BY <1>2 DEF StartRecv, Continue, IsResult, SocketFits, PhaseFits, Fresh, StagesApart,
       CtlFits, SeenFits, NoCtl, NewInner,
       ClosingStates, Secure
<1> QED BY <1>2, <1>3

\* OnEvent() returns.
LEMMA LeaveEventKeeps ==
  ASSUME SocketInv, LeaveEvent  PROVE SocketInv'
<1> USE DEF SocketInv, SocketTypes, SockType, FrontType, InnerType, TaskType, WorkerType,
     SeenType, CtlType, Stages,
          IOEvents, InsideOnEvent
<1>1. TaskType' /\ WorkerType'
  BY DEF LeaveEvent, Continue
<1>2. SocketTypes'
  BY <1>1, TypesStay DEF LeaveEvent
<1>3. SocketFits'
  BY <1>2 DEF LeaveEvent, Continue, SocketFits, PhaseFits, Fresh, StagesApart, CtlFits,
       SeenFits, NoCtl, NewInner,
       ClosingStates, Secure
<1> QED BY <1>2, <1>3

\* The core calls the closed task for the last time.
LEMMA LastEventKeeps ==
  ASSUME SocketInv, LastEvent  PROVE SocketInv'
<1> USE DEF SocketInv, SocketTypes, SockType, FrontType, InnerType, TaskType, WorkerType,
     SeenType, CtlType, Stages,
          IOEvents, InsideOnEvent
<1>1. TaskType' /\ WorkerType'
  BY DEF LastEvent, Continue
<1>2. SocketTypes'
  BY <1>1, TypesStay DEF LastEvent
<1>3. SocketFits'
  BY <1>2 DEF LastEvent, Continue, SocketFits, PhaseFits, Fresh, StagesApart, CtlFits,
       SeenFits, NoCtl, NewInner,
       ClosingStates, Secure
<1> QED BY <1>2, <1>3

\* ProtClose() resets what other threads share.
LEMMA CloseFrontKeeps ==
  ASSUME SocketInv, CloseFront  PROVE SocketInv'
<1> USE DEF SocketInv, SocketTypes, SockType, FrontType, InnerType, TaskType, WorkerType,
     SeenType, CtlType, Stages,
          IOEvents, InsideOnEvent
<1>0. SockType' /\ WorkerType'
  BY DEF CloseFront, Continue
<1>a. NoCtl \in CtlType
  BY DEF NoCtl
<1>b. FrontType'
  BY <1>a DEF CloseFront
<1>1. SockType' /\ FrontType' /\ WorkerType'
  BY <1>0, <1>b
<1>2. SocketTypes'
  BY <1>1, TypesStay DEF CloseFront
<1>3. SocketFits'
  BY <1>2 DEF CloseFront, Continue, NoCtl, SocketFits, PhaseFits, Fresh, StagesApart, CtlFits,
       SeenFits, NoCtl, NewInner,
       ClosingStates, Secure
<1> QED BY <1>2, <1>3

\* ProtClose() resets what is the worker's, and tells of the close.
LEMMA CloseInnerKeeps ==
  ASSUME SocketInv, CloseInner  PROVE SocketInv'
<1> USE DEF SocketInv, SocketTypes, SockType, FrontType, InnerType, TaskType, WorkerType,
     SeenType, CtlType, Stages,
          IOEvents, InsideOnEvent
<1>1. InnerType' /\ WorkerType'
  BY DEF CloseInner, Continue, NewInner, NoCtl
<1>2. worker = "clear" /\ worker' = "onclose" /\ sock.state = "CLOSED" /\ ioTask.phase = "over"
      /\ inner' = NewInner /\ UNCHANGED <<use, sock, front, ioTask>>
  BY DEF CloseInner, Continue, SocketFits, PhaseFits
<1>3. seen.closes = 0
  BY <1>2 DEF SocketFits, SeenFits
<1>4. seen' = [seen EXCEPT !.closes = 1]
  BY <1>3 DEF CloseInner
<1>5. SeenType' /\ seen'.errors = seen.errors
  BY <1>4
<1>6. SocketTypes'
  BY <1>1, <1>2, <1>5, TypesStay
<1>7. SocketFits'
  BY <1>2, <1>5 DEF SocketFits, PhaseFits, Fresh, StagesApart, CtlFits, SeenFits, NoCtl, NewInner,
       ClosingStates, Secure
<1> QED BY <1>6, <1>7

\* OnClose() of the subscription has not opened the socket again.
LEMMA LeaveClosedKeeps ==
  ASSUME SocketInv, LeaveClosed  PROVE SocketInv'
<1> USE DEF SocketInv, SocketTypes, SockType, FrontType, InnerType, TaskType, WorkerType,
     SeenType, CtlType, Stages,
          IOEvents, InsideOnEvent
<1>1. WorkerType'
  BY DEF LeaveClosed, Continue
<1>2. SocketTypes'
  BY <1>1, TypesStay DEF LeaveClosed
<1>3. SocketFits'
  BY <1>2 DEF LeaveClosed, Continue, SocketFits, PhaseFits, Fresh, StagesApart, CtlFits,
       SeenFits, NoCtl, NewInner,
       ClosingStates, Secure
<1> QED BY <1>2, <1>3

\* A receive that has ended.
LEMMA RecvKept ==
  ASSUME InnerType, NEW r \in Int, inner' = [inner EXCEPT !.recvEvent = "empty", !.recv = r]
  PROVE  InnerType' /\ inner'.ctl = inner.ctl /\ inner'.recvEvent = "empty"
         /\ inner'.sendEvent = inner.sendEvent
<1>1. ASSUME NEW e \in IOEvents, e = "empty"
      PROVE  InnerType' /\ inner'.ctl = inner.ctl /\ inner'.recvEvent = e
             /\ inner'.sendEvent = inner.sendEvent
  BY <1>1 DEF InnerType
<1> QED BY <1>1 DEF IOEvents

\* Data that goes to SSL.
LEMMA EncryptKept ==
  ASSUME InnerType, NEW i, NEW s \in Int, i = [inner EXCEPT !.encrypted = s, !.send = 0]
  PROVE  i \in [ctl: CtlType, send: Int, recv: Int, encrypted: Int,
                 sendEvent: IOEvents, recvEvent: IOEvents]
         /\ i.ctl = inner.ctl /\ i.sendEvent = inner.sendEvent /\ i.recvEvent = inner.recvEvent
<1>1. ASSUME NEW z \in Int, z = 0
      PROVE  i \in [ctl: CtlType, send: Int, recv: Int, encrypted: Int,
                    sendEvent: IOEvents, recvEvent: IOEvents]
             /\ i.ctl = inner.ctl /\ i.sendEvent = inner.sendEvent /\ i.recvEvent = inner.recvEvent
  BY <1>1 DEF InnerType
<1> QED BY <1>1

\* Data is reported after the connect.
LEMMA NotEarly ==
  ASSUME SeenType, ~Secure => seen.connects = 1
  PROVE  seen' = [seen EXCEPT !.early = @ \/ (seen.connects = 0 /\ ~Secure)] =>
           /\ SeenType' /\ seen'.connects = seen.connects /\ seen'.errors = seen.errors
           /\ seen'.closes = seen.closes
<1>1. seen.early = FALSE
  BY DEF SeenType
<1>2. ~(seen.connects = 0 /\ ~Secure)
  OBVIOUS
<1>3. (seen.early \/ (seen.connects = 0 /\ ~Secure)) = FALSE
  BY <1>1, <1>2, Zenon
<1>4. seen' = [seen EXCEPT !.early = @ \/ (seen.connects = 0 /\ ~Secure)] =>
        seen' = [seen EXCEPT !.early = FALSE]
  BY <1>3
<1> QED BY <1>4 DEF SeenType

\* PrivRecv() consumes the result of a receive.
LEMMA ConsumeRecvKeeps ==
  ASSUME SocketInv, ConsumeRecv  PROVE SocketInv'
<1> USE DEF SocketInv, SocketTypes, SockType, FrontType, InnerType, TaskType, WorkerType,
     SeenType, CtlType, Stages,
          IOEvents, InsideOnEvent
<1>0. worker \in {"recv", "received"} /\ worker' \in {"startrecv", "send"}
        /\ UNCHANGED <<use, front>>
      /\ inner.recvEvent # "off"
  BY DEF ConsumeRecv, Continue, IsResult
<1>1. CASE CommitRecv
  <2>1. sock' = sock /\ (ioTask' = ioTask \/ ioTask' = [ioTask EXCEPT !.again = TRUE])
    BY <1>1 DEF CommitRecv, Again
  <2>2. TaskType' /\ ioTask'.phase = ioTask.phase /\ ioTask'.closing = ioTask.closing
    BY <2>1
  <2>3. \/ inner' = [inner EXCEPT !.recvEvent = "empty", !.recv = 0]
        \/ inner' = [inner EXCEPT !.recvEvent = "empty", !.recv = 1]
        \/ inner' = [inner EXCEPT !.recvEvent = "empty"]
    BY <1>1 DEF CommitRecv
  <2>4. InnerType' /\ inner'.ctl = inner.ctl /\ inner'.recvEvent = "empty"
          /\ inner'.sendEvent = inner.sendEvent
    <3>1. ASSUME NEW more \in {0, 1}, inner' = [inner EXCEPT !.recvEvent = "empty", !.recv = more]
          PROVE  InnerType' /\ inner'.ctl = inner.ctl /\ inner'.recvEvent = "empty"
                 /\ inner'.sendEvent = inner.sendEvent
      <4>1. InnerType /\ more \in Int
        BY <3>1
      <4> QED BY ONLY <3>1, <4>1, RecvKept
    <3>3. CASE inner' = [inner EXCEPT !.recvEvent = "empty"]
      BY <3>3
    <3> QED BY <2>3, <3>1, <3>3
\* A plain socket receives after its handshake, so the connect has been told.
  <2>5. ~Secure => seen.connects = 1
    BY <1>0 DEF SocketFits, PhaseFits, StagesApart, CtlFits, SeenFits
  <2>s. seen' = seen \/ seen' = [seen EXCEPT !.early = @ \/ (seen.connects = 0 /\ ~Secure)]
    BY <1>1 DEF CommitRecv
  <2>6. SeenType
    OBVIOUS
  <2>7. SeenType' /\ seen'.connects = seen.connects /\ seen'.errors = seen.errors
        /\ seen'.closes = seen.closes
    BY ONLY <2>5, <2>6, <2>s, NotEarly DEF SeenType
  <2>8. SocketTypes'
    BY <1>0, <2>1, <2>2, <2>4, <2>7, TypesStay
  <2>9. PhaseFits'
    BY <1>0, <2>1, <2>2, <2>4, <2>7 DEF SocketFits, PhaseFits, ClosingStates
  <2>10. Fresh'
    BY <1>0, <2>1, <2>2, <2>4, <2>7 DEF SocketFits, PhaseFits, Fresh, CtlFits, NoCtl, NewInner,
         Secure, ClosingStates
  <2>11. StagesApart'
    BY <1>0, <2>1, <2>2, <2>4, <2>7 DEF SocketFits, PhaseFits, StagesApart, CtlFits, NoCtl,
         Secure, ClosingStates
  <2>12. CtlFits'
    BY <1>0, <2>1, <2>2, <2>4, <2>7 DEF SocketFits, PhaseFits, CtlFits, NoCtl, Secure, ClosingStates
  <2>13. SeenFits'
    BY <1>0, <2>1, <2>2, <2>4, <2>7 DEF SocketFits, PhaseFits, SeenFits, ClosingStates
  <2> QED BY <2>8, <2>9, <2>10, <2>11, <2>12, <2>13 DEF SocketFits
<1>2. ASSUME NEW error \in BOOLEAN, NEW e \in {"off", "empty"}, Closed(error),
             inner' = [inner EXCEPT !.recvEvent = e]
      PROVE  SocketInv'
  <2>1. InnerType' /\ inner'.ctl = inner.ctl /\ inner'.sendEvent = inner.sendEvent
    BY <1>2
  <2>2. SockType' /\ TaskType' /\ SeenType' /\ PhaseFits' /\ Fresh' /\ SeenFits'
    BY <1>0, <1>2, <2>1, ClosedKeeps
  <2>3. SocketTypes'
    BY <1>0, <2>1, <2>2, TypesStay
  <2>4. sock'.state = "CLOSING" /\ sock'.done = sock.done
    BY <1>2, ClosedFacts
  <2>5. StagesApart'
    BY <1>0, <2>1, <2>4 DEF SocketFits, StagesApart
  <2>6. CtlFits'
    BY <1>0, <2>1 DEF SocketFits, CtlFits, Secure
  <2> QED BY <2>2, <2>3, <2>5, <2>6 DEF SocketFits
<1> QED
  <2>1. CASE inner' = [inner EXCEPT !.recvEvent = "empty"] /\ Closed(FALSE)
    BY <1>2, <2>1
  <2>2. CASE inner' = [inner EXCEPT !.recvEvent = "off"] /\ Closed(TRUE)
    BY <1>2, <2>2
  <2> QED BY <1>1, <2>1, <2>2 DEF ConsumeRecv, EndRecv

\* PrivSend() consumes the result of a send.
LEMMA ConsumeSendKeeps ==
  ASSUME SocketInv, ConsumeSend  PROVE SocketInv'
<1> USE DEF SocketInv, SocketTypes, SockType, FrontType, InnerType, TaskType, WorkerType,
     SeenType, CtlType, Stages,
          IOEvents, InsideOnEvent
<1>0. worker \in {"send", "sent"} /\ worker' \in {"startsend", "return"} /\ UNCHANGED <<use, front>>
      /\ inner.sendEvent # "off"
  BY DEF ConsumeSend, Continue, IsResult
<1>1. CASE inner' = CommitSend(inner) /\ sock' = sock
           /\ seen' = [seen EXCEPT !.early = @ \/ (seen.connects = 0 /\ ~Secure)]
           /\ ioTask' \in {ioTask, Again(ioTask)}
  <2>1. TaskType' /\ ioTask'.phase = ioTask.phase /\ ioTask'.closing = ioTask.closing
    BY <1>1 DEF Again
  <2>2. InnerType' /\ inner'.ctl = inner.ctl /\ inner'.sendEvent = "empty"
          /\ inner'.recvEvent = inner.recvEvent
    BY <1>1, Sums DEF CommitSend
\* A plain socket sends after its handshake, so the connect has been told.
  <2>3. ~Secure => seen.connects = 1
    BY <1>0 DEF SocketFits, PhaseFits, StagesApart, CtlFits, SeenFits
  <2>4. SeenType
    OBVIOUS
  <2>5. SeenType' /\ seen'.connects = seen.connects /\ seen'.errors = seen.errors
        /\ seen'.closes = seen.closes
    BY ONLY <1>1, <2>3, <2>4, NotEarly
  <2>6. SocketTypes'
    BY <1>0, <1>1, <2>1, <2>2, <2>5, TypesStay
  <2>7. PhaseFits'
    BY <1>0, <1>1, <2>1, <2>2, <2>5 DEF SocketFits, PhaseFits, ClosingStates
  <2>8. Fresh'
    BY <1>0, <1>1, <2>1, <2>2, <2>5 DEF SocketFits, PhaseFits, Fresh, CtlFits, NoCtl, NewInner,
         Secure, ClosingStates
  <2>9. StagesApart'
    BY <1>0, <1>1, <2>1, <2>2, <2>5 DEF SocketFits, PhaseFits, StagesApart, CtlFits, NoCtl,
         Secure, ClosingStates
  <2>10. CtlFits'
    BY <1>0, <1>1, <2>1, <2>2, <2>5 DEF SocketFits, PhaseFits, CtlFits, NoCtl, Secure, ClosingStates
  <2>11. SeenFits'
    BY <1>0, <1>1, <2>1, <2>2, <2>5 DEF SocketFits, PhaseFits, SeenFits, ClosingStates
  <2> QED BY <2>6, <2>7, <2>8, <2>9, <2>10, <2>11 DEF SocketFits
<1>2. CASE Closed(TRUE) /\ inner' = [inner EXCEPT !.sendEvent = "off"]
  <2>1. InnerType' /\ inner'.ctl = inner.ctl /\ inner'.recvEvent = inner.recvEvent
    BY <1>2
  <2>2. SockType' /\ TaskType' /\ SeenType' /\ PhaseFits' /\ Fresh' /\ SeenFits'
    BY <1>0, <1>2, <2>1, ClosedKeeps
  <2>3. SocketTypes'
    BY <1>0, <2>1, <2>2, TypesStay
  <2>4. sock'.state = "CLOSING" /\ sock'.done = sock.done
    BY <1>2, ClosedFacts
  <2>5. StagesApart'
    BY <1>0, <1>2, <2>1, <2>4 DEF SocketFits, StagesApart
  <2>6. CtlFits'
    BY <1>0, <2>1 DEF SocketFits, CtlFits, Secure
  <2> QED BY <2>2, <2>3, <2>5, <2>6 DEF SocketFits
<1> QED BY <1>1, <1>2 DEF ConsumeSend

\* PrivSend() starts a send.
LEMMA StartSendKeeps ==
  ASSUME SocketInv, StartSend  PROVE SocketInv'
<1> USE DEF SocketInv, SocketTypes, SockType, FrontType, InnerType, TaskType, WorkerType,
     SeenType, CtlType, Stages,
          IOEvents, InsideOnEvent
<1>0. worker \in {"startsend", "send"} /\ worker' \in {"return", "sent"}
        /\ UNCHANGED <<use, sock, front, ioTask>>
  BY DEF StartSend, Continue
<1>1. CASE inner' = inner /\ seen' = seen
  <2>1. SocketTypes'
    BY <1>0, <1>1, TypesStay
  <2>2. PhaseFits'
    BY <1>0, <1>1 DEF SocketFits, PhaseFits, ClosingStates
  <2>3. Fresh'
    BY <1>0, <1>1 DEF SocketFits, PhaseFits, Fresh, CtlFits, NoCtl, NewInner, Secure, ClosingStates
  <2>4. StagesApart'
    BY <1>0, <1>1 DEF SocketFits, PhaseFits, StagesApart, CtlFits, NoCtl, Secure, ClosingStates
  <2>5. CtlFits'
    BY <1>0, <1>1 DEF SocketFits, PhaseFits, CtlFits, NoCtl, Secure, ClosingStates
  <2>6. SeenFits'
    BY <1>0, <1>1 DEF SocketFits, PhaseFits, SeenFits, ClosingStates
  <2> QED BY <2>1, <2>2, <2>3, <2>4, <2>5, <2>6 DEF SocketFits
<1>2. CASE inner.sendEvent = "empty"
  <2>1. PICK i \in IF Secure THEN Populate(inner) ELSE {inner} :
           /\ seen' = [seen EXCEPT !.early = @ \/ (seen.connects = 0 /\ i.send < inner.send)]
           /\ inner' = i \/ \E e \in {"pending", "data",
              "error"} : inner' = [i EXCEPT !.sendEvent = e]
    BY <1>2 DEF StartSend
\* Only what SSL has taken leaves the queue early, and it takes the data when it is done.
  <2>2. /\ i \in [ctl: CtlType, send: Int, recv: Int, encrypted: Int,
                   sendEvent: IOEvents, recvEvent: IOEvents]
        /\ i.ctl = inner.ctl /\ i.sendEvent = "empty" /\ i.recvEvent = inner.recvEvent
        /\ i.send = inner.send \/ sock.done
    <3>1. CASE i = inner
      BY <1>2, <3>1
    <3>2. CASE sock.done /\ i = [inner EXCEPT !.encrypted = inner.send, !.send = 0]
      BY <1>2, <3>2, EncryptKept
    <3>3. CASE i = [inner EXCEPT !.encrypted = 1]
      BY <1>2, <3>3
    <3> QED BY <3>1, <3>2, <3>3 DEF Populate
  <2>3. InnerType' /\ inner'.ctl = inner.ctl /\ inner'.sendEvent # "off"
          /\ inner'.recvEvent = inner.recvEvent
    <3>1. CASE inner' = i
      BY <2>2, <3>1
    <3>2. ASSUME NEW e \in {"pending", "data", "error"}, inner' = [i EXCEPT !.sendEvent = e]
          PROVE  InnerType' /\ inner'.ctl = inner.ctl /\ inner'.sendEvent # "off"
                 /\ inner'.recvEvent = inner.recvEvent
      BY <2>2, <3>2
    <3> QED BY <2>1, <3>1, <3>2
  <2>4. sock.done => seen.connects = 1
    BY <1>0 DEF SocketFits, PhaseFits, SeenFits
  <2>5. ~(seen.connects = 0 /\ i.send < inner.send)
    BY <2>2, <2>4
  <2>6. seen' = [seen EXCEPT !.early = FALSE]
    BY <2>1, <2>5
  <2>7. SeenType' /\ seen'.connects = seen.connects /\ seen'.errors = seen.errors
        /\ seen'.closes = seen.closes
    BY <2>6
  <2>8. SocketTypes'
    BY <1>0, <2>3, <2>7, TypesStay
  <2>9. PhaseFits'
    BY <1>0, <1>2, <2>3, <2>7 DEF SocketFits, PhaseFits, ClosingStates
  <2>10. Fresh'
    BY <1>0, <1>2, <2>3, <2>7 DEF SocketFits, PhaseFits, Fresh, CtlFits, NoCtl, NewInner,
         Secure, ClosingStates
  <2>11. StagesApart'
    BY <1>0, <1>2, <2>3, <2>7 DEF SocketFits, PhaseFits, StagesApart, CtlFits, NoCtl, Secure,
         ClosingStates
  <2>12. CtlFits'
    BY <1>0, <1>2, <2>3, <2>7 DEF SocketFits, PhaseFits, CtlFits, NoCtl, Secure, ClosingStates
  <2>13. SeenFits'
    BY <1>0, <1>2, <2>3, <2>7 DEF SocketFits, PhaseFits, SeenFits, ClosingStates
  <2> QED BY <2>8, <2>9, <2>10, <2>11, <2>12, <2>13 DEF SocketFits
<1> QED BY <1>1, <1>2 DEF StartSend

\* The invariant of a socket is inductive.
LEMMA SocketStep == SocketInv /\ [SocketNext]_socketVars => SocketInv'
<1> SUFFICES ASSUME SocketInv, [SocketNext]_socketVars  PROVE SocketInv'
  OBVIOUS
<1>1. ASSUME NEW c \in Callers, PostClose(c)  PROVE SocketInv'
  <2>1. PICK keep \in BOOLEAN : PostCloseOf([sock EXCEPT !.owned = keep], ioTask)
    BY <1>1 DEF PostClose
  <2> QED BY <1>1, <2>1, PostCloseOfKeeps DEF PostClose
<1>2. ASSUME NEW c \in Callers, Call(c) \/ Wakeup(c)  PROVE SocketInv'
  BY <1>1, <1>2, PostSendMoveKeeps, PostRecvKeeps, PostWakeupKeeps, PostShutdownKeeps, WakeupKeeps
     DEF Call
<1>3. CASE WorkerProgress
  BY <1>3, OnEventKeeps, TakeCtlKeeps, DoShutdownKeeps, DoAttachKeeps, DoConnectKeeps,
     SkipConnectKeeps, DoHandshakeKeeps, TakeSendKeeps, TakeRecvKeeps, ConsumeRecvKeeps,
     StartRecvKeeps, ConsumeSendKeeps, StartSendKeeps, LeaveEventKeeps, LastEventKeeps,
     CloseFrontKeeps, CloseInnerKeeps, LeaveClosedKeeps, StartEventKeeps DEF WorkerProgress
<1>4. CASE UNCHANGED socketVars
  <2>1. UNCHANGED <<use, sock, front, inner, ioTask, worker, seen>>
    BY <1>4 DEF socketVars
  <2>2. SocketTypes'
    BY <2>1, TypesStay DEF SocketInv, SocketTypes, SockType, FrontType, InnerType, TaskType,
                           WorkerType, SeenType
  <2>3. SocketFits'
    BY <2>1 DEF SocketInv, SocketFits, PhaseFits, Fresh, StagesApart, CtlFits, SeenFits, NoCtl,
         NewInner,
       ClosingStates, Secure
  <2> QED BY <2>2, <2>3 DEF SocketInv
<1> QED BY <1>2, <1>3, <1>4, OpenKeeps, PostConnectKeeps, PostWrapKeeps, PostTaskKeeps,
           ProcessArgsKeeps DEF SocketNext

\* The assertions of TCPSocket and SSLSocket hold, however other threads, the subscription,
\* the kernel and the worker meet, in every life of the socket, for any use of it, also when
\* it is shut down before it is connected (TCPSocketIFace.cpp:60-330, TCPSocketCtl.cpp:60-420):
\* all of them but that of a connect after a shutdown, which may end the process.
THEOREM SocketIsSafe ==
  SocketInit /\ [][SocketNext]_socketVars => []SocketAssertions
BY SocketInitially, SocketStep, SocketIsRight, PTL

\* A subscription hears of one connect, one error and one close at most in a life; no data is
\* sent before the connect, none is received unless SSL has brought it along, and after an
\* error the socket is being closed (TCPSocketSubscription.h, SSLSocket.cpp:115-161).
THEOREM SubscriptionIsTold ==
  SocketInit /\ [][SocketNext]_socketVars => []ToldInOrder
BY SocketInitially, SocketStep, ToldIsRight, PTL

-----------------------------------------------------------------------------
(* Servers.                                                                 *)

ServerTypes ==
    /\ server \in [state: {"NEW", "BOUND", "LISTENING", "CLOSING", "CLOSED"}, sub: BOOLEAN,
                   bound: BOOLEAN, peers: Nat, told: Nat]
    /\ listening \in [phase: {"new", "posted", "called", "over"}, woken: BOOLEAN,
                      closing: BOOLEAN, event: {"empty", "pending", "ended"}]
    /\ serverPc \in {"idle", "accept", "unsubscribe"}
    /\ closer \in {"idle", "aborted"}

\* The state of the server, and where its task and its subscription are then.
ServerStages ==
    /\ server.bound <=> server.state = "BOUND"
    /\ server.state \in {"NEW", "BOUND"} => listening.phase = "new"
    /\ server.state \in {"LISTENING", "CLOSING"} <=> listening.phase \in {"posted", "called"}
    /\ server.state = "CLOSING" \/ listening.phase = "over" => listening.closing
    /\ server.state = "LISTENING" => ~listening.closing
    /\ listening.phase = "called" <=> serverPc = "accept"
    /\ listening.phase \in {"posted", "called"} => server.sub
    /\ serverPc = "unsubscribe" => listening.phase = "over" /\ server.sub
    /\ listening.phase = "new" => ~server.sub /\ ~listening.closing
    /\ listening.phase = "over" /\ serverPc = "idle" => ~server.sub /\ server.told = 1
    /\ listening.phase # "over" \/ serverPc # "idle" => server.told = 0

\* The server that a PostClose() has died of was being closed already.
ServerDied == listening.closing /\ server.sub /\ server.told = 0

ServerInv == ServerTypes /\ (IF closer = "aborted" THEN ServerDied ELSE ServerStages)

\* The invariant of a server is inductive.
LEMMA ServerStep ==
  ServerInv /\ [ServerNext]_serverVars => ServerInv'
<1>0. ServerInv /\ UNCHANGED serverVars => ServerInv'
  BY DEF ServerInv, ServerTypes, ServerStages, ServerDied, serverVars
<1> SUFFICES ASSUME ServerTypes, ServerStages, closer = "idle", ServerNext  PROVE ServerInv'
  BY <1>0 DEF ServerNext, ServerInv, ServerTypes
<1> USE DEF ServerInv, ServerTypes, ServerStages
<1>1. CASE Bind
  BY <1>1 DEF Bind
<1>2. CASE Listen
  BY <1>2 DEF Listen
<1>3. CASE PostCloseServer
  <2>1. CASE server.state = "LISTENING"
    BY <1>3, <2>1 DEF PostCloseServer
  <2>2. CASE server.state # "LISTENING" /\ ~server.sub
    BY <1>3, <2>2 DEF PostCloseServer
  <2>3. CASE server.state # "LISTENING" /\ server.sub
    <3>1. ServerDied
      BY <2>3 DEF ServerDied
    <3> QED BY <1>3, <2>3, <3>1 DEF PostCloseServer, ServerDied
  <2> QED BY <2>1, <2>2, <2>3
<1>4. CASE ServeEvent
  BY <1>4 DEF ServeEvent
<1>5. CASE Accept
  <2>1. server.peers \in Nat /\ server.peers + 1 \in Nat
    OBVIOUS
  <2>2. PICK n \in Nat : server' = [server EXCEPT !.peers = n]
    BY <1>5, <2>1 DEF Accept
  <2>3. PICK woken \in BOOLEAN, event \in {"pending", "empty"} :
           listening' = [listening EXCEPT !.phase = "posted", !.woken = woken, !.event = event]
    BY <1>5 DEF Accept
  <2> QED BY <1>5, <2>1, <2>2, <2>3 DEF Accept
<1>6. CASE ServeClose
  BY <1>6 DEF ServeClose
<1>7. CASE Unsubscribe
  <2>1. server.told = 0 /\ server.told + 1 = 1 /\ listening.phase = "over"
    BY <1>7 DEF Unsubscribe
  <2>2. server' = [server EXCEPT !.sub = FALSE, !.told = 1]
    BY <1>7, <2>1 DEF Unsubscribe
  <2>3. UNCHANGED <<listening, closer>> /\ serverPc' = "idle"
    BY <1>7 DEF Unsubscribe
  <2>4. server.state = "CLOSED" /\ ~server.bound
    BY <2>1
  <2>5. ServerTypes'
    BY <2>2, <2>3
  <2>6. ServerStages'
    BY <2>1, <2>2, <2>3, <2>4
  <2> QED BY <2>3, <2>5, <2>6
<1> QED BY <1>1, <1>2, <1>3, <1>4, <1>5, <1>6, <1>7 DEF ServerNext, ServerWork

\* The assertions of the server hold however often it is closed and however PostClose() and
\* the worker meet (TCPServer.cpp:7-136), but for the one of PostClose() itself: that one
\* fails only on a server that is being closed, before its subscription is told.
THEOREM ServerIsSafe ==
  ServerInit /\ [][ServerNext]_serverVars => []ServerAssertions
<1>1. ServerInit => ServerInv
  BY DEF ServerInit, ServerInv, ServerTypes, ServerStages
<1>2. ServerInv => ServerAssertions
  BY DEF ServerAssertions, ServerInv, ServerTypes, ServerStages, ServerDied
<1> QED BY <1>1, <1>2, ServerStep, PTL

-----------------------------------------------------------------------------
(* The resolver: the invariant.                                             *)

UserType == user \in [Requests -> [phase: {"new", "sent", "cancelled", "gone"}, pending: BOOLEAN,
                                   alive: BOOLEAN, answers: {0, 1}]]
QueuesType == queues \in [front: Seq(Requests), cancel: Seq(Requests), signal: BOOLEAN]
ResolverPcs == {"asleep", "main", "late", "batch", "write", "tell", "release", "front", "cancel"}
AfterAnswer == {"main", "late", "batch", "cancel"}
Resolvers == [pc: ResolverPcs, after: AfterAnswer, request: Requests \cup {NoRequest},
              late: SUBSET Requests, left: Int, front: Seq(Requests), cancel: Seq(Requests)]
ResolverType == resolver \in Resolvers
DomainTypes ==
    /\ UserType /\ refs \in [Requests -> Int] /\ due \in [Requests -> BOOLEAN]
    /\ QueuesType /\ main \in Seq(Requests) /\ ResolverType

Answering == resolver.pc \in {"write", "tell", "release"}
AnsweringCancelled == resolver.request # NoRequest /\ resolver.after = "cancel"

\* A request is in one place of the main queue's way, and in one of the cancel queue's.
Places ==
    /\ IsInjective(queues.front) /\ IsInjective(main)
    /\ IsInjective(queues.cancel) /\ IsInjective(resolver.cancel)
    /\ ToSet(queues.front) \cap ToSet(main) = {}
    /\ resolver.request \notin ToSet(queues.front) \cup ToSet(main)
    /\ ToSet(queues.cancel) \cap ToSet(resolver.cancel) = {}
    /\ AnsweringCancelled =>
          resolver.request \notin ToSet(queues.cancel) \cup ToSet(resolver.cancel)
    /\ resolver.request # NoRequest <=> Answering
    /\ resolver.cancel # <<>> =>
          resolver.pc = "cancel" \/ (Answering /\ resolver.after = "cancel")

Waits(r) == r \in ToSet(queues.front) \/ r \in ToSet(main)
Cancelling(r) ==
    \/ r \in ToSet(queues.cancel) \/ r \in ToSet(resolver.cancel)
    \/ resolver.request = r /\ resolver.after = "cancel"

\* What the user's object says of the request.
UserFits(r) ==
    /\ user[r].alive <=> user[r].phase # "gone"
    /\ user[r].pending => user[r].phase = "sent"
    /\ user[r].pending \/ user[r].phase = "cancelled" =>
          Waits(r) \/ (resolver.request = r /\ resolver.pc \in {"write", "tell"})
    /\ Waits(r) \/ (resolver.request = r /\ resolver.pc \in {"write", "tell"}) =>
          user[r].pending \/ user[r].phase = "cancelled"
    /\ Waits(r) \/ (resolver.request = r /\ resolver.pc = "write") => user[r].answers = 0
    /\ user[r].phase = "new" => resolver.request # r /\ user[r].answers = 0
    /\ Cancelling(r) => user[r].phase \in {"cancelled", "gone"}

DomainInv ==
    /\ DomainTypes /\ Places
    /\ \A r \in Requests : UserFits(r) /\ refs[r] = Holders(r)

\* The holders of a request, counted one by one.
LEMMA HoldersAre ==
  ASSUME NEW r
  PROVE  /\ Holders(r) = (IF user[r].phase = "sent" THEN 1 ELSE 0)
                         + (IF Waits(r) \/ resolver.request = r THEN 1 ELSE 0)
                         + (IF Cancelling(r) THEN 1 ELSE 0)
         /\ Holders(r)' = (IF user'[r].phase = "sent" THEN 1 ELSE 0)
                         + (IF Waits(r)' \/ resolver'.request = r THEN 1 ELSE 0)
                         + (IF Cancelling(r)' THEN 1 ELSE 0)
BY DEF Holders, Waits, Cancelling

\* The invariant holds before the first request.
LEMMA DomainInitially ==
  ASSUME NoRequest \notin Requests, DomainInit  PROVE DomainInv
<1>0. <<>> \in Seq(Requests)
  BY EmptySeq
<1>1. DomainTypes
  BY <1>0 DEF DomainInit, DomainTypes, UserType, QueuesType, ResolverType, Resolvers,
         ResolverPcs, AfterAnswer
<1>2. Places
  BY SetOfEmpty DEF DomainInit, Places, Answering, AnsweringCancelled
<1>3. ASSUME NEW r \in Requests  PROVE UserFits(r) /\ refs[r] = Holders(r)
  <2>1. ~Waits(r) /\ ~Cancelling(r) /\ resolver.request # r
    BY SetOfEmpty DEF DomainInit, Waits, Cancelling
  <2>2. UserFits(r)
    BY <2>1 DEF DomainInit, UserFits
  <2> QED BY <2>1, <2>2, HoldersAre DEF DomainInit
<1> QED BY <1>1, <1>2, <1>3 DEF DomainInv

\* The safety of the requests follows from the invariant.
LEMMA RequestsAreRight ==
  ASSUME NoRequest \notin Requests, DomainInv  PROVE RequestsAreSafe
<1>1. ASSUME resolver.pc \in {"write", "tell"}  PROVE user[resolver.request].alive
  <2>1. resolver.request \in Requests
    BY <1>1 DEF DomainInv, DomainTypes, ResolverType, Resolvers, Places, Answering
  <2>2. UserFits(resolver.request)
    BY <2>1 DEF DomainInv
  <2>3. user[resolver.request].phase # "gone"
    BY <1>1, <2>1, <2>2 DEF UserFits
  <2> QED BY <2>2, <2>3 DEF UserFits
<1>2. resolver.request \notin ToSet(main)
  BY DEF DomainInv, Places
<1>3. ASSUME NEW r \in Requests  PROVE user[r].answers <= 1 /\ refs[r] = Holders(r)
  <2>1. user[r].answers \in {0, 1}
    BY DEF DomainInv, DomainTypes, UserType
  <2> QED BY <2>1 DEF DomainInv
<1> QED BY <1>1, <1>2, <1>3 DEF RequestsAreSafe

-----------------------------------------------------------------------------
(* The users' steps. *)

\* What a step that leaves the lists and the thread alone leaves alone.
LEMMA ListsStay ==
  ASSUME DomainInv, UNCHANGED <<queues, main, resolver>>
  PROVE  Places' /\ QueuesType' /\ main' \in Seq(Requests) /\ ResolverType'
         /\ \A r : (Waits(r)' <=> Waits(r)) /\ (Cancelling(r)' <=> Cancelling(r))
<1>1. Places'
  BY DEF DomainInv, Places, Answering, AnsweringCancelled
<1>2. QueuesType' /\ main' \in Seq(Requests) /\ ResolverType'
  BY DEF DomainInv, DomainTypes, QueuesType, ResolverType
<1> QED BY <1>1, <1>2 DEF Waits, Cancelling

\* A request is posted.
LEMMA PostKeeps ==
  ASSUME NoRequest \notin Requests, DomainInv, NEW q \in Requests, Post(q)  PROVE DomainInv'
<1>1. UserFits(q) /\ refs[q] = Holders(q)
  BY DEF DomainInv
<1>2. /\ user[q].phase = "new" /\ ~user[q].pending /\ user[q].alive /\ ~Waits(q) /\ ~Cancelling(q)
      /\ resolver.request # q
  BY <1>1 DEF Post, UserFits
<1>3. /\ user'[q].phase = "sent" /\ user'[q].pending = TRUE /\ user'[q].alive = user[q].alive
      /\ user'[q].answers = user[q].answers
      /\ \A r \in Requests : r # q => user'[r] = user[r]
      /\ refs'[q] = 2 /\ \A r \in Requests : r # q => refs'[r] = refs[r]
      /\ queues'.front = Append(queues.front, q) /\ queues'.cancel = queues.cancel
      /\ UNCHANGED <<due, main, resolver>>
  BY DEF Post, DomainInv, DomainTypes, UserType, QueuesType
<1>4. DomainTypes'
  <2>1. UserType'
    BY DEF Post, DomainInv, DomainTypes, UserType
  <2>2. refs' \in [Requests -> Int]
    BY DEF Post, DomainInv, DomainTypes
  <2>3. Append(queues.front, q) \in Seq(Requests) /\ Signalled(queues.front) \in BOOLEAN
    BY SetOfAppend DEF DomainInv, DomainTypes, QueuesType, Signalled
  <2>4. QueuesType'
    BY <2>3 DEF Post, DomainInv, DomainTypes, QueuesType
  <2>5. ResolverType'
    BY <1>3 DEF DomainInv, DomainTypes, ResolverType
  <2> QED BY <1>3, <2>1, <2>2, <2>4, <2>5 DEF DomainInv, DomainTypes
<1>5. /\ ToSet(queues'.front) = ToSet(queues.front) \cup {q}
      /\ IsInjective(queues'.front)
  BY <1>2, <1>3, SetOfAppend DEF DomainInv, DomainTypes, QueuesType, Places, Waits
<1>6. Places'
  BY <1>2, <1>3, <1>5 DEF DomainInv, Places, Answering, AnsweringCancelled, Waits
<1>7. ASSUME NEW r \in Requests  PROVE UserFits(r)' /\ refs'[r] = Holders(r)'
  <2>1. /\ Waits(r)' <=> Waits(r) \/ r = q
        /\ Cancelling(r)' <=> Cancelling(r)
        /\ resolver'.request = resolver.request /\ resolver'.pc = resolver.pc
    BY <1>3, <1>5 DEF Waits, Cancelling
  <2>2. UserFits(r) /\ refs[r] = Holders(r)
    BY DEF DomainInv
  <2>3. user[q].answers = 0
    BY <1>1, <1>2 DEF UserFits
  <2>4. UserFits(r)'
    BY <1>2, <1>3, <2>1, <2>2, <2>3 DEF UserFits
  <2>5. refs'[r] = Holders(r)'
    BY <1>2, <1>3, <2>1, <2>2, HoldersAre
  <2> QED BY <2>4, <2>5
<1> QED BY <1>4, <1>6, <1>7 DEF DomainInv

\* The object of the user gives its request up.
LEMMA DeletedKeeps ==
  ASSUME NoRequest \notin Requests, DomainInv, NEW q \in Requests,
         user[q].phase \in {"new", "sent"}, ~user[q].pending, Deleted(q),
         UNCHANGED <<due, queues, main, resolver>>
  PROVE  DomainInv'
<1>1. UserFits(q) /\ refs[q] = Holders(q)
  BY DEF DomainInv
<1>2. /\ user'[q].phase = "gone" /\ user'[q].pending = user[q].pending /\ user'[q].alive = FALSE
      /\ user'[q].answers = user[q].answers
      /\ \A r \in Requests : r # q => user'[r] = user[r]
      /\ refs'[q] = (IF user[q].phase = "sent" THEN refs[q] - 1 ELSE refs[q])
      /\ \A r \in Requests : r # q => refs'[r] = refs[r]
  BY DEF Deleted, DomainInv, DomainTypes, UserType
<1>3. Places' /\ QueuesType' /\ main' \in Seq(Requests) /\ ResolverType'
      /\ \A r : (Waits(r)' <=> Waits(r)) /\ (Cancelling(r)' <=> Cancelling(r))
  BY ListsStay
<1>4. DomainTypes'
  <2>1. UserType'
    BY DEF Deleted, DomainInv, DomainTypes, UserType
  <2>2. refs' \in [Requests -> Int]
    BY DEF Deleted, DomainInv, DomainTypes
  <2> QED BY <1>3, <2>1, <2>2 DEF DomainInv, DomainTypes
<1>5. ASSUME NEW r \in Requests  PROVE UserFits(r)' /\ refs'[r] = Holders(r)'
  <2>1. UserFits(r) /\ refs[r] = Holders(r) /\ refs[r] \in Int
    BY DEF DomainInv, DomainTypes
  <2>2. UserFits(r)'
    BY <1>1, <1>2, <1>3, <2>1 DEF UserFits
  <2>3. refs'[r] = Holders(r)'
    BY <1>1, <1>2, <1>3, <2>1, HoldersAre
  <2> QED BY <2>2, <2>3
<1> QED BY <1>3, <1>4, <1>5 DEF DomainInv

\* A request under way is cancelled.
LEMMA CancelSentKeeps ==
  ASSUME NoRequest \notin Requests, DomainInv, NEW q \in Requests, CancelSent(q)  PROVE DomainInv'
<1>1. UserFits(q) /\ refs[q] = Holders(q)
  BY DEF DomainInv
<1>2. /\ user[q].phase = "sent" /\ user[q].pending /\ user[q].alive /\ ~Cancelling(q)
      /\ Waits(q) \/ (resolver.request = q /\ resolver.pc \in {"write", "tell"})
  BY <1>1 DEF CancelSent, UserFits
<1>3. /\ user'[q].phase = "cancelled" /\ user'[q].pending = FALSE /\ user'[q].alive = user[q].alive
      /\ user'[q].answers = user[q].answers
      /\ \A r \in Requests : r # q => user'[r] = user[r]
      /\ queues'.cancel = Append(queues.cancel, q) /\ queues'.front = queues.front
      /\ UNCHANGED <<refs, due, main, resolver>>
  BY DEF CancelSent, DomainInv, DomainTypes, UserType, QueuesType
<1>4. DomainTypes'
  <2>1. UserType'
    BY DEF CancelSent, DomainInv, DomainTypes, UserType
  <2>3. Append(queues.cancel, q) \in Seq(Requests) /\ Signalled(queues.cancel) \in BOOLEAN
    BY SetOfAppend DEF DomainInv, DomainTypes, QueuesType, Signalled
  <2>4. QueuesType'
    BY <2>3 DEF CancelSent, DomainInv, DomainTypes, QueuesType
  <2>5. ResolverType'
    BY <1>3 DEF DomainInv, DomainTypes, ResolverType
  <2> QED BY <1>3, <2>1, <2>4, <2>5 DEF DomainInv, DomainTypes
<1>5. /\ ToSet(queues'.cancel) = ToSet(queues.cancel) \cup {q}
      /\ IsInjective(queues'.cancel)
  BY <1>2, <1>3, SetOfAppend DEF DomainInv, DomainTypes, QueuesType, Places, Cancelling
<1>6. Places'
  BY <1>2, <1>3, <1>5 DEF DomainInv, Places, Answering, AnsweringCancelled, Cancelling
<1>7. ASSUME NEW r \in Requests  PROVE UserFits(r)' /\ refs'[r] = Holders(r)'
  <2>1. /\ Waits(r)' <=> Waits(r)
        /\ Cancelling(r)' <=> Cancelling(r) \/ r = q
        /\ resolver'.request = resolver.request /\ resolver'.pc = resolver.pc
    BY <1>3, <1>5 DEF Waits, Cancelling
  <2>2. UserFits(r) /\ refs[r] = Holders(r)
    BY DEF DomainInv
  <2>3. UserFits(r)'
    BY <1>2, <1>3, <2>1, <2>2 DEF UserFits
  <2>4. refs'[r] = Holders(r)'
    <3>1. CASE r = q
      <4>1. /\ ~Cancelling(r) /\ Cancelling(r)' /\ user[r].phase = "sent" /\ refs' = refs
            /\ user'[r].phase = "cancelled" /\ refs[r] = Holders(r)
        BY <1>2, <1>3, <2>1, <2>2, <3>1
      <4>2. Holders(r) = 1 + (IF Waits(r) \/ resolver.request = r THEN 1 ELSE 0) + 0
        BY <4>1, HoldersAre
      <4>3. Holders(r)' = 0 + (IF Waits(r) \/ resolver.request = r THEN 1 ELSE 0) + 1
        BY <2>1, <4>1, HoldersAre
      <4> QED BY <4>1, <4>2, <4>3
    <3>2. CASE r # q
      BY <1>3, <2>1, <2>2, <3>2, HoldersAre
    <3> QED BY <3>1, <3>2
  <2> QED BY <2>3, <2>4
<1> QED BY <1>4, <1>6, <1>7 DEF DomainInv

\* A deadline passes.
LEMMA DeadlineKeeps ==
  ASSUME NoRequest \notin Requests, DomainInv, NEW q \in Requests, DeadlinePasses(q)
  PROVE  DomainInv'
<1>1. UNCHANGED <<user, refs, queues, main, resolver>>
  BY DEF DeadlinePasses
<1>2. Places' /\ QueuesType' /\ main' \in Seq(Requests) /\ ResolverType'
      /\ \A r : (Waits(r)' <=> Waits(r)) /\ (Cancelling(r)' <=> Cancelling(r))
  BY <1>1, ListsStay
<1>3. due' \in [Requests -> BOOLEAN]
  BY DEF DeadlinePasses, DomainInv, DomainTypes
<1>4. DomainTypes'
  BY <1>1, <1>2, <1>3 DEF DomainInv, DomainTypes, UserType
<1>5. ASSUME NEW r \in Requests  PROVE UserFits(r)' /\ refs'[r] = Holders(r)'
  <2>1. UserFits(r) /\ refs[r] = Holders(r)
    BY DEF DomainInv
  <2>2. UserFits(r)'
    BY <1>1, <1>2, <2>1 DEF UserFits
  <2> QED BY <1>1, <1>2, <2>1, <2>2, HoldersAre
<1> QED BY <1>2, <1>4, <1>5 DEF DomainInv

\* Whatever the user does.
LEMMA UserKeeps ==
  ASSUME NoRequest \notin Requests, DomainInv, NEW r \in Requests, UserStep(r)  PROVE DomainInv'
<1>1. CASE SeeResult(r) \/ CancelNow(r)
  BY <1>1, DeletedKeeps DEF SeeResult, CancelNow
<1> QED BY <1>1, PostKeeps, CancelSentKeeps, DeadlineKeeps DEF UserStep

\* A step of the thread between two answers.
LEMMA PauseKeeps ==
  ASSUME NoRequest \notin Requests, DomainInv, UNCHANGED <<user, refs, due, queues, main>>,
         ResolverType', ~Answering, ~Answering', UNCHANGED resolver.request,
         UNCHANGED resolver.cancel, resolver.cancel = <<>>
  PROVE  DomainInv'
<1>1. resolver.request = NoRequest /\ resolver'.request = NoRequest
  BY DEF DomainInv, Places
<1>2. DomainTypes'
  BY DEF DomainInv, DomainTypes, UserType, QueuesType
<1>3. Places'
  BY <1>1 DEF DomainInv, Places, AnsweringCancelled
<1>4. ASSUME NEW r \in Requests  PROVE UserFits(r)' /\ refs'[r] = Holders(r)'
  <2>1. UserFits(r) /\ refs[r] = Holders(r)
    BY DEF DomainInv
  <2>2. (Waits(r)' <=> Waits(r)) /\ (Cancelling(r)' <=> Cancelling(r))
    BY <1>1 DEF Waits, Cancelling
  <2>3. UserFits(r)'
    BY <1>1, <2>1, <2>2 DEF UserFits
  <2> QED BY <1>1, <2>1, <2>2, <2>3, HoldersAre
<1> QED BY <1>2, <1>3, <1>4 DEF DomainInv

\* Outside of the cancellation the thread has nothing to cancel in hand.
LEMMA NothingToCancel ==
  ASSUME DomainInv, resolver.pc \in {"asleep", "main", "late", "batch", "front"}
  PROVE  resolver.cancel = <<>> /\ ~Answering /\ resolver.request = NoRequest
BY DEF DomainInv, Places, Answering

\* The steps of the thread between two answers.
LEMMA PausesKeep ==
  ASSUME NoRequest \notin Requests, DomainInv, BatchSize \in Int,
         StartMain \/ StartBatch \/ EndBatch \/ Sleep \/ EndCancel
  PROVE  DomainInv'
<1> USE DEF Answering
<1>1. resolver.cancel = <<>> /\ ~Answering
  BY NothingToCancel DEF StartMain, StartBatch, EndBatch, Sleep, EndCancel
<1>2. {r \in ToSet(main) : due[r]} \subseteq Requests
  BY ElementOfSeq DEF DomainInv, DomainTypes, ToSet
<1>3. resolver \in Resolvers
  BY DEF DomainInv, DomainTypes, ResolverType
<1>a. {"late", "front", "batch", "asleep", "main"} \subseteq ResolverPcs
  BY DEF ResolverPcs
<1>4. CASE StartMain
  <2>1. ResolverType' /\ resolver'.pc \in {"late", "front", "batch", "asleep", "main"}
        /\ resolver'.request = resolver.request /\ resolver'.cancel = resolver.cancel
    BY <1>1, <1>2, <1>3, <1>4, <1>a DEF StartMain, ResolverType, Resolvers
  <2> QED BY <1>1, <1>4, <2>1, PauseKeeps DEF StartMain
<1>5. CASE StartBatch
  <2>1. ResolverType' /\ resolver'.pc \in {"late", "front", "batch", "asleep", "main"}
        /\ resolver'.request = resolver.request /\ resolver'.cancel = resolver.cancel
    BY <1>1, <1>3, <1>5, <1>a DEF StartBatch, ResolverType, Resolvers
  <2> QED BY <1>1, <1>5, <2>1, PauseKeeps DEF StartBatch
<1>6. CASE EndBatch
  <2>1. PICK p, n : p = "front" /\ n = 0
    OBVIOUS
  <2>2. p \in ResolverPcs /\ n \in Int /\ resolver \in Resolvers
    BY <1>3, <1>a, <2>1
  <2>3. resolver' = [resolver EXCEPT !.pc = p, !.left = n]
    BY <1>6, <2>1 DEF EndBatch
  <2>4. ResolverType' /\ resolver'.pc = p /\ resolver'.request = resolver.request
        /\ resolver'.cancel = resolver.cancel
    BY ONLY <2>2, <2>3 DEF ResolverType, Resolvers
  <2> QED BY <1>1, <1>6, <2>1, <2>4, PauseKeeps DEF EndBatch
<1>7. CASE Sleep
  <2>1. ResolverType' /\ resolver'.pc \in {"late", "front", "batch", "asleep", "main"}
        /\ resolver'.request = resolver.request /\ resolver'.cancel = resolver.cancel
    BY <1>1, <1>3, <1>7, <1>a DEF Sleep, ResolverType, Resolvers
  <2> QED BY <1>1, <1>7, <2>1, PauseKeeps DEF Sleep
<1>8. CASE EndCancel
  <2>1. ResolverType' /\ resolver'.pc \in {"late", "front", "batch", "asleep", "main"}
        /\ resolver'.request = resolver.request /\ resolver'.cancel = resolver.cancel
    BY <1>1, <1>3, <1>8, <1>a DEF EndCancel, ResolverType, Resolvers
  <2> QED BY <1>1, <1>8, <2>1, PauseKeeps DEF EndCancel
<1> QED BY <1>4, <1>5, <1>6, <1>7, <1>8

\* A callback is given a request that has left the main queue.
LEMMA AnswerKeeps ==
  ASSUME NoRequest \notin Requests, DomainInv, UNCHANGED <<user, refs, due, queues>>,
         ~Answering, NEW q \in ToSet(main),
         main' \in Seq(Requests), IsInjective(main'), ToSet(main') = ToSet(main) \ {q},
         ResolverType', resolver'.pc = "write", resolver'.request = q,
         \/ /\ resolver'.after # "cancel"
            /\ resolver.cancel = <<>> /\ resolver'.cancel = <<>>
         \/ /\ resolver'.after = "cancel" /\ resolver.cancel # <<>>
            /\ q = Head(resolver.cancel) /\ resolver'.cancel = Tail(resolver.cancel)
  PROVE  DomainInv'
<1>0. q \in Requests
  BY ElementOfSeq DEF DomainInv, DomainTypes, ToSet
<1>1. resolver.request = NoRequest
  BY DEF DomainInv, Places
<1>2. DomainTypes'
  BY DEF DomainInv, DomainTypes, UserType, QueuesType
<1>3. /\ IsInjective(resolver'.cancel)
      /\ resolver'.after # "cancel" => ToSet(resolver'.cancel) = ToSet(resolver.cancel)
      /\ resolver'.after = "cancel" =>
           q \in ToSet(resolver.cancel) /\ ToSet(resolver'.cancel) = ToSet(resolver.cancel) \ {q}
  <2>1. CASE resolver'.after # "cancel"
    BY <2>1, SetOfEmpty
  <2>2. CASE resolver'.after = "cancel"
    <3>1. resolver.cancel \in Seq(Requests) /\ IsInjective(resolver.cancel)
      BY DEF DomainInv, DomainTypes, ResolverType, Resolvers, Places
    <3>2. resolver.cancel # <<>> /\ q = Head(resolver.cancel)
            /\ resolver'.cancel = Tail(resolver.cancel)
      BY <2>2
    <3> QED BY <2>2, <3>1, <3>2, SetOfTail
  <2> QED BY <2>1, <2>2
<1>4. Places'
  BY <1>0, <1>1, <1>3 DEF DomainInv, Places, Answering, AnsweringCancelled
<1>5. ASSUME NEW r \in Requests  PROVE UserFits(r)' /\ refs'[r] = Holders(r)'
  <2>1. UserFits(r) /\ refs[r] = Holders(r)
    BY DEF DomainInv
  <2>2. /\ Waits(r)' <=> Waits(r) /\ r # q
        /\ Cancelling(r)' <=> Cancelling(r)
        /\ Waits(q) /\ resolver.request # r
    BY <1>0, <1>1, <1>3 DEF Waits, Cancelling, DomainInv, Places
  <2>3. UserFits(r)'
    BY <2>1, <2>2 DEF UserFits
  <2>4. refs'[r] = Holders(r)'
    BY <2>1, <2>2, HoldersAre
  <2> QED BY <2>3, <2>4
<1> QED BY <1>2, <1>4, <1>5 DEF DomainInv

\* Taking a request out of the middle of the main queue.
LEMMA WithoutIs ==
  ASSUME DomainInv, NEW q \in ToSet(main)
  PROVE  Without(q) \in Seq(Requests) /\ IsInjective(Without(q))
           /\ ToSet(Without(q)) = ToSet(main) \ {q}
<1> DEFINE k == CHOOSE n \in DOMAIN main : main[n] = q
<1>1. k \in DOMAIN main /\ main[k] = q
  BY DEF ToSet
<1> HIDE DEF k
<1>2. main \in Seq(Requests) /\ IsInjective(main)
  BY DEF DomainInv, DomainTypes, Places
<1>3. Without(q) = RemoveAt(main, k)
  BY DEF Without, k
<1> QED BY <1>1, <1>2, <1>3, SetOfRemoveAt

\* A request is answered in time or too late.
LEMMA AnswersKeep ==
  ASSUME NoRequest \notin Requests, DomainInv, TimeOut \/ Process  PROVE DomainInv'
<1>1. resolver.cancel = <<>> /\ ~Answering
  BY NothingToCancel DEF TimeOut, Process
<1>2. resolver \in Resolvers
      /\ main \in Seq(Requests) /\ IsInjective(main)
  BY DEF DomainInv, DomainTypes, ResolverType, Places
<1>a. "write" \in ResolverPcs /\ {"late", "batch"} \subseteq AfterAnswer
  BY DEF ResolverPcs, AfterAnswer
<1>3. CASE TimeOut
  <2>1. PICK q \in ToSet(main) : main' = Without(q) /\ resolver' = Answer(q, "late")
    BY <1>3 DEF TimeOut
  <2>2. q \in Requests
    BY <1>2, ElementOfSeq DEF ToSet
  <2>3. /\ ResolverType' /\ resolver'.pc = "write" /\ resolver'.request = q
        /\ resolver'.after = "late" /\ resolver'.cancel = resolver.cancel
    BY <1>2, <1>a, <2>1, <2>2 DEF Answer, ResolverType, Resolvers
  <2> QED BY <1>1, <1>3, <2>1, <2>3, WithoutIs, AnswerKeeps DEF TimeOut
<1>4. CASE Process
  <2>1. /\ Tail(main) \in Seq(Requests) /\ Head(main) \in Requests /\ Head(main) \in ToSet(main)
        /\ IsInjective(Tail(main)) /\ ToSet(Tail(main)) = ToSet(main) \ {Head(main)}
    BY <1>2, <1>4, SetOfTail DEF Process
  <2>2. /\ ResolverType' /\ resolver'.pc = "write" /\ resolver'.request = Head(main)
        /\ resolver'.after = "batch" /\ resolver'.cancel = resolver.cancel
    <3>1. resolver.left - 1 \in Int
      BY <1>2 DEF Resolvers
    <3>2. resolver' = [[resolver EXCEPT !.pc = "write", !.after = "batch", !.request = Head(main)]
                       EXCEPT !.left = resolver.left - 1]
      BY <1>4 DEF Process, Answer
    <3>3. PICK p, a : p = "write" /\ a = "batch"
      OBVIOUS
    <3>4. p \in ResolverPcs /\ a \in AfterAnswer /\ Head(main) \in Requests
            /\ resolver \in Resolvers
      BY <1>2, <1>a, <2>1, <3>3
    <3> DEFINE answer == [resolver EXCEPT !.pc = p, !.after = a, !.request = Head(main)]
    <3>5. /\ answer \in Resolvers /\ answer.pc = p /\ answer.request = Head(main)
          /\ answer.after = a /\ answer.cancel = resolver.cancel
      BY ONLY <3>4 DEF Resolvers
    <3>6. resolver' = [answer EXCEPT !.left = resolver.left - 1]
      BY <3>2, <3>3
    <3> HIDE DEF answer
    <3> QED BY <3>1, <3>3, <3>5, <3>6 DEF ResolverType, Resolvers
  <2> QED BY <1>1, <1>4, <2>1, <2>2, AnswerKeeps DEF Process
<1> QED BY <1>3, <1>4

\* The result is written, if the user still waits for it.
LEMMA WriteKeeps ==
  ASSUME NoRequest \notin Requests, DomainInv, WriteResult  PROVE DomainInv'
<1> DEFINE q == resolver.request
<1>0. resolver \in Resolvers /\ Answering
  BY DEF WriteResult, DomainInv, DomainTypes, ResolverType, Answering
<1>1. q \in Requests
  BY <1>0 DEF DomainInv, Places, Resolvers
<1>2. UserFits(q)
  BY <1>1 DEF DomainInv
<1>3. user[q].answers = 0 /\ resolver.pc = "write"
  BY <1>1, <1>2 DEF WriteResult, UserFits
<1> HIDE DEF q
<1>4. /\ user'[q].phase = user[q].phase /\ user'[q].pending = user[q].pending
      /\ user'[q].alive = user[q].alive /\ user'[q].answers = 1
      /\ \A r \in Requests : r # q => user'[r] = user[r]
      /\ UserType'
  <2>1. user' = [user EXCEPT ![q].answers = 1]
    <3>1. user' = [user EXCEPT ![q].answers = user[q].answers + 1]
      BY DEF WriteResult, q
    <3> QED BY <1>3, <3>1
  <2> QED BY <1>1, <2>1 DEF DomainInv, DomainTypes, UserType
<1>5. ResolverType' /\ resolver'.pc = "tell" /\ resolver'.request = resolver.request
      /\ resolver'.after = resolver.after /\ resolver'.cancel = resolver.cancel
  BY <1>0 DEF WriteResult, ResolverType, Resolvers, ResolverPcs
<1>6. DomainTypes'
  BY <1>4, <1>5 DEF WriteResult, DomainInv, DomainTypes, QueuesType
<1>7. Places'
  BY <1>0, <1>5 DEF WriteResult, DomainInv, Places, Answering, AnsweringCancelled
<1>8. ASSUME NEW r \in Requests  PROVE UserFits(r)' /\ refs'[r] = Holders(r)'
  <2>1. UserFits(r) /\ refs[r] = Holders(r)
    BY DEF DomainInv
  <2>2. (Waits(r)' <=> Waits(r)) /\ (Cancelling(r)' <=> Cancelling(r)) /\ ~Waits(q)
        /\ resolver.request = q /\ refs' = refs
    BY <1>5 DEF WriteResult, Waits, Cancelling, DomainInv, Places, q
  <2>3. UserFits(r)'
    BY <1>3, <1>4, <1>5, <2>1, <2>2 DEF UserFits
  <2>4. refs'[r] = Holders(r)'
    BY <1>4, <1>5, <2>1, <2>2, HoldersAre
  <2> QED BY <2>3, <2>4
<1> QED BY <1>6, <1>7, <1>8 DEF DomainInv

\* The callback is called.
LEMMA TellKeeps ==
  ASSUME NoRequest \notin Requests, DomainInv, TellUser  PROVE DomainInv'
<1> DEFINE q == resolver.request
<1>0. resolver \in Resolvers /\ Answering
  BY DEF TellUser, DomainInv, DomainTypes, ResolverType, Answering
<1>1. q \in Requests
  BY <1>0 DEF DomainInv, Places, Resolvers
<1>2. UserFits(q)
  BY <1>1 DEF DomainInv
<1>3. resolver.pc = "tell" /\ (user[q].pending \/ user[q].phase = "cancelled")
  BY <1>1, <1>2 DEF TellUser, UserFits
<1>a. user' = IF user[q].pending THEN [user EXCEPT ![q].pending = FALSE]
              ELSE [user EXCEPT ![q].phase = "gone", ![q].alive = FALSE]
  BY DEF TellUser
<1> HIDE DEF q
<1>4. /\ user'[q].pending = FALSE /\ user'[q].answers = user[q].answers
      /\ user[q].pending => user'[q].phase = user[q].phase /\ user'[q].alive = user[q].alive
      /\ ~user[q].pending => user'[q].phase = "gone" /\ user'[q].alive = FALSE
      /\ \A r \in Requests : r # q => user'[r] = user[r]
      /\ UserType'
  <2>1. CASE user[q].pending
    <3>1. user' = [user EXCEPT ![q].pending = FALSE]
      BY <1>a, <2>1
    <3> QED BY <1>1, <2>1, <3>1 DEF DomainInv, DomainTypes, UserType
  <2>2. CASE ~user[q].pending
    <3>1. user' = [user EXCEPT ![q].phase = "gone", ![q].alive = FALSE]
      BY <1>a, <2>2
    <3> QED BY <1>1, <2>2, <3>1 DEF DomainInv, DomainTypes, UserType
  <2> QED BY <2>1, <2>2
<1>5. ResolverType' /\ resolver'.pc = "release" /\ resolver'.request = resolver.request
      /\ resolver'.after = resolver.after /\ resolver'.cancel = resolver.cancel
  BY <1>0 DEF TellUser, ResolverType, Resolvers, ResolverPcs
<1>6. DomainTypes'
  BY <1>4, <1>5 DEF TellUser, DomainInv, DomainTypes, QueuesType
<1>7. Places'
  BY <1>0, <1>5 DEF TellUser, DomainInv, Places, Answering, AnsweringCancelled
<1>8. ASSUME NEW r \in Requests  PROVE UserFits(r)' /\ refs'[r] = Holders(r)'
  <2>1. UserFits(r) /\ refs[r] = Holders(r)
    BY DEF DomainInv
  <2>2. (Waits(r)' <=> Waits(r)) /\ (Cancelling(r)' <=> Cancelling(r)) /\ ~Waits(q)
        /\ resolver.request = q /\ refs' = refs
    BY <1>5 DEF TellUser, Waits, Cancelling, DomainInv, Places, q
  <2>3. UserFits(r)'
    BY <1>2, <1>3, <1>4, <1>5, <2>1, <2>2 DEF UserFits
  <2>4. user'[r].phase = "sent" <=> user[r].phase = "sent"
    BY <1>2, <1>3, <1>4 DEF UserFits
  <2>5. refs'[r] = Holders(r)'
    BY <1>5, <2>1, <2>2, <2>4, HoldersAre
  <2> QED BY <2>3, <2>5
<1> QED BY <1>6, <1>7, <1>8 DEF DomainInv

\* The thread gives its reference up.
LEMMA ReleaseKeeps ==
  ASSUME NoRequest \notin Requests, DomainInv, Release  PROVE DomainInv'
<1> DEFINE q == resolver.request
<1>0. resolver \in Resolvers /\ Answering /\ resolver.pc = "release"
  BY DEF Release, DomainInv, DomainTypes, ResolverType, Answering
<1>1. q \in Requests
  BY <1>0 DEF DomainInv, Places, Resolvers
<1>2. refs[q] = Holders(q) /\ refs[q] \in Int /\ q # NoRequest
  BY <1>1 DEF DomainInv, DomainTypes
<1>3. /\ refs'[q] = (IF resolver.after = "cancel" THEN refs[q] - 2 ELSE refs[q] - 1)
      /\ \A r \in Requests : r # q => refs'[r] = refs[r]
      /\ refs' \in [Requests -> Int]
  BY <1>1, <1>2 DEF Release, DomainInv, DomainTypes
<1>4. /\ ResolverType' /\ resolver'.pc = resolver.after /\ resolver'.request = NoRequest
      /\ resolver'.after = resolver.after /\ resolver'.cancel = resolver.cancel
  <2>1. resolver.after \in ResolverPcs
    BY <1>0 DEF Resolvers, AfterAnswer, ResolverPcs
  <2> QED BY <1>0, <2>1 DEF Release, ResolverType, Resolvers
<1>5. resolver'.pc \in AfterAnswer
  BY <1>0, <1>4 DEF Resolvers
<1>6. DomainTypes'
  BY <1>3, <1>4 DEF Release, DomainInv, DomainTypes, QueuesType, UserType
<1>a. NoRequest \notin ToSet(queues.front) \cup ToSet(main)
  <2>1. queues.front \in Seq(Requests) /\ main \in Seq(Requests)
    BY DEF DomainInv, DomainTypes, QueuesType
  <2> QED BY <2>1, ElementOfSeq DEF ToSet
<1>7. Places'
  BY <1>0, <1>4, <1>5, <1>a
     DEF Release, DomainInv, Places, Answering, AnsweringCancelled, AfterAnswer
<1>8. ASSUME NEW r \in Requests  PROVE UserFits(r)' /\ refs'[r] = Holders(r)'
  <2>1. UserFits(r) /\ refs[r] = Holders(r)
    BY DEF DomainInv
  <2>2. /\ Waits(r)' <=> Waits(r)
        /\ Cancelling(r)' <=> Cancelling(r) /\ ~(r = q /\ resolver.after = "cancel")
        /\ r = q => ~Waits(r)
        /\ resolver.after = "cancel" => Cancelling(q)
        /\ resolver.request = q /\ resolver'.request # r /\ user' = user
    BY <1>2, <1>4 DEF Release, Waits, Cancelling, DomainInv, Places, AnsweringCancelled
  <2>3. UserFits(r)'
    BY <1>0, <1>4, <2>1, <2>2 DEF UserFits, Cancelling
  <2>e. /\ Holders(r) = (IF user[r].phase = "sent" THEN 1 ELSE 0)
                        + (IF Waits(r) \/ q = r THEN 1 ELSE 0)
                        + (IF Cancelling(r) THEN 1 ELSE 0)
        /\ Holders(r)' = (IF user[r].phase = "sent" THEN 1 ELSE 0)
                         + (IF Waits(r) THEN 1 ELSE 0)
                         + (IF Cancelling(r)' THEN 1 ELSE 0)
    BY <2>2, HoldersAre
  <2>4. CASE r # q
    BY <1>3, <2>1, <2>2, <2>4, <2>e, <2>3
  <2>5. CASE r = q
    <3>1. CASE resolver.after = "cancel"
      BY <1>2, <1>3, <2>1, <2>2, <2>5, <2>e, <3>1, <2>3
    <3>2. CASE resolver.after # "cancel"
      BY <1>2, <1>3, <2>1, <2>2, <2>5, <2>e, <3>2, <2>3
    <3> QED BY <3>1, <3>2
  <2> QED BY <2>3, <2>4, <2>5
<1> QED BY <1>6, <1>7, <1>8 DEF DomainInv

\* A cancelled request is answered at once, if it is still in the main queue.
LEMMA CancelOneKeeps ==
  ASSUME NoRequest \notin Requests, DomainInv, CancelOne  PROVE DomainInv'
<1> DEFINE q == Head(resolver.cancel)
<1>0. /\ resolver \in Resolvers /\ ~Answering /\ resolver.pc = "cancel" /\ resolver.cancel # <<>>
      /\ resolver.request = NoRequest
  BY DEF CancelOne, DomainInv, DomainTypes, ResolverType, Answering, Places
<1>1. resolver.cancel \in Seq(Requests) /\ IsInjective(resolver.cancel)
  BY <1>0 DEF Resolvers, DomainInv, Places
<1>2. /\ Tail(resolver.cancel) \in Seq(Requests) /\ q \in Requests /\ q \in ToSet(resolver.cancel)
      /\ IsInjective(Tail(resolver.cancel))
      /\ ToSet(Tail(resolver.cancel)) = ToSet(resolver.cancel) \ {q}
  BY <1>0, <1>1, SetOfTail
<1> HIDE DEF q
<1>3. CASE q \in ToSet(main)
  <2>1. /\ main' = Without(q) /\ UNCHANGED <<user, refs, due, queues>>
        /\ resolver' = [Answer(q, "cancel") EXCEPT !.cancel = Tail(resolver.cancel)]
    BY <1>3 DEF CancelOne, Answer, q
  <2>2. PICK p, a : p = "write" /\ a = "cancel"
    OBVIOUS
  <2>3. p \in ResolverPcs /\ a \in AfterAnswer
    BY <2>2 DEF ResolverPcs, AfterAnswer
  <2> DEFINE answer == [resolver EXCEPT !.pc = p, !.after = a, !.request = q]
  <2>4. answer \in Resolvers /\ answer.pc = p /\ answer.request = q /\ answer.after = a
    BY ONLY <1>0, <1>2, <2>3 DEF Resolvers
  <2>5. resolver' = [answer EXCEPT !.cancel = Tail(resolver.cancel)]
    BY <2>1, <2>2 DEF Answer
  <2> HIDE DEF answer
  <2>6. /\ ResolverType' /\ resolver'.pc = "write" /\ resolver'.request = q
        /\ resolver'.after = "cancel" /\ resolver'.cancel = Tail(resolver.cancel)
    BY <1>2, <2>2, <2>4, <2>5 DEF ResolverType, Resolvers
  <2>7. q = Head(resolver.cancel)
    BY DEF q
  <2> QED BY <1>0, <1>3, <2>1, <2>6, <2>7, WithoutIs, AnswerKeeps
<1>4. CASE q \notin ToSet(main)
  <2>1. /\ refs' = [refs EXCEPT ![q] = refs[q] - 1] /\ UNCHANGED <<user, due, queues, main>>
        /\ resolver' = [resolver EXCEPT !.cancel = Tail(resolver.cancel)]
    BY <1>4 DEF CancelOne, q
  <2>2. /\ ResolverType' /\ resolver'.pc = resolver.pc /\ resolver'.request = NoRequest
        /\ resolver'.after = resolver.after /\ resolver'.cancel = Tail(resolver.cancel)
    BY <1>0, <1>2, <2>1 DEF ResolverType, Resolvers
  <2>3. refs[q] = Holders(q) /\ refs[q] \in Int /\ UserFits(q) /\ NoRequest # q
    BY <1>2 DEF DomainInv, DomainTypes
  <2>4. /\ refs'[q] = refs[q] - 1 /\ \A r \in Requests : r # q => refs'[r] = refs[r]
        /\ refs' \in [Requests -> Int]
    BY <1>2, <2>1, <2>3 DEF DomainInv, DomainTypes
  <2>5. DomainTypes'
    BY <2>1, <2>2, <2>4 DEF DomainInv, DomainTypes, QueuesType, UserType
  <2>6. Places'
    BY <1>0, <1>2, <2>1, <2>2 DEF DomainInv, Places, Answering, AnsweringCancelled
  <2>7. ASSUME NEW r \in Requests  PROVE UserFits(r)' /\ refs'[r] = Holders(r)'
    <3>1. UserFits(r) /\ refs[r] = Holders(r)
      BY DEF DomainInv
    <3>2. /\ Waits(r)' <=> Waits(r)
          /\ Cancelling(r)' <=> (Cancelling(r) /\ r # q)
          /\ Cancelling(q)
          /\ resolver.request # r /\ resolver'.request # r
      BY <1>0, <1>2, <2>1, <2>2 DEF Waits, Cancelling, DomainInv, Places
    <3>4. UserFits(r)'
      BY <2>1, <2>2, <3>1, <3>2 DEF UserFits
    <3>5. CASE r # q
      BY <2>1, <2>4, <3>1, <3>2, <3>4, <3>5, HoldersAre
    <3>6. CASE r = q
      BY <2>1, <2>3, <2>4, <3>1, <3>2, <3>4, <3>6, HoldersAre
    <3> QED BY <3>5, <3>6
  <2> QED BY <2>5, <2>6, <2>7 DEF DomainInv
<1> QED BY <1>3, <1>4

\* The thread takes what was posted and what was cancelled.
LEMMA TakeKeeps ==
  ASSUME NoRequest \notin Requests, DomainInv, resolver.pc \in {"asleep", "front"}, Take
  PROVE  DomainInv'
<1>0. /\ resolver \in Resolvers /\ ~Answering /\ resolver.cancel = <<>>
      /\ resolver.request = NoRequest
  BY NothingToCancel DEF DomainInv, DomainTypes, ResolverType
<1>1. /\ queues.front \in Seq(Requests) /\ queues.cancel \in Seq(Requests) /\ main \in Seq(Requests)
      /\ <<>> \in Seq(Requests)
  BY EmptySeq DEF DomainInv, DomainTypes, QueuesType
<1>2. /\ main' = main \o queues.front /\ queues'.front = <<>> /\ queues'.cancel = <<>>
      /\ queues' = [front |-> <<>>, cancel |-> <<>>, signal |-> FALSE]
      /\ resolver' = [resolver EXCEPT !.pc = "cancel", !.cancel = queues.cancel]
      /\ UNCHANGED <<user, refs, due>>
  BY DEF Take
<1>3. PICK p : p = "cancel"
  OBVIOUS
<1>4. p \in ResolverPcs
  BY <1>3 DEF ResolverPcs
<1>5. resolver' = [resolver EXCEPT !.pc = p, !.cancel = queues.cancel]
  BY <1>2, <1>3
<1>6. /\ ResolverType' /\ resolver'.pc = p /\ resolver'.request = resolver.request
      /\ resolver'.cancel = queues.cancel /\ resolver'.after = resolver.after
  BY ONLY <1>0, <1>1, <1>4, <1>5 DEF ResolverType, Resolvers
<1>7. /\ main' \in Seq(Requests) /\ ToSet(main') = ToSet(main) \cup ToSet(queues.front)
      /\ IsInjective(main')
  BY <1>1, <1>2, SetOfConcat DEF DomainInv, Places
<1>8. DomainTypes'
  BY <1>1, <1>2, <1>6, <1>7 DEF DomainInv, DomainTypes, QueuesType, UserType
<1>9. Places'
  BY <1>0, <1>2, <1>3, <1>6, <1>7, SetOfEmpty DEF DomainInv, Places, Answering, AnsweringCancelled
<1>10. ASSUME NEW r \in Requests  PROVE UserFits(r)' /\ refs'[r] = Holders(r)'
  <2>1. UserFits(r) /\ refs[r] = Holders(r)
    BY DEF DomainInv
  <2>2. (Waits(r)' <=> Waits(r)) /\ (Cancelling(r)' <=> Cancelling(r)) /\ resolver.request # r
    BY <1>0, <1>2, <1>6, <1>7, SetOfEmpty DEF Waits, Cancelling
  <2>3. UserFits(r)'
    BY <1>2, <1>6, <2>1, <2>2 DEF UserFits
  <2> QED BY <1>2, <1>6, <2>1, <2>2, <2>3, HoldersAre
<1> QED BY <1>8, <1>9, <1>10 DEF DomainInv

\* The invariant of the resolver is inductive.
LEMMA DomainStep ==
  ASSUME NoRequest \notin Requests, BatchSize \in Int, DomainInv, [DomainNext]_domainVars
  PROVE  DomainInv'
<1>1. CASE UNCHANGED domainVars
  <2>1. UNCHANGED <<user, refs, due, queues, main, resolver>>
    BY <1>1 DEF domainVars
  <2>2. Places' /\ QueuesType' /\ main' \in Seq(Requests) /\ ResolverType'
        /\ \A r : (Waits(r)' <=> Waits(r)) /\ (Cancelling(r)' <=> Cancelling(r))
    BY <2>1, ListsStay
  <2>3. DomainTypes'
    BY <2>1, <2>2 DEF DomainInv, DomainTypes, UserType
  <2>4. ASSUME NEW r \in Requests  PROVE UserFits(r)' /\ refs'[r] = Holders(r)'
    <3>1. UserFits(r) /\ refs[r] = Holders(r)
      BY DEF DomainInv
    <3>2. UserFits(r)'
      BY <2>1, <2>2, <3>1 DEF UserFits
    <3> QED BY <2>1, <2>2, <3>1, <3>2, HoldersAre
  <2> QED BY <2>2, <2>3, <2>4 DEF DomainInv
<1>2. CASE ResolverStep
  BY <1>2, PausesKeep, AnswersKeep, WriteKeeps, TellKeeps, ReleaseKeeps, TakeKeeps, CancelOneKeeps
     DEF ResolverStep, Awake, StayAwake
<1>3. CASE WakeForNothing
  BY <1>3, TakeKeeps DEF WakeForNothing
<1> QED BY <1>1, <1>2, <1>3, UserKeeps DEF DomainNext

\* Whatever the users and the thread do in turn, a request is answered once, its callback
\* meets its owner alive, and it has as many references as holders (DomainToIP.cpp:209-383).
THEOREM RequestsStaySafe ==
  ASSUME NoRequest \notin Requests, BatchSize \in Int
  PROVE  DomainInit /\ [][DomainNext]_domainVars => []RequestsAreSafe
<1>1. DomainInit => DomainInv
  BY DomainInitially
<1>2. DomainInv /\ [DomainNext]_domainVars => DomainInv'
  BY DomainStep
<1>3. DomainInv => RequestsAreSafe
  BY RequestsAreRight
<1> QED BY <1>1, <1>2, <1>3, PTL

-----------------------------------------------------------------------------
(* The pool: lists whose second element goes or comes.                      *)

\* The first object of a chain's list is the second of the chain: without it the chain
\* keeps the others.
LEMMA SecondGone ==
  ASSUME NEW S, NEW c \in Seq(S), Len(c) > 1, IsInjective(c),
         NEW r, r = <<Head(c)>> \o SubSeq(c, 3, Len(c))
  PROVE  /\ r \in Seq(S) /\ r # <<>> /\ Len(r) = Len(c) - 1 /\ IsInjective(r)
         /\ ToSet(r) = ToSet(c) \ {c[2]} /\ c[2] \in ToSet(c) /\ c[2] \in S
<1>1. /\ Len(c) \in Nat /\ DOMAIN c = 1..Len(c) /\ 2 \in 1..Len(c) /\ c[2] \in S
      /\ Head(c) = c[1] /\ c[1] \in S
  BY LenProperties, ElementOfSeq, HeadTailProperties
<1>2. SubSeq(c, 1, 1) = <<c[1]>>
  <2>1. /\ SubSeq(c, 1, 1) \in Seq(S) /\ Len(SubSeq(c, 1, 1)) = 1 /\ SubSeq(c, 1, 1)[1] = c[1]
    BY <1>1, SubSeqProperties
  <2>2. <<c[1]>> \in Seq(S) /\ Len(<<c[1]>>) = 1 /\ <<c[1]>>[1] = c[1]
    BY <1>1
  <2> DEFINE a == SubSeq(c, 1, 1)
             b == <<c[1]>>
  <2>3. a \in Seq(S) /\ b \in Seq(S) /\ Len(a) = Len(b) /\ Len(a) = 1 /\ a[1] = b[1]
    BY <2>1, <2>2
  <2> HIDE DEF a, b
  <2>4. \A i \in 1..Len(a) : a[i] = b[i]
    BY <2>3
  <2>5. a = b
    BY ONLY <2>3, <2>4, SeqEqual
  <2> QED BY <2>5 DEF a, b
<1>3. r = RemoveAt(c, 2)
  BY <1>1, <1>2 DEF RemoveAt
<1>4. r \in Seq(S) /\ IsInjective(r) /\ ToSet(r) = ToSet(c) \ {c[2]}
  <2> HIDE DEF RemoveAt
  <2>1. 2 \in DOMAIN c
    BY <1>1
  <2>2. /\ RemoveAt(c, 2) \in Seq(S)
        /\ IsInjective(RemoveAt(c, 2)) /\ ToSet(RemoveAt(c, 2)) = ToSet(c) \ {c[2]}
    BY <2>1, SetOfRemoveAt, Zenon
  <2> QED BY <1>3, <2>2, Zenon
<1>5. Len(r) = Len(c) - 1
  BY <1>1
<1>6. c[2] \in ToSet(c)
  BY <1>1 DEF ToSet
<1>7. r # <<>>
  BY <1>1, <1>5
<1> QED BY <1>1, <1>4, <1>5, <1>6, <1>7

\* An object that joins a chain comes after its container.
Joined(c, o) == <<Head(c), o>> \o Tail(c)

\* A chain that an object joins keeps the others.
LEMMA SecondNew ==
  ASSUME NEW S, NEW c \in Seq(S), c # <<>>, IsInjective(c), NEW o \in S, o \notin ToSet(c),
         NEW r, r = Joined(c, o)
  PROVE  /\ r \in Seq(S) /\ r # <<>> /\ Len(r) = Len(c) + 1 /\ IsInjective(r)
         /\ ToSet(r) = ToSet(c) \cup {o}
<1>1. /\ Len(c) \in Nat /\ Len(c) > 0 /\ DOMAIN c = 1..Len(c) /\ Head(c) = c[1]
      /\ Tail(c) \in Seq(S) /\ Len(Tail(c)) = Len(c) - 1 /\ c[1] \in S
      /\ \A i \in 1..(Len(c) - 1) : Tail(c)[i] = c[i + 1]
      /\ \A i \in 1..Len(c) : c[i] \in S
  BY LenProperties, ElementOfSeq, HeadTailProperties, EmptySeq
<1>2. /\ r \in Seq(S) /\ Len(r) = Len(c) + 1 /\ DOMAIN r = 1..(Len(c) + 1)
      /\ \A i \in 1..(Len(c) + 1) : r[i] = IF i = 1 THEN c[1] ELSE IF i = 2 THEN o ELSE c[i - 1]
  BY <1>1 DEF Joined
<1>3. \A i, j \in DOMAIN c : c[i] = c[j] => i = j
  BY DEF IsInjective
<1>4. \A i \in DOMAIN c : c[i] # o
  BY DEF ToSet
<1>5. \A i, j \in DOMAIN r : r[i] = r[j] => i = j
  <2> SUFFICES ASSUME NEW i \in DOMAIN r, NEW j \in DOMAIN r, r[i] = r[j]  PROVE i = j
    OBVIOUS
  <2>1. CASE i = 2 \/ j = 2
    <3>1. r[2] = o
      BY <1>1, <1>2
    <3>2. \A k \in DOMAIN r : k # 2 => \E m \in DOMAIN c : r[k] = c[m]
      <4> SUFFICES ASSUME NEW k \in DOMAIN r, k # 2  PROVE \E m \in DOMAIN c : r[k] = c[m]
        OBVIOUS
      <4>1. k = 1 => 1 \in DOMAIN c /\ r[k] = c[1]
        BY <1>1, <1>2
      <4>2. k # 1 => k - 1 \in DOMAIN c /\ r[k] = c[k - 1]
        BY <1>1, <1>2
      <4> QED BY <4>1, <4>2
    <3>3. \A k \in DOMAIN r : r[k] = o => k = 2
      BY <1>4, <3>2
    <3> QED BY <2>1, <3>1, <3>3
  <2>2. CASE i # 2 /\ j # 2
    <3> DEFINE a == IF i = 1 THEN 1 ELSE i - 1
               b == IF j = 1 THEN 1 ELSE j - 1
    <3>1. a \in DOMAIN c /\ b \in DOMAIN c /\ r[i] = c[a] /\ r[j] = c[b]
      BY <1>1, <1>2, <2>2
    <3>2. a = b
      BY <1>3, <3>1
    <3> QED BY <1>1, <1>2, <2>2, <3>2
  <2> QED BY <2>1, <2>2
<1>6. ToSet(r) = ToSet(c) \cup {o}
  <2>1. \A i \in DOMAIN r : r[i] \in ToSet(c) \cup {o}
    <3> SUFFICES ASSUME NEW i \in DOMAIN r  PROVE r[i] \in ToSet(c) \cup {o}
      OBVIOUS
    <3>1. i = 2 => r[i] = o
      BY <1>2
    <3>2. i # 2 => \E a \in DOMAIN c : r[i] = c[a]
      BY <1>1, <1>2
    <3> QED BY <3>1, <3>2 DEF ToSet
  <2>2. \A i \in DOMAIN c : c[i] \in ToSet(r)
    <3> SUFFICES ASSUME NEW i \in DOMAIN c  PROVE c[i] \in ToSet(r)
      OBVIOUS
    <3> DEFINE a == IF i = 1 THEN 1 ELSE i + 1
    <3>1. a \in DOMAIN r /\ r[a] = c[i]
      BY <1>1, <1>2
    <3> QED BY <3>1 DEF ToSet
  <2>3. 2 \in DOMAIN r /\ r[2] = o
    BY <1>1, <1>2
  <2>4. \A e \in ToSet(r) : e \in ToSet(c) \cup {o}
    BY <2>1 DEF ToSet
  <2>5. \A e \in ToSet(c) : e \in ToSet(r)
    BY <2>2 DEF ToSet
  <2>6. o \in ToSet(r)
    BY <2>3 DEF ToSet
  <2> QED BY <2>4, <2>5, <2>6
<1>7. r # <<>>
  BY <1>1, <1>2
<1> QED BY <1>2, <1>5, <1>6, <1>7 DEF IsInjective

\* What is prepended to the list of chains is the first one, the others move on.
LEMMA Prepended ==
  ASSUME NEW S, NEW g \in Seq(S), NEW x \in S, NEW r, r = <<x>> \o g
  PROVE  /\ r \in Seq(S) /\ DOMAIN r = 1..(Len(g) + 1) /\ DOMAIN g = 1..Len(g) /\ Len(g) \in Nat
         /\ r[1] = x /\ \A n \in DOMAIN g : r[n + 1] = g[n] /\ n + 1 \in DOMAIN r
         /\ \A n \in DOMAIN r : n = 1 \/ (n - 1 \in DOMAIN g /\ r[n] = g[n - 1])
<1>1. Len(g) \in Nat /\ DOMAIN g = 1..Len(g)
  BY LenProperties
<1>2. /\ r \in Seq(S) /\ DOMAIN r = 1..(Len(g) + 1)
      /\ \A n \in 1..(Len(g) + 1) : r[n] = IF n = 1 THEN x ELSE g[n - 1]
  BY <1>1
<1> QED BY <1>1, <1>2

\* Without the first one the others move up.
LEMMA Popped ==
  ASSUME NEW S, NEW g \in Seq(S), g # <<>>, NEW r, r = Tail(g)
  PROVE  /\ r \in Seq(S) /\ Head(g) = g[1] /\ 1 \in DOMAIN g /\ g[1] \in S
         /\ DOMAIN g = 1..Len(g) /\ Len(g) \in Nat
         /\ \A n \in DOMAIN r : n + 1 \in DOMAIN g /\ r[n] = g[n + 1] /\ n + 1 # 1
         /\ \A n \in DOMAIN g : n = 1 \/ (n - 1 \in DOMAIN r /\ r[n - 1] = g[n])
<1>1. /\ Len(g) \in Nat /\ Len(g) > 0 /\ DOMAIN g = 1..Len(g) /\ Head(g) = g[1]
      /\ r \in Seq(S) /\ Len(r) = Len(g) - 1 /\ g[1] \in S
      /\ \A i \in 1..(Len(g) - 1) : r[i] = g[i + 1]
  BY LenProperties, ElementOfSeq, HeadTailProperties, EmptySeq
<1>2. DOMAIN r = 1..(Len(g) - 1)
  BY <1>1, LenProperties
<1> QED BY <1>1, <1>2

-----------------------------------------------------------------------------
(* The pool: the invariant.                                                 *)

PoolTyped ==
    /\ local \in [PoolThreads -> Seq(Nat)] /\ size \in [PoolThreads -> Int]
    /\ global \in Seq([chain: Seq(Nat), size: Int])
    /\ used \in [objects: SUBSET Nat, created: Nat]

\* What a chain's size says of it.
RightSize(chain, n) == (chain # <<>> => Len(chain) = n + 1) /\ n <= PoolBatch

PoolSized ==
    /\ \A n \in DOMAIN global : global[n].chain # <<>> /\ RightSize(global[n].chain, global[n].size)
    /\ \A t \in PoolThreads : RightSize(local[t], size[t]) /\ (t \in ended => local[t] = <<>>)

\* Each object that was created is in one place, and once there.
PoolPlaced ==
    /\ \A t \in PoolThreads : IsInjective(local[t]) /\ Cached(t) \cap used.objects = {}
    /\ \A n \in DOMAIN global :
          IsInjective(global[n].chain) /\ Pooled(n) \cap used.objects = {}
    /\ \A t, u \in PoolThreads : t # u => Cached(t) \cap Cached(u) = {}
    /\ \A m, n \in DOMAIN global : m # n => Pooled(m) \cap Pooled(n) = {}
    /\ \A t \in PoolThreads, n \in DOMAIN global : Cached(t) \cap Pooled(n) = {}
    /\ used.objects \subseteq 1..used.created
    /\ \A t \in PoolThreads : Cached(t) \subseteq 1..used.created
    /\ \A n \in DOMAIN global : Pooled(n) \subseteq 1..used.created
    /\ \A o \in 1..used.created : \/ o \in used.objects
                                  \/ \E t \in PoolThreads : o \in Cached(t)
                                  \/ \E n \in DOMAIN global : o \in Pooled(n)

PoolInv == PoolTyped /\ PoolSized /\ PoolPlaced

-----------------------------------------------------------------------------
(* The pool: where its objects go.                                          *)

\* One thread gets another chain, and with it or to its user the objects it had, and
\* those that are new.
LEMMA ChainChanges ==
  ASSUME PoolPlaced, local \in [PoolThreads -> Seq(Nat)], NEW t \in PoolThreads, NEW c, IsInjective(c),
         local' = [local EXCEPT ![t] = c], global' = global,
         used.created \in Nat, used'.created \in Nat, used.created <= used'.created,
         used'.objects \cap ToSet(c) = {},
         used'.objects \cup ToSet(c) =
            used.objects \cup Cached(t) \cup ((used.created + 1)..used'.created)
  PROVE  PoolPlaced'
<1> DEFINE more == (used.created + 1)..used'.created
<1>1. /\ local'[t] = c /\ Cached(t)' = ToSet(c)
      /\ \A u \in PoolThreads \ {t} : local'[u] = local[u] /\ Cached(u)' = Cached(u)
      /\ \A n \in DOMAIN global : global'[n] = global[n] /\ Pooled(n)' = Pooled(n)
      /\ DOMAIN global' = DOMAIN global
  BY DEF Cached, Pooled
<1>2. /\ \A o \in more : o \notin 1..used.created
      /\ 1..used'.created = 1..used.created \cup more
  OBVIOUS
<1> HIDE DEF more
<1>3. \A u \in PoolThreads : \A o \in Cached(u) : o \in 1..used.created
  BY DEF PoolPlaced
<1>4. \A n \in DOMAIN global : \A o \in Pooled(n) : o \in 1..used.created
  BY DEF PoolPlaced
<1>5. \A o : o \in used'.objects \/ o \in ToSet(c) <=> o \in used.objects \/ o \in Cached(t) \/ o \in more
  BY DEF more
<1>6. \A u \in PoolThreads \ {t} : Cached(u) \cap used'.objects = {} /\ Cached(u) \cap ToSet(c) = {}
  <2> SUFFICES ASSUME NEW u \in PoolThreads \ {t}, NEW o \in Cached(u)
               PROVE  o \notin used'.objects /\ o \notin ToSet(c)
    OBVIOUS
  <2>1. o \notin used.objects /\ o \notin Cached(t)
    BY DEF PoolPlaced
  <2>2. o \notin more
    BY <1>2, <1>3
  <2> QED BY <1>5, <2>1, <2>2
<1>7. \A n \in DOMAIN global : Pooled(n) \cap used'.objects = {} /\ Pooled(n) \cap ToSet(c) = {}
  <2> SUFFICES ASSUME NEW n \in DOMAIN global, NEW o \in Pooled(n)
               PROVE  o \notin used'.objects /\ o \notin ToSet(c)
    OBVIOUS
  <2>1. o \notin used.objects /\ o \notin Cached(t)
    BY DEF PoolPlaced
  <2>2. o \notin more
    BY <1>2, <1>4
  <2> QED BY <1>5, <2>1, <2>2
<1>8. \A u \in PoolThreads : IsInjective(local'[u]) /\ Cached(u)' \cap used'.objects = {}
  BY <1>1, <1>6 DEF PoolPlaced
<1>9. \A n \in DOMAIN global' : IsInjective(global'[n].chain) /\ Pooled(n)' \cap used'.objects = {}
  BY <1>1, <1>7 DEF PoolPlaced
<1>10. \A u, v \in PoolThreads : u # v => Cached(u)' \cap Cached(v)' = {}
  <2> SUFFICES ASSUME NEW u \in PoolThreads, NEW v \in PoolThreads, u # v
               PROVE  Cached(u)' \cap Cached(v)' = {}
    OBVIOUS
  <2>1. CASE u = t
    BY <1>1, <1>6, <2>1
  <2>2. CASE v = t
    BY <1>1, <1>6, <2>2
  <2>3. CASE u # t /\ v # t
    BY <1>1, <2>3 DEF PoolPlaced
  <2> QED BY <2>1, <2>2, <2>3
<1>11. \A m, n \in DOMAIN global' : m # n => Pooled(m)' \cap Pooled(n)' = {}
  BY <1>1 DEF PoolPlaced
<1>12. \A u \in PoolThreads, n \in DOMAIN global' : Cached(u)' \cap Pooled(n)' = {}
  <2> SUFFICES ASSUME NEW u \in PoolThreads, NEW n \in DOMAIN global'
               PROVE  Cached(u)' \cap Pooled(n)' = {}
    OBVIOUS
  <2>1. CASE u = t
    BY <1>1, <1>7, <2>1
  <2>2. CASE u # t
    BY <1>1, <2>2 DEF PoolPlaced
  <2> QED BY <2>1, <2>2
<1>13. used'.objects \subseteq 1..used'.created /\ ToSet(c) \subseteq 1..used'.created
  BY <1>2, <1>3, <1>5 DEF PoolPlaced
<1>14. /\ \A u \in PoolThreads : Cached(u)' \subseteq 1..used'.created
       /\ \A n \in DOMAIN global' : Pooled(n)' \subseteq 1..used'.created
  BY <1>1, <1>2, <1>3, <1>4, <1>13
<1>15. \A o \in 1..used'.created : \/ o \in used'.objects
                                   \/ \E u \in PoolThreads : o \in Cached(u)'
                                   \/ \E n \in DOMAIN global' : o \in Pooled(n)'
  <2> SUFFICES ASSUME NEW o \in 1..used'.created
               PROVE  \/ o \in used'.objects
                      \/ \E u \in PoolThreads : o \in Cached(u)'
                      \/ \E n \in DOMAIN global' : o \in Pooled(n)'
    OBVIOUS
  <2>1. CASE o \in more \/ o \in used.objects \/ o \in Cached(t)
    BY <1>1, <1>5, <2>1
  <2>2. CASE ~(o \in more \/ o \in used.objects \/ o \in Cached(t))
    <3>1. o \in 1..used.created
      BY <1>2, <2>2
    <3>2. \/ \E u \in PoolThreads \ {t} : o \in Cached(u)
          \/ \E n \in DOMAIN global : o \in Pooled(n)
      BY <2>2, <3>1 DEF PoolPlaced
    <3> QED BY <1>1, <3>2
  <2> QED BY <2>1, <2>2
<1> QED BY <1>8, <1>9, <1>10, <1>11, <1>12, <1>13, <1>14, <1>15 DEF PoolPlaced

\* A thread without a chain takes the first one of the global pool.
LEMMA ChainTaken ==
  ASSUME PoolPlaced, PoolTyped, NEW t \in PoolThreads, local[t] = <<>>, NEW c, IsInjective(c),
         local' = [local EXCEPT ![t] = c], global # <<>>, global' = Tail(global),
         used'.created = used.created, used'.objects \cap ToSet(c) = {},
         used'.objects \cup ToSet(c) = used.objects \cup ToSet(global[1].chain)
  PROVE  PoolPlaced'
<1>1. /\ Cached(t)' = ToSet(c) /\ local'[t] = c
      /\ \A u \in PoolThreads \ {t} : local'[u] = local[u] /\ Cached(u)' = Cached(u)
  BY DEF Cached, PoolTyped
<1>2. /\ 1 \in DOMAIN global
      /\ \A n \in DOMAIN global' : n + 1 \in DOMAIN global /\ global'[n] = global[n + 1] /\ n + 1 # 1
                                   /\ n \in Int
      /\ \A n \in DOMAIN global : n = 1 \/ (n - 1 \in DOMAIN global' /\ global'[n - 1] = global[n])
      /\ DOMAIN global = 1..Len(global)
  <2> DEFINE g == global'
  <2>1. global \in Seq([chain: Seq(Nat), size: Int]) /\ g = Tail(global)
    BY DEF PoolTyped
  <2>2. g \in Seq([chain: Seq(Nat), size: Int]) /\ DOMAIN g = 1..Len(g)
    BY <2>1, Popped, LenProperties
  <2> HIDE DEF g
  <2>3. /\ 1 \in DOMAIN global
        /\ \A n \in DOMAIN g : n + 1 \in DOMAIN global /\ g[n] = global[n + 1] /\ n + 1 # 1
        /\ \A n \in DOMAIN global : n = 1 \/ (n - 1 \in DOMAIN g /\ g[n - 1] = global[n])
        /\ DOMAIN global = 1..Len(global)
    BY <2>1, Popped
  <2>4. \A n \in DOMAIN g : n \in Int
    BY <2>2
  <2> QED BY <2>3, <2>4 DEF g
<1>3. \A n \in DOMAIN global' : Pooled(n)' = Pooled(n + 1)
  BY <1>2 DEF Pooled
<1>4. \A o : o \in used'.objects \/ o \in ToSet(c) <=> o \in used.objects \/ o \in Pooled(1)
  BY DEF Pooled
<1>5. /\ \A u \in PoolThreads \ {t} : Cached(u) \cap used'.objects = {} /\ Cached(u) \cap ToSet(c) = {}
      /\ \A n \in DOMAIN global \ {1} : Pooled(n) \cap used'.objects = {} /\ Pooled(n) \cap ToSet(c) = {}
  BY <1>2, <1>4 DEF PoolPlaced
<1>8. \A u \in PoolThreads : IsInjective(local'[u]) /\ Cached(u)' \cap used'.objects = {}
  BY <1>1, <1>5 DEF PoolPlaced
<1>9. \A n \in DOMAIN global' : IsInjective(global'[n].chain) /\ Pooled(n)' \cap used'.objects = {}
  BY <1>2, <1>3, <1>5 DEF PoolPlaced
<1>10. \A u, v \in PoolThreads : u # v => Cached(u)' \cap Cached(v)' = {}
  <2> SUFFICES ASSUME NEW u \in PoolThreads, NEW v \in PoolThreads, u # v
               PROVE  Cached(u)' \cap Cached(v)' = {}
    OBVIOUS
  <2>1. CASE u = t
    BY <1>1, <1>5, <2>1
  <2>2. CASE v = t
    BY <1>1, <1>5, <2>2
  <2>3. CASE u # t /\ v # t
    BY <1>1, <2>3 DEF PoolPlaced
  <2> QED BY <2>1, <2>2, <2>3
<1>11. \A m, n \in DOMAIN global' : m # n => Pooled(m)' \cap Pooled(n)' = {}
  <2> SUFFICES ASSUME NEW m \in DOMAIN global', NEW n \in DOMAIN global', m # n
               PROVE  Pooled(m)' \cap Pooled(n)' = {}
    OBVIOUS
  <2>1. m + 1 # n + 1 /\ m + 1 \in DOMAIN global /\ n + 1 \in DOMAIN global
    BY <1>2
  <2> QED BY <1>3, <2>1 DEF PoolPlaced
<1>12. \A u \in PoolThreads, n \in DOMAIN global' : Cached(u)' \cap Pooled(n)' = {}
  <2> SUFFICES ASSUME NEW u \in PoolThreads, NEW n \in DOMAIN global'
               PROVE  Cached(u)' \cap Pooled(n)' = {}
    OBVIOUS
  <2>1. n + 1 \in DOMAIN global \ {1} /\ Pooled(n)' = Pooled(n + 1)
    BY <1>2, <1>3
  <2>2. CASE u = t
    BY <1>1, <1>5, <2>1, <2>2
  <2>3. CASE u # t
    BY <1>1, <2>1, <2>3 DEF PoolPlaced
  <2> QED BY <2>2, <2>3
<1>13. used'.objects \subseteq 1..used'.created /\ ToSet(c) \subseteq 1..used'.created
  BY <1>2, <1>4 DEF PoolPlaced
<1>14. /\ \A u \in PoolThreads : Cached(u)' \subseteq 1..used'.created
       /\ \A n \in DOMAIN global' : Pooled(n)' \subseteq 1..used'.created
  BY <1>1, <1>2, <1>3, <1>13 DEF PoolPlaced
<1>15. \A o \in 1..used'.created : \/ o \in used'.objects
                                   \/ \E u \in PoolThreads : o \in Cached(u)'
                                   \/ \E n \in DOMAIN global' : o \in Pooled(n)'
  <2> SUFFICES ASSUME NEW o \in 1..used'.created
               PROVE  \/ o \in used'.objects
                      \/ \E u \in PoolThreads : o \in Cached(u)'
                      \/ \E n \in DOMAIN global' : o \in Pooled(n)'
    OBVIOUS
  <2>1. CASE o \in used.objects \/ o \in Pooled(1)
    BY <1>1, <1>4, <2>1
  <2>2. CASE \E u \in PoolThreads : o \in Cached(u)
    <3>1. Cached(t) = {}
      BY SetOfEmpty DEF Cached
    <3> QED BY <1>1, <2>2, <3>1
  <2>3. CASE \E n \in DOMAIN global \ {1} : o \in Pooled(n)
    <3>1. PICK n \in DOMAIN global \ {1} : o \in Pooled(n)
      BY <2>3
    <3>2. n - 1 \in DOMAIN global' /\ (n - 1) + 1 = n
      BY <1>2
    <3> QED BY <1>3, <3>1, <3>2
  <2> QED BY <2>1, <2>2, <2>3 DEF PoolPlaced
<1> QED BY <1>8, <1>9, <1>10, <1>11, <1>12, <1>13, <1>14, <1>15 DEF PoolPlaced

\* A thread gives its chain to the global pool and begins another one.
LEMMA ChainGiven ==
  ASSUME PoolPlaced, PoolTyped, NEW t \in PoolThreads, NEW c, IsInjective(c),
         local' = [local EXCEPT ![t] = c],
         global' = <<[chain |-> local[t], size |-> size[t]]>> \o global,
         used'.created = used.created, used'.objects \cap ToSet(c) = {},
         used'.objects \cup ToSet(c) = used.objects
  PROVE  PoolPlaced'
<1>1. /\ Cached(t)' = ToSet(c) /\ local'[t] = c
      /\ \A u \in PoolThreads \ {t} : local'[u] = local[u] /\ Cached(u)' = Cached(u)
  BY DEF Cached, PoolTyped
<1>2. /\ 1 \in DOMAIN global' /\ global'[1] = [chain |-> local[t], size |-> size[t]]
      /\ \A n \in DOMAIN global : n + 1 \in DOMAIN global' /\ global'[n + 1] = global[n] /\ n \in Int
      /\ \A n \in DOMAIN global' : n \in Int
                                   /\ (n = 1 \/ (n - 1 \in DOMAIN global /\ global'[n] = global[n - 1]))
  <2> DEFINE g == global'
             x == [chain |-> local[t], size |-> size[t]]
  <2>1. global \in Seq([chain: Seq(Nat), size: Int]) /\ g = <<x>> \o global
        /\ x \in [chain: Seq(Nat), size: Int]
    BY DEF PoolTyped
  <2> HIDE DEF g, x
  <2>2. /\ DOMAIN g = 1..(Len(global) + 1) /\ DOMAIN global = 1..Len(global) /\ Len(global) \in Nat
        /\ g[1] = x /\ \A n \in DOMAIN global : g[n + 1] = global[n] /\ n + 1 \in DOMAIN g
        /\ \A n \in DOMAIN g : n = 1 \/ (n - 1 \in DOMAIN global /\ g[n] = global[n - 1])
    BY <2>1, Prepended
  <2>3. /\ \A n \in DOMAIN g : n \in Int
        /\ \A n \in DOMAIN global : n \in Int
        /\ 1 \in DOMAIN g
    BY <2>2
  <2> QED BY <2>2, <2>3 DEF g, x
<1>3. /\ Pooled(1)' = Cached(t)
      /\ \A n \in DOMAIN global' : n # 1 => Pooled(n)' = Pooled(n - 1)
  BY <1>2 DEF Pooled, Cached
<1>4. \A o : o \in used'.objects \/ o \in ToSet(c) <=> o \in used.objects
  OBVIOUS
<1>5. /\ \A u \in PoolThreads : Cached(u) \cap used'.objects = {} /\ Cached(u) \cap ToSet(c) = {}
      /\ \A n \in DOMAIN global : Pooled(n) \cap used'.objects = {} /\ Pooled(n) \cap ToSet(c) = {}
  BY <1>4 DEF PoolPlaced
<1>8. \A u \in PoolThreads : IsInjective(local'[u]) /\ Cached(u)' \cap used'.objects = {}
  BY <1>1, <1>5 DEF PoolPlaced
<1>9. \A n \in DOMAIN global' : IsInjective(global'[n].chain) /\ Pooled(n)' \cap used'.objects = {}
  <2> SUFFICES ASSUME NEW n \in DOMAIN global'
               PROVE  IsInjective(global'[n].chain) /\ Pooled(n)' \cap used'.objects = {}
    OBVIOUS
  <2>1. CASE n = 1
    BY <1>2, <1>3, <1>5, <2>1 DEF PoolPlaced
  <2>2. CASE n # 1
    BY <1>2, <1>3, <1>5, <2>2 DEF PoolPlaced
  <2> QED BY <2>1, <2>2
<1>10. \A u, v \in PoolThreads : u # v => Cached(u)' \cap Cached(v)' = {}
  <2> SUFFICES ASSUME NEW u \in PoolThreads, NEW v \in PoolThreads, u # v
               PROVE  Cached(u)' \cap Cached(v)' = {}
    OBVIOUS
  <2>1. CASE u = t
    BY <1>1, <1>5, <2>1
  <2>2. CASE v = t
    BY <1>1, <1>5, <2>2
  <2>3. CASE u # t /\ v # t
    BY <1>1, <2>3 DEF PoolPlaced
  <2> QED BY <2>1, <2>2, <2>3
<1>11. \A m, n \in DOMAIN global' : m # n => Pooled(m)' \cap Pooled(n)' = {}
  <2> SUFFICES ASSUME NEW m \in DOMAIN global', NEW n \in DOMAIN global', m # n
               PROVE  Pooled(m)' \cap Pooled(n)' = {}
    OBVIOUS
  <2>1. CASE m = 1
    BY <1>2, <1>3, <2>1 DEF PoolPlaced
  <2>2. CASE n = 1
    BY <1>2, <1>3, <2>2 DEF PoolPlaced
  <2>3. CASE m # 1 /\ n # 1
    <3>1. m - 1 # n - 1 /\ m - 1 \in DOMAIN global /\ n - 1 \in DOMAIN global
      BY <1>2, <2>3
    <3> QED BY <1>3, <2>3, <3>1 DEF PoolPlaced
  <2> QED BY <2>1, <2>2, <2>3
<1>12. \A u \in PoolThreads, n \in DOMAIN global' : Cached(u)' \cap Pooled(n)' = {}
  <2> SUFFICES ASSUME NEW u \in PoolThreads, NEW n \in DOMAIN global'
               PROVE  Cached(u)' \cap Pooled(n)' = {}
    OBVIOUS
  <2>1. CASE n = 1
    BY <1>1, <1>3, <1>5, <2>1 DEF PoolPlaced
  <2>2. CASE n # 1
    BY <1>1, <1>2, <1>3, <1>5, <2>2 DEF PoolPlaced
  <2> QED BY <2>1, <2>2
<1>13. used'.objects \subseteq 1..used'.created /\ ToSet(c) \subseteq 1..used'.created
  BY <1>4 DEF PoolPlaced
<1>14. /\ \A u \in PoolThreads : Cached(u)' \subseteq 1..used'.created
       /\ \A n \in DOMAIN global' : Pooled(n)' \subseteq 1..used'.created
  BY <1>1, <1>2, <1>3, <1>13 DEF PoolPlaced
<1>15. \A o \in 1..used'.created : \/ o \in used'.objects
                                   \/ \E u \in PoolThreads : o \in Cached(u)'
                                   \/ \E n \in DOMAIN global' : o \in Pooled(n)'
  <2> SUFFICES ASSUME NEW o \in 1..used'.created
               PROVE  \/ o \in used'.objects
                      \/ \E u \in PoolThreads : o \in Cached(u)'
                      \/ \E n \in DOMAIN global' : o \in Pooled(n)'
    OBVIOUS
  <2>1. CASE o \in used.objects
    BY <1>1, <1>4, <2>1
  <2>2. CASE \E u \in PoolThreads : o \in Cached(u)
    BY <1>1, <1>2, <1>3, <2>2
  <2>3. CASE \E n \in DOMAIN global : o \in Pooled(n)
    <3>1. PICK n \in DOMAIN global : o \in Pooled(n)
      BY <2>3
    <3>2. n + 1 \in DOMAIN global' /\ (n + 1) - 1 = n /\ (n + 1 = 1 => n = 0)
      BY <1>2
    <3>3. n + 1 # 1
      BY <1>2, <3>2, LenProperties DEF PoolTyped
    <3> QED BY <1>3, <3>1, <3>2, <3>3
  <2> QED BY <2>1, <2>2, <2>3 DEF PoolPlaced
<1> QED BY <1>8, <1>9, <1>10, <1>11, <1>12, <1>13, <1>14, <1>15 DEF PoolPlaced

-----------------------------------------------------------------------------
(* The pool: what its steps do.                                             *)

\* A thread gets another chain, of the right size.
LEMMA ThreadTyped ==
  ASSUME PoolTyped, PoolSized, NEW t \in PoolThreads, NEW c \in Seq(Nat), NEW n \in Int,
         RightSize(c, n),
         local' = [local EXCEPT ![t] = c], size' = [size EXCEPT ![t] = n],
         \/ ended' = ended /\ t \notin ended
         \/ ended' = ended \cup {t} /\ c = <<>>
  PROVE  /\ local' \in [PoolThreads -> Seq(Nat)] /\ size' \in [PoolThreads -> Int]
         /\ \A u \in PoolThreads : RightSize(local[u], size[u])' /\ (u \in ended' => local'[u] = <<>>)
<1>1. local' \in [PoolThreads -> Seq(Nat)] /\ size' \in [PoolThreads -> Int]
  BY DEF PoolTyped
<1>2. ASSUME NEW u \in PoolThreads
      PROVE  RightSize(local'[u], size'[u]) /\ (u \in ended' => local'[u] = <<>>)
  <2>1. CASE u = t
    <3>1. local'[u] = c /\ size'[u] = n
      BY <2>1 DEF PoolTyped
    <3> QED BY <2>1, <3>1
  <2>2. CASE u # t
    <3>1. local'[u] = local[u] /\ size'[u] = size[u] /\ (u \in ended' => u \in ended)
      BY <2>2 DEF PoolTyped
    <3> QED BY <3>1 DEF PoolSized
  <2> QED BY <2>1, <2>2
<1> QED BY <1>1, <1>2 DEF RightSize

\* The thread's chain goes to the global pool, with its size.
LEMMA GivenTyped ==
  ASSUME PoolTyped, PoolSized, NEW t \in PoolThreads, local[t] # <<>>,
         global' = <<[chain |-> local[t], size |-> size[t]]>> \o global
  PROVE  /\ global' \in Seq([chain: Seq(Nat), size: Int])
         /\ \A n \in DOMAIN global' :
               global'[n].chain # <<>> /\ RightSize(global'[n].chain, global'[n].size)
<1> DEFINE g == global'
           x == [chain |-> local[t], size |-> size[t]]
<1>1. /\ global \in Seq([chain: Seq(Nat), size: Int]) /\ g = <<x>> \o global
      /\ x \in [chain: Seq(Nat), size: Int] /\ x.chain # <<>> /\ RightSize(x.chain, x.size)
  BY DEF PoolTyped, PoolSized
<1> HIDE DEF g, x
<1>2. /\ g \in Seq([chain: Seq(Nat), size: Int]) /\ g[1] = x
      /\ \A n \in DOMAIN g : n = 1 \/ (n - 1 \in DOMAIN global /\ g[n] = global[n - 1])
  BY <1>1, Prepended
<1>3. \A n \in DOMAIN g : g[n].chain # <<>> /\ RightSize(g[n].chain, g[n].size)
  BY <1>1, <1>2 DEF PoolSized
<1> QED BY <1>2, <1>3 DEF g

\* The first chain of the global pool is taken from it.
LEMMA TakenTyped ==
  ASSUME PoolTyped, PoolSized, global # <<>>, global' = Tail(global)
  PROVE  /\ global' \in Seq([chain: Seq(Nat), size: Int])
         /\ \A n \in DOMAIN global' :
               global'[n].chain # <<>> /\ RightSize(global'[n].chain, global'[n].size)
         /\ Head(global) = global[1] /\ 1 \in DOMAIN global
         /\ global[1] \in [chain: Seq(Nat), size: Int]
<1> DEFINE g == global'
<1>1. global \in Seq([chain: Seq(Nat), size: Int]) /\ g = Tail(global)
  BY DEF PoolTyped
<1> HIDE DEF g
<1>2. /\ g \in Seq([chain: Seq(Nat), size: Int]) /\ Head(global) = global[1] /\ 1 \in DOMAIN global
      /\ global[1] \in [chain: Seq(Nat), size: Int]
      /\ \A n \in DOMAIN g : n + 1 \in DOMAIN global /\ g[n] = global[n + 1]
  <2> DEFINE S == [chain: Seq(Nat), size: Int]
  <2>1. global \in Seq(S) /\ global # <<>> /\ g = Tail(global)
    BY <1>1
  <2> HIDE DEF S
  <2>2. /\ g \in Seq(S) /\ Head(global) = global[1] /\ 1 \in DOMAIN global /\ global[1] \in S
        /\ \A n \in DOMAIN g : n + 1 \in DOMAIN global /\ g[n] = global[n + 1]
    BY ONLY <2>1, Popped
  <2> QED BY <2>2 DEF S
<1>3. \A n \in DOMAIN g : g[n].chain # <<>> /\ RightSize(g[n].chain, g[n].size)
  BY <1>2 DEF PoolSized
<1> QED BY <1>2, <1>3 DEF g

\* An allocation from a chain leaves the rest of it to the thread.
LEMMA TakeFromIs ==
  ASSUME PoolTyped, NEW t \in PoolThreads, NEW chain \in Seq(Nat), chain # <<>>,
         IsInjective(chain), NEW n \in Int, RightSize(chain, n), PoolBatch \in Nat \ {0},
         ToSet(chain) \cap used.objects = {}, TakeFrom(t, chain, n)
  PROVE  \E c \in Seq(Nat), m \in Int :
            /\ IsInjective(c) /\ RightSize(c, m)
            /\ local' = [local EXCEPT ![t] = c] /\ size' = [size EXCEPT ![t] = m]
            /\ used' \in [objects: SUBSET Nat, created: Nat] /\ used'.created = used.created
            /\ used'.objects \cap ToSet(c) = {}
            /\ used'.objects \cup ToSet(c) = used.objects \cup ToSet(chain)
<1>1. Len(chain) \in Nat /\ Len(chain) > 0 /\ Len(chain) = n + 1 /\ n <= PoolBatch
  BY LenProperties, EmptySeq DEF RightSize
<1>2. CASE Len(chain) > 1
  <2> DEFINE c == <<Head(chain)>> \o SubSeq(chain, 3, Len(chain))
  <2>1. /\ used' = [used EXCEPT !.objects = @ \cup {chain[2]}]
        /\ local' = [local EXCEPT ![t] = c] /\ size' = [size EXCEPT ![t] = n - 1]
    BY <1>2 DEF TakeFrom
  <2>2. /\ c \in Seq(Nat) /\ c # <<>> /\ Len(c) = Len(chain) - 1 /\ IsInjective(c)
        /\ ToSet(c) = ToSet(chain) \ {chain[2]} /\ chain[2] \in ToSet(chain) /\ chain[2] \in Nat
    BY <1>2, SecondGone
  <2> HIDE DEF c
  <2>3. /\ used' \in [objects: SUBSET Nat, created: Nat] /\ used'.created = used.created
        /\ used'.objects = used.objects \cup {chain[2]}
    BY <2>1, <2>2 DEF PoolTyped
  <2>4. n - 1 \in Int /\ RightSize(c, n - 1)
    BY <1>1, <2>2 DEF RightSize
  <2>5. used'.objects \cap ToSet(c) = {} /\ used'.objects \cup ToSet(c) = used.objects \cup ToSet(chain)
    BY <2>2, <2>3
  <2> QED BY <2>1, <2>2, <2>3, <2>4, <2>5
<1>3. CASE ~(Len(chain) > 1)
  <2>1. /\ used' = [used EXCEPT !.objects = @ \cup {Head(chain)}]
        /\ local' = [local EXCEPT ![t] = <<>>] /\ size' = [size EXCEPT ![t] = 0]
    BY <1>3 DEF TakeFrom
  <2>2. Len(chain) = 1 /\ DOMAIN chain = {1} /\ Head(chain) = chain[1] /\ chain[1] \in Nat
    <3>1. Len(chain) = 1
      BY <1>1, <1>3
    <3> QED BY <3>1, LenProperties, ElementOfSeq, HeadTailProperties
  <2>3. ToSet(chain) = {Head(chain)}
    BY <2>2 DEF ToSet
  <2>4. /\ used' \in [objects: SUBSET Nat, created: Nat] /\ used'.created = used.created
        /\ used'.objects = used.objects \cup {Head(chain)}
    BY <2>1, <2>2 DEF PoolTyped
  <2>5. <<>> \in Seq(Nat) /\ IsInjective(<<>>) /\ RightSize(<<>>, 0) /\ ToSet(<<>>) = {}
    BY SetOfEmpty DEF IsInjective, RightSize
  <2>6. 0 \in Int
    OBVIOUS
  <2>7. used'.objects \cap ToSet(<<>>) = {} /\ used'.objects \cup ToSet(<<>>) = used.objects \cup ToSet(chain)
    BY <2>3, <2>4, <2>5
  <2> QED BY <2>1, <2>4, <2>5, <2>6, <2>7
<1> QED BY <1>2, <1>3

\* An allocation from the thread's chain keeps the invariant.
LEMMA AllocateLocalKeeps ==
  ASSUME PoolInv, PoolBatch \in Nat \ {0}, NEW t \in PoolThreads, AllocateLocal(t)
  PROVE  PoolInv'
<1>1. /\ t \notin ended /\ local[t] # <<>> /\ TakeFrom(t, local[t], size[t])
      /\ global' = global /\ ended' = ended
  BY DEF AllocateLocal
<1>2. /\ local[t] \in Seq(Nat) /\ size[t] \in Int /\ IsInjective(local[t])
      /\ RightSize(local[t], size[t]) /\ ToSet(local[t]) \cap used.objects = {}
  BY DEF PoolInv, PoolTyped, PoolSized, PoolPlaced, Cached
<1>3. PICK c \in Seq(Nat), m \in Int :
            /\ IsInjective(c) /\ RightSize(c, m)
            /\ local' = [local EXCEPT ![t] = c] /\ size' = [size EXCEPT ![t] = m]
            /\ used' \in [objects: SUBSET Nat, created: Nat] /\ used'.created = used.created
            /\ used'.objects \cap ToSet(c) = {}
            /\ used'.objects \cup ToSet(c) = used.objects \cup ToSet(local[t])
  BY <1>1, <1>2, TakeFromIs DEF PoolInv
<1>4. /\ used.created \in Nat /\ used'.created \in Nat /\ used.created <= used'.created
      /\ (used.created + 1)..used'.created = {}
  BY <1>3 DEF PoolInv, PoolTyped
<1>5. PoolPlaced'
  <2>1. used'.objects \cup ToSet(c) =
           used.objects \cup Cached(t) \cup ((used.created + 1)..used'.created)
    BY <1>3, <1>4 DEF Cached
  <2>2. PoolPlaced /\ local \in [PoolThreads -> Seq(Nat)]
    BY DEF PoolInv, PoolTyped
  <2> QED BY <1>1, <1>3, <1>4, <2>1, <2>2, ChainChanges
<1>6. /\ local' \in [PoolThreads -> Seq(Nat)] /\ size' \in [PoolThreads -> Int]
      /\ \A u \in PoolThreads : RightSize(local[u], size[u])' /\ (u \in ended' => local'[u] = <<>>)
  BY <1>1, <1>3, ThreadTyped DEF PoolInv
<1>7. PoolTyped' /\ PoolSized'
  BY <1>1, <1>3, <1>6 DEF PoolInv, PoolTyped, PoolSized, RightSize
<1> QED BY <1>5, <1>7 DEF PoolInv

\* An allocation from the global pool keeps the invariant.
LEMMA AllocateGlobalKeeps ==
  ASSUME PoolInv, PoolBatch \in Nat \ {0}, NEW t \in PoolThreads, AllocateGlobal(t)
  PROVE  PoolInv'
<1> DEFINE chain == global[1].chain
           n == global[1].size
<1>1. /\ t \notin ended /\ local[t] = <<>> /\ global # <<>> /\ global' = Tail(global)
      /\ TakeFrom(t, Head(global).chain, Head(global).size) /\ ended' = ended
  BY DEF AllocateGlobal
<1>2. /\ global' \in Seq([chain: Seq(Nat), size: Int])
      /\ \A k \in DOMAIN global' :
            global'[k].chain # <<>> /\ RightSize(global'[k].chain, global'[k].size)
      /\ Head(global) = global[1] /\ 1 \in DOMAIN global
      /\ global[1] \in [chain: Seq(Nat), size: Int]
  BY <1>1, TakenTyped DEF PoolInv
<1>3. /\ chain \in Seq(Nat) /\ chain # <<>> /\ n \in Int /\ IsInjective(chain)
      /\ RightSize(chain, n) /\ ToSet(chain) \cap used.objects = {}
  BY <1>2 DEF PoolInv, PoolSized, PoolPlaced, Pooled
<1>4. TakeFrom(t, chain, n)
  BY <1>1, <1>2
<1>5. PICK c \in Seq(Nat), m \in Int :
            /\ IsInjective(c) /\ RightSize(c, m)
            /\ local' = [local EXCEPT ![t] = c] /\ size' = [size EXCEPT ![t] = m]
            /\ used' \in [objects: SUBSET Nat, created: Nat] /\ used'.created = used.created
            /\ used'.objects \cap ToSet(c) = {}
            /\ used'.objects \cup ToSet(c) = used.objects \cup ToSet(chain)
  <2> HIDE DEF chain, n
  <2> QED BY <1>3, <1>4, TakeFromIs DEF PoolInv
<1>6. PoolPlaced'
  BY <1>1, <1>5, ChainTaken DEF PoolInv
<1>7. /\ local' \in [PoolThreads -> Seq(Nat)] /\ size' \in [PoolThreads -> Int]
      /\ \A u \in PoolThreads : RightSize(local[u], size[u])' /\ (u \in ended' => local'[u] = <<>>)
  BY <1>1, <1>5, ThreadTyped DEF PoolInv
<1>8. PoolTyped' /\ PoolSized'
  BY <1>2, <1>5, <1>7 DEF PoolTyped, PoolSized, RightSize
<1> QED BY <1>6, <1>8 DEF PoolInv

\* New objects are created when there is none: one is allocated, the thread has the
\* others.
LEMMA AllocateNewKeeps ==
  ASSUME PoolInv, PoolBatch \in Nat \ {0}, NEW t \in PoolThreads, AllocateNew(t)
  PROVE  PoolInv'
<1> DEFINE b == used.created
           chain == [n \in 1..(PoolBatch + 1) |-> b + n]
           c == <<Head(chain)>> \o SubSeq(chain, 3, Len(chain))
<1>1. /\ t \notin ended /\ local[t] = <<>> /\ global' = global /\ ended' = ended
      /\ used' = [objects |-> used.objects \cup {chain[2]}, created |-> b + Len(chain)]
      /\ local' = [local EXCEPT ![t] = c] /\ size' = [size EXCEPT ![t] = PoolBatch - 1]
  BY DEF AllocateNew
<1>2. /\ b \in Nat /\ used.objects \subseteq 1..b /\ used.objects \subseteq Nat
      /\ local \in [PoolThreads -> Seq(Nat)] /\ PoolPlaced
  BY DEF PoolInv, PoolTyped, PoolPlaced
<1> HIDE DEF b
<1>3. /\ chain \in Seq(Nat) /\ Len(chain) = PoolBatch + 1 /\ DOMAIN chain = 1..(PoolBatch + 1)
      /\ \A n \in 1..(PoolBatch + 1) : chain[n] = b + n
  <2>1. \A n \in 1..(PoolBatch + 1) : b + n \in Nat
    BY <1>2
  <2>2. PoolBatch + 1 \in Nat
    OBVIOUS
  <2>3. chain \in [1..(PoolBatch + 1) -> Nat]
    BY <2>1
  <2> QED BY <2>2, <2>3
<1> HIDE DEF chain
<1>4. IsInjective(chain) /\ Len(chain) > 1
  <2>1. \A i, j \in DOMAIN chain : chain[i] = chain[j] => i = j
    BY <1>2, <1>3
  <2> QED BY <1>3, <2>1 DEF IsInjective
<1>5. ToSet(chain) = (b + 1)..(b + (PoolBatch + 1))
  <2>1. \A o \in ToSet(chain) : o \in (b + 1)..(b + (PoolBatch + 1))
    BY <1>2, <1>3 DEF ToSet
  <2>2. ASSUME NEW o \in (b + 1)..(b + (PoolBatch + 1))  PROVE o \in ToSet(chain)
    <3>1. o - b \in DOMAIN chain /\ chain[o - b] = o
      BY <1>2, <1>3
    <3> QED BY <3>1 DEF ToSet
  <2> QED BY <2>1, <2>2
<1>6. /\ c \in Seq(Nat) /\ c # <<>> /\ Len(c) = Len(chain) - 1 /\ IsInjective(c)
      /\ ToSet(c) = ToSet(chain) \ {chain[2]} /\ chain[2] \in ToSet(chain) /\ chain[2] \in Nat
  BY <1>3, <1>4, SecondGone
<1> HIDE DEF c
<1>7. PoolBatch - 1 \in Int /\ RightSize(c, PoolBatch - 1)
  BY <1>3, <1>6 DEF RightSize
<1>8. /\ used' \in [objects: SUBSET Nat, created: Nat] /\ used'.created = b + (PoolBatch + 1)
      /\ used'.objects = used.objects \cup {chain[2]}
  <2>1. b + Len(chain) \in Nat /\ used.objects \cup {chain[2]} \subseteq Nat
    BY <1>2, <1>3, <1>6
  <2> QED BY <1>1, <1>3, <2>1
<1>9. PoolPlaced'
  <2>1. Cached(t) = {}
    BY <1>1, SetOfEmpty DEF Cached
  <2>2. used'.objects \cup ToSet(c) =
           used.objects \cup Cached(t) \cup ((used.created + 1)..used'.created)
    BY <1>5, <1>6, <1>8, <2>1 DEF b
  <2>3. \A o \in ToSet(chain) : o \notin used.objects
    BY <1>2, <1>5
  <2>4. used'.objects \cap ToSet(c) = {}
    BY <1>6, <1>8, <2>3
  <2>5. used.created \in Nat /\ used'.created \in Nat /\ used.created <= used'.created
    BY <1>2, <1>8 DEF b
  <2> QED BY <1>1, <1>2, <1>6, <2>2, <2>4, <2>5, ChainChanges
<1>10. /\ local' \in [PoolThreads -> Seq(Nat)] /\ size' \in [PoolThreads -> Int]
       /\ \A u \in PoolThreads : RightSize(local[u], size[u])' /\ (u \in ended' => local'[u] = <<>>)
  BY <1>1, <1>6, <1>7, ThreadTyped DEF PoolInv
<1>11. PoolTyped' /\ PoolSized'
  BY <1>1, <1>8, <1>10 DEF PoolInv, PoolTyped, PoolSized, RightSize
<1> QED BY <1>9, <1>11 DEF PoolInv

\* A freed object is nowhere else.
LEMMA FreedIs ==
  ASSUME PoolInv, NEW o, Freed(o)
  PROVE  /\ o \in used.objects /\ o \in Nat
         /\ used' \in [objects: SUBSET Nat, created: Nat] /\ used'.created = used.created
         /\ used'.objects = used.objects \ {o} /\ used.created \in Nat
         /\ (used.created + 1)..used'.created = {}
         /\ \A u \in PoolThreads : o \notin Cached(u) /\ Cached(u) \cap used.objects = {}
<1>1. /\ o \in used.objects /\ used' = [used EXCEPT !.objects = @ \ {o}]
      /\ used \in [objects: SUBSET Nat, created: Nat]
  BY DEF Freed, PoolInv, PoolTyped
<1>2. /\ used' \in [objects: SUBSET Nat, created: Nat] /\ used'.created = used.created
      /\ used'.objects = used.objects \ {o} /\ used.created \in Nat /\ o \in Nat
  BY <1>1
<1>3. (used.created + 1)..used'.created = {}
  BY <1>2
<1>4. \A u \in PoolThreads : o \notin Cached(u) /\ Cached(u) \cap used.objects = {}
  BY <1>1 DEF PoolInv, PoolPlaced
<1> QED BY <1>1, <1>2, <1>3, <1>4

\* An object freed into the thread's chain keeps the invariant.
LEMMA FreeToChainKeeps ==
  ASSUME PoolInv, PoolBatch \in Nat \ {0}, NEW t \in PoolThreads, NEW o, FreeToChain(t, o)
  PROVE  PoolInv'
<1> DEFINE c == <<Head(local[t]), o>> \o Tail(local[t])
<1>1. /\ t \notin ended /\ Freed(o) /\ local[t] # <<>> /\ size[t] # PoolBatch
      /\ global' = global /\ ended' = ended
      /\ local' = [local EXCEPT ![t] = c] /\ size' = [size EXCEPT ![t] = size[t] + 1]
  BY DEF FreeToChain
<1>2. /\ o \in used.objects /\ o \in Nat
      /\ used' \in [objects: SUBSET Nat, created: Nat] /\ used'.created = used.created
      /\ used'.objects = used.objects \ {o} /\ used.created \in Nat
      /\ (used.created + 1)..used'.created = {}
      /\ o \notin Cached(t) /\ Cached(t) \cap used.objects = {}
  BY <1>1, FreedIs
<1>3. /\ local[t] \in Seq(Nat) /\ size[t] \in Int /\ IsInjective(local[t])
      /\ RightSize(local[t], size[t]) /\ local \in [PoolThreads -> Seq(Nat)] /\ PoolPlaced
  BY DEF PoolInv, PoolTyped, PoolSized, PoolPlaced
<1>4. /\ c \in Seq(Nat) /\ c # <<>> /\ Len(c) = Len(local[t]) + 1 /\ IsInjective(c)
      /\ ToSet(c) = Cached(t) \cup {o}
  <2> DEFINE l == local[t]
  <2>1. l \in Seq(Nat) /\ l # <<>> /\ IsInjective(l) /\ o \in Nat /\ o \notin ToSet(l)
        /\ c = Joined(l, o) /\ ToSet(l) = Cached(t)
    BY <1>1, <1>2, <1>3 DEF Cached, Joined
  <2> HIDE DEF l, c
  <2>2. c \in Seq(Nat) /\ c # <<>> /\ Len(c) = Len(l) + 1 /\ IsInjective(c)
        /\ ToSet(c) = ToSet(l) \cup {o}
    BY ONLY <2>1, SecondNew
  <2> QED BY <2>1, <2>2 DEF l
<1> HIDE DEF c
<1>5. size[t] + 1 \in Int /\ RightSize(c, size[t] + 1)
  BY <1>1, <1>3, <1>4 DEF RightSize
<1>6. PoolPlaced'
  <2>1. used'.objects \cup ToSet(c) =
           used.objects \cup Cached(t) \cup ((used.created + 1)..used'.created)
    BY <1>2, <1>4
  <2>2. used'.objects \cap ToSet(c) = {}
    BY <1>2, <1>4
  <2>3. used'.created \in Nat /\ used.created <= used'.created
    BY <1>2
  <2> QED BY <1>1, <1>2, <1>3, <1>4, <2>1, <2>2, <2>3, ChainChanges
<1>7. /\ local' \in [PoolThreads -> Seq(Nat)] /\ size' \in [PoolThreads -> Int]
      /\ \A u \in PoolThreads : RightSize(local[u], size[u])' /\ (u \in ended' => local'[u] = <<>>)
  BY <1>1, <1>4, <1>5, ThreadTyped DEF PoolInv
<1>8. PoolTyped' /\ PoolSized'
  BY <1>1, <1>2, <1>7 DEF PoolInv, PoolTyped, PoolSized, RightSize
<1> QED BY <1>6, <1>8 DEF PoolInv

\* The chain of one object, and none.
LEMMA SmallChains ==
  ASSUME PoolBatch \in Nat \ {0}, NEW o \in Nat
  PROVE  /\ <<o>> \in Seq(Nat) /\ IsInjective(<<o>>) /\ RightSize(<<o>>, 0) /\ ToSet(<<o>>) = {o}
         /\ <<>> \in Seq(Nat) /\ IsInjective(<<>>) /\ RightSize(<<>>, 0) /\ ToSet(<<>>) = {}
<1>1. <<o>> \in Seq(Nat) /\ Len(<<o>>) = 1 /\ DOMAIN <<o>> = {1} /\ <<o>>[1] = o
  OBVIOUS
<1>2. IsInjective(<<o>>)
  BY <1>1 DEF IsInjective
<1>3. ToSet(<<o>>) = {o}
  BY <1>1 DEF ToSet
<1>4. <<>> \in Seq(Nat) /\ IsInjective(<<>>) /\ ToSet(<<>>) = {}
  BY SetOfEmpty DEF IsInjective
<1>5. RightSize(<<o>>, 0) /\ RightSize(<<>>, 0)
  BY <1>1 DEF RightSize
<1> QED BY <1>1, <1>2, <1>3, <1>4, <1>5

\* A thread's chain is given away or, when there is none, nothing is, and another one
\* begins with what is freed, or none when the thread ends.
LEMMA ChainReplaced ==
  ASSUME PoolInv, NEW t \in PoolThreads, t \notin ended,
         NEW c \in Seq(Nat), IsInjective(c), RightSize(c, 0),
         \/ ended' = ended
         \/ ended' = ended \cup {t} /\ c = <<>>,
         used' \in [objects: SUBSET Nat, created: Nat], used'.created = used.created,
         used'.objects \cap ToSet(c) = {}, used'.objects \cup ToSet(c) = used.objects,
         global' = IF local[t] = <<>> THEN global
                   ELSE <<[chain |-> local[t], size |-> size[t]]>> \o global,
         local' = [local EXCEPT ![t] = c], size' = [size EXCEPT ![t] = 0]
  PROVE  PoolInv'
<1>1. PoolTyped /\ PoolSized /\ PoolPlaced /\ local \in [PoolThreads -> Seq(Nat)] /\ used.created \in Nat
  BY DEF PoolInv, PoolTyped
<1>2. /\ local' \in [PoolThreads -> Seq(Nat)] /\ size' \in [PoolThreads -> Int]
      /\ \A u \in PoolThreads : RightSize(local[u], size[u])' /\ (u \in ended' => local'[u] = <<>>)
  <2>1. (ended' = ended /\ t \notin ended) \/ (ended' = ended \cup {t} /\ c = <<>>)
    OBVIOUS
  <2>2. 0 \in Int
    OBVIOUS
  <2> QED BY <1>1, <2>1, <2>2, ThreadTyped
<1>3. CASE local[t] = <<>>
  <2>1. global' = global
    BY <1>3
  <2>2. Cached(t) = {} /\ (used.created + 1)..used'.created = {}
    BY <1>1, <1>3, SetOfEmpty DEF Cached
  <2>3. used'.objects \cup ToSet(c) =
           used.objects \cup Cached(t) \cup ((used.created + 1)..used'.created)
    BY <2>2
  <2>4. used'.created \in Nat /\ used.created <= used'.created
    BY <1>1
  <2>5. PoolPlaced'
    BY <1>1, <2>1, <2>3, <2>4, ChainChanges
  <2>6. PoolTyped' /\ PoolSized'
    BY <1>1, <1>2, <2>1 DEF PoolTyped, PoolSized, RightSize
  <2> QED BY <2>5, <2>6 DEF PoolInv
<1>4. CASE local[t] # <<>>
  <2>1. global' = <<[chain |-> local[t], size |-> size[t]]>> \o global
    BY <1>4
  <2>2. PoolPlaced'
    BY <1>1, <2>1, ChainGiven
  <2>3. /\ global' \in Seq([chain: Seq(Nat), size: Int])
        /\ \A n \in DOMAIN global' :
              global'[n].chain # <<>> /\ RightSize(global'[n].chain, global'[n].size)
    BY <1>1, <1>4, <2>1, GivenTyped
  <2>4. PoolTyped' /\ PoolSized'
    BY <1>2, <2>3 DEF PoolTyped, PoolSized, RightSize
  <2> QED BY <2>2, <2>4 DEF PoolInv
<1> QED BY <1>3, <1>4

\* An object that becomes the container of a new chain keeps the invariant.
LEMMA FreeAsChainKeeps ==
  ASSUME PoolInv, PoolBatch \in Nat \ {0}, NEW t \in PoolThreads, NEW o, FreeAsChain(t, o)
  PROVE  PoolInv'
<1>1. /\ t \notin ended /\ Freed(o) /\ ended' = ended
      /\ global' = IF local[t] = <<>> THEN global
                   ELSE <<[chain |-> local[t], size |-> size[t]]>> \o global
      /\ local' = [local EXCEPT ![t] = <<o>>] /\ size' = [size EXCEPT ![t] = 0]
  BY DEF FreeAsChain
<1>2. /\ o \in used.objects /\ o \in Nat
      /\ used' \in [objects: SUBSET Nat, created: Nat] /\ used'.created = used.created
      /\ used'.objects = used.objects \ {o}
  BY <1>1, FreedIs
<1>3. <<o>> \in Seq(Nat) /\ IsInjective(<<o>>) /\ RightSize(<<o>>, 0) /\ ToSet(<<o>>) = {o}
  BY <1>2, SmallChains
<1>4. used'.objects \cap ToSet(<<o>>) = {} /\ used'.objects \cup ToSet(<<o>>) = used.objects
  BY <1>2, <1>3
<1> QED BY <1>1, <1>2, <1>3, <1>4, ChainReplaced

\* The end of a thread keeps the invariant.
LEMMA EndThreadKeeps ==
  ASSUME PoolInv, PoolBatch \in Nat \ {0}, NEW t \in PoolThreads, EndThread(t)
  PROVE  PoolInv'
<1>1. /\ t \notin ended /\ used' = used /\ ended' = ended \cup {t}
      /\ global' = IF local[t] = <<>> THEN global
                   ELSE <<[chain |-> local[t], size |-> size[t]]>> \o global
      /\ local' = [local EXCEPT ![t] = <<>>] /\ size' = [size EXCEPT ![t] = 0]
  BY DEF EndThread
<1>2. <<>> \in Seq(Nat) /\ IsInjective(<<>>) /\ RightSize(<<>>, 0) /\ ToSet(<<>>) = {}
  BY SmallChains
<1>3. /\ used' \in [objects: SUBSET Nat, created: Nat] /\ used'.created = used.created
      /\ used'.objects \cap ToSet(<<>>) = {} /\ used'.objects \cup ToSet(<<>>) = used.objects
  BY <1>1, <1>2 DEF PoolInv, PoolTyped
<1> QED BY <1>1, <1>2, <1>3, ChainReplaced

\* The pool begins with the invariant.
LEMMA PoolInitially ==
  ASSUME PoolBatch \in Nat \ {0}, PoolInit
  PROVE  PoolInv
<1>1. /\ local = [t \in PoolThreads |-> <<>>] /\ size = [t \in PoolThreads |-> 0] /\ global = <<>>
      /\ used = [objects |-> {}, created |-> 0] /\ ended = {}
  BY DEF PoolInit
<1>2. <<>> \in Seq(Nat) /\ IsInjective(<<>>) /\ RightSize(<<>>, 0) /\ ToSet(<<>>) = {}
  BY SmallChains
<1>3. DOMAIN global = {} /\ global \in Seq([chain: Seq(Nat), size: Int])
  BY <1>1
<1>4. PoolTyped
  BY <1>1, <1>2, <1>3 DEF PoolTyped
<1>5. PoolSized
  BY <1>1, <1>2, <1>3 DEF PoolSized
<1>6. PoolPlaced
  <2>1. \A t \in PoolThreads : Cached(t) = {} /\ IsInjective(local[t])
    BY <1>1, <1>2 DEF Cached
  <2>2. used.objects = {} /\ 1..used.created = {}
    BY <1>1
  <2> QED BY <1>3, <2>1, <2>2 DEF PoolPlaced
<1> QED BY <1>4, <1>5, <1>6 DEF PoolInv

\* Every step of the pool keeps the invariant.
LEMMA PoolStep ==
  ASSUME PoolInv, PoolBatch \in Nat \ {0}, [PoolNext]_poolVars
  PROVE  PoolInv'
<1>1. CASE UNCHANGED poolVars
  BY <1>1 DEF poolVars, PoolInv, PoolTyped, PoolSized, PoolPlaced, Cached, Pooled
<1>2. CASE PoolNext
  <2>1. PICK t \in PoolThreads :
           \/ AllocateLocal(t) \/ AllocateGlobal(t) \/ AllocateNew(t)
           \/ \E o \in used.objects : FreeToChain(t, o) \/ FreeAsChain(t, o)
           \/ EndThread(t)
    BY <1>2 DEF PoolNext
  <2>2. CASE AllocateLocal(t)
    BY <2>2, AllocateLocalKeeps
  <2>3. CASE AllocateGlobal(t)
    BY <2>3, AllocateGlobalKeeps
  <2>4. CASE AllocateNew(t)
    BY <2>4, AllocateNewKeeps
  <2>5. CASE \E o \in used.objects : FreeToChain(t, o) \/ FreeAsChain(t, o)
    BY <2>5, FreeToChainKeeps, FreeAsChainKeeps
  <2>6. CASE EndThread(t)
    BY <2>6, EndThreadKeeps
  <2> QED BY <2>1, <2>2, <2>3, <2>4, <2>5, <2>6
<1> QED BY <1>1, <1>2

\* The invariant has what is to be shown of the pool.
LEMMA PoolIsRight ==
  ASSUME PoolInv
  PROVE  PoolKeepsObjects
<1> DEFINE threads == UNION {Cached(t) : t \in PoolThreads}
           chains == UNION {Pooled(n) : n \in DOMAIN global}
<1>1. \A o : o \in threads <=> \E t \in PoolThreads : o \in Cached(t)
  OBVIOUS
<1>2. \A o : o \in chains <=> \E n \in DOMAIN global : o \in Pooled(n)
  OBVIOUS
<1> HIDE DEF threads, chains
<1>3. used.objects \cup threads \cup chains = 1..used.created
  <2>1. \A o \in used.objects \cup threads \cup chains : o \in 1..used.created
    BY <1>1, <1>2 DEF PoolInv, PoolPlaced
  <2>2. \A o \in 1..used.created : o \in used.objects \cup threads \cup chains
    BY <1>1, <1>2 DEF PoolInv, PoolPlaced
  <2> QED BY <2>1, <2>2
<1>4. /\ \A n \in DOMAIN global : Len(global[n].chain) = global[n].size + 1
      /\ \A t \in PoolThreads \ ended : local[t] # <<>> => Len(local[t]) = size[t] + 1
      /\ \A t \in PoolThreads : size[t] <= PoolBatch
  BY DEF PoolInv, PoolSized, RightSize
<1>5. /\ \A t \in PoolThreads : IsInjective(local[t]) /\ Cached(t) \cap used.objects = {}
      /\ \A n \in DOMAIN global :
            IsInjective(global[n].chain) /\ Pooled(n) \cap used.objects = {}
      /\ \A t, u \in PoolThreads : t # u => Cached(t) \cap Cached(u) = {}
      /\ \A m, n \in DOMAIN global : m # n => Pooled(m) \cap Pooled(n) = {}
      /\ \A t \in PoolThreads, n \in DOMAIN global : Cached(t) \cap Pooled(n) = {}
  BY DEF PoolInv, PoolPlaced
<1>6. used.objects \cup (UNION {Cached(t) : t \in PoolThreads})
         \cup (UNION {Pooled(n) : n \in DOMAIN global}) = 1..used.created
  BY ONLY <1>3, Zenon DEF threads, chains
<1> QED BY <1>4, <1>5, <1>6, Zenon DEF PoolKeepsObjects

\* For any threads and any size of a batch every object that was created is in use or in
\* one place of one chain, and a thread that ends loses none (ThreadLocalPool.h:60-330).
THEOREM PoolIsKept ==
  PoolInit /\ [][PoolNext]_poolVars => []PoolKeepsObjects
<1>1. PoolInit => PoolInv
  BY PoolAssumption, PoolInitially
<1>2. PoolInv /\ [PoolNext]_poolVars => PoolInv'
  BY PoolAssumption, PoolStep
<1>3. PoolInv => PoolKeepsObjects
  BY PoolIsRight
<1> QED BY <1>1, <1>2, <1>3, PTL

-----------------------------------------------------------------------------
(* The heap: the invariant.                                                 *)

\* The tree with the item that moves in its place.
Logical == IF moving = Still THEN tree ELSE [tree EXCEPT ![moving.at] = moving.tmp]

HeapTyped ==
    /\ tree \in Seq(HeapItems) /\ index \in [HeapItems -> Int] /\ key \in [HeapItems -> Int]
    /\ \/ moving = Still
       \/ moving \in [way: {"up", "down"}, tmp: HeapItems, at: DOMAIN tree]

\* Every item is in one place, which it knows, but for the one that moves.
Indexed ==
    /\ \A m, n \in DOMAIN tree : Logical[m] = Logical[n] => m = n
    /\ \A n \in DOMAIN tree : index[Logical[n]] # n - 1 => moving # Still /\ n = moving.at
    /\ \A i \in HeapItems : Has(i) => \E n \in DOMAIN tree : Logical[n] = i

\* The values v of a tree of N places are ordered, between the place n and its parent.
Under(v, n) == v[Parent(n)] <= v[n]

\* The children of the place n would be under its parent, too.
Passed(v, N, n) == n > 1 => \A m \in 2..N : Parent(m) = n => v[Parent(n)] <= v[m]

AllUnder(v, N) == \A m \in 2..N : Under(v, m)
UnderBut(v, N, n) == \A m \in 2..N : m # n => Under(v, m)
OverBut(v, N, n) == \A m \in 2..N : Parent(m) # n => Under(v, m)

\* What the item at the place n makes way for: the one above, one of those below.
Rising(v, N, n) == UnderBut(v, N, n) /\ Passed(v, N, n) /\ n # 1 /\ v[n] <= v[Parent(n)]
Sinking(v, N, n) ==
    /\ OverBut(v, N, n) /\ Passed(v, N, n)
    /\ \E m \in 2..N : Parent(m) = n /\ v[m] <= v[n]

Values(t, k) == [n \in DOMAIN t |-> k[t[n]]]

OrderedBut(v, N, mv) ==
    /\ mv = Still => AllUnder(v, N)
    /\ mv # Still /\ mv.way = "up" => Rising(v, N, mv.at)
    /\ mv # Still /\ mv.way = "down" => Sinking(v, N, mv.at)

HeapInv == HeapTyped /\ Indexed /\ OrderedBut(Values(Logical, key), Len(tree), moving)

-----------------------------------------------------------------------------
(* The heap: places and values.                                             *)

\* The parent of a place is before it, the children come in pairs.
LEMMA HeapPlaces ==
  /\ \A n \in Nat : n >= 2 => Parent(n) \in Nat /\ Parent(n) >= 1 /\ Parent(n) < n
                              /\ (n = LeftChild(Parent(n)) \/ n = LeftChild(Parent(n)) + 1)
  /\ \A n \in Nat : n >= 1 => /\ LeftChild(n) \in Nat /\ LeftChild(n) >= 2 /\ LeftChild(n) > n
                              /\ Parent(LeftChild(n)) = n /\ Parent(LeftChild(n) + 1) = n
BY DEF Parent, LeftChild

\* The parents of the places of a tree are in it.
LEMMA ParentIn ==
  ASSUME NEW N \in Nat, NEW m \in 2..N
  PROVE  m \in 1..N /\ Parent(m) \in 1..N /\ Parent(m) < m /\ Parent(m) # m
<1>1. m \in Nat /\ m >= 2 /\ m <= N
  OBVIOUS
<1>2. Parent(m) \in Nat /\ Parent(m) >= 1 /\ Parent(m) < m
  BY <1>1, HeapPlaces
<1> QED BY <1>1, <1>2

\* What is at two places exchanged.
Exchanged(v, m, n) == [v EXCEPT ![m] = v[n], ![n] = v[m]]

\* What an exchange leaves.
LEMMA ExchangedIs ==
  ASSUME NEW N \in Nat, NEW v \in [1..N -> Int], NEW m \in 1..N, NEW n \in 1..N, m # n
  PROVE  /\ Exchanged(v, m, n) \in [1..N -> Int]
         /\ Exchanged(v, m, n)[m] = v[n] /\ Exchanged(v, m, n)[n] = v[m]
         /\ \A j \in 1..N : j # m /\ j # n => Exchanged(v, m, n)[j] = v[j]
BY DEF Exchanged

\* An exchange with the parent moves the place that is out of order up.
LEMMA RiseKeeps ==
  ASSUME NEW N \in Nat, NEW v \in [1..N -> Int], NEW n \in 1..N, Rising(v, N, n),
         NEW u, u = Exchanged(v, n, Parent(n))
  PROVE  /\ Parent(n) \in 1..N /\ Parent(n) # n
         /\ Passed(u, N, Parent(n)) /\ UnderBut(u, N, Parent(n))
         /\ Parent(n) = 1 \/ u[Parent(Parent(n))] = v[Parent(Parent(n))]
<1> DEFINE p == Parent(n)
<1>1. /\ p \in 1..N /\ p # n /\ n \in 2..N
      /\ \A m \in 2..N : Parent(m) \in 1..N /\ Parent(m) < m
  <2>1. n \in 2..N
    BY DEF Rising
  <2> QED BY <2>1, ParentIn
<1>2. u \in [1..N -> Int] /\ u[n] = v[p] /\ u[p] = v[n] /\ \A m \in 1..N : m # n /\ m # p => u[m] = v[m]
  <2>1. n \in 1..N /\ p \in 1..N /\ p # n
    BY <1>1
  <2>2. N \in Nat /\ v \in [1..N -> Int] /\ u = Exchanged(v, n, p)
    OBVIOUS
  <2> HIDE DEF p
  <2> QED BY ONLY <2>1, <2>2, ExchangedIs
<1>3. v[n] <= v[p] /\ \A m \in 2..N : m # n => v[Parent(m)] <= v[m]
  BY DEF Rising, UnderBut, Under
<1>4. \A m \in 2..N : Parent(m) = n => v[p] <= v[m]
  BY <1>1 DEF Rising, Passed
<1>5. p # 1 => Parent(p) \in 1..N /\ Parent(p) < p /\ Parent(p) # n /\ p \in 2..N
  BY <1>1
<1> HIDE DEF p
<1>6. ASSUME NEW m \in 2..N, m # p  PROVE u[Parent(m)] <= u[m]
  <2>1. CASE m = n
    BY <1>1, <1>2, <1>3, <2>1 DEF p
  <2>2. CASE m # n /\ Parent(m) = n
    BY <1>1, <1>2, <1>4, <1>6, <2>2
  <2>3. CASE m # n /\ Parent(m) = p
    BY <1>1, <1>2, <1>3, <1>6, <2>3
  <2>4. CASE m # n /\ Parent(m) # n /\ Parent(m) # p
    <3>1. m \in 1..N /\ Parent(m) \in 1..N
      BY <1>1
    <3>2. u[m] = v[m] /\ u[Parent(m)] = v[Parent(m)] /\ v[Parent(m)] <= v[m]
      BY <1>2, <1>3, <1>6, <2>4, <3>1
    <3> QED BY <3>2
  <2> QED BY <2>1, <2>2, <2>3, <2>4
<1>7. ASSUME p > 1, NEW m \in 2..N, Parent(m) = p  PROVE u[Parent(p)] <= u[m]
  <2>1. u[Parent(p)] = v[Parent(p)] /\ v[Parent(p)] <= v[p] /\ m # p
    BY <1>1, <1>2, <1>3, <1>5, <1>7
  <2>2. CASE m = n
    BY <1>2, <2>1, <2>2
  <2>3. CASE m # n
    <3>1. u[m] = v[m] /\ v[p] <= v[m] /\ v[p] \in Int /\ v[m] \in Int /\ v[Parent(p)] \in Int
      BY <1>1, <1>2, <1>3, <1>5, <1>7, <2>1, <2>3
    <3> QED BY <2>1, <3>1
  <2> QED BY <2>2, <2>3
<1>8. p = 1 \/ u[Parent(p)] = v[Parent(p)]
  <2>1. p # 1 => Parent(p) \in 1..N /\ Parent(p) # n /\ Parent(p) # p
    BY <1>1, <1>5
  <2> QED BY <1>2, <2>1
<1> QED BY <1>1, <1>6, <1>7, <1>8 DEF p, Passed, UnderBut, Under

\* An exchange with the top child moves the place that is out of order down.
LEMMA SinkKeeps ==
  ASSUME NEW N \in Nat, NEW v \in [1..N -> Int], NEW n \in 1..N,
         OverBut(v, N, n), Passed(v, N, n),
         NEW c \in 2..N, Parent(c) = n, v[c] <= v[n],
         \A m \in 2..N : Parent(m) = n => v[c] <= v[m],
         NEW u, u = Exchanged(v, n, c)
  PROVE  /\ c # n /\ Passed(u, N, c) /\ OverBut(u, N, c)
         /\ \A m \in 2..N : Parent(m) = c => u[m] = v[m]
<1>1. /\ c # n /\ n \in 1..N /\ c \in 1..N
      /\ \A m \in 2..N : m \in 1..N /\ Parent(m) \in 1..N /\ Parent(m) < m
  BY ParentIn
<1>2. u \in [1..N -> Int] /\ u[n] = v[c] /\ u[c] = v[n] /\ \A m \in 1..N : m # n /\ m # c => u[m] = v[m]
  <2>1. n \in 1..N /\ c \in 1..N /\ c # n
    BY <1>1
  <2>2. N \in Nat /\ v \in [1..N -> Int] /\ u = Exchanged(v, n, c)
    OBVIOUS
  <2> QED BY ONLY <2>1, <2>2, ExchangedIs
<1>3. \A m \in 2..N : Parent(m) # n => v[Parent(m)] <= v[m]
  BY DEF OverBut, Under
<1>4. n > 1 => v[Parent(n)] <= v[c]
  BY DEF Passed
<1>5. ASSUME NEW m \in 2..N, Parent(m) # c  PROVE u[Parent(m)] <= u[m]
  <2>1. CASE m = c
    BY <1>2, <2>1
  <2>2. CASE m = n
    <3>1. Parent(m) # n /\ n > 1
      BY <1>1, <2>2
    <3> QED BY <1>1, <1>2, <1>4, <1>5, <2>2, <3>1
  <2>3. CASE m # c /\ m # n /\ Parent(m) = n
    BY <1>1, <1>2, <2>3
  <2>4. CASE m # c /\ m # n /\ Parent(m) # n
    BY <1>1, <1>2, <1>3, <1>5, <2>4
  <2> QED BY <2>1, <2>2, <2>3, <2>4
<1>6. ASSUME NEW m \in 2..N, Parent(m) = c  PROVE u[m] = v[m] /\ u[Parent(c)] <= u[m]
  <2>1. m # c /\ m # n
    BY <1>1, <1>6
  <2>2. u[m] = v[m] /\ v[c] <= v[m]
    BY <1>1, <1>2, <1>3, <1>6, <2>1
  <2> QED BY <1>2, <2>2
<1> QED BY <1>1, <1>5, <1>6 DEF Passed, OverBut, Under

\* The values of a tree are numbers.
LEMMA ValuesAre ==
  ASSUME NEW t \in Seq(HeapItems), NEW k \in [HeapItems -> Int]
  PROVE  /\ Len(t) \in Nat /\ DOMAIN t = 1..Len(t) /\ Values(t, k) \in [1..Len(t) -> Int]
         /\ \A n \in 1..Len(t) : Values(t, k)[n] = k[t[n]] /\ t[n] \in HeapItems
<1>1. Len(t) \in Nat /\ DOMAIN t = 1..Len(t) /\ \A n \in 1..Len(t) : t[n] \in HeapItems
  BY LenProperties, ElementOfSeq
<1> QED BY <1>1 DEF Values

\* The top child is a child, and none of the children is less.
LEMMA TopIs ==
  ASSUME NEW t \in Seq(HeapItems), NEW k \in [HeapItems -> Int], NEW n \in 1..Len(t),
         LeftChild(n) <= Len(t), NEW c, c = TopChild(t, k, n)
  PROVE  /\ c \in 2..Len(t) /\ Parent(c) = n
         /\ \A m \in 2..Len(t) : Parent(m) = n => Values(t, k)[c] <= Values(t, k)[m]
<1> DEFINE l == LeftChild(n)
           v == Values(t, k)
<1>1. /\ Len(t) \in Nat /\ v \in [1..Len(t) -> Int]
      /\ \A m \in 1..Len(t) : v[m] = k[t[m]]
  BY ValuesAre
<1>2. n \in Nat /\ n >= 1
  BY <1>1
<1>3. l \in Nat /\ l >= 2 /\ Parent(l) = n /\ Parent(l + 1) = n /\ l <= Len(t)
  BY <1>2, HeapPlaces
<1>4. \A m \in 2..Len(t) : Parent(m) = n => m = l \/ m = l + 1
  <2> SUFFICES ASSUME NEW m \in 2..Len(t), Parent(m) = n  PROVE m = l \/ m = l + 1
    OBVIOUS
  <2>1. m \in Nat /\ m >= 2
    BY <1>1
  <2> QED BY <2>1, HeapPlaces
<1> HIDE DEF v
<1>5. c = IF l + 1 > Len(t) \/ k[t[l]] <= k[t[l + 1]] THEN l ELSE l + 1
  BY DEF TopChild, IsLeftAbove
<1> HIDE DEF l
<1>6. CASE l + 1 > Len(t)
  <2>1. c = l
    BY <1>5, <1>6
  <2>2. \A m \in 2..Len(t) : Parent(m) = n => m = l
    BY <1>1, <1>3, <1>4, <1>6
  <2>3. l \in 2..Len(t) /\ v[l] <= v[l]
    BY <1>1, <1>3
  <2> QED BY <1>3, <2>1, <2>2, <2>3 DEF v
<1>7. CASE ~(l + 1 > Len(t))
  <2>1. l \in 2..Len(t) /\ l + 1 \in 2..Len(t)
    BY <1>1, <1>3, <1>7
  <2>2. c = IF v[l] <= v[l + 1] THEN l ELSE l + 1
    BY <1>1, <1>3, <1>5, <1>7, <2>1
  <2>3. v[l] \in Int /\ v[l + 1] \in Int
    BY <1>1, <2>1
  <2>4. v[c] <= v[l] /\ v[c] <= v[l + 1] /\ c \in 2..Len(t) /\ Parent(c) = n
    BY <1>3, <2>1, <2>2, <2>3
  <2> QED BY <1>4, <2>4 DEF v
<1> QED BY <1>6, <1>7

\* What may be out of order at the place n is out of order with its parent, with its
\* children or not at all, and PrivUpdate() finds out.
LEMMA UpdateBegins ==
  ASSUME NEW t \in Seq(HeapItems), NEW k \in [HeapItems -> Int], NEW n \in 1..Len(t),
         \A m \in 2..Len(t) : m # n /\ Parent(m) # n => Under(Values(t, k), m),
         Passed(Values(t, k), Len(t), n), NEW mv, mv = UpdateAt(t, k, n)
  PROVE  /\ mv = Still \/ mv = [way |-> "up", tmp |-> t[n], at |-> n]
                       \/ mv = [way |-> "down", tmp |-> t[n], at |-> n]
         /\ OrderedBut(Values(t, k), Len(t), mv)
<1> DEFINE v == Values(t, k)
           N == Len(t)
           c == TopChild(t, k, n)
           up == [way |-> "up", tmp |-> t[n], at |-> n]
           down == [way |-> "down", tmp |-> t[n], at |-> n]
<1>1. /\ N \in Nat /\ v \in [1..N -> Int] /\ n \in 1..N
      /\ \A m \in 1..N : v[m] = k[t[m]]
  BY ValuesAre
<1>2. /\ \A m \in 2..N : m # n /\ Parent(m) # n => v[Parent(m)] <= v[m]
      /\ n > 1 => \A m \in 2..N : Parent(m) = n => v[Parent(n)] <= v[m]
  BY DEF Under, Passed
<1>3. \A m \in 2..N : m \in 1..N /\ Parent(m) \in 1..N /\ Parent(m) < m /\ Parent(m) # m
  BY <1>1, ParentIn
<1>4. LeftChild(n) <= N => c \in 2..N /\ Parent(c) = n /\ \A m \in 2..N : Parent(m) = n => v[c] <= v[m]
  BY TopIs
<1>5. LeftChild(n) > N => \A m \in 2..N : Parent(m) # n
  <2> SUFFICES ASSUME LeftChild(n) > N, NEW m \in 2..N, Parent(m) = n  PROVE FALSE
    OBVIOUS
  <2>1. m \in Nat /\ m >= 2 /\ m <= N
    BY <1>1
  <2>2. m = LeftChild(n) \/ m = LeftChild(n) + 1
    BY <2>1, HeapPlaces
  <2>3. LeftChild(n) \in Nat
    BY <1>1, HeapPlaces
  <2> QED BY <1>1, <2>1, <2>2, <2>3
<1>6. up # Still /\ down # Still /\ up.way = "up" /\ down.way = "down" /\ up.at = n /\ down.at = n
      /\ "up" # "down"
  BY DEF Still
<1>7. CASE n # 1 /\ ~(v[Parent(n)] <= v[n])
  <2>1. mv = up
    <3>1. UpdateUp(t, k, n) = up
      BY <1>1, <1>3, <1>7 DEF UpdateUp, IsLeftAbove
    <3> QED BY <1>6, <3>1 DEF UpdateAt
  <2>2. n \in 2..N /\ n > 1
    BY <1>1, <1>7
  <2>3. v[n] <= v[Parent(n)]
    <3>1. Parent(n) \in 1..N
      BY <1>3, <2>2
    <3>2. v[n] \in Int /\ v[Parent(n)] \in Int
      BY <1>1, <3>1
    <3> QED BY <1>7, <3>2
  <2>4. ASSUME NEW m \in 2..N, m # n  PROVE v[Parent(m)] <= v[m]
    <3>1. CASE Parent(m) # n
      BY <1>2, <2>4, <3>1
    <3>2. CASE Parent(m) = n
      <4>1. v[n] <= v[Parent(n)] /\ v[Parent(n)] <= v[m] /\ v[n] \in Int /\ v[m] \in Int
            /\ v[Parent(n)] \in Int
        BY <1>1, <1>2, <1>3, <2>2, <2>3, <3>2
      <4> QED BY <3>2, <4>1
    <3> QED BY <3>1, <3>2
  <2>5. Rising(v, N, n)
    BY <1>7, <2>3, <2>4 DEF Rising, UnderBut, Under
  <2> HIDE DEF v, N, up, down
  <2>6. OrderedBut(v, N, mv)
    BY <1>6, <2>1, <2>5 DEF OrderedBut
  <2> QED BY <2>1, <2>6 DEF v, N, up
<1>8. CASE n = 1 \/ v[Parent(n)] <= v[n]
  <2>1. UpdateUp(t, k, n) = Still
    <3>1. n # 1 => n \in 2..N
      BY <1>1
    <3> QED BY <1>1, <1>3, <1>8, <3>1 DEF UpdateUp, IsLeftAbove
  <2>2. mv = UpdateDown(t, k, n)
    BY <2>1 DEF UpdateAt
  <2>3. \A m \in 2..N : Parent(m) # n => v[Parent(m)] <= v[m]
    <3> SUFFICES ASSUME NEW m \in 2..N, Parent(m) # n  PROVE v[Parent(m)] <= v[m]
      OBVIOUS
    <3>1. m = n => n # 1
      BY <1>1
    <3> QED BY <1>2, <1>8, <3>1
  <2>4. CASE LeftChild(n) > N
    <3>1. mv = Still
      BY <2>2, <2>4 DEF UpdateDown
    <3>2. AllUnder(v, N)
      BY <1>5, <2>3, <2>4 DEF AllUnder, Under
    <3> HIDE DEF v, N
    <3>3. OrderedBut(v, N, mv)
      BY <3>1, <3>2 DEF OrderedBut
    <3> QED BY <3>1, <3>3 DEF v, N
  <2>5. CASE ~(LeftChild(n) > N) /\ v[n] <= v[c]
    <3>0. LeftChild(n) <= N
      BY <1>1, <2>5, HeapPlaces
    <3>1. mv = Still
      BY <1>1, <1>4, <2>2, <2>5, <3>0 DEF UpdateDown, IsLeftAbove
    <3>2. ASSUME NEW m \in 2..N  PROVE v[Parent(m)] <= v[m]
      <4>1. CASE Parent(m) # n
        BY <2>3, <4>1
      <4>2. CASE Parent(m) = n
        <5>1. v[n] <= v[c] /\ v[c] <= v[m] /\ v[n] \in Int /\ v[m] \in Int /\ v[c] \in Int
          BY <1>1, <1>3, <1>4, <2>5, <3>0, <4>2
        <5> QED BY <4>2, <5>1
      <4> QED BY <4>1, <4>2
    <3>3. AllUnder(v, N)
      BY <3>2 DEF AllUnder, Under
    <3> HIDE DEF v, N
    <3>4. OrderedBut(v, N, mv)
      BY <3>1, <3>3 DEF OrderedBut
    <3> QED BY <3>1, <3>4 DEF v, N
  <2>6. CASE ~(LeftChild(n) > N) /\ ~(v[n] <= v[c])
    <3>0. LeftChild(n) <= N
      BY <1>1, <2>6, HeapPlaces
    <3>1. mv = down
      BY <1>1, <1>4, <2>2, <2>6, <3>0 DEF UpdateDown, IsLeftAbove
    <3>2. v[c] <= v[n] /\ c \in 2..N /\ Parent(c) = n
      BY <1>1, <1>3, <1>4, <2>6, <3>0
    <3>3. Passed(v, N, n)
      BY <1>2 DEF Passed
    <3>4. Sinking(v, N, n)
      BY <2>3, <3>2, <3>3 DEF Sinking, OverBut, Under
    <3> HIDE DEF v, N, up, down
    <3>5. OrderedBut(v, N, mv)
      BY <1>6, <3>1, <3>4 DEF OrderedBut
    <3> QED BY <3>1, <3>5 DEF v, N, down
  <2> QED BY <2>4, <2>5, <2>6
<1> QED BY <1>7, <1>8

-----------------------------------------------------------------------------
(* The heap: the loops.                                                     *)

\* The tree that is meant while an item moves.
LEMMA LogicalIs ==
  ASSUME HeapTyped
  PROVE  /\ Logical \in Seq(HeapItems) /\ Len(Logical) = Len(tree) /\ Len(tree) \in Nat
         /\ DOMAIN tree = 1..Len(tree) /\ DOMAIN Logical = 1..Len(tree)
         /\ \A n \in 1..Len(tree) : Logical[n] \in HeapItems /\ tree[n] \in HeapItems
         /\ moving = Still => Logical = tree
         /\ moving # Still =>
               /\ moving \in [way: {"up", "down"}, tmp: HeapItems, at: 1..Len(tree)]
               /\ Logical[moving.at] = moving.tmp
               /\ \A n \in 1..Len(tree) : n # moving.at => Logical[n] = tree[n]
<1>1. /\ tree \in Seq(HeapItems) /\ Len(tree) \in Nat /\ DOMAIN tree = 1..Len(tree)
      /\ \A n \in 1..Len(tree) : tree[n] \in HeapItems
  BY LenProperties, ElementOfSeq DEF HeapTyped
<1>2. CASE moving = Still
  BY <1>1, <1>2 DEF Logical
<1>3. CASE moving # Still
  <2> DEFINE n == moving.at
             x == moving.tmp
             l == [tree EXCEPT ![n] = x]
  <2>1. moving \in [way: {"up", "down"}, tmp: HeapItems, at: 1..Len(tree)]
    BY <1>1, <1>3 DEF HeapTyped
  <2>2. n \in 1..Len(tree) /\ x \in HeapItems
    BY <2>1
  <2>3. Logical = l
    BY <1>3 DEF Logical
  <2> HIDE DEF n, x
  <2>4. l \in Seq(HeapItems) /\ Len(l) = Len(tree) /\ DOMAIN l = 1..Len(tree)
    BY <1>1, <2>2, ExceptSeq
  <2>5. l[n] = x /\ \A m \in 1..Len(tree) : m # n => l[m] = tree[m]
    BY <1>1, <2>2
  <2>6. \A m \in 1..Len(tree) : l[m] \in HeapItems
    BY <1>1, <2>2, <2>5
  <2> HIDE DEF l
  <2>7. /\ Logical \in Seq(HeapItems) /\ Len(Logical) = Len(tree) /\ DOMAIN Logical = 1..Len(tree)
        /\ \A m \in 1..Len(tree) : Logical[m] \in HeapItems
        /\ Logical[n] = x /\ \A m \in 1..Len(tree) : m # n => Logical[m] = tree[m]
    BY <2>3, <2>4, <2>5, <2>6
  <2> QED BY <1>1, <1>3, <2>1, <2>7 DEF n, x
<1> QED BY <1>2, <1>3

\* A turn of a loop exchanges the item that moves with another one.
LEMMA MovedIs ==
  ASSUME HeapTyped, Indexed, moving # Still, NEW m \in 1..Len(tree), m # moving.at,
         NEW goesOn \in BOOLEAN, MoveFrom(m, goesOn), key' = key
  PROVE  /\ HeapTyped' /\ Indexed' /\ Len(tree') = Len(tree)
         /\ moving' = IF goesOn THEN [moving EXCEPT !.at = m] ELSE Still
         /\ Values(Logical', key') = Exchanged(Values(Logical, key), moving.at, m)
<1> DEFINE N == Len(tree)
           n == moving.at
           x == moving.tmp
           L == Logical
           t == [tree EXCEPT ![n] = tree[m]]
           i == [index EXCEPT ![tree[m]] = n - 1]
           M == [L EXCEPT ![n] = L[m], ![m] = L[n]]
<1>1. /\ L \in Seq(HeapItems) /\ Len(L) = N /\ N \in Nat
      /\ DOMAIN tree = 1..N /\ DOMAIN L = 1..N /\ tree \in Seq(HeapItems)
      /\ \A j \in 1..N : L[j] \in HeapItems /\ tree[j] \in HeapItems
      /\ moving \in [way: {"up", "down"}, tmp: HeapItems, at: 1..N]
      /\ L[n] = x /\ n \in 1..N /\ x \in HeapItems
      /\ \A j \in 1..N : j # n => L[j] = tree[j]
  BY LogicalIs DEF HeapTyped
<1>2. /\ index \in [HeapItems -> Int] /\ key \in [HeapItems -> Int]
      /\ \A j, k \in 1..N : L[j] = L[k] => j = k
      /\ \A j \in 1..N : j # n => index[L[j]] = j - 1
      /\ \A o \in HeapItems : index[o] >= 0 => \E j \in 1..N : L[j] = o
  BY <1>1 DEF HeapTyped, Indexed, Has
<1>3. /\ goesOn => tree' = t /\ index' = i /\ moving' = [moving EXCEPT !.at = m]
      /\ ~goesOn => /\ tree' = [t EXCEPT ![m] = x] /\ index' = [i EXCEPT ![x] = m - 1]
                    /\ moving' = Still
  BY DEF MoveFrom
<1>4. moving # Still /\ (goesOn => moving' # Still /\ moving'.at = m /\ moving'.tmp = x)
  <2>1. moving.way \in {"up", "down"} /\ Still.way = "none" /\ [moving EXCEPT !.at = m].way = moving.way
    BY <1>1 DEF Still
  <2>2. "none" \notin {"up", "down"}
    OBVIOUS
  <2>3. goesOn => moving'.way \in {"up", "down"} /\ moving'.at = m /\ moving'.tmp = x
    BY <1>1, <1>3, <2>1
  <2> QED BY <2>1, <2>2, <2>3
<1>0. m # n
  OBVIOUS
<1> HIDE DEF L, x, n
<1>5. /\ t \in Seq(HeapItems) /\ Len(t) = N /\ DOMAIN t = 1..N
      /\ t[n] = L[m] /\ \A j \in 1..N : j # n => t[j] = L[j]
  <2>1. tree[m] \in HeapItems /\ tree[m] = L[m]
    BY <1>1 DEF n
  <2>2. t \in Seq(HeapItems) /\ Len(t) = N /\ DOMAIN t = 1..N
    BY <1>1, <2>1, ExceptSeq
  <2> QED BY <1>1, <2>1, <2>2
<1>6. /\ M \in Seq(HeapItems) /\ Len(M) = N /\ DOMAIN M = 1..N
      /\ M[n] = L[m] /\ M[m] = x /\ \A j \in 1..N : j # n /\ j # m => M[j] = L[j]
  <2>1. L[m] \in HeapItems /\ L[n] \in HeapItems /\ m # n
    BY <1>1 DEF n
  <2>2. [L EXCEPT ![n] = L[m]] \in Seq(HeapItems)
    BY <1>1, <2>1, ExceptSeq
  <2>3. M \in Seq(HeapItems) /\ Len(M) = N /\ DOMAIN M = 1..N
    BY <1>1, <2>1, <2>2, ExceptSeq
  <2> QED BY <1>1, <2>1, <2>3
<1>7. /\ i \in [HeapItems -> Int] /\ i[L[m]] = n - 1
      /\ \A o \in HeapItems : o # L[m] => i[o] = index[o]
  <2>1. tree[m] \in HeapItems /\ tree[m] = L[m] /\ n - 1 \in Int
    BY <1>1 DEF n
  <2> QED BY <1>2, <2>1
<1> HIDE DEF t, i, M
<1>8. tree' \in Seq(HeapItems) /\ Len(tree') = N /\ DOMAIN tree' = 1..N /\ Logical' = M
  <2>1. CASE goesOn
    <3>1. tree' = t /\ Logical' = [t EXCEPT ![m] = x]
      BY <1>3, <1>4, <2>1 DEF Logical
    <3>2. [t EXCEPT ![m] = x] \in Seq(HeapItems) /\ Len([t EXCEPT ![m] = x]) = N
          /\ \A j \in 1..N : [t EXCEPT ![m] = x][j] = M[j]
      BY <1>1, <1>5, <1>6, ExceptSeq DEF n
    <3>3. [t EXCEPT ![m] = x] = M
      BY <1>6, <3>2, SeqEqual
    <3> QED BY <1>5, <3>1, <3>3
  <2>2. CASE ~goesOn
    <3>1. tree' = [t EXCEPT ![m] = x] /\ Logical' = tree'
      BY <1>3, <2>2 DEF Logical
    <3>2. [t EXCEPT ![m] = x] \in Seq(HeapItems) /\ Len([t EXCEPT ![m] = x]) = N
          /\ \A j \in 1..N : [t EXCEPT ![m] = x][j] = M[j]
      BY <1>1, <1>5, <1>6, ExceptSeq DEF n
    <3>3. [t EXCEPT ![m] = x] = M
      BY <1>6, <3>2, SeqEqual
    <3> QED BY <1>6, <3>1, <3>3
  <2> QED BY <2>1, <2>2
<1>9. HeapTyped'
  <2>1. index' \in [HeapItems -> Int]
    BY <1>1, <1>3, <1>7
  <2>2. moving' = Still \/ moving' \in [way: {"up", "down"}, tmp: HeapItems, at: DOMAIN tree']
    BY <1>1, <1>3, <1>8 DEF n, x
  <2> QED BY <1>2, <1>8, <2>1, <2>2 DEF HeapTyped
<1>10. Indexed'
  <2>1. \A j, k \in 1..N : M[j] = M[k] => j = k
    <3> SUFFICES ASSUME NEW j \in 1..N, NEW k \in 1..N, M[j] = M[k]  PROVE j = k
      OBVIOUS
    <3> DEFINE to(a) == IF a = n THEN m ELSE IF a = m THEN n ELSE a
    <3>1. \A a \in 1..N : to(a) \in 1..N /\ M[a] = L[to(a)]
      BY <1>1, <1>6 DEF n, x
    <3>2. to(j) = to(k)
      BY <1>2, <3>1
    <3> QED BY <3>2
  <2>2. \A j \in 1..N : index'[M[j]] # j - 1 => moving' # Still /\ j = moving'.at
    <3> SUFFICES ASSUME NEW j \in 1..N, ~goesOn \/ j # m  PROVE index'[M[j]] = j - 1
      BY <1>4
    <3>1. CASE j = n
      <4>1. M[j] = L[m] /\ i[L[m]] = j - 1 /\ L[m] # x /\ L[m] \in HeapItems /\ m # n
        BY <1>1, <1>2, <1>6, <1>7, <3>1 DEF n
      <4> QED BY <1>3, <1>7, <4>1
    <3>2. CASE j = m
      <4>1. M[j] = x /\ ~goesOn /\ x \in HeapItems
        BY <1>1, <1>6, <3>2
      <4> QED BY <1>3, <1>7, <3>2, <4>1
    <3>3. CASE j # n /\ j # m
      <4>1. M[j] = L[j] /\ L[j] # L[m] /\ L[j] # x /\ L[j] \in HeapItems /\ index[L[j]] = j - 1
        BY <1>1, <1>2, <1>6, <3>3
      <4>2. i[L[j]] = j - 1
        BY <1>7, <4>1
      <4> QED BY <1>3, <1>7, <4>1, <4>2
    <3> QED BY <3>1, <3>2, <3>3
  <2>3. ASSUME NEW o \in HeapItems, index'[o] >= 0  PROVE \E j \in 1..N : M[j] = o
    <3>1. CASE o = x
      BY <1>6, <3>1
    <3>2. CASE o = L[m]
      BY <1>1, <1>6, <3>2
    <3>3. CASE o # x /\ o # L[m]
      <4>1. index'[o] = index[o]
        BY <1>1, <1>3, <1>7, <3>3
      <4>2. PICK j \in 1..N : L[j] = o
        BY <1>2, <2>3, <4>1
      <4>3. j # n /\ j # m
        BY <1>1, <3>3, <4>2
      <4> QED BY <1>6, <4>2, <4>3
    <3> QED BY <3>1, <3>2, <3>3
  <2> QED BY <1>8, <2>1, <2>2, <2>3 DEF Indexed, Has
<1>11. Values(Logical', key') = Exchanged(Values(L, key), n, m)
  <2> DEFINE v == Values(L, key)
             w == Values(M, key)
             u == Exchanged(v, n, m)
  <2>1. /\ v \in [1..N -> Int] /\ \A j \in 1..N : v[j] = key[L[j]]
        /\ w \in [1..N -> Int] /\ \A j \in 1..N : w[j] = key[M[j]]
    <3>1. L \in Seq(HeapItems) /\ M \in Seq(HeapItems) /\ key \in [HeapItems -> Int]
          /\ Len(L) = N /\ Len(M) = N
      BY <1>1, <1>2, <1>6
    <3> HIDE DEF N
    <3> QED BY ONLY <3>1, ValuesAre
  <2> HIDE DEF v, w
  <2>2. /\ u \in [1..N -> Int] /\ u[n] = v[m] /\ u[m] = v[n]
        /\ \A j \in 1..N : j # n /\ j # m => u[j] = v[j]
    <3>1. N \in Nat /\ n \in 1..N /\ m \in 1..N /\ n # m /\ v \in [1..N -> Int]
      BY <1>0, <1>1, <2>1
    <3> HIDE DEF N
    <3> QED BY ONLY <3>1, ExchangedIs
  <2> HIDE DEF u
  <2>3. ASSUME NEW j \in 1..N  PROVE w[j] = u[j]
    <3>1. CASE j = n
      BY <1>6, <2>1, <2>2, <3>1
    <3>2. CASE j = m
      BY <1>1, <1>6, <2>1, <2>2, <3>2
    <3>3. CASE j # n /\ j # m
      BY <1>6, <2>1, <2>2, <3>3
    <3> QED BY <3>1, <3>2, <3>3
  <2>4. w = u
    BY ONLY <2>1, <2>2, <2>3
  <2> QED BY <1>8, <2>4 DEF w, u, v
<1> QED BY <1>3, <1>8, <1>9, <1>10, <1>11 DEF n, L

\* Rising keeps the invariant.
LEMMA RiseStep ==
  ASSUME HeapInv, Rise
  PROVE  HeapInv'
<1> DEFINE N == Len(tree)
           n == moving.at
           p == Parent(n)
           v == Values(Logical, key)
           u == Exchanged(v, n, p)
           goesOn == p # 1 /\ IsLeftAbove(key, moving.tmp, tree[Parent(p)])
<1>1. HeapTyped /\ Indexed /\ moving.way = "up" /\ key' = key /\ MoveFrom(p, goesOn) /\ goesOn \in BOOLEAN
  BY DEF HeapInv, Rise
<1>2. moving # Still /\ "none" # "up"
  BY <1>1 DEF Still
<1>3. /\ Logical \in Seq(HeapItems) /\ Len(Logical) = N /\ N \in Nat
      /\ moving \in [way: {"up", "down"}, tmp: HeapItems, at: 1..N] /\ n \in 1..N
      /\ Logical[n] = moving.tmp
      /\ \A j \in 1..N : j # n => Logical[j] = tree[j]
      /\ key \in [HeapItems -> Int]
  BY <1>1, <1>2, LogicalIs DEF HeapTyped
<1>4. v \in [1..N -> Int] /\ \A j \in 1..N : v[j] = key[Logical[j]]
  BY <1>3, ValuesAre
<1>5. Rising(v, N, n)
  BY <1>1, <1>2 DEF HeapInv, OrderedBut
<1>0. u = Exchanged(v, n, p)
  OBVIOUS
<1> HIDE DEF N, n, v, u
<1>6. /\ p \in 1..N /\ p # n /\ Passed(u, N, p) /\ UnderBut(u, N, p)
      /\ p = 1 \/ u[Parent(p)] = v[Parent(p)]
  <2>1. N \in Nat /\ n \in 1..N /\ v \in [1..N -> Int]
    BY <1>3, <1>4
  <2> HIDE DEF p
  <2>2. p = Parent(n)
    BY DEF p
  <2> QED BY ONLY <1>0, <1>5, <2>1, <2>2, RiseKeeps
<1>7. u \in [1..N -> Int] /\ u[p] = v[n]
  <2>1. N \in Nat /\ n \in 1..N /\ v \in [1..N -> Int]
    BY <1>3, <1>4
  <2> HIDE DEF p
  <2> QED BY ONLY <1>0, <1>6, <2>1, ExchangedIs
<1>8. p # 1 => /\ Parent(p) \in 1..N /\ Parent(p) # n /\ Parent(p) # p
               /\ (goesOn <=> u[p] <= u[Parent(p)])
  <2> SUFFICES ASSUME p # 1
               PROVE  /\ Parent(p) \in 1..N /\ Parent(p) # n /\ Parent(p) # p
                      /\ (goesOn <=> u[p] <= u[Parent(p)])
    OBVIOUS
  <2>1. p \in 2..N /\ n \in 2..N
    <3>1. n # 1
      BY <1>5 DEF Rising
    <3> QED BY <1>3, <1>6, <3>1
  <2>2. Parent(p) \in 1..N /\ Parent(p) < p /\ p < n
    BY <1>3, <2>1, ParentIn
  <2>3. Parent(p) # n /\ Parent(p) # p
    <3>1. N \in Nat /\ n \in 1..N /\ p \in 1..N
      BY <1>3, <1>6
    <3> HIDE DEF p
    <3> QED BY ONLY <3>1, <2>2
  <2>4. tree[Parent(p)] = Logical[Parent(p)] /\ u[Parent(p)] = v[Parent(p)]
    BY <1>3, <1>6, <2>2, <2>3
  <2>5. goesOn <=> v[n] <= v[Parent(p)]
    BY <1>3, <1>4, <2>2, <2>4 DEF IsLeftAbove, n
  <2> QED BY <1>7, <2>2, <2>3, <2>4, <2>5
<1> HIDE DEF p, goesOn
<1>9. /\ HeapTyped' /\ Indexed' /\ Len(tree') = N
      /\ moving' = IF goesOn THEN [moving EXCEPT !.at = p] ELSE Still
      /\ Values(Logical', key') = u
  <2>1. p \in 1..Len(tree) /\ p # moving.at
    BY <1>6 DEF N, n
  <2>2. /\ HeapTyped' /\ Indexed' /\ Len(tree') = Len(tree)
        /\ moving' = IF goesOn THEN [moving EXCEPT !.at = p] ELSE Still
        /\ Values(Logical', key') =
               Exchanged(Values(Logical, key), moving.at, p)
    BY <1>1, <1>2, <2>1, MovedIs
  <2> QED BY <2>2 DEF N, n, v, u
<1>10. OrderedBut(u, N, moving')
  <2>1. CASE goesOn
    <3>1. moving' # Still /\ moving'.way = "up" /\ moving'.at = p
      BY <1>1, <1>2, <1>3, <1>9, <2>1 DEF Still
    <3>2. p # 1
      BY <2>1 DEF goesOn
    <3>3. Rising(u, N, p)
      BY <1>6, <1>8, <2>1, <3>2 DEF Rising
    <3> QED BY <3>1, <3>3 DEF OrderedBut
  <2>2. CASE ~goesOn
    <3>1. moving' = Still
      BY <1>9, <2>2
    <3>2. ASSUME p # 1  PROVE u[Parent(p)] <= u[p]
      <4>1. u[p] \in Int /\ u[Parent(p)] \in Int /\ ~(u[p] <= u[Parent(p)])
        BY <1>6, <1>7, <1>8, <2>2, <3>2
      <4> QED BY <4>1
    <3>3. \A m \in 2..N : m = p => p # 1
      BY <1>3
    <3>4. AllUnder(u, N)
      BY <1>6, <3>2, <3>3 DEF AllUnder, UnderBut, Under
    <3> QED BY <3>1, <3>4 DEF OrderedBut
  <2> QED BY <2>1, <2>2
<1> QED BY <1>9, <1>10 DEF HeapInv

\* Sinking keeps the invariant.
LEMMA SinkStep ==
  ASSUME HeapInv, Sink
  PROVE  HeapInv'
<1> DEFINE N == Len(tree)
           n == moving.at
           c == TopChild(tree, key, n)
           v == Values(Logical, key)
           w == Values(tree, key)
           u == Exchanged(v, n, c)
           d == TopChild(tree, key, c)
           goesOn == LeftChild(c) <= Len(tree) /\ IsLeftAbove(key, tree[d], moving.tmp)
<1>1. HeapTyped /\ Indexed /\ moving.way = "down" /\ key' = key /\ MoveFrom(c, goesOn) /\ goesOn \in BOOLEAN
  BY DEF HeapInv, Sink
<1>2. moving # Still /\ "none" # "down"
  BY <1>1 DEF Still
<1>3. /\ Logical \in Seq(HeapItems) /\ Len(Logical) = N /\ N \in Nat /\ tree \in Seq(HeapItems)
      /\ moving \in [way: {"up", "down"}, tmp: HeapItems, at: 1..N] /\ n \in 1..N
      /\ Logical[n] = moving.tmp
      /\ \A j \in 1..N : j # n => Logical[j] = tree[j]
      /\ key \in [HeapItems -> Int]
  BY <1>1, <1>2, LogicalIs DEF HeapTyped
<1>4. v \in [1..N -> Int] /\ \A j \in 1..N : v[j] = key[Logical[j]]
  BY <1>3, ValuesAre
<1>a. w \in [1..N -> Int] /\ \A j \in 1..N : w[j] = key[tree[j]]
  BY <1>3, ValuesAre
<1>b. \A j \in 1..N : j # n => w[j] = v[j]
  <2> SUFFICES ASSUME NEW j \in 1..N, j # n  PROVE w[j] = v[j]
    OBVIOUS
  <2>1. w[j] = key[tree[j]] /\ v[j] = key[Logical[j]] /\ Logical[j] = tree[j]
    BY <1>3, <1>4, <1>a
  <2> QED BY ONLY <2>1
<1>5. Sinking(v, N, n)
  BY <1>1, <1>2 DEF HeapInv, OrderedBut
<1>c. \A m \in 2..N : m \in 1..N /\ Parent(m) \in 1..N /\ Parent(m) < m /\ Parent(m) # m /\ m \in Nat /\ m >= 2
  BY <1>3, ParentIn
<1> HIDE DEF N, n, v, w
\* The children of a place.
<1>d. ASSUME NEW a \in 1..N, NEW b, b = TopChild(tree, key, a), LeftChild(a) <= N
      PROVE  /\ b \in 2..N /\ Parent(b) = a
             /\ \A m \in 2..N : Parent(m) = a => w[b] <= w[m]
  BY <1>3, <1>d, TopIs DEF N, w
<1>e. ASSUME NEW a \in 1..N, NEW m \in 2..N, Parent(m) = a
      PROVE  LeftChild(a) <= N
  <2>1. m = LeftChild(a) \/ m = LeftChild(a) + 1
    BY <1>c, <1>e, HeapPlaces
  <2>2. a \in Nat /\ a >= 1 /\ m <= N /\ m \in Nat
    BY <1>3
  <2>3. LeftChild(a) \in Nat
    BY <2>2, HeapPlaces
  <2> QED BY ONLY <1>3, <2>1, <2>2, <2>3
<1>6. PICK o \in 2..N : Parent(o) = n /\ v[o] <= v[n]
  BY <1>5 DEF Sinking
<1>7. LeftChild(n) <= N
  BY <1>3, <1>6, <1>e
<1>8. c \in 2..N /\ Parent(c) = n /\ c # n /\ \A m \in 2..N : Parent(m) = n => v[c] <= v[m]
  <2>1. c \in 2..N /\ Parent(c) = n /\ \A m \in 2..N : Parent(m) = n => w[c] <= w[m]
    BY <1>3, <1>7, <1>d
  <2>2. c # n
    BY <2>1, <1>c
  <2>3. \A m \in 2..N : Parent(m) = n => w[m] = v[m]
    BY <1>b, <1>c
  <2> QED BY <2>1, <2>2, <2>3
<1>9. v[c] <= v[n]
  <2>1. v[c] <= v[o] /\ v[o] <= v[n] /\ v[c] \in Int /\ v[o] \in Int /\ v[n] \in Int
    BY <1>3, <1>4, <1>6, <1>8, <1>c
  <2> QED BY <2>1
<1>0. u = Exchanged(v, n, c)
  OBVIOUS
<1> HIDE DEF c, u
<1>10. /\ Passed(u, N, c) /\ OverBut(u, N, c)
       /\ \A m \in 2..N : Parent(m) = c => u[m] = v[m]
  <2>1. OverBut(v, N, n) /\ Passed(v, N, n)
    BY <1>5 DEF Sinking
  <2>2. N \in Nat /\ n \in 1..N /\ v \in [1..N -> Int]
    BY <1>3, <1>4
  <2> QED BY ONLY <1>0, <1>8, <1>9, <2>1, <2>2, SinkKeeps
<1>11. u \in [1..N -> Int] /\ u[c] = v[n] /\ c \in 1..N
  <2>1. N \in Nat /\ n \in 1..N /\ v \in [1..N -> Int] /\ c \in 1..N /\ c # n
    BY <1>3, <1>4, <1>8, <1>c
  <2> QED BY ONLY <1>0, <2>1, ExchangedIs
\* What is below the place that the item has come to.
<1>12. /\ \A m \in 2..N : Parent(m) = c => LeftChild(c) <= N
       /\ LeftChild(c) <= N =>
             /\ d \in 2..N /\ Parent(d) = c /\ \A m \in 2..N : Parent(m) = c => u[d] <= u[m]
             /\ (goesOn <=> u[d] <= u[c])
  <2>1. \A m \in 2..N : Parent(m) = c => LeftChild(c) <= N
    BY <1>11, <1>e
  <2>2. ASSUME LeftChild(c) <= N
        PROVE  /\ d \in 2..N /\ Parent(d) = c /\ \A m \in 2..N : Parent(m) = c => u[d] <= u[m]
               /\ (goesOn <=> u[d] <= u[c])
    <3>1. d \in 2..N /\ Parent(d) = c /\ \A m \in 2..N : Parent(m) = c => w[d] <= w[m]
      BY <1>11, <1>d, <2>2
    <3>2. \A m \in 2..N : Parent(m) = c => m # n
      BY <1>3, <1>8, <1>c
    <3>3. \A m \in 2..N : Parent(m) = c => u[m] = w[m]
      BY <1>10, <1>b, <1>c, <3>2
    <3>4. goesOn <=> w[d] <= v[n]
      <4>1. w[d] = key[tree[d]] /\ v[n] = key[moving.tmp]
        BY <1>3, <1>4, <1>a, <1>c, <3>1 DEF n
      <4> QED BY <2>2, <4>1 DEF IsLeftAbove, N
    <3> QED BY <1>11, <3>1, <3>3, <3>4
  <2> QED BY <2>1, <2>2
<1>f. goesOn => LeftChild(c) <= N
  BY DEF N
<1> HIDE DEF d, goesOn
<1>13. /\ HeapTyped' /\ Indexed' /\ Len(tree') = N
       /\ moving' = IF goesOn THEN [moving EXCEPT !.at = c] ELSE Still
       /\ Values(Logical', key') = u
  <2>1. c \in 1..Len(tree) /\ c # moving.at
    BY <1>8, <1>11 DEF N, n
  <2>2. /\ HeapTyped' /\ Indexed' /\ Len(tree') = Len(tree)
        /\ moving' = IF goesOn THEN [moving EXCEPT !.at = c] ELSE Still
        /\ Values(Logical', key') =
               Exchanged(Values(Logical, key), moving.at, c)
    BY <1>1, <1>2, <2>1, MovedIs
  <2> QED BY <2>2 DEF N, n, v, u
<1>14. OrderedBut(u, N, moving')
  <2>1. CASE goesOn
    <3>1. moving' # Still /\ moving'.way = "down" /\ moving'.at = c
      BY <1>1, <1>2, <1>3, <1>13, <2>1 DEF Still
    <3>2. Sinking(u, N, c)
      BY <1>10, <1>12, <1>f, <2>1 DEF Sinking
    <3> QED BY <3>1, <3>2 DEF OrderedBut
  <2>2. CASE ~goesOn
    <3>1. moving' = Still
      BY <1>13, <2>2
    <3>2. ASSUME NEW m \in 2..N, Parent(m) = c  PROVE u[c] <= u[m]
      <4>1. /\ d \in 1..N /\ m \in 1..N /\ u[d] <= u[m] /\ ~(u[d] <= u[c])
            /\ u[d] \in Int /\ u[c] \in Int /\ u[m] \in Int
        BY <1>11, <1>12, <1>c, <2>2, <3>2
      <4> QED BY <4>1
    <3>3. AllUnder(u, N)
      BY <1>10, <3>2 DEF AllUnder, OverBut, Under
    <3> QED BY <3>1, <3>3 DEF OrderedBut
  <2> QED BY <2>1, <2>2
<1> QED BY <1>13, <1>14 DEF HeapInv

-----------------------------------------------------------------------------
(* The heap: the operations.                                                *)

\* Every item of a tree t is in one place, which the indexes x give.
Placed(t, x) ==
    /\ \A m, n \in 1..Len(t) : t[m] = t[n] => m = n
    /\ \A n \in 1..Len(t) : x[t[n]] = n - 1
    /\ \A i \in HeapItems : x[i] >= 0 => \E n \in 1..Len(t) : t[n] = i

\* What holds between the operations.
LEMMA StillIs ==
  ASSUME HeapInv, moving = Still
  PROVE  /\ tree \in Seq(HeapItems) /\ Len(tree) \in Nat /\ Placed(tree, index)
         /\ index \in [HeapItems -> Int] /\ key \in [HeapItems -> Int]
         /\ \A n \in 1..Len(tree) : tree[n] \in HeapItems
         /\ Values(tree, key) \in [1..Len(tree) -> Int]
         /\ \A n \in 1..Len(tree) : Values(tree, key)[n] = key[tree[n]]
         /\ AllUnder(Values(tree, key), Len(tree))
<1>1. /\ HeapTyped /\ Logical = tree /\ Len(tree) \in Nat /\ DOMAIN tree = 1..Len(tree)
      /\ \A n \in 1..Len(tree) : tree[n] \in HeapItems
  BY LogicalIs DEF HeapInv
<1>2. tree \in Seq(HeapItems) /\ index \in [HeapItems -> Int] /\ key \in [HeapItems -> Int]
  BY <1>1 DEF HeapTyped
<1>3. Placed(tree, index)
  BY <1>1 DEF HeapInv, Indexed, Has, Placed
<1>4. AllUnder(Values(tree, key), Len(tree))
  BY <1>1 DEF HeapInv, OrderedBut
<1>5. /\ Values(tree, key) \in [1..Len(tree) -> Int]
      /\ \A n \in 1..Len(tree) : Values(tree, key)[n] = key[tree[n]]
  BY <1>2, ValuesAre
<1> QED BY <1>1, <1>2, <1>3, <1>4, <1>5

\* What an operation leaves to a loop, if it leaves anything, is the item in its place.
LEMMA LeftWell ==
  ASSUME tree' \in Seq(HeapItems), index' \in [HeapItems -> Int], key' \in [HeapItems -> Int],
         Placed(tree', index'), OrderedBut(Values(tree', key'), Len(tree'), moving'),
         \/ moving' = Still
         \/ \E n \in 1..Len(tree'), w \in {"up", "down"} :
               moving' = [way |-> w, tmp |-> tree'[n], at |-> n]
  PROVE  HeapInv'
<1>1. /\ Len(tree') \in Nat /\ DOMAIN tree' = 1..Len(tree')
      /\ \A n \in 1..Len(tree') : tree'[n] \in HeapItems
  BY LenProperties, ElementOfSeq
<1>2. HeapTyped' /\ Logical' = tree'
  <2>1. CASE moving' = Still
    BY <2>1 DEF HeapTyped, Logical
  <2>2. ASSUME NEW n \in 1..Len(tree'), NEW w \in {"up", "down"},
               moving' = [way |-> w, tmp |-> tree'[n], at |-> n]
        PROVE  HeapTyped' /\ Logical' = tree'
    <3>1. moving' \in [way: {"up", "down"}, tmp: HeapItems, at: DOMAIN tree']
      BY <1>1, <2>2
    <3>2. moving'.at = n /\ moving'.tmp = tree'[n]
      BY <2>2
    <3>3. [tree' EXCEPT ![n] = tree'[n]] = tree'
      <4>1. tree' \in [1..Len(tree') -> HeapItems]
        BY <1>1
      <4> QED BY <1>1, <4>1
    <3>4. Logical' = tree'
      BY <3>2, <3>3 DEF Logical
    <3> QED BY <3>1, <3>4 DEF HeapTyped
  <2> QED BY <2>1, <2>2
<1>3. Indexed'
  BY <1>1, <1>2 DEF Indexed, Placed, Has
<1> QED BY <1>2, <1>3 DEF HeapInv

\* When one value of an ordered tree changes, or one is added or taken away at the end,
\* the others stay in order.
LEMMA OneChanged ==
  ASSUME NEW N \in Nat, NEW v \in [1..N -> Int], AllUnder(v, N),
         NEW M \in Nat, NEW u \in [1..M -> Int], NEW n \in Nat,
         \A j \in 1..M : j # n => j \in 1..N /\ u[j] = v[j]
  PROVE  /\ \A m \in 2..M : m # n /\ Parent(m) # n => Under(u, m)
         /\ Passed(u, M, n)
<1>1. \A m \in 2..M : m \in 1..M /\ Parent(m) \in 1..M /\ Parent(m) < m /\ Parent(m) # m
  BY ParentIn
<1>2. \A m \in 2..N : v[Parent(m)] <= v[m]
  BY DEF AllUnder, Under
<1>3. ASSUME NEW m \in 2..M, m # n, Parent(m) # n  PROVE u[Parent(m)] <= u[m]
  <2>1. m \in 2..N /\ u[m] = v[m] /\ u[Parent(m)] = v[Parent(m)]
    BY <1>1, <1>3
  <2> QED BY <1>2, <2>1
<1>4. ASSUME n > 1, NEW m \in 2..M, Parent(m) = n  PROVE u[Parent(n)] <= u[m]
  <2>1. m \in 2..N /\ u[m] = v[m] /\ n < m /\ n \in 1..M /\ m # n
    BY <1>1, <1>4
  <2>2. n \in 2..M /\ n \in 2..N
    BY <1>4, <2>1
  <2>3. Parent(n) \in 1..M /\ Parent(n) # n /\ Parent(n) \in 1..N
    BY <1>1, <2>2, ParentIn
  <2>4. u[Parent(n)] = v[Parent(n)] /\ v[Parent(n)] <= v[n] /\ v[n] <= v[m]
    BY <1>2, <1>4, <2>1, <2>2, <2>3
  <2>5. v[Parent(n)] \in Int /\ v[n] \in Int /\ v[m] \in Int
    BY <2>1, <2>2, <2>3
  <2> QED BY <2>1, <2>4, <2>5
<1> QED BY <1>3, <1>4 DEF Under, Passed

\* An operation that changes one place and updates it keeps the invariant.
LEMMA OperationKeeps ==
  ASSUME HeapInv, moving = Still,
         tree' \in Seq(HeapItems), index' \in [HeapItems -> Int], key' \in [HeapItems -> Int],
         Placed(tree', index'), NEW n \in 1..Len(tree'),
         \A j \in 1..Len(tree') :
            j # n => j \in 1..Len(tree) /\ Values(tree', key')[j] = Values(tree, key)[j],
         moving' = UpdateAt(tree', key', n)
  PROVE  HeapInv'
<1> DEFINE v == Values(tree, key)
           u == Values(tree', key')
<1>1. Len(tree) \in Nat /\ v \in [1..Len(tree) -> Int] /\ AllUnder(v, Len(tree))
  BY StillIs
<1>2. Len(tree') \in Nat /\ u \in [1..Len(tree') -> Int]
  BY ValuesAre
<1> HIDE DEF v
<1>3. /\ \A m \in 2..Len(tree') : m # n /\ Parent(m) # n => Under(u, m)
      /\ Passed(u, Len(tree'), n)
  <2>1. n \in Nat /\ \A j \in 1..Len(tree') : j # n => j \in 1..Len(tree) /\ u[j] = v[j]
    BY <1>2 DEF v
  <2> HIDE DEF u
  <2> QED BY ONLY <1>1, <1>2, <2>1, OneChanged
<1>4. /\ \/ moving' = Still
         \/ moving' = [way |-> "up", tmp |-> tree'[n], at |-> n]
         \/ moving' = [way |-> "down", tmp |-> tree'[n], at |-> n]
      /\ OrderedBut(u, Len(tree'), moving')
  BY <1>3, UpdateBegins
<1> QED BY <1>4, LeftWell

\* A pushed item is the last one.
LEMMA PushStep ==
  ASSUME HeapInv, NEW i \in HeapItems, NEW k \in Int, Push(i, k)
  PROVE  HeapInv'
<1> DEFINE N == Len(tree)
<1>1. /\ moving = Still /\ ~(index[i] >= 0) /\ tree' = Append(tree, i)
      /\ index' = [index EXCEPT ![i] = N] /\ key' = [key EXCEPT ![i] = k]
      /\ moving' = UpdateUp(tree', key', N + 1)
  BY DEF Push, Has
<1>2. /\ tree \in Seq(HeapItems) /\ N \in Nat /\ Placed(tree, index)
      /\ index \in [HeapItems -> Int] /\ key \in [HeapItems -> Int]
      /\ \A n \in 1..N : tree[n] \in HeapItems
      /\ \A n \in 1..N : Values(tree, key)[n] = key[tree[n]]
  BY <1>1, StillIs
<1>3. /\ tree' \in Seq(HeapItems) /\ Len(tree') = N + 1 /\ tree'[N + 1] = i
      /\ \A n \in 1..N : tree'[n] = tree[n]
  BY <1>1, <1>2, AppendProperties
<1>4. /\ index' \in [HeapItems -> Int] /\ key' \in [HeapItems -> Int]
      /\ index'[i] = N /\ \A o \in HeapItems : o # i => index'[o] = index[o] /\ key'[o] = key[o]
  BY <1>1, <1>2
<1>5. \A n \in 1..N : tree[n] # i
  BY <1>1, <1>2 DEF Placed
<1> HIDE DEF N
<1>6. \A n \in 1..(N + 1) : n \in 1..N \/ n = N + 1
  BY <1>2
<1>7. N + 1 \in 1..Len(tree') /\ \A n \in 1..N : n \in 1..(N + 1) /\ n # N + 1
  BY <1>2, <1>3
<1>8. Placed(tree', index')
  <2>1. \A m, n \in 1..N : tree[m] = tree[n] => m = n
    BY <1>2 DEF Placed, N
  <2>2. \A m, n \in 1..Len(tree') : tree'[m] = tree'[n] => m = n
    BY <1>3, <1>5, <1>6, <2>1
  <2>3. \A n \in 1..Len(tree') : index'[tree'[n]] = n - 1
    <3> SUFFICES ASSUME NEW n \in 1..Len(tree')  PROVE index'[tree'[n]] = n - 1
      OBVIOUS
    <3>1. CASE n = N + 1
      BY <1>2, <1>3, <1>4, <3>1
    <3>2. CASE n \in 1..N
      <4>1. tree'[n] = tree[n] /\ index[tree[n]] = n - 1
        BY <1>2, <1>3, <3>2 DEF Placed, N
      <4> QED BY <1>2, <1>4, <1>5, <3>2, <4>1
    <3> QED BY <1>3, <1>6, <3>1, <3>2
  <2>4. \A o \in HeapItems : index'[o] >= 0 => \E n \in 1..Len(tree') : tree'[n] = o
    <3> SUFFICES ASSUME NEW o \in HeapItems, index'[o] >= 0
                 PROVE  \E n \in 1..Len(tree') : tree'[n] = o
      OBVIOUS
    <3>1. CASE o = i
      BY <1>3, <1>7, <3>1
    <3>2. CASE o # i
      <4>1. PICK n \in 1..N : tree[n] = o
        BY <1>2, <1>4, <3>2 DEF Placed, N
      <4> QED BY <1>3, <1>7, <4>1
    <3> QED BY <3>1, <3>2
  <2> QED BY <2>2, <2>3, <2>4 DEF Placed
<1>9. \A j \in 1..Len(tree') :
         j # N + 1 => j \in 1..Len(tree) /\ Values(tree', key')[j] = Values(tree, key)[j]
  <2> SUFFICES ASSUME NEW j \in 1..Len(tree'), j # N + 1
               PROVE  j \in 1..Len(tree) /\ Values(tree', key')[j] = Values(tree, key)[j]
    OBVIOUS
  <2>1. j \in 1..N
    BY <1>3, <1>6
  <2>2. Values(tree', key')[j] = key'[tree'[j]]
    BY <1>3, <1>4, ValuesAre
  <2> QED BY <1>2, <1>3, <1>4, <1>5, <2>1, <2>2 DEF N
<1>10. moving' = UpdateAt(tree', key', N + 1)
  <2>1. UpdateDown(tree', key', N + 1) = Still
    <3>1. LeftChild(N + 1) > Len(tree')
      BY <1>2, <1>3 DEF LeftChild
    <3> QED BY <3>1 DEF UpdateDown
  <2> QED BY <1>1, <2>1 DEF UpdateAt, N
<1> QED BY <1>1, <1>3, <1>4, <1>7, <1>8, <1>9, <1>10, OperationKeeps

\* Nothing is above the top.
LEMMA TopSinks ==
  ASSUME NEW t, NEW k
  PROVE  UpdateDown(t, k, 1) = UpdateAt(t, k, 1)
BY DEF UpdateAt, UpdateUp

\* A changed key is that of one place.
LEMMA KeyStep ==
  ASSUME HeapInv, moving = Still, NEW n \in 1..Len(tree), NEW k \in Int,
         key' = [key EXCEPT ![tree[n]] = k], UNCHANGED <<tree, index>>,
         moving' = UpdateAt(tree, key', n)
  PROVE  HeapInv'
<1>1. /\ tree \in Seq(HeapItems) /\ Placed(tree, index)
      /\ index \in [HeapItems -> Int] /\ key \in [HeapItems -> Int]
      /\ \A j \in 1..Len(tree) : tree[j] \in HeapItems
      /\ \A j \in 1..Len(tree) : Values(tree, key)[j] = key[tree[j]]
  BY StillIs
<1>2. /\ key' \in [HeapItems -> Int]
      /\ \A j \in 1..Len(tree) : j # n => key'[tree[j]] = key[tree[j]]
  <2>1. \A j \in 1..Len(tree) : tree[j] = tree[n] => j = n
    BY <1>1 DEF Placed
  <2> QED BY <1>1, <2>1
<1>3. \A j \in 1..Len(tree) : j # n => Values(tree, key')[j] = Values(tree, key)[j]
  <2>1. \A j \in 1..Len(tree) : Values(tree, key')[j] = key'[tree[j]]
    <3>1. tree \in Seq(HeapItems) /\ key' \in [HeapItems -> Int]
      BY <1>1, <1>2
    <3> QED BY ONLY <3>1, ValuesAre
  <2> QED BY <1>1, <1>2, <2>1
<1>4. tree' = tree /\ index' = index
  OBVIOUS
<1> QED BY <1>1, <1>2, <1>3, <1>4, OperationKeeps

\* The last item takes the place of the one that is taken out.
LEMMA TakenOut ==
  ASSUME HeapInv, moving = Still, NEW n \in 1..Len(tree), TakeOut(n)
  PROVE  /\ tree' \in Seq(HeapItems) /\ Len(tree') = Len(tree) - 1 /\ Placed(tree', index')
         /\ index' \in [HeapItems -> Int] /\ key' \in [HeapItems -> Int]
         /\ \A j \in 1..Len(tree') :
               j # n => j \in 1..Len(tree) /\ Values(tree', key')[j] = Values(tree, key)[j]
<1> DEFINE N == Len(tree)
           final == tree[N]
           t == [tree EXCEPT ![n] = final]
<1>1. /\ tree' = SubSeq(t, 1, N - 1)
      /\ index' = IF n = N THEN [index EXCEPT ![final] = -1]
                  ELSE [index EXCEPT ![tree[n]] = -1, ![final] = n - 1]
      /\ key' = [key EXCEPT ![tree[n]] = 0]
  BY DEF TakeOut
<1>2. /\ tree \in Seq(HeapItems) /\ N \in Nat
      /\ index \in [HeapItems -> Int] /\ key \in [HeapItems -> Int]
      /\ \A j \in 1..N : tree[j] \in HeapItems
      /\ \A j \in 1..N : Values(tree, key)[j] = key[tree[j]]
  BY StillIs
<1>3. /\ \A i, j \in 1..N : tree[i] = tree[j] => i = j
      /\ \A j \in 1..N : index[tree[j]] = j - 1
      /\ \A i \in HeapItems : index[i] >= 0 => \E j \in 1..N : tree[j] = i
  BY StillIs DEF Placed
<1>4. /\ N >= 1 /\ N \in 1..N /\ n \in 1..N /\ N - 1 \in Nat /\ n \in Nat
      /\ \A j \in 1..(N - 1) : j \in 1..N /\ j # N
      /\ \A j \in 1..N : j # N => j \in 1..(N - 1)
  BY <1>2
<1> HIDE DEF N
<1>5. /\ t \in Seq(HeapItems) /\ Len(t) = N /\ t[n] = final
      /\ \A j \in 1..N : j # n => t[j] = tree[j]
  <2>1. final \in HeapItems /\ DOMAIN tree = 1..N
    BY <1>2, <1>4 DEF N
  <2>2. t \in Seq(HeapItems) /\ Len(t) = Len(tree)
    BY <1>2, <1>4, <2>1, ExceptSeq
  <2> QED BY <1>4, <2>1, <2>2 DEF N
<1>6. final \in HeapItems /\ tree[n] \in HeapItems
  BY <1>2, <1>4
<1> HIDE DEF t
<1>7. /\ tree' \in Seq(HeapItems) /\ Len(tree') = N - 1
      /\ \A j \in 1..(N - 1) : tree'[j] = t[j]
  <2>1. \A j \in 1..(N - 1) : t[j] \in HeapItems
    BY <1>2, <1>4, <1>5, <1>6
  <2> QED BY <1>1, <1>2, <1>4, <1>5, <2>1, SubSeqProperties
<1>8. /\ index' \in [HeapItems -> Int] /\ key' \in [HeapItems -> Int]
      /\ index'[tree[n]] = -1 /\ (n # N => index'[final] = n - 1)
      /\ \A o \in HeapItems : o # tree[n] /\ o # final => index'[o] = index[o]
      /\ \A o \in HeapItems : o # tree[n] => key'[o] = key[o]
  <2>1. n # N => tree[n] # final
    BY <1>3, <1>4
  <2>2. CASE n = N
    BY <1>1, <1>2, <1>4, <1>6, <2>2
  <2>3. CASE n # N
    BY <1>1, <1>2, <1>4, <1>6, <2>1, <2>3
  <2> QED BY <2>2, <2>3
<1> HIDE DEF final
\* What has stayed, and what has moved.
<1>9. \A j \in 1..(N - 1) : \/ j = n /\ n # N /\ tree'[j] = final
                            \/ j # n /\ tree'[j] = tree[j]
  BY <1>4, <1>5, <1>7
<1>10. \A j \in 1..(N - 1) : tree[j] # final
  BY <1>3, <1>4 DEF final
<1>11. \A j \in 1..N : j # n => tree[j] # tree[n]
  BY <1>3, <1>4
<1>12. Placed(tree', index')
  <2>1. \A i, j \in 1..Len(tree') : tree'[i] = tree'[j] => i = j
    <3> SUFFICES ASSUME NEW i \in 1..(N - 1), NEW j \in 1..(N - 1), tree'[i] = tree'[j]
                 PROVE  i = j
      BY <1>7
    <3> QED BY <1>3, <1>4, <1>9, <1>10
  <2>2. \A j \in 1..Len(tree') : index'[tree'[j]] = j - 1
    <3> SUFFICES ASSUME NEW j \in 1..(N - 1)  PROVE index'[tree'[j]] = j - 1
      BY <1>7
    <3>1. CASE j = n
      BY <1>8, <1>9, <3>1
    <3>2. CASE j # n
      <4>1. tree'[j] = tree[j] /\ tree[j] \in HeapItems /\ tree[j] # final /\ tree[j] # tree[n]
            /\ index[tree[j]] = j - 1
        BY <1>2, <1>3, <1>4, <1>9, <1>10, <1>11, <3>2
      <4> QED BY <1>8, <4>1
    <3> QED BY <3>1, <3>2
  <2>3. \A o \in HeapItems : index'[o] >= 0 => \E j \in 1..Len(tree') : tree'[j] = o
    <3> SUFFICES ASSUME NEW o \in HeapItems, index'[o] >= 0
                 PROVE  \E j \in 1..(N - 1) : tree'[j] = o
      BY <1>7
    <3>0. o # tree[n]
      BY <1>8
    <3>1. CASE o = final
      <4>1. n # N
        BY <3>0, <3>1 DEF final
      <4> QED BY <1>4, <1>9, <3>1, <4>1
    <3>2. CASE o # final
      <4>1. PICK j \in 1..N : tree[j] = o
        BY <1>3, <1>8, <3>0, <3>2
      <4>2. j # n /\ j # N
        BY <3>0, <3>2, <4>1 DEF final
      <4> QED BY <1>4, <1>9, <4>1, <4>2
    <3> QED BY <3>1, <3>2
  <2> QED BY <2>1, <2>2, <2>3 DEF Placed
<1>13. ASSUME NEW j \in 1..(N - 1), j # n
       PROVE  j \in 1..N /\ Values(tree', key')[j] = Values(tree, key)[j]
  <2>1. j \in 1..N /\ tree'[j] = tree[j] /\ tree[j] # tree[n] /\ tree[j] \in HeapItems
    BY <1>2, <1>4, <1>9, <1>11, <1>13
  <2>2. Values(tree', key')[j] = key'[tree'[j]]
    <3>1. tree' \in Seq(HeapItems) /\ key' \in [HeapItems -> Int] /\ j \in 1..Len(tree')
      BY <1>7, <1>8
    <3> QED BY ONLY <3>1, ValuesAre
  <2> QED BY <1>2, <1>8, <2>1, <2>2
<1> QED BY <1>7, <1>8, <1>12, <1>13 DEF N

\* Removing an item keeps the invariant.
LEMMA RemoveStep ==
  ASSUME HeapInv, moving = Still, NEW n \in 1..Len(tree), TakeOut(n),
         moving' = IF n = Len(tree) THEN Still ELSE UpdateAt(tree', key', n)
  PROVE  HeapInv'
<1> DEFINE N == Len(tree)
           v == Values(tree, key)
           u == Values(tree', key')
<1>1. /\ tree' \in Seq(HeapItems) /\ Len(tree') = N - 1 /\ Placed(tree', index')
      /\ index' \in [HeapItems -> Int] /\ key' \in [HeapItems -> Int]
      /\ \A j \in 1..Len(tree') : j # n => j \in 1..N /\ u[j] = v[j]
  BY TakenOut
<1>2. N \in Nat /\ v \in [1..N -> Int] /\ AllUnder(v, N)
  BY StillIs
<1>3. CASE n # N
  <2>1. n \in 1..Len(tree')
    BY <1>1, <1>2, <1>3
  <2> QED BY <1>1, <1>3, <2>1, OperationKeeps
<1>4. CASE n = N
  <2> HIDE DEF N, v, u
  <2>1. AllUnder(u, N - 1)
    <3> SUFFICES ASSUME NEW m \in 2..(N - 1)  PROVE u[Parent(m)] <= u[m]
      BY DEF AllUnder, Under
    <3>1. N - 1 \in Nat /\ m \in 2..N /\ n = N
      BY <1>2, <1>4
    <3>2. m \in 1..(N - 1) /\ Parent(m) \in 1..(N - 1)
      BY <3>1, ParentIn
    <3>3. m # n /\ Parent(m) # n
      BY <1>2, <3>1, <3>2
    <3>4. u[m] = v[m] /\ u[Parent(m)] = v[Parent(m)]
      BY <1>1, <3>2, <3>3
    <3>5. v[Parent(m)] <= v[m]
      BY <1>2, <3>1 DEF AllUnder, Under
    <3> QED BY <3>4, <3>5
  <2>2. moving' = Still
    BY <1>4 DEF N
  <2>3. OrderedBut(u, Len(tree'), moving')
    BY <1>1, <2>1, <2>2 DEF OrderedBut
  <2> QED BY <1>1, <2>2, <2>3, LeftWell DEF u
<1> QED BY <1>3, <1>4

-----------------------------------------------------------------------------
(* The heap: the theorem.                                                   *)

\* A heap begins empty.
LEMMA HeapInitially == HeapInit => HeapInv
<1> SUFFICES ASSUME HeapInit  PROVE HeapInv
  OBVIOUS
<1>1. /\ tree = <<>> /\ Len(tree) = 0 /\ DOMAIN tree = 1..0 /\ tree \in Seq(HeapItems)
      /\ moving = Still /\ index = [i \in HeapItems |-> -1] /\ key = [i \in HeapItems |-> 0]
  BY EmptySeq DEF HeapInit
<1>2. HeapTyped /\ Logical = tree
  BY <1>1 DEF HeapTyped, Logical
<1>3. Indexed
  BY <1>1, <1>2 DEF Indexed, Has
<1>4. OrderedBut(Values(Logical, key), Len(tree), moving)
  BY <1>1 DEF OrderedBut, AllUnder
<1> QED BY <1>2, <1>3, <1>4 DEF HeapInv

\* Every operation, and every turn of a loop, keeps the invariant.
LEMMA HeapStep ==
  ASSUME HeapInv, HeapNext
  PROVE  HeapInv'
<1>1. ASSUME NEW i \in HeapItems, NEW k \in Keys, Push(i, k)  PROVE HeapInv'
  BY <1>1, HeapAssumption, PushStep
<1>2. ASSUME NEW i \in HeapItems, NEW k \in Keys, Update(i, k)  PROVE HeapInv'
  <2>1. moving = Still /\ index[i] >= 0
    BY <1>2 DEF Update, Has
  <2>2. PICK n \in 1..Len(tree) : tree[n] = i
    BY <2>1, StillIs DEF Placed
  <2>3. index[i] = n - 1
    BY <2>1, <2>2, StillIs DEF Placed
  <2>4. index[i] + 1 = n /\ k \in Int
    BY <2>1, <2>3, StillIs, HeapAssumption
  <2>5. /\ key' = [key EXCEPT ![tree[n]] = k] /\ tree' = tree /\ index' = index
        /\ moving' = UpdateAt(tree, key', n)
    BY <1>2, <2>2, <2>4 DEF Update
  <2> QED BY <2>1, <2>4, <2>5, KeyStep
<1>3. ASSUME NEW k \in Keys, UpdateTop(k)  PROVE HeapInv'
  <2>1. /\ moving = Still /\ tree # <<>> /\ key' = [key EXCEPT ![tree[1]] = k]
        /\ tree' = tree /\ index' = index /\ moving' = UpdateAt(tree, key', 1)
    BY <1>3, TopSinks DEF UpdateTop
  <2>2. 1 \in 1..Len(tree) /\ k \in Int
    BY <2>1, StillIs, EmptySeq, HeapAssumption
  <2> QED BY <2>1, <2>2, KeyStep
<1>4. CASE RemoveTop
  <2>1. /\ moving = Still /\ tree # <<>> /\ TakeOut(1)
        /\ moving' = IF Len(tree) = 1 THEN Still ELSE UpdateAt(tree', key', 1)
    BY <1>4, TopSinks DEF RemoveTop
  <2>2. 1 \in 1..Len(tree)
    BY <2>1, StillIs, EmptySeq
  <2> QED BY <2>1, <2>2, RemoveStep
<1>5. ASSUME NEW i \in HeapItems, RemoveItem(i)  PROVE HeapInv'
  <2>1. moving = Still /\ index[i] >= 0
    BY <1>5 DEF RemoveItem, Has
  <2>2. PICK n \in 1..Len(tree) : tree[n] = i
    BY <2>1, StillIs DEF Placed
  <2>3. index[i] = n - 1
    BY <2>1, <2>2, StillIs DEF Placed
  <2>4. index[i] + 1 = n
    BY <2>1, <2>3, StillIs
  <2>5. TakeOut(n) /\ moving' = IF n = Len(tree) THEN Still ELSE UpdateAt(tree', key', n)
    BY <1>5, <2>4 DEF RemoveItem
  <2> QED BY <2>1, <2>5, RemoveStep
<1> QED BY <1>1, <1>2, <1>3, <1>4, <1>5, RiseStep, SinkStep DEF HeapNext

\* A step of another part changes nothing here.
LEMMA HeapStutter ==
  ASSUME HeapInv, UNCHANGED heapVars
  PROVE  HeapInv'
<1>1. tree' = tree /\ index' = index /\ key' = key /\ moving' = moving
  BY DEF heapVars
<1> QED BY <1>1 DEF HeapInv, HeapTyped, Indexed, Has, Logical

\* Where every item is under its parent none is above the top.
LEMMA TopIsLeast ==
  ASSUME NEW N \in Nat, NEW v \in [1..N -> Int], AllUnder(v, N)
  PROVE  \A n \in 1..N : v[1] <= v[n]
<1> SUFFICES ASSUME NEW n \in 1..N, ~(v[1] <= v[n])  PROVE FALSE
  OBVIOUS
<1> DEFINE S == {m \in 1..N : ~(v[1] <= v[m])}
<1>1. S \in SUBSET Nat /\ n \in S
  OBVIOUS
<1>2. PICK m \in S : \A j \in S : m <= j
  BY <1>1, Least
<1>3. m \in 2..N
  <2>1. m \in 1..N /\ ~(v[1] <= v[m]) /\ 1 \in 1..N
    BY <1>2
  <2>2. m # 1
    <3>1. v[1] \in Int
      BY <2>1
    <3> QED BY <2>1, <3>1
  <2> QED BY <2>1, <2>2
<1>4. Parent(m) \in 1..N /\ Parent(m) < m /\ m \in 1..N /\ 1 \in 1..N
  BY <1>3, ParentIn
<1>5. v[1] <= v[Parent(m)]
  <2>1. Parent(m) \notin S
    BY <1>1, <1>2, <1>4
  <2> QED BY <1>4, <2>1
<1>6. v[Parent(m)] <= v[m] /\ ~(v[1] <= v[m])
  BY <1>2, <1>3 DEF AllUnder, Under
<1>7. v[1] \in Int /\ v[Parent(m)] \in Int /\ v[m] \in Int
  BY <1>4
<1> QED BY <1>5, <1>6, <1>7

\* The invariant gives the property.
LEMMA HeapIsRight == HeapInv => HeapIsTrue
<1> SUFFICES ASSUME HeapInv, moving = Still
             PROVE  /\ \A n \in DOMAIN tree : key[tree[1]] <= key[tree[n]]
                    /\ \A n \in 2..Len(tree) : key[tree[Parent(n)]] <= key[tree[n]]
                    /\ \A n \in DOMAIN tree : index[tree[n]] = n - 1
                    /\ \A i \in HeapItems : Has(i) => index[i] < Len(tree) /\ tree[index[i] + 1] = i
  BY DEF HeapIsTrue
<1> DEFINE v == Values(tree, key)
<1>1. /\ tree \in Seq(HeapItems) /\ Len(tree) \in Nat /\ Placed(tree, index)
      /\ index \in [HeapItems -> Int] /\ v \in [1..Len(tree) -> Int]
      /\ \A n \in 1..Len(tree) : v[n] = key[tree[n]]
      /\ AllUnder(v, Len(tree)) /\ DOMAIN tree = 1..Len(tree)
  BY StillIs, LenProperties
<1> HIDE DEF v
<1>2. ASSUME NEW n \in DOMAIN tree  PROVE key[tree[1]] <= key[tree[n]]
  <2>1. n \in 1..Len(tree) /\ 1 \in 1..Len(tree)
    BY <1>1
  <2>2. v[1] <= v[n]
    BY <1>1, <2>1, TopIsLeast
  <2> QED BY <1>1, <2>1, <2>2
<1>3. ASSUME NEW n \in 2..Len(tree)  PROVE key[tree[Parent(n)]] <= key[tree[n]]
  <2>1. n \in 1..Len(tree) /\ Parent(n) \in 1..Len(tree)
    BY <1>1, ParentIn
  <2>2. v[Parent(n)] <= v[n]
    BY <1>1 DEF AllUnder, Under
  <2> QED BY <1>1, <2>1, <2>2
<1>4. \A n \in DOMAIN tree : index[tree[n]] = n - 1
  BY <1>1 DEF Placed
<1>5. ASSUME NEW i \in HeapItems, Has(i)
      PROVE  index[i] < Len(tree) /\ tree[index[i] + 1] = i
  <2>1. PICK n \in 1..Len(tree) : tree[n] = i
    BY <1>1, <1>5 DEF Placed, Has
  <2>2. index[i] = n - 1
    BY <1>1, <2>1 DEF Placed
  <2>3. index[i] + 1 = n /\ index[i] < Len(tree)
    BY <1>1, <2>2
  <2> QED BY <2>1, <2>3
<1> QED BY <1>2, <1>3, <1>4, <1>5

\* After every operation the top is the least, the items are in the order of a heap and know
\* their places, however many there are: an item goes up or down, never both
\* (BinaryHeap.h:568).
THEOREM HeapStaysTrue ==
  HeapInit /\ [][HeapNext]_heapVars => []HeapIsTrue
<1>1. HeapInv /\ [HeapNext]_heapVars => HeapInv'
  BY HeapStep, HeapStutter
<1> QED BY <1>1, HeapInitially, HeapIsRight, PTL
=============================================================================
