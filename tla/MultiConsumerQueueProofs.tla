---------------------- MODULE MultiConsumerQueueProofs ----------------------
(***************************************************************************)
(* Proofs about the queue of ready tasks, for any number of consumers and  *)
(* sub-queues of any size: the invariant QueueInv, and that the queue is   *)
(* the FIFO queue of FifoQueue.                                            *)
(***************************************************************************)
EXTENDS MultiConsumerQueue, SequenceTheorems, FiniteSetTheorems,
        WellFoundedInduction, TLAPS

-----------------------------------------------------------------------------
(* The inductive invariant.  Items are numbered: the first n have been taken,  *)
(* and start[s] is the number of the first item that a sub-queue holds.        *)

Ppcs == {"idle", "push", "place", "expose", "pend", "flush", "flush_expose", "next"}
Cpcs == {"detached", "idle", "nothing", "again", "load", "exchange", "switch", "count"}

\* The types, without the bounds that follow from the rest.
Types ==
    /\ list \in Seq(SubQueues) /\ wpos \in SubQueues
    /\ SubQueueSize \in Nat \ {0}
    /\ rindex \in [SubQueues -> Nat]
    /\ findex \in [SubQueues -> Nat]
    /\ windex \in [SubQueues -> Nat]
    /\ cells \in [SubQueues -> [0..SubQueueSize -> Garbage..MaxItems]]
    /\ firstPending \in [SubQueues -> 0..MaxItems]
    /\ attached \in [SubQueues -> Int]
    /\ count \in Int /\ consumerCount \in Int
    /\ pendingCount \in Nat
    /\ ppc \in Ppcs
    /\ after \in {"idle", "push", "pend"}
    /\ item \in 0..MaxItems /\ place \in Nat
    /\ becameNotEmpty \in BOOLEAN /\ nextItem \in 1..(MaxItems + 1)
    /\ cpc \in [Consumers -> Cpcs]
    /\ cur \in [Consumers -> SubQueues]
    /\ index \in [Consumers -> Nat]
    /\ res \in [Consumers -> 0..MaxItems]
    /\ published \in Nat

\* As the constructor or Reset() leaves a sub-queue.
Clean(s) == windex[s] = 0 /\ findex[s] = 0 /\ rindex[s] = 0 /\ cells[s][0] = Null

\* The list: sub-queues that are written up, the one at wpos, clean ones.
ListOK ==
    /\ list # <<>> /\ IsInjective(list) /\ wpos \in Range(list)
    /\ \A s \in Free : Clean(s)
    /\ \A s \in Range(list) :
          /\ Position(s) < Position(wpos) =>
                findex[s] = SubQueueSize /\ windex[s] = SubQueueSize
          /\ Position(s) > Position(wpos) => Clean(s)
    /\ \A s \in SubQueues \ {wpos} : firstPending[s] = Null

\* The item of the call under way is in the hand of the producer.
InHand ==
    \/ ppc \in {"push", "pend"}
    \/ ppc \in {"flush", "flush_expose", "next"} /\ after # "idle"

Pending == windex[wpos] - Exposed(wpos)

\* The sub-queue at wpos, between any two steps of the producer.
ProducerOK ==
    /\ findex[wpos] <= windex[wpos] /\ windex[wpos] <= SubQueueSize
    /\ cells[wpos][Exposed(wpos)] = Null
    /\ firstPending[wpos] # Null <=>
          ppc = "place" \/ (ppc # "expose" /\ findex[wpos] < windex[wpos])
    /\ firstPending[wpos] # Null => firstPending[wpos] = published + 1
    /\ ppc \in {"place", "expose"} =>
          /\ findex[wpos] = windex[wpos] /\ place < windex[wpos]
          /\ cells[wpos][findex[wpos]] = Null
    /\ ppc = "place" => place + 1 < windex[wpos]
    /\ ppc \in {"flush", "flush_expose"} => findex[wpos] < windex[wpos]
    /\ ppc = "flush_expose" => cells[wpos][windex[wpos]] = Null
    /\ ppc \in {"flush", "flush_expose", "next"} /\ InHand =>
          windex[wpos] = SubQueueSize
    /\ ppc = "next" => InHand /\ findex[wpos] = SubQueueSize
    /\ \A k \in 0..SubQueueSize :
          /\ Exposed(wpos) < k
          /\ k < windex[wpos] - (IF ppc = "place" THEN 1 ELSE 0)
          => cells[wpos][k] = published + 1 + (k - Exposed(wpos))

\* Every item is published, pending or in the hand.
ItemsOK ==
    /\ nextItem - 1 = published + Pending + (IF InHand THEN 1 ELSE 0)
    /\ InHand \/ ppc = "place" => item = nextItem - 1
    /\ ppc = "expose" => item = published + 1
    /\ pendingCount = IF ppc \in {"idle", "pend"} THEN Pending ELSE 0

\* What the first n items and the starts of the sub-queues say about the cells
\* and about the indexes of the readers.
Order(n, start) ==
    /\ n <= published
    /\ \A s \in Range(list) : Position(s) <= Position(wpos) =>
          /\ start[s] >= 1
          /\ \A k \in 0..SubQueueSize : k < Exposed(s) => cells[s][k] = start[s] + k
          /\ rindex[s] = IF n < start[s] THEN 0
                         ELSE IF n + 1 - start[s] >= SubQueueSize THEN SubQueueSize
                         ELSE n + 1 - start[s]
    /\ start[wpos] + Exposed(wpos) = published + 1
    /\ start[list[1]] <= n + 1
    /\ \A i \in 1..Position(wpos), j \in 1..Position(wpos) :
          i < j => start[list[i]] + SubQueueSize <= start[list[j]]
    /\ \A i \in 1..Position(wpos), j \in 1..Position(wpos) :
          j = i + 1 => \/ start[list[j]] = start[list[i]] + SubQueueSize
                       \/ start[list[j]] <= n + 1

\* A consumer has nothing unread behind it, and what it has found stays true.
ConsumersOK(n, start) ==
    /\ \A c \in Attached :
          /\ cur[c] \in Range(list) /\ Position(cur[c]) <= Position(wpos)
          /\ start[cur[c]] <= n + 1
    /\ \A c \in Consumers :
          /\ cpc[c] \in {"load", "exchange"} =>
                index[c] <= rindex[cur[c]] /\ index[c] < SubQueueSize
          /\ cpc[c] = "exchange" =>
                index[c] < Exposed(cur[c]) /\ res[c] = start[cur[c]] + index[c]
          /\ cpc[c] = "switch" => rindex[cur[c]] = SubQueueSize
    /\ \A c \in Counting : res[c] \in 1..n
    /\ \A c \in Counting, d \in Counting : c # d => res[c] # res[d]

In(s) == {c \in Attached : cur[c] = s}

AttachedOK ==
    /\ \A s \in SubQueues : attached[s] = Cardinality(In(s))
    /\ consumerCount = Cardinality(Attached)

\* Items that are counted and cannot be taken yet.
InFlight ==
    (IF ppc \in {"push", "place", "expose", "flush", "flush_expose"}
     THEN Pending ELSE 0)
    + (IF InHand /\ (ppc = "push" \/ (ppc # "pend" /\ after = "push")) THEN 1 ELSE 0)

CountOK(n) == count = (published - n) + Cardinality(Counting) + InFlight

Inv(n, start) ==
    /\ Types /\ ListOK /\ ProducerOK /\ ItemsOK /\ AttachedOK
    /\ Order(n, start) /\ ConsumersOK(n, start) /\ CountOK(n)

IInv == \E n \in Nat, start \in [SubQueues -> Nat] : Inv(n, start)

-----------------------------------------------------------------------------
(* Lemmas about the operators.                                              *)

\* Position, of any list.
Place(l, s) == CHOOSE i \in 1..Len(l) : l[i] = s

\* In a list without repetitions a sub-queue has one place.
LEMMA Places ==
  ASSUME NEW l \in Seq(SubQueues), IsInjective(l)
  PROVE  /\ \A i \in 1..Len(l) : l[i] \in Range(l) /\ Place(l, l[i]) = i
         /\ \A s \in Range(l) : Place(l, s) \in 1..Len(l) /\ l[Place(l, s)] = s
         /\ Range(l) \subseteq SubQueues
<1>0. DOMAIN l = 1..Len(l) /\ Len(l) \in Nat /\ \A i \in 1..Len(l) : l[i] \in SubQueues
  OBVIOUS
<1>1. \A s \in Range(l) : \E i \in 1..Len(l) : l[i] = s
  BY <1>0 DEF Range
<1>2. \A s \in Range(l) : Place(l, s) \in 1..Len(l) /\ l[Place(l, s)] = s
  BY <1>1 DEF Place
<1>3. \A i \in 1..Len(l) : l[i] \in Range(l)
  BY <1>0 DEF Range
<1>4. \A i \in 1..Len(l) : Place(l, l[i]) = i
  BY <1>0, <1>2, <1>3 DEF IsInjective
<1> QED BY <1>0, <1>1, <1>2, <1>3, <1>4

\* Before and after a step.
LEMMA Positions ==
  /\ \A s : Position(s) = Place(list, s)
  /\ \A s : Position(s)' = Place(list', s)
  /\ Position(wpos)' = Place(list', wpos')
  BY DEF Position, Place

\* The size of the sub-queues is the size of the cells.
LEMMA SizeIs ==
  ASSUME NEW c, NEW K \in Nat, NEW V, c \in [SubQueues -> [0..K -> V]]
  PROVE  Cardinality(DOMAIN c[CHOOSE s \in SubQueues : TRUE]) - 1 = K
<1>1. (CHOOSE s \in SubQueues : TRUE) \in SubQueues
  BY QueueAssumption
<1>2. DOMAIN c[CHOOSE s \in SubQueues : TRUE] = 0..K
  BY <1>1
<1>3. Cardinality(0..K) = K + 1
  BY FS_Interval
<1> QED BY <1>2, <1>3

\* No step changes it.
LEMMA SizeStays ==
  ASSUME Types, cells' \in [SubQueues -> [0..SubQueueSize -> Garbage..MaxItems]]
  PROVE  SubQueueSize' = SubQueueSize
<1>1. SubQueueSize \in Nat
  BY DEF Types
<1>2. Cardinality(DOMAIN cells'[CHOOSE s \in SubQueues : TRUE]) - 1 = SubQueueSize
  BY <1>1, SizeIs
<1> QED BY <1>2 DEF SubQueueSize

\* What follows at once: the list has the sub-queue at wpos, and the sets are finite.
LEMMA InList ==
  ASSUME Types, ListOK
  PROVE  /\ Range(list) \subseteq SubQueues /\ wpos \in Range(list)
         /\ \A s \in Range(list) : Position(s) \in 1..Len(list) /\ list[Position(s)] = s
         /\ \A i \in 1..Len(list) : list[i] \in Range(list) /\ Position(list[i]) = i
         /\ \A s \in Range(list) : Position(s) \in Nat
         /\ Len(list) \in Nat /\ Len(list) >= 1
         /\ IsFiniteSet(Counting) /\ Cardinality(Counting) \in Nat
         /\ IsFiniteSet(Attached) /\ Cardinality(Attached) \in Nat
<1>1. list \in Seq(SubQueues) /\ IsInjective(list) /\ wpos \in Range(list) /\ list # <<>>
  BY DEF ListOK, Types
<1>2. \A s \in Range(list) : Place(list, s) \in 1..Len(list)
  BY <1>1, Places
<1>3. /\ IsFiniteSet(Counting) /\ Cardinality(Counting) \in Nat
      /\ IsFiniteSet(Attached) /\ Cardinality(Attached) \in Nat
  <2>1. Counting \in SUBSET Consumers /\ Attached \in SUBSET Consumers
    BY DEF Counting, Attached
  <2> QED BY <2>1, QueueAssumption, FS_Subset, FS_CardinalityType
<1>4. Len(list) \in Nat /\ Len(list) >= 1
  BY <1>1
<1> QED BY <1>1, <1>2, <1>3, <1>4, Places, Positions

-----------------------------------------------------------------------------
(* The producer.                                                            *)

\* What the other sub-queues have is left alone.
OthersKept ==
    \A s \in SubQueues \ {wpos} :
       /\ findex'[s] = findex[s] /\ windex'[s] = windex[s]
       /\ cells'[s] = cells[s] /\ firstPending'[s] = firstPending[s]

\* A step at wpos that exposes its pending items, or none, in their order.
LEMMA ProducerFrame ==
  ASSUME NEW n \in Nat, NEW start \in [SubQueues -> Nat], Inv(n, start),
         Types', SubQueueSize' = SubQueueSize, OthersKept,
         UNCHANGED <<list, wpos, rindex, attached, consumerCount, cpc, cur, index, res>>,
         Exposed(wpos)' >= Exposed(wpos),
         published' - Exposed(wpos)' = published - Exposed(wpos),
         \A k \in 0..SubQueueSize :
            k < Exposed(wpos)' => cells'[wpos][k] = start[wpos] + k
  PROVE  ListOK' /\ Order(n, start)' /\ ConsumersOK(n, start)' /\ AttachedOK'
         /\ Counting' = Counting
<1> USE DEF Inv
<1>0. (\A s : Position(s)' = Position(s)) /\ Free' = Free
  BY Positions DEF Free
<1>1. /\ Range(list) \subseteq SubQueues /\ wpos \in Range(list)
      /\ \A s \in Range(list) : Position(s) \in Nat
  BY InList
<1>2. /\ published \in Nat /\ published' \in Nat
      /\ \A s \in SubQueues : Exposed(s) \in Nat /\ Exposed(s)' \in Nat
  <2>1. /\ published \in Nat /\ place \in Nat /\ findex \in [SubQueues -> Nat]
        /\ published' \in Nat /\ place' \in Nat /\ findex' \in [SubQueues -> Nat]
    BY DEF Types
  <2> QED BY <2>1 DEF Exposed
<1>3. \A s \in SubQueues \ {wpos} : Exposed(s)' = Exposed(s)
  BY DEF Exposed, OthersKept
<1>4. published' >= published
  BY <1>1, <1>2
<1>5. ListOK'
  <2>1. \A s \in SubQueues \ {wpos} : Clean(s) => Clean(s)'
    BY DEF Clean, OthersKept
  <2>2. ASSUME NEW s \in Range(list)
        PROVE  /\ Position(s) < Position(wpos) =>
                     findex'[s] = SubQueueSize /\ windex'[s] = SubQueueSize
               /\ Position(s) > Position(wpos) => Clean(s)'
    BY <1>1, <2>1 DEF ListOK, OthersKept
  <2>3. \A s \in Free : Clean(s)'
    BY <1>1, <2>1 DEF ListOK, Free
  <2> QED BY <1>0, <2>2, <2>3 DEF ListOK, OthersKept
<1>6. Order(n, start)'
  <2>1. ASSUME NEW s \in Range(list), Position(s) <= Position(wpos)
        PROVE  \A k \in 0..SubQueueSize : k < Exposed(s)' => cells'[s][k] = start[s] + k
    BY <1>1, <1>3, <2>1 DEF Order, OthersKept
  <2>2. start[wpos] + Exposed(wpos)' = published' + 1
    BY <1>1, <1>2 DEF Order
  <2>3. n <= published'
    BY <1>2, <1>4 DEF Order
  <2> QED BY <1>0, <2>1, <2>2, <2>3 DEF Order
<1>7. ConsumersOK(n, start)'
  <2>1. \A s \in SubQueues : Exposed(s)' >= Exposed(s)
    BY <1>1, <1>2, <1>3
  <2>2. \A c \in Consumers : cur[c] \in SubQueues /\ index[c] \in Nat
    BY DEF Types
  <2>3. \A c \in Consumers : cpc[c] = "exchange" => index[c] < Exposed(cur[c])'
    BY <1>2, <2>1, <2>2 DEF ConsumersOK
  <2> QED BY <1>0, <2>3 DEF ConsumersOK, Attached, Counting
<1> QED BY <1>5, <1>6, <1>7 DEF AttachedOK, In, Attached, Counting

\* A step that stores nothing, and one that stores into one cell at wpos.
LEMMA NoStore ==
  ASSUME Types, UNCHANGED cells
  PROVE  SubQueueSize' = SubQueueSize
  BY DEF SubQueueSize

\* What the store of an item in the sub-queue at wpos leaves.
LEMMA StoreTypes ==
  ASSUME Types, NEW i \in 0..SubQueueSize, NEW v \in Garbage..MaxItems, Store(i, v)
  PROVE  /\ cells' \in [SubQueues -> [0..SubQueueSize -> Garbage..MaxItems]]
         /\ SubQueueSize' = SubQueueSize
         /\ \A s \in SubQueues \ {wpos} : cells'[s] = cells[s]
         /\ \A k \in 0..SubQueueSize :
               cells'[wpos][k] = IF k = i THEN v ELSE cells[wpos][k]
<1>0. /\ wpos \in SubQueues
      /\ cells \in [SubQueues -> [0..SubQueueSize -> Garbage..MaxItems]]
  BY DEF Types
<1>1. cells' = [cells EXCEPT ![wpos] = [cells[wpos] EXCEPT ![i] = v]]
  BY DEF Store
<1>2. [cells[wpos] EXCEPT ![i] = v] \in [0..SubQueueSize -> Garbage..MaxItems]
  BY <1>0
<1>3. cells' \in [SubQueues -> [0..SubQueueSize -> Garbage..MaxItems]]
  BY <1>0, <1>1, <1>2
<1>4. SubQueueSize' = SubQueueSize
  BY <1>3, SizeStays
<1> QED BY <1>0, <1>1, <1>3, <1>4

\* The steps that only count, and decide what to do next.
LEMMA CallPreserves ==
  ASSUME NEW n \in Nat, NEW start \in [SubQueues -> Nat], Inv(n, start),
         Push \/ PushPending \/ PushFull \/ PendFull \/ FlushPending
  PROVE  Inv(n, start)'
<1> USE DEF Push, PushPending, PushFull, PendFull, FlushPending, Call, CountItems,
            listVars, consumerVars
<1>0. /\ UNCHANGED <<list, wpos, attached, rindex, findex, windex, cells, firstPending,
                     consumerCount, cpc, cur, index, res, published, place>>
      /\ ppc \notin {"place", "expose"} /\ ppc' \notin {"place", "expose"}
  OBVIOUS
<1>1. Types /\ ProducerOK /\ ItemsOK /\ CountOK(n)
  BY DEF Inv
<1>2. SubQueueSize' = SubQueueSize
  BY <1>0, <1>1, NoStore
<1>3. /\ windex[wpos] \in Nat /\ findex[wpos] \in Nat /\ published \in Nat
      /\ pendingCount \in Nat /\ nextItem \in 1..(MaxItems + 1) /\ count \in Int
      /\ SubQueueSize \in Nat \ {0} /\ MaxItems \in Nat
      /\ firstPending[wpos] \in 0..MaxItems /\ item \in 0..MaxItems
      /\ ppc \in Ppcs /\ after \in {"idle", "push", "pend"} /\ becameNotEmpty \in BOOLEAN
  BY <1>1, QueueAssumption DEF Types
<1>4. Types'
  <2>1. /\ pendingCount' \in Nat /\ count' \in Int
        /\ ppc' \in Ppcs /\ after' \in {"idle", "push", "pend"}
        /\ item' \in 0..MaxItems /\ nextItem' \in 1..(MaxItems + 1)
    BY <1>3 DEF Ppcs
  <2>2. becameNotEmpty' \in BOOLEAN
    BY <1>3, Zenon
  <2> QED BY <1>0, <1>1, <1>2, <2>1, <2>2 DEF Types
<1>5. Exposed(wpos)' = Exposed(wpos) /\ Exposed(wpos) = findex[wpos]
      /\ Pending' = Pending /\ Pending = windex[wpos] - findex[wpos]
  BY <1>0 DEF Exposed, Pending
<1>6. ListOK' /\ Order(n, start)' /\ ConsumersOK(n, start)' /\ AttachedOK'
      /\ Counting' = Counting
  <2>1. \A k \in 0..SubQueueSize : k < Exposed(wpos) => cells[wpos][k] = start[wpos] + k
    <3>1. wpos \in Range(list) /\ Position(wpos) <= Position(wpos)
      BY InList DEF Inv
    <3> QED BY <3>1 DEF Inv, Order
  <2>2. Exposed(wpos)' >= Exposed(wpos)
        /\ published' - Exposed(wpos)' = published - Exposed(wpos)
    BY <1>0, <1>3, <1>5
  <2> QED BY <1>0, <1>2, <1>4, <1>5, <2>1, <2>2, ProducerFrame DEF OthersKept
<1>7. ProducerOK'
  BY <1>0, <1>1, <1>2, <1>3, <1>5 DEF ProducerOK, ItemsOK, InHand
<1>8. ItemsOK'
  BY <1>0, <1>1, <1>3, <1>5 DEF ProducerOK, ItemsOK, InHand
<1>9. CountOK(n)'
  <2>1. Cardinality(Counting) \in Nat
    BY InList DEF Inv
  <2>2. count' - count = InFlight' - InFlight
    BY <1>0, <1>1, <1>3, <1>5 DEF ProducerOK, ItemsOK, InHand, InFlight
  <2>3. InFlight \in Int /\ InFlight' \in Int
    <3>1. Pending \in Int /\ Pending' \in Int
      BY <1>3, <1>5
    <3> HIDE DEF Push, PushPending, PushFull, PendFull, FlushPending, Call, CountItems,
                 listVars, consumerVars
    <3> QED BY <3>1 DEF InFlight
  <2>4. count' \in Int
    BY <1>4 DEF Types
  <2> QED BY <1>0, <1>1, <1>3, <1>6, <2>1, <2>2, <2>3, <2>4 DEF CountOK
<1> QED BY <1>4, <1>6, <1>7, <1>8, <1>9 DEF Inv

\* What the invariant says about the producer and its sub-queue.
LEMMA AtWpos ==
  ASSUME NEW n \in Nat, NEW start \in [SubQueues -> Nat], Inv(n, start)
  PROVE  /\ Types /\ ProducerOK /\ ItemsOK /\ CountOK(n)
         /\ wpos \in SubQueues /\ SubQueueSize \in Nat \ {0} /\ MaxItems \in Nat
         /\ windex \in [SubQueues -> Nat] /\ findex \in [SubQueues -> Nat]
         /\ firstPending \in [SubQueues -> 0..MaxItems]
         /\ place \in Nat /\ item \in 0..MaxItems /\ nextItem \in 1..(MaxItems + 1)
         /\ pendingCount \in Nat /\ published \in Nat /\ count \in Int
         /\ ppc \in Ppcs /\ after \in {"idle", "push", "pend"} /\ becameNotEmpty \in BOOLEAN
         /\ start[wpos] \in Nat /\ Exposed(wpos) \in Nat /\ Exposed(wpos) <= windex[wpos]
         /\ start[wpos] + Exposed(wpos) = published + 1
         /\ \A k \in 0..SubQueueSize :
               k < Exposed(wpos) => cells[wpos][k] = start[wpos] + k
         /\ Cardinality(Counting) \in Nat
<1>1. Types /\ ListOK /\ ProducerOK /\ ItemsOK /\ CountOK(n) /\ Order(n, start)
  BY DEF Inv
<1>2. /\ wpos \in SubQueues /\ SubQueueSize \in Nat \ {0}
      /\ windex \in [SubQueues -> Nat] /\ findex \in [SubQueues -> Nat]
      /\ firstPending \in [SubQueues -> 0..MaxItems]
      /\ place \in Nat /\ item \in 0..MaxItems /\ nextItem \in 1..(MaxItems + 1)
      /\ pendingCount \in Nat /\ published \in Nat /\ count \in Int
      /\ ppc \in Ppcs /\ after \in {"idle", "push", "pend"} /\ becameNotEmpty \in BOOLEAN
  BY <1>1 DEF Types
<1>3. Exposed(wpos) \in Nat /\ Exposed(wpos) <= windex[wpos]
  BY <1>1, <1>2 DEF Exposed, ProducerOK
<1>4. wpos \in Range(list) /\ Position(wpos) <= Position(wpos)
  BY <1>1, InList
<1> QED BY <1>1, <1>2, <1>3, <1>4, QueueAssumption, InList DEF Order

\* Push() writes behind the exposed items, and they are kept.
LEMMA PushTerminatePreserves ==
  ASSUME NEW n \in Nat, NEW start \in [SubQueues -> Nat], Inv(n, start), PushTerminate
  PROVE  Inv(n, start)'
<1>f. /\ Types /\ ProducerOK /\ ItemsOK /\ CountOK(n)
      /\ wpos \in SubQueues /\ SubQueueSize \in Nat \ {0} /\ MaxItems \in Nat
      /\ windex \in [SubQueues -> Nat] /\ findex \in [SubQueues -> Nat]
      /\ windex[wpos] \in Nat /\ findex[wpos] \in Nat
      /\ place \in Nat /\ published \in Nat /\ count \in Int /\ nextItem \in Int
      /\ Cardinality(Counting) \in Nat /\ findex[wpos] <= windex[wpos]
      /\ \A k \in 0..SubQueueSize :
            k < Exposed(wpos) => cells[wpos][k] = start[wpos] + k
  BY AtWpos DEF ProducerOK
<1>0. /\ UNCHANGED <<list, wpos, attached, rindex, firstPending, count, pendingCount, after,
                     item, becameNotEmpty, nextItem, consumerCount, cpc, cur, index, res,
                     published>>
      /\ ppc = "push"
  BY DEF PushTerminate, listVars, consumerVars
<1>s. /\ Types /\ Store(windex[wpos] + 1, Null)
      /\ Null \in Garbage..MaxItems /\ windex[wpos] + 1 \in 0..SubQueueSize
  BY <1>f DEF Null, Garbage, PushTerminate
<1>t. cells' \in [SubQueues -> [0..SubQueueSize -> Garbage..MaxItems]]
  BY <1>s, StoreTypes
<1>1. /\ SubQueueSize' = SubQueueSize
      /\ \A s \in SubQueues \ {wpos} : cells'[s] = cells[s]
      /\ \A k \in 0..SubQueueSize :
            cells'[wpos][k] = IF k = windex[wpos] + 1 THEN Null ELSE cells[wpos][k]
  BY <1>s, StoreTypes
<1>2. /\ place' = findex[wpos] /\ findex'[wpos] = windex[wpos] + 1
      /\ windex'[wpos] = windex[wpos] + 1 /\ windex[wpos] < SubQueueSize
      /\ \A s \in SubQueues \ {wpos} : findex'[s] = findex[s] /\ windex'[s] = windex[s]
      /\ findex' \in [SubQueues -> Nat] /\ windex' \in [SubQueues -> Nat]
      /\ ppc' = IF firstPending[wpos] # Null THEN "place" ELSE "expose"
  BY <1>f DEF PushTerminate, Set, Add
<1>3. Types'
  <2>1. /\ windex' \in [SubQueues -> Nat] /\ findex' \in [SubQueues -> Nat]
        /\ place' \in Nat /\ ppc' \in Ppcs
    BY <1>0, <1>2, <1>f DEF Ppcs
  <2> QED BY <1>0, <1>f, <1>t, <1>1, <2>1 DEF Types
<1>4. Exposed(wpos) = findex[wpos] /\ Exposed(wpos)' = findex[wpos]
      /\ Pending = windex[wpos] - findex[wpos] /\ Pending' = Pending + 1
  BY <1>0, <1>2, <1>f DEF Exposed, Pending
<1>5. ListOK' /\ Order(n, start)' /\ ConsumersOK(n, start)' /\ AttachedOK'
      /\ Counting' = Counting
  <2>1. Exposed(wpos)' >= Exposed(wpos)
        /\ published' - Exposed(wpos)' = published - Exposed(wpos)
    BY <1>0, <1>4, <1>f
  <2>2. \A k \in 0..SubQueueSize :
           k < Exposed(wpos)' => cells'[wpos][k] = start[wpos] + k
    BY <1>1, <1>4, <1>f
  <2> QED BY <1>0, <1>1, <1>2, <1>3, <2>1, <2>2, ProducerFrame DEF OthersKept
<1>6. ProducerOK'
  <2>1. cells'[wpos][findex[wpos]] = Null /\ cells'[wpos][windex[wpos] + 1] = Null
    BY <1>1, <1>2, <1>4, <1>f DEF ProducerOK
  <2>2. \A k \in 0..SubQueueSize :
          findex[wpos] < k /\ k < windex[wpos] =>
             cells'[wpos][k] = published + 1 + (k - findex[wpos])
    BY <1>0, <1>1, <1>2, <1>4, <1>f DEF ProducerOK
  <2> QED BY <1>0, <1>1, <1>2, <1>4, <1>f, <2>1, <2>2 DEF ProducerOK, ItemsOK, InHand
<1>7. ItemsOK' /\ CountOK(n)'
  BY <1>0, <1>2, <1>4, <1>5, <1>f DEF ProducerOK, ItemsOK, InHand, CountOK, InFlight
<1> QED BY <1>3, <1>5, <1>6, <1>7 DEF Inv

\* The item of Push() goes behind the pending ones.
LEMMA PushPlacePreserves ==
  ASSUME NEW n \in Nat, NEW start \in [SubQueues -> Nat], Inv(n, start), PushPlace
  PROVE  Inv(n, start)'
<1>f. /\ Types /\ ProducerOK /\ ItemsOK /\ CountOK(n)
      /\ wpos \in SubQueues /\ SubQueueSize \in Nat \ {0} /\ MaxItems \in Nat
      /\ windex \in [SubQueues -> Nat] /\ findex \in [SubQueues -> Nat]
      /\ firstPending \in [SubQueues -> 0..MaxItems] /\ item \in 0..MaxItems
      /\ windex[wpos] \in Nat /\ findex[wpos] \in Nat /\ firstPending[wpos] \in Nat
      /\ place \in Nat /\ published \in Nat /\ count \in Int /\ nextItem \in Int
      /\ pendingCount \in Nat /\ Cardinality(Counting) \in Nat
      /\ findex[wpos] <= windex[wpos] /\ windex[wpos] <= SubQueueSize
      /\ start[wpos] \in Nat /\ start[wpos] + Exposed(wpos) = published + 1
      /\ \A k \in 0..SubQueueSize :
            k < Exposed(wpos) => cells[wpos][k] = start[wpos] + k
  BY AtWpos DEF ProducerOK
<1>0. /\ UNCHANGED <<list, wpos, attached, rindex, findex, windex, count, pendingCount, after,
                     place, becameNotEmpty, nextItem, consumerCount, cpc, cur, index, res,
                     published>>
      /\ ppc = "place" /\ ppc' = "expose"
  BY DEF PushPlace, listVars, consumerVars
<1>s. /\ Types /\ Store(windex[wpos] - 1, item)
      /\ item \in Garbage..MaxItems /\ windex[wpos] - 1 \in 0..SubQueueSize
  BY <1>f DEF Null, Garbage, PushPlace, ProducerOK
<1>t. cells' \in [SubQueues -> [0..SubQueueSize -> Garbage..MaxItems]]
  BY <1>s, StoreTypes
<1>1. /\ SubQueueSize' = SubQueueSize
      /\ \A s \in SubQueues \ {wpos} : cells'[s] = cells[s]
      /\ \A k \in 0..SubQueueSize :
            cells'[wpos][k] = IF k = windex[wpos] - 1 THEN item ELSE cells[wpos][k]
  BY <1>s, StoreTypes
<1>2. /\ item' = firstPending[wpos] /\ firstPending'[wpos] = Null
      /\ \A s \in SubQueues \ {wpos} : firstPending'[s] = firstPending[s]
      /\ firstPending' \in [SubQueues -> 0..MaxItems] /\ item' \in 0..MaxItems
  BY <1>f DEF PushPlace, Set, Null
<1>3. Types'
  <2>1. ppc' \in Ppcs
    BY <1>0 DEF Ppcs
  <2> QED BY <1>0, <1>f, <1>t, <1>1, <1>2, <2>1 DEF Types
<1>4. Exposed(wpos) = place /\ Exposed(wpos)' = place
      /\ Pending = windex[wpos] - place /\ Pending' = Pending
      /\ findex[wpos] = windex[wpos] /\ place + 1 < windex[wpos]
  BY <1>0, <1>f DEF Exposed, Pending, ProducerOK
<1>5. ListOK' /\ Order(n, start)' /\ ConsumersOK(n, start)' /\ AttachedOK'
      /\ Counting' = Counting
  <2>1. Exposed(wpos)' >= Exposed(wpos)
        /\ published' - Exposed(wpos)' = published - Exposed(wpos)
    BY <1>0, <1>2, <1>4, <1>f
  <2>2. \A k \in 0..SubQueueSize :
           k < Exposed(wpos)' => cells'[wpos][k] = start[wpos] + k
    BY <1>0, <1>1, <1>2, <1>4, <1>f
  <2> QED BY <1>0, <1>1, <1>2, <1>3, <2>1, <2>2, ProducerFrame DEF OthersKept
<1>6. ProducerOK'
  <2>1. cells'[wpos][place] = Null /\ cells'[wpos][findex[wpos]] = Null
    BY <1>0, <1>1, <1>4, <1>f DEF ProducerOK
  <2>2. \A k \in 0..SubQueueSize :
          place < k /\ k < windex[wpos] =>
             cells'[wpos][k] = published + 1 + (k - place)
    <3>1. item = published + (windex[wpos] - place)
      BY <1>0, <1>4, <1>f DEF ItemsOK, InHand
    <3> QED BY <1>0, <1>1, <1>4, <1>f, <3>1 DEF ProducerOK
  <2> QED BY <1>0, <1>1, <1>2, <1>4, <1>f, <2>1, <2>2 DEF ProducerOK, ItemsOK, InHand
<1>7. ItemsOK' /\ CountOK(n)'
  BY <1>0, <1>2, <1>4, <1>5, <1>f DEF ProducerOK, ItemsOK, InHand, CountOK, InFlight
<1> QED BY <1>3, <1>5, <1>6, <1>7 DEF Inv

\* So does the item of PushPending(), the first of them aside.
LEMMA PendPreserves ==
  ASSUME NEW n \in Nat, NEW start \in [SubQueues -> Nat], Inv(n, start), Pend
  PROVE  Inv(n, start)'
<1>f. /\ Types /\ ProducerOK /\ ItemsOK /\ CountOK(n)
      /\ wpos \in SubQueues /\ SubQueueSize \in Nat \ {0} /\ MaxItems \in Nat
      /\ windex \in [SubQueues -> Nat] /\ findex \in [SubQueues -> Nat]
      /\ firstPending \in [SubQueues -> 0..MaxItems] /\ item \in 0..MaxItems
      /\ windex[wpos] \in Nat /\ findex[wpos] \in Nat /\ firstPending[wpos] \in Nat
      /\ place \in Nat /\ published \in Nat /\ count \in Int /\ nextItem \in Int
      /\ pendingCount \in Nat /\ Cardinality(Counting) \in Nat
      /\ findex[wpos] <= windex[wpos] /\ windex[wpos] <= SubQueueSize
      /\ start[wpos] \in Nat /\ start[wpos] + Exposed(wpos) = published + 1
      /\ \A k \in 0..SubQueueSize :
            k < Exposed(wpos) => cells[wpos][k] = start[wpos] + k
  BY AtWpos DEF ProducerOK
<1>0. /\ UNCHANGED <<list, wpos, attached, rindex, findex, count, after, item, place,
                     becameNotEmpty, nextItem, consumerCount, cpc, cur, index, res,
                     published>>
      /\ ppc = "pend" /\ ppc' = "idle" /\ windex[wpos] < SubQueueSize
      /\ pendingCount' = pendingCount + 1
  BY DEF Pend, listVars, consumerVars
<1>4. Exposed(wpos) = findex[wpos] /\ Exposed(wpos)' = findex[wpos]
      /\ Pending = windex[wpos] - findex[wpos]
      /\ item = published + Pending + 1 /\ item >= 1
  BY <1>0, <1>f DEF Exposed, Pending, ItemsOK, InHand
<1>t. cells' \in [SubQueues -> [0..SubQueueSize -> Garbage..MaxItems]]
  <2>1. CASE UNCHANGED cells
    BY <1>f, <2>1 DEF Types
  <2>2. CASE Store(windex[wpos], item)
    <3>1. item \in Garbage..MaxItems /\ windex[wpos] \in 0..SubQueueSize
      BY <1>f DEF Garbage
    <3> QED BY <1>f, <2>2, <3>1, StoreTypes
  <2> QED BY <2>1, <2>2 DEF Pend
<1>1. /\ SubQueueSize' = SubQueueSize
      /\ \A s \in SubQueues \ {wpos} : cells'[s] = cells[s]
      /\ \A k \in 0..SubQueueSize :
            cells'[wpos][k] = IF k = windex[wpos] /\ firstPending[wpos] # Null
                              THEN item ELSE cells[wpos][k]
  <2>1. CASE firstPending[wpos] = Null
    <3>1. UNCHANGED cells
      BY <2>1 DEF Pend
    <3> QED BY <1>f, <2>1, <3>1, NoStore
  <2>2. CASE firstPending[wpos] # Null
    <3>1. Store(windex[wpos], item)
      BY <2>2 DEF Pend
    <3>2. item \in Garbage..MaxItems /\ windex[wpos] \in 0..SubQueueSize
      BY <1>f DEF Garbage
    <3>3. /\ SubQueueSize' = SubQueueSize
          /\ \A s \in SubQueues \ {wpos} : cells'[s] = cells[s]
          /\ \A k \in 0..SubQueueSize :
                cells'[wpos][k] = IF k = windex[wpos] THEN item ELSE cells[wpos][k]
      BY <1>f, <3>1, <3>2, StoreTypes
    <3> QED BY <2>2, <3>3
  <2> QED BY <2>1, <2>2
<1>2. /\ windex'[wpos] = windex[wpos] + 1
      /\ firstPending'[wpos] = IF firstPending[wpos] = Null THEN item ELSE firstPending[wpos]
      /\ \A s \in SubQueues \ {wpos} :
            windex'[s] = windex[s] /\ firstPending'[s] = firstPending[s]
      /\ windex' \in [SubQueues -> Nat] /\ firstPending' \in [SubQueues -> 0..MaxItems]
  BY <1>f DEF Pend, Set, Add
<1>3. Types'
  <2>1. ppc' \in Ppcs /\ pendingCount' \in Nat
    BY <1>0, <1>f DEF Ppcs
  <2> QED BY <1>0, <1>f, <1>t, <1>1, <1>2, <2>1 DEF Types
<1>p. Pending' = Pending + 1
  BY <1>0, <1>2, <1>4, <1>f DEF Pending
<1>5. ListOK' /\ Order(n, start)' /\ ConsumersOK(n, start)' /\ AttachedOK'
      /\ Counting' = Counting
  <2>1. Exposed(wpos)' >= Exposed(wpos)
        /\ published' - Exposed(wpos)' = published - Exposed(wpos)
    BY <1>0, <1>2, <1>4, <1>f
  <2>2. \A k \in 0..SubQueueSize :
           k < Exposed(wpos)' => cells'[wpos][k] = start[wpos] + k
    BY <1>0, <1>1, <1>2, <1>4, <1>f
  <2> QED BY <1>0, <1>1, <1>2, <1>3, <2>1, <2>2, ProducerFrame DEF OthersKept
<1>6. ProducerOK'
  <2>0. firstPending[wpos] # Null <=> findex[wpos] < windex[wpos]
    BY <1>0, <1>f DEF ProducerOK
  <2>1. cells'[wpos][findex[wpos]] = Null
    BY <1>0, <1>1, <1>4, <1>f, <2>0 DEF ProducerOK
  <2>2. \A k \in 0..SubQueueSize :
          findex[wpos] < k /\ k < windex[wpos] + 1 =>
             cells'[wpos][k] = published + 1 + (k - findex[wpos])
    BY <1>0, <1>1, <1>4, <1>f, <2>0 DEF ProducerOK
  <2>3. /\ firstPending'[wpos] # Null
        /\ firstPending'[wpos] = published + 1
    BY <1>0, <1>2, <1>4, <1>f, <2>0 DEF ProducerOK, Null
  <2> QED BY <1>0, <1>1, <1>2, <1>4, <1>f, <2>1, <2>2, <2>3 DEF ProducerOK, ItemsOK, InHand
<1>7. ItemsOK' /\ CountOK(n)'
  BY <1>0, <1>2, <1>4, <1>5, <1>f, <1>p DEF ProducerOK, ItemsOK, InHand, CountOK, InFlight
<1> QED BY <1>3, <1>5, <1>6, <1>7 DEF Inv

\* A flush terminates the pending items.
LEMMA FlushTerminatePreserves ==
  ASSUME NEW n \in Nat, NEW start \in [SubQueues -> Nat], Inv(n, start), FlushTerminate
  PROVE  Inv(n, start)'
<1>f. /\ Types /\ ProducerOK /\ ItemsOK /\ CountOK(n)
      /\ wpos \in SubQueues /\ SubQueueSize \in Nat \ {0} /\ MaxItems \in Nat
      /\ windex \in [SubQueues -> Nat] /\ findex \in [SubQueues -> Nat]
      /\ firstPending \in [SubQueues -> 0..MaxItems] /\ item \in 0..MaxItems
      /\ windex[wpos] \in Nat /\ findex[wpos] \in Nat /\ firstPending[wpos] \in Nat
      /\ place \in Nat /\ published \in Nat /\ count \in Int /\ nextItem \in Int
      /\ pendingCount \in Nat /\ Cardinality(Counting) \in Nat
      /\ findex[wpos] <= windex[wpos] /\ windex[wpos] <= SubQueueSize
      /\ start[wpos] \in Nat /\ start[wpos] + Exposed(wpos) = published + 1
      /\ \A k \in 0..SubQueueSize :
            k < Exposed(wpos) => cells[wpos][k] = start[wpos] + k
  BY AtWpos DEF ProducerOK
<1>0. /\ UNCHANGED <<list, wpos, attached, rindex, findex, windex, firstPending, count,
                     pendingCount, after, item, place, becameNotEmpty, nextItem,
                     consumerCount, cpc, cur, index, res, published>>
      /\ ppc = "flush" /\ ppc' = "flush_expose"
  BY DEF FlushTerminate, listVars, consumerVars
<1>s. /\ Types /\ Store(windex[wpos], Null)
      /\ Null \in Garbage..MaxItems /\ windex[wpos] \in 0..SubQueueSize
  BY <1>f DEF Null, Garbage, FlushTerminate
<1>t. cells' \in [SubQueues -> [0..SubQueueSize -> Garbage..MaxItems]]
  BY <1>s, StoreTypes
<1>1. /\ SubQueueSize' = SubQueueSize
      /\ \A s \in SubQueues \ {wpos} : cells'[s] = cells[s]
      /\ \A k \in 0..SubQueueSize :
            cells'[wpos][k] = IF k = windex[wpos] THEN Null ELSE cells[wpos][k]
  BY <1>s, StoreTypes
<1>2. findex[wpos] < windex[wpos]
  BY <1>0, <1>f DEF ProducerOK
<1>3. Types'
  <2>1. ppc' \in Ppcs
    BY <1>0 DEF Ppcs
  <2> QED BY <1>0, <1>f, <1>t, <1>1, <2>1 DEF Types
<1>4. Exposed(wpos) = findex[wpos] /\ Exposed(wpos)' = findex[wpos]
      /\ Pending = windex[wpos] - findex[wpos] /\ Pending' = Pending
  BY <1>0, <1>f DEF Exposed, Pending
<1>5. ListOK' /\ Order(n, start)' /\ ConsumersOK(n, start)' /\ AttachedOK'
      /\ Counting' = Counting
  <2>1. Exposed(wpos)' >= Exposed(wpos)
        /\ published' - Exposed(wpos)' = published - Exposed(wpos)
    BY <1>0, <1>2, <1>4, <1>f
  <2>2. \A k \in 0..SubQueueSize :
           k < Exposed(wpos)' => cells'[wpos][k] = start[wpos] + k
    BY <1>0, <1>1, <1>2, <1>4, <1>f
  <2> QED BY <1>0, <1>1, <1>2, <1>3, <2>1, <2>2, ProducerFrame DEF OthersKept
<1>6. ProducerOK'
  <2>1. cells'[wpos][findex[wpos]] = Null /\ cells'[wpos][windex[wpos]] = Null
    BY <1>0, <1>1, <1>2, <1>4, <1>f DEF ProducerOK
  <2>2. \A k \in 0..SubQueueSize :
          findex[wpos] < k /\ k < windex[wpos] =>
             cells'[wpos][k] = published + 1 + (k - findex[wpos])
    BY <1>0, <1>1, <1>2, <1>4, <1>f DEF ProducerOK
  <2> QED BY <1>0, <1>1, <1>2, <1>4, <1>f, <2>1, <2>2 DEF ProducerOK, ItemsOK, InHand
<1>7. ItemsOK' /\ CountOK(n)'
  BY <1>0, <1>2, <1>4, <1>5, <1>f DEF ProducerOK, ItemsOK, InHand, CountOK, InFlight
<1> QED BY <1>3, <1>5, <1>6, <1>7 DEF Inv

\* Push() exposes all that is in front of the null cell it has written first.
LEMMA PushExposePreserves ==
  ASSUME NEW n \in Nat, NEW start \in [SubQueues -> Nat], Inv(n, start), PushExpose
  PROVE  Inv(n, start)'
<1>f. /\ Types /\ ProducerOK /\ ItemsOK /\ CountOK(n)
      /\ wpos \in SubQueues /\ SubQueueSize \in Nat \ {0} /\ MaxItems \in Nat
      /\ windex \in [SubQueues -> Nat] /\ findex \in [SubQueues -> Nat]
      /\ firstPending \in [SubQueues -> 0..MaxItems] /\ item \in 0..MaxItems
      /\ windex[wpos] \in Nat /\ findex[wpos] \in Nat /\ firstPending[wpos] \in Nat
      /\ place \in Nat /\ published \in Nat /\ count \in Int /\ nextItem \in Int
      /\ pendingCount \in Nat /\ Cardinality(Counting) \in Nat
      /\ findex[wpos] <= windex[wpos] /\ windex[wpos] <= SubQueueSize
      /\ start[wpos] \in Nat /\ start[wpos] + Exposed(wpos) = published + 1
      /\ \A k \in 0..SubQueueSize :
            k < Exposed(wpos) => cells[wpos][k] = start[wpos] + k
  BY AtWpos DEF ProducerOK
<1>0. /\ UNCHANGED <<list, wpos, attached, rindex, findex, windex, firstPending, count,
                     pendingCount, after, item, place, becameNotEmpty, nextItem,
                     consumerCount, cpc, cur, index, res>>
      /\ ppc = "expose" /\ ppc' = "idle"
      /\ published' = published + (windex[wpos] - place)
  BY DEF PushExpose, listVars, consumerVars
<1>2. /\ findex[wpos] = windex[wpos] /\ place < windex[wpos]
      /\ item = published + 1 /\ firstPending[wpos] = Null
  BY <1>0, <1>f DEF ProducerOK, ItemsOK
<1>s. /\ Types /\ Store(place, item)
      /\ item \in Garbage..MaxItems /\ place \in 0..SubQueueSize
  BY <1>f, <1>2 DEF Null, Garbage, PushExpose
<1>t. cells' \in [SubQueues -> [0..SubQueueSize -> Garbage..MaxItems]]
  BY <1>s, StoreTypes
<1>1. /\ SubQueueSize' = SubQueueSize
      /\ \A s \in SubQueues \ {wpos} : cells'[s] = cells[s]
      /\ \A k \in 0..SubQueueSize :
            cells'[wpos][k] = IF k = place THEN item ELSE cells[wpos][k]
  BY <1>s, StoreTypes
<1>3. Types'
  <2>1. ppc' \in Ppcs /\ published' \in Nat
    BY <1>0, <1>2, <1>f DEF Ppcs
  <2> QED BY <1>0, <1>f, <1>t, <1>1, <2>1 DEF Types
<1>4. Exposed(wpos) = place /\ Exposed(wpos)' = windex[wpos]
      /\ Pending = windex[wpos] - place /\ Pending' = 0
  BY <1>0, <1>2, <1>f DEF Exposed, Pending
<1>c. \A k \in 0..SubQueueSize :
         place < k /\ k < windex[wpos] => cells[wpos][k] = published + 1 + (k - place)
  BY <1>0, <1>4, <1>f DEF ProducerOK
<1>5. ListOK' /\ Order(n, start)' /\ ConsumersOK(n, start)' /\ AttachedOK'
      /\ Counting' = Counting
  <2>1. Exposed(wpos)' >= Exposed(wpos)
        /\ published' - Exposed(wpos)' = published - Exposed(wpos)
    BY <1>0, <1>2, <1>4, <1>f
  <2>2. \A k \in 0..SubQueueSize :
           k < Exposed(wpos)' => cells'[wpos][k] = start[wpos] + k
    BY <1>0, <1>1, <1>2, <1>4, <1>f, <1>c
  <2> QED BY <1>0, <1>1, <1>2, <1>3, <2>1, <2>2, ProducerFrame DEF OthersKept
<1>6. ProducerOK'
  <2>1. cells'[wpos][windex[wpos]] = Null
    BY <1>0, <1>1, <1>2, <1>4, <1>f DEF ProducerOK
  <2> QED BY <1>0, <1>1, <1>2, <1>4, <1>f, <2>1 DEF ProducerOK, InHand
<1>7. ItemsOK' /\ CountOK(n)'
  BY <1>0, <1>2, <1>4, <1>5, <1>f DEF ProducerOK, ItemsOK, InHand, CountOK, InFlight
<1> QED BY <1>3, <1>5, <1>6, <1>7 DEF Inv

\* A flush exposes the pending items, in the order they were pushed in.
LEMMA FlushExposePreserves ==
  ASSUME NEW n \in Nat, NEW start \in [SubQueues -> Nat], Inv(n, start), FlushExpose
  PROVE  Inv(n, start)'
<1>f. /\ Types /\ ProducerOK /\ ItemsOK /\ CountOK(n)
      /\ wpos \in SubQueues /\ SubQueueSize \in Nat \ {0} /\ MaxItems \in Nat
      /\ windex \in [SubQueues -> Nat] /\ findex \in [SubQueues -> Nat]
      /\ firstPending \in [SubQueues -> 0..MaxItems] /\ item \in 0..MaxItems
      /\ windex[wpos] \in Nat /\ findex[wpos] \in Nat /\ firstPending[wpos] \in Nat
      /\ place \in Nat /\ published \in Nat /\ count \in Int /\ nextItem \in Int
      /\ pendingCount \in Nat /\ Cardinality(Counting) \in Nat
      /\ findex[wpos] <= windex[wpos] /\ windex[wpos] <= SubQueueSize
      /\ start[wpos] \in Nat /\ start[wpos] + Exposed(wpos) = published + 1
      /\ \A k \in 0..SubQueueSize :
            k < Exposed(wpos) => cells[wpos][k] = start[wpos] + k
  BY AtWpos DEF ProducerOK
<1>0. /\ UNCHANGED <<list, wpos, attached, rindex, windex, count, pendingCount, after, item,
                     place, becameNotEmpty, nextItem, consumerCount, cpc, cur, index, res>>
      /\ ppc = "flush_expose" /\ ppc' = IF after = "idle" THEN "idle" ELSE "next"
      /\ published' = published + (windex[wpos] - findex[wpos])
  BY DEF FlushExpose, listVars, consumerVars
<1>p. /\ findex[wpos] < windex[wpos] /\ firstPending[wpos] = published + 1
      /\ cells[wpos][windex[wpos]] = Null /\ firstPending[wpos] \in 0..MaxItems
      /\ after # "idle" => windex[wpos] = SubQueueSize
  BY <1>0, <1>f DEF ProducerOK, InHand
<1>s. /\ Types /\ Store(findex[wpos], firstPending[wpos])
      /\ firstPending[wpos] \in Garbage..MaxItems /\ findex[wpos] \in 0..SubQueueSize
  BY <1>f, <1>p DEF Null, Garbage, FlushExpose
<1>t. cells' \in [SubQueues -> [0..SubQueueSize -> Garbage..MaxItems]]
  BY <1>s, StoreTypes
<1>1. /\ SubQueueSize' = SubQueueSize
      /\ \A s \in SubQueues \ {wpos} : cells'[s] = cells[s]
      /\ \A k \in 0..SubQueueSize :
            cells'[wpos][k] = IF k = findex[wpos] THEN firstPending[wpos] ELSE cells[wpos][k]
  BY <1>s, StoreTypes
<1>2. /\ findex'[wpos] = windex[wpos] /\ firstPending'[wpos] = Null
      /\ \A s \in SubQueues \ {wpos} :
            findex'[s] = findex[s] /\ firstPending'[s] = firstPending[s]
      /\ findex' \in [SubQueues -> Nat] /\ firstPending' \in [SubQueues -> 0..MaxItems]
  BY <1>f DEF FlushExpose, Set, Null
<1>3. Types'
  <2>1. ppc' \in Ppcs /\ published' \in Nat
    BY <1>0, <1>p, <1>f DEF Ppcs
  <2> QED BY <1>0, <1>f, <1>t, <1>1, <1>2, <2>1 DEF Types
<1>4. Exposed(wpos) = findex[wpos] /\ Exposed(wpos)' = windex[wpos]
      /\ Pending = windex[wpos] - findex[wpos] /\ Pending' = 0
  BY <1>0, <1>2, <1>f DEF Exposed, Pending
<1>c. \A k \in 0..SubQueueSize :
         findex[wpos] < k /\ k < windex[wpos] =>
            cells[wpos][k] = published + 1 + (k - findex[wpos])
  BY <1>0, <1>4, <1>f DEF ProducerOK
<1>5. ListOK' /\ Order(n, start)' /\ ConsumersOK(n, start)' /\ AttachedOK'
      /\ Counting' = Counting
  <2>1. Exposed(wpos)' >= Exposed(wpos)
        /\ published' - Exposed(wpos)' = published - Exposed(wpos)
    BY <1>0, <1>2, <1>4, <1>f, <1>p
  <2>2. \A k \in 0..SubQueueSize :
           k < Exposed(wpos)' => cells'[wpos][k] = start[wpos] + k
    <3>1. ASSUME NEW k \in 0..SubQueueSize, k < windex[wpos]
          PROVE  cells'[wpos][k] = start[wpos] + k
      <4>1. CASE k < findex[wpos]
        BY <1>1, <1>4, <1>f, <4>1
      <4>2. CASE k = findex[wpos]
        BY <1>1, <1>4, <1>f, <1>p, <4>2
      <4>3. CASE k > findex[wpos]
        BY <1>1, <1>4, <1>f, <1>c, <3>1, <4>3
      <4> QED BY <1>f, <4>1, <4>2, <4>3
    <3> QED BY <1>4, <3>1
  <2> QED BY <1>0, <1>1, <1>2, <1>3, <2>1, <2>2, ProducerFrame DEF OthersKept
<1>6. ProducerOK'
  <2>1. cells'[wpos][windex[wpos]] = Null
    BY <1>1, <1>p, <1>f
  <2> QED BY <1>0, <1>1, <1>2, <1>4, <1>f, <1>p, <2>1 DEF ProducerOK, InHand
<1>7. ItemsOK' /\ CountOK(n)'
  BY <1>0, <1>2, <1>4, <1>5, <1>f, <1>p DEF ProducerOK, ItemsOK, InHand, CountOK, InFlight
<1> QED BY <1>3, <1>5, <1>6, <1>7 DEF Inv

\* A sub-queue that is put behind the last one.
LEMMA Appended ==
  ASSUME NEW l \in Seq(SubQueues), IsInjective(l), NEW s \in SubQueues, s \notin Range(l)
  PROVE  /\ Append(l, s) \in Seq(SubQueues) /\ IsInjective(Append(l, s))
         /\ Len(Append(l, s)) = Len(l) + 1
         /\ \A i \in 1..Len(l) : Append(l, s)[i] = l[i]
         /\ Append(l, s)[Len(l) + 1] = s
         /\ Range(Append(l, s)) = Range(l) \cup {s}
         /\ \A t \in Range(l) : Place(Append(l, s), t) = Place(l, t)
         /\ Place(Append(l, s), s) = Len(l) + 1
<1> DEFINE m == Append(l, s)
<1>1. /\ m \in Seq(SubQueues) /\ Len(m) = Len(l) + 1 /\ Len(l) \in Nat
      /\ \A i \in 1..Len(l) : m[i] = l[i]
      /\ m[Len(l) + 1] = s
      /\ DOMAIN m = 1..(Len(l) + 1) /\ DOMAIN l = 1..Len(l)
  OBVIOUS
<1> HIDE DEF m
<1>2. Range(m) = Range(l) \cup {s}
  <2>1. \A i \in 1..(Len(l) + 1) : i \in 1..Len(l) \/ i = Len(l) + 1
    BY <1>1
  <2>2. \A i \in 1..Len(l) : i \in 1..(Len(l) + 1)
    BY <1>1
  <2>3. Len(l) + 1 \in 1..(Len(l) + 1)
    BY <1>1
  <2> QED BY <1>1, <2>1, <2>2, <2>3 DEF Range
<1>3. IsInjective(m)
  <2>1. ASSUME NEW i \in 1..(Len(l) + 1), NEW j \in 1..(Len(l) + 1), m[i] = m[j]
        PROVE  i = j
    <3>1. \A k \in 1..Len(l) : l[k] # s
      BY <1>1 DEF Range
    <3>2. CASE i \in 1..Len(l) /\ j \in 1..Len(l)
      BY <1>1, <2>1, <3>2 DEF IsInjective
    <3>3. CASE i = Len(l) + 1 \/ j = Len(l) + 1
      BY <1>1, <2>1, <3>1, <3>3
    <3> QED BY <1>1, <3>2, <3>3
  <2> QED BY <1>1, <2>1 DEF IsInjective
<1>4. \A t \in Range(l) : Place(m, t) = Place(l, t)
  <2>1. ASSUME NEW t \in Range(l)
        PROVE  Place(m, t) = Place(l, t)
    <3>1. Place(l, t) \in 1..Len(l) /\ l[Place(l, t)] = t
      BY Places
    <3>2. Place(l, t) \in 1..Len(m) /\ m[Place(l, t)] = t
      BY <1>1, <3>1
    <3> QED BY <1>1, <1>3, <3>2, Places
  <2> QED BY <2>1
<1>5. Place(m, s) = Len(l) + 1
  <2>1. Len(l) + 1 \in 1..Len(m)
    BY <1>1
  <2> QED BY <1>1, <1>3, <2>1, Places
<1> QED BY <1>1, <1>2, <1>3, <1>4, <1>5 DEF m

\* Reserve() adds a clean sub-queue to the list, and nothing else.
LEMMA ReservePreserves ==
  ASSUME NEW n \in Nat, NEW start \in [SubQueues -> Nat], Inv(n, start), Reserve
  PROVE  Inv(n, start)'
<1>0. UNCHANGED <<attached, wpos, rindex, findex, windex, cells, firstPending, count,
                  consumerCount, pendingCount, ppc, after, item, place, becameNotEmpty,
                  nextItem, cpc, cur, index, res, published>>
  BY DEF Reserve, producerVars, consumerVars
<1>f. Types /\ ListOK /\ list \in Seq(SubQueues) /\ IsInjective(list)
  BY DEF Inv, Types, ListOK
<1>1. PICK s \in Free : list' = Append(list, s)
  BY DEF Reserve
<1>2. s \in SubQueues /\ s \notin Range(list)
  BY <1>1 DEF Free
<1>3. /\ list' \in Seq(SubQueues) /\ IsInjective(list') /\ Len(list') = Len(list) + 1
      /\ \A i \in 1..Len(list) : list'[i] = list[i]
      /\ Range(list') = Range(list) \cup {s}
      /\ \A t \in Range(list) : Position(t)' = Position(t)
      /\ Position(s)' = Len(list) + 1
  BY <1>f, <1>1, <1>2, Appended, Positions
<1>4. /\ Range(list) \subseteq SubQueues /\ wpos \in Range(list)
      /\ \A t \in Range(list) : Position(t) \in 1..Len(list)
      /\ Len(list) \in Nat /\ Len(list) >= 1
  BY <1>f, InList
<1>5. SubQueueSize' = SubQueueSize
  BY <1>0, <1>f, NoStore
<1>6. Types'
  BY <1>0, <1>f, <1>3, <1>5 DEF Types
<1>7. /\ Position(wpos)' = Position(wpos)
      /\ \A t \in Range(list') : Position(t)' <= Position(wpos)' =>
            t \in Range(list) /\ Position(t)' = Position(t)
  BY <1>0, <1>3, <1>4, Positions
<1>8. ListOK'
  <2>1. list' # <<>> /\ wpos' \in Range(list')
    BY <1>0, <1>3, <1>4
  <2>2. Clean(s) /\ \A t \in SubQueues : Clean(t)' = Clean(t)
    BY <1>0, <1>1, <1>f DEF Clean, ListOK
  <2>3. \A t \in Free' : Clean(t)'
    BY <1>3, <1>f, <2>2 DEF ListOK, Free
  <2>4. ASSUME NEW t \in Range(list')
        PROVE  /\ Position(t)' < Position(wpos)' =>
                     findex'[t] = SubQueueSize' /\ windex'[t] = SubQueueSize'
               /\ Position(t)' > Position(wpos)' => Clean(t)'
    <3>1. CASE t = s
      BY <1>2, <1>3, <1>4, <1>7, <2>2, <3>1
    <3>2. CASE t \in Range(list)
      BY <1>0, <1>3, <1>4, <1>5, <1>7, <1>f, <2>2, <3>2 DEF ListOK
    <3> QED BY <1>3, <3>1, <3>2
  <2> QED BY <1>0, <1>3, <1>f, <2>1, <2>3, <2>4 DEF ListOK
<1>9. \A t : Exposed(t)' = Exposed(t)
  BY <1>0 DEF Exposed
<1>10. Order(n, start)'
  <2>1. Order(n, start)
    BY DEF Inv
  <2>2. \A i \in 1..Position(wpos)' : i \in 1..Position(wpos) /\ list'[i] = list[i]
    BY <1>3, <1>4, <1>7
  <2>3. list'[1] = list[1]
    BY <1>3, <1>4
  <2> QED BY <1>0, <1>5, <1>7, <1>9, <2>1, <2>2, <2>3 DEF Order
<1>11. ConsumersOK(n, start)' /\ AttachedOK' /\ Counting' = Counting
  <2>1. ConsumersOK(n, start) /\ AttachedOK
    BY DEF Inv
  <2>2. Attached' = Attached /\ Counting' = Counting /\ \A t : In(t)' = In(t)
    BY <1>0 DEF Attached, Counting, In
  <2> QED BY <1>0, <1>3, <1>5, <1>7, <1>9, <2>1, <2>2 DEF ConsumersOK, AttachedOK
<1>12. Pending' = Pending /\ InHand' = InHand /\ InFlight' = InFlight
  BY <1>0, <1>9 DEF Pending, InHand, InFlight
<1>13. ProducerOK' /\ ItemsOK' /\ CountOK(n)'
  <2>1. ProducerOK /\ ItemsOK /\ CountOK(n)
    BY DEF Inv
  <2> QED BY <1>0, <1>5, <1>9, <1>11, <1>12, <2>1 DEF ProducerOK, ItemsOK, CountOK
<1> QED BY <1>6, <1>8, <1>10, <1>11, <1>13 DEF Inv

\* The sub-queue behind another one in the list.
LEMMA SuccessorIs ==
  ASSUME Types, ListOK, NEW s \in Range(list), Position(s) < Len(list)
  PROVE  Successor(s) = list[Position(s) + 1]
<1>0. list \in Seq(SubQueues) /\ IsInjective(list)
  BY DEF Types, ListOK
<1>1. /\ Len(list) \in Nat /\ Position(s) \in 1..Len(list) /\ list[Position(s)] = s
      /\ \A i \in 1..Len(list) : Position(list[i]) = i
  BY InList
<1>2. Position(s) + 1 \in 2..Len(list) /\ list[(Position(s) + 1) - 1] = s
  BY <1>1
<1>3. ASSUME NEW i \in 2..Len(list), list[i - 1] = s
      PROVE  i = Position(s) + 1
  <2>1. i - 1 \in 1..Len(list)
    BY <1>1
  <2> QED BY <1>1, <1>3, <2>1
<1> DEFINE c == CHOOSE i \in 2..Len(list) : list[i - 1] = s
<1>4. c \in 2..Len(list) /\ list[c - 1] = s
  BY <1>2
<1>5. c = Position(s) + 1
  BY <1>3, <1>4
<1> QED BY <1>5 DEF Successor

\* The next sub-queue of the producer is the one behind the full one, or a new one.
LEMMA NextWposIs ==
  ASSUME NEW n \in Nat, NEW start \in [SubQueues -> Nat], Inv(n, start), NextWpos
  PROVE  /\ list' \in Seq(SubQueues) /\ IsInjective(list') /\ list' # <<>>
         /\ wpos' \in Range(list') /\ wpos' \in SubQueues /\ wpos' # wpos
         /\ Position(wpos)' = Position(wpos) + 1
         /\ Position(wpos) \in Nat \ {0}
         /\ \A t \in Range(list) : t \in Range(list') /\ Position(t)' = Position(t)
         /\ \A i \in 1..Position(wpos) : list'[i] = list[i]
         /\ list'[1] = list[1] /\ list[Position(wpos)] = wpos
         /\ list'[Position(wpos) + 1] = wpos'
         /\ Clean(wpos')
         /\ \A t \in Range(list') :
               \/ t \in Range(list) /\ Position(t) <= Position(wpos)
               \/ t = wpos'
               \/ Clean(t) /\ Position(t)' > Position(wpos) + 1
         /\ \A t \in SubQueues : t \notin Range(list') => t \in Free
         /\ Range(list) \subseteq SubQueues /\ wpos \in Range(list)
         /\ \A t \in Range(list) : Position(t) \in Nat
         /\ \A t \in Range(list') : t \in SubQueues /\ Position(t)' \in Nat
<1>f. Types /\ ListOK /\ list \in Seq(SubQueues) /\ IsInjective(list)
  BY DEF Inv, Types, ListOK
<1>1. /\ Range(list) \subseteq SubQueues /\ wpos \in Range(list)
      /\ \A s \in Range(list) : Position(s) \in 1..Len(list) /\ list[Position(s)] = s
      /\ \A i \in 1..Len(list) : list[i] \in Range(list) /\ Position(list[i]) = i
      /\ Len(list) \in Nat /\ Len(list) >= 1
  BY <1>f, InList
<1>2. Last(list) = list[Len(list)]
  BY DEF Last
<1>3. CASE wpos # Last(list)
  <2>1. Position(wpos) < Len(list)
    BY <1>1, <1>2, <1>3
  <2>2. wpos' = list[Position(wpos) + 1] /\ list' = list
    BY <1>1, <1>3, <1>f, <2>1, SuccessorIs DEF NextWpos
  <2>3. Position(wpos) + 1 \in 1..Len(list) /\ \A t : Position(t)' = Place(list, t)
    BY <1>1, <2>1, <2>2, Positions
  <2>4. wpos' \in Range(list) /\ Position(wpos)' = Position(wpos) + 1
        /\ \A t : Position(t)' = Position(t)
    BY <1>1, <2>2, <2>3, Positions
  <2>5. \A t \in Range(list) : Position(t) > Position(wpos) => Clean(t)
    BY <1>f DEF ListOK
  <2>6. \A t \in Range(list) :
           \/ Position(t) <= Position(wpos)
           \/ t = wpos'
           \/ Clean(t) /\ Position(t) > Position(wpos) + 1
    BY <1>1, <2>2, <2>5
  <2>7. Clean(wpos') /\ wpos' # wpos
    BY <1>1, <2>2, <2>3, <2>4, <2>5, Positions
  <2> QED BY <1>1, <1>f, <2>2, <2>4, <2>6, <2>7 DEF Free
<1>4. CASE wpos = Last(list)
  <2>1. PICK s \in Free : list' = Append(list, s) /\ wpos' = s
    BY <1>4 DEF NextWpos
  <2>2. s \in SubQueues /\ s \notin Range(list)
    BY <2>1 DEF Free
  <2>3. /\ list' \in Seq(SubQueues) /\ IsInjective(list') /\ Len(list') = Len(list) + 1
        /\ \A i \in 1..Len(list) : list'[i] = list[i]
        /\ list'[Len(list) + 1] = s
        /\ Range(list') = Range(list) \cup {s}
        /\ \A t \in Range(list) : Position(t)' = Position(t)
        /\ Position(wpos)' = Len(list) + 1
    BY <1>f, <2>1, <2>2, Appended, Positions
  <2>4. Position(wpos) = Len(list)
    BY <1>1, <1>2, <1>4
  <2>5. Clean(s)
    BY <1>f, <2>1 DEF ListOK
  <2>6. list' # <<>>
    BY <1>1, <2>3
  <2> QED BY <1>1, <2>1, <2>2, <2>3, <2>4, <2>5, <2>6 DEF Free
<1>5. ASSUME list' \in Seq(SubQueues), IsInjective(list'), NEW t \in Range(list')
      PROVE  t \in SubQueues /\ Position(t)' \in Nat
  <2>1. Place(list', t) \in 1..Len(list') /\ t \in SubQueues
    BY <1>5, Places
  <2>2. Len(list') \in Nat
    BY <1>5
  <2> QED BY <2>1, <2>2, Positions
<1> QED BY <1>3, <1>4, <1>5

\* It starts where the full one ends.
LEMMA NextWposPreserves ==
  ASSUME NEW n \in Nat, NEW start \in [SubQueues -> Nat], Inv(n, start), NextWpos
  PROVE  \E st \in [SubQueues -> Nat] : Inv(n, st)'
<1>0. /\ UNCHANGED <<rindex, findex, windex, cells, firstPending, attached, count,
                     consumerCount, pendingCount, after, item, place, becameNotEmpty,
                     nextItem, cpc, cur, index, res, published>>
      /\ ppc = "next" /\ ppc' = after
  BY DEF NextWpos, consumerVars
<1>f. /\ Types /\ ListOK /\ ProducerOK /\ ItemsOK /\ CountOK(n) /\ Order(n, start)
      /\ ConsumersOK(n, start) /\ AttachedOK
  BY DEF Inv
<1>g. /\ SubQueueSize \in Nat \ {0} /\ published \in Nat
      /\ findex \in [SubQueues -> Nat] /\ windex \in [SubQueues -> Nat]
      /\ firstPending \in [SubQueues -> 0..MaxItems]
      /\ after \in {"push", "pend"} /\ wpos \in SubQueues
      /\ findex[wpos] = SubQueueSize /\ windex[wpos] = SubQueueSize
  BY <1>0, <1>f, AtWpos DEF ProducerOK, InHand
<1>1. /\ list' \in Seq(SubQueues) /\ IsInjective(list') /\ list' # <<>>
      /\ wpos' \in Range(list') /\ wpos' \in SubQueues /\ wpos' # wpos
      /\ Position(wpos)' = Position(wpos) + 1
      /\ Position(wpos) \in Nat \ {0}
      /\ \A t \in Range(list) : t \in Range(list') /\ Position(t)' = Position(t)
      /\ \A i \in 1..Position(wpos) : list'[i] = list[i]
      /\ list'[1] = list[1] /\ list[Position(wpos)] = wpos
      /\ list'[Position(wpos) + 1] = wpos'
      /\ Clean(wpos')
      /\ \A t \in Range(list') :
            \/ t \in Range(list) /\ Position(t) <= Position(wpos)
            \/ t = wpos'
            \/ Clean(t) /\ Position(t)' > Position(wpos) + 1
      /\ \A t \in SubQueues : t \notin Range(list') => t \in Free
      /\ Range(list) \subseteq SubQueues /\ wpos \in Range(list)
      /\ \A t \in Range(list) : Position(t) \in Nat
      /\ \A t \in Range(list') : t \in SubQueues /\ Position(t)' \in Nat
  BY NextWposIs
<1>i. \A i \in 1..Position(wpos) : list[i] \in Range(list) /\ Position(list[i]) = i
  <2>1. Position(wpos) \in 1..Len(list) /\ Len(list) \in Nat
    BY <1>f, InList
  <2>2. \A i \in 1..Position(wpos) : i \in 1..Len(list)
    BY <2>1
  <2> QED BY <1>f, <2>2, InList
<1>2. SubQueueSize' = SubQueueSize
  BY <1>0, <1>f, NoStore
<1>3. Types'
  <2>1. ppc' \in Ppcs
    BY <1>0, <1>g DEF Ppcs
  <2> QED BY <1>0, <1>1, <1>2, <1>f, <2>1 DEF Types
<1>s. PICK st \in [SubQueues -> Nat] :
         /\ st[wpos'] = published + 1
         /\ \A t \in Range(list) : Position(t) <= Position(wpos) =>
               t # wpos' /\ st[t] = start[t] /\ start[t] \in Nat
  <2>1. /\ [start EXCEPT ![wpos'] = published + 1] \in [SubQueues -> Nat]
        /\ [start EXCEPT ![wpos'] = published + 1][wpos'] = published + 1
        /\ \A t \in SubQueues :
              t # wpos' => [start EXCEPT ![wpos'] = published + 1][t] = start[t]
    BY <1>1, <1>g
  <2>2. ASSUME NEW t \in Range(list), Position(t) <= Position(wpos), t = wpos'
        PROVE  FALSE
    <3>1. Position(t)' = Position(wpos)'
      BY <2>2, Positions
    <3> QED BY <1>1, <2>2, <3>1
  <2>3. \A t \in Range(list) : Position(t) <= Position(wpos) =>
           /\ t # wpos' /\ start[t] \in Nat
           /\ [start EXCEPT ![wpos'] = published + 1][t] = start[t]
    BY <1>1, <2>1, <2>2
  <2> QED BY <2>1, <2>3
<1>4. ListOK'
  <2>1. \A t \in SubQueues : Clean(t)' = Clean(t)
    BY <1>0 DEF Clean
  <2>2. \A t \in Free' : Clean(t)'
    BY <1>1, <1>f, <2>1 DEF ListOK, Free
  <2>3. ASSUME NEW t \in Range(list')
        PROVE  /\ Position(t)' < Position(wpos)' =>
                     findex'[t] = SubQueueSize' /\ windex'[t] = SubQueueSize'
               /\ Position(t)' > Position(wpos)' => Clean(t)'
    <3>1. CASE t \in Range(list) /\ Position(t) < Position(wpos)
      BY <1>0, <1>1, <1>2, <1>f, <3>1 DEF ListOK
    <3>2. CASE t = wpos
      BY <1>0, <1>1, <1>2, <1>g, <3>2
    <3>3. CASE t = wpos'
      BY <1>1, <3>3
    <3>4. CASE Clean(t) /\ Position(t)' > Position(wpos) + 1
      <4>1. t \in SubQueues
        BY <1>1, Places
      <4>2. Clean(t)'
        BY <2>1, <3>4, <4>1
      <4>3. ~(Position(t)' < Position(wpos)')
        BY <1>1, <3>4
      <4> QED BY <4>2, <4>3
    <3>5. \A u \in Range(list) : Position(u) = Position(wpos) => u = wpos
      BY <1>f, InList
    <3> QED BY <1>1, <3>1, <3>2, <3>3, <3>4, <3>5
  <2>4. \A t \in SubQueues \ {wpos'} : firstPending[t] = Null
    BY <1>0, <1>f, <1>g DEF ListOK, ProducerOK
  <2> QED BY <1>0, <1>1, <2>2, <2>3, <2>4 DEF ListOK
<1>e. /\ \A t \in Range(list) : Position(t) <= Position(wpos) =>
            Exposed(t)' = findex[t] /\ Exposed(t) = findex[t]
      /\ \A t : t = wpos' => Exposed(t)' = 0
      /\ Exposed(wpos)' = 0 /\ Exposed(wpos) = SubQueueSize
      /\ Pending' = 0 /\ Pending = 0
  <2>1. findex[wpos'] = 0 /\ windex[wpos'] = 0
    BY <1>1 DEF Clean
  <2>2. \A t : Exposed(t) = findex[t] /\ Exposed(t)' = findex[t]
    BY <1>0, <1>g DEF Exposed
  <2>3. Pending' = windex[wpos'] - findex[wpos'] /\ Pending = windex[wpos] - findex[wpos]
    BY <1>0, <1>g DEF Exposed, Pending
  <2>4. Exposed(wpos)' = findex[wpos']
    BY <1>0, <1>g DEF Exposed
  <2> QED BY <1>g, <2>1, <2>2, <2>3, <2>4
<1>5. Order(n, st)'
  <2>1. ASSUME NEW s \in Range(list'), Position(s)' <= Position(wpos)'
        PROVE  /\ st[s] >= 1
               /\ \A k \in 0..SubQueueSize :
                     k < Exposed(s)' => cells'[s][k] = st[s] + k
               /\ rindex'[s] = IF n < st[s] THEN 0
                               ELSE IF n + 1 - st[s] >= SubQueueSize THEN SubQueueSize
                               ELSE n + 1 - st[s]
    <3>1. CASE s \in Range(list) /\ Position(s) <= Position(wpos)
      <4>1. /\ start[s] >= 1
            /\ \A k \in 0..SubQueueSize : k < Exposed(s) => cells[s][k] = start[s] + k
            /\ rindex[s] = IF n < start[s] THEN 0
                           ELSE IF n + 1 - start[s] >= SubQueueSize THEN SubQueueSize
                           ELSE n + 1 - start[s]
        BY <1>f, <3>1 DEF Order
      <4>2. st[s] = start[s] /\ Exposed(s)' = Exposed(s)
        BY <1>s, <1>e, <3>1
      <4> QED BY <1>0, <4>1, <4>2
    <3>2. CASE s = wpos'
      <4>1. n <= published /\ rindex[wpos'] = 0
        BY <1>1, <1>f DEF Order, Clean
      <4> QED BY <1>0, <1>s, <1>e, <1>g, <3>2, <4>1
    <3> QED BY <1>1, <2>1, <3>1, <3>2
  <2>2. start[wpos] + SubQueueSize = published + 1 /\ n <= published
    BY <1>f, <1>e DEF Order
  <2>3. \A i \in 1..Position(wpos) : st[list'[i]] = start[list[i]] /\ start[list[i]] \in Nat
    <3>1. ASSUME NEW i \in 1..Position(wpos)
          PROVE  st[list'[i]] = start[list[i]] /\ start[list[i]] \in Nat
      <4>1. list[i] \in Range(list) /\ Position(list[i]) <= Position(wpos)
        BY <1>1, <1>i
      <4>2. list'[i] = list[i]
        BY <1>1
      <4> QED BY <1>s, <4>1, <4>2
    <3> QED BY <3>1
  <2>4. st[list'[1]] <= n + 1
    <3>1. start[list[1]] <= n + 1
      BY <1>f DEF Order
    <3>2. 1 \in 1..Position(wpos)
      BY <1>1
    <3> QED BY <2>3, <3>1, <3>2
  <2>p. Position(wpos) \in Nat \ {0}
    BY <1>1
  <2>5. ASSUME NEW i \in 1..(Position(wpos) + 1), NEW j \in 1..(Position(wpos) + 1)
        PROVE  /\ i < j => st[list'[i]] + SubQueueSize <= st[list'[j]]
               /\ j = i + 1 => \/ st[list'[j]] = st[list'[i]] + SubQueueSize
                               \/ st[list'[j]] <= n + 1
    <3>1. CASE i <= Position(wpos) /\ j <= Position(wpos)
      <4>1. i \in 1..Position(wpos) /\ j \in 1..Position(wpos)
        BY <1>1, <3>1
      <4> QED BY <1>f, <2>3, <4>1 DEF Order
    <3>2. CASE i <= Position(wpos) /\ j = Position(wpos) + 1
      <4>1. i \in 1..Position(wpos) /\ Position(wpos) \in 1..Position(wpos)
        BY <2>p, <3>2
      <4>2. i < Position(wpos) => start[list[i]] + SubQueueSize <= start[wpos]
        BY <1>1, <1>f, <4>1 DEF Order
      <4>3. i = Position(wpos) \/ i < Position(wpos)
        BY <2>p, <3>2
      <4>4. st[list'[j]] = published + 1 /\ list[Position(wpos)] = wpos
        BY <1>1, <1>s, <3>2
      <4>5. /\ start[list[i]] + SubQueueSize <= published + 1
            /\ i = Position(wpos) => start[list[i]] + SubQueueSize = published + 1
        <5>1. start[list[i]] \in Nat /\ start[wpos] \in Nat
          BY <2>3, <4>1, <4>4
        <5> QED BY <1>g, <2>2, <4>2, <4>3, <4>4, <5>1
      <4>6. j = i + 1 => i = Position(wpos)
        BY <2>p, <3>2
      <4>7. st[list'[i]] = start[list[i]]
        BY <2>3, <4>1
      <4>8. /\ st[list'[i]] + SubQueueSize <= published + 1
            /\ j = i + 1 => st[list'[i]] + SubQueueSize = published + 1
        BY <4>5, <4>6, <4>7
      <4> QED BY <4>4, <4>8
    <3>3. CASE i = Position(wpos) + 1
      BY <1>1, <3>3
    <3> QED BY <1>1, <3>1, <3>2, <3>3
  <2>6. st[wpos'] + Exposed(wpos)' = published + 1
    BY <1>s, <1>e, <1>g
  <2>7. Position(wpos)' = Position(wpos) + 1
    BY <1>1
  <2>8. published' = published /\ SubQueueSize' = SubQueueSize
    BY <1>0, <1>2
  <2>9. /\ \A i \in 1..Position(wpos)', j \in 1..Position(wpos)' :
              i < j => st[list'[i]] + SubQueueSize' <= st[list'[j]]
        /\ \A i \in 1..Position(wpos)', j \in 1..Position(wpos)' :
              j = i + 1 => \/ st[list'[j]] = st[list'[i]] + SubQueueSize'
                           \/ st[list'[j]] <= n + 1
    BY <2>5, <2>7, <2>8
  <2>10. \A s \in Range(list') : Position(s)' <= Position(wpos)' =>
            /\ st[s] >= 1
            /\ \A k \in 0..SubQueueSize' : k < Exposed(s)' => cells'[s][k] = st[s] + k
            /\ rindex'[s] = IF n < st[s] THEN 0
                            ELSE IF n + 1 - st[s] >= SubQueueSize' THEN SubQueueSize'
                            ELSE n + 1 - st[s]
    BY <2>1, <2>8
  <2>11. n <= published' /\ st[wpos'] + Exposed(wpos)' = published' + 1
    BY <2>2, <2>6, <2>8
  <2> QED BY <2>4, <2>9, <2>10, <2>11 DEF Order
<1>6. ConsumersOK(n, st)' /\ AttachedOK' /\ Counting' = Counting
  <2>1. Attached' = Attached /\ Counting' = Counting /\ \A t : In(t)' = In(t)
    BY <1>0 DEF Attached, Counting, In
  <2>2. \A c \in Attached :
           /\ cur[c] \in Range(list) /\ Position(cur[c]) <= Position(wpos)
           /\ start[cur[c]] <= n + 1
    BY <1>f DEF ConsumersOK
  <2>3. \A c \in Attached :
           /\ cur[c] \in Range(list') /\ Position(cur[c])' <= Position(wpos)'
           /\ st[cur[c]] <= n + 1 /\ st[cur[c]] = start[cur[c]]
           /\ Exposed(cur[c])' = Exposed(cur[c])
    <3>1. ASSUME NEW u \in Range(list), Position(u) <= Position(wpos)
          PROVE  /\ u \in Range(list') /\ Position(u)' <= Position(wpos)'
                 /\ st[u] = start[u] /\ Exposed(u)' = Exposed(u)
      <4>1. st[u] = start[u] /\ Exposed(u)' = Exposed(u)
        BY <1>s, <1>e, <3>1
      <4>2. u \in Range(list') /\ Position(u)' = Position(u)
        BY <1>1
      <4>3. Position(u) \in Nat /\ Position(wpos) \in Nat
            /\ Position(wpos)' = Position(wpos) + 1
        BY <1>1
      <4> QED BY <3>1, <4>1, <4>2, <4>3
    <3>2. cur' = cur
      BY <1>0
    <3> QED BY <2>2, <3>1, <3>2
  <2>4. \A c \in Consumers : cpc[c] = "exchange" => c \in Attached
    BY DEF Attached
  <2>5. AttachedOK'
    BY <1>0, <1>f, <2>1 DEF AttachedOK
  <2>6. \A c \in Consumers : cpc[c] = "exchange" =>
           index[c] < Exposed(cur[c])' /\ res[c] = st[cur[c]] + index[c]
    BY <1>f, <2>3, <2>4 DEF ConsumersOK
  <2>7. ConsumersOK(n, st)'
    <3>1. \A c \in Attached' :
             /\ cur'[c] \in Range(list') /\ Position(cur[c])' <= Position(wpos)'
             /\ st[cur'[c]] <= n + 1
      BY <1>0, <2>1, <2>3
    <3>2. \A c \in Consumers :
             /\ cpc'[c] \in {"load", "exchange"} =>
                   index'[c] <= rindex'[cur'[c]] /\ index'[c] < SubQueueSize'
             /\ cpc'[c] = "exchange" =>
                   index'[c] < Exposed(cur[c])' /\ res'[c] = st[cur'[c]] + index'[c]
             /\ cpc'[c] = "switch" => rindex'[cur'[c]] = SubQueueSize'
      BY <1>0, <1>2, <1>f, <2>6 DEF ConsumersOK
    <3>3. /\ \A c \in Counting' : res'[c] \in 1..n
          /\ \A c \in Counting', d \in Counting' : c # d => res'[c] # res'[d]
      BY <1>0, <1>f, <2>1 DEF ConsumersOK
    <3> QED BY <3>1, <3>2, <3>3 DEF ConsumersOK
  <2> QED BY <2>1, <2>5, <2>7
<1>7. ProducerOK'
  <2>1. findex[wpos'] = 0 /\ windex[wpos'] = 0 /\ cells[wpos'][0] = Null
    BY <1>1 DEF Clean
  <2>2. firstPending[wpos'] = Null
    BY <1>1, <1>f DEF ListOK
  <2> QED BY <1>0, <1>2, <1>e, <1>g, <2>1, <2>2 DEF ProducerOK
<1>8. ItemsOK' /\ CountOK(n)'
  BY <1>0, <1>6, <1>e, <1>f, <1>g DEF ItemsOK, CountOK, InHand, InFlight
<1> QED BY <1>3, <1>4, <1>5, <1>6, <1>7, <1>8 DEF Inv

-----------------------------------------------------------------------------
(* The consumers.                                                           *)

\* A sub-queue that has been reached holds the items from its start on, it is read
\* up to the exposed ones at most, and behind these is a null cell.
LEMMA Reached ==
  ASSUME NEW n \in Nat, NEW start \in [SubQueues -> Nat], Inv(n, start),
         NEW s \in Range(list), Position(s) <= Position(wpos)
  PROVE  /\ s \in SubQueues /\ start[s] \in Nat /\ start[s] >= 1
         /\ rindex[s] \in Nat /\ rindex[s] <= Exposed(s)
         /\ Exposed(s) \in Nat /\ Exposed(s) <= SubQueueSize
         /\ SubQueueSize \in Nat \ {0} /\ published \in Nat
         /\ start[s] + Exposed(s) <= published + 1
         /\ s # wpos => Exposed(s) = SubQueueSize
         /\ \A k \in 0..SubQueueSize : k < Exposed(s) => cells[s][k] = start[s] + k
         /\ Exposed(s) < SubQueueSize => cells[s][Exposed(s)] = Null
         /\ rindex[s] = IF n < start[s] THEN 0
                        ELSE IF n + 1 - start[s] >= SubQueueSize THEN SubQueueSize
                        ELSE n + 1 - start[s]
<1>f. Types /\ ListOK /\ ProducerOK /\ Order(n, start)
  BY DEF Inv
<1>1. /\ s \in SubQueues /\ start[s] \in Nat /\ wpos \in SubQueues /\ start[wpos] \in Nat
      /\ SubQueueSize \in Nat \ {0} /\ published \in Nat /\ n <= published
      /\ rindex \in [SubQueues -> Nat] /\ findex \in [SubQueues -> Nat]
      /\ windex[wpos] \in Nat /\ windex[wpos] <= SubQueueSize
      /\ Exposed(wpos) \in Nat /\ Exposed(wpos) <= windex[wpos]
      /\ cells[wpos][Exposed(wpos)] = Null
      /\ start[wpos] + Exposed(wpos) = published + 1
  <2>1. s \in SubQueues /\ wpos \in SubQueues
    BY <1>f, InList
  <2>2. start[s] \in Nat /\ start[wpos] \in Nat
    BY <2>1
  <2>3. /\ SubQueueSize \in Nat \ {0} /\ published \in Nat
        /\ rindex \in [SubQueues -> Nat] /\ findex \in [SubQueues -> Nat]
        /\ windex \in [SubQueues -> Nat] /\ place \in Nat
    BY <1>f DEF Types
  <2>4. n <= published /\ start[wpos] + Exposed(wpos) = published + 1
    BY <1>f DEF Order
  <2>5. /\ findex[wpos] <= windex[wpos] /\ windex[wpos] <= SubQueueSize
        /\ cells[wpos][Exposed(wpos)] = Null
        /\ ppc \in {"place", "expose"} => place < windex[wpos]
    BY <1>f DEF ProducerOK
  <2>6. Exposed(wpos) = IF ppc \in {"place", "expose"} THEN place ELSE findex[wpos]
    BY DEF Exposed
  <2>7. Exposed(wpos) \in Nat /\ Exposed(wpos) <= windex[wpos] /\ windex[wpos] \in Nat
    BY <2>1, <2>3, <2>5, <2>6
  <2> QED BY <2>1, <2>2, <2>3, <2>4, <2>5, <2>7
<1>2. /\ start[s] >= 1
      /\ \A k \in 0..SubQueueSize : k < Exposed(s) => cells[s][k] = start[s] + k
      /\ rindex[s] = IF n < start[s] THEN 0
                     ELSE IF n + 1 - start[s] >= SubQueueSize THEN SubQueueSize
                     ELSE n + 1 - start[s]
  BY <1>f DEF Order
<1>3. CASE s = wpos
  <2>1. rindex[s] <= Exposed(s)
    BY <1>1, <1>2, <1>3
  <2> QED BY <1>1, <1>2, <1>3, <2>1
<1>4. CASE s # wpos
  <2>1. /\ Position(s) \in 1..Len(list) /\ list[Position(s)] = s
        /\ Position(wpos) \in 1..Len(list) /\ list[Position(wpos)] = wpos
        /\ Len(list) \in Nat
    BY <1>f, InList
  <2>2. Position(s) < Position(wpos)
    BY <1>4, <2>1
  <2>3. Exposed(s) = SubQueueSize
    BY <1>4, <1>f, <2>2 DEF Exposed, ListOK
  <2>4. start[s] + SubQueueSize <= start[wpos]
    <3>1. Position(s) \in 1..Position(wpos) /\ Position(wpos) \in 1..Position(wpos)
      BY <2>1, <2>2
    <3> QED BY <1>f, <2>1, <2>2, <3>1 DEF Order
  <2> QED BY <1>1, <1>2, <1>4, <2>3, <2>4
<1> QED BY <1>3, <1>4

\* The steps that only look: Pop(), the load of an item, an exchange that fails, and
\* the end of a sub-queue the producer is still at.
LEMMA LookPreserves ==
  ASSUME NEW n \in Nat, NEW start \in [SubQueues -> Nat], Inv(n, start),
         NEW c \in Consumers,
         \/ Pop(c) \/ LoadItem(c) \/ ExchangeFails(c)
         \/ SwitchSubQueue(c) /\ cur[c] = wpos
  PROVE  Inv(n, start)'
<1>f. /\ Types /\ ListOK /\ ProducerOK /\ ItemsOK /\ CountOK(n) /\ Order(n, start)
      /\ ConsumersOK(n, start) /\ AttachedOK
  BY DEF Inv
<1>0. /\ UNCHANGED <<list, attached, wpos, rindex, findex, windex, cells, firstPending, count,
                     consumerCount, pendingCount, ppc, after, item, place, becameNotEmpty,
                     nextItem, cur, published>>
      /\ cpc[c] \in Cpcs \ {"detached", "count"}
      /\ \A d \in Consumers : d # c =>
            cpc'[d] = cpc[d] /\ index'[d] = index[d] /\ res'[d] = res[d]
  <2>0. /\ cpc \in [Consumers -> Cpcs] /\ index \in [Consumers -> Nat]
        /\ res \in [Consumers -> 0..MaxItems]
    BY <1>f DEF Types
  <2>1. CASE Pop(c)
    BY <2>0, <2>1 DEF Pop, LoadIndex, Goto, Set, listVars, producerVars, Cpcs
  <2>2. CASE ExchangeFails(c)
    BY <2>0, <2>2 DEF ExchangeFails, LoadIndex, Goto, Set, listVars, producerVars, Cpcs
  <2>3. CASE LoadItem(c)
    BY <2>0, <2>3 DEF LoadItem, Goto, Set, listVars, producerVars, Cpcs
  <2>4. CASE SwitchSubQueue(c) /\ cur[c] = wpos
    BY <2>0, <2>4 DEF SwitchSubQueue, Goto, Set, listVars, producerVars, Cpcs
  <2> QED BY <2>1, <2>2, <2>3, <2>4
<1>1. /\ cpc \in [Consumers -> Cpcs] /\ index \in [Consumers -> Nat]
      /\ res \in [Consumers -> 0..MaxItems] /\ cur \in [Consumers -> SubQueues]
      /\ MaxItems \in Nat
  BY <1>f, QueueAssumption DEF Types
<1>2. /\ c \in Attached /\ cur[c] \in Range(list) /\ Position(cur[c]) <= Position(wpos)
  BY <1>0, <1>f DEF Attached, ConsumersOK
<1>3. /\ cur[c] \in SubQueues /\ start[cur[c]] \in Nat /\ start[cur[c]] >= 1
      /\ rindex[cur[c]] \in Nat /\ rindex[cur[c]] <= Exposed(cur[c])
      /\ Exposed(cur[c]) \in Nat /\ Exposed(cur[c]) <= SubQueueSize
      /\ SubQueueSize \in Nat \ {0}
      /\ \A k \in 0..SubQueueSize :
            k < Exposed(cur[c]) => cells[cur[c]][k] = start[cur[c]] + k
      /\ Exposed(cur[c]) < SubQueueSize => cells[cur[c]][Exposed(cur[c])] = Null
  BY <1>2, Reached
<1>4. /\ cpc' \in [Consumers -> Cpcs] /\ cpc'[c] \notin {"detached", "count"}
      /\ index' \in [Consumers -> Nat] /\ res'[c] \in 0..MaxItems
      /\ res' \in [Consumers -> 0..MaxItems]
      /\ cpc'[c] \in {"load", "exchange"} =>
            index'[c] <= rindex[cur[c]] /\ index'[c] < SubQueueSize
      /\ cpc'[c] = "exchange" =>
            index'[c] < Exposed(cur[c]) /\ res'[c] = start[cur[c]] + index'[c]
      /\ cpc'[c] = "switch" => rindex[cur[c]] = SubQueueSize
  <2>1. CASE Pop(c) \/ ExchangeFails(c)
    <3>1. /\ index' = [index EXCEPT ![c] = rindex[cur[c]]] /\ res' = res
          /\ cpc' = [cpc EXCEPT ![c] = IF rindex[cur[c]] = SubQueueSize
                                       THEN "switch" ELSE "load"]
      BY <2>1 DEF Pop, ExchangeFails, LoadIndex, Goto, Set
    <3> QED BY <1>1, <1>3, <3>1 DEF Cpcs
  <2>2. CASE LoadItem(c)
    <3>1. /\ cpc[c] = "load" /\ index' = index
          /\ res' = [res EXCEPT ![c] = cells[cur[c]][index[c]]]
          /\ cpc' = [cpc EXCEPT ![c] = IF cells[cur[c]][index[c]] = Null
                                       THEN "nothing" ELSE "exchange"]
      BY <2>2 DEF LoadItem, Goto, Set
    <3>2. index[c] \in Nat /\ index[c] <= rindex[cur[c]] /\ index[c] < SubQueueSize
      BY <1>1, <1>f, <3>1 DEF ConsumersOK
    <3>3. CASE index[c] < Exposed(cur[c])
      <4>1. cells[cur[c]][index[c]] = start[cur[c]] + index[c]
        BY <1>3, <3>2, <3>3
      <4>2. cells[cur[c]][index[c]] \in Garbage..MaxItems
        <5>1. index[c] \in 0..SubQueueSize
          BY <1>3, <3>2
        <5>2. cells \in [SubQueues -> [0..SubQueueSize -> Garbage..MaxItems]]
          BY <1>f DEF Types
        <5> QED BY <1>3, <5>1, <5>2
      <4>3. cells[cur[c]][index[c]] \in 0..MaxItems
            /\ cells[cur[c]][index[c]] = start[cur[c]] + index[c]
        BY <1>1, <1>3, <3>2, <4>1, <4>2 DEF Garbage
      <4> QED BY <1>1, <1>3, <3>1, <3>2, <3>3, <4>3 DEF Cpcs
    <3>4. CASE ~(index[c] < Exposed(cur[c]))
      <4>1. cells[cur[c]][index[c]] = Null
        <5>1. index[c] = Exposed(cur[c])
          BY <1>3, <3>2, <3>4
        <5> QED BY <1>3, <3>2, <5>1
      <4> QED BY <1>1, <3>1, <4>1 DEF Cpcs, Null
    <3> QED BY <3>3, <3>4
  <2>3. CASE SwitchSubQueue(c) /\ cur[c] = wpos
    <3>1. index' = index /\ res' = res /\ cpc' = [cpc EXCEPT ![c] = "nothing"]
      BY <2>3 DEF SwitchSubQueue, Goto, Set
    <3> QED BY <1>1, <3>1 DEF Cpcs
  <2> QED BY <2>1, <2>2, <2>3
<1>5. SubQueueSize' = SubQueueSize
  BY <1>0, <1>f, NoStore
<1>6. Types'
  BY <1>0, <1>4, <1>5, <1>f DEF Types
<1>7. /\ Attached' = Attached /\ Counting' = Counting /\ \A s : In(s)' = In(s)
      /\ (\A s : Exposed(s)' = Exposed(s)) /\ (\A s : Position(s)' = Position(s))
  BY <1>0, <1>4, Positions DEF Attached, Counting, In, Exposed, Position
<1>8. ConsumersOK(n, start)'
  <2>1. ASSUME NEW d \in Consumers
        PROVE  /\ cpc'[d] \in {"load", "exchange"} =>
                     index'[d] <= rindex[cur[d]] /\ index'[d] < SubQueueSize
               /\ cpc'[d] = "exchange" =>
                     index'[d] < Exposed(cur[d]) /\ res'[d] = start[cur[d]] + index'[d]
               /\ cpc'[d] = "switch" => rindex[cur[d]] = SubQueueSize
    BY <1>0, <1>4, <1>f DEF ConsumersOK
  <2>2. \A d \in Counting : res'[d] = res[d]
    BY <1>0 DEF Counting
  <2>3. /\ \A d \in Counting' : res'[d] \in 1..n
        /\ \A d \in Counting', e \in Counting' : d # e => res'[d] # res'[e]
    BY <1>7, <1>f, <2>2 DEF ConsumersOK
  <2>4. \A d \in Attached' :
           /\ cur'[d] \in Range(list') /\ Position(cur[d])' <= Position(wpos)'
           /\ start[cur'[d]] <= n + 1
    BY <1>0, <1>7, <1>f DEF ConsumersOK
  <2> QED BY <1>0, <1>5, <1>7, <2>1, <2>3, <2>4 DEF ConsumersOK
<1>9. AttachedOK'
  BY <1>0, <1>7, <1>f DEF AttachedOK
<1>10. Pending' = Pending /\ InHand' = InHand /\ InFlight' = InFlight
  BY <1>0 DEF Pending, InHand, InFlight, Exposed
<1>11. ListOK' /\ Order(n, start)'
  BY <1>0, <1>5, <1>7, <1>f DEF ListOK, Order, Clean, Free
<1>12. ProducerOK' /\ ItemsOK' /\ CountOK(n)'
  BY <1>0, <1>5, <1>7, <1>10, <1>f DEF ProducerOK, ItemsOK, CountOK
<1> QED BY <1>6, <1>8, <1>9, <1>11, <1>12 DEF Inv

\* The sub-queues that have been reached hold their items in the order of the list.
LEMMA Starts ==
  ASSUME NEW n \in Nat, NEW start \in [SubQueues -> Nat], Inv(n, start),
         NEW s \in Range(list), Position(s) <= Position(wpos),
         NEW t \in Range(list), Position(t) <= Position(wpos), s # t
  PROVE  \/ Position(s) < Position(t) /\ start[s] + SubQueueSize <= start[t]
         \/ Position(t) < Position(s) /\ start[t] + SubQueueSize <= start[s]
<1>f. Types /\ ListOK /\ Order(n, start)
  BY DEF Inv
<1>1. /\ Position(s) \in 1..Len(list) /\ list[Position(s)] = s
      /\ Position(t) \in 1..Len(list) /\ list[Position(t)] = t
      /\ Position(wpos) \in Nat /\ Len(list) \in Nat
  BY <1>f, InList
<1>2. Position(s) \in 1..Position(wpos) /\ Position(t) \in 1..Position(wpos)
  BY <1>1
<1>3. Position(s) < Position(t) \/ Position(t) < Position(s)
  BY <1>1
<1>4. Position(s) < Position(t) => start[s] + SubQueueSize <= start[t]
  BY <1>1, <1>2, <1>f DEF Order
<1>5. Position(t) < Position(s) => start[t] + SubQueueSize <= start[s]
  BY <1>1, <1>2, <1>f DEF Order
<1> QED BY <1>3, <1>4, <1>5

\* The item that an exchange takes is the first that is left.
LEMMA ExchangePreserves ==
  ASSUME NEW n \in Nat, NEW start \in [SubQueues -> Nat], Inv(n, start),
         NEW c \in Consumers, ExchangeIndex(c)
  PROVE  Inv(n + 1, start)' /\ res[c] = n + 1 /\ n + 1 <= published
<1>f. /\ Types /\ ListOK /\ ProducerOK /\ ItemsOK /\ CountOK(n) /\ Order(n, start)
      /\ ConsumersOK(n, start) /\ AttachedOK
  BY DEF Inv
<1>1. /\ cpc \in [Consumers -> Cpcs] /\ index \in [Consumers -> Nat]
      /\ cur \in [Consumers -> SubQueues] /\ rindex \in [SubQueues -> Nat]
  BY <1>f DEF Types
<1>0. /\ UNCHANGED <<list, attached, wpos, findex, windex, cells, firstPending, count,
                     consumerCount, pendingCount, ppc, after, item, place, becameNotEmpty,
                     nextItem, cur, index, res, published>>
      /\ cpc[c] = "exchange" /\ cpc' = [cpc EXCEPT ![c] = "count"]
      /\ rindex[cur[c]] = index[c] /\ rindex' = [rindex EXCEPT ![cur[c]] = @ + 1]
  BY DEF ExchangeIndex, Goto, Set, Add, listVars, producerVars
<1>2. PICK s \in Range(list) : s = cur[c] /\ Position(s) <= Position(wpos) /\ start[s] <= n + 1
  BY <1>0, <1>f DEF Attached, ConsumersOK
<1>3. /\ s \in SubQueues /\ start[s] \in Nat /\ start[s] >= 1
      /\ rindex[s] \in Nat /\ Exposed(s) \in Nat /\ SubQueueSize \in Nat \ {0}
      /\ published \in Nat
      /\ start[s] + Exposed(s) <= published + 1
      /\ rindex[s] = IF n < start[s] THEN 0
                     ELSE IF n + 1 - start[s] >= SubQueueSize THEN SubQueueSize
                     ELSE n + 1 - start[s]
  BY <1>2, Reached
<1>4. /\ index[c] = rindex[s] /\ index[c] < SubQueueSize /\ index[c] < Exposed(s)
      /\ res[c] = start[s] + index[c]
  BY <1>0, <1>2, <1>f DEF ConsumersOK
<1>5. res[c] = n + 1 /\ start[s] + rindex[s] = n + 1 /\ n + 1 <= published
      /\ rindex[s] < SubQueueSize
  BY <1>2, <1>3, <1>4
<1>6. /\ rindex'[s] = rindex[s] + 1 /\ rindex' \in [SubQueues -> Nat]
      /\ \A t \in SubQueues : t # s => rindex'[t] = rindex[t]
      /\ cpc'[c] = "count" /\ cpc' \in [Consumers -> Cpcs]
      /\ \A d \in Consumers : d # c => cpc'[d] = cpc[d]
  <2>1. rindex' \in [SubQueues -> Nat]
    BY <1>0, <1>1, <1>2, <1>3
  <2>2. cpc' \in [Consumers -> Cpcs]
    BY <1>0, <1>1 DEF Cpcs
  <2> QED BY <1>0, <1>1, <1>2, <1>3, <2>1, <2>2
<1>7. SubQueueSize' = SubQueueSize
  BY <1>0, <1>f, NoStore
<1>8. Types'
  BY <1>0, <1>6, <1>7, <1>f DEF Types
<1>9. /\ Attached' = Attached /\ \A t : In(t)' = In(t)
      /\ (\A t : Exposed(t)' = Exposed(t)) /\ (\A t : Position(t)' = Position(t))
      /\ c \notin Counting /\ Counting' = Counting \cup {c}
      /\ Cardinality(Counting') = Cardinality(Counting) + 1
      /\ Cardinality(Counting) \in Nat
  <2>1. \A d \in Consumers : cpc'[d] # "detached" <=> cpc[d] # "detached"
    BY <1>0, <1>6
  <2>2. Attached' = Attached
    BY <2>1 DEF Attached
  <2>3. c \notin Counting /\ Counting' = Counting \cup {c}
    BY <1>0, <1>6 DEF Counting
  <2>4. /\ Cardinality(Counting) \in Nat
        /\ Cardinality(Counting \cup {c}) = Cardinality(Counting) + 1
    BY <1>f, <2>3, InList, FS_AddElement
  <2> QED BY <1>0, <2>2, <2>3, <2>4, Positions DEF In, Exposed, Position
<1>i. /\ Range(list) \subseteq SubQueues
      /\ \A t \in Range(list) : Position(t) \in Nat
      /\ Position(wpos) \in Nat
  BY <1>f, InList
<1>10. ListOK'
  <2>1. \A t \in SubQueues : t # s => Clean(t)' = Clean(t)
    BY <1>0, <1>6 DEF Clean
  <2>2. \A t \in Free : t # s /\ t \in SubQueues
    BY DEF Free
  <2>3. \A t \in Range(list) : Position(t) > Position(wpos) => t # s /\ t \in SubQueues
    BY <1>2, <1>i
  <2>4. Free' = Free
    BY <1>0 DEF Free
  <2> QED BY <1>0, <1>7, <1>9, <1>f, <2>1, <2>2, <2>3, <2>4 DEF ListOK
<1>11. Order(n + 1, start)'
  <2>1. ASSUME NEW t \in Range(list), Position(t) <= Position(wpos)
        PROVE  rindex'[t] = IF n + 1 < start[t] THEN 0
                            ELSE IF (n + 1) + 1 - start[t] >= SubQueueSize
                                 THEN SubQueueSize
                            ELSE (n + 1) + 1 - start[t]
    <3>1. CASE t = s
      BY <1>3, <1>5, <1>6, <3>1
    <3>2. CASE t # s
      <4>1. /\ rindex[t] = IF n < start[t] THEN 0
                           ELSE IF n + 1 - start[t] >= SubQueueSize THEN SubQueueSize
                           ELSE n + 1 - start[t]
            /\ start[t] \in Nat /\ t \in SubQueues
        BY <2>1, Reached
      <4>2. start[s] + SubQueueSize <= start[t] \/ start[t] + SubQueueSize <= start[s]
        BY <1>2, <2>1, <3>2, Starts
      <4> QED BY <1>3, <1>5, <1>6, <3>2, <4>1, <4>2
    <3> QED BY <3>1, <3>2
  <2>2. \A t \in Range(list) : Position(t) <= Position(wpos) =>
           /\ start[t] >= 1
           /\ \A k \in 0..SubQueueSize : k < Exposed(t) => cells[t][k] = start[t] + k
    BY <1>f DEF Order
  <2>3. start[wpos] + Exposed(wpos) = published + 1
    BY <1>f DEF Order
  <2>4. start[list[1]] <= (n + 1) + 1
    <3>1. start[list[1]] <= n + 1 /\ list[1] \in SubQueues
      BY <1>f, <1>i, InList DEF Order
    <3> QED BY <3>1
  <2>5. \A i \in 1..Position(wpos), j \in 1..Position(wpos) :
           i < j => start[list[i]] + SubQueueSize <= start[list[j]]
    BY <1>f DEF Order
  <2>6. \A i \in 1..Position(wpos), j \in 1..Position(wpos) :
           j = i + 1 => \/ start[list[j]] = start[list[i]] + SubQueueSize
                        \/ start[list[j]] <= (n + 1) + 1
    <3>1. ASSUME NEW i \in 1..Position(wpos), NEW j \in 1..Position(wpos), j = i + 1
          PROVE  \/ start[list[j]] = start[list[i]] + SubQueueSize
                 \/ start[list[j]] <= (n + 1) + 1
      <4>1. \/ start[list[j]] = start[list[i]] + SubQueueSize
            \/ start[list[j]] <= n + 1
        BY <1>f, <3>1 DEF Order
      <4>2. list[j] \in SubQueues
        <5>1. Position(wpos) \in 1..Len(list) /\ Len(list) \in Nat
          BY <1>f, InList
        <5>2. j \in 1..Len(list)
          BY <5>1
        <5> QED BY <1>f, <1>i, <5>2, InList
      <4>3. start[list[j]] \in Nat
        BY <4>2
      <4> QED BY <4>1, <4>3
    <3> QED BY <3>1
  <2> QED BY <1>0, <1>5, <1>7, <1>9, <2>1, <2>2, <2>3, <2>4, <2>5, <2>6 DEF Order
<1>12. ConsumersOK(n + 1, start)'
  <2>1. \A d \in Attached : /\ cur[d] \in Range(list) /\ Position(cur[d]) <= Position(wpos)
                            /\ start[cur[d]] <= (n + 1) + 1
    <3>1. ASSUME NEW d \in Attached
          PROVE  start[cur[d]] <= (n + 1) + 1
      <4>1. start[cur[d]] <= n + 1 /\ cur[d] \in SubQueues
        BY <1>f, <1>i DEF ConsumersOK
      <4>2. start[cur[d]] \in Nat
        BY <4>1
      <4> QED BY <4>1, <4>2
    <3> QED BY <1>f, <3>1 DEF ConsumersOK
  <2>2. ASSUME NEW d \in Consumers
        PROVE  /\ cpc'[d] \in {"load", "exchange"} =>
                     index[d] <= rindex'[cur[d]] /\ index[d] < SubQueueSize
               /\ cpc'[d] = "exchange" =>
                     index[d] < Exposed(cur[d]) /\ res[d] = start[cur[d]] + index[d]
               /\ cpc'[d] = "switch" => rindex'[cur[d]] = SubQueueSize
    <3>1. CASE d = c
      BY <1>6, <3>1
    <3>2. CASE d # c
      <4>1. cur[d] \in SubQueues /\ index[d] \in Nat /\ rindex[cur[d]] \in Nat
        BY <1>1
      <4>2. cpc'[d] = cpc[d]
        BY <1>6, <3>2
      <4>3. /\ cpc[d] \in {"load", "exchange"} =>
                  index[d] <= rindex[cur[d]] /\ index[d] < SubQueueSize
            /\ cpc[d] = "exchange" =>
                  index[d] < Exposed(cur[d]) /\ res[d] = start[cur[d]] + index[d]
            /\ cpc[d] = "switch" => rindex[cur[d]] = SubQueueSize
        BY <1>f DEF ConsumersOK
      <4>4. rindex'[cur[d]] >= rindex[cur[d]]
        BY <1>3, <1>6, <4>1
      <4>5. rindex[cur[d]] = SubQueueSize => rindex'[cur[d]] = rindex[cur[d]]
        BY <1>3, <1>5, <1>6, <4>1
      <4>6. rindex'[cur[d]] \in Nat
        BY <1>6, <4>1
      <4>7. index[d] <= rindex[cur[d]] => index[d] <= rindex'[cur[d]]
        BY <4>1, <4>4, <4>6
      <4> QED BY <4>2, <4>3, <4>5, <4>7
    <3> QED BY <3>1, <3>2
  <2>3. \A d \in Counting : res[d] \in 1..n
    BY <1>f DEF ConsumersOK
  <2>4. \A d \in Counting \cup {c} : res[d] \in 1..(n + 1)
    BY <1>5, <2>3
  <2>5. \A d \in Counting \cup {c}, e \in Counting \cup {c} : d # e => res[d] # res[e]
    <3>1. \A d \in Counting : res[d] # res[c]
      BY <1>5, <2>3
    <3>2. \A d \in Counting, e \in Counting : d # e => res[d] # res[e]
      BY <1>f DEF ConsumersOK
    <3> QED BY <3>1, <3>2
  <2> QED BY <1>0, <1>7, <1>9, <2>1, <2>2, <2>4, <2>5 DEF ConsumersOK
<1>13. AttachedOK'
  BY <1>0, <1>9, <1>f DEF AttachedOK
<1>14. Pending' = Pending /\ InHand' = InHand /\ InFlight' = InFlight
  BY <1>0 DEF Pending, InHand, InFlight, Exposed
<1>15. ProducerOK' /\ ItemsOK'
  BY <1>0, <1>7, <1>9, <1>14, <1>f DEF ProducerOK, ItemsOK
<1>16. CountOK(n + 1)'
  <2>1. count = (published - n) + Cardinality(Counting) + InFlight
    BY <1>f DEF CountOK
  <2>2. InFlight \in Int
    <3>1. Pending \in Int
      BY AtWpos DEF Pending
    <3> QED BY <3>1 DEF InFlight
  <2>3. count' = (published' - (n + 1)) + Cardinality(Counting') + InFlight'
    BY <1>0, <1>3, <1>9, <1>14, <2>1, <2>2
  <2> QED BY <2>3 DEF CountOK
<1> QED BY <1>5, <1>8, <1>10, <1>11, <1>12, <1>13, <1>15, <1>16 DEF Inv

\* What a step of a consumer that leaves the sub-queues alone keeps.
LEMMA ConsumerFrame ==
  ASSUME NEW n \in Nat, NEW start \in [SubQueues -> Nat], Inv(n, start),
         UNCHANGED <<list, wpos, rindex, findex, windex, cells, firstPending,
                     pendingCount, ppc, after, item, place, nextItem, published>>
  PROVE  /\ ListOK' /\ ProducerOK' /\ ItemsOK' /\ Order(n, start)'
         /\ SubQueueSize' = SubQueueSize /\ InFlight' = InFlight /\ InFlight \in Int
         /\ \A s : Exposed(s)' = Exposed(s)
         /\ \A s : Position(s)' = Position(s)
<1>f. Types /\ ListOK /\ ProducerOK /\ ItemsOK /\ Order(n, start)
  BY DEF Inv
<1>1. SubQueueSize' = SubQueueSize
  BY <1>f, NoStore
<1>2. /\ \A s : Exposed(s)' = Exposed(s)
      /\ \A s : Position(s)' = Position(s)
      /\ Pending' = Pending /\ InHand' = InHand /\ InFlight' = InFlight
  BY DEF Exposed, Position, Pending, InHand, InFlight
<1>3. InFlight \in Int
  <2>1. Pending \in Int
    BY AtWpos DEF Pending
  <2> QED BY <2>1 DEF InFlight
<1>4. ListOK' /\ Order(n, start)'
  BY <1>1, <1>2, <1>f DEF ListOK, Order, Clean, Free
<1>5. ProducerOK' /\ ItemsOK'
  BY <1>1, <1>2, <1>f DEF ProducerOK, ItemsOK
<1> QED BY <1>1, <1>2, <1>3, <1>4, <1>5

\* Pop() takes its item off the count.
LEMMA DecrementPreserves ==
  ASSUME NEW n \in Nat, NEW start \in [SubQueues -> Nat], Inv(n, start),
         NEW c \in Consumers, DecrementCount(c)
  PROVE  Inv(n, start)'
<1>f. Types /\ ListOK /\ CountOK(n) /\ ConsumersOK(n, start) /\ AttachedOK
  BY DEF Inv
<1>0. /\ UNCHANGED <<list, attached, wpos, rindex, findex, windex, cells, firstPending,
                     consumerCount, pendingCount, ppc, after, item, place, becameNotEmpty,
                     nextItem, cur, index, res, published>>
      /\ cpc[c] = "count" /\ cpc' = [cpc EXCEPT ![c] = "idle"] /\ count' = count - 1
  BY DEF DecrementCount, Goto, Set, listVars, producerVars
<1>1. /\ cpc'[c] = "idle" /\ cpc' \in [Consumers -> Cpcs]
      /\ \A d \in Consumers : d # c => cpc'[d] = cpc[d]
      /\ count' \in Int /\ count \in Int /\ published \in Nat
  <2>1. cpc \in [Consumers -> Cpcs] /\ count \in Int /\ published \in Nat
    BY <1>f DEF Types
  <2> QED BY <1>0, <2>1 DEF Cpcs
<1>2. /\ ListOK' /\ ProducerOK' /\ ItemsOK' /\ Order(n, start)'
      /\ SubQueueSize' = SubQueueSize /\ InFlight' = InFlight /\ InFlight \in Int
      /\ \A s : Exposed(s)' = Exposed(s)
      /\ \A s : Position(s)' = Position(s)
  BY <1>0, ConsumerFrame
<1>3. Types'
  BY <1>0, <1>1, <1>2, <1>f DEF Types
<1>4. /\ Attached' = Attached /\ \A t : In(t)' = In(t)
      /\ c \in Counting /\ Counting' = Counting \ {c}
      /\ Cardinality(Counting') = Cardinality(Counting) - 1
      /\ Cardinality(Counting) \in Nat
  <2>1. \A d \in Consumers : cpc'[d] # "detached" <=> cpc[d] # "detached"
    BY <1>0, <1>1
  <2>2. Attached' = Attached
    BY <2>1 DEF Attached
  <2>3. c \in Counting /\ Counting' = Counting \ {c}
    BY <1>0, <1>1 DEF Counting
  <2>4. /\ Cardinality(Counting) \in Nat
        /\ Cardinality(Counting \ {c}) = Cardinality(Counting) - 1
    BY <1>f, <2>3, InList, FS_RemoveElement
  <2> QED BY <1>0, <2>2, <2>3, <2>4 DEF In
<1>5. ConsumersOK(n, start)'
  <2>1. \A d \in Consumers :
           /\ cpc'[d] \in {"load", "exchange"} =>
                 index[d] <= rindex[cur[d]] /\ index[d] < SubQueueSize
           /\ cpc'[d] = "exchange" =>
                 index[d] < Exposed(cur[d]) /\ res[d] = start[cur[d]] + index[d]
           /\ cpc'[d] = "switch" => rindex[cur[d]] = SubQueueSize
    BY <1>1, <1>f DEF ConsumersOK
  <2>2. /\ \A d \in Counting' : res[d] \in 1..n
        /\ \A d \in Counting', e \in Counting' : d # e => res[d] # res[e]
    BY <1>4, <1>f DEF ConsumersOK
  <2>3. \A d \in Attached : /\ cur[d] \in Range(list) /\ Position(cur[d]) <= Position(wpos)
                            /\ start[cur[d]] <= n + 1
    BY <1>f DEF ConsumersOK
  <2> QED BY <1>0, <1>2, <1>4, <2>1, <2>2, <2>3 DEF ConsumersOK
<1>6. AttachedOK'
  BY <1>0, <1>4, <1>f DEF AttachedOK
<1>7. CountOK(n)'
  <2>1. count = (published - n) + Cardinality(Counting) + InFlight
    BY <1>f DEF CountOK
  <2>2. count' = (published' - n) + Cardinality(Counting') + InFlight'
    BY <1>0, <1>1, <1>2, <1>4, <2>1
  <2> QED BY <2>2 DEF CountOK
<1> QED BY <1>2, <1>3, <1>5, <1>6, <1>7 DEF Inv

\* Attach() starts at the head, before everything that is left.
LEMMA AttachPreserves ==
  ASSUME NEW n \in Nat, NEW start \in [SubQueues -> Nat], Inv(n, start),
         NEW c \in Consumers, Attach(c)
  PROVE  Inv(n, start)'
<1>f. Types /\ ListOK /\ CountOK(n) /\ ConsumersOK(n, start) /\ AttachedOK /\ Order(n, start)
  BY DEF Inv
<1> DEFINE h == Head(list)
<1>0. /\ UNCHANGED <<list, wpos, rindex, findex, windex, cells, firstPending, count,
                     pendingCount, ppc, after, item, place, becameNotEmpty,
                     nextItem, index, res, published>>
      /\ cpc[c] = "detached" /\ cpc' = [cpc EXCEPT ![c] = "idle"]
      /\ consumerCount' = consumerCount + 1 /\ cur' = [cur EXCEPT ![c] = h]
      /\ attached' = [attached EXCEPT ![h] = @ + 1]
  BY DEF Attach, Goto, Set, Add, producerVars
<1>h. /\ h = list[1] /\ h \in Range(list) /\ h \in SubQueues
      /\ Position(h) <= Position(wpos) /\ start[h] <= n + 1
  <2>1. list \in Seq(SubQueues) /\ list # <<>>
    BY <1>f DEF Types, ListOK
  <2>2. /\ 1 \in 1..Len(list) /\ list[1] \in Range(list) /\ Position(list[1]) = 1
        /\ Position(wpos) \in 1..Len(list) /\ Range(list) \subseteq SubQueues
    BY <1>f, InList
  <2>3. h = list[1]
    BY <2>1
  <2> QED BY <1>f, <2>2, <2>3 DEF Order
<1> HIDE DEF h
<1>1. /\ cpc'[c] = "idle" /\ cpc' \in [Consumers -> Cpcs]
      /\ \A d \in Consumers : d # c => cpc'[d] = cpc[d]
      /\ cur'[c] = h /\ cur' \in [Consumers -> SubQueues]
      /\ \A d \in Consumers : d # c => cur'[d] = cur[d]
      /\ consumerCount \in Int /\ consumerCount' \in Int
  <2>1. /\ cpc \in [Consumers -> Cpcs] /\ consumerCount \in Int
        /\ cur \in [Consumers -> SubQueues]
    BY <1>f DEF Types
  <2> QED BY <1>0, <1>h, <2>1 DEF Cpcs
<1>a. /\ attached \in [SubQueues -> Int] /\ attached' \in [SubQueues -> Int]
      /\ attached'[h] = attached[h] + 1
      /\ \A s \in SubQueues : s # h => attached'[s] = attached[s]
  <2>1. attached \in [SubQueues -> Int]
    BY <1>f DEF Types
  <2> QED BY <1>0, <1>h, <2>1
<1>2. /\ ListOK' /\ ProducerOK' /\ ItemsOK' /\ Order(n, start)'
      /\ SubQueueSize' = SubQueueSize /\ InFlight' = InFlight /\ InFlight \in Int
      /\ \A s : Exposed(s)' = Exposed(s)
      /\ \A s : Position(s)' = Position(s)
  BY <1>0, ConsumerFrame
<1>3. Types'
  BY <1>0, <1>1, <1>2, <1>a, <1>f DEF Types
<1>4. /\ c \notin Attached /\ Attached' = Attached \cup {c} /\ Counting' = Counting
      /\ {d \in Attached' : cur'[d] = h} = In(h) \cup {c} /\ c \notin In(h)
      /\ \A t : t # h => {d \in Attached' : cur'[d] = t} = In(t)
  <2>1. c \notin Attached /\ Attached' = Attached \cup {c} /\ Counting' = Counting
    BY <1>0, <1>1 DEF Attached, Counting
  <2>2. \A d \in Attached : d \in Consumers /\ d # c
    BY <2>1 DEF Attached
  <2>3. \A d \in Attached : cur'[d] = cur[d]
    BY <1>1, <2>2
  <2>4. ASSUME NEW t
        PROVE  {d \in Attached \cup {c} : cur'[d] = t} =
                  IF t = h THEN In(t) \cup {c} ELSE In(t)
    BY <1>1, <2>1, <2>3 DEF In
  <2> QED BY <2>1, <2>4 DEF In
<1>5. ConsumersOK(n, start)'
  <2>1. \A d \in Consumers :
           /\ cpc'[d] \in {"load", "exchange"} =>
                 index[d] <= rindex[cur'[d]] /\ index[d] < SubQueueSize
           /\ cpc'[d] = "exchange" =>
                 index[d] < Exposed(cur'[d]) /\ res[d] = start[cur'[d]] + index[d]
           /\ cpc'[d] = "switch" => rindex[cur'[d]] = SubQueueSize
    BY <1>1, <1>f DEF ConsumersOK
  <2>2. /\ \A d \in Counting : res[d] \in 1..n
        /\ \A d \in Counting, e \in Counting : d # e => res[d] # res[e]
    BY <1>f DEF ConsumersOK
  <2>3. \A d \in Attached' :
           /\ cur'[d] \in Range(list) /\ Position(cur'[d]) <= Position(wpos)
           /\ start[cur'[d]] <= n + 1
    <3>1. \A d \in Attached : d \in Consumers /\ d # c
      BY <1>4 DEF Attached
    <3> QED BY <1>1, <1>4, <1>f, <1>h, <3>1 DEF ConsumersOK
  <2>4. \A d \in Attached' : Position(cur[d])' = Position(cur'[d])
    BY <1>0 DEF Position
  <2>5. \A d \in Consumers : Exposed(cur[d])' = Exposed(cur'[d])
    BY <1>0 DEF Exposed
  <2>6. Position(wpos)' = Position(wpos)
    BY <1>0 DEF Position
  <2> QED BY <1>0, <1>2, <1>4, <2>1, <2>2, <2>3, <2>4, <2>5, <2>6 DEF ConsumersOK
<1>6. AttachedOK'
  <2>1. /\ \A s \in SubQueues : attached[s] = Cardinality(In(s))
        /\ consumerCount = Cardinality(Attached)
    BY <1>f DEF AttachedOK
  <2>2. IsFiniteSet(In(h)) /\ IsFiniteSet(Attached)
    <3>1. In(h) \in SUBSET Attached
      BY DEF In
    <3> QED BY <1>f, <3>1, InList, FS_Subset
  <2>3. /\ Cardinality(In(h) \cup {c}) = Cardinality(In(h)) + 1
        /\ Cardinality(Attached \cup {c}) = Cardinality(Attached) + 1
    BY <1>4, <2>2, FS_AddElement
  <2>4. \A s \in SubQueues : attached'[s] = Cardinality({d \in Attached' : cur'[d] = s})
    BY <1>4, <1>a, <1>h, <2>1, <2>3
  <2>5. consumerCount' = Cardinality(Attached')
    BY <1>0, <1>4, <2>1, <2>3
  <2> QED BY <2>4, <2>5 DEF AttachedOK, In
<1>7. CountOK(n)'
  BY <1>0, <1>2, <1>4, <1>f DEF CountOK
<1> QED BY <1>2, <1>3, <1>5, <1>6, <1>7 DEF Inv

\* A sub-queue that is moved to the end of the list.
MovedBack(l, s) == Append(RemoveAt(l, Place(l, s)), s)

\* The sub-queues behind it come one place closer, the others stay.
LEMMA Moved ==
  ASSUME NEW l \in Seq(SubQueues), IsInjective(l), NEW s \in Range(l)
  PROVE  /\ MovedBack(l, s) \in Seq(SubQueues) /\ IsInjective(MovedBack(l, s))
         /\ Len(MovedBack(l, s)) = Len(l)
         /\ \A i \in 1..Len(l) : MovedBack(l, s)[i] = IF i < Place(l, s) THEN l[i]
                                        ELSE IF i < Len(l) THEN l[i + 1] ELSE s
         /\ Range(MovedBack(l, s)) = Range(l)
         /\ \A t \in Range(l) : Place(MovedBack(l, s), t) = IF t = s THEN Len(l)
                                              ELSE IF Place(l, t) < Place(l, s)
                                                   THEN Place(l, t) ELSE Place(l, t) - 1
<1>n. PICK K \in Nat : K = Len(l)
  OBVIOUS
<1>k. PICK p \in 1..K : K = Len(l) /\ p = Place(l, s) /\ l[p] = s
  BY <1>n, Places
<1> DEFINE m == MovedBack(l, s)
           a == SubSeq(l, 1, p - 1)
           b == SubSeq(l, p + 1, K)
           r == a \o b
<1>0. p \in 1..K /\ K \in Nat
  OBVIOUS
<1>1. (\A i \in 1..K : l[i] \in SubQueues) /\ DOMAIN l = 1..K
  BY <1>k
<1>2. /\ a \in Seq(SubQueues) /\ Len(a) = p - 1
      /\ \A i \in 1..(p - 1) : a[i] = l[i]
  <2>1. \A i \in 1..(p - 1) : l[i] \in SubQueues
    BY <1>0, <1>1
  <2>2. /\ a \in Seq(SubQueues) /\ Len(a) = IF 1 <= p - 1 THEN (p - 1) - 1 + 1 ELSE 0
        /\ \A i \in 1..((p - 1) - 1 + 1) : a[i] = l[1 + i - 1]
    BY <1>0, <2>1, SubSeqProperties
  <2> QED BY <1>0, <2>2
<1>3. /\ b \in Seq(SubQueues) /\ Len(b) = K - p
      /\ \A i \in 1..(K - p) : b[i] = l[p + i]
  <2>1. \A i \in (p + 1)..K : l[i] \in SubQueues
    BY <1>0, <1>1
  <2>2. /\ b \in Seq(SubQueues)
        /\ Len(b) = IF p + 1 <= K THEN K - (p + 1) + 1 ELSE 0
        /\ \A i \in 1..(K - (p + 1) + 1) : b[i] = l[p + 1 + i - 1]
    BY <1>0, <2>1, SubSeqProperties
  <2>3. Len(b) = K - p
    BY <1>0, <2>2
  <2>4. ASSUME NEW i \in 1..(K - p)
        PROVE  b[i] = l[p + i]
    <3>1. i \in 1..(K - (p + 1) + 1) /\ p + 1 + i - 1 = p + i
      BY <1>0
    <3>2. b[i] = l[p + 1 + i - 1]
      BY <2>2, <3>1
    <3> QED BY <3>1, <3>2
  <2> QED BY <2>2, <2>3, <2>4
<1> HIDE DEF a, b
<1>4. /\ r \in Seq(SubQueues) /\ Len(r) = K - 1
      /\ \A i \in 1..(K - 1) : r[i] = IF i < p THEN l[i] ELSE l[i + 1]
  <2>1. /\ r \in Seq(SubQueues) /\ Len(r) = Len(a) + Len(b)
        /\ \A i \in 1..(Len(a) + Len(b)) :
              r[i] = IF i <= Len(a) THEN a[i] ELSE b[i - Len(a)]
    BY <1>2, <1>3, ConcatProperties
  <2>2. Len(a) + Len(b) = K - 1
    BY <1>0, <1>2, <1>3
  <2>3. ASSUME NEW i \in 1..(K - 1)
        PROVE  r[i] = IF i < p THEN l[i] ELSE l[i + 1]
    <3>1. CASE i < p
      BY <1>0, <1>2, <2>1, <2>2, <3>1
    <3>2. CASE ~(i < p)
      <4>1. i - (p - 1) \in 1..(K - p) /\ p + (i - (p - 1)) = i + 1
        BY <1>0, <3>2
      <4>2. r[i] = b[i - (p - 1)]
        BY <1>0, <1>2, <2>1, <2>2, <3>2
      <4> QED BY <1>3, <3>2, <4>1, <4>2
    <3> QED BY <3>1, <3>2
  <2> QED BY <2>1, <2>2, <2>3
<1> HIDE DEF r
<1>5. m = Append(r, s)
  BY <1>k DEF r, a, b, RemoveAt, MovedBack
<1> HIDE DEF m
<1>6. /\ m \in Seq(SubQueues) /\ Len(m) = K /\ DOMAIN m = 1..K
      /\ \A i \in 1..K : m[i] = IF i < p THEN l[i]
                                     ELSE IF i < K THEN l[i + 1] ELSE s
  <2>1. /\ m \in Seq(SubQueues) /\ Len(m) = Len(r) + 1
        /\ \A i \in 1..Len(r) : m[i] = r[i]
        /\ m[Len(r) + 1] = s
    <3>1. s \in SubQueues /\ r \in Seq(SubQueues)
      BY <1>1, <1>4, <1>k
    <3> QED BY <1>5, <3>1
  <2>2. ASSUME NEW i \in 1..K
        PROVE  m[i] = IF i < p THEN l[i] ELSE IF i < K THEN l[i + 1] ELSE s
    <3>1. CASE i < K
      <4>1. i \in 1..(K - 1)
        BY <1>0, <3>1
      <4> QED BY <1>4, <2>1, <3>1, <4>1
    <3>2. CASE i = K
      BY <1>0, <1>4, <2>1, <3>2
    <3>3. i < K \/ i = K
      BY <1>0
    <3> QED BY <3>1, <3>2, <3>3
  <2>3. Len(m) = K
    BY <1>0, <1>4, <2>1
  <2> QED BY <2>1, <2>2, <2>3
\* Where a sub-queue goes, and where one comes from.
<1> DEFINE to(i) == IF i = p THEN K ELSE IF i < p THEN i ELSE i - 1
           from(i) == IF i < p THEN i ELSE IF i < K THEN i + 1 ELSE p
<1>7. \A i \in 1..K : /\ to(i) \in 1..K /\ from(i) \in 1..K
                           /\ m[to(i)] = l[i] /\ m[i] = l[from(i)]
                           /\ to(from(i)) = i
  <2>1. ASSUME NEW i \in 1..K
        PROVE  to(i) \in 1..K /\ from(i) \in 1..K /\ to(from(i)) = i
    BY <1>0
  <2>2. ASSUME NEW i \in 1..K
        PROVE  m[i] = l[from(i)]
    <3>1. \/ i < p /\ from(i) = i
          \/ ~(i < p) /\ i < K /\ from(i) = i + 1
          \/ ~(i < p) /\ ~(i < K) /\ from(i) = p
      BY <1>0
    <3> HIDE DEF from
    <3> QED BY <1>6, <1>k, <3>1
  <2>3. ASSUME NEW i \in 1..K
        PROVE  m[to(i)] = l[i]
    <3>1. \/ i = p /\ to(i) = K
          \/ i < p /\ to(i) = i
          \/ i > p /\ to(i) = i - 1
      BY <1>0
    <3>2. \A j \in 1..K : m[j] = IF j < p THEN l[j] ELSE IF j < K THEN l[j + 1] ELSE s
      BY <1>6
    <3>3. CASE i = p /\ to(i) = K
      <4>1. K \in 1..K /\ ~(K < p) /\ ~(K < K)
        BY <1>0
      <4>2. m[K] = s
        BY <3>2, <4>1
      <4> HIDE DEF to
      <4> QED BY <1>k, <3>3, <4>2
    <3>4. CASE i < p /\ to(i) = i
      <4>1. m[i] = l[i]
        BY <3>2, <3>4
      <4> HIDE DEF to
      <4> QED BY <3>4, <4>1
    <3>5. CASE i > p /\ to(i) = i - 1
      <4>1. i - 1 \in 1..K /\ i - 1 < K /\ ~(i - 1 < p) /\ (i - 1) + 1 = i
        BY <1>0, <3>5
      <4>2. m[i - 1] = l[i]
        BY <3>2, <4>1
      <4> HIDE DEF to
      <4> QED BY <3>5, <4>2
    <3> HIDE DEF to
    <3> QED BY <3>1, <3>3, <3>4, <3>5
  <2> QED BY <2>1, <2>2, <2>3
<1> HIDE DEF from, to
<1>8. IsInjective(m)
  <2>1. ASSUME NEW i \in 1..K, NEW j \in 1..K, m[i] = m[j]
        PROVE  i = j
    <3>1. from(i) = from(j)
      <4>1. l[from(i)] = l[from(j)] /\ from(i) \in DOMAIN l /\ from(j) \in DOMAIN l
        BY <1>1, <1>7, <2>1
      <4> QED BY <4>1 DEF IsInjective
    <3> QED BY <1>7, <3>1
  <2> QED BY <1>6, <2>1 DEF IsInjective
<1>9. Range(m) = Range(l)
  <2>1. \A i \in DOMAIN m : m[i] \in Range(l)
    BY <1>0, <1>1, <1>6, <1>7 DEF Range
  <2>2. \A i \in DOMAIN l : l[i] \in Range(m)
    BY <1>0, <1>1, <1>6, <1>7 DEF Range
  <2>3. Range(m) \subseteq Range(l)
    BY <2>1 DEF Range
  <2>4. Range(l) \subseteq Range(m)
    BY <2>2 DEF Range
  <2> QED BY <2>3, <2>4
<1>10. ASSUME NEW t \in Range(l)
       PROVE  Place(m, t) = to(Place(l, t))
  <2>1. Place(l, t) \in 1..K /\ l[Place(l, t)] = t
    BY <1>k, Places
  <2>2. to(Place(l, t)) \in 1..Len(m) /\ m[to(Place(l, t))] = t
    BY <1>6, <1>7, <2>1
  <2> QED BY <1>6, <1>8, <2>2, Places
<1>11. ASSUME NEW t \in Range(l)
       PROVE  t = s <=> Place(l, t) = p
  <2>1. Place(l, t) \in 1..K /\ l[Place(l, t)] = t
    BY <1>k, Places
  <2> QED BY <1>0, <1>k, <2>1, Places
<1>12. \A t \in Range(l) : Place(m, t) = IF t = s THEN K
                                         ELSE IF Place(l, t) < p
                                              THEN Place(l, t) ELSE Place(l, t) - 1
  BY <1>10, <1>11 DEF to
<1> QED BY <1>6, <1>8, <1>9, <1>12, <1>k DEF m

\* What a consumer that leaves a sub-queue keeps: when the sub-queue is moved to the
\* end of the list, everything in it has been taken, and nobody else is there.
LEMMA LeaveKeeps ==
  ASSUME NEW n \in Nat, NEW start \in [SubQueues -> Nat], Inv(n, start),
         NEW s \in Range(list), Position(s) <= Position(wpos), Leave(s),
         UNCHANGED <<wpos, firstPending, pendingCount, ppc, after, item, place,
                     nextItem, published>>
  PROVE  /\ ListOK' /\ ProducerOK' /\ ItemsOK' /\ Order(n, start)'
         /\ SubQueueSize' = SubQueueSize /\ InFlight' = InFlight /\ InFlight \in Int
         /\ list' \in Seq(SubQueues)
         /\ rindex' \in [SubQueues -> Nat] /\ findex' \in [SubQueues -> Nat]
         /\ windex' \in [SubQueues -> Nat]
         /\ cells' \in [SubQueues -> [0..SubQueueSize -> Garbage..MaxItems]]
         /\ \A t \in Range(list) :
               Position(t) <= Position(wpos) /\ (t # s \/ ~Recyclable(s)) =>
                  /\ t \in Range(list') /\ Position(t)' <= Position(wpos)'
                  /\ rindex'[t] = rindex[t] /\ Exposed(t)' = Exposed(t)
<1>f. Types /\ ListOK /\ ProducerOK /\ ItemsOK /\ Order(n, start)
  BY DEF Inv
<1>t. /\ list \in Seq(SubQueues)
      /\ rindex \in [SubQueues -> Nat] /\ findex \in [SubQueues -> Nat]
      /\ windex \in [SubQueues -> Nat] /\ wpos \in SubQueues
      /\ SubQueueSize \in Nat \ {0} /\ published \in Nat
  BY <1>f DEF Types
<1>c. cells \in [SubQueues -> [0..SubQueueSize -> Garbage..MaxItems]]
  BY <1>f DEF Types
<1>1. CASE ~Recyclable(s)
  <2>1. UNCHANGED <<list, rindex, findex, windex, cells>>
    BY <1>1 DEF Leave
  <2>2. /\ ListOK' /\ ProducerOK' /\ ItemsOK' /\ Order(n, start)'
        /\ SubQueueSize' = SubQueueSize /\ InFlight' = InFlight /\ InFlight \in Int
        /\ \A t : Exposed(t)' = Exposed(t)
        /\ \A t : Position(t)' = Position(t)
    BY <2>1, ConsumerFrame
  <2> QED BY <1>c, <1>t, <2>1, <2>2
<1>2. CASE Recyclable(s)
  <2>0. /\ s # wpos /\ rindex[s] = SubQueueSize /\ s \in SubQueues
        /\ list' = Append(RemoveAt(list, Position(s)), s)
        /\ rindex' = [rindex EXCEPT ![s] = 0] /\ findex' = [findex EXCEPT ![s] = 0]
        /\ windex' = [windex EXCEPT ![s] = 0]
        /\ cells' = [cells EXCEPT ![s] = [cells[s] EXCEPT ![0] = Null]]
    <3>1. s \in SubQueues
      BY <1>f, InList
    <3> QED BY <1>2, <3>1 DEF Leave, Recyclable, Set
  <2>1. /\ rindex' \in [SubQueues -> Nat] /\ findex' \in [SubQueues -> Nat]
        /\ windex' \in [SubQueues -> Nat]
        /\ rindex'[s] = 0 /\ findex'[s] = 0 /\ windex'[s] = 0
        /\ \A t \in SubQueues : t # s =>
              rindex'[t] = rindex[t] /\ findex'[t] = findex[t] /\ windex'[t] = windex[t]
    BY <1>t, <2>0
  <2>2. /\ cells' \in [SubQueues -> [0..SubQueueSize -> Garbage..MaxItems]]
        /\ cells'[s][0] = Null
        /\ \A t \in SubQueues : t # s => cells'[t] = cells[t]
    <3>1. Null \in Garbage..MaxItems /\ 0 \in 0..SubQueueSize
      BY <1>t, QueueAssumption DEF Null, Garbage
    <3>2. /\ [cells[s] EXCEPT ![0] = Null] \in [0..SubQueueSize -> Garbage..MaxItems]
          /\ [cells[s] EXCEPT ![0] = Null][0] = Null
      <4>1. cells[s] \in [0..SubQueueSize -> Garbage..MaxItems]
        BY <1>c, <2>0
      <4> QED BY <3>1, <4>1
    <3>3. cells' \in [SubQueues -> [0..SubQueueSize -> Garbage..MaxItems]]
      BY <1>c, <2>0, <3>2
    <3>4. cells'[s] = [cells[s] EXCEPT ![0] = Null]
          /\ \A t \in SubQueues : t # s => cells'[t] = cells[t]
      BY <1>c, <2>0
    <3> QED BY <3>2, <3>3, <3>4
  <2>3. SubQueueSize' = SubQueueSize
    BY <1>f, <2>2, SizeStays
  <2>n. PICK L \in Nat : L = Len(list) /\ L >= 1
    BY <1>f, InList
  <2>p. PICK p \in 1..L : p = Position(s) /\ list[p] = s
    BY <1>f, <2>n, InList
  <2>w. PICK w \in 1..L : w = Position(wpos) /\ list[w] = wpos
    BY <1>f, <2>n, InList
  <2>4. /\ Range(list) \subseteq SubQueues /\ wpos \in Range(list)
        /\ \A t \in Range(list) : Position(t) \in 1..L /\ list[Position(t)] = t
        /\ \A i \in 1..L : list[i] \in Range(list) /\ Position(list[i]) = i
    BY <1>f, <2>n, InList
  <2>5. p < w
    BY <2>0, <2>p, <2>w
  <2>6. /\ list' \in Seq(SubQueues) /\ IsInjective(list') /\ Len(list') = L
        /\ \A i \in 1..L : list'[i] = IF i < p THEN list[i]
                                      ELSE IF i < L THEN list[i + 1] ELSE s
        /\ Range(list') = Range(list)
        /\ \A t \in Range(list) : Position(t)' = IF t = s THEN L
                                                 ELSE IF Position(t) < p
                                                      THEN Position(t)
                                                 ELSE Position(t) - 1
    <3>1. IsInjective(list) /\ p = Place(list, s) /\ list' = MovedBack(list, s)
      BY <1>f, <2>0, <2>p, Positions DEF ListOK, MovedBack
    <3>2. /\ list' \in Seq(SubQueues) /\ IsInjective(list') /\ Len(list') = Len(list)
          /\ \A i \in 1..Len(list) :
                list'[i] = IF i < Place(list, s) THEN list[i]
                           ELSE IF i < Len(list) THEN list[i + 1] ELSE s
          /\ Range(list') = Range(list)
          /\ \A t \in Range(list) :
                Place(list', t) = IF t = s THEN Len(list)
                                  ELSE IF Place(list, t) < Place(list, s)
                                       THEN Place(list, t) ELSE Place(list, t) - 1
      <4>1. list \in Seq(SubQueues)
        BY <1>t
      <4> QED BY <3>1, <4>1, Moved
    <3>3. \A t : Place(list', t) = Position(t)' /\ Place(list, t) = Position(t)
      BY Positions
    <3> QED BY <2>n, <3>1, <3>2, <3>3
  <2>7. Position(wpos)' = w - 1 /\ w - 1 \in Nat /\ w - 1 < L
    <3>1. Position(wpos)' = Place(list', wpos)
      BY Positions
    <3>2. Place(list', wpos) = w - 1
      <4>1. Place(list', wpos) = IF wpos = s THEN L
                                 ELSE IF Position(wpos) < p THEN Position(wpos)
                                 ELSE Position(wpos) - 1
        BY <2>4, <2>6, Positions
      <4> QED BY <2>0, <2>5, <2>w, <4>1
    <3> QED BY <2>5, <3>1, <3>2
  <2>8. ASSUME NEW t \in Range(list), t # s
        PROVE  /\ Position(t)' < w - 1 => Position(t) < w
               /\ Position(t)' > w - 1 => Position(t) > w
               /\ Position(t)' <= w - 1 <=> Position(t) <= w
    <3>1. Position(t) \in 1..L /\ Position(t) # p
      BY <2>4, <2>8, <2>p
    <3>2. Position(t)' = IF Position(t) < p THEN Position(t) ELSE Position(t) - 1
      BY <2>6, <2>8
    <3> QED BY <2>5, <3>1, <3>2
  <2>9. Free' = Free
    BY <2>6 DEF Free
  <2>10. ListOK'
    <3>1. Clean(s)'
      BY <2>1, <2>2 DEF Clean
    <3>2. ASSUME NEW t \in SubQueues, t # s
          PROVE  Clean(t)' = Clean(t)
      BY <2>1, <2>2, <3>2 DEF Clean
    <3>3. \A t \in Free : Clean(t)'
      <4>1. \A t \in Free : t # s /\ t \in SubQueues
        BY DEF Free
      <4> QED BY <1>f, <3>2, <4>1 DEF ListOK
    <3>4. ASSUME NEW t \in Range(list)
          PROVE  /\ Position(t)' < Position(wpos)' =>
                       findex'[t] = SubQueueSize' /\ windex'[t] = SubQueueSize'
                 /\ Position(t)' > Position(wpos)' => Clean(t)'
      <4>1. CASE t = s
        <5>1. Position(t)' = L
          BY <2>6, <4>1
        <5> QED BY <2>7, <3>1, <4>1, <5>1
      <4>2. CASE t # s
        <5>1. t \in SubQueues
          BY <2>4
        <5>2. /\ Position(t) < Position(wpos) =>
                    findex[t] = SubQueueSize /\ windex[t] = SubQueueSize
              /\ Position(t) > Position(wpos) => Clean(t)
          BY <1>f DEF ListOK
        <5> QED BY <2>1, <2>3, <2>7, <2>8, <2>w, <3>2, <4>2, <5>1, <5>2
      <4> QED BY <4>1, <4>2
    <3>5. list' # <<>>
      BY <2>6, <2>n
    <3>6. \A t \in SubQueues \ {wpos'} : firstPending'[t] = Null
      BY <1>f DEF ListOK
    <3> QED BY <2>4, <2>6, <2>9, <3>3, <3>4, <3>5, <3>6 DEF ListOK
  <2>11. \A t \in SubQueues : t # s => Exposed(t)' = Exposed(t)
    BY <2>1 DEF Exposed
  <2>e. Exposed(wpos)' = Exposed(wpos) /\ Pending' = Pending
    <3>1. windex'[wpos] = windex[wpos] /\ findex'[wpos] = findex[wpos]
      BY <1>t, <2>0, <2>1
    <3> QED BY <3>1 DEF Exposed, Pending
  <2>12. ASSUME NEW t \in Range(list), Position(t) <= Position(wpos), t # s
         PROVE  /\ t \in Range(list') /\ Position(t)' <= Position(wpos)'
                /\ rindex'[t] = rindex[t] /\ Exposed(t)' = Exposed(t)
    <3>1. t \in SubQueues
      BY <2>4
    <3>2. rindex'[t] = rindex[t]
      BY <2>1, <2>12, <3>1
    <3>3. Exposed(t)' = Exposed(t)
      BY <2>11, <2>12, <3>1
    <3>4. t \in Range(list') /\ Position(t)' <= Position(wpos)'
      BY <2>6, <2>7, <2>8, <2>12, <2>w
    <3> QED BY <3>2, <3>3, <3>4
  <2>13. Order(n, start)'
    <3>1. ASSUME NEW t \in Range(list'), Position(t)' <= Position(wpos)'
          PROVE  /\ start[t] >= 1
                 /\ \A k \in 0..SubQueueSize' : k < Exposed(t)' => cells'[t][k] = start[t] + k
                 /\ rindex'[t] = IF n < start[t] THEN 0
                                 ELSE IF n + 1 - start[t] >= SubQueueSize' THEN SubQueueSize'
                                 ELSE n + 1 - start[t]
      <4>1. t \in Range(list) /\ t # s
        <5>1. s \in Range(list) /\ Position(s)' = L
          BY <2>6
        <5>2. t = s => Position(t)' = L
          BY <2>6, <3>1
        <5> QED BY <2>6, <2>7, <3>1, <5>2
      <4>2. Position(t) <= Position(wpos) /\ t \in SubQueues
        BY <2>4, <2>7, <2>8, <2>w, <3>1, <4>1
      <4>3. /\ start[t] >= 1
            /\ \A k \in 0..SubQueueSize : k < Exposed(t) => cells[t][k] = start[t] + k
            /\ rindex[t] = IF n < start[t] THEN 0
                           ELSE IF n + 1 - start[t] >= SubQueueSize THEN SubQueueSize
                           ELSE n + 1 - start[t]
        BY <1>f, <4>1, <4>2 DEF Order
      <4> QED BY <2>1, <2>2, <2>3, <2>11, <4>1, <4>2, <4>3
    <3>2. start[s] + SubQueueSize <= n + 1 /\ start[s] \in Nat
      <4>1. /\ start[s] \in Nat
            /\ rindex[s] = IF n < start[s] THEN 0
                           ELSE IF n + 1 - start[s] >= SubQueueSize THEN SubQueueSize
                           ELSE n + 1 - start[s]
        BY Reached
      <4> QED BY <1>t, <2>0, <4>1
    <3>3. \A i \in 1..w : list[i] \in SubQueues /\ start[list[i]] \in Nat
      <4>1. \A i \in 1..w : i \in 1..L
        OBVIOUS
      <4> QED BY <2>4, <4>1
    <3>4. start[list[p + 1]] <= n + 1
      <4>1. p \in 1..w /\ p + 1 \in 1..w
        BY <2>5
      <4>2. start[list[p + 1]] = start[list[p]] + SubQueueSize \/ start[list[p + 1]] <= n + 1
        BY <1>f, <2>w, <4>1 DEF Order
      <4> QED BY <2>p, <3>2, <4>2
    <3>5. \A i \in 1..(w - 1) : \/ i < p /\ i \in 1..w /\ list'[i] = list[i]
                                \/ p <= i /\ i + 1 \in 1..w /\ list'[i] = list[i + 1]
      <4>1. \A i \in 1..(w - 1) : i \in 1..L /\ i < L /\ i \in 1..w /\ i + 1 \in 1..w
        OBVIOUS
      <4>2. \A i \in 1..(w - 1) : i < p \/ (p <= i /\ ~(i < p))
        OBVIOUS
      <4> QED BY <2>6, <4>1, <4>2
    <3>g. ASSUME NEW i \in 1..(w - 1)
          PROVE  \E a \in 1..w :
                    list'[i] = list[a] /\ ((a = i /\ i < p) \/ (a = i + 1 /\ p <= i))
      <4>1. CASE i < p /\ i \in 1..w /\ list'[i] = list[i]
        BY <4>1
      <4>2. CASE p <= i /\ i + 1 \in 1..w /\ list'[i] = list[i + 1]
        BY <4>2
      <4> QED BY <3>5, <4>1, <4>2
    <3>6. start[list'[1]] <= n + 1
      <4>1. 1 \in 1..(w - 1)
        BY <2>5
      <4>2. CASE 1 < p
        <5>1. list'[1] = list[1]
          BY <3>5, <4>1, <4>2
        <5> QED BY <1>f, <5>1 DEF Order
      <4>3. CASE p = 1
        <5>1. list'[1] = list[p + 1]
          BY <3>5, <4>1, <4>3
        <5> QED BY <3>4, <5>1
      <4> QED BY <4>2, <4>3
    <3>o. /\ \A i \in 1..w, j \in 1..w :
                i < j => start[list[i]] + SubQueueSize <= start[list[j]]
          /\ \A i \in 1..w, j \in 1..w :
                j = i + 1 => \/ start[list[j]] = start[list[i]] + SubQueueSize
                             \/ start[list[j]] <= n + 1
      BY <1>f, <2>w DEF Order
    <3>7. ASSUME NEW i \in 1..(w - 1), NEW j \in 1..(w - 1), i < j
          PROVE  start[list'[i]] + SubQueueSize <= start[list'[j]]
      <4>1. PICK a \in 1..w : list'[i] = list[a] /\ ((a = i /\ i < p) \/ (a = i + 1 /\ p <= i))
        BY <3>g
      <4>2. PICK b \in 1..w : list'[j] = list[b] /\ ((b = j /\ j < p) \/ (b = j + 1 /\ p <= j))
        BY <3>g
      <4>3. a < b
        BY <3>7, <4>1, <4>2
      <4> QED BY <3>o, <4>1, <4>2, <4>3
    <3>8. ASSUME NEW i \in 1..(w - 1), NEW j \in 1..(w - 1), j = i + 1
          PROVE  \/ start[list'[j]] = start[list'[i]] + SubQueueSize
                 \/ start[list'[j]] <= n + 1
      <4>1. PICK a \in 1..w : list'[i] = list[a] /\ ((a = i /\ i < p) \/ (a = i + 1 /\ p <= i))
        BY <3>g
      <4>2. PICK b \in 1..w : list'[j] = list[b] /\ ((b = j /\ j < p) \/ (b = j + 1 /\ p <= j))
        BY <3>g
      <4>3. b = a + 1 \/ b = p + 1
        BY <3>8, <4>1, <4>2
      <4> QED BY <3>4, <3>o, <4>1, <4>2, <4>3
    <3>9. n <= published' /\ start[wpos'] + Exposed(wpos)' = published' + 1
      BY <1>f, <2>e DEF Order
    <3>10. /\ \A i \in 1..Position(wpos)', j \in 1..Position(wpos)' :
                 i < j => start[list'[i]] + SubQueueSize' <= start[list'[j]]
           /\ \A i \in 1..Position(wpos)', j \in 1..Position(wpos)' :
                 j = i + 1 => \/ start[list'[j]] = start[list'[i]] + SubQueueSize'
                              \/ start[list'[j]] <= n + 1
      BY <2>3, <2>7, <3>7, <3>8
    <3> QED BY <3>1, <3>6, <3>9, <3>10 DEF Order
  <2>14. ProducerOK'
    <3>1. /\ windex'[wpos] = windex[wpos] /\ findex'[wpos] = findex[wpos]
          /\ cells'[wpos] = cells[wpos]
      BY <1>t, <2>0, <2>1, <2>2
    <3> QED BY <1>f, <2>3, <2>e, <3>1 DEF ProducerOK, InHand
  <2>15. ItemsOK' /\ InFlight' = InFlight
    BY <1>f, <2>e DEF ItemsOK, InFlight, InHand
  <2>16. InFlight \in Int
    <3>1. Pending \in Int
      BY AtWpos DEF Pending
    <3> QED BY <3>1 DEF InFlight
  <2> QED BY <1>2, <2>1, <2>2, <2>3, <2>6, <2>10, <2>12, <2>13, <2>14, <2>15, <2>16
<1> QED BY <1>1, <1>2

\* A consumer that leaves a sub-queue that can be moved is the only one in it.
LEMMA Alone ==
  ASSUME Types, ListOK, AttachedOK, NEW c \in Attached, NEW s \in SubQueues, s = cur[c],
         Recyclable(s)
  PROVE  \A d \in Attached : cur[d] = s => d = c
<1>1. Cardinality(In(s)) = 1
  BY DEF AttachedOK, Recyclable
<1>2. IsFiniteSet(In(s)) /\ c \in In(s)
  <2>1. In(s) \in SUBSET Attached /\ c \in In(s)
    BY DEF In
  <2> QED BY <2>1, InList, FS_Subset
<1>3. In(s) \ {c} = {}
  <2>1. IsFiniteSet(In(s) \ {c}) /\ Cardinality(In(s) \ {c}) = Cardinality(In(s)) - 1
    BY <1>2, FS_RemoveElement
  <2> QED BY <1>1, <2>1, FS_EmptySet
<1> QED BY <1>3 DEF In

\* The other consumers do not notice it.
LEMMA ConsumersStay ==
  ASSUME NEW n \in Nat, NEW start \in [SubQueues -> Nat], Inv(n, start),
         NEW c \in Attached, Leave(cur[c]),
         UNCHANGED <<wpos, firstPending, pendingCount, ppc, after, item, place,
                     nextItem, published, index, res>>,
         cpc' \in [Consumers -> Cpcs], cur' \in [Consumers -> SubQueues],
         \A d \in Consumers : d # c => cpc'[d] = cpc[d] /\ cur'[d] = cur[d],
         cpc[c] # "count", cpc'[c] \in {"detached", "again"},
         cpc'[c] = "again" =>
            /\ cur'[c] \in Range(list) /\ cur'[c] # cur[c]
            /\ Position(cur'[c]) <= Position(wpos) /\ start[cur'[c]] <= n + 1
  PROVE  ConsumersOK(n, start)' /\ Counting' = Counting
<1>f. Types /\ ListOK /\ AttachedOK /\ ConsumersOK(n, start)
  BY DEF Inv
<1>1. PICK s \in Range(list) : s = cur[c] /\ Position(s) <= Position(wpos) /\ s \in SubQueues
  BY <1>f, InList DEF ConsumersOK
<1>2. Leave(s)
  BY <1>1
<1>3. /\ SubQueueSize' = SubQueueSize
      /\ \A t \in Range(list) :
            Position(t) <= Position(wpos) /\ (t # s \/ ~Recyclable(s)) =>
               /\ t \in Range(list') /\ Position(t)' <= Position(wpos)'
               /\ rindex'[t] = rindex[t] /\ Exposed(t)' = Exposed(t)
  BY <1>1, <1>2, LeaveKeeps
<1>4. Counting' = Counting
  <2>1. \A d \in Consumers : cpc'[d] = "count" <=> cpc[d] = "count"
    OBVIOUS
  <2> QED BY <2>1 DEF Counting
<1>5. ASSUME NEW d \in Attached'
      PROVE  \E t \in Range(list) :
                /\ cur'[d] = t /\ Position(t) <= Position(wpos) /\ start[t] <= n + 1
                /\ t # s \/ ~Recyclable(s)
  <2>0. d \in Consumers
    BY <1>5 DEF Attached
  <2>1. CASE d = c
    <3>1. cpc'[c] = "again"
      BY <1>5, <2>1 DEF Attached
    <3> QED BY <1>1, <2>1, <3>1
  <2>2. CASE d # c
    <3>1. d \in Attached /\ cur'[d] = cur[d]
      BY <1>5, <2>0, <2>2 DEF Attached
    <3>2. /\ cur[d] \in Range(list) /\ Position(cur[d]) <= Position(wpos)
          /\ start[cur[d]] <= n + 1
      BY <1>f, <3>1 DEF ConsumersOK
    <3>3. cur[d] # s \/ ~Recyclable(s)
      BY <1>1, <1>f, <2>2, <3>1, Alone
    <3> QED BY <3>1, <3>2, <3>3
  <2> QED BY <2>1, <2>2
<1>6. ASSUME NEW d \in Attached'
      PROVE  \E t \in Range(list') :
                /\ cur'[d] = t /\ Position(t)' <= Position(wpos)' /\ start[t] <= n + 1
                /\ rindex'[t] = rindex[t] /\ Exposed(t)' = Exposed(t)
  BY <1>3, <1>5
<1>7. ASSUME NEW d \in Attached'
      PROVE  /\ cur'[d] \in Range(list') /\ Position(cur[d])' <= Position(wpos)'
             /\ start[cur'[d]] <= n + 1
  <2>1. PICK t \in Range(list') :
           cur'[d] = t /\ Position(t)' <= Position(wpos)' /\ start[t] <= n + 1
    BY <1>6
  <2>2. Position(cur[d])' = Position(t)'
    BY <2>1 DEF Position
  <2> QED BY <2>1, <2>2
<1>8. ASSUME NEW d \in Consumers
      PROVE  /\ cpc'[d] \in {"load", "exchange"} =>
                   index'[d] <= rindex'[cur'[d]] /\ index'[d] < SubQueueSize'
             /\ cpc'[d] = "exchange" =>
                   index'[d] < Exposed(cur[d])' /\ res'[d] = start[cur'[d]] + index'[d]
             /\ cpc'[d] = "switch" => rindex'[cur'[d]] = SubQueueSize'
  <2>1. CASE cpc'[d] \in {"load", "exchange", "switch"}
    <3>1. d # c /\ cpc'[d] = cpc[d] /\ cur'[d] = cur[d] /\ d \in Attached'
      BY <2>1 DEF Attached
    <3>2. PICK t \in Range(list') :
             cur'[d] = t /\ rindex'[t] = rindex[t] /\ Exposed(t)' = Exposed(t)
      BY <1>6, <3>1
    <3>3. Exposed(cur[d])' = Exposed(t)'
      BY <3>2 DEF Exposed
    <3>4. /\ cpc[d] \in {"load", "exchange"} =>
                index[d] <= rindex[cur[d]] /\ index[d] < SubQueueSize
          /\ cpc[d] = "exchange" =>
                index[d] < Exposed(cur[d]) /\ res[d] = start[cur[d]] + index[d]
          /\ cpc[d] = "switch" => rindex[cur[d]] = SubQueueSize
      BY <1>f DEF ConsumersOK
    <3>5. cur[d] = t /\ index'[d] = index[d] /\ res'[d] = res[d]
      BY <3>1, <3>2
    <3> QED BY <1>3, <3>1, <3>2, <3>3, <3>4, <3>5
  <2>2. CASE cpc'[d] \notin {"load", "exchange", "switch"}
    BY <2>2
  <2> QED BY <2>1, <2>2
<1>9. /\ \A d \in Counting : res[d] \in 1..n
      /\ \A d \in Counting, e \in Counting : d # e => res[d] # res[e]
  BY <1>f DEF ConsumersOK
<1> QED BY <1>4, <1>7, <1>8, <1>9 DEF ConsumersOK

\* Detach(), and the sub-queue moved to the end of the list if it can be.
LEMMA DetachPreserves ==
  ASSUME NEW n \in Nat, NEW start \in [SubQueues -> Nat], Inv(n, start),
         NEW c \in Consumers, Detach(c)
  PROVE  Inv(n, start)'
<1>f. Types /\ ListOK /\ CountOK(n) /\ ConsumersOK(n, start) /\ AttachedOK
  BY DEF Inv
<1>0. /\ UNCHANGED <<wpos, firstPending, count, pendingCount, ppc, after, item, place,
                     becameNotEmpty, nextItem, cur, index, res, published>>
      /\ cpc[c] \in {"idle", "nothing"} /\ cpc' = [cpc EXCEPT ![c] = "detached"]
      /\ consumerCount' = consumerCount - 1 /\ Leave(cur[c])
      /\ attached' = [attached EXCEPT ![cur[c]] = @ + -1]
  BY DEF Detach, Goto, Set, Add, producerVars
<1>1. /\ cpc'[c] = "detached" /\ cpc' \in [Consumers -> Cpcs]
      /\ \A d \in Consumers : d # c => cpc'[d] = cpc[d]
      /\ cur \in [Consumers -> SubQueues]
      /\ consumerCount \in Int /\ consumerCount' \in Int
  <2>1. /\ cpc \in [Consumers -> Cpcs] /\ consumerCount \in Int
        /\ cur \in [Consumers -> SubQueues]
    BY <1>f DEF Types
  <2> QED BY <1>0, <2>1 DEF Cpcs
<1>2. c \in Attached
  BY <1>0 DEF Attached
<1>3. PICK s \in Range(list) : s = cur[c] /\ Position(s) <= Position(wpos) /\ s \in SubQueues
  BY <1>2, <1>f, InList DEF ConsumersOK
<1>a. /\ attached \in [SubQueues -> Int] /\ attached' \in [SubQueues -> Int]
      /\ attached'[s] = attached[s] - 1
      /\ \A t \in SubQueues : t # s => attached'[t] = attached[t]
  <2>1. attached \in [SubQueues -> Int]
    BY <1>f DEF Types
  <2>2. attached' = [attached EXCEPT ![s] = @ + -1]
    BY <1>0, <1>3
  <2> QED BY <1>3, <2>1, <2>2
<1>4. /\ ListOK' /\ ProducerOK' /\ ItemsOK' /\ Order(n, start)'
      /\ SubQueueSize' = SubQueueSize /\ InFlight' = InFlight /\ InFlight \in Int
      /\ list' \in Seq(SubQueues)
      /\ rindex' \in [SubQueues -> Nat] /\ findex' \in [SubQueues -> Nat]
      /\ windex' \in [SubQueues -> Nat]
      /\ cells' \in [SubQueues -> [0..SubQueueSize -> Garbage..MaxItems]]
  <2>1. Leave(s)
    BY <1>0, <1>3
  <2> QED BY <1>0, <1>3, <2>1, LeaveKeeps
<1>5. Types'
  BY <1>0, <1>1, <1>4, <1>a, <1>f DEF Types
<1>6. ConsumersOK(n, start)' /\ Counting' = Counting
  BY <1>0, <1>1, <1>2, ConsumersStay
<1>7. AttachedOK'
  <2>1. Attached' = Attached \ {c}
    BY <1>1 DEF Attached
  <2>2. /\ {d \in Attached' : cur'[d] = s} = In(s) \ {c} /\ c \in In(s)
        /\ \A t : t # s => {d \in Attached' : cur'[d] = t} = In(t)
    BY <1>0, <1>2, <1>3, <2>1 DEF In
  <2>3. IsFiniteSet(In(s)) /\ IsFiniteSet(Attached)
    <3>1. In(s) \in SUBSET Attached
      BY DEF In
    <3> QED BY <1>f, <3>1, InList, FS_Subset
  <2>4. /\ Cardinality(In(s) \ {c}) = Cardinality(In(s)) - 1
        /\ Cardinality(Attached \ {c}) = Cardinality(Attached) - 1
    BY <1>2, <2>2, <2>3, FS_RemoveElement
  <2>5. /\ \A t \in SubQueues : attached[t] = Cardinality(In(t))
        /\ consumerCount = Cardinality(Attached)
    BY <1>f DEF AttachedOK
  <2>6. \A t \in SubQueues : attached'[t] = Cardinality({d \in Attached' : cur'[d] = t})
    BY <1>3, <1>a, <2>2, <2>4, <2>5
  <2>7. consumerCount' = Cardinality(Attached')
    BY <1>0, <2>1, <2>4, <2>5
  <2> QED BY <2>6, <2>7 DEF AttachedOK, In
<1>8. CountOK(n)'
  BY <1>0, <1>4, <1>6, <1>f DEF CountOK
<1> QED BY <1>4, <1>5, <1>6, <1>7, <1>8 DEF Inv

\* A consumer that has read its sub-queue up goes on to the next one.
LEMMA SwitchPreserves ==
  ASSUME NEW n \in Nat, NEW start \in [SubQueues -> Nat], Inv(n, start),
         NEW c \in Consumers, SwitchSubQueue(c), cur[c] # wpos
  PROVE  Inv(n, start)'
<1>f. /\ Types /\ ListOK /\ CountOK(n) /\ ConsumersOK(n, start) /\ AttachedOK
      /\ Order(n, start)
  BY DEF Inv
<1> DEFINE u == Successor(cur[c])
<1>0. /\ UNCHANGED <<wpos, firstPending, count, consumerCount, pendingCount, ppc, after,
                     item, place, becameNotEmpty, nextItem, index, res, published>>
      /\ cpc[c] = "switch" /\ cpc' = [cpc EXCEPT ![c] = "again"]
      /\ Leave(cur[c]) /\ cur' = [cur EXCEPT ![c] = u]
      /\ attached' = [[attached EXCEPT ![cur[c]] = @ + -1] EXCEPT ![u] = @ + 1]
  BY DEF SwitchSubQueue, Goto, Set, Add, producerVars
<1> HIDE DEF u
<1>1. c \in Attached
  BY <1>0 DEF Attached
<1>2. PICK s \in Range(list) : s = cur[c] /\ Position(s) <= Position(wpos) /\ s \in SubQueues
  BY <1>1, <1>f, InList DEF ConsumersOK
<1>3. Leave(s) /\ s # wpos /\ rindex[s] = SubQueueSize /\ u = Successor(s)
  BY <1>0, <1>2, <1>f DEF ConsumersOK, u
<1>4. /\ u \in Range(list) /\ u # s /\ u \in SubQueues
      /\ Position(u) <= Position(wpos) /\ start[u] <= n + 1
  <2>n. PICK L \in Nat : L = Len(list)
    BY <1>f, InList
  <2>p. PICK p \in 1..L : p = Position(s) /\ list[p] = s
    BY <1>f, <2>n, InList
  <2>w. PICK w \in 1..L : w = Position(wpos) /\ list[w] = wpos
    BY <1>f, <2>n, InList
  <2>1. p < w /\ p + 1 \in 1..L /\ p + 1 \in 1..w /\ p \in 1..w
    <3>1. p # w
      BY <1>3, <2>p, <2>w
    <3>2. p <= w
      BY <1>2, <2>p, <2>w
    <3> QED BY <3>1, <3>2
  <2>2. u = list[p + 1]
    <3>1. Position(s) < Len(list)
      BY <2>n, <2>p, <2>1
    <3> QED BY <1>3, <1>f, <2>p, <3>1, SuccessorIs
  <2>3. u \in Range(list) /\ Position(u) = p + 1 /\ Range(list) \subseteq SubQueues
    BY <1>f, <2>n, <2>1, <2>2, InList
  <2>4. u # s
    BY <2>3, <2>p
  <2>5. start[s] + SubQueueSize <= n + 1
    <3>1. /\ start[s] \in Nat /\ SubQueueSize \in Nat \ {0}
          /\ rindex[s] = IF n < start[s] THEN 0
                         ELSE IF n + 1 - start[s] >= SubQueueSize THEN SubQueueSize
                         ELSE n + 1 - start[s]
      BY <1>2, Reached
    <3> QED BY <1>3, <3>1
  <2>6. start[u] = start[s] + SubQueueSize \/ start[u] <= n + 1
    <3>1. start[list[p + 1]] = start[list[p]] + SubQueueSize \/ start[list[p + 1]] <= n + 1
      BY <1>f, <2>1, <2>w DEF Order
    <3> QED BY <2>2, <2>p, <3>1
  <2> QED BY <2>1, <2>3, <2>4, <2>5, <2>6, <2>w
<1>5. /\ cpc'[c] = "again" /\ cpc' \in [Consumers -> Cpcs]
      /\ cur'[c] = u /\ cur' \in [Consumers -> SubQueues]
      /\ \A d \in Consumers : d # c => cpc'[d] = cpc[d] /\ cur'[d] = cur[d]
  <2>1. cpc \in [Consumers -> Cpcs] /\ cur \in [Consumers -> SubQueues]
    BY <1>f DEF Types
  <2> QED BY <1>0, <1>4, <2>1 DEF Cpcs
<1>a. /\ attached \in [SubQueues -> Int] /\ attached' \in [SubQueues -> Int]
      /\ attached'[s] = attached[s] - 1 /\ attached'[u] = attached[u] + 1
      /\ \A t \in SubQueues : t # s /\ t # u => attached'[t] = attached[t]
  <2>1. attached \in [SubQueues -> Int]
    BY <1>f DEF Types
  <2>2. attached' = [[attached EXCEPT ![s] = @ + -1] EXCEPT ![u] = @ + 1]
    BY <1>0, <1>2
  <2> QED BY <1>2, <1>4, <2>1, <2>2
<1>6. /\ ListOK' /\ ProducerOK' /\ ItemsOK' /\ Order(n, start)'
      /\ SubQueueSize' = SubQueueSize /\ InFlight' = InFlight /\ InFlight \in Int
      /\ list' \in Seq(SubQueues)
      /\ rindex' \in [SubQueues -> Nat] /\ findex' \in [SubQueues -> Nat]
      /\ windex' \in [SubQueues -> Nat]
      /\ cells' \in [SubQueues -> [0..SubQueueSize -> Garbage..MaxItems]]
  BY <1>0, <1>2, <1>3, LeaveKeeps
<1>7. Types'
  BY <1>0, <1>5, <1>6, <1>a, <1>f DEF Types
<1>8. ConsumersOK(n, start)' /\ Counting' = Counting
  BY <1>0, <1>1, <1>2, <1>4, <1>5, ConsumersStay
<1>9. AttachedOK'
  <2>1. Attached' = Attached
    BY <1>0, <1>5 DEF Attached
  <2>2. /\ {d \in Attached' : cur'[d] = s} = In(s) \ {c} /\ c \in In(s)
        /\ {d \in Attached' : cur'[d] = u} = In(u) \cup {c} /\ c \notin In(u)
        /\ \A t : t # s /\ t # u => {d \in Attached' : cur'[d] = t} = In(t)
    <3>1. \A d \in Attached : d # c => cur'[d] = cur[d]
      BY <1>5 DEF Attached
    <3>2. ASSUME NEW t
          PROVE  {d \in Attached : cur'[d] = t} = IF t = u THEN In(t) \cup {c} ELSE In(t) \ {c}
      BY <1>1, <1>5, <3>1 DEF In
    <3>3. \A t : c \in In(t) <=> t = s
      BY <1>1, <1>2 DEF In
    <3>4. \A t : t # s => In(t) \ {c} = In(t)
      BY <3>3
    <3> QED BY <1>4, <2>1, <3>2, <3>3, <3>4
  <2>3. IsFiniteSet(In(s)) /\ IsFiniteSet(In(u))
    <3>1. In(s) \in SUBSET Attached /\ In(u) \in SUBSET Attached
      BY DEF In
    <3> QED BY <1>f, <3>1, InList, FS_Subset
  <2>4. /\ Cardinality(In(s) \ {c}) = Cardinality(In(s)) - 1
        /\ Cardinality(In(u) \cup {c}) = Cardinality(In(u)) + 1
    BY <2>2, <2>3, FS_RemoveElement, FS_AddElement
  <2>5. /\ \A t \in SubQueues : attached[t] = Cardinality(In(t))
        /\ consumerCount = Cardinality(Attached)
    BY <1>f DEF AttachedOK
  <2>6. ASSUME NEW t \in SubQueues
        PROVE  attached'[t] = Cardinality({d \in Attached' : cur'[d] = t})
    <3>1. CASE t = s
      <4>1. attached'[s] = Cardinality({d \in Attached' : cur'[d] = s})
        BY <1>2, <1>a, <2>2, <2>4, <2>5
      <4> QED BY <3>1, <4>1
    <3>2. CASE t = u
      <4>1. attached'[u] = Cardinality({d \in Attached' : cur'[d] = u})
        BY <1>4, <1>a, <2>2, <2>4, <2>5
      <4> QED BY <3>2, <4>1
    <3>3. CASE t # s /\ t # u
      BY <1>a, <2>2, <2>5, <3>3
    <3> QED BY <3>1, <3>2, <3>3
  <2>7. consumerCount' = Cardinality(Attached')
    BY <1>0, <2>1, <2>5
  <2> QED BY <2>6, <2>7 DEF AttachedOK, In
<1>10. CountOK(n)'
  BY <1>0, <1>6, <1>8, <1>f DEF CountOK
<1> QED BY <1>6, <1>7, <1>8, <1>9, <1>10 DEF Inv

-----------------------------------------------------------------------------
(* The invariant.                                                           *)

Below == {p \in Nat \X Nat : p[1] < p[2]}

\* A set of numbers has a least one.
LEMMA Least ==
  ASSUME NEW S \in SUBSET Nat, S # {}
  PROVE  \E x \in S : \A y \in S : x <= y
<1>1. IsWellFoundedOn(Below, Nat)
  BY NatLessThanWellFounded DEF OpToRel, Below
<1>2. PICK x \in S : \A y \in S : <<y, x>> \notin Below
  BY <1>1, WFMin
<1>3. ASSUME NEW y \in S, ~(x <= y) PROVE FALSE
  <2>1. x \in Nat /\ y \in Nat /\ y < x
    BY <1>3
  <2>2. <<y, x>> \in Below
    BY <2>1 DEF Below
  <2> QED BY <1>2, <2>2
<1> QED BY <1>3

\* The first sub-queue is the least one.
LEMMA FirstIs == First \in SubQueues
<1>1. \E x \in SubQueues : \A y \in SubQueues : x <= y
  BY Least, QueueAssumption
<1> QED BY <1>1 DEF First

\* The constructor: one clean sub-queue, that starts with the first item.
LEMMA InitOK == Init => IInv
<1> SUFFICES ASSUME Init PROVE IInv
  OBVIOUS
<1>q. PICK f \in SubQueues : f = First
  BY FirstIs
<1>s. PICK start \in [SubQueues -> Nat] : start[f] = 1
  <2>1. [t \in SubQueues |-> 1] \in [SubQueues -> Nat]
    OBVIOUS
  <2> QED BY <2>1
<1>c. PICK size \in SubQueueSizes :
         cells = [t \in SubQueues |-> [i \in 0..size |-> IF i = 0 THEN Null ELSE Garbage]]
  BY DEF Init
<1>1. /\ list = <<f>> /\ wpos = f
      /\ rindex = [t \in SubQueues |-> 0] /\ findex = [t \in SubQueues |-> 0]
      /\ windex = [t \in SubQueues |-> 0] /\ firstPending = [t \in SubQueues |-> Null]
      /\ attached = [t \in SubQueues |-> 0] /\ count = 0 /\ consumerCount = 0
      /\ pendingCount = 0 /\ ppc = "idle" /\ after = "idle" /\ item = Null
      /\ place = 0 /\ becameNotEmpty = FALSE /\ nextItem = 1
      /\ cpc = [c \in Consumers |-> "detached"] /\ cur = [c \in Consumers |-> f]
      /\ index = [c \in Consumers |-> 0] /\ res = [c \in Consumers |-> Null]
      /\ published = 0
  BY <1>q DEF Init
<1>2. size \in Nat \ {0} /\ MaxItems \in Nat
  BY QueueAssumption
<1>3. cells \in [SubQueues -> [0..size -> Garbage..MaxItems]]
  <2>1. Null \in Garbage..MaxItems /\ Garbage \in Garbage..MaxItems
    BY <1>2 DEF Null, Garbage
  <2> QED BY <1>c, <2>1
<1>4. SubQueueSize = size
  BY <1>2, <1>3, SizeIs DEF SubQueueSize
<1>5. Types
  <2>1. list \in Seq(SubQueues)
    BY <1>1
  <2>2. /\ firstPending \in [SubQueues -> 0..MaxItems] /\ item \in 0..MaxItems
        /\ res \in [Consumers -> 0..MaxItems] /\ nextItem \in 1..(MaxItems + 1)
    BY <1>1, <1>2 DEF Null
  <2>3. cpc \in [Consumers -> Cpcs] /\ cur \in [Consumers -> SubQueues] /\ ppc \in Ppcs
    BY <1>1 DEF Cpcs, Ppcs
  <2>4. becameNotEmpty \in BOOLEAN
    BY <1>1
  <2> QED BY <1>1, <1>2, <1>3, <1>4, <2>1, <2>2, <2>3, <2>4 DEF Types
<1>6. /\ Len(list) = 1 /\ list[1] = f /\ Range(list) = {f} /\ IsInjective(list)
      /\ list # <<>>
  BY <1>1 DEF Range, IsInjective
<1>7. Position(f) = 1
  <2>1. 1 \in 1..Len(list) /\ list[1] = f /\ \A i \in 1..Len(list) : i = 1
    BY <1>6
  <2> QED BY <2>1 DEF Position
<1>8. \A t \in SubQueues : Clean(t)
  <2>1. \A t \in SubQueues : cells[t][0] = Null
    BY <1>2, <1>c
  <2> QED BY <1>1, <2>1 DEF Clean
<1>9. ListOK
  <2>1. \A t \in Range(list) : ~(Position(t) < Position(wpos))
    BY <1>1, <1>6, <1>7
  <2> QED BY <1>1, <1>6, <1>8, <2>1 DEF ListOK, Free
<1>10. /\ \A t \in SubQueues : Exposed(t) = 0 /\ rindex[t] = 0 /\ windex[t] = 0
       /\ Pending = 0 /\ ~InHand /\ InFlight = 0
  <2>1. \A t \in SubQueues : Exposed(t) = 0 /\ rindex[t] = 0 /\ windex[t] = 0
    BY <1>1 DEF Exposed
  <2>2. Pending = 0
    BY <1>1, <2>1 DEF Pending
  <2>3. ~InHand
    BY <1>1 DEF InHand
  <2> QED BY <1>1, <2>1, <2>2, <2>3 DEF InFlight
<1>11. ProducerOK
  <2>1. /\ cells[wpos][0] = Null /\ findex[wpos] = 0 /\ windex[wpos] = 0
        /\ firstPending[wpos] = Null /\ Exposed(wpos) = 0
    BY <1>1, <1>8, <1>10 DEF Clean
  <2> QED BY <1>1, <1>2, <1>4, <1>10, <2>1 DEF ProducerOK
<1>12. ItemsOK
  BY <1>1, <1>10 DEF ItemsOK
<1>13. Order(0, start)
  <2>1. \A t \in Range(list) : t = f
    BY <1>6
  <2>2. rindex[f] = 0 /\ Exposed(f) = 0 /\ start[wpos] + Exposed(wpos) = published + 1
    BY <1>1, <1>10, <1>s
  <2>3. \A k \in 0..SubQueueSize : ~(k < 0)
    BY <1>2, <1>4
  <2>4. \A i \in 1..1 : i = 1
    OBVIOUS
  <2>5. Position(wpos) = 1
    BY <1>1, <1>7
  <2> QED BY <1>1, <1>6, <1>s, <2>1, <2>2, <2>3, <2>4, <2>5 DEF Order
<1>14. Attached = {} /\ Counting = {} /\ \A t : In(t) = {}
  BY <1>1 DEF Attached, Counting, In
<1>15. ConsumersOK(0, start)
  <2>1. \A c \in Consumers : cpc[c] = "detached"
    BY <1>1
  <2>2. \A c \in Consumers : cpc[c] \notin {"load", "exchange", "switch"}
    BY <2>1
  <2>3. (\A c \in Attached : FALSE) /\ (\A c \in Counting : FALSE)
    BY <1>14
  <2> QED BY <2>2, <2>3 DEF ConsumersOK
<1>16. AttachedOK /\ CountOK(0)
  <2>1. Cardinality(Attached) = 0 /\ Cardinality(Counting) = 0
        /\ \A t : Cardinality(In(t)) = 0
    BY <1>14, FS_EmptySet
  <2>2. \A t \in SubQueues : attached[t] = 0
    BY <1>1
  <2> QED BY <1>1, <1>10, <2>1, <2>2 DEF AttachedOK, CountOK
<1>17. Inv(0, start)
  BY <1>5, <1>9, <1>11, <1>12, <1>13, <1>15, <1>16 DEF Inv
<1> QED BY <1>17 DEF IInv

\* Every other step takes no item.
LEMMA StepKeeps ==
  ASSUME NEW n \in Nat, NEW start \in [SubQueues -> Nat], Inv(n, start), [Next]_vars,
         ~\E c \in Consumers : ExchangeIndex(c)
  PROVE  \E st \in [SubQueues -> Nat] : Inv(n, st)'
<1>1. CASE Push \/ PushPending \/ PushFull \/ PendFull \/ FlushPending
  BY <1>1, CallPreserves
<1>2. CASE Reserve
  BY <1>2, ReservePreserves
<1>3. CASE PushTerminate
  BY <1>3, PushTerminatePreserves
<1>4. CASE PushPlace
  BY <1>4, PushPlacePreserves
<1>5. CASE PushExpose
  BY <1>5, PushExposePreserves
<1>6. CASE Pend
  BY <1>6, PendPreserves
<1>7. CASE FlushTerminate
  BY <1>7, FlushTerminatePreserves
<1>8. CASE FlushExpose
  BY <1>8, FlushExposePreserves
<1>9. CASE NextWpos
  BY <1>9, NextWposPreserves
<1>10. ASSUME NEW c \in Consumers, Attach(c) \/ Detach(c) \/ ConsumerStep(c)
       PROVE  \E st \in [SubQueues -> Nat] : Inv(n, st)'
  <2>1. CASE Attach(c)
    BY <2>1, AttachPreserves
  <2>2. CASE Detach(c)
    BY <2>2, DetachPreserves
  <2>3. CASE \/ Pop(c) \/ LoadItem(c) \/ ExchangeFails(c)
             \/ SwitchSubQueue(c) /\ cur[c] = wpos
    BY <2>3, LookPreserves
  <2>5. CASE SwitchSubQueue(c) /\ cur[c] # wpos
    BY <2>5, SwitchPreserves
  <2>6. CASE DecrementCount(c)
    BY <2>6, DecrementPreserves
  <2> QED BY <1>10, <2>1, <2>2, <2>3, <2>5, <2>6 DEF ConsumerStep
<1>11. CASE UNCHANGED vars
  <2>0. UNCHANGED <<list, attached, wpos, rindex, findex, windex, cells, firstPending,
                    count, consumerCount, pendingCount, ppc, after, item, place,
                    becameNotEmpty, nextItem, cpc, cur, index, res, published>>
    BY <1>11 DEF vars, listVars, producerVars, consumerVars
  <2>1. /\ ListOK' /\ ProducerOK' /\ ItemsOK' /\ Order(n, start)'
        /\ SubQueueSize' = SubQueueSize /\ InFlight' = InFlight
        /\ \A s : Exposed(s)' = Exposed(s)
        /\ \A s : Position(s)' = Position(s)
    BY <2>0, ConsumerFrame
  <2>2. Types /\ ConsumersOK(n, start) /\ AttachedOK /\ CountOK(n)
    BY DEF Inv
  <2>3. Types'
    BY <2>0, <2>1, <2>2 DEF Types
  <2>4. Attached' = Attached /\ Counting' = Counting /\ \A s : In(s)' = In(s)
    BY <2>0 DEF Attached, Counting, In
  <2>5. ConsumersOK(n, start)'
    BY <2>0, <2>1, <2>2, <2>4 DEF ConsumersOK
  <2>6. AttachedOK' /\ CountOK(n)'
    BY <2>0, <2>1, <2>2, <2>4 DEF AttachedOK, CountOK
  <2> QED BY <2>1, <2>3, <2>5, <2>6 DEF Inv
<1> QED BY <1>1, <1>2, <1>3, <1>4, <1>5, <1>6, <1>7, <1>8, <1>9, <1>10, <1>11
        DEF Next, ProducerStep

\* However the steps of the producer (write, publish, close a sub-queue, recycle) and of
\* the consumers (load, exchange, switch, count) interleave, some number n of items has
\* been taken, and every sub-queue holds the items that follow its start.
THEOREM Invariant == Spec => []IInv
<1>1. IInv /\ [Next]_vars => IInv'
  <2> SUFFICES ASSUME IInv, [Next]_vars PROVE IInv'
    OBVIOUS
  <2>1. PICK n \in Nat, start \in [SubQueues -> Nat] : Inv(n, start)
    BY DEF IInv
  <2>2. \E m \in Nat, st \in [SubQueues -> Nat] : Inv(m, st)'
    <3>1. CASE \E c \in Consumers : ExchangeIndex(c)
      <4>1. Inv(n + 1, start)' /\ n + 1 \in Nat
        BY <2>1, <3>1, ExchangePreserves
      <4> QED BY <4>1
    <3>2. CASE ~\E c \in Consumers : ExchangeIndex(c)
      BY <2>1, <3>2, StepKeeps
    <3> QED BY <3>1, <3>2
  <2> QED BY <2>2 DEF IInv
<1> QED BY <1>1, InitOK, PTL DEF Spec

-----------------------------------------------------------------------------
(* What can be taken.                                                       *)

\* The items behind the first a of them, up to the b-th.
Run(a, b) == [j \in 1..(b - a) |-> a + j]

\* Runs are sequences, and join.
LEMMA Runs ==
  ASSUME NEW a \in Nat, NEW b \in Nat, a <= b
  PROVE  /\ Run(a, b) \in Seq(Nat) /\ Len(Run(a, b)) = b - a
         /\ \A j \in 1..(b - a) : Run(a, b)[j] = a + j
<1>1. PICK k \in Nat : k = b - a
  OBVIOUS
<1>2. \A j \in 1..k : a + j \in Nat
  OBVIOUS
<1>3. Run(a, b) = [j \in 1..k |-> a + j]
  BY <1>1 DEF Run
<1>4. [j \in 1..k |-> a + j] \in Seq(Nat) /\ Len([j \in 1..k |-> a + j]) = k
  BY <1>2
<1> QED BY <1>1, <1>3, <1>4

\* A run and the one that begins where it ends are one run.
LEMMA RunsJoin ==
  ASSUME NEW a \in Nat, NEW b \in Nat, NEW c \in Nat, a <= b, b <= c
  PROVE  Run(a, b) \o Run(b, c) = Run(a, c)
<1> DEFINE x == Run(a, b)
           y == Run(b, c)
           z == Run(a, c)
<1>1. /\ x \in Seq(Nat) /\ Len(x) = b - a /\ \A j \in 1..(b - a) : x[j] = a + j
      /\ y \in Seq(Nat) /\ Len(y) = c - b /\ \A j \in 1..(c - b) : y[j] = b + j
      /\ z \in Seq(Nat) /\ Len(z) = c - a /\ \A j \in 1..(c - a) : z[j] = a + j
  <2>1. a <= c
    OBVIOUS
  <2> HIDE DEF x, y, z
  <2>2. x \in Seq(Nat) /\ Len(x) = b - a /\ \A j \in 1..(b - a) : x[j] = a + j
    BY Runs DEF x
  <2>3. y \in Seq(Nat) /\ Len(y) = c - b /\ \A j \in 1..(c - b) : y[j] = b + j
    BY Runs DEF y
  <2>4. z \in Seq(Nat) /\ Len(z) = c - a /\ \A j \in 1..(c - a) : z[j] = a + j
    BY <2>1, Runs DEF z
  <2> QED BY <2>2, <2>3, <2>4
<1> HIDE DEF x, y, z
<1>2. /\ x \o y \in Seq(Nat) /\ Len(x \o y) = c - a
      /\ \A j \in 1..(c - a) : (x \o y)[j] = IF j <= b - a THEN x[j] ELSE y[j - (b - a)]
  <2>1. /\ x \o y \in Seq(Nat) /\ Len(x \o y) = Len(x) + Len(y)
        /\ \A i \in 1..(Len(x) + Len(y)) :
              (x \o y)[i] = IF i <= Len(x) THEN x[i] ELSE y[i - Len(x)]
    BY <1>1, ConcatProperties
  <2>2. Len(x) + Len(y) = c - a
    BY <1>1
  <2> QED BY <1>1, <2>1, <2>2
<1>3. ASSUME NEW j \in 1..(c - a)
      PROVE  (x \o y)[j] = z[j]
  <2>1. CASE j <= b - a
    BY <1>1, <1>2, <2>1
  <2>2. CASE ~(j <= b - a)
    <3>1. j - (b - a) \in 1..(c - b) /\ b + (j - (b - a)) = a + j
      BY <2>2
    <3>2. y[j - (b - a)] = a + j
      BY <1>1, <3>1
    <3> QED BY <1>1, <1>2, <2>2, <3>2
  <2> QED BY <2>1, <2>2
<1>4. x \o y = z
  BY <1>1, <1>2, <1>3, SeqEqual
<1> QED BY <1>4 DEF x, y, z

\* A sequence of runs, each beginning where the one before it ends, is one run.
LEMMA Flattened ==
  ASSUME NEW N \in Nat \ {0}, NEW e \in [0..N -> Nat], NEW q,
         q = [i \in 1..N |-> Run(e[i - 1], e[i])],
         \A i \in 1..N : e[i - 1] <= e[i] /\ e[0] <= e[i - 1]
  PROVE  FlattenSeq(q) = Run(e[0], e[N])
<1> DEFINE F(h) == [i \in 1..N |-> IF i = 1 THEN q[i] ELSE h[i - 1] \o q[i]]
           g == [i \in 1..N |-> Run(e[0], e[i])]
<1>1. \A i \in 1..N : /\ e[i] \in Nat /\ e[i - 1] \in Nat /\ e[0] \in Nat
                      /\ q[i] = Run(e[i - 1], e[i])
                      /\ e[i - 1] <= e[i] /\ e[0] <= e[i - 1]
  <2>1. \A i \in 1..N : i \in 0..N /\ i - 1 \in 0..N /\ 0 \in 0..N
    OBVIOUS
  <2> QED BY <2>1
<1>2. ASSUME NEW i \in 1..N
      PROVE  g[i] = IF i = 1 THEN q[i] ELSE g[i - 1] \o q[i]
  <2>1. g[i] = Run(e[0], e[i])
    OBVIOUS
  <2>2. CASE i = 1
    BY <1>1, <2>1, <2>2
  <2>3. CASE i # 1
    <3>1. g[i - 1] = Run(e[0], e[i - 1])
      <4>1. i - 1 \in 1..N
        BY <2>3
      <4> QED BY <4>1
    <3>2. Run(e[0], e[i - 1]) \o Run(e[i - 1], e[i]) = Run(e[0], e[i])
      BY <1>1, RunsJoin
    <3> HIDE DEF g
    <3> QED BY <1>1, <2>1, <2>3, <3>1, <3>2
  <2> HIDE DEF g
  <2> QED BY <2>2, <2>3
<1>3. g = F(g)
  <2>1. g = [i \in 1..N |-> g[i]]
    OBVIOUS
  <2> HIDE DEF g
  <2> QED BY <1>2, <2>1
<1>4. ASSUME NEW h, h = F(h) PROVE h = g
  <2>1. /\ h = [i \in 1..N |-> h[i]]
        /\ \A i \in 1..N : h[i] = IF i = 1 THEN q[i] ELSE h[i - 1] \o q[i]
    BY <1>4
  <2>2. g = [i \in 1..N |-> g[i]]
    OBVIOUS
  <2> HIDE DEF g, F
  <2> DEFINE D == {i \in 1..N : h[i] # g[i]}
  <2>3. D = {}
    <3> SUFFICES ASSUME D # {} PROVE FALSE
      OBVIOUS
    <3>0. D \in SUBSET Nat
      OBVIOUS
    <3>1. PICK i \in D : \A j \in D : i <= j
      <4> HIDE DEF D
      <4> QED BY <3>0, Least
    <3>2. i \in 1..N /\ h[i] # g[i]
      BY <3>1
    <3>3. CASE i = 1
      BY <1>2, <2>1, <3>2, <3>3
    <3>4. CASE i # 1
      <4>1. i - 1 \in 1..N /\ ~(i <= i - 1)
        BY <3>2, <3>4
      <4>2. h[i - 1] = g[i - 1]
        BY <3>1, <4>1
      <4>3. h[i] = h[i - 1] \o q[i]
        BY <2>1, <3>2, <3>4
      <4>4. g[i] = g[i - 1] \o q[i]
        BY <1>2, <3>2, <3>4
      <4> QED BY <3>2, <4>2, <4>3, <4>4
    <3> QED BY <3>3, <3>4
  <2>4. \A i \in 1..N : h[i] = g[i]
    BY <2>3
  <2> QED BY <2>1, <2>2, <2>4
<1>5. (CHOOSE h : h = F(h)) = g
  <2> HIDE DEF g, F
  <2> QED BY <1>3, <1>4
<1>6. Len(q) = N /\ Len(q) # 0
  OBVIOUS
<1>7. FlattenSeq(q) = (CHOOSE h : h = F(h))[N]
  BY <1>6 DEF FlattenSeq
<1>8. g[N] = Run(e[0], e[N])
  OBVIOUS
<1> HIDE DEF g
<1> QED BY <1>5, <1>7, <1>8
\* What can be taken is what has been published and has not been taken yet.
LEMMA VisibleIs ==
  ASSUME NEW n \in Nat, NEW start \in [SubQueues -> Nat], Inv(n, start)
  PROVE  Visible = Run(n, published) /\ n <= published /\ published \in Nat
<1>f. Types /\ ListOK /\ ProducerOK /\ Order(n, start)
  BY DEF Inv
<1>n. PICK L \in Nat \ {0} : L = Len(list)
  BY <1>f, InList
<1>w. PICK w \in 1..L : w = Position(wpos) /\ list[w] = wpos
  BY <1>f, <1>n, InList
<1>0. /\ published \in Nat /\ SubQueueSize \in Nat \ {0} /\ n <= published
      /\ Range(list) \subseteq SubQueues
      /\ \A i \in 1..L : list[i] \in Range(list) /\ Position(list[i]) = i
  BY <1>f, <1>n, InList DEF Types, Order
<1> DEFINE B(i) == start[list[i]]
           X(i) == Exposed(list[i])
           R(i) == B(i) + X(i) - 1
           e == [i \in 0..L |-> IF i = 0 THEN n ELSE IF i > w THEN published
                                ELSE IF R(i) > n THEN R(i) ELSE n]
<1>1. ASSUME NEW i \in 1..w
      PROVE  /\ B(i) \in Nat /\ B(i) >= 1 /\ X(i) \in Nat /\ X(i) <= SubQueueSize
             /\ i # w => X(i) = SubQueueSize
             /\ rindex[list[i]] \in Nat /\ rindex[list[i]] <= X(i)
             /\ rindex[list[i]] = IF n < B(i) THEN 0
                                  ELSE IF n + 1 - B(i) >= SubQueueSize THEN SubQueueSize
                                  ELSE n + 1 - B(i)
             /\ \A k \in 0..SubQueueSize : k < X(i) => cells[list[i]][k] = B(i) + k
             /\ R(i) \in Nat
  <2>1. i \in 1..L /\ i <= w
    OBVIOUS
  <2>2. PICK s \in Range(list) : s = list[i] /\ Position(s) = i /\ Position(s) <= Position(wpos)
    BY <1>0, <1>w, <2>1
  <2>3. i # w => s # wpos
    BY <1>w, <2>2
  <2>4. /\ start[s] \in Nat /\ start[s] >= 1
        /\ rindex[s] \in Nat /\ rindex[s] <= Exposed(s)
        /\ Exposed(s) \in Nat /\ Exposed(s) <= SubQueueSize
        /\ s # wpos => Exposed(s) = SubQueueSize
        /\ \A k \in 0..SubQueueSize : k < Exposed(s) => cells[s][k] = start[s] + k
        /\ rindex[s] = IF n < start[s] THEN 0
                       ELSE IF n + 1 - start[s] >= SubQueueSize THEN SubQueueSize
                       ELSE n + 1 - start[s]
    BY <2>2, Reached
  <2>5. start[s] + Exposed(s) - 1 \in Nat
    BY <2>4
  <2> QED BY <2>2, <2>3, <2>4, <2>5
<1>2. R(w) = published
  <2>1. B(w) + X(w) = published + 1
    BY <1>f, <1>w DEF Order
  <2>2. B(w) \in Nat /\ X(w) \in Nat
    BY <1>1
  <2> QED BY <1>0, <2>1, <2>2
<1>3. B(1) <= n + 1
  BY <1>f DEF Order
<1>4. ASSUME NEW i \in 1..w, i # 1
      PROVE  /\ i - 1 \in 1..w /\ i - 1 # w
             /\ B(i - 1) + SubQueueSize <= B(i)
             /\ B(i) = B(i - 1) + SubQueueSize \/ B(i) <= n + 1
  <2>1. i - 1 \in 1..w /\ i - 1 < i /\ i = (i - 1) + 1 /\ i - 1 # w
    BY <1>4
  <2> QED BY <1>f, <1>w, <2>1 DEF Order
<1> HIDE DEF B, X
<1>5. \A i \in 1..w : R(i) \in Nat
  BY <1>1
<1> HIDE DEF R
<1>6. /\ e \in [0..L -> Nat] /\ e[0] = n
      /\ \A i \in 1..w : e[i] = IF R(i) > n THEN R(i) ELSE n
      /\ \A i \in w..L : e[i] = published
      /\ \A i \in 0..L : n <= e[i]
  <2>1. \A i \in 0..L : i = 0 \/ i > w \/ i \in 1..w
    OBVIOUS
  <2>2. \A i \in 0..L : e[i] \in Nat /\ n <= e[i]
    BY <1>0, <1>5, <2>1
  <2>3. \A i \in 1..w : i \in 0..L /\ i # 0 /\ ~(i > w)
    OBVIOUS
  <2>4. \A i \in 1..w : e[i] = IF R(i) > n THEN R(i) ELSE n
    BY <2>3
  <2>5. \A i \in w..L : i \in 0..L /\ i # 0 /\ (i = w \/ i > w)
    OBVIOUS
  <2>6. \A i \in w..L : e[i] = published
    BY <1>0, <1>2, <2>5
  <2>7. e[0] = n
    OBVIOUS
  <2>8. e = [i \in 0..L |-> e[i]]
    OBVIOUS
  <2> HIDE DEF e
  <2>9. e \in [0..L -> Nat]
    BY <2>2, <2>8
  <2> QED BY <2>2, <2>4, <2>6, <2>7, <2>9
<1> HIDE DEF e
<1>7. ASSUME NEW i \in 1..w
      PROVE  e[i - 1] = IF n < B(i) THEN B(i) - 1 ELSE n
  <2>0. B(i) \in Nat /\ B(i) >= 1
    BY <1>1
  <2>1. CASE i = 1
    <3>1. e[i - 1] = n
      BY <1>6, <2>1
    <3> QED BY <1>3, <2>0, <2>1, <3>1
  <2>2. CASE i # 1
    <3>1. /\ i - 1 \in 1..w /\ B(i - 1) + SubQueueSize <= B(i)
          /\ B(i) = B(i - 1) + SubQueueSize \/ B(i) <= n + 1
          /\ B(i - 1) \in Nat /\ X(i - 1) = SubQueueSize
      BY <1>1, <1>4, <2>2
    <3>2. R(i - 1) = B(i - 1) + SubQueueSize - 1
      BY <3>1 DEF R
    <3>3. e[i - 1] = IF R(i - 1) > n THEN R(i - 1) ELSE n
      BY <1>6, <3>1
    <3> QED BY <1>0, <2>0, <3>1, <3>2, <3>3
  <2> QED BY <2>1, <2>2
<1>8. ASSUME NEW i \in 1..w
      PROVE  VisibleIn(list[i]) = Run(e[i - 1], e[i]) /\ e[i - 1] <= e[i]
  <2> DEFINE s == list[i]
  <2>1. VisibleIn(s) = [j \in 1..(X(i) - rindex[s]) |-> cells[s][rindex[s] + j - 1]]
    BY DEF VisibleIn, X
  <2>2. /\ B(i) \in Nat /\ B(i) >= 1 /\ X(i) \in Nat /\ X(i) <= SubQueueSize
        /\ rindex[s] \in Nat /\ rindex[s] <= X(i)
        /\ rindex[s] = IF n < B(i) THEN 0
                       ELSE IF n + 1 - B(i) >= SubQueueSize THEN SubQueueSize
                       ELSE n + 1 - B(i)
        /\ \A k \in 0..SubQueueSize : k < X(i) => cells[s][k] = B(i) + k
    BY <1>1
  <2>3. /\ e[i - 1] = IF n < B(i) THEN B(i) - 1 ELSE n
        /\ e[i] = IF R(i) > n THEN R(i) ELSE n
        /\ R(i) = B(i) + X(i) - 1
    BY <1>6, <1>7 DEF R
  <2> HIDE DEF s
  <2>4. PICK r \in Nat : r = rindex[s]
    BY <2>2
  <2>5. e[i] - e[i - 1] = X(i) - r /\ e[i - 1] <= e[i]
        /\ (r < X(i) => e[i - 1] = B(i) + r - 1)
    BY <1>0, <2>2, <2>3, <2>4
  <2>6. ASSUME NEW j \in 1..(X(i) - r)
        PROVE  cells[s][r + j - 1] = e[i - 1] + j
    <3>1. r + j - 1 \in 0..SubQueueSize /\ r + j - 1 < X(i) /\ r < X(i)
      BY <1>0, <2>2
    <3>2. cells[s][r + j - 1] = B(i) + (r + j - 1)
      BY <2>2, <3>1
    <3> QED BY <2>2, <2>5, <3>1, <3>2
  <2>7. VisibleIn(s) = [j \in 1..(X(i) - r) |-> e[i - 1] + j]
    BY <2>1, <2>4, <2>6
  <2>8. VisibleIn(s) = Run(e[i - 1], e[i])
    BY <2>5, <2>7 DEF Run
  <2> QED BY <2>5, <2>8 DEF s
<1>9. ASSUME NEW i \in 1..L, i > w
      PROVE  VisibleIn(list[i]) = Run(e[i - 1], e[i]) /\ e[i - 1] <= e[i]
  <2> DEFINE s == list[i]
  <2>1. Clean(s) /\ s # wpos
    BY <1>0, <1>9, <1>f, <1>w DEF ListOK
  <2>2. Exposed(s) = 0 /\ rindex[s] = 0
    BY <2>1 DEF Exposed, Clean
  <2>3. i \in w..L /\ i - 1 \in w..L
    BY <1>9
  <2>4. e[i - 1] = published /\ e[i] = published
    BY <1>6, <2>3
  <2>5. VisibleIn(s) = [j \in 1..(0 - 0) |-> cells[s][0 + j - 1]]
    BY <2>2 DEF VisibleIn
  <2>6. Run(published, published) = [j \in 1..(0 - 0) |-> published + j]
    BY <1>0 DEF Run
  <2>7. \A j \in 1..(0 - 0) : FALSE
    OBVIOUS
  <2>8. [j \in 1..(0 - 0) |-> cells[s][0 + j - 1]] = [j \in 1..(0 - 0) |-> published + j]
    BY <2>7
  <2> QED BY <1>0, <2>4, <2>5, <2>6, <2>8
<1>10. \A i \in 1..L : VisibleIn(list[i]) = Run(e[i - 1], e[i]) /\ e[i - 1] <= e[i]
  <2>1. \A i \in 1..L : i \in 1..w \/ i > w
    OBVIOUS
  <2> QED BY <1>8, <1>9, <2>1
<1>11. Visible = FlattenSeq([i \in 1..L |-> Run(e[i - 1], e[i])])
  <2>1. [i \in 1..L |-> VisibleIn(list[i])] = [i \in 1..L |-> Run(e[i - 1], e[i])]
    BY <1>10
  <2> QED BY <1>n, <2>1 DEF Visible
<1>12. \A i \in 1..L : e[i - 1] <= e[i] /\ e[0] <= e[i - 1]
  <2>1. \A i \in 1..L : i - 1 \in 0..L
    OBVIOUS
  <2> QED BY <1>6, <1>10, <2>1
<1>13. e[L] = published
  <2>1. L \in w..L
    OBVIOUS
  <2> QED BY <1>6, <2>1
<1>14. FlattenSeq([i \in 1..L |-> Run(e[i - 1], e[i])]) = Run(e[0], e[L])
  BY <1>6, <1>12, Flattened
<1> QED BY <1>0, <1>6, <1>11, <1>13, <1>14

-----------------------------------------------------------------------------
(* QueueInv.                                                                *)

\* A store into a cell keeps the size of the sub-queues.
LEMMA StoreSize ==
  ASSUME Types, NEW w, NEW i, NEW v, cells' = [cells EXCEPT ![w] = [cells[w] EXCEPT ![i] = v]]
  PROVE  SubQueueSize' = SubQueueSize
<1> DEFINE x == CHOOSE s \in SubQueues : TRUE
<1>1. x \in SubQueues
  BY QueueAssumption
<1> HIDE DEF x
<1>2. cells \in [SubQueues -> [0..SubQueueSize -> Garbage..MaxItems]]
  BY DEF Types
<1>3. DOMAIN cells'[x] = DOMAIN cells[x]
  BY <1>1, <1>2
<1> QED BY <1>3 DEF SubQueueSize, x

\* The size is that of the constructor for ever.
LEMMA SizeKept ==
  ASSUME Types, [Next]_vars
  PROVE  SubQueueSize' = SubQueueSize
<1>1. ASSUME UNCHANGED cells PROVE SubQueueSize' = SubQueueSize
  BY <1>1, NoStore
<1>2. ASSUME NEW s, Leave(s) PROVE SubQueueSize' = SubQueueSize
  <2>1. UNCHANGED cells \/ cells' = [cells EXCEPT ![s] = [cells[s] EXCEPT ![0] = Null]]
    BY <1>2 DEF Leave
  <2> QED BY <1>1, <2>1, StoreSize
<1>3. ASSUME NEW i, NEW v, Store(i, v) PROVE SubQueueSize' = SubQueueSize
  <2>1. cells' = [cells EXCEPT ![wpos] = [cells[wpos] EXCEPT ![i] = v]]
    BY <1>3 DEF Store
  <2> QED BY <2>1, StoreSize
<1>4. CASE ProducerStep
  <2>1. CASE PushTerminate
    BY <1>3, <2>1 DEF PushTerminate
  <2>2. CASE PushPlace
    BY <1>3, <2>2 DEF PushPlace
  <2>3. CASE PushExpose
    BY <1>3, <2>3 DEF PushExpose
  <2>4. CASE PushFull \/ PendFull \/ NextWpos
    BY <1>1, <2>4 DEF PushFull, PendFull, NextWpos
  <2>5. CASE Pend
    BY <1>1, <1>3, <2>5 DEF Pend
  <2>6. CASE FlushTerminate
    BY <1>3, <2>6 DEF FlushTerminate
  <2>7. CASE FlushExpose
    BY <1>3, <2>7 DEF FlushExpose
  <2> QED BY <1>4, <2>1, <2>2, <2>3, <2>4, <2>5, <2>6, <2>7 DEF ProducerStep
<1>5. CASE Push \/ PushPending \/ FlushPending \/ Reserve
  BY <1>1, <1>5 DEF Push, PushPending, FlushPending, Reserve
<1>6. ASSUME NEW c \in Consumers, Attach(c) \/ Detach(c) \/ ConsumerStep(c)
      PROVE  SubQueueSize' = SubQueueSize
  <2>1. CASE Detach(c)
    BY <1>2, <2>1 DEF Detach
  <2>2. CASE SwitchSubQueue(c)
    BY <1>1, <1>2, <2>2 DEF SwitchSubQueue
  <2>3. CASE Attach(c) \/ Pop(c) \/ LoadItem(c) \/ ExchangeIndex(c) \/ ExchangeFails(c)
             \/ DecrementCount(c)
    BY <1>1, <2>3 DEF Attach, Pop, LoadItem, ExchangeIndex, ExchangeFails, DecrementCount
  <2> QED BY <1>6, <2>1, <2>2, <2>3 DEF ConsumerStep
<1>7. CASE UNCHANGED vars
  BY <1>1, <1>7 DEF vars
<1> QED BY <1>4, <1>5, <1>6, <1>7 DEF Next

\* What threads remember of the indexes is within the sub-queue.
Bounds == place \in 0..SubQueueSize /\ index \in [Consumers -> 0..SubQueueSize]

\* A step keeps the remembered indexes within the sub-queue.
LEMMA BoundsKept ==
  ASSUME IInv, Bounds, [Next]_vars
  PROVE  Bounds'
<1>0. PICK n \in Nat, start \in [SubQueues -> Nat] : Inv(n, start)
  BY DEF IInv
<1>f. Types /\ ProducerOK /\ ConsumersOK(n, start)
  BY <1>0 DEF Inv
<1>1. SubQueueSize' = SubQueueSize /\ SubQueueSize \in Nat
  BY <1>f, SizeKept DEF Types
<1>2. place' = place \/ place' \in 0..SubQueueSize
  <2>1. CASE PushTerminate
    <3>1. place' = findex[wpos] /\ findex[wpos] <= SubQueueSize /\ findex[wpos] \in Nat
      <4>1. place' = findex[wpos]
        BY <2>1 DEF PushTerminate
      <4>2. findex \in [SubQueues -> Nat] /\ windex \in [SubQueues -> Nat] /\ wpos \in SubQueues
        BY <1>f DEF Types
      <4>3. findex[wpos] <= windex[wpos] /\ windex[wpos] <= SubQueueSize
        BY <1>f DEF ProducerOK
      <4> QED BY <1>1, <4>1, <4>2, <4>3
    <3> QED BY <1>1, <3>1
  <2>2. CASE ~PushTerminate
    BY <2>2 DEF Next, ProducerStep, ConsumerStep, Push, PushPending, FlushPending, Reserve,
       Call, PushPlace, PushExpose, PushFull, Pend, PendFull, FlushTerminate, FlushExpose,
       NextWpos, Attach, Detach, Pop, LoadItem, ExchangeIndex, ExchangeFails, SwitchSubQueue,
       DecrementCount, vars, producerVars
  <2> QED BY <2>1, <2>2
<1>3. index' = index \/ \E c \in Attached : index' = [index EXCEPT ![c] = rindex[cur[c]]]
  <2>1. ASSUME NEW c \in Consumers, Pop(c) \/ ExchangeFails(c)
        PROVE  \E d \in Attached : index' = [index EXCEPT ![d] = rindex[cur[d]]]
    <3>1. c \in Attached
      BY <2>1 DEF Pop, ExchangeFails, Attached
    <3>2. index' = [index EXCEPT ![c] = rindex[cur[c]]]
      BY <2>1 DEF Pop, ExchangeFails, LoadIndex, Set
    <3> QED BY <3>1, <3>2
  <2>2. CASE ~\E c \in Consumers : Pop(c) \/ ExchangeFails(c)
    BY <2>2 DEF Next, ProducerStep, ConsumerStep, Push, PushPending, FlushPending, Reserve,
       PushTerminate, PushPlace, PushExpose, PushFull, Pend, PendFull, FlushTerminate,
       FlushExpose, NextWpos, Attach, Detach, LoadItem, ExchangeIndex, SwitchSubQueue,
       DecrementCount, vars, consumerVars
  <2> QED BY <2>1, <2>2
<1>4. ASSUME NEW c \in Attached
      PROVE  rindex[cur[c]] \in 0..SubQueueSize
  <2>1. PICK s \in Range(list) : s = cur[c] /\ Position(s) <= Position(wpos)
    BY <1>f DEF ConsumersOK
  <2>2. rindex[s] \in Nat /\ rindex[s] <= Exposed(s) /\ Exposed(s) \in Nat
        /\ Exposed(s) <= SubQueueSize
    BY <1>0, <2>1, Reached
  <2> QED BY <1>1, <2>1, <2>2
<1>5. index' \in [Consumers -> 0..SubQueueSize]
  BY <1>3, <1>4 DEF Bounds
<1> QED BY <1>1, <1>2, <1>5 DEF Bounds

\* Every consumer that counts has an item of its own.
LEMMA CountingIsBounded ==
  ASSUME NEW n \in Nat, NEW start \in [SubQueues -> Nat], Inv(n, start)
  PROVE  Cardinality(Counting) <= n
<1> DEFINE f == [c \in Counting |-> res[c]]
<1>1. f \in Injection(Counting, 1..n)
  <2>1. /\ \A c \in Counting : res[c] \in 1..n
        /\ \A c \in Counting, d \in Counting : c # d => res[c] # res[d]
    BY DEF Inv, ConsumersOK
  <2>2. f \in [Counting -> 1..n]
    BY <2>1
  <2>3. IsInjective(f)
    BY <2>1 DEF IsInjective
  <2> QED BY <2>1, <2>2, <2>3 DEF Injection
<1>2. IsFiniteSet(1..n) /\ Cardinality(1..n) = n
  BY FS_Interval
<1> QED BY <1>1, <1>2, FS_Injection

\* What the inductive invariant says about every sub-queue, reached or not.
LEMMA EverySubQueue ==
  ASSUME NEW n \in Nat, NEW start \in [SubQueues -> Nat], Inv(n, start),
         NEW s \in SubQueues
  PROVE  /\ rindex[s] \in Nat /\ findex[s] \in Nat /\ windex[s] \in Nat
         /\ rindex[s] <= findex[s] /\ findex[s] <= windex[s] /\ windex[s] <= SubQueueSize
<1>f. Types /\ ListOK /\ ProducerOK
  BY DEF Inv
<1>1. /\ rindex[s] \in Nat /\ findex[s] \in Nat /\ windex[s] \in Nat /\ place \in Nat
      /\ SubQueueSize \in Nat
  BY <1>f DEF Types
<1>2. CASE s \in Range(list) /\ Position(s) <= Position(wpos)
  <2>1. rindex[s] <= Exposed(s) /\ Exposed(s) \in Nat
    BY <1>2, Reached
  <2>2. CASE s = wpos
    <3>1. /\ findex[s] <= windex[s] /\ windex[s] <= SubQueueSize
          /\ ppc \in {"place", "expose"} => findex[s] = windex[s] /\ place < windex[s]
      BY <1>f, <2>2 DEF ProducerOK
    <3>2. Exposed(s) = IF ppc \in {"place", "expose"} THEN place ELSE findex[s]
      BY <2>2 DEF Exposed
    <3> QED BY <1>1, <2>1, <3>1, <3>2
  <2>3. CASE s # wpos
    <3>1. /\ Position(s) \in 1..Len(list) /\ list[Position(s)] = s
          /\ Position(wpos) \in 1..Len(list) /\ list[Position(wpos)] = wpos
          /\ Len(list) \in Nat
      BY <1>2, <1>f, InList
    <3>2. Position(s) < Position(wpos)
      BY <1>2, <2>3, <3>1
    <3>3. findex[s] = SubQueueSize /\ windex[s] = SubQueueSize /\ Exposed(s) = findex[s]
      BY <1>2, <1>f, <2>3, <3>2 DEF ListOK, Exposed
    <3> QED BY <1>1, <2>1, <3>3
  <2> QED BY <2>2, <2>3
<1>3. CASE s \in Range(list) /\ ~(Position(s) <= Position(wpos))
  <2>1. Position(s) \in Nat /\ Position(wpos) \in Nat
    BY <1>3, <1>f, InList
  <2>2. Clean(s)
    BY <1>3, <1>f, <2>1 DEF ListOK
  <2> QED BY <1>1, <2>2 DEF Clean
<1>4. CASE s \notin Range(list)
  <2>1. Clean(s)
    BY <1>4, <1>f DEF ListOK, Free
  <2> QED BY <1>1, <2>1 DEF Clean
<1> QED BY <1>2, <1>3, <1>4

\* What is counted and not visible is in the hand of the producer or behind it.
LEMMA FlightIsBounded ==
  ASSUME NEW n \in Nat, NEW start \in [SubQueues -> Nat], Inv(n, start)
  PROVE  /\ InFlight \in Nat /\ Pending \in Nat
         /\ published + InFlight <= MaxItems /\ published + Pending <= MaxItems
         /\ ppc = "idle" => InFlight = 0
<1>1. /\ Types /\ ProducerOK /\ ItemsOK /\ MaxItems \in Nat
      /\ windex[wpos] \in Nat /\ Exposed(wpos) \in Nat /\ Exposed(wpos) <= windex[wpos]
      /\ published \in Nat /\ nextItem \in 1..(MaxItems + 1)
  <2>1. wpos \in SubQueues /\ windex \in [SubQueues -> Nat]
    BY AtWpos
  <2> QED BY <2>1, AtWpos
<1>2. Pending \in Nat
  BY <1>1 DEF Pending
<1>3. nextItem - 1 = published + Pending + (IF InHand THEN 1 ELSE 0)
  BY <1>1 DEF ItemsOK
<1>4. /\ ppc = "idle" => ~InHand
      /\ ppc = "push" => InHand
  BY DEF InHand
<1>5. InFlight \in Nat /\ InFlight <= Pending + (IF InHand THEN 1 ELSE 0)
  BY <1>2 DEF InFlight
<1>6. ppc = "idle" => InFlight = 0
  BY <1>4 DEF InFlight
<1> QED BY <1>1, <1>2, <1>3, <1>5, <1>6

\* The inductive invariant is at least as strong as the one the runs check.
LEMMA QueueInvFollows ==
  ASSUME IInv, Bounds
  PROVE  QueueInv
<1>0. PICK n \in Nat, start \in [SubQueues -> Nat] : Inv(n, start)
  BY DEF IInv
<1>f. /\ Types /\ ListOK /\ ProducerOK /\ ItemsOK /\ CountOK(n) /\ ConsumersOK(n, start)
      /\ AttachedOK
  BY <1>0 DEF Inv
<1>1. /\ SubQueueSize \in Nat /\ MaxItems \in Nat /\ published \in Nat /\ n <= published
      /\ InFlight \in Nat /\ Pending \in Nat
      /\ published + InFlight <= MaxItems /\ published + Pending <= MaxItems
      /\ ppc = "idle" => InFlight = 0
  BY <1>0, <1>f, VisibleIs, FlightIsBounded, QueueAssumption DEF Types
<1>2. /\ Cardinality(Counting) \in Nat /\ Cardinality(Counting) <= n
      /\ count = (published - n) + Cardinality(Counting) + InFlight
  BY <1>0, <1>f, InList, CountingIsBounded DEF CountOK
<1>3. TypeOK
  <2>1. /\ rindex \in [SubQueues -> 0..SubQueueSize]
        /\ findex \in [SubQueues -> 0..SubQueueSize]
        /\ windex \in [SubQueues -> 0..SubQueueSize]
    <3>1. \A s \in SubQueues : /\ rindex[s] \in 0..SubQueueSize
                               /\ findex[s] \in 0..SubQueueSize
                               /\ windex[s] \in 0..SubQueueSize
      <4>1. ASSUME NEW s \in SubQueues
            PROVE  /\ rindex[s] \in 0..SubQueueSize
                   /\ findex[s] \in 0..SubQueueSize
                   /\ windex[s] \in 0..SubQueueSize
        BY <1>0, <1>1, EverySubQueue
      <4> QED BY <4>1
    <3>2. /\ rindex \in [SubQueues -> Nat] /\ findex \in [SubQueues -> Nat]
          /\ windex \in [SubQueues -> Nat]
      BY <1>f DEF Types
    <3> QED BY <3>1, <3>2
  <2>2. /\ attached \in [SubQueues -> 0..Cardinality(Consumers)]
        /\ consumerCount \in 0..Cardinality(Consumers)
    <3>1. IsFiniteSet(Consumers) /\ Cardinality(Consumers) \in Nat
      BY QueueAssumption, FS_CardinalityType
    <3>2. ASSUME NEW T \in SUBSET Consumers
          PROVE  Cardinality(T) \in 0..Cardinality(Consumers)
      BY <3>1, FS_Subset, FS_CardinalityType
    <3>3. Attached \in SUBSET Consumers /\ \A s : In(s) \in SUBSET Consumers
      BY DEF Attached, In
    <3>4. \A s \in SubQueues : attached[s] \in 0..Cardinality(Consumers)
      BY <1>f, <3>2, <3>3 DEF AttachedOK
    <3>5. consumerCount \in 0..Cardinality(Consumers)
      BY <1>f, <3>2, <3>3 DEF AttachedOK
    <3>6. attached \in [SubQueues -> Int]
      BY <1>f DEF Types
    <3> QED BY <3>4, <3>5, <3>6
  <2>3. count \in 0..MaxItems /\ published \in 0..MaxItems
    BY <1>1, <1>2
  <2>4. pendingCount \in 0..MaxItems
    BY <1>1, <1>f DEF ItemsOK
  <2> QED BY <1>f, <2>1, <2>2, <2>3, <2>4 DEF Types, Bounds, TypeOK, Ppcs, Cpcs
<1>4. IndexOrder
  <2>1. \A s \in SubQueues : rindex[s] <= findex[s] /\ findex[s] <= windex[s]
    <3>1. ASSUME NEW s \in SubQueues
          PROVE  rindex[s] <= findex[s] /\ findex[s] <= windex[s]
      BY <1>0, EverySubQueue
    <3> QED BY <3>1
  <2>2. ppc = "expose" => cells[wpos][place] = Null
    BY <1>f DEF ProducerOK, Exposed
  <2>3. ppc = "flush_expose" =>
           cells[wpos][findex[wpos]] = Null /\ findex[wpos] < windex[wpos]
    BY <1>f DEF ProducerOK, Exposed
  <2> QED BY <2>1, <2>2, <2>3 DEF IndexOrder
<1>5. ConsumersBehindWpos
  <2>1. \A s \in Range(list) : Position(s) > Position(wpos) =>
           windex[s] = 0 /\ rindex[s] = 0 /\ cells[s][0] = Null
    BY <1>f DEF ListOK, Clean
  <2>2. \A s \in SubQueues : attached[s] = Cardinality({c \in Attached : cur[c] = s})
    BY <1>f DEF AttachedOK, In
  <2> QED BY <1>f, <2>1, <2>2 DEF ListOK, ConsumersOK, ConsumersBehindWpos
<1>6. CountCoversItems
  <2>1. Visible = Run(n, published)
    BY <1>0, VisibleIs
  <2>2. Len(Visible) = published - n
    BY <1>1, <2>1, Runs
  <2> QED BY <1>1, <1>2, <2>2 DEF CountCoversItems
<1> QED BY <1>3, <1>4, <1>5, <1>6 DEF QueueInv

\* In every state the indexes are in their order and an item is exposed at a null
\* cell (the assertions of the sub-queue), no consumer is behind wpos, and the count
\* covers what can be popped ("it is very important to update the count before
\* pushing the element").
THEOREM StateIsRight == Spec => []QueueInv
<1>1. Init => Bounds
  <2> SUFFICES ASSUME Init PROVE Bounds
    OBVIOUS
  <2>1. SubQueueSize \in Nat
    BY InitOK DEF IInv, Inv, Types
  <2>2. place = 0 /\ index = [c \in Consumers |-> 0]
    BY DEF Init
  <2> QED BY <2>1, <2>2 DEF Bounds
<1>2. IInv /\ Bounds /\ [Next]_vars => Bounds'
  BY BoundsKept
<1>3. IInv /\ Bounds => QueueInv
  BY QueueInvFollows
<1> QED BY <1>1, <1>2, <1>3, Invariant, PTL DEF Spec

-----------------------------------------------------------------------------
(* The queue is a FIFO queue.                                               *)

\* How many items have been taken.
Taken == published + Cardinality(Counting) + InFlight - count

\* The items that can be taken are those behind the ones that have been.
VisibleOK == Visible = Run(Taken, published)

\* The number of items taken follows from the counters.
LEMMA TakenIs ==
  ASSUME NEW n \in Nat, NEW start \in [SubQueues -> Nat], Inv(n, start)
  PROVE  Taken = n
<1>1. Types /\ ListOK /\ CountOK(n)
  BY DEF Inv
<1>2. published \in Nat /\ count \in Int
  BY <1>1 DEF Types
<1>3. Cardinality(Counting) \in Nat /\ InFlight \in Nat
  BY <1>1, InList, FlightIsBounded
<1> QED BY <1>1, <1>2, <1>3 DEF CountOK, Taken

\* The invariant says which items can be taken.
LEMMA VisibleFollows ==
  ASSUME IInv
  PROVE  VisibleOK
<1>1. PICK n \in Nat, start \in [SubQueues -> Nat] : Inv(n, start)
  BY DEF IInv
<1>2. Taken = n /\ Visible = Run(n, published)
  BY <1>1, TakenIs, VisibleIs
<1> QED BY <1>2 DEF VisibleOK

\* TakenIs, of the state after a step.
LEMMA TakenNext ==
  ASSUME NEW n \in Nat, NEW start \in [SubQueues -> Nat], NEW m \in Nat,
         NEW st \in [SubQueues -> Nat], Inv(n, start), Inv(m, st)', [Next]_vars
  PROVE  Taken' = m /\ published' \in Nat /\ m <= published'
<1>1. /\ CountOK(m)' /\ published' \in Nat /\ count' \in Int
      /\ m <= published'
  BY DEF Inv, Types, Order
<1>2. Cardinality(Counting)' \in Nat
  <2>1. Counting' \in SUBSET Consumers
    BY DEF Counting
  <2>2. Cardinality(Counting') \in Nat
    BY <2>1, QueueAssumption, FS_Subset, FS_CardinalityType
  <2> QED BY <2>2
<1>3. InFlight' \in Int
  <2>1. /\ windex' \in [SubQueues -> Nat] /\ findex' \in [SubQueues -> Nat]
        /\ place' \in Nat /\ wpos' \in SubQueues
    BY DEF Inv, Types
  <2>2. Exposed(wpos)' \in Nat
    BY <2>1 DEF Exposed
  <2>3. Pending' \in Int
    BY <2>1, <2>2 DEF Pending
  <2> QED BY <2>3 DEF InFlight
<1> QED BY <1>1, <1>2, <1>3 DEF CountOK, Taken

Answers == [c \in Consumers |-> Answer(c)]

\* A step of one consumer changes its answer only.
LEMMA AnswersChange ==
  ASSUME NEW c \in Consumers,
         \A d \in Consumers : d # c => cpc'[d] = cpc[d] /\ res'[d] = res[d]
  PROVE  /\ cpc'[c] = "count" => Answers' = [Answers EXCEPT ![c] = res'[c]]
         /\ cpc'[c] = "nothing" => Answers' = [Answers EXCEPT ![c] = -1]
         /\ cpc'[c] \notin {"count", "nothing"} => Answers' = [Answers EXCEPT ![c] = 0]
<1>1. Answers = [d \in Consumers |-> Answer(d)]
  BY DEF Answers
<1>2. Answers' = [d \in Consumers |->
                    CASE cpc'[d] = "count" -> res'[d]
                      [] cpc'[d] = "nothing" -> -1
                      [] OTHER -> 0]
  BY DEF Answers, Answer
<1>3. \A d \in Consumers : d # c => Answers'[d] = Answers[d]
  BY <1>1, <1>2 DEF Answer
<1>4. Answers' = [d \in Consumers |-> Answers'[d]] /\ Answers = [d \in Consumers |-> Answers[d]]
  BY <1>1, <1>2
<1>5. /\ cpc'[c] = "count" => Answers'[c] = res'[c]
      /\ cpc'[c] = "nothing" => Answers'[c] = -1
      /\ cpc'[c] \notin {"count", "nothing"} => Answers'[c] = 0
  BY <1>2
<1> HIDE DEF Answers
<1> QED BY <1>3, <1>4, <1>5

\* What a state and the next one show, when no item is taken.
LEMMA Shown ==
  ASSUME NEW n \in Nat, NEW start \in [SubQueues -> Nat], Inv(n, start),
         [Next]_vars, VisibleOK, VisibleOK',
         ~\E c \in Consumers : ExchangeIndex(c)
  PROVE  /\ Visible = Run(n, published) /\ Visible' = Run(n, published')
         /\ n <= published /\ published \in Nat /\ published' \in Nat
<1>1. PICK st \in [SubQueues -> Nat] : Inv(n, st)'
  BY StepKeeps
<1>2. Taken = n /\ n <= published /\ published \in Nat
  BY TakenIs, VisibleIs
<1>3. Taken' = n /\ published' \in Nat
  BY <1>1, TakenNext
<1> QED BY <1>2, <1>3 DEF VisibleOK

\* The step publishes k items.
Publishes(k) == published' = published + k

\* The exposure of k items publishes them.
LEMMA ExposePublishes ==
  ASSUME NEW n \in Nat, NEW start \in [SubQueues -> Nat], Inv(n, start),
         [Next]_vars, VisibleOK, VisibleOK',
         NEW k \in 1..MaxItems, Publishes(k), UNCHANGED <<cpc, res>>,
         ~\E c \in Consumers : ExchangeIndex(c)
  PROVE  Fifo!Next
<1>1. /\ Visible = Run(n, published) /\ Visible' = Run(n, published')
      /\ n <= published /\ published \in Nat /\ published' \in Nat /\ k \in Nat
  <2>1. k \in Nat
    BY QueueAssumption
  <2>2. /\ Visible = Run(n, published) /\ Visible' = Run(n, published')
        /\ n <= published /\ published \in Nat /\ published' \in Nat
    BY Shown
  <2> QED BY <2>1, <2>2
<1>2. Run(n, published) \o Run(published, published + k) = Run(n, published + k)
  <2>1. published + k \in Nat /\ published <= published + k
    BY <1>1
  <2> QED BY <1>1, <2>1, RunsJoin
<1>3. Run(published, published + k) = [i \in 1..k |-> published + i]
  <2>1. (published + k) - published = k
    BY <1>1
  <2> QED BY <2>1 DEF Run
<1>4. Visible' = Visible \o [i \in 1..k |-> published + i]
  <2>1. Visible' = Run(n, published + k)
    BY <1>1 DEF Publishes
  <2> QED BY <1>1, <1>2, <1>3, <2>1
<1>5. Answers' = Answers
  BY DEF Answers, Answer
<1>6. Fifo!Publish(k)
  BY <1>4, <1>5 DEF Fifo!Publish, Answers, Publishes
<1> QED BY <1>6 DEF Fifo!Next

\* An exchange takes the first item.
LEMMA ExchangeTakes ==
  ASSUME NEW n \in Nat, NEW start \in [SubQueues -> Nat], Inv(n, start),
         [Next]_vars, VisibleOK, VisibleOK', NEW c \in Consumers, ExchangeIndex(c)
  PROVE  Fifo!Next
<1>1. Inv(n + 1, start)' /\ res[c] = n + 1 /\ n + 1 <= published /\ n + 1 \in Nat
  BY ExchangePreserves
<1>2. Taken = n /\ Taken' = n + 1 /\ published \in Nat
  BY <1>1, TakenIs, TakenNext, VisibleIs
<1>0. /\ published' = published /\ res' = res /\ cpc' = [cpc EXCEPT ![c] = "count"]
  BY DEF ExchangeIndex, Goto, Set
<1>3. Visible = Run(n, published) /\ Visible' = Run(n + 1, published)
  BY <1>0, <1>2 DEF VisibleOK
<1>4. /\ Visible \in Seq(Nat) /\ Len(Visible) = published - n
      /\ \A j \in 1..(published - n) : Visible[j] = n + j
      /\ Visible' \in Seq(Nat) /\ Len(Visible') = published - (n + 1)
      /\ \A j \in 1..(published - (n + 1)) : Visible'[j] = (n + 1) + j
  <2>1. n <= published
    BY <1>1, <1>2
  <2>2. /\ Visible \in Seq(Nat) /\ Len(Visible) = published - n
        /\ \A j \in 1..(published - n) : Visible[j] = n + j
    BY <1>2, <1>3, <2>1, Runs
  <2>3. /\ Visible' \in Seq(Nat) /\ Len(Visible') = published - (n + 1)
        /\ \A j \in 1..(published - (n + 1)) : Visible'[j] = (n + 1) + j
    BY <1>1, <1>2, <1>3, Runs
  <2> QED BY <2>2, <2>3
<1>5. Visible # <<>> /\ Head(Visible) = n + 1
  <2>1. Visible # <<>>
    BY <1>1, <1>2, <1>4
  <2>2. 1 \in 1..(published - n) /\ Visible[1] = n + 1
    BY <1>1, <1>2, <1>4
  <2> QED BY <1>4, <2>1, <2>2
<1>6. Visible' = Tail(Visible)
  <2>1. /\ Tail(Visible) \in Seq(Nat) /\ Len(Tail(Visible)) = Len(Visible) - 1
        /\ \A i \in 1..Len(Tail(Visible)) : Tail(Visible)[i] = Visible[i + 1]
    BY <1>4, <1>5, HeadTailProperties
  <2>2. Len(Tail(Visible)) = Len(Visible')
    BY <1>1, <1>2, <1>4, <2>1
  <2>3. ASSUME NEW j \in 1..(published - (n + 1))
        PROVE  Visible'[j] = Tail(Visible)[j]
    <3>1. j + 1 \in 1..(published - n) /\ n + (j + 1) = (n + 1) + j
      BY <1>1, <1>2
    <3>2. Tail(Visible)[j] = Visible[j + 1]
      BY <1>4, <2>1, <2>2
    <3>3. Visible[j + 1] = n + (j + 1)
      BY <1>4, <3>1
    <3>4. Visible'[j] = (n + 1) + j
      BY <1>4
    <3> QED BY <3>1, <3>2, <3>3, <3>4
  <2> QED BY <1>4, <2>1, <2>2, <2>3, SeqEqual
<1>7. Answers' = [Answers EXCEPT ![c] = n + 1]
  <2>1. cpc'[c] = "count" /\ \A d \in Consumers : d # c => cpc'[d] = cpc[d] /\ res'[d] = res[d]
    <3>1. cpc \in [Consumers -> Cpcs]
      BY DEF Inv, Types
    <3> QED BY <1>0, <3>1
  <2> QED BY <1>0, <1>1, <2>1, AnswersChange
<1>8. Fifo!Take(c)
  BY <1>0, <1>5, <1>6, <1>7 DEF Fifo!Take, Answers
<1> QED BY <1>8 DEF Fifo!Next

\* Pop() returns nothing: at a null cell, or at the end of the sub-queue at wpos.
LEMMA NothingIsLeft ==
  ASSUME NEW n \in Nat, NEW start \in [SubQueues -> Nat], Inv(n, start),
         NEW c \in Consumers,
         \/ LoadItem(c) /\ cells[cur[c]][index[c]] = Null
         \/ SwitchSubQueue(c) /\ cur[c] = wpos
  PROVE  n = published
<1>f. Types /\ ListOK /\ Order(n, start) /\ ConsumersOK(n, start)
  BY DEF Inv
<1>1. c \in Attached /\ cpc[c] \in {"load", "switch"}
  BY DEF LoadItem, SwitchSubQueue, Attached
<1>2. PICK s \in Range(list) : s = cur[c] /\ Position(s) <= Position(wpos) /\ start[s] <= n + 1
  BY <1>1, <1>f DEF ConsumersOK
<1>3. /\ start[s] \in Nat /\ start[s] >= 1
      /\ rindex[s] \in Nat /\ rindex[s] <= Exposed(s)
      /\ Exposed(s) \in Nat /\ Exposed(s) <= SubQueueSize
      /\ SubQueueSize \in Nat \ {0} /\ published \in Nat
      /\ s # wpos => Exposed(s) = SubQueueSize
      /\ \A k \in 0..SubQueueSize : k < Exposed(s) => cells[s][k] = start[s] + k
      /\ rindex[s] = IF n < start[s] THEN 0
                     ELSE IF n + 1 - start[s] >= SubQueueSize THEN SubQueueSize
                     ELSE n + 1 - start[s]
  BY <1>2, Reached
<1>4. n <= published /\ start[wpos] + Exposed(wpos) = published + 1
  BY <1>f DEF Order
<1>5. s = wpos /\ rindex[s] = Exposed(s)
  <2>1. CASE LoadItem(c) /\ cells[cur[c]][index[c]] = Null
    <3>1. cpc[c] = "load"
      BY <2>1 DEF LoadItem
    <3>2. index[c] <= rindex[s] /\ index[c] < SubQueueSize /\ index[c] \in Nat
      BY <1>2, <1>f, <3>1 DEF ConsumersOK, Types
    <3>3. ~(index[c] < Exposed(s))
      <4>1. SUFFICES ASSUME index[c] < Exposed(s) PROVE FALSE
        OBVIOUS
      <4>2. index[c] \in 0..SubQueueSize
        BY <1>3, <3>2
      <4>3. cells[s][index[c]] = start[s] + index[c]
        BY <1>3, <4>1, <4>2
      <4>4. start[s] + index[c] = 0
        BY <1>2, <2>1, <4>3 DEF Null
      <4> QED BY <1>3, <3>2, <4>4
    <3> QED BY <1>3, <3>2, <3>3
  <2>2. CASE SwitchSubQueue(c) /\ cur[c] = wpos
    <3>1. cpc[c] = "switch" /\ s = wpos
      BY <1>2, <2>2 DEF SwitchSubQueue
    <3>2. rindex[s] = SubQueueSize
      BY <1>2, <1>f, <3>1 DEF ConsumersOK
    <3> QED BY <1>3, <3>1, <3>2
  <2> QED BY <2>1, <2>2
<1>6. start[s] + rindex[s] = published + 1
  BY <1>4, <1>5
<1> QED BY <1>2, <1>3, <1>4, <1>6

\* A consumer that finds nothing, and one that goes on.
LEMMA ConsumerSimulated ==
  ASSUME NEW n \in Nat, NEW start \in [SubQueues -> Nat], Inv(n, start),
         [Next]_vars, VisibleOK, VisibleOK', NEW c \in Consumers,
         Attach(c) \/ Detach(c) \/ ConsumerStep(c),
         ~\E d \in Consumers : ExchangeIndex(d)
  PROVE  Fifo!Next
<1>1. cpc \in [Consumers -> Cpcs] /\ res \in [Consumers -> 0..MaxItems]
  BY DEF Inv, Types
<1>2. /\ published' = published
      /\ \A d \in Consumers : d # c => cpc'[d] = cpc[d] /\ res'[d] = res[d]
      /\ cpc'[c] # "count"
      /\ cpc'[c] = "nothing" =>
            \/ LoadItem(c) /\ cells[cur[c]][index[c]] = Null
            \/ SwitchSubQueue(c) /\ cur[c] = wpos
  <2>1. CASE Attach(c) \/ Detach(c) \/ DecrementCount(c)
    BY <1>1, <2>1 DEF Attach, Detach, DecrementCount, Goto, Set
  <2>2. CASE Pop(c) \/ ExchangeFails(c)
    BY <1>1, <2>2 DEF Pop, ExchangeFails, LoadIndex, Goto, Set
  <2>3. CASE LoadItem(c)
    BY <1>1, <2>3 DEF LoadItem, Goto, Set
  <2>4. CASE SwitchSubQueue(c)
    BY <1>1, <2>4 DEF SwitchSubQueue, Goto, Set
  <2> QED BY <2>1, <2>2, <2>3, <2>4 DEF ConsumerStep
<1>3. /\ Visible = Run(n, published) /\ Visible' = Visible /\ n <= published
      /\ published \in Nat
  BY <1>2, Shown
<1>4. CASE cpc'[c] = "nothing"
  <2>1. n = published
    BY <1>2, <1>4, NothingIsLeft
  <2>2. Visible = <<>>
    <3>1. Visible \in Seq(Nat) /\ Len(Visible) = published - n
      BY <1>3, Runs
    <3> QED BY <2>1, <3>1
  <2>3. Answers' = [Answers EXCEPT ![c] = -1]
    BY <1>2, <1>4, AnswersChange
  <2>4. Fifo!FindNothing(c)
    BY <1>2, <1>3, <2>2, <2>3 DEF Fifo!FindNothing, Fifo!Nothing, Answers
  <2> QED BY <2>4 DEF Fifo!Next
<1>5. CASE cpc'[c] # "nothing"
  <2>1. Answers' = [Answers EXCEPT ![c] = 0]
    BY <1>2, <1>5, AnswersChange
  <2>2. Fifo!Continue(c)
    BY <1>2, <1>3, <2>1 DEF Fifo!Continue, Fifo!NoneYet, Answers
  <2> QED BY <2>2 DEF Fifo!Next
<1> QED BY <1>4, <1>5

\* The exposure of the pending items, or a step that nobody sees.
LEMMA ProducerSimulated ==
  ASSUME NEW n \in Nat, NEW start \in [SubQueues -> Nat], Inv(n, start),
         [Next]_vars, VisibleOK, VisibleOK',
         \/ ProducerStep \/ Push \/ PushPending \/ FlushPending \/ Reserve
         \/ UNCHANGED vars,
         ~\E d \in Consumers : ExchangeIndex(d)
  PROVE  [Fifo!Next]_(Fifo!vars)
<1>1. UNCHANGED <<cpc, res>>
  BY DEF ProducerStep, Push, PushPending, FlushPending, Reserve, PushTerminate, PushPlace,
     PushExpose, PushFull, Pend, PendFull, FlushTerminate, FlushExpose, NextWpos, vars,
     consumerVars
<1>2. /\ Pending \in Nat /\ published + Pending <= MaxItems /\ published \in Nat
      /\ MaxItems \in Nat /\ ProducerOK
      /\ windex[wpos] \in Nat /\ findex[wpos] \in Nat /\ place \in Nat
  <2>1. wpos \in SubQueues /\ windex \in [SubQueues -> Nat] /\ findex \in [SubQueues -> Nat]
        /\ place \in Nat /\ published \in Nat /\ MaxItems \in Nat /\ ProducerOK
    BY AtWpos
  <2> QED BY <2>1, FlightIsBounded
<1>3. CASE PushExpose
  <2>1. Pending = windex[wpos] - place /\ Pending > 0
        /\ published' = published + (windex[wpos] - place)
    BY <1>2, <1>3 DEF PushExpose, ProducerOK, Pending, Exposed
  <2>2. Pending \in 1..MaxItems /\ Publishes(Pending)
    BY <1>2, <2>1 DEF Publishes
  <2> QED BY <1>1, <2>2, ExposePublishes
<1>4. CASE FlushExpose
  <2>1. Pending = windex[wpos] - findex[wpos] /\ Pending > 0
        /\ published' = published + (windex[wpos] - findex[wpos])
    BY <1>2, <1>4 DEF FlushExpose, ProducerOK, Pending, Exposed
  <2>2. Pending \in 1..MaxItems /\ Publishes(Pending)
    BY <1>2, <2>1 DEF Publishes
  <2> QED BY <1>1, <2>2, ExposePublishes
<1>5. CASE ~PushExpose /\ ~FlushExpose
  <2>1. published' = published
    BY <1>5 DEF ProducerStep, Push, PushPending, FlushPending, Reserve, PushTerminate,
       PushPlace, PushFull, Pend, PendFull, FlushTerminate, NextWpos, vars
  <2>2. Visible' = Visible
    BY <2>1, Shown
  <2>3. Answers' = Answers
    BY <1>1 DEF Answers, Answer
  <2> QED BY <2>1, <2>2, <2>3 DEF Fifo!vars, Answers
<1> QED BY <1>3, <1>4, <1>5

\* Every step is one of the FIFO queue, or none.
LEMMA StepSimulated ==
  ASSUME IInv, VisibleOK, VisibleOK', [Next]_vars
  PROVE  [Fifo!Next]_(Fifo!vars)
<1>1. PICK n \in Nat, start \in [SubQueues -> Nat] : Inv(n, start)
  BY DEF IInv
<1>2. CASE \E c \in Consumers : ExchangeIndex(c)
  BY <1>1, <1>2, ExchangeTakes
<1>3. CASE ~\E c \in Consumers : ExchangeIndex(c)
  <2>1. CASE \/ ProducerStep \/ Push \/ PushPending \/ FlushPending \/ Reserve
             \/ UNCHANGED vars
    BY <1>1, <1>3, <2>1, ProducerSimulated
  <2>2. CASE \E c \in Consumers : Attach(c) \/ Detach(c) \/ ConsumerStep(c)
    BY <1>1, <1>3, <2>2, ConsumerSimulated
  <2> QED BY <2>1, <2>2 DEF Next
<1> QED BY <1>2, <1>3

\* The queue is the FIFO queue of its header: bulks become visible at once, items are
\* taken one by one in the order of the pushes, and Pop() returns nothing only if
\* nothing is visible.
THEOREM ItIsFifo == Spec => ImplementsFifoQueue
<1>1. Init => Fifo!Init
  <2> SUFFICES ASSUME Init PROVE Fifo!Init
    OBVIOUS
  <2>1. PICK n \in Nat, start \in [SubQueues -> Nat] : Inv(n, start)
    BY InitOK DEF IInv
  <2>2. published = 0 /\ n = 0
    <3>1. published = 0 /\ n <= published
      BY <2>1, VisibleIs DEF Init
    <3> QED BY <3>1
  <2>3. Visible = <<>>
    <3>1. Visible = Run(0, 0)
      BY <2>1, <2>2, VisibleIs
    <3>2. Run(0, 0) \in Seq(Nat) /\ Len(Run(0, 0)) = 0
      BY Runs
    <3> QED BY <3>1, <3>2
  <2>4. Answers = [c \in Consumers |-> 0]
    <3>1. \A c \in Consumers : cpc[c] = "detached"
      BY DEF Init
    <3>2. \A c \in Consumers : Answer(c) = 0
      BY <3>1 DEF Answer
    <3> QED BY <3>2 DEF Answers
  <2> QED BY <2>2, <2>3, <2>4 DEF Fifo!Init, Fifo!NoneYet, Answers
<1>2. IInv => VisibleOK
  BY VisibleFollows
<1>3. IInv /\ VisibleOK /\ VisibleOK' /\ [Next]_vars => [Fifo!Next]_(Fifo!vars)
  BY StepSimulated
<1> QED BY <1>1, <1>2, <1>3, Invariant, PTL DEF Spec, ImplementsFifoQueue, Fifo!Spec

=============================================================================
