------------------------- MODULE MultiConsumerQueue -------------------------
(***************************************************************************)
(* The queue of ready tasks, src/mg/box/MultiConsumerQueueBase.{h,cpp}: a  *)
(* list of bounded lock-free sub-queues, one producer that writes to the   *)
(* sub-queue at wpos, consumers that each keep a place of their own in the *)
(* list and move the sub-queues they have read up from its head to its     *)
(* tail.  The list is changed under myLock only, in one step here.         *)
(*                                                                         *)
(* An item is the number of its push, so the order is visible.  A cell not *)
(* written since its sub-queue was allocated holds Garbage, and a recycled *)
(* sub-queue keeps the items of its former life.                           *)
(***************************************************************************)
EXTENDS Integers, FiniteSets, SequencesExt

CONSTANTS
    Consumers,
    SubQueues,  \* the sub-queues that may be allocated: numbers
    SubQueueSizes,
    MaxItems,   \* bound: how many items are pushed
    MaxReserve  \* how many sub-queues Reserve() asks for

ASSUME QueueAssumption ==
    /\ SubQueues \subseteq Nat /\ SubQueues # {}
    /\ SubQueueSizes \subseteq Nat \ {0}
    /\ MaxItems \in Nat /\ MaxReserve \in Nat
    /\ IsFiniteSet(Consumers)

Null == 0
Garbage == -1

VARIABLES
    \* sub-queues: the list from myHead to myTail, and what each of them has
    list, rindex, findex, windex, cells, firstPending, attached,
    \* the queue
    wpos, count, consumerCount,
    \* the producer: myPendingCount, its place in the code, its arguments
    pendingCount, ppc, after, item, place, becameNotEmpty, nextItem,
    \* consumers: their place in the code, mySubQueue, rindex and item of Pop()
    cpc, cur, index, res,
    \* history: how many items have been made visible
    published

listVars == <<list, attached, wpos>>
producerVars == <<pendingCount, ppc, after, item, place, becameNotEmpty,
                  nextItem>>
consumerVars == <<cpc, cur, index, res>>
vars == <<listVars, rindex, findex, windex, cells, firstPending, count,
          consumerCount, producerVars, consumerVars, published>>

\* mySubQueueSize of the queue; a sub-queue has one more cell.
SubQueueSize == Cardinality(DOMAIN cells[CHOOSE s \in SubQueues : TRUE]) - 1

First == CHOOSE s \in SubQueues : \A t \in SubQueues : s <= t

\* The place of a sub-queue in the list.
Position(s) == CHOOSE i \in 1..Len(list) : list[i] = s

Free == SubQueues \ Range(list)

Set(f, x, v) == [f EXCEPT ![x] = v]
Add(f, x, n) == [f EXCEPT ![x] = @ + n]

Init ==
    /\ list = <<First>> /\ wpos = First
    /\ rindex = [s \in SubQueues |-> 0]
    /\ findex = [s \in SubQueues |-> 0]
    /\ windex = [s \in SubQueues |-> 0]
    /\ \E size \in SubQueueSizes :
          cells = [s \in SubQueues |->
                     [i \in 0..size |-> IF i = 0 THEN Null ELSE Garbage]]
    /\ firstPending = [s \in SubQueues |-> Null]
    /\ attached = [s \in SubQueues |-> 0]
    /\ count = 0 /\ consumerCount = 0
    /\ pendingCount = 0 /\ ppc = "idle" /\ after = "idle" /\ item = Null
    /\ place = 0 /\ becameNotEmpty = FALSE /\ nextItem = 1
    /\ cpc = [c \in Consumers |-> "detached"]
    /\ cur = [c \in Consumers |-> First]
    /\ index = [c \in Consumers |-> 0]
    /\ res = [c \in Consumers |-> Null]
    /\ published = 0

-----------------------------------------------------------------------------
(* The producer.                                                            *)

Store(i, v) == cells' = [cells EXCEPT ![wpos][i] = v]

Call(next) ==
    /\ ppc = "idle"
    /\ nextItem <= MaxItems
    /\ item' = nextItem
    /\ nextItem' = nextItem + 1
    /\ ppc' = next

\* The pending items are forgotten.
CountItem(n) ==
    /\ count' = count + 1
    /\ becameNotEmpty' = (count = 0)
    /\ pendingCount' = 0

\* myCount.FetchAddRelaxed(): the items count before anybody can take them.
CountItems(n) ==
    /\ count' = count + n
    /\ becameNotEmpty' = (count = 0)
    /\ pendingCount' = 0

\* Push().
Push ==
    /\ Call("push")
    /\ CountItems(pendingCount + 1)
    /\ UNCHANGED <<listVars, rindex, findex, windex, cells, firstPending,
                   consumerCount, after, place, consumerVars, published>>

\* The sub-queue's Push(): "it shall ensure that the next cell will become null".
PushTerminate ==
    /\ ppc = "push"
    /\ windex[wpos] < SubQueueSize
    /\ Store(windex[wpos] + 1, Null)
    /\ place' = findex[wpos]
    /\ windex' = Add(windex, wpos, 1)
    /\ findex' = Set(findex, wpos, windex[wpos] + 1)
    /\ ppc' = IF firstPending[wpos] # Null THEN "place" ELSE "expose"
    /\ UNCHANGED <<listVars, rindex, firstPending, count, consumerCount,
                   pendingCount, after, item, becameNotEmpty, nextItem,
                   consumerVars, published>>

\* The item goes behind the pending ones, of which the first is exposed.
PushPlace ==
    /\ ppc = "place"
    /\ Store(windex[wpos] - 1, item)
    /\ item' = firstPending[wpos]
    /\ firstPending' = Set(firstPending, wpos, Null)
    /\ ppc' = "expose"
    /\ UNCHANGED <<listVars, rindex, findex, windex, count, consumerCount,
                   pendingCount, after, place, becameNotEmpty, nextItem,
                   consumerVars, published>>

PushExpose ==
    /\ ppc = "expose"
    /\ Store(place, item)
    /\ published' = published + (windex[wpos] - place)
    /\ ppc' = "idle"
    /\ UNCHANGED <<listVars, rindex, findex, windex, firstPending, count,
                   consumerCount, pendingCount, after, item, place,
                   becameNotEmpty, nextItem, consumerVars>>

\* The sub-queue is full: flush it and take the next one.
PushFull ==
    /\ ppc = "push"
    /\ windex[wpos] = SubQueueSize
    /\ after' = "push"
    /\ ppc' = IF firstPending[wpos] # Null THEN "flush" ELSE "next"
    /\ UNCHANGED <<listVars, rindex, findex, windex, cells, firstPending, count,
                   consumerCount, pendingCount, item, place, becameNotEmpty,
                   nextItem, consumerVars, published>>

\* PushPending(), and the sub-queue's.
PushPending ==
    /\ Call("pend")
    /\ UNCHANGED <<listVars, rindex, findex, windex, cells, firstPending, count,
                   consumerCount, pendingCount, after, place, becameNotEmpty,
                   consumerVars, published>>

Pend ==
    /\ ppc = "pend"
    /\ windex[wpos] < SubQueueSize
    /\ IF firstPending[wpos] = Null
       THEN firstPending' = Set(firstPending, wpos, item) /\ UNCHANGED cells
       ELSE Store(windex[wpos], item) /\ UNCHANGED firstPending
    /\ windex' = Add(windex, wpos, 1)
    /\ pendingCount' = pendingCount + 1
    /\ ppc' = "idle"
    /\ UNCHANGED <<listVars, rindex, findex, count, consumerCount, after, item,
                   place, becameNotEmpty, nextItem, consumerVars, published>>

PendFull ==
    /\ ppc = "pend"
    /\ windex[wpos] = SubQueueSize
    /\ after' = "pend"
    /\ IF pendingCount > 0
       THEN CountItems(pendingCount) /\ ppc' = "flush"
       ELSE ppc' = "next" /\ UNCHANGED <<count, becameNotEmpty, pendingCount>>
    /\ UNCHANGED <<listVars, rindex, findex, windex, cells, firstPending,
                   consumerCount, item, place, nextItem, consumerVars,
                   published>>

\* FlushPending(), and the sub-queue's.
FlushPending ==
    /\ ppc = "idle"
    /\ pendingCount > 0
    /\ CountItems(pendingCount)
    /\ after' = "idle"
    /\ ppc' = "flush"
    /\ UNCHANGED <<listVars, rindex, findex, windex, cells, firstPending,
                   consumerCount, item, place, nextItem, consumerVars,
                   published>>

FlushTerminate ==
    /\ ppc = "flush"
    /\ Store(windex[wpos], Null)
    /\ ppc' = "flush_expose"
    /\ UNCHANGED <<listVars, rindex, findex, windex, firstPending, count,
                   consumerCount, pendingCount, after, item, place,
                   becameNotEmpty, nextItem, consumerVars, published>>

FlushExpose ==
    /\ ppc = "flush_expose"
    /\ Store(findex[wpos], firstPending[wpos])
    /\ firstPending' = Set(firstPending, wpos, Null)
    /\ findex' = Set(findex, wpos, windex[wpos])
    /\ published' = published + (windex[wpos] - findex[wpos])
    /\ ppc' = IF after = "idle" THEN "idle" ELSE "next"
    /\ UNCHANGED <<listVars, rindex, windex, count, consumerCount, pendingCount,
                   after, item, place, becameNotEmpty, nextItem, consumerVars>>

Successor(s) == list[CHOOSE i \in 2..Len(list) : list[i - 1] = s]

\* PrivNextWpos(), and back to the push that found the sub-queue full.
NextWpos ==
    /\ ppc = "next"
    /\ IF wpos # Last(list)
       THEN wpos' = Successor(wpos) /\ UNCHANGED list
       ELSE \E s \in Free :
               /\ \A t \in Free : s <= t
               /\ list' = Append(list, s)
               /\ wpos' = s
    /\ ppc' = after
    /\ UNCHANGED <<rindex, findex, windex, cells, firstPending, attached, count,
                   consumerCount, pendingCount, after, item, place,
                   becameNotEmpty, nextItem, consumerVars, published>>

\* Reserve(): one more sub-queue at a time.
Reserve ==
    /\ ppc = "idle"
    /\ Len(list) < MaxReserve
    /\ \E s \in Free : (\A t \in Free : s <= t) /\ list' = Append(list, s)
    /\ UNCHANGED <<attached, wpos, rindex, findex, windex, cells, firstPending,
                   count, consumerCount, producerVars, consumerVars, published>>

-----------------------------------------------------------------------------
(* The consumers.                                                           *)

Goto(c, label) == cpc' = Set(cpc, c, label)

\* A consumer that joins where the producer is.
AttachToWpos(c) ==
    /\ cpc[c] = "detached"
    /\ consumerCount' = consumerCount + 1
    /\ attached' = Add(attached, wpos, 1)
    /\ cur' = Set(cur, c, wpos)
    /\ Goto(c, "idle")
    /\ UNCHANGED <<list, wpos, rindex, findex, windex, cells, firstPending,
                   count, producerVars, index, res, published>>

\* Attach(): to the head of the list.
Attach(c) ==
    /\ cpc[c] = "detached"
    /\ consumerCount' = consumerCount + 1
    /\ attached' = Add(attached, Head(list), 1)
    /\ cur' = Set(cur, c, Head(list))
    /\ Goto(c, "idle")
    /\ UNCHANGED <<list, wpos, rindex, findex, windex, cells, firstPending,
                   count, producerVars, index, res, published>>

\* The guards of PrivGarbageCollectLocked(), once the caller has left.
Recyclable(s) ==
    /\ s # wpos
    /\ attached[s] = 1
    /\ rindex[s] = SubQueueSize

\* The caller leaves the sub-queue, PrivGarbageCollectLocked() sees whether it
\* can go to the tail of the list and be Reset().
Leave(s) ==
    IF Recyclable(s)
    THEN /\ list' = Append(RemoveAt(list, Position(s)), s)
         /\ rindex' = Set(rindex, s, 0)
         /\ findex' = Set(findex, s, 0)
         /\ windex' = Set(windex, s, 0)
         /\ cells' = [cells EXCEPT ![s][0] = Null]
    ELSE UNCHANGED <<list, rindex, findex, windex, cells>>

Detach(c) ==
    /\ cpc[c] \in {"idle", "nothing"}
    /\ consumerCount' = consumerCount - 1
    /\ attached' = Add(attached, cur[c], -1)
    /\ Leave(cur[c])
    /\ Goto(c, "detached")
    /\ UNCHANGED <<wpos, firstPending, count, producerVars, cur, index, res,
                   published>>

\* The read-index of the sub-queue, by the load and by a failed exchange.
LoadIndex(c) ==
    /\ index' = Set(index, c, rindex[cur[c]])
    /\ Goto(c, IF rindex[cur[c]] = SubQueueSize THEN "switch" ELSE "load")

\* Pop().
Pop(c) ==
    /\ cpc[c] \in {"idle", "nothing", "again"}
    /\ LoadIndex(c)
    /\ UNCHANGED <<listVars, rindex, findex, windex, cells, firstPending, count,
                   consumerCount, producerVars, cur, res, published>>

LoadItem(c) ==
    /\ cpc[c] = "load"
    /\ res' = Set(res, c, cells[cur[c]][index[c]])
    /\ Goto(c, IF cells[cur[c]][index[c]] = Null THEN "nothing" ELSE "exchange")
    /\ UNCHANGED <<listVars, rindex, findex, windex, cells, firstPending, count,
                   consumerCount, producerVars, cur, index, published>>

\* An index moved on by a plain store.
StoreIndex(c) ==
    /\ cpc[c] = "exchange"
    /\ rindex' = Set(rindex, cur[c], index[c] + 1)
    /\ Goto(c, "count")
    /\ UNCHANGED <<listVars, findex, windex, cells, firstPending, count,
                   consumerCount, producerVars, cur, index, res, published>>

ExchangeIndex(c) ==
    /\ cpc[c] = "exchange"
    /\ rindex[cur[c]] = index[c]
    /\ rindex' = Add(rindex, cur[c], 1)
    /\ Goto(c, "count")
    /\ UNCHANGED <<listVars, findex, windex, cells, firstPending, count,
                   consumerCount, producerVars, cur, index, res, published>>

\* The weak exchange may fail for no reason.
ExchangeFails(c) ==
    /\ cpc[c] = "exchange"
    /\ LoadIndex(c)
    /\ UNCHANGED <<listVars, rindex, findex, windex, cells, firstPending, count,
                   consumerCount, producerVars, cur, res, published>>

\* The slow path: the sub-queue is read up.
SwitchSubQueue(c) ==
    /\ cpc[c] = "switch"
    /\ IF cur[c] = wpos
       THEN /\ Goto(c, "nothing")
            /\ UNCHANGED <<listVars, rindex, findex, windex, cells, cur>>
       ELSE /\ Leave(cur[c])
            /\ cur' = Set(cur, c, Successor(cur[c]))
            /\ attached' = Add(Add(attached, cur[c], -1), Successor(cur[c]), 1)
            /\ Goto(c, "again")
            /\ UNCHANGED wpos
    /\ UNCHANGED <<firstPending, count, consumerCount, producerVars, index, res,
                   published>>

DecrementCount(c) ==
    /\ cpc[c] = "count"
    /\ count' = count - 1
    /\ Goto(c, "idle")
    /\ UNCHANGED <<listVars, rindex, findex, windex, cells, firstPending,
                   consumerCount, producerVars, cur, index, res, published>>

-----------------------------------------------------------------------------
ProducerStep ==
    \/ PushTerminate \/ PushPlace \/ PushExpose \/ PushFull
    \/ Pend \/ PendFull \/ FlushTerminate \/ FlushExpose \/ NextWpos

ConsumerStep(c) ==
    \/ Pop(c) \/ LoadItem(c) \/ ExchangeIndex(c) \/ ExchangeFails(c)
    \/ SwitchSubQueue(c) \/ DecrementCount(c)

Next ==
    \/ Push \/ PushPending \/ FlushPending \/ Reserve \/ ProducerStep
    \/ \E c \in Consumers : Attach(c) \/ Detach(c) \/ ConsumerStep(c)

Spec == Init /\ [][Next]_vars

\* The producer finishes its call; a consumer that is attached, for good or again
\* and again, keeps popping, and its weak exchange does not fail for ever.
FairSpec ==
    /\ Spec
    /\ WF_vars(ProducerStep)
    /\ \A c \in Consumers : SF_vars(ConsumerStep(c)) /\ SF_vars(ExchangeIndex(c))

-----------------------------------------------------------------------------
(* Properties                                                               *)

\* Every variable stays in its range.
TypeOK ==
    /\ list \in Seq(SubQueues) /\ wpos \in SubQueues
    /\ rindex \in [SubQueues -> 0..SubQueueSize]
    /\ findex \in [SubQueues -> 0..SubQueueSize]
    /\ windex \in [SubQueues -> 0..SubQueueSize]
    /\ cells \in [SubQueues -> [0..SubQueueSize -> Garbage..MaxItems]]
    /\ firstPending \in [SubQueues -> 0..MaxItems]
    /\ attached \in [SubQueues -> 0..Cardinality(Consumers)]
    /\ count \in 0..MaxItems /\ consumerCount \in 0..Cardinality(Consumers)
    /\ pendingCount \in 0..MaxItems
    /\ ppc \in {"idle", "push", "place", "expose", "pend", "flush",
                "flush_expose", "next"}
    /\ after \in {"idle", "push", "pend"}
    /\ item \in 0..MaxItems /\ place \in 0..SubQueueSize
    /\ becameNotEmpty \in BOOLEAN /\ nextItem \in 1..(MaxItems + 1)
    /\ cpc \in [Consumers -> {"detached", "idle", "nothing", "again", "load",
                              "exchange", "switch", "count"}]
    /\ cur \in [Consumers -> SubQueues]
    /\ index \in [Consumers -> 0..SubQueueSize]
    /\ res \in [Consumers -> 0..MaxItems]
    /\ published \in 0..MaxItems

\* The assertions of the sub-queue: "rindex <= findex <= windex", and an item is
\* always exposed at a null cell.
IndexOrder ==
    /\ \A s \in SubQueues : rindex[s] <= findex[s] /\ findex[s] <= windex[s]
    /\ ppc = "expose" => cells[wpos][place] = Null
    /\ ppc = "flush_expose" =>
          cells[wpos][findex[wpos]] = Null /\ findex[wpos] < windex[wpos]

Attached == {c \in Consumers : cpc[c] # "detached"}

\* "Each consumer is somewhere between [head, wpos]", nobody is in a sub-queue
\* behind wpos, and these are as Reset() leaves them: if one were filled while a
\* consumer is there, its items "would be read out of order".
ConsumersBehindWpos ==
    /\ IsInjective(list)
    /\ \A c \in Attached : Position(cur[c]) <= Position(wpos)
    /\ \A s \in Range(list) : Position(s) < Position(wpos) => findex[s] = SubQueueSize
    /\ \A s \in Range(list) : Position(s) > Position(wpos) =>
          windex[s] = 0 /\ rindex[s] = 0 /\ cells[s][0] = Null
    /\ \A s \in SubQueues : attached[s] = Cardinality({c \in Attached : cur[c] = s})

\* What consumers can still take out of a sub-queue.
Exposed(s) == IF s = wpos /\ ppc \in {"place", "expose"} THEN place ELSE findex[s]

VisibleIn(s) ==
    [i \in 1..(Exposed(s) - rindex[s]) |-> cells[s][rindex[s] + i - 1]]

Visible == FlattenSeq([i \in 1..Len(list) |-> VisibleIn(list[i])])

Counting == {c \in Consumers : cpc[c] = "count"}

\* "It is very important to update the count before pushing the element.
\* Otherwise a consumer may pop it, decrement the count, and may make it
\* negative": the count covers what can be popped, also what has been, and is
\* exact when nobody is at work.
CountCoversItems ==
    /\ count >= Len(Visible) + Cardinality(Counting)
    /\ ppc = "idle" => count = Len(Visible) + Cardinality(Counting)

\* The state of the queue between any two accesses of its threads.
QueueInv == TypeOK /\ IndexOrder /\ ConsumersBehindWpos /\ CountCoversItems

\* The queue is a FIFO queue, and Pop() returns nothing only if it is empty.
Answer(c) ==
    CASE cpc[c] = "count" -> res[c]
      [] cpc[c] = "nothing" -> -1
      [] OTHER -> 0

Fifo == INSTANCE FifoQueue WITH
           queue <- Visible, answer <- [c \in Consumers |-> Answer(c)]

ImplementsFifoQueue == Fifo!Spec

\* "The thread is never blocked and always tries to progress": as long as some
\* consumer keeps popping, what is visible is popped.
VisibleIsPopped ==
    \A n \in 1..MaxItems :
       n \in Range(Visible) ~> n \notin Range(Visible) \/ Attached = {}
=============================================================================
