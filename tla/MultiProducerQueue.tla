------------------------- MODULE MultiProducerQueue -------------------------
(***************************************************************************)
(* The front queue, src/mg/box/MultiProducerQueueIntrusive.h: producers    *)
(* push their items to the head of a linked list with a compare-and-       *)
(* exchange, the consumer takes the whole list with one exchange and       *)
(* reverses it.  The items are linked through a member of their own, and   *)
(* are pushed again as soon as the consumer has used them.                 *)
(***************************************************************************)
EXTENDS Naturals, FiniteSets, SequencesExt

CONSTANTS Producers, Items, Null

ASSUME NullAssumption == Null \notin Items /\ IsFiniteSet(Items)

VARIABLES
    head,       \* myHead
    next,       \* myNext of each item
    free,       \* the items nobody has given to the queue
    \* producers: place in the code, the caller's list, the ends of the chain that
    \* is pushed (aFirst, aLast), oldHead, what is returned
    ppc, list, first, last, oldHead, wasEmpty,
    \* the consumer: place in the code, curr and prev of PopAll()
    kpc, curr, prev

producerVars == <<ppc, list, first, last, oldHead, wasEmpty>>
consumerVars == <<kpc, curr, prev>>
vars == <<head, next, free, producerVars, consumerVars>>

Set(f, x, v) == [f EXCEPT ![x] = v]

Init ==
    /\ head = Null
    /\ next = [i \in Items |-> Null]
    /\ free = Items
    /\ ppc = [p \in Producers |-> "outside"]
    /\ list = [p \in Producers |-> <<>>]
    /\ first = [p \in Producers |-> Null] /\ last = [p \in Producers |-> Null]
    /\ oldHead = [p \in Producers |-> Null]
    /\ wasEmpty = [p \in Producers |-> FALSE]
    /\ kpc = "outside" /\ curr = Null /\ prev = Null

-----------------------------------------------------------------------------
(* PushMany() of a list of free items; Push() is a list of one.             *)

Lists ==
    {l \in UNION {[1..n -> Items] : n \in 0..Cardinality(Items)} : IsInjective(l)}

FreeLists == {l \in Lists : l # <<>> /\ ToSet(l) \subseteq free}

\* The caller's list is reversed in place: each item links to the one before.
\* Then PrivPushRange() loads the head.
PushMany(p, l) ==
    /\ ppc[p] = "outside"
    /\ free' = free \ ToSet(l)
    /\ next' = [i \in Items |->
                  IF \E k \in 2..Len(l) : l[k] = i
                  THEN l[(CHOOSE k \in 2..Len(l) : l[k] = i) - 1] ELSE next[i]]
    /\ list' = Set(list, p, l)
    /\ first' = Set(first, p, Last(l)) /\ last' = Set(last, p, Head(l))
    /\ oldHead' = Set(oldHead, p, head)
    /\ ppc' = Set(ppc, p, "link")
    /\ UNCHANGED <<head, wasEmpty, consumerVars>>

Link(p) ==
    /\ ppc[p] = "link"
    /\ next' = Set(next, last[p], oldHead[p])
    /\ ppc' = Set(ppc, p, "exchange")
    /\ UNCHANGED <<head, free, list, first, last, oldHead, wasEmpty, consumerVars>>

Result(p) == oldHead[p] = Null

\* A head that is stored, not compared and exchanged.
StoreHead(p) ==
    /\ ppc[p] = "exchange"
    /\ head' = first[p]
    /\ wasEmpty' = Set(wasEmpty, p, Result(p))
    /\ ppc' = Set(ppc, p, "pushed")
    /\ UNCHANGED <<next, free, list, first, last, oldHead, consumerVars>>

Exchange(p) ==
    /\ ppc[p] = "exchange"
    /\ head = oldHead[p]
    /\ head' = first[p]
    /\ wasEmpty' = Set(wasEmpty, p, Result(p))
    /\ ppc' = Set(ppc, p, "pushed")
    /\ UNCHANGED <<next, free, list, first, last, oldHead, consumerVars>>

\* The weak exchange may fail for no reason.  It reads the head anew.
ExchangeFails(p) ==
    /\ ppc[p] = "exchange"
    /\ oldHead' = Set(oldHead, p, head)
    /\ ppc' = Set(ppc, p, "link")
    /\ UNCHANGED <<head, next, free, list, first, last, wasEmpty, consumerVars>>

Return(p) ==
    /\ ppc[p] = "pushed"
    /\ list' = Set(list, p, <<>>)
    /\ first' = Set(first, p, Null) /\ last' = Set(last, p, Null)
    /\ oldHead' = Set(oldHead, p, Null)
    /\ wasEmpty' = Set(wasEmpty, p, FALSE)
    /\ ppc' = Set(ppc, p, "outside")
    /\ UNCHANGED <<head, next, free, consumerVars>>

-----------------------------------------------------------------------------
(* PopAll().                                                                *)

ExchangeAll ==
    /\ kpc = "outside"
    /\ curr' = head
    /\ prev' = Null
    /\ head' = Null
    /\ kpc' = "reverse"
    /\ UNCHANGED <<next, free, producerVars>>

ReverseOne ==
    /\ kpc = "reverse"
    /\ curr # Null
    /\ next' = Set(next, curr, prev)
    /\ prev' = curr
    /\ curr' = next[curr]
    /\ UNCHANGED <<head, free, kpc, producerVars>>

\* The list that begins with this item, as the links tell; nothing, when they lead
\* in a circle.
IsChain(links, l, from) ==
    /\ from = IF l = <<>> THEN Null ELSE Head(l)
    /\ \A k \in 1..Len(l) : links[l[k]] = IF k = Len(l) THEN Null ELSE l[k + 1]

Walk(links, from) ==
    IF from # Null /\ \E l \in Lists : IsChain(links, l, from)
    THEN CHOOSE l \in Lists : IsChain(links, l, from) ELSE <<>>

\* PopAll() returns, and the consumer uses the items.
UseItems ==
    /\ kpc = "reverse"
    /\ curr = Null
    /\ free' = free \cup ToSet(Walk(next, prev))
    /\ prev' = Null
    /\ kpc' = "outside"
    /\ UNCHANGED <<head, next, curr, producerVars>>

-----------------------------------------------------------------------------
ProducerStep(p) == Link(p) \/ Exchange(p) \/ ExchangeFails(p) \/ Return(p)

ConsumerStep == ExchangeAll \/ ReverseOne \/ UseItems

Next ==
    \/ \E p \in Producers :
          ProducerStep(p) \/ \E l \in FreeLists : PushMany(p, l)
    \/ ConsumerStep

Spec == Init /\ [][Next]_vars

-----------------------------------------------------------------------------
(* Properties                                                               *)

Links == Items \cup {Null}

\* Every variable stays in its range.
TypeOK ==
    /\ head \in Links
    /\ next \in [Items -> Links]
    /\ free \subseteq Items
    /\ ppc \in [Producers -> {"outside", "link", "exchange", "pushed"}]
    /\ list \in [Producers -> Seq(Items)]
    /\ first \in [Producers -> Links] /\ last \in [Producers -> Links]
    /\ oldHead \in [Producers -> Links]
    /\ wasEmpty \in [Producers -> BOOLEAN]
    /\ kpc \in {"outside", "reverse"} /\ curr \in Links /\ prev \in Links

\* Every item is in exactly one place - free, in the hands of a producer that has
\* not pushed it yet, in the queue, popped - however often it is pushed again
\* while others still hold its address as the old head.
Holding(p) == IF ppc[p] \in {"link", "exchange"} THEN list[p] ELSE <<>>

Listed == Walk(next, head) \o Walk(next, curr) \o Walk(next, prev)

NothingLostOrDoubled ==
    /\ free \cup ToSet(Listed) \cup UNION {ToSet(Holding(p)) : p \in Producers} = Items
    /\ IsInjective(Listed) /\ free \cap ToSet(Listed) = {}
    /\ \A p \in Producers :
          /\ IsInjective(Holding(p)) /\ ToSet(Holding(p)) \cap (free \cup ToSet(Listed)) = {}
          /\ \A q \in Producers \ {p} : ToSet(Holding(p)) \cap ToSet(Holding(q)) = {}

\* The list is a queue: pushes are appended as a whole, exactly the push into the
\* empty queue returns true, PopAll() returns everything in order.
Reported(p) ==
    CASE ppc[p] # "pushed" -> "none"
      [] ppc[p] = "pushed" /\ wasEmpty[p] -> "first"
      [] OTHER -> "not first"

Abstract == INSTANCE PushQueue WITH
    given <- list,
    queue <- Reverse(Walk(next, head)),
    popped <- Reverse(Walk(next, curr)) \o Walk(next, prev),
    answer <- [p \in Producers |-> Reported(p)]

ImplementsPushQueue == Abstract!Spec
=============================================================================
