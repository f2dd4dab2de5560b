--------------------------- MODULE ThreadLocalPool ---------------------------
(***************************************************************************)
(* The pool of objects of one type (src/mg/box/ThreadLocalPool.h).  Free   *)
(* objects are kept in chains, whose container is a free object, too.  A   *)
(* thread has one chain; the global pool, under its mutex, has those that  *)
(* grew too big and those of the threads that have ended.  An object that  *)
(* one thread has allocated may be freed by another one.                   *)
(***************************************************************************)
EXTENDS Naturals, Sequences, SequencesExt

CONSTANTS
    PoolThreads,
    PoolBatch,      \* BatchSize
    MaxObjects      \* a bound on the objects that are created

ASSUME PoolAssumption == PoolBatch \in Nat \ {0}   \* the static_assert of BatchSize

VARIABLES
    local,      \* of each thread: <<>>, or a chain: the container and the list
    size,       \* mySize of each thread's chain
    global,     \* myFreeChains: chains with their sizes
    used,       \* the objects that are allocated, and how many were created
    ended       \* the threads that have ended: myIsDestroyed

poolVars == <<local, size, global, used, ended>>

PoolInit ==
    /\ local = [t \in PoolThreads |-> <<>>]
    /\ size = [t \in PoolThreads |-> 0]
    /\ global = <<>>
    /\ used = [objects |-> {}, created |-> 0]
    /\ ended = {}

-----------------------------------------------------------------------------
\* AllocateT() from this chain, of that size: the first of the list, the container
\* when it is the last one.
TakeFrom(t, chain, n) ==
    IF Len(chain) > 1
    THEN /\ used' = [used EXCEPT !.objects = @ \cup {chain[2]}]
         /\ local' = [local EXCEPT ![t] = <<Head(chain)>> \o SubSeq(chain, 3, Len(chain))]
         /\ size' = [size EXCEPT ![t] = n - 1]
    ELSE /\ used' = [used EXCEPT !.objects = @ \cup {Head(chain)}]
         /\ local' = [local EXCEPT ![t] = <<>>]
         /\ size' = [size EXCEPT ![t] = 0]

AllocateLocal(t) ==
    /\ t \notin ended /\ local[t] # <<>>
    /\ TakeFrom(t, local[t], size[t])
    /\ UNCHANGED <<global, ended>>

\* A mutant: the chain stays in the global pool.
AllocateGlobalCopy(t) ==
    /\ t \notin ended /\ local[t] = <<>> /\ global # <<>>
    /\ TakeFrom(t, Head(global).chain, Head(global).size)
    /\ UNCHANGED <<global, ended>>

AllocateGlobal(t) ==
    /\ t \notin ended /\ local[t] = <<>> /\ global # <<>>
    /\ TakeFrom(t, Head(global).chain, Head(global).size)
    /\ global' = Tail(global)
    /\ UNCHANGED ended

\* BatchSize objects and a container are created at once.
AllocateNew(t) ==
    /\ t \notin ended /\ local[t] = <<>> /\ global = <<>>
    /\ used.created + PoolBatch + 1 <= MaxObjects
    /\ LET chain == [n \in 1..(PoolBatch + 1) |-> used.created + n]
       IN  /\ used' = [objects |-> used.objects \cup {chain[2]}, created |-> used.created + Len(chain)]
           /\ local' = [local EXCEPT ![t] = <<Head(chain)>> \o SubSeq(chain, 3, Len(chain))]
           /\ size' = [size EXCEPT ![t] = PoolBatch - 1]
    /\ UNCHANGED <<global, ended>>

\* FreeT(): the object joins the chain, or it is the container of a new one, when
\* there is none or the last one has gone to the global pool.
Freed(o) == o \in used.objects /\ used' = [used EXCEPT !.objects = @ \ {o}]

FreeToChain(t, o) ==
    /\ t \notin ended /\ Freed(o)
    /\ local[t] # <<>> /\ size[t] # PoolBatch
    /\ local' = [local EXCEPT ![t] = <<Head(@), o>> \o Tail(@)]
    /\ size' = [size EXCEPT ![t] = @ + 1]
    /\ UNCHANGED <<global, ended>>

FreeAsChain(t, o) ==
    /\ t \notin ended /\ Freed(o)
    /\ local[t] = <<>> \/ size[t] = PoolBatch
    /\ global' = IF local[t] = <<>> THEN global
                 ELSE <<[chain |-> local[t], size |-> size[t]]>> \o global
    /\ local' = [local EXCEPT ![t] = <<o>>]
    /\ size' = [size EXCEPT ![t] = 0]
    /\ UNCHANGED ended

\* The end of a thread: its chain is for the others.
EndThread(t) ==
    /\ t \notin ended /\ ended' = ended \cup {t}
    /\ global' = IF local[t] = <<>> THEN global
                 ELSE <<[chain |-> local[t], size |-> size[t]]>> \o global
    /\ local' = [local EXCEPT ![t] = <<>>]
    /\ size' = [size EXCEPT ![t] = 0]
    /\ UNCHANGED used

PoolNext ==
    \E t \in PoolThreads :
        \/ AllocateLocal(t) \/ AllocateGlobal(t) \/ AllocateNew(t)
        \/ \E o \in used.objects : FreeToChain(t, o) \/ FreeAsChain(t, o)
        \/ EndThread(t)

-----------------------------------------------------------------------------
\* The objects in a chain of a thread, in one of the global pool.
Cached(t) == ToSet(local[t])
Pooled(n) == ToSet(global[n].chain)

\* Every object is in use or in one place of one chain, none is lost when a thread
\* ends, and no chain is longer than its size says or than a batch ("mySize == 0" of
\* an empty list, "mySize > 0" otherwise: ThreadLocalPool.h:225, 229).
PoolKeepsObjects ==
    /\ \A t \in PoolThreads : IsInjective(local[t]) /\ Cached(t) \cap used.objects = {}
    /\ \A n \in DOMAIN global :
          IsInjective(global[n].chain) /\ Pooled(n) \cap used.objects = {}
    /\ \A t, u \in PoolThreads : t # u => Cached(t) \cap Cached(u) = {}
    /\ \A m, n \in DOMAIN global : m # n => Pooled(m) \cap Pooled(n) = {}
    /\ \A t \in PoolThreads, n \in DOMAIN global : Cached(t) \cap Pooled(n) = {}
    /\ used.objects \cup (UNION {Cached(t) : t \in PoolThreads})
          \cup (UNION {Pooled(n) : n \in DOMAIN global}) = 1..used.created
    /\ \A n \in DOMAIN global : Len(global[n].chain) = global[n].size + 1
    /\ \A t \in PoolThreads \ ended : local[t] # <<>> => Len(local[t]) = size[t] + 1
    /\ \A t \in PoolThreads : size[t] <= PoolBatch
=============================================================================
