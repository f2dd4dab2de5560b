----------------------------- MODULE BinaryHeap -----------------------------
(***************************************************************************)
(* The intrusive min-heap (src/mg/box/BinaryHeap.h) that holds the tasks   *)
(* that wait in the scheduler, in the I/O core and in the name resolver by *)
(* their deadlines: a complete tree in an array, every item knows its      *)
(* index, -1 outside of the heap, so that it can be updated and removed    *)
(* from the middle.  An operation leaves one item that may be out of place *)
(* and moves it up or down, one level in a step.                           *)
(***************************************************************************)
EXTENDS Integers, Sequences

CONSTANTS HeapItems, Keys

ASSUME HeapAssumption == Keys \subseteq Int

VARIABLES
    tree,       \* myData, from 1 on
    index,      \* myIndex of every item
    key,        \* what the items are compared by
    moving      \* the loop of PrivUpdateUp() or PrivUpdateDown(): tmp and aIndex

heapVars == <<tree, index, key, moving>>

Still == [way |-> "none"]

HeapInit ==
    /\ tree = <<>>
    /\ index = [i \in HeapItems |-> -1]
    /\ key = [i \in HeapItems |-> 0]
    /\ moving = Still

Has(i) == index[i] >= 0

-----------------------------------------------------------------------------
(* What the update of the place n of a tree t under keys k begins with.     *)

Parent(n) == n \div 2
LeftChild(n) == 2 * n
IsLeftAbove(k, i, j) == k[i] <= k[j]

TopChild(t, k, n) ==
    IF LeftChild(n) + 1 > Len(t) \/ IsLeftAbove(k, t[LeftChild(n)], t[LeftChild(n) + 1])
    THEN LeftChild(n) ELSE LeftChild(n) + 1

UpdateUp(t, k, n) ==
    IF n = 1 \/ IsLeftAbove(k, t[Parent(n)], t[n]) THEN Still
    ELSE [way |-> "up", tmp |-> t[n], at |-> n]

UpdateDown(t, k, n) ==
    IF LeftChild(n) > Len(t) \/ IsLeftAbove(k, t[n], t[TopChild(t, k, n)]) THEN Still
    ELSE [way |-> "down", tmp |-> t[n], at |-> n]

\* A mutant: the last item, that takes the place of the removed one, only sinks.
UpdateOnlyDown(t, k, n) == UpdateDown(t, k, n)

\* PrivUpdate(): an item that has gone up does not go down.
UpdateAt(t, k, n) ==
    IF UpdateUp(t, k, n) # Still THEN UpdateUp(t, k, n) ELSE UpdateDown(t, k, n)

-----------------------------------------------------------------------------
(* The loops.  The item from the place m goes to the free place; then the   *)
(* loop goes on with m, or tmp goes there.  Equal items are passed.         *)

MoveFrom(m, goesOn) ==
    LET t == [tree EXCEPT ![moving.at] = tree[m]]
        x == [index EXCEPT ![tree[m]] = moving.at - 1]
    IN  IF goesOn
        THEN tree' = t /\ index' = x /\ moving' = [moving EXCEPT !.at = m]
        ELSE /\ tree' = [t EXCEPT ![m] = moving.tmp]
             /\ index' = [x EXCEPT ![moving.tmp] = m - 1]
             /\ moving' = Still

Rise ==
    /\ moving.way = "up"
    /\ LET m == Parent(moving.at)
       IN  MoveFrom(m, m # 1 /\ IsLeftAbove(key, moving.tmp, tree[Parent(m)]))
    /\ key' = key

Sink ==
    /\ moving.way = "down"
    /\ LET m == TopChild(tree, key, moving.at)
       IN  MoveFrom(m, LeftChild(m) <= Len(tree)
                       /\ IsLeftAbove(key, tree[TopChild(tree, key, m)], moving.tmp))
    /\ key' = key

-----------------------------------------------------------------------------
(* The operations.                                                          *)

Push(i, k) ==
    /\ moving = Still /\ ~Has(i)
    /\ tree' = Append(tree, i)
    /\ index' = [index EXCEPT ![i] = Len(tree)]
    /\ key' = [key EXCEPT ![i] = k]
    /\ moving' = UpdateUp(tree', key', Len(tree) + 1)

\* UpdateTop(), or Update() of any item, after its key has changed.
UpdateTop(k) ==
    /\ moving = Still /\ tree # <<>>
    /\ key' = [key EXCEPT ![tree[1]] = k]
    /\ moving' = UpdateDown(tree, key', 1)
    /\ UNCHANGED <<tree, index>>

Update(i, k) ==
    /\ moving = Still /\ Has(i)
    /\ key' = [key EXCEPT ![i] = k]
    /\ moving' = UpdateAt(tree, key', index[i] + 1)
    /\ UNCHANGED <<tree, index>>

\* RemoveTop() and Pop(); Remove() of any item: the last one takes its place.  Keys of
\* items outside of the heap do not matter.
TakeOut(n) ==
    LET last == tree[Len(tree)]
    IN  /\ tree' = SubSeq([tree EXCEPT ![n] = last], 1, Len(tree) - 1)
        /\ index' = IF n = Len(tree) THEN [index EXCEPT ![last] = -1]
                    ELSE [index EXCEPT ![tree[n]] = -1, ![last] = n - 1]
        /\ key' = [key EXCEPT ![tree[n]] = 0]

RemoveTop ==
    /\ moving = Still /\ tree # <<>>
    /\ TakeOut(1)
    /\ moving' = IF Len(tree) = 1 THEN Still ELSE UpdateDown(tree', key', 1)

RemoveItem(i) ==
    /\ moving = Still /\ Has(i)
    /\ LET n == index[i] + 1
       IN  /\ TakeOut(n)
           /\ moving' = IF n = Len(tree) THEN Still ELSE UpdateAt(tree', key', n)

HeapNext ==
    \/ \E i \in HeapItems, k \in Keys : Push(i, k) \/ Update(i, k)
    \/ \E k \in Keys : UpdateTop(k)
    \/ RemoveTop
    \/ \E i \in HeapItems : RemoveItem(i)
    \/ Rise \/ Sink

-----------------------------------------------------------------------------
\* After whatever was pushed, updated or removed the top is the least, for it is a heap
\* ("it can't go up and then down", BinaryHeap.h:568), and the items know their places.
HeapIsTrue ==
    moving = Still =>
        /\ \A n \in DOMAIN tree : key[tree[1]] <= key[tree[n]]
        /\ \A n \in 2..Len(tree) : key[tree[Parent(n)]] <= key[tree[n]]
        /\ \A n \in DOMAIN tree : index[tree[n]] = n - 1
        /\ \A i \in HeapItems : Has(i) => index[i] < Len(tree) /\ tree[index[i] + 1] = i
=============================================================================
