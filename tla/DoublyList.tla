----------------------------- MODULE DoublyList -----------------------------
(***************************************************************************)
(* The intrusive doubly-linked list (src/mg/box/DoublyList.h): an item may *)
(* be removed from the middle, by itself.  Two lists and a loose chain, as *)
(* PopAll() returns it, exchange the items; what they should contain is    *)
(* kept beside them as sequences.                                          *)
(***************************************************************************)
EXTENDS Naturals, Sequences
Seqs == INSTANCE SequencesExt

CONSTANTS Items, Null

VARIABLES
    next, prev,     \* the links of every item
    ends,           \* of each list: first and last
    content         \* of each list, and of the chain: the sequence it should be

doublyVars == <<next, prev, ends, content>>

Lists == {"a", "b"}
Owners == Lists \cup {"chain"}
Nothing == [first |-> Null, last |-> Null]
Free == Items \ UNION {Seqs!ToSet(content[o]) : o \in Owners}

DoublyInit ==
    /\ next = [i \in Items |-> Null]
    /\ prev = [i \in Items |-> Null]
    /\ ends = [o \in Owners |-> Nothing]
    /\ content = [o \in Owners |-> <<>>]

\* f[i] = v, where there is an item.
Store(f, i, v) == IF i = Null THEN f ELSE [f EXCEPT ![i] = v]

-----------------------------------------------------------------------------
(* A chain of items that are linked with one another joins a list at an end. *)

JoinFirst(h, first, last) ==
    [next |-> Store(h.next, last, h.first), first |-> first,
     prev |-> Store(Store(h.prev, first, Null), h.first, last),
     last |-> IF h.first = Null THEN last ELSE h.last]

JoinLast(h, first, last) ==
    [next |-> Store(Store(h.next, last, Null), h.last, first), last |-> last,
     prev |-> Store(h.prev, first, h.last),
     first |-> IF h.last = Null THEN first ELSE h.first]

Heap(l) == [next |-> next, prev |-> prev, first |-> ends[l].first, last |-> ends[l].last]

Becomes(l, h, o) ==
    /\ next' = h.next /\ prev' = h.prev
    /\ ends' = [ends EXCEPT ![o] = Nothing, ![l] = [first |-> h.first, last |-> h.last]]

Prepend(l, i) ==
    /\ i \in Free
    /\ Becomes(l, JoinFirst(Heap(l), i, i), l)
    /\ content' = [content EXCEPT ![l] = <<i>> \o @]

AppendItem(l, i) ==
    /\ i \in Free
    /\ Becomes(l, JoinLast(Heap(l), i, i), l)
    /\ content' = [content EXCEPT ![l] = Append(@, i)]

PrependAll(l, o) ==
    /\ l # o /\ content[o] # <<>>
    /\ Becomes(l, JoinFirst(Heap(l), ends[o].first, ends[o].last), o)
    /\ content' = [content EXCEPT ![l] = content[o] \o @, ![o] = <<>>]

AppendAll(l, o) ==
    /\ l # o /\ content[o] # <<>>
    /\ Becomes(l, JoinLast(Heap(l), ends[o].first, ends[o].last), o)
    /\ content' = [content EXCEPT ![l] = @ \o content[o], ![o] = <<>>]

-----------------------------------------------------------------------------
PopFirst(l) ==
    /\ content[l] # <<>>
    /\ LET res == ends[l].first
           rest == next[res]
       IN  /\ next' = [next EXCEPT ![res] = Null]
           /\ prev' = Store(prev, rest, Null)
           /\ ends' = [ends EXCEPT ![l].first = rest, ![l].last = IF rest = Null THEN Null ELSE @]
    /\ content' = [content EXCEPT ![l] = Tail(@)]

PopLast(l) ==
    /\ content[l] # <<>>
    /\ LET res == ends[l].last
           rest == prev[res]
       IN  /\ prev' = [prev EXCEPT ![res] = Null]
           /\ next' = Store(next, rest, Null)
           /\ ends' = [ends EXCEPT ![l].last = rest, ![l].first = IF rest = Null THEN Null ELSE @]
    /\ content' = [content EXCEPT ![l] = Seqs!Front(@)]

\* An end of the list moves where the item has no neighbour.
Remove(l, i) ==
    /\ i \in Seqs!ToSet(content[l])
    /\ next' = Store(Store(next, prev[i], next[i]), i, Null)
    /\ prev' = Store(Store(prev, next[i], prev[i]), i, Null)
    /\ ends' = [ends EXCEPT ![l].last = IF next[i] = Null THEN prev[i] ELSE @,
                            ![l].first = IF prev[i] = Null THEN next[i] ELSE @]
    /\ content' = [content EXCEPT ![l] = Seqs!Remove(@, i)]

\* From begin() to end().
Visited(l) ==
    LET from[i \in Items \cup {Null}] == IF i = Null THEN <<>> ELSE <<i>> \o from[next[i]]
    IN  from[ends[l].first]

\* The items are prepended one by one, in the order of their links.
Reverse(l) ==
    LET emptied == [next |-> next, prev |-> prev, first |-> Null, last |-> Null]
    IN  /\ Becomes(l, Seqs!FoldLeft(LAMBDA h, i : JoinFirst(h, i, i), emptied,
                                    Visited(l)), l)
        /\ content' = [content EXCEPT ![l] = Seqs!Reverse(@)]

Moves(l, o) ==
    /\ ends' = [ends EXCEPT ![l] = ends[o], ![o] = Nothing]
    /\ content' = [content EXCEPT ![l] = content[o], ![o] = <<>>]
    /\ UNCHANGED <<next, prev>>

\* The move constructor, the assignment: the items of the target are on their own.
Assign(l, o) == l # o /\ Moves(l, o)

PopAll(l) == content["chain"] = <<>> /\ Moves("chain", l)

Clear(l) ==
    /\ ends' = [ends EXCEPT ![l] = Nothing]
    /\ content' = [content EXCEPT ![l] = <<>>]
    /\ UNCHANGED <<next, prev>>

DoublyNext ==
    \E l \in Lists :
        \/ \E i \in Items : Prepend(l, i) \/ AppendItem(l, i) \/ Remove(l, i)
        \/ \E o \in Owners : PrependAll(l, o) \/ AppendAll(l, o)
        \/ \E o \in Lists : Assign(l, o)
        \/ PopFirst(l) \/ PopLast(l) \/ Reverse(l) \/ PopAll(l) \/ Clear(l)

-----------------------------------------------------------------------------
\* Every list is, forwards and backwards, the sequence that its operations make of it:
\* Remove() asserts that an item without a neighbour is at an end of the list
\* (DoublyList.h:364, 374).
DoublyListIsTrue ==
    \A l \in Lists :
        LET seq == content[l]
            forth == Append(seq, Null)
            back == <<Null>> \o seq
        IN  /\ Visited(l) = seq
            /\ ends[l] = [first |-> forth[1], last |-> back[Len(back)]]
            /\ \A n \in DOMAIN seq : next[seq[n]] = forth[n + 1] /\ prev[seq[n]] = back[n]
=============================================================================
