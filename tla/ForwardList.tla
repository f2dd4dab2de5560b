----------------------------- MODULE ForwardList -----------------------------
(***************************************************************************)
(* The intrusive singly-linked list (src/mg/box/ForwardList.h): every      *)
(* item carries its link, a list has its first item and a pointer at the   *)
(* link to write the next item to, that of its last item or, in an empty   *)
(* list, the pointer at the first one.  Two lists and a loose chain, as    *)
(* PopAll() returns it, exchange the items; what they should contain is    *)
(* kept beside them as sequences.                                          *)
(***************************************************************************)
EXTENDS Naturals, Sequences
Seqs == INSTANCE SequencesExt

CONSTANTS Items, Null

VARIABLES
    link,       \* myLink of every item
    list,       \* of each list: first, and the item whose link is next, Null for myFirst
    content     \* of each list, and of the chain: the sequence it should be

forwardVars == <<link, list, content>>

Lists == {"a", "b"}
Owners == Lists \cup {"chain"}
Empty == [first |-> Null, last |-> Null]
Free == Items \ UNION {Seqs!ToSet(content[o]) : o \in Owners}

ForwardInit ==
    /\ link = [i \in Items |-> Null]
    /\ list = [o \in Owners |-> Empty]
    /\ content = [o \in Owners |-> <<>>]

-----------------------------------------------------------------------------
(* A heap of links and one list in it: h.link, h.first, h.last.             *)

Heap(l) == [link |-> link, first |-> list[l].first, last |-> list[l].last]

Becomes(l, h, o) ==
    /\ link' = h.link
    /\ list' = [list EXCEPT ![o] = Empty, ![l] = [first |-> h.first, last |-> h.last]]

\* From begin() to end().  An iterator that is not const has loaded the link of its item
\* before the item is used: the item may go to another list meanwhile.
Visited(h) ==
    LET from[i \in Items \cup {Null}] == IF i = Null THEN <<>> ELSE <<i>> \o from[h.link[i]]
    IN  from[h.first]

\* GetLast(): the item whose link is the last one, none when that is myFirst.
GetLast(l) == list[l].last

\* *myLastLink = i
StoreLast(h, i) == IF h.last = Null THEN [h EXCEPT !.first = i]
                   ELSE [h EXCEPT !.link[h.last] = i]

\* Only the prepend into an empty list moves the pointer at the last link.
Prepended(h, first, last) ==
    [link |-> [h.link EXCEPT ![last] = h.first], first |-> first,
     last |-> IF h.first = Null THEN last ELSE h.last]

Appended(h, first, last) ==
    LET stored == StoreLast(h, first)
    IN  [stored EXCEPT !.last = last, !.link[last] = Null]

Prepend(l, i) ==
    /\ i \in Free
    /\ Becomes(l, Prepended(Heap(l), i, i), l)
    /\ content' = [content EXCEPT ![l] = <<i>> \o @]

AppendItem(l, i) ==
    /\ i \in Free
    /\ Becomes(l, Appended(Heap(l), i, i), l)
    /\ content' = [content EXCEPT ![l] = Append(@, i)]

\* The whole of another list, or a chain.
PrependAll(l, o) ==
    /\ l # o /\ content[o] # <<>>
    /\ Becomes(l, Prepended(Heap(l), list[o].first, list[o].last), o)
    /\ content' = [content EXCEPT ![l] = content[o] \o @, ![o] = <<>>]

\* The last link of another list is null already, that of a chain is made so.
AppendAll(l, o) ==
    /\ l # o /\ content[o] # <<>>
    /\ Becomes(l, Appended(Heap(l), list[o].first, list[o].last), o)
    /\ content' = [content EXCEPT ![l] = @ \o content[o], ![o] = <<>>]

Insert(l, i) ==
    /\ i \in Free
    /\ \/ /\ Becomes(l, Prepended(Heap(l), i, i), l)
          /\ content' = [content EXCEPT ![l] = <<i>> \o @]
       \/ \E n \in DOMAIN content[l] :
             LET prev == content[l][n]
                 next == link[prev]
             IN  /\ link' = [link EXCEPT ![i] = next, ![prev] = i]
                 /\ list' = IF next = Null THEN [list EXCEPT ![l].last = i] ELSE list
                 /\ content' = [content EXCEPT ![l] = Seqs!InsertAt(@, n + 1, i)]

PopFirst(l) ==
    /\ list[l].first # Null
    /\ LET rest == link[list[l].first]
       IN  list' = [list EXCEPT ![l].first = rest, ![l].last = IF rest = Null THEN Null ELSE @]
    /\ content' = [content EXCEPT ![l] = Tail(@)]
    /\ link' = link

\* The items are prepended one by one, in the order of their links.
Reverse(l) ==
    LET emptied == [link |-> link, first |-> Null, last |-> Null]
    IN  /\ Becomes(l, Seqs!FoldLeft(LAMBDA h, i : Prepended(h, i, i), emptied, Visited(Heap(l))), l)
        /\ content' = [content EXCEPT ![l] = Seqs!Reverse(@)]

Moves(l, o) ==
    /\ list' = [list EXCEPT ![l] = list[o], ![o] = Empty]
    /\ content' = [content EXCEPT ![l] = content[o], ![o] = <<>>]
    /\ link' = link

\* The items are appended to another list while they are iterated over.
Distribute(l, o) ==
    /\ l # o /\ content[l] # <<>>
    /\ Becomes(o, Seqs!FoldLeft(LAMBDA h, i : Appended(h, i, i), Heap(o), Visited(Heap(l))), l)
    /\ content' = [content EXCEPT ![o] = @ \o content[l], ![l] = <<>>]

\* The assignment: the items of the target are on their own.
Assign(l, o) == l # o /\ Moves(l, o)

PopAll(l) == content["chain"] = <<>> /\ Moves("chain", l)

Clear(l) ==
    /\ list' = [list EXCEPT ![l] = Empty]
    /\ content' = [content EXCEPT ![l] = <<>>]
    /\ link' = link

ForwardNext ==
    \E l \in Lists :
        \/ \E i \in Items : Prepend(l, i) \/ AppendItem(l, i) \/ Insert(l, i)
        \/ \E o \in Owners : PrependAll(l, o) \/ AppendAll(l, o)
        \/ \E o \in Lists : Assign(l, o) \/ Distribute(l, o)
        \/ PopFirst(l) \/ Reverse(l) \/ PopAll(l) \/ Clear(l)

-----------------------------------------------------------------------------
\* Every list is the sequence that its operations make of it, and the pointer at the
\* last link "points at the first link (myFirst)" when and only when the list is empty
\* (ForwardList.h:122).
ForwardListIsTrue ==
    \A l \in Lists :
        LET seq == content[l]
            linked == Append(seq, Null)
        IN  /\ list[l].first = linked[1]
            /\ \A n \in DOMAIN seq : link[seq[n]] = linked[n + 1]
            /\ Visited(Heap(l)) = seq
            /\ GetLast(l) = IF seq = <<>> THEN Null ELSE seq[Len(seq)]
=============================================================================
