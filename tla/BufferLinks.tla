----------------------------- MODULE BufferLinks -----------------------------
(***************************************************************************)
(* BufferLinkList (src/mg/net/Buffer.{h,cpp}), the queue of a socket's     *)
(* output: a list of links, each of which holds the head of a chain of     *)
(* buffers, and an offset in the first buffer.  Several queues may hold    *)
(* the same buffers, "to broadcast same buffers into multiple places".     *)
(* A send takes any number of the bytes that are in the queue.             *)
(***************************************************************************)
EXTENDS Naturals, Sequences

CONSTANTS
    Buffers,
    NoBuffer,
    Queues,
    Chains      \* records: next and size of every buffer, the heads of each queue

VARIABLES
    chain,      \* the buffers, as the user gave them
    next,       \* myNext of every buffer
    queue,      \* of each queue: links (heads of chains), offset
    sent,       \* the bytes that each has sent
    sender      \* of each: "skip", then "send"

linksVars == <<chain, next, queue, sent, sender>>

LinksInit ==
    /\ chain \in Chains
    /\ next = chain.next
    /\ queue = [q \in Queues |-> [links |-> <<>>, offset |-> 0]]
    /\ sent = [q \in Queues |-> <<>>]
    /\ sender = [q \in Queues |-> "new"]

\* A byte is its buffer and its place in it.
Size(b) == chain.size[b]
Bytes(b) == [n \in 1..Size(b) |-> <<b, n>>]
BytesFrom(f, b) ==
    LET all[x \in Buffers \cup {NoBuffer}] ==
            IF x = NoBuffer THEN <<>> ELSE Bytes(x) \o all[f[x]]
    IN  all[b]

RECURSIVE BytesOf(_, _)
BytesOf(f, heads) ==
    IF heads = <<>> THEN <<>> ELSE BytesFrom(f, Head(heads)) \o BytesOf(f, Tail(heads))

\* What the queue has to send, by its links.
Queued(f, q) == LET bytes == BytesOf(f, queue[q].links)
                IN  SubSeq(bytes, queue[q].offset + 1, Len(bytes))

-----------------------------------------------------------------------------
\* AppendRef() of every chain.
AppendRefs(q) ==
    /\ sender[q] = "new"
    /\ queue' = [queue EXCEPT ![q].links = chain.heads[q]]
    /\ sender' = [sender EXCEPT ![q] = "skip"]
    /\ UNCHANGED <<chain, next, sent>>

\* SkipEmptyPrefix(): a first buffer without data makes way for the next one, which is
\* moved out of it.
RECURSIVE WithoutEmpty(_, _)
WithoutEmpty(f, links) ==
    IF links = <<>> THEN [next |-> f, links |-> links]
    ELSE LET b == Head(links)
         IN  IF b = NoBuffer THEN WithoutEmpty(f, Tail(links))
             ELSE IF Size(b) > 0 THEN [next |-> f, links |-> links]
             ELSE WithoutEmpty([f EXCEPT ![b] = NoBuffer], <<f[b]>> \o Tail(links))

SkipEmptyPrefix(q) ==
    /\ sender[q] = "skip"
    /\ LET fast == queue[q].links = <<>> \/ (Head(queue[q].links) # NoBuffer
                                             /\ Size(Head(queue[q].links)) > queue[q].offset)
           done == IF fast THEN [next |-> next, links |-> queue[q].links]
                   ELSE WithoutEmpty(next, queue[q].links)
       IN  /\ next' = done.next
           /\ queue' = [queue EXCEPT ![q].links = done.links]
    /\ sender' = [sender EXCEPT ![q] = "send"]
    /\ UNCHANGED <<chain, sent>>

\* SkipData(): the link's head becomes the buffer with the first byte that is not sent,
\* the buffers are not altered; a link that has been sent goes.
RECURSIVE Skipped(_, _, _)
Skipped(f, links, n) ==
    IF n = 0 THEN [links |-> links, offset |-> 0]
    ELSE LET bytes == BytesFrom(f, Head(links))
         IN  IF Len(bytes) <= n THEN Skipped(f, Tail(links), n - Len(bytes))
             ELSE [links |-> <<bytes[n + 1][1]>> \o Tail(links), offset |-> bytes[n + 1][2] - 1]

SkipData(q, n) == Skipped(next, queue[q].links, n + queue[q].offset)

Send(q) ==
    /\ sender[q] = "send" /\ Queued(next, q) # <<>>
    /\ \E n \in 1..Len(Queued(next, q)) :
          /\ sent' = [sent EXCEPT ![q] = @ \o SubSeq(Queued(next, q), 1, n)]
          /\ queue' = [queue EXCEPT ![q] = SkipData(q, n)]
    /\ sender' = [sender EXCEPT ![q] = "skip"]
    /\ UNCHANGED <<chain, next>>

LinksNext == \E q \in Queues : AppendRefs(q) \/ SkipEmptyPrefix(q) \/ Send(q)

-----------------------------------------------------------------------------
\* A queue sends all of what was given to it, in order, whatever the others do:
\* "the sockets can send the same buffers in parallel without changing them at all"
\* (Buffer.h:133).
GivenIsSent ==
    \A q \in Queues : sender[q] # "new" =>
        sent[q] \o Queued(next, q) = BytesOf(chain.next, chain.heads[q])
=============================================================================
