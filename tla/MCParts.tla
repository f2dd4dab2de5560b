------------------------------- MODULE MCParts -------------------------------
(* The small parts of the system, each on its own, in one instance: a behaviour *)
(* is one of the part that it begins with.                                      *)
EXTENDS MultiProducerQueue, TCPSocket, TCPServer, DomainToIP, ThreadLocalPool, BinaryHeap

CONSTANTS
    BufferSize, MaxWritten, MaxBuffers, Buffers, b1, b2, b3, Queues, q1, q2, NoBuffer

VARIABLES
    part,
    link, forward, forwardContent,
    nextLink, prevLink, ends, doublyContent,
    style, stream, written, read,
    chain, nextBuffer, queue, sent, sender

-----------------------------------------------------------------------------
(* How a socket is used: its kind, what starts a life, whether somebody shuts   *)
(* it down, the units of data that are sent and the receives in a life, lives.  *)

Use(kind, starts, shutdowns, data, lives) ==
    [kind |-> kind, starts |-> starts, shutdowns |-> shutdowns, data |-> data,
     lives |-> lives]

UsesOfSockets ==
    {Use("tcp", {"connect"}, TRUE, 0, 2), Use("tcp", {"connect"}, FALSE, 1, 1),
     Use("ssl", {"connect"}, FALSE, 1, 1), Use("tcp", {"task"}, FALSE, 1, 1),
     Use("tcp", {"wrap", "task"}, TRUE, 0, 2), Use("ssl", {"task"}, TRUE, 0, 1)}

(* How a stream of buffers is written: the ways in which one writer appends.    *)

Styles == {{"reserve", "ref"}, {"copy", "ref"}}

(* The chains that two queues send: the same one, with an empty buffer in its   *)
(* middle; one of their own, with an empty buffer in front; the same buffers,   *)
(* one by one, in other orders.                                                 *)

Chain(next1, next2, next3, size1, size2, size3, heads1, heads2) ==
    [next |-> [b \in Buffers |-> CASE b = b1 -> next1 [] b = b2 -> next2 [] b = b3 -> next3],
     size |-> [b \in Buffers |-> CASE b = b1 -> size1 [] b = b2 -> size2 [] b = b3 -> size3],
     heads |-> [q \in Queues |-> IF q = q1 THEN heads1 ELSE heads2]]

Chains ==
    {Chain(b3, NoBuffer, b2, 2, 1, 0, <<b1>>, <<b1>>),
     Chain(NoBuffer, NoBuffer, b1, 1, 2, 0, <<b3, b2>>, <<>>),
     Chain(NoBuffer, NoBuffer, NoBuffer, 2, 2, 1, <<b1, b2, b3>>, <<b2, b1>>)}

-----------------------------------------------------------------------------
Forward == INSTANCE ForwardList WITH list <- forward, content <- forwardContent
Doubly == INSTANCE DoublyList WITH next <- nextLink, prev <- prevLink, content <- doublyContent
Stream == INSTANCE BufferStream
Broadcast == INSTANCE BufferLinks WITH next <- nextBuffer

forwardVars == <<link, forward, forwardContent>>
doublyVars == <<nextLink, prevLink, ends, doublyContent>>
streamVars == <<style, stream, written, read>>
linksVars == <<chain, nextBuffer, queue, sent, sender>>

Parts == {"producers", "socket", "server", "domain", "forward", "doubly", "heap", "pool",
          "stream", "links"}

partsVars == <<part, vars, socketVars, serverVars, domainVars, forwardVars, doublyVars,
               heapVars, poolVars, streamVars, linksVars>>

\* A part that the behaviour is not about has one initial state.
One(x, S) == x = CHOOSE y \in S : TRUE

PartsInit ==
    /\ part \in Parts
    /\ Init
    /\ SocketInit /\ (part = "socket" \/ One(use, Uses))
    /\ ServerInit
    /\ DomainInit
    /\ Forward!ForwardInit
    /\ Doubly!DoublyInit
    /\ HeapInit
    /\ PoolInit
    /\ Stream!StreamInit /\ (part = "stream" \/ One(style, Styles))
    /\ Broadcast!LinksInit /\ (part = "links" \/ One(chain, Chains))

Stays(p, v) == IF part = p THEN TRUE ELSE UNCHANGED v

Of(p) ==
    /\ part = p /\ part' = p
    /\ Stays("producers", vars) /\ Stays("socket", socketVars)
    /\ Stays("server", serverVars) /\ Stays("domain", domainVars)
    /\ Stays("forward", forwardVars) /\ Stays("doubly", doublyVars)
    /\ Stays("heap", heapVars) /\ Stays("pool", poolVars)
    /\ Stays("stream", streamVars) /\ Stays("links", linksVars)

PartsNext ==
    \/ Of("producers") /\ Next
    \/ Of("socket") /\ SocketNext
    \/ Of("server") /\ ServerNext
    \/ Of("domain") /\ DomainNext
    \/ Of("forward") /\ Forward!ForwardNext
    \/ Of("doubly") /\ Doubly!DoublyNext
    \/ Of("heap") /\ HeapNext
    \/ Of("pool") /\ PoolNext
    \/ Of("stream") /\ Stream!StreamNext
    \/ Of("links") /\ Broadcast!LinksNext

\* The steps that are fair are not enabled in a part's initial state: a part that the
\* behaviour is not about claims none.
PartsSpec ==
    /\ PartsInit /\ [][PartsNext]_partsVars
    /\ SocketFairness
    /\ DomainFairness

-----------------------------------------------------------------------------
(* Properties, beside those of the modules that are extended here.              *)

\* The links and the ends of a list are those of the sequence that its operations make of it
\* (box/*List.h), a stream of buffers gives back the bytes that were written (BufferStream),
\* and a queue of shared buffers sends those that were given to it (BufferLinkList).
ListsAreTrue ==
    /\ part = "forward" => Forward!ForwardListIsTrue
    /\ part = "doubly" => Doubly!DoublyListIsTrue
    /\ part = "stream" => Stream!StreamIsTrue
    /\ part = "links" => Broadcast!GivenIsSent
=============================================================================
