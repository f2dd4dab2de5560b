---------------------------- MODULE BufferStream ----------------------------
(***************************************************************************)
(* The stream of buffers (src/mg/net/Buffer.cpp, BufferStream) between the *)
(* sockets, SSL and their users: a list of buffers whose first part can be *)
(* read and whose last part can be written to, with three pointers and two *)
(* sizes that every operation has to keep true.  The bytes are numbered in *)
(* the order in which they are written.                                    *)
(*                                                                         *)
(* The code uses a stream in one of two styles: space is reserved and then *)
(* filled by a receive, or data is copied (the BIO of SSL); in both whole  *)
(* buffers may be added and taken.  WriteCopy() takes the buffer to write  *)
(* to for the last one: where more space follows, after a reservation of   *)
(* two buffers or a reference with space before a buffer with space, it    *)
(* fails the checks.  In the style of copies no reference has space.       *)
(***************************************************************************)
EXTENDS Naturals, Sequences

CONSTANTS
    BufferSize,     \* the bytes in a BufferCopy
    MaxWritten,     \* a bound on the bytes that are written
    MaxBuffers,     \* a bound on the buffers in the list
    Styles          \* sets of {"reserve", "copy", "ref"}

VARIABLES
    style,
    stream,     \* bufs, rsize, rend, wpos, wsize, tail: the pointers are places in
                \* bufs, 0 for none; a buffer has its data and its free bytes
    written,    \* the bytes that have been written...
    read        \* ... and read

streamVars == <<style, stream, written, read>>

Fresh == [data |-> <<>>, free |-> BufferSize]
EmptyStream == [bufs |-> <<>>, rsize |-> 0, rend |-> 0, wpos |-> 0, wsize |-> 0, tail |-> 0]

StreamInit ==
    /\ style \in Styles
    /\ stream = EmptyStream
    /\ written = 0 /\ read = 0

Numbers(first, n) == [k \in 1..n |-> first + k]
NotBigger(a, b) == IF a < b THEN a ELSE b

\* myTail->myNext = a new buffer, which may be the first one.
AddTail(s) == [s EXCEPT !.bufs = Append(SubSeq(@, 1, s.tail), Fresh), !.tail = @ + 1]

\* Without a place to write to a new buffer becomes one.
WithWritePos(s) ==
    IF s.wpos # 0 THEN s
    ELSE [AddTail(s) EXCEPT !.wpos = s.tail + 1, !.wsize = BufferSize]

\* The first n buffers are gone.
Back(n, place) == IF place > n THEN place - n ELSE 0
DropBuffers(s, n) ==
    IF n >= Len(s.bufs) THEN EmptyStream
    ELSE [s EXCEPT !.bufs = SubSeq(@, n + 1, Len(@)), !.rend = Back(n, @),
                   !.wpos = Back(n, @), !.tail = Back(n, @)]

-----------------------------------------------------------------------------
(* Writing.                                                                 *)

RECURSIVE Reserved(_, _)
Reserved(s, n) ==
    IF s.wsize >= n THEN s ELSE Reserved([AddTail(s) EXCEPT !.wsize = @ + BufferSize], n)

EnsureWriteSize(n) ==
    /\ "reserve" \in style
    /\ n > stream.wsize
    /\ stream' = Reserved(WithWritePos(stream), n)
    /\ UNCHANGED <<style, written, read>>

\* BuffersPropagateOnWrite(): n bytes, from the number first + 1 on, fill the buffers
\* from the place on; also the place of the last one of them.
RECURSIVE Filled(_, _, _, _)
Filled(bufs, at, first, n) ==
    LET take == NotBigger(n, bufs[at].free)
        new == [bufs EXCEPT ![at].data = @ \o Numbers(first, take), ![at].free = @ - take]
    IN  IF take = n THEN [bufs |-> new, at |-> at]
        ELSE Filled(new, at + 1, first + take, n - take)

PropagateWritePos(n) ==
    /\ "reserve" \in style
    /\ n \in 1..stream.wsize /\ written + n <= MaxWritten
    /\ LET f == Filled(stream.bufs, stream.wpos, written, n)
       IN  stream' = [stream EXCEPT !.bufs = f.bufs, !.rend = f.at, !.rsize = @ + n,
                          !.wsize = @ - n,
                          !.wpos = IF stream.wsize = n THEN 0
                                   ELSE IF f.bufs[f.at].free = 0 THEN f.at + 1 ELSE f.at]
    /\ written' = written + n
    /\ UNCHANGED <<style, read>>

\* The buffer to write to is filled; if that was not enough a new tail is the next.
RECURSIVE Copied(_, _, _)
Copied(s, first, n) ==
    LET take == NotBigger(n, s.bufs[s.wpos].free)
        new == [s EXCEPT !.bufs[s.wpos].data = @ \o Numbers(first, take),
                         !.bufs[s.wpos].free = @ - take]
        full == new.bufs[s.wpos].free = 0
    IN  IF take = n
        THEN [new EXCEPT !.rend = s.wpos, !.wpos = IF full THEN 0 ELSE @,
                         !.wsize = IF full THEN 0 ELSE @ - n]
        ELSE Copied([AddTail(new) EXCEPT !.wpos = s.tail + 1, !.wsize = BufferSize],
                    first + take, n - take)

WriteCopy(n) ==
    /\ "copy" \in style
    /\ written + n <= MaxWritten
    /\ stream' = [Copied(WithWritePos(stream), written, n) EXCEPT !.rsize = @ + n]
    /\ written' = written + n
    /\ UNCHANGED <<style, read>>

-----------------------------------------------------------------------------
(* WriteRef(): a list of buffers with data, any of which may have space,    *)
(* for they may come from several streams.                                 *)

InsertAfter(bufs, n, new) == SubSeq(bufs, 1, n) \o new \o SubSeq(bufs, n + 1, Len(bufs))

\* Where the reference goes in: to the end of a stream that has no space, to the head
\* of one that has no data, after the buffer that is being written or, when that
\* one is still empty, before it.
RefPlace(s) ==
    CASE s.wpos = 0 -> s.tail
      [] s.wpos # 0 /\ s.rend = 0 -> 0
      [] s.wpos # 0 /\ s.rend # 0 ->
            IF s.bufs[s.wpos].data # <<>> THEN s.wpos ELSE s.rend

\* The space that is left of the buffer that was written to is given up.
WithRef(s, new, size) ==
    LET at == RefPlace(s)
        end == at + Len(new)
        free == new[Len(new)].free
        given == IF at = s.wpos /\ at # 0 THEN s.bufs[at].free ELSE 0
        after == IF at = s.wpos THEN (IF s.tail > at THEN end + 1 ELSE 0)
                 ELSE s.wpos + Len(new)
    IN  [bufs |-> InsertAfter(s.bufs, at, new), rsize |-> s.rsize + size, rend |-> end,
         wpos |-> IF free > 0 THEN end ELSE IF s.wpos = 0 THEN 0 ELSE after,
         wsize |-> (s.wsize - given) + free,
         tail |-> IF s.tail > at THEN s.tail + Len(new) ELSE end]

WriteRef(sizes, free) ==
    /\ "ref" \in style
    /\ "copy" \in style => free[Len(sizes)] = 0
    /\ LET first(n) == written + (IF n = 1 THEN 0 ELSE sizes[1])
           new == [n \in DOMAIN sizes |-> [data |-> Numbers(first(n), sizes[n]), free |-> free[n]]]
           size == written + sizes[1] + (IF Len(sizes) = 1 THEN 0 ELSE sizes[2])
       IN  /\ size <= MaxWritten /\ Len(stream.bufs) + Len(new) <= MaxBuffers
           /\ stream' = WithRef(stream, new, size - written)
           /\ written' = size
    /\ UNCHANGED <<style, read>>

-----------------------------------------------------------------------------
(* Reading.                                                                 *)

Cut(buf, n) == [buf EXCEPT !.data = SubSeq(@, n + 1, Len(@))]

\* BuffersPropagateOnRead(): the buffers that are read to the end are dropped, but for
\* the last one when it has space.
RECURSIVE Skipped(_, _)
Skipped(bufs, n) ==
    IF n = 0 THEN bufs
    ELSE LET head == Cut(bufs[1], n)
         IN  IF Len(bufs[1].data) < n THEN Skipped(Tail(bufs), n - Len(bufs[1].data))
             ELSE IF head.data = <<>> /\ head.free = 0 THEN Tail(bufs)
             ELSE <<head>> \o Tail(bufs)

\* The head is not the place to write to and has no data any more: it goes.
WithoutHole(s) ==
    IF s.bufs # <<>> /\ s.bufs[1].data = <<>> /\ s.wpos # 1 THEN DropBuffers(s, 1) ELSE s

Propagated(s, bufs) ==
    LET dropped == DropBuffers(s, Len(s.bufs) - Len(bufs))
    IN  IF bufs = <<>> THEN dropped ELSE [dropped EXCEPT !.bufs = bufs]

\* A mutant: the hole is left.
SkipDataHole(n) ==
    /\ n \in 1..stream.rsize
    /\ LET s == Propagated([stream EXCEPT !.rsize = @ - n], Skipped(stream.bufs, n))
       IN  stream' = IF s.bufs = <<>> THEN s ELSE IF s.rsize = 0 THEN [s EXCEPT !.rend = 0] ELSE s
    /\ read' = read + n
    /\ UNCHANGED <<style, written>>

SkipData(n) ==
    /\ n \in 1..stream.rsize
    /\ LET s == Propagated([stream EXCEPT !.rsize = @ - n], Skipped(stream.bufs, n))
       IN  stream' = IF s.bufs = <<>> THEN s
                     ELSE IF s.rsize = 0 THEN [s EXCEPT !.rend = 0]
                     ELSE WithoutHole(s)
    /\ read' = read + n
    /\ UNCHANGED <<style, written>>

\* ReadData() looks for the hole also when all has been read.  A buffer that it leaves
\* behind without data and without space goes.
RECURSIVE ReadOff(_, _)
ReadOff(bufs, n) ==
    IF Len(bufs[1].data) < n THEN ReadOff(Tail(bufs), n - Len(bufs[1].data))
    ELSE <<Cut(bufs[1], n)>> \o Tail(bufs)

\* PeekData(): the bytes of the buffers, one after another.
RECURSIVE Peeked(_, _)
Peeked(bufs, n) ==
    IF Len(bufs[1].data) >= n THEN SubSeq(bufs[1].data, 1, n)
    ELSE bufs[1].data \o Peeked(Tail(bufs), n - Len(bufs[1].data))

ReadData(n) ==
    /\ n \in 1..stream.rsize
    /\ LET rest == stream.rsize - n
           s == [stream EXCEPT !.rsize = rest, !.rend = IF rest = 0 THEN 0 ELSE @]
       IN  stream' = WithoutHole(Propagated(s, ReadOff(stream.bufs, n)))
    /\ read' = read + n
    /\ UNCHANGED <<style, written>>

\* All that can be read; what follows its last buffer stays.
PopData ==
    /\ stream.rend # 0
    /\ LET s == DropBuffers(stream, stream.rend)
       IN  stream' = IF s.bufs = <<>> THEN s
                     ELSE [s EXCEPT !.rsize = 0, !.rend = 0, !.wpos = 1,
                                    !.wsize = @ - stream.bufs[stream.rend].free]
    /\ read' = written
    /\ UNCHANGED <<style, written>>

Clear ==
    /\ stream' = EmptyStream
    /\ read' = written
    /\ UNCHANGED <<style, written>>

StreamNext ==
    \/ \E n \in 1..(2 * BufferSize + 1) :
          \/ Len(stream.bufs) < MaxBuffers /\ (EnsureWriteSize(n) \/ WriteCopy(n))
          \/ PropagateWritePos(n) \/ SkipData(n) \/ ReadData(n)
    \/ \E sizes \in {<<1>>, <<2>>, <<1, 1>>}, free \in {<<0, 0>>, <<0, 1>>, <<1, 0>>, <<1, 1>>} :
          WriteRef(sizes, free)
    \/ PopData \/ Clear

-----------------------------------------------------------------------------
\* PrivCheck() and the assertions of the operations: the pointers and the sizes are
\* true to the list...
RECURSIVE Sum(_)
Sum(s) == IF s = <<>> THEN 0 ELSE Head(s) + Sum(Tail(s))
Bufs == DOMAIN stream.bufs
HasData(n) == stream.bufs[n].data # <<>>
HasSpace(n) == stream.bufs[n].free > 0
\* ... and what can be read are the bytes that were written and not yet read, in order.
StreamIsTrue ==
    LET all == [n \in Bufs |-> Len(stream.bufs[n].data)]
        space == [n \in Bufs |-> IF stream.wpos # 0 /\ n >= stream.wpos THEN stream.bufs[n].free ELSE 0]
    IN  /\ stream.rsize = written - read
        /\ \A n \in 1..stream.rsize : Peeked(stream.bufs, n) = Numbers(read, n)
        /\ stream.rsize = Sum(all) /\ stream.wsize = Sum(space)
        /\ stream.tail = Len(stream.bufs)
        /\ stream.rend = (IF stream.rsize = 0 THEN 0 ELSE CHOOSE n \in Bufs :
               HasData(n) /\ \A m \in Bufs : m > n => ~HasData(m))
        /\ \A n \in Bufs : n < stream.rend => HasData(n)
        /\ stream.wpos = 0 => \A n \in Bufs : n >= stream.rend => ~HasSpace(n)
        /\ stream.wpos # 0 => /\ HasSpace(stream.wpos)
                              /\ stream.wpos \in {stream.rend, stream.rend + 1}
                              /\ \A n \in Bufs : n > stream.wpos => ~HasData(n)
=============================================================================
