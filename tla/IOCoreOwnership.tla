--------------------------- MODULE IOCoreOwnership ---------------------------
(***************************************************************************)
(* Proofs about the tasks of the IOCore, for any numbers of workers,       *)
(* clients and tasks and with every backend: who has a task, that no event *)
(* of its socket is lost and no operation miscounted, that the assertions  *)
(* about tasks hold, that a closed task is forgotten by all, and that the  *)
(* owner of a task sees what IOTaskSpec allows.                            *)
(*                                                                         *)
(* The code has no field for the place of a task.  It is where its status, *)
(* its flags and its queues together say, so the invariant has three parts *)
(* that only hold together:                                                *)
(*   - a task has one seat: the front queue, the ready queue, the hands of *)
(*     a thread, or none (QueuesApart, SeatsApart);                        *)
(*   - its fields are what they are to be in that place (TaskFits);        *)
(*   - what it waits for is in one place on the way through the kernel and *)
(*     back: a flag that is due is not lost, and an operation is neither   *)
(*     lost nor doubled (EventsFit, KernelFits).                           *)
(* A step moves one task at most, so a proof says for that task where it   *)
(* comes from, where it goes to and what became of its fields, and the     *)
(* lemmas on moves say that all others stay as they were.                  *)
(***************************************************************************)
EXTENDS IOCoreProofs, FunctionTheorems

\* Nothing is in a queue twice.
Distinct(s) == \A i, j \in DOMAIN s : s[i] = s[j] => i = j

-----------------------------------------------------------------------------
(* Where a task is: queued to the sched-thread, queued to the workers, in a *)
(* thread's hands, or nowhere.                                              *)

Posted == In(queue.front) \cup In(queue.pending)
Due == In(queue.list) \cup In(queue.ready)
Holds(p, t) == thread[p].task = t /\ thread[p].pc \in HandPCs
Held(t) == \E p \in Threads : Holds(p, t)

QueuesApart ==
    /\ Distinct(queue.front) /\ Distinct(queue.pending)
    /\ Distinct(queue.list) /\ Distinct(queue.ready)
    /\ In(queue.front) \cap In(queue.pending) = {}
    /\ In(queue.list) \cap In(queue.ready) = {}

SeatsApart ==
    /\ Posted \cap Due = {}
    /\ \A t \in Tasks : Held(t) => t \notin Posted /\ t \notin Due
    /\ \A t \in Tasks : \A p, q \in Threads : Holds(p, t) /\ Holds(q, t) => p = q

Place(t) ==
    IF t \in Posted THEN "posted"
    ELSE IF t \in Due THEN "due"
    ELSE IF Held(t) THEN thread[CHOOSE p \in Threads : Holds(p, t)].pc
    ELSE "nowhere"

Places == {"posted", "due", "nowhere"} \cup HandPCs

-----------------------------------------------------------------------------
(* What a task's fields are where it is.                                    *)

\* Nobody's task: new, or closed for good.
Blank(r) == /\ r.pending = {} /\ r.ready = {} /\ r.locked = {}
            /\ r.operations = 0 /\ r.toSubmit = <<>> /\ ~r.socket

\* On its way to the sched-thread.
Queued(b, r) ==
    /\ r.sub /\ r.inQueues /\ ~r.isClosed
    /\ r.status \in {"PENDING", "READY", "CLOSING"}
    /\ b \in {"iouring", "iocp"} => r.ready = {}

\* On its way to a worker.
Called(b, r) ==
    /\ r.sub /\ r.inQueues
    /\ r.status \in {"READY", "CLOSING", "CLOSED"}
    /\ r.isClosed <=> r.status = "CLOSED"
    /\ r.isClosed => /\ ~r.socket /\ r.pending = {} /\ r.toSubmit = <<>>
                     /\ b \in {"iouring", "iocp"} => r.operations = Cardinality(r.ready)

Running(b, r) ==
    /\ r.sub /\ ~r.inQueues /\ ~r.isClosed
    /\ r.status \in {"PENDING", "READY", "CLOSING"}
    /\ b \in {"iouring", "iocp"} => r.ready = {}

\* With the sched-thread, in no queue of tasks.
Parked(b, r, waits) ==
    /\ r.sub /\ r.inQueues
    /\ \/ /\ r.status = "WAITING" /\ r.pending = {} /\ ~r.isClosed
          /\ b \in {"iouring", "iocp"} => r.ready = {}
       \/ /\ b = "iouring" /\ r.status = "CLOSING" /\ ~r.isClosed /\ ~waits
          /\ "cancel" \in r.locked /\ r.ready = {} /\ r.toSubmit = <<>>
       \/ /\ b = "iocp" /\ r.status = "CLOSED" /\ r.isClosed /\ ~waits
          /\ r.operations # Cardinality(r.pending) /\ r.ready = {} /\ ~r.socket

Fits(b, place, r, waits) ==
    /\ r.guard <=> (r.status \in {"CLOSING", "CLOSED"} \/ r.isClosed)
    /\ waits => /\ place \in {"nowhere", "posted", "push"} /\ r.sub
                /\ r.status \in {"WAITING", "READY", "CLOSING"} /\ r.deadline # Infinite
    /\ place \in {"posted", "push"} => Queued(b, r)
    /\ place \in {"due", "execute"} => Called(b, r)
    /\ place = "callback" => Running(b, r)
    /\ place = "closed" => ~r.sub /\ r.isClosed /\ r.status = "CLOSED"
    /\ place = "attach" => ~r.sub /\ r.isClosed /\ r.status \in {"PENDING", "READY"}
    /\ place = "nowhere" /\ r.sub => Parked(b, r, waits)
    /\ ~r.sub => Blank(r)
    /\ place = "nowhere" /\ ~r.sub =>
          /\ r.status \in {"PENDING", "READY", "CLOSING", "CLOSED"}
          /\ r.isClosed <=> r.status = "CLOSED"
    /\ "cancel" \in r.locked =>
          /\ b = "iouring"
          /\ r.status = "CLOSED" \/ (r.status = "CLOSING" /\ place = "nowhere")
    /\ b # "iouring" => r.toSubmit = <<>>

TaskFits(t) == Fits(backend, Place(t), task[t], t \in queue.waiting)

-----------------------------------------------------------------------------
(* The flags of a socket.                                                   *)

FlagFits(r, flag, data, reported, harvested) ==
    /\ r.locked \subseteq {flag} /\ r.operations = 0
    /\ ~r.socket => ~data /\ reported = {} /\ harvested = {} /\ r.pending = {}
    /\ r.isClosed => ~r.socket
    /\ data /\ flag \in r.locked /\ r.status \notin {"CLOSING", "CLOSED"} =>
          flag \in reported \cup harvested \cup r.pending \cup r.ready

FlagsFit(t) == FlagFits(task[t], Flag(t), t \in kernel.data, kernel.reported[t], Harvested(t))

-----------------------------------------------------------------------------
(* The operations of a task: each is in one place, and counted.             *)

\* Those the task does not have itself.
Away(t, k) == N(<<t, k>> \in In(kernel.toSubmit)) + N(<<t, k>> \in kernel.inside)
              + N(<<t, k>> \in kernel.done) + N(<<t, k>> \in round.harvest)
AwayIo(t) == Away(t, "io") + Away(t, "fail")

Back(r, k) == N(k \in r.pending) + N(k \in r.ready)

OperationFits(r, t, io, cancel) ==
    /\ r.toSubmit \in {<<>>, <<<<t, "io">>>>}
    /\ io + Len(r.toSubmit) + Back(r, "io") + Back(r, "fail") = N("io" \in r.locked)
    /\ cancel + Back(r, "cancel") = N("cancel" \in r.locked)
    /\ r.operations = N("io" \in r.locked) + N("cancel" \in r.locked)

OperationsFit(t) == OperationFits(task[t], t, AwayIo(t), Away(t, "cancel"))

\* Every operation of a task is there once.
Once(s) == \A i, j \in DOMAIN s : s[i] = s[j] /\ s[i][1] \in Tasks => i = j

\* The kernel has what is not finished, and flags or operations but not both.
KernelFits ==
    /\ Flagged => /\ kernel.inside = {} /\ kernel.done = {} /\ kernel.cancelled = {}
                  /\ kernel.toSubmit = <<>>
    /\ ~Flagged => /\ kernel.data = {} /\ \A t \in Tasks : kernel.reported[t] = {}
    /\ kernel.cancelled \subseteq kernel.inside
    /\ \A t \in Tasks : <<t, "fail">> \notin In(kernel.toSubmit) \cup kernel.inside
    /\ Once(kernel.toSubmit)

-----------------------------------------------------------------------------
(* Sequences as sets.                                                       *)

\* The empty queue.
LEMMA InEmpty == In(<<>>) = {} /\ Distinct(<<>>)
  BY DEF In, Distinct

\* A task is appended to a queue.
LEMMA InAppend ==
    ASSUME NEW S, NEW s \in Seq(S), NEW x \in S
    PROVE  /\ In(Append(s, x)) = In(s) \cup {x}
           /\ Distinct(s) /\ x \notin In(s) => Distinct(Append(s, x))
<1>1. Append(s, x) \in Seq(S) /\ Len(Append(s, x)) = Len(s) + 1 /\ Len(s) \in Nat
      /\ (\A i \in 1..Len(s) : Append(s, x)[i] = s[i]) /\ Append(s, x)[Len(s) + 1] = x
  BY AppendProperties, LenProperties
<1>2. DOMAIN s = 1..Len(s) /\ DOMAIN Append(s, x) = 1..(Len(s) + 1)
  BY <1>1, LenProperties
<1>3. PICK n \in Nat : n = Len(s)
  BY <1>1
<1>4. PICK a : a = Append(s, x)
  OBVIOUS
<1>5. DOMAIN s = 1..n /\ DOMAIN a = 1..(n + 1) /\ (\A i \in 1..n : a[i] = s[i]) /\ a[n + 1] = x
  BY <1>1, <1>2, <1>3, <1>4
<1>6. In(a) = In(s) \cup {x}
  BY <1>5 DEF In
<1>7. ASSUME Distinct(s), x \notin In(s) PROVE Distinct(a)
  <2>1. ASSUME NEW i \in 1..(n + 1), NEW j \in 1..(n + 1), a[i] = a[j] PROVE i = j
    <3>1. \A k \in 1..n : a[k] # x
      BY <1>5, <1>7 DEF In
    <3>2. CASE i \in 1..n /\ j \in 1..n
      BY <1>5, <1>7, <2>1, <3>2 DEF Distinct
    <3>3. CASE i = n + 1 \/ j = n + 1
      BY <1>5, <2>1, <3>1, <3>3
    <3> QED BY <3>2, <3>3
  <2> QED BY <1>5, <2>1 DEF Distinct
<1> QED BY <1>4, <1>6, <1>7

\* A queue is appended to another, as AppendPop of the intrusive lists does.
LEMMA InConcat ==
    ASSUME NEW S, NEW a \in Seq(S), NEW b \in Seq(S)
    PROVE  /\ In(a \o b) = In(a) \cup In(b)
           /\ Distinct(a) /\ Distinct(b) /\ In(a) \cap In(b) = {} => Distinct(a \o b)
<1>1. PICK c : c = a \o b
  OBVIOUS
<1>2. PICK m \in Nat, n \in Nat : m = Len(a) /\ n = Len(b)
  BY LenProperties
<1>3. DOMAIN a = 1..m /\ DOMAIN b = 1..n /\ DOMAIN c = 1..(m + n)
      /\ (\A i \in 1..m : c[i] = a[i]) /\ (\A i \in (m + 1)..(m + n) : c[i] = b[i - m])
  <2>1. c \in Seq(S) /\ Len(c) = m + n
    BY <1>1, <1>2, ConcatProperties
  <2>2. DOMAIN a = 1..m /\ DOMAIN b = 1..n /\ DOMAIN c = 1..(m + n)
    BY <1>2, <2>1, LenProperties
  <2>3. \A i \in 1..(m + n) : c[i] = IF i <= m THEN a[i] ELSE b[i - m]
    BY <1>1, <1>2, ConcatProperties
  <2> QED BY <2>2, <2>3
<1>4. In(c) = In(a) \cup In(b)
  <2>1. ASSUME NEW i \in 1..(m + n) PROVE c[i] \in In(a) \cup In(b)
    <3>1. CASE i \in 1..m
      BY <1>3, <3>1 DEF In
    <3>2. CASE i \in (m + 1)..(m + n)
      <4>1. i - m \in 1..n
        BY <3>2
      <4> QED BY <1>3, <3>2, <4>1 DEF In
    <3> QED BY <3>1, <3>2
  <2>2. ASSUME NEW i \in 1..m PROVE a[i] \in In(c)
    <3>1. i \in 1..(m + n)
      OBVIOUS
    <3> QED BY <1>3, <3>1 DEF In
  <2>3. ASSUME NEW i \in 1..n PROVE b[i] \in In(c)
    <3>1. m + i \in (m + 1)..(m + n) /\ m + i \in 1..(m + n) /\ (m + i) - m = i
      OBVIOUS
    <3> QED BY <1>3, <3>1 DEF In
  <2> QED BY <1>3, <2>1, <2>2, <2>3 DEF In
<1>5. ASSUME Distinct(a), Distinct(b), In(a) \cap In(b) = {} PROVE Distinct(c)
  <2>1. \A i \in 1..m, j \in 1..n : a[i] # b[j]
    BY <1>3, <1>5 DEF In
  <2>2. ASSUME NEW i \in 1..(m + n), NEW j \in 1..(m + n), c[i] = c[j] PROVE i = j
    <3>1. CASE i \in 1..m /\ j \in 1..m
      BY <1>3, <1>5, <2>2, <3>1 DEF Distinct
    <3>2. CASE i \in (m + 1)..(m + n) /\ j \in (m + 1)..(m + n)
      <4>1. i - m \in 1..n /\ j - m \in 1..n /\ b[i - m] = b[j - m]
        BY <1>3, <2>2, <3>2
      <4>2. i - m = j - m
        BY <1>3, <1>5, <4>1 DEF Distinct
      <4> QED BY <4>2
    <3>3. CASE i \in 1..m /\ j \in (m + 1)..(m + n)
      <4>1. j - m \in 1..n
        BY <3>3
      <4> QED BY <1>3, <2>1, <2>2, <3>3, <4>1
    <3>4. CASE j \in 1..m /\ i \in (m + 1)..(m + n)
      <4>1. i - m \in 1..n
        BY <3>4
      <4> QED BY <1>3, <2>1, <2>2, <3>4, <4>1
    <3> QED BY <3>1, <3>2, <3>3, <3>4
  <2> QED BY <1>3, <2>2 DEF Distinct
<1> QED BY <1>1, <1>4, <1>5

\* The first task of a queue is taken off.
LEMMA InTail ==
    ASSUME NEW S, NEW s \in Seq(S), s # <<>>, Distinct(s)
    PROVE  /\ Head(s) \in In(s) /\ Head(s) \in S
           /\ In(Tail(s)) = In(s) \ {Head(s)} /\ Distinct(Tail(s))
<1>1. PICK n \in Nat : n = Len(s)
  BY LenProperties
<1>2. n >= 1 /\ DOMAIN s = 1..n /\ s[1] \in S
  BY <1>1, LenProperties, EmptySeq, ElementOfSeq
<1>3. PICK r : r = Tail(s)
  OBVIOUS
<1>4. DOMAIN r = 1..(n - 1) /\ (\A i \in 1..(n - 1) : r[i] = s[i + 1]) /\ Head(s) = s[1]
  <2>1. r \in Seq(S) /\ Len(r) = n - 1 /\ (\A i \in 1..Len(r) : r[i] = s[i + 1])
    BY <1>1, <1>3, HeadTailProperties
  <2> QED BY <2>1, LenProperties
<1>5. \A i \in 2..n : i - 1 \in 1..(n - 1) /\ r[i - 1] = s[i] /\ s[i] # s[1]
  <2>1. ASSUME NEW i \in 2..n PROVE i - 1 \in 1..(n - 1) /\ (i - 1) + 1 = i /\ i \in 1..n /\ 1 \in 1..n
    BY <1>2
  <2> QED BY <1>2, <1>4, <2>1 DEF Distinct
<1>6. \A i \in 1..(n - 1) : i + 1 \in 2..n
  BY <1>2
<1>7. In(r) = In(s) \ {s[1]}
  <2>1. ASSUME NEW i \in 1..(n - 1) PROVE r[i] \in In(s) \ {s[1]}
    BY <1>2, <1>4, <1>5, <1>6 DEF In
  <2>2. ASSUME NEW i \in 1..n, s[i] # s[1] PROVE s[i] \in In(r)
    <3>1. i \in 2..n
      BY <2>2
    <3> QED BY <1>4, <1>5, <3>1 DEF In
  <2> QED BY <1>2, <1>4, <2>1, <2>2, ZenonT(60) DEF In
<1>8. Distinct(r)
  <2>1. ASSUME NEW i \in 1..(n - 1), NEW j \in 1..(n - 1), r[i] = r[j] PROVE i = j
    <3>1. i + 1 \in 1..n /\ j + 1 \in 1..n /\ s[i + 1] = s[j + 1]
      BY <1>2, <1>4, <2>1
    <3>2. i + 1 = j + 1
      BY <1>2, <3>1 DEF Distinct
    <3> QED BY <3>2
  <2> QED BY <1>4, <2>1 DEF Distinct
<1> QED BY <1>2, <1>3, <1>4, <1>7, <1>8 DEF In

-----------------------------------------------------------------------------
(* How the queues change.                                                   *)

QueueFields == queue.front \in Seq(Tasks) /\ queue.pending \in Seq(Tasks)
               /\ queue.list \in Seq(Tasks) /\ queue.ready \in Seq(Tasks)

\* The queues hold tasks.
LEMMA QueueTypes == TypeOK => QueueFields
  BY DEF TypeOK, QueueType, QueueFields

\* A step that leaves the queues alone.
LEMMA SameSeats ==
    ASSUME QueuesApart, queue'.front = queue.front, queue'.pending = queue.pending,
           queue'.list = queue.list, queue'.ready = queue.ready
    PROVE  QueuesApart' /\ Posted' = Posted /\ Due' = Due
  BY DEF QueuesApart, Posted, Due

\* The push of a task onto the front queue.
LEMMA FrontAppended ==
    ASSUME QueueFields, QueuesApart, NEW t \in Tasks, t \notin Posted,
           queue'.front = Append(queue.front, t), queue'.pending = queue.pending,
           queue'.list = queue.list, queue'.ready = queue.ready
    PROVE  QueuesApart' /\ Posted' = Posted \cup {t} /\ Due' = Due
<1>1. In(queue'.front) = In(queue.front) \cup {t} /\ Distinct(queue'.front)
  BY InAppend DEF QueueFields, QueuesApart, Posted
<1> QED BY <1>1 DEF QueuesApart, Posted, Due

\* The sched-thread takes the whole front queue.
LEMMA FrontTaken ==
    ASSUME QueueFields, QueuesApart, queue'.pending = queue.pending \o queue.front,
           queue'.front = <<>>, queue'.list = queue.list, queue'.ready = queue.ready
    PROVE  QueuesApart' /\ Posted' = Posted /\ Due' = Due
<1>1. In(queue'.pending) = In(queue.pending) \cup In(queue.front) /\ Distinct(queue'.pending)
      /\ In(queue'.front) = {} /\ Distinct(queue'.front)
  BY InConcat, InEmpty DEF QueueFields, QueuesApart
<1> QED BY <1>1 DEF QueuesApart, Posted, Due

\* The sched-thread gives the list it made to the workers.
LEMMA ListPublished ==
    ASSUME QueueFields, QueuesApart, queue'.ready = queue.ready \o queue.list,
           queue'.list = <<>>, queue'.front = queue.front, queue'.pending = queue.pending
    PROVE  QueuesApart' /\ Posted' = Posted /\ Due' = Due
<1>1. In(queue'.ready) = In(queue.ready) \cup In(queue.list) /\ Distinct(queue'.ready)
      /\ In(queue'.list) = {} /\ Distinct(queue'.list)
  BY InConcat, InEmpty DEF QueueFields, QueuesApart
<1> QED BY <1>1 DEF QueuesApart, Posted, Due

\* A worker pops a ready task.
LEMMA ReadyPopped ==
    ASSUME QueueFields, QueuesApart, queue.ready # <<>>, queue'.ready = Tail(queue.ready),
           queue'.front = queue.front, queue'.pending = queue.pending,
           queue'.list = queue.list
    PROVE  /\ Head(queue.ready) \in Due /\ Head(queue.ready) \in Tasks
           /\ QueuesApart' /\ Posted' = Posted /\ Due' = Due \ {Head(queue.ready)}
<1>1. PICK h : h = Head(queue.ready)
  OBVIOUS
<1>2. h \in In(queue.ready) /\ h \in Tasks /\ In(queue'.ready) = In(queue.ready) \ {h}
      /\ Distinct(queue'.ready)
  BY <1>1, InTail DEF QueueFields, QueuesApart
<1>3. QueuesApart' /\ Posted' = Posted
  BY <1>2 DEF QueuesApart, Posted
<1>4. Due' = Due \ {h} /\ h \in Due
  BY <1>2 DEF QueuesApart, Due
<1> QED BY <1>1, <1>2, <1>3, <1>4

\* The sched-thread takes the next task of the front queue to let it sleep.
LEMMA PendingPopped ==
    ASSUME QueueFields, QueuesApart, queue.pending # <<>>, queue'.pending = Tail(queue.pending),
           queue'.front = queue.front, queue'.list = queue.list, queue'.ready = queue.ready
    PROVE  /\ Head(queue.pending) \in Posted /\ Head(queue.pending) \in Tasks
           /\ QueuesApart' /\ Posted' = Posted \ {Head(queue.pending)} /\ Due' = Due
<1>1. PICK h : h = Head(queue.pending)
  OBVIOUS
<1>2. h \in In(queue.pending) /\ h \in Tasks /\ In(queue'.pending) = In(queue.pending) \ {h}
      /\ Distinct(queue'.pending)
  BY <1>1, InTail DEF QueueFields, QueuesApart
<1>3. QueuesApart' /\ Due' = Due
  BY <1>2 DEF QueuesApart, Due
<1>4. Posted' = Posted \ {h} /\ h \in Posted
  BY <1>2 DEF QueuesApart, Posted
<1> QED BY <1>1, <1>2, <1>3, <1>4

\* A task that slept is appended to the list for the workers.
LEMMA ListAppended ==
    ASSUME QueueFields, QueuesApart, NEW t \in Tasks, t \notin Due,
           queue'.list = Append(queue.list, t), queue'.front = queue.front,
           queue'.pending = queue.pending, queue'.ready = queue.ready
    PROVE  QueuesApart' /\ Posted' = Posted /\ Due' = Due \cup {t}
<1>1. In(queue'.list) = In(queue.list) \cup {t} /\ Distinct(queue'.list)
  BY InAppend DEF QueueFields, QueuesApart, Due
<1> QED BY <1>1 DEF QueuesApart, Posted, Due

\* A task of the front queue goes on to that list at once.
LEMMA PendingToList ==
    ASSUME QueueFields, QueuesApart, queue.pending # <<>>, Posted \cap Due = {},
           queue'.pending = Tail(queue.pending),
           queue'.list = Append(queue.list, Head(queue.pending)),
           queue'.front = queue.front, queue'.ready = queue.ready
    PROVE  /\ Head(queue.pending) \in Posted /\ Head(queue.pending) \in Tasks
           /\ QueuesApart' /\ Posted' = Posted \ {Head(queue.pending)}
           /\ Due' = Due \cup {Head(queue.pending)}
<1>1. PICK h : h = Head(queue.pending)
  OBVIOUS
<1>2. h \in In(queue.pending) /\ h \in Tasks /\ In(queue'.pending) = In(queue.pending) \ {h}
      /\ Distinct(queue'.pending)
  BY <1>1, InTail DEF QueueFields, QueuesApart
<1>3. h \notin Due /\ h \in Posted
  BY <1>2 DEF Posted
<1>4. In(queue'.list) = In(queue.list) \cup {h} /\ Distinct(queue'.list)
  BY <1>1, <1>2, <1>3, InAppend DEF QueueFields, QueuesApart, Due
<1>5. QueuesApart'
  BY <1>2, <1>3, <1>4 DEF QueuesApart, Due
<1>6. Posted' = Posted \ {h} /\ Due' = Due \cup {h}
  BY <1>2, <1>4 DEF QueuesApart, Posted, Due
<1> QED BY <1>1, <1>2, <1>3, <1>5, <1>6

-----------------------------------------------------------------------------
(* How the seats of the tasks change.                                       *)

\* What Place() says, when every task has one seat at most.
PlaceIsSeat ==
    \A t \in Tasks :
       /\ t \in Posted <=> Place(t) = "posted"
       /\ t \in Due <=> Place(t) = "due"
       /\ \A p \in Threads : Holds(p, t) => Place(t) = thread[p].pc
       /\ Place(t) \in HandPCs => \E p \in Threads : Holds(p, t) /\ Place(t) = thread[p].pc
       /\ Place(t) = "nowhere" <=> t \notin Posted /\ t \notin Due /\ ~Held(t)
       /\ Place(t) \in Places

\* Where the seats are apart, the place of a task is the one seat it has.
LEMMA SeatsHavePlaces == SeatsApart => PlaceIsSeat
<1> SUFFICES ASSUME SeatsApart, NEW t \in Tasks
             PROVE  /\ t \in Posted <=> Place(t) = "posted"
                    /\ t \in Due <=> Place(t) = "due"
                    /\ \A p \in Threads : Holds(p, t) => Place(t) = thread[p].pc
                    /\ Place(t) \in HandPCs =>
                          \E p \in Threads : Holds(p, t) /\ Place(t) = thread[p].pc
                    /\ Place(t) = "nowhere" <=> t \notin Posted /\ t \notin Due /\ ~Held(t)
                    /\ Place(t) \in Places
  BY DEF PlaceIsSeat
<1>1. "posted" \notin HandPCs /\ "due" \notin HandPCs /\ "nowhere" \notin HandPCs
      /\ HandPCs \subseteq Places
  BY DEF HandPCs, Places
<1>2. CASE Held(t)
  <2>1. PICK h \in Threads : h = CHOOSE p \in Threads : Holds(p, t)
    BY <1>2 DEF Held
  <2>2. Holds(h, t)
    BY <1>2, <2>1 DEF Held
  <2>3. t \notin Posted /\ t \notin Due
    BY <1>2 DEF SeatsApart
  <2>4. Place(t) = thread[h].pc
    BY <1>2, <2>1, <2>3 DEF Place
  <2>5. \A p \in Threads : Holds(p, t) => p = h
    BY <2>2 DEF SeatsApart
  <2>6. thread[h].pc \in HandPCs
    BY <2>2 DEF Holds
  <2> QED BY <1>1, <1>2, <2>2, <2>3, <2>4, <2>5, <2>6
<1>3. CASE ~Held(t)
  <2>1. \A p \in Threads : ~Holds(p, t)
    BY <1>3 DEF Held
  <2>2. t \in Posted => t \notin Due
    BY DEF SeatsApart
  <2>3. CASE t \in Posted
    <3>1. Place(t) = "posted"
      BY <2>3 DEF Place
    <3> QED BY <1>1, <2>1, <2>2, <2>3, <3>1, <1>3 DEF Places
  <2>4. CASE t \notin Posted /\ t \in Due
    <3>1. Place(t) = "due"
      BY <2>4 DEF Place
    <3> QED BY <1>1, <2>1, <2>4, <3>1, <1>3 DEF Places
  <2>5. CASE t \notin Posted /\ t \notin Due
    <3>1. Place(t) = "nowhere"
      BY <2>5, <1>3 DEF Place
    <3> QED BY <1>1, <2>1, <2>5, <3>1, <1>3 DEF Places
  <2> QED BY <2>3, <2>4, <2>5
<1> QED BY <1>2, <1>3

\* The same after a step.
LEMMA SeatsHavePlacesNext == SeatsApart' => PlaceIsSeat'
  BY SeatsHavePlaces, PTL

\* Only the task t gets another seat.
SameSeat(u) ==
    /\ u \in Posted' <=> u \in Posted
    /\ u \in Due' <=> u \in Due
    /\ \A p \in Threads : /\ Holds(p, u)' <=> Holds(p, u)
                          /\ Holds(p, u) => thread'[p].pc = thread[p].pc

\* A task that keeps its seat keeps its place.
LEMMA SameSeatSamePlace ==
    ASSUME SeatsApart, SeatsApart', NEW u \in Tasks, SameSeat(u)
    PROVE  Place(u)' = Place(u)
<1>1. PlaceIsSeat /\ PlaceIsSeat'
  BY SeatsHavePlaces, SeatsHavePlacesNext
<1>2. CASE u \in Posted \/ u \in Due
  BY <1>1, <1>2 DEF PlaceIsSeat, SameSeat
<1>3. CASE Held(u)
  <2>1. PICK p \in Threads : Holds(p, u)
    BY <1>3 DEF Held
  <2>2. Holds(p, u)' /\ thread'[p].pc = thread[p].pc
    BY <2>1 DEF SameSeat
  <2> QED BY <1>1, <2>1, <2>2 DEF PlaceIsSeat
<1>4. CASE u \notin Posted /\ u \notin Due /\ ~Held(u)
  <2>1. u \notin Posted' /\ u \notin Due' /\ ~Held(u)'
    BY <1>4 DEF SameSeat, Held
  <2> QED BY <1>1, <1>4, <2>1 DEF PlaceIsSeat
<1> QED BY <1>2, <1>3, <1>4

\* A step that moves one task keeps the seats apart if they are for that task.
LEMMA OneMoves ==
    ASSUME SeatsApart, NEW t \in Tasks,
           \A u \in Tasks : u # t => SameSeat(u),
           Posted' \subseteq Tasks, Due' \subseteq Tasks,
           t \notin Posted' \/ t \notin Due',
           \A p \in Threads : Holds(p, t)' => t \notin Posted' /\ t \notin Due',
           \A p, q \in Threads : Holds(p, t)' /\ Holds(q, t)' => p = q
    PROVE  /\ SeatsApart'
           /\ \A u \in Tasks : u # t => Place(u)' = Place(u)
           /\ t \in Posted' => Place(t)' = "posted"
           /\ t \in Due' => Place(t)' = "due"
           /\ \A p \in Threads : Holds(p, t)' => Place(t)' = thread'[p].pc
           /\ t \notin Posted' /\ t \notin Due' /\ (\A p \in Threads : ~Holds(p, t)') =>
                 Place(t)' = "nowhere"
<1>1. (Posted \cap Due)' = {}
  <2>1. \A u \in Tasks : u # t => ~(u \in Posted' /\ u \in Due')
    BY DEF SameSeat, SeatsApart
  <2> QED BY <2>1
<1>2. \A u \in Tasks : Held(u)' => u \notin Posted' /\ u \notin Due'
  BY DEF SameSeat, SeatsApart, Held
<1>3. \A u \in Tasks : \A p, q \in Threads : Holds(p, u)' /\ Holds(q, u)' => p = q
  BY DEF SameSeat, SeatsApart
<1>4. SeatsApart'
  BY <1>1, <1>2, <1>3 DEF SeatsApart
<1>5. \A u \in Tasks : u # t => Place(u)' = Place(u)
  BY <1>4, SameSeatSamePlace
<1>6. PlaceIsSeat'
  BY <1>4, SeatsHavePlacesNext
<1> QED BY <1>4, <1>5, <1>6 DEF PlaceIsSeat, Held

\* A step that moves no task.
LEMMA NobodyMoves ==
    ASSUME SeatsApart, \A u \in Tasks : SameSeat(u),
           Posted' \subseteq Tasks, Due' \subseteq Tasks
    PROVE  SeatsApart' /\ \A u \in Tasks : Place(u)' = Place(u)
<1>1. SeatsApart'
  <2>1. (Posted \cap Due)' = {}
    BY DEF SameSeat, SeatsApart
  <2>2. \A u \in Tasks : Held(u)' => u \notin Posted' /\ u \notin Due'
    BY DEF SameSeat, SeatsApart, Held
  <2>3. \A u \in Tasks : \A p, q \in Threads : Holds(p, u)' /\ Holds(q, u)' => p = q
    BY DEF SameSeat, SeatsApart
  <2> QED BY <2>1, <2>2, <2>3 DEF SeatsApart
<1> QED BY <1>1, SameSeatSamePlace


\* The threads' part of a move: p has had t, or gets it, or neither.
LEMMA Seated ==
    ASSUME SeatsApart, QueueFields', NEW t \in Tasks, NEW p \in Threads,
           \A q \in Threads : q # p => thread'[q] = thread[q],
           thread[p].pc \in HandPCs => thread[p].task = t,
           thread'[p].pc \in HandPCs => thread'[p].task = t,
           \A u \in Tasks : u # t => (u \in Posted' <=> u \in Posted)
                                     /\ (u \in Due' <=> u \in Due),
           t \notin Posted' \/ t \notin Due',
           thread'[p].pc \in HandPCs => t \notin Posted' /\ t \notin Due',
           Place(t) \in {"posted", "due", "nowhere"} \/ Holds(p, t)
    PROVE  /\ SeatsApart'
           /\ \A u \in Tasks : u # t => Place(u)' = Place(u)
           /\ t \in Posted' => Place(t)' = "posted"
           /\ t \in Due' => Place(t)' = "due"
           /\ thread'[p].pc \in HandPCs => Place(t)' = thread'[p].pc
           /\ t \notin Posted' /\ t \notin Due' /\ thread'[p].pc \notin HandPCs =>
                 Place(t)' = "nowhere"
<1>1. PlaceIsSeat
  BY SeatsHavePlaces
<1>2. \A q \in Threads : q # p => ~Holds(q, t)
  <2>1. CASE Holds(p, t)
    BY <2>1 DEF SeatsApart
  <2>2. CASE Place(t) \in {"posted", "due", "nowhere"}
    <3>1. ~Held(t)
      BY <1>1, <2>2 DEF PlaceIsSeat, SeatsApart
    <3> QED BY <3>1 DEF Held
  <2> QED BY <2>1, <2>2
<1>3. \A q \in Threads : q # p => ~Holds(q, t)'
  BY <1>2 DEF Holds
<1>4. \A u \in Tasks : u # t => SameSeat(u)
  BY DEF SameSeat, Holds
<1>5. Posted' \subseteq Tasks /\ Due' \subseteq Tasks
  <2>1. \A s \in Seq(Tasks) : In(s) \subseteq Tasks
    BY ElementOfSeq, LenProperties DEF In
  <2> QED BY <2>1 DEF QueueFields, Posted, Due
<1>6. Holds(p, t)' <=> thread'[p].pc \in HandPCs
  BY DEF Holds
<1>7. SeatsApart' /\ (\A u \in Tasks : u # t => Place(u)' = Place(u))
      /\ (t \in Posted' => Place(t)' = "posted") /\ (t \in Due' => Place(t)' = "due")
      /\ (\A q \in Threads : Holds(q, t)' => Place(t)' = thread'[q].pc)
      /\ (t \notin Posted' /\ t \notin Due' /\ (\A q \in Threads : ~Holds(q, t)') =>
             Place(t)' = "nowhere")
  BY <1>3, <1>4, <1>5, <1>6, OneMoves
<1> QED BY <1>3, <1>6, <1>7

\* A step of a thread that has no task in its hands, before and after.
LEMMA Unseated ==
    ASSUME SeatsApart, QueueFields', Posted' = Posted, Due' = Due, NEW p \in Threads,
           \A q \in Threads : q # p => thread'[q] = thread[q],
           \/ thread'[p] = thread[p]
           \/ thread[p].pc \notin HandPCs /\ thread'[p].pc \notin HandPCs
    PROVE  SeatsApart' /\ \A u \in Tasks : Place(u)' = Place(u)
<1>1. \A u \in Tasks : SameSeat(u)
  BY DEF SameSeat, Holds
<1>2. Posted' \subseteq Tasks /\ Due' \subseteq Tasks
  <2>1. \A s \in Seq(Tasks) : In(s) \subseteq Tasks
    BY ElementOfSeq, LenProperties DEF In
  <2> QED BY <2>1 DEF QueueFields, Posted, Due
<1> QED BY <1>1, <1>2, NobodyMoves

-----------------------------------------------------------------------------
(* The invariant.                                                           *)

EventsFit(t) == (Flagged => FlagsFit(t)) /\ (~Flagged => OperationsFit(t))

\* Each task has one place, and all that belongs to it fits to that place.
OwnInv ==
    /\ QueuesApart /\ SeatsApart /\ KernelFits
    /\ \A t \in Tasks : TaskFits(t) /\ EventsFit(t)

\* What the tasks have in the kernel and on the way from it.
KernelView == <<kernel.data, kernel.reported, kernel.inside, kernel.done, kernel.cancelled,
                kernel.toSubmit, round.harvest>>

\* A step that leaves alone what the kernel has, and the harvest.
LEMMA ViewKeeps ==
    ASSUME OwnInv, scenario' = scenario, KernelView' = KernelView
    PROVE  /\ KernelFits'
           /\ \A u \in Tasks : task'[u] = task[u] => EventsFit(u)'
           /\ \A u \in Tasks : /\ Flag(u)' = Flag(u) /\ Harvested(u)' = Harvested(u)
                               /\ AwayIo(u)' = AwayIo(u)
                               /\ Away(u, "cancel")' = Away(u, "cancel")
           /\ Flagged' <=> Flagged
           /\ kernel'.data = kernel.data /\ kernel'.reported = kernel.reported
<1>1. /\ kernel'.data = kernel.data /\ kernel'.reported = kernel.reported
      /\ kernel'.inside = kernel.inside /\ kernel'.done = kernel.done
      /\ kernel'.cancelled = kernel.cancelled /\ kernel'.toSubmit = kernel.toSubmit
      /\ round'.harvest = round.harvest
  BY DEF KernelView
<1>2. Flagged' <=> Flagged
  BY DEF Flagged, backend
<1>3. KernelFits'
  BY <1>1, <1>2 DEF KernelFits, OwnInv
<1>4. ASSUME NEW u \in Tasks
      PROVE  /\ Flag(u)' = Flag(u) /\ Harvested(u)' = Harvested(u)
             /\ AwayIo(u)' = AwayIo(u) /\ Away(u, "cancel")' = Away(u, "cancel")
  BY <1>1 DEF Flag, Side, Harvested, Away, AwayIo
<1>5. ASSUME NEW u \in Tasks, task'[u] = task[u] PROVE EventsFit(u)'
  <2>1. EventsFit(u)
    BY DEF OwnInv
  <2>2. CASE Flagged
    <3>1. FlagsFit(u)
      BY <2>1, <2>2 DEF EventsFit
    <3>2. FlagsFit(u)'
      BY <1>1, <1>4, <1>5, <3>1 DEF FlagsFit
    <3> QED BY <1>2, <2>2, <3>2 DEF EventsFit
  <2>3. CASE ~Flagged
    <3>1. OperationsFit(u)
      BY <2>1, <2>3 DEF EventsFit
    <3>2. OperationsFit(u)'
      BY <1>4, <1>5, <3>1 DEF OperationsFit
    <3> QED BY <1>2, <2>3, <3>2 DEF EventsFit
  <2> QED BY <2>2, <2>3
<1> QED BY <1>1, <1>2, <1>3, <1>4, <1>5

\* Where only the task t changes, the others still fit.
LEMMA OthersFit ==
    ASSUME OwnInv, scenario' = scenario, NEW S \in SUBSET Tasks,
           \A u \in Tasks \ S :
              /\ Place(u)' = Place(u) /\ task'[u] = task[u]
              /\ u \in queue'.waiting <=> u \in queue.waiting
    PROVE  \A u \in Tasks \ S : TaskFits(u)'
<1> SUFFICES ASSUME NEW u \in Tasks \ S PROVE TaskFits(u)'
  OBVIOUS
<1>1. TaskFits(u) /\ backend' = backend
  BY DEF OwnInv, backend
<1>2. CASE u \in queue.waiting
  BY <1>1, <1>2 DEF TaskFits
<1>3. CASE u \notin queue.waiting
  <2>1. (u \in queue'.waiting) = FALSE /\ (u \in queue.waiting) = FALSE
    BY <1>3
  <2> QED BY <1>1, <2>1 DEF TaskFits
<1> QED BY <1>2, <1>3

\* A step that leaves the tasks and their events alone.
LEMMA NothingChanges ==
    ASSUME OwnInv, scenario' = scenario, KernelView' = KernelView, task' = task,
           queue'.waiting = queue.waiting, QueuesApart', SeatsApart',
           \A u \in Tasks : Place(u)' = Place(u)
    PROVE  OwnInv'
<1>1. \A u \in Tasks : TaskFits(u)'
  BY OthersFit
<1>2. KernelFits' /\ \A u \in Tasks : EventsFit(u)'
  BY ViewKeeps
<1> QED BY <1>1, <1>2 DEF OwnInv

\* A step that changes one task.
LEMMA OneChanges ==
    ASSUME OwnInv, scenario' = scenario, KernelView' = KernelView, NEW t \in Tasks,
           \A u \in Tasks : u # t => task'[u] = task[u],
           \A u \in Tasks : u # t => (u \in queue'.waiting <=> u \in queue.waiting),
           \A u \in Tasks : u # t => Place(u)' = Place(u),
           QueuesApart', SeatsApart', TaskFits(t)', EventsFit(t)'
    PROVE  OwnInv'
<1>1. \A u \in Tasks \ {t} : TaskFits(u)'
  BY OthersFit
<1>2. KernelFits' /\ \A u \in Tasks : u # t => EventsFit(u)'
  BY ViewKeeps
<1> QED BY <1>1, <1>2 DEF OwnInv

\* A task with other fields, but the same events.
SameEvents(r, s) ==
    /\ s.pending = r.pending /\ s.ready = r.ready /\ s.locked = r.locked
    /\ s.operations = r.operations /\ s.toSubmit = r.toSubmit

\* A step that leaves alone what a task waits for and what it was told.
LEMMA SameEventsFit ==
    ASSUME OwnInv, scenario' = scenario, KernelView' = KernelView, NEW t \in Tasks,
           SameEvents(task[t], task'[t]),
           Flagged => /\ ~task'[t].socket => ~task[t].socket
                      /\ task'[t].isClosed => ~task'[t].socket
                      /\ task'[t].status \notin {"CLOSING", "CLOSED"} =>
                            task[t].status \notin {"CLOSING", "CLOSED"} \/ task[t].locked = {}
    PROVE  EventsFit(t)'
<1>0. /\ Flag(t)' = Flag(t) /\ Harvested(t)' = Harvested(t)
      /\ AwayIo(t)' = AwayIo(t) /\ Away(t, "cancel")' = Away(t, "cancel")
      /\ Flagged' <=> Flagged
      /\ kernel'.data = kernel.data /\ kernel'.reported = kernel.reported
  BY ViewKeeps
<1>1. EventsFit(t)
  BY DEF OwnInv
<1>2. CASE Flagged
  <2>1. FlagsFit(t)
    BY <1>1, <1>2 DEF EventsFit
  <2>2. FlagsFit(t)'
    BY <1>0, <1>2, <2>1 DEF FlagsFit, FlagFits, SameEvents
  <2> QED BY <1>0, <1>2, <2>2 DEF EventsFit
<1>3. CASE ~Flagged
  <2>1. OperationsFit(t)
    BY <1>1, <1>3 DEF EventsFit
  <2>2. OperationsFit(t)'
    BY <1>0, <2>1 DEF OperationsFit, OperationFits, SameEvents, Back
  <2> QED BY <1>0, <1>3, <2>2 DEF EventsFit
<1> QED BY <1>2, <1>3

-----------------------------------------------------------------------------
(* The calls of IOTask and the worker.                                      *)

\* A task in a thread's hands is where that thread is.
LEMMA PlaceOfHand ==
    ASSUME OwnInv, NEW p \in Threads, NEW t \in Tasks, Holds(p, t)
    PROVE  Place(t) = thread[p].pc
  BY SeatsHavePlaces DEF OwnInv, PlaceIsSeat

\* What TaskFits() says of a task, with its parts.
LEMMA FitsParts ==
    ASSUME OwnInv, NEW t \in Tasks
    PROVE  /\ TaskFits(t) /\ EventsFit(t)
           /\ Place(t) \in Places
           /\ t \in Posted <=> Place(t) = "posted"
           /\ t \in Due <=> Place(t) = "due"
  BY SeatsHavePlaces DEF OwnInv, PlaceIsSeat

\* Whoever gets a task from nowhere is the only one who has it.
LEMMA TakenFromNowhere ==
    ASSUME TInv, TInv', OwnInv, NEW p \in Threads, NEW t \in Tasks, Place(t) = "nowhere",
           thread[p].pc \notin HandPCs, queue' = queue, thread' = Taking(p, t, "push")
    PROVE  /\ QueuesApart' /\ SeatsApart' /\ Place(t)' = "push"
           /\ \A u \in Tasks : u # t => Place(u)' = Place(u)
<1>1. thread \in [Threads -> ThreadType] /\ "push" \in PCs /\ "push" \in HandPCs
  BY DEF TInv, TypeOK, PCs, HandPCs
<1>2. thread'[p].pc = "push" /\ thread'[p].task = t
      /\ \A q \in Threads : q # p => thread'[q] = thread[q]
  BY <1>1, TakingUpdates
<1>3. QueuesApart' /\ Posted' = Posted /\ Due' = Due /\ QueueFields'
  BY SameSeats, QueueTypes DEF OwnInv, TInv, QueueFields
<1>4. t \notin Posted /\ t \notin Due
  BY FitsParts
<1> QED BY <1>1, <1>2, <1>3, <1>4, Seated DEF OwnInv

\* Nobody gets another seat, when nothing but the status of a task changes.
LEMMA SameSeatsAll ==
    ASSUME TInv, OwnInv, thread' = thread, queue' = queue
    PROVE  QueuesApart' /\ SeatsApart' /\ \A u \in Tasks : Place(u)' = Place(u)
  BY SameSeats DEF OwnInv, SeatsApart, Place, Held, Holds

\* A new task is attached and is then in the hands of the thread that posts it.
LEMMA PostOwns ==
    ASSUME TInv, TInv', OwnInv, NEW c \in Clients, NEW t \in Tasks, Post(c, t)
    PROVE  OwnInv'
<1>1. c \in Threads /\ thread[c].pc \notin HandPCs /\ task[t] \in TaskType
      /\ task \in [Tasks -> TaskType]
  BY DEF Post, At, HandPCs, Threads, TInv, TypeOK
<1>2. ~task[t].sub /\ ~task[t].isClosed
  BY DEF Post
<1>3. Place(t) = "nowhere"
  <2>1. Place(t) \in Places /\ TaskFits(t)
    BY FitsParts
  <2> QED BY <1>2, <2>1 DEF TaskFits, Fits, Queued, Called, Running, Places, HandPCs
<1>4. scenario' = scenario /\ KernelView' = KernelView /\ queue' = queue
      /\ thread' = Taking(c, t, "push")
  BY DEF Post, KernelView, Taking
<1>5. /\ QueuesApart' /\ SeatsApart' /\ Place(t)' = "push"
      /\ \A u \in Tasks : u # t => Place(u)' = Place(u)
  BY <1>1, <1>3, <1>4, TakenFromNowhere
<1>6. task' = [task EXCEPT ![t] = [task[t] EXCEPT !.sub = TRUE, !.inQueues = TRUE,
                                                   !.socket = ComesWithSocket(t)]]
  BY DEF Post
<1>7. /\ \A u \in Tasks : u # t => task'[u] = task[u]
      /\ task'[t] = [task[t] EXCEPT !.sub = TRUE, !.inQueues = TRUE,
                                    !.socket = ComesWithSocket(t)]
  BY <1>1, <1>6
<1>8. /\ SameEvents(task[t], task'[t]) /\ task'[t].status = task[t].status
      /\ task'[t].sub /\ task'[t].inQueues /\ (task'[t].isClosed <=> task[t].isClosed)
      /\ (task'[t].guard <=> task[t].guard) /\ task'[t].deadline = task[t].deadline
  BY <1>1, <1>7 DEF TaskType, SameEvents
<1>9. TaskFits(t)'
  <2>1. TaskFits(t) /\ backend' = backend /\ (t \in queue'.waiting <=> t \in queue.waiting)
    BY <1>4, FitsParts DEF backend
  <2> QED BY <1>2, <1>3, <1>5, <1>8, <2>1 DEF TaskFits, Fits, Queued, Blank, SameEvents
<1>10. EventsFit(t)'
  BY <1>2, <1>4, <1>8, <1>9, SameEventsFit, FitsParts DEF TaskFits, Fits, Blank
<1> QED BY <1>4, <1>5, <1>7, <1>9, <1>10, OneChanges


\* PostClose() takes the task into its hands only if it was asleep.
LEMMA PostCloseOwns ==
    ASSUME TInv, TInv', OwnInv, NEW p \in Threads, NEW t \in Tasks, PostClose(p, t)
    PROVE  OwnInv'
<1>1. task[t] \in TaskType /\ task \in [Tasks -> TaskType] /\ TaskFits(t)
      /\ ~task[t].guard
  BY FitsParts DEF PostClose, TInv, TypeOK
<1>2. scenario' = scenario /\ KernelView' = KernelView /\ queue' = queue /\ backend' = backend
  BY DEF PostClose, KernelView, backend
<1>3. /\ \A u \in Tasks : u # t => task'[u] = task[u]
      /\ task'[t] = [task[t] EXCEPT !.guard = TRUE, !.status = "CLOSING"]
  BY <1>1 DEF PostClose, Closing
<1>4. /\ SameEvents(task[t], task'[t]) /\ task'[t].status = "CLOSING" /\ task'[t].guard
      /\ (task'[t].sub <=> task[t].sub) /\ (task'[t].inQueues <=> task[t].inQueues)
      /\ (task'[t].isClosed <=> task[t].isClosed) /\ task'[t].deadline = task[t].deadline
      /\ (task'[t].socket <=> task[t].socket)
  BY <1>1, <1>3 DEF TaskType, SameEvents
<1>5. EventsFit(t)'
  <2>1. Flagged => ~task[t].isClosed \/ ~task[t].socket
    BY FitsParts DEF EventsFit, FlagsFit, FlagFits
  <2> QED BY <1>2, <1>4, <2>1, SameEventsFit
<1>6. CASE task[t].status = "WAITING"
  <2>1. Place(t) = "nowhere" /\ task[t].sub
    BY <1>1, <1>6, FitsParts DEF TaskFits, Fits, Queued, Called, Running, Places, HandPCs
  <2>2. thread[p].pc \notin HandPCs
    <3>1. CASE At(p, "callback") /\ t = Of(p)
      <4>1. Holds(p, t)
        BY <3>1 DEF At, Of, Holds, HandPCs
      <4> QED BY <2>1, <3>1, <4>1, PlaceOfHand DEF At
    <3> QED BY <3>1 DEF PostClose, At, HandPCs
  <2>3. thread' = Taking(p, t, "push")
    BY <1>6 DEF PostClose, Taking
  <2>4. /\ QueuesApart' /\ SeatsApart' /\ Place(t)' = "push"
        /\ \A u \in Tasks : u # t => Place(u)' = Place(u)
    BY <1>2, <2>1, <2>2, <2>3, TakenFromNowhere
  <2>5. TaskFits(t)'
    BY <1>1, <1>2, <1>4, <1>6, <2>1, <2>4 DEF TaskFits, Fits, Queued, Parked, SameEvents
  <2> QED BY <1>2, <1>3, <1>5, <2>4, <2>5, OneChanges
<1>7. CASE task[t].status # "WAITING"
  <2>1. QueuesApart' /\ SeatsApart' /\ \A u \in Tasks : Place(u)' = Place(u)
    BY <1>2, <1>7, SameSeatsAll DEF PostClose
  <2>2. TaskFits(t)'
    <3>1. Place(t)' = Place(t)
      BY <2>1
    <3> QED BY <1>1, <1>2, <1>4, <1>7, <3>1
          DEF TaskFits, Fits, Queued, Called, Running, Parked, SameEvents, Blank
  <2> QED BY <1>2, <1>3, <1>5, <2>1, <2>2, OneChanges
<1> QED BY <1>6, <1>7

\* So does PostWakeup().
LEMMA PostWakeupOwns ==
    ASSUME TInv, TInv', OwnInv, NEW c \in Clients, NEW t \in Tasks, PostWakeup(c, t)
    PROVE  OwnInv'
<1>1. task[t] \in TaskType /\ task \in [Tasks -> TaskType] /\ TaskFits(t) /\ c \in Threads
      /\ thread[c].pc \notin HandPCs
  BY FitsParts DEF PostWakeup, TInv, TypeOK, Threads, At, HandPCs
<1>2. scenario' = scenario /\ KernelView' = KernelView /\ queue' = queue /\ backend' = backend
  BY DEF PostWakeup, KernelView, backend
<1>3. /\ \A u \in Tasks : u # t => task'[u] = task[u]
      /\ task'[t] = [task[t] EXCEPT !.status = "READY"]
  BY <1>1 DEF PostWakeup
<1>4. /\ SameEvents(task[t], task'[t]) /\ task'[t].status = "READY"
      /\ (task'[t].guard <=> task[t].guard)
      /\ (task'[t].sub <=> task[t].sub) /\ (task'[t].inQueues <=> task[t].inQueues)
      /\ (task'[t].isClosed <=> task[t].isClosed) /\ task'[t].deadline = task[t].deadline
      /\ (task'[t].socket <=> task[t].socket)
  BY <1>1, <1>3 DEF TaskType, SameEvents
<1>5. EventsFit(t)'
  <2>1. Flagged => ~task[t].isClosed \/ ~task[t].socket
    BY FitsParts DEF EventsFit, FlagsFit, FlagFits
  <2>2. task[t].status \in {"WAITING", "PENDING"}
    BY DEF PostWakeup
  <2> QED BY <1>2, <1>4, <2>1, <2>2, SameEventsFit
<1>6. CASE task[t].status = "WAITING"
  <2>1. Place(t) = "nowhere" /\ task[t].sub
    BY <1>1, <1>6, FitsParts DEF TaskFits, Fits, Queued, Called, Running, Places, HandPCs
  <2>2. thread' = Taking(c, t, "push")
    BY <1>6 DEF PostWakeup, Taking
  <2>3. /\ QueuesApart' /\ SeatsApart' /\ Place(t)' = "push"
        /\ \A u \in Tasks : u # t => Place(u)' = Place(u)
    BY <1>1, <1>2, <2>1, <2>2, TakenFromNowhere
  <2>4. TaskFits(t)'
    BY <1>1, <1>2, <1>4, <1>6, <2>1, <2>3 DEF TaskFits, Fits, Queued, Parked, SameEvents
  <2> QED BY <1>2, <1>3, <1>5, <2>3, <2>4, OneChanges
<1>7. CASE task[t].status # "WAITING"
  <2>1. QueuesApart' /\ SeatsApart' /\ \A u \in Tasks : Place(u)' = Place(u)
    BY <1>2, <1>7, SameSeatsAll DEF PostWakeup
  <2>2. TaskFits(t)'
    <3>1. Place(t)' = Place(t) /\ task[t].status = "PENDING"
      BY <1>7, <2>1 DEF PostWakeup
    <3> QED BY <1>1, <1>2, <1>4, <3>1
          DEF TaskFits, Fits, Queued, Called, Running, Parked, SameEvents, Blank
  <2> QED BY <1>2, <1>3, <1>5, <2>1, <2>2, OneChanges
<1> QED BY <1>6, <1>7

-----------------------------------------------------------------------------
(* The threads that have a task.                                            *)

\* A task that is pushed, as r.
LEMMA PushedOwns ==
    ASSUME TInv, TInv', OwnInv, NEW p \in Threads, NEW t \in Tasks, Holds(p, t), Pushed(p, t),
           scenario' = scenario, KernelView' = KernelView,
           \A u \in Tasks : u # t => task'[u] = task[u],
           EventsFit(t)',
           Queued(backend, task'[t]),
           task'[t].guard <=> task'[t].status = "CLOSING",
           "cancel" \notin task'[t].locked,
           backend # "iouring" => task'[t].toSubmit = <<>>,
           t \in queue.waiting => task'[t].status \in {"READY", "CLOSING"}
                                  /\ task'[t].deadline # Infinite
    PROVE  OwnInv'
<1>1. /\ queue'.front = Append(queue.front, t)
      /\ queue'.pending = queue.pending /\ queue'.list = queue.list
      /\ queue'.ready = queue.ready /\ queue'.waiting = queue.waiting
      /\ thread'[p].pc \in {"idle", "release", "pop", "elect", "signal"}
      /\ \A q \in Threads : q # p => thread'[q] = thread[q]
  BY PushedUpdates DEF TInv
<1>2. thread'[p].pc \notin HandPCs /\ thread[p].task = t
  BY <1>1 DEF HandPCs, Holds
<1>3. t \notin Posted /\ t \notin Due
  BY DEF OwnInv, SeatsApart, Held
<1>4. QueuesApart' /\ Posted' = Posted \cup {t} /\ Due' = Due /\ QueueFields'
  BY <1>1, <1>3, FrontAppended, QueueTypes DEF OwnInv, TInv, QueueFields
<1>5. SeatsApart' /\ Place(t)' = "posted" /\ \A u \in Tasks : u # t => Place(u)' = Place(u)
  BY <1>1, <1>2, <1>3, <1>4, Seated DEF OwnInv
<1>6. backend' = backend
  BY DEF backend
<1>7. TaskFits(t)'
  BY <1>1, <1>5, <1>6 DEF TaskFits, Fits, Queued
<1> QED BY <1>1, <1>4, <1>5, <1>7, OneChanges

\* The push puts the task in the caller's hands onto the front queue.
LEMMA PushOwns ==
    ASSUME TInv, TInv', OwnInv, NEW p \in Threads, Push(p)
    PROVE  OwnInv'
<1>1. PICK t \in Tasks : t = Of(p)
  BY DEF Push, At, Of, TInv, HandsAreFull, HandPCs
<1>2. Holds(p, t) /\ thread[p].pc = "push"
  BY <1>1 DEF Push, At, Of, Holds, HandPCs
<1>3. Place(t) = "push" /\ TaskFits(t) /\ EventsFit(t)
  BY <1>2, PlaceOfHand, FitsParts
<1>4. scenario' = scenario /\ KernelView' = KernelView /\ task' = task /\ Pushed(p, t)
  BY <1>1 DEF Push, KernelView
<1>5. EventsFit(t)'
  BY <1>4, ViewKeeps
<1> QED BY <1>2, <1>3, <1>4, <1>5, PushedOwns DEF TaskFits, Fits, Queued


\* A step that moves no task.
LEMMA QuietOwns ==
    ASSUME TInv', OwnInv, NEW p \in Threads, scenario' = scenario, KernelView' = KernelView,
           task' = task, queue'.waiting = queue.waiting,
           QueuesApart', Posted' = Posted, Due' = Due,
           \A q \in Threads : q # p => thread'[q] = thread[q],
           thread[p].pc \notin HandPCs, thread'[p].pc \notin HandPCs
    PROVE  OwnInv'
<1>1. QueueFields'
  BY QueueTypes DEF TInv, TypeOK, QueueFields, QueueType
<1>2. SeatsApart' /\ \A u \in Tasks : Place(u)' = Place(u)
  BY <1>1, Unseated DEF OwnInv
<1> QED BY <1>2, NothingChanges

\* A worker goes on with its task.
LEMMA HandMoves ==
    ASSUME TInv', OwnInv, NEW p \in Threads, NEW t \in Tasks, Holds(p, t), queue' = queue,
           \A q \in Threads : q # p => thread'[q] = thread[q],
           thread'[p].pc \in HandPCs, thread'[p].task = t
    PROVE  /\ QueuesApart' /\ SeatsApart' /\ Place(t)' = thread'[p].pc
           /\ \A u \in Tasks : u # t => Place(u)' = Place(u)
<1>1. QueuesApart' /\ Posted' = Posted /\ Due' = Due /\ QueueFields'
  BY SameSeats DEF OwnInv, TInv, TypeOK, QueueFields, QueueType
<1>2. t \notin Posted /\ t \notin Due /\ thread[p].task = t
  BY DEF OwnInv, SeatsApart, Held, Holds
<1> QED BY <1>1, <1>2, Seated DEF OwnInv

\* A thread lets its task go.
LEMMA HandLets ==
    ASSUME TInv', OwnInv, NEW p \in Threads, NEW t \in Tasks, Holds(p, t), queue' = queue,
           \A q \in Threads : q # p => thread'[q] = thread[q],
           thread'[p].pc \notin HandPCs
    PROVE  /\ QueuesApart' /\ SeatsApart' /\ Place(t)' = "nowhere"
           /\ \A u \in Tasks : u # t => Place(u)' = Place(u)
<1>1. QueuesApart' /\ Posted' = Posted /\ Due' = Due /\ QueueFields'
  BY SameSeats DEF OwnInv, TInv, TypeOK, QueueFields, QueueType
<1>2. t \notin Posted /\ t \notin Due /\ thread[p].task = t
  BY DEF OwnInv, SeatsApart, Held, Holds
<1> QED BY <1>1, <1>2, Seated DEF OwnInv

\* The task of a worker that has one.
LEMMA WorkerHolds ==
    ASSUME TInv, OwnInv, NEW w \in Workers, thread[w].pc \in HandPCs
    PROVE  /\ w \in Threads /\ Of(w) \in Tasks /\ Holds(w, Of(w))
           /\ Place(Of(w)) = thread[w].pc /\ TaskFits(Of(w)) /\ EventsFit(Of(w))
           /\ task[Of(w)] \in TaskType /\ task \in [Tasks -> TaskType]
           /\ thread \in [Threads -> ThreadType]
<1>1. w \in Threads /\ Of(w) \in Tasks /\ Holds(w, Of(w))
  BY DEF Threads, Of, Holds, TInv, HandsAreFull
<1> QED BY <1>1, PlaceOfHand, FitsParts DEF TInv, TypeOK

\* The steps of a worker's loop that touch no task.
LEMMA QuietWorkerOwns ==
    ASSUME TInv, TInv', OwnInv, SchedInv, NEW w \in Workers,
           \/ ScheduleStart(w) \/ ScheduleEnd(w) \/ SignalReady(w) \/ WorkerExit(w)
           \/ WaitReady(w) \/ Collect(w)
    PROVE  OwnInv'
<1>1. thread \in [Threads -> ThreadType] /\ w \in Threads /\ QueueFields
  BY QueueTypes DEF TInv, TypeOK, Threads
<1>2. thread[w].pc \in {"elect", "finish", "leave", "announce", "abandon", "exit", "domino",
                        "wait", "collect"}
  BY DEF ScheduleStart, ScheduleEnd, SignalReady, WorkerExit, WaitReady, Collect, At
<1>3. /\ \A q \in Threads : q # w => thread'[q] = thread[q]
      /\ thread'[w].pc \notin HandPCs
  <2>1. PICK pc \in {"pop", "harvest", "announce", "abandon", "domino", "done", "exit",
                     "elect", "kernel"} : thread' = Goto(w, pc) \/ thread' = Rest(w, pc)
    <3>1. CASE ScheduleStart(w)
      BY <3>1, Zenon DEF ScheduleStart
    <3>2. CASE WaitReady(w)
      BY <3>2, Zenon DEF WaitReady
    <3>3. CASE ScheduleEnd(w) \/ SignalReady(w) \/ WorkerExit(w) \/ Collect(w)
      BY <3>3 DEF ScheduleEnd, SignalReady, WorkerExit, Collect
    <3> QED BY <3>1, <3>2, <3>3
  <2>2. pc \in PCs /\ pc \notin HandPCs
    BY DEF PCs, SchedPCs, OtherPCs, HandPCs
  <2> QED BY <1>1, <2>1, <2>2, ThreadUpdates
<1>4. scenario' = scenario /\ task' = task /\ kernel' = kernel
  BY DEF ScheduleStart, ScheduleEnd, SignalReady, WorkerExit, WaitReady, Collect
<1>5. KernelView' = KernelView
  <2>1. CASE ScheduleEnd(w)
    <3>1. round.harvest = {} /\ round'.harvest = {}
      BY <2>1, NothingLeft DEF ScheduleEnd, At, SchedPCs, NewRound
    <3> QED BY <1>4, <3>1 DEF KernelView
  <2>2. CASE ~ScheduleEnd(w)
    <3>1. round' = round
      BY <2>2 DEF ScheduleStart, SignalReady, WorkerExit, WaitReady, Collect
    <3> QED BY <1>4, <3>1 DEF KernelView
  <2> QED BY <2>1, <2>2
<1>6. QueuesApart' /\ Posted' = Posted /\ Due' = Due /\ queue'.waiting = queue.waiting
  <2>1. CASE Collect(w)
    <3>1. /\ queue'.pending = queue.pending \o queue.front
          /\ queue'.front = <<>> /\ queue'.list = queue.list /\ queue'.ready = queue.ready
          /\ queue'.waiting = queue.waiting
      BY <2>1 DEF Collect, TInv, TypeOK, QueueType
    <3> QED BY <1>1, <3>1, FrontTaken DEF OwnInv
  <2>2. CASE ~Collect(w)
    <3>1. queue' = queue
      BY <2>2 DEF ScheduleStart, ScheduleEnd, SignalReady, WorkerExit, WaitReady
    <3> QED BY <3>1, SameSeats DEF OwnInv
  <2> QED BY <2>1, <2>2
<1>7. thread[w].pc \notin HandPCs
  BY <1>2 DEF HandPCs
<1> QED BY <1>1, <1>3, <1>4, <1>5, <1>6, <1>7, QuietOwns

\* The wakeup of the kernel touches no task.
LEMMA SignalOwns ==
    ASSUME TInv, TInv', OwnInv, NEW p \in Threads, PlatformSignal(p)
    PROVE  OwnInv'
<1>1. thread \in [Threads -> ThreadType] /\ thread' = Onwards(p) /\ thread[p].pc = "signal"
  BY DEF TInv, TypeOK, PlatformSignal, At
<1>2. thread'[p].pc \in {"idle", "release", "pop", "elect"}
      /\ \A q \in Threads : q # p => thread'[q] = thread[q]
  BY <1>1, OnwardsUpdates
<1>3. scenario' = scenario /\ KernelView' = KernelView /\ task' = task /\ queue' = queue
  BY DEF PlatformSignal, KernelView
<1>4. QueuesApart' /\ Posted' = Posted /\ Due' = Due
  BY <1>3, SameSeats DEF OwnInv
<1>5. thread[p].pc \notin HandPCs /\ thread'[p].pc \notin HandPCs
  BY <1>1, <1>2 DEF HandPCs
<1> QED BY <1>2, <1>3, <1>4, <1>5, QuietOwns

\* The callback is over and the worker pushes its task.
LEMMA ReturnOwns ==
    ASSUME TInv, TInv', OwnInv, NEW w \in Workers, Return(w)
    PROVE  OwnInv'
<1>1. PICK t \in Tasks : t = Of(w) /\ Holds(w, t) /\ Place(t) = "callback" /\ TaskFits(t)
               /\ EventsFit(t) /\ task[t] \in TaskType /\ task \in [Tasks -> TaskType]
               /\ w \in Threads
  BY WorkerHolds DEF Return, At, HandPCs
<1>2. scenario' = scenario /\ KernelView' = KernelView /\ Pushed(w, t)
      /\ task' = [task EXCEPT ![t] = [task[t] EXCEPT !.inQueues = TRUE]]
  BY <1>1 DEF Return, KernelView
<1>3. /\ \A u \in Tasks : u # t => task'[u] = task[u]
      /\ task'[t] = [task[t] EXCEPT !.inQueues = TRUE]
  BY <1>1, <1>2
<1>4. /\ SameEvents(task[t], task'[t]) /\ task'[t].status = task[t].status
      /\ (task'[t].guard <=> task[t].guard)
      /\ (task'[t].sub <=> task[t].sub) /\ task'[t].inQueues
      /\ (task'[t].isClosed <=> task[t].isClosed) /\ task'[t].deadline = task[t].deadline
      /\ (task'[t].socket <=> task[t].socket)
  BY <1>1, <1>3 DEF TaskType, SameEvents
<1>5. EventsFit(t)'
  <2>1. ~task[t].isClosed
    BY <1>1 DEF TaskFits, Fits, Running
  <2> QED BY <1>2, <1>4, <2>1, SameEventsFit
<1> QED BY <1>1, <1>2, <1>3, <1>4, <1>5, PushedOwns
      DEF TaskFits, Fits, Running, Queued, SameEvents

\* And the worker pushes it, as it does a new one.
LEMMA RepostOwns ==
    ASSUME TInv, TInv', OwnInv, NEW w \in Workers, Repost(w)
    PROVE  OwnInv'
<1>1. PICK t \in Tasks : t = Of(w) /\ Holds(w, t) /\ Place(t) = "attach" /\ TaskFits(t)
               /\ EventsFit(t) /\ task[t] \in TaskType /\ task \in [Tasks -> TaskType]
               /\ w \in Threads
  BY WorkerHolds DEF Repost, At, HandPCs
<1>2. scenario' = scenario /\ KernelView' = KernelView /\ Pushed(w, t)
      /\ task' = [task EXCEPT ![t] = [task[t] EXCEPT
                    !.isClosed = FALSE, !.guard = FALSE, !.sub = TRUE,
                    !.socket = ComesWithSocket(t), !.inQueues = TRUE]]
  BY <1>1 DEF Repost, KernelView
<1>3. /\ \A u \in Tasks : u # t => task'[u] = task[u]
      /\ task'[t] = [task[t] EXCEPT !.isClosed = FALSE, !.guard = FALSE, !.sub = TRUE,
                                    !.socket = ComesWithSocket(t), !.inQueues = TRUE]
  BY <1>1, <1>2
<1>4. /\ SameEvents(task[t], task'[t]) /\ task'[t].status = task[t].status
      /\ ~task'[t].guard /\ task'[t].sub /\ task'[t].inQueues
      /\ ~task'[t].isClosed /\ task'[t].deadline = task[t].deadline
  BY <1>1, <1>3 DEF TaskType, SameEvents
<1>5. ~task[t].sub /\ Blank(task[t])
  BY <1>1 DEF TaskFits, Fits
<1>6. EventsFit(t)'
  BY <1>2, <1>4, <1>5, SameEventsFit DEF Blank
<1> QED BY <1>1, <1>2, <1>3, <1>4, <1>5, <1>6, PushedOwns
      DEF TaskFits, Fits, Queued, SameEvents, Blank

\* The owner attaches its closed task again, from the last callback.
LEMMA ReattachOwns ==
    ASSUME TInv, TInv', OwnInv, NEW w \in Workers, Reattach(w)
    PROVE  OwnInv'
<1>1. PICK t \in Tasks : t = Of(w) /\ Holds(w, t) /\ Place(t) = "closed" /\ TaskFits(t)
               /\ EventsFit(t) /\ task[t] \in TaskType /\ task \in [Tasks -> TaskType]
               /\ w \in Threads /\ thread \in [Threads -> ThreadType]
  BY WorkerHolds DEF Reattach, At, HandPCs
<1>2. scenario' = scenario /\ KernelView' = KernelView /\ queue' = queue
      /\ task' = [task EXCEPT ![t] = [task[t] EXCEPT !.status = "PENDING"]]
      /\ thread' = Goto(w, "attach") /\ backend' = backend
  BY <1>1 DEF Reattach, KernelView, backend
<1>3. /\ \A u \in Tasks : u # t => task'[u] = task[u]
      /\ task'[t] = [task[t] EXCEPT !.status = "PENDING"]
  BY <1>1, <1>2
<1>4. /\ SameEvents(task[t], task'[t]) /\ task'[t].status = "PENDING"
      /\ (task'[t].guard <=> task[t].guard)
      /\ (task'[t].sub <=> task[t].sub) /\ (task'[t].inQueues <=> task[t].inQueues)
      /\ (task'[t].isClosed <=> task[t].isClosed) /\ task'[t].deadline = task[t].deadline
      /\ (task'[t].socket <=> task[t].socket)
  BY <1>1, <1>3 DEF TaskType, SameEvents
<1>5. ~task[t].sub /\ Blank(task[t])
  BY <1>1 DEF TaskFits, Fits
<1>6. EventsFit(t)'
  BY <1>2, <1>4, <1>5, SameEventsFit DEF Blank
<1>7. thread'[w].pc = "attach" /\ thread'[w].task = t
      /\ \A q \in Threads : q # w => thread'[q] = thread[q]
  BY <1>1, <1>2, ThreadUpdates DEF PCs, HandPCs, Of
<1>8. /\ QueuesApart' /\ SeatsApart' /\ Place(t)' = "attach"
      /\ \A u \in Tasks : u # t => Place(u)' = Place(u)
  BY <1>1, <1>2, <1>7, HandMoves DEF HandPCs
<1>9. TaskFits(t)'
  BY <1>1, <1>2, <1>4, <1>5, <1>8 DEF TaskFits, Fits, Blank, SameEvents
<1> QED BY <1>2, <1>3, <1>6, <1>8, <1>9, OneChanges

\* A worker lets go of a closed task.
LEMMA ReleaseOwns ==
    ASSUME TInv, TInv', OwnInv, NEW w \in Workers, Release(w)
    PROVE  OwnInv'
<1>1. thread \in [Threads -> ThreadType] /\ w \in Threads
  BY DEF TInv, TypeOK, Threads
<1>2. thread'[w].pc \in {"pop", "elect"} /\ \A q \in Threads : q # w => thread'[q] = thread[q]
  BY <1>1, NextTaskUpdates DEF Release
<1>3. scenario' = scenario /\ KernelView' = KernelView /\ queue' = queue /\ task' = task
      /\ backend' = backend
  BY DEF Release, KernelView, backend
<1>4. thread'[w].pc \notin HandPCs
  BY <1>2 DEF HandPCs
<1>5. CASE At(w, "closed")
  <2>1. PICK t \in Tasks : t = Of(w) /\ Holds(w, t) /\ Place(t) = "closed" /\ TaskFits(t)
    BY <1>5, WorkerHolds DEF At, HandPCs
  <2>2. /\ QueuesApart' /\ SeatsApart' /\ Place(t)' = "nowhere"
        /\ \A u \in Tasks : u # t => Place(u)' = Place(u)
    BY <1>1, <1>2, <1>3, <1>4, <2>1, HandLets
  <2>3. TaskFits(t)'
    BY <1>3, <2>1, <2>2 DEF TaskFits, Fits
  <2>4. EventsFit(t)'
    BY <1>3, ViewKeeps
  <2> QED BY <1>3, <2>2, <2>3, <2>4, OneChanges
<1>6. CASE At(w, "release")
  <2>1. thread[w].pc \notin HandPCs
    BY <1>6 DEF At, HandPCs
  <2>2. QueuesApart' /\ Posted' = Posted /\ Due' = Due
    BY <1>3, SameSeats DEF OwnInv
  <2> QED BY <1>1, <1>2, <1>3, <1>4, <2>1, <2>2, QuietOwns
<1> QED BY <1>5, <1>6 DEF Release

\* A worker takes the ready task that nobody else has.
LEMMA PopOwns ==
    ASSUME TInv, TInv', OwnInv, NEW w \in Workers, Pop(w)
    PROVE  OwnInv'
<1>1. thread \in [Threads -> ThreadType] /\ w \in Threads /\ QueueFields
      /\ thread[w].pc \notin HandPCs /\ queue \in QueueType
  BY QueueTypes DEF TInv, TypeOK, Threads, Pop, At, HandPCs
<1>2. scenario' = scenario /\ KernelView' = KernelView /\ task' = task /\ backend' = backend
  BY DEF Pop, KernelView, backend
<1>3. CASE queue.ready = <<>>
  <2>1. thread' = Rest(w, "wait") /\ queue' = queue
    BY <1>3 DEF Pop
  <2>2. thread'[w].pc \notin HandPCs /\ \A q \in Threads : q # w => thread'[q] = thread[q]
    BY <1>1, <2>1, ThreadUpdates DEF PCs, OtherPCs, HandPCs
  <2>3. QueuesApart' /\ Posted' = Posted /\ Due' = Due
    BY <2>1, SameSeats DEF OwnInv
  <2> QED BY <1>1, <1>2, <2>1, <2>2, <2>3, QuietOwns
<1>4. CASE queue.ready # <<>>
  <2>1. /\ queue'.ready = Tail(queue.ready) /\ queue'.front = queue.front
        /\ queue'.pending = queue.pending /\ queue'.list = queue.list
        /\ queue'.waiting = queue.waiting
    BY <1>1, <1>4 DEF Pop, QueueType
  <2>2. PICK t : t = Head(queue.ready)
    OBVIOUS
  <2>3. /\ t \in Due /\ t \in Tasks
        /\ QueuesApart' /\ Posted' = Posted /\ Due' = Due \ {t}
    BY <1>1, <1>4, <2>1, <2>2, ReadyPopped DEF OwnInv
  <2>4. thread' = Taking(w, t, "execute")
    BY <1>4, <2>2 DEF Pop, Taking
  <2>5. thread'[w].pc = "execute" /\ thread'[w].task = t
        /\ \A q \in Threads : q # w => thread'[q] = thread[q]
    <3>1. "execute" \in PCs
      BY DEF PCs, HandPCs
    <3> QED BY <1>1, <2>3, <2>4, <3>1, TakingUpdates
  <2>6. Place(t) = "due" /\ TaskFits(t)
    BY <2>3, FitsParts
  <2>7. QueueFields' /\ t \notin Posted'
    BY <2>3, QueueTypes DEF TInv, TypeOK, QueueFields, QueueType, OwnInv, SeatsApart
  <2>8. SeatsApart' /\ Place(t)' = "execute" /\ \A u \in Tasks : u # t => Place(u)' = Place(u)
    BY <1>1, <2>3, <2>5, <2>6, <2>7, Seated DEF OwnInv, HandPCs
  <2>9. TaskFits(t)'
    BY <1>2, <2>1, <2>6, <2>8 DEF TaskFits, Fits
  <2>10. EventsFit(t)'
    BY <1>2, <2>3, ViewKeeps
  <2> QED BY <1>2, <2>1, <2>3, <2>8, <2>9, <2>10, OneChanges
<1> QED BY <1>3, <1>4

-----------------------------------------------------------------------------
(* The sched-thread.                                                        *)

\* A step of the sched-thread holds no task.
Schedules(w) ==
    /\ thread[w].pc \notin HandPCs /\ thread'[w].pc \notin HandPCs
    /\ \A q \in Threads : q # w => thread'[q] = thread[q]

\* A step of the sched-thread within PrivScheduleDo().
LEMMA GoesSchedules ==
    ASSUME TInv, NEW w \in Workers, thread[w].pc \in SchedPCs,
           NEW pc \in SchedPCs, thread' = Goto(w, pc) \/ thread' = thread
    PROVE  Schedules(w)
<1>1. thread \in [Threads -> ThreadType] /\ w \in Threads /\ pc \in PCs
  BY DEF TInv, TypeOK, Threads, PCs
<1>2. pc \notin HandPCs /\ thread[w].pc \notin HandPCs
  BY DEF HandPCs, SchedPCs
<1> QED BY <1>1, <1>2, ThreadUpdates DEF Schedules

\* A task that is nowhere goes to the list of the round.
LEMMA NowhereToDue ==
    ASSUME TInv, TInv', OwnInv, NEW w \in Workers, Schedules(w), NEW t \in Tasks,
           Place(t) = "nowhere", queue'.list = Append(queue.list, t),
           queue'.front = queue.front, queue'.pending = queue.pending,
           queue'.ready = queue.ready
    PROVE  /\ QueuesApart' /\ SeatsApart' /\ Place(t)' = "due"
           /\ \A u \in Tasks : u # t => Place(u)' = Place(u)
<1>1. QueueFields /\ QueueFields' /\ w \in Threads
  BY QueueTypes DEF TInv, TypeOK, QueueFields, QueueType, Threads
<1>2. t \notin Posted /\ t \notin Due
  BY FitsParts
<1>3. QueuesApart' /\ Posted' = Posted /\ Due' = Due \cup {t}
  BY <1>1, <1>2, ListAppended DEF OwnInv
<1> QED BY <1>1, <1>2, <1>3, Seated DEF OwnInv, Schedules

\* The head of the front queue goes to the list of the round.
LEMMA PostedToDue ==
    ASSUME TInv, TInv', OwnInv, NEW w \in Workers, Schedules(w), queue.pending # <<>>,
           NEW t \in Tasks, t = Head(queue.pending),
           queue'.pending = Tail(queue.pending), queue'.list = Append(queue.list, t),
           queue'.front = queue.front, queue'.ready = queue.ready
    PROVE  /\ Place(t) = "posted"
           /\ QueuesApart' /\ SeatsApart' /\ Place(t)' = "due"
           /\ \A u \in Tasks : u # t => Place(u)' = Place(u)
<1>1. QueueFields /\ QueueFields' /\ w \in Threads
  BY QueueTypes DEF TInv, TypeOK, QueueFields, QueueType, Threads
<1>2. /\ t \in Posted /\ QueuesApart' /\ Posted' = Posted \ {t} /\ Due' = Due \cup {t}
  BY <1>1, PendingToList DEF OwnInv, SeatsApart
<1>3. Place(t) = "posted"
  BY <1>2, FitsParts
<1> QED BY <1>1, <1>2, <1>3, Seated DEF OwnInv, Schedules

\* The head of the front queue stays with the sched-thread.
LEMMA PostedToNowhere ==
    ASSUME TInv, TInv', OwnInv, NEW w \in Workers, Schedules(w), queue.pending # <<>>,
           NEW t \in Tasks, t = Head(queue.pending),
           queue'.pending = Tail(queue.pending), queue'.list = queue.list,
           queue'.front = queue.front, queue'.ready = queue.ready
    PROVE  /\ Place(t) = "posted"
           /\ QueuesApart' /\ SeatsApart' /\ Place(t)' = "nowhere"
           /\ \A u \in Tasks : u # t => Place(u)' = Place(u)
<1>1. QueueFields /\ QueueFields' /\ w \in Threads
  BY QueueTypes DEF TInv, TypeOK, QueueFields, QueueType, Threads
<1>2. t \in Posted /\ QueuesApart' /\ Posted' = Posted \ {t} /\ Due' = Due
  BY <1>1, PendingPopped DEF OwnInv
<1>3. Place(t) = "posted" /\ t \notin Due
  BY <1>2, FitsParts
<1> QED BY <1>1, <1>2, <1>3, Seated DEF OwnInv, Schedules

\* The tasks stay where they are.
LEMMA QueuesStay ==
    ASSUME TInv', OwnInv, NEW w \in Workers, Schedules(w), queue' = queue
    PROVE  QueuesApart' /\ SeatsApart' /\ \A u \in Tasks : Place(u)' = Place(u)
<1>1. QueueFields' /\ w \in Threads
  BY QueueTypes DEF TInv, TypeOK, QueueFields, QueueType, Threads
<1>2. QueuesApart' /\ Posted' = Posted /\ Due' = Due
  BY SameSeats DEF OwnInv
<1> QED BY <1>1, <1>2, Unseated DEF OwnInv, Schedules

\* A task whose deadline is over is made ready, once: it leaves the heap.
LEMMA ExpireTopOwns ==
    ASSUME TInv, TInv', OwnInv, SchedInv, NEW w \in Workers, ExpireTop(w)
    PROVE  OwnInv'
<1>1. thread[w].pc \in SchedPCs
  BY FrontIsQuiet DEF ExpireTop, InWaitingLoop, AtWaiting
<1>2. Schedules(w)
  BY <1>1, GoesSchedules DEF ExpireTop, SchedPCs
<1>3. PICK t \in Tasks : t = Top /\ t \in queue.waiting
  BY TopWaits DEF ExpireTop, InWaitingLoop, DeadlineIsNear, TInv
<1>4. scenario' = scenario /\ KernelView' = KernelView /\ backend' = backend
  BY DEF ExpireTop, KernelView, backend, TInv, TypeOK, RoundType
<1>5. task[t] \in TaskType /\ task \in [Tasks -> TaskType] /\ queue.pending \in Seq(Tasks)
      /\ queue \in QueueType
  BY DEF TInv, TypeOK, QueueType
<1>6. CASE task[t].status = "WAITING"
  <2>1. PICK r : r = [task[t] EXCEPT !.status = "READY", !.isExpired = TRUE]
    OBVIOUS
  <2>2. r \in TaskType
    BY <1>5, <2>1, TaskUpdates
  <2>3. ToReady(t, r, queue.pending)
    BY <1>3, <1>6, <2>1 DEF ExpireTop
  <2>4. /\ task'[t] = r /\ \A u \in Tasks : u # t => task'[u] = task[u]
        /\ queue'.front = queue.front /\ queue'.pending = queue.pending
        /\ queue'.ready = queue.ready /\ queue'.list = Append(queue.list, t)
        /\ queue'.waiting = queue.waiting \ {t}
    BY <1>5, <2>2, <2>3, ToReadyUpdates DEF TInv
  <2>5. Place(t) = "nowhere" /\ TaskFits(t) /\ Parked(backend, task[t], TRUE)
    <3>1. TaskFits(t)
      BY FitsParts
    <3> QED BY <1>3, <1>6, <3>1 DEF TaskFits, Fits, Queued
  <2>6. /\ QueuesApart' /\ SeatsApart' /\ Place(t)' = "due"
        /\ \A u \in Tasks : u # t => Place(u)' = Place(u)
    BY <1>2, <2>4, <2>5, NowhereToDue
  <2>7. /\ SameEvents(task[t], task'[t]) /\ task'[t].status = "READY"
        /\ (task'[t].guard <=> task[t].guard)
        /\ (task'[t].sub <=> task[t].sub) /\ (task'[t].inQueues <=> task[t].inQueues)
        /\ (task'[t].isClosed <=> task[t].isClosed) /\ task'[t].deadline = task[t].deadline
        /\ (task'[t].socket <=> task[t].socket)
    BY <1>5, <2>1, <2>4 DEF TaskType, SameEvents
  <2>8. EventsFit(t)'
    <3>1. ~task[t].isClosed
      BY <1>6, <2>5 DEF Parked
    <3> QED BY <1>4, <1>6, <2>7, <3>1, SameEventsFit
  <2>9. TaskFits(t)'
    BY <1>4, <1>6, <2>4, <2>5, <2>6, <2>7 DEF TaskFits, Fits, Called, Parked, SameEvents
  <2> QED BY <1>4, <2>4, <2>6, <2>8, <2>9, OneChanges
<1>7. CASE task[t].status # "WAITING"
  <2>1. task' = task /\ queue' = [queue EXCEPT !.waiting = queue.waiting \ {t}]
    BY <1>3, <1>7 DEF ExpireTop
  <2>2. /\ queue'.front = queue.front /\ queue'.pending = queue.pending
        /\ queue'.ready = queue.ready /\ queue'.list = queue.list
        /\ queue'.waiting = queue.waiting \ {t}
    BY <1>5, <2>1 DEF QueueType
  <2>3. QueueFields' /\ w \in Threads /\ QueuesApart' /\ Posted' = Posted /\ Due' = Due
    BY <2>2, SameSeats, QueueTypes DEF OwnInv, TInv, TypeOK, QueueFields, QueueType, Threads
  <2>4. SeatsApart' /\ \A u \in Tasks : Place(u)' = Place(u)
    BY <1>2, <2>3, Unseated DEF OwnInv, Schedules
  <2>5. TaskFits(t)'
    BY <1>3, <1>4, <1>7, <2>1, <2>2, <2>4, FitsParts DEF TaskFits, Fits, Parked
  <2>6. EventsFit(t)'
    BY <1>4, <2>1, ViewKeeps
  <2> QED BY <1>4, <2>1, <2>2, <2>3, <2>4, <2>5, <2>6, OneChanges
<1> QED BY <1>6, <1>7

\* The list for the workers is published with each task once.
LEMMA PublishOwns ==
    ASSUME TInv, TInv', OwnInv, SchedInv, NEW w \in Workers,
           NEW to \in {"decide", "submit"}, Publish(w, to)
    PROVE  OwnInv'
<1>1. thread[w].pc \in SchedPCs
  BY FrontIsQuiet DEF Publish, AtWaiting
<1>2. Schedules(w) /\ w \in Threads
  BY <1>1, GoesSchedules DEF Publish, SchedPCs, Threads
<1>3. scenario' = scenario /\ KernelView' = KernelView /\ task' = task
  BY DEF Publish, KernelView, TInv, TypeOK, RoundType
<1>4. /\ queue'.ready = queue.ready \o queue.list /\ queue'.list = <<>>
      /\ queue'.front = queue.front /\ queue'.pending = queue.pending
      /\ queue'.waiting = queue.waiting /\ QueueFields
  BY QueueTypes DEF Publish, TInv, TypeOK, QueueType
<1>5. QueuesApart' /\ Posted' = Posted /\ Due' = Due
  BY <1>4, ListPublished DEF OwnInv
<1> QED BY <1>2, <1>3, <1>4, <1>5, QuietOwns DEF Schedules

\* A step of the sched-thread that leaves the tasks and the kernel alone.
LEMMA SchedulesOwns ==
    ASSUME TInv', OwnInv, NEW w \in Workers, Schedules(w), scenario' = scenario,
           KernelView' = KernelView, task' = task, queue' = queue
    PROVE  OwnInv'
  BY QueuesStay, NothingChanges

\* The end of a round touches no task.
LEMMA DecideOwns ==
    ASSUME TInv, TInv', OwnInv, SchedInv, NEW w \in Workers,
           NEW sleep \in SchedPCs, NEW passed \in SchedPCs, Decide(w, sleep, passed)
    PROVE  OwnInv'
<1>1. thread[w].pc \in SchedPCs
  BY DEF Decide, At, SchedPCs
<1>2. PICK to \in SchedPCs : thread' = Goto(w, to)
  <2>1. Again \in SchedPCs /\ "finish" \in SchedPCs
    BY DEF Again, SchedPCs
  <2> QED BY <2>1, Zenon DEF Decide
<1>3. Schedules(w)
  BY <1>1, <1>2, GoesSchedules
<1> QED BY <1>3, SchedulesOwns DEF Decide, KernelView


\* A step that changes one task and what it has in the kernel.
LEMMA OneOfAll ==
    ASSUME OwnInv, scenario' = scenario, KernelFits', NEW t \in Tasks,
           \A u \in Tasks : u # t => task'[u] = task[u],
           \A u \in Tasks : u # t => (u \in queue'.waiting <=> u \in queue.waiting),
           \A u \in Tasks : u # t => Place(u)' = Place(u),
           Flagged => \A u \in Tasks : u # t =>
              /\ u \in kernel'.data <=> u \in kernel.data
              /\ kernel'.reported[u] = kernel.reported[u] /\ Harvested(u)' = Harvested(u),
           ~Flagged => \A u \in Tasks : u # t =>
              AwayIo(u)' = AwayIo(u) /\ Away(u, "cancel")' = Away(u, "cancel"),
           QueuesApart', SeatsApart', TaskFits(t)', EventsFit(t)'
    PROVE  OwnInv'
<1>1. \A u \in Tasks \ {t} : TaskFits(u)'
  BY OthersFit
<1>2. /\ Flagged' <=> Flagged
      /\ \A u \in Tasks : Flag(u)' = Flag(u)
  BY DEF Flagged, backend, Flag, Side
<1>3. ASSUME NEW u \in Tasks, u # t PROVE EventsFit(u)'
  <2>1. EventsFit(u) /\ task'[u] = task[u]
    BY <1>3 DEF OwnInv
  <2>2. CASE Flagged
    <3>1. FlagsFit(u)'
      BY <1>2, <1>3, <2>1, <2>2 DEF EventsFit, FlagsFit
    <3> QED BY <1>2, <2>2, <3>1 DEF EventsFit
  <2>3. CASE ~Flagged
    <3>1. OperationsFit(u)'
      BY <1>3, <2>1, <2>3 DEF EventsFit, OperationsFit
    <3> QED BY <1>2, <2>3, <3>1 DEF EventsFit
  <2> QED BY <2>2, <2>3
<1> QED BY <1>1, <1>3 DEF OwnInv

-----------------------------------------------------------------------------
(* The backends with flags: epoll and kqueue.                               *)

\* They have no operations.
LEMMA NoOperations ==
    ASSUME OwnInv, Flagged, scenario' = scenario, kernel'.inside = kernel.inside,
           kernel'.done = kernel.done, kernel'.cancelled = kernel.cancelled,
           kernel'.toSubmit = kernel.toSubmit
    PROVE  KernelFits' /\ Flagged'
<1>1. Flagged'
  BY DEF Flagged, backend
<1>2. kernel'.inside = {} /\ kernel'.done = {} /\ kernel'.cancelled = {}
      /\ kernel'.toSubmit = <<>>
  BY DEF OwnInv, KernelFits
<1> QED BY <1>1, <1>2, InEmpty DEF KernelFits, In, Once

\* Only the flags of one task change.
LEMMA FlagsChange ==
    ASSUME OwnInv, Flagged, scenario' = scenario, KernelFits', Flagged', NEW t \in Tasks,
           \A u \in Tasks : u # t => task'[u] = task[u],
           \A u \in Tasks : u # t => (u \in queue'.waiting <=> u \in queue.waiting),
           \A u \in Tasks : u # t => Place(u)' = Place(u),
           \A u \in Tasks : u # t =>
              /\ u \in kernel'.data <=> u \in kernel.data
              /\ kernel'.reported[u] = kernel.reported[u] /\ Harvested(u)' = Harvested(u),
           QueuesApart', SeatsApart', TaskFits(t)', FlagsFit(t)'
    PROVE  OwnInv'
  BY OneOfAll DEF EventsFit

\* The events of a task come to it.
LEMMA ReportOwns ==
    ASSUME TInv, TInv', OwnInv, Flagged, NEW w \in Workers, NEW t \in Tasks,
           NEW e, NEW taken, Report(w, t, e, taken),
           taken \subseteq round.harvest, taken # {}, \A x \in taken : x[1] = t,
           e = task[t].pending \cup {x[2] : x \in taken}
    PROVE  OwnInv'
<1>1. Schedules(w)
  <2>1. thread[w].pc \in SchedPCs /\ thread' = thread
    BY DEF Report, At, SchedPCs
  <2> QED BY <2>1, GoesSchedules
<1>2. scenario' = scenario /\ kernel' = kernel /\ backend' = backend
      /\ round'.harvest = round.harvest \ taken /\ Flag(t)' = Flag(t)
  BY DEF Report, backend, TInv, TypeOK, RoundType, Flag, Side
<1>3. /\ \A u \in Tasks : u # t => Harvested(u)' = Harvested(u)
      /\ Harvested(t) # {}
      /\ Harvested(t)' \subseteq Harvested(t)
      /\ Harvested(t) \subseteq Harvested(t)' \cup {x[2] : x \in taken}
  <2>1. \A u \in Tasks : u # t =>
           {y \in round'.harvest : y[1] = u} = {y \in round.harvest : y[1] = u}
    BY <1>2
  <2>2. \A u \in Tasks : u # t => Harvested(u)' = Harvested(u)
    BY <2>1 DEF Harvested
  <2>3. Harvested(t) # {} /\ Harvested(t)' \subseteq Harvested(t)
    BY <1>2 DEF Harvested
  <2>4. Harvested(t) \subseteq Harvested(t)' \cup {x[2] : x \in taken}
    BY <1>2 DEF Harvested
  <2> QED BY <2>2, <2>3, <2>4
<1>4. /\ task[t] \in TaskType /\ task \in [Tasks -> TaskType] /\ queue.pending \in Seq(Tasks)
      /\ TaskFits(t) /\ FlagsFit(t)
  BY FitsParts DEF TInv, TypeOK, QueueType, EventsFit
<1>5. KernelFits' /\ Flagged'
  BY <1>2, NoOperations
<1>6. task[t].socket /\ ~task[t].isClosed /\ task[t].sub
  BY <1>3, <1>4 DEF FlagsFit, FlagFits, TaskFits, Fits, Blank
<1>7. CASE task[t].status = "WAITING"
  <2>1. PICK r : r = [task[t] EXCEPT !.status = "READY", !.ready = task[t].ready \cup e,
                                     !.pending = {}, !.isExpired = IsExpired(t)]
    OBVIOUS
  <2>2. ToReady(t, r, queue.pending)
    BY <1>7, <2>1 DEF Report
  <2>3. r \in TaskType
    <3>1. e \in SUBSET SocketFlags
      <4>1. round.harvest \subseteq Tasks \X SocketFlags
        BY ReportsAreFlags DEF TInv, TypeOK, RoundType
      <4>2. task[t].pending \in SUBSET SocketFlags
        BY <1>4, FlagFields
      <4> QED BY <4>1, <4>2
    <3>2. task[t].ready \cup e \in SUBSET SocketFlags /\ "READY" \in Statuses
          /\ IsExpired(t) \in BOOLEAN
      BY <1>4, <3>1, FlagFields, IsExpiredType DEF Statuses
    <3> QED BY <1>4, <2>1, <3>2, FlagUpdates
  <2>4. /\ task'[t] = r /\ \A u \in Tasks : u # t => task'[u] = task[u]
        /\ queue'.front = queue.front /\ queue'.pending = queue.pending
        /\ queue'.ready = queue.ready /\ queue'.list = Append(queue.list, t)
        /\ queue'.waiting = queue.waiting \ {t}
    BY <1>4, <2>2, <2>3, ToReadyUpdates DEF TInv
  <2>5. /\ task'[t].status = "READY" /\ task'[t].ready = task[t].ready \cup e
        /\ task'[t].pending = {} /\ task'[t].locked = task[t].locked
        /\ task'[t].operations = task[t].operations /\ task'[t].toSubmit = task[t].toSubmit
        /\ (task'[t].guard <=> task[t].guard)
        /\ (task'[t].sub <=> task[t].sub) /\ (task'[t].inQueues <=> task[t].inQueues)
        /\ (task'[t].isClosed <=> task[t].isClosed) /\ task'[t].deadline = task[t].deadline
        /\ (task'[t].socket <=> task[t].socket)
    BY <1>4, <2>1, <2>4 DEF TaskType
  <2>6. Place(t) = "nowhere"
    BY <1>4, <1>6, <1>7, FitsParts
       DEF TaskFits, Fits, Queued, Called, Running, Places, HandPCs
  <2>7. /\ QueuesApart' /\ SeatsApart' /\ Place(t)' = "due"
        /\ \A u \in Tasks : u # t => Place(u)' = Place(u)
    BY <1>1, <2>4, <2>6, NowhereToDue
  <2>8. TaskFits(t)'
    BY <1>2, <1>4, <1>6, <1>7, <2>4, <2>5, <2>6, <2>7 DEF TaskFits, Fits, Called, Parked, Flagged
  <2>9. FlagsFit(t)'
    BY <1>2, <1>3, <1>4, <1>6, <1>7, <2>5 DEF FlagsFit, FlagFits
  <2> QED BY <1>2, <1>3, <1>5, <2>4, <2>7, <2>8, <2>9, FlagsChange
<1>8. CASE task[t].status # "WAITING"
  <2>1. task' = [task EXCEPT ![t] = [task[t] EXCEPT !.pending = e]] /\ queue' = queue
    BY <1>8 DEF Report
  <2>2. /\ task'[t] = [task[t] EXCEPT !.pending = e]
        /\ \A u \in Tasks : u # t => task'[u] = task[u]
    BY <1>4, <2>1
  <2>3. /\ task'[t].status = task[t].status /\ task'[t].ready = task[t].ready
        /\ task'[t].pending = e /\ task'[t].locked = task[t].locked
        /\ task'[t].operations = task[t].operations /\ task'[t].toSubmit = task[t].toSubmit
        /\ (task'[t].guard <=> task[t].guard)
        /\ (task'[t].sub <=> task[t].sub) /\ (task'[t].inQueues <=> task[t].inQueues)
        /\ (task'[t].isClosed <=> task[t].isClosed) /\ task'[t].deadline = task[t].deadline
        /\ (task'[t].socket <=> task[t].socket)
    BY <1>4, <2>2 DEF TaskType
  <2>4. QueuesApart' /\ SeatsApart' /\ \A u \in Tasks : Place(u)' = Place(u)
    BY <1>1, <2>1, QueuesStay
  <2>5. TaskFits(t)'
    BY <1>2, <1>4, <1>6, <1>8, <2>1, <2>3, <2>4
       DEF TaskFits, Fits, Queued, Called, Running, Parked, Flagged
  <2>6. FlagsFit(t)'
    BY <1>2, <1>3, <1>4, <1>6, <2>3 DEF FlagsFit, FlagFits
  <2> QED BY <1>2, <1>3, <1>5, <2>1, <2>2, <2>4, <2>5, <2>6, FlagsChange
<1> QED BY <1>7, <1>8

\* A task that flags are handed to is made ready only if it slept.
LEMMA FlagEventOwns ==
    ASSUME TInv, TInv', OwnInv, Flagged, NEW w \in Workers,
           \/ \E t \in Tasks : EpollEvent(w, t)
           \/ \E x \in round.harvest : KqueueEvent(w, x)
    PROVE  OwnInv'
<1>1. ASSUME NEW t \in Tasks, EpollEvent(w, t) PROVE OwnInv'
  <2>1. PICK taken : taken = {x \in round.harvest : x[1] = t}
    OBVIOUS
  <2>2. taken # {} /\ Report(w, t, task[t].pending \cup {x[2] : x \in taken}, taken)
    BY <1>1, <2>1 DEF EpollEvent
  <2> QED BY <2>1, <2>2, ReportOwns
<1>2. ASSUME NEW x \in round.harvest, KqueueEvent(w, x) PROVE OwnInv'
  <2>1. x[1] \in Tasks
    BY ReportsAreFlags DEF TInv, TypeOK, RoundType
  <2>2. PICK taken : taken = {x}
    OBVIOUS
  <2>3. {y[2] : y \in taken} = {x[2]}
    BY <2>2
  <2>4. Report(w, x[1], task[x[1]].pending \cup {y[2] : y \in taken}, taken)
    BY <1>2, <2>2, <2>3 DEF KqueueEvent
  <2> QED BY <2>1, <2>2, <2>4, ReportOwns
<1> QED BY <1>1, <1>2


\* A task of the front queue passes by the flags that are there for it.
LEMMA EpollFrontOwns ==
    ASSUME TInv, TInv', OwnInv, SchedInv, Flagged, NEW w \in Workers, EpollFront(w)
    PROVE  OwnInv'
<1>1. NextPending(w)
  BY DEF EpollFront
<1>2. round.harvest = {} /\ thread[w].pc \in SchedPCs
  BY <1>1, FrontIsQuiet DEF NextPending, InFrontLoop
<1>3. Schedules(w)
  BY <1>1, <1>2, NextPendingUpdates, GoesSchedules DEF SchedPCs
<1>4. PICK t \in Tasks : t = Head(queue.pending)
  BY <1>1, NextPendingUpdates
<1>5. /\ queue.pending # <<>> /\ task[t] \in TaskType /\ Tail(queue.pending) \in Seq(Tasks)
      /\ round'.harvest = round.harvest /\ scenario' = scenario /\ backend' = backend
      /\ Flag(t)' = Flag(t) /\ TaskFits(t) /\ FlagsFit(t) /\ kernel \in KernelType
      /\ IsExpired(t) \in BOOLEAN /\ task \in [Tasks -> TaskType]
  BY <1>1, <1>4, NextPendingUpdates, FitsParts, IsExpiredType
     DEF backend, Flag, Side, EventsFit, TInv, TypeOK
<1>6. Harvested(t) = {} /\ \A u \in Tasks : Harvested(u)' = Harvested(u)
  BY <1>2, <1>5 DEF Harvested
<1>7. Place(t) = "posted"
  <2>1. QueueFields
    BY QueueTypes DEF TInv
  <2> QED BY <1>4, <1>5, <2>1, InTail, FitsParts DEF OwnInv, QueuesApart, Posted, QueueFields
<1>8. Queued(backend, task[t])
  BY <1>5, <1>7 DEF TaskFits, Fits
<1>9. CASE ~Sleeps(t) /\ task[t].status # "CLOSING"
  <2>1. PICK r : r = [task[t] EXCEPT !.status = Awake(task[t].status),
                                     !.ready = task[t].ready \cup task[t].pending,
                                     !.pending = {}, !.isExpired = IsExpired(t)]
    OBVIOUS
  <2>2. r \in TaskType
    <3>1. Awake(task[t].status) \in Statuses
          /\ task[t].ready \cup task[t].pending \in SUBSET SocketFlags
      BY <1>5, FlagFields
    <3> QED BY <1>5, <2>1, <3>1, FlagUpdates
  <2>3. ToReady(t, r, Tail(queue.pending)) /\ kernel' = kernel
    BY <1>4, <1>9, <2>1 DEF EpollFront, ToSleep
  <2>4. /\ task'[t] = r /\ \A u \in Tasks : u # t => task'[u] = task[u]
        /\ queue'.front = queue.front /\ queue'.pending = Tail(queue.pending)
        /\ queue'.ready = queue.ready /\ queue'.list = Append(queue.list, t)
        /\ queue'.waiting = queue.waiting \ {t}
    BY <1>5, <2>2, <2>3, ToReadyUpdates DEF TInv
  <2>5. /\ task'[t].status = "READY" /\ task'[t].ready = task[t].ready \cup task[t].pending
        /\ task'[t].pending = {} /\ task'[t].locked = task[t].locked
        /\ task'[t].operations = task[t].operations /\ task'[t].toSubmit = task[t].toSubmit
        /\ (task'[t].guard <=> task[t].guard)
        /\ (task'[t].sub <=> task[t].sub) /\ (task'[t].inQueues <=> task[t].inQueues)
        /\ (task'[t].isClosed <=> task[t].isClosed) /\ task'[t].deadline = task[t].deadline
        /\ (task'[t].socket <=> task[t].socket)
    BY <1>5, <1>8, <1>9, <2>1, <2>4 DEF TaskType, Awake, Queued
  <2>6. /\ QueuesApart' /\ SeatsApart' /\ Place(t)' = "due"
        /\ \A u \in Tasks : u # t => Place(u)' = Place(u)
    BY <1>3, <1>4, <1>5, <2>4, PostedToDue
  <2>7. TaskFits(t)'
    BY <1>5, <1>7, <1>8, <1>9, <2>4, <2>5, <2>6 DEF TaskFits, Fits, Called, Queued
  <2>8. FlagsFit(t)'
    BY <1>5, <1>6, <1>8, <1>9, <2>3, <2>5 DEF FlagsFit, FlagFits, Queued
  <2>9. KernelFits' /\ Flagged'
    BY <1>5, <2>3, NoOperations
  <2> QED BY <1>5, <1>6, <2>3, <2>4, <2>6, <2>7, <2>8, <2>9, FlagsChange
<1>10. CASE task[t].status = "CLOSING"
  <2>1. PICK r : r = [task[t] EXCEPT !.status = "CLOSED", !.isClosed = TRUE,
                                     !.socket = FALSE, !.ready = {}, !.pending = {},
                                     !.isExpired = IsExpired(t)]
    OBVIOUS
  <2>2. r \in TaskType
    <3>1. "CLOSED" \in Statuses /\ {} \in SUBSET SocketFlags
      BY DEF Statuses
    <3> QED BY <1>5, <2>1, <3>1, FlagUpdates
  <2>3. ToReady(t, r, Tail(queue.pending)) /\ kernel' = EpollUnregister(kernel, t)
    BY <1>4, <1>10, <2>1 DEF EpollFront, ToSleep, Sleeps
  <2>4. /\ task'[t] = r /\ \A u \in Tasks : u # t => task'[u] = task[u]
        /\ queue'.front = queue.front /\ queue'.pending = Tail(queue.pending)
        /\ queue'.ready = queue.ready /\ queue'.list = Append(queue.list, t)
        /\ queue'.waiting = queue.waiting \ {t}
    BY <1>5, <2>2, <2>3, ToReadyUpdates DEF TInv
  <2>5. /\ task'[t].status = "CLOSED" /\ task'[t].ready = {}
        /\ task'[t].pending = {} /\ task'[t].locked = task[t].locked
        /\ task'[t].operations = task[t].operations /\ task'[t].toSubmit = task[t].toSubmit
        /\ (task'[t].guard <=> task[t].guard)
        /\ (task'[t].sub <=> task[t].sub) /\ (task'[t].inQueues <=> task[t].inQueues)
        /\ task'[t].isClosed /\ task'[t].deadline = task[t].deadline
        /\ ~task'[t].socket
    BY <1>5, <2>1, <2>4 DEF TaskType
  <2>6. /\ QueuesApart' /\ SeatsApart' /\ Place(t)' = "due"
        /\ \A u \in Tasks : u # t => Place(u)' = Place(u)
    BY <1>3, <1>4, <1>5, <2>4, PostedToDue
  <2>7. TaskFits(t)'
    BY <1>5, <1>7, <1>8, <1>10, <2>4, <2>5, <2>6 DEF TaskFits, Fits, Called, Queued, Flagged
  <2>8. /\ kernel'.data = kernel.data \ {t} /\ kernel'.reported[t] = {}
        /\ \A u \in Tasks : u # t => kernel'.reported[u] = kernel.reported[u]
        /\ kernel'.inside = kernel.inside /\ kernel'.done = kernel.done
        /\ kernel'.cancelled = kernel.cancelled /\ kernel'.toSubmit = kernel.toSubmit
    BY <1>5, <2>3 DEF EpollUnregister, KernelType
  <2>9. FlagsFit(t)'
    BY <1>5, <1>6, <2>5, <2>8 DEF FlagsFit, FlagFits
  <2>10. KernelFits' /\ Flagged'
    BY <1>5, <2>8, NoOperations
  <2> QED BY <1>5, <1>6, <2>4, <2>6, <2>7, <2>8, <2>9, <2>10, FlagsChange
<1>11. CASE Sleeps(t) /\ task[t].status # "CLOSING"
  <2>1. ToSleep(t, task[t]) /\ kernel' = kernel
    BY <1>4, <1>11 DEF EpollFront
  <2>2. /\ task'[t] = [task[t] EXCEPT !.status = "WAITING"]
        /\ \A u \in Tasks : u # t => task'[u] = task[u]
        /\ queue'.front = queue.front /\ queue'.pending = Tail(queue.pending)
        /\ queue'.ready = queue.ready /\ queue'.list = queue.list
        /\ queue'.waiting = IF task[t].deadline # Infinite THEN queue.waiting \cup {t}
                                                           ELSE queue.waiting
    BY <1>5, <2>1, ToSleepUpdates DEF TInv
  <2>3. /\ task'[t].status = "WAITING" /\ SameEvents(task[t], task'[t])
        /\ (task'[t].guard <=> task[t].guard)
        /\ (task'[t].sub <=> task[t].sub) /\ (task'[t].inQueues <=> task[t].inQueues)
        /\ (task'[t].isClosed <=> task[t].isClosed) /\ task'[t].deadline = task[t].deadline
        /\ (task'[t].socket <=> task[t].socket)
    BY <1>5, <2>2 DEF TaskType, SameEvents
  <2>4. /\ QueuesApart' /\ SeatsApart' /\ Place(t)' = "nowhere"
        /\ \A u \in Tasks : u # t => Place(u)' = Place(u)
    BY <1>3, <1>4, <1>5, <2>2, PostedToNowhere
  <2>5. task[t].status = "PENDING" /\ task[t].pending = {}
    BY <1>11 DEF Sleeps
  <2>6. /\ t \in queue'.waiting => task[t].deadline # Infinite
        /\ \A u \in Tasks : u # t => (u \in queue'.waiting <=> u \in queue.waiting)
    <3>1. t \in queue.waiting => FALSE
      BY <1>5, <2>5 DEF TaskFits, Fits
    <3> QED BY <2>2, <3>1
  <2>7. TaskFits(t)'
    BY <1>5, <1>7, <1>8, <2>3, <2>4, <2>5, <2>6
       DEF TaskFits, Fits, Queued, Parked, SameEvents, Flagged
  <2>8. FlagsFit(t)'
    BY <1>5, <1>6, <2>1, <2>3, <2>5 DEF FlagsFit, FlagFits, SameEvents
  <2>9. KernelFits' /\ Flagged'
    BY <1>5, <2>1, NoOperations
  <2> QED BY <1>5, <1>6, <2>1, <2>2, <2>4, <2>6, <2>7, <2>8, <2>9, FlagsChange
<1> QED BY <1>9, <1>10, <1>11

\* The kernel gives up the flags it reports, and the harvest has them.
LEMMA EpollHarvestOwns ==
    ASSUME TInv, TInv', OwnInv, SchedInv, Flagged, NEW w \in Workers, EpollHarvest(w)
    PROVE  OwnInv'
<1>1. thread[w].pc \in SchedPCs \ {"collect", "kernel"}
  BY DEF EpollHarvest, At, SchedPCs
<1>2. Schedules(w)
  BY <1>1, GoesSchedules DEF EpollHarvest, SchedPCs
<1>3. QueuesApart' /\ SeatsApart' /\ \A u \in Tasks : Place(u)' = Place(u)
  BY <1>2, QueuesStay DEF EpollHarvest
<1>4. round.harvest = {}
  BY <1>1, NothingLeft
<1>5. /\ scenario' = scenario /\ task' = task /\ queue' = queue /\ backend' = backend
      /\ kernel'.data = kernel.data /\ kernel'.reported = [t \in Tasks |-> {}]
      /\ kernel'.inside = kernel.inside /\ kernel'.done = kernel.done
      /\ kernel'.cancelled = kernel.cancelled /\ kernel'.toSubmit = kernel.toSubmit
      /\ round'.harvest = UNION {{t} \X Reported(t) : t \in Tasks}
  BY DEF EpollHarvest, backend, TInv, TypeOK, KernelType, NewRound
<1>6. ASSUME NEW u \in Tasks PROVE Harvested(u)' = kernel.reported[u]
  <2>1. Harvested(u)' \subseteq kernel.reported[u]
    BY <1>5 DEF Harvested, Reported
  <2>2. ASSUME NEW f \in kernel.reported[u] PROVE f \in Harvested(u)'
    <3>1. <<u, f>> \in round'.harvest
      BY <1>5 DEF Reported
    <3>2. <<u, f>>[1] = u /\ <<u, f>>[2] = f
      OBVIOUS
    <3> QED BY <3>1, <3>2 DEF Harvested
  <2> QED BY <2>1, <2>2
<1>7. KernelFits' /\ Flagged'
  BY <1>5, NoOperations
<1>8. \A u \in Tasks : TaskFits(u)'
  BY <1>3, <1>5 DEF OwnInv, TaskFits
<1>9. ASSUME NEW u \in Tasks PROVE EventsFit(u)'
  <2>1. FlagsFit(u) /\ Harvested(u) = {} /\ Flag(u)' = Flag(u)
    BY <1>4, <1>5 DEF OwnInv, EventsFit, Harvested, Flag, Side
  <2>2. FlagsFit(u)'
    BY <1>5, <1>6, <2>1 DEF FlagsFit, FlagFits
  <2> QED BY <1>7, <2>2 DEF EventsFit
<1> QED BY <1>3, <1>7, <1>8, <1>9 DEF OwnInv

\* The sched-thread wakes up, and takes nothing from the kernel yet.
LEMMA EpollPollOwns ==
    ASSUME TInv, TInv', OwnInv, NEW w \in Workers, EpollPoll(w)
    PROVE  OwnInv'
<1>1. thread[w].pc \in SchedPCs /\ Again \in SchedPCs
  BY DEF EpollPoll, At, SchedPCs, Again
<1>2. Schedules(w)
  BY <1>1, GoesSchedules DEF EpollPoll
<1> QED BY <1>2, SchedulesOwns DEF EpollPoll, KernelView

\* The peers of the sockets.
LEMMA PeerOwns ==
    ASSUME TInv, TInv', OwnInv, Flagged, NEW t \in Tasks, Arrive(t) \/ Break(t)
    PROVE  OwnInv'
<1>1. /\ scenario' = scenario /\ task' = task /\ queue' = queue /\ thread' = thread
      /\ round' = round /\ backend' = backend /\ task[t].socket /\ kernel \in KernelType
      /\ kernel.reported \in [Tasks -> SUBSET SocketFlags] /\ Flag(t)' = Flag(t)
  BY KernelFields DEF Arrive, Break, backend, TInv, TypeOK, Flag, Side
<1>2. PICK f : /\ Flag(t) \in f
               /\ kernel' = [kernel EXCEPT !.data = @ \cup {t}, !.reported[t] = f]
  <2>1. CASE Arrive(t)
    <3>1. kernel' = [kernel EXCEPT !.data = @ \cup {t},
                                   !.reported[t] = kernel.reported[t] \cup {Flag(t)}]
      BY <1>1, <2>1 DEF Arrive, Reported, KernelType
    <3> QED BY <3>1
  <2>2. CASE Break(t)
    BY <2>2 DEF Break
  <2> QED BY <2>1, <2>2
<1>3. /\ kernel'.data = kernel.data \cup {t} /\ kernel'.reported[t] = f
      /\ \A u \in Tasks : u # t => kernel'.reported[u] = kernel.reported[u]
      /\ kernel'.inside = kernel.inside /\ kernel'.done = kernel.done
      /\ kernel'.cancelled = kernel.cancelled /\ kernel'.toSubmit = kernel.toSubmit
  BY <1>1, <1>2 DEF KernelType
<1>4. QueuesApart' /\ SeatsApart' /\ \A u \in Tasks : Place(u)' = Place(u)
  BY <1>1, SameSeatsAll
<1>5. TaskFits(t)' /\ \A u \in Tasks : Harvested(u)' = Harvested(u)
  BY <1>1, <1>4, FitsParts DEF TaskFits, Harvested
<1>6. FlagsFit(t)'
  <2>1. FlagsFit(t)
    BY FitsParts DEF EventsFit
  <2> QED BY <1>1, <1>2, <1>3, <1>5, <2>1 DEF FlagsFit, FlagFits
<1>7. KernelFits' /\ Flagged'
  BY <1>1, <1>3, NoOperations
<1> QED BY <1>1, <1>3, <1>4, <1>5, <1>6, <1>7, FlagsChange


\* A task that has been called.
Served(r) ==
    /\ r.status \in {"PENDING", "CLOSING"} /\ (r.guard <=> r.status = "CLOSING")
    /\ r.sub /\ ~r.inQueues /\ ~r.isClosed

\* Close() from the callback leaves the flags as they are.
LEMMA ClosingIsServed ==
    ASSUME NEW r \in TaskType, Served(r)
    PROVE  /\ Closing(r) \in TaskType /\ Served(Closing(r)) /\ SameEvents(r, Closing(r))
           /\ Closing(r).status = "CLOSING" /\ (Closing(r).socket <=> r.socket)
<1>1. CASE r.guard
  BY <1>1, TaskUpdates DEF Closing, Served, SameEvents
<1>2. CASE ~r.guard
  <2>1. Closing(r) = [r EXCEPT !.guard = TRUE, !.status = "CLOSING"]
    BY <1>2 DEF Closing
  <2>2. PICK c : c = Closing(r)
    OBVIOUS
  <2>3. /\ c.status = "CLOSING" /\ c.guard /\ (c.socket <=> r.socket)
        /\ (c.sub <=> r.sub) /\ (c.inQueues <=> r.inQueues) /\ (c.isClosed <=> r.isClosed)
        /\ SameEvents(r, c)
    BY <2>1, <2>2 DEF TaskType, SameEvents
  <2>4. Closing(r) \in TaskType
    BY TaskUpdates
  <2> QED BY <2>2, <2>3, <2>4 DEF Served
<1> QED BY <1>1, <1>2

\* What a worker has got, and what PrivExecute() makes of it.
LEMMA StartedIsServed ==
    ASSUME TInv, OwnInv, NEW w \in Workers, At(w, "execute"), ~task[Of(w)].isClosed
    PROVE  /\ Of(w) \in Tasks /\ Started(Of(w)) \in TaskType /\ task[Of(w)] \in TaskType
           /\ Served(Started(Of(w)))
           /\ SameEvents(task[Of(w)], Started(Of(w)))
           /\ (Started(Of(w)).socket <=> task[Of(w)].socket)
           /\ TaskFits(Of(w)) /\ EventsFit(Of(w)) /\ Place(Of(w)) = "execute"
           /\ Called(backend, task[Of(w)])
           /\ Started(Of(w)).status = "PENDING" => task[Of(w)].status = "READY"
<1>1. PICK t \in Tasks : t = Of(w) /\ TaskFits(t) /\ EventsFit(t) /\ Place(t) = "execute"
               /\ task[t] \in TaskType
  BY WorkerHolds DEF At, HandPCs
<1>2. Called(backend, task[t]) /\ ~task[t].isClosed
  BY <1>1 DEF TaskFits, Fits
<1>3. Started(t) \in TaskType
  BY StartedType DEF TInv
<1>4. CASE task[t].status = "READY"
  <2>1. Started(t) = [task[t] EXCEPT !.inQueues = FALSE, !.deadline = Infinite,
                                     !.status = "PENDING"]
    BY <1>1, <1>4 DEF Started
  <2>2. Served(Started(t)) /\ SameEvents(task[t], Started(t))
        /\ (Started(t).socket <=> task[t].socket)
    BY <1>1, <1>2, <1>4, <2>1 DEF TaskType, Served, SameEvents, Called, TaskFits, Fits
  <2> QED BY <1>1, <1>2, <1>3, <1>4, <2>2
<1>5. CASE task[t].status # "READY"
  <2>1. Started(t) = [task[t] EXCEPT !.inQueues = FALSE, !.deadline = Infinite,
                                     !.status = task[t].status]
    BY <1>1, <1>5 DEF Started
  <2>2. task[t].status = "CLOSING"
    BY <1>2, <1>5 DEF Called
  <2>3. Served(Started(t)) /\ SameEvents(task[t], Started(t))
        /\ (Started(t).socket <=> task[t].socket) /\ Started(t).status = "CLOSING"
    BY <1>1, <1>2, <2>1, <2>2 DEF TaskType, Served, SameEvents, Called, TaskFits, Fits
  <2> QED BY <1>1, <1>2, <1>3, <2>3
<1> QED BY <1>4, <1>5

\* The task of a worker is s after its call, and the kernel is k.
LEMMA ExecuteOwns ==
    ASSUME TInv, TInv', OwnInv, NEW w \in Workers, NEW s, NEW k, Execute(w, s, k),
           NEW t \in Tasks, t = Of(w), Served(s),
           "cancel" \notin s.locked, backend # "iouring" => s.toSubmit = <<>>,
           backend \in {"iouring", "iocp"} => s.ready = {},
           KernelFits',
           Flagged => \A u \in Tasks : u # t =>
              /\ u \in k.data <=> u \in kernel.data
              /\ k.reported[u] = kernel.reported[u],
           ~Flagged => \A u \in Tasks : u # t =>
              AwayIo(u)' = AwayIo(u) /\ Away(u, "cancel")' = Away(u, "cancel"),
           EventsFit(t)'
    PROVE  OwnInv'
<1>1. /\ Holds(w, t) /\ Place(t) = "execute" /\ TaskFits(t) /\ w \in Threads
      /\ thread \in [Threads -> ThreadType] /\ task \in [Tasks -> TaskType]
  BY WorkerHolds DEF Execute, At, HandPCs
<1>2. /\ task' = [task EXCEPT ![t] = s] /\ kernel' = k /\ thread' = Goto(w, "callback")
      /\ queue' = queue /\ round' = round /\ scenario' = scenario /\ backend' = backend
  BY DEF Execute, backend
<1>3. task'[t] = s /\ \A u \in Tasks : u # t => task'[u] = task[u]
  BY <1>1, <1>2
<1>4. thread'[w].pc = "callback" /\ thread'[w].task = t
      /\ \A q \in Threads : q # w => thread'[q] = thread[q]
  <2>1. "callback" \in PCs
    BY DEF PCs, HandPCs
  <2> QED BY <1>1, <1>2, <2>1, ThreadUpdates DEF Of
<1>5. /\ QueuesApart' /\ SeatsApart' /\ Place(t)' = "callback"
      /\ \A u \in Tasks : u # t => Place(u)' = Place(u)
  BY <1>1, <1>2, <1>4, HandMoves DEF HandPCs
<1>6. t \notin queue.waiting
  BY <1>1 DEF TaskFits, Fits
<1>7. TaskFits(t)'
  BY <1>2, <1>3, <1>5, <1>6 DEF TaskFits, Fits, Running, Served
<1>8. \A u \in Tasks : Harvested(u)' = Harvested(u)
  BY <1>2 DEF Harvested
<1> QED BY <1>2, <1>3, <1>5, <1>7, <1>8, OneOfAll

\* The last execution: the task is s, with nothing left.
LEMMA LastOwns ==
    ASSUME TInv, TInv', OwnInv, NEW w \in Workers, NEW r \in TaskType, LastExecute(w, r),
           NEW t \in Tasks, t = Of(w),
           r.status = task[t].status, r.guard <=> task[t].guard,
           r.isClosed <=> task[t].isClosed, r.socket <=> task[t].socket,
           r.pending = task[t].pending, r.ready = {}, r.locked = {}, r.operations = 0,
           r.toSubmit = task[t].toSubmit,
           ~Flagged => AwayIo(t) = 0 /\ Away(t, "cancel") = 0
    PROVE  OwnInv'
<1>1. /\ Holds(w, t) /\ Place(t) = "execute" /\ TaskFits(t) /\ w \in Threads /\ EventsFit(t)
      /\ thread \in [Threads -> ThreadType] /\ task \in [Tasks -> TaskType]
      /\ task[t].isClosed
  BY WorkerHolds DEF LastExecute, At, HandPCs
<1>2. Called(backend, task[t])
  BY <1>1 DEF TaskFits, Fits
<1>3. /\ task' = [task EXCEPT ![t] = [r EXCEPT !.sub = FALSE]]
      /\ thread' = [thread EXCEPT ![w].pc = "closed", ![w].final = TRUE]
      /\ queue' = queue /\ scenario' = scenario /\ backend' = backend
      /\ KernelView' = KernelView
  BY DEF LastExecute, backend, KernelView
<1>4. task'[t] = [r EXCEPT !.sub = FALSE] /\ \A u \in Tasks : u # t => task'[u] = task[u]
  BY <1>1, <1>3
<1>5. /\ task'[t].status = "CLOSED" /\ task'[t].guard /\ task'[t].isClosed /\ ~task'[t].sub
      /\ ~task'[t].socket /\ task'[t].pending = {} /\ task'[t].ready = {}
      /\ task'[t].locked = {} /\ task'[t].operations = 0 /\ task'[t].toSubmit = <<>>
  <2>1. /\ task'[t].status = r.status /\ (task'[t].guard <=> r.guard) /\ ~task'[t].sub
        /\ (task'[t].isClosed <=> r.isClosed) /\ (task'[t].socket <=> r.socket)
        /\ task'[t].pending = r.pending /\ task'[t].ready = r.ready
        /\ task'[t].locked = r.locked /\ task'[t].operations = r.operations
        /\ task'[t].toSubmit = r.toSubmit
    BY <1>4 DEF TaskType
  <2> QED BY <1>1, <1>2, <2>1 DEF Called, TaskFits, Fits
<1>6. thread'[w].pc = "closed" /\ thread'[w].task = t
      /\ \A q \in Threads : q # w => thread'[q] = thread[q]
  BY <1>1, <1>3 DEF Of, ThreadType
<1>7. /\ QueuesApart' /\ SeatsApart' /\ Place(t)' = "closed"
      /\ \A u \in Tasks : u # t => Place(u)' = Place(u)
  BY <1>1, <1>3, <1>6, HandMoves DEF HandPCs
<1>8. t \notin queue.waiting
  BY <1>1 DEF TaskFits, Fits
<1>9. TaskFits(t)'
  BY <1>3, <1>5, <1>7, <1>8 DEF TaskFits, Fits, Blank
<1>10. EventsFit(t)'
  <2>1. CASE Flagged
    <3>1. FlagsFit(t)
      BY <1>1, <2>1 DEF EventsFit
    <3>2. /\ Flagged' /\ Flag(t)' = Flag(t) /\ Harvested(t)' = Harvested(t)
          /\ kernel'.data = kernel.data /\ kernel'.reported = kernel.reported
      BY <1>3, <2>1, ViewKeeps
    <3>3. ~task[t].socket
      BY <1>1, <1>2 DEF Called
    <3>4. FlagsFit(t)'
      BY <1>5, <3>1, <3>2, <3>3 DEF FlagsFit, FlagFits
    <3> QED BY <3>2, <3>4 DEF EventsFit
  <2>2. CASE ~Flagged
    <3>1. ~Flagged' /\ AwayIo(t)' = 0 /\ Away(t, "cancel")' = 0
      BY <1>3, <2>2, ViewKeeps
    <3>2. OperationsFit(t)'
      BY <1>5, <3>1 DEF OperationsFit, OperationFits, Back, N
    <3> QED BY <3>1, <3>2 DEF EventsFit
  <2> QED BY <2>1, <2>2
<1> QED BY <1>3, <1>4, <1>7, <1>9, <1>10, OneChanges


\* What a callback may make of the task t and of its socket in the kernel.
FlagsOwned(t, s, k) ==
    /\ Served(s) /\ s.toSubmit = <<>>
    /\ k.inside = kernel.inside /\ k.done = kernel.done /\ k.cancelled = kernel.cancelled
    /\ k.toSubmit = kernel.toSubmit
    /\ \A u \in Tasks : u # t => /\ u \in k.data <=> u \in kernel.data
                                 /\ k.reported[u] = kernel.reported[u]
    /\ FlagFits(s, Flag(t), t \in k.data, k.reported[t], Harvested(t))

\* Another deadline is nothing to the flags.
LEMMA DeadlineFits ==
    ASSUME TypeOK, Flagged, NEW t \in Tasks, NEW r \in TaskType, FlagsOwned(t, r, kernel),
           NEW d \in scenario.deadlines \cup {Infinite} \cup {0}
    PROVE  /\ [r EXCEPT !.deadline = d] \in TaskType
           /\ FlagsOwned(t, [r EXCEPT !.deadline = d], kernel)
           /\ [r EXCEPT !.deadline = d].locked = r.locked
           /\ [r EXCEPT !.deadline = d].socket <=> r.socket
<1>1. PICK y : y = [r EXCEPT !.deadline = d]
  OBVIOUS
<1>2. y \in TaskType
  BY <1>1, DeadlineTypes
<1>3. /\ y.status = r.status /\ (y.guard <=> r.guard) /\ (y.sub <=> r.sub)
      /\ (y.inQueues <=> r.inQueues) /\ (y.isClosed <=> r.isClosed)
      /\ (y.socket <=> r.socket) /\ y.locked = r.locked /\ y.toSubmit = r.toSubmit
      /\ y.operations = r.operations /\ y.pending = r.pending /\ y.ready = r.ready
  BY <1>1 DEF TaskType
<1>4. FlagsOwned(t, y, kernel)
  BY <1>3 DEF FlagsOwned, Served, FlagFits
<1> QED BY <1>1, <1>2, <1>3, <1>4

\* A transfer waits for its flag only when there was nothing to take.
LEMMA TransferFits ==
    ASSUME Flagged, NEW t \in Tasks, NEW r \in TaskType, FlagsOwned(t, r, kernel),
           NEW possible \in BOOLEAN, possible <=> t \in kernel.data, Flag(t) \notin r.locked,
           NEW k, k = kernel \/ (possible /\ k = [kernel EXCEPT !.data = @ \ {t}]),
           kernel \in KernelType
    PROVE  FlagsOwned(t, EpollTransfer(t, r, possible), k)
<1>1. PICK s : s = EpollTransfer(t, r, possible)
  OBVIOUS
<1>2. \/ possible /\ s = [r EXCEPT !.ready = r.ready \cup {Flag(t)}]
      \/ possible /\ s = r
      \/ ~possible /\ s = [r EXCEPT !.locked = r.locked \cup {Flag(t)}]
  <2>1. CASE Side(t) = "send"
    <3>1. s = EpollSend(r, possible) /\ Flag(t) = "out"
      BY <1>1, <2>1 DEF EpollTransfer, Flag
    <3> QED BY <3>1 DEF EpollSend
  <2>2. CASE Side(t) = "recv"
    <3>1. s = EpollRecv(r, possible) /\ Flag(t) = "in"
      BY <1>1, <2>2 DEF EpollTransfer, Flag
    <3> QED BY <3>1 DEF EpollRecv
  <2>3. CASE Side(t) \notin {"send", "recv"}
    <3>1. s = EpollAccept(r, possible) /\ Flag(t) = "in"
      BY <1>1, <2>3 DEF EpollTransfer, Flag
    <3> QED BY <3>1 DEF EpollAccept
  <2> QED BY <2>1, <2>2, <2>3
<1>3. /\ s.status = r.status /\ (s.guard <=> r.guard) /\ (s.sub <=> r.sub)
      /\ (s.inQueues <=> r.inQueues) /\ (s.isClosed <=> r.isClosed)
      /\ (s.socket <=> r.socket) /\ s.toSubmit = r.toSubmit
      /\ s.operations = r.operations /\ s.pending = r.pending
      /\ (possible => s.locked = r.locked)
      /\ (~possible => s.locked = r.locked \cup {Flag(t)})
  BY <1>2 DEF TaskType
<1>4. /\ k.inside = kernel.inside /\ k.done = kernel.done /\ k.cancelled = kernel.cancelled
      /\ k.toSubmit = kernel.toSubmit /\ k.reported = kernel.reported
      /\ \A u \in Tasks : u # t => (u \in k.data <=> u \in kernel.data)
      /\ t \in k.data => t \in kernel.data
  BY DEF KernelType
<1>5. FlagFits(s, Flag(t), t \in k.data, k.reported[t], Harvested(t))
  BY <1>3, <1>4 DEF FlagsOwned, FlagFits
<1> QED BY <1>1, <1>3, <1>4, <1>5 DEF FlagsOwned, Served

\* Whatever the callback does, the flag it waits for is not lost.
LEMMA EpollOwnerFits ==
    ASSUME TypeOK, Flagged, NEW t \in Tasks, NEW r \in TaskType, FlagsOwned(t, r, kernel),
           NEW x \in EpollOwner(t, r)
    PROVE  FlagsOwned(t, x[1], x[2])
<1>1. kernel \in KernelType
  BY DEF TypeOK
<1> DEFINE Later == scenario.deadlines \cup {Infinite}
<1>2. \A d \in Later \cup {0} :
         /\ [r EXCEPT !.deadline = d] \in TaskType
         /\ FlagsOwned(t, [r EXCEPT !.deadline = d], kernel)
         /\ [r EXCEPT !.deadline = d].locked = r.locked
         /\ [r EXCEPT !.deadline = d].socket <=> r.socket
  BY DeadlineFits
<1>3. CASE Side(t) = "timer" \/ Flag(t) \in r.locked
  <2>1. PICK d \in Later : x = <<[r EXCEPT !.deadline = d], kernel>>
    BY <1>3 DEF EpollOwner
  <2> QED BY <1>2, <2>1
<1>4. CASE ~(Side(t) = "timer" \/ Flag(t) \in r.locked) /\ Side(t) = "send" /\ ~r.socket
  <2>1. Flag(t) = "out" /\ t \notin kernel.data
    BY <1>4 DEF Flag, FlagsOwned, FlagFits
  <2>2. CASE \E d \in Later : x = <<EpollConnectStart([r EXCEPT !.deadline = d], FALSE), kernel>>
    <3>1. PICK y \in TaskType : /\ x = <<EpollConnectStart(y, FALSE), kernel>>
                                /\ FlagsOwned(t, y, kernel)
      BY <1>2, <2>2
    <3>2. PICK s : s = [y EXCEPT !.socket = TRUE, !.locked = y.locked \cup {"out"}]
      OBVIOUS
    <3>3. x[1] = s /\ x[2] = kernel
      BY <3>1, <3>2 DEF EpollConnectStart
    <3>4. /\ s.status = y.status /\ (s.guard <=> y.guard) /\ (s.sub <=> y.sub)
          /\ (s.inQueues <=> y.inQueues) /\ (s.isClosed <=> y.isClosed)
          /\ s.socket /\ s.toSubmit = y.toSubmit /\ s.operations = y.operations
          /\ s.pending = y.pending /\ s.ready = y.ready /\ s.locked = y.locked \cup {"out"}
      BY <3>2 DEF TaskType
    <3> QED BY <2>1, <3>1, <3>3, <3>4 DEF FlagsOwned, Served, FlagFits
  <2>3. CASE x = <<EpollConnectStart([r EXCEPT !.deadline = 0], TRUE),
                   EpollRegister(kernel, t, TRUE)>>
    <3>1. PICK y \in TaskType : /\ x = <<EpollConnectStart(y, TRUE),
                                         EpollRegister(kernel, t, TRUE)>>
                                /\ FlagsOwned(t, y, kernel)
      BY <1>2, <2>3
    <3>2. PICK s : s = [y EXCEPT !.socket = TRUE, !.locked = y.locked]
      OBVIOUS
    <3>3. x[1] = s /\ x[2] = [kernel EXCEPT !.data = kernel.data \cup {t},
                                            !.reported[t] = {Flag(t)}]
      BY <1>1, <3>1, <3>2 DEF EpollConnectStart, EpollRegister
    <3>4. /\ s.status = y.status /\ (s.guard <=> y.guard) /\ (s.sub <=> y.sub)
          /\ (s.inQueues <=> y.inQueues) /\ (s.isClosed <=> y.isClosed)
          /\ s.socket /\ s.toSubmit = y.toSubmit /\ s.operations = y.operations
          /\ s.pending = y.pending /\ s.ready = y.ready /\ s.locked = y.locked
      BY <3>2 DEF TaskType
    <3>5. PICK k : k = x[2]
      OBVIOUS
    <3>6. /\ k.data = kernel.data \cup {t} /\ k.reported[t] = {Flag(t)}
          /\ \A u \in Tasks : u # t => k.reported[u] = kernel.reported[u]
          /\ k.inside = kernel.inside /\ k.done = kernel.done
          /\ k.cancelled = kernel.cancelled /\ k.toSubmit = kernel.toSubmit
      BY <1>1, <3>3, <3>5 DEF KernelType
    <3>7. FlagsOwned(t, s, k)
      BY <3>1, <3>4, <3>6 DEF FlagsOwned, Served, FlagFits
    <3> QED BY <3>3, <3>5, <3>7
  <2> QED BY <1>4, <2>2, <2>3 DEF EpollOwner
<1>5. CASE /\ ~(Side(t) = "timer" \/ Flag(t) \in r.locked)
           /\ ~(Side(t) = "send" /\ ~r.socket)
  <2>1. CASE t \in kernel.data
    <3>1. PICK y \in TaskType, k \in {kernel, [kernel EXCEPT !.data = @ \ {t}]} :
             /\ x = <<EpollTransfer(t, y, TRUE), k>>
             /\ FlagsOwned(t, y, kernel) /\ y.locked = r.locked
      BY <1>2, <1>5, <2>1 DEF EpollOwner
    <3> QED BY <1>1, <1>5, <2>1, <3>1, TransferFits
  <2>2. CASE t \notin kernel.data
    <3>1. PICK y \in TaskType : /\ x = <<EpollTransfer(t, y, FALSE), kernel>>
                                /\ FlagsOwned(t, y, kernel) /\ y.locked = r.locked
      BY <1>2, <1>5, <2>2 DEF EpollOwner
    <3> QED BY <1>1, <1>5, <2>2, <3>1, TransferFits
  <2> QED BY <2>1, <2>2
<1> QED BY <1>3, <1>4, <1>5

\* What was waited for and reported is unlocked before the callback.
LEMMA CallbackOwns ==
    ASSUME TInv, TInv', OwnInv, Flagged, NEW w \in Workers, At(w, "execute"),
           EpollCallback(w) \/ KqueueCallback(w)
    PROVE  OwnInv'
<1>1. PICK t \in Tasks : t = Of(w)
  BY HandIsFull
<1>2. PICK a : a = Started(t)
  OBVIOUS
<1>3. PICK r : r \in {EpollProcessArgs(a), KqueueProcessArgs(a)} /\ CallbackWith(w, r)
  BY <1>1, <1>2 DEF EpollCallback, KqueueCallback
<1>4. ~task[t].isClosed
  BY <1>1, <1>3 DEF CallbackWith, Execute
<1>5. /\ a \in TaskType /\ task[t] \in TaskType /\ Served(a) /\ SameEvents(task[t], a)
      /\ (a.socket <=> task[t].socket) /\ TaskFits(t) /\ FlagsFit(t)
      /\ a.status = "PENDING" => task[t].status = "READY"
  BY <1>1, <1>2, <1>4, StartedIsServed DEF EventsFit
<1>6. task[t].toSubmit = <<>> /\ backend # "iouring" /\ "cancel" \notin task[t].locked
  BY <1>5 DEF TaskFits, Fits, Flagged
<1>7. FlagFits(a, Flag(t), t \in kernel.data, kernel.reported[t], Harvested(t))
  BY <1>5 DEF FlagsFit, FlagFits, SameEvents, Served
<1>8. ASSUME NEW s, NEW k, Execute(w, s, k), FlagsOwned(t, s, k)
      PROVE  OwnInv'
  <2>1. kernel' = k /\ round' = round /\ scenario' = scenario /\ task' = [task EXCEPT ![t] = s]
    BY <1>1, <1>8 DEF Execute
  <2>2. task'[t] = s
    BY <2>1 DEF TInv, TypeOK
  <2>3. KernelFits' /\ Flagged'
    BY <1>8, <2>1, NoOperations DEF FlagsOwned
  <2>4. FlagsFit(t)'
    <3>1. Flag(t)' = Flag(t) /\ Harvested(t)' = Harvested(t)
      BY <2>1 DEF Flag, Side, Harvested
    <3> QED BY <1>8, <2>1, <2>2, <3>1 DEF FlagsOwned, FlagsFit
  <2>5. "cancel" \notin s.locked
    <3>1. s.locked \subseteq {Flag(t)}
      BY <1>8 DEF FlagsOwned, FlagFits
    <3> QED BY <3>1, FlagType
  <2>6. backend \notin {"iouring", "iocp"}
    BY DEF Flagged
  <2> QED BY <1>1, <1>8, <2>3, <2>4, <2>5, <2>6, ExecuteOwns DEF FlagsOwned, EventsFit
<1>9. CASE "err" \in task[t].ready
  <2>1. Execute(w, Closing(a), kernel)
    BY <1>1, <1>2, <1>3, <1>9 DEF CallbackWith
  <2>2. PICK s : s = Closing(a)
    OBVIOUS
  <2>3. Served(s) /\ SameEvents(a, s) /\ s.status = "CLOSING" /\ (s.socket <=> a.socket)
    BY <1>5, <2>2, ClosingIsServed
  <2>4. FlagsOwned(t, s, kernel)
    BY <1>5, <1>6, <1>7, <2>3 DEF FlagsOwned, FlagFits, SameEvents, Served
  <2> QED BY <1>8, <2>1, <2>2, <2>4
<1>10. CASE "err" \notin task[t].ready
  <2>1. PICK l : r = [a EXCEPT !.locked = l, !.ready = {}] /\ l = a.locked \ a.ready
    <3>1. a.locked \ {side \in {"in", "out"} : side \in a.ready} = a.locked \ a.ready
      <4>1. a.locked \subseteq {"in", "out"}
        BY <1>5, FlagFields
      <4> QED BY <4>1
    <3> QED BY <1>3, <3>1 DEF EpollProcessArgs, KqueueProcessArgs
  <2>2. r \in TaskType
    BY <1>3, <1>5, FlagArgs
  <2>3. /\ r.status = a.status /\ (r.guard <=> a.guard) /\ (r.sub <=> a.sub)
        /\ (r.inQueues <=> a.inQueues) /\ (r.isClosed <=> a.isClosed)
        /\ (r.socket <=> a.socket) /\ r.toSubmit = a.toSubmit
        /\ r.operations = a.operations /\ r.pending = a.pending /\ r.ready = {}
        /\ r.locked = a.locked \ a.ready
    BY <1>5, <2>1 DEF TaskType
  <2>4. FlagFits(r, Flag(t), t \in kernel.data, kernel.reported[t], Harvested(t))
    BY <1>7, <2>3 DEF FlagFits
  <2>5. FlagsOwned(t, r, kernel)
    BY <1>5, <1>6, <2>3, <2>4 DEF FlagsOwned, SameEvents, Served
  <2>6. PICK x \in EpollOwner(t, r) : Execute(w, x[1], x[2])
    BY <1>1, <1>3, <1>10 DEF CallbackWith
  <2>7. FlagsOwned(t, x[1], x[2])
    BY <2>2, <2>5, <2>6, EpollOwnerFits DEF TInv
  <2> QED BY <1>8, <2>6, <2>7
<1> QED BY <1>9, <1>10

\* The last execution of a task that was closed forgets its flags.
LEMMA FlagLastOwns ==
    ASSUME TInv, TInv', OwnInv, Flagged, NEW w \in Workers,
           LastExecute(w, EpollCloseEnd(task[Of(w)]))
    PROVE  OwnInv'
<1>1. PICK t \in Tasks : t = Of(w) /\ task[t] \in TaskType /\ EventsFit(t)
  BY WorkerHolds DEF LastExecute, At, HandPCs
<1>2. PICK r : r = EpollCloseEnd(task[t])
  OBVIOUS
<1>3. r \in TaskType /\ r = [task[t] EXCEPT !.ready = {}, !.locked = {}]
  BY <1>1, <1>2, FlagArgs DEF EpollCloseEnd
<1>4. /\ r.status = task[t].status /\ (r.guard <=> task[t].guard)
      /\ (r.isClosed <=> task[t].isClosed) /\ (r.socket <=> task[t].socket)
      /\ r.pending = task[t].pending /\ r.ready = {} /\ r.locked = {}
      /\ r.operations = task[t].operations /\ r.toSubmit = task[t].toSubmit
  BY <1>1, <1>3 DEF TaskType
<1>5. r.operations = 0
  BY <1>1, <1>4 DEF EventsFit, FlagsFit, FlagFits
<1> QED BY <1>1, <1>2, <1>3, <1>4, <1>5, LastOwns

-----------------------------------------------------------------------------
(* The backends with operations: io_uring and the completion ports.         *)

\* The list of what is to submit grows at its end, ...
LEMMA OnceAppend ==
    ASSUME NEW S, NEW s \in Seq(S), NEW x \in S, Once(s), x \notin In(s)
    PROVE  Once(Append(s, x)) /\ In(Append(s, x)) = In(s) \cup {x}
<1>1. PICK n \in Nat : n = Len(s)
  BY LenProperties
<1>2. PICK a : a = Append(s, x)
  OBVIOUS
<1>3. DOMAIN s = 1..n /\ DOMAIN a = 1..(n + 1) /\ (\A i \in 1..n : a[i] = s[i]) /\ a[n + 1] = x
  BY <1>1, <1>2, AppendProperties, LenProperties
<1>4. \A i \in 1..n : a[i] # x
  BY <1>3 DEF In
<1>5. ASSUME NEW i \in 1..(n + 1), NEW j \in 1..(n + 1), a[i] = a[j], a[i][1] \in Tasks
      PROVE  i = j
  <2>1. CASE i \in 1..n /\ j \in 1..n
    BY <1>3, <1>5, <2>1 DEF Once
  <2>2. CASE i = n + 1 \/ j = n + 1
    BY <1>3, <1>4, <1>5, <2>2
  <2> QED BY <2>1, <2>2
<1> QED BY <1>2, <1>3, <1>5, InAppend DEF Once

\* ... or at its head, with what is no task's, ...
LEMMA OnceBefore ==
    ASSUME NEW S, NEW s \in Seq(S), NEW x \in S, Once(s), x[1] \notin Tasks
    PROVE  Once(<<x>> \o s) /\ In(<<x>> \o s) = In(s) \cup {x}
<1>1. PICK n \in Nat : n = Len(s)
  BY LenProperties
<1>2. <<x>> \in Seq(S) /\ Len(<<x>>) = 1 /\ <<x>>[1] = x
  OBVIOUS
<1>3. PICK a : a = <<x>> \o s
  OBVIOUS
<1>4. DOMAIN s = 1..n /\ DOMAIN a = 1..(n + 1) /\ a[1] = x
      /\ \A i \in 2..(n + 1) : a[i] = s[i - 1]
  <2>1. a \in Seq(S) /\ Len(a) = n + 1
        /\ \A i \in 1..(n + 1) : a[i] = IF i <= 1 THEN <<x>>[i] ELSE s[i - 1]
    BY <1>1, <1>2, <1>3, ConcatProperties
  <2>2. DOMAIN s = 1..n /\ DOMAIN a = 1..(n + 1)
    BY <1>1, <2>1, LenProperties
  <2> QED BY <1>2, <2>1, <2>2
<1>5. ASSUME NEW i \in 1..(n + 1), NEW j \in 1..(n + 1), a[i] = a[j], a[i][1] \in Tasks
      PROVE  i = j
  <2>1. i # 1 /\ j # 1
    BY <1>4, <1>5
  <2>2. i - 1 \in 1..n /\ j - 1 \in 1..n /\ i \in 2..(n + 1) /\ j \in 2..(n + 1)
    BY <2>1
  <2>3. s[i - 1] = s[j - 1] /\ s[i - 1][1] \in Tasks
    BY <1>4, <1>5, <2>2
  <2>4. i - 1 = j - 1
    BY <1>4, <2>2, <2>3 DEF Once
  <2> QED BY <2>4
<1>6. In(a) = In(s) \cup {x}
  <2>1. In(<<x>>) = {x}
    <3>1. DOMAIN <<x>> = 1..1
      BY <1>2, LenProperties
    <3>2. DOMAIN <<x>> = {1}
      BY <3>1
    <3> QED BY <1>2, <3>2 DEF In
  <2>2. PICK h \in Seq(S) : h = <<x>>
    BY <1>2
  <2>3. In(h \o s) = In(h) \cup In(s)
    BY InConcat
  <2>4. In(h) = {x} /\ h \o s = a
    BY <1>3, <2>1, <2>2
  <2> QED BY <2>3, <2>4
<1> QED BY <1>3, <1>4, <1>5, <1>6 DEF Once

\* ... and loses its first entries.
FirstOf(s, n) == {s[i] : i \in 1..n}

\* The kernel takes the first entries of the submission queue.
LEMMA OnceSplit ==
    ASSUME NEW S, NEW s \in Seq(S), Once(s), NEW n \in 0..Len(s)
    PROVE  /\ Once(SubSeq(s, n + 1, Len(s)))
           /\ In(s) = FirstOf(s, n) \cup In(SubSeq(s, n + 1, Len(s)))
           /\ \A x \in FirstOf(s, n) : x[1] \in Tasks => x \notin In(SubSeq(s, n + 1, Len(s)))
<1>0. PICK rest : rest = SubSeq(s, n + 1, Len(s))
  OBVIOUS
<1>9. PICK first : first = FirstOf(s, n)
  OBVIOUS
<1>1. PICK l \in Nat : l = Len(s)
  BY LenProperties
<1>2. n \in Nat /\ n <= l /\ DOMAIN s = 1..l
  BY <1>1, LenProperties
<1>3. DOMAIN rest = 1..(l - n) /\ \A i \in 1..(l - n) : rest[i] = s[n + i]
  <2>1. \A i \in (n + 1)..l : s[i] \in S
    <3>1. \A i \in (n + 1)..l : i \in 1..l
      BY <1>2
    <3> QED BY <1>1, <3>1, ElementOfSeq
  <2>2. rest \in Seq(S) /\ Len(rest) = (IF n + 1 <= l THEN l - (n + 1) + 1 ELSE 0)
        /\ \A i \in 1..(l - (n + 1) + 1) : rest[i] = s[(n + 1) + i - 1]
    BY <1>0, <1>1, <1>2, <2>1, SubSeqProperties
  <2>3. Len(rest) = l - n
    BY <1>2, <2>2
  <2>4. DOMAIN rest = 1..(l - n)
    BY <2>2, <2>3, LenProperties
  <2>5. ASSUME NEW i \in 1..(l - n) PROVE rest[i] = s[n + i]
    <3>1. i \in 1..(l - (n + 1) + 1) /\ (n + 1) + i - 1 = n + i
      BY <1>2
    <3> QED BY <2>2, <3>1
  <2> QED BY <2>4, <2>5
<1>4. \A i \in 1..(l - n) : n + i \in 1..l /\ n + i \notin 1..n
  BY <1>2
<1>5. \A i \in 1..n : i \in 1..l
  BY <1>2
<1>6. Once(rest)
  <2>1. ASSUME NEW i \in 1..(l - n), NEW j \in 1..(l - n), rest[i] = rest[j],
               rest[i][1] \in Tasks
        PROVE  i = j
    <3>1. n + i = n + j
      BY <1>2, <1>3, <1>4, <2>1 DEF Once
    <3> QED BY <1>2, <3>1
  <2> QED BY <1>3, <2>1 DEF Once
<1>7. In(s) = first \cup In(rest)
  <2>1. ASSUME NEW i \in 1..l PROVE s[i] \in first \cup In(rest)
    <3>1. CASE i \in 1..n
      BY <1>9, <3>1 DEF FirstOf
    <3>2. CASE i \notin 1..n
      <4>1. i - n \in 1..(l - n) /\ n + (i - n) = i
        BY <1>2, <3>2
      <4>2. rest[i - n] = s[i]
        BY <1>3, <4>1
      <4> QED BY <1>3, <4>1, <4>2 DEF In
    <3> QED BY <3>1, <3>2
  <2>2. first \subseteq In(s)
    BY <1>2, <1>5, <1>9 DEF In, FirstOf
  <2>3. In(rest) \subseteq In(s)
    BY <1>2, <1>3, <1>4 DEF In
  <2> QED BY <1>2, <2>1, <2>2, <2>3 DEF In
<1>8. ASSUME NEW x \in first, x[1] \in Tasks, x \in In(rest) PROVE FALSE
  <2>1. PICK i \in 1..n : x = s[i]
    BY <1>9 DEF FirstOf
  <2>2. PICK j \in 1..(l - n) : x = rest[j]
    BY <1>3, <1>8 DEF In
  <2>3. s[i] = s[n + j] /\ s[i][1] \in Tasks
    BY <1>3, <1>8, <2>1, <2>2
  <2>4. i = n + j
    BY <1>2, <1>4, <1>5, <2>3 DEF Once
  <2> QED BY <1>4, <2>4
<1> QED BY <1>0, <1>6, <1>7, <1>8, <1>9


\* Nothing of a task is in the kernel twice.
LEMMA AwayTypes == \A t, k : Away(t, k) \in Nat /\ AwayIo(t) \in Nat
  BY DEF Away, AwayIo, N

\* The same after a step.
LEMMA AwayTypesNext == \A t, k : Away(t, k)' \in Nat /\ AwayIo(t)' \in Nat
  BY DEF Away, AwayIo, N

\* The number of completions of a kind that a task has is a natural number.
LEMMA BackTypes == \A r, k : Back(r, k) \in Nat
  BY DEF Back, N

\* At most one transfer and one cancellation of a task are away.
LEMMA AwayBound ==
    ASSUME TInv, OwnInv, ~Flagged, NEW t \in Tasks
    PROVE  /\ OperationsFit(t) /\ TaskFits(t) /\ task[t] \in TaskType
           /\ AwayIo(t) <= 1 /\ Away(t, "cancel") <= 1
           /\ AwayIo(t) >= 1 => "io" \in task[t].locked
           /\ Away(t, "cancel") >= 1 => "cancel" \in task[t].locked
<1>1. OperationsFit(t) /\ TaskFits(t) /\ task[t] \in TaskType
  BY FitsParts DEF EventsFit, TInv, TypeOK
<1>2. Len(task[t].toSubmit) \in Nat
  BY <1>1, OperationFields, LenProperties
<1>3. AwayIo(t) \in Nat /\ Away(t, "cancel") \in Nat
      /\ \A k : Back(task[t], k) \in Nat
  BY AwayTypes, BackTypes
<1>4. AwayIo(t) <= N("io" \in task[t].locked) /\ Away(t, "cancel") <= N("cancel" \in task[t].locked)
  BY <1>1, <1>2, <1>3, SMTT(30) DEF OperationsFit, OperationFits, N
<1> QED BY <1>1, <1>3, <1>4 DEF N

\* No step but a completion lets an operation fail.
LEMMA OpsKernel ==
    ASSUME OwnInv, ~Flagged, scenario' = scenario, kernel'.data = kernel.data,
           kernel'.reported = kernel.reported, kernel'.cancelled \subseteq kernel'.inside,
           \A t \in Tasks : <<t, "fail">> \in In(kernel'.toSubmit) \cup kernel'.inside =>
                            <<t, "fail">> \in In(kernel.toSubmit) \cup kernel.inside,
           Once(kernel'.toSubmit)
    PROVE  KernelFits' /\ ~Flagged'
<1>1. ~Flagged'
  BY DEF Flagged, backend
<1> QED BY <1>1 DEF OwnInv, KernelFits

\* A step that changes one task and its operations.
LEMMA OpsChange ==
    ASSUME OwnInv, ~Flagged, scenario' = scenario, KernelFits', NEW t \in Tasks,
           \A u \in Tasks : u # t => task'[u] = task[u],
           \A u \in Tasks : u # t => (u \in queue'.waiting <=> u \in queue.waiting),
           \A u \in Tasks : u # t => Place(u)' = Place(u),
           \A u \in Tasks : u # t => \A k \in Kinds : Away(u, k)' = Away(u, k),
           QueuesApart', SeatsApart', TaskFits(t)', OperationsFit(t)'
    PROVE  OwnInv'
<1>1. \A u \in Tasks : u # t => AwayIo(u)' = AwayIo(u) /\ Away(u, "cancel")' = Away(u, "cancel")
  BY DEF AwayIo, Kinds
<1>2. ~Flagged'
  BY DEF Flagged, backend
<1>3. EventsFit(t)'
  BY <1>2 DEF EventsFit
<1> QED BY <1>1, <1>3, OneOfAll

\* A step that moves operations, but none from a task or to one.
LEMMA OpsMove ==
    ASSUME OwnInv, ~Flagged, scenario' = scenario, KernelFits', task' = task,
           queue'.waiting = queue.waiting, QueuesApart', SeatsApart',
           \A u \in Tasks : Place(u)' = Place(u),
           \A u \in Tasks : AwayIo(u)' = AwayIo(u) /\ Away(u, "cancel")' = Away(u, "cancel")
    PROVE  OwnInv'
<1>1. \A u \in Tasks : TaskFits(u)'
  BY OthersFit
<1>2. ~Flagged'
  BY DEF Flagged, backend
<1>3. ASSUME NEW u \in Tasks PROVE EventsFit(u)'
  <2>1. OperationsFit(u)
    BY DEF OwnInv, EventsFit
  <2>2. OperationsFit(u)'
    BY <2>1 DEF OperationsFit
  <2> QED BY <1>2, <2>2 DEF EventsFit
<1> QED BY <1>1, <1>3 DEF OwnInv

\* The completions come to the sched-thread.
LEMMA OpsHarvestOwns ==
    ASSUME TInv, TInv', OwnInv, SchedInv, ~Flagged, NEW w \in Workers,
           UringHarvest(w) \/ IocpHarvest(w)
    PROVE  OwnInv'
<1>1. thread[w].pc \in {"harvest", "poll"} /\ thread' = Goto(w, "collect")
      /\ task' = task /\ queue' = queue /\ scenario' = scenario
  BY DEF UringHarvest, IocpHarvest, At
<1>2. round.harvest = {}
  BY <1>1, NothingLeft DEF SchedPCs
<1>3. Schedules(w)
  BY <1>1, GoesSchedules DEF SchedPCs
<1>4. PICK s \in Entries : round'.harvest = s /\ kernel' = [kernel EXCEPT !.done = kernel.done \ s]
  BY DEF UringHarvest, IocpHarvest, NewRound
<1>5. s \subseteq kernel.done
  BY DEF Entries
<1>6. /\ kernel'.data = kernel.data /\ kernel'.reported = kernel.reported
      /\ kernel'.inside = kernel.inside /\ kernel'.cancelled = kernel.cancelled
      /\ kernel'.toSubmit = kernel.toSubmit /\ kernel'.done = kernel.done \ s
  BY <1>4 DEF TInv, TypeOK, KernelType
<1>7. KernelFits'
  BY <1>1, <1>6, OpsKernel DEF OwnInv, KernelFits
<1>8. \A u \in Tasks : \A k : Away(u, k)' = Away(u, k)
  BY <1>2, <1>4, <1>5, <1>6 DEF Away, N
<1>9. QueuesApart' /\ SeatsApart' /\ \A u \in Tasks : Place(u)' = Place(u)
  BY <1>1, <1>3, QueuesStay
<1>10. \A u \in Tasks : AwayIo(u)' = AwayIo(u) /\ Away(u, "cancel")' = Away(u, "cancel")
  BY <1>8 DEF AwayIo
<1> QED BY <1>1, <1>7, <1>9, <1>10, OpsMove

\* The kernel finishes an operation.
LEMMA CompleteOwns ==
    ASSUME TInv, TInv', OwnInv, ~Flagged, NEW op \in kernel.inside,
           Complete(op) \/ CompleteInternal(op)
    PROVE  OwnInv'
<1>1. task' = task /\ queue' = queue /\ scenario' = scenario /\ thread' = thread
      /\ round' = round
  BY DEF Complete, CompleteInternal
<1>2. op \in Operations /\ kernel \in KernelType
  BY QueueKernelFields DEF TInv, TypeOK
<1>3. PICK as : /\ kernel' = Completed(op, as)
                /\ \/ op[2] = "io" /\ as \in {op, <<op[1], "fail">>}
                   \/ op[2] = "cancel" /\ as = op
                   \/ op = SignalRead /\ as = op
  BY DEF Complete, CompleteInternal
<1>4. /\ kernel'.data = kernel.data /\ kernel'.reported = kernel.reported
      /\ kernel'.inside = kernel.inside \ {op} /\ kernel'.cancelled = kernel.cancelled \ {op}
      /\ kernel'.toSubmit = kernel.toSubmit /\ kernel'.done = kernel.done \cup {as}
  BY <1>2, <1>3 DEF Completed, KernelType
<1>5. KernelFits'
  BY <1>1, <1>4, OpsKernel DEF OwnInv, KernelFits
<1>6. QueuesApart' /\ SeatsApart' /\ \A u \in Tasks : Place(u)' = Place(u)
  BY <1>1, SameSeatsAll
<1>7. \/ op = SignalRead /\ as = op
      \/ \E t \in Tasks : \/ \E k \in {"io", "fail"} : op = <<t, "io">> /\ as = <<t, k>>
                          \/ op = <<t, "cancel">> /\ as = op
  <2>1. CASE op = SignalRead
    BY <1>3, <2>1 DEF SignalRead
  <2>2. CASE op \in Tasks \X Kinds
    <3>1. PICK t \in Tasks, k \in Kinds : op = <<t, k>>
      BY <2>2
    <3>2. k \in {"io", "cancel"}
      BY <1>3, <3>1, NoTaskAssumption DEF SignalRead
    <3>3. k = "io" => as \in {op, <<t, "fail">>}
      BY <1>3, <3>1, NoTaskAssumption DEF SignalRead
    <3>4. k = "cancel" => as = op
      BY <1>3, <3>1, NoTaskAssumption DEF SignalRead
    <3> QED BY <3>1, <3>2, <3>3, <3>4
  <2> QED BY <1>2, <2>1, <2>2 DEF Operations
<1>8. ASSUME NEW u \in Tasks
      PROVE  AwayIo(u)' = AwayIo(u) /\ Away(u, "cancel")' = Away(u, "cancel")
  <2>1. AwayIo(u) <= 1 /\ Away(u, "cancel") <= 1
    BY AwayBound
  <2>2. CASE op = SignalRead /\ as = op
    BY <1>1, <1>4, <2>2, NoTaskAssumption DEF AwayIo, Away, SignalRead
  <2>3. ASSUME NEW t \in Tasks, NEW k \in {"io", "fail"}, op = <<t, "io">>, as = <<t, k>>
        PROVE  AwayIo(u)' = AwayIo(u) /\ Away(u, "cancel")' = Away(u, "cancel")
    <3>1. /\ kernel'.inside = kernel.inside \ {<<t, "io">>}
          /\ kernel'.done = kernel.done \cup {<<t, k>>}
          /\ <<t, "io">> \in kernel.inside
      BY <1>4, <2>3
    <3>2. Away(u, "cancel")' = Away(u, "cancel")
      <4>1. <<u, "cancel">> # <<t, "io">> /\ <<u, "cancel">> # <<t, k>>
        OBVIOUS
      <4>2. /\ <<u, "cancel">> \in kernel'.inside <=> <<u, "cancel">> \in kernel.inside
            /\ <<u, "cancel">> \in kernel'.done <=> <<u, "cancel">> \in kernel.done
        BY <3>1, <4>1
      <4> QED BY <1>1, <1>4, <4>2 DEF Away, N
    <3>3. CASE u = t
      <4>1. /\ <<u, "io">> \notin In(kernel.toSubmit) /\ <<u, "io">> \notin kernel.done
            /\ <<u, "io">> \notin round.harvest
            /\ <<u, "fail">> \notin In(kernel.toSubmit) /\ <<u, "fail">> \notin kernel.done
            /\ <<u, "fail">> \notin round.harvest /\ <<u, "fail">> \notin kernel.inside
            /\ AwayIo(u) = 1
        BY <2>1, <3>1, <3>3 DEF AwayIo, Away, N
      <4>2. /\ <<u, "io">> \notin kernel'.inside /\ <<u, "fail">> \notin kernel'.inside
            /\ <<u, "io">> \in kernel'.done <=> k = "io"
            /\ <<u, "fail">> \in kernel'.done <=> k = "fail"
        BY <3>1, <3>3, <4>1
      <4>3. /\ In(kernel'.toSubmit) = In(kernel.toSubmit) /\ round'.harvest = round.harvest
        BY <1>1, <1>4
      <4>4. AwayIo(u)' = 1
        BY <4>1, <4>2, <4>3 DEF AwayIo, Away, N
      <4> QED BY <3>2, <4>1, <4>4
    <3>4. CASE u # t
      <4>1. \A j : <<u, j>> # <<t, "io">> /\ <<u, j>> # <<t, k>>
        BY <3>4
      <4>2. \A j : /\ <<u, j>> \in kernel'.inside <=> <<u, j>> \in kernel.inside
                   /\ <<u, j>> \in kernel'.done <=> <<u, j>> \in kernel.done
        BY <3>1, <4>1
      <4>3. \A j : Away(u, j)' = Away(u, j)
        BY <1>1, <1>4, <4>2 DEF Away, N
      <4> QED BY <4>3 DEF AwayIo
    <3> QED BY <3>2, <3>3, <3>4
  <2>4. ASSUME NEW t \in Tasks, op = <<t, "cancel">>, as = op
        PROVE  AwayIo(u)' = AwayIo(u) /\ Away(u, "cancel")' = Away(u, "cancel")
    BY <1>1, <1>4, <2>1, <2>4 DEF AwayIo, Away, N
  <2> QED BY <1>7, <2>2, <2>3, <2>4
<1> QED BY <1>1, <1>5, <1>6, <1>8, OpsMove


\* The operations go into the ring.
LEMMA SubmitOwns ==
    ASSUME TInv, TInv', OwnInv, ~Flagged, NEW w \in Workers, UringSubmit(w)
    PROVE  OwnInv'
<1> DEFINE n == IF Len(kernel.toSubmit) < RingSize THEN Len(kernel.toSubmit) ELSE RingSize
           now == {kernel.toSubmit[i] : i \in 1..n}
           seen(i) == kernel.inside \cup {kernel.toSubmit[j] : j \in 1..(i - 1)}
           hit == UNION {{op \in seen(i) : op = <<kernel.toSubmit[i][1], "io">>} :
                            i \in {j \in 1..n : kernel.toSubmit[j][2] = "cancel"}}
           rest == SubSeq(kernel.toSubmit, n + 1, Len(kernel.toSubmit))
<1>1. kernel \in KernelType /\ kernel.toSubmit \in Seq(Operations) /\ Once(kernel.toSubmit)
  BY QueueKernelFields DEF TInv, TypeOK, OwnInv, KernelFits
<1>2. n \in 0..Len(kernel.toSubmit)
  BY <1>1, LenProperties, BoundsAssumption
<1>3. kernel' = [kernel EXCEPT !.toSubmit = rest, !.inside = kernel.inside \cup now,
                               !.cancelled = kernel.cancelled \cup hit]
  BY DEF UringSubmit
<1>4. hit \subseteq kernel.inside \cup now
  <2>1. ASSUME NEW i \in 1..n PROVE seen(i) \subseteq kernel.inside \cup now
    <3>1. 1..(i - 1) \subseteq 1..n
      BY <1>2
    <3> QED BY <3>1
  <2> HIDE DEF seen
  <2> QED BY <2>1
<1> HIDE DEF n
<1>5. /\ Once(rest) /\ In(kernel.toSubmit) = now \cup In(rest)
      /\ \A x \in now : x[1] \in Tasks => x \notin In(rest)
  <2>1. PICK s \in Seq(Operations) : s = kernel.toSubmit
    BY <1>1
  <2>2. PICK m \in 0..Len(s) : m = n
    BY <1>2, <2>1
  <2>3. now = FirstOf(s, m) /\ rest = SubSeq(s, m + 1, Len(s)) /\ Once(s)
    BY <1>1, <2>1, <2>2 DEF FirstOf
  <2> HIDE DEF now, rest
  <2>4. /\ Once(rest) /\ In(s) = now \cup In(rest)
        /\ \A x \in now : x[1] \in Tasks => x \notin In(rest)
    BY <2>3, OnceSplit
  <2> QED BY <2>1, <2>4
<1> HIDE DEF now, hit, rest
<1>6. /\ kernel'.data = kernel.data /\ kernel'.reported = kernel.reported
      /\ kernel'.inside = kernel.inside \cup now /\ kernel'.cancelled = kernel.cancelled \cup hit
      /\ kernel'.toSubmit = rest /\ kernel'.done = kernel.done
  BY <1>1, <1>3 DEF KernelType
<1>7. /\ task' = task /\ queue' = queue /\ scenario' = scenario /\ round' = round
      /\ thread' = Goto(w, "decide") /\ thread[w].pc = "submit"
  BY DEF UringSubmit, At
<1>8. KernelFits'
  <2>1. kernel.cancelled \subseteq kernel.inside
    BY DEF OwnInv, KernelFits
  <2>2. kernel'.cancelled \subseteq kernel'.inside
    BY <1>4, <1>6, <2>1
  <2>3. In(kernel'.toSubmit) \cup kernel'.inside
           \subseteq In(kernel.toSubmit) \cup kernel.inside
    BY <1>5, <1>6
  <2>4. Once(kernel'.toSubmit)
    BY <1>5, <1>6
  <2> QED BY <1>6, <1>7, <2>2, <2>3, <2>4, OpsKernel
<1>9. QueuesApart' /\ SeatsApart' /\ \A u \in Tasks : Place(u)' = Place(u)
  <2>1. Schedules(w)
    BY <1>7, GoesSchedules DEF SchedPCs
  <2> QED BY <1>7, <2>1, QueuesStay
<1>10. ASSUME NEW u \in Tasks, NEW k \in {"io", "fail", "cancel"}
       PROVE  Away(u, k)' = Away(u, k)
  <2>1. Away(u, k) <= 1
    <3>1. \A j : Away(u, j) \in Nat
      BY AwayTypes
    <3>2. AwayIo(u) <= 1 /\ Away(u, "cancel") <= 1
      BY AwayBound
    <3> QED BY <3>1, <3>2 DEF AwayIo
  <2>2. PICK x : x = <<u, k>> /\ x[1] \in Tasks
    <3>1. <<u, k>>[1] \in Tasks
      OBVIOUS
    <3> QED BY <3>1
  <2>3. x \in In(kernel.toSubmit) <=> x \in now \/ x \in In(rest)
    BY <1>5
  <2>4. x \in now => x \notin In(rest)
    BY <1>5, <2>2
  <2>5. x \in kernel'.inside <=> x \in kernel.inside \/ x \in now
    BY <1>6
  <2>6. ~(x \in In(kernel.toSubmit) /\ x \in kernel.inside)
    BY <2>1, <2>2 DEF Away, N
  <2>7. N(x \in In(rest)) + N(x \in kernel'.inside)
           = N(x \in In(kernel.toSubmit)) + N(x \in kernel.inside)
    BY <2>3, <2>4, <2>5, <2>6 DEF N
  <2>8. Away(u, k) = (N(x \in In(kernel.toSubmit)) + N(x \in kernel.inside))
                     + N(x \in kernel.done) + N(x \in round.harvest)
    BY <2>2 DEF Away
  <2>9. Away(u, k)' = (N(x \in In(rest)) + N(x \in kernel'.inside))
                      + N(x \in kernel.done) + N(x \in round.harvest)
    BY <1>6, <1>7, <2>2 DEF Away
  <2> QED BY <2>7, <2>8, <2>9
<1>11. \A u \in Tasks : AwayIo(u)' = AwayIo(u) /\ Away(u, "cancel")' = Away(u, "cancel")
  BY <1>10 DEF AwayIo
<1> QED BY <1>7, <1>8, <1>9, <1>11, OpsMove

\* A sleep of the sched-thread is nothing to the tasks.
LEMMA UringPollOwns ==
    ASSUME TInv, TInv', OwnInv, NEW w \in Workers, UringPoll(w)
    PROVE  OwnInv'
<1>1. /\ thread[w].pc \in SchedPCs /\ thread' = Goto(w, Again) /\ Again \in SchedPCs
      /\ task' = task /\ queue' = queue /\ scenario' = scenario /\ round' = round
  BY DEF UringPoll, At, SchedPCs, Again
<1>2. KernelView' = KernelView
  BY <1>1 DEF UringPoll, KernelView, TInv, TypeOK, KernelType
<1> QED BY <1>1, <1>2, GoesSchedules, SchedulesOwns

-----------------------------------------------------------------------------
(* A completion comes to its task.                                          *)

\* What comes was away, and comes among the events that are new, or among all
\* that the task is to be told.
LEMMA TokenFits ==
    ASSUME NEW r, NEW s, NEW t, NEW io \in Nat, NEW cancel \in Nat,
           NEW io2 \in Nat, NEW cancel2 \in Nat, NEW k \in Kinds,
           Len(r.toSubmit) \in Nat,
           OperationFits(r, t, io, cancel),
           k # "cancel" => io2 = io - 1 /\ cancel2 = cancel,
           k = "cancel" => io2 = io /\ cancel2 = cancel - 1,
           s.locked = r.locked, s.operations = r.operations, s.toSubmit = r.toSubmit,
           \/ s.ready = r.ready /\ s.pending = r.pending \cup {k}
           \/ r.ready = {} /\ s.pending = {} /\ s.ready = r.pending \cup {k}
    PROVE  OperationFits(s, t, io2, cancel2)
<1>1. /\ k # "cancel" => io >= 1
      /\ k = "cancel" => cancel >= 1
  OBVIOUS
<1>2. \A j : Back(r, j) \in Nat
  BY BackTypes
<1>3. k \notin r.pending /\ k \notin r.ready
  <2>1. CASE k = "cancel"
    <3>1. Back(r, "cancel") = 0
      BY <1>1, <1>2, <2>1 DEF OperationFits, N
    <3> QED BY <2>1, <3>1 DEF Back, N
  <2>2. CASE k # "cancel"
    <3>1. Back(r, "io") = 0 /\ Back(r, "fail") = 0
      BY <1>1, <1>2, <2>2 DEF OperationFits, N
    <3> QED BY <2>2, <3>1 DEF Back, N, Kinds
  <2> QED BY <2>1, <2>2
<1>4. Back(s, k) = 1 /\ Back(r, k) = 0
  BY <1>3 DEF Back, N
<1>5. \A j : j # k => Back(s, j) = Back(r, j)
  BY DEF Back, N
<1>6. CASE k = "cancel"
  <2>1. Back(s, "io") = Back(r, "io") /\ Back(s, "fail") = Back(r, "fail")
        /\ Back(s, "cancel") = 1 /\ Back(r, "cancel") = 0
    BY <1>4, <1>5, <1>6
  <2> QED BY <1>2, <1>6, <2>1 DEF OperationFits
<1>7. CASE k \in {"io", "fail"}
  <2>1. Back(s, "io") + Back(s, "fail") = Back(r, "io") + Back(r, "fail") + 1
        /\ Back(s, "cancel") = Back(r, "cancel")
    BY <1>2, <1>4, <1>5, <1>7
  <2>2. Back(s, "io") \in Nat /\ Back(s, "fail") \in Nat
    BY BackTypes
  <2>3. io2 = io - 1 /\ cancel2 = cancel
    BY <1>7 DEF Kinds
  <2>4. PICK l \in Nat : l = Len(r.toSubmit)
    OBVIOUS
  <2>5. PICK n : n = N("io" \in r.locked)
    OBVIOUS
  <2>6. io + l + Back(r, "io") + Back(r, "fail") = n
    BY <2>4, <2>5 DEF OperationFits
  <2>7. io2 + l + Back(s, "io") + Back(s, "fail") = n
    <3>1. PICK a \in Nat, b \in Nat : a = Back(r, "io") /\ b = Back(r, "fail")
      BY <1>2
    <3>2. PICK c \in Nat, d \in Nat : c = Back(s, "io") /\ d = Back(s, "fail")
      BY <2>2
    <3>3. c + d = a + b + 1 /\ io + l + a + b = n
      BY <2>1, <2>6, <3>1, <3>2
    <3>4. io2 + l + c + d = n
      BY <2>3, <2>4, <3>3
    <3> QED BY <3>2, <3>4
  <2>8. /\ s.toSubmit \in {<<>>, <<<<t, "io">>>>}
        /\ cancel2 + Back(s, "cancel") = N("cancel" \in s.locked)
        /\ s.operations = N("io" \in s.locked) + N("cancel" \in s.locked)
    BY <2>1, <2>3 DEF OperationFits
  <2> QED BY <2>4, <2>5, <2>7, <2>8 DEF OperationFits
<1> QED BY <1>6, <1>7 DEF Kinds


\* A completion leaves the harvest.
LEMMA TokenTaken ==
    ASSUME TInv, OwnInv, ~Flagged, NEW t \in Tasks, NEW k \in Kinds,
           <<t, k>> \in round.harvest, round'.harvest = round.harvest \ {<<t, k>>},
           kernel' = kernel
    PROVE  /\ \A u \in Tasks : u # t => \A j \in Kinds : Away(u, j)' = Away(u, j)
           /\ k # "cancel" => /\ AwayIo(t)' = AwayIo(t) - 1
                              /\ Away(t, "cancel")' = Away(t, "cancel")
           /\ k = "cancel" => /\ AwayIo(t)' = AwayIo(t)
                              /\ Away(t, "cancel")' = Away(t, "cancel") - 1
           /\ AwayIo(t) + Away(t, "cancel") >= 1
<1>1. ASSUME NEW u \in Tasks, NEW j \in Kinds, u # t \/ j # k
      PROVE  Away(u, j)' = Away(u, j)
  <2>1. <<u, j>> # <<t, k>>
    BY <1>1
  <2>2. <<u, j>> \in round'.harvest <=> <<u, j>> \in round.harvest
    BY <2>1
  <2> QED BY <2>2 DEF Away, N
<1>2. Away(t, k)' = Away(t, k) - 1
  <2>1. <<t, k>> \notin round'.harvest
    OBVIOUS
  <2> QED BY <2>1 DEF Away, N
<1>3. \A u, j : Away(u, j) \in Nat /\ Away(u, j)' \in Nat
  BY AwayTypes, AwayTypesNext
<1>4. "io" \in Kinds /\ "fail" \in Kinds /\ "cancel" \in Kinds
  BY DEF Kinds
<1>5. CASE k = "io"
  <2>1. Away(t, "fail")' = Away(t, "fail") /\ Away(t, "cancel")' = Away(t, "cancel")
        /\ Away(t, "io")' = Away(t, "io") - 1
    BY <1>1, <1>2, <1>4, <1>5
  <2> QED BY <1>1, <1>3, <1>5, <2>1 DEF AwayIo
<1>6. CASE k = "fail"
  <2>1. Away(t, "io")' = Away(t, "io") /\ Away(t, "cancel")' = Away(t, "cancel")
        /\ Away(t, "fail")' = Away(t, "fail") - 1
    BY <1>1, <1>2, <1>4, <1>6
  <2> QED BY <1>1, <1>3, <1>6, <2>1 DEF AwayIo
<1>7. CASE k = "cancel"
  <2>1. Away(t, "io")' = Away(t, "io") /\ Away(t, "fail")' = Away(t, "fail")
        /\ Away(t, "cancel")' = Away(t, "cancel") - 1
    BY <1>1, <1>2, <1>4, <1>7
  <2> QED BY <1>1, <1>3, <1>7, <2>1 DEF AwayIo
<1> QED BY <1>5, <1>6, <1>7 DEF Kinds

\* A task that has something away is not over.
LEMMA TokenIsLive ==
    ASSUME TInv, OwnInv, ~Flagged, NEW t \in Tasks, AwayIo(t) + Away(t, "cancel") >= 1
    PROVE  /\ task[t].sub
           /\ task[t].isClosed => Place(t) = "nowhere"
           /\ Place(t) \notin {"closed", "attach"}
<1>1. /\ OperationsFit(t) /\ TaskFits(t) /\ task[t] \in TaskType /\ Place(t) \in Places
      /\ AwayIo(t) \in Nat /\ Away(t, "cancel") \in Nat
      /\ AwayIo(t) >= 1 => "io" \in task[t].locked
      /\ Away(t, "cancel") >= 1 => "cancel" \in task[t].locked
  BY AwayBound, AwayTypes, FitsParts
<1>2. task[t].locked # {}
  BY <1>1
<1>3. task[t].sub
  BY <1>1, <1>2 DEF TaskFits, Fits, Blank
<1>4. Place(t) \notin {"closed", "attach"}
  BY <1>1, <1>3 DEF TaskFits, Fits
<1>5. ASSUME task[t].isClosed, Place(t) # "nowhere" PROVE FALSE
  <2>1. Called(backend, task[t]) /\ task[t].isClosed
    BY <1>1, <1>3, <1>4, <1>5 DEF TaskFits, Fits, Queued, Running, Places, HandPCs
  <2>2. /\ task[t].operations = Cardinality(task[t].ready) /\ task[t].pending = {}
        /\ Len(task[t].toSubmit) = 0
    <3>1. backend \in {"iouring", "iocp"}
      BY ScenariosAssumption DEF Flagged, backend, TInv, TypeOK
    <3> QED BY <2>1, <3>1 DEF Called
  <2>3. Cardinality(task[t].ready) = Back(task[t], "io") + Back(task[t], "fail") + Back(task[t], "cancel")
    <3>1. task[t].ready \in SUBSET Kinds
      BY <1>1, OperationFields
    <3>2. Cardinality(task[t].ready)
             = N("io" \in task[t].ready) + N("fail" \in task[t].ready) + N("cancel" \in task[t].ready)
      BY <3>1, CountKinds
    <3> QED BY <2>2, <3>2 DEF Back, N
  <2>4. \A k : Back(task[t], k) \in Nat
    BY BackTypes
  <2>5. task[t].operations = N("io" \in task[t].locked) + N("cancel" \in task[t].locked)
        /\ AwayIo(t) + Back(task[t], "io") + Back(task[t], "fail") = N("io" \in task[t].locked)
        /\ Away(t, "cancel") + Back(task[t], "cancel") = N("cancel" \in task[t].locked)
    BY <1>1, <2>2, <2>4 DEF OperationsFit, OperationFits
  <2> QED BY <1>1, <2>2, <2>3, <2>4, <2>5
<1> QED BY <1>3, <1>4, <1>5


\* The backends that have operations.
LEMMA OpsBackends ==
    ASSUME TInv, ~Flagged
    PROVE  backend \in {"iouring", "iocp"}
  BY ScenariosAssumption DEF Flagged, backend, TInv, TypeOK

\* The sched-thread hands a completion out.
LEMMA EventOwns ==
    ASSUME TInv, TInv', OwnInv, ~Flagged, NEW w \in Workers, At(w, "kernel"),
           thread' = thread, kernel' = kernel, scenario' = scenario,
           NEW t \in Tasks, NEW k \in Kinds, <<t, k>> \in round.harvest,
           round'.harvest = round.harvest \ {<<t, k>>},
           NEW e, e = task[t].pending \cup {k},
           \/ /\ task[t].status = "WAITING"
              /\ ToReady(t, WithEvents([task[t] EXCEPT !.status = "READY"], e, IsExpired(t)),
                         queue.pending)
           \/ /\ backend = "iouring" /\ task[t].status = "CLOSING"
              /\ "cancel" \in task[t].locked /\ UringAllOver(task[t], e)
              /\ ToReady(t, WithEvents(Closed(task[t]), e, IsExpired(t)), queue.pending)
           \/ /\ backend = "iocp" /\ task[t].status = "CLOSED" /\ UringAllOver(task[t], e)
              /\ ToReady(t, WithEvents([task[t] EXCEPT !.status = "CLOSED"], e, IsExpired(t)),
                         queue.pending)
           \/ /\ task[t].status # "WAITING"
              /\ task[t].status = "CLOSED" => backend = "iocp" /\ ~UringAllOver(task[t], e)
              /\ task' = [task EXCEPT ![t].pending = e] /\ queue' = queue
    PROVE  OwnInv'
<1>1. /\ \A u \in Tasks : u # t => \A j \in Kinds : Away(u, j)' = Away(u, j)
      /\ k # "cancel" => /\ AwayIo(t)' = AwayIo(t) - 1
                         /\ Away(t, "cancel")' = Away(t, "cancel")
      /\ k = "cancel" => /\ AwayIo(t)' = AwayIo(t)
                         /\ Away(t, "cancel")' = Away(t, "cancel") - 1
      /\ AwayIo(t) + Away(t, "cancel") >= 1
  BY TokenTaken
<1>2. /\ task[t].sub /\ (task[t].isClosed => Place(t) = "nowhere")
      /\ Place(t) \notin {"closed", "attach"} /\ Place(t) \in Places
      /\ OperationsFit(t) /\ TaskFits(t) /\ task[t] \in TaskType
      /\ task \in [Tasks -> TaskType] /\ queue.pending \in Seq(Tasks)
      /\ backend \in {"iouring", "iocp"} /\ backend' = backend
  BY <1>1, TokenIsLive, AwayBound, FitsParts, OpsBackends
     DEF TInv, TypeOK, QueueType, backend
<1>3. Schedules(w) /\ KernelFits'
  <2>1. Schedules(w)
    BY GoesSchedules DEF At, SchedPCs
  <2> QED BY <2>1, OpsKernel DEF OwnInv, KernelFits
<1>4. /\ e \in SUBSET Kinds /\ task[t].pending \in SUBSET Kinds /\ IsExpired(t) \in BOOLEAN
      /\ Len(task[t].toSubmit) \in Nat
  <2>1. task[t].pending \in SUBSET Kinds /\ Len(task[t].toSubmit) \in Nat
    BY <1>2, OperationFields, LenProperties
  <2> QED BY <2>1, IsExpiredType
<1>5. ASSUME NEW s, s = task'[t], s.locked = task[t].locked,
             s.operations = task[t].operations, s.toSubmit = task[t].toSubmit,
             \/ s.ready = task[t].ready /\ s.pending = e
             \/ task[t].ready = {} /\ s.pending = {} /\ s.ready = e
      PROVE  OperationsFit(t)'
  <2>1. /\ AwayIo(t) \in Nat /\ Away(t, "cancel") \in Nat
        /\ AwayIo(t)' \in Nat /\ Away(t, "cancel")' \in Nat
    BY AwayTypes, AwayTypesNext
  <2>2. OperationFits(task[t], t, AwayIo(t), Away(t, "cancel"))
    BY <1>2 DEF OperationsFit
  <2>3. OperationFits(s, t, AwayIo(t)', Away(t, "cancel")')
    BY <1>1, <1>4, <1>5, <2>1, <2>2, TokenFits
  <2> QED BY <1>5, <2>3 DEF OperationsFit
<1>6. ASSUME NEW r \in TaskType, Place(t) = "nowhere", task[t].ready = {},
             ToReady(t, WithEvents(r, e, IsExpired(t)), queue.pending),
             r.locked = task[t].locked, r.operations = task[t].operations,
             r.toSubmit = task[t].toSubmit, Called(backend, [r EXCEPT !.ready = e, !.pending = {}]),
             r.guard <=> (r.status \in {"CLOSING", "CLOSED"} \/ r.isClosed),
             "cancel" \in r.locked => backend = "iouring" /\ r.status = "CLOSED",
             backend # "iouring" => r.toSubmit = <<>>
      PROVE  OwnInv'
  <2>1. PICK s \in TaskType : s = WithEvents(r, e, IsExpired(t))
    BY <1>2, <1>4, OperationUpdates
  <2>2. /\ task'[t] = s /\ \A u \in Tasks : u # t => task'[u] = task[u]
        /\ queue'.front = queue.front /\ queue'.pending = queue.pending
        /\ queue'.ready = queue.ready /\ queue'.list = Append(queue.list, t)
        /\ queue'.waiting = queue.waiting \ {t}
    BY <1>2, <1>6, <2>1, ToReadyUpdates DEF TInv
  <2>3. /\ s.status = r.status /\ (s.guard <=> r.guard) /\ (s.isClosed <=> r.isClosed)
        /\ (s.inQueues <=> r.inQueues) /\ (s.sub <=> r.sub) /\ (s.socket <=> r.socket)
        /\ s.pending = {} /\ s.ready = e /\ s.locked = r.locked
        /\ s.operations = r.operations /\ s.toSubmit = r.toSubmit
    BY <2>1 DEF WithEvents, TaskType
  <2>4. Called(backend, s)
    <3>1. PICK c : c = [r EXCEPT !.ready = e, !.pending = {}]
      OBVIOUS
    <3>2. /\ c.status = r.status /\ (c.isClosed <=> r.isClosed)
          /\ (c.inQueues <=> r.inQueues) /\ (c.sub <=> r.sub) /\ (c.socket <=> r.socket)
          /\ c.pending = {} /\ c.ready = e /\ c.operations = r.operations
          /\ c.toSubmit = r.toSubmit
      BY <3>1 DEF TaskType
    <3> QED BY <1>6, <2>3, <3>1, <3>2 DEF Called
  <2>5. /\ QueuesApart' /\ SeatsApart' /\ Place(t)' = "due"
        /\ \A u \in Tasks : u # t => Place(u)' = Place(u)
    BY <1>3, <1>6, <2>2, NowhereToDue
  <2>6. t \notin queue'.waiting
    BY <2>2
  <2>7. TaskFits(t)'
    <3>1. s.sub
      BY <2>4 DEF Called
    <3> QED BY <1>2, <1>6, <2>2, <2>3, <2>4, <2>5, <2>6, <3>1 DEF TaskFits, Fits
  <2>8. OperationsFit(t)'
    BY <1>5, <1>6, <2>2, <2>3
  <2> QED BY <1>1, <1>3, <2>2, <2>5, <2>7, <2>8, OpsChange
<1>7. CASE /\ task[t].status = "WAITING"
           /\ ToReady(t, WithEvents([task[t] EXCEPT !.status = "READY"], e, IsExpired(t)),
                         queue.pending)
  <2>1. PICK r \in TaskType : r = [task[t] EXCEPT !.status = "READY"]
    BY <1>2, TaskUpdates DEF Statuses
  <2>2. /\ r.status = "READY" /\ (r.guard <=> task[t].guard)
        /\ (r.isClosed <=> task[t].isClosed) /\ (r.inQueues <=> task[t].inQueues)
        /\ (r.sub <=> task[t].sub) /\ r.locked = task[t].locked
        /\ r.operations = task[t].operations /\ r.toSubmit = task[t].toSubmit
    BY <1>2, <2>1 DEF TaskType
  <2>3. /\ Place(t) = "nowhere" /\ task[t].ready = {} /\ ~task[t].isClosed
        /\ task[t].inQueues /\ ~task[t].guard /\ "cancel" \notin task[t].locked
        /\ backend # "iouring" => task[t].toSubmit = <<>>
    BY <1>2, <1>7 DEF TaskFits, Fits, Queued, Called, Running, Parked, Places, HandPCs
  <2>4. Called(backend, [r EXCEPT !.ready = e, !.pending = {}])
    BY <1>2, <2>2, <2>3 DEF Called, TaskType
  <2> QED BY <1>6, <1>7, <2>1, <2>2, <2>3, <2>4
<1>8. CASE /\ backend = "iouring" /\ task[t].status = "CLOSING"
           /\ "cancel" \in task[t].locked /\ UringAllOver(task[t], e)
           /\ ToReady(t, WithEvents(Closed(task[t]), e, IsExpired(t)), queue.pending)
  <2>1. PICK r \in TaskType : r = Closed(task[t])
    BY <1>2, OperationUpdates
  <2>2. /\ r.status = "CLOSED" /\ (r.guard <=> task[t].guard) /\ r.isClosed
        /\ (r.inQueues <=> task[t].inQueues) /\ ~r.socket
        /\ (r.sub <=> task[t].sub) /\ r.locked = task[t].locked
        /\ r.operations = task[t].operations /\ r.toSubmit = task[t].toSubmit
    BY <1>2, <2>1 DEF TaskType, Closed
  <2>3. /\ Place(t) = "nowhere" /\ task[t].ready = {} /\ task[t].guard
        /\ task[t].inQueues /\ task[t].toSubmit = <<>> /\ task[t].operations = Cardinality(e)
    BY <1>2, <1>8 DEF TaskFits, Fits, Parked, UringAllOver
  <2>4. Called(backend, [r EXCEPT !.ready = e, !.pending = {}])
    BY <1>2, <2>2, <2>3 DEF Called, TaskType
  <2> QED BY <1>6, <1>8, <2>1, <2>2, <2>3, <2>4
<1>9. CASE /\ backend = "iocp" /\ task[t].status = "CLOSED" /\ UringAllOver(task[t], e)
           /\ ToReady(t, WithEvents([task[t] EXCEPT !.status = "CLOSED"], e, IsExpired(t)),
                         queue.pending)
  <2>1. PICK r \in TaskType : r = [task[t] EXCEPT !.status = "CLOSED"]
    BY <1>2, TaskUpdates DEF Statuses
  <2>2. /\ r.status = "CLOSED" /\ (r.guard <=> task[t].guard)
        /\ (r.isClosed <=> task[t].isClosed)
        /\ (r.inQueues <=> task[t].inQueues) /\ (r.socket <=> task[t].socket)
        /\ (r.sub <=> task[t].sub) /\ r.locked = task[t].locked
        /\ r.operations = task[t].operations /\ r.toSubmit = task[t].toSubmit
    BY <1>2, <2>1 DEF TaskType
  <2>3. Place(t) = "nowhere"
    BY <1>2, <1>9 DEF TaskFits, Fits, Queued, Called, Running, Places, HandPCs
  <2>4. /\ task[t].ready = {} /\ task[t].guard /\ task[t].isClosed /\ ~task[t].socket
        /\ task[t].inQueues /\ task[t].toSubmit = <<>> /\ task[t].operations = Cardinality(e)
        /\ "cancel" \notin task[t].locked
    BY <1>2, <1>9, <2>3 DEF TaskFits, Fits, Parked, UringAllOver
  <2>5. Called(backend, [r EXCEPT !.ready = e, !.pending = {}])
    BY <1>2, <2>2, <2>4 DEF Called, TaskType
  <2> QED BY <1>6, <1>9, <2>1, <2>2, <2>3, <2>4, <2>5
<1>10. CASE /\ task[t].status # "WAITING"
            /\ task[t].status = "CLOSED" => backend = "iocp" /\ ~UringAllOver(task[t], e)
            /\ task' = [task EXCEPT ![t].pending = e] /\ queue' = queue
  <2>1. PICK s \in TaskType : s = [task[t] EXCEPT !.pending = e]
    BY <1>2, <1>4, OperationUpdates
  <2>2. task'[t] = s /\ \A u \in Tasks : u # t => task'[u] = task[u]
    BY <1>2, <1>10, <2>1
  <2>3. /\ s.status = task[t].status /\ (s.guard <=> task[t].guard)
        /\ (s.isClosed <=> task[t].isClosed) /\ s.deadline = task[t].deadline
        /\ (s.inQueues <=> task[t].inQueues) /\ (s.socket <=> task[t].socket)
        /\ (s.sub <=> task[t].sub) /\ s.locked = task[t].locked
        /\ s.operations = task[t].operations /\ s.toSubmit = task[t].toSubmit
        /\ s.ready = task[t].ready /\ s.pending = e
    BY <1>2, <2>1 DEF TaskType
  <2>4. QueuesApart' /\ SeatsApart' /\ \A u \in Tasks : Place(u)' = Place(u)
    BY <1>3, <1>10, QueuesStay
  <2>5. TaskFits(t)'
    <3>1. PICK place : place = Place(t)
      OBVIOUS
    <3>2. PICK waits \in BOOLEAN : waits <=> t \in queue.waiting
      OBVIOUS
    <3>3. Fits(backend, place, task[t], waits)
      <4>1. waits = (t \in queue.waiting)
        BY <3>2
      <4> QED BY <1>2, <3>1, <4>1 DEF TaskFits
    <3>4. Parked(backend, task[t], waits) => Parked(backend, s, waits)
      BY <1>10, <2>3 DEF Parked, UringAllOver
    <3>5. /\ Queued(backend, task[t]) => Queued(backend, s)
          /\ Running(backend, task[t]) => Running(backend, s)
      BY <2>3 DEF Queued, Running
    <3>6. place \in {"due", "execute"} /\ Called(backend, task[t]) => Called(backend, s)
      BY <1>2, <2>3, <3>1 DEF Called
    <3>7. Fits(backend, place, s, waits)
      BY <1>2, <2>3, <3>3, <3>4, <3>5, <3>6 DEF Fits
    <3>8. Place(t)' = place /\ (t \in queue.waiting)' = waits /\ task'[t] = s
      BY <1>10, <2>2, <2>4, <3>1, <3>2
    <3> QED BY <1>2, <3>7, <3>8 DEF TaskFits
  <2>6. OperationsFit(t)'
    BY <1>5, <2>2, <2>3
  <2>7. \A u \in Tasks : u # t => (u \in queue'.waiting <=> u \in queue.waiting)
    BY <1>10
  <2> QED BY <1>1, <1>3, <2>2, <2>4, <2>5, <2>6, <2>7, OpsChange
<1> QED BY <1>7, <1>8, <1>9, <1>10


\* The completions of io_uring.
LEMMA UringEventOwns ==
    ASSUME TInv, TInv', OwnInv, ~Flagged, backend = "iouring", NEW w \in Workers, NEW x,
           UringEvent(w, x)
    PROVE  OwnInv'
<1>1. /\ x \in round.harvest /\ x \in Operations /\ At(w, "kernel") /\ thread' = thread
      /\ scenario' = scenario /\ kernel \in KernelType
      /\ round' = [round EXCEPT !.harvest = round.harvest \ {x}]
  BY ReportsAreKinds DEF UringEvent, TInv, TypeOK, RoundType
<1>2. round'.harvest = round.harvest \ {x}
  BY <1>1 DEF TInv, TypeOK, RoundType
<1>3. CASE x = SignalRead /\ kernel' = [kernel EXCEPT !.toSubmit = <<SignalRead>> \o kernel.toSubmit]
           /\ UNCHANGED <<task, queue>>
  <2>1. /\ kernel.toSubmit \in Seq(Operations) /\ Once(kernel.toSubmit)
        /\ SignalRead \in Operations /\ SignalRead[1] = NoTask
    BY <1>1, <1>3, QueueKernelFields DEF OwnInv, KernelFits, SignalRead
  <2>2. /\ Once(<<SignalRead>> \o kernel.toSubmit)
        /\ In(<<SignalRead>> \o kernel.toSubmit) = In(kernel.toSubmit) \cup {SignalRead}
    BY <2>1, OnceBefore, NoTaskAssumption
  <2>3. /\ kernel'.data = kernel.data /\ kernel'.reported = kernel.reported
        /\ kernel'.inside = kernel.inside /\ kernel'.cancelled = kernel.cancelled
        /\ kernel'.toSubmit = <<SignalRead>> \o kernel.toSubmit /\ kernel'.done = kernel.done
    BY <1>1, <1>3 DEF KernelType
  <2>4. \A u \in Tasks : \A k : <<u, k>> # SignalRead
    BY NoTaskAssumption DEF SignalRead
  <2>5. KernelFits'
    <3>1. kernel'.cancelled \subseteq kernel'.inside
      BY <2>3 DEF OwnInv, KernelFits
    <3>2. \A u \in Tasks : <<u, "fail">> \in In(kernel'.toSubmit) \cup kernel'.inside =>
                           <<u, "fail">> \in In(kernel.toSubmit) \cup kernel.inside
      BY <2>2, <2>3, <2>4
    <3>3. Once(kernel'.toSubmit)
      BY <2>2, <2>3
    <3> QED BY <1>1, <2>3, <3>1, <3>2, <3>3, OpsKernel
  <2>6. ASSUME NEW u \in Tasks, NEW k PROVE Away(u, k)' = Away(u, k)
    <3>1. /\ <<u, k>> \in In(kernel'.toSubmit) <=> <<u, k>> \in In(kernel.toSubmit)
          /\ <<u, k>> \in round'.harvest <=> <<u, k>> \in round.harvest
      BY <1>2, <1>3, <2>2, <2>3, <2>4
    <3> QED BY <2>3, <3>1 DEF Away, N
  <2>7. QueuesApart' /\ SeatsApart' /\ \A u \in Tasks : Place(u)' = Place(u)
    BY <1>1, <1>3, SameSeatsAll
  <2>8. \A u \in Tasks : AwayIo(u)' = AwayIo(u) /\ Away(u, "cancel")' = Away(u, "cancel")
    BY <2>6 DEF AwayIo
  <2>9. task' = task /\ queue'.waiting = queue.waiting
    BY <1>3
  <2> QED BY <1>1, <2>5, <2>7, <2>8, <2>9, OpsMove
<1>4. CASE x[1] # NoTask /\ kernel' = kernel
  <2>1. PICK t \in Tasks, k \in Kinds : x = <<t, k>>
    BY <1>1, <1>4 DEF Operations, SignalRead
  <2>2. x[1] = t /\ x[2] = k /\ x # SignalRead /\ t # NoTask
    BY <2>1, NoTaskAssumption DEF SignalRead
  <2>3. PICK e : e = task[t].pending \cup {k}
    OBVIOUS
  <2>4. \/ /\ task[t].status = "WAITING"
           /\ ToReady(t, WithEvents([task[t] EXCEPT !.status = "READY"], e, IsExpired(t)),
                      queue.pending)
        \/ /\ backend = "iouring" /\ task[t].status = "CLOSING"
           /\ "cancel" \in task[t].locked /\ UringAllOver(task[t], e)
           /\ ToReady(t, WithEvents(Closed(task[t]), e, IsExpired(t)), queue.pending)
        \/ /\ task[t].status # "WAITING"
           /\ task[t].status = "CLOSED" => backend = "iocp" /\ ~UringAllOver(task[t], e)
           /\ task' = [task EXCEPT ![t].pending = e] /\ queue' = queue
    BY <2>2, <2>3 DEF UringEvent
  <2>5. <<t, k>> \in round.harvest /\ round'.harvest = round.harvest \ {<<t, k>>}
    BY <1>1, <1>2, <2>1
  <2> QED BY <1>1, <1>4, <2>3, <2>4, <2>5, EventOwns
<1>5. \/ x = SignalRead /\ kernel' = [kernel EXCEPT !.toSubmit = <<SignalRead>> \o kernel.toSubmit]
         /\ UNCHANGED <<task, queue>>
      \/ x[1] # NoTask /\ kernel' = kernel
  BY DEF UringEvent
<1> QED BY <1>3, <1>4, <1>5

\* The completions of a completion port.
LEMMA IocpEventOwns ==
    ASSUME TInv, TInv', OwnInv, ~Flagged, backend = "iocp", NEW w \in Workers, NEW x,
           IocpEvent(w, x)
    PROVE  OwnInv'
<1>1. /\ x \in round.harvest /\ x \in Operations /\ At(w, "kernel") /\ thread' = thread
      /\ scenario' = scenario /\ kernel' = kernel
      /\ round' = [round EXCEPT !.harvest = round.harvest \ {x}]
  BY ReportsAreKinds DEF IocpEvent, TInv, TypeOK, RoundType
<1>2. round'.harvest = round.harvest \ {x}
  BY <1>1 DEF TInv, TypeOK, RoundType
<1>3. PICK t \in Tasks, k \in Kinds : x = <<t, k>>
  BY <1>1 DEF Operations
<1>4. x[1] = t /\ x[2] = k
  BY <1>3
<1>5. PICK e : e = task[t].pending \cup {k}
  OBVIOUS
<1>6. PICK next : next = IF task[t].status = "WAITING" THEN "READY" ELSE task[t].status
  OBVIOUS
<1>7. IF task[t].status = "WAITING" \/ (task[t].status = "CLOSED" /\ UringAllOver(task[t], e))
      THEN ToReady(t, WithEvents([task[t] EXCEPT !.status = next], e, IsExpired(t)),
                   queue.pending)
      ELSE task' = [task EXCEPT ![t].pending = e] /\ queue' = queue
  BY <1>4, <1>5, <1>6 DEF IocpEvent
<1>8. \/ /\ task[t].status = "WAITING"
         /\ ToReady(t, WithEvents([task[t] EXCEPT !.status = "READY"], e, IsExpired(t)),
                    queue.pending)
      \/ /\ backend = "iocp" /\ task[t].status = "CLOSED" /\ UringAllOver(task[t], e)
         /\ ToReady(t, WithEvents([task[t] EXCEPT !.status = "CLOSED"], e, IsExpired(t)),
                    queue.pending)
      \/ /\ task[t].status # "WAITING"
         /\ task[t].status = "CLOSED" => backend = "iocp" /\ ~UringAllOver(task[t], e)
         /\ task' = [task EXCEPT ![t].pending = e] /\ queue' = queue
  <2>1. CASE task[t].status = "WAITING"
    BY <1>6, <1>7, <2>1
  <2>2. CASE task[t].status = "CLOSED" /\ UringAllOver(task[t], e)
    <3>1. next = "CLOSED"
      BY <1>6, <2>2
    <3> QED BY <1>7, <2>2, <3>1
  <2>3. CASE /\ task[t].status # "WAITING"
             /\ ~(task[t].status = "CLOSED" /\ UringAllOver(task[t], e))
    BY <1>7, <2>3
  <2> QED BY <2>1, <2>2, <2>3
<1>9. <<t, k>> \in round.harvest /\ round'.harvest = round.harvest \ {<<t, k>>}
  BY <1>1, <1>2, <1>3
<1> QED BY <1>1, <1>5, <1>8, <1>9, EventOwns


\* Operations are added to those of a task that are to submit.
LEMMA TokensAdded ==
    ASSUME TInv, OwnInv, ~Flagged, scenario' = scenario, NEW t \in Tasks,
           NEW s, kernel' = [kernel EXCEPT !.toSubmit = s], Once(s),
           NEW X \in SUBSET {<<t, "io">>, <<t, "cancel">>},
           In(s) = In(kernel.toSubmit) \cup X, round'.harvest = round.harvest,
           <<t, "io">> \in X => Away(t, "io") = 0,
           <<t, "cancel">> \in X => Away(t, "cancel") = 0
    PROVE  /\ KernelFits'
           /\ \A u \in Tasks : u # t => \A k \in Kinds : Away(u, k)' = Away(u, k)
           /\ AwayIo(t)' = AwayIo(t) + N(<<t, "io">> \in X)
           /\ Away(t, "cancel")' = Away(t, "cancel") + N(<<t, "cancel">> \in X)
<1>1. /\ kernel'.data = kernel.data /\ kernel'.reported = kernel.reported
      /\ kernel'.inside = kernel.inside /\ kernel'.cancelled = kernel.cancelled
      /\ kernel'.toSubmit = s /\ kernel'.done = kernel.done
  BY DEF TInv, TypeOK, KernelType
<1>2. KernelFits'
  <2>1. kernel'.cancelled \subseteq kernel'.inside
    BY <1>1 DEF OwnInv, KernelFits
  <2>2. ASSUME NEW u \in Tasks, <<u, "fail">> \in In(kernel'.toSubmit) \cup kernel'.inside
        PROVE  <<u, "fail">> \in In(kernel.toSubmit) \cup kernel.inside
    <3>1. <<u, "fail">> # <<t, "io">> /\ <<u, "fail">> # <<t, "cancel">>
      OBVIOUS
    <3> QED BY <1>1, <2>2, <3>1
  <2> QED BY <1>1, <2>1, <2>2, OpsKernel
<1>3. ASSUME NEW u, NEW k, <<u, k>> \notin X PROVE Away(u, k)' = Away(u, k)
  <2>1. <<u, k>> \in In(kernel'.toSubmit) <=> <<u, k>> \in In(kernel.toSubmit)
    BY <1>1, <1>3
  <2> QED BY <1>1, <2>1 DEF Away, N
<1>4. ASSUME NEW k, <<t, k>> \in X, Away(t, k) = 0 PROVE Away(t, k)' = 1
  <2>1. <<t, k>> \in In(kernel'.toSubmit)
    BY <1>1, <1>4
  <2> QED BY <1>1, <1>4, <2>1 DEF Away, N
<1>5. ASSUME NEW u \in Tasks, u # t, NEW k \in Kinds PROVE Away(u, k)' = Away(u, k)
  <2>1. <<u, k>> # <<t, "io">> /\ <<u, k>> # <<t, "cancel">>
    BY <1>5
  <2> QED BY <1>3, <2>1
<1>6. Away(t, "fail")' = Away(t, "fail")
  <2>1. <<t, "fail">> # <<t, "io">> /\ <<t, "fail">> # <<t, "cancel">>
    OBVIOUS
  <2> QED BY <1>3, <2>1
<1>7. \A u, k : Away(u, k) \in Nat /\ Away(u, k)' \in Nat
  BY AwayTypes, AwayTypesNext
<1>8. Away(t, "io")' = Away(t, "io") + N(<<t, "io">> \in X)
  BY <1>3, <1>4, <1>7 DEF N
<1>9. Away(t, "cancel")' = Away(t, "cancel") + N(<<t, "cancel">> \in X)
  BY <1>3, <1>4, <1>7 DEF N
<1>10. AwayIo(t)' = AwayIo(t) + N(<<t, "io">> \in X)
  BY <1>6, <1>7, <1>8 DEF AwayIo, N
<1> QED BY <1>2, <1>5, <1>9, <1>10

\* The operations of a task move to the list of the core.
LEMMA MovedSequence ==
    ASSUME TInv, OwnInv, ~Flagged, NEW t \in Tasks,
           NEW s, s = kernel.toSubmit \o task[t].toSubmit
    PROVE  /\ s \in Seq(Operations) /\ Once(s)
           /\ \/ task[t].toSubmit = <<>> /\ In(s) = In(kernel.toSubmit)
              \/ /\ task[t].toSubmit = <<<<t, "io">>>> /\ AwayIo(t) = 0 /\ Away(t, "io") = 0
                 /\ In(s) = In(kernel.toSubmit) \cup {<<t, "io">>}
<1>1. /\ kernel.toSubmit \in Seq(Operations) /\ Once(kernel.toSubmit)
      /\ task[t].toSubmit \in {<<>>, <<<<t, "io">>>>} /\ OperationsFit(t)
      /\ task[t].toSubmit \in Seq(Tasks \X {"io"}) /\ <<t, "io">> \in Operations
  <2>1. OperationsFit(t) /\ task[t] \in TaskType
    BY AwayBound
  <2>2. kernel.toSubmit \in Seq(Operations) /\ Once(kernel.toSubmit)
    <3>1. kernel \in KernelType
      BY DEF TInv, TypeOK
    <3> QED BY <3>1, QueueKernelFields DEF OwnInv, KernelFits
  <2>3. task[t].toSubmit \in {<<>>, <<<<t, "io">>>>}
    BY <2>1 DEF OperationsFit, OperationFits
  <2>4. <<t, "io">> \in Operations
    <3>1. <<t, "io">> \in Tasks \X Kinds
      BY DEF Kinds
    <3> QED BY <3>1, OperationsOfTasks
  <2>5. task[t].toSubmit \in Seq(Tasks \X {"io"})
    BY <2>1, OperationFields
  <2> QED BY <2>1, <2>2, <2>3, <2>4, <2>5
<1>2. CASE task[t].toSubmit = <<>>
  BY <1>1, <1>2, ConcatEmptySeq
<1>3. CASE task[t].toSubmit = <<<<t, "io">>>>
  <2>1. s = Append(kernel.toSubmit, <<t, "io">>)
    BY <1>1, <1>3, AppendIsConcat
  <2>2. Len(task[t].toSubmit) = 1
    BY <1>3
  <2>3. AwayIo(t) = 0 /\ Away(t, "io") = 0
    <3>1. AwayIo(t) + 1 + Back(task[t], "io") + Back(task[t], "fail") = N("io" \in task[t].locked)
      BY <1>1, <2>2 DEF OperationsFit, OperationFits
    <3>2. AwayIo(t) \in Nat /\ (\A k : Away(t, k) \in Nat) /\ \A k : Back(task[t], k) \in Nat
      BY AwayTypes, BackTypes
    <3>3. AwayIo(t) = 0
      BY <3>1, <3>2 DEF N
    <3> QED BY <3>2, <3>3 DEF AwayIo
  <2>4. <<t, "io">> \notin In(kernel.toSubmit)
    BY <2>3 DEF Away, N
  <2>5. Once(s) /\ In(s) = In(kernel.toSubmit) \cup {<<t, "io">>}
    BY <1>1, <2>1, <2>4, OnceAppend
  <2>6. s \in Seq(Operations)
    BY <1>1, <2>1, AppendProperties
  <2> QED BY <1>3, <2>3, <2>5, <2>6
<1> QED BY <1>1, <1>2, <1>3

\* The sched-thread moves a task's submissions to the kernel's queue.
LEMMA MovedTokens ==
    ASSUME TInv, OwnInv, ~Flagged, scenario' = scenario, NEW t \in Tasks,
           kernel' = [kernel EXCEPT !.toSubmit = kernel.toSubmit \o task[t].toSubmit],
           round'.harvest = round.harvest
    PROVE  /\ KernelFits'
           /\ \A u \in Tasks : u # t => \A k \in Kinds : Away(u, k)' = Away(u, k)
           /\ AwayIo(t)' = AwayIo(t) + Len(task[t].toSubmit)
           /\ Away(t, "cancel")' = Away(t, "cancel")
<1>1. PICK s : s = kernel.toSubmit \o task[t].toSubmit
  OBVIOUS
<1>2. AwayIo(t) \in Nat /\ Away(t, "cancel") \in Nat
  BY AwayTypes
<1>3. CASE task[t].toSubmit = <<>> /\ In(s) = In(kernel.toSubmit)
  <2>1. Once(s) /\ In(s) = In(kernel.toSubmit) \cup {} /\ Len(task[t].toSubmit) = 0
    BY <1>1, <1>3, MovedSequence
  <2>2. PICK X \in SUBSET {<<t, "io">>, <<t, "cancel">>} : X = {}
    OBVIOUS
  <2>3. /\ KernelFits'
        /\ \A u \in Tasks : u # t => \A k \in Kinds : Away(u, k)' = Away(u, k)
        /\ AwayIo(t)' = AwayIo(t) + N(<<t, "io">> \in X)
        /\ Away(t, "cancel")' = Away(t, "cancel") + N(<<t, "cancel">> \in X)
    BY <1>1, <2>1, <2>2, TokensAdded
  <2> QED BY <1>2, <2>1, <2>2, <2>3 DEF N
<1>4. CASE /\ task[t].toSubmit = <<<<t, "io">>>> /\ AwayIo(t) = 0 /\ Away(t, "io") = 0
           /\ In(s) = In(kernel.toSubmit) \cup {<<t, "io">>}
  <2>1. Once(s) /\ Len(task[t].toSubmit) = 1
    BY <1>1, <1>4, MovedSequence
  <2>2. PICK X \in SUBSET {<<t, "io">>, <<t, "cancel">>} : X = {<<t, "io">>}
    OBVIOUS
  <2>3. <<t, "cancel">> \notin X /\ <<t, "io">> \in X
    BY <2>2
  <2>4. /\ KernelFits'
        /\ \A u \in Tasks : u # t => \A k \in Kinds : Away(u, k)' = Away(u, k)
        /\ AwayIo(t)' = AwayIo(t) + N(<<t, "io">> \in X)
        /\ Away(t, "cancel")' = Away(t, "cancel") + N(<<t, "cancel">> \in X)
    BY <1>1, <1>4, <2>1, <2>2, <2>3, TokensAdded
  <2> QED BY <1>2, <2>1, <2>3, <2>4 DEF N
<1> QED BY <1>1, <1>3, <1>4, MovedSequence

\* ... with a cancel after them.
LEMMA CancelToken ==
    ASSUME TInv, OwnInv, ~Flagged, scenario' = scenario, NEW t \in Tasks, backend = "iouring",
           kernel' = [kernel EXCEPT
                         !.toSubmit = WithCancel(kernel.toSubmit \o task[t].toSubmit, t)],
           round'.harvest = round.harvest, "cancel" \notin task[t].locked
    PROVE  /\ KernelFits'
           /\ \A u \in Tasks : u # t => \A k \in Kinds : Away(u, k)' = Away(u, k)
           /\ AwayIo(t)' = AwayIo(t) + Len(task[t].toSubmit)
           /\ Away(t, "cancel") = 0 /\ Away(t, "cancel")' = 1
<1>1. PICK s : s = kernel.toSubmit \o task[t].toSubmit
  OBVIOUS
<1>2. PICK a : a = Append(s, <<t, "cancel">>)
  OBVIOUS
<1>3. AwayIo(t) \in Nat /\ Away(t, "cancel") \in Nat
  BY AwayTypes
<1>4. Away(t, "cancel") = 0
  BY <1>3, AwayBound
<1>5. <<t, "cancel">> \notin In(s)
  <2>1. <<t, "cancel">> \notin In(kernel.toSubmit) /\ <<t, "cancel">> # <<t, "io">>
    BY <1>4 DEF Away, N
  <2> QED BY <1>1, <2>1, MovedSequence
<1>6. Once(a) /\ In(a) = In(s) \cup {<<t, "cancel">>}
  <2>1. s \in Seq(Operations) /\ Once(s) /\ <<t, "cancel">> \in Operations
    BY <1>1, MovedSequence, OperationsOfTasks DEF Kinds
  <2> QED BY <1>2, <1>5, <2>1, OnceAppend
<1>7. kernel' = [kernel EXCEPT !.toSubmit = a]
  BY <1>1, <1>2 DEF WithCancel
<1>8. CASE task[t].toSubmit = <<>> /\ In(s) = In(kernel.toSubmit)
  <2>1. In(a) = In(kernel.toSubmit) \cup {<<t, "cancel">>} /\ Len(task[t].toSubmit) = 0
    BY <1>6, <1>8
  <2>2. PICK X \in SUBSET {<<t, "io">>, <<t, "cancel">>} : X = {<<t, "cancel">>}
    OBVIOUS
  <2>3. <<t, "io">> \notin X /\ <<t, "cancel">> \in X
    BY <2>2
  <2>4. /\ KernelFits'
        /\ \A u \in Tasks : u # t => \A k \in Kinds : Away(u, k)' = Away(u, k)
        /\ AwayIo(t)' = AwayIo(t) + N(<<t, "io">> \in X)
        /\ Away(t, "cancel")' = Away(t, "cancel") + N(<<t, "cancel">> \in X)
    BY <1>4, <1>6, <1>7, <2>1, <2>2, <2>3, TokensAdded, ZenonT(60)
  <2> QED BY <1>3, <1>4, <2>1, <2>3, <2>4 DEF N
<1>9. CASE /\ task[t].toSubmit = <<<<t, "io">>>> /\ AwayIo(t) = 0 /\ Away(t, "io") = 0
           /\ In(s) = In(kernel.toSubmit) \cup {<<t, "io">>}
  <2>1. In(a) = In(kernel.toSubmit) \cup {<<t, "io">>, <<t, "cancel">>}
        /\ Len(task[t].toSubmit) = 1
    <3>1. \A x, y : (In(kernel.toSubmit) \cup {x}) \cup {y} = In(kernel.toSubmit) \cup {x, y}
      OBVIOUS
    <3>2. In(a) = In(kernel.toSubmit) \cup {<<t, "io">>, <<t, "cancel">>}
      BY <1>6, <1>9, <3>1
    <3>3. Len(<<<<t, "io">>>>) = 1
      OBVIOUS
    <3> QED BY <1>9, <3>2, <3>3
  <2>2. PICK X \in SUBSET {<<t, "io">>, <<t, "cancel">>} : X = {<<t, "io">>, <<t, "cancel">>}
    OBVIOUS
  <2>3. <<t, "io">> \in X /\ <<t, "cancel">> \in X
    BY <2>2
  <2>4. /\ KernelFits'
        /\ \A u \in Tasks : u # t => \A k \in Kinds : Away(u, k)' = Away(u, k)
        /\ AwayIo(t)' = AwayIo(t) + N(<<t, "io">> \in X)
        /\ Away(t, "cancel")' = Away(t, "cancel") + N(<<t, "cancel">> \in X)
    <3>1. In(a) = In(kernel.toSubmit) \cup X /\ Once(a)
      BY <1>6, <2>1, <2>2
    <3>2. Away(t, "io") = 0 /\ Away(t, "cancel") = 0
      BY <1>4, <1>9
    <3> QED BY <1>7, <3>1, <3>2, TokensAdded
  <2>5. N(<<t, "io">> \in X) = 1 /\ N(<<t, "cancel">> \in X) = 1
    <3>1. \A b : b => N(b) = 1
      BY DEF N
    <3> QED BY ONLY <2>3, <3>1
  <2>6. AwayIo(t)' = AwayIo(t) + Len(task[t].toSubmit)
    BY <2>1, <2>4, <2>5
  <2>7. Away(t, "cancel")' = 1
    BY <1>4, <2>4, <2>5
  <2> QED BY <1>4, <2>4, <2>6, <2>7
<1> QED BY <1>1, <1>8, <1>9, MovedSequence

-----------------------------------------------------------------------------
(* The front queue, without flags.                                          *)

\* What a task is when the sched-thread takes it.
LEMMA FrontFacts ==
    ASSUME TInv, TInv', OwnInv, SchedInv, ~Flagged, NEW w \in Workers, NextPending(w),
           NEW t, t = Head(queue.pending)
    PROVE  /\ t \in Tasks /\ Schedules(w) /\ queue.pending # <<>>
           /\ Tail(queue.pending) \in Seq(Tasks) /\ scenario' = scenario
           /\ backend' = backend /\ round'.harvest = round.harvest
           /\ Place(t) = "posted" /\ TaskFits(t) /\ OperationsFit(t)
           /\ task[t] \in TaskType /\ Queued(backend, task[t]) /\ task[t].ready = {}
           /\ (task[t].guard <=> task[t].status = "CLOSING")
           /\ "cancel" \notin task[t].locked
           /\ (backend # "iouring" => task[t].toSubmit = <<>>)
           /\ backend \in {"iouring", "iocp"}
           /\ (t \in queue.waiting => task[t].status # "PENDING")
<1>1. round.harvest = {} /\ thread[w].pc \in SchedPCs
  BY FrontIsQuiet DEF NextPending, InFrontLoop
<1>2. /\ t \in Tasks /\ Schedules(w) /\ queue.pending # <<>>
      /\ Tail(queue.pending) \in Seq(Tasks) /\ scenario' = scenario
      /\ backend' = backend /\ round'.harvest = round.harvest
      /\ backend \in {"iouring", "iocp"}
  BY <1>1, NextPendingUpdates, GoesSchedules, OpsBackends DEF SchedPCs, backend
<1>3. Place(t) = "posted"
  <2>1. QueueFields
    BY QueueTypes DEF TInv
  <2> QED BY <1>2, <2>1, InTail, FitsParts DEF OwnInv, QueuesApart, Posted, QueueFields
<1>4. TaskFits(t) /\ OperationsFit(t) /\ task[t] \in TaskType
  BY <1>2, AwayBound
<1>5. Queued(backend, task[t])
  BY <1>3, <1>4 DEF TaskFits, Fits
<1>6. task[t].ready = {} /\ (task[t].guard <=> task[t].status = "CLOSING")
  BY <1>2, <1>4, <1>5 DEF TaskFits, Fits, Queued
<1>7. /\ "cancel" \notin task[t].locked
      /\ (backend # "iouring" => task[t].toSubmit = <<>>)
      /\ (t \in queue.waiting => task[t].status # "PENDING")
  BY <1>3, <1>4, <1>5 DEF TaskFits, Fits, Queued
<1> QED BY <1>2, <1>3, <1>4, <1>5, <1>6, <1>7

\* The operations of a task go from its own list to the core's.
LEMMA HandedOver ==
    ASSUME NEW t \in Tasks, OperationsFit(t), NEW s, s = task'[t],
           s.locked = task[t].locked, s.operations = task[t].operations,
           s.toSubmit \in {<<>>, task[t].toSubmit},
           AwayIo(t)' + Len(s.toSubmit) = AwayIo(t) + Len(task[t].toSubmit),
           Away(t, "cancel")' = Away(t, "cancel"),
           s.pending \cup s.ready = task[t].pending \cup task[t].ready,
           s.pending = {} \/ s.ready = {}, task[t].pending = {} \/ task[t].ready = {}
    PROVE  OperationsFit(t)'
<1>1. \A k : Back(s, k) = Back(task[t], k)
  <2>1. \A k : k \in s.pending \/ k \in s.ready <=> k \in task[t].pending \/ k \in task[t].ready
    OBVIOUS
  <2>2. \A k : ~(k \in s.pending /\ k \in s.ready) /\ ~(k \in task[t].pending /\ k \in task[t].ready)
    OBVIOUS
  <2> QED BY <2>1, <2>2 DEF Back, N
<1>2. PICK n, m : n = Len(s.toSubmit) /\ m = Len(task[t].toSubmit)
  OBVIOUS
<1>3. PICK io, io2, c, b1, b2, b3 :
        /\ io = AwayIo(t) /\ io2 = AwayIo(t)' /\ c = Away(t, "cancel")
        /\ b1 = Back(s, "io") /\ b2 = Back(s, "fail") /\ b3 = Back(s, "cancel")
  OBVIOUS
<1>4. OperationFits(task[t], t, io, c)
  BY <1>3 DEF OperationsFit
<1>5. /\ io + m + b1 + b2 = N("io" \in task[t].locked)
      /\ c + b3 = N("cancel" \in task[t].locked)
      /\ task[t].operations = N("io" \in task[t].locked) + N("cancel" \in task[t].locked)
      /\ task[t].toSubmit \in {<<>>, <<<<t, "io">>>>}
  BY <1>1, <1>2, <1>3, <1>4 DEF OperationFits
<1>6. io2 + n = io + m
  BY <1>2, <1>3
<1>7. io2 + n + b1 + b2 = N("io" \in s.locked)
  <2>1. io \in Int /\ io2 \in Int /\ b1 \in Int /\ b2 \in Int
    BY <1>3, AwayTypes, AwayTypesNext, BackTypes
  <2>2. n \in Nat /\ m \in Nat
    <3>1. Len(<<>>) = 0 /\ Len(<<<<t, "io">>>>) = 1
      OBVIOUS
    <3>2. s.toSubmit \in {<<>>, <<<<t, "io">>>>}
      BY <1>5
    <3> QED BY <1>2, <1>5, <3>1, <3>2
  <2> QED BY <1>5, <1>6, <2>1, <2>2
<1>8. OperationFits(s, t, io2, c)
  BY <1>2, <1>3, <1>5, <1>7 DEF OperationFits
<1>9. io2 = AwayIo(t)' /\ c = Away(t, "cancel")' /\ s = task'[t]
  BY <1>3
<1> QED BY <1>8, <1>9 DEF OperationsFit

\* A task of the front queue gets ready.
LEMMA FrontReady ==
    ASSUME TInv, TInv', OwnInv, SchedInv, ~Flagged, NEW w \in Workers, NextPending(w),
           NEW t \in Tasks, t = Head(queue.pending), NEW r \in TaskType,
           ToReady(t, WithEvents(r, r.pending, IsExpired(t)), Tail(queue.pending)),
           r.pending = task[t].pending, r.locked = task[t].locked,
           r.operations = task[t].operations, r.toSubmit \in {<<>>, task[t].toSubmit},
           r.sub, r.inQueues, r.guard <=> r.isClosed,
           \/ r.status = "READY" /\ ~r.isClosed
           \/ /\ r.status = "CLOSED" /\ r.isClosed /\ ~r.socket /\ r.toSubmit = <<>>
              /\ UringAllOver(r, r.pending),
           KernelFits', \A u \in Tasks : u # t => \A k \in Kinds : Away(u, k)' = Away(u, k),
           AwayIo(t)' + Len(r.toSubmit) = AwayIo(t) + Len(task[t].toSubmit),
           Away(t, "cancel")' = Away(t, "cancel")
    PROVE  OwnInv'
<1>1. /\ Schedules(w) /\ queue.pending # <<>> /\ Tail(queue.pending) \in Seq(Tasks)
      /\ scenario' = scenario /\ backend' = backend /\ Place(t) = "posted" /\ TaskFits(t)
      /\ OperationsFit(t) /\ Queued(backend, task[t]) /\ task[t].ready = {}
      /\ "cancel" \notin task[t].locked
      /\ backend # "iouring" => task[t].toSubmit = <<>>
  BY FrontFacts
<1>2. PICK s \in TaskType : s = WithEvents(r, r.pending, IsExpired(t))
  BY OperationFields, OperationUpdates, IsExpiredType
<1>3. /\ task'[t] = s /\ \A u \in Tasks : u # t => task'[u] = task[u]
      /\ queue'.front = queue.front /\ queue'.pending = Tail(queue.pending)
      /\ queue'.ready = queue.ready /\ queue'.list = Append(queue.list, t)
      /\ queue'.waiting = queue.waiting \ {t}
  <2>1. PICK rest \in Seq(Tasks) : rest = Tail(queue.pending)
    BY <1>1
  <2>2. ToReady(t, s, rest) /\ TypeOK
    BY <1>2, <2>1 DEF TInv
  <2> QED BY <2>1, <2>2, ToReadyUpdates, ZenonT(60)
<1>4. /\ s.status = r.status /\ (s.guard <=> r.guard) /\ (s.isClosed <=> r.isClosed)
      /\ (s.inQueues <=> r.inQueues) /\ (s.sub <=> r.sub) /\ (s.socket <=> r.socket)
      /\ s.pending = {} /\ s.ready = r.pending /\ s.locked = r.locked
      /\ s.operations = r.operations /\ s.toSubmit = r.toSubmit
  BY <1>2 DEF WithEvents, TaskType
<1>5. Called(backend, s)
  BY <1>4 DEF Called, UringAllOver
<1>6. /\ QueuesApart' /\ SeatsApart' /\ Place(t)' = "due"
      /\ \A u \in Tasks : u # t => Place(u)' = Place(u)
  BY <1>1, <1>3, PostedToDue
<1>7. t \notin queue'.waiting /\ (backend # "iouring" => s.toSubmit = <<>>)
      /\ "cancel" \notin s.locked /\ s.sub
      /\ (s.guard <=> (s.status \in {"CLOSING", "CLOSED"} \/ s.isClosed))
  <2>1. t \notin queue'.waiting /\ (backend # "iouring" => s.toSubmit = <<>>)
    BY <1>1, <1>3, <1>4
  <2>2. "cancel" \notin s.locked /\ s.sub
    BY <1>1, <1>4
  <2>3. s.guard <=> s.isClosed
    BY <1>4
  <2>4. s.isClosed <=> s.status \in {"CLOSING", "CLOSED"}
    BY <1>4
  <2> QED BY <2>1, <2>2, <2>3, <2>4
<1>8. TaskFits(t)'
  BY <1>1, <1>3, <1>5, <1>6, <1>7 DEF TaskFits, Fits
<1>9. OperationsFit(t)'
  BY <1>1, <1>3, <1>4, HandedOver
<1> QED BY <1>1, <1>3, <1>6, <1>8, <1>9, OpsChange

\* A task of the front queue falls asleep.
LEMMA FrontSleeps ==
    ASSUME TInv, TInv', OwnInv, SchedInv, ~Flagged, NEW w \in Workers, NextPending(w),
           NEW t \in Tasks, t = Head(queue.pending), NEW r \in TaskType, ToSleep(t, r),
           SameEvents([task[t] EXCEPT !.toSubmit = r.toSubmit], r),
           r.toSubmit \in {<<>>, task[t].toSubmit},
           r.deadline = task[t].deadline, r.sub <=> task[t].sub,
           r.inQueues <=> task[t].inQueues, r.guard <=> task[t].guard,
           r.isClosed <=> task[t].isClosed,
           KernelFits', \A u \in Tasks : u # t => \A k \in Kinds : Away(u, k)' = Away(u, k),
           AwayIo(t)' + Len(r.toSubmit) = AwayIo(t) + Len(task[t].toSubmit),
           Away(t, "cancel")' = Away(t, "cancel")
    PROVE  OwnInv'
<1>1. /\ Schedules(w) /\ queue.pending # <<>> /\ Tail(queue.pending) \in Seq(Tasks)
      /\ scenario' = scenario /\ backend' = backend /\ Place(t) = "posted" /\ TaskFits(t)
      /\ OperationsFit(t) /\ Queued(backend, task[t]) /\ task[t].ready = {}
      /\ "cancel" \notin task[t].locked /\ task[t] \in TaskType
      /\ task[t].guard <=> task[t].status = "CLOSING"
      /\ backend # "iouring" => task[t].toSubmit = <<>>
      /\ t \in queue.waiting => task[t].status # "PENDING"
  BY FrontFacts
<1>2. PICK s \in TaskType : s = [r EXCEPT !.status = "WAITING"]
  BY TaskUpdates DEF Statuses
<1>3. /\ task'[t] = s /\ \A u \in Tasks : u # t => task'[u] = task[u]
      /\ queue'.front = queue.front /\ queue'.pending = Tail(queue.pending)
      /\ queue'.ready = queue.ready /\ queue'.list = queue.list
      /\ queue'.waiting = IF r.deadline # Infinite THEN queue.waiting \cup {t}
                                                   ELSE queue.waiting
  BY <1>1, <1>2, ToSleepUpdates DEF TInv
<1>4. /\ r.pending = task[t].pending /\ r.ready = task[t].ready /\ r.locked = task[t].locked
      /\ r.operations = task[t].operations
  BY <1>1 DEF SameEvents, TaskType
<1>5. /\ s.status = "WAITING" /\ (s.guard <=> task[t].guard)
      /\ (s.isClosed <=> task[t].isClosed) /\ s.deadline = task[t].deadline
      /\ (s.inQueues <=> task[t].inQueues) /\ (s.sub <=> task[t].sub)
      /\ s.pending = task[t].pending /\ s.ready = task[t].ready /\ s.locked = task[t].locked
      /\ s.operations = task[t].operations /\ s.toSubmit = r.toSubmit
  BY <1>2, <1>4 DEF TaskType
<1>6. task[t].status = "PENDING" /\ task[t].pending = {}
  BY DEF ToSleep, Sleeps
<1>7. /\ QueuesApart' /\ SeatsApart' /\ Place(t)' = "nowhere"
      /\ \A u \in Tasks : u # t => Place(u)' = Place(u)
  BY <1>1, <1>3, PostedToNowhere
<1>8. /\ t \in queue'.waiting => task[t].deadline # Infinite
      /\ \A u \in Tasks : u # t => (u \in queue'.waiting <=> u \in queue.waiting)
  BY <1>1, <1>3, <1>6
<1>9. TaskFits(t)'
  BY <1>1, <1>3, <1>5, <1>6, <1>7, <1>8 DEF TaskFits, Fits, Queued, Parked
<1>10. OperationsFit(t)'
  BY <1>1, <1>3, <1>5, HandedOver
<1> QED BY <1>1, <1>3, <1>7, <1>8, <1>9, <1>10, OpsChange


\* The front queue, with io_uring: submissions move on, closing tasks are
\* cancelled.
LEMMA UringFrontOwns ==
    ASSUME TInv, TInv', OwnInv, SchedInv, ~Flagged, backend = "iouring", NEW w \in Workers,
           UringFront(w)
    PROVE  OwnInv'
<1>1. NextPending(w)
  BY DEF UringFront
<1>2. PICK t \in Tasks : t = Head(queue.pending)
  BY <1>1, FrontFacts
<1>3. /\ Schedules(w) /\ queue.pending # <<>> /\ Tail(queue.pending) \in Seq(Tasks)
      /\ scenario' = scenario /\ backend' = backend /\ round'.harvest = round.harvest
      /\ Place(t) = "posted" /\ TaskFits(t) /\ OperationsFit(t)
      /\ task[t] \in TaskType /\ Queued(backend, task[t]) /\ task[t].ready = {}
      /\ (task[t].guard <=> task[t].status = "CLOSING")
      /\ "cancel" \notin task[t].locked
  BY <1>1, <1>2, FrontFacts
<1>4. PICK r \in TaskType : r = [task[t] EXCEPT !.toSubmit = <<>>]
  BY <1>3, OperationUpdates, EmptySeq
<1>5. /\ r.status = task[t].status /\ (r.guard <=> task[t].guard)
      /\ (r.isClosed <=> task[t].isClosed) /\ r.deadline = task[t].deadline
      /\ (r.inQueues <=> task[t].inQueues) /\ (r.socket <=> task[t].socket)
      /\ (r.sub <=> task[t].sub) /\ r.locked = task[t].locked
      /\ r.operations = task[t].operations /\ r.toSubmit = <<>>
      /\ r.ready = task[t].ready /\ r.pending = task[t].pending
  BY <1>3, <1>4 DEF TaskType
<1>6. PICK moved : moved = kernel.toSubmit \o task[t].toSubmit
  OBVIOUS
<1>7. \/ /\ ~Sleeps(t) /\ r.status # "CLOSING"
         /\ ToReady(t, WithEvents([r EXCEPT !.status = Awake(r.status)], r.pending,
                                  IsExpired(t)), Tail(queue.pending))
         /\ kernel' = [kernel EXCEPT !.toSubmit = moved]
      \/ /\ r.status = "CLOSING" /\ UringAllOver(r, r.pending)
         /\ ToReady(t, WithEvents(Closed(r), r.pending, IsExpired(t)), Tail(queue.pending))
         /\ kernel' = [kernel EXCEPT !.toSubmit = moved]
      \/ /\ r.status = "CLOSING"
         /\ task' = [task EXCEPT ![t] = [r EXCEPT !.locked = r.locked \cup {"cancel"},
                                                  !.operations = r.operations + 1]]
         /\ kernel' = [kernel EXCEPT !.toSubmit = WithCancel(moved, t)]
         /\ queue' = [queue EXCEPT !.pending = Tail(queue.pending),
                                   !.waiting = queue.waiting \ {t}]
      \/ ToSleep(t, r) /\ kernel' = [kernel EXCEPT !.toSubmit = moved]
  <2>1. PICK q : q = Head(queue.pending)
    OBVIOUS
  <2>2. t = q
    BY <1>2, <2>1
  <2> QED BY <1>4, <1>6, <2>1, <2>2 DEF UringFront
<1>8. ASSUME kernel' = [kernel EXCEPT !.toSubmit = moved]
      PROVE  /\ KernelFits'
             /\ \A u \in Tasks : u # t => \A k \in Kinds : Away(u, k)' = Away(u, k)
             /\ AwayIo(t)' + Len(r.toSubmit) = AwayIo(t) + Len(task[t].toSubmit)
             /\ Away(t, "cancel")' = Away(t, "cancel")
  <2>1. /\ KernelFits'
        /\ \A u \in Tasks : u # t => \A k \in Kinds : Away(u, k)' = Away(u, k)
        /\ AwayIo(t)' = AwayIo(t) + Len(task[t].toSubmit)
        /\ Away(t, "cancel")' = Away(t, "cancel")
    BY <1>3, <1>6, <1>8, MovedTokens
  <2>2. Len(r.toSubmit) = 0
    BY <1>5
  <2>3. AwayIo(t)' \in Int
    BY AwayTypesNext
  <2> QED BY <2>1, <2>2, <2>3
<1>9. CASE /\ ~Sleeps(t) /\ r.status # "CLOSING"
           /\ ToReady(t, WithEvents([r EXCEPT !.status = Awake(r.status)], r.pending,
                                    IsExpired(t)), Tail(queue.pending))
           /\ kernel' = [kernel EXCEPT !.toSubmit = moved]
  <2>1. PICK s \in TaskType : s = [r EXCEPT !.status = Awake(r.status)]
    BY <1>4, OperationFields, TaskUpdates
  <2>2. /\ s.status = "READY" /\ (s.guard <=> r.guard) /\ (s.isClosed <=> r.isClosed)
        /\ (s.inQueues <=> r.inQueues) /\ (s.sub <=> r.sub) /\ s.locked = r.locked
        /\ s.operations = r.operations /\ s.toSubmit = <<>> /\ s.pending = r.pending
    BY <1>3, <1>5, <1>9, <2>1 DEF TaskType, Awake, Queued
  <2>3. s.sub /\ s.inQueues /\ ~s.isClosed /\ ~s.guard
    BY <1>3, <1>5, <1>9, <2>2 DEF Queued
  <2>4. ToReady(t, WithEvents(s, s.pending, IsExpired(t)), Tail(queue.pending))
    BY <1>9, <2>1, <2>2
  <2> QED BY <1>1, <1>2, <1>5, <1>8, <1>9, <2>2, <2>3, <2>4, FrontReady
<1>10. CASE /\ r.status = "CLOSING" /\ UringAllOver(r, r.pending)
            /\ ToReady(t, WithEvents(Closed(r), r.pending, IsExpired(t)), Tail(queue.pending))
            /\ kernel' = [kernel EXCEPT !.toSubmit = moved]
  <2>1. PICK s \in TaskType : s = Closed(r)
    BY <1>4, OperationUpdates
  <2>2. /\ s.status = "CLOSED" /\ (s.guard <=> r.guard) /\ s.isClosed /\ ~s.socket
        /\ (s.inQueues <=> r.inQueues) /\ (s.sub <=> r.sub) /\ s.locked = r.locked
        /\ s.operations = r.operations /\ s.toSubmit = <<>> /\ s.pending = r.pending
    BY <1>5, <2>1 DEF TaskType, Closed
  <2>3. s.sub /\ s.inQueues /\ s.isClosed /\ s.guard /\ UringAllOver(s, s.pending)
    BY <1>3, <1>5, <1>10, <2>2 DEF Queued, UringAllOver
  <2>4. ToReady(t, WithEvents(s, s.pending, IsExpired(t)), Tail(queue.pending))
    BY <1>10, <2>1, <2>2
  <2> QED BY <1>1, <1>2, <1>5, <1>8, <1>10, <2>2, <2>3, <2>4, FrontReady
<1>11. CASE /\ r.status = "CLOSING"
            /\ task' = [task EXCEPT ![t] = [r EXCEPT !.locked = r.locked \cup {"cancel"},
                                                     !.operations = r.operations + 1]]
            /\ kernel' = [kernel EXCEPT !.toSubmit = WithCancel(moved, t)]
            /\ queue' = [queue EXCEPT !.pending = Tail(queue.pending),
                                      !.waiting = queue.waiting \ {t}]
  <2>1. PICK s \in TaskType : s = [r EXCEPT !.locked = r.locked \cup {"cancel"},
                                            !.operations = r.operations + 1]
    <3>1. r.locked \cup {"cancel"} \in SUBSET {"io", "cancel"} /\ r.operations + 1 \in Int
      BY OperationFields
    <3> QED BY <3>1, OperationUpdates
  <2>2. PICK waits \in SUBSET Tasks : waits = queue.waiting \ {t}
    BY DEF TInv, TypeOK, QueueType
  <2>3. /\ task'[t] = s /\ \A u \in Tasks : u # t => task'[u] = task[u]
        /\ queue'.front = queue.front /\ queue'.pending = Tail(queue.pending)
        /\ queue'.ready = queue.ready /\ queue'.list = queue.list
        /\ queue'.waiting = waits
    <3>1. task' = [task EXCEPT ![t] = s]
          /\ queue' = [queue EXCEPT !.pending = Tail(queue.pending), !.waiting = waits]
      BY <1>11, <2>1, <2>2
    <3> QED BY <1>3, <3>1, LeavesPending, ZenonT(60) DEF TInv
  <2>4. /\ s.status = "CLOSING" /\ (s.guard <=> r.guard) /\ (s.isClosed <=> r.isClosed)
        /\ (s.inQueues <=> r.inQueues) /\ (s.sub <=> r.sub)
        /\ s.locked = task[t].locked \cup {"cancel"}
        /\ s.operations = task[t].operations + 1 /\ s.toSubmit = <<>>
        /\ s.pending = task[t].pending /\ s.ready = {}
    BY <1>3, <1>5, <1>11, <2>1 DEF TaskType
  <2>5. /\ KernelFits'
        /\ \A u \in Tasks : u # t => \A k \in Kinds : Away(u, k)' = Away(u, k)
        /\ AwayIo(t)' = AwayIo(t) + Len(task[t].toSubmit)
        /\ Away(t, "cancel") = 0 /\ Away(t, "cancel")' = 1
    BY <1>3, <1>6, <1>11, CancelToken
  <2>6. /\ QueuesApart' /\ SeatsApart' /\ Place(t)' = "nowhere"
        /\ \A u \in Tasks : u # t => Place(u)' = Place(u)
    BY <1>2, <1>3, <2>3, PostedToNowhere
  <2>7. TaskFits(t)'
    <3>1. s.guard /\ s.sub /\ s.inQueues /\ ~s.isClosed
      BY <1>3, <1>5, <1>11, <2>4 DEF Queued
    <3>2. t \notin queue'.waiting
      BY <2>2, <2>3
    <3> QED BY <1>3, <2>3, <2>4, <2>6, <3>1, <3>2 DEF TaskFits, Fits, Parked
  <2>8. OperationsFit(t)'
    <3>1. PICK io, c2 : io = AwayIo(t)' /\ c2 = Away(t, "cancel")'
      OBVIOUS
    <3>2. OperationFits(task[t], t, AwayIo(t), Away(t, "cancel"))
      BY <1>3 DEF OperationsFit
    <3>3. \A k : Back(s, k) = Back(task[t], k) /\ Back(s, k) \in Nat
      BY <1>3, <2>4 DEF Back, N
    <3>4. N("io" \in s.locked) = N("io" \in task[t].locked) /\ N("cancel" \in s.locked) = 1
          /\ N("cancel" \in task[t].locked) = 0
      BY <1>3, <2>4 DEF N
    <3>5. AwayIo(t) \in Nat
      BY AwayTypes
    <3>6. Len(task[t].toSubmit) \in Nat /\ N("io" \in task[t].locked) \in Nat
      <4>1. task[t].toSubmit \in Seq(Tasks \X {"io"})
        BY <1>3, OperationFields
      <4> QED BY <4>1, LenProperties DEF N
    <3>7. io + Back(task[t], "io") + Back(task[t], "fail") = N("io" \in task[t].locked)
      BY <2>5, <3>1, <3>2, <3>3, <3>5, <3>6 DEF OperationFits
    <3>8. Back(task[t], "cancel") = 0
      BY <2>5, <3>2, <3>3, <3>4 DEF OperationFits
    <3>9. task[t].operations = N("io" \in task[t].locked)
      BY <3>2, <3>4, <3>6 DEF OperationFits
    <3>10. Len(s.toSubmit) = 0 /\ s.toSubmit = <<>>
      BY <2>4
    <3>11. OperationFits(s, t, io, c2)
      <4>1. io \in Int /\ c2 = 1
        BY <2>5, <3>1, AwayTypesNext
      <4>2. io + Len(s.toSubmit) + Back(s, "io") + Back(s, "fail") = N("io" \in s.locked)
        BY <3>3, <3>4, <3>7, <3>10, <4>1
      <4>3. c2 + Back(s, "cancel") = N("cancel" \in s.locked)
        BY <3>3, <3>4, <3>8, <4>1
      <4>4. s.operations = N("io" \in s.locked) + N("cancel" \in s.locked)
        BY <2>4, <3>4, <3>6, <3>9
      <4> QED BY <3>10, <4>2, <4>3, <4>4 DEF OperationFits
    <3>12. task'[t] = s /\ io = AwayIo(t)' /\ c2 = Away(t, "cancel")'
      BY <2>3, <3>1
    <3> QED BY <3>11, <3>12 DEF OperationsFit
  <2>9. \A u \in Tasks : u # t => (u \in queue'.waiting <=> u \in queue.waiting)
    BY <2>2, <2>3
  <2> QED BY <1>3, <2>3, <2>5, <2>6, <2>7, <2>8, <2>9, OpsChange
<1>12. CASE ToSleep(t, r) /\ kernel' = [kernel EXCEPT !.toSubmit = moved]
  <2>1. SameEvents([task[t] EXCEPT !.toSubmit = r.toSubmit], r)
    BY <1>4, <1>5 DEF SameEvents
  <2>2. r.toSubmit \in {<<>>, task[t].toSubmit}
    BY <1>5
  <2> QED BY <1>1, <1>2, <1>5, <1>8, <1>12, <2>1, <2>2, FrontSleeps
<1> QED BY <1>7, <1>9, <1>10, <1>11, <1>12


\* The close of a socket makes its operations fail, wherever they are.
LEMMA SocketClosedKeeps ==
    ASSUME TInv, OwnInv, ~Flagged, scenario' = scenario, NEW t \in Tasks,
           kernel' \in {kernel, SocketClosed(t)}, round'.harvest = round.harvest
    PROVE  /\ KernelFits'
           /\ \A u, k : Away(u, k)' = Away(u, k)
           /\ AwayIo(t)' = AwayIo(t) /\ Away(t, "cancel")' = Away(t, "cancel")
<1>1. /\ kernel'.data = kernel.data /\ kernel'.reported = kernel.reported
      /\ kernel'.inside = kernel.inside /\ kernel'.toSubmit = kernel.toSubmit
      /\ kernel'.done = kernel.done
      /\ kernel'.cancelled \subseteq kernel.cancelled \cup kernel.inside
  BY DEF TInv, TypeOK, KernelType, SocketClosed
<1>2. KernelFits'
  <2>1. kernel'.cancelled \subseteq kernel'.inside /\ Once(kernel'.toSubmit)
    BY <1>1 DEF OwnInv, KernelFits
  <2> QED BY <1>1, <2>1, OpsKernel
<1>3. \A u, k : Away(u, k)' = Away(u, k)
  BY <1>1 DEF Away, N
<1> QED BY <1>2, <1>3 DEF AwayIo

\* The front queue, with IOCP: closed tasks wait for their operations.
LEMMA IocpFrontOwns ==
    ASSUME TInv, TInv', OwnInv, SchedInv, ~Flagged, backend = "iocp", NEW w \in Workers,
           IocpFront(w)
    PROVE  OwnInv'
<1>1. NextPending(w)
  BY DEF IocpFront
<1>2. PICK t \in Tasks : t = Head(queue.pending)
  BY <1>1, FrontFacts
<1>3. /\ Schedules(w) /\ queue.pending # <<>> /\ Tail(queue.pending) \in Seq(Tasks)
      /\ scenario' = scenario /\ backend' = backend /\ round'.harvest = round.harvest
      /\ Place(t) = "posted" /\ TaskFits(t) /\ OperationsFit(t)
      /\ task[t] \in TaskType /\ Queued(backend, task[t]) /\ task[t].ready = {}
      /\ (task[t].guard <=> task[t].status = "CLOSING")
      /\ "cancel" \notin task[t].locked /\ task[t].toSubmit = <<>>
  BY <1>1, <1>2, FrontFacts
<1>4. PICK r \in TaskType : r = task[t]
  BY <1>3
<1>5. /\ KernelFits' /\ \A u \in Tasks : u # t => \A k \in Kinds : Away(u, k)' = Away(u, k)
      /\ AwayIo(t)' = AwayIo(t) /\ Away(t, "cancel")' = Away(t, "cancel")
  <2>1. kernel' \in {kernel, SocketClosed(t)}
    BY <1>2 DEF IocpFront
  <2> QED BY <1>3, <2>1, SocketClosedKeeps
<1>6. \/ /\ ~Sleeps(t) /\ r.status # "CLOSING"
         /\ ToReady(t, WithEvents([r EXCEPT !.status = Awake(r.status)], r.pending,
                                  IsExpired(t)), Tail(queue.pending))
      \/ /\ r.status = "CLOSING" /\ UringAllOver(r, r.pending)
         /\ ToReady(t, WithEvents(Closed(r), r.pending, IsExpired(t)), Tail(queue.pending))
      \/ /\ r.status = "CLOSING" /\ ~UringAllOver(r, r.pending)
         /\ task' = [task EXCEPT ![t] = Closed(r)]
         /\ queue' = [queue EXCEPT !.pending = Tail(queue.pending),
                                   !.waiting = queue.waiting \ {t}]
      \/ ToSleep(t, r)
  <2>1. PICK q : q = Head(queue.pending)
    OBVIOUS
  <2>2. t = q
    BY <1>2, <2>1
  <2> QED BY <1>4, <2>1, <2>2 DEF IocpFront
<1>7. CASE /\ ~Sleeps(t) /\ r.status # "CLOSING"
           /\ ToReady(t, WithEvents([r EXCEPT !.status = Awake(r.status)], r.pending,
                                    IsExpired(t)), Tail(queue.pending))
  <2>1. PICK s \in TaskType : s = [r EXCEPT !.status = Awake(r.status)]
    BY <1>4, OperationFields, TaskUpdates
  <2>2. /\ s.status = "READY" /\ (s.guard <=> r.guard) /\ (s.isClosed <=> r.isClosed)
        /\ (s.inQueues <=> r.inQueues) /\ (s.sub <=> r.sub) /\ s.locked = r.locked
        /\ s.operations = r.operations /\ s.toSubmit = r.toSubmit /\ s.pending = r.pending
    BY <1>3, <1>4, <1>7, <2>1 DEF TaskType, Awake, Queued
  <2>3. s.sub /\ s.inQueues /\ ~s.isClosed /\ ~s.guard
    BY <1>3, <1>4, <1>7, <2>2 DEF Queued
  <2>4. ToReady(t, WithEvents(s, s.pending, IsExpired(t)), Tail(queue.pending))
    BY <1>7, <2>1, <2>2
  <2>5. AwayIo(t)' + Len(s.toSubmit) = AwayIo(t) + Len(task[t].toSubmit)
    BY <1>4, <1>5, <2>2
  <2> QED BY <1>1, <1>2, <1>4, <1>5, <2>2, <2>3, <2>4, <2>5, FrontReady
<1>8. CASE /\ r.status = "CLOSING" /\ UringAllOver(r, r.pending)
           /\ ToReady(t, WithEvents(Closed(r), r.pending, IsExpired(t)), Tail(queue.pending))
  <2>1. PICK s \in TaskType : s = Closed(r)
    BY <1>4, OperationUpdates
  <2>2. /\ s.status = "CLOSED" /\ (s.guard <=> r.guard) /\ s.isClosed /\ ~s.socket
        /\ (s.inQueues <=> r.inQueues) /\ (s.sub <=> r.sub) /\ s.locked = r.locked
        /\ s.operations = r.operations /\ s.toSubmit = r.toSubmit /\ s.pending = r.pending
    BY <2>1 DEF TaskType, Closed
  <2>3. s.sub /\ s.inQueues /\ s.isClosed /\ s.guard /\ UringAllOver(s, s.pending)
    BY <1>3, <1>4, <1>8, <2>2 DEF Queued, UringAllOver
  <2>4. ToReady(t, WithEvents(s, s.pending, IsExpired(t)), Tail(queue.pending))
    BY <1>8, <2>1, <2>2
  <2>5. AwayIo(t)' + Len(s.toSubmit) = AwayIo(t) + Len(task[t].toSubmit)
    BY <1>4, <1>5, <2>2
  <2>6. s.toSubmit = <<>>
    BY <1>3, <1>4, <2>2
  <2> QED BY <1>1, <1>2, <1>4, <1>5, <2>2, <2>3, <2>4, <2>5, <2>6, FrontReady
<1>9. CASE /\ r.status = "CLOSING" /\ ~UringAllOver(r, r.pending)
           /\ task' = [task EXCEPT ![t] = Closed(r)]
           /\ queue' = [queue EXCEPT !.pending = Tail(queue.pending),
                                     !.waiting = queue.waiting \ {t}]
  <2>1. PICK s \in TaskType : s = Closed(r)
    BY <1>4, OperationUpdates
  <2>2. PICK waits \in SUBSET Tasks : waits = queue.waiting \ {t}
    BY DEF TInv, TypeOK, QueueType
  <2>3. /\ task'[t] = s /\ \A u \in Tasks : u # t => task'[u] = task[u]
        /\ queue'.front = queue.front /\ queue'.pending = Tail(queue.pending)
        /\ queue'.ready = queue.ready /\ queue'.list = queue.list
        /\ queue'.waiting = waits
    <3>1. task' = [task EXCEPT ![t] = s]
          /\ queue' = [queue EXCEPT !.pending = Tail(queue.pending), !.waiting = waits]
      BY <1>9, <2>1, <2>2
    <3> QED BY <1>3, <3>1, LeavesPending, ZenonT(60) DEF TInv
  <2>4. /\ s.status = "CLOSED" /\ (s.guard <=> r.guard) /\ s.isClosed /\ ~s.socket
        /\ (s.inQueues <=> r.inQueues) /\ (s.sub <=> r.sub) /\ s.locked = r.locked
        /\ s.operations = r.operations /\ s.toSubmit = r.toSubmit /\ s.pending = r.pending
        /\ s.ready = r.ready
    BY <2>1 DEF TaskType, Closed
  <2>5. /\ QueuesApart' /\ SeatsApart' /\ Place(t)' = "nowhere"
        /\ \A u \in Tasks : u # t => Place(u)' = Place(u)
    BY <1>2, <1>3, <2>3, PostedToNowhere
  <2>6. TaskFits(t)'
    <3>1. s.guard /\ s.sub /\ s.inQueues
      BY <1>3, <1>4, <1>9, <2>4 DEF Queued
    <3>2. t \notin queue'.waiting
      BY <2>2, <2>3
    <3>3. s.ready = {} /\ s.toSubmit = <<>> /\ "cancel" \notin s.locked
          /\ s.operations # Cardinality(s.pending)
      BY <1>3, <1>4, <1>9, <2>4 DEF UringAllOver
    <3> QED BY <1>3, <2>3, <2>4, <2>5, <3>1, <3>2, <3>3 DEF TaskFits, Fits, Parked
  <2>7. OperationsFit(t)'
    BY <1>3, <1>4, <1>5, <2>3, <2>4, HandedOver
  <2>8. \A u \in Tasks : u # t => (u \in queue'.waiting <=> u \in queue.waiting)
    BY <2>2, <2>3
  <2> QED BY <1>3, <1>5, <2>3, <2>5, <2>6, <2>7, <2>8, OpsChange
<1>10. CASE ToSleep(t, r)
  <2>1. SameEvents([task[t] EXCEPT !.toSubmit = r.toSubmit], r)
    BY <1>4 DEF SameEvents, TaskType
  <2>2. AwayIo(t)' + Len(r.toSubmit) = AwayIo(t) + Len(task[t].toSubmit)
    BY <1>4, <1>5
  <2> QED BY <1>1, <1>2, <1>4, <1>5, <1>10, <2>1, <2>2, FrontSleeps
<1> QED BY <1>6, <1>7, <1>8, <1>9, <1>10

-----------------------------------------------------------------------------
(* The task in a worker's hands, without flags.                             *)

\* A task that is in its owner's callback, with io operations elsewhere.
OpsOwned(t, r, io) ==
    /\ r \in TaskType /\ Served(r) /\ r.ready = {} /\ "cancel" \notin r.locked
    /\ backend # "iouring" => r.toSubmit = <<>>
    /\ OperationFits(r, t, io, 0)

\* What has come back is taken off the count and unlocked.
LEMMA DumpFits ==
    ASSUME TInv, OwnInv, ~Flagged, NEW w \in Workers, At(w, "execute"), NEW t \in Tasks,
           t = Of(w), ~task[t].isClosed
    PROVE  /\ OpsOwned(t, UringProcessArgs(UringDump(Started(t)), task[t].ready), AwayIo(t))
           /\ Away(t, "cancel") = 0 /\ AwayIo(t) \in Nat
<1>1. PICK a \in TaskType : /\ a = Started(t) /\ Served(a) /\ SameEvents(task[t], a)
  BY StartedIsServed
<1>2. /\ task[t] \in TaskType /\ TaskFits(t) /\ OperationsFit(t) /\ Place(t) = "execute"
      /\ Called(backend, task[t])
  BY StartedIsServed, AwayBound
<1>3. "cancel" \notin task[t].locked /\ (backend # "iouring" => task[t].toSubmit = <<>>)
  BY <1>2 DEF TaskFits, Fits, Called
<1>4. PICK got \in SUBSET Kinds : got = task[t].ready
  BY <1>2, OperationFields
<1>5. PICK n \in Int : n = a.operations - Cardinality(got)
  BY <1>4, OperationFields, CountKinds
<1>6. PICK l \in SUBSET {"io", "cancel"} : l = IF got # {} THEN a.locked \ {"io"} ELSE a.locked
  BY OperationFields
<1>7. PICK d \in TaskType : d = UringDump(a)
  BY <1>4, OperationArgs
<1>8. PICK r \in TaskType : r = UringProcessArgs(d, got)
  BY OperationArgs
<1>9. /\ d.status = a.status /\ (d.guard <=> a.guard) /\ (d.sub <=> a.sub)
      /\ (d.inQueues <=> a.inQueues) /\ (d.isClosed <=> a.isClosed)
      /\ d.pending = a.pending /\ d.locked = a.locked /\ d.toSubmit = a.toSubmit
      /\ d.ready = {} /\ d.operations = n
  BY <1>1, <1>4, <1>5, <1>7 DEF UringDump, TaskType, SameEvents
<1>10. /\ r.status = a.status /\ (r.guard <=> a.guard) /\ (r.sub <=> a.sub)
       /\ (r.inQueues <=> a.inQueues) /\ (r.isClosed <=> a.isClosed)
       /\ r.pending = task[t].pending /\ r.locked = l /\ r.toSubmit = task[t].toSubmit
       /\ r.ready = {} /\ r.operations = n
  <2>1. r = [d EXCEPT !.locked = l]
    BY <1>6, <1>8, <1>9 DEF UringProcessArgs
  <2> QED BY <1>1, <1>9, <2>1 DEF TaskType, SameEvents
<1>11. Served(r) /\ "cancel" \notin r.locked /\ (backend # "iouring" => r.toSubmit = <<>>)
  BY <1>1, <1>3, <1>6, <1>10 DEF Served, SameEvents
<1>12. PICK io \in Nat, c \in Nat : io = AwayIo(t) /\ c = Away(t, "cancel")
  BY AwayTypes
<1>13. OperationFits(task[t], t, io, c)
  BY <1>2, <1>12 DEF OperationsFit
<1>14. PICK b1 \in Nat, b2 \in Nat, b3 \in Nat, m \in Nat :
          /\ b1 = Back(task[t], "io") /\ b2 = Back(task[t], "fail")
          /\ b3 = Back(task[t], "cancel") /\ m = Len(task[t].toSubmit)
  <2>1. task[t].toSubmit \in Seq(Tasks \X {"io"})
    BY <1>2, OperationFields
  <2> QED BY <2>1, BackTypes, LenProperties
<1>15. PICK x \in {0, 1} : x = N("io" \in task[t].locked)
  BY DEF N
<1>16. /\ io + m + b1 + b2 = x /\ c + b3 = 0 /\ task[t].operations = x
       /\ task[t].toSubmit \in {<<>>, <<<<t, "io">>>>}
  BY <1>3, <1>13, <1>14, <1>15 DEF OperationFits, N
<1>17. /\ Cardinality(got) = N("io" \in got) + N("fail" \in got) + N("cancel" \in got)
       /\ "cancel" \notin got
  BY <1>4, <1>14, <1>16, CountKinds DEF Back, N
<1>18. OperationFits(r, t, io, 0)
  <2>1. a.operations = x
    BY <1>1, <1>16 DEF SameEvents
  <2>2. a.locked = task[t].locked
    BY <1>1 DEF SameEvents
  <2>3. N("cancel" \in r.locked) = 0 /\ Back(r, "cancel") = 0
    <3>1. "cancel" \notin task[t].pending
      BY <1>14, <1>16 DEF Back, N
    <3> QED BY <1>10, <1>11, <3>1 DEF Back, N
  <2>4. CASE got = {}
    <3>1. Cardinality(got) = 0 /\ r.locked = task[t].locked /\ r.operations = x
      BY <1>5, <1>6, <1>10, <1>17, <2>1, <2>2, <2>4 DEF N
    <3>2. Back(r, "io") = b1 /\ Back(r, "fail") = b2
      BY <1>4, <1>10, <1>14, <2>4 DEF Back, N
    <3>3. Len(r.toSubmit) = m /\ r.toSubmit \in {<<>>, <<<<t, "io">>>>}
      BY <1>10, <1>14, <1>16
    <3>4. N("io" \in r.locked) = x
      BY <1>15, <3>1
    <3>5. io + Len(r.toSubmit) + Back(r, "io") + Back(r, "fail") = N("io" \in r.locked)
      BY <1>16, <3>2, <3>3, <3>4
    <3> QED BY <2>3, <3>1, <3>3, <3>4, <3>5 DEF OperationFits
  <2>5. CASE got # {}
    <3>1. "io" \in got \/ "fail" \in got
      BY <1>17, <2>5 DEF Kinds
    <3>2. b1 + b2 = N("io" \in got) + N("fail" \in got)
                    + N("io" \in task[t].pending) + N("fail" \in task[t].pending)
      BY <1>4, <1>14 DEF Back, N
    <3>3. /\ x = 1 /\ io = 0 /\ m = 0 /\ N("io" \in got) + N("fail" \in got) = 1
          /\ "io" \notin task[t].pending /\ "fail" \notin task[t].pending
      BY <1>16, <3>1, <3>2 DEF N
    <3>4. Cardinality(got) = 1
      BY <1>17, <3>3 DEF N
    <3>5. "io" \notin r.locked /\ r.operations = 0
      BY <1>5, <1>6, <1>10, <2>1, <2>5, <3>3, <3>4
    <3>6. Back(r, "io") = 0 /\ Back(r, "fail") = 0
      BY <1>10, <3>3 DEF Back, N
    <3>7. N("io" \in r.locked) = 0
      BY <3>5 DEF N
    <3>8. Len(r.toSubmit) = 0 /\ r.toSubmit \in {<<>>, <<<<t, "io">>>>}
      BY <1>10, <1>14, <1>16, <3>3
    <3> QED BY <2>3, <3>3, <3>5, <3>6, <3>7, <3>8 DEF OperationFits
  <2> QED BY <2>4, <2>5
<1>19. r = UringProcessArgs(UringDump(Started(t)), task[t].ready)
  BY <1>1, <1>4, <1>7, <1>8
<1>20. c = 0
  BY <1>16
<1>21. OpsOwned(t, r, io)
  BY <1>10, <1>11, <1>18 DEF OpsOwned
<1> QED BY <1>12, <1>19, <1>20, <1>21

\* A deadline or a socket is nothing to the operations.
LEMMA OwnedAside ==
    ASSUME TypeOK, ~Flagged, NEW t, NEW r, NEW io, OpsOwned(t, r, io)
    PROVE  /\ \A d \in scenario.deadlines \cup {Infinite} \cup {0} :
                 /\ OpsOwned(t, [r EXCEPT !.deadline = d], io)
                 /\ [r EXCEPT !.deadline = d].locked = r.locked
           /\ OpsOwned(t, [r EXCEPT !.socket = TRUE], io)
           /\ [r EXCEPT !.socket = TRUE].locked = r.locked
<1>1. r \in TaskType
  BY DEF OpsOwned
<1>2. ASSUME NEW s \in TaskType, s.status = r.status, s.guard <=> r.guard,
             s.sub <=> r.sub, s.inQueues <=> r.inQueues, s.isClosed <=> r.isClosed,
             SameEvents(r, s)
      PROVE  OpsOwned(t, s, io) /\ s.locked = r.locked
  BY <1>2 DEF OpsOwned, SameEvents, Served, OperationFits, Back
<1>3. ASSUME NEW d \in scenario.deadlines \cup {Infinite} \cup {0}
      PROVE  /\ OpsOwned(t, [r EXCEPT !.deadline = d], io)
             /\ [r EXCEPT !.deadline = d].locked = r.locked
  <2>1. PICK s \in TaskType : s = [r EXCEPT !.deadline = d]
    BY <1>1, DeadlineTypes
  <2>2. /\ s.status = r.status /\ (s.guard <=> r.guard)
        /\ (s.sub <=> r.sub) /\ (s.inQueues <=> r.inQueues) /\ (s.isClosed <=> r.isClosed)
        /\ SameEvents(r, s)
    BY <1>1, <2>1 DEF TaskType, SameEvents
  <2> QED BY <1>2, <2>1, <2>2
<1>4. /\ OpsOwned(t, [r EXCEPT !.socket = TRUE], io)
      /\ [r EXCEPT !.socket = TRUE].locked = r.locked
  <2>1. PICK s \in TaskType : s = [r EXCEPT !.socket = TRUE]
    BY <1>1, OperationUpdates
  <2>2. /\ s.status = r.status /\ (s.guard <=> r.guard)
        /\ (s.sub <=> r.sub) /\ (s.inQueues <=> r.inQueues) /\ (s.isClosed <=> r.isClosed)
        /\ SameEvents(r, s)
    BY <1>1, <2>1 DEF TaskType, SameEvents
  <2> QED BY <1>2, <2>1, <2>2
<1> QED BY <1>3, <1>4


\* A worker leaves the kernel as it is, or starts an operation there.
LEMMA ExecuteOps ==
    ASSUME TInv, TInv', OwnInv, ~Flagged, NEW w \in Workers, NEW t \in Tasks, t = Of(w),
           NEW s, NEW k, Execute(w, s, k), Away(t, "cancel") = 0,
           \/ k = kernel /\ OpsOwned(t, s, AwayIo(t))
           \/ /\ k = [kernel EXCEPT !.inside = kernel.inside \cup {<<t, "io">>}]
              /\ AwayIo(t) = 0 /\ OpsOwned(t, s, 1)
    PROVE  OwnInv'
<1>1. /\ kernel' = k /\ round' = round /\ scenario' = scenario
      /\ task' = [task EXCEPT ![t] = s]
  BY DEF Execute
<1>2. task'[t] = s
  BY <1>1 DEF TInv, TypeOK
<1>3. /\ Served(s) /\ "cancel" \notin s.locked /\ (backend # "iouring" => s.toSubmit = <<>>)
      /\ s.ready = {}
  BY DEF OpsOwned
<1>4. /\ kernel'.data = kernel.data /\ kernel'.reported = kernel.reported
      /\ kernel'.cancelled = kernel.cancelled
      /\ kernel'.toSubmit = kernel.toSubmit /\ kernel'.done = kernel.done
      /\ \/ kernel'.inside = kernel.inside
         \/ kernel'.inside = kernel.inside \cup {<<t, "io">>}
  <2>1. CASE k = kernel
    BY <1>1, <2>1
  <2>2. CASE k = [kernel EXCEPT !.inside = kernel.inside \cup {<<t, "io">>}]
    BY <1>1, <2>2 DEF TInv, TypeOK, KernelType
  <2> QED BY <2>1, <2>2
<1>5. KernelFits'
  <2>1. kernel'.cancelled \subseteq kernel'.inside /\ Once(kernel'.toSubmit)
    BY <1>4 DEF OwnInv, KernelFits
  <2>2. ASSUME NEW u \in Tasks, <<u, "fail">> \in In(kernel'.toSubmit) \cup kernel'.inside
        PROVE  <<u, "fail">> \in In(kernel.toSubmit) \cup kernel.inside
    <3>1. <<u, "fail">> # <<t, "io">>
      OBVIOUS
    <3> QED BY <1>4, <2>2, <3>1
  <2> QED BY <1>1, <1>4, <2>1, <2>2, OpsKernel
<1>6. ASSUME NEW u, NEW j, u # t \/ j # "io" PROVE Away(u, j)' = Away(u, j)
  <2>1. <<u, j>> # <<t, "io">>
    BY <1>6
  <2>2. <<u, j>> \in kernel'.inside <=> <<u, j>> \in kernel.inside
    BY <1>4, <2>1
  <2> QED BY <1>1, <1>4, <2>2 DEF Away, N
<1>7. \A u \in Tasks : u # t => AwayIo(u)' = AwayIo(u) /\ Away(u, "cancel")' = Away(u, "cancel")
  BY <1>6 DEF AwayIo
<1>8. OperationsFit(t)'
  <2>1. Away(t, "cancel")' = 0 /\ Away(t, "fail")' = Away(t, "fail")
    BY <1>6
  <2>2. CASE k = kernel /\ OpsOwned(t, s, AwayIo(t))
    <3>1. AwayIo(t)' = AwayIo(t)
      BY <1>1, <2>2 DEF AwayIo, Away, N
    <3>2. OperationFits(s, t, AwayIo(t), 0)
      BY <2>2 DEF OpsOwned
    <3> QED BY <1>2, <2>1, <3>1, <3>2 DEF OperationsFit
  <2>3. CASE /\ k = [kernel EXCEPT !.inside = kernel.inside \cup {<<t, "io">>}]
             /\ AwayIo(t) = 0 /\ OpsOwned(t, s, 1)
    <3>1. kernel'.inside = kernel.inside \cup {<<t, "io">>}
      BY <1>1, <2>3 DEF TInv, TypeOK, KernelType
    <3>2. Away(t, "io") = 0 /\ Away(t, "fail") = 0
      BY <2>3, AwayTypes DEF AwayIo
    <3>3. Away(t, "io")' = 1
      <4>1. <<t, "io">> \in kernel'.inside
        BY <3>1
      <4> QED BY <1>1, <1>4, <3>2, <4>1 DEF Away, N
    <3>4. AwayIo(t)' = 1
      BY <2>1, <3>2, <3>3 DEF AwayIo
    <3>5. OperationFits(s, t, 1, 0)
      BY <2>3 DEF OpsOwned
    <3> QED BY <1>2, <2>1, <3>4, <3>5 DEF OperationsFit
  <2> QED BY <2>2, <2>3
<1>9. ~Flagged'
  BY <1>1 DEF Flagged, backend
<1> QED BY <1>3, <1>5, <1>7, <1>8, <1>9, ExecuteOwns DEF EventsFit

\* A new operation is counted and locked.
LEMMA StartFits ==
    ASSUME ~Flagged, NEW t \in Tasks, NEW r, NEW io \in Nat, OpsOwned(t, r, io),
           "io" \notin r.locked
    PROVE  /\ io = 0
           /\ backend = "iouring" => OpsOwned(t, UringStart(t, r), 0)
           /\ OpsOwned(t, [r EXCEPT !.operations = r.operations + 1,
                                    !.locked = r.locked \cup {"io"}], 1)
<1>1. r \in TaskType /\ Served(r) /\ r.ready = {} /\ "cancel" \notin r.locked
      /\ (backend # "iouring" => r.toSubmit = <<>>) /\ OperationFits(r, t, io, 0)
  BY DEF OpsOwned
<1>2. PICK m \in Nat : m = Len(r.toSubmit)
  BY <1>1, OperationFields, LenProperties
<1>3. /\ io = 0 /\ m = 0 /\ Back(r, "io") = 0 /\ Back(r, "fail") = 0 /\ Back(r, "cancel") = 0
      /\ r.operations = 0
  <2>1. \A k : Back(r, k) \in Nat
    BY BackTypes
  <2>2. N("io" \in r.locked) = 0 /\ N("cancel" \in r.locked) = 0
    BY <1>1 DEF N
  <2> QED BY <1>1, <1>2, <2>1, <2>2 DEF OperationFits
<1>4. r.toSubmit = <<>>
  <2>1. Len(<<<<t, "io">>>>) = 1
    OBVIOUS
  <2>2. r.toSubmit \in {<<>>, <<<<t, "io">>>>}
    BY <1>1 DEF OperationFits
  <2>3. CASE r.toSubmit = <<<<t, "io">>>>
    <3>1. m = 1
      BY <1>2, <2>1, <2>3
    <3> QED BY <1>3, <3>1
  <2>4. CASE r.toSubmit = <<>>
    BY <2>4
  <2> QED BY <2>2, <2>3, <2>4
<1>5. PICK l : l = r.locked \cup {"io"}
  OBVIOUS
<1>6. N("io" \in l) = 1 /\ N("cancel" \in l) = 0 /\ "cancel" \notin l
  BY <1>1, <1>5 DEF N
<1>7. OpsOwned(t, [r EXCEPT !.operations = r.operations + 1, !.locked = r.locked \cup {"io"}], 1)
  <2>1. PICK s \in TaskType : s = [r EXCEPT !.operations = r.operations + 1,
                                            !.locked = r.locked \cup {"io"}]
    <3>1. r.operations + 1 \in Int /\ r.locked \cup {"io"} \in SUBSET {"io", "cancel"}
      BY <1>1, OperationFields
    <3> QED BY <1>1, <3>1, OperationUpdates
  <2>2. /\ s.status = r.status /\ (s.guard <=> r.guard) /\ (s.sub <=> r.sub)
        /\ (s.inQueues <=> r.inQueues) /\ (s.isClosed <=> r.isClosed)
        /\ s.pending = r.pending /\ s.ready = {} /\ s.toSubmit = <<>>
        /\ s.locked = l /\ s.operations = 1
    BY <1>1, <1>3, <1>4, <1>5, <2>1 DEF TaskType
  <2>3. OperationFits(s, t, 1, 0)
    <3>1. Len(s.toSubmit) = 0 /\ Back(s, "io") = 0 /\ Back(s, "fail") = 0 /\ Back(s, "cancel") = 0
      BY <1>1, <1>3, <2>2 DEF Back
    <3> QED BY <1>6, <2>2, <3>1 DEF OperationFits
  <2>4. Served(s)
    BY <1>1, <2>2 DEF Served
  <2> QED BY <1>6, <2>1, <2>2, <2>3, <2>4 DEF OpsOwned
<1>8. ASSUME backend = "iouring" PROVE OpsOwned(t, UringStart(t, r), 0)
  <2>1. PICK s \in TaskType : s = UringStart(t, r)
    BY <1>1, OperationArgs
  <2>2. /\ s.status = r.status /\ (s.guard <=> r.guard) /\ (s.sub <=> r.sub)
        /\ (s.inQueues <=> r.inQueues) /\ (s.isClosed <=> r.isClosed)
        /\ s.pending = r.pending /\ s.ready = {} /\ s.toSubmit = Append(r.toSubmit, <<t, "io">>)
        /\ s.locked = l /\ s.operations = 1
    BY <1>1, <1>3, <1>5, <2>1 DEF TaskType, UringStart
  <2>3. s.toSubmit = <<<<t, "io">>>> /\ Len(s.toSubmit) = 1
    BY <1>4, <2>2
  <2>4. OperationFits(s, t, 0, 0)
    <3>1. Back(s, "io") = 0 /\ Back(s, "fail") = 0 /\ Back(s, "cancel") = 0
      BY <1>1, <1>3, <2>2 DEF Back
    <3>2. s.toSubmit \in {<<>>, <<<<t, "io">>>>} /\ N("io" \in s.locked) = 1
          /\ N("cancel" \in s.locked) = 0
      BY <1>6, <2>2, <2>3
    <3>3. 0 + Len(s.toSubmit) + Back(s, "io") + Back(s, "fail") = N("io" \in s.locked)
      BY <2>3, <3>1, <3>2
    <3>4. 0 + Back(s, "cancel") = N("cancel" \in s.locked)
          /\ s.operations = N("io" \in s.locked) + N("cancel" \in s.locked)
      BY <2>2, <3>1, <3>2
    <3> QED BY <3>2, <3>3, <3>4 DEF OperationFits
  <2>5. Served(s)
    BY <1>1, <2>2 DEF Served
  <2> QED BY <1>6, <1>8, <2>1, <2>2, <2>4, <2>5 DEF OpsOwned
<1> QED BY <1>3, <1>7, <1>8

\* A close is nothing to the operations.
LEMMA ClosingFits ==
    ASSUME NEW t, NEW r, NEW io, OpsOwned(t, r, io)
    PROVE  OpsOwned(t, Closing(r), io)
<1>1. r \in TaskType /\ Served(r)
  BY DEF OpsOwned
<1>2. PICK s \in TaskType : s = Closing(r) /\ Served(s) /\ SameEvents(r, s)
  BY <1>1, ClosingIsServed
<1>3. OpsOwned(t, s, io)
  BY <1>2 DEF OpsOwned, SameEvents, OperationFits, Back
<1> QED BY <1>2, <1>3

\* A transfer is started only when none is under way, with io_uring.
LEMMA UringTransferFits ==
    ASSUME TypeOK, ~Flagged, backend = "iouring", NEW t \in Tasks, NEW r, NEW got,
           NEW io \in Nat, OpsOwned(t, r, io), "io" \notin r.locked
    PROVE  OpsOwned(t, UringTransfer(t, r, got), io)
<1>1. io = 0 /\ OpsOwned(t, UringStart(t, r), 0)
  BY StartFits
<1>2. OpsOwned(t, UringStart(t, [r EXCEPT !.socket = TRUE]), 0)
  <2>1. PICK s : s = [r EXCEPT !.socket = TRUE]
    OBVIOUS
  <2>2. OpsOwned(t, s, io) /\ "io" \notin s.locked
    BY <2>1, OwnedAside
  <2> QED BY <2>1, <2>2, StartFits
<1>3. OpsOwned(t, [r EXCEPT !.deadline = 0], io)
  BY OwnedAside
<1>4. \/ UringTransfer(t, r, got) = UringStart(t, r)
      \/ UringTransfer(t, r, got) = UringStart(t, [r EXCEPT !.socket = TRUE])
      \/ UringTransfer(t, r, got) = [r EXCEPT !.deadline = 0]
  BY DEF UringTransfer, UringSend, UringRecv, UringConnectStart, UringAccept
<1> QED BY <1>1, <1>2, <1>3, <1>4

\* The callback of a task, with io_uring.
LEMMA UringCallbackOwns ==
    ASSUME TInv, TInv', OwnInv, ~Flagged, backend = "iouring", NEW w \in Workers,
           At(w, "execute"), UringCallback(w)
    PROVE  OwnInv'
<1>1. PICK t \in Tasks : t = Of(w)
  BY HandIsFull
<1>2. ~task[t].isClosed
  BY <1>1 DEF UringCallback, Execute
<1>3. PICK got : got = task[t].ready
  OBVIOUS
<1>4. PICK r : r = UringProcessArgs(UringDump(Started(t)), got)
  OBVIOUS
<1>5. OpsOwned(t, r, AwayIo(t)) /\ Away(t, "cancel") = 0 /\ AwayIo(t) \in Nat /\ TypeOK
  BY <1>1, <1>2, <1>3, <1>4, DumpFits DEF TInv
<1>6. CASE Execute(w, Closing(r), kernel)
  BY <1>1, <1>5, <1>6, ClosingFits, ExecuteOps
<1>7. ASSUME NEW d \in scenario.deadlines \cup {Infinite}, NEW x, x = [r EXCEPT !.deadline = d],
             Execute(w, IF Side(t) = "timer" \/ "io" \in r.locked THEN x
                        ELSE UringTransfer(t, x, got), kernel)
      PROVE  OwnInv'
  <2>1. OpsOwned(t, x, AwayIo(t)) /\ x.locked = r.locked
    BY <1>5, <1>7, OwnedAside
  <2>2. "io" \notin r.locked => OpsOwned(t, UringTransfer(t, x, got), AwayIo(t))
    BY <1>5, <2>1, UringTransferFits
  <2>3. PICK s : /\ s = IF Side(t) = "timer" \/ "io" \in r.locked THEN x
                       ELSE UringTransfer(t, x, got)
                 /\ Execute(w, s, kernel)
    BY <1>7
  <2>4. OpsOwned(t, s, AwayIo(t))
    BY <2>1, <2>2, <2>3
  <2> QED BY <1>1, <1>5, <2>3, <2>4, ExecuteOps
<1>8. \/ Execute(w, Closing(r), kernel)
      \/ \E d \in scenario.deadlines \cup {Infinite} : \E x :
            /\ x = [r EXCEPT !.deadline = d]
            /\ Execute(w, IF Side(t) = "timer" \/ "io" \in r.locked THEN x
                          ELSE UringTransfer(t, x, got), kernel)
  BY <1>1, <1>3, <1>4 DEF UringCallback
<1> QED BY <1>6, <1>7, <1>8


\* An operation that a worker starts in the kernel.
StartedInside(t) == [kernel EXCEPT !.inside = kernel.inside \cup {<<t, "io">>}]

\* A transfer is started only when none is under way, with IOCP: it is in the
\* kernel at once, or it failed.
LEMMA IocpTransferFits ==
    ASSUME TypeOK, ~Flagged, backend = "iocp", NEW t \in Tasks, NEW r, NEW got,
           NEW io \in Nat, OpsOwned(t, r, io), "io" \notin r.locked,
           NEW y \in IocpTransfer(t, r, kernel, got)
    PROVE  \/ y[2] = kernel /\ OpsOwned(t, y[1], io)
           \/ y[2] = StartedInside(t) /\ io = 0 /\ OpsOwned(t, y[1], 1)
<1>1. ASSUME NEW s, OpsOwned(t, s, io), "io" \notin s.locked,
             y \in IocpStart(t, s, kernel)
      PROVE  \/ y[2] = kernel /\ OpsOwned(t, y[1], io)
             \/ y[2] = StartedInside(t) /\ io = 0 /\ OpsOwned(t, y[1], 1)
  <2>1. io = 0 /\ OpsOwned(t, [s EXCEPT !.operations = s.operations + 1,
                                        !.locked = s.locked \cup {"io"}], 1)
    BY <1>1, StartFits
  <2>2. OpsOwned(t, Closing(s), io)
    BY <1>1, ClosingFits
  <2>3. \/ y = <<[s EXCEPT !.operations = s.operations + 1,
                           !.locked = s.locked \cup {"io"}], StartedInside(t)>>
        \/ y = <<Closing(s), kernel>>
    BY <1>1 DEF IocpStart, StartedInside
  <2> QED BY <2>1, <2>2, <2>3
<1>2. CASE y \in IocpStart(t, r, kernel)
  BY <1>1, <1>2
<1>3. CASE y \in IocpStart(t, [r EXCEPT !.socket = TRUE], kernel)
  <2>1. PICK s : s = [r EXCEPT !.socket = TRUE]
    OBVIOUS
  <2>2. OpsOwned(t, s, io) /\ "io" \notin s.locked
    BY <2>1, OwnedAside
  <2> QED BY <1>1, <1>3, <2>1, <2>2
<1>4. CASE y = <<[r EXCEPT !.deadline = 0], kernel>>
  BY <1>4, OwnedAside
<1>5. \/ IocpTransfer(t, r, kernel, got) = IocpStart(t, r, kernel)
      \/ IocpTransfer(t, r, kernel, got) = IocpStart(t, [r EXCEPT !.socket = TRUE], kernel)
      \/ IocpTransfer(t, r, kernel, got) = {<<[r EXCEPT !.deadline = 0], kernel>>}
  BY DEF IocpTransfer, IocpSend, IocpRecv, IocpConnectStart, IocpAccept
<1> QED BY <1>2, <1>3, <1>4, <1>5

\* The callback of a task, with IOCP.
LEMMA IocpCallbackOwns ==
    ASSUME TInv, TInv', OwnInv, ~Flagged, backend = "iocp", NEW w \in Workers,
           At(w, "execute"), IocpCallback(w)
    PROVE  OwnInv'
<1>1. PICK t \in Tasks : t = Of(w)
  BY HandIsFull
<1>2. ~task[t].isClosed
  BY <1>1 DEF IocpCallback, Execute
<1>3. PICK got : got = task[t].ready
  OBVIOUS
<1>4. PICK r : r = UringProcessArgs(UringDump(Started(t)), got)
  OBVIOUS
<1>5. OpsOwned(t, r, AwayIo(t)) /\ Away(t, "cancel") = 0 /\ AwayIo(t) \in Nat /\ TypeOK
  BY <1>1, <1>2, <1>3, <1>4, DumpFits DEF TInv
<1>6. CASE Execute(w, Closing(r), kernel)
  BY <1>1, <1>5, <1>6, ClosingFits, ExecuteOps
<1>7. ASSUME NEW d \in scenario.deadlines \cup {Infinite}, NEW x, x = [r EXCEPT !.deadline = d],
             \/ Execute(w, x, kernel)
             \/ "io" \notin r.locked
                /\ \E y \in IocpTransfer(t, x, kernel, got) : Execute(w, y[1], y[2])
      PROVE  OwnInv'
  <2>1. OpsOwned(t, x, AwayIo(t)) /\ x.locked = r.locked
    BY <1>5, <1>7, OwnedAside
  <2>2. CASE Execute(w, x, kernel)
    BY <1>1, <1>5, <2>1, <2>2, ExecuteOps
  <2>3. ASSUME "io" \notin r.locked, NEW y \in IocpTransfer(t, x, kernel, got),
               Execute(w, y[1], y[2])
        PROVE  OwnInv'
    <3>1. PICK s, k : s = y[1] /\ k = y[2]
      OBVIOUS
    <3>2. \/ k = kernel /\ OpsOwned(t, s, AwayIo(t))
          \/ k = StartedInside(t) /\ AwayIo(t) = 0 /\ OpsOwned(t, s, 1)
      BY <1>5, <2>1, <2>3, <3>1, IocpTransferFits
    <3>3. Execute(w, s, k)
      BY <2>3, <3>1
    <3> QED BY <1>1, <1>5, <3>2, <3>3, ExecuteOps DEF StartedInside
  <2> QED BY <1>7, <2>2, <2>3
<1>8. \/ Execute(w, Closing(r), kernel)
      \/ \E d \in scenario.deadlines \cup {Infinite} : \E x :
            /\ x = [r EXCEPT !.deadline = d]
            /\ \/ Execute(w, x, kernel)
               \/ "io" \notin r.locked
                  /\ \E y \in IocpTransfer(t, x, kernel, got) : Execute(w, y[1], y[2])
  <2>1. r = IocpProcessArgs(IocpDump(Started(t)), got)
    BY <1>4 DEF IocpProcessArgs, IocpDump
  <2>2. \/ Execute(w, Closing(r), kernel)
        \/ \E x \in {[r EXCEPT !.deadline = d] : d \in scenario.deadlines \cup {Infinite}} :
              IF Side(t) = "timer" \/ "io" \in r.locked THEN Execute(w, x, kernel)
              ELSE \E y \in IocpTransfer(t, x, kernel, got) : Execute(w, y[1], y[2])
    BY <1>1, <1>3, <2>1, Zenon DEF IocpCallback
  <2>3. CASE \E x \in {[r EXCEPT !.deadline = d] : d \in scenario.deadlines \cup {Infinite}} :
              IF Side(t) = "timer" \/ "io" \in r.locked THEN Execute(w, x, kernel)
              ELSE \E y \in IocpTransfer(t, x, kernel, got) : Execute(w, y[1], y[2])
    <3>1. PICK x \in {[r EXCEPT !.deadline = d] : d \in scenario.deadlines \cup {Infinite}} :
              IF Side(t) = "timer" \/ "io" \in r.locked THEN Execute(w, x, kernel)
              ELSE \E y \in IocpTransfer(t, x, kernel, got) : Execute(w, y[1], y[2])
      BY <2>3
    <3>2. \/ Execute(w, x, kernel)
          \/ "io" \notin r.locked
             /\ \E y \in IocpTransfer(t, x, kernel, got) : Execute(w, y[1], y[2])
      BY <3>1, Zenon
    <3> QED BY <3>1, <3>2
  <2> QED BY <2>2, <2>3
<1> QED BY <1>6, <1>7, <1>8

\* The last execution takes off what has come back: all there was.
LEMMA OpsLastOwns ==
    ASSUME TInv, TInv', OwnInv, ~Flagged, NEW w \in Workers,
           LastExecute(w, UringCloseEnd(task[Of(w)]))
    PROVE  OwnInv'
<1>1. PICK t \in Tasks : /\ t = Of(w) /\ task[t] \in TaskType /\ TaskFits(t)
                         /\ Place(t) = "execute" /\ task[t].isClosed
  BY WorkerHolds DEF LastExecute, At, HandPCs
<1>2. Called(backend, task[t]) /\ backend \in {"iouring", "iocp"}
  BY <1>1, OpsBackends DEF TaskFits, Fits
<1>3. task[t].operations = Cardinality(task[t].ready)
  BY <1>1, <1>2 DEF Called
<1>4. PICK d \in TaskType : d = UringDump(task[t])
  <2>1. task[t].ready \in SUBSET Kinds
    BY <1>1, OperationFields
  <2> QED BY <1>1, <2>1, OperationArgs
<1>5. PICK n \in Int : n = Cardinality(task[t].ready) /\ n = task[t].operations
  BY <1>1, <1>3, OperationFields
<1>6. d = [task[t] EXCEPT !.operations = 0, !.ready = {}]
  <2>1. task[t].operations - Cardinality(task[t].ready) = 0
    BY <1>5
  <2>2. d = [task[t] EXCEPT !.operations = task[t].operations - Cardinality(task[t].ready),
                            !.ready = {}]
    BY <1>4 DEF UringDump
  <2> QED BY <2>1, <2>2
<1>7. PICK r \in TaskType : r = UringCloseEnd(task[t])
  <2>1. {} \in SUBSET {"io", "cancel"}
    OBVIOUS
  <2> QED BY <1>4, <2>1, OperationUpdates DEF UringCloseEnd
<1>8. /\ r.status = task[t].status /\ (r.guard <=> task[t].guard)
      /\ (r.isClosed <=> task[t].isClosed) /\ (r.socket <=> task[t].socket)
      /\ r.pending = task[t].pending /\ r.ready = {} /\ r.locked = {}
      /\ r.operations = 0 /\ r.toSubmit = task[t].toSubmit
  <2>1. r = [d EXCEPT !.locked = {}]
    BY <1>4, <1>7 DEF UringCloseEnd
  <2> QED BY <1>1, <1>6, <2>1 DEF TaskType
<1>9. AwayIo(t) = 0 /\ Away(t, "cancel") = 0
  <2>1. PICK io \in Nat, c \in Nat : io = AwayIo(t) /\ c = Away(t, "cancel")
    BY AwayTypes
  <2>2. ~(io + c >= 1)
    BY <1>1, <2>1, TokenIsLive
  <2> QED BY <2>1, <2>2
<1> QED BY <1>1, <1>7, <1>8, <1>9, LastOwns

-----------------------------------------------------------------------------
(* All steps.                                                               *)

\* Start(), Stop() and the time do not touch the tasks.
LEMMA ControlOwns ==
    ASSUME TInv, TInv', OwnInv, SchedInv,
           Start(scenario.crew) \/ Stop \/ StopWorkers \/ StopJoin \/ Tick \/ UNCHANGED vars
    PROVE  OwnInv'
<1>1. scenario' = scenario /\ task' = task /\ queue' = queue /\ KernelView' = KernelView
  BY DEF Start, Stop, StopWorkers, StopJoin, Tick, vars, KernelView
<1>2. \A p \in Threads : \/ thread'[p] = thread[p]
                         \/ thread[p].pc \notin HandPCs /\ thread'[p].pc \notin HandPCs
  <2>1. CASE Start(scenario.crew)
    <3>1. \A w \in Workers : thread[w].pc = "done"
      BY <2>1 DEF Start, SchedInv, CrewWorks
    <3>2. \A p \in Threads : thread'[p] = thread[p]
             \/ (p \in scenario.crew /\ thread'[p].pc = "elect")
      BY <2>1 DEF Start, NewThread
    <3>3. scenario.crew \in SUBSET Workers
      BY ScenariosAssumption DEF TInv, TypeOK
    <3> QED BY <3>1, <3>2, <3>3 DEF HandPCs
  <2>2. CASE Stop \/ StopWorkers \/ StopJoin \/ Tick \/ UNCHANGED vars
    BY <2>2 DEF Stop, StopWorkers, StopJoin, Tick, vars
  <2> QED BY <2>1, <2>2
<1>3. QueuesApart' /\ Posted' = Posted /\ Due' = Due /\ QueueFields'
  BY <1>1, SameSeats DEF OwnInv, TInv, TypeOK, QueueFields, QueueType
<1>4. \A u \in Tasks : SameSeat(u)
  BY <1>2, <1>3 DEF SameSeat, Holds
<1>5. Posted' \subseteq Tasks /\ Due' \subseteq Tasks
  <2>1. \A s \in Seq(Tasks) : In(s) \subseteq Tasks
    BY ElementOfSeq, LenProperties DEF In
  <2> QED BY <1>3, <2>1 DEF QueueFields, Posted, Due
<1>6. SeatsApart' /\ \A u \in Tasks : Place(u)' = Place(u)
  BY <1>4, <1>5, NobodyMoves DEF OwnInv
<1> QED BY <1>1, <1>3, <1>6, NothingChanges

\* Every step of a backend keeps the invariant.
LEMMA BackendOwns ==
    ASSUME TInv, TInv', OwnInv, SchedInv, NEW w \in Workers, BackendStep(w)
    PROVE  OwnInv'
<1>1. CASE ExpireStep(w)
  BY <1>1, ExpireTopOwns, PublishOwns, DecideOwns DEF ExpireStep
<1>2. CASE EventStep(w)
  <2>1. CASE Flagged
    BY <1>2, <2>1, FlagEventOwns DEF EventStep, Flagged
  <2>2. CASE ~Flagged
    BY <1>2, <2>2, UringEventOwns, IocpEventOwns DEF EventStep, Flagged
  <2> QED BY <2>1, <2>2
<1>3. CASE FrontStep(w)
  BY <1>3, EpollFrontOwns, UringFrontOwns, IocpFrontOwns DEF FrontStep, Flagged
<1>4. CASE HarvestStep(w)
  BY <1>4, EpollHarvestOwns, OpsHarvestOwns DEF HarvestStep, Flagged
<1>5. CASE PollStep(w)
  BY <1>5, EpollPollOwns, SubmitOwns, UringPollOwns DEF PollStep, Flagged
<1>6. CASE OwnerStep(w)
  <2>1. At(w, "execute")
    BY <1>6, OwnerExecutes DEF Execute
  <2>2. CASE Flagged
    BY <1>6, <2>1, <2>2, CallbackOwns DEF OwnerStep, Flagged
  <2>3. CASE ~Flagged
    BY <1>6, <2>1, <2>3, UringCallbackOwns, IocpCallbackOwns DEF OwnerStep, Flagged
  <2> QED BY <2>2, <2>3
<1>7. CASE LastStep(w)
  BY <1>7, FlagLastOwns, OpsLastOwns DEF LastStep, Flagged
<1> QED BY <1>1, <1>2, <1>3, <1>4, <1>5, <1>6, <1>7, BackendCases

\* Every step of the core keeps it.
LEMMA NextOwns ==
    ASSUME TInv, TInv', OwnInv, SchedInv, [Next]_vars
    PROVE  OwnInv'
<1>1. CASE CommonNext
  <2>1. ASSUME NEW c \in Clients, NEW t \in Tasks, ClientCall(c, t) PROVE OwnInv'
    BY <2>1, PostOwns, PostCloseOwns, PostWakeupOwns DEF ClientCall, Threads
  <2>2. ASSUME NEW p \in Threads, ThreadStep(p) PROVE OwnInv'
    BY <2>2, PushOwns, SignalOwns DEF ThreadStep
  <2>3. ASSUME NEW w \in Workers, WorkerStep(w) PROVE OwnInv'
    <3>1. CASE PostClose(w, Of(w))
      <4>1. w \in Threads /\ Of(w) \in Tasks
        BY <3>1, ThreadsAssumption DEF PostClose, TInv, HandsAreFull, HandPCs, Threads, At, Of
      <4> QED BY <3>1, <4>1, PostCloseOwns
    <3>2. CASE ThreadStep(w)
      BY <3>2, <2>2 DEF Threads
    <3>3. CASE \/ ScheduleStart(w) \/ ScheduleEnd(w) \/ SignalReady(w) \/ WorkerExit(w)
               \/ WaitReady(w) \/ Collect(w)
      BY <3>3, QuietWorkerOwns
    <3>4. CASE Pop(w) \/ Return(w) \/ Reattach(w) \/ Repost(w) \/ Release(w)
      BY <3>4, PopOwns, ReturnOwns, ReattachOwns, RepostOwns, ReleaseOwns
    <3> QED BY <2>3, <3>1, <3>2, <3>3, <3>4 DEF WorkerStep
  <2>4. CASE StopStart \/ StopNext \/ Tick
    BY <2>4, ControlOwns DEF StopStart, StopNext
  <2> QED BY <1>1, <2>1, <2>2, <2>3, <2>4 DEF CommonNext, Threads
<1>2. ASSUME NEW w \in Workers, BackendStep(w) PROVE OwnInv'
  BY <1>2, BackendOwns
<1>3. CASE EpollKernel
  BY <1>3, PeerOwns DEF EpollKernel, Flagged
<1>4. CASE UringKernel \/ IocpKernel
  <2>1. ~Flagged
    BY <1>4 DEF UringKernel, IocpKernel, Flagged
  <2>2. PICK op \in kernel.inside \cup kernel.cancelled : Complete(op) \/ CompleteInternal(op)
    BY <1>4 DEF UringKernel, IocpKernel, KernelWork
  <2>3. op \in kernel.inside
    BY <2>2 DEF OwnInv, KernelFits
  <2> QED BY <2>1, <2>2, <2>3, CompleteOwns
<1>5. CASE UNCHANGED vars
  BY <1>5, ControlOwns
<1> QED BY <1>1, <1>2, <1>3, <1>4, <1>5 DEF Next

\* A new task is nobody's.
LEMMA InitOwns == Init => OwnInv
<1> SUFFICES ASSUME Init PROVE OwnInv
  OBVIOUS
<1>1. queue.front = <<>> /\ queue.pending = <<>> /\ queue.list = <<>> /\ queue.ready = <<>>
      /\ queue.waiting = {}
  BY DEF Init
<1>2. QueuesApart /\ Posted = {} /\ Due = {}
  BY <1>1 DEF QueuesApart, Distinct, Posted, Due, In
<1>3. \A p \in Threads : thread[p].pc \in {"idle", "done"}
  BY DEF Init, NewThread, Idle
<1>4. \A t : \A p \in Threads : ~Holds(p, t)
  BY <1>3 DEF Holds, HandPCs
<1>5. SeatsApart /\ \A t \in Tasks : Place(t) = "nowhere"
  BY <1>2, <1>4 DEF SeatsApart, Held, Place
<1>6. /\ kernel.data = {} /\ kernel.inside = {} /\ kernel.done = {} /\ kernel.cancelled = {}
      /\ \A t \in Tasks : kernel.reported[t] = {}
      /\ round.harvest = {}
  BY DEF Init, NewRound
<1>7. /\ Flagged => kernel.toSubmit = <<>>
      /\ kernel.toSubmit \in {<<>>, <<<<NoTask, "signal">>>>}
  <2>1. kernel.toSubmit = IF backend = "iouring" THEN <<<<NoTask, "signal">>>> ELSE <<>>
    BY DEF Init
  <2> QED BY <2>1 DEF Flagged
<1>8. /\ Once(kernel.toSubmit)
      /\ \A t \in Tasks : \A k : k # "signal" => <<t, k>> \notin In(kernel.toSubmit)
  BY <1>7 DEF Once, In
<1>9. KernelFits
  BY <1>6, <1>7, <1>8 DEF KernelFits
<1>10. ASSUME NEW t \in Tasks PROVE TaskFits(t) /\ EventsFit(t)
  <2>1. task[t] = NewTask
    BY DEF Init
  <2>2. TaskFits(t)
    BY <1>1, <1>5, <2>1 DEF TaskFits, Fits, Blank, NewTask
  <2>3. CASE Flagged
    BY <1>6, <2>1, <2>2, <2>3 DEF EventsFit, FlagsFit, FlagFits, NewTask, Harvested
  <2>4. CASE ~Flagged
    <3>1. \A k : k # "signal" => Away(t, k) = 0
      BY <1>6, <1>8 DEF Away, N
    <3>2. AwayIo(t) = 0 /\ Away(t, "cancel") = 0
      BY <3>1 DEF AwayIo
    <3>3. OperationsFit(t)
      BY <2>1, <3>2 DEF OperationsFit, OperationFits, NewTask, Back, N
    <3> QED BY <2>2, <2>4, <3>3 DEF EventsFit
  <2> QED BY <2>2, <2>3, <2>4
<1> QED BY <1>2, <1>5, <1>9, <1>10 DEF OwnInv

\* A task is in one queue, one thread's hands or none, its fields are what they
\* are to be there, and each of its flags and operations is in one place.
THEOREM TasksAreOwned == Spec => []OwnInv
<1>1. Init => OwnInv
  BY InitOwns
<1>2. TInv /\ TInv' /\ SchedInv /\ OwnInv /\ [Next]_vars => OwnInv'
  BY NextOwns
<1> QED BY <1>1, <1>2, SchedulesAlone, PTL DEF Spec

-----------------------------------------------------------------------------
(* What the invariant says of the core.                                     *)

\* A thread with a task is where the task is.
LEMMA HandHasTask ==
    ASSUME TInv, OwnInv, NEW p \in Threads, thread[p].pc \in HandPCs
    PROVE  Of(p) \in Tasks /\ Holds(p, Of(p)) /\ Place(Of(p)) = thread[p].pc /\ TaskFits(Of(p))
<1>1. Of(p) \in Tasks
  BY DEF TInv, HandsAreFull, Of
<1>2. Holds(p, Of(p))
  BY DEF Holds, Of
<1> QED BY <1>1, <1>2, PlaceOfHand DEF OwnInv

\* A sleeping task is with the sched-thread alone, and a CLOSED one is closed.
LEMMA StatusTells ==
    ASSUME OwnInv, NEW t \in Tasks
    PROVE  /\ task[t].status = "WAITING" => Place(t) = "nowhere"
           /\ task[t].status = "CLOSED" => task[t].isClosed
<1>1. TaskFits(t) /\ Place(t) \in Places
  BY FitsParts
<1> QED BY <1>1 DEF TaskFits, Fits, Queued, Called, Running, Parked, Places, HandPCs

\* The copies of a task in a queue of different tasks.
LEMMA CopiesAreOne ==
    ASSUME NEW S, NEW s \in Seq(S), Distinct(s), NEW t
    PROVE  Copies(t, s) = N(t \in In(s))
<1>1. PICK X : X = {i \in DOMAIN s : s[i] = t}
  OBVIOUS
<1>2. Copies(t, s) = Cardinality(X)
  BY <1>1 DEF Copies
<1>3. CASE t \in In(s)
  <2>1. PICK i \in DOMAIN s : s[i] = t
    BY <1>3 DEF In
  <2>2. X = {i}
    BY <1>1, <2>1 DEF Distinct
  <2> QED BY <1>2, <1>3, <2>2, FS_Singleton DEF N
<1>4. CASE t \notin In(s)
  <2>1. X = {}
    BY <1>1, <1>4 DEF In
  <2> QED BY <1>2, <1>4, <2>1, FS_EmptySet DEF N
<1> QED BY <1>3, <1>4

\* A queue has a task at most once.
LEMMA QueueCopies ==
    ASSUME TInv, OwnInv, NEW t \in Tasks
    PROVE  /\ Copies(t, queue.front) = N(t \in In(queue.front))
           /\ Copies(t, queue.pending) = N(t \in In(queue.pending))
           /\ Copies(t, queue.list) = N(t \in In(queue.list))
           /\ Copies(t, queue.ready) = N(t \in In(queue.ready))
           /\ Copies(t, queue.front) + Copies(t, queue.pending) = N(t \in Posted)
           /\ Copies(t, queue.list) + Copies(t, queue.ready) = N(t \in Due)
<1>1. QueueFields
  BY QueueTypes DEF TInv
<1>2. QueuesApart
  BY DEF OwnInv
<1>3. /\ Copies(t, queue.front) = N(t \in In(queue.front))
      /\ Copies(t, queue.pending) = N(t \in In(queue.pending))
      /\ Copies(t, queue.list) = N(t \in In(queue.list))
      /\ Copies(t, queue.ready) = N(t \in In(queue.ready))
  BY <1>1, <1>2, CopiesAreOne DEF QueueFields, QueuesApart
<1>4. /\ N(t \in In(queue.front)) + N(t \in In(queue.pending)) = N(t \in Posted)
      /\ N(t \in In(queue.list)) + N(t \in In(queue.ready)) = N(t \in Due)
  BY <1>2 DEF QueuesApart, Posted, Due, N
<1> QED BY <1>3, <1>4

\* A task is in one thread's hands at most.
LEMMA HandsOfTask ==
    ASSUME TInv, OwnInv, NEW t \in Tasks
    PROVE  /\ InHands(t) = {} \/ \E p \in Threads : InHands(t) = {p}
           /\ InHands(t) = {} <=> ~Held(t)
<1>1. InHands(t) = {p \in Threads : Holds(p, t)}
  BY DEF InHands, Holds, HandPCs, Of
<1>2. \A p, q \in Threads : Holds(p, t) /\ Holds(q, t) => p = q
  BY DEF OwnInv, SeatsApart
<1>3. CASE Held(t)
  <2>1. PICK p \in Threads : Holds(p, t)
    BY <1>3 DEF Held
  <2>2. InHands(t) = {p}
    BY <1>1, <1>2, <2>1
  <2> QED BY <1>3, <2>2
<1>4. CASE ~Held(t)
  BY <1>1, <1>4 DEF Held
<1> QED BY <1>3, <1>4

\* A task is in one queue or in one thread's hands, and a sleeping one in none.
THEOREM TaskHasOneOwner == Spec => []OneOwner
<1>1. TInv /\ OwnInv => OneOwner
  <2> SUFFICES ASSUME TInv, OwnInv, NEW t \in Tasks
               PROVE  /\ InQueues(t) + Cardinality(InHands(t)) <= 1
                      /\ task[t].status = "WAITING" => InQueues(t) = 0 /\ InHands(t) = {}
    BY DEF OneOwner
  <2>1. InQueues(t) = N(t \in Posted) + N(t \in Due)
    <3>1. PICK a \in Nat, b \in Nat, c \in Nat, d \in Nat :
             /\ a = Copies(t, queue.front) /\ b = Copies(t, queue.pending)
             /\ c = Copies(t, queue.list) /\ d = Copies(t, queue.ready)
      BY QueueCopies DEF N
    <3>2. a + b = N(t \in Posted) /\ c + d = N(t \in Due)
      BY <3>1, QueueCopies
    <3>3. InQueues(t) = a + b + c + d
      BY <3>1 DEF InQueues
    <3> QED BY <3>1, <3>2, <3>3
  <2>2. /\ ~(t \in Posted /\ t \in Due)
        /\ Held(t) => t \notin Posted /\ t \notin Due
    BY DEF OwnInv, SeatsApart
  <2>3. Cardinality(InHands(t)) = N(Held(t))
    BY HandsOfTask, FS_EmptySet, FS_Singleton DEF N
  <2>4. InQueues(t) + Cardinality(InHands(t)) <= 1
    BY <2>1, <2>2, <2>3 DEF N
  <2>5. ASSUME task[t].status = "WAITING" PROVE InQueues(t) = 0 /\ InHands(t) = {}
    <3>1. Place(t) = "nowhere"
      BY <2>5, StatusTells
    <3>2. t \notin Posted /\ t \notin Due /\ ~Held(t)
      BY <3>1, SeatsHavePlaces DEF OwnInv, PlaceIsSeat
    <3> QED BY <2>1, <3>2, HandsOfTask DEF N
  <2> QED BY <2>4, <2>5
<1> QED BY <1>1, SchedulesAlone, TasksAreOwned, PTL

\* A sleeping task with data has got the flag, or is going to.
THEOREM EdgesAreKept == Spec => []NoEdgeLost
<1>1. TInv /\ OwnInv => NoEdgeLost
  <2> SUFFICES ASSUME TInv, OwnInv, NEW t \in kernel.data, Flagged, Flag(t) \in task[t].locked,
                      task[t].status \notin {"CLOSING", "CLOSED"}
               PROVE  Flag(t) \in kernel.reported[t] \cup Harvested(t) \cup task[t].pending
                                  \cup task[t].ready
    BY DEF NoEdgeLost
  <2>1. t \in Tasks
    BY DEF TInv, TypeOK, KernelType
  <2>2. FlagsFit(t)
    BY <2>1 DEF OwnInv, EventsFit
  <2> QED BY <2>2 DEF FlagsFit, FlagFits
<1> QED BY <1>1, SchedulesAlone, TasksAreOwned, PTL


\* The assertions of IOTask.cpp and of PrivScheduleDo().
LEMMA TasksAssert ==
    ASSUME TInv, OwnInv
    PROVE  TaskAssertions
<1>1. ASSUME NEW t \in Tasks, task[t].status \in {"CLOSING", "CLOSED"} PROVE task[t].guard
  BY <1>1 DEF OwnInv, TaskFits, Fits
<1>2. ASSUME NEW w \in Workers, At(w, "execute")
      PROVE  LET r == task[Of(w)] IN
             /\ r.inQueues /\ r.sub /\ r.status # "PENDING"
             /\ r.isClosed <=> r.status = "CLOSED"
             /\ r.isClosed => r.pending = {} /\ r.toSubmit = <<>>
                              /\ (~Flagged => r.operations = Cardinality(r.ready))
  <2>1. PICK t \in Tasks : t = Of(w) /\ TaskFits(t) /\ Place(t) = "execute"
    BY <1>2, HandHasTask DEF Threads, At, HandPCs
  <2>2. Called(backend, task[t])
    BY <2>1 DEF TaskFits, Fits
  <2>3. ~Flagged => backend \in {"iouring", "iocp"}
    BY OpsBackends
  <2> QED BY <2>1, <2>2, <2>3 DEF Called
<1>3. ASSUME NEW p \in Threads, At(p, "push") PROVE task[Of(p)].inQueues
  BY <1>3, HandHasTask DEF At, HandPCs, TaskFits, Fits, Queued
<1>4. ASSUME NEW w \in Workers, At(w, "callback") PROVE ~task[Of(w)].inQueues
  BY <1>4, HandHasTask DEF Threads, At, HandPCs, TaskFits, Fits, Running
<1>5. ASSUME NEW w \in Workers, At(w, "attach")
      PROVE  task[Of(w)].pending = {} /\ task[Of(w)].ready = {}
  BY <1>5, HandHasTask DEF Threads, At, HandPCs, TaskFits, Fits, Blank
<1> QED BY <1>1, <1>2, <1>3, <1>4, <1>5 DEF TaskAssertions

\* The assertions of PrivScheduleDo() about the tasks it takes.
LEMMA ScheduleAsserts ==
    ASSUME TInv, OwnInv
    PROVE  ScheduleAssertions
<1>1. ASSUME NEW t \in Tasks
      PROVE  /\ TaskFits(t) /\ Place(t) \in Places
             /\ Copies(t, queue.front) + Copies(t, queue.pending) > 0 => Place(t) = "posted"
             /\ Copies(t, queue.list) + Copies(t, queue.ready) > 0 => Place(t) = "due"
  <2>1. /\ Copies(t, queue.front) + Copies(t, queue.pending) > 0 => t \in Posted
        /\ Copies(t, queue.list) + Copies(t, queue.ready) > 0 => t \in Due
    BY QueueCopies DEF N
  <2> QED BY <2>1, FitsParts
<1>2. ASSUME NEW t \in Tasks, Copies(t, queue.front) + Copies(t, queue.pending) > 0
      PROVE  /\ task[t].status \notin {"WAITING", "CLOSED"}
             /\ ~Flagged => task[t].ready = {} /\ "cancel" \notin task[t].locked
  <2>1. TaskFits(t) /\ Place(t) = "posted"
    BY <1>1, <1>2
  <2>2. ~Flagged => backend \in {"iouring", "iocp"}
    BY OpsBackends
  <2> QED BY <2>1, <2>2 DEF TaskFits, Fits, Queued
<1>3. ASSUME NEW t \in Tasks, Copies(t, queue.list) + Copies(t, queue.ready) > 0
      PROVE  t \notin queue.waiting
  BY <1>1, <1>3 DEF TaskFits, Fits
<1>4. ASSUME NEW t \in queue.waiting
      PROVE  /\ task[t].status \notin {"PENDING", "CLOSED"} /\ task[t].deadline # Infinite
             /\ task[t].status = "WAITING" => task[t].pending = {}
  <2>1. t \in Tasks
    BY DEF TInv, TypeOK, QueueType
  <2>2. TaskFits(t)
    BY <2>1 DEF OwnInv
  <2>3. task[t].status = "WAITING" => Place(t) = "nowhere"
    BY <2>1, StatusTells
  <2> QED BY <2>2, <2>3 DEF TaskFits, Fits, Parked
<1>5. ASSUME NEW t \in Tasks, Flagged, Harvested(t) # {} PROVE task[t].status # "CLOSED"
  <2>1. FlagsFit(t)
    BY <1>5 DEF OwnInv, EventsFit
  <2> QED BY <1>5, <2>1, StatusTells DEF FlagsFit, FlagFits
<1> QED BY <1>2, <1>3, <1>4, <1>5 DEF ScheduleAssertions

\* None of the assertions of IOTask and of PrivScheduleDo() about their tasks
\* fails, with any of the backends and in any order of posts, closes, wakeups
\* and events.
THEOREM AssertionsAreKept == Spec => []AssertionsHold
<1>1. TInv /\ OwnInv => AssertionsHold
  BY TasksAssert, ScheduleAsserts DEF AssertionsHold
<1> QED BY <1>1, SchedulesAlone, TasksAreOwned, PTL

\* An operation of a task that the task does not have itself is Away.
LEMMA AwayIsCounted ==
    ASSUME TInv, ~Flagged, NEW t \in Tasks, AwayIo(t) + Away(t, "cancel") < 1,
           NEW op \in In(kernel.toSubmit) \cup kernel.inside \cup kernel.done \cup round.harvest
    PROVE  op[1] # t
<1> SUFFICES ASSUME op[1] = t PROVE FALSE
  OBVIOUS
<1>1. op \in Operations
  <2>1. \A s \in Seq(Operations) : In(s) \subseteq Operations
    BY ElementOfSeq, LenProperties DEF In
  <2>2. kernel \in KernelType /\ round \in RoundType
    BY DEF TInv, TypeOK
  <2> QED BY <2>1, <2>2 DEF KernelType, RoundType, Harvests
<1>2. PICK k \in Kinds : op = <<t, k>>
  <2>1. t # NoTask
    BY NoTaskAssumption
  <2> QED BY <1>1, <2>1 DEF Operations, SignalRead
<1>3. Away(t, k) >= 1
  BY <1>2 DEF Away, N
<1>4. PICK a \in Nat, b \in Nat, c \in Nat :
         a = Away(t, "io") /\ b = Away(t, "fail") /\ c = Away(t, "cancel")
  BY AwayTypes
<1>5. a + b + c < 1
  BY <1>4 DEF AwayIo
<1> QED BY <1>3, <1>4, <1>5 DEF Kinds

\* A task that is over is not known to the kernel any more.
THEOREM ClosedIsForgotten == Spec => []KernelForgetsClosed
<1>1. TInv /\ OwnInv => KernelForgetsClosed
  <2> SUFFICES ASSUME TInv, OwnInv, NEW t \in Tasks, ~task[t].sub, task[t].isClosed
               PROVE  /\ t \notin queue.waiting
                      /\ Harvested(t) = {} /\ kernel.reported[t] = {}
                      /\ \A op \in kernel.inside \cup kernel.done \cup kernel.cancelled :
                            op[1] # t
                      /\ \A i \in DOMAIN kernel.toSubmit : kernel.toSubmit[i][1] # t
    BY DEF KernelForgetsClosed
  <2>1. TaskFits(t) /\ EventsFit(t) /\ KernelFits
    BY DEF OwnInv
  <2>2. t \notin queue.waiting /\ ~task[t].socket
    BY <2>1 DEF TaskFits, Fits, Blank
  <2>3. CASE Flagged
    <3>1. Harvested(t) = {} /\ kernel.reported[t] = {}
      BY <2>1, <2>2, <2>3 DEF EventsFit, FlagsFit, FlagFits
    <3>2. kernel.inside = {} /\ kernel.done = {} /\ kernel.cancelled = {}
          /\ kernel.toSubmit = <<>>
      BY <2>1, <2>3 DEF KernelFits
    <3> QED BY <2>2, <3>1, <3>2
  <2>4. CASE ~Flagged
    <3>1. AwayIo(t) + Away(t, "cancel") < 1
      <4>1. PICK n \in Nat : n = AwayIo(t) + Away(t, "cancel")
        BY AwayTypes
      <4>2. ~(AwayIo(t) + Away(t, "cancel") >= 1)
        BY <2>4, TokenIsLive
      <4> QED BY <4>1, <4>2
    <3>2. \A op \in In(kernel.toSubmit) \cup kernel.inside \cup kernel.done
                    \cup round.harvest : op[1] # t
      BY <2>4, <3>1, AwayIsCounted
    <3>3. kernel.reported[t] = {} /\ kernel.cancelled \subseteq kernel.inside
      BY <2>1, <2>4 DEF KernelFits
    <3>4. Harvested(t) = {}
      BY <3>2 DEF Harvested
    <3>5. \A i \in DOMAIN kernel.toSubmit : kernel.toSubmit[i][1] # t
      BY <3>2 DEF In
    <3> QED BY <2>2, <3>2, <3>3, <3>4, <3>5
  <2> QED BY <2>3, <2>4
<1> QED BY <1>1, SchedulesAlone, TasksAreOwned, PTL

-----------------------------------------------------------------------------
(* The count of a task's operations.                                        *)

\* The operations of a task in a set.
OfTask(t, X) == {op \in X : op[1] = t}

\* The operations of one task in a set of operations are of three kinds.
LEMMA CountOfTask ==
    ASSUME NEW t \in Tasks, NEW X, X \subseteq (Tasks \X Kinds) \cup {SignalRead}
    PROVE  /\ Cardinality(OfTask(t, X))
                = N(<<t, "io">> \in X) + N(<<t, "fail">> \in X) + N(<<t, "cancel">> \in X)
<1>1. PICK K \in SUBSET Kinds : K = {k \in Kinds : <<t, k>> \in X}
  OBVIOUS
<1> DEFINE f == [k \in K |-> <<t, k>>]
<1>2. t # NoTask
  BY NoTaskAssumption
<1>3. \A op \in OfTask(t, X) : op[2] \in K /\ op = <<t, op[2]>>
  BY <1>1, <1>2 DEF OfTask, SignalRead
<1>4. \A k \in K : <<t, k>> \in OfTask(t, X)
  BY <1>1 DEF OfTask
<1>5. f \in Bijection(K, OfTask(t, X))
  <2>1. f \in [K -> OfTask(t, X)]
    BY <1>4
  <2>2. \A a, b \in K : f[a] = f[b] => a = b
    OBVIOUS
  <2>3. \A op \in OfTask(t, X) : \E k \in K : f[k] = op
    BY <1>3
  <2> QED BY <2>1, <2>2, <2>3, Fun_IsBij
<1>6. ExistsBijection(K, OfTask(t, X))
  BY <1>5 DEF ExistsBijection
<1>7. IsFiniteSet(K) /\ Cardinality(K) = N("io" \in K) + N("fail" \in K) + N("cancel" \in K)
  BY CountKinds
<1>8. Cardinality(OfTask(t, X)) = Cardinality(K)
  BY <1>6, <1>7, FS_Bijection
<1>9. /\ N("io" \in K) = N(<<t, "io">> \in X) /\ N("fail" \in K) = N(<<t, "fail">> \in X)
      /\ N("cancel" \in K) = N(<<t, "cancel">> \in X)
  BY <1>1 DEF Kinds, N
<1> QED BY <1>7, <1>8, <1>9

\* Those in a list, where each of them is once, and none has failed.
LEMMA CountInList ==
    ASSUME NEW s \in Seq((Tasks \X Kinds) \cup {SignalRead}), Once(s), NEW t \in Tasks
    PROVE  Cardinality({i \in DOMAIN s : s[i][1] = t})
             = N(<<t, "io">> \in In(s)) + N(<<t, "fail">> \in In(s)) + N(<<t, "cancel">> \in In(s))
<1>1. PICK I : I = {i \in DOMAIN s : s[i][1] = t}
  OBVIOUS
<1> DEFINE f == [i \in I |-> s[i]]
<1>2. In(s) \subseteq (Tasks \X Kinds) \cup {SignalRead}
  BY ElementOfSeq, LenProperties DEF In
<1>3. f \in Bijection(I, OfTask(t, In(s)))
  <2>1. \A i \in I : s[i] \in OfTask(t, In(s))
    BY <1>1 DEF OfTask, In
  <2>2. f \in [I -> OfTask(t, In(s))]
    BY <2>1
  <2>3. \A a, b \in I : f[a] = f[b] => a = b
    BY <1>1 DEF Once
  <2>4. \A op \in OfTask(t, In(s)) : \E i \in I : f[i] = op
    BY <1>1 DEF OfTask, In
  <2> QED BY <2>2, <2>3, <2>4, Fun_IsBij
<1>4. IsFiniteSet(I)
  <2>1. IsFiniteSet(1..Len(s)) /\ DOMAIN s = 1..Len(s)
    BY LenProperties, FS_Interval
  <2> QED BY <1>1, <2>1, FS_Subset
<1>5. Cardinality(OfTask(t, In(s))) = Cardinality(I)
  BY <1>3, <1>4, FS_Bijection DEF ExistsBijection
<1> QED BY <1>1, <1>2, <1>5, CountOfTask


\* What is away is in the list, or in one of the three sets.
LEMMA AwayInSets ==
    ASSUME NEW t, NEW k, Away(t, k) <= 1, NEW X, X = kernel.inside \cup kernel.done \cup round.harvest
    PROVE  Away(t, k) = N(<<t, k>> \in In(kernel.toSubmit)) + N(<<t, k>> \in X)
<1>1. <<t, k>> \in X <=>
         <<t, k>> \in kernel.inside \/ <<t, k>> \in kernel.done \/ <<t, k>> \in round.harvest
  OBVIOUS
<1> QED BY <1>1 DEF Away, N

\* What is back is pending or ready.
LEMMA BackInSets ==
    ASSUME NEW r, NEW k, Back(r, k) <= 1
    PROVE  Back(r, k) = N(k \in r.pending \cup r.ready)
<1>1. k \in r.pending \cup r.ready <=> k \in r.pending \/ k \in r.ready
  OBVIOUS
<1> QED BY <1>1 DEF Back, N

\* The counter of a task is the number of its operations that are not finished
\* and dumped, wherever they are.
THEOREM CountsOperations == Spec => []OperationsAreCounted
<1>1. TInv /\ OwnInv => OperationsAreCounted
  <2> SUFFICES ASSUME TInv, OwnInv, NEW t \in Tasks, ~Flagged
               PROVE  /\ task[t].operations =
                           Len(task[t].toSubmit)
                           + Cardinality({i \in DOMAIN kernel.toSubmit : kernel.toSubmit[i][1] = t})
                           + Cardinality({op \in kernel.inside \cup kernel.done \cup round.harvest :
                                             op[1] = t})
                           + Cardinality(task[t].pending \cup task[t].ready)
                      /\ \/ task[t].operations = Cardinality(task[t].locked)
                         \/ task[t].isClosed /\ task[t].operations = 0
    BY DEF OperationsAreCounted
  <2>1. PICK X : X = kernel.inside \cup kernel.done \cup round.harvest
    OBVIOUS
  <2>2. PICK r \in TaskType : r = task[t]
    BY DEF TInv, TypeOK
  <2>3. OperationFits(r, t, AwayIo(t), Away(t, "cancel"))
    BY <2>2 DEF OwnInv, EventsFit, OperationsFit
  <2>4. /\ X \subseteq (Tasks \X Kinds) \cup {SignalRead}
        /\ kernel.toSubmit \in Seq((Tasks \X Kinds) \cup {SignalRead})
    <3>1. Operations \subseteq (Tasks \X Kinds) \cup {SignalRead}
      BY DEF Operations
    <3>2. \A s \in Seq(Operations) : s \in Seq((Tasks \X Kinds) \cup {SignalRead})
      BY <3>1, ElementOfSeq, LenProperties
    <3>3. kernel \in KernelType /\ round \in RoundType
      BY DEF TInv, TypeOK
    <3> QED BY <2>1, <3>1, <3>2, <3>3 DEF KernelType, RoundType, Harvests
  <2>5. PICK a1 \in Nat, a2 \in Nat, a3 \in Nat :
           a1 = Away(t, "io") /\ a2 = Away(t, "fail") /\ a3 = Away(t, "cancel")
    BY AwayTypes
  <2>6. PICK b1 \in Nat, b2 \in Nat, b3 \in Nat, m \in Nat :
           /\ b1 = Back(r, "io") /\ b2 = Back(r, "fail") /\ b3 = Back(r, "cancel")
           /\ m = Len(r.toSubmit)
    <3>1. r.toSubmit \in Seq(Tasks \X {"io"})
      BY OperationFields
    <3> QED BY <3>1, BackTypes, LenProperties
  <2>7. PICK x \in {0, 1}, y \in {0, 1} : x = N("io" \in r.locked) /\ y = N("cancel" \in r.locked)
    BY DEF N
  <2>8. /\ a1 + a2 + m + b1 + b2 = x /\ a3 + b3 = y /\ r.operations = x + y
    BY <2>3, <2>5, <2>6, <2>7 DEF OperationFits, AwayIo
  <2>9. PICK l1 \in {0, 1}, l2 \in {0, 1}, l3 \in {0, 1} :
           /\ l1 = N(<<t, "io">> \in In(kernel.toSubmit))
           /\ l2 = N(<<t, "fail">> \in In(kernel.toSubmit))
           /\ l3 = N(<<t, "cancel">> \in In(kernel.toSubmit))
    BY DEF N
  <2>10. PICK x1 \in {0, 1}, x2 \in {0, 1}, x3 \in {0, 1} :
           /\ x1 = N(<<t, "io">> \in X) /\ x2 = N(<<t, "fail">> \in X)
           /\ x3 = N(<<t, "cancel">> \in X)
    BY DEF N
  <2>11. a1 = l1 + x1 /\ a2 = l2 + x2 /\ a3 = l3 + x3
    <3>1. a1 <= 1 /\ a2 <= 1 /\ a3 <= 1
      BY <2>8
    <3> QED BY <2>1, <2>5, <2>9, <2>10, <3>1, AwayInSets
  <2>12. /\ b1 = N("io" \in r.pending \cup r.ready) /\ b2 = N("fail" \in r.pending \cup r.ready)
         /\ b3 = N("cancel" \in r.pending \cup r.ready)
    <3>1. b1 <= 1 /\ b2 <= 1 /\ b3 <= 1
      BY <2>8
    <3> QED BY <2>6, <3>1, BackInSets
  <2>13. Cardinality({i \in DOMAIN kernel.toSubmit : kernel.toSubmit[i][1] = t}) = l1 + l2 + l3
    BY <2>4, <2>9, CountInList DEF OwnInv, KernelFits
  <2>14. Cardinality({op \in X : op[1] = t}) = x1 + x2 + x3
    BY <2>4, <2>10, CountOfTask DEF OfTask
  <2>15. Cardinality(r.pending \cup r.ready) = b1 + b2 + b3
    <3>1. r.pending \cup r.ready \in SUBSET Kinds
      BY OperationFields
    <3> QED BY <2>12, <3>1, CountKinds
  <2>16. Cardinality(r.locked) = x + y
    <3>1. r.locked \in SUBSET Kinds /\ "fail" \notin r.locked
      BY OperationFields DEF Kinds
    <3>2. N("fail" \in r.locked) = 0
      BY <3>1 DEF N
    <3> QED BY <2>7, <3>1, <3>2, CountKinds
  <2>17. r.operations = m + (l1 + l2 + l3) + (x1 + x2 + x3) + (b1 + b2 + b3)
    BY <2>8, <2>11
  <2> QED BY <2>1, <2>2, <2>6, <2>8, <2>13, <2>14, <2>15, <2>16, <2>17
<1> QED BY <1>1, SchedulesAlone, TasksAreOwned, PTL

-----------------------------------------------------------------------------
(* WaitEmpty()'s count.  A thread is final between the end of a task and    *)
(* the release of the count; it may push the task again meanwhile.          *)

Subs == {t \in Tasks : task[t].sub}
Finals == {w \in Workers : thread[w].final}
FinalPCs == {"closed", "attach", "release"}
FinalFits(p) == /\ thread[p].pc \in FinalPCs => thread[p].final
                /\ thread[p].final => p \in Workers /\ thread[p].pc \in FinalPCs \cup {"signal"}

\* The count is of the tasks that are attached, and of the threads that still
\* have to let one go.
CountIsRight ==
    /\ count = Cardinality(Subs) + Cardinality(Finals)
    /\ \A p \in Threads : FinalFits(p)

\* The two sets are finite.
LEMMA CountIsFinite ==
    /\ IsFiniteSet(Subs) /\ Cardinality(Subs) \in Nat
    /\ IsFiniteSet(Finals) /\ Cardinality(Finals) \in Nat
  BY TasksAssumption, ThreadsAssumption, FS_Subset, FS_CardinalityType DEF Subs, Finals

\* A step of p that does not change who is final.
FinalsStay == Finals' = Finals /\ \A p \in Threads : FinalFits(p)'

\* A step of one thread that does not change whether it is to let a task go.
LEMMA OneFinal ==
    ASSUME TInv, CountIsRight, NEW p \in Threads, \A q \in Threads : q # p => thread'[q] = thread[q],
           thread'[p].final <=> thread[p].final, FinalFits(p)'
    PROVE  FinalsStay
<1>1. \A w \in Workers : thread'[w].final <=> thread[w].final
  BY DEF Threads
<1>2. \A q \in Threads : FinalFits(q)'
  BY DEF CountIsRight, FinalFits
<1> QED BY <1>1, <1>2 DEF FinalsStay, Finals

\* A step of one thread away from where tasks are let go.
LEMMA PlainMove ==
    ASSUME TInv, TInv', CountIsRight, NEW p \in Threads,
           \A q \in Threads : q # p => thread'[q] = thread[q],
           thread[p].pc \notin FinalPCs \cup {"signal"}, thread'[p].pc \notin FinalPCs,
           thread'[p].final => thread[p].final
    PROVE  FinalsStay
<1>1. ~thread[p].final
  BY DEF CountIsRight, FinalFits
<1>2. FinalFits(p)'
  BY <1>1 DEF FinalFits
<1> QED BY <1>1, <1>2, OneFinal

\* A worker goes on in PrivScheduleDo(), or to its next place.
LEMMA PlainGoto ==
    ASSUME TInv, TInv', CountIsRight, NEW p \in Threads, NEW pc,
           thread[p].pc \notin FinalPCs \cup {"signal"}, pc \notin FinalPCs,
           thread' = Goto(p, pc) \/ thread' = Rest(p, pc)
    PROVE  FinalsStay
<1>1. thread \in [Threads -> ThreadType]
  BY DEF TInv, TypeOK
<1>2. /\ \A q \in Threads : q # p => thread'[q] = thread[q]
      /\ thread'[p].pc = pc /\ (thread'[p].final => thread[p].final)
  BY <1>1 DEF Goto, Rest, NewThread, ThreadType
<1> QED BY <1>2, PlainMove

\* A task is out of p's hands.
LEMMA OnwardsMoves ==
    ASSUME TInv, CountIsRight, NEW p \in Threads, thread' = Onwards(p)
    PROVE  FinalsStay
<1>1. thread \in [Threads -> ThreadType]
  BY DEF TInv, TypeOK
<1>2. CASE thread[p].final
  <2>1. p \notin Clients
    BY <1>2, ThreadsAssumption DEF CountIsRight, FinalFits
  <2>2. thread' = Goto(p, "release")
    BY <1>2, <2>1 DEF Onwards
  <2>3. /\ \A q \in Threads : q # p => thread'[q] = thread[q]
        /\ thread'[p].pc = "release" /\ thread'[p].final
    BY <1>1, <1>2, <2>2 DEF Goto, ThreadType
  <2>4. FinalFits(p)'
    BY <1>2, <2>3 DEF FinalFits, FinalPCs, CountIsRight
  <2> QED BY <1>2, <2>3, <2>4, OneFinal
<1>3. CASE ~thread[p].final
  <2>1. PICK pc \in {"idle", "pop", "elect"} :
           \/ thread' = Rest(p, pc)
           \/ \E n : thread' = [Rest(p, pc) EXCEPT ![p].batch = n]
    BY <1>3 DEF Onwards, NextTask
  <2>2. /\ \A q \in Threads : q # p => thread'[q] = thread[q]
        /\ thread'[p].pc = pc /\ ~thread'[p].final
    BY <1>1, <2>1 DEF Rest, NewThread
  <2>3. FinalFits(p)'
    BY <2>1, <2>2 DEF FinalFits, FinalPCs
  <2> QED BY <1>3, <2>2, <2>3, OneFinal
<1> QED BY <1>2, <1>3

\* A push lets no task go.
LEMMA PushedMoves ==
    ASSUME TInv, CountIsRight, NEW p \in Threads, NEW t, Pushed(p, t)
    PROVE  FinalsStay
<1>1. CASE thread' = Onwards(p)
  BY <1>1, OnwardsMoves
<1>2. CASE thread' = Goto(p, "signal")
  <2>1. thread \in [Threads -> ThreadType]
    BY DEF TInv, TypeOK
  <2>2. /\ \A q \in Threads : q # p => thread'[q] = thread[q]
        /\ thread'[p].pc = "signal" /\ (thread'[p].final <=> thread[p].final)
    BY <1>2, <2>1 DEF Goto, ThreadType
  <2>3. FinalFits(p)'
    BY <2>2 DEF FinalFits, FinalPCs, CountIsRight
  <2> QED BY <2>2, <2>3, OneFinal
<1> QED BY <1>1, <1>2 DEF Pushed

\* The count is left alone.
LEMMA CountStays ==
    ASSUME CountIsRight, FinalsStay, count' = count,
           \A t \in Tasks : task'[t].sub <=> task[t].sub
    PROVE  CountIsRight'
<1>1. Subs' = Subs
  BY DEF Subs
<1> QED BY <1>1 DEF CountIsRight, FinalsStay

\* One task more is counted.
LEMMA CountGrows ==
    ASSUME CountIsRight, FinalsStay, count' = count + 1, NEW t \in Tasks, ~task[t].sub,
           task'[t].sub, \A u \in Tasks : u # t => (task'[u].sub <=> task[u].sub)
    PROVE  CountIsRight'
<1>1. Subs' = Subs \cup {t} /\ t \notin Subs
  BY DEF Subs
<1>2. Cardinality(Subs') = Cardinality(Subs) + 1
  BY <1>1, CountIsFinite, FS_AddElement
<1>3. PICK a \in Nat, b \in Nat : a = Cardinality(Subs) /\ b = Cardinality(Finals)
  BY CountIsFinite
<1>4. count' = Cardinality(Subs') + Cardinality(Finals')
  BY <1>2, <1>3 DEF CountIsRight, FinalsStay
<1> QED BY <1>4 DEF CountIsRight, FinalsStay


\* The calls, the pushes and the signals.
LEMMA CallCounts ==
    ASSUME TInv, TInv', CountIsRight, NEW p \in Threads, NEW t \in Tasks,
           (p \in Clients /\ (Post(p, t) \/ PostWakeup(p, t))) \/ PostClose(p, t)
    PROVE  CountIsRight'
<1>1. thread \in [Threads -> ThreadType] /\ task \in [Tasks -> TaskType]
  BY DEF TInv, TypeOK
<1>2. FinalsStay
  <2>1. thread[p].pc \in {"idle", "callback"}
    BY DEF Post, PostWakeup, PostClose, At
  <2>2. thread' = thread \/ thread' = [thread EXCEPT ![p].pc = "push", ![p].task = t]
    BY DEF Post, PostWakeup, PostClose
  <2>3. CASE thread' = thread
    <3>1. FinalFits(p)'
      BY <2>3 DEF CountIsRight, FinalFits
    <3> QED BY <2>3, <3>1, OneFinal
  <2>4. CASE thread' = [thread EXCEPT ![p].pc = "push", ![p].task = t]
    <3>1. /\ \A q \in Threads : q # p => thread'[q] = thread[q]
          /\ thread'[p].pc = "push" /\ (thread'[p].final => thread[p].final)
      BY <1>1, <2>4 DEF ThreadType
    <3> QED BY <2>1, <3>1, PlainMove DEF FinalPCs
  <2> QED BY <2>2, <2>3, <2>4
<1>3. CASE Post(p, t)
  <2>1. /\ task' = [task EXCEPT ![t].sub = TRUE, ![t].inQueues = TRUE,
                                ![t].socket = ComesWithSocket(t)]
        /\ count' = count + 1 /\ ~task[t].sub
    BY <1>3 DEF Post
  <2>2. task'[t].sub /\ \A u \in Tasks : u # t => task'[u] = task[u]
    BY <1>1, <2>1 DEF TaskType
  <2> QED BY <1>2, <2>1, <2>2, CountGrows
<1>4. CASE PostWakeup(p, t)
  <2>1. task' = [task EXCEPT ![t].status = "READY"] /\ count' = count
    BY <1>4 DEF PostWakeup
  <2>2. \A u \in Tasks : task'[u].sub <=> task[u].sub
    BY <1>1, <2>1 DEF TaskType
  <2> QED BY <1>2, <2>1, <2>2, CountStays
<1>5. CASE PostClose(p, t)
  <2>1. task' = [task EXCEPT ![t] = Closing(task[t])] /\ count' = count
    BY <1>5 DEF PostClose
  <2>2. Closing(task[t]).sub <=> task[t].sub
    BY <1>1 DEF Closing, TaskType
  <2>3. \A u \in Tasks : task'[u].sub <=> task[u].sub
    BY <1>1, <2>1, <2>2
  <2> QED BY <1>2, <2>1, <2>3, CountStays
<1> QED BY <1>3, <1>4, <1>5

\* The common steps of the threads keep the count.
LEMMA ThreadCounts ==
    ASSUME TInv, TInv', CountIsRight, NEW p \in Threads, ThreadStep(p)
    PROVE  CountIsRight'
<1>1. task' = task /\ count' = count
  BY DEF ThreadStep, Push, PlatformSignal
<1>2. FinalsStay
  BY PushedMoves, OnwardsMoves DEF ThreadStep, Push, PlatformSignal
<1> QED BY <1>1, <1>2, CountStays

\* The worker, before and after it schedules or executes.
LEMMA QuietCounts ==
    ASSUME TInv, TInv', CountIsRight, NEW w \in Workers,
           \/ ScheduleStart(w) \/ ScheduleEnd(w) \/ SignalReady(w) \/ WorkerExit(w)
           \/ WaitReady(w) \/ Collect(w)
    PROVE  CountIsRight'
<1>1. task' = task /\ count' = count
  BY DEF ScheduleStart, ScheduleEnd, SignalReady, WorkerExit, WaitReady, Collect
<1>2. PICK pc \in {"pop", "harvest", "announce", "abandon", "domino", "done", "exit", "elect",
                   "kernel"} :
         thread' = Goto(w, pc) \/ thread' = Rest(w, pc)
  <2>1. CASE ScheduleStart(w)
    BY <2>1, Zenon DEF ScheduleStart
  <2>2. CASE WaitReady(w)
    BY <2>2, Zenon DEF WaitReady
  <2>3. CASE ScheduleEnd(w) \/ SignalReady(w) \/ WorkerExit(w) \/ Collect(w)
    BY <2>3 DEF ScheduleEnd, SignalReady, WorkerExit, Collect
  <2> QED BY <2>1, <2>2, <2>3
<1>3. thread[w].pc \notin FinalPCs \cup {"signal"} /\ w \in Threads
  BY DEF ScheduleStart, ScheduleEnd, SignalReady, WorkerExit, WaitReady, Collect, At, FinalPCs,
         Threads
<1>4. FinalsStay
  BY <1>2, <1>3, PlainGoto DEF FinalPCs
<1> QED BY <1>1, <1>4, CountStays

\* A worker that pops a task keeps the count.
LEMMA PopCounts ==
    ASSUME TInv, TInv', CountIsRight, NEW w \in Workers, Pop(w)
    PROVE  CountIsRight'
<1>1. task' = task /\ count' = count /\ thread[w].pc = "pop" /\ w \in Threads
      /\ thread \in [Threads -> ThreadType]
  BY DEF Pop, At, Threads, TInv, TypeOK
<1>2. CASE thread' = Rest(w, "wait")
  BY <1>1, <1>2, PlainGoto, CountStays DEF FinalPCs
<1>3. CASE thread' = [thread EXCEPT ![w].pc = "execute", ![w].task = Head(queue.ready)]
  <2>1. /\ \A q \in Threads : q # w => thread'[q] = thread[q]
        /\ thread'[w].pc = "execute" /\ (thread'[w].final => thread[w].final)
    BY <1>1, <1>3 DEF ThreadType
  <2> QED BY <1>1, <2>1, PlainMove, CountStays DEF FinalPCs
<1> QED BY <1>2, <1>3 DEF Pop

\* A task in a worker's hands.
LEMMA HandCounts ==
    ASSUME TInv, TInv', OwnInv, CountIsRight, NEW w \in Workers,
           Return(w) \/ Reattach(w) \/ Repost(w) \/ Release(w)
    PROVE  CountIsRight'
<1>1. thread \in [Threads -> ThreadType] /\ task \in [Tasks -> TaskType] /\ w \in Threads
  BY DEF TInv, TypeOK, Threads
<1>2. CASE Return(w)
  <2>1. task' = [task EXCEPT ![Of(w)].inQueues = TRUE] /\ count' = count
    BY <1>2 DEF Return
  <2>2. \A u \in Tasks : task'[u].sub <=> task[u].sub
    BY <1>1, <2>1 DEF TaskType
  <2>3. FinalsStay
    BY <1>1, <1>2, PushedMoves DEF Return
  <2> QED BY <2>1, <2>2, <2>3, CountStays
<1>3. CASE Reattach(w)
  <2>1. task' = [task EXCEPT ![Of(w)].status = "PENDING"] /\ count' = count
        /\ thread' = Goto(w, "attach") /\ thread[w].pc = "closed"
    BY <1>3 DEF Reattach, At
  <2>2. \A u \in Tasks : task'[u].sub <=> task[u].sub
    BY <1>1, <2>1 DEF TaskType
  <2>3. /\ \A q \in Threads : q # w => thread'[q] = thread[q]
        /\ thread'[w].pc = "attach" /\ (thread'[w].final <=> thread[w].final)
    BY <1>1, <2>1 DEF Goto, ThreadType
  <2>4. FinalFits(w)'
    BY <1>1, <2>1, <2>3 DEF CountIsRight, FinalFits, FinalPCs
  <2>5. FinalsStay
    BY <1>1, <2>3, <2>4, OneFinal
  <2> QED BY <2>1, <2>2, <2>5, CountStays
<1>4. CASE Repost(w)
  <2>1. PICK t \in Tasks : t = Of(w) /\ ~task[t].sub
    BY <1>1, <1>4, HandHasTask DEF Repost, At, HandPCs, TaskFits, Fits
  <2>2. /\ task' = [task EXCEPT ![t] = [task[t] EXCEPT
                    !.isClosed = FALSE, !.guard = FALSE, !.sub = TRUE,
                    !.socket = ComesWithSocket(t), !.inQueues = TRUE]]
        /\ count' = count + 1
    BY <1>4, <2>1 DEF Repost
  <2>3. task'[t].sub /\ \A u \in Tasks : u # t => task'[u] = task[u]
    BY <1>1, <2>2 DEF TaskType
  <2>4. FinalsStay
    BY <1>1, <1>4, PushedMoves DEF Repost
  <2> QED BY <2>1, <2>2, <2>3, <2>4, CountGrows
<1>5. CASE Release(w)
  <2>1. task' = task /\ count' = count - 1 /\ thread' = NextTask(w) /\ thread[w].final
    BY <1>1, <1>5 DEF Release, At, CountIsRight, FinalFits, FinalPCs
  <2>2. PICK pc \in {"pop", "elect"} :
           \/ thread' = Rest(w, pc)
           \/ \E n : thread' = [Rest(w, pc) EXCEPT ![w].batch = n]
    BY <2>1 DEF NextTask
  <2>3. /\ \A q \in Threads : q # w => thread'[q] = thread[q]
        /\ thread'[w].pc = pc /\ ~thread'[w].final
    BY <1>1, <2>2 DEF Rest, NewThread
  <2>4. \A q \in Threads : FinalFits(q)'
    BY <2>2, <2>3 DEF FinalFits, FinalPCs, CountIsRight
  <2>5. Finals' = Finals \ {w} /\ w \in Finals /\ Subs' = Subs
    <3>1. \A q \in Workers : q \in Threads
      BY DEF Threads
    <3> QED BY <2>1, <2>3, <3>1 DEF Finals, Subs
  <2>6. Cardinality(Finals') = Cardinality(Finals) - 1
    BY <2>5, CountIsFinite, FS_RemoveElement
  <2>7. PICK a \in Nat, b \in Nat : a = Cardinality(Subs) /\ b = Cardinality(Finals)
    BY CountIsFinite
  <2>8. count' = Cardinality(Subs') + Cardinality(Finals')
    BY <2>1, <2>5, <2>6, <2>7 DEF CountIsRight
  <2> QED BY <2>4, <2>8 DEF CountIsRight
<1> QED BY <1>2, <1>3, <1>4, <1>5


\* The sched-thread does not subscribe a task, and does not end one.
SubsKept == \A u \in Tasks : task'[u].sub <=> task[u].sub

\* What the sched-thread may do to a task, as its owner sees it: it wakes it up.
Untouched(s, r) ==
    /\ r.sub <=> s.sub
    /\ r.guard <=> s.guard
    /\ s.status = "READY" => r.status = "READY"
    /\ r.status = "READY" => s.status \in {"READY", "PENDING", "WAITING"}
    /\ s.sub \/ (r.isClosed <=> s.isClosed)

Touched == task' = task \/ \E t \in Tasks : \E r : task' = [task EXCEPT ![t] = r]
                                                  /\ Untouched(task[t], r)

\* The fields of a task that the sched-thread changes, if it changes its status only
\* as it may.
LEMMA UntouchedFields ==
    ASSUME NEW r \in TaskType, NEW e, NEW b, NEW o
    PROVE  /\ [r EXCEPT !.pending = e].sub <=> r.sub
           /\ Untouched(r, [r EXCEPT !.pending = e])
           /\ r.status = "WAITING" => Untouched(r, [r EXCEPT !.status = "READY", !.isExpired = TRUE])
           /\ r.status = "WAITING" =>
                 Untouched(r, [r EXCEPT !.status = "READY", !.ready = o, !.pending = {}, !.isExpired = b])
           /\ r.status # "CLOSING" =>
                 Untouched(r, [r EXCEPT !.status = Awake(r.status), !.ready = o, !.pending = {},
                                        !.isExpired = b])
           /\ r.status = "CLOSING" /\ r.sub =>
                 Untouched(r, [r EXCEPT !.status = "CLOSED", !.isClosed = TRUE, !.socket = FALSE,
                                        !.ready = {}, !.pending = {}, !.isExpired = b])
           /\ r.status = "PENDING" => Untouched(r, [r EXCEPT !.status = "WAITING"])
  BY DEF TaskType, Untouched, Awake

\* The same for a task with operations, that may have given its new ones away.
LEMMA UntouchedOperations ==
    ASSUME NEW r \in TaskType, NEW q \in {r, [r EXCEPT !.toSubmit = <<>>]}, NEW e, NEW b,
           NEW l, NEW n
    PROVE  /\ r.status = "WAITING" => Untouched(r, WithEvents([q EXCEPT !.status = "READY"], e, b))
           /\ r.status # "WAITING" => Untouched(r, WithEvents([q EXCEPT !.status = r.status], e, b))
           /\ r.status # "CLOSING" =>
                 Untouched(r, WithEvents([q EXCEPT !.status = Awake(q.status)], e, b))
           /\ r.status = "CLOSING" /\ r.sub => /\ Untouched(r, WithEvents(Closed(q), e, b))
                                               /\ Untouched(r, Closed(q))
           /\ r.status = "PENDING" => Untouched(r, [q EXCEPT !.status = "WAITING"])
           /\ r.status = "CLOSING" => Untouched(r, [q EXCEPT !.locked = l, !.operations = n])
<1>1. PICK s : s = [r EXCEPT !.toSubmit = <<>>]
  OBVIOUS
<1>2. q \in TaskType /\ q.status = r.status /\ (q.sub <=> r.sub) /\ (q.guard <=> r.guard)
      /\ (q.isClosed <=> r.isClosed)
  <2>1. s.status = r.status /\ (s.sub <=> r.sub) /\ (s.guard <=> r.guard)
        /\ (s.isClosed <=> r.isClosed)
    BY <1>1 DEF TaskType
  <2>2. s \in TaskType
    <3>1. <<>> \in Seq(Tasks \X {"io"})
      OBVIOUS
    <3>2. PICK z \in Seq(Tasks \X {"io"}) : z = <<>>
      BY <3>1
    <3>3. [r EXCEPT !.toSubmit = z] \in TaskType
      BY DEF TaskType
    <3> QED BY <1>1, <3>2, <3>3
  <2> QED BY <1>1, <2>1, <2>2
<1>3. /\ q.status = "WAITING" => Untouched(q, WithEvents([q EXCEPT !.status = "READY"], e, b))
      /\ q.status # "WAITING" => Untouched(q, WithEvents([q EXCEPT !.status = q.status], e, b))
      /\ q.status # "CLOSING" =>
            Untouched(q, WithEvents([q EXCEPT !.status = Awake(q.status)], e, b))
      /\ q.status = "CLOSING" /\ q.sub => /\ Untouched(q, WithEvents(Closed(q), e, b))
                                          /\ Untouched(q, Closed(q))
      /\ q.status = "PENDING" => Untouched(q, [q EXCEPT !.status = "WAITING"])
      /\ q.status = "CLOSING" => Untouched(q, [q EXCEPT !.locked = l, !.operations = n])
  BY <1>2 DEF TaskType, Untouched, WithEvents, Closed, Awake
<1>4. \A x : Untouched(q, x) => Untouched(r, x)
  BY <1>2 DEF Untouched
<1> QED BY <1>2, <1>3, <1>4

\* The next task of the front queue is attached.
LEMMA FrontIsAttached ==
    ASSUME TInv, OwnInv, NEW w, NextPending(w), NEW t, t = Head(queue.pending)
    PROVE  t \in Tasks /\ task[t] \in TaskType /\ task[t].sub
<1>1. queue.pending # <<>> /\ QueueFields
  BY QueueTypes DEF NextPending, InFrontLoop, TInv
<1>2. t \in In(queue.pending) /\ t \in Tasks
  BY <1>1, InTail DEF QueueFields, OwnInv, QueuesApart
<1>3. Place(t) = "posted"
  BY <1>2, FitsParts DEF Posted
<1> QED BY <1>2, <1>3, FitsParts DEF TaskFits, Fits, Queued, TInv, TypeOK

\* The sched-thread wakes a task up, or gives its close through, and does nothing else to
\* it that its owner sees.
LEMMA SchedTouches ==
    ASSUME TInv, OwnInv, NEW w \in Workers,
           ExpireStep(w) \/ EventStep(w) \/ FrontStep(w) \/ HarvestStep(w) \/ PollStep(w)
    PROVE  Touched /\ count' = count
<1>1. task \in [Tasks -> TaskType]
  BY DEF TInv, TypeOK
<1>2. ASSUME NEW t, NEW r, task' = [task EXCEPT ![t] = r],
             t \in Tasks => Untouched(task[t], r)
      PROVE  Touched
  <2>1. CASE t \in Tasks
    BY <1>2, <2>1 DEF Touched
  <2>2. CASE t \notin Tasks
    <3>1. task' = task
      BY <1>1, <1>2, <2>2
    <3> QED BY <3>1 DEF Touched
  <2> QED BY <2>1, <2>2
<1>3. CASE ExpireStep(w)
  <2>1. CASE ExpireTop(w)
    <3>1. PICK t : t = Top
      OBVIOUS
    <3>2. t \in Tasks /\ task[t].status = "WAITING" =>
             Untouched(task[t], [task[t] EXCEPT !.status = "READY", !.isExpired = TRUE])
      BY <1>1, UntouchedFields
    <3>3. count' = count
      BY <2>1 DEF ExpireTop
    <3>4. \/ /\ task[t].status = "WAITING"
             /\ task' = [task EXCEPT ![t] = [task[t] EXCEPT !.status = "READY", !.isExpired = TRUE]]
          \/ task' = task
      BY <2>1, <3>1 DEF ExpireTop, ToReady
    <3>5. Touched
      BY <1>2, <3>2, <3>4 DEF Touched
    <3> QED BY <3>3, <3>5
  <2>2. CASE (\E to \in {"decide", "submit"} : Publish(w, to))
             \/ \E sleep, passed \in SchedPCs : Decide(w, sleep, passed)
    BY <2>2 DEF Publish, Decide, Touched
  <2> QED BY <1>3, <2>1, <2>2 DEF ExpireStep
<1>4. CASE EventStep(w)
  <2>1. ASSUME NEW t, NEW e, NEW taken, Report(w, t, e, taken) PROVE Touched /\ count' = count
    <3>1. PICK x, o : x = IsExpired(t) /\ o = task[t].ready \cup e
      OBVIOUS
    <3>2. t \in Tasks =>
            /\ task[t].status = "WAITING" =>
                  Untouched(task[t], [task[t] EXCEPT !.status = "READY", !.ready = o,
                                                     !.pending = {}, !.isExpired = x])
            /\ Untouched(task[t], [task[t] EXCEPT !.pending = e])
      BY <1>1, UntouchedFields
    <3>3. \/ /\ task[t].status = "WAITING"
             /\ task' = [task EXCEPT ![t] = [task[t] EXCEPT !.status = "READY",
                            !.ready = o, !.pending = {}, !.isExpired = x]]
          \/ task' = [task EXCEPT ![t] = [task[t] EXCEPT !.pending = e]]
      BY <2>1, <3>1 DEF Report, ToReady
    <3>4. Touched
      BY <1>2, <3>2, <3>3
    <3> QED BY <2>1, <3>4 DEF Report
  <2>2. ASSUME NEW x, UringEvent(w, x) \/ IocpEvent(w, x) PROVE Touched /\ count' = count
    <3>1. PICK t, e, b, r : t = x[1] /\ e = task[t].pending \cup {x[2]} /\ b = IsExpired(t)
                            /\ r = task[t]
      OBVIOUS
    <3>2. ASSUME t \in Tasks
          PROVE  /\ r.status = "WAITING" => Untouched(r, WithEvents([r EXCEPT !.status = "READY"], e, b))
                 /\ r.status # "WAITING" => Untouched(r, WithEvents([r EXCEPT !.status = r.status], e, b))
                 /\ r.status = "CLOSING" /\ "cancel" \in r.locked => Untouched(r, WithEvents(Closed(r), e, b))
                 /\ Untouched(r, [r EXCEPT !.pending = e])
      <4>1. r \in TaskType /\ TaskFits(t)
        BY <1>1, <3>1, <3>2, FitsParts
      <4>2. "cancel" \in r.locked => r.sub
        BY <3>1, <4>1 DEF TaskFits, Fits, Blank
      <4> QED BY <4>1, <4>2, UntouchedFields, UntouchedOperations
    <3>3. \/ r.status = "WAITING"
             /\ task' = [task EXCEPT ![t] = WithEvents([r EXCEPT !.status = "READY"], e, b)]
          \/ r.status # "WAITING"
             /\ task' = [task EXCEPT ![t] = WithEvents([r EXCEPT !.status = r.status], e, b)]
          \/ r.status = "CLOSING" /\ "cancel" \in r.locked
             /\ task' = [task EXCEPT ![t] = WithEvents(Closed(r), e, b)]
          \/ task' = [task EXCEPT ![t] = [r EXCEPT !.pending = e]]
          \/ task' = task
      BY <2>2, <3>1 DEF UringEvent, IocpEvent, ToReady
    <3>4. Touched
      BY <1>2, <3>1, <3>2, <3>3 DEF Touched
    <3> QED BY <2>2, <3>4 DEF UringEvent, IocpEvent
  <2> QED BY <1>4, <2>1, <2>2 DEF EventStep, EpollEvent, KqueueEvent
<1>5. CASE FrontStep(w)
  <2>1. PICK t, b, r : t = Head(queue.pending) /\ b = IsExpired(t) /\ r = task[t]
    OBVIOUS
  <2>2. count' = count /\ NextPending(w)
    BY <1>5 DEF FrontStep, EpollFront, UringFront, IocpFront, NextPending
  <2>3. t \in Tasks /\ r \in TaskType /\ r.sub
    BY <2>1, <2>2, FrontIsAttached
  <2>4. CASE EpollFront(w)
    <3>1. PICK o : o = r.ready \cup r.pending
      OBVIOUS
    <3>2. \/ /\ r.status # "CLOSING"
             /\ task' = [task EXCEPT ![t] = [r EXCEPT !.status = Awake(r.status), !.ready = o,
                                                      !.pending = {}, !.isExpired = b]]
          \/ /\ r.status = "CLOSING"
             /\ task' = [task EXCEPT ![t] = [r EXCEPT !.status = "CLOSED", !.isClosed = TRUE,
                            !.socket = FALSE, !.ready = {}, !.pending = {}, !.isExpired = b]]
          \/ /\ r.status = "PENDING"
             /\ task' = [task EXCEPT ![t] = [r EXCEPT !.status = "WAITING"]]
      BY <2>1, <2>4, <3>1 DEF EpollFront, ToReady, ToSleep, Sleeps
    <3>3. Touched
      BY <1>2, <2>1, <2>3, <3>2, UntouchedFields
    <3> QED BY <2>2, <3>3
  <2>5. CASE UringFront(w) \/ IocpFront(w)
    <3>1. PICK q \in {r, [r EXCEPT !.toSubmit = <<>>]} :
          \/ /\ r.status # "CLOSING"
             /\ task' = [task EXCEPT ![t] = WithEvents([q EXCEPT !.status = Awake(q.status)],
                                                       q.pending, b)]
          \/ /\ r.status = "CLOSING"
             /\ \/ task' = [task EXCEPT ![t] = WithEvents(Closed(q), q.pending, b)]
                \/ task' = [task EXCEPT ![t] = Closed(q)]
                \/ \E l, n : task' = [task EXCEPT ![t] = [q EXCEPT !.locked = l, !.operations = n]]
          \/ /\ r.status = "PENDING"
             /\ task' = [task EXCEPT ![t] = [q EXCEPT !.status = "WAITING"]]
      <4>1. CASE UringFront(w)
        <5>1. PICK q : q = [r EXCEPT !.toSubmit = <<>>]
          OBVIOUS
        <5>2. q.status = r.status
          BY <2>3, <5>1 DEF TaskType
        <5>3. \/ /\ q.status # "CLOSING"
                 /\ task' = [task EXCEPT ![t] = WithEvents([q EXCEPT !.status = Awake(q.status)],
                                                           q.pending, b)]
              \/ /\ q.status = "CLOSING"
                 /\ task' = [task EXCEPT ![t] = WithEvents(Closed(q), q.pending, b)]
              \/ /\ r.status = "PENDING"
                 /\ task' = [task EXCEPT ![t] = [q EXCEPT !.status = "WAITING"]]
              \/ /\ q.status = "CLOSING"
                 /\ task' = [task EXCEPT ![t] = [q EXCEPT !.locked = q.locked \cup {"cancel"},
                                                          !.operations = q.operations + 1]]
          BY <2>1, <4>1, <5>1 DEF UringFront, ToReady, ToSleep, Sleeps
        <5> QED BY <5>1, <5>2, <5>3
      <4>2. CASE IocpFront(w)
        <5>1. \/ /\ r.status # "CLOSING"
                 /\ task' = [task EXCEPT ![t] = WithEvents([r EXCEPT !.status = Awake(r.status)],
                                                           r.pending, b)]
              \/ /\ r.status = "CLOSING"
                 /\ \/ task' = [task EXCEPT ![t] = WithEvents(Closed(r), r.pending, b)]
                    \/ task' = [task EXCEPT ![t] = Closed(r)]
              \/ /\ r.status = "PENDING"
                 /\ task' = [task EXCEPT ![t] = [r EXCEPT !.status = "WAITING"]]
          BY <2>1, <4>2 DEF IocpFront, ToReady, ToSleep, Sleeps
        <5> QED BY <5>1
      <4> QED BY <2>5, <4>1, <4>2
    <3>2. ASSUME NEW e, NEW l, NEW n
          PROVE  /\ r.status # "CLOSING" =>
                       Untouched(r, WithEvents([q EXCEPT !.status = Awake(q.status)], e, b))
                 /\ r.status = "CLOSING" => /\ Untouched(r, WithEvents(Closed(q), e, b))
                                            /\ Untouched(r, Closed(q))
                                            /\ Untouched(r, [q EXCEPT !.locked = l, !.operations = n])
                 /\ r.status = "PENDING" => Untouched(r, [q EXCEPT !.status = "WAITING"])
      BY <2>3, UntouchedOperations
    <3>3. Touched
      BY <1>2, <2>1, <3>1, <3>2, ZenonT(60)
    <3> QED BY <2>2, <3>3
  <2> QED BY <1>5, <2>4, <2>5 DEF FrontStep
<1>6. CASE HarvestStep(w) \/ PollStep(w)
  BY <1>6 DEF HarvestStep, PollStep, EpollHarvest, UringHarvest, IocpHarvest, EpollPoll,
              UringSubmit, UringPoll, Touched
<1> QED BY <1>3, <1>4, <1>5, <1>6

\* The sched-thread goes on with its scheduling.
LEMMA SchedThreads ==
    ASSUME NEW w \in Workers,
           ExpireStep(w) \/ EventStep(w) \/ FrontStep(w) \/ HarvestStep(w) \/ PollStep(w)
    PROVE  /\ core' = core
           /\ \/ thread' = thread
              \/ thread[w].pc \in SchedPCs /\ \E pc \in SchedPCs : thread' = Goto(w, pc)
<1>1. core' = core
  BY DEF ExpireStep, ExpireTop, Publish, Decide, EventStep, EpollEvent, KqueueEvent, Report,
         UringEvent, IocpEvent, FrontStep, EpollFront, UringFront, IocpFront, NextPending,
         HarvestStep, EpollHarvest, UringHarvest, IocpHarvest, PollStep, EpollPoll, UringSubmit,
         UringPoll
<1>2. Again \in SchedPCs /\ "finish" \in SchedPCs /\ "decide" \in SchedPCs
  BY DEF Again, SchedPCs
<1>3. CASE ExpireStep(w)
  <2>1. thread[w].pc \in SchedPCs
    BY <1>3 DEF ExpireStep, ExpireTop, InWaitingLoop, Publish, Decide, AtWaiting, AtFront, At,
                SchedPCs
  <2>2. CASE ExpireTop(w)
    BY <1>1, <2>1, <2>2 DEF ExpireTop, SchedPCs
  <2>3. ASSUME NEW to \in {"decide", "submit"}, Publish(w, to)
        PROVE  \E pc \in SchedPCs : thread' = Goto(w, pc)
    BY <2>3 DEF Publish, SchedPCs
  <2>4. ASSUME NEW sleep \in SchedPCs, NEW passed \in SchedPCs, Decide(w, sleep, passed)
        PROVE  \E pc \in SchedPCs : thread' = Goto(w, pc)
    BY <1>2, <2>4, Zenon DEF Decide
  <2> QED BY <1>1, <1>3, <2>1, <2>2, <2>3, <2>4 DEF ExpireStep
<1>4. CASE EventStep(w)
  BY <1>1, <1>4 DEF EventStep, EpollEvent, KqueueEvent, Report, UringEvent, IocpEvent
<1>5. CASE FrontStep(w)
  <2>1. NextPending(w)
    BY <1>5 DEF FrontStep, EpollFront, UringFront, IocpFront
  <2>2. thread' = Goto(w, "front") /\ thread[w].pc \in {"front", "kernel"}
    BY <2>1 DEF NextPending, InFrontLoop, AtFront, At
  <2> QED BY <1>1, <2>2 DEF SchedPCs
<1>6. CASE HarvestStep(w)
  <2>1. thread' = Goto(w, "collect") /\ thread[w].pc \in {"harvest", "poll"}
    BY <1>6 DEF HarvestStep, EpollHarvest, UringHarvest, IocpHarvest, At
  <2> QED BY <1>1, <2>1 DEF SchedPCs
<1>7. CASE PollStep(w)
  <2>1. \E pc \in SchedPCs : thread' = Goto(w, pc)
    BY <1>2, <1>7 DEF PollStep, EpollPoll, UringSubmit, UringPoll
  <2>2. thread[w].pc \in {"submit", "poll"}
    BY <1>7 DEF PollStep, EpollPoll, UringSubmit, UringPoll, At
  <2> QED BY <1>1, <2>1, <2>2 DEF SchedPCs
<1> QED BY <1>3, <1>4, <1>5, <1>6, <1>7

\* Nor does it change who is to let one go.
LEMMA SchedFinals ==
    ASSUME TInv, TInv', CountIsRight, NEW w \in Workers,
           ExpireStep(w) \/ EventStep(w) \/ FrontStep(w) \/ HarvestStep(w) \/ PollStep(w)
    PROVE  FinalsStay
<1>1. w \in Threads /\ \A pc \in SchedPCs : pc \notin FinalPCs \cup {"signal"}
  BY DEF Threads, SchedPCs, FinalPCs
<1>2. CASE thread' = thread
  <2>1. FinalFits(w)'
    BY <1>1, <1>2 DEF CountIsRight, FinalFits
  <2> QED BY <1>1, <1>2, <2>1, OneFinal
<1>3. ASSUME NEW pc \in SchedPCs, thread[w].pc \in SchedPCs, thread' = Goto(w, pc)
      PROVE  FinalsStay
  BY <1>1, <1>3, PlainGoto
<1> QED BY <1>2, <1>3, SchedThreads

\* The sched-thread neither takes a task in nor lets one go.
LEMMA SchedSubs ==
    ASSUME TInv, OwnInv, NEW w \in Workers,
           ExpireStep(w) \/ EventStep(w) \/ FrontStep(w) \/ HarvestStep(w) \/ PollStep(w)
    PROVE  SubsKept /\ count' = count
<1>1. Touched /\ count' = count
  BY SchedTouches
<1>2. task \in [Tasks -> TaskType]
  BY DEF TInv, TypeOK
<1> QED BY <1>1, <1>2 DEF Touched, Untouched, SubsKept

\* What the platform leaves of a closed task is a task.
LEMMA LastArgs ==
    ASSUME TInv, NEW w \in Workers, LastStep(w)
    PROVE  \E r \in TaskType : LastExecute(w, r)
<1>1. task[Of(w)] \in TaskType
  BY HandIsFull DEF LastStep, LastExecute
<1>2. CASE Flagged
  BY <1>1, <1>2, FlagArgs DEF LastStep, Flagged
<1>3. CASE ~Flagged
  <2>1. {} \in SUBSET Kinds /\ Of(w) \in Tasks
    BY HandIsFull DEF LastStep, LastExecute
  <2> QED BY <1>1, <1>3, <2>1, OperationArgs DEF LastStep
<1> QED BY <1>2, <1>3

\* After a step too, the task in a thread's hands is where the thread is.
LEMMA HandHasTaskNext ==
    ASSUME NEW p \in Threads
    PROVE  (TInv /\ OwnInv /\ thread[p].pc \in HandPCs =>
              Place(Of(p)) = thread[p].pc /\ TaskFits(Of(p)))'
<1>1. TInv /\ OwnInv /\ thread[p].pc \in HandPCs =>
         Place(Of(p)) = thread[p].pc /\ TaskFits(Of(p))
  BY HandHasTask
<1> QED BY <1>1, PTL

\* A task that is called keeps its subscription; the last execution pops it.
LEMMA ExecuteCounts ==
    ASSUME TInv, TInv', OwnInv, OwnInv', CountIsRight, NEW w \in Workers,
           OwnerStep(w) \/ LastStep(w)
    PROVE  CountIsRight'
<1>1. thread \in [Threads -> ThreadType] /\ task \in [Tasks -> TaskType] /\ w \in Threads
  BY DEF TInv, TypeOK, Threads
<1>2. At(w, "execute")
  BY OwnerExecutes DEF Execute, LastStep, LastExecute
<1>3. PICK t \in Tasks : t = Of(w) /\ TaskFits(t) /\ Place(t) = "execute"
  BY <1>1, <1>2, HandHasTask DEF At, HandPCs
<1>4. task[t].sub
  BY <1>3 DEF TaskFits, Fits, Called
<1>5. CASE OwnerStep(w)
  <2>1. PICK r, k : Execute(w, r, k)
    BY <1>5, OwnerExecutes
  <2>2. task' = [task EXCEPT ![t] = r] /\ count' = count /\ thread' = Goto(w, "callback")
    BY <1>3, <2>1 DEF Execute
  <2>3. thread'[w].pc = "callback" /\ thread'[w].task = t
    BY <1>1, <1>3, <2>2 DEF Goto, ThreadType, Of
  <2>4. TaskFits(t)' /\ Place(t)' = "callback"
    <3>2. (TInv /\ OwnInv /\ thread[w].pc \in HandPCs =>
             Place(Of(w)) = thread[w].pc /\ TaskFits(Of(w)))'
      BY <1>1, HandHasTaskNext
    <3>3. Of(w)' = t
      BY <2>3 DEF Of
    <3> QED BY <2>3, <3>2, <3>3 DEF HandPCs
  <2>5. task'[t].sub
    BY <2>4 DEF TaskFits, Fits, Running
  <2>6. FinalsStay
    BY <1>1, <1>2, <2>2, PlainGoto DEF At, FinalPCs
  <2>7. \A u \in Tasks : u # t => task'[u] = task[u]
    BY <2>2
  <2> QED BY <1>4, <2>2, <2>5, <2>6, <2>7, CountStays
<1>6. CASE LastStep(w)
  <2>1. PICK r \in TaskType : LastExecute(w, r)
    BY <1>3, <1>6, LastArgs
  <2>2. /\ task' = [task EXCEPT ![t] = [r EXCEPT !.sub = FALSE]] /\ count' = count
        /\ thread' = [thread EXCEPT ![w].pc = "closed", ![w].final = TRUE]
    BY <1>3, <2>1 DEF LastExecute
  <2>3. ~task'[t].sub /\ \A u \in Tasks : u # t => task'[u] = task[u]
    BY <1>1, <2>2 DEF TaskType
  <2>4. /\ thread'[w].pc = "closed" /\ thread'[w].final
        /\ \A q \in Threads : q # w => thread'[q] = thread[q]
    BY <1>1, <2>2 DEF ThreadType
  <2>5. \A q \in Threads : FinalFits(q)'
    BY <2>4 DEF CountIsRight, FinalFits, FinalPCs
  <2>6. Subs' = Subs \ {t} /\ t \in Subs
    BY <1>4, <2>3 DEF Subs
  <2>7. Finals' = Finals \cup {w} /\ w \notin Finals
    <3>1. ~thread[w].final
      BY <1>1, <1>2 DEF CountIsRight, FinalFits, FinalPCs, At
    <3>2. \A q \in Workers : q \in Threads
      BY DEF Threads
    <3> QED BY <2>4, <3>1, <3>2 DEF Finals
  <2>8. /\ Cardinality(Subs') = Cardinality(Subs) - 1
        /\ Cardinality(Finals') = Cardinality(Finals) + 1
    BY <2>6, <2>7, CountIsFinite, FS_RemoveElement, FS_AddElement
  <2>9. PICK a \in Nat, b \in Nat : a = Cardinality(Subs) /\ b = Cardinality(Finals)
    BY CountIsFinite
  <2>10. count' = Cardinality(Subs') + Cardinality(Finals')
    BY <2>2, <2>8, <2>9 DEF CountIsRight
  <2> QED BY <2>5, <2>10 DEF CountIsRight
<1> QED BY <1>5, <1>6

\* The steps of the controller and of the kernel keep the count.
LEMMA ControlCounts ==
    ASSUME TInv, SchedInv, CountIsRight,
           \/ Start(scenario.crew) \/ Stop \/ StopWorkers \/ StopJoin \/ Tick
           \/ EpollKernel \/ UringKernel \/ IocpKernel \/ UNCHANGED vars
    PROVE  CountIsRight'
<1>1. task' = task /\ count' = count
  BY DEF Start, Stop, StopWorkers, StopJoin, Tick, EpollKernel, UringKernel, IocpKernel,
         KernelWork, Arrive, Break, Complete, CompleteInternal, vars
<1>2. FinalsStay
  <2>1. CASE Start(scenario.crew)
    <3>1. \A w \in Workers : thread[w].pc = "done"
      BY <2>1 DEF Start, SchedInv, CrewWorks
    <3>2. \A p \in Threads : thread'[p] = thread[p]
             \/ (p \in scenario.crew /\ thread'[p].pc = "elect" /\ ~thread'[p].final)
      BY <2>1 DEF Start, NewThread
    <3>3. scenario.crew \in SUBSET Workers /\ \A w \in Workers : w \in Threads
      BY ScenariosAssumption DEF TInv, TypeOK, Threads
    <3>4. \A p \in scenario.crew : ~thread[p].final
      BY <3>1, <3>3 DEF CountIsRight, FinalFits, FinalPCs
    <3>5. \A p \in Threads : thread'[p].final <=> thread[p].final
      BY <3>2, <3>4
    <3>6. \A p \in Threads : FinalFits(p)'
      BY <3>2 DEF CountIsRight, FinalFits, FinalPCs
    <3> QED BY <3>3, <3>5, <3>6 DEF FinalsStay, Finals
  <2>2. CASE thread' = thread
    BY <2>2 DEF FinalsStay, Finals, CountIsRight, FinalFits
  <2> QED BY <2>1, <2>2 DEF Stop, StopWorkers, StopJoin, Tick, EpollKernel, UringKernel,
             IocpKernel, KernelWork, Arrive, Break, Complete, CompleteInternal, vars
<1> QED BY <1>1, <1>2, CountStays

\* Every step of the core keeps it.
LEMMA NextCounts ==
    ASSUME TInv, TInv', OwnInv, OwnInv', SchedInv, CountIsRight, [Next]_vars
    PROVE  CountIsRight'
<1>1. CASE CommonNext
  <2>1. ASSUME NEW c \in Clients, NEW t \in Tasks, ClientCall(c, t) PROVE CountIsRight'
    BY <2>1, CallCounts DEF ClientCall, Threads
  <2>2. ASSUME NEW p \in Threads, ThreadStep(p) PROVE CountIsRight'
    BY <2>2, ThreadCounts
  <2>3. ASSUME NEW w \in Workers, WorkerStep(w) PROVE CountIsRight'
    <3>1. CASE PostClose(w, Of(w))
      <4>1. w \in Threads /\ Of(w) \in Tasks
        BY <3>1, ThreadsAssumption DEF PostClose, TInv, HandsAreFull, HandPCs, Threads, At, Of
      <4> QED BY <3>1, <4>1, CallCounts
    <3>2. CASE ThreadStep(w)
      BY <3>2, <2>2 DEF Threads
    <3>3. CASE \/ ScheduleStart(w) \/ ScheduleEnd(w) \/ SignalReady(w) \/ WorkerExit(w)
               \/ WaitReady(w) \/ Collect(w)
      BY <3>3, QuietCounts
    <3>4. CASE Pop(w) \/ Return(w) \/ Reattach(w) \/ Repost(w) \/ Release(w)
      BY <3>4, PopCounts, HandCounts
    <3> QED BY <2>3, <3>1, <3>2, <3>3, <3>4 DEF WorkerStep
  <2>4. CASE StopStart \/ StopNext \/ Tick
    BY <2>4, ControlCounts DEF StopStart, StopNext
  <2> QED BY <1>1, <2>1, <2>2, <2>3, <2>4 DEF CommonNext, Threads
<1>2. ASSUME NEW w \in Workers, BackendStep(w) PROVE CountIsRight'
  <2>1. CASE OwnerStep(w) \/ LastStep(w)
    BY <2>1, ExecuteCounts
  <2>2. CASE ExpireStep(w) \/ EventStep(w) \/ FrontStep(w) \/ HarvestStep(w) \/ PollStep(w)
    BY <2>2, SchedSubs, SchedFinals, CountStays DEF SubsKept
  <2> QED BY <1>2, <2>1, <2>2, BackendCases
<1> QED BY <1>1, <1>2, ControlCounts DEF Next

\* No task, no count.
LEMMA InitCounts == Init => CountIsRight
<1> SUFFICES ASSUME Init PROVE CountIsRight
  OBVIOUS
<1>1. Subs = {}
  BY DEF Init, NewTask, Subs
<1>2. \A p \in Threads : thread[p].pc \in {"idle", "done"} /\ ~thread[p].final
  BY DEF Init, NewThread, Idle
<1>3. Finals = {}
  BY <1>2 DEF Finals, Threads
<1> QED BY <1>1, <1>2, <1>3, FS_EmptySet DEF CountIsRight, FinalFits, FinalPCs, Init

\* A count of zero means that the core has no task left.
THEOREM CountIsTrusted == Spec => []CountCoversTasks
<1>1. Init => CountIsRight
  BY InitCounts
<1>2. TInv /\ TInv' /\ OwnInv /\ OwnInv' /\ SchedInv /\ CountIsRight /\ [Next]_vars
         => CountIsRight'
  BY NextCounts
<1>3. TInv /\ OwnInv /\ CountIsRight => CountCoversTasks
  <2> SUFFICES ASSUME TInv, OwnInv, CountIsRight PROVE CountCoversTasks
    OBVIOUS
  <2>1. PICK a \in Nat, b \in Nat : a = Cardinality(Subs) /\ b = Cardinality(Finals)
    BY CountIsFinite
  <2>2. count = a + b
    BY <2>1 DEF CountIsRight
  <2>3. count >= Cardinality({t \in Tasks : task[t].sub})
    BY <2>1, <2>2 DEF Subs
  <2>4. ASSUME count = 0
        PROVE  /\ \A t \in Tasks : InQueues(t) = 0 /\ InHands(t) = {}
               /\ queue.waiting = {}
    <3>0. a = 0 /\ b = 0
      BY <2>1, <2>2, <2>4
    <3>1. Subs = {} /\ Finals = {}
      <4>1. Cardinality(Subs) = 0 /\ Cardinality(Finals) = 0
        BY <2>1, <3>0
      <4>2. IsFiniteSet(Subs) /\ IsFiniteSet(Finals)
        BY CountIsFinite
      <4>3. Subs = {}
        BY <4>1, <4>2, FS_EmptySet, Zenon
      <4>4. Finals = {}
        BY <4>1, <4>2, FS_EmptySet, Zenon
      <4> QED BY <4>3, <4>4
    <3>2. ASSUME NEW t \in Tasks
          PROVE  t \notin Posted /\ t \notin Due /\ ~Held(t) /\ t \notin queue.waiting
      <4>1. ~task[t].sub /\ TaskFits(t) /\ PlaceIsSeat
        BY <3>1, SeatsHavePlaces DEF Subs, OwnInv
      <4>2. Place(t) \notin {"posted", "due", "push", "execute", "callback"}
            /\ t \notin queue.waiting
        BY <4>1 DEF TaskFits, Fits, Queued, Called, Running
      <4>3. \A p \in Threads : ~thread[p].final
        BY <3>1 DEF CountIsRight, FinalFits, Finals
      <4>4. ASSUME Held(t) PROVE FALSE
        <5>1. PICK p \in Threads : Holds(p, t) /\ Place(t) = thread[p].pc
          BY <4>1, <4>4 DEF Held, PlaceIsSeat
        <5>2. thread[p].pc \in {"closed", "attach"}
          BY <4>2, <5>1 DEF Holds, HandPCs
        <5> QED BY <4>3, <5>2 DEF CountIsRight, FinalFits, FinalPCs
      <4> QED BY <4>1, <4>2, <4>4 DEF PlaceIsSeat
    <3>3. queue.waiting \subseteq Tasks
      BY DEF TInv, TypeOK, QueueType
    <3>4. ASSUME NEW t \in Tasks PROVE InQueues(t) = 0 /\ InHands(t) = {}
      <4>1. Copies(t, queue.front) = 0 /\ Copies(t, queue.pending) = 0
            /\ Copies(t, queue.list) = 0 /\ Copies(t, queue.ready) = 0
        BY <3>2, QueueCopies DEF Posted, Due, N
      <4> QED BY <3>2, <4>1, HandsOfTask DEF InQueues
    <3> QED BY <3>2, <3>3, <3>4
  <2> QED BY <2>3, <2>4 DEF CountCoversTasks
<1> QED BY <1>1, <1>2, <1>3, SchedulesAlone, TasksAreOwned, PTL DEF Spec

-----------------------------------------------------------------------------
(* What is promised to the owners of the tasks.                             *)

Woken(t) == task[t].status = "READY"

\* The phase of a task, case by case.
LEMMA PhaseTells ==
    ASSUME NEW t
    PROVE  /\ InCall(t) => Phase(t) = "called"
           /\ ~InCall(t) /\ task[t].sub => Phase(t) = "posted"
           /\ ~InCall(t) /\ ~task[t].sub /\ task[t].isClosed => Phase(t) = "over"
           /\ ~InCall(t) /\ ~task[t].sub /\ ~task[t].isClosed => Phase(t) = "new"
  BY DEF Phase

\* And after a step.
LEMMA PhaseTellsNext ==
    ASSUME NEW t
    PROVE  (/\ InCall(t) => Phase(t) = "called"
            /\ ~InCall(t) /\ task[t].sub => Phase(t) = "posted"
            /\ ~InCall(t) /\ ~task[t].sub /\ task[t].isClosed => Phase(t) = "over"
            /\ ~InCall(t) /\ ~task[t].sub /\ ~task[t].isClosed => Phase(t) = "new")'
<1>1. /\ InCall(t) => Phase(t) = "called"
      /\ ~InCall(t) /\ task[t].sub => Phase(t) = "posted"
      /\ ~InCall(t) /\ ~task[t].sub /\ task[t].isClosed => Phase(t) = "over"
      /\ ~InCall(t) /\ ~task[t].sub /\ ~task[t].isClosed => Phase(t) = "new"
  BY PhaseTells
<1> QED BY <1>1, PTL

\* The step is one that the owner may see, or none.
Kept == [Owner!Next]_(Owner!vars)

\* What a step may do to the task t, as its owner sees it.
Moved(t) ==
    \/ Phase(t)' = Phase(t) /\ (Woken(t)' <=> Woken(t)) /\ (task'[t].guard <=> task[t].guard)
    \/ /\ Phase(t) = "new" /\ Phase(t)' = "posted"
       /\ (Woken(t)' <=> Woken(t)) /\ (task'[t].guard <=> task[t].guard)
    \/ /\ task[t].guard => Phase(t) = "over"
       /\ Phase(t)' = Phase(t) /\ Woken(t)' /\ (task'[t].guard <=> task[t].guard)
    \/ /\ ~task[t].guard /\ task'[t].guard
       /\ Phase(t)' = Phase(t) /\ ~Woken(t)'
    \/ /\ Phase(t) = "posted" /\ Phase(t)' = "called"
       /\ ~Woken(t)' /\ (task[t].guard => task'[t].guard)
    \/ /\ Phase(t) = "called" /\ Phase(t)' = "posted"
       /\ (Woken(t)' <=> Woken(t)) /\ (task'[t].guard <=> task[t].guard)
    \/ /\ Phase(t) = "posted" /\ task[t].guard /\ Phase(t)' = "over"
       /\ (Woken(t)' <=> Woken(t)) /\ (task'[t].guard <=> task[t].guard)
    \/ /\ Phase(t) = "over" /\ Phase(t)' = "posted"
       /\ (Woken(t)' <=> Woken(t)) /\ ~task'[t].guard

\* The owner's view of a step that moves at most one task.
LEMMA TaskMoves ==
    ASSUME TInv, TInv', core'.state = core.state, NEW t \in Tasks, Moved(t),
           \A u \in Tasks : u # t => /\ Phase(u)' = Phase(u) /\ (Woken(u)' <=> Woken(u))
                                     /\ (task'[u].guard <=> task[u].guard)
    PROVE  Kept
<1> DEFINE P == [u \in Tasks |-> Phase(u)]
           W == [u \in Tasks |-> task[u].status = "READY"]
           C == [u \in Tasks |-> task[u].guard]
           R == core.state = "RUNNING"
<1>1. /\ \A u \in Tasks : P[u] = Phase(u) /\ P'[u] = Phase(u)'
      /\ \A u \in Tasks : (W[u] <=> Woken(u)) /\ (W'[u] <=> Woken(u)')
      /\ \A u \in Tasks : (C[u] <=> task[u].guard) /\ (C'[u] <=> task'[u].guard)
      /\ R' = R
  BY DEF Woken
<1>2. /\ P = [u \in Tasks |-> P[u]] /\ P' = [u \in Tasks |-> P'[u]]
      /\ W \in [Tasks -> BOOLEAN] /\ W' \in [Tasks -> BOOLEAN]
      /\ C \in [Tasks -> BOOLEAN] /\ C' \in [Tasks -> BOOLEAN]
  BY DEF TInv, TypeOK, TaskType
<1> HIDE DEF P, W, C, R
<1>3. /\ \A u \in Tasks : u # t => P'[u] = P[u] /\ W'[u] = W[u] /\ C'[u] = C[u]
  BY <1>1, <1>2
<1>4. /\ P'[t] = P[t] => P' = P
      /\ W'[t] = W[t] => W' = W
      /\ C'[t] = C[t] => C' = C
      /\ \A x : P'[t] = x => P' = [P EXCEPT ![t] = x]
      /\ W'[t] => W' = [W EXCEPT ![t] = TRUE]
      /\ ~W'[t] => W' = [W EXCEPT ![t] = FALSE]
      /\ C'[t] => C' = [C EXCEPT ![t] = TRUE]
      /\ ~C'[t] => C' = [C EXCEPT ![t] = FALSE]
  BY <1>2, <1>3
<1>5. \/ P'[t] = P[t] /\ W'[t] = W[t] /\ C'[t] = C[t]
      \/ P[t] = "new" /\ P'[t] = "posted" /\ W'[t] = W[t] /\ C'[t] = C[t]
      \/ (C[t] => P[t] = "over") /\ P'[t] = P[t] /\ W'[t] /\ C'[t] = C[t]
      \/ ~C[t] /\ C'[t] /\ P'[t] = P[t] /\ ~W'[t]
      \/ P[t] = "posted" /\ P'[t] = "called" /\ ~W'[t] /\ (C'[t] = C[t] \/ C'[t])
      \/ P[t] = "called" /\ P'[t] = "posted" /\ W'[t] = W[t] /\ C'[t] = C[t]
      \/ P[t] = "posted" /\ C[t] /\ P'[t] = "over" /\ W'[t] = W[t] /\ C'[t] = C[t]
      \/ P[t] = "over" /\ P'[t] = "posted" /\ W'[t] = W[t] /\ ~C'[t]
  <2>1. /\ P[t] = Phase(t) /\ P'[t] = Phase(t)'
        /\ (W[t] <=> Woken(t)) /\ (W'[t] <=> Woken(t)')
        /\ (C[t] <=> task[t].guard) /\ (C'[t] <=> task'[t].guard)
        /\ W[t] \in BOOLEAN /\ W'[t] \in BOOLEAN /\ C[t] \in BOOLEAN /\ C'[t] \in BOOLEAN
    BY <1>1, <1>2
  <2> QED BY <2>1 DEF Moved
<1>6. \/ P' = P /\ W' = W /\ C' = C
      \/ P[t] = "new" /\ P' = [P EXCEPT ![t] = "posted"] /\ W' = W /\ C' = C
      \/ (C[t] => P[t] = "over") /\ P' = P /\ W' = [W EXCEPT ![t] = TRUE] /\ C' = C
      \/ ~C[t] /\ C' = [C EXCEPT ![t] = TRUE] /\ P' = P /\ W' = [W EXCEPT ![t] = FALSE]
      \/ /\ P[t] = "posted" /\ P' = [P EXCEPT ![t] = "called"] /\ W' = [W EXCEPT ![t] = FALSE]
         /\ C' \in {C, [C EXCEPT ![t] = TRUE]}
      \/ P[t] = "called" /\ P' = [P EXCEPT ![t] = "posted"] /\ W' = W /\ C' = C
      \/ P[t] = "posted" /\ C[t] /\ P' = [P EXCEPT ![t] = "over"] /\ W' = W /\ C' = C
      \/ P[t] = "over" /\ P' = [P EXCEPT ![t] = "posted"] /\ W' = W /\ C' = [C EXCEPT ![t] = FALSE]
  BY <1>4, <1>5
<1>7. \/ P' = P /\ W' = W /\ C' = C /\ R' = R
      \/ Owner!Post(t) \/ Owner!Wake(t) \/ Owner!Close(t) \/ Owner!Call(t) \/ Owner!Return(t)
      \/ Owner!LastCall(t) \/ Owner!Reuse(t)
  BY <1>1, <1>6 DEF P, W, C, R, Owner!Post, Owner!Wake, Owner!Close, Owner!Call, Owner!Return,
                    Owner!LastCall, Owner!Reuse
<1> QED BY <1>7 DEF Kept, Owner!Next, Owner!vars, P, W, C, R

\* Nor does a step that moves none.
LEMMA NothingMoves ==
    ASSUME TInv, TInv', (core'.state = "RUNNING") <=> (core.state = "RUNNING"),
           \A u \in Tasks : /\ Phase(u)' = Phase(u) /\ (Woken(u)' <=> Woken(u))
                            /\ (task'[u].guard <=> task[u].guard)
    PROVE  Kept
<1> DEFINE P == [u \in Tasks |-> Phase(u)]
           W == [u \in Tasks |-> task[u].status = "READY"]
           C == [u \in Tasks |-> task[u].guard]
           R == core.state = "RUNNING"
<1>1. P' = P
  OBVIOUS
<1>2. W' = W
  <2>1. \A u \in Tasks : (task'[u].status = "READY") <=> (task[u].status = "READY")
    BY DEF Woken
  <2>2. \A u \in Tasks : (task'[u].status = "READY") = (task[u].status = "READY")
    BY <2>1
  <2> QED BY <2>2
<1>3. C' = C
  <2>1. \A u \in Tasks : task'[u].guard = task[u].guard
    BY DEF TInv, TypeOK, TaskType
  <2> QED BY <2>1
<1>4. R' = R
  OBVIOUS
<1> HIDE DEF P, W, C, R
<1>5. P' = P /\ W' = W /\ C' = C /\ R' = R
  BY <1>1, <1>2, <1>3, <1>4
<1> QED BY <1>5 DEF Kept, Owner!vars, P, W, C, R

\* The phase of a task depends on its fields and on who calls it.
LEMMA SamePhase ==
    ASSUME NEW t \in Tasks, InCall(t)' <=> InCall(t), task'[t].sub <=> task[t].sub,
           task'[t].sub \/ (task'[t].isClosed <=> task[t].isClosed)
    PROVE  Phase(t)' = Phase(t)
  BY PhaseTells, PhaseTellsNext

\* A step that leaves the tasks alone and neither begins nor ends a call.
LEMMA QuietKept ==
    ASSUME TInv, TInv', (core'.state = "RUNNING") <=> (core.state = "RUNNING"),
           task' = task,
           \A u \in Tasks : InCall(u)' <=> InCall(u)
    PROVE  Kept
<1>1. \A u \in Tasks : Phase(u)' = Phase(u)
  BY SamePhase
<1> QED BY <1>1, NothingMoves DEF Woken

\* A step that changes the fields of one task, or begins or ends its call.
LEMMA OneKept ==
    ASSUME TInv, TInv', core'.state = core.state, NEW t \in Tasks, Moved(t),
           \A u \in Tasks : u # t => task'[u] = task[u] /\ (InCall(u)' <=> InCall(u))
    PROVE  Kept
<1>1. \A u \in Tasks : u # t => Phase(u)' = Phase(u)
  BY SamePhase
<1> QED BY <1>1, TaskMoves DEF Woken

\* A thread that is in no callback and goes to none.
LEMMA SameCalls ==
    ASSUME NEW p \in Threads, \A q \in Threads : q # p => thread'[q] = thread[q],
           thread[p].pc # "callback", thread'[p].pc # "callback"
    PROVE  \A u \in Tasks : InCall(u)' <=> InCall(u)
<1>1. \A q \in Workers : q \in Threads
  BY DEF Threads
<1> QED BY <1>1 DEF InCall, At, Of

\* A task that somebody has is in a call just if it is in a callback.
LEMMA CallOfHand ==
    ASSUME OwnInv, NEW t \in Tasks
    PROVE  InCall(t) => Place(t) = "callback"
<1> SUFFICES ASSUME InCall(t) PROVE Place(t) = "callback"
  OBVIOUS
<1>1. PICK w \in Workers : thread[w].pc = "callback" /\ thread[w].task = t
  BY DEF InCall, At, Of
<1> QED BY <1>1, PlaceOfHand DEF Holds, HandPCs, Threads

\* After a step too.
LEMMA CallOfHandNext ==
    ASSUME NEW t \in Tasks
    PROVE  (OwnInv /\ InCall(t) => Place(t) = "callback")'
<1>1. OwnInv /\ InCall(t) => Place(t) = "callback"
  BY CallOfHand
<1> QED BY <1>1, PTL

\* A task that is closed and awake again is the one that its last callback attaches anew.
LEMMA AwakeIsOver ==
    ASSUME OwnInv, NEW t \in Tasks, task[t].guard, task[t].status \in {"WAITING", "PENDING", "READY"}
    PROVE  Phase(t) = "over"
<1>1. TaskFits(t) /\ Place(t) \in Places
  BY FitsParts
<1>2. task[t].isClosed
  BY <1>1 DEF TaskFits, Fits
<1>3. ~task[t].sub /\ Place(t) = "attach"
  BY <1>1, <1>2 DEF TaskFits, Fits, Queued, Called, Running, Parked, Places, HandPCs
<1> QED BY <1>2, <1>3, CallOfHand, PhaseTells

-----------------------------------------------------------------------------
(* The calls and the threads, as the owner sees them.                       *)

\* PostClose(), PostWakeup() and the first post.
LEMMA CallKept ==
    ASSUME TInv, TInv', OwnInv, NEW p \in Threads, NEW t \in Tasks,
           (p \in Clients /\ (Post(p, t) \/ PostWakeup(p, t))) \/ PostClose(p, t)
    PROVE  Kept
<1>1. thread \in [Threads -> ThreadType] /\ task \in [Tasks -> TaskType] /\ task[t] \in TaskType
  BY DEF TInv, TypeOK
<1>2. core'.state = core.state
  BY DEF Post, PostWakeup, PostClose
<1>3. \A u \in Tasks : InCall(u)' <=> InCall(u)
  <2>1. CASE thread' = thread
    BY <2>1 DEF InCall, At, Of
  <2>2. CASE thread' # thread
    <3>1. thread' = Taking(p, t, "push") /\ thread[p].pc \in {"idle", "callback"}
      BY <2>2 DEF Post, PostWakeup, PostClose, Taking, At
    <3>2. thread[p].pc # "callback"
      <4>1. CASE thread[p].pc = "callback"
        <5>1. PostClose(p, t) /\ t = Of(p) /\ task[t].status = "WAITING"
          BY <2>2, <4>1, ThreadsAssumption DEF Post, PostWakeup, PostClose, At
        <5>2. Holds(p, t)
          BY <4>1, <5>1 DEF Holds, Of, HandPCs
        <5>3. Place(t) = "callback" /\ TaskFits(t)
          BY <4>1, <5>2, PlaceOfHand, FitsParts
        <5> QED BY <5>1, <5>3 DEF TaskFits, Fits, Running
      <4> QED BY <4>1
    <3>3. thread'[p].pc = "push" /\ \A q \in Threads : q # p => thread'[q] = thread[q]
      <4>1. "push" \in PCs
        BY DEF PCs, HandPCs
      <4> QED BY <1>1, <3>1, <4>1, TakingUpdates
    <3> QED BY <3>2, <3>3, SameCalls
  <2> QED BY <2>1, <2>2
<1>4. CASE Post(p, t)
  <2>1. /\ \A u \in Tasks : u # t => task'[u] = task[u]
        /\ ~task[t].sub /\ ~task[t].isClosed
        /\ task'[t].sub /\ task'[t].status = task[t].status
        /\ (task'[t].guard <=> task[t].guard)
    BY <1>1, <1>4 DEF Post, TaskType
  <2>2. ~InCall(t)
    <3>1. Place(t) # "callback"
      BY <2>1, FitsParts DEF TaskFits, Fits, Running
    <3> QED BY <3>1, CallOfHand
  <2>3. Phase(t) = "new" /\ Phase(t)' = "posted"
    BY <1>3, <2>1, <2>2, PhaseTells, PhaseTellsNext
  <2>4. Moved(t)
    BY <2>1, <2>3 DEF Moved, Woken
  <2> QED BY <1>2, <1>3, <2>1, <2>4, OneKept
<1>5. CASE PostWakeup(p, t)
  <2>1. /\ \A u \in Tasks : u # t => task'[u] = task[u]
        /\ task[t].status \in {"WAITING", "PENDING"} /\ task'[t].status = "READY"
        /\ (task'[t].sub <=> task[t].sub) /\ (task'[t].isClosed <=> task[t].isClosed)
        /\ (task'[t].guard <=> task[t].guard)
    BY <1>1, <1>5 DEF PostWakeup, TaskType
  <2>2. Phase(t)' = Phase(t)
    BY <1>3, <2>1, SamePhase
  <2>3. task[t].guard => Phase(t) = "over"
    BY <2>1, AwakeIsOver
  <2>4. Moved(t)
    BY <2>1, <2>2, <2>3 DEF Moved, Woken
  <2> QED BY <1>2, <1>3, <2>1, <2>4, OneKept
<1>6. CASE PostClose(p, t)
  <2>1. ~task[t].guard /\ task' = [task EXCEPT ![t] = [task[t] EXCEPT !.guard = TRUE,
                                                                    !.status = "CLOSING"]]
    BY <1>6 DEF PostClose, Closing
  <2>2. /\ \A u \in Tasks : u # t => task'[u] = task[u]
        /\ task'[t].guard /\ task'[t].status = "CLOSING"
        /\ (task'[t].sub <=> task[t].sub) /\ (task'[t].isClosed <=> task[t].isClosed)
    BY <1>1, <2>1 DEF TaskType
  <2>3. Phase(t)' = Phase(t)
    BY <1>3, <2>2, SamePhase
  <2>4. Moved(t)
    BY <2>1, <2>2, <2>3 DEF Moved, Woken
  <2> QED BY <1>2, <1>3, <2>2, <2>4, OneKept
<1> QED BY <1>4, <1>5, <1>6

\* The pushes, the signals and the loop of a worker.
LEMMA LoopKept ==
    ASSUME TInv, TInv', NEW p \in Threads,
           \/ Push(p) \/ PlatformSignal(p) \/ ScheduleStart(p) \/ ScheduleEnd(p)
           \/ SignalReady(p) \/ WorkerExit(p) \/ WaitReady(p) \/ Collect(p)
           \/ Pop(p) \/ Release(p)
    PROVE  Kept
<1>1. thread \in [Threads -> ThreadType] /\ task' = task /\ core' = core
  BY DEF TInv, TypeOK, Push, PlatformSignal, ScheduleStart, ScheduleEnd, SignalReady, WorkerExit,
         WaitReady, Collect, Pop, Release
<1>2. thread[p].pc # "callback"
  BY DEF Push, PlatformSignal, ScheduleStart, ScheduleEnd, SignalReady, WorkerExit,
         WaitReady, Collect, Pop, Release, At
<1>3. thread'[p].pc # "callback" /\ \A q \in Threads : q # p => thread'[q] = thread[q]
  <2>1. CASE Push(p)
    <3>1. PICK t \in Tasks : t = Of(p)
      BY <2>1 DEF Push, At, Of, TInv, HandsAreFull, HandPCs
    <3> QED BY <2>1, <3>1, PushedUpdates DEF Push, TInv
  <2>2. CASE PlatformSignal(p)
    BY <1>1, <2>2, OnwardsUpdates DEF PlatformSignal
  <2>3. CASE Release(p)
    BY <1>1, <2>3, NextTaskUpdates DEF Release
  <2>4. CASE Pop(p)
    <3>1. \/ thread' = Rest(p, "wait")
          \/ \E t : thread' = [thread EXCEPT ![p].pc = "execute", ![p].task = t]
      BY <2>4 DEF Pop
    <3> QED BY <1>1, <3>1 DEF Rest, NewThread, ThreadType
  <2>5. CASE ScheduleStart(p) \/ ScheduleEnd(p) \/ SignalReady(p) \/ WorkerExit(p)
             \/ WaitReady(p) \/ Collect(p)
    <3>1. PICK pc \in {"pop", "harvest", "announce", "abandon", "domino", "done", "exit",
                       "elect", "kernel"} : thread' = Goto(p, pc) \/ thread' = Rest(p, pc)
      <4>1. CASE ScheduleStart(p)
        BY <4>1, Zenon DEF ScheduleStart
      <4>2. CASE WaitReady(p)
        BY <4>2, Zenon DEF WaitReady
      <4>3. CASE ScheduleEnd(p) \/ SignalReady(p) \/ WorkerExit(p) \/ Collect(p)
        BY <4>3 DEF ScheduleEnd, SignalReady, WorkerExit, Collect
      <4> QED BY <2>5, <4>1, <4>2, <4>3
    <3>2. pc \in PCs /\ pc # "callback"
      BY DEF PCs, SchedPCs, OtherPCs
    <3> QED BY <1>1, <3>1, <3>2, ThreadUpdates
  <2> QED BY <2>1, <2>2, <2>3, <2>4, <2>5
<1> QED BY <1>1, <1>2, <1>3, SameCalls, QuietKept

\* The call of t by the worker w begins or ends, and no other one does.
LEMMA CallMoves ==
    ASSUME OwnInv, NEW w \in Workers, NEW t \in Tasks, Holds(w, t),
           \A q \in Threads : q # w => thread'[q] = thread[q],
           thread'[w].pc = "callback" => thread'[w].task = t
    PROVE  /\ InCall(t) <=> thread[w].pc = "callback"
           /\ InCall(t)' <=> thread'[w].pc = "callback"
           /\ \A u \in Tasks : u # t => (InCall(u)' <=> InCall(u))
<1>1. \A q \in Workers : q \in Threads
  BY DEF Threads
<1>2. \A q \in Workers : q # w => ~(thread[q].pc = "callback" /\ thread[q].task = t)
  BY <1>1 DEF OwnInv, SeatsApart, Holds, HandPCs
<1>3. thread[w].task = t
  BY DEF Holds
<1> QED BY <1>1, <1>2, <1>3 DEF InCall, At, Of

\* The callback returns, or the last callback attaches the task anew.
LEMMA HandKept ==
    ASSUME TInv, TInv', OwnInv, NEW w \in Workers, Return(w) \/ Reattach(w) \/ Repost(w)
    PROVE  Kept
<1>1. PICK t \in Tasks : t = Of(w) /\ Holds(w, t) /\ Place(t) = thread[w].pc /\ TaskFits(t)
               /\ task[t] \in TaskType /\ task \in [Tasks -> TaskType]
               /\ w \in Threads /\ thread \in [Threads -> ThreadType]
  BY WorkerHolds DEF Return, Reattach, Repost, At, HandPCs
<1>2. core' = core
  BY DEF Return, Reattach, Repost
<1>3. CASE Return(w)
  <2>1. thread[w].pc = "callback" /\ Pushed(w, t)
        /\ task' = [task EXCEPT ![t].inQueues = TRUE]
    BY <1>1, <1>3 DEF Return, At
  <2>2. thread'[w].pc # "callback" /\ \A q \in Threads : q # w => thread'[q] = thread[q]
    BY <1>1, <2>1, PushedUpdates DEF TInv
  <2>3. /\ InCall(t) /\ ~InCall(t)'
        /\ \A u \in Tasks : u # t => (InCall(u)' <=> InCall(u))
    BY <1>1, <2>1, <2>2, CallMoves
  <2>4. /\ \A u \in Tasks : u # t => task'[u] = task[u]
        /\ task'[t].status = task[t].status /\ (task'[t].guard <=> task[t].guard)
        /\ (task'[t].sub <=> task[t].sub)
    BY <1>1, <2>1 DEF TaskType
  <2>5. task[t].sub
    BY <1>1, <2>1 DEF TaskFits, Fits, Running
  <2>6. Phase(t) = "called" /\ Phase(t)' = "posted"
    BY <2>3, <2>4, <2>5, PhaseTells, PhaseTellsNext
  <2>7. Moved(t)
    BY <2>4, <2>6 DEF Moved, Woken
  <2> QED BY <1>2, <2>3, <2>4, <2>7, OneKept
<1>4. CASE Reattach(w)
  <2>1. thread[w].pc = "closed" /\ thread' = Goto(w, "attach")
        /\ task' = [task EXCEPT ![t].status = "PENDING"]
    BY <1>1, <1>4 DEF Reattach, At
  <2>2. thread'[w].pc = "attach" /\ \A q \in Threads : q # w => thread'[q] = thread[q]
    <3>1. "attach" \in PCs
      BY DEF PCs, HandPCs
    <3> QED BY <1>1, <2>1, <3>1, ThreadUpdates
  <2>3. \A u \in Tasks : InCall(u)' <=> InCall(u)
    BY <1>1, <2>1, <2>2, SameCalls
  <2>4. /\ \A u \in Tasks : u # t => task'[u] = task[u]
        /\ task'[t].status = "PENDING" /\ (task'[t].guard <=> task[t].guard)
        /\ (task'[t].sub <=> task[t].sub) /\ (task'[t].isClosed <=> task[t].isClosed)
    BY <1>1, <2>1 DEF TaskType
  <2>5. task[t].status = "CLOSED"
    BY <1>1, <2>1 DEF TaskFits, Fits
  <2>6. Phase(t)' = Phase(t)
    BY <2>3, <2>4, SamePhase
  <2>7. Moved(t)
    BY <2>4, <2>5, <2>6 DEF Moved, Woken
  <2> QED BY <1>2, <2>3, <2>4, <2>7, OneKept
<1>5. CASE Repost(w)
  <2>1. thread[w].pc = "attach" /\ Pushed(w, t)
        /\ task' = [task EXCEPT ![t] = [task[t] EXCEPT
                      !.isClosed = FALSE, !.guard = FALSE, !.sub = TRUE,
                      !.socket = ComesWithSocket(t), !.inQueues = TRUE]]
    BY <1>1, <1>5 DEF Repost, At
  <2>2. thread'[w].pc # "callback" /\ \A q \in Threads : q # w => thread'[q] = thread[q]
    BY <1>1, <2>1, PushedUpdates DEF TInv
  <2>3. /\ ~InCall(t) /\ ~InCall(t)'
        /\ \A u \in Tasks : u # t => (InCall(u)' <=> InCall(u))
    BY <1>1, <2>1, <2>2, CallMoves
  <2>4. /\ \A u \in Tasks : u # t => task'[u] = task[u]
        /\ task'[t].status = task[t].status /\ ~task'[t].guard /\ task'[t].sub
    BY <1>1, <2>1 DEF TaskType
  <2>5. ~task[t].sub /\ task[t].isClosed
    BY <1>1, <2>1 DEF TaskFits, Fits
  <2>6. Phase(t) = "over" /\ Phase(t)' = "posted"
    BY <2>3, <2>4, <2>5, PhaseTells, PhaseTellsNext
  <2>7. Moved(t)
    BY <2>4, <2>6 DEF Moved, Woken
  <2> QED BY <1>2, <2>3, <2>4, <2>7, OneKept
<1> QED BY <1>3, <1>4, <1>5

-----------------------------------------------------------------------------
(* What a call makes of the status: nothing, or CLOSING.                    *)

\* The task r has become s in its owner's callback.
Answered(r, s) == s.status \in {r.status, "CLOSING"}

\* Most of what the owner does leaves the status alone.
LEMMA PlainAnswers ==
    ASSUME NEW r \in TaskType
    PROVE  /\ Answered(r, Closing(r)) /\ Answered(r, r)
           /\ \A l, e : [r EXCEPT !.locked = l, !.ready = e].status = r.status
           /\ \A n, e : [r EXCEPT !.operations = n, !.ready = e].status = r.status
           /\ \A n, l : [r EXCEPT !.operations = n, !.locked = l].status = r.status
           /\ \A n, l, q : [r EXCEPT !.operations = n, !.locked = l, !.toSubmit = q].status = r.status
           /\ \A c, l : [r EXCEPT !.socket = c, !.locked = l].status = r.status
           /\ \A l : [r EXCEPT !.locked = l].status = r.status
           /\ \A e : [r EXCEPT !.ready = e].status = r.status
           /\ \A d : [r EXCEPT !.deadline = d].status = r.status
           /\ \A c : [r EXCEPT !.socket = c].status = r.status
  BY DEF TaskType, Answered, Closing

\* The owner of a task with flags.
LEMMA EpollAnswers ==
    ASSUME NEW r \in TaskType, TypeOK, Flagged, NEW t \in Tasks, NEW x \in EpollOwner(t, r)
    PROVE  x[1].status = r.status
<1>1. ASSUME NEW y \in TaskType, NEW b \in BOOLEAN
      PROVE  EpollTransfer(t, y, b).status = y.status /\ EpollConnectStart(y, b).status = y.status
  BY <1>1, PlainAnswers DEF EpollTransfer, EpollSend, EpollRecv, EpollAccept, EpollConnectStart
<1>2. ASSUME NEW d \in scenario.deadlines \cup {Infinite} \cup {0}
      PROVE  [r EXCEPT !.deadline = d] \in TaskType /\ [r EXCEPT !.deadline = d].status = r.status
  <2>1. d \in Nat
    BY <1>2, ScenariosAssumption, BoundsAssumption DEF TypeOK, Infinite
  <2> QED BY <2>1 DEF TaskType
<1>3. CASE Side(t) = "timer" \/ Flag(t) \in r.locked
  <2>1. PICK d \in scenario.deadlines \cup {Infinite} : x = <<[r EXCEPT !.deadline = d], kernel>>
    BY <1>3 DEF EpollOwner
  <2> QED BY <1>2, <2>1
<1>4. CASE ~(Side(t) = "timer" \/ Flag(t) \in r.locked) /\ Side(t) = "send" /\ ~r.socket
  <2>1. PICK d, b, k : /\ d \in scenario.deadlines \cup {Infinite} \cup {0} /\ b \in BOOLEAN
                       /\ x = <<EpollConnectStart([r EXCEPT !.deadline = d], b), k>>
    BY <1>4 DEF EpollOwner
  <2> QED BY <1>1, <1>2, <2>1
<1>5. CASE ~(Side(t) = "timer" \/ Flag(t) \in r.locked) /\ ~(Side(t) = "send" /\ ~r.socket)
  <2>1. PICK d, b, k : /\ d \in scenario.deadlines \cup {Infinite} \cup {0} /\ b \in BOOLEAN
                       /\ x = <<EpollTransfer(t, [r EXCEPT !.deadline = d], b), k>>
    BY <1>5 DEF EpollOwner
  <2> QED BY <1>1, <1>2, <2>1
<1> QED BY <1>3, <1>4, <1>5

\* Nor do the transfers of the other backends change the status, but for one that fails.
LEMMA TransferAnswers ==
    ASSUME NEW r \in TaskType, NEW t \in Tasks, NEW got
    PROVE  /\ UringTransfer(t, r, got).status = r.status
           /\ \A y \in IocpTransfer(t, r, kernel, got) : Answered(r, y[1])
<1>1. PICK s \in TaskType : s = [r EXCEPT !.socket = TRUE] /\ s.status = r.status
  <2>1. [r EXCEPT !.socket = TRUE] \in TaskType
    BY DEF TaskType
  <2> QED BY <2>1, PlainAnswers
<1>2. ASSUME NEW u \in {r, s}
      PROVE  /\ UringStart(t, u).status = r.status
             /\ \A y \in IocpStart(t, u, kernel) : Answered(r, y[1])
  <2>1. u \in TaskType /\ u.status = r.status
    BY <1>1
  <2>2. UringStart(t, u).status = r.status
    BY <2>1, PlainAnswers DEF UringStart
  <2>3. ASSUME NEW y \in IocpStart(t, u, kernel) PROVE Answered(r, y[1])
    <3>1. \/ y[1] = [u EXCEPT !.operations = u.operations + 1, !.locked = u.locked \cup {"io"}]
          \/ y[1] = Closing(u)
      BY <2>3 DEF IocpStart
    <3>2. /\ [u EXCEPT !.operations = u.operations + 1, !.locked = u.locked \cup {"io"}].status
               = u.status
          /\ Answered(u, Closing(u))
      BY <2>1, PlainAnswers
    <3> QED BY <2>1, <3>1, <3>2 DEF Answered
  <2> QED BY <2>2, <2>3
<1>3. \/ UringTransfer(t, r, got) \in {UringStart(t, r), UringStart(t, s)}
      \/ UringTransfer(t, r, got) = [r EXCEPT !.deadline = 0]
  BY <1>1 DEF UringTransfer, UringSend, UringRecv, UringConnectStart, UringAccept
<1>4. \/ IocpTransfer(t, r, kernel, got) = IocpStart(t, r, kernel)
      \/ IocpTransfer(t, r, kernel, got) = IocpStart(t, s, kernel)
      \/ IocpTransfer(t, r, kernel, got) = {<<[r EXCEPT !.deadline = 0], kernel>>}
  BY <1>1 DEF IocpTransfer, IocpSend, IocpRecv, IocpConnectStart, IocpAccept
<1>5. ASSUME NEW y, y = <<[r EXCEPT !.deadline = 0], kernel>> PROVE Answered(r, y[1])
  <2>1. [r EXCEPT !.deadline = 0].status = r.status
    BY PlainAnswers
  <2> QED BY <1>5, <2>1 DEF Answered
<1>6. UringTransfer(t, r, got).status = r.status
  <2>1. [r EXCEPT !.deadline = 0].status = r.status
    BY PlainAnswers
  <2> QED BY <1>2, <1>3, <2>1
<1>7. ASSUME NEW y \in IocpTransfer(t, r, kernel, got) PROVE Answered(r, y[1])
  BY <1>2, <1>4, <1>5, <1>7
<1> QED BY <1>6, <1>7

\* What ProcessArgs() and the count leave alone.
LEMMA StartedAnswers ==
    ASSUME NEW r \in TaskType, NEW got
    PROVE  /\ EpollProcessArgs(r).status = r.status /\ KqueueProcessArgs(r).status = r.status
           /\ UringProcessArgs(UringDump(r), got).status = r.status
  BY DEF TaskType, EpollProcessArgs, KqueueProcessArgs, UringDump, UringProcessArgs

\* A worker calls a task: it is PENDING or CLOSING then, and CLOSING if it was.
LEMMA OwnerAnswers ==
    ASSUME TInv, OwnInv, NEW w \in Workers, OwnerStep(w), At(w, "execute")
    PROVE  \E s, k : /\ Execute(w, s, k) /\ Answered(Started(Of(w)), s)
<1>1. PICK t \in Tasks : t = Of(w) /\ TypeOK
  BY HandIsFull DEF TInv
<1>2. PICK a \in TaskType : a = Started(t)
  BY <1>1, StartedType
<1>3. PICK got : got = task[t].ready
  OBVIOUS
<1>4. CASE Flagged
  <2>1. PICK r \in {EpollProcessArgs(a), KqueueProcessArgs(a)} : CallbackWith(w, r)
    BY <1>1, <1>2, <1>4 DEF OwnerStep, Flagged, EpollCallback, KqueueCallback
  <2>2. r \in TaskType /\ r.status = a.status
    BY <1>2, <1>4, FlagArgs, StartedAnswers
  <2>3. CASE "err" \in task[t].ready
    BY <1>1, <1>2, <2>1, <2>3, PlainAnswers DEF CallbackWith
  <2>4. CASE "err" \notin task[t].ready
    <3>1. PICK x \in EpollOwner(t, r) : Execute(w, x[1], x[2])
      BY <1>1, <2>1, <2>4 DEF CallbackWith
    <3>2. x[1].status = r.status
      BY <1>1, <1>4, <2>2, <3>1, EpollAnswers
    <3> QED BY <1>1, <1>2, <2>2, <3>1, <3>2 DEF Answered
  <2> QED BY <2>3, <2>4
<1>5. CASE ~Flagged
  <2>1. PICK r : r = UringProcessArgs(UringDump(a), got) /\ r.status = a.status
    BY <1>2, StartedAnswers
  <2>2. r \in TaskType
    <3>1. ~task[t].isClosed
      BY <1>1, <1>5, OwnerExecutes DEF Execute
    <3> QED BY <1>1, <1>2, <1>3, <1>5, <2>1, <3>1, DumpFits DEF OpsOwned
  <2>3. ASSUME NEW d \in scenario.deadlines \cup {Infinite}
        PROVE  /\ [r EXCEPT !.deadline = d] \in TaskType
               /\ [r EXCEPT !.deadline = d].status = r.status
    <3>1. d \in Nat
      BY <1>1, <2>3, ScenariosAssumption, BoundsAssumption DEF TypeOK, Infinite
    <3> QED BY <2>2, <3>1 DEF TaskType
  <2>4. CASE Execute(w, Closing(r), kernel)
    BY <1>1, <1>2, <2>1, <2>2, <2>4, PlainAnswers DEF Answered
  <2>5. ASSUME NEW d \in scenario.deadlines \cup {Infinite}, NEW x, x = [r EXCEPT !.deadline = d],
               \/ Execute(w, x, kernel) \/ Execute(w, UringTransfer(t, x, got), kernel)
               \/ \E y \in IocpTransfer(t, x, kernel, got) : Execute(w, y[1], y[2])
        PROVE  \E s, k : Execute(w, s, k) /\ Answered(a, s)
    <3>1. x \in TaskType /\ x.status = a.status
      BY <2>1, <2>3, <2>5
    <3>2. /\ UringTransfer(t, x, got).status = x.status
          /\ \A y \in IocpTransfer(t, x, kernel, got) : Answered(x, y[1])
      BY <3>1, TransferAnswers
    <3> QED BY <2>5, <3>1, <3>2 DEF Answered
  <2>6. \/ Execute(w, Closing(r), kernel)
        \/ \E d \in scenario.deadlines \cup {Infinite} : \E x :
              /\ x = [r EXCEPT !.deadline = d]
              /\ \/ Execute(w, x, kernel) \/ Execute(w, UringTransfer(t, x, got), kernel)
                 \/ \E y \in IocpTransfer(t, x, kernel, got) : Execute(w, y[1], y[2])
    <3>1. CASE UringCallback(w)
      BY <1>1, <1>2, <1>3, <2>1, <3>1 DEF UringCallback
    <3>2. CASE IocpCallback(w)
      <4>1. r = IocpProcessArgs(IocpDump(Started(t)), got)
        BY <1>2, <2>1 DEF IocpProcessArgs, IocpDump
      <4>2. \/ Execute(w, Closing(r), kernel)
            \/ \E x \in {[r EXCEPT !.deadline = d] : d \in scenario.deadlines \cup {Infinite}} :
                  IF Side(t) = "timer" \/ "io" \in r.locked THEN Execute(w, x, kernel)
                  ELSE \E y \in IocpTransfer(t, x, kernel, got) : Execute(w, y[1], y[2])
        BY <1>1, <1>3, <3>2, <4>1, Zenon DEF IocpCallback
      <4> QED BY <4>2
    <3> QED BY <1>5, <3>1, <3>2 DEF OwnerStep, Flagged
  <2> QED BY <1>1, <1>2, <2>4, <2>5, <2>6
<1> QED BY <1>4, <1>5

\* A task is called, or is called for the last time.
LEMMA ExecuteKept ==
    ASSUME TInv, TInv', OwnInv, OwnInv', NEW w \in Workers, OwnerStep(w) \/ LastStep(w)
    PROVE  Kept
<1>1. At(w, "execute")
  BY OwnerExecutes DEF Execute, LastStep, LastExecute
<1>2. PICK t \in Tasks : t = Of(w) /\ Holds(w, t) /\ Place(t) = "execute" /\ TaskFits(t)
               /\ task[t] \in TaskType /\ task \in [Tasks -> TaskType]
               /\ w \in Threads /\ thread \in [Threads -> ThreadType]
  BY <1>1, WorkerHolds DEF At, HandPCs
<1>3. ~InCall(t) /\ task[t].sub /\ Phase(t) = "posted"
  <2>1. ~InCall(t)
    BY <1>2, CallOfHand
  <2>2. task[t].sub
    BY <1>2 DEF TaskFits, Fits, Called
  <2> QED BY <2>1, <2>2, PhaseTells
<1>4. ASSUME thread'[w].pc \in HandPCs, thread'[w].task = t
      PROVE  Place(t)' = thread'[w].pc /\ TaskFits(t)'
  <2>1. (TInv /\ OwnInv /\ thread[w].pc \in HandPCs =>
           Place(Of(w)) = thread[w].pc /\ TaskFits(Of(w)))'
    BY <1>2, HandHasTaskNext
  <2>2. Of(w)' = t
    BY <1>4 DEF Of
  <2> QED BY <1>4, <2>1, <2>2
<1>5. CASE OwnerStep(w)
  <2>1. PICK s, k : Execute(w, s, k) /\ Answered(Started(t), s)
    BY <1>1, <1>2, <1>5, OwnerAnswers
  <2>2. /\ task' = [task EXCEPT ![t] = s] /\ core' = core /\ thread' = Goto(w, "callback")
        /\ ~task[t].isClosed
    BY <1>2, <2>1 DEF Execute
  <2>3. /\ thread'[w].pc = "callback" /\ thread'[w].task = t
        /\ \A q \in Threads : q # w => thread'[q] = thread[q]
    <3>1. "callback" \in PCs
      BY DEF PCs, HandPCs
    <3> QED BY <1>2, <2>2, <3>1, ThreadUpdates DEF Of
  <2>4. InCall(t)' /\ \A u \in Tasks : u # t => (InCall(u)' <=> InCall(u))
    BY <1>2, <2>3, CallMoves
  <2>5. Place(t)' = "callback" /\ TaskFits(t)'
    BY <1>4, <2>3 DEF HandPCs
  <2>6. task'[t] = s /\ \A u \in Tasks : u # t => task'[u] = task[u]
    BY <1>2, <2>2
  <2>7. Started(t).status \in {"PENDING", "CLOSING"}
        /\ (Started(t).status = "PENDING" => task[t].status = "READY")
    BY <1>1, <1>2, <2>2, StartedIsServed DEF Served
  <2>8. task'[t].status \in {"PENDING", "CLOSING"}
    BY <2>1, <2>6, <2>7 DEF Answered
  <2>9. task[t].guard => task'[t].guard
    <3>1. task[t].guard => task[t].status = "CLOSING"
      BY <1>2, <2>2 DEF TaskFits, Fits, Called
    <3>2. task[t].status = "CLOSING" => task'[t].status = "CLOSING"
      BY <2>1, <2>6, <2>7 DEF Answered
    <3>3. task'[t].status = "CLOSING" => task'[t].guard
      BY <2>5 DEF TaskFits, Fits
    <3> QED BY <3>1, <3>2, <3>3
  <2>10. Phase(t)' = "called"
    BY <2>4, PhaseTellsNext
  <2>11. Moved(t)
    BY <1>3, <2>8, <2>9, <2>10 DEF Moved, Woken
  <2> QED BY <2>2, <2>4, <2>6, <2>11, OneKept
<1>6. CASE LastStep(w)
  <2>1. PICK r \in TaskType : LastExecute(w, r)
    BY <1>6, LastArgs
  <2>2. /\ task' = [task EXCEPT ![t] = [r EXCEPT !.sub = FALSE]] /\ core' = core
        /\ thread' = [thread EXCEPT ![w].pc = "closed", ![w].final = TRUE]
        /\ task[t].isClosed
    BY <1>2, <2>1 DEF LastExecute
  <2>3. /\ thread'[w].pc = "closed" /\ thread'[w].task = t
        /\ \A q \in Threads : q # w => thread'[q] = thread[q]
    BY <1>2, <2>2 DEF ThreadType, Of
  <2>4. ~InCall(t)' /\ \A u \in Tasks : u # t => (InCall(u)' <=> InCall(u))
    BY <1>2, <2>3, CallMoves
  <2>5. Place(t)' = "closed" /\ TaskFits(t)'
    BY <1>4, <2>3 DEF HandPCs
  <2>6. \A u \in Tasks : u # t => task'[u] = task[u]
    BY <1>2, <2>2
  <2>7. ~task'[t].sub /\ task'[t].isClosed /\ task'[t].status = "CLOSED" /\ task'[t].guard
    BY <2>5 DEF TaskFits, Fits
  <2>8. task[t].status = "CLOSED" /\ task[t].guard
    BY <1>2, <2>2 DEF TaskFits, Fits, Called
  <2>9. Phase(t)' = "over"
    BY <2>4, <2>7, PhaseTellsNext
  <2>10. Moved(t)
    BY <1>3, <2>7, <2>8, <2>9 DEF Moved, Woken
  <2> QED BY <2>2, <2>4, <2>6, <2>10, OneKept
<1> QED BY <1>5, <1>6

-----------------------------------------------------------------------------
(* The scheduling, as the owner sees it.                                    *)

\* Nobody is called by the sched-thread.
LEMMA SchedCalls ==
    ASSUME TInv, NEW w \in Workers,
           ExpireStep(w) \/ EventStep(w) \/ FrontStep(w) \/ HarvestStep(w) \/ PollStep(w)
    PROVE  \A u \in Tasks : InCall(u)' <=> InCall(u)
<1>1. CASE thread' = thread
  BY <1>1 DEF InCall, At, Of
<1>2. ASSUME NEW pc \in SchedPCs, thread[w].pc \in SchedPCs, thread' = Goto(w, pc)
      PROVE  \A u \in Tasks : InCall(u)' <=> InCall(u)
  <2>1. w \in Threads /\ pc \in PCs /\ thread \in [Threads -> ThreadType]
        /\ pc # "callback" /\ thread[w].pc # "callback"
    BY <1>2 DEF TInv, TypeOK, Threads, PCs, SchedPCs
  <2>2. thread'[w].pc = pc /\ \A q \in Threads : q # w => thread'[q] = thread[q]
    BY <1>2, <2>1, ThreadUpdates
  <2> QED BY <2>1, <2>2, SameCalls
<1> QED BY <1>1, <1>2, SchedThreads

\* It wakes tasks up, and nothing else that the owner sees.
LEMMA SchedKept ==
    ASSUME TInv, TInv', OwnInv, NEW w \in Workers,
           ExpireStep(w) \/ EventStep(w) \/ FrontStep(w) \/ HarvestStep(w) \/ PollStep(w)
    PROVE  Kept
<1>1. core'.state = core.state
  BY SchedThreads
<1>2. \A u \in Tasks : InCall(u)' <=> InCall(u)
  BY SchedCalls
<1>3. CASE task' = task
  BY <1>1, <1>2, <1>3, QuietKept
<1>4. ASSUME NEW t \in Tasks, NEW r, task' = [task EXCEPT ![t] = r], Untouched(task[t], r)
      PROVE  Kept
  <2>1. task'[t] = r /\ \A u \in Tasks : u # t => task'[u] = task[u]
    BY <1>4 DEF TInv, TypeOK
  <2>2. Phase(t)' = Phase(t)
    BY <1>2, <1>4, <2>1, SamePhase DEF Untouched
  <2>3. Woken(t) => Woken(t)'
    BY <1>4, <2>1 DEF Untouched, Woken
  <2>4. Woken(t)' /\ ~Woken(t) /\ task[t].guard => Phase(t) = "over"
    BY <1>4, <2>1, AwakeIsOver DEF Untouched, Woken
  <2>5. task'[t].guard <=> task[t].guard
    BY <1>4, <2>1 DEF Untouched
  <2>6. Moved(t)
    BY <2>2, <2>3, <2>4, <2>5 DEF Moved
  <2> QED BY <1>1, <1>2, <2>1, <2>6, OneKept
<1> QED BY <1>3, <1>4, SchedTouches DEF Touched

\* The owner sees the core start and stop.
LEMMA StartStopKept ==
    ASSUME TInv, TInv', task' = task, \A u \in Tasks : InCall(u)' <=> InCall(u),
           (core'.state = "RUNNING") <=> ~(core.state = "RUNNING")
    PROVE  Kept
<1> DEFINE P == [u \in Tasks |-> Phase(u)]
           W == [u \in Tasks |-> task[u].status = "READY"]
           C == [u \in Tasks |-> task[u].guard]
           R == core.state = "RUNNING"
<1>1. \A u \in Tasks : Phase(u)' = Phase(u)
  BY SamePhase
<1>2. P' = P
  BY <1>1
<1>3. W' = W /\ C' = C
  OBVIOUS
<1>4. R' = ~R
  OBVIOUS
<1> HIDE DEF P, W, C, R
<1>5. P' = P /\ W' = W /\ C' = C /\ R' = ~R
  BY <1>2, <1>3, <1>4
<1>6. Owner!StartStop
  BY <1>5 DEF Owner!StartStop, P, W, C, R
<1> QED BY <1>6 DEF Kept, Owner!Next

\* The controller, the time and the kernel.
LEMMA ControlKept ==
    ASSUME TInv, TInv', SchedInv,
           \/ Start(scenario.crew) \/ Stop \/ StopWorkers \/ StopJoin \/ Tick
           \/ EpollKernel \/ UringKernel \/ IocpKernel \/ UNCHANGED vars
    PROVE  Kept
<1>1. task' = task
  BY DEF Start, Stop, StopWorkers, StopJoin, Tick, EpollKernel, UringKernel, IocpKernel,
         KernelWork, Arrive, Break, Complete, CompleteInternal, vars
<1>2. CASE Start(scenario.crew)
  <2>1. core.state = "STOPPED" /\ core'.state = "RUNNING"
    BY <1>2 DEF Start
  <2>2. \A w \in Workers : thread[w].pc = "done"
    BY <1>2 DEF Start, SchedInv, CrewWorks
  <2>3. \A w \in Workers : thread'[w].pc \in {"done", "elect"}
    BY <1>2, <2>2 DEF Start, NewThread, Threads
  <2>4. \A u \in Tasks : InCall(u)' <=> InCall(u)
    BY <2>2, <2>3 DEF InCall, At
  <2> QED BY <1>1, <2>1, <2>4, StartStopKept
<1>3. CASE ~Start(scenario.crew)
  <2>1. thread' = thread
    BY <1>3 DEF Stop, StopWorkers, StopJoin, Tick, EpollKernel, UringKernel, IocpKernel,
                KernelWork, Arrive, Break, Complete, CompleteInternal, vars
  <2>2. \A u \in Tasks : InCall(u)' <=> InCall(u)
    BY <2>1 DEF InCall, At, Of
  <2>3. CASE Stop
    <3>1. core.state = "RUNNING" /\ core'.state = "STOPPING"
      BY <2>3 DEF Stop, TInv, TypeOK, CoreType
    <3> QED BY <1>1, <2>2, <3>1, StartStopKept
  <2>4. CASE ~Stop
    <3>1. \/ core' = core \/ StopWorkers \/ StopJoin
      BY <1>3, <2>4 DEF Tick, EpollKernel, UringKernel, IocpKernel, KernelWork, Arrive, Break,
                        Complete, CompleteInternal, vars
    <3>2. CASE StopWorkers
      <4>1. core.state = "STOPPING" /\ core'.state = "JOIN"
        BY <3>2 DEF StopWorkers, TInv, TypeOK, CoreType
      <4> QED BY <1>1, <2>2, <4>1, QuietKept
    <3>3. CASE StopJoin
      <4>1. core.state = "JOIN" /\ core'.state = "STOPPED"
        BY <3>3 DEF StopJoin
      <4> QED BY <1>1, <2>2, <4>1, QuietKept
    <3>4. CASE core' = core
      BY <1>1, <2>2, <3>4, QuietKept
    <3> QED BY <3>1, <3>2, <3>3, <3>4
  <2> QED BY <2>3, <2>4
<1> QED BY <1>2, <1>3

\* The owner may see every step of the core.
LEMMA NextKept ==
    ASSUME TInv, TInv', OwnInv, OwnInv', SchedInv, [Next]_vars
    PROVE  Kept
<1>1. CASE CommonNext
  <2>1. ASSUME NEW c \in Clients, NEW t \in Tasks, ClientCall(c, t) PROVE Kept
    BY <2>1, CallKept DEF ClientCall, Threads
  <2>2. ASSUME NEW p \in Threads, ThreadStep(p) PROVE Kept
    BY <2>2, LoopKept DEF ThreadStep
  <2>3. ASSUME NEW w \in Workers, WorkerStep(w) PROVE Kept
    <3>1. CASE PostClose(w, Of(w))
      <4>1. w \in Threads /\ Of(w) \in Tasks
        BY <3>1, ThreadsAssumption DEF PostClose, TInv, HandsAreFull, HandPCs, Threads, At, Of
      <4> QED BY <3>1, <4>1, CallKept
    <3>2. CASE ThreadStep(w)
      BY <3>2, <2>2 DEF Threads
    <3>3. CASE \/ ScheduleStart(w) \/ ScheduleEnd(w) \/ SignalReady(w) \/ WorkerExit(w)
               \/ WaitReady(w) \/ Collect(w) \/ Pop(w) \/ Release(w)
      BY <3>3, LoopKept DEF Threads
    <3>4. CASE Return(w) \/ Reattach(w) \/ Repost(w)
      BY <3>4, HandKept
    <3> QED BY <2>3, <3>1, <3>2, <3>3, <3>4 DEF WorkerStep
  <2>4. CASE StopStart \/ StopNext \/ Tick
    BY <2>4, ControlKept DEF StopStart, StopNext
  <2> QED BY <1>1, <2>1, <2>2, <2>3, <2>4 DEF CommonNext, Threads
<1>2. ASSUME NEW w \in Workers, BackendStep(w) PROVE Kept
  BY <1>2, BackendCases, ExecuteKept, SchedKept
<1> QED BY <1>1, <1>2, ControlKept DEF Next

\* At first every task is new, and the core is stopped.
LEMMA InitKept == Init => Owner!Init
<1> SUFFICES ASSUME Init PROVE Owner!Init
  OBVIOUS
<1>1. \A t \in Tasks : /\ ~task[t].sub /\ ~task[t].isClosed
                       /\ task[t].status # "READY" /\ task[t].guard = FALSE
  BY DEF Init, NewTask
<1>2. \A p \in Threads : thread[p].pc \in {"idle", "done"}
  BY DEF Init, NewThread, Idle
<1>3. \A t \in Tasks : ~InCall(t)
  BY <1>2 DEF InCall, At, Threads
<1>4. \A t \in Tasks : Phase(t) = "new"
  BY <1>1, <1>3, PhaseTells
<1>5. core.state # "RUNNING"
  BY DEF Init
<1> QED BY <1>1, <1>4, <1>5 DEF Owner!Init

\* Whatever the backend, and in every race of the wakeups, the closes, the events and the
\* deadlines, what an owner sees of its task is a behaviour that IOTask.h allows: one call at
\* a time, none after the last one but for a task posted anew, and no wakeup taken back by
\* anything but a call or a close.  (That the calls do come is the fairness of IOTaskSpec,
\* which is model-checked.)
THEOREM OwnerIsServed == Spec => Owner!Init /\ [][Owner!Next]_(Owner!vars)
<1>1. Init => Owner!Init
  BY InitKept
<1>2. TInv /\ TInv' /\ OwnInv /\ OwnInv' /\ SchedInv /\ [Next]_vars => [Owner!Next]_(Owner!vars)
  BY NextKept DEF Kept
<1> QED BY <1>1, <1>2, SchedulesAlone, TasksAreOwned, PTL DEF Spec
=============================================================================
