----------------------------- MODULE FifoQueue -----------------------------
(***************************************************************************)
(* What the queue of ready tasks promises (the comments of                 *)
(* src/mg/box/MultiConsumerQueueBase.h): one producer publishes items, one *)
(* or a bulk of them at a time, and consumers take them one by one in the  *)
(* order they were pushed in.  A consumer is told that there is nothing    *)
(* only if that is so.  The items are numbered as they are pushed.         *)
(***************************************************************************)
EXTENDS Integers, Sequences

CONSTANTS Consumers, MaxItems

VARIABLES
    queue,      \* the items that can be taken
    published,  \* how many there have been
    answer      \* what the Pop() of a consumer returns: an item or one of these

NoneYet == 0
Nothing == -1

vars == <<queue, published, answer>>

Init ==
    /\ queue = <<>>
    /\ published = 0
    /\ answer = [c \in Consumers |-> NoneYet]

\* A bulk becomes visible at once.
Publish(n) ==
    /\ published' = published + n
    /\ queue' = queue \o [i \in 1..n |-> published + i]
    /\ UNCHANGED answer

Take(c) ==
    /\ queue # <<>>
    /\ answer' = [answer EXCEPT ![c] = Head(queue)]
    /\ queue' = Tail(queue)
    /\ UNCHANGED published

FindNothing(c) ==
    /\ queue = <<>>
    /\ answer' = [answer EXCEPT ![c] = Nothing]
    /\ UNCHANGED <<queue, published>>

\* The consumer goes on to its next Pop().
Continue(c) ==
    /\ answer' = [answer EXCEPT ![c] = NoneYet]
    /\ UNCHANGED <<queue, published>>

Next ==
    \/ \E n \in 1..MaxItems : Publish(n)
    \/ \E c \in Consumers : Take(c) \/ FindNothing(c) \/ Continue(c)

Spec == Init /\ [][Next]_vars
=============================================================================
