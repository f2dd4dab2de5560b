----------------------------- MODULE PushQueue -----------------------------
(***************************************************************************)
(* What src/mg/box/MultiProducerQueueIntrusive.h promises, and what        *)
(* TaskScheduler relies on: a push appends its items and tells whether the *)
(* queue was empty, a pop takes all of them in the order of the pushes.    *)
(***************************************************************************)
EXTENDS Sequences, Naturals, FiniteSets

CONSTANTS Producers, Items

VARIABLES
    given,      \* the list a producer is going to push
    queue,
    popped,     \* what the consumer has got and not used yet
    answer      \* what the push of a producer returns

vars == <<given, queue, popped, answer>>

Init ==
    /\ given = [p \in Producers |-> <<>>]
    /\ queue = <<>> /\ popped = <<>>
    /\ answer = [p \in Producers |-> "none"]

Lists == UNION {[1..n -> Items] : n \in 1..Cardinality(Items)}

Call(p, list) ==
    /\ given[p] = <<>>
    /\ given' = [given EXCEPT ![p] = list]
    /\ UNCHANGED <<queue, popped, answer>>

\* The list becomes part of the queue at once, in the order it was given in.
Push(p) ==
    /\ given[p] # <<>> /\ answer[p] = "none"
    /\ queue' = queue \o given[p]
    /\ answer' = [answer EXCEPT ![p] = IF queue = <<>> THEN "first" ELSE "not first"]
    /\ UNCHANGED <<given, popped>>

Return(p) ==
    /\ answer' = [answer EXCEPT ![p] = "none"]
    /\ given' = [given EXCEPT ![p] = <<>>]
    /\ UNCHANGED <<queue, popped>>

PopAll ==
    /\ popped = <<>>
    /\ popped' = queue
    /\ queue' = <<>>
    /\ UNCHANGED <<given, answer>>

Use ==
    /\ popped' = <<>>
    /\ UNCHANGED <<given, queue, answer>>

Next ==
    \/ \E p \in Producers : Push(p) \/ Return(p) \/ \E list \in Lists : Call(p, list)
    \/ PopAll \/ Use

Spec == Init /\ [][Next]_vars
=============================================================================
