------------------------- MODULE TaskLifecycleProofs -------------------------
(***************************************************************************)
(* Proofs about the journey of a task, for any number of tasks and of      *)
(* clients that race to wake them up.                                      *)
(*                                                                         *)
(* The properties are inductive together, but for one fact: a task asleep  *)
(* is not PENDING.  Without it nothing is known of the status of a task    *)
(* that a client pushes, and so nothing of the heap it may still be in.    *)
(***************************************************************************)
EXTENDS TaskLifecycle, TLAPS

\* A task that Park() has made WAITING leaves the parked ones before it can be
\* PENDING again.
ParkedIsNotPending ==
    \A t \in Tasks : where[t] = "parked" => status[t] # "PENDING"

IInv ==
    /\ TypeOK
    /\ ParkedIsNotPending
    /\ OneWakerPushes
    /\ OneQueue
    /\ ReadyToExecute
    /\ ExpiredIsTruthful

-----------------------------------------------------------------------------
\* A new scheduler, with the tasks outside of it, satisfies the invariant.
LEMMA InitInvariant == Init => IInv
  BY NoTaskAssumption
     DEF Init, IInv, TypeOK, ParkedIsNotPending, OneWakerPushes, OneQueue,
         ReadyToExecute, ExpiredIsTruthful, Statuses, Places, Deadlines

\* The steps of the task's owner preserve it: the task is in no queue and no
\* client has the duty to push it.
LEMMA OwnerPreserves ==
  ASSUME IInv, NEW t \in Tasks, OwnerStep(t)
  PROVE  IInv'
<1> USE NoTaskAssumption
        DEF IInv, TypeOK, ParkedIsNotPending, OneWakerPushes, OneQueue,
            ReadyToExecute, ExpiredIsTruthful, Statuses, Places, Deadlines, Set
<1>1. ASSUME NEW d \in Deadlines, Post(t, d)  PROVE IInv'
  BY <1>1 DEF Post
<1>2. CASE ReceiveSignal(t)
  BY <1>2 DEF ReceiveSignal
<1>3. CASE Return(t)
  BY <1>3 DEF Return
<1> QED BY <1>1, <1>2, <1>3 DEF OwnerStep

\* So do the scheduler's.
LEMMA SchedulerPreserves ==
  ASSUME IInv, NEW t \in Tasks, SchedulerStep(t)
  PROVE  IInv'
<1> USE NoTaskAssumption
        DEF IInv, TypeOK, ParkedIsNotPending, OneWakerPushes, OneQueue,
            ReadyToExecute, ExpiredIsTruthful, Statuses, Places, Deadlines, Set
<1>1. CASE Park(t)
  BY <1>1 DEF Park
<1>2. CASE DispatchWoken(t)
  BY <1>2 DEF DispatchWoken, MakeReady
<1>3. CASE DispatchExpired(t)
  BY <1>3 DEF DispatchExpired, MakeReady
<1>4. CASE Expire(t)
  <2>1. CASE status[t] = "WAITING"
    BY <1>4, <2>1 DEF Expire
  <2>2. CASE status[t] # "WAITING"
    BY <1>4, <2>2 DEF Expire
  <2> QED BY <2>1, <2>2
<1>5. CASE Execute(t)
  BY <1>5 DEF Execute
<1> QED BY <1>1, <1>2, <1>3, <1>4, <1>5 DEF SchedulerStep

\* Taking the front over makes its tasks the scheduler's.
LEMMA CollectPreserves == IInv /\ Collect => IInv'
  BY NoTaskAssumption
     DEF IInv, TypeOK, ParkedIsNotPending, OneWakerPushes, OneQueue, Collect,
         ReadyToExecute, ExpiredIsTruthful, Statuses, Places, Deadlines, Set

\* A deadline that passes changes nothing else.
LEMMA DeadlinePreserves ==
  ASSUME IInv, NEW t \in Tasks, DeadlinePasses(t)
  PROVE  IInv'
  BY NoTaskAssumption
     DEF IInv, TypeOK, ParkedIsNotPending, OneWakerPushes, OneQueue,
         DeadlinePasses, ReadyToExecute, ExpiredIsTruthful, Statuses, Places,
         Deadlines, Set

\* A client that changes WAITING is the only one with the duty to push the task.
LEMMA ClientPreserves ==
  ASSUME IInv, NEW c \in Clients, ClientStep(c)
  PROVE  IInv'
<1> USE NoTaskAssumption
        DEF IInv, TypeOK, ParkedIsNotPending, OneWakerPushes, OneQueue,
            ReadyToExecute, ExpiredIsTruthful, Statuses, Places, Deadlines, Set
<1>1. CASE Push(c)
  BY <1>1 DEF Push
<1>2. ASSUME NEW t \in Tasks, Wakeup(c, t)  PROVE IInv'
  <2>1. CASE status[t] = "WAITING"
    BY <1>2, <2>1 DEF Wakeup, TakesDuty
  <2>2. CASE status[t] # "WAITING"
    BY <1>2, <2>2 DEF Wakeup, TakesDuty
  <2> QED BY <2>1, <2>2
<1>3. ASSUME NEW t \in Tasks, Signal(c, t)  PROVE IInv'
  <2>1. CASE status[t] = "WAITING"
    BY <1>3, <2>1 DEF Signal, TakesDuty
  <2>2. CASE status[t] # "WAITING"
    BY <1>3, <2>2 DEF Signal, TakesDuty
  <2> QED BY <2>1, <2>2
<1> QED BY <1>1, <1>2, <1>3 DEF ClientStep

\* A stutter changes nothing.
LEMMA StutterPreserves == IInv /\ UNCHANGED vars => IInv'
  BY DEF IInv, TypeOK, ParkedIsNotPending, OneWakerPushes, OneQueue,
         ReadyToExecute, ExpiredIsTruthful, vars

-----------------------------------------------------------------------------
\* Every step preserves the invariant, by the actor that takes it.
LEMMA StepPreserves == IInv /\ [Next]_vars => IInv'
<1> SUFFICES ASSUME IInv, [Next]_vars  PROVE IInv'
  OBVIOUS
<1>1. CASE Collect
  BY <1>1, CollectPreserves
<1>2. ASSUME NEW t \in Tasks,
             OwnerStep(t) \/ SchedulerStep(t) \/ DeadlinePasses(t)
      PROVE  IInv'
  BY <1>2, OwnerPreserves, SchedulerPreserves, DeadlinePreserves
<1>3. ASSUME NEW c \in Clients, ClientStep(c)  PROVE IInv'
  BY <1>3, ClientPreserves
<1>4. CASE UNCHANGED vars
  BY <1>4, StutterPreserves
<1> QED BY <1>1, <1>2, <1>3, <1>4 DEF Next

\* The strengthened invariant, which all the others follow from.
THEOREM Invariance == Spec => []IInv
<1>1. IInv /\ [Next]_vars => IInv'
  BY StepPreserves
<1> QED BY InitInvariant, <1>1, PTL DEF Spec

\* Statuses, places and duties stay in their ranges.
THEOREM TypeCorrect == Spec => []TypeOK
<1>1. IInv => TypeOK
  BY DEF IInv
<1> QED BY <1>1, Invariance, PTL

\* However many clients wake up and signal a sleeping task, exactly one of them
\* pushes it to the front queue, and only while it is nowhere else (the compare-
\* and-exchange of PostWakeup(), the exchange of PostSignal()).
THEOREM WakerIsUnique == Spec => []OneWakerPushes
<1>1. IInv => OneWakerPushes
  BY DEF IInv
<1> QED BY <1>1, Invariance, PTL

\* A task is never in the heap and in the ready queue or its callback, and nobody
\* works on a task that its owner may delete.
THEOREM QueueIsUnique == Spec => []OneQueue
<1>1. IInv => OneQueue
  BY DEF IInv
<1> QED BY <1>1, Invariance, PTL

\* The assertion of PrivExecute(): a task is executed READY or SIGNALED.
THEOREM ExecutesReady == Spec => []ReadyToExecute
<1>1. IInv => ReadyToExecute
  BY DEF IInv
<1> QED BY <1>1, Invariance, PTL

\* IsExpired() tells the callback the truth about its deadline.
THEOREM ExpirationIsTrue == Spec => []ExpiredIsTruthful
<1>1. IInv => ExpiredIsTruthful
  BY DEF IInv
<1> QED BY <1>1, Invariance, PTL

\* A step that undoes READY executes the task or raises it to SIGNALED; a step that
\* undoes SIGNALED is the callback's ReceiveSignal().
KeepsWakeups ==
    \A t \in Tasks :
       /\ status[t] = "READY" /\ status'[t] # "READY" =>
             \/ status'[t] = "SIGNALED"
             \/ where[t] = "ready" /\ where'[t] = "executing"
       /\ status[t] = "SIGNALED" /\ status'[t] # "SIGNALED" =>
             where[t] = "executing"

\* A wakeup or a signal is taken back by the execution of the task only.
LEMMA StepKeepsWakeups == IInv /\ [Next]_vars => KeepsWakeups
<1> SUFFICES ASSUME IInv, [Next]_vars  PROVE KeepsWakeups
  OBVIOUS
<1> USE DEF IInv, TypeOK, Set, KeepsWakeups
<1>1. CASE Collect
  BY <1>1 DEF Collect
<1>2. ASSUME NEW t \in Tasks, OwnerStep(t)  PROVE KeepsWakeups
  BY <1>2 DEF OwnerStep, Post, ReceiveSignal, Return
<1>3. ASSUME NEW t \in Tasks, SchedulerStep(t)  PROVE KeepsWakeups
  BY <1>3 DEF SchedulerStep, Park, DispatchWoken, DispatchExpired, MakeReady,
              Expire, Execute
<1>4. ASSUME NEW t \in Tasks, DeadlinePasses(t)  PROVE KeepsWakeups
  BY <1>4 DEF DeadlinePasses
<1>5. ASSUME NEW c \in Clients, ClientStep(c)  PROVE KeepsWakeups
  BY <1>5 DEF ClientStep, Push, Wakeup, Signal
<1>6. CASE UNCHANGED vars
  BY <1>6 DEF vars
<1> QED BY <1>1, <1>2, <1>3, <1>4, <1>5, <1>6 DEF Next

\* No wakeup and no signal is lost between the call and the execution.
THEOREM WakeupsAreKept == Spec => WakeupNotLost
<1>1. IInv /\ [Next]_vars => [KeepsWakeups]_vars
  BY StepKeepsWakeups
<1>2. WakeupNotLost <=> [][KeepsWakeups]_vars
  BY DEF WakeupNotLost, KeepsWakeups
<1> QED BY <1>1, <1>2, Invariance, PTL DEF Spec
=============================================================================
