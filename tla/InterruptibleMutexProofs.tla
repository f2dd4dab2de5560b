----------------------- MODULE InterruptibleMutexProofs -----------------------
(***************************************************************************)
(* Proofs that the interruptible mutex excludes, that its assertions hold  *)
(* and that no waiter is used after it is gone, for any number of threads. *)
(***************************************************************************)
EXTENDS InterruptibleMutex, SequenceTheorems, TLAPS

-----------------------------------------------------------------------------
(* The inductive invariant.                                                 *)

\* Workers do not call Lock(), callers do not sleep on the outside signal.
Roles ==
    /\ \A w \in Workers : pc[w] \in WorkerPCs \cup UnlockPCs
    /\ \A c \in Callers : pc[c] \in CallerPCs \cup UnlockPCs

\* Who is inside the inner mutex holds it.
InnerMutexHeld == \A t \in Threads : pc[t] \in InnerPCs <=> myMutex = t

\* The TAKEN bit is set exactly while somebody owns the mutex.
TakenMeansOwned == "TAKEN" \in myState <=> \E t \in Threads : Owns(t)

\* The HAS_WAITERS bit is set exactly while there is a waiter in the list, on
\* its way to it, or just popped.
Announcing == {"lock_take", "lock_wakeup", "lock_append", "unlock_flag"}

FlagMeansWaiters ==
    "HAS_WAITERS" \in myState <=>
       myWaiters # <<>> \/ \E t \in Threads : pc[t] \in Announcing

\* What each branch of Lock() and Unlock() has found out stays true.
BranchesStayTrue ==
    \A t \in Threads :
        /\ pc[t] = "lock_take" => "TAKEN" \notin myState
        /\ pc[t] \in {"lock_wakeup", "lock_append"} => "TAKEN" \in myState
        /\ pc[t] \in {"unlock_mutex", "unlock_pop"} => "HAS_WAITERS" \in myState
        /\ pc[t] \in {"unlock_flag", "unlock_send"} <=> first[t] # NoThread

\* The list of waiters is only there while the mutex is taken.
WaitersNeedOwner == myWaiters # <<>> => "TAKEN" \in myState

\* The signal of a waiter is raised only while its caller waits for it.
SignalsAwaited == \A c \in Callers : mySignal[c] => pc[c] = "lock_receive"

IInv ==
    /\ MutexTypeOK /\ Roles /\ InnerMutexHeld
    /\ MutualExclusion /\ TakenMeansOwned /\ FlagMeansWaiters
    /\ BranchesStayTrue /\ WaitersNeedOwner /\ SignalsAwaited
    /\ NoDanglingWaiter

\* A new mutex: nobody owns it, nobody waits.
LEMMA InitInvariant == MutexInit => IInv
<1> SUFFICES ASSUME MutexInit  PROVE IInv
  OBVIOUS
<1> USE DEF MutexInit
<1>1. MutexTypeOK
  <2>1. myWaiters \in Seq(Callers)
    BY EmptySeq
  <2>2. /\ myState \in SUBSET Flags /\ myMutex \in Threads \cup {NoThread}
        /\ mySignal \in [Callers -> BOOLEAN] /\ wakeup \in BOOLEAN
        /\ first \in [Threads -> Callers \cup {NoThread}]
        /\ pc \in [Threads -> WorkerPCs \cup CallerPCs \cup UnlockPCs]
    BY DEF WorkerPCs
  <2> QED BY <2>1, <2>2 DEF MutexTypeOK
<1>2. Roles /\ InnerMutexHeld
  BY ThreadsAssumption
     DEF Roles, InnerMutexHeld, WorkerPCs, CallerPCs, InnerPCs, Threads
<1>3. MutualExclusion /\ TakenMeansOwned
  BY DEF MutualExclusion, TakenMeansOwned, Owns, OwnerPCs, Threads
<1>4. FlagMeansWaiters /\ BranchesStayTrue /\ WaitersNeedOwner
  BY DEF FlagMeansWaiters, Announcing, BranchesStayTrue, WaitersNeedOwner
<1>5. SignalsAwaited /\ NoDanglingWaiter
  BY ThreadsAssumption
     DEF SignalsAwaited, NoDanglingWaiter, Queued, Threads
<1> QED BY <1>1, <1>2, <1>3, <1>4, <1>5 DEF IInv

\* The owner wakes up: it stays the owner and starts Unlock().
LEMMA WorkerWakeUpPreserves ==
  ASSUME IInv, NEW w \in Workers, WorkerWakeUp(w)
  PROVE  IInv'
<1> USE ThreadsAssumption DEF IInv, WorkerWakeUp, Goto, Threads
<1>0. pc \in [Threads -> WorkerPCs \cup CallerPCs \cup UnlockPCs] /\ w \in Threads
  BY DEF MutexTypeOK
<1>1. MutexTypeOK'
  BY <1>0 DEF MutexTypeOK, UnlockPCs
<1>2. Roles' /\ InnerMutexHeld'
  BY <1>0 DEF Roles, InnerMutexHeld, WorkerPCs, CallerPCs, UnlockPCs, InnerPCs
<1>3. \A t \in Threads : Owns(t)' <=> Owns(t)
  BY <1>0 DEF Owns, OwnerPCs
<1>4. MutualExclusion' /\ TakenMeansOwned'
  BY <1>3 DEF MutualExclusion, TakenMeansOwned
<1>5. FlagMeansWaiters' /\ BranchesStayTrue' /\ WaitersNeedOwner'
  BY <1>0 DEF FlagMeansWaiters, Announcing, BranchesStayTrue, WaitersNeedOwner
<1>6. SignalsAwaited' /\ NoDanglingWaiter'
  BY <1>0 DEF SignalsAwaited, NoDanglingWaiter, Queued
<1> QED BY <1>1, <1>2, <1>4, <1>5, <1>6

\* A caller joins the list: the mutex is taken, and the caller is nowhere yet.
LEMMA LockAppendPreserves ==
  ASSUME IInv, NEW c \in Callers, LockAppend(c)
  PROVE  IInv'
<1> USE ThreadsAssumption DEF IInv, LockAppend, Appended, Goto, Threads
<1>0. /\ pc \in [Threads -> WorkerPCs \cup CallerPCs \cup UnlockPCs]
      /\ myWaiters \in Seq(Callers)
      /\ mySignal \in [Callers -> BOOLEAN]
  BY DEF MutexTypeOK
<1>1. /\ myWaiters' \in Seq(Callers) /\ myWaiters' # <<>>
      /\ DOMAIN myWaiters' = 1..(Len(myWaiters) + 1)
      /\ \A i \in 1..Len(myWaiters) : myWaiters'[i] = myWaiters[i]
      /\ myWaiters'[Len(myWaiters) + 1] = c
      /\ DOMAIN myWaiters = 1..Len(myWaiters) /\ Len(myWaiters) \in Nat
  BY <1>0, AppendProperties, LenProperties
<1>2. MutexTypeOK'
  BY <1>0, <1>1 DEF MutexTypeOK, CallerPCs
<1>3. Roles' /\ InnerMutexHeld'
  BY <1>0 DEF Roles, InnerMutexHeld, WorkerPCs, CallerPCs, UnlockPCs, InnerPCs
<1>4. ~mySignal[c]
  BY <1>0 DEF SignalsAwaited
<1>5. \A t \in Threads : Owns(t)' <=> Owns(t)
  BY <1>0, <1>4 DEF Owns, OwnerPCs
<1>6. MutualExclusion' /\ TakenMeansOwned'
  BY <1>5 DEF MutualExclusion, TakenMeansOwned
<1>7. "HAS_WAITERS" \in myState /\ "TAKEN" \in myState
  BY DEF FlagMeansWaiters, Announcing, BranchesStayTrue
<1>8. FlagMeansWaiters' /\ WaitersNeedOwner'
  BY <1>1, <1>7 DEF FlagMeansWaiters, WaitersNeedOwner
<1>9. BranchesStayTrue'
  BY <1>0 DEF BranchesStayTrue
<1>10. SignalsAwaited'
  BY <1>0 DEF SignalsAwaited
<1>11. ~Queued(c) /\ \A t \in Threads : first[t] # c
  BY DEF NoDanglingWaiter
<1>12. \A d \in Callers : Queued(d)' <=> Queued(d) \/ d = c
  BY <1>1 DEF Queued
<1>13. \A d \in Callers :
          Queued(d)' \/ (\E t \in Threads : first'[t] = d)
             => pc'[d] = "lock_receive" /\ ~mySignal'[d]
  BY <1>0, <1>4, <1>12 DEF NoDanglingWaiter
<1>14. \A i, j \in DOMAIN myWaiters' : myWaiters'[i] = myWaiters'[j] => i = j
  BY <1>1, <1>11 DEF NoDanglingWaiter, Queued
<1>15. \A t \in Threads : ~(first'[t] \in Callers /\ Queued(first[t])')
  BY <1>11, <1>12 DEF NoDanglingWaiter
<1>16. NoDanglingWaiter'
  BY <1>13, <1>14, <1>15 DEF NoDanglingWaiter
<1> QED BY <1>2, <1>3, <1>6, <1>8, <1>9, <1>10, <1>16

\* The owner has popped the head of the list: the flag follows the rest of it.
LEMMA UnlockFlagPreserves ==
  ASSUME IInv, NEW t \in Threads, UnlockFlag(t)
  PROVE  IInv'
<1> USE ThreadsAssumption DEF IInv, UnlockFlag, FlagsOnHandover, Goto
<1>0. pc \in [Threads -> WorkerPCs \cup CallerPCs \cup UnlockPCs]
  BY DEF MutexTypeOK
<1>1. MutexTypeOK'
  BY <1>0 DEF MutexTypeOK, UnlockPCs
<1>2. Roles' /\ InnerMutexHeld'
  BY <1>0 DEF Roles, InnerMutexHeld, WorkerPCs, CallerPCs, UnlockPCs, InnerPCs,
              Threads
<1>3. \A u \in Threads : Owns(u)' <=> Owns(u)
  BY <1>0 DEF Owns, OwnerPCs
<1>4. MutualExclusion' /\ TakenMeansOwned'
  BY <1>3 DEF MutualExclusion, TakenMeansOwned
<1>5. \A u \in Threads : u # t => pc[u] \notin InnerPCs /\ ~Owns(u)
  BY DEF InnerMutexHeld, MutualExclusion, Owns, OwnerPCs, InnerPCs
<1>6. \A u \in Threads : pc'[u] \notin Announcing
  BY <1>0, <1>5 DEF Announcing, InnerPCs
<1>7. "HAS_WAITERS" \in myState
  BY DEF FlagMeansWaiters, Announcing
<1>8. FlagMeansWaiters' /\ WaitersNeedOwner'
  BY <1>6, <1>7 DEF FlagMeansWaiters, WaitersNeedOwner
<1>9. \A u \in Threads : u # t => pc[u] \notin {"unlock_mutex", "unlock_pop"}
  BY <1>5 DEF Owns, OwnerPCs
<1>10. BranchesStayTrue'
  BY <1>0, <1>5, <1>9 DEF BranchesStayTrue, InnerPCs
<1>11. SignalsAwaited' /\ NoDanglingWaiter'
  BY <1>0 DEF SignalsAwaited, NoDanglingWaiter, Queued, Threads
<1> QED BY <1>1, <1>2, <1>4, <1>8, <1>10, <1>11

\* The owner finds waiters, and goes for the inner mutex.
LEMMA UnlockSlowPreserves ==
  ASSUME IInv, NEW t \in Threads, UnlockSlow(t)
  PROVE  IInv'
<1> USE ThreadsAssumption DEF IInv, UnlockSlow, Goto
<1>0. pc \in [Threads -> WorkerPCs \cup CallerPCs \cup UnlockPCs]
  BY DEF MutexTypeOK
<1>1. MutexTypeOK'
  BY <1>0 DEF MutexTypeOK, UnlockPCs
<1>2. Roles' /\ InnerMutexHeld'
  BY <1>0 DEF Roles, InnerMutexHeld, WorkerPCs, CallerPCs, UnlockPCs, InnerPCs,
              Threads
<1>3. \A u \in Threads : Owns(u)' <=> Owns(u)
  BY <1>0 DEF Owns, OwnerPCs
<1>4. MutualExclusion' /\ TakenMeansOwned'
  BY <1>3 DEF MutualExclusion, TakenMeansOwned
<1>5. FlagMeansWaiters' /\ WaitersNeedOwner'
  BY <1>0 DEF FlagMeansWaiters, Announcing, WaitersNeedOwner
<1>6. "HAS_WAITERS" \in myState
  <2>1. myState \subseteq {"TAKEN", "HAS_WAITERS"}
    BY DEF MutexTypeOK, Flags
  <2>2. "TAKEN" \in myState
    BY DEF TakenMeansOwned, Owns, OwnerPCs
  <2> QED BY <2>1, <2>2
<1>7. BranchesStayTrue'
  BY <1>0, <1>6 DEF BranchesStayTrue
<1>8. SignalsAwaited' /\ NoDanglingWaiter'
  BY <1>0 DEF SignalsAwaited, NoDanglingWaiter, Queued, Threads
<1> QED BY <1>1, <1>2, <1>4, <1>5, <1>7, <1>8

\* A worker's steps preserve the invariant: TryLock() and the wakeup.
LEMMA WorkerStepPreserves ==
  ASSUME IInv, NEW w \in Workers, WorkerStep(w)
  PROVE  IInv'
<1> USE ThreadsAssumption
        DEF IInv, MutexTypeOK, Roles, InnerMutexHeld, MutualExclusion, Owns,
            TakenMeansOwned, FlagMeansWaiters, BranchesStayTrue,
            WaitersNeedOwner, SignalsAwaited, NoDanglingWaiter, Queued, Threads,
            Flags, OwnerPCs, InnerPCs, Announcing, WorkerPCs, CallerPCs,
            UnlockPCs, Goto
<1>1. CASE WorkerTryLock(w)
  BY <1>1 DEF WorkerTryLock, TryLockCas
<1>2. CASE WorkerWakeUp(w)
  BY <1>2, WorkerWakeUpPreserves
<1> QED BY <1>1, <1>2 DEF WorkerStep

\* So do a caller's, from the inner mutex to the signal it waits for.
LEMMA CallerStepPreserves ==
  ASSUME IInv, NEW c \in Callers, CallerStep(c)
  PROVE  IInv'
<1> USE ThreadsAssumption
        DEF IInv, MutexTypeOK, Roles, InnerMutexHeld, MutualExclusion, Owns,
            TakenMeansOwned, FlagMeansWaiters, BranchesStayTrue,
            WaitersNeedOwner, SignalsAwaited, NoDanglingWaiter, Queued, Threads,
            Flags, OwnerPCs, InnerPCs, Announcing, WorkerPCs, CallerPCs,
            UnlockPCs, Goto
<1>1. CASE LockFast(c)
  BY <1>1 DEF LockFast, TryLockCas
<1>2. CASE LockSlow(c)
  BY <1>2 DEF LockSlow
<1>3. CASE LockEnter(c)
  BY <1>3 DEF LockEnter
<1>4. CASE LockFlag(c)
  BY <1>4 DEF LockFlag, Announced
<1>5. CASE LockTake(c)
  BY <1>5 DEF LockTake
<1>6. CASE LockWakeup(c)
  BY <1>6 DEF LockWakeup
<1>7. CASE LockAppend(c)
  BY <1>7, LockAppendPreserves
<1>8. CASE LockReceive(c)
  BY <1>8 DEF LockReceive
<1>9. CASE CallerWorks(c)
  BY <1>9 DEF CallerWorks
<1> QED BY <1>1, <1>2, <1>3, <1>4, <1>5, <1>6, <1>7, <1>8, <1>9 DEF CallerStep

\* So does Unlock(), on its fast path and on the one that hands the mutex over.
LEMMA UnlockStepPreserves ==
  ASSUME IInv, NEW t \in Threads, UnlockStep(t)
  PROVE  IInv'
<1> USE ThreadsAssumption
        DEF IInv, MutexTypeOK, Roles, InnerMutexHeld, MutualExclusion, Owns,
            TakenMeansOwned, FlagMeansWaiters, BranchesStayTrue,
            WaitersNeedOwner, SignalsAwaited, NoDanglingWaiter, Queued, Threads,
            Flags, OwnerPCs, InnerPCs, Announcing, WorkerPCs, CallerPCs,
            UnlockPCs, Goto
<1>1. CASE UnlockFast(t)
  BY <1>1 DEF UnlockFast
<1>2. CASE UnlockSlow(t)
  BY <1>2, UnlockSlowPreserves
<1>3. CASE UnlockEnter(t)
  BY <1>3 DEF UnlockEnter
<1>4. CASE UnlockPop(t)
  BY <1>4 DEF UnlockPop
<1>5. CASE UnlockFlag(t)
  BY <1>5, UnlockFlagPreserves
<1>6. CASE UnlockSend(t)
  BY <1>6 DEF UnlockSend
<1>7. CASE UnlockLeave(t)
  BY <1>7 DEF UnlockLeave
<1> QED BY <1>1, <1>2, <1>3, <1>4, <1>5, <1>6, <1>7 DEF UnlockStep

\* The flag of the wakeup is not part of the invariant.
LEMMA StutterPreserves ==
  ASSUME IInv, UNCHANGED <<myState, myMutex, myWaiters, mySignal, first, pc>>,
         wakeup' \in BOOLEAN
  PROVE  IInv'
<1>1. MutexTypeOK'
  BY DEF IInv, MutexTypeOK
<1>2. MutualExclusion' /\ TakenMeansOwned'
  BY DEF IInv, MutualExclusion, TakenMeansOwned, Owns
<1>3. Roles' /\ InnerMutexHeld' /\ FlagMeansWaiters' /\ BranchesStayTrue'
  BY DEF IInv, Roles, InnerMutexHeld, FlagMeansWaiters, BranchesStayTrue
<1>4. WaitersNeedOwner' /\ SignalsAwaited' /\ NoDanglingWaiter'
  BY DEF IInv, WaitersNeedOwner, SignalsAwaited, NoDanglingWaiter, Queued
<1> QED BY <1>1, <1>2, <1>3, <1>4 DEF IInv

\* Every step preserves the invariant, by the thread that takes it.
LEMMA StepPreserves == IInv /\ [MutexNext]_mutexVars => IInv'
<1> SUFFICES ASSUME IInv, [MutexNext]_mutexVars  PROVE IInv'
  OBVIOUS
<1>1. CASE SendWakeup
  BY <1>1, StutterPreserves DEF SendWakeup
<1>2. ASSUME NEW w \in Workers, WorkerStep(w)  PROVE IInv'
  BY <1>2, WorkerStepPreserves
<1>3. ASSUME NEW c \in Callers, CallerStep(c)  PROVE IInv'
  BY <1>3, CallerStepPreserves
<1>4. ASSUME NEW t \in Threads, UnlockStep(t)  PROVE IInv'
  BY <1>4, UnlockStepPreserves
<1>5. CASE UNCHANGED mutexVars
  BY <1>5, StutterPreserves DEF mutexVars, IInv, MutexTypeOK
<1> QED BY <1>1, <1>2, <1>3, <1>4, <1>5 DEF MutexNext

\* The strengthened invariant, which the others follow from.
THEOREM Invariance == MutexSpec => []IInv
<1> QED BY InitInvariant, StepPreserves, PTL DEF MutexSpec

-----------------------------------------------------------------------------
\* The bits, the lists and the places of the threads stay in their ranges.
THEOREM TypeCorrect == MutexSpec => []MutexTypeOK
<1>1. IInv => MutexTypeOK
  BY DEF IInv
<1> QED BY <1>1, Invariance, PTL

\* The mutex excludes: TryLock(), the exchange in Lock() and the handover in
\* Unlock() never make two threads its owners.
THEOREM Exclusion == MutexSpec => []MutualExclusion
<1>1. IInv => MutualExclusion
  BY DEF IInv
<1> QED BY <1>1, Invariance, PTL

\* Unlock() never signals a waiter object whose Lock() call has returned.
THEOREM WaitersAlive == MutexSpec => []NoDanglingWaiter
<1>1. IInv => NoDanglingWaiter
  BY DEF IInv
<1> QED BY <1>1, Invariance, PTL

\* The assertions in Lock() and Unlock() hold.
THEOREM AssertionsAreTrue == MutexSpec => []AssertionsHold
<1>1. IInv => AssertionsHold
  <2> SUFFICES ASSUME IInv, NEW t \in Threads
               PROVE  /\ pc[t] = "lock_flag" /\ "TAKEN" \notin myState
                            => myWaiters = <<>>
                      /\ pc[t] = "lock_take" => myState = {"HAS_WAITERS"}
                      /\ pc[t] = "working" => "TAKEN" \in myState
                      /\ pc[t] = "unlock" => myState \in {{"TAKEN"}, Flags}
                      /\ pc[t] = "unlock_pop" => myWaiters # <<>>
                      /\ pc[t] = "unlock_flag" => myState = Flags
    BY DEF AssertionsHold
  <2> USE DEF IInv, Flags
  <2>1. myState \subseteq {"TAKEN", "HAS_WAITERS"}
    BY DEF MutexTypeOK
  <2>2. pc[t] \in OwnerPCs => "TAKEN" \in myState
    BY DEF TakenMeansOwned, Owns
  <2>3. pc[t] \in Announcing => "HAS_WAITERS" \in myState
    BY DEF FlagMeansWaiters
  <2>4. pc[t] = "unlock_pop" => \A u \in Threads : pc[u] \notin Announcing
    BY DEF InnerMutexHeld, InnerPCs, Announcing
  <2>5. pc[t] = "unlock_pop" => myWaiters # <<>>
    BY <2>4 DEF BranchesStayTrue, FlagMeansWaiters
  <2> QED BY <2>1, <2>2, <2>3, <2>5
          DEF OwnerPCs, Announcing, WaitersNeedOwner, BranchesStayTrue
<1> QED BY <1>1, Invariance, PTL

-----------------------------------------------------------------------------
(* The order of the waiters.                                                *)

\* Two sides of NoOvertaking: nobody comes in from outside while there are
\* waiters, and the list is a queue.
TakesOnlyFree ==
    \A t \in Threads :
        ~Owns(t) /\ Owns(t)' /\ pc[t] # "lock_receive" => myWaiters = <<>>

KeepsOrder ==
    \A c, d \in Callers :
        /\ Ahead(c, d) /\ Queued(c)' => Ahead(c, d)'
        /\ Queued(c) /\ Queued(c)' /\ ~Queued(d) /\ Queued(d)' => Ahead(c, d)'

\* A step that leaves the list alone keeps the order.
LEMMA SameListKeepsOrder ==
  ASSUME UNCHANGED myWaiters
  PROVE  KeepsOrder
  BY DEF KeepsOrder, Ahead, Queued

\* A caller that joins the list joins it behind all who wait.
LEMMA AppendKeepsOrder ==
  ASSUME IInv, NEW e \in Callers, myWaiters' = Append(myWaiters, e)
  PROVE  KeepsOrder
<1> SUFFICES ASSUME NEW c \in Callers, NEW d \in Callers
             PROVE  /\ Ahead(c, d) /\ Queued(c)' => Ahead(c, d)'
                    /\ Queued(c) /\ Queued(c)' /\ ~Queued(d) /\ Queued(d)'
                          => Ahead(c, d)'
  BY DEF KeepsOrder
<1>1. /\ DOMAIN myWaiters = 1..Len(myWaiters) /\ Len(myWaiters) \in Nat
      /\ DOMAIN myWaiters' = 1..(Len(myWaiters) + 1)
      /\ \A i \in 1..Len(myWaiters) : myWaiters'[i] = myWaiters[i]
      /\ myWaiters'[Len(myWaiters) + 1] = e
  BY AppendProperties, LenProperties DEF IInv, MutexTypeOK
<1>2. Ahead(c, d) => Ahead(c, d)'
  BY <1>1 DEF Ahead
<1>3. ASSUME Queued(c), ~Queued(d), Queued(d)'  PROVE Ahead(c, d)'
  <2>1. PICK i \in 1..Len(myWaiters) : myWaiters[i] = c
    BY <1>1, <1>3 DEF Queued
  <2>2. d = e
    BY <1>1, <1>3 DEF Queued
  <2> QED BY <1>1, <2>1, <2>2 DEF Ahead
<1> QED BY <1>2, <1>3

\* The one that leaves the list is its first.
LEMMA PopKeepsOrder ==
  ASSUME IInv, myWaiters # <<>>, myWaiters' = Tail(myWaiters)
  PROVE  KeepsOrder
<1> SUFFICES ASSUME NEW c \in Callers, NEW d \in Callers
             PROVE  /\ Ahead(c, d) /\ Queued(c)' => Ahead(c, d)'
                    /\ Queued(c) /\ Queued(c)' /\ ~Queued(d) /\ Queued(d)'
                          => Ahead(c, d)'
  BY DEF KeepsOrder
<1>1. /\ DOMAIN myWaiters = 1..Len(myWaiters) /\ Len(myWaiters) \in Nat \ {0}
      /\ DOMAIN myWaiters' = 1..(Len(myWaiters) - 1)
      /\ \A i \in 1..(Len(myWaiters) - 1) : myWaiters'[i] = myWaiters[i + 1]
  BY LenProperties, HeadTailProperties, EmptySeq DEF IInv, MutexTypeOK
<1>2. Queued(d)' => Queued(d)
  BY <1>1 DEF Queued
<1>3. ASSUME Ahead(c, d), Queued(c)'  PROVE Ahead(c, d)'
  <2>1. PICK i, j \in 1..Len(myWaiters) :
                i < j /\ myWaiters[i] = c /\ myWaiters[j] = d
    BY <1>1, <1>3 DEF Ahead
  <2>2. PICK k \in 1..(Len(myWaiters) - 1) : myWaiters[k + 1] = c
    BY <1>1, <1>3 DEF Queued
  <2>3. i = k + 1
    BY <1>1, <2>1, <2>2 DEF IInv, NoDanglingWaiter
  <2>4. /\ i - 1 \in DOMAIN myWaiters' /\ j - 1 \in DOMAIN myWaiters'
        /\ i - 1 < j - 1 /\ myWaiters'[i - 1] = c /\ myWaiters'[j - 1] = d
    BY <1>1, <2>1, <2>2, <2>3
  <2> QED BY <2>4 DEF Ahead
<1> QED BY <1>2, <1>3

\* The exchange that makes a thread the owner finds the TAKEN bit clear, and then
\* nobody waits.
LEMMA StepTakesOnlyFree == IInv /\ MutexNext => TakesOnlyFree
<1> SUFFICES ASSUME IInv, MutexNext, NEW t \in Threads,
                    ~Owns(t), Owns(t)', pc[t] # "lock_receive"
             PROVE  myWaiters = <<>>
  BY DEF TakesOnlyFree
<1> USE ThreadsAssumption
        DEF IInv, MutexTypeOK, Roles, BranchesStayTrue, WaitersNeedOwner,
            SignalsAwaited, Owns, OwnerPCs, Threads, WorkerPCs, CallerPCs,
            UnlockPCs, Goto
<1>1. CASE SendWakeup
  BY <1>1 DEF SendWakeup
<1>2. ASSUME NEW w \in Workers, WorkerStep(w)  PROVE myWaiters = <<>>
  BY <1>2 DEF WorkerStep, WorkerTryLock, TryLockCas, WorkerWakeUp
<1>3. ASSUME NEW c \in Callers, CallerStep(c)  PROVE myWaiters = <<>>
  <2>1. CASE LockFast(c)
    BY <2>1 DEF LockFast, TryLockCas
  <2>2. CASE LockTake(c)
    BY <2>2 DEF LockTake
  <2>3. CASE LockSlow(c) \/ LockEnter(c) \/ LockFlag(c) \/ LockWakeup(c)
    BY <2>3 DEF LockSlow, LockEnter, LockFlag, Announced, LockWakeup
  <2>4. CASE LockAppend(c) \/ LockReceive(c) \/ CallerWorks(c)
    BY <2>4 DEF LockAppend, LockReceive, CallerWorks
  <2> QED BY <1>3, <2>1, <2>2, <2>3, <2>4 DEF CallerStep
<1>4. ASSUME NEW u \in Threads, UnlockStep(u)  PROVE myWaiters = <<>>
  <2>1. CASE UnlockFast(u) \/ UnlockSlow(u) \/ UnlockEnter(u)
    BY <2>1 DEF UnlockFast, UnlockSlow, UnlockEnter
  <2>2. CASE UnlockPop(u) \/ UnlockFlag(u) \/ UnlockLeave(u)
    BY <2>2 DEF UnlockPop, UnlockFlag, UnlockLeave
  <2>3. CASE UnlockSend(u)
    BY <2>3 DEF UnlockSend, NoDanglingWaiter
  <2> QED BY <1>4, <2>1, <2>2, <2>3 DEF UnlockStep
<1> QED BY <1>1, <1>2, <1>3, <1>4 DEF MutexNext

\* Only LockAppend and UnlockPop change the list.
LEMMA StepKeepsOrder == IInv /\ MutexNext => KeepsOrder
<1> SUFFICES ASSUME IInv, MutexNext  PROVE KeepsOrder
  OBVIOUS
<1>1. CASE SendWakeup
  BY <1>1, SameListKeepsOrder DEF SendWakeup
<1>2. ASSUME NEW w \in Workers, WorkerStep(w)  PROVE KeepsOrder
  BY <1>2, SameListKeepsOrder DEF WorkerStep, WorkerTryLock, WorkerWakeUp
<1>3. ASSUME NEW c \in Callers, CallerStep(c)  PROVE KeepsOrder
  <2>1. CASE LockAppend(c)
    BY <2>1, AppendKeepsOrder DEF LockAppend, Appended
  <2>2. CASE ~LockAppend(c)
    BY <1>3, <2>2, SameListKeepsOrder
       DEF CallerStep, LockFast, LockSlow, LockEnter, LockFlag, LockTake,
           LockWakeup, LockReceive, CallerWorks
  <2> QED BY <2>1, <2>2
<1>4. ASSUME NEW t \in Threads, UnlockStep(t)  PROVE KeepsOrder
  <2>1. CASE UnlockPop(t)
    BY <2>1, PopKeepsOrder DEF UnlockPop
  <2>2. CASE ~UnlockPop(t)
    BY <1>4, <2>2, SameListKeepsOrder
       DEF UnlockStep, UnlockFast, UnlockSlow, UnlockEnter, UnlockFlag,
           UnlockSend, UnlockLeave
  <2> QED BY <2>1, <2>2
<1> QED BY <1>1, <1>2, <1>3, <1>4 DEF MutexNext

\* "No thread can take the ownership out of order".
THEOREM WaitersInOrder == MutexSpec => NoOvertaking
<1>1. IInv /\ [MutexNext]_mutexVars => [TakesOnlyFree /\ KeepsOrder]_mutexVars
  BY StepTakesOnlyFree, StepKeepsOrder
<1>2. [TakesOnlyFree /\ KeepsOrder]_mutexVars =>
         [/\ \A t \in Threads :
                ~Owns(t) /\ Owns(t)' /\ pc[t] # "lock_receive" => myWaiters = <<>>
          /\ \A c, d \in Callers :
                /\ Ahead(c, d) /\ Queued(c)' => Ahead(c, d)'
                /\ Queued(c) /\ Queued(c)' /\ ~Queued(d) /\ Queued(d)'
                      => Ahead(c, d)' ]_mutexVars
  BY DEF TakesOnlyFree, KeepsOrder
<1> QED BY <1>1, <1>2, Invariance, PTL DEF MutexSpec, NoOvertaking
=============================================================================
