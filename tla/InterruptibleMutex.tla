------------------------- MODULE InterruptibleMutex -------------------------
(***************************************************************************)
(* mg::box::InterruptibleMutex (src/mg/box/InterruptibleMutex.{h,cpp}).    *)
(*                                                                         *)
(* Workers take the mutex with TryLock() and may fall asleep on an outside *)
(* signal while they own it.  Callers use Lock(aWakeup): the first of them *)
(* to queue up sends that signal, and Unlock() hands the ownership over to *)
(* the head of the queue instead of releasing it.                          *)
(*                                                                         *)
(* Each access to the atomic flags is one step, and so is each section of  *)
(* a method that runs under the inner myMutex between two such accesses.   *)
(* The outside signal and the signal of a waiter are the one-bit signals   *)
(* that module Signal specifies.                                           *)
(***************************************************************************)
EXTENDS Naturals, Sequences, FiniteSets

CONSTANTS
    Workers,    \* threads that call TryLock(), sleep as owners, and Unlock()
    Callers,    \* threads that call Lock(wakeup), work, and Unlock()
    NoThread    \* the absence of a thread

Threads == Workers \cup Callers

ASSUME ThreadsAssumption ==
    /\ Workers \cap Callers = {}
    /\ NoThread \notin Threads

VARIABLES
    myState,    \* the bits set in the AtomicU8
    myMutex,    \* who holds the inner mutex, or NoThread
    myWaiters,  \* the list of waiting callers, in order of arrival
    mySignal,   \* mySignal[c]: the signal in the waiter object of caller c
    first,      \* first[t]: the waiter that Unlock() in thread t has popped
    wakeup,     \* the outside signal an owner sleeps on
    pc          \* where each thread is

mutexVars == <<myState, myMutex, myWaiters, mySignal, first, wakeup, pc>>

Flags == {"TAKEN", "HAS_WAITERS"}

WorkerPCs == {"outside", "sleep"}
CallerPCs == {"outside", "lock_mutex", "lock_flag", "lock_take", "lock_wakeup",
              "lock_append", "lock_receive", "working"}
UnlockPCs == {"unlock", "unlock_mutex", "unlock_pop", "unlock_flag",
              "unlock_send", "unlock_leave"}

Goto(t, label) == pc' = [pc EXCEPT ![t] = label]

MutexInit ==
    /\ myState = {}
    /\ myMutex = NoThread
    /\ myWaiters = <<>>
    /\ mySignal = [c \in Callers |-> FALSE]
    /\ first = [t \in Threads |-> NoThread]
    /\ wakeup = FALSE
    /\ pc = [t \in Threads |-> "outside"]

-----------------------------------------------------------------------------
(* TryLock(): one compare-and-exchange of 0 by TAKEN.                       *)

\* A TryLock() that looks at the TAKEN bit alone and so can get between a
\* caller that found the mutex free and that caller's exchange.
TryLockCasBarging == "TAKEN" \notin myState /\ myState' = myState \cup {"TAKEN"}

TryLockCas == myState = {} /\ myState' = {"TAKEN"}

\* A worker whose TryLock() fails has no business here and leaves: that
\* changes nothing.
WorkerTryLock(w) ==
    /\ pc[w] = "outside"
    /\ TryLockCas
    /\ Goto(w, "sleep")
    /\ UNCHANGED <<myMutex, myWaiters, mySignal, first, wakeup>>

\* The owner consumes the outside signal and goes to Unlock().
WorkerWakeUp(w) ==
    /\ pc[w] = "sleep"
    /\ wakeup
    /\ wakeup' = FALSE
    /\ Goto(w, "unlock")
    /\ UNCHANGED <<myState, myMutex, myWaiters, mySignal, first>>

\* The outside signal has other senders, that want the owner for other things.
SendWakeup ==
    /\ ~wakeup
    /\ wakeup' = TRUE
    /\ UNCHANGED <<myState, myMutex, myWaiters, mySignal, first, pc>>

-----------------------------------------------------------------------------
(* Lock()                                                                   *)

LockFast(c) ==
    /\ pc[c] = "outside"
    /\ TryLockCas
    /\ Goto(c, "working")
    /\ UNCHANGED <<myMutex, myWaiters, mySignal, first, wakeup>>

LockSlow(c) ==
    /\ pc[c] = "outside"
    /\ myState # {}
    /\ Goto(c, "lock_mutex")
    /\ UNCHANGED <<myState, myMutex, myWaiters, mySignal, first, wakeup>>

LockEnter(c) ==
    /\ pc[c] = "lock_mutex"
    /\ myMutex = NoThread
    /\ myMutex' = c
    /\ Goto(c, "lock_flag")
    /\ UNCHANGED <<myState, myWaiters, mySignal, first, wakeup>>

Announced == myState \cup {"HAS_WAITERS"}

\* Announce a waiter; who owned the mutex at that moment decides the branch.
\* The waiter object `self` is created with an empty signal.
LockFlag(c) ==
    /\ pc[c] = "lock_flag"
    /\ myState' = Announced
    /\ mySignal' = [mySignal EXCEPT ![c] = FALSE]
    /\ Goto(c, CASE "TAKEN" \notin myState -> "lock_take"
                 [] "TAKEN" \in myState /\ myWaiters = <<>> -> "lock_wakeup"
                 [] OTHER -> "lock_append")
    /\ UNCHANGED <<myMutex, myWaiters, first, wakeup>>

\* The owner left before the flag was set: exchange the state to TAKEN, free
\* the inner mutex, return as the owner.
LockTake(c) ==
    /\ pc[c] = "lock_take"
    /\ myState' = {"TAKEN"}
    /\ myMutex' = NoThread
    /\ Goto(c, "working")
    /\ UNCHANGED <<myWaiters, mySignal, first, wakeup>>

\* The first waiter interrupts the owner.
LockWakeup(c) ==
    /\ pc[c] = "lock_wakeup"
    /\ wakeup' = TRUE
    /\ Goto(c, "lock_append")
    /\ UNCHANGED <<myState, myMutex, myWaiters, mySignal, first>>

\* A waiter list served last-in first-out.
Prepended(c) == <<c>> \o myWaiters

Appended(c) == Append(myWaiters, c)

LockAppend(c) ==
    /\ pc[c] = "lock_append"
    /\ myWaiters' = Appended(c)
    /\ myMutex' = NoThread
    /\ Goto(c, "lock_receive")
    /\ UNCHANGED <<myState, mySignal, first, wakeup>>

\* The ownership has been handed over.  The waiter object dies here.
LockReceive(c) ==
    /\ pc[c] = "lock_receive"
    /\ mySignal[c]
    /\ mySignal' = [mySignal EXCEPT ![c] = FALSE]
    /\ Goto(c, "working")
    /\ UNCHANGED <<myState, myMutex, myWaiters, first, wakeup>>

CallerWorks(c) ==
    /\ pc[c] = "working"
    /\ Goto(c, "unlock")
    /\ UNCHANGED <<myState, myMutex, myWaiters, mySignal, first, wakeup>>

-----------------------------------------------------------------------------
(* Unlock()                                                                 *)

UnlockFast(t) ==
    /\ pc[t] = "unlock"
    /\ myState = {"TAKEN"}
    /\ myState' = {}
    /\ Goto(t, "outside")
    /\ UNCHANGED <<myMutex, myWaiters, mySignal, first, wakeup>>

UnlockSlow(t) ==
    /\ pc[t] = "unlock"
    /\ myState # {"TAKEN"}
    /\ Goto(t, "unlock_mutex")
    /\ UNCHANGED <<myState, myMutex, myWaiters, mySignal, first, wakeup>>

UnlockEnter(t) ==
    /\ pc[t] = "unlock_mutex"
    /\ myMutex = NoThread
    /\ myMutex' = t
    /\ Goto(t, "unlock_pop")
    /\ UNCHANGED <<myState, myWaiters, mySignal, first, wakeup>>

\* The head of the list is signalled, but stays in the list.
UnlockPeek(t) ==
    /\ pc[t] = "unlock_pop"
    /\ myWaiters # <<>>
    /\ first' = [first EXCEPT ![t] = Head(myWaiters)]
    /\ Goto(t, "unlock_flag")
    /\ UNCHANGED <<myState, myMutex, myWaiters, mySignal, wakeup>>

UnlockPop(t) ==
    /\ pc[t] = "unlock_pop"
    /\ myWaiters # <<>>
    /\ first' = [first EXCEPT ![t] = Head(myWaiters)]
    /\ myWaiters' = Tail(myWaiters)
    /\ Goto(t, "unlock_flag")
    /\ UNCHANGED <<myState, myMutex, mySignal, wakeup>>

\* The waiters flag is dropped although somebody still waits.
FlagsOnHandoverNoWaiters == myState \ {"HAS_WAITERS"}

FlagsOnHandover ==
    IF myWaiters = <<>> THEN myState \ {"HAS_WAITERS"} ELSE myState

UnlockFlag(t) ==
    /\ pc[t] = "unlock_flag"
    /\ myState' = FlagsOnHandover
    /\ Goto(t, "unlock_send")
    /\ UNCHANGED <<myMutex, myWaiters, mySignal, first, wakeup>>

UnlockSend(t) ==
    /\ pc[t] = "unlock_send"
    /\ mySignal' = [mySignal EXCEPT ![first[t]] = TRUE]
    /\ first' = [first EXCEPT ![t] = NoThread]
    /\ Goto(t, "unlock_leave")
    /\ UNCHANGED <<myState, myMutex, myWaiters, wakeup>>

UnlockLeave(t) ==
    /\ pc[t] = "unlock_leave"
    /\ myMutex' = NoThread
    /\ Goto(t, "outside")
    /\ UNCHANGED <<myState, myWaiters, mySignal, first, wakeup>>

-----------------------------------------------------------------------------
WorkerStep(w) == WorkerTryLock(w) \/ WorkerWakeUp(w)

CallerStep(c) ==
    \/ LockFast(c) \/ LockSlow(c) \/ LockEnter(c) \/ LockFlag(c)
    \/ LockTake(c) \/ LockWakeup(c) \/ LockAppend(c) \/ LockReceive(c)
    \/ CallerWorks(c)

UnlockStep(t) ==
    \/ UnlockFast(t) \/ UnlockSlow(t) \/ UnlockEnter(t) \/ UnlockPop(t)
    \/ UnlockFlag(t) \/ UnlockSend(t) \/ UnlockLeave(t)

MutexNext ==
    \/ SendWakeup
    \/ \E w \in Workers : WorkerStep(w)
    \/ \E c \in Callers : CallerStep(c)
    \/ \E t \in Threads : UnlockStep(t)

MutexSpec == MutexInit /\ [][MutexNext]_mutexVars

(***************************************************************************)
(* Fairness.  A thread inside a method keeps running; nobody has to enter  *)
(* one, nobody has to send the outside signal.  The inner mutex is the     *)
(* system's (pthread mutex, SRWLOCK): a thread blocked on it gets it in    *)
(* the end, hence strong fairness of the two steps that take it.           *)
(***************************************************************************)
MutexFairness ==
    /\ \A w \in Workers : WF_mutexVars(WorkerWakeUp(w)) /\ SF_mutexVars(UnlockEnter(w))
    /\ \A c \in Callers :
          /\ WF_mutexVars(CallerStep(c) /\ pc[c] # "outside")
          /\ SF_mutexVars(LockEnter(c) \/ UnlockEnter(c))
    /\ \A t \in Threads : WF_mutexVars(UnlockStep(t))

FairMutexSpec == MutexSpec /\ MutexFairness

-----------------------------------------------------------------------------
(* Properties                                                               *)

\* Every variable stays in its range.
MutexTypeOK ==
    /\ myState \in SUBSET Flags
    /\ myMutex \in Threads \cup {NoThread}
    /\ myWaiters \in Seq(Callers)
    /\ mySignal \in [Callers -> BOOLEAN]
    /\ first \in [Threads -> Callers \cup {NoThread}]
    /\ wakeup \in BOOLEAN
    /\ pc \in [Threads -> WorkerPCs \cup CallerPCs \cup UnlockPCs]

\* A thread owns the mutex from its successful exchange, or from the Send()
\* that hands it over, to its own exchange to 0 or its own Send().
OwnerPCs == {"sleep", "working", "unlock", "unlock_mutex", "unlock_pop",
             "unlock_flag", "unlock_send"}

Owns(t) ==
    \/ pc[t] \in OwnerPCs
    \/ t \in Callers /\ pc[t] = "lock_receive" /\ mySignal[t]

\* The threads between taking and freeing the inner mutex.
InnerPCs == {"lock_flag", "lock_take", "lock_wakeup", "lock_append",
             "unlock_pop", "unlock_flag", "unlock_send", "unlock_leave"}

Queued(c) == \E i \in DOMAIN myWaiters : myWaiters[i] = c

\* At most one thread owns the mutex, whichever way the ownership went: by
\* TryLock(), by the exchange in Lock() or by the handover in Unlock().
MutualExclusion == \A t, u \in Threads : Owns(t) /\ Owns(u) => t = u

\* The assertions in Lock() (lines 43, 52, 72 of the .cpp file) and Unlock()
\* (lines 98, 102, 120, 121), each at the step that evaluates it.
AssertionsHold ==
    \A t \in Threads :
        /\ pc[t] = "lock_flag" /\ "TAKEN" \notin myState => myWaiters = <<>>
        /\ pc[t] = "lock_take" => myState = {"HAS_WAITERS"}
        /\ pc[t] = "working" => "TAKEN" \in myState
        /\ pc[t] = "unlock" => myState \in {{"TAKEN"}, Flags}
        /\ pc[t] = "unlock_pop" => myWaiters # <<>>
        /\ pc[t] = "unlock_flag" => myState = Flags

\* A waiter object lives on the stack of its Lock() call.  Every pointer to
\* one, in the list or in the hands of Unlock(), is to an object whose owner
\* still waits, has not been signalled and is pointed at only once.
NoDanglingWaiter ==
    /\ \A c \in Callers :
          Queued(c) \/ (\E t \in Threads : first[t] = c)
             => pc[c] = "lock_receive" /\ ~mySignal[c]
    /\ \A i, j \in DOMAIN myWaiters : myWaiters[i] = myWaiters[j] => i = j
    /\ \A t \in Threads : ~(first[t] \in Callers /\ Queued(first[t]))

\* "No thread can take the ownership out of order" (TryLock): once a caller is
\* queued, a thread that is not becomes the owner only by being handed the
\* ownership, the queued callers keep their order until they are handed it, and
\* who comes later stands behind them.
Ahead(c, d) ==
    \E i, j \in DOMAIN myWaiters : i < j /\ myWaiters[i] = c /\ myWaiters[j] = d

NoOvertaking ==
    [][/\ \A t \in Threads :
             ~Owns(t) /\ Owns(t)' /\ pc[t] # "lock_receive" => myWaiters = <<>>
       /\ \A c, d \in Callers :
             /\ Ahead(c, d) /\ Queued(c)' => Ahead(c, d)'
             /\ Queued(c) /\ Queued(c)' /\ ~Queued(d) /\ Queued(d)'
                   => Ahead(c, d)' ]_mutexVars

\* "Then the 'other' threads are guaranteed to get the lock. And nothing will
\* ever deadlock" (header): a caller that found the mutex taken gets it, even
\* if the owner sleeps and nobody but the callers ever sends its signal.
LockSucceeds == \A c \in Callers : pc[c] = "lock_mutex" ~> pc[c] = "working"
=============================================================================
