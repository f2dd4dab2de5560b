------------------------------- MODULE Signal -------------------------------
(***************************************************************************)
(* mg::box::Signal (src/mg/box/Signal.{h,cpp}): an atomic state, a mutex   *)
(* and a condition variable.  Every access to the atomic state is a step of *)
(* its own, inside the mutex or not.  The condition variable is the set of *)
(* threads that wait on it; Wait() gives the mutex back and joins the set  *)
(* in one step, Signal() removes one thread, a wait may end for no reason. *)
(*                                                                         *)
(* The receiver that owns the object may delete it as soon as a receive    *)
(* has succeeded, while the sender is still inside Send(); then no other   *)
(* thread uses the object and each sender sends once.                      *)
(***************************************************************************)
EXTENDS Naturals

CONSTANTS
    Senders, Receivers,
    Nobody

SignalThreads == Senders \cup Receivers

ASSUME SignalAssumption ==
    /\ Senders \cap Receivers = {}
    /\ Nobody \notin SignalThreads

VARIABLES
    signalState,    \* myState: SIGNAL_STATE_EMPTY, _PROBE or _SIGNALED
    myLock,         \* the thread inside the mutex, or Nobody
    myCond,         \* the threads that wait on the condition variable
    kind,           \* which receive each receiver is in
    users,          \* the threads that use the signal
    deleted,        \* the destructor has returned
    at              \* where each thread is

signalVars == <<signalState, myLock, myCond, kind, users, deleted, at>>

\* One thread sends, once, and another one deletes the signal it has received.
Deletes == users # SignalThreads

SignalGoto(t, label) == at' = [at EXCEPT ![t] = label]

Acquire(t) == myLock = Nobody /\ myLock' = t

SignalInit ==
    /\ signalState = "EMPTY"
    /\ myLock = Nobody
    /\ myCond = {}
    /\ kind = [r \in Receivers |-> "blocking"]
    /\ users \in {SignalThreads} \cup {{s, r} : s \in Senders, r \in Receivers}
    /\ deleted = FALSE
    /\ at = [t \in SignalThreads |-> "outside"]

-----------------------------------------------------------------------------
(* Send()                                                                   *)

\* The compare-and-exchange: the signal is there or coming, or becomes PROBE.
Probe(s) ==
    IF signalState # "EMPTY"
    THEN UNCHANGED <<signalState, at>>
    ELSE signalState' = "PROBE" /\ SignalGoto(s, "send_lock")

SendBegin(s) ==
    /\ s \in users /\ at[s] = "outside"
    /\ Probe(s)
    /\ UNCHANGED <<myLock, myCond, kind, users, deleted>>

SendLock(s) ==
    /\ at[s] = "send_lock"
    /\ Acquire(s)
    /\ SignalGoto(s, "send_set")
    /\ UNCHANGED <<signalState, myCond, kind, users, deleted>>

SendSet(s) ==
    /\ at[s] = "send_set"
    /\ signalState' = "SIGNALED"
    /\ SignalGoto(s, "send_notify")
    /\ UNCHANGED <<myLock, myCond, kind, users, deleted>>

\* myCond.Signal() is forgotten.
SendNotifyNobody(s) ==
    /\ at[s] = "send_notify"
    /\ SignalGoto(s, "send_unlock")
    /\ UNCHANGED <<signalState, myLock, myCond, kind, users, deleted>>

SendNotify(s) ==
    /\ at[s] = "send_notify"
    /\ \/ /\ myCond = {}
          /\ UNCHANGED myCond
          /\ SignalGoto(s, "send_unlock")
       \/ \E r \in myCond :
             /\ myCond' = myCond \ {r}
             /\ at' = [at EXCEPT ![r] = "relock", ![s] = "send_unlock"]
    /\ UNCHANGED <<signalState, myLock, kind, users, deleted>>

SendUnlock(s) ==
    /\ at[s] = "send_unlock"
    /\ myLock' = Nobody
    /\ SignalGoto(s, IF Deletes THEN "finished" ELSE "outside")
    /\ UNCHANGED <<signalState, myCond, kind, users, deleted>>

-----------------------------------------------------------------------------
(* Receive(), ReceiveBlocking(), ReceiveTimed()                             *)

Begin(r, k) ==
    /\ r \in users /\ at[r] = "outside"
    /\ kind' = [kind EXCEPT ![r] = k]
    /\ SignalGoto(r, "try")
    /\ UNCHANGED <<signalState, myLock, myCond, users, deleted>>

\* The compare-and-exchange of Receive(), the only way a signal is taken.
Receive == signalState = "SIGNALED" /\ signalState' = "EMPTY"

ReceiveFails == signalState # "SIGNALED" /\ UNCHANGED signalState

Try(r) ==
    /\ at[r] = "try"
    /\ \/ Receive /\ SignalGoto(r, "received")
       \/ /\ ReceiveFails
          /\ SignalGoto(r, IF kind[r] = "nonblocking" THEN "outside" ELSE "lock")
    /\ UNCHANGED <<myLock, myCond, kind, users, deleted>>

Lock(r) ==
    /\ at[r] = "lock"
    /\ Acquire(r)
    /\ SignalGoto(r, "check")
    /\ UNCHANGED <<signalState, myCond, kind, users, deleted>>

CheckSucceeds(r) ==
    /\ at[r] \in {"check", "recheck"}
    /\ Receive
    /\ SignalGoto(r, "unlock_received")
    /\ UNCHANGED <<myLock, myCond, kind, users, deleted>>

\* A receiver that leaves the mutex before it waits.
CheckFailsUnlocked(r) ==
    /\ at[r] = "check"
    /\ ReceiveFails
    /\ myLock' = Nobody
    /\ SignalGoto(r, "wait")
    /\ UNCHANGED <<myCond, kind, users, deleted>>

CheckFails(r) ==
    /\ at[r] = "check"
    /\ ReceiveFails
    /\ SignalGoto(r, "wait")
    /\ UNCHANGED <<myLock, myCond, kind, users, deleted>>

\* The check after a timed wait is the last one.
RecheckFails(r) ==
    /\ at[r] = "recheck"
    /\ ReceiveFails
    /\ SignalGoto(r, "unlock_failed")
    /\ UNCHANGED <<myLock, myCond, kind, users, deleted>>

Wait(r) ==
    /\ at[r] = "wait"
    /\ myLock' = Nobody
    /\ myCond' = myCond \cup {r}
    /\ SignalGoto(r, "waiting")
    /\ UNCHANGED <<signalState, kind, users, deleted>>

\* The timeout, or a spurious wakeup of the condition variable.
WakeUnasked(r) ==
    /\ r \in myCond
    /\ myCond' = myCond \ {r}
    /\ SignalGoto(r, "relock")
    /\ UNCHANGED <<signalState, myLock, kind, users, deleted>>

Relock(r) ==
    /\ at[r] = "relock"
    /\ Acquire(r)
    /\ SignalGoto(r, IF kind[r] = "timed" THEN "recheck" ELSE "check")
    /\ UNCHANGED <<signalState, myCond, kind, users, deleted>>

Unlock(r) ==
    /\ at[r] \in {"unlock_received", "unlock_failed"}
    /\ myLock' = Nobody
    /\ SignalGoto(r, IF at[r] = "unlock_received" THEN "received" ELSE "outside")
    /\ UNCHANGED <<signalState, myCond, kind, users, deleted>>

Leave(r) ==
    /\ ~Deletes
    /\ at[r] = "received"
    /\ SignalGoto(r, "outside")
    /\ UNCHANGED <<signalState, myLock, myCond, kind, users, deleted>>

-----------------------------------------------------------------------------
(* ~Signal(): lock and unlock, then the memory is gone.                     *)

\* A destructor that does not wait for the sender to leave.
DestroyAtOnce(r) == UNCHANGED myLock /\ deleted' = TRUE /\ SignalGoto(r, "finished")

DestroyLocked(r) ==
    Acquire(r) /\ UNCHANGED deleted /\ SignalGoto(r, "destroy_unlock")

DestroyLock(r) ==
    /\ Deletes
    /\ at[r] = "received"
    /\ DestroyLocked(r)
    /\ UNCHANGED <<signalState, myCond, kind, users>>

DestroyUnlock(r) ==
    /\ at[r] = "destroy_unlock"
    /\ myLock' = Nobody
    /\ deleted' = TRUE
    /\ SignalGoto(r, "finished")
    /\ UNCHANGED <<signalState, myCond, kind, users>>

-----------------------------------------------------------------------------
SendStep(s) == SendLock(s) \/ SendSet(s) \/ SendNotify(s) \/ SendUnlock(s)

ReceiveStep(r) ==
    \/ Try(r) \/ Lock(r) \/ CheckSucceeds(r) \/ CheckFails(r)
    \/ RecheckFails(r) \/ Wait(r) \/ Relock(r) \/ Unlock(r)
    \/ DestroyLock(r) \/ DestroyUnlock(r)

\* The signal is deleted and both threads are done: nothing more happens.
Gone == deleted /\ (\A t \in users : at[t] = "finished") /\ UNCHANGED signalVars

SignalNext ==
    \/ \E s \in Senders : SendBegin(s) \/ SendStep(s)
    \/ \E r \in Receivers :
          \/ \E k \in {"nonblocking", "timed", "blocking"} : Begin(r, k)
          \/ ReceiveStep(r) \/ WakeUnasked(r) \/ Leave(r)
    \/ Gone

SignalSystem == SignalInit /\ [][SignalNext]_signalVars

(***************************************************************************)
(* Fairness: a thread inside a method keeps running and gets the mutex in  *)
(* the end; a wait never has to end unasked, nobody has to send.           *)
(***************************************************************************)
SignalFairness ==
    /\ \A s \in Senders : WF_signalVars(SendStep(s)) /\ SF_signalVars(SendLock(s))
    /\ \A r \in Receivers : WF_signalVars(ReceiveStep(r)) /\ SF_signalVars(Lock(r) \/ Relock(r))

FairSignalSystem == SignalSystem /\ SignalFairness

-----------------------------------------------------------------------------
(* Properties                                                               *)

SendPCs == {"send_lock", "send_set", "send_notify", "send_unlock"}
LockedPCs == {"send_set", "send_notify", "send_unlock", "check", "recheck",
              "wait", "unlock_received", "unlock_failed", "destroy_unlock"}
PCs == SendPCs \cup LockedPCs
          \cup {"outside", "try", "lock", "waiting", "relock", "received",
                "finished"}

\* Every variable stays in its range.
SignalTypeOK ==
    /\ signalState \in {"EMPTY", "PROBE", "SIGNALED"}
    /\ myLock \in SignalThreads \cup {Nobody}
    /\ myCond \subseteq Receivers
    /\ kind \in [Receivers -> {"nonblocking", "timed", "blocking"}]
    /\ users \subseteq SignalThreads /\ deleted \in BOOLEAN
    /\ at \in [SignalThreads -> PCs]

\* The state PROBE belongs to exactly one sender, which is on its way to set
\* SIGNALED: the assertion in Send() (line 63), and the reason why a sender
\* that finds PROBE may leave the work to another.
ProbeHasOneSender ==
    /\ \A s \in Senders :
          at[s] \in {"send_lock", "send_set"} => signalState = "PROBE"
    /\ \A s, t \in Senders :
          {at[s], at[t]} \subseteq {"send_lock", "send_set"} => s = t
    /\ signalState = "PROBE" =>
          \E s \in Senders : at[s] \in {"send_lock", "send_set"}

\* The destructor's comment: a sender is never inside Send() when the receiver
\* has deleted the object.
NoUseAfterDelete ==
    deleted => \A t \in SignalThreads : at[t] \in {"outside", "finished"}

\* A signal that is there never waits for a thread that has not been told: when
\* somebody waits, the sender is about to notify or a woken thread, or one that
\* has not looked yet, is about to look.
NoLostWakeup ==
    signalState = "SIGNALED" /\ myCond # {} =>
        \/ \E s \in Senders : at[s] = "send_notify"
        \/ \E r \in Receivers : at[r] \in {"relock", "check", "recheck"}

AbstractSignal == INSTANCE SignalSpec WITH
    signal <- CASE signalState = "EMPTY" -> "none"
                [] signalState = "PROBE" -> "coming"
                [] signalState = "SIGNALED" -> "there",
    rcv <- [r \in Receivers |->
              CASE at[r] \in {"outside", "unlock_failed"} -> "outside"
                [] at[r] \in {"unlock_received", "received", "finished",
                              "destroy_unlock"} -> "received"
                [] OTHER -> kind[r]]

\* Signal implements the abstract flag of SignalSpec, fairness included: a
\* signal is taken once, a non-blocking receive misses none that is there, and
\* a blocked receiver does not sleep on a signal for ever.
ImplementsSignalSpec == AbstractSignal!Spec
=============================================================================
