------------------------------ MODULE MCThreads ------------------------------
(* What the threads are built on, each part on its own, in one instance: the    *)
(* mutex of the scheduler, the signal, and the life of a task.  A behaviour is  *)
(* one of the part that it begins with.                                         *)
EXTENDS InterruptibleMutex, Signal, TaskLifecycle

VARIABLE part

threadsVars == <<part, mutexVars, signalVars, vars>>

ThreadsInit ==
    /\ part \in {"mutex", "signal", "lifecycle"}
    /\ MutexInit
    /\ SignalInit /\ (part = "signal" \/ users = SignalThreads)
    /\ Init

ThreadsNext ==
    /\ part' = part
    /\ \/ part = "mutex" /\ MutexNext /\ UNCHANGED <<signalVars, vars>>
       \/ part = "signal" /\ SignalNext /\ UNCHANGED <<mutexVars, vars>>
       \/ part = "lifecycle" /\ Next /\ UNCHANGED <<mutexVars, signalVars>>

\* The steps that are fair are not enabled in a part's initial state: a part that the
\* behaviour is not about claims none.
ThreadsSpec ==
    /\ ThreadsInit /\ [][ThreadsNext]_threadsVars
    /\ MutexFairness
    /\ SignalFairness
    /\ Fairness
=============================================================================
