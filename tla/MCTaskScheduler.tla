-------------------------- MODULE MCTaskScheduler --------------------------
(* Instances of TaskScheduler for TLC.  A scene is what comes from outside:   *)
(* two clients and a controller that only starts the scheduler; or all the    *)
(* calls of the controller, amid the posts and wakeups of one client, of      *)
(* tasks that sleep until they are woken; or everything.                      *)
EXTENDS TaskScheduler, TLC

CONSTANTS c1, Scenes

VARIABLE scene

ScenesInit == scene \in Scenes /\ Init

\* The calls that a scene leaves out: nobody owes them to the scheduler.
OnlyStart == kpc = "outside" => kpc' \in {"outside", "start_lock"}
OneClient == \A c \in Clients \ {c1} : cpc'[c] = "outside"
OnlyWakeups == \A t \in Tasks : status'[t] # "SIGNALED" /\ deadline'[t] # "future"

InScene ==
    \/ scene = "clients" /\ OnlyStart
    \/ scene = "calls" /\ OneClient /\ OnlyWakeups
    \/ scene = "everything"

ScenesNext == Next /\ InScene /\ scene' = scene

ScenesSpec == ScenesInit /\ [][ScenesNext]_<<scene, vars>>

FairScenesSpec == ScenesSpec /\ Fairness

\* Workers, tasks and clients are interchangeable in the safety properties.
SchedulerSymmetry ==
    Permutations(Workers) \cup Permutations(Tasks) \cup Permutations(Clients)
=============================================================================
