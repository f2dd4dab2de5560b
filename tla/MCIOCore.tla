------------------------------ MODULE MCIOCore ------------------------------
(* The scenarios that TLC goes through: each is small, together they let     *)
(* every backend meet every race that its code speaks of.                    *)
EXTENDS IOCoreBackends

CONSTANTS t1, t2, w1, w2

Scenario(b, crew, first, second, deadlines, stops, breaks) ==
    [backend |-> b, crew |-> crew, side |-> [t \in Tasks |-> IF t = t1 THEN first ELSE second],
     deadlines |-> deadlines, stops |-> stops, breaks |-> breaks]

\* One worker schedules and executes; Stop() and Start() at any time.
Alone(b, side) == Scenario(b, {w1}, side, "none", {}, TRUE, TRUE)
AloneTimed(b, side) == Scenario(b, {w1}, side, "none", {1}, TRUE, FALSE)
\* Two workers: one schedules while the other one executes.
Pair(b, side, deadlines) == Scenario(b, {w1, w2}, side, "none", deadlines, FALSE, FALSE)
PairStopped(b) == Scenario(b, {w1, w2}, "timer", "none", {}, TRUE, FALSE)
\* Two tasks in the queues of one worker.
Crowd(b, deadlines) == Scenario(b, {w1}, "timer", "timer", deadlines, FALSE, FALSE)

Flagging == {"epoll", "kqueue"}
Counting == {"iouring", "iocp"}

SafetyScenarios ==
    {Pair(b, "recv", {}) : b \in Flagging \cup Counting}
    \cup {Alone(b, side) : b \in Flagging \cup Counting, side \in {"send", "accept"}}
    \cup {AloneTimed(b, "recv") : b \in {"epoll", "iouring", "iocp"}}
    \cup {Pair(b, "timer", {1}) : b \in {"epoll", "iocp"}}
    \cup {Crowd(b, {1}) : b \in {"epoll"}}

LiveScenarios ==
    {Alone(b, "send") : b \in {"epoll", "iouring", "iocp"}}
    \cup {AloneTimed("iocp", "recv"), AloneTimed("epoll", "timer")}
    \cup {PairStopped("epoll")}
    \cup {Crowd(b, {}) : b \in {"epoll", "iouring", "iocp"}}
=============================================================================
