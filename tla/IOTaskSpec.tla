----------------------------- MODULE IOTaskSpec -----------------------------
(***************************************************************************)
(* What an IOCore promises to the owner of a task (IOTask.h): OnEvent() is *)
(* called by one worker at a time; after a wakeup it is called again, how- *)
(* ever late in a call the wakeup comes; after a close it is called a last *)
(* time, and then not until the owner posts the task anew.  Nothing is     *)
(* promised while the core is stopped.                                     *)
(***************************************************************************)
CONSTANT Tasks

VARIABLES phase, woken, closing, running
vars == <<phase, woken, closing, running>>

Init ==
    /\ phase = [t \in Tasks |-> "new"]
    /\ woken = [t \in Tasks |-> FALSE]
    /\ closing = [t \in Tasks |-> FALSE]
    /\ running = FALSE

Post(t) ==
    /\ phase[t] = "new" /\ phase' = [phase EXCEPT ![t] = "posted"]
    /\ UNCHANGED <<woken, closing, running>>

\* By PostWakeup(), an event or a deadline; also when the task is about to be
\* reused, which makes the wakeup count for its next life.
Wake(t) ==
    /\ closing[t] => phase[t] = "over"
    /\ woken' = [woken EXCEPT ![t] = TRUE]
    /\ UNCHANGED <<phase, closing, running>>

Close(t) ==
    /\ ~closing[t] /\ closing' = [closing EXCEPT ![t] = TRUE]
    /\ woken' = [woken EXCEPT ![t] = FALSE]
    /\ UNCHANGED <<phase, running>>

\* A call may end with a close by the callback itself.
Call(t) ==
    /\ phase[t] = "posted" /\ phase' = [phase EXCEPT ![t] = "called"]
    /\ woken' = [woken EXCEPT ![t] = FALSE]
    /\ closing' \in {closing, [closing EXCEPT ![t] = TRUE]}
    /\ UNCHANGED running

Return(t) ==
    /\ phase[t] = "called" /\ phase' = [phase EXCEPT ![t] = "posted"]
    /\ UNCHANGED <<woken, closing, running>>

LastCall(t) ==
    /\ phase[t] = "posted" /\ closing[t]
    /\ phase' = [phase EXCEPT ![t] = "over"]
    /\ UNCHANGED <<woken, closing, running>>

Reuse(t) ==
    /\ phase[t] = "over" /\ phase' = [phase EXCEPT ![t] = "posted"]
    /\ closing' = [closing EXCEPT ![t] = FALSE]
    /\ UNCHANGED <<woken, running>>

StartStop ==
    /\ running' = ~running
    /\ UNCHANGED <<phase, woken, closing>>

Next ==
    \/ \E t \in Tasks : \/ Post(t) \/ Wake(t) \/ Close(t) \/ Call(t) \/ Return(t)
                        \/ LastCall(t) \/ Reuse(t)
    \/ StartStop

Fairness ==
    \A t \in Tasks : /\ WF_vars(running /\ woken[t] /\ Call(t))
                     /\ WF_vars(running /\ closing[t] /\ LastCall(t))
                     /\ WF_vars(Return(t))

Spec == Init /\ [][Next]_vars /\ Fairness
=============================================================================
