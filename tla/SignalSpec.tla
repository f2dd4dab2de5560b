----------------------------- MODULE SignalSpec -----------------------------
(***************************************************************************)
(* What mg::box::Signal promises (src/mg/box/Signal.h): a flag that any    *)
(* number of Send() calls raise and exactly one receiver takes down.  There *)
(* is no lock and no condition variable here; Signal implements this.      *)
(*                                                                         *)
(* A Send() that finds another one under way returns at once, before the   *)
(* flag can be received: the signal is then "coming".                      *)
(***************************************************************************)
CONSTANT Receivers

VARIABLES
    signal,     \* "none", "coming" or "there"
    rcv         \* what each receiver does

vars == <<signal, rcv>>

Kinds == {"nonblocking", "timed", "blocking"}

Init ==
    /\ signal = "none"
    /\ rcv = [r \in Receivers |-> "outside"]

Announce == signal = "none" /\ signal' = "coming" /\ UNCHANGED rcv

Arrive == signal = "coming" /\ signal' = "there" /\ UNCHANGED rcv

Begin(r, kind) ==
    /\ rcv[r] = "outside"
    /\ rcv' = [rcv EXCEPT ![r] = kind]
    /\ UNCHANGED signal

\* One receiver gets the signal, and the signal is gone.
Take(r) ==
    /\ rcv[r] \in Kinds
    /\ signal = "there"
    /\ signal' = "none"
    /\ rcv' = [rcv EXCEPT ![r] = "received"]

\* A non-blocking receive fails only without a signal, a timed one when it
\* likes ("May return false not only in case of a timeout"), a blocking never.
Fail(r) ==
    /\ \/ rcv[r] = "nonblocking" /\ signal # "there"
       \/ rcv[r] = "timed"
    /\ rcv' = [rcv EXCEPT ![r] = "outside"]
    /\ UNCHANGED signal

Return(r) ==
    /\ rcv[r] = "received"
    /\ rcv' = [rcv EXCEPT ![r] = "outside"]
    /\ UNCHANGED signal

Next ==
    \/ Announce
    \/ Arrive
    \/ \E r \in Receivers :
          \/ \E kind \in Kinds : Begin(r, kind)
          \/ Take(r)
          \/ Fail(r)
          \/ Return(r)

TakeBlocked == \E r \in Receivers : rcv[r] = "blocking" /\ Take(r)

\* An announced signal arrives, and does not stay while somebody is blocked.
Spec == Init /\ [][Next]_vars /\ WF_vars(Arrive) /\ WF_vars(TakeBlocked)
=============================================================================
