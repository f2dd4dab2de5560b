---------------------------- MODULE SignalProofs ----------------------------
(***************************************************************************)
(* Proofs about the signal, for any number of senders and receivers: the   *)
(* state PROBE has one sender, no wakeup is lost, and a receiver that      *)
(* deletes the signal does so after its sender has left; and the signal   *)
(* implements the flag of SignalSpec, but for its fairness.                *)
(***************************************************************************)
EXTENDS Signal, TLAPS

-----------------------------------------------------------------------------
(* The inductive invariant.                                                 *)

\* Senders and receivers keep to their own code; the last check is a timed one.
Roles ==
    /\ \A s \in Senders : at[s] \in SendPCs \cup {"outside", "finished"}
    /\ \A r \in Receivers : at[r] \notin SendPCs
    /\ \A r \in Receivers : at[r] = "recheck" => kind[r] = "timed"

\* Who is inside the mutex holds it; who waits on the condition variable is in
\* its wait set.
LockHeld ==
    /\ \A t \in SignalThreads : at[t] \in LockedPCs <=> myLock = t
    /\ \A r \in Receivers : r \in myCond <=> at[r] = "waiting"

\* Between its check and its wait a receiver has the mutex, which the sender needs
\* to set SIGNALED.
NoSignalBeforeWait ==
    \A r \in Receivers : at[r] = "wait" => signalState # "SIGNALED"

\* The two ways to use a signal.
UsersOK ==
    /\ \/ ~Deletes
       \/ \E s \in Senders, r \in Receivers : users = {s, r}
    /\ \A t \in SignalThreads : t \notin users => at[t] = "outside"

\* What a receiver that is going to delete the signal knows of its sender: the
\* signal it has got was set inside the mutex, and there is no second one.
Leaving == {"send_notify", "send_unlock", "finished"}
Received == {"unlock_received", "received", "destroy_unlock", "finished"}

SenderLeaves ==
    /\ \A s \in Senders : Deletes /\ s \in users =>
          /\ signalState = "SIGNALED" => at[s] \in Leaving
          /\ \A r \in Receivers : at[r] \in Received => at[s] \in Leaving
          /\ \A r \in Receivers : at[r] = "finished" => at[s] = "finished"
    /\ ~Deletes => \A t \in SignalThreads : at[t] \notin {"finished", "destroy_unlock"}
    /\ deleted => \E r \in Receivers : at[r] = "finished"

IInv ==
    /\ SignalTypeOK /\ Roles /\ LockHeld /\ NoSignalBeforeWait /\ UsersOK
    /\ SenderLeaves /\ ProbeHasOneSender /\ NoLostWakeup

-----------------------------------------------------------------------------
\* A new signal, whoever is going to use it.
LEMMA InitInvariant == SignalInit => IInv
<1> SUFFICES ASSUME SignalInit  PROVE IInv
  OBVIOUS
<1> USE SignalAssumption DEF SignalInit, SignalThreads
<1>1. SignalTypeOK
  <2>1. users \subseteq SignalThreads
    OBVIOUS
  <2>2. kind \in [Receivers -> {"nonblocking", "timed", "blocking"}]
    OBVIOUS
  <2> QED BY <2>1, <2>2 DEF SignalTypeOK, PCs
<1>2. Roles /\ LockHeld /\ NoSignalBeforeWait
  BY DEF Roles, LockHeld, NoSignalBeforeWait, SendPCs, LockedPCs
<1>3. UsersOK
  <2>1. users = SignalThreads \/ \E s \in Senders, r \in Receivers : users = {s, r}
    OBVIOUS
  <2> QED BY <2>1 DEF UsersOK, Deletes
<1>4. SenderLeaves
  BY DEF SenderLeaves, Received
<1>5. ProbeHasOneSender /\ NoLostWakeup
  BY DEF ProbeHasOneSender, NoLostWakeup
<1> QED BY <1>1, <1>2, <1>3, <1>4, <1>5 DEF IInv

\* A sender's steps.
LEMMA SenderPreserves ==
  ASSUME IInv, NEW s \in Senders, SendBegin(s) \/ SendStep(s)
  PROVE  IInv'
<1> USE SignalAssumption
        DEF IInv, Roles, LockHeld, NoSignalBeforeWait, UsersOK, SenderLeaves,
            ProbeHasOneSender, NoLostWakeup, SignalTypeOK, SignalThreads, PCs, SendPCs, LockedPCs,
            Leaving, Received, Deletes, SignalGoto
<1>1. CASE SendBegin(s)
  BY <1>1 DEF SendBegin, Probe
<1>2. CASE SendLock(s)
  BY <1>2 DEF SendLock, Acquire
<1>3. CASE SendSet(s)
  BY <1>3 DEF SendSet
<1>4. CASE SendNotify(s)
  BY <1>4 DEF SendNotify
<1>5. CASE SendUnlock(s)
  BY <1>5 DEF SendUnlock
<1> QED BY <1>1, <1>2, <1>3, <1>4, <1>5 DEF SendStep

\* A receiver's steps.
LEMMA ReceiverPreserves ==
  ASSUME IInv, NEW r \in Receivers, ReceiveStep(r) \/ WakeUnasked(r) \/ Leave(r)
  PROVE  IInv'
<1> USE SignalAssumption
        DEF IInv, Roles, LockHeld, NoSignalBeforeWait, UsersOK, SenderLeaves,
            ProbeHasOneSender, NoLostWakeup, SignalTypeOK, SignalThreads, PCs, SendPCs, LockedPCs,
            Leaving, Received, Deletes, SignalGoto
<1>1. CASE Try(r)
  BY <1>1 DEF Try, Receive, ReceiveFails
<1>2. CASE Lock(r)
  BY <1>2 DEF Lock, Acquire
<1>3. CASE CheckSucceeds(r)
  BY <1>3 DEF CheckSucceeds, Receive
<1>4. CASE CheckFails(r)
  BY <1>4 DEF CheckFails, ReceiveFails
<1>5. CASE RecheckFails(r)
  BY <1>5 DEF RecheckFails, ReceiveFails
<1>6. CASE Wait(r)
  BY <1>6 DEF Wait
<1>7. CASE Relock(r)
  BY <1>7 DEF Relock, Acquire
<1>8. CASE Unlock(r)
  BY <1>8 DEF Unlock
<1>9. CASE DestroyLock(r)
  BY <1>9 DEF DestroyLock, DestroyLocked, Acquire
<1>10. CASE DestroyUnlock(r)
  BY <1>10 DEF DestroyUnlock
<1>11. CASE WakeUnasked(r)
  BY <1>11 DEF WakeUnasked
<1>12. CASE Leave(r)
  BY <1>12 DEF Leave
<1> QED BY <1>1, <1>2, <1>3, <1>4, <1>5, <1>6, <1>7, <1>8, <1>9, <1>10, <1>11, <1>12 DEF ReceiveStep

\* A stutter changes nothing.
LEMMA StutterPreserves == IInv /\ UNCHANGED signalVars => IInv'
<1> SUFFICES ASSUME IInv, UNCHANGED signalVars  PROVE IInv'
  OBVIOUS
<1> USE DEF signalVars, IInv
<1>1. SignalTypeOK' /\ Roles' /\ LockHeld' /\ NoSignalBeforeWait'
  BY DEF SignalTypeOK, Roles, LockHeld, NoSignalBeforeWait
<1>2. UsersOK' /\ SenderLeaves'
  BY DEF UsersOK, SenderLeaves, Deletes
<1>3. ProbeHasOneSender' /\ NoLostWakeup'
  BY DEF ProbeHasOneSender, NoLostWakeup
<1> QED BY <1>1, <1>2, <1>3

\* The call of a receive method.
LEMMA BeginPreserves ==
  ASSUME IInv, NEW r \in Receivers,
         NEW k \in {"nonblocking", "timed", "blocking"}, Begin(r, k)
  PROVE  IInv'
<1> USE SignalAssumption DEF IInv, Begin, SignalGoto, SignalThreads
<1>0. at \in [SignalThreads -> PCs] /\ r \in SignalThreads /\ ~(r \in Senders)
  BY DEF SignalTypeOK
<1>1. SignalTypeOK'
  BY <1>0 DEF SignalTypeOK, PCs
<1>2. Roles' /\ LockHeld' /\ NoSignalBeforeWait'
  BY <1>0 DEF Roles, LockHeld, NoSignalBeforeWait, SendPCs, LockedPCs
<1>3. UsersOK'
  BY <1>0 DEF UsersOK, Deletes
<1>4. SenderLeaves'
  BY <1>0 DEF SenderLeaves, Deletes, Received
<1>5. ProbeHasOneSender' /\ NoLostWakeup'
  BY <1>0 DEF ProbeHasOneSender, NoLostWakeup
<1> QED BY <1>1, <1>2, <1>3, <1>4, <1>5

\* Every step preserves the invariant: of a sender, of a receiver, or none.
LEMMA StepPreserves == IInv /\ [SignalNext]_signalVars => IInv'
<1> SUFFICES ASSUME IInv, [SignalNext]_signalVars  PROVE IInv'
  OBVIOUS
<1>1. ASSUME NEW s \in Senders, SendBegin(s) \/ SendStep(s)  PROVE IInv'
  BY <1>1, SenderPreserves
<1>2. ASSUME NEW r \in Receivers,
             NEW k \in {"nonblocking", "timed", "blocking"}, Begin(r, k)
      PROVE  IInv'
  BY <1>2, BeginPreserves
<1>3. ASSUME NEW r \in Receivers, ReceiveStep(r) \/ WakeUnasked(r) \/ Leave(r)
      PROVE  IInv'
  BY <1>3, ReceiverPreserves
<1>4. CASE UNCHANGED signalVars
  BY <1>4, StutterPreserves
<1> QED BY <1>1, <1>2, <1>3, <1>4 DEF SignalNext, Gone

\* The strengthened invariant, which the others follow from.
THEOREM Invariance == SignalSystem => []IInv
<1> QED BY InitInvariant, StepPreserves, PTL DEF SignalSystem

-----------------------------------------------------------------------------
\* The state, the mutex, the wait set and the threads stay in their ranges.
THEOREM TypeCorrect == SignalSystem => []SignalTypeOK
<1>1. IInv => SignalTypeOK
  BY DEF IInv
<1> QED BY <1>1, Invariance, PTL

\* A sender that finds PROBE can leave: exactly one other is on its way to set
\* SIGNALED, and its assertion holds.
THEOREM ProbeIsUnique == SignalSystem => []ProbeHasOneSender
<1>1. IInv => ProbeHasOneSender
  BY DEF IInv
<1> QED BY <1>1, Invariance, PTL

\* No receiver sleeps on a signal that is there unless somebody who has been told
\* of it, or is about to tell, is awake.
THEOREM WakeupsArrive == SignalSystem => []NoLostWakeup
<1>1. IInv => NoLostWakeup
  BY DEF IInv
<1> QED BY <1>1, Invariance, PTL

\* ~Signal() returns only after the sender has left Send().
THEOREM DeletionIsSafe == SignalSystem => []NoUseAfterDelete
<1>1. IInv => NoUseAfterDelete
  <2> SUFFICES ASSUME IInv, deleted, NEW t \in SignalThreads
               PROVE  at[t] \in {"outside", "finished"}
    BY DEF NoUseAfterDelete
  <2>1. PICK d \in Receivers : at[d] = "finished"
    BY DEF IInv, SenderLeaves
  <2>2. Deletes /\ d \in users
    BY <2>1, SignalAssumption DEF IInv, SenderLeaves, UsersOK, SignalThreads
  <2>3. PICK s \in Senders, r \in Receivers : users = {s, r}
    BY <2>2 DEF IInv, UsersOK
  <2>4. d = r /\ at[s] = "finished"
    BY <2>1, <2>2, <2>3, SignalAssumption DEF IInv, SenderLeaves
  <2>5. CASE t \in users
    BY <2>1, <2>3, <2>4, <2>5
  <2>6. CASE t \notin users
    BY <2>6 DEF IInv, UsersOK
  <2> QED BY <2>5, <2>6
<1> QED BY <1>1, Invariance, PTL
-----------------------------------------------------------------------------
(* The refinement: a step of the code is one of the abstract flag, or none. *)

\* What SignalSpec sees of the state, and of a receiver.
FlagOf(state) == CASE state = "EMPTY" -> "none"
                   [] state = "PROBE" -> "coming"
                   [] state = "SIGNALED" -> "there"
CallOf(label, k) ==
    CASE label \in {"outside", "unlock_failed"} -> "outside"
      [] label \in {"unlock_received", "received", "finished", "destroy_unlock"} -> "received"
      [] OTHER -> k

Flag == FlagOf(signalState)
Calls == [r \in Receivers |-> CallOf(at[r], kind[r])]
Simulated == [AbstractSignal!Next]_(AbstractSignal!vars)

\* An abstract step, in terms of these two.
LEMMA AbstractSteps ==
  /\ Flag' = Flag /\ Calls' = Calls => Simulated
  /\ Flag = "none" /\ Flag' = "coming" /\ Calls' = Calls => Simulated
  /\ Flag = "coming" /\ Flag' = "there" /\ Calls' = Calls => Simulated
  /\ \A r \in Receivers, k \in AbstractSignal!Kinds :
        Calls[r] = "outside" /\ Calls' = [Calls EXCEPT ![r] = k] /\ Flag' = Flag => Simulated
  /\ \A r \in Receivers :
        Calls[r] \in AbstractSignal!Kinds /\ Calls' = [Calls EXCEPT ![r] = "received"]
        /\ Flag = "there" /\ Flag' = "none" => Simulated
  /\ \A r \in Receivers :
        ((Calls[r] = "nonblocking" /\ Flag # "there") \/ Calls[r] = "timed")
        /\ Calls' = [Calls EXCEPT ![r] = "outside"] /\ Flag' = Flag => Simulated
  /\ \A r \in Receivers :
        Calls[r] = "received" /\ Calls' = [Calls EXCEPT ![r] = "outside"] /\ Flag' = Flag
           => Simulated
<1> USE DEF Simulated, Flag, FlagOf, Calls, CallOf, AbstractSignal!vars, AbstractSignal!Next
<1>1. Flag' = Flag /\ Calls' = Calls => Simulated
  OBVIOUS
<1>2. Flag = "none" /\ Flag' = "coming" /\ Calls' = Calls => Simulated
  BY DEF AbstractSignal!Announce
<1>3. Flag = "coming" /\ Flag' = "there" /\ Calls' = Calls => Simulated
  BY DEF AbstractSignal!Arrive
<1>4. ASSUME NEW r \in Receivers, NEW k \in AbstractSignal!Kinds,
             Calls[r] = "outside", Calls' = [Calls EXCEPT ![r] = k], Flag' = Flag
      PROVE  Simulated
  <2>1. AbstractSignal!Begin(r, k)
    BY <1>4 DEF AbstractSignal!Begin
  <2> HIDE DEF Flag, FlagOf, Calls, CallOf
  <2>2. AbstractSignal!Next
    BY <2>1
  <2> QED BY <2>2
<1>5. ASSUME NEW r \in Receivers, Calls[r] \in AbstractSignal!Kinds,
             Calls' = [Calls EXCEPT ![r] = "received"], Flag = "there", Flag' = "none"
      PROVE  Simulated
  <2>1. AbstractSignal!Take(r)
    BY <1>5 DEF AbstractSignal!Take
  <2> QED BY <2>1
<1>6. ASSUME NEW r \in Receivers,
             (Calls[r] = "nonblocking" /\ Flag # "there") \/ Calls[r] = "timed",
             Calls' = [Calls EXCEPT ![r] = "outside"], Flag' = Flag
      PROVE  Simulated
  <2>1. AbstractSignal!Fail(r)
    BY <1>6 DEF AbstractSignal!Fail
  <2> QED BY <2>1
<1>7. ASSUME NEW r \in Receivers, Calls[r] = "received",
             Calls' = [Calls EXCEPT ![r] = "outside"], Flag' = Flag
      PROVE  Simulated
  <2>1. AbstractSignal!Return(r)
    BY <1>7 DEF AbstractSignal!Return
  <2> QED BY <2>1
<1> HIDE DEF Simulated, Flag, Calls
<1> QED BY <1>1, <1>2, <1>3, <1>4, <1>5, <1>6, <1>7

\* The step of one receiver, or of none.
LEMMA OneCall ==
  ASSUME NEW r \in Receivers,
         \A q \in Receivers : q # r => at'[q] = at[q] /\ kind'[q] = kind[q]
  PROVE  /\ Calls' = [Calls EXCEPT ![r] = CallOf(at'[r], kind'[r])]
         /\ Calls[r] = CallOf(at[r], kind[r])
         /\ CallOf(at'[r], kind'[r]) = CallOf(at[r], kind[r]) => Calls' = Calls
  BY DEF Calls

\* A step in which no receiver moves.
LEMMA NoCall ==
  (\A q \in Receivers : at'[q] = at[q] /\ kind'[q] = kind[q]) => Calls' = Calls
  BY DEF Calls

\* The state and the calls take three values each.
LEMMA FlagsDiffer ==
  /\ FlagOf("EMPTY") = "none" /\ FlagOf("PROBE") = "coming" /\ FlagOf("SIGNALED") = "there"
  /\ \A k : /\ \A l \in {"outside", "unlock_failed"} : CallOf(l, k) = "outside"
            /\ \A l \in {"unlock_received", "received", "finished", "destroy_unlock"} :
                  CallOf(l, k) = "received"
            /\ \A l \in {"try", "lock", "check", "recheck", "wait", "waiting", "relock"} :
                  CallOf(l, k) = k
  BY DEF FlagOf, CallOf

\* A send raises the flag, and the rest of it is not seen.
LEMMA SenderSimulates ==
  ASSUME IInv, NEW s \in Senders, SendBegin(s) \/ SendStep(s)
  PROVE  Simulated
<1> USE DEF IInv, SignalTypeOK, SignalGoto, SignalThreads
<1>0. at \in [SignalThreads -> PCs] /\ s \in SignalThreads /\ s \notin Receivers
  BY SignalAssumption
<1>1. CASE SendBegin(s)
  <2>1. Calls' = Calls
    BY <1>0, <1>1, NoCall DEF SendBegin, Probe
  <2>2. \/ signalState' = signalState
        \/ signalState = "EMPTY" /\ signalState' = "PROBE"
    BY <1>1 DEF SendBegin, Probe
  <2>3. \/ Flag' = Flag
        \/ Flag = "none" /\ Flag' = "coming"
    BY <2>2, FlagsDiffer DEF Flag
  <2> QED BY <2>1, <2>3, AbstractSteps
<1>2. CASE SendSet(s)
  <2>1. Calls' = Calls
    BY <1>0, <1>2, NoCall DEF SendSet
  <2>2. signalState = "PROBE" /\ signalState' = "SIGNALED"
    BY <1>2 DEF SendSet, ProbeHasOneSender
  <2> QED BY <2>1, <2>2, FlagsDiffer, AbstractSteps DEF Flag
<1>3. CASE SendLock(s) \/ SendUnlock(s)
  <2>1. Calls' = Calls /\ Flag' = Flag
    BY <1>0, <1>3, NoCall DEF SendLock, SendUnlock, Acquire, Flag
  <2> QED BY <2>1, AbstractSteps
<1>4. CASE SendNotify(s)
  <2>1. CASE at' = [at EXCEPT ![s] = "send_unlock"]
    <3>1. Calls' = Calls /\ Flag' = Flag
      BY <1>0, <1>4, <2>1, NoCall DEF SendNotify, Flag
    <3> QED BY <3>1, AbstractSteps
  <2>2. ASSUME NEW r \in myCond, at' = [at EXCEPT ![r] = "relock", ![s] = "send_unlock"]
        PROVE  Simulated
    <3>1. r \in Receivers /\ r \in SignalThreads /\ r # s /\ at[r] = "waiting"
      BY <1>0 DEF LockHeld
    <3>2. at'[r] = "relock" /\ \A q \in Receivers : q # r => at'[q] = at[q]
      BY <1>0, <2>2, <3>1
    <3>3. kind' = kind /\ Flag' = Flag
      BY <1>4 DEF SendNotify, Flag
    <3>4. Calls' = Calls
      BY <3>1, <3>2, <3>3, OneCall, FlagsDiffer
    <3> QED BY <3>3, <3>4, AbstractSteps
  <2> QED BY <1>4, <2>1, <2>2 DEF SendNotify
<1> QED BY <1>1, <1>2, <1>3, <1>4 DEF SendStep

\* A receive takes the flag, fails or goes on.
LEMMA ReceiverSimulates ==
  ASSUME IInv, NEW r \in Receivers, ReceiveStep(r) \/ WakeUnasked(r) \/ Leave(r)
  PROVE  Simulated
<1>0. /\ at \in [SignalThreads -> PCs] /\ r \in SignalThreads /\ Receivers \subseteq SignalThreads
      /\ kind[r] \in {"nonblocking", "timed", "blocking"}
      /\ r \in myCond => at[r] = "waiting"
      /\ at[r] = "recheck" => kind[r] = "timed"
      /\ signalState \in {"EMPTY", "PROBE", "SIGNALED"}
  BY DEF IInv, SignalTypeOK, SignalThreads, LockHeld, Roles
<1>1. ASSUME NEW l \in PCs, at' = [at EXCEPT ![r] = l], kind' = kind
      PROVE  /\ Calls' = [Calls EXCEPT ![r] = CallOf(l, kind[r])]
             /\ Calls[r] = CallOf(at[r], kind[r])
             /\ CallOf(l, kind[r]) = CallOf(at[r], kind[r]) => Calls' = Calls
  <2>1. /\ at'[r] = l /\ kind'[r] = kind[r]
        /\ \A q \in Receivers : q # r => at'[q] = at[q] /\ kind'[q] = kind[q]
    BY <1>0, <1>1
  <2>2. /\ Calls' = [Calls EXCEPT ![r] = CallOf(at'[r], kind'[r])]
        /\ Calls[r] = CallOf(at[r], kind[r])
        /\ CallOf(at'[r], kind'[r]) = CallOf(at[r], kind[r]) => Calls' = Calls
    BY <2>1, OneCall
  <2> QED BY <2>1, <2>2
<1>2. \* A step that is not seen.
      ASSUME NEW l \in PCs, at' = [at EXCEPT ![r] = l], kind' = kind, signalState' = signalState,
             CallOf(l, kind[r]) = CallOf(at[r], kind[r])
      PROVE  Simulated
  <2>1. Calls' = Calls /\ Flag' = Flag
    BY <1>1, <1>2 DEF Flag
  <2> QED BY <2>1, AbstractSteps
<1>3. \* A step that takes the signal.
      ASSUME NEW l \in {"received", "unlock_received"}, at' = [at EXCEPT ![r] = l],
             kind' = kind, Receive, at[r] \in {"try", "check", "recheck"}
      PROVE  Simulated
  <2>1. l \in PCs
    BY DEF PCs, LockedPCs
  <2>2. Calls' = [Calls EXCEPT ![r] = "received"] /\ Calls[r] = kind[r]
    <3>1. CallOf(l, kind[r]) = "received" /\ CallOf(at[r], kind[r]) = kind[r]
      BY <1>3, FlagsDiffer
    <3> QED BY <1>1, <1>3, <2>1, <3>1
  <2>3. Flag = "there" /\ Flag' = "none"
    BY <1>3, FlagsDiffer DEF Receive, Flag
  <2>4. Calls[r] \in AbstractSignal!Kinds
    BY <1>0, <2>2 DEF AbstractSignal!Kinds
  <2> QED BY <2>2, <2>3, <2>4, AbstractSteps
<1>4. \* A step that fails.
      ASSUME NEW l \in {"outside", "unlock_failed"}, at' = [at EXCEPT ![r] = l], kind' = kind,
             ReceiveFails, at[r] \in {"try", "recheck"}, kind[r] \in {"nonblocking", "timed"}
      PROVE  Simulated
  <2>1. l \in PCs
    BY DEF PCs, LockedPCs
  <2>2. Calls' = [Calls EXCEPT ![r] = "outside"] /\ Calls[r] = kind[r]
    <3>1. CallOf(l, kind[r]) = "outside" /\ CallOf(at[r], kind[r]) = kind[r]
      BY <1>4, FlagsDiffer
    <3> QED BY <1>1, <1>4, <2>1, <3>1
  <2>3. Flag' = Flag /\ Flag # "there"
    BY <1>0, <1>4 DEF ReceiveFails, Flag, FlagOf
  <2> QED BY <1>4, <2>2, <2>3, AbstractSteps
<1>5. CASE Try(r)
  <2>1. /\ at[r] = "try" /\ kind' = kind
        /\ \/ Receive /\ at' = [at EXCEPT ![r] = "received"]
           \/ ReceiveFails /\ kind[r] = "nonblocking" /\ at' = [at EXCEPT ![r] = "outside"]
           \/ ReceiveFails /\ at' = [at EXCEPT ![r] = "lock"]
    BY <1>5 DEF Try, SignalGoto
  <2>2. CASE Receive /\ at' = [at EXCEPT ![r] = "received"]
    BY <1>3, <2>1, <2>2
  <2>3. CASE ReceiveFails /\ kind[r] = "nonblocking" /\ at' = [at EXCEPT ![r] = "outside"]
    BY <1>4, <2>1, <2>3
  <2>4. CASE ReceiveFails /\ at' = [at EXCEPT ![r] = "lock"]
    <3>1. CallOf("try", kind[r]) = CallOf("lock", kind[r]) /\ "lock" \in PCs
      BY FlagsDiffer DEF PCs
    <3>2. signalState' = signalState
      BY <2>4 DEF ReceiveFails
    <3> QED BY <1>2, <2>1, <2>4, <3>1, <3>2
  <2> QED BY <2>1, <2>2, <2>3, <2>4
<1>6. CASE CheckSucceeds(r)
  <2>1. /\ at[r] \in {"check", "recheck"} /\ at' = [at EXCEPT ![r] = "unlock_received"]
        /\ kind' = kind /\ Receive
    BY <1>6 DEF CheckSucceeds, SignalGoto
  <2> QED BY <1>3, <2>1
<1>7. CASE RecheckFails(r)
  <2>1. /\ at[r] = "recheck" /\ at' = [at EXCEPT ![r] = "unlock_failed"]
        /\ kind' = kind /\ ReceiveFails
    BY <1>7 DEF RecheckFails, SignalGoto
  <2>2. kind[r] = "timed"
    BY <2>1, <1>0
  <2> QED BY <1>4, <2>1, <2>2
<1>8. CASE Lock(r)
  <2>1. /\ at[r] = "lock" /\ at' = [at EXCEPT ![r] = "check"]
        /\ kind' = kind /\ signalState' = signalState
    BY <1>0, <1>8 DEF Lock, SignalGoto
  <2>2. CallOf("lock", kind[r]) = CallOf("check", kind[r]) /\ "check" \in PCs
    BY FlagsDiffer DEF PCs, LockedPCs
  <2> QED BY <1>2, <2>1, <2>2
<1>9. CASE CheckFails(r)
  <2>1. /\ at[r] = "check" /\ at' = [at EXCEPT ![r] = "wait"]
        /\ kind' = kind /\ signalState' = signalState
    BY <1>0, <1>9 DEF CheckFails, ReceiveFails, SignalGoto
  <2>2. CallOf("check", kind[r]) = CallOf("wait", kind[r]) /\ "wait" \in PCs
    BY FlagsDiffer DEF PCs, LockedPCs
  <2> QED BY <1>2, <2>1, <2>2
<1>10. CASE Wait(r)
  <2>1. /\ at[r] = "wait" /\ at' = [at EXCEPT ![r] = "waiting"]
        /\ kind' = kind /\ signalState' = signalState
    BY <1>0, <1>10 DEF Wait, SignalGoto
  <2>2. CallOf("wait", kind[r]) = CallOf("waiting", kind[r]) /\ "waiting" \in PCs
    BY FlagsDiffer DEF PCs, LockedPCs
  <2> QED BY <1>2, <2>1, <2>2
<1>11. CASE Relock(r)
  <2>1. PICK l \in {"check", "recheck"} : at' = [at EXCEPT ![r] = l]
    BY <1>11 DEF Relock, SignalGoto
  <2>2. at[r] = "relock" /\ kind' = kind /\ signalState' = signalState
    BY <1>11 DEF Relock
  <2>3. CallOf("relock", kind[r]) = CallOf(l, kind[r]) /\ l \in PCs
    BY FlagsDiffer DEF PCs, LockedPCs
  <2> QED BY <1>2, <2>1, <2>2, <2>3
<1>12. CASE WakeUnasked(r)
  <2>1. /\ at[r] = "waiting" /\ at' = [at EXCEPT ![r] = "relock"]
        /\ kind' = kind /\ signalState' = signalState
    BY <1>0, <1>12 DEF WakeUnasked, SignalGoto
  <2>2. CallOf("waiting", kind[r]) = CallOf("relock", kind[r]) /\ "relock" \in PCs
    BY FlagsDiffer DEF PCs, LockedPCs
  <2> QED BY <1>2, <2>1, <2>2
<1>13. CASE Unlock(r)
  <2>1. kind' = kind /\ signalState' = signalState
    BY <1>13 DEF Unlock
  <2>2. CASE at[r] = "unlock_received"
    <3>1. at' = [at EXCEPT ![r] = "received"]
      BY <1>13, <2>2 DEF Unlock, SignalGoto
    <3>2. CallOf("unlock_received", kind[r]) = CallOf("received", kind[r]) /\ "received" \in PCs
      BY FlagsDiffer DEF PCs
    <3> QED BY <1>2, <2>1, <2>2, <3>1, <3>2
  <2>3. CASE at[r] = "unlock_failed"
    <3>1. at' = [at EXCEPT ![r] = "outside"]
      BY <1>13, <2>3 DEF Unlock, SignalGoto
    <3>2. CallOf("unlock_failed", kind[r]) = CallOf("outside", kind[r]) /\ "outside" \in PCs
      BY FlagsDiffer DEF PCs
    <3> QED BY <1>2, <2>1, <2>3, <3>1, <3>2
  <2> QED BY <1>13, <2>2, <2>3 DEF Unlock
<1>14. CASE DestroyLock(r)
  <2>1. /\ at[r] = "received" /\ at' = [at EXCEPT ![r] = "destroy_unlock"]
        /\ kind' = kind /\ signalState' = signalState
    BY <1>0, <1>14 DEF DestroyLock, DestroyLocked, SignalGoto
  <2>2. CallOf("received", kind[r]) = CallOf("destroy_unlock", kind[r]) /\ "destroy_unlock" \in PCs
    BY FlagsDiffer DEF PCs, LockedPCs
  <2> QED BY <1>2, <2>1, <2>2
<1>15. CASE DestroyUnlock(r)
  <2>1. /\ at[r] = "destroy_unlock" /\ at' = [at EXCEPT ![r] = "finished"]
        /\ kind' = kind /\ signalState' = signalState
    BY <1>0, <1>15 DEF DestroyUnlock, SignalGoto
  <2>2. CallOf("destroy_unlock", kind[r]) = CallOf("finished", kind[r]) /\ "finished" \in PCs
    BY FlagsDiffer DEF PCs, LockedPCs
  <2> QED BY <1>2, <2>1, <2>2
<1>16. CASE Leave(r)
  <2>1. at[r] = "received" /\ at' = [at EXCEPT ![r] = "outside"] /\ kind' = kind
        /\ Flag' = Flag /\ "outside" \in PCs
    BY <1>16 DEF Leave, Flag, PCs, SignalGoto
  <2>2. Calls[r] = "received" /\ Calls' = [Calls EXCEPT ![r] = "outside"]
    <3>1. CallOf("outside", kind[r]) = "outside" /\ CallOf("received", kind[r]) = "received"
      BY FlagsDiffer
    <3> QED BY <1>1, <2>1, <3>1
  <2> QED BY <2>1, <2>2, AbstractSteps
<1> QED BY <1>5, <1>6, <1>7, <1>8, <1>9, <1>10, <1>11, <1>12, <1>13, <1>14, <1>15, <1>16
        DEF ReceiveStep

\* A receive begins.
LEMMA BeginSimulates ==
  ASSUME IInv, NEW r \in Receivers,
         NEW k \in {"nonblocking", "timed", "blocking"}, Begin(r, k)
  PROVE  Simulated
<1>1. at[r] = "outside" /\ at'[r] = "try" /\ kind'[r] = k
      /\ \A q \in Receivers : q # r => at'[q] = at[q] /\ kind'[q] = kind[q]
  BY DEF IInv, SignalTypeOK, SignalThreads, Begin, SignalGoto
<1>2. Calls[r] = "outside" /\ Calls' = [Calls EXCEPT ![r] = k]
  BY <1>1, OneCall, FlagsDiffer
<1>3. Flag' = Flag /\ k \in AbstractSignal!Kinds
  BY DEF Begin, Flag, AbstractSignal!Kinds
<1> QED BY <1>2, <1>3, AbstractSteps

\* Signal.h's promise, with the mutex and the condition variable left out: Send()
\* raises a flag, and one receiver gets it.  (The run checks the fairness too.)
THEOREM Implements ==
  SignalSystem => AbstractSignal!Init /\ [][AbstractSignal!Next]_(AbstractSignal!vars)
<1>1. SignalInit => AbstractSignal!Init
  <2> SUFFICES ASSUME SignalInit PROVE AbstractSignal!Init
    OBVIOUS
  <2>1. \A r \in Receivers : at[r] = "outside"
    BY DEF SignalInit, SignalThreads
  <2> QED BY <2>1 DEF SignalInit, AbstractSignal!Init
<1>2. IInv /\ [SignalNext]_signalVars => [AbstractSignal!Next]_(AbstractSignal!vars)
  <2> SUFFICES ASSUME IInv, [SignalNext]_signalVars PROVE Simulated
    BY DEF Simulated
  <2>1. ASSUME NEW s \in Senders, SendBegin(s) \/ SendStep(s) PROVE Simulated
    BY <2>1, SenderSimulates
  <2>2. ASSUME NEW r \in Receivers,
               NEW k \in {"nonblocking", "timed", "blocking"}, Begin(r, k)
        PROVE  Simulated
    BY <2>2, BeginSimulates
  <2>3. ASSUME NEW r \in Receivers, ReceiveStep(r) \/ WakeUnasked(r) \/ Leave(r)
        PROVE  Simulated
    BY <2>3, ReceiverSimulates
  <2>4. CASE UNCHANGED signalVars
    <3>1. Flag' = Flag /\ Calls' = Calls
      BY <2>4 DEF signalVars, Flag, Calls
    <3> QED BY <3>1, AbstractSteps
  <2> QED BY <2>1, <2>2, <2>3, <2>4 DEF SignalNext, Gone
<1> QED BY <1>1, <1>2, Invariance, PTL DEF SignalSystem
=============================================================================
