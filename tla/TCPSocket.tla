------------------------------ MODULE TCPSocket ------------------------------
(***************************************************************************)
(* TCPSocketIFace with its two children, TCPSocket and SSLSocket, and the  *)
(* control messages of TCPSocketCtl (src/mg/aio).  Any thread posts data,  *)
(* a receive, a wakeup, a shutdown or a close, under the socket's mutex or *)
(* with an atomic; the worker that executes the socket's task collects all *)
(* this, drives the connection and does the I/O.                           *)
(*                                                                         *)
(* The task is what IOTaskSpec promises of it.  Data is counted: one unit  *)
(* for a PostSend() or a PostRecv().  The outcome of a system call, of a   *)
(* name resolution (see DomainToIP) and of OpenSSL is any of those that    *)
(* the code tells apart.                                                   *)
(***************************************************************************)
EXTENDS Naturals

CONSTANTS
    Callers,    \* threads that use the socket
    Uses        \* records, how the socket is used: kind, starts, shutdowns, data
                \* (units that are sent, and receives, in a life) and lives

VARIABLES
    use,
    sock,       \* what myMutex protects: state, flags, subscription
    front,      \* myFrontCtl, myFrontSendQueue, myFrontRecvSize
    inner,      \* the same inside of the worker, and the two I/O events
    ioTask,
    worker,     \* where OnEvent() is; "aborted": an assertion of it has failed
    caller,     \* a call that is about to wake the task
    seen        \* what the subscription has been told in this life

socketVars == <<use, sock, front, inner, ioTask, worker, caller, seen>>

NoCtl == [is |-> FALSE, connect |-> "none", attach |-> FALSE, given |-> FALSE,
          handshake |-> FALSE, shutdown |-> FALSE]
NewCtl == [NoCtl EXCEPT !.is = TRUE]
NewInner == [ctl |-> NoCtl, send |-> 0, recv |-> 0, encrypted |-> 0,
             sendEvent |-> "off", recvEvent |-> "off"]
NothingSeen == [connects |-> 0, errors |-> 0, closes |-> 0, early |-> FALSE]

SocketInit ==
    /\ use \in Uses
    /\ sock = [state |-> "NEW", done |-> FALSE, running |-> FALSE, ready |-> FALSE,
               owned |-> TRUE, lives |-> 0, sent |-> 0, asked |-> 0]
    /\ front = [ctl |-> NoCtl, send |-> 0, recv |-> 0]
    /\ inner = NewInner
    /\ ioTask = [phase |-> "new", woken |-> FALSE, again |-> FALSE, closing |-> FALSE,
                 socket |-> FALSE]
    /\ worker = "idle"
    /\ caller = [c \in Callers |-> "idle"]
    /\ seen = NothingSeen

ClosingStates == {"CLOSING", "CLOSED"}
Woken(t) == IF t.closing THEN t ELSE [t EXCEPT !.woken = TRUE]
Cancelled(t) == [t EXCEPT !.closing = TRUE]
Again(t) == [t EXCEPT !.again = TRUE]

-----------------------------------------------------------------------------
(* The calls from any thread.                                               *)

\* The owner opens the socket when it is new, in OnClose() or after it.
MayOpen == /\ sock.owned
           /\ \/ sock.state = "NEW"
              \/ sock.state = "CLOSED" /\ worker \in {"onclose", "idle"}

\* ProtOpen(), and the handshake that SSLSocket::Open() adds.
Open ==
    /\ MayOpen /\ ~sock.ready /\ sock.lives < use.lives
    /\ sock' = [sock EXCEPT !.ready = TRUE]
    /\ front' = IF use.kind = "ssl" THEN [front EXCEPT !.ctl = [NewCtl EXCEPT !.given = TRUE]]
                ELSE front
    /\ UNCHANGED <<use, inner, ioTask, worker, caller, seen>>

\* What PostConnect(), PostWrap() and PostTask() have in common.
Posted(state, t) ==
    /\ MayOpen /\ sock.ready
    /\ sock' = [sock EXCEPT !.ready = FALSE, !.running = TRUE, !.state = state,
                            !.lives = @ + 1, !.sent = front.send, !.asked = front.recv]
    /\ ioTask' = [t EXCEPT !.phase = "posted", !.closing = FALSE, !.socket = FALSE]
    /\ seen' = NothingSeen
    /\ worker' = "idle"
    /\ UNCHANGED <<use, inner, caller>>

\* AddConnect(): to an address or to a name, at once or after a delay.
Added(ctl) == [ctl EXCEPT !.is = TRUE]
ConnectStages == {"delayed", "resolve", "start"}

PostConnect ==
    /\ "connect" \in use.starts
    /\ \E stage \in ConnectStages :
          front' = [front EXCEPT !.ctl = [Added(@) EXCEPT !.connect = stage]]
    /\ Posted("CONNECTING", Woken([ioTask EXCEPT !.closing = FALSE]))

PostWrap ==
    /\ "wrap" \in use.starts
    /\ front' = [front EXCEPT !.ctl = [Added(@) EXCEPT !.attach = TRUE]]
    /\ Posted("CONNECTING", Woken([ioTask EXCEPT !.closing = FALSE]))

PostTask ==
    /\ "task" \in use.starts
    /\ front' = front
    /\ Posted("EMPTY", ioTask)

\* Only the push into an empty queue wakes the task up, after the unlock.
PostSendMove(c) ==
    /\ caller[c] = "idle" /\ sock.owned /\ sock.sent < use.data
    /\ front' = [front EXCEPT !.send = @ + 1]
    /\ sock' = [sock EXCEPT !.sent = @ + 1]
    /\ caller' = [caller EXCEPT ![c] = IF front.send = 0 THEN "wake" ELSE "idle"]
    /\ UNCHANGED <<use, inner, ioTask, worker, seen>>

PostRecv(c) ==
    /\ caller[c] = "idle" /\ sock.owned /\ sock.asked < use.data
    /\ front' = [front EXCEPT !.recv = @ + 1]
    /\ sock' = [sock EXCEPT !.asked = @ + 1]
    /\ caller' = [caller EXCEPT ![c] = IF front.recv = 0 THEN "wake" ELSE "idle"]
    /\ UNCHANGED <<use, inner, ioTask, worker, seen>>

PostWakeup(c) ==
    /\ caller[c] = "idle" /\ sock.owned
    /\ caller' = [caller EXCEPT ![c] = "wake"]
    /\ UNCHANGED <<use, sock, front, inner, ioTask, worker, seen>>

Wakeup(c) ==
    /\ caller[c] = "wake"
    /\ ioTask' = Woken(ioTask)
    /\ caller' = [caller EXCEPT ![c] = "idle"]
    /\ UNCHANGED <<use, sock, front, inner, worker, seen>>

\* The close goes to the task once; a new socket is closed right away.
PostCloseOf(s, t) ==
    /\ sock' = [s EXCEPT !.state = IF @ \in ClosingStates THEN @
                                   ELSE IF @ = "NEW" THEN "CLOSED" ELSE "CLOSING"]
    /\ ioTask' = IF s.state \in ClosingStates \cup {"NEW"} THEN t ELSE Cancelled(t)

\* Also Delete(), which gives the owner's reference up.
PostClose(c) ==
    /\ caller[c] = "idle" /\ sock.owned
    /\ \E keep \in BOOLEAN : PostCloseOf([sock EXCEPT !.owned = keep], ioTask)
    /\ UNCHANGED <<use, front, inner, worker, caller, seen>>

\* Of a socket that has been posted, whether or not it has been given a connection
\* to shut down.
PostShutdown(c) ==
    /\ use.shutdowns
    /\ caller[c] = "idle" /\ sock.owned /\ sock.state \notin {"NEW"} \cup ClosingStates
    /\ front' = [front EXCEPT !.ctl = [Added(@) EXCEPT !.shutdown = TRUE]]
    /\ ioTask' = Woken(ioTask)
    /\ UNCHANGED <<use, sock, inner, worker, caller, seen>>

Call(c) == \/ PostSendMove(c) \/ PostRecv(c) \/ PostWakeup(c)
           \/ PostClose(c) \/ PostShutdown(c)

-----------------------------------------------------------------------------
(* OnEvent() in the worker.                                                 *)

Continue(pc) == worker' = pc

\* ProtClose() while the task is open, told to the subscription as an error
\* unless the socket is compromised: the subscription hears of one error.
Closed(error) ==
    /\ sock' = [sock EXCEPT !.state = "CLOSING"]
    /\ ioTask' = Cancelled(ioTask)
    /\ seen' = IF error /\ sock.state \notin ClosingStates
               THEN [seen EXCEPT !.errors = @ + 1] ELSE seen

\* The kernel, the resolver or a deadline may call.
Waiting == \/ "pending" \in {inner.sendEvent, inner.recvEvent}
           \/ inner.ctl.connect \in {"delayed", "resolving", "pending"}

\* An operation in the kernel has ended, or may just be tried again; a name is
\* resolved; a delay is over.
Ended(i, r, s, o) == [i EXCEPT !.recvEvent = IF @ = "pending" THEN r ELSE @,
                               !.sendEvent = IF @ = "pending" THEN s ELSE @,
                               !.ctl.connect = IF @ \in {"pending", "resolving"} THEN o ELSE @]

StartEvent ==
    /\ worker = "idle" /\ ioTask.phase = "posted" /\ ~ioTask.closing
    /\ ioTask.woken \/ ioTask.again \/ Waiting
    /\ ioTask' = [ioTask EXCEPT !.phase = "called", !.woken = FALSE, !.again = FALSE]
    /\ \E r \in {"pending", "empty", "data", "eof", "error"},
          s \in {"pending", "empty", "data", "error"},
          o \in {"retry", "ended"} :
          /\ (inner.recvEvent # "pending") => r = "pending"
          /\ (inner.sendEvent # "pending") => s = "pending"
          /\ (inner.ctl.connect \notin {"pending", "resolving"}) => o = "retry"
          /\ inner' = Ended(inner, r, s,
                 IF o = "retry" THEN inner.ctl.connect
                 ELSE IF inner.ctl.connect = "resolving" THEN "resolved" ELSE "ended")
    /\ Continue("event")
    /\ UNCHANGED <<use, sock, front, caller, seen>>

\* ProcessArgs() has found the socket broken.
ProcessArgsFails ==
    /\ worker = "event" /\ ioTask.socket
    /\ Closed(TRUE)
    /\ Continue("return")
    /\ UNCHANGED <<use, front, inner, caller>>

\* OnEvent() of the subscription: it sends, receives, connects or closes.
SendMove ==
    /\ inner.send < use.data
    /\ inner' = [inner EXCEPT !.send = @ + 1]
    /\ UNCHANGED <<sock, front, ioTask>>

Recv ==
    /\ inner.recv < use.data
    /\ inner' = [inner EXCEPT !.recv = @ + 1]
    /\ UNCHANGED <<sock, front, ioTask>>

\* AddConnect() wants to be "always the first ctl", and asserts that no shutdown has
\* been requested before it.
ConnectAborts == sock.state = "EMPTY" /\ front.ctl.shutdown

\* Connect() of a closing socket is ignored.
Connect ==
    /\ sock.state \in {"EMPTY", "CLOSING"}
    /\ ~ConnectAborts
    /\ IF sock.state = "EMPTY"
       THEN /\ sock' = [sock EXCEPT !.state = "CONNECTING"]
            /\ front' = [front EXCEPT !.ctl = [Added(@) EXCEPT !.connect = "start"]]
            /\ ioTask' = Again(ioTask)
       ELSE UNCHANGED <<sock, front, ioTask>>
    /\ inner' = inner

CloseInside == PostCloseOf(sock, ioTask) /\ UNCHANGED <<front, inner>>

OnEvent ==
    /\ worker = "event"
    /\ \/ /\ \/ SendMove \/ Recv \/ Connect \/ CloseInside
             \/ UNCHANGED <<sock, front, inner, ioTask>>
          /\ Continue("ctl")
       \/ /\ ConnectAborts
          /\ Continue("aborted")
          /\ UNCHANGED <<sock, front, inner, ioTask>>
    /\ UNCHANGED <<use, caller, seen>>

\* PrivCtl() takes the control message of the other threads: MergeFrom().
Merged(ctl, new) ==
    [is |-> TRUE, given |-> ctl.given \/ new.given, handshake |-> ctl.handshake,
     connect |-> IF new.connect = "none" THEN ctl.connect ELSE new.connect,
     attach |-> ctl.attach \/ new.attach, shutdown |-> ctl.shutdown \/ new.shutdown]

\* A mutant: without a control message the data is not looked at.
TakeCtlOnly ==
    /\ worker = "ctl"
    /\ IF front.ctl.is THEN /\ inner' = [inner EXCEPT !.ctl = Merged(@, front.ctl)]
                            /\ front' = [front EXCEPT !.ctl = NoCtl]
                       ELSE UNCHANGED <<inner, front>>
    /\ Continue(IF front.ctl.is \/ inner.ctl.is THEN "shutdown" ELSE "recv")
    /\ UNCHANGED <<use, sock, ioTask, caller, seen>>

TakeCtl ==
    /\ worker = "ctl"
    /\ IF front.ctl.is THEN /\ inner' = [inner EXCEPT !.ctl = Merged(@, front.ctl)]
                            /\ front' = [front EXCEPT !.ctl = NoCtl]
                       ELSE UNCHANGED <<inner, front>>
    /\ Continue(IF front.ctl.is \/ inner.ctl.is THEN "shutdown" ELSE "take")
    /\ UNCHANGED <<use, sock, ioTask, caller, seen>>

\* A shutdown waits for the connect; without a socket it is nothing.
DoShutdown ==
    /\ worker = "shutdown"
    /\ LET now == inner.ctl.shutdown /\ inner.ctl.connect = "none"
       IN  /\ inner' = [inner EXCEPT !.ctl.shutdown = @ /\ ~now]
           /\ \/ UNCHANGED <<sock, ioTask, seen>>
              \/ now /\ ioTask.socket /\ Closed(TRUE)
    /\ Continue("attach")
    /\ UNCHANGED <<use, front, caller>>

\* PrivEndConnect(): the request of the name is cancelled, its socket closed.
EndConnect(i) == [i EXCEPT !.ctl.connect = "none"]

\* PrivHandshakeStart() and PrivEnableIO().
HandshakeStart(i) ==
    /\ inner' = [i EXCEPT !.ctl.handshake = TRUE, !.sendEvent = "empty", !.recvEvent = "empty"]
    /\ sock' = [sock EXCEPT !.state = IF @ = "CONNECTING" THEN "HANDSHAKE" ELSE @]

DoAttach ==
    /\ worker = "attach"
    /\ IF inner.ctl.attach
       THEN /\ HandshakeStart([inner EXCEPT !.ctl.attach = FALSE])
            /\ ioTask' = [ioTask EXCEPT !.socket = TRUE]
       ELSE UNCHANGED <<inner, sock, ioTask>>
    /\ Continue("connect")
    /\ UNCHANGED <<use, front, caller, seen>>

\* PrivConnectAbort() after PrivEndConnect().
ConnectFails ==
    /\ Closed(TRUE)
    /\ inner' = EndConnect(inner)

\* The stages of DoConnect(): a delay, a name, the socket, its result.
DoConnect ==
    /\ worker = "connect" /\ inner.ctl.connect # "none"
    /\ LET stage == inner.ctl.connect
           ready == {"delayed", "resolved", "start"}
       IN  \/ /\ stage \in {"delayed", "resolving", "pending"}
              /\ UNCHANGED <<sock, inner, ioTask, seen>>
           \/ /\ stage \in {"delayed", "resolve"}
              /\ inner' = [inner EXCEPT !.ctl.connect = "resolving"]
              /\ UNCHANGED <<sock, ioTask, seen>>
           \/ /\ stage \in ready
              /\ inner' = [inner EXCEPT !.ctl.connect = "pending"]
              /\ ioTask' = [ioTask EXCEPT !.socket = TRUE]
              /\ UNCHANGED <<sock, seen>>
           \/ stage \in ready \cup {"ended"} /\ ConnectFails
           \/ /\ stage \in ready \cup {"ended"}
              /\ HandshakeStart(EndConnect(inner))
              /\ ioTask' = Again([ioTask EXCEPT !.socket = TRUE])
              /\ seen' = seen
    /\ Continue("handshake")
    /\ UNCHANGED <<use, front, caller>>

SkipConnect ==
    /\ worker = "connect" /\ inner.ctl.connect = "none"
    /\ Continue("handshake")
    /\ UNCHANGED <<use, sock, front, inner, ioTask, caller, seen>>

IsIdle(ctl) == ~ctl.shutdown /\ ctl.connect = "none" /\ ~ctl.attach
               /\ ~ctl.handshake /\ ~ctl.given
Kept(ctl) == IF IsIdle(ctl) THEN NoCtl ELSE ctl

EndHandshake(ctl) == [ctl EXCEPT !.handshake = FALSE, !.given = FALSE]

HandshakeCommit ==
    /\ inner' = [inner EXCEPT !.ctl = Kept(EndHandshake(@))]
    /\ sock' = [sock EXCEPT !.done = TRUE,
                   !.state = IF @ = "HANDSHAKE" THEN "CONNECTED" ELSE @]
    /\ ioTask' = Again(ioTask)
    /\ seen' = [seen EXCEPT !.connects = @ + 1]

\* PrivHandshake() of SSL has failed.
HandshakeFails == inner.ctl.given /\ Closed(TRUE) /\ inner' = inner

\* A plain socket has no handshake of its own; that of SSL ends, fails or goes on.
DoHandshake ==
    /\ worker = "handshake"
    /\ \/ inner.ctl.handshake /\ (HandshakeCommit \/ HandshakeFails)
       \/ /\ inner.ctl.handshake => inner.ctl.given
          /\ inner' = [inner EXCEPT !.ctl = Kept(@)]
          /\ UNCHANGED <<sock, ioTask, seen>>
    /\ Continue("take")
    /\ UNCHANGED <<use, front, caller>>

\* The data and the receives of the other threads.
TakeSend ==
    /\ worker = "take"
    /\ inner' = [inner EXCEPT !.send = @ + front.send]
    /\ front' = [front EXCEPT !.send = 0]
    /\ Continue("takerecv")
    /\ UNCHANGED <<use, sock, ioTask, caller, seen>>

TakeRecv ==
    /\ worker = "takerecv"
    /\ inner' = [inner EXCEPT !.recv = @ + front.recv]
    /\ front' = [front EXCEPT !.recv = 0]
    /\ Continue("recv")
    /\ UNCHANGED <<use, sock, ioTask, caller, seen>>

-----------------------------------------------------------------------------
(* PrivRecv() and PrivSend(): each consumes the result of an earlier        *)
(* operation, starts a new one, and consumes its result if it has one.      *)

IsResult(e) == e \in {"data", "eof", "error"}
Secure == use.kind = "ssl"
\* What PrivRecv() waits for: also without a request, while the handshake of SSL
\* has not been done.
MustRecv(i) == i.recv > 0 \/ (Secure /\ ~sock.done)

\* PrivRecvCommit(): data is handed over, unless it was the protocol's own.  The
\* subscription may ask for more.
CommitRecv ==
    /\ inner.recvEvent = "data"
    /\ \/ /\ \E more \in {0, 1} :
                inner' = [inner EXCEPT !.recvEvent = "empty", !.recv = more]
          /\ seen' = [seen EXCEPT !.early = @ \/ (seen.connects = 0 /\ ~Secure)]
       \/ Secure /\ inner' = [inner EXCEPT !.recvEvent = "empty"] /\ seen' = seen
    /\ ioTask' = IF MustRecv(inner') THEN Again(ioTask) ELSE ioTask
    /\ sock' = sock

\* The end of the stream, and PrivRecvAbort() (or what cannot be decrypted).
EndRecv ==
    \/ /\ inner.recvEvent = "eof"
       /\ inner' = [inner EXCEPT !.recvEvent = "empty"]
       /\ Closed(FALSE)
    \/ /\ inner.recvEvent = "error" \/ (Secure /\ inner.recvEvent = "data")
       /\ inner' = [inner EXCEPT !.recvEvent = "off"]
       /\ Closed(TRUE)

ConsumeRecv ==
    /\ worker \in {"recv", "received"} /\ IsResult(inner.recvEvent)
    /\ CommitRecv \/ EndRecv
    /\ Continue(IF worker = "recv" /\ inner'.recvEvent = "empty" THEN "startrecv" ELSE "send")
    /\ UNCHANGED <<use, front, caller>>

\* Nothing to receive, or the operation that was started is on its way.
StartRecv ==
    /\ \/ worker = "startrecv"
       \/ worker = "recv" /\ ~IsResult(inner.recvEvent)
    /\ IF inner.recvEvent = "empty" /\ MustRecv(inner)
       THEN \E e \in {"pending", "data", "eof", "error"} :
               /\ inner' = [inner EXCEPT !.recvEvent = e]
               /\ Continue(IF e = "pending" THEN "send" ELSE "received")
       ELSE inner' = inner /\ Continue("send")
    /\ UNCHANGED <<use, sock, front, ioTask, caller, seen>>

Output(i) == IF Secure THEN i.encrypted ELSE i.send

\* PrivSendCommit(): TCP reports what has been sent, SSL has done so before.
CommitSend(i) == [i EXCEPT !.sendEvent = "empty",
                           !.send = IF Secure THEN @ ELSE @ - 1,
                           !.encrypted = IF Secure THEN @ - 1 ELSE @]

\* Also PrivSendAbort().
ConsumeSend ==
    /\ worker \in {"send", "sent"} /\ IsResult(inner.sendEvent)
    /\ \/ /\ inner.sendEvent = "data"
          /\ inner' = CommitSend(inner)
          /\ seen' = [seen EXCEPT !.early = @ \/ (seen.connects = 0 /\ ~Secure)]
          /\ ioTask' = IF worker = "sent" /\ inner'.send + inner'.encrypted > 0
                       THEN Again(ioTask) ELSE ioTask
          /\ sock' = sock
       \/ /\ inner.sendEvent = "error"
          /\ inner' = [inner EXCEPT !.sendEvent = "off"]
          /\ Closed(TRUE)
    /\ Continue(IF worker = "send" /\ inner'.sendEvent = "empty" THEN "startsend" ELSE "return")
    /\ UNCHANGED <<use, front, caller>>

\* A mutant: the data is reported as sent although nobody was told of a connect.
PopulateEarly(i) == {[i EXCEPT !.encrypted = @ + i.send, !.send = 0]}

\* PrivCipherPopulate() gives the data to SSL, which reports it at once, unless
\* the handshake goes on or too much waits already; SSL has records of its own.
Populate(i) ==
    IF i.encrypted > 0 THEN {i}
    ELSE IF sock.done THEN {[i EXCEPT !.encrypted = i.send, !.send = 0]}
    ELSE {i, [i EXCEPT !.encrypted = 1]}

StartSend ==
    /\ \/ worker = "startsend"
       \/ worker = "send" /\ ~IsResult(inner.sendEvent)
    /\ IF inner.sendEvent = "empty"
       THEN \E i \in IF Secure THEN Populate(inner) ELSE {inner} :
               /\ seen' = [seen EXCEPT !.early = @ \/ (seen.connects = 0 /\ i.send < inner.send)]
               /\ IF Output(i) = 0 THEN inner' = i /\ Continue("return")
                  ELSE \E e \in {"pending", "data", "error"} :
                          /\ inner' = [i EXCEPT !.sendEvent = e]
                          /\ Continue(IF e = "pending" THEN "return" ELSE "sent")
       ELSE inner' = inner /\ seen' = seen /\ Continue("return")
    /\ UNCHANGED <<use, sock, front, ioTask, caller>>

LeaveEvent ==
    /\ worker = "return"
    /\ ioTask' = [ioTask EXCEPT !.phase = "posted"]
    /\ Continue("idle")
    /\ UNCHANGED <<use, sock, front, inner, caller, seen>>

-----------------------------------------------------------------------------
(* The last execution: ProtClose() of a closed task.                        *)

LastEvent ==
    /\ worker = "idle" /\ ioTask.phase = "posted" /\ ioTask.closing
    /\ ioTask' = [ioTask EXCEPT !.phase = "over", !.woken = FALSE, !.again = FALSE,
                                !.socket = FALSE]
    /\ Continue("last")
    /\ UNCHANGED <<use, sock, front, inner, caller, seen>>

\* Under the mutex the socket becomes like new...
CloseFront ==
    /\ worker = "last"
    /\ sock' = [sock EXCEPT !.state = "CLOSED", !.done = FALSE, !.running = FALSE]
    /\ front' = [ctl |-> NoCtl, send |-> 0, recv |-> 0]
    /\ Continue("clear")
    /\ UNCHANGED <<use, inner, ioTask, caller, seen>>

\* A mutant: the control message of the last life is kept.
CloseInnerKeepsCtl ==
    /\ worker = "clear"
    /\ inner' = [NewInner EXCEPT !.ctl = inner.ctl]
    /\ seen' = [seen EXCEPT !.closes = @ + 1]
    /\ Continue("onclose")
    /\ UNCHANGED <<use, sock, front, ioTask, caller>>

\* ... then what belongs to the worker; OnClose().
CloseInner ==
    /\ worker = "clear"
    /\ inner' = NewInner
    /\ seen' = [seen EXCEPT !.closes = @ + 1]
    /\ Continue("onclose")
    /\ UNCHANGED <<use, sock, front, ioTask, caller>>

\* The subscription has not reopened the socket.
LeaveClosed ==
    /\ worker = "onclose"
    /\ Continue("idle")
    /\ UNCHANGED <<use, sock, front, inner, ioTask, caller, seen>>

-----------------------------------------------------------------------------
WorkerProgress ==
    \/ OnEvent \/ TakeCtl \/ DoShutdown \/ DoAttach \/ DoConnect \/ SkipConnect
    \/ DoHandshake \/ TakeSend \/ TakeRecv
    \/ ConsumeRecv \/ StartRecv \/ ConsumeSend \/ StartSend \/ LeaveEvent
    \/ LastEvent \/ CloseFront \/ CloseInner \/ LeaveClosed
    \/ StartEvent

\* A failed assertion ends the process, and whatever the other threads do with it.
SocketNext ==
    /\ worker # "aborted"
    /\ \/ Open \/ PostConnect \/ PostWrap \/ PostTask
       \/ \E c \in Callers : Call(c) \/ Wakeup(c)
       \/ WorkerProgress \/ ProcessArgsFails

\* The core executes the task, the callers end their calls.
SocketFairness ==
    /\ WF_socketVars(WorkerProgress /\ (ioTask.woken \/ ioTask.again \/ worker # "idle"
                                        \/ ioTask.closing))
    /\ \A c \in Callers : WF_socketVars(worker # "aborted" /\ Wakeup(c))

-----------------------------------------------------------------------------
\* The assertions: what is opened again is like new (ProtOpen(), PrivDisableIO()),
\* control messages exclude one another (TCPSocketCtl), an event that is locked
\* to stop the I/O is free, a state is where the step expects it.  One of them is
\* not true of the code and is a property of its own, ShutdownIsNotFirst.
SocketAssertions ==
    /\ MayOpen /\ ioTask.phase \in {"new", "over"} =>
          ~sock.running /\ ~sock.done /\ inner = NewInner
    /\ MayOpen /\ sock.ready =>
          front.ctl.connect = "none" /\ ~front.ctl.attach /\ ~front.ctl.shutdown
    /\ sock.state = "EMPTY" =>
          front.ctl.connect = "none" /\ ~front.ctl.attach /\ inner.ctl.connect = "none"
    /\ worker = "ctl" /\ inner.ctl.is /\ front.ctl.is => ~front.ctl.given
    /\ ~(inner.ctl.attach /\ inner.ctl.connect # "none")
    /\ inner.ctl.handshake => inner.ctl.connect = "none" /\ ~inner.ctl.attach /\ ~sock.done
    /\ inner.ctl.handshake /\ worker = "handshake" => sock.state \in {"HANDSHAKE", "CLOSING"}
    /\ worker \in {"attach", "connect"} /\ (inner.ctl.attach \/ inner.ctl.connect # "none") =>
          sock.state \in {"CONNECTING", "CLOSING"} /\ inner.recvEvent = "off"
    /\ sock.running <=> sock.state \notin {"NEW", "CLOSED"}
    /\ worker = "last" => sock.state = "CLOSING"
    /\ ~sock.owned /\ ioTask.phase \in {"new", "over"} /\ worker = "idle" => sock.state = "CLOSED"

\* "Shutdown couldn't be requested before" the connect (AddConnect()): false of a
\* PostShutdown() of a posted task that has not been connected yet.
ShutdownIsNotFirst == worker # "aborted"

\* What the subscription hears: one connect, one error at most, one close, no data
\* sent before the connect and none received unless SSL has brought it along, and
\* an error is followed by the close.
ToldInOrder ==
    /\ seen.connects <= 1 /\ seen.errors <= 1 /\ seen.closes <= 1
    /\ ~seen.early
    /\ seen.errors = 1 => sock.state \in ClosingStates

Busy == {"CONNECTING", "HANDSHAKE", "CONNECTED", "CLOSING"}

\* Data and receives that were posted are taken by the worker, although only the
\* first post of a bunch wakes the task up: none is left when all is over.
PostedIsTaken ==
    <>[] (sock.state \in Busy => front.send = 0 /\ front.recv = 0)
=============================================================================
