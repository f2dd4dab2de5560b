------------------------------ MODULE TCPServer ------------------------------
(***************************************************************************)
(* TCPServer (src/mg/aio): bound and set to listen by its owner, then its  *)
(* task accepts peers in a worker until somebody closes it.  PostClose()   *)
(* and the worker meet under the server's mutex, but for mySub, which the  *)
(* worker clears after it has unlocked: what a second PostClose() reads of  *)
(* it there depends on which of the two comes first.                       *)
(***************************************************************************)
EXTENDS Naturals

CONSTANT MaxPeers    \* a bound on the peers that are counted

VARIABLES
    server,     \* state, subscription, bound socket
    listening,  \* the task: where it is, awake, closing, the accept event
    serverPc,   \* the worker in OnEvent()
    closer      \* "aborted": the assertion of a PostClose() has failed, or "idle"

serverVars == <<server, listening, serverPc, closer>>

ServerInit ==
    /\ server = [state |-> "NEW", sub |-> FALSE, bound |-> FALSE, peers |-> 0, told |-> 0]
    /\ listening = [phase |-> "new", woken |-> FALSE, closing |-> FALSE, event |-> "empty"]
    /\ serverPc = "idle"
    /\ closer = "idle"

\* SocketBind() may fail.
Bind ==
    /\ server.state = "NEW"
    /\ server' = [server EXCEPT !.state = "BOUND", !.bound = TRUE]
    /\ UNCHANGED <<listening, serverPc, closer>>

\* SocketListen() may fail, the task is posted and woken up.
Listen ==
    /\ server.state = "BOUND"
    /\ server' = [server EXCEPT !.state = "LISTENING", !.sub = TRUE, !.bound = FALSE]
    /\ listening' = [listening EXCEPT !.phase = "posted", !.woken = TRUE]
    /\ UNCHANGED <<serverPc, closer>>

\* A mutant: the server is closed before its task is.
PostCloseAtOnce ==
    /\ server' = [server EXCEPT !.state = "CLOSED", !.bound = FALSE]
    /\ listening' = [listening EXCEPT !.closing = TRUE]
    /\ UNCHANGED <<serverPc, closer>>

\* PostClose(), by any thread at any time.  A server that does not listen has no task
\* to wait for and, so the code asserts, nobody to tell.
PostCloseServer ==
    /\ \/ /\ server.state = "LISTENING"
          /\ server' = [server EXCEPT !.state = "CLOSING"]
          /\ listening' = [listening EXCEPT !.closing = TRUE]
          /\ UNCHANGED closer
       \/ /\ server.state # "LISTENING"
          /\ server' = [server EXCEPT !.state = "CLOSED", !.bound = FALSE]
          /\ closer' = IF server.sub THEN "aborted" ELSE closer
          /\ UNCHANGED listening
    /\ UNCHANGED serverPc

-----------------------------------------------------------------------------
\* OnEvent() of an open task: a peer, one that has gone already, or none.
ServeEvent ==
    /\ serverPc = "idle" /\ listening.phase = "posted" /\ ~listening.closing
    /\ listening.woken \/ listening.event = "pending"
    /\ listening' = [listening EXCEPT !.phase = "called", !.woken = FALSE,
                         !.event = IF @ = "pending" THEN "ended" ELSE @]
    /\ serverPc' = "accept"
    /\ UNCHANGED <<server, closer>>

\* Every peer is told, and then the next one is looked for.
Accept ==
    /\ serverPc = "accept"
    /\ \E waits \in BOOLEAN, peer \in BOOLEAN :
          /\ waits => ~peer
          /\ listening' = [listening EXCEPT !.phase = "posted", !.woken = @ \/ ~waits,
                               !.event = IF waits THEN "pending" ELSE "empty"]
          /\ server' = [server EXCEPT !.peers = IF peer /\ @ < MaxPeers THEN @ + 1 ELSE @]
    /\ serverPc' = "idle"
    /\ UNCHANGED closer

\* OnEvent() of the closed task, in three steps.
ServeClose ==
    /\ serverPc = "idle" /\ listening.phase = "posted" /\ listening.closing
    /\ listening' = [listening EXCEPT !.phase = "over"]
    /\ server' = [server EXCEPT !.state = "CLOSED"]
    /\ serverPc' = "unsubscribe"
    /\ UNCHANGED closer

Unsubscribe ==
    /\ serverPc = "unsubscribe"
    /\ server' = [server EXCEPT !.sub = FALSE, !.told = @ + 1]
    /\ serverPc' = "idle"
    /\ UNCHANGED <<listening, closer>>

ServerWork == ServeEvent \/ Accept \/ ServeClose \/ Unsubscribe
ServerNext == closer # "aborted" /\ (Bind \/ Listen \/ PostCloseServer \/ ServerWork)

-----------------------------------------------------------------------------
\* "TCPServer is killed externally" (TCPServer.cpp:98) does not happen, the server
\* has a subscription whenever it calls it, and one that is closed has neither
\* that nor a socket: OnClose() may delete it.  Its task is over by then.  The
\* assertion of PostClose() fails at most while an earlier close is under way.
ServerAssertions ==
    /\ serverPc \in {"accept", "unsubscribe"} => server.sub
    /\ IF closer = "aborted" THEN listening.closing /\ server.sub /\ server.told = 0
       ELSE /\ listening.closing /\ listening.phase = "posted" /\ serverPc = "idle" =>
                  server.state = "CLOSING" /\ server.sub
            /\ server.state \in {"NEW", "CLOSED"} /\ serverPc = "idle" =>
                  /\ ~server.sub /\ ~server.bound
                  /\ listening.phase \in {"new", "over"}
                  /\ server.told = IF listening.phase = "over" THEN 1 ELSE 0

\* "MG_BOX_ASSERT(mySub == nullptr)" of a PostClose() that does not find the server
\* listening (TCPServer.cpp:60): false while an earlier one is under way.
PostCloseFindsNoSub == closer # "aborted"
=============================================================================
