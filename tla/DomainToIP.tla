----------------------------- MODULE DomainToIP -----------------------------
(***************************************************************************)
(* The resolver of domain names (src/mg/net/DomainToIP.cpp), one thread    *)
(* that serves two queues, and its two kinds of users: a request object of *)
(* a connecting socket (TCPSocketCtlDomainRequest), which may be cancelled *)
(* at any time, and DomainToIPBlocking(), which waits.  The callback works *)
(* on the user's object: it writes the result, then locks the object and   *)
(* either tells the user or, when the user has cancelled, deletes it.      *)
(*                                                                         *)
(* A context is freed when the user's request and the queues have let it   *)
(* go.  Its deadline, which only a blocking user has, passes at any time.  *)
(***************************************************************************)
EXTENDS Naturals, Sequences, SequencesExt

CONSTANTS
    Requests,
    NoRequest,      \* not a request
    Blocking,       \* the requests of them that are waited for
    BatchSize       \* how many names are resolved before the queues are looked at

VARIABLES
    user,       \* of each request: phase, pending (myTask, !isFinished), alive, answers
    refs,       \* references to its context
    due,        \* the deadline has passed
    queues,     \* myFront, myFrontCancel and the signal, under myMutex
    main,       \* myMain, with myMainHeap: the contexts whose myIndex >= 0
    resolver    \* the thread: pc, what it goes back to, the request, its lists

domainVars == <<user, refs, due, queues, main, resolver>>

\* The thread has nothing to do yet.
DomainInit ==
    /\ user = [r \in Requests |-> [phase |-> "new", pending |-> FALSE, alive |-> TRUE,
                                   answers |-> 0]]
    /\ refs = [r \in Requests |-> 0]
    /\ due = [r \in Requests |-> FALSE]
    /\ queues = [front |-> <<>>, cancel |-> <<>>, signal |-> FALSE]
    /\ main = <<>>
    /\ resolver = [pc |-> "asleep", after |-> "main", request |-> NoRequest, late |-> {},
                   left |-> 0, front |-> <<>>, cancel |-> <<>>]

-----------------------------------------------------------------------------
(* The users.                                                               *)

\* The condition variable remembers a signal for the thread that sleeps, only.
Signalled(was) == queues.signal \/ (was = <<>> /\ resolver.pc = "asleep")

\* The first Update() of a request, or DomainToIPBlocking().
Post(r) ==
    /\ user[r].phase = "new"
    /\ user' = [user EXCEPT ![r].phase = "sent", ![r].pending = TRUE]
    /\ refs' = [refs EXCEPT ![r] = 2]
    /\ queues' = [queues EXCEPT !.front = Append(@, r), !.signal = Signalled(queues.front)]
    /\ UNCHANGED <<due, main, resolver>>

\* The user's object goes, and the request in it.
Deleted(r) ==
    /\ user' = [user EXCEPT ![r].phase = "gone", ![r].alive = FALSE]
    /\ refs' = IF user[r].phase = "sent" THEN [refs EXCEPT ![r] = @ - 1] ELSE refs

\* An Update() sees that the task has been dropped; the blocking call returns.
SeeResult(r) ==
    /\ user[r].phase = "sent" /\ ~user[r].pending
    /\ Deleted(r)
    /\ UNCHANGED <<due, queues, main, resolver>>

\* Cancel() of a request that was not sent, or whose result is there.
CancelNow(r) ==
    /\ r \notin Blocking
    /\ user[r].phase \in {"new", "sent"} /\ ~user[r].pending
    /\ Deleted(r)
    /\ UNCHANGED <<due, queues, main, resolver>>

\* Cancel() of a request that runs: the queue gets the user's reference.
CancelSent(r) ==
    /\ r \notin Blocking
    /\ user[r].phase = "sent" /\ user[r].pending
    /\ user' = [user EXCEPT ![r].phase = "cancelled", ![r].pending = FALSE]
    /\ queues' = [queues EXCEPT !.cancel = Append(@, r), !.signal = Signalled(queues.cancel)]
    /\ UNCHANGED <<refs, due, main, resolver>>

DeadlinePasses(r) ==
    /\ r \in Blocking /\ ~due[r] /\ user[r].phase = "sent"
    /\ due' = [due EXCEPT ![r] = TRUE]
    /\ UNCHANGED <<user, refs, queues, main, resolver>>

UserStep(r) == Post(r) \/ SeeResult(r) \/ CancelNow(r) \/ CancelSent(r) \/ DeadlinePasses(r)

-----------------------------------------------------------------------------
(* The callback, in the thread of the resolver, and the release after it.   *)

Answer(r, after) == [resolver EXCEPT !.pc = "write", !.after = after, !.request = r]

\* The result is written without the lock: the user does not look at it yet.
WriteResult ==
    /\ resolver.pc = "write"
    /\ user' = [user EXCEPT ![resolver.request].answers = @ + 1]
    /\ resolver' = [resolver EXCEPT !.pc = "tell"]
    /\ UNCHANGED <<refs, due, queues, main>>

\* Under the lock: PostWakeup() or the signal, and the object belongs to the user;
\* otherwise "too late, already canceled".
TellUser ==
    /\ resolver.pc = "tell"
    /\ LET r == resolver.request
       IN  user' = IF user[r].pending THEN [user EXCEPT ![r].pending = FALSE]
                   ELSE [user EXCEPT ![r].phase = "gone", ![r].alive = FALSE]
    /\ resolver' = [resolver EXCEPT !.pc = "release"]
    /\ UNCHANGED <<refs, due, queues, main>>

\* The queue's reference; that of the cancel queue, too.
Release ==
    /\ resolver.pc = "release"
    /\ refs' = [refs EXCEPT ![resolver.request] =
                   IF resolver.after = "cancel" THEN @ - 2 ELSE @ - 1]
    /\ resolver' = [resolver EXCEPT !.pc = resolver.after, !.request = NoRequest]
    /\ UNCHANGED <<user, due, queues, main>>

-----------------------------------------------------------------------------
(* PrivProcessMain().                                                       *)

\* The time is looked at once.
StartMain ==
    /\ resolver.pc = "main"
    /\ resolver' = [resolver EXCEPT !.pc = IF main = <<>> THEN "front" ELSE "late",
                                    !.late = {r \in ToSet(main) : due[r]}]
    /\ UNCHANGED <<user, refs, due, queues, main>>

\* A request leaves myMain by its own links, and myMainHeap by its index.
Without(r) == RemoveAt(main, CHOOSE n \in DOMAIN main : main[n] = r)

TimeOut ==
    /\ resolver.pc = "late"
    /\ \E r \in resolver.late \cap ToSet(main) :
          /\ main' = Without(r)
          /\ resolver' = Answer(r, "late")
    /\ UNCHANGED <<user, refs, due, queues>>

StartBatch ==
    /\ resolver.pc = "late" /\ resolver.late \cap ToSet(main) = {}
    /\ resolver' = [resolver EXCEPT !.pc = "batch", !.left = BatchSize, !.late = {}]
    /\ UNCHANGED <<user, refs, due, queues, main>>

Process ==
    /\ resolver.pc = "batch" /\ main # <<>> /\ resolver.left > 0
    /\ main' = Tail(main)
    /\ resolver' = [Answer(Head(main), "batch") EXCEPT !.left = @ - 1]
    /\ UNCHANGED <<user, refs, due, queues>>

EndBatch ==
    /\ resolver.pc = "batch" /\ (main = <<>> \/ resolver.left = 0)
    /\ resolver' = [resolver EXCEPT !.pc = "front", !.left = 0]
    /\ UNCHANGED <<user, refs, due, queues, main>>

-----------------------------------------------------------------------------
(* PrivProcessFront().                                                      *)

Idle == main = <<>> /\ queues.front = <<>> /\ queues.cancel = <<>>

\* A mutant: cancelled requests do not keep the thread awake.
SleepOnCancelled ==
    /\ resolver.pc = "front" /\ main = <<>> /\ queues.front = <<>>
    /\ resolver' = [resolver EXCEPT !.pc = "asleep"]
    /\ UNCHANGED <<user, refs, due, queues, main>>

Sleep ==
    /\ resolver.pc = "front" /\ Idle
    /\ resolver' = [resolver EXCEPT !.pc = "asleep"]
    /\ UNCHANGED <<user, refs, due, queues, main>>

\* Both queues are taken in one piece, then those of the front join main.
Take ==
    /\ main' = main \o queues.front
    /\ queues' = [front |-> <<>>, cancel |-> <<>>, signal |-> FALSE]
    /\ resolver' = [resolver EXCEPT !.pc = "cancel", !.cancel = queues.cancel]
    /\ UNCHANGED <<user, refs, due>>

Awake == resolver.pc = "asleep" /\ queues.signal /\ Take
WakeForNothing == resolver.pc = "asleep" /\ Take
StayAwake == resolver.pc = "front" /\ ~Idle /\ Take

\* A mutant: a request that is not in main is answered again.
CancelOneAgain ==
    /\ resolver.pc = "cancel" /\ resolver.cancel # <<>>
    /\ LET r == Head(resolver.cancel)
       IN  /\ main' = IF r \in ToSet(main) THEN Without(r) ELSE main
           /\ resolver' = [Answer(r, "cancel") EXCEPT !.cancel = Tail(@)]
           /\ refs' = refs
    /\ UNCHANGED <<user, due, queues>>

\* The index tells whether the cancelled request is still in main.
CancelOne ==
    /\ resolver.pc = "cancel" /\ resolver.cancel # <<>>
    /\ LET r == Head(resolver.cancel)
           rest == [resolver EXCEPT !.cancel = Tail(@)]
       IN  IF r \in ToSet(main)
           THEN /\ main' = Without(r)
                /\ resolver' = [Answer(r, "cancel") EXCEPT !.cancel = Tail(@)]
                /\ refs' = refs
           ELSE /\ refs' = [refs EXCEPT ![r] = @ - 1]
                /\ resolver' = rest
                /\ main' = main
    /\ UNCHANGED <<user, due, queues>>

EndCancel ==
    /\ resolver.pc = "cancel" /\ resolver.cancel = <<>>
    /\ resolver' = [resolver EXCEPT !.pc = "main"]
    /\ UNCHANGED <<user, refs, due, queues, main>>

ResolverStep ==
    \/ StartMain \/ TimeOut \/ StartBatch \/ Process \/ EndBatch
    \/ WriteResult \/ TellUser \/ Release
    \/ Sleep \/ Awake \/ StayAwake \/ CancelOne \/ EndCancel

DomainNext ==
    \/ \E r \in Requests : UserStep(r)
    \/ ResolverStep \/ WakeForNothing

\* The thread runs whenever it is not asleep; no user has to do anything.
DomainFairness == WF_domainVars(ResolverStep)

-----------------------------------------------------------------------------
\* The queues' references that are still to be given back.
Holders(r) ==
    LET held(cond) == IF cond THEN 1 ELSE 0
        answering == resolver.request = r
    IN  held(user[r].phase = "sent")
        + held(r \in ToSet(queues.front) \/ r \in ToSet(main) \/ answering)
        + held(r \in ToSet(queues.cancel) \/ r \in ToSet(resolver.cancel)
               \/ (answering /\ resolver.after = "cancel"))

\* The callback finds the user's object alive, answers once and never a request
\* that is still in main (ReturnError() asserts it), and a context lives exactly as
\* long as somebody holds it.
RequestsAreSafe ==
    /\ resolver.pc \in {"write", "tell"} => user[resolver.request].alive
    /\ resolver.request \notin ToSet(main)
    /\ \A r \in Requests : /\ user[r].answers <= 1
                           /\ refs[r] = Holders(r)

\* Every request is answered in the end, also one that is cancelled or late, and a
\* cancelled one deletes itself and gives its context back.
EveryRequestEnds ==
    <>[] (\A r \in Requests :
              /\ user[r].phase = "sent" => user[r].answers = 1
              /\ user[r].phase # "cancelled"
              /\ user[r].phase = "gone" => refs[r] = 0)
=============================================================================
