----------------------------- MODULE Connection -----------------------------
(***************************************************************************)
(* The WebSocket connection of the adapter (adapters/wecom.py): run_forever*)
(* opens a connection, lets a writer, a heartbeat and a reader task serve  *)
(* it until it dies, tears it down, backs off and opens the next one, until*)
(* close() is called.  Everybody else only sees the write queue, by        *)
(* _enqueue_write, and the acks of the requests made by _send_and_await.   *)
(*                                                                         *)
(* The write queue and the dict of pending acks are replaced with every    *)
(* connection.  A caller that is suspended in put() on a full queue holds  *)
(* on to the old queue, which nobody reads any more: it is "stranded".     *)
(*                                                                         *)
(* A frame is represented by the caller it comes from; every call uses a   *)
(* request id of its own.  Cancellation of a caller (/stop) and of         *)
(* run_forever itself are not modelled.                                    *)
(***************************************************************************)
EXTENDS Integers, Sequences, FiniteSets

CONSTANTS Senders,    \* callers of _send_and_await: uploads, proactive sends
          Posters,    \* callers of _enqueue_write: replies and stream frames
          Ping,       \* the frame of the heartbeat
          Capacity    \* WRITE_QUEUE_MAXSIZE

Callers == Senders \cup Posters

ASSUME ConnectionAssumption == /\ Senders \cap Posters = {}
                               /\ Ping \notin Callers
                               /\ Capacity \in Nat \ {0}

VARIABLES
    main,          \* where run_forever is
    shutdown, dead,\* the events _shutdown and _connection_dead
    closer,        \* where close() is
    ws,            \* self._ws
    writer, heartbeat, reader,   \* the tasks of the connection
    inHand,        \* the frames that the writer is sending: at most one
    queue,         \* the write queue
    pc,            \* where each caller is
    pending, fut,  \* _pending_acks and the futures
    flying         \* frames written to the last socket and not answered

taskVars == <<writer, heartbeat, reader, inHand>>
callVars == <<pc, pending, fut>>
vars == <<main, shutdown, dead, closer, ws, taskVars, queue, callVars, flying>>

MainStates == {"loop",         \* top of the while loop
               "connecting",   \* awaiting websockets.connect
               "subscribing",  \* awaiting the ack of the subscription
               "serving",      \* awaiting _connection_dead
               "teardown",     \* awaiting the cancelled tasks
               "closing",      \* awaiting ws.close()
               "sleeping",     \* backing off
               "returned"}

CallerStates == {"idle",
                 "putting",    \* in put(), on the queue in use
                 "stranded",   \* in put(), on a queue that was replaced
                 "waiting"}    \* awaiting its future, with a timeout

Frames == Callers \cup {Ping}

TypeOK ==
    /\ main \in MainStates
    /\ shutdown \in BOOLEAN /\ dead \in BOOLEAN
    /\ closer \in {"never", "closing", "done"}
    /\ ws \in {"none", "open", "broken"}
    /\ writer \in {"dead", "get", "send"}
    /\ heartbeat \in {"dead", "sleep", "put"}
    /\ reader \in BOOLEAN
    /\ inHand \subseteq Frames
    /\ queue \in Seq(Frames) /\ Len(queue) <= Capacity
    /\ pc \in [Callers -> CallerStates]
    /\ pending \subseteq Senders
    /\ fut \in [Senders -> {"none", "open", "result", "error"}]
    /\ flying \subseteq Senders

\* run_forever is opening its first connection: nobody has called before.
Init ==
    /\ main = "connecting" /\ shutdown = FALSE /\ dead = FALSE /\ closer = "never"
    /\ ws = "none"
    /\ writer = "dead" /\ heartbeat = "dead" /\ reader = FALSE /\ inHand = {}
    /\ queue = <<>>
    /\ pc = [c \in Callers |-> "idle"]
    /\ pending = {} /\ fut = [c \in Senders |-> "none"] /\ flying = {}

Full == Len(queue) = Capacity

-----------------------------------------------------------------------------
(* run_forever *)

\* _open_connection: fresh event, queue and dict of acks.  (The backoff of at
\* least a second has let every put that found room finish.)
OpenConnection ==
    /\ main = "loop" /\ ~shutdown
    /\ \A c \in Callers : pc[c] = "putting" => Full
    /\ main' = "connecting"
    /\ dead' = FALSE /\ queue' = <<>> /\ pending' = {} /\ flying' = {}
    /\ pc' = [c \in Callers |-> IF pc[c] = "putting" THEN "stranded" ELSE pc[c]]
    /\ UNCHANGED <<shutdown, closer, ws, taskVars, fut>>

Connected ==
    /\ main = "connecting"
    /\ main' = "subscribing" /\ ws' = "open"
    /\ UNCHANGED <<shutdown, dead, closer, taskVars, queue, callVars, flying>>

\* The subscription is acknowledged: the three tasks are created.
Subscribed ==
    /\ main = "subscribing" /\ ws = "open"
    /\ main' = "serving"
    /\ writer' = "get" /\ heartbeat' = "sleep" /\ reader' = TRUE
    /\ UNCHANGED <<shutdown, dead, closer, ws, inHand, queue, callVars, flying>>

\* connect or subscribe raises (refused, timeout, socket gone).
OpenFails ==
    /\ main \in {"connecting", "subscribing"}
    /\ main' = "teardown"
    /\ UNCHANGED <<shutdown, dead, closer, ws, taskVars, queue, callVars, flying>>

ConnectionDies ==
    /\ main = "serving" /\ dead
    /\ main' = "teardown"
    /\ UNCHANGED <<shutdown, dead, closer, ws, taskVars, queue, callVars, flying>>

\* What comes after _tear_down_connection.
AfterTearDown == IF shutdown THEN "returned" ELSE "sleeping"

\* Mutant: the dict of acks is cleared and nobody is told.
TearDownForgetsAcks ==
    /\ main = "teardown"
    /\ main' = IF ws = "none" THEN AfterTearDown ELSE "closing"
    /\ writer' = "dead" /\ heartbeat' = "dead" /\ reader' = FALSE /\ inHand' = {}
    /\ dead' = (dead \/ reader)
    /\ pending' = {}
    /\ UNCHANGED <<shutdown, closer, ws, queue, pc, fut, flying>>

\* The cancelled tasks have ended (the finally block of the reader flags the
\* connection dead); the futures of the pending acks are failed.
TearDown ==
    /\ main = "teardown"
    /\ main' = IF ws = "none" THEN AfterTearDown ELSE "closing"
    /\ writer' = "dead" /\ heartbeat' = "dead" /\ reader' = FALSE /\ inHand' = {}
    /\ dead' = (dead \/ reader)
    /\ fut' = [c \in Senders |->
                 IF c \in pending /\ fut[c] = "open" THEN "error" ELSE fut[c]]
    /\ pending' = {}
    /\ UNCHANGED <<shutdown, closer, ws, queue, pc, flying>>

SocketClosed ==
    /\ main = "closing"
    /\ ws' = "none"
    /\ main' = AfterTearDown
    /\ UNCHANGED <<shutdown, dead, closer, taskVars, queue, callVars, flying>>

\* Mutant: the backoff does not listen to _shutdown, nor does the loop.
WakeUpDeaf ==
    /\ main = "sleeping" /\ ~shutdown
    /\ main' = "loop"
    /\ UNCHANGED <<shutdown, dead, closer, ws, taskVars, queue, callVars, flying>>

\* The backoff ends: by its timeout or by _shutdown.
WakeUp ==
    /\ main = "sleeping"
    /\ main' = IF shutdown THEN "returned" ELSE "loop"
    /\ UNCHANGED <<shutdown, dead, closer, ws, taskVars, queue, callVars, flying>>

\* The condition of the while loop.
LoopEnds ==
    /\ main = "loop" /\ shutdown
    /\ main' = "returned"
    /\ UNCHANGED <<shutdown, dead, closer, ws, taskVars, queue, callVars, flying>>

Main == \/ OpenConnection \/ Connected \/ Subscribed \/ OpenFails
        \/ ConnectionDies \/ TearDown \/ SocketClosed \/ WakeUp \/ LoopEnds

-----------------------------------------------------------------------------
(* The tasks of a connection *)

WriterTakes ==
    /\ writer = "get" /\ queue # <<>>
    /\ writer' = "send" /\ inHand' = {Head(queue)} /\ queue' = Tail(queue)
    /\ UNCHANGED <<main, shutdown, dead, closer, ws, heartbeat, reader, callVars, flying>>

WriterSends ==
    /\ writer = "send" /\ ws = "open"
    /\ writer' = "get" /\ inHand' = {}
    /\ flying' = flying \cup (inHand \cap Senders)
    /\ UNCHANGED <<main, shutdown, dead, closer, ws, heartbeat, reader, queue, callVars>>

WriterFails ==
    /\ writer = "send" /\ ws # "open"
    /\ writer' = "dead" /\ inHand' = {}
    /\ dead' = TRUE
    /\ UNCHANGED <<main, shutdown, closer, ws, heartbeat, reader, queue, callVars, flying>>

\* HEARTBEAT_INTERVAL is over: a ping is put in the queue, if there is room.
HeartbeatWakes ==
    /\ heartbeat = "sleep"
    /\ IF Full THEN heartbeat' = "put" /\ UNCHANGED queue
               ELSE queue' = Append(queue, Ping) /\ UNCHANGED heartbeat
    /\ UNCHANGED <<main, shutdown, dead, closer, ws, writer, reader, inHand, callVars, flying>>

HeartbeatPuts ==
    /\ heartbeat = "put" /\ ~Full
    /\ heartbeat' = "sleep" /\ queue' = Append(queue, Ping)
    /\ UNCHANGED <<main, shutdown, dead, closer, ws, writer, reader, inHand, callVars, flying>>

\* _dispatch_ack: the future, if it is still registered, gets the answer.
ReaderGetsAck(c) ==
    /\ reader /\ ws = "open" /\ c \in flying
    /\ flying' = flying \ {c}
    /\ pending' = pending \ {c}
    /\ fut' = [fut EXCEPT ![c] = IF c \in pending /\ @ = "open" THEN "result" ELSE @]
    /\ UNCHANGED <<main, shutdown, dead, closer, ws, taskVars, queue, pc>>

\* disconnected_event: the server has handed the bot to another connection.
DisconnectedEvent ==
    /\ reader /\ ws = "open"
    /\ dead' = TRUE
    /\ UNCHANGED <<main, shutdown, closer, ws, taskVars, queue, callVars, flying>>

ReaderEnds ==
    /\ reader /\ ws # "open"
    /\ reader' = FALSE
    /\ dead' = TRUE
    /\ UNCHANGED <<main, shutdown, closer, ws, writer, heartbeat, inHand, queue, callVars, flying>>

Tasks == \/ WriterTakes \/ WriterSends \/ WriterFails
         \/ HeartbeatPuts \/ ReaderEnds

-----------------------------------------------------------------------------
(* The callers *)

\* A frame of the last request of c is still about.  (Request ids are never
\* used again, so an answer to it is no answer to another request.)
Outstanding(c) == c \in flying \cup inHand \/ \E i \in DOMAIN queue : queue[i] = c

\* A call, whatever the state of the connection: a sender registers its future
\* first; put() suspends only if the queue is full.
Call(c) ==
    /\ pc[c] = "idle"
    /\ c \in Senders => ~Outstanding(c)
    /\ pending' = pending \cup ({c} \cap Senders)
    /\ fut' = IF c \in Senders THEN [fut EXCEPT ![c] = "open"] ELSE fut
    /\ IF Full
       THEN pc' = [pc EXCEPT ![c] = "putting"] /\ UNCHANGED queue
       ELSE /\ queue' = Append(queue, c)
            /\ pc' = IF c \in Senders THEN [pc EXCEPT ![c] = "waiting"] ELSE pc
    /\ UNCHANGED <<main, shutdown, dead, closer, ws, taskVars, flying>>

\* put() finds room.
Put(c) ==
    /\ pc[c] = "putting" /\ ~Full
    /\ queue' = Append(queue, c)
    /\ pc' = [pc EXCEPT ![c] = IF c \in Senders THEN "waiting" ELSE "idle"]
    /\ UNCHANGED <<main, shutdown, dead, closer, ws, taskVars, pending, fut, flying>>

\* The future is done, or UPLOAD_RESPONSE_TIMEOUT is over.
CallReturns(c) ==
    /\ pc[c] = "waiting"
    /\ pc' = [pc EXCEPT ![c] = "idle"]
    /\ pending' = pending \ {c}
    /\ fut' = [fut EXCEPT ![c] = "none"]
    /\ UNCHANGED <<main, shutdown, dead, closer, ws, taskVars, queue, flying>>

-----------------------------------------------------------------------------
(* close(), and the network *)

Close ==
    /\ closer = "never"
    /\ shutdown' = TRUE /\ dead' = TRUE
    /\ closer' = IF ws = "none" THEN "done" ELSE "closing"
    /\ ws' = IF ws = "none" THEN "none" ELSE "broken"
    /\ UNCHANGED <<main, taskVars, queue, callVars, flying>>

CloseEnds ==
    /\ closer = "closing"
    /\ closer' = "done" /\ ws' = "none"
    /\ UNCHANGED <<main, shutdown, dead, taskVars, queue, callVars, flying>>

SocketBreaks ==
    /\ ws = "open"
    /\ ws' = "broken"
    /\ UNCHANGED <<main, shutdown, dead, closer, taskVars, queue, callVars, flying>>

Next == \/ Main \/ Tasks \/ HeartbeatWakes \/ DisconnectedEvent
        \/ \E c \in Senders : ReaderGetsAck(c) \/ CallReturns(c)
        \/ \E c \in Callers : Call(c) \/ Put(c)
        \/ Close \/ CloseEnds \/ SocketBreaks

Spec == Init /\ [][Next]_vars

\* Tasks that can go on do; connecting, subscribing, closing and sleeping end
\* by their timeouts, sends by the end of the socket, calls by their timeout;
\* asyncio wakes the puts that wait on a queue one after the other.  Nothing
\* is assumed of acks, of breaks, or of who calls.
Fairness ==
    /\ WF_vars(Main)
    /\ WF_vars(WriterTakes \/ WriterSends \/ WriterFails)
    /\ WF_vars(ReaderEnds)
    /\ WF_vars(CloseEnds)
    /\ \A c \in Callers : SF_vars(Put(c))
    /\ \A c \in Senders : WF_vars(CallReturns(c))

FairSpec == Spec /\ Fairness

-----------------------------------------------------------------------------
(* Properties *)

\* No task of a connection is alive while there is no connection to serve: a
\* writer or heartbeat that survives would work on the next connection.
TasksServe ==
    main \notin {"serving", "teardown"} =>
        /\ writer = "dead" /\ heartbeat = "dead" /\ ~reader
        /\ inHand = {}

\* A caller that waits for the answer to a frame that was written is waiting
\* for something that can still come: once the connection is torn down, its
\* future has been failed ("must wake up with an error rather than hang").
AnswerCanCome ==
    \A c \in flying : pc[c] = "waiting" /\ fut[c] = "open" =>
        main \in {"serving", "teardown"} /\ c \in pending

\* The socket is the one of the current connection: it is closed before the
\* next is opened, and none is left when run_forever returns, whenever close()
\* was called and whichever of the two closes it first.
NoSocketLeaks ==
    main \in {"sleeping", "loop", "connecting", "returned"} => ws = "none"

\* close() ends run_forever, whatever it is awaiting.
CloseStopsTheLoop == shutdown ~> main = "returned"

\* A connection whose socket breaks is replaced, unless close() is called: the
\* break is noticed, even though nobody may be writing.
Reconnects ==
    (main = "serving" /\ ws = "broken") ~> (main = "connecting" \/ shutdown)

\* Between any two steps of run_forever, the tasks, close() and the callers the
\* tasks, the socket and the futures are those of one connection.
ConnectionSound == TypeOK /\ TasksServe /\ AnswerCanCome /\ NoSocketLeaks

\* run_forever makes progress: to its end after close(), to a new connection
\* after a break.
ConnectionLives == CloseStopsTheLoop /\ Reconnects

\* Claimed for _tear_down_connection: "any caller blocked on _send_and_await
\* must wake up with an error rather than hang forever once the socket is gone".
CallersWakeUp ==
    \A c \in Senders : pc[c] # "idle" ~> (pc[c] = "idle" \/ shutdown)

-----------------------------------------------------------------------------
(* The inductive invariant of the proofs in ConnectionProofs. *)

\* A sender that awaits the answer to a frame that is still about can be found
\* by the reader and by the next tear-down; one that is still in put() has no
\* frame about yet.
PendingInv ==
    \A c \in Senders :
        /\ pc[c] = "waiting" /\ fut[c] = "open" /\ Outstanding(c) => c \in pending
        /\ pc[c] = "putting" => ~Outstanding(c)
        /\ pc[c] = "putting" /\ fut[c] = "open" => c \in pending

IInv == TypeOK /\ TasksServe /\ AnswerCanCome /\ NoSocketLeaks /\ PendingInv
=============================================================================
