------------------------------ MODULE Replies -------------------------------
(***************************************************************************)
(* How a turn answers: the stream handle of adapters/wecom.py, the turn    *)
(* and its progress heartbeat in dispatcher.py, the adapter's write queue, *)
(* and /stop, which cancels the task of a turn wherever it awaits.         *)
(*                                                                         *)
(* A turn is named by the req_id it answers.  The two tasks of a turn, the *)
(* turn itself and its heartbeat, wait for room in the queue all adapter   *)
(* tasks share; while one waits the others go on.  A frame is its req_id   *)
(* and its kind: the spinner a turn starts with, a "live" one (a status or *)
(* pushed text), the closing one, the answer.                              *)
(***************************************************************************)
EXTENDS Integers, Sequences, FiniteSets

CONSTANTS RpTurns, RpSessionOf,
          RpStoppable,               \* turns that /stop may hit
          RpExpiring,                \* turns whose stream WeCom may expire
          RpQueueMax,                \* WRITE_QUEUE_MAXSIZE
          RpTransferCap,             \* session.per_turn_transfer_cap
          RpMaxLive                  \* bound on the live frames of a turn

RpSessions == {RpSessionOf[t] : t \in RpTurns}

VARIABLES
    turn,       \* by req_id: where the turn stands
    beat,       \* by req_id: where its heartbeat task stands
    streams,    \* _active_streams
    expired,    \* by req_id: the handle was told that WeCom takes no updates
    frames,     \* _write_queue
    window,     \* req_ids whose stream WeCom still updates
    rejects,    \* req_ids a rejection (errcode 846608) is on its way for
    count,      \* by session: transfer_count_this_turn
    live,       \* by req_id: live frames queued so far
    wire,       \* ghost, by req_id: the last thing queued for it
    halted      \* ghost: turns /stop was sent to, and those hit while joining

rpTasks == <<turn, beat>>
rpVars == <<turn, beat, streams, expired, frames, window, rejects,
            count, live, wire, halted>>

TurnStates == {"new", "greet", "work", "push", "join", "close", "answer",
               "post", "done", "unwind", "cut"}

RpInit ==
    /\ turn = [t \in RpTurns |-> "new"]
    /\ beat = [t \in RpTurns |-> "none"]
    /\ streams = {} /\ expired = {}
    /\ frames = << >> /\ window = RpTurns /\ rejects = {}
    /\ count = [s \in RpSessions |-> 0]
    /\ live = [t \in RpTurns |-> 0]
    /\ wire = [t \in RpTurns |-> "none"]
    /\ halted = [t \in RpTurns |-> "no"]

-----------------------------------------------------------------------------
(* WeComStreamHandle *)

\* _send_frame behind its await: the frame is in the queue.
Enqueue(t, kind) ==
    /\ Len(frames) < RpQueueMax
    /\ frames' = Append(frames, <<t, kind>>)
    /\ wire' = [wire EXCEPT ![t] = kind]
    /\ live' = IF kind = "live" THEN [live EXCEPT ![t] = @ + 1] ELSE live

Closed(t) == turn[t] \in {"close", "answer", "post", "done"}

\* push and status do nothing once the handle is closed or expired.  (Nor do
\* they in the minimal interval after the last frame: a push may be left out.)
MayPush(t) == ~Closed(t) /\ t \notin expired /\ live[t] < RpMaxLive

\* finish, up to its first await: the handle is closed and no longer registered.
BeginFinish(t) ==
    /\ streams' = streams \ {t}
    /\ turn' = [turn EXCEPT ![t] = IF t \in expired THEN "answer" ELSE "close"]

CloseStream(t) ==
    /\ turn[t] = "close"
    /\ Enqueue(t, "close")
    /\ turn' = [turn EXCEPT ![t] = "answer"]
    /\ UNCHANGED <<beat, streams, expired, window, rejects, count, halted>>

\* _send_markdown_reply.
SendAnswer(t) ==
    /\ turn[t] = "answer"
    /\ Enqueue(t, "answer")
    /\ turn' = [turn EXCEPT ![t] = "post"]
    /\ UNCHANGED <<beat, streams, expired, window, rejects, count, halted>>

-----------------------------------------------------------------------------
(* The turn: _dispatch_ready_turn, handle, _handle_locked, _run_turn *)

LockHolder(s) ==
    {t \in RpTurns : RpSessionOf[t] = s /\ turn[t] \notin {"new", "done", "cut"}}

\* The handle registers itself, before the first await.
BeginTurn(t) ==
    /\ turn[t] = "new" /\ LockHolder(RpSessionOf[t]) = {}
    /\ turn' = [turn EXCEPT ![t] = "greet"]
    /\ streams' = streams \cup {t}
    /\ UNCHANGED <<beat, expired, frames, window, rejects, count, live, wire, halted>>

\* The first frame; then the handler, which may start a heartbeat (if
\* progress_status_enabled).
Greet(t) ==
    /\ turn[t] = "greet"
    /\ Enqueue(t, "spin")
    /\ turn' = [turn EXCEPT ![t] = "work"]
    /\ beat' \in {beat, [beat EXCEPT ![t] = "sleep"]}
    /\ UNCHANGED <<streams, expired, window, rejects, count, halted>>

\* Streamed text, the status of a tool or of a transfer, a picture or a file.
StartPush(t) ==
    /\ turn[t] = "work" /\ MayPush(t)
    /\ turn' = [turn EXCEPT ![t] = "push"]
    /\ UNCHANGED <<beat, streams, expired, frames, window, rejects, count,
                   live, wire, halted>>

EndPush(t) ==
    /\ turn[t] = "push"
    /\ Enqueue(t, "live")
    /\ turn' = [turn EXCEPT ![t] = "work"]
    /\ UNCHANGED <<beat, streams, expired, window, rejects, count, halted>>

\* TransferRequested: on to the next employee, until the cap; the employee
\* whose request reaches it must answer, and a request then fails the turn.
TransferTurn(t) ==
    /\ turn[t] = "work" /\ count[RpSessionOf[t]] < RpTransferCap
    /\ count' = [count EXCEPT ![RpSessionOf[t]] = @ + 1]
    /\ UNCHANGED <<turn, beat, streams, expired, frames, window, rejects,
                   live, wire, halted>>

\* _run_turn returned or raised: heartbeat_stop is set and the heartbeat awaited.
EndWork(t) ==
    /\ turn[t] = "work"
    /\ turn' = [turn EXCEPT ![t] = "join"]
    /\ UNCHANGED <<beat, streams, expired, frames, window, rejects, count,
                   live, wire, halted>>

\* Mutant: the counter is reset only when the turn went well.
JoinKeepsCount(t) ==
    /\ turn[t] = "join" /\ beat[t] \in {"none", "over"}
    /\ \/ BeginFinish(t) /\ UNCHANGED count
       \/ /\ count' = [count EXCEPT ![RpSessionOf[t]] = 0]
          /\ BeginFinish(t)
    /\ UNCHANGED <<beat, expired, frames, window, rejects, live, wire, halted>>

\* The heartbeat is over: the counters are reset and the reply is finished.
Joined(t) ==
    /\ turn[t] = "join" /\ beat[t] \in {"none", "over"}
    /\ count' = [count EXCEPT ![RpSessionOf[t]] = 0]
    /\ BeginFinish(t)
    /\ UNCHANGED <<beat, expired, frames, window, rejects, live, wire, halted>>

\* _post_turn, still under the session's lock.
EndTurn(t) ==
    /\ turn[t] = "post"
    /\ turn' = [turn EXCEPT ![t] = "done"]
    /\ UNCHANGED <<beat, streams, expired, frames, window, rejects, count,
                   live, wire, halted>>

\* /stop: CancelledError at the turn's await passes every "except Exception".
\* Out of the work it still runs the finally; out of the join itself it takes
\* the heartbeat with it and skips what the finally had left to do.
Stop(t) ==
    /\ t \in RpStoppable /\ turn[t] \notin {"new", "done", "cut"}
    /\ turn' = [turn EXCEPT ![t] = IF @ \in {"work", "push"} THEN "unwind" ELSE "cut"]
    /\ beat' = IF turn[t] \in {"join", "unwind"} /\ beat[t] # "none"
               THEN [beat EXCEPT ![t] = "over"] ELSE beat
    /\ halted' = [halted EXCEPT ![t] = IF turn[t] \in {"join", "unwind"} THEN "joining" ELSE "yes"]
    /\ UNCHANGED <<streams, expired, frames, window, rejects, count, live, wire>>

\* The finally of a stopped turn; nothing finishes its stream.
Unwound(t) ==
    /\ turn[t] = "unwind" /\ beat[t] \in {"none", "over"}
    /\ turn' = [turn EXCEPT ![t] = "cut"]
    /\ count' = [count EXCEPT ![RpSessionOf[t]] = 0]
    /\ UNCHANGED <<beat, streams, expired, frames, window, rejects, live, wire, halted>>

-----------------------------------------------------------------------------
(* _progress_heartbeat *)

StopSet(t) == turn[t] \in {"join", "unwind", "close", "answer", "post", "done", "cut"}

\* Mutant: status is called without looking at the handle.
BeatBlind(t) ==
    /\ beat[t] = "sleep" /\ ~StopSet(t) /\ live[t] < RpMaxLive
    /\ beat' = [beat EXCEPT ![t] = "push"]
    /\ UNCHANGED <<turn, streams, expired, frames, window, rejects, count,
                   live, wire, halted>>

\* The delay or the interval is up: a status, or the end on a dead stream.
BeatWakes(t) ==
    /\ beat[t] = "sleep" /\ ~StopSet(t)
    /\ \/ t \in expired /\ beat' = [beat EXCEPT ![t] = "over"]
       \/ MayPush(t) /\ beat' = [beat EXCEPT ![t] = "push"]
    /\ UNCHANGED <<turn, streams, expired, frames, window, rejects, count,
                   live, wire, halted>>

BeatPuts(t) ==
    /\ beat[t] = "push"
    /\ Enqueue(t, "live")
    /\ beat' = [beat EXCEPT ![t] = "sleep"]
    /\ UNCHANGED <<turn, streams, expired, window, rejects, count, halted>>

BeatStops(t) ==
    /\ beat[t] = "sleep" /\ StopSet(t)
    /\ beat' = [beat EXCEPT ![t] = "over"]
    /\ UNCHANGED <<turn, streams, expired, frames, window, rejects, count,
                   live, wire, halted>>

-----------------------------------------------------------------------------
(* The writer and WeCom *)

\* The writer sends the oldest frame; WeCom rejects an update that comes late.
WriteFrame ==
    /\ frames # << >>
    /\ frames' = Tail(frames)
    /\ LET t == Head(frames)[1]
       IN rejects' = IF Head(frames)[2] # "answer" /\ t \notin window
                     THEN rejects \cup {t} ELSE rejects
    /\ UNCHANGED <<rpTasks, streams, expired, window, count, live, wire, halted>>

\* _dispatch_ack: the handle is marked, if it is still registered.
Rejected(t) ==
    /\ t \in rejects
    /\ rejects' = rejects \ {t}
    /\ expired' = IF t \in streams THEN expired \cup {t} ELSE expired
    /\ UNCHANGED <<rpTasks, streams, frames, window, count, live, wire, halted>>

WindowCloses(t) ==
    /\ t \in window \cap RpExpiring /\ turn[t] # "new"
    /\ window' = window \ {t}
    /\ UNCHANGED <<rpTasks, streams, expired, frames, rejects, count, live, wire, halted>>

-----------------------------------------------------------------------------
TurnStep(t) ==
    \/ Greet(t) \/ EndPush(t) \/ EndWork(t) \/ Joined(t) \/ CloseStream(t)
    \/ SendAnswer(t) \/ EndTurn(t) \/ Unwound(t)

BeatStep(t) == BeatPuts(t) \/ BeatStops(t)

RpNext ==
    \/ \E t \in RpTurns :
          \/ BeginTurn(t) \/ StartPush(t) \/ TransferTurn(t) \/ TurnStep(t)
          \/ BeatWakes(t) \/ BeatStep(t) \/ Stop(t)
          \/ Rejected(t) \/ WindowCloses(t)
    \/ WriteFrame

\* The event loop runs a task that can go on, and the writer has a connection.
\* (Agents end their work: AgentTurn shows it.)
RpFairness ==
    /\ \A t \in RpTurns : SF_rpVars(TurnStep(t)) /\ SF_rpVars(BeatStep(t))
    /\ WF_rpVars(WriteFrame)

RpSpec == RpInit /\ [][RpNext]_rpVars /\ RpFairness

-----------------------------------------------------------------------------
(* Properties *)

\* The closing frame is the last of a stream and the answer comes behind it,
\* whatever the heartbeat was waiting for: else the spinner text would replace
\* the answer on the user's screen.  And no stream that the adapter knew to be
\* expired is written to again, but by a task that was at its await already.
NothingFollowsTheClose ==
    [][/\ \A t \in RpTurns :
             wire[t] \in {"close", "answer"} /\ wire'[t] # wire[t] => wire'[t] = "answer"
       /\ \A t \in expired :
             /\ (turn'[t] = "push" => turn[t] = "push")
             /\ (beat'[t] = "push" => beat[t] = "push")]_rpVars

\* What a turn leaves behind.  One that was not stopped leaves no registered
\* handle, no heartbeat, no counted transfer, and the answer sent; only a
\* stopped turn stays registered, for good, and only one stopped while it
\* awaited its heartbeat hands its transfer count on to the next turn.
TurnsLeaveNothing ==
    \A t \in RpTurns :
        /\ turn[t] = "done" =>
              wire[t] = "answer" /\ beat[t] \in {"none", "over"} /\ t \notin streams
        /\ t \in streams /\ turn[t] \in {"done", "cut"} => halted[t] # "no"
        /\ turn[t] \in {"greet", "new"} /\ LockHolder(RpSessionOf[t]) \subseteq {t}
           /\ count[RpSessionOf[t]] > 0 =>
              \E u \in RpTurns : RpSessionOf[u] = RpSessionOf[t] /\ halted[u] = "joining"

\* A turn that has begun is answered, or was stopped.
Answered == \A t \in RpTurns : turn[t] = "greet" ~> turn[t] \in {"done", "cut"}
=============================================================================
