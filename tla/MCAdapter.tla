----------------------------- MODULE MCAdapter ------------------------------
(* Instances for TLC of the parts of the WeCom adapter.  These parts share   *)
(* no state, so their runs are one run: part says which of them is checked,  *)
(* and the others stay as they began.                                        *)
EXTENDS Connection

CONSTANTS
    upload, reply,    \* a sender and a poster
    RpTurns, RpSessionOf, RpStoppable, RpExpiring, RpQueueMax, RpTransferCap, RpMaxLive,
    CbMsgs, CbKind, CbSession, CbPrivate, CbLruSize, CbMaxCallbacks,
    MtItems, MtQuoted, MtAttempts, MtChunk, MtMinSize, MtCap, MtSizes

\* The memory holds an id; the mark of an id that was not seen is none.
ASSUME CallbacksAssumption == CbLruSize \in Nat \ {0} /\ "never" \notin CbMsgs

\* A part is tried at least once; a chunk holds some bytes.
ASSUME MediaAssumption ==
    /\ {MtItems, MtQuoted} \subseteq Seq({"text", "image", "file", "video"})
    /\ MtAttempts \in Nat \ {0} /\ MtChunk \in Nat \ {0} /\ MtSizes \subseteq Nat

VARIABLES
    part,
    turn, beat, streams, expired, frames, window, rejects, count, live, wire, halted,
    direct, lru, allowed, busy, calls, stopped, queued, told, others, again, overlap,
    delivered,
    left, saved, settled, blocks, size, step, chunk, server

-----------------------------------------------------------------------------
(* The parts *)

\* The turns are of one session.
OneSession == [t \in RpTurns |-> "s1"]

Reply == INSTANCE Replies

\* A callback of every kind, most of them of one group, and two messages.
KindOf == [m1 |-> "text", m2 |-> "new", m3 |-> "stop", m4 |-> "text", m5 |-> "enter",
           m6 |-> "status", m7 |-> "running", m8 |-> "drop"]
SessionOf == [m1 |-> "g", m2 |-> "g", m3 |-> "g", m4 |-> "g", m5 |-> "p",
              m6 |-> "g", m7 |-> "p", m8 |-> "p"]

Callback == INSTANCE Callbacks

\* A mixed message that quotes another one.
Mixed  == <<"text", "image", "file", "image">>
Quoted == <<"text", "image">>

Media == INSTANCE MediaTransfer

-----------------------------------------------------------------------------
(* Their behaviours *)

rpAll == <<turn, beat, streams, expired, frames, window, rejects, count, live, wire, halted>>
cbAll == <<direct, lru, allowed, busy, calls, stopped, queued, told, others, again, overlap,
           delivered>>
mtAll == <<left, saved, settled, blocks, size, step, chunk, server>>
moving == <<vars, rpAll>>
AdVars == <<part, vars, rpAll, cbAll, mtAll>>

AdInit ==
    /\ part \in {"connection", "replies", "callbacks", "media"}
    /\ Init /\ Reply!RpInit /\ Callback!CbInit /\ Media!MtInit
    /\ part # "callbacks" => direct

AdNext ==
    /\ UNCHANGED part
    /\ \/ /\ part = "connection" /\ Next
          /\ UNCHANGED <<rpAll, cbAll, mtAll>>
       \/ /\ part = "replies" /\ Reply!RpNext
          /\ UNCHANGED <<vars, cbAll, mtAll>>
       \/ /\ part = "callbacks" /\ Callback!CbNext
          /\ UNCHANGED <<vars, rpAll, mtAll>>
       \/ /\ part = "media" /\ Media!MtNext
          /\ UNCHANGED <<vars, rpAll, cbAll>>

\* The fairness of Connection and of Replies.  Since part never changes, one
\* condition serves a step of either: that keeps their number small for TLC.
Fairly(replying, connecting) ==
    \/ part = "replies" /\ replying /\ UNCHANGED vars
    \/ part = "connection" /\ connecting /\ UNCHANGED rpAll
AdFairness ==
    /\ \A t \in RpTurns : /\ SF_moving(Fairly(Reply!TurnStep(t), Put(upload)))
                         /\ SF_moving(Fairly(Reply!BeatStep(t), Put(reply)))
    /\ WF_moving(Fairly(Reply!WriteFrame, Main))
    /\ WF_moving(Fairly(FALSE, WriterTakes \/ WriterSends \/ WriterFails))
    /\ WF_moving(Fairly(FALSE, ReaderEnds))
    /\ WF_moving(Fairly(FALSE, CloseEnds))
    /\ WF_moving(Fairly(FALSE, CallReturns(upload)))

AdSpec == AdInit /\ [][AdNext]_AdVars /\ AdFairness

-----------------------------------------------------------------------------
(* Their properties, each stated in the module of the part *)

\* What a turn leaves of its reply, its reactions and its count of rounds.
TurnsLeaveNothing == Reply!TurnsLeaveNothing

\* The frames of a reply, the closing one the last.
NothingFollowsTheClose == Reply!NothingFollowsTheClose

\* The busy mark, what the slash commands say, and callbacks that come twice.
CallbacksSound ==
    []Callback!BusyIsTrue /\ Callback!CommandsTellTheTruth /\ Callback!ReplaysAreDropped

\* The media of a message, in the order they were sent in.
MediaArrives == Media!MediaArrives

\* The connection comes back or closes, and turns are answered.
WaitsEnd == ConnectionLives /\ Reply!Answered
=============================================================================
