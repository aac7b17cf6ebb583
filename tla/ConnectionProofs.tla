--------------------------- MODULE ConnectionProofs --------------------------
(***************************************************************************)
(* Theorems about the adapter: about Connection for any senders, posters   *)
(* and capacity of the write queue; about Replies, MediaTransfer and       *)
(* Callbacks, as MCAdapter has them, for any turns, messages, files,       *)
(* clicks and limits.                                                      *)
(***************************************************************************)
EXTENDS MCAdapter, SequenceTheorems, WellFoundedInduction, FiniteSetTheorems, TLAPS

Queued(q, c) == \E i \in DOMAIN q : q[i] = c

\* put() on a queue with room.
LEMMA AppendFrame ==
    ASSUME NEW q \in Seq(Frames), NEW e \in Frames
    PROVE  /\ Append(q, e) \in Seq(Frames)
           /\ Len(Append(q, e)) = Len(q) + 1
           /\ \A c : Queued(Append(q, e), c) <=> c = e \/ Queued(q, c)
<1> DEFINE r == Append(q, e)
<1>1. /\ r \in Seq(Frames) /\ Len(r) = Len(q) + 1
      /\ \A i \in 1..Len(q) : r[i] = q[i]
      /\ r[Len(q) + 1] = e
  BY AppendProperties
<1>2. DOMAIN r = 1..(Len(q) + 1) /\ DOMAIN q = 1..Len(q) /\ Len(q) \in Nat
  BY <1>1
<1> HIDE DEF r
<1>3. \A c : Queued(r, c) <=> c = e \/ Queued(q, c)
  BY <1>1, <1>2 DEF Queued
<1> QED BY <1>1, <1>3 DEF r

\* get() on a queue that is not empty.
LEMMA TakeFrame ==
    ASSUME NEW q \in Seq(Frames), q # <<>>
    PROVE  /\ Head(q) \in Frames /\ Tail(q) \in Seq(Frames)
           /\ Len(Tail(q)) = Len(q) - 1
           /\ Queued(q, Head(q))
           /\ \A c : Queued(Tail(q), c) => Queued(q, c)
<1>1. /\ Head(q) \in Frames /\ Tail(q) \in Seq(Frames)
      /\ Len(Tail(q)) = Len(q) - 1
      /\ \A i \in 1..Len(Tail(q)) : Tail(q)[i] = q[i + 1]
  BY HeadTailProperties
<1>2. Len(q) \in Nat /\ Len(q) # 0 /\ DOMAIN q = 1..Len(q)
  BY EmptySeq
<1>3. Head(q) = q[1]
  OBVIOUS
<1>4. DOMAIN Tail(q) = 1..Len(Tail(q))
  BY <1>1
<1> QED BY <1>1, <1>2, <1>3, <1>4 DEF Queued

\* A frame is about when it is on the socket, in the writer's hand or queued.
LEMMA OutstandingAlt ==
    ASSUME NEW c
    PROVE  Outstanding(c) <=> c \in flying \/ c \in inHand \/ Queued(queue, c)
BY DEF Outstanding, Queued

-----------------------------------------------------------------------------
(* Type correctness *)

LEMMA TypeInit == Init => TypeOK
<1>1. <<>> \in Seq(Frames) /\ Len(<<>>) = 0 /\ 0 <= Capacity
  BY ConnectionAssumption
<1> QED BY <1>1 DEF Init, TypeOK, MainStates, CallerStates

LEMMA QueueTypes ==
    ASSUME TypeOK, NEW e \in Frames, ~Full
    PROVE  Append(queue, e) \in Seq(Frames) /\ Len(Append(queue, e)) <= Capacity
<1>1. Len(queue) \in Nat /\ Len(queue) <= Capacity /\ Len(queue) # Capacity
  BY DEF TypeOK, Full
<1> QED BY <1>1, AppendFrame, ConnectionAssumption DEF TypeOK

LEMMA TypeStep == TypeOK /\ [Next]_vars => TypeOK'
<1> SUFFICES ASSUME TypeOK, [Next]_vars PROVE TypeOK'
  OBVIOUS
<1> USE DEF TypeOK
<1>0. Callers \subseteq Frames /\ Senders \subseteq Callers /\ Ping \in Frames
  BY DEF Frames, Callers
<1>1. ASSUME Main PROVE TypeOK'
  <2>1. ASSUME OpenConnection PROVE TypeOK'
    <3>1. <<>> \in Seq(Frames) /\ Len(<<>>) = 0 /\ 0 <= Capacity
      BY ConnectionAssumption
    <3>2. pc' \in [Callers -> CallerStates]
      BY <2>1 DEF OpenConnection, CallerStates
    <3> QED BY <2>1, <3>1, <3>2 DEF OpenConnection, MainStates, taskVars
  <2>2. ASSUME \/ Connected \/ Subscribed \/ OpenFails \/ ConnectionDies
               \/ SocketClosed \/ WakeUp \/ LoopEnds
        PROVE  TypeOK'
    <3>1. /\ main' \in MainStates /\ ws' \in {"none", "open", "broken"}
          /\ UNCHANGED <<shutdown, dead, closer, inHand, queue, callVars, flying>>
      BY <2>2 DEF Connected, Subscribed, OpenFails, ConnectionDies, SocketClosed,
                  WakeUp, LoopEnds, AfterTearDown, MainStates, taskVars
    <3>2. /\ writer' \in {"dead", "get", "send"} /\ reader' \in BOOLEAN
          /\ heartbeat' \in {"dead", "sleep", "put"}
      BY <2>2 DEF Connected, Subscribed, OpenFails, ConnectionDies, SocketClosed,
                  WakeUp, LoopEnds, taskVars
    <3> QED BY <3>1, <3>2 DEF callVars
  <2>3. ASSUME TearDown PROVE TypeOK'
    BY <2>3 DEF TearDown, AfterTearDown, MainStates
  <2> QED BY <1>1, <2>1, <2>2, <2>3 DEF Main
<1>2. ASSUME WriterTakes PROVE TypeOK'
  <2>1. Head(queue) \in Frames /\ Tail(queue) \in Seq(Frames)
        /\ Len(Tail(queue)) = Len(queue) - 1
    BY <1>2, TakeFrame DEF WriterTakes
  <2>2. Len(Tail(queue)) <= Capacity
    BY <2>1, ConnectionAssumption
  <2> QED BY <1>2, <2>1, <2>2 DEF WriterTakes, callVars
<1>3. ASSUME WriterSends \/ WriterFails PROVE TypeOK'
  BY <1>3 DEF WriterSends, WriterFails, callVars
<1>4. ASSUME HeartbeatWakes \/ HeartbeatPuts PROVE TypeOK'
  <2>1. CASE Full
    BY <1>4, <2>1 DEF HeartbeatWakes, HeartbeatPuts, callVars
  <2>2. CASE ~Full
    <3>1. Append(queue, Ping) \in Seq(Frames) /\ Len(Append(queue, Ping)) <= Capacity
      BY <1>0, <2>2, QueueTypes
    <3> QED BY <1>4, <2>2, <3>1 DEF HeartbeatWakes, HeartbeatPuts, callVars
  <2> QED BY <2>1, <2>2
<1>5. ASSUME ReaderEnds \/ DisconnectedEvent PROVE TypeOK'
  BY <1>5 DEF ReaderEnds, DisconnectedEvent, taskVars, callVars
<1>6. ASSUME NEW c \in Senders, ReaderGetsAck(c) \/ CallReturns(c) PROVE TypeOK'
  BY <1>0, <1>6 DEF ReaderGetsAck, CallReturns, CallerStates, taskVars
<1>7. ASSUME NEW c \in Callers, Call(c) \/ Put(c) PROVE TypeOK'
  <2>1. CASE Full
    BY <1>7, <2>1 DEF Call, Put, CallerStates, taskVars
  <2>2. CASE ~Full
    <3>1. Append(queue, c) \in Seq(Frames) /\ Len(Append(queue, c)) <= Capacity
      BY <1>0, <2>2, QueueTypes
    <3> QED BY <1>7, <2>2, <3>1 DEF Call, Put, CallerStates, taskVars
  <2> QED BY <2>1, <2>2
<1>8. ASSUME Close \/ CloseEnds \/ SocketBreaks PROVE TypeOK'
  BY <1>8 DEF Close, CloseEnds, SocketBreaks, taskVars, callVars
<1>9. CASE UNCHANGED vars
  BY <1>9 DEF vars, taskVars, callVars
<1> QED BY <1>1, <1>2, <1>3, <1>4, <1>5, <1>6, <1>7, <1>8, <1>9 DEF Next, Tasks

\* The state of the connection, its tasks and its callers keeps its type; in
\* particular the write queue never holds more than WRITE_QUEUE_MAXSIZE frames.
THEOREM TypeCorrect == Spec => []TypeOK
BY TypeInit, TypeStep, PTL DEF Spec

-----------------------------------------------------------------------------
(* Tasks and sockets *)

LEMMA TasksStep == TypeOK /\ TasksServe /\ [Next]_vars => TasksServe'
<1> SUFFICES ASSUME TypeOK, TasksServe, [Next]_vars PROVE TasksServe'
  OBVIOUS
<1> USE DEF TasksServe
<1>1. ASSUME Main PROVE TasksServe'
  BY <1>1 DEF Main, OpenConnection, Connected, Subscribed, OpenFails,
     ConnectionDies, TearDown, SocketClosed, WakeUp, LoopEnds, AfterTearDown, taskVars
<1>2. ASSUME Tasks \/ HeartbeatWakes \/ DisconnectedEvent PROVE TasksServe'
  BY <1>2 DEF Tasks, WriterTakes, WriterSends, WriterFails, HeartbeatWakes,
     HeartbeatPuts, ReaderEnds, DisconnectedEvent, taskVars
<1>3. ASSUME NEW c \in Callers,
             (c \in Senders /\ (ReaderGetsAck(c) \/ CallReturns(c))) \/ Call(c) \/ Put(c)
      PROVE  TasksServe'
  BY <1>3 DEF ReaderGetsAck, CallReturns, Call, Put, taskVars
<1>4. ASSUME Close \/ CloseEnds \/ SocketBreaks PROVE TasksServe'
  BY <1>4 DEF Close, CloseEnds, SocketBreaks, taskVars
<1>5. CASE UNCHANGED vars
  BY <1>5 DEF vars, taskVars
<1> QED BY <1>1, <1>2, <1>3, <1>4, <1>5 DEF Next, Callers

LEMMA SocketStep == TypeOK /\ NoSocketLeaks /\ [Next]_vars => NoSocketLeaks'
<1> SUFFICES ASSUME TypeOK, NoSocketLeaks, [Next]_vars PROVE NoSocketLeaks'
  OBVIOUS
<1> USE DEF NoSocketLeaks
<1>1. ASSUME Main PROVE NoSocketLeaks'
  BY <1>1 DEF Main, OpenConnection, Connected, Subscribed, OpenFails,
     ConnectionDies, TearDown, SocketClosed, WakeUp, LoopEnds, AfterTearDown
<1>2. ASSUME Tasks \/ HeartbeatWakes \/ DisconnectedEvent PROVE NoSocketLeaks'
  BY <1>2 DEF Tasks, WriterTakes, WriterSends, WriterFails, HeartbeatWakes,
     HeartbeatPuts, ReaderEnds, DisconnectedEvent
<1>3. ASSUME NEW c, ReaderGetsAck(c) \/ CallReturns(c) \/ Call(c) \/ Put(c)
      PROVE  NoSocketLeaks'
  BY <1>3 DEF ReaderGetsAck, CallReturns, Call, Put
<1>4. ASSUME Close \/ CloseEnds \/ SocketBreaks PROVE NoSocketLeaks'
  BY <1>4 DEF Close, CloseEnds, SocketBreaks
<1>5. CASE UNCHANGED vars
  BY <1>5 DEF vars
<1> QED BY <1>1, <1>2, <1>3, <1>4, <1>5 DEF Next

\* No task outlives its connection, whenever the connection dies, is refused,
\* or close() is called.
THEOREM TasksAreOfTheConnection == Spec => []TasksServe
<1>1. Init => TasksServe
  BY DEF Init, TasksServe
<1> QED BY <1>1, TypeCorrect, TasksStep, PTL DEF Spec

\* No socket is left open between connections or when run_forever returns.
THEOREM SocketsAreClosed == Spec => []NoSocketLeaks
<1>1. Init => NoSocketLeaks
  BY DEF Init, NoSocketLeaks
<1> QED BY <1>1, TypeCorrect, SocketStep, PTL DEF Spec

-----------------------------------------------------------------------------
(* Answers *)

\* What decides whether callers can be answered, and does not change in most
\* steps.
answerVars == <<pc, fut, pending, flying, inHand, queue>>

\* A step that leaves the callers and their frames alone, and leaves a
\* connection only where nothing has been written, keeps both invariants.
LEMMA Quiet ==
    ASSUME AnswerCanCome, PendingInv, UNCHANGED answerVars,
           main \in {"serving", "teardown"} => main' \in {"serving", "teardown"}
    PROVE  AnswerCanCome' /\ PendingInv'
BY DEF AnswerCanCome, PendingInv, Outstanding, answerVars

LEMMA OpenKeepsAnswers ==
    ASSUME IInv, OpenConnection
    PROVE  AnswerCanCome' /\ PendingInv'
<1>1. /\ main = "loop" /\ flying' = {} /\ queue' = <<>> /\ inHand' = inHand
      /\ fut' = fut /\ inHand = {}
      /\ pc' = [c \in Callers |->
                  IF pc[c] = "putting" THEN "stranded" ELSE pc[c]]
  BY DEF OpenConnection, taskVars, IInv, TasksServe
<1>2. \A c : ~Outstanding(c)'
  <2>1. DOMAIN <<>> = {}
    OBVIOUS
  <2> QED BY <1>1, <2>1 DEF Outstanding
<1>3. \A c \in Senders : pc'[c] # "putting"
  BY <1>1 DEF Callers
<1> QED BY <1>1, <1>2, <1>3 DEF AnswerCanCome, PendingInv

LEMMA TearDownKeepsAnswers ==
    ASSUME IInv, TearDown
    PROVE  AnswerCanCome' /\ PendingInv'
<1>1. /\ pc' = pc /\ flying' = flying /\ queue' = queue /\ inHand' = {}
      /\ fut' = [c \in Senders |->
                   IF c \in pending /\ fut[c] = "open" THEN "error" ELSE fut[c]]
  BY DEF TearDown
<1>2. \A c \in Senders : fut'[c] = "open" => fut[c] = "open" /\ c \notin pending
  BY <1>1
<1>3. \A c : Outstanding(c)' => Outstanding(c)
  BY <1>1 DEF Outstanding
<1>4. \A c \in flying : c \in Senders
  BY DEF IInv, TypeOK
<1>5. AnswerCanCome'
  BY <1>1, <1>2, <1>4 DEF IInv, AnswerCanCome
<1>6. PendingInv'
  BY <1>1, <1>2, <1>3 DEF IInv, PendingInv
<1> QED BY <1>5, <1>6

\* The writer moves a frame from the queue to its hand and on to the socket.
LEMMA WriterKeepsAnswers ==
    ASSUME IInv, WriterTakes \/ WriterSends \/ WriterFails
    PROVE  AnswerCanCome' /\ PendingInv'
<1>1. pc' = pc /\ fut' = fut /\ pending' = pending /\ main' = main
  BY DEF WriterTakes, WriterSends, WriterFails, callVars
<1>2. \A c \in Senders : Outstanding(c)' => Outstanding(c)
  <2>1. CASE WriterTakes
    <3>1. /\ flying' = flying /\ inHand' = {Head(queue)} /\ queue' = Tail(queue)
          /\ queue # <<>> /\ queue \in Seq(Frames)
      BY <2>1 DEF WriterTakes, callVars, IInv, TypeOK
    <3>2. \A c : Queued(queue', c) \/ c \in inHand' => Queued(queue, c)
      BY <3>1, TakeFrame
    <3> QED BY <3>1, <3>2 DEF Outstanding, Queued
  <2>2. CASE WriterSends
    BY <2>2 DEF WriterSends, callVars, Outstanding
  <2>3. CASE WriterFails
    BY <2>3 DEF WriterFails, callVars, Outstanding
  <2> QED BY <2>1, <2>2, <2>3
<1>3. PendingInv'
  BY <1>1, <1>2 DEF IInv, PendingInv
<1>4. AnswerCanCome'
  <2>1. CASE WriterSends
    <3>1. main \in {"serving", "teardown"}
      BY <2>1 DEF WriterSends, IInv, TasksServe
    <3>2. \A c \in flying' : c \in Senders /\ Outstanding(c)
      BY <2>1 DEF WriterSends, Outstanding, IInv, TypeOK
    <3> QED BY <1>1, <3>1, <3>2 DEF AnswerCanCome, IInv, PendingInv
  <2>2. CASE WriterTakes \/ WriterFails
    <3>1. flying' = flying
      BY <2>2 DEF WriterTakes, WriterFails, callVars
    <3> QED BY <1>1, <3>1 DEF AnswerCanCome, IInv
  <2> QED BY <2>1, <2>2
<1> QED BY <1>3, <1>4

\* A ping is nobody's request.
LEMMA PingKeepsAnswers ==
    ASSUME IInv, HeartbeatWakes \/ HeartbeatPuts
    PROVE  AnswerCanCome' /\ PendingInv'
<1>1. /\ pc' = pc /\ fut' = fut /\ pending' = pending /\ main' = main
      /\ flying' = flying /\ inHand' = inHand
      /\ queue' = queue \/ queue' = Append(queue, Ping)
  BY DEF HeartbeatWakes, HeartbeatPuts, callVars
<1>2. \A c \in Senders : Outstanding(c)' => Outstanding(c)
  <2>1. Ping \in Frames /\ queue \in Seq(Frames)
    BY DEF Frames, IInv, TypeOK
  <2>2. \A c \in Senders : Queued(queue', c) => Queued(queue, c)
    BY <1>1, <2>1, AppendFrame, ConnectionAssumption DEF Callers
  <2> QED BY <1>1, <2>2 DEF Outstanding, Queued
<1> QED BY <1>1, <1>2 DEF IInv, AnswerCanCome, PendingInv

LEMMA AckKeepsAnswers ==
    ASSUME IInv, NEW d \in Senders, ReaderGetsAck(d)
    PROVE  AnswerCanCome' /\ PendingInv'
<1>1. /\ d \in flying /\ flying' = flying \ {d} /\ pending' = pending \ {d}
      /\ pc' = pc /\ queue' = queue /\ inHand' = inHand /\ main' = main
      /\ fut' = [fut EXCEPT ![d] =
                   IF d \in pending /\ fut[d] = "open" THEN "result" ELSE fut[d]]
  BY DEF ReaderGetsAck, taskVars
<1>2. \A c \in Senders : c # d => fut'[c] = fut[c]
  BY <1>1 DEF IInv, TypeOK
<1>3. fut'[d] = "open" => fut[d] = "open" /\ d \notin pending
  BY <1>1 DEF IInv, TypeOK
<1>4. \A c : Outstanding(c)' => Outstanding(c)
  BY <1>1 DEF Outstanding
<1>5. Outstanding(d) /\ flying \subseteq Senders
  BY <1>1 DEF Outstanding, IInv, TypeOK
<1>6. AnswerCanCome'
  BY <1>1, <1>2, <1>5 DEF IInv, AnswerCanCome
<1>7. PendingInv'
  BY <1>1, <1>2, <1>3, <1>4, <1>5 DEF IInv, PendingInv
<1> QED BY <1>6, <1>7

LEMMA CallKeepsAnswers ==
    ASSUME IInv, NEW d \in Callers, Call(d)
    PROVE  AnswerCanCome' /\ PendingInv'
<1>1. /\ pc[d] = "idle" /\ flying' = flying /\ inHand' = inHand /\ main' = main
      /\ d \in Senders => ~Outstanding(d)
      /\ pending' = pending \cup ({d} \cap Senders)
      /\ fut' = IF d \in Senders THEN [fut EXCEPT ![d] = "open"] ELSE fut
  BY DEF Call, taskVars
<1>2. /\ d \in Frames /\ queue \in Seq(Frames) /\ flying \subseteq Senders
      /\ Senders \subseteq Callers
  BY DEF Frames, Callers, IInv, TypeOK
<1>3. \A c \in Senders : c # d => pc'[c] = pc[c] /\ fut'[c] = fut[c]
  BY <1>1 DEF Call, IInv, TypeOK, Callers
<1>4. \A c \in Senders : c # d => (Outstanding(c)' <=> Outstanding(c))
  <2>1. queue' = queue \/ queue' = Append(queue, d)
    BY DEF Call
  <2>2. \A c : c # d => (Queued(queue', c) <=> Queued(queue, c))
    BY <1>2, <2>1, AppendFrame
  <2> QED BY <1>1, <2>2 DEF Outstanding, Queued
<1>5. d \in Senders => d \in pending' /\ d \notin flying
  BY <1>1 DEF Outstanding
<1>6. d \in Senders /\ pc'[d] = "putting" => ~Outstanding(d)'
  <2> SUFFICES ASSUME d \in Senders, pc'[d] = "putting" PROVE queue' = queue
    BY <1>1 DEF Outstanding
  <2> QED BY <1>2 DEF Call, IInv, TypeOK
<1>7. AnswerCanCome'
  BY <1>1, <1>2, <1>3, <1>5 DEF IInv, AnswerCanCome
<1>8. PendingInv'
  BY <1>1, <1>3, <1>4, <1>5, <1>6 DEF IInv, PendingInv
<1> QED BY <1>7, <1>8

LEMMA PutKeepsAnswers ==
    ASSUME IInv, NEW d \in Callers, Put(d)
    PROVE  AnswerCanCome' /\ PendingInv'
<1>1. /\ pc[d] = "putting" /\ flying' = flying /\ inHand' = inHand /\ main' = main
      /\ pending' = pending /\ fut' = fut /\ queue' = Append(queue, d)
      /\ pc' = [pc EXCEPT ![d] = IF d \in Senders THEN "waiting" ELSE "idle"]
  BY DEF Put, taskVars
<1>2. /\ d \in Frames /\ queue \in Seq(Frames) /\ flying \subseteq Senders
      /\ Senders \subseteq Callers
  BY DEF Frames, Callers, IInv, TypeOK
<1>3. \A c \in Senders : c # d => pc'[c] = pc[c]
  BY <1>1, <1>2 DEF IInv, TypeOK
<1>4. \A c \in Senders : c # d => (Outstanding(c)' <=> Outstanding(c))
  <2>1. \A c : c # d => (Queued(queue', c) <=> Queued(queue, c))
    BY <1>1, <1>2, AppendFrame
  <2> QED BY <1>1, <2>1 DEF Outstanding, Queued
<1>5. d \in Senders => /\ pc'[d] = "waiting" /\ d \notin flying
                       /\ fut[d] = "open" => d \in pending
  BY <1>1, <1>2 DEF IInv, TypeOK, PendingInv, Outstanding
<1>6. AnswerCanCome'
  BY <1>1, <1>2, <1>3, <1>5 DEF IInv, AnswerCanCome
<1>7. PendingInv'
  BY <1>1, <1>3, <1>4, <1>5 DEF IInv, PendingInv
<1> QED BY <1>6, <1>7

LEMMA ReturnKeepsAnswers ==
    ASSUME IInv, NEW d \in Senders, CallReturns(d)
    PROVE  AnswerCanCome' /\ PendingInv'
<1>1. /\ flying' = flying /\ inHand' = inHand /\ main' = main /\ queue' = queue
      /\ pending' = pending \ {d}
      /\ pc' = [pc EXCEPT ![d] = "idle"] /\ fut' = [fut EXCEPT ![d] = "none"]
  BY DEF CallReturns, taskVars
<1>2. /\ pc'[d] = "idle"
      /\ \A c \in Senders : c # d => pc'[c] = pc[c] /\ fut'[c] = fut[c]
      /\ flying \subseteq Senders
  BY <1>1 DEF IInv, TypeOK, Callers
<1>3. \A c : Outstanding(c)' <=> Outstanding(c)
  BY <1>1 DEF Outstanding
<1>4. AnswerCanCome'
  BY <1>1, <1>2 DEF IInv, AnswerCanCome
<1>5. PendingInv'
  BY <1>1, <1>2, <1>3 DEF IInv, PendingInv
<1> QED BY <1>4, <1>5

\* IInv is an inductive invariant of the connection.
THEOREM ConnectionInvariant == Spec => []IInv
<1>1. Init => IInv
  <2> SUFFICES ASSUME Init PROVE IInv
    OBVIOUS
  <2>1. AnswerCanCome /\ PendingInv
    BY DEF Init, AnswerCanCome, PendingInv, Callers
  <2> QED BY <2>1, TypeInit DEF IInv, Init, TasksServe, NoSocketLeaks
<1>2. IInv /\ [Next]_vars => AnswerCanCome' /\ PendingInv'
  <2> SUFFICES ASSUME IInv, [Next]_vars PROVE AnswerCanCome' /\ PendingInv'
    OBVIOUS
  <2>1. ASSUME \/ Connected \/ Subscribed \/ OpenFails \/ ConnectionDies
               \/ SocketClosed \/ WakeUp \/ LoopEnds
        PROVE  AnswerCanCome' /\ PendingInv'
    BY <2>1, Quiet DEF Connected, Subscribed, OpenFails, ConnectionDies,
       SocketClosed, WakeUp, LoopEnds, taskVars, callVars, answerVars, IInv
  <2>2. ASSUME \/ ReaderEnds \/ DisconnectedEvent \/ Close \/ CloseEnds
               \/ SocketBreaks \/ UNCHANGED vars
        PROVE  AnswerCanCome' /\ PendingInv'
    BY <2>2, Quiet DEF ReaderEnds, DisconnectedEvent, Close, CloseEnds,
       SocketBreaks, vars, taskVars, callVars, answerVars, IInv
  <2> QED BY <2>1, <2>2, OpenKeepsAnswers, TearDownKeepsAnswers,
             WriterKeepsAnswers, PingKeepsAnswers, AckKeepsAnswers,
             CallKeepsAnswers, PutKeepsAnswers, ReturnKeepsAnswers
          DEF Next, Main, Tasks
<1>3. IInv /\ [Next]_vars => IInv'
  BY <1>2, TypeStep, TasksStep, SocketStep DEF IInv
<1> QED BY <1>1, <1>3, PTL DEF Spec

\* Nobody waits for the answer to a frame that was written on a connection
\* that is gone: the tear-down has failed its future.
THEOREM AnswersCanCome == Spec => []AnswerCanCome
BY ConnectionInvariant, PTL DEF IInv

\* Whatever breaks, reconnects and closes in between, the tasks, the socket and
\* the futures are those of one connection.
THEOREM ConnectionIsSound == Spec => []ConnectionSound
<1>1. IInv => ConnectionSound
  BY DEF IInv, ConnectionSound
<1> QED BY <1>1, ConnectionInvariant, PTL

-----------------------------------------------------------------------------
(* Replies: a step of MCAdapter, seen from the turns *)

LEMMA RpSteps == [AdNext]_AdVars => Reply!RpNext \/ UNCHANGED rpAll
BY DEF AdNext, AdVars

TurnActive == {"greet", "work", "push", "join", "close", "answer", "post", "unwind"}
Counting == {"work", "push", "join", "unwind"}
Halts == {"no", "yes", "joining"}

RpTypes ==
    /\ turn \in [RpTurns -> Reply!TurnStates]
    /\ beat \in [RpTurns -> {"none", "sleep", "push", "over"}]
    /\ count \in [Reply!RpSessions -> Nat]
    /\ halted \in [RpTurns -> Halts]
    /\ wire \in [RpTurns -> {"none", "spin", "live", "close", "answer"}]
    /\ expired \subseteq RpTurns

\* What a turn and its heartbeat have let go of, by where the turn stands.
TurnInv(t) ==
    /\ turn[t] \in {"new", "greet"} => beat[t] = "none"
    /\ turn[t] \in {"close", "answer", "post", "done"} =>
          beat[t] \in {"none", "over"} /\ t \notin streams
    /\ turn[t] \in {"post", "done"} => wire[t] = "answer"
    /\ wire[t] = "close" => turn[t] \in {"answer", "cut"} /\ beat[t] \in {"none", "over"}
    /\ wire[t] = "answer" => turn[t] \in {"post", "done", "cut"} /\ beat[t] \in {"none", "over"}
    /\ turn[t] \in {"unwind", "cut"} => halted[t] # "no"
    /\ halted[t] = "joining" => turn[t] = "cut"

\* A counted transfer is one of a turn at work, or of one stopped while joining.
CountInv(s) ==
    count[s] > 0 =>
        \E t \in RpTurns : RpSessionOf[t] = s
                           /\ (turn[t] \in Counting \/ halted[t] = "joining")

RpInv == RpTypes /\ (\A t \in RpTurns : TurnInv(t)) /\ (\A s \in Reply!RpSessions : CountInv(s))

LEMMA RpBegins == AdInit => RpInv
<1> SUFFICES ASSUME AdInit PROVE RpInv
  OBVIOUS
<1>1. /\ turn = [t \in RpTurns |-> "new"] /\ beat = [t \in RpTurns |-> "none"]
      /\ count = [s \in Reply!RpSessions |-> 0] /\ halted = [t \in RpTurns |-> "no"]
      /\ wire = [t \in RpTurns |-> "none"] /\ expired = {}
  BY DEF AdInit, Reply!RpInit
<1>2. RpTypes
  BY <1>1 DEF RpTypes, Reply!TurnStates, Halts
<1>3. ASSUME NEW t \in RpTurns PROVE TurnInv(t)
  BY <1>1 DEF TurnInv
<1>4. ASSUME NEW s \in Reply!RpSessions PROVE CountInv(s)
  BY <1>1 DEF CountInv
<1> QED BY <1>2, <1>3, <1>4 DEF RpInv

\* A turn whose own variables stay keeps its part; so does a session.
LEMMA TurnStays ==
    ASSUME NEW t \in RpTurns, TurnInv(t),
           turn'[t] = turn[t], beat'[t] = beat[t], wire'[t] = wire[t],
           halted'[t] = halted[t], t \in streams' => t \in streams
    PROVE  TurnInv(t)'
BY DEF TurnInv

LEMMA SessionStays ==
    ASSUME NEW s \in Reply!RpSessions, CountInv(s),
           count'[s] = count[s] \/ count'[s] = 0,
           \A t \in RpTurns : RpSessionOf[t] = s =>
               /\ turn[t] \in Counting => turn'[t] \in Counting \/ halted'[t] = "joining"
               /\ halted[t] = "joining" => halted'[t] = "joining"
    PROVE  CountInv(s)'
BY DEF CountInv

\* A frame is queued: only what is last on the wire of its turn changes.
LEMMA FrameQueued ==
    ASSUME RpTypes, NEW t \in RpTurns, NEW kind, Reply!Enqueue(t, kind)
    PROVE  wire' = [wire EXCEPT ![t] = kind]
BY DEF Reply!Enqueue

LEMMA RpTurnKeeps ==
    ASSUME RpInv, NEW t \in RpTurns,
           \/ Reply!BeginTurn(t) \/ Reply!StartPush(t) \/ Reply!Greet(t) \/ Reply!EndPush(t)
           \/ Reply!EndWork(t) \/ Reply!CloseStream(t) \/ Reply!SendAnswer(t) \/ Reply!EndTurn(t)
    PROVE  RpInv'
<1>1. RpTypes /\ TurnInv(t) /\ turn[t] \in Reply!TurnStates /\ beat[t] \in {"none", "sleep", "push", "over"}
  BY DEF RpInv, RpTypes
<1>2. /\ count' = count /\ halted' = halted /\ expired' = expired
      /\ \E to \in Reply!TurnStates :
            /\ turn' = [turn EXCEPT ![t] = to]
            /\ turn[t] \in Counting => to \in Counting
  BY DEF Reply!BeginTurn, Reply!StartPush, Reply!Greet, Reply!EndPush, Reply!EndWork,
         Reply!CloseStream, Reply!SendAnswer, Reply!EndTurn, Reply!TurnStates, Counting
<1>3. PICK to \in Reply!TurnStates :
        turn' = [turn EXCEPT ![t] = to] /\ (turn[t] \in Counting => to \in Counting)
  BY <1>2
<1>4. PICK w \in {"none", "spin", "live", "close", "answer"} : wire' = [wire EXCEPT ![t] = w]
  <2>1. CASE wire' = wire
    BY <1>1, <2>1 DEF RpTypes
  <2>2. CASE wire' # wire
    BY <2>2 DEF Reply!BeginTurn, Reply!StartPush, Reply!Greet, Reply!EndPush, Reply!EndWork,
         Reply!CloseStream, Reply!SendAnswer, Reply!EndTurn, Reply!Enqueue
  <2> QED BY <2>1, <2>2
<1>5. PICK b \in {"none", "sleep", "push", "over"} : beat' = [beat EXCEPT ![t] = b]
  <2>1. CASE beat' = beat
    BY <1>1, <2>1 DEF RpTypes
  <2>2. CASE beat' # beat
    BY <2>2 DEF Reply!BeginTurn, Reply!StartPush, Reply!Greet, Reply!EndPush, Reply!EndWork,
         Reply!CloseStream, Reply!SendAnswer, Reply!EndTurn
  <2> QED BY <2>1, <2>2
<1>6. streams' \subseteq streams \cup {t}
  BY DEF Reply!BeginTurn, Reply!StartPush, Reply!Greet, Reply!EndPush, Reply!EndWork,
         Reply!CloseStream, Reply!SendAnswer, Reply!EndTurn
<1>7. RpTypes'
  BY <1>1, <1>2, <1>3, <1>4, <1>5 DEF RpTypes
<1>8. /\ turn'[t] = to /\ wire'[t] = w /\ beat'[t] = b /\ halted'[t] = halted[t]
      /\ \A u \in RpTurns \ {t} : turn'[u] = turn[u] /\ wire'[u] = wire[u] /\ beat'[u] = beat[u]
  BY <1>1, <1>2, <1>3, <1>4, <1>5 DEF RpTypes
<1>9. TurnInv(t)'
  <2> USE <1>1, <1>8 DEF TurnInv, RpTypes
  <2>1. CASE Reply!BeginTurn(t)
    BY <2>1 DEF Reply!BeginTurn
  <2>2. CASE Reply!StartPush(t)
    BY <2>2 DEF Reply!StartPush
  <2>3. CASE Reply!Greet(t)
    BY <2>3 DEF Reply!Greet, Reply!Enqueue
  <2>4. CASE Reply!EndPush(t)
    BY <2>4 DEF Reply!EndPush, Reply!Enqueue
  <2>5. CASE Reply!EndWork(t)
    BY <2>5 DEF Reply!EndWork
  <2>6. CASE Reply!CloseStream(t)
    BY <2>6 DEF Reply!CloseStream, Reply!Enqueue
  <2>7. CASE Reply!SendAnswer(t)
    BY <2>7 DEF Reply!SendAnswer, Reply!Enqueue
  <2>8. CASE Reply!EndTurn(t)
    BY <2>8 DEF Reply!EndTurn
  <2> QED BY <2>1, <2>2, <2>3, <2>4, <2>5, <2>6, <2>7, <2>8
<1>10. ASSUME NEW u \in RpTurns PROVE TurnInv(u)'
  BY <1>2, <1>6, <1>8, <1>9, TurnStays DEF RpInv
<1>11. ASSUME NEW s \in Reply!RpSessions PROVE CountInv(s)'
  <2>1. \A u \in RpTurns : (turn[u] \in Counting => turn'[u] \in Counting)
    BY <1>3, <1>8
  <2> QED BY <1>2, <2>1, SessionStays DEF RpInv
<1> QED BY <1>7, <1>10, <1>11 DEF RpInv

\* The counters of the session are reset when a turn is over.
LEMMA JoinedKeeps ==
    ASSUME RpInv, NEW t \in RpTurns, Reply!Joined(t) \/ Reply!Unwound(t)
    PROVE  RpInv'
<1> DEFINE s0 == RpSessionOf[t]
<1>1. RpTypes /\ TurnInv(t) /\ s0 \in Reply!RpSessions
  BY DEF RpInv, Reply!RpSessions
<1>2. /\ count' = [count EXCEPT ![s0] = 0] /\ beat' = beat /\ wire' = wire /\ halted' = halted
      /\ beat[t] \in {"none", "over"} /\ streams' \subseteq streams /\ expired' = expired
  BY DEF Reply!Joined, Reply!Unwound, Reply!BeginFinish
<1>3. PICK to \in {"answer", "close", "cut"} : turn' = [turn EXCEPT ![t] = to]
  BY DEF Reply!Joined, Reply!Unwound, Reply!BeginFinish
<1>4. \/ turn[t] = "join" /\ to \in {"answer", "close"} /\ t \notin streams'
      \/ turn[t] = "unwind" /\ to = "cut"
  BY <1>1, <1>3 DEF Reply!Joined, Reply!Unwound, Reply!BeginFinish, RpTypes
<1>5. RpTypes'
  BY <1>1, <1>2, <1>3 DEF RpTypes, Reply!TurnStates
<1>6. /\ turn'[t] = to
      /\ \A u \in RpTurns \ {t} : turn'[u] = turn[u]
  BY <1>1, <1>3 DEF RpTypes
<1>7. TurnInv(t)'
  BY <1>1, <1>2, <1>4, <1>6 DEF TurnInv
<1>8. ASSUME NEW u \in RpTurns PROVE TurnInv(u)'
  BY <1>2, <1>6, <1>7, TurnStays DEF RpInv
<1>9. ASSUME NEW s \in Reply!RpSessions PROVE CountInv(s)'
  <2>1. CASE s = s0
    <3>1. count'[s] = 0
      BY <1>1, <1>2, <2>1 DEF RpTypes
    <3> QED BY <3>1 DEF CountInv
  <2>2. CASE s # s0
    <3>1. count'[s] = count[s]
      BY <1>1, <1>2, <2>2 DEF RpTypes
    <3>2. \A u \in RpTurns : RpSessionOf[u] = s => turn'[u] = turn[u]
      BY <1>6, <2>2
    <3> QED BY <1>2, <3>1, <3>2, SessionStays DEF RpInv
  <2> QED BY <2>1, <2>2
<1> QED BY <1>5, <1>8, <1>9 DEF RpInv

\* /stop: a turn at work goes to its finally, one in its finally has skipped it.
LEMMA StopKeeps ==
    ASSUME RpInv, NEW t \in RpTurns, Reply!Stop(t)
    PROVE  RpInv'
<1> DEFINE to == IF turn[t] \in {"work", "push"} THEN "unwind" ELSE "cut"
           h == IF turn[t] \in {"join", "unwind"} THEN "joining" ELSE "yes"
<1>1. RpTypes /\ TurnInv(t) /\ turn[t] \notin {"new", "done", "cut"}
  BY DEF RpInv, Reply!Stop
<1>2. /\ turn' = [turn EXCEPT ![t] = to] /\ halted' = [halted EXCEPT ![t] = h]
      /\ beat' = IF turn[t] \in {"join", "unwind"} /\ beat[t] # "none"
                 THEN [beat EXCEPT ![t] = "over"] ELSE beat
      /\ streams' = streams /\ wire' = wire /\ count' = count /\ expired' = expired
  BY <1>1 DEF Reply!Stop, RpTypes
<1>3. to \in {"unwind", "cut"} /\ h \in {"yes", "joining"}
  OBVIOUS
<1>4. RpTypes'
  <2>1. turn' \in [RpTurns -> Reply!TurnStates]
    BY <1>1, <1>2, <1>3 DEF RpTypes, Reply!TurnStates
  <2>2. halted' \in [RpTurns -> Halts]
    BY <1>1, <1>2, <1>3 DEF RpTypes, Halts
  <2>3. beat' \in [RpTurns -> {"none", "sleep", "push", "over"}]
    BY <1>1, <1>2 DEF RpTypes
  <2> QED BY <1>1, <1>2, <2>1, <2>2, <2>3 DEF RpTypes
<1>5. /\ turn'[t] = to /\ halted'[t] = h
      /\ beat[t] \in {"none", "over"} => beat'[t] \in {"none", "over"}
      /\ \A u \in RpTurns \ {t} :
            turn'[u] = turn[u] /\ halted'[u] = halted[u] /\ beat'[u] = beat[u]
  BY <1>1, <1>2 DEF RpTypes
<1>6. TurnInv(t)'
  BY <1>1, <1>2, <1>5 DEF TurnInv
<1>7. ASSUME NEW u \in RpTurns PROVE TurnInv(u)'
  BY <1>2, <1>5, <1>6, TurnStays DEF RpInv
<1>8. ASSUME NEW s \in Reply!RpSessions PROVE CountInv(s)'
  <2>1. turn[t] \in Counting => turn'[t] \in Counting \/ halted'[t] = "joining"
    BY <1>5 DEF Counting
  <2>2. halted[t] = "joining" => halted'[t] = "joining"
    BY <1>1 DEF TurnInv
  <2>3. \A u \in RpTurns :
           /\ turn[u] \in Counting => turn'[u] \in Counting \/ halted'[u] = "joining"
           /\ halted[u] = "joining" => halted'[u] = "joining"
    BY <1>5, <2>1, <2>2
  <2> QED BY <1>2, <2>3, SessionStays DEF RpInv
<1> QED BY <1>4, <1>7, <1>8 DEF RpInv

LEMMA TransferKeeps ==
    ASSUME RpInv, NEW t \in RpTurns, Reply!TransferTurn(t)
    PROVE  RpInv'
<1> DEFINE s0 == RpSessionOf[t]
<1>1. RpTypes /\ s0 \in Reply!RpSessions /\ turn[t] = "work"
  BY DEF RpInv, Reply!RpSessions, Reply!TransferTurn
<1>2. /\ count' = [count EXCEPT ![s0] = @ + 1] /\ turn' = turn /\ beat' = beat
      /\ wire' = wire /\ halted' = halted /\ streams' = streams /\ expired' = expired
  BY DEF Reply!TransferTurn
<1>3. RpTypes'
  BY <1>1, <1>2 DEF RpTypes
<1>4. ASSUME NEW u \in RpTurns PROVE TurnInv(u)'
  BY <1>2, TurnStays DEF RpInv
<1>5. ASSUME NEW s \in Reply!RpSessions PROVE CountInv(s)'
  <2>1. CASE s = s0
    BY <1>1, <1>2, <2>1 DEF CountInv, Counting
  <2>2. CASE s # s0
    <3>1. count'[s] = count[s]
      BY <1>1, <1>2, <2>2 DEF RpTypes
    <3> QED BY <1>2, <3>1, SessionStays DEF RpInv
  <2> QED BY <2>1, <2>2
<1> QED BY <1>3, <1>4, <1>5 DEF RpInv

\* The heartbeat writes only while it has not been told to stop.
LEMMA BeatKeeps ==
    ASSUME RpInv, NEW t \in RpTurns,
           Reply!BeatWakes(t) \/ Reply!BeatPuts(t) \/ Reply!BeatStops(t)
    PROVE  RpInv'
<1>1. RpTypes /\ TurnInv(t) /\ beat[t] \in {"sleep", "push"} /\ turn[t] \in Reply!TurnStates
  BY DEF RpInv, RpTypes, Reply!BeatWakes, Reply!BeatPuts, Reply!BeatStops
<1>2. /\ turn' = turn /\ count' = count /\ halted' = halted /\ streams' = streams
      /\ expired' = expired
  BY DEF Reply!BeatWakes, Reply!BeatPuts, Reply!BeatStops
<1>3. PICK b \in {"sleep", "push", "over"} : beat' = [beat EXCEPT ![t] = b]
  BY DEF Reply!BeatWakes, Reply!BeatPuts, Reply!BeatStops
<1>4. PICK w \in {wire[t], "live"} : wire' = [wire EXCEPT ![t] = w]
  BY <1>1 DEF Reply!BeatWakes, Reply!BeatPuts, Reply!BeatStops, Reply!Enqueue, RpTypes
<1>5. RpTypes'
  BY <1>1, <1>2, <1>3, <1>4 DEF RpTypes
<1>6. /\ turn'[t] = turn[t] /\ halted'[t] = halted[t] /\ beat'[t] = b /\ wire'[t] = w
      /\ \A u \in RpTurns \ {t} : beat'[u] = beat[u] /\ wire'[u] = wire[u]
  BY <1>1, <1>2, <1>3, <1>4 DEF RpTypes
<1>7. turn[t] \notin {"new", "greet", "close", "answer", "post", "done"}
      /\ wire[t] \notin {"close", "answer"}
  BY <1>1 DEF TurnInv
<1>8. TurnInv(t)'
  BY <1>1, <1>2, <1>4, <1>6, <1>7 DEF TurnInv
<1>9. ASSUME NEW u \in RpTurns PROVE TurnInv(u)'
  BY <1>2, <1>6, <1>8, TurnStays DEF RpInv
<1>10. ASSUME NEW s \in Reply!RpSessions PROVE CountInv(s)'
  BY <1>2, SessionStays DEF RpInv
<1> QED BY <1>5, <1>9, <1>10 DEF RpInv

\* The writer, WeCom and its rejections move neither turns nor heartbeats.
LEMMA OutsideKeeps ==
    ASSUME RpInv, UNCHANGED <<turn, beat, streams, count, wire, halted>>,
           expired' \subseteq RpTurns
    PROVE  RpInv'
<1>1. RpTypes'
  BY DEF RpInv, RpTypes
<1>2. ASSUME NEW u \in RpTurns PROVE TurnInv(u)'
  BY TurnStays DEF RpInv
<1>3. ASSUME NEW s \in Reply!RpSessions PROVE CountInv(s)'
  BY SessionStays DEF RpInv
<1> QED BY <1>1, <1>2, <1>3 DEF RpInv

LEMMA RpStepKeeps == RpInv /\ [AdNext]_AdVars => RpInv'
<1> SUFFICES ASSUME RpInv, [AdNext]_AdVars PROVE RpInv'
  OBVIOUS
<1>0. expired \subseteq RpTurns
  BY DEF RpInv, RpTypes
<1>1. CASE UNCHANGED rpAll
  BY <1>0, <1>1, OutsideKeeps DEF rpAll
<1>2. ASSUME NEW t \in RpTurns,
             \/ Reply!BeginTurn(t) \/ Reply!StartPush(t) \/ Reply!TransferTurn(t)
             \/ Reply!TurnStep(t) \/ Reply!BeatWakes(t) \/ Reply!BeatStep(t)
             \/ Reply!Stop(t) \/ Reply!Rejected(t) \/ Reply!WindowCloses(t)
      PROVE  RpInv'
  <2>1. CASE \/ Reply!BeginTurn(t) \/ Reply!StartPush(t) \/ Reply!Greet(t)
             \/ Reply!EndPush(t) \/ Reply!EndWork(t) \/ Reply!CloseStream(t)
             \/ Reply!SendAnswer(t) \/ Reply!EndTurn(t)
    BY <2>1, RpTurnKeeps
  <2>2. CASE Reply!Joined(t) \/ Reply!Unwound(t)
    BY <2>2, JoinedKeeps
  <2>3. CASE Reply!TransferTurn(t)
    BY <2>3, TransferKeeps
  <2>4. CASE Reply!BeatWakes(t) \/ Reply!BeatPuts(t) \/ Reply!BeatStops(t)
    BY <2>4, BeatKeeps
  <2>5. CASE Reply!Stop(t)
    BY <2>5, StopKeeps
  <2>6. CASE Reply!Rejected(t) \/ Reply!WindowCloses(t)
    BY <1>0, <2>6, OutsideKeeps DEF Reply!Rejected, Reply!WindowCloses, Reply!rpTasks
  <2> QED BY <1>2, <2>1, <2>2, <2>3, <2>4, <2>5, <2>6 DEF Reply!TurnStep, Reply!BeatStep
<1>3. CASE Reply!WriteFrame
  BY <1>0, <1>3, OutsideKeeps DEF Reply!WriteFrame, Reply!rpTasks
<1> QED BY <1>1, <1>2, <1>3, RpSteps DEF Reply!RpNext

\* For any turns, sessions, limits, stops and expiries: a finished turn is
\* answered, leaves no handle, no heartbeat and no counted transfer; only a
\* stopped one can (dispatcher.py:60-170, adapters/wecom.py:165-268).
THEOREM TurnsLeaveNothingBehind == AdSpec => []TurnsLeaveNothing
<1>1. RpInv => TurnsLeaveNothing
  <2> SUFFICES ASSUME RpInv, NEW t \in RpTurns
               PROVE  /\ turn[t] = "done" =>
                            wire[t] = "answer" /\ beat[t] \in {"none", "over"} /\ t \notin streams
                      /\ t \in streams /\ turn[t] \in {"done", "cut"} => halted[t] # "no"
                      /\ turn[t] \in {"greet", "new"}
                         /\ Reply!LockHolder(RpSessionOf[t]) \subseteq {t}
                         /\ count[RpSessionOf[t]] > 0 =>
                            \E u \in RpTurns : RpSessionOf[u] = RpSessionOf[t]
                                               /\ halted[u] = "joining"
    BY DEF TurnsLeaveNothing, Reply!TurnsLeaveNothing
  <2>1. TurnInv(t)
    BY DEF RpInv
  <2>2. ASSUME turn[t] \in {"greet", "new"}, Reply!LockHolder(RpSessionOf[t]) \subseteq {t},
               count[RpSessionOf[t]] > 0
        PROVE  \E u \in RpTurns : RpSessionOf[u] = RpSessionOf[t] /\ halted[u] = "joining"
    <3>1. CountInv(RpSessionOf[t])
      BY DEF RpInv, Reply!RpSessions
    <3>2. PICK u \in RpTurns : RpSessionOf[u] = RpSessionOf[t]
                               /\ (turn[u] \in Counting \/ halted[u] = "joining")
      BY <2>2, <3>1 DEF CountInv
    <3>3. CASE turn[u] \in Counting
      <4>1. u \in Reply!LockHolder(RpSessionOf[t])
        BY <3>2, <3>3 DEF Reply!LockHolder, Counting
      <4> QED BY <2>2, <3>3, <4>1 DEF Counting
    <3> QED BY <3>2, <3>3
  <2> QED BY <2>1, <2>2 DEF TurnInv
<1> QED BY <1>1, RpBegins, RpStepKeeps, PTL DEF AdSpec

\* Nothing is written behind the closing frame of a stream but the answer, and
\* no stream known to be expired is begun to be written to.
THEOREM NothingFollowsCloses == AdSpec => NothingFollowsTheClose
<1>1. ASSUME RpInv, [AdNext]_AdVars
      PROVE  [/\ \A t \in RpTurns :
                    wire[t] \in {"close", "answer"} /\ wire'[t] # wire[t] => wire'[t] = "answer"
              /\ \A t \in expired :
                    /\ (turn'[t] = "push" => turn[t] = "push")
                    /\ (beat'[t] = "push" => beat[t] = "push")]_(Reply!rpVars)
  <2>1. CASE UNCHANGED rpAll
    BY <2>1 DEF rpAll, Reply!rpVars
  <2>2. CASE Reply!WriteFrame
    BY <2>2 DEF Reply!WriteFrame, Reply!rpTasks
  <2>3. ASSUME NEW t \in RpTurns,
               \/ Reply!BeginTurn(t) \/ Reply!StartPush(t) \/ Reply!TransferTurn(t)
               \/ Reply!TurnStep(t) \/ Reply!BeatWakes(t) \/ Reply!BeatStep(t)
               \/ Reply!Stop(t) \/ Reply!Rejected(t) \/ Reply!WindowCloses(t)
        PROVE  /\ \A u \in RpTurns :
                     wire[u] \in {"close", "answer"} /\ wire'[u] # wire[u] => wire'[u] = "answer"
               /\ \A u \in expired :
                     /\ (turn'[u] = "push" => turn[u] = "push")
                     /\ (beat'[u] = "push" => beat[u] = "push")
    <3>1. RpTypes /\ TurnInv(t)
      BY <1>1 DEF RpInv
    <3>2. \A u \in RpTurns :
             wire[u] \in {"close", "answer"} /\ wire'[u] # wire[u] => wire'[u] = "answer"
      <4>1. CASE UNCHANGED wire
        BY <4>1
      <4>2. CASE Reply!SendAnswer(t)
        BY <3>1, <4>2 DEF RpTypes, Reply!SendAnswer, Reply!Enqueue
      <4>3. CASE Reply!Greet(t) \/ Reply!EndPush(t) \/ Reply!CloseStream(t) \/ Reply!BeatPuts(t)
        <5>1. wire[t] \notin {"close", "answer"}
          BY <3>1, <4>3 DEF TurnInv, Reply!Greet, Reply!EndPush, Reply!CloseStream, Reply!BeatPuts
        <5>2. \A u \in RpTurns \ {t} : wire'[u] = wire[u]
          BY <3>1, <4>3 DEF RpTypes, Reply!Greet, Reply!EndPush, Reply!CloseStream,
                            Reply!BeatPuts, Reply!Enqueue
        <5> QED BY <5>1, <5>2
      <4> QED BY <2>3, <4>1, <4>2, <4>3
              DEF Reply!BeginTurn, Reply!StartPush, Reply!TransferTurn, Reply!TurnStep,
                  Reply!EndWork, Reply!Joined, Reply!EndTurn, Reply!Unwound, Reply!BeatWakes,
                  Reply!BeatStep, Reply!BeatStops, Reply!Stop, Reply!Rejected,
                  Reply!WindowCloses
    <3>3. \A u \in RpTurns \ {t} : turn'[u] = turn[u] /\ beat'[u] = beat[u]
      BY <2>3, <3>1
         DEF RpTypes, Reply!BeginTurn, Reply!StartPush, Reply!MayPush, Reply!TransferTurn,
             Reply!TurnStep, Reply!Greet, Reply!EndPush, Reply!EndWork, Reply!Joined,
             Reply!BeginFinish, Reply!CloseStream, Reply!SendAnswer, Reply!EndTurn,
             Reply!Unwound, Reply!BeatWakes, Reply!BeatStep, Reply!BeatPuts,
             Reply!BeatStops, Reply!Stop, Reply!Rejected, Reply!WindowCloses,
             Reply!rpTasks
    <3>4. turn'[t] = "push" => turn[t] = "push" \/ t \notin expired
      BY <2>3, <3>1
         DEF RpTypes, Reply!BeginTurn, Reply!StartPush, Reply!MayPush, Reply!TransferTurn,
             Reply!TurnStep, Reply!Greet, Reply!EndPush, Reply!EndWork, Reply!Joined,
             Reply!BeginFinish, Reply!CloseStream, Reply!SendAnswer, Reply!EndTurn,
             Reply!Unwound, Reply!BeatWakes, Reply!BeatStep, Reply!BeatPuts,
             Reply!BeatStops, Reply!Stop, Reply!Rejected, Reply!WindowCloses,
             Reply!rpTasks
    <3>5. beat'[t] = "push" => beat[t] = "push" \/ t \notin expired
      BY <2>3, <3>1
         DEF RpTypes, Reply!BeginTurn, Reply!StartPush, Reply!MayPush, Reply!TransferTurn,
             Reply!TurnStep, Reply!Greet, Reply!EndPush, Reply!EndWork, Reply!Joined,
             Reply!BeginFinish, Reply!CloseStream, Reply!SendAnswer, Reply!EndTurn,
             Reply!Unwound, Reply!BeatWakes, Reply!BeatStep, Reply!BeatPuts,
             Reply!BeatStops, Reply!Stop, Reply!Rejected, Reply!WindowCloses,
             Reply!rpTasks
    <3>6. expired \subseteq RpTurns
      BY <3>1 DEF RpTypes
    <3> QED BY <3>2, <3>3, <3>4, <3>5, <3>6
  <2> QED BY <1>1, <2>1, <2>2, <2>3, RpSteps DEF Reply!RpNext
<1> QED BY <1>1, RpBegins, RpStepKeeps, PTL
   DEF AdSpec, NothingFollowsTheClose, Reply!NothingFollowsTheClose

-----------------------------------------------------------------------------
(* MediaTransfer: numbers, and what is built up step by step *)

LEMMA MtSteps == [AdNext]_AdVars => Media!MtNext \/ UNCHANGED mtAll
BY DEF AdNext, AdVars

\* What holds of 0 and of the next number holds of all: else take the least
\* number it does not hold of.
LEMMA FromZero ==
    ASSUME NEW Good, 0 \in Good, \A n \in Nat : n \in Good => n + 1 \in Good
    PROVE  Nat \subseteq Good
<1> DEFINE Bad == Nat \ Good
           R == OpToRel(<, Nat)
<1> SUFFICES ASSUME Bad # {} PROVE FALSE
  OBVIOUS
<1>1. IsWellFoundedOn(R, Nat)
  BY NatLessThanWellFounded
<1>2. \A x, y \in Nat : <<x, y>> \in R <=> x < y
  BY DEF OpToRel
<1> HIDE DEF R
<1>3. PICK m \in Bad : \A n \in Bad : <<n, m>> \notin R
  BY <1>1, WFMin
<1>4. m # 0 /\ m \in Nat
  OBVIOUS
<1>5. m - 1 \in Nat /\ m - 1 < m /\ (m - 1) + 1 = m
  BY <1>4
<1>6. m - 1 \notin Bad
  BY <1>2, <1>3, <1>4, <1>5
<1>7. m - 1 \in Good
  BY <1>5, <1>6
<1> QED BY <1>4, <1>5, <1>7

\* A list that is built from a sequence item by item.
Builds(F, n, base, do) == F[0] = base /\ \A i \in 1..n : F[i] = do[i][F[i - 1]]

LEMMA BuildExists ==
    ASSUME NEW V, NEW base \in V, NEW N \in Nat, NEW do \in [1..N -> [V -> V]]
    PROVE  \E F \in [0..N -> V] : Builds(F, N, base, do)
<1> DEFINE Good == {n \in Nat : n <= N => \E F \in [0..n -> V] : Builds(F, n, base, do)}
<1>1. 0 \in Good
  <2> DEFINE F == [i \in 0..0 |-> base]
  <2>1. F \in [0..0 -> V] /\ Builds(F, 0, base, do)
    BY DEF Builds
  <2> QED BY <2>1
<1>2. ASSUME NEW n \in Nat, n \in Good PROVE n + 1 \in Good
  <2>1. CASE n + 1 <= N
    <3>1. PICK F \in [0..n -> V] : Builds(F, n, base, do)
      BY <1>2, <2>1
    <3>2. n + 1 \in 1..N /\ F[n] \in V
      BY <2>1
    <3>3. do[n + 1] \in [V -> V]
      BY <3>2
    <3>4. do[n + 1][F[n]] \in V
      BY <3>2, <3>3
    <3> DEFINE G == [i \in 0..n + 1 |-> IF i = n + 1 THEN do[n + 1][F[n]] ELSE F[i]]
    <3>5. G \in [0..n + 1 -> V]
      BY <3>4
    <3>6. ASSUME NEW i \in 1..n + 1 PROVE G[i] = do[i][G[i - 1]]
      <4>1. i - 1 \in 0..n /\ i - 1 # n + 1 /\ G[i - 1] = F[i - 1]
        OBVIOUS
      <4>2. CASE i = n + 1
        BY <4>1, <4>2
      <4>3. CASE i # n + 1
        <5>1. i \in 1..n /\ G[i] = F[i]
          BY <4>3
        <5> QED BY <3>1, <4>1, <5>1 DEF Builds
      <4> QED BY <4>2, <4>3
    <3>7. G[0] = base
      BY <3>1 DEF Builds
    <3>8. Builds(G, n + 1, base, do)
      BY <3>6, <3>7 DEF Builds
    <3> QED BY <3>5, <3>8
  <2>2. CASE ~(n + 1 <= N)
    BY <2>2
  <2> QED BY <2>1, <2>2
<1> HIDE DEF Good
<1>3. Nat \subseteq Good
  BY <1>1, <1>2, FromZero
<1> QED BY <1>3 DEF Good

-----------------------------------------------------------------------------
(* Coalescing *)

Item == {"text", "image"} \X Int
BlockOf == {"text", "image"} \X Seq(Int)

LEMMA AddIsBlocks ==
    ASSUME NEW out \in Seq(BlockOf), NEW b \in Item
    PROVE  Media!AddBlock(out, b) \in Seq(BlockOf)
<1>1. b[1] \in {"text", "image"} /\ b[2] \in Int
  BY DEF Item
<1>2. CASE b[1] = "text" /\ out # << >> /\ Media!Last(out)[1] = "text"
  <2>1. Len(out) \in 1..Len(out) /\ Media!Last(out) \in BlockOf
    BY <1>2 DEF Media!Last
  <2>2. Media!Last(out)[2] \in Seq(Int)
    BY <2>1 DEF BlockOf
  <2>3. Append(Media!Last(out)[2], b[2]) \in Seq(Int)
    BY <1>1, <2>2
  <2>4. <<"text", Append(Media!Last(out)[2], b[2])>> \in BlockOf
    BY <2>3 DEF BlockOf
  <2> QED BY <1>2, <2>1, <2>4 DEF Media!AddBlock
<1>3. CASE ~(b[1] = "text" /\ out # << >> /\ Media!Last(out)[1] = "text")
  <2>1. <<b[2]>> \in Seq(Int)
    BY <1>1
  <2>2. <<b[1], <<b[2]>> >> \in BlockOf
    BY <1>1, <2>1 DEF BlockOf
  <2> QED BY <1>3, <2>2 DEF Media!AddBlock
<1> QED BY <1>2, <1>3

\* The lists that the loop has after each item.
LEMMA CoalesceBuilds ==
    ASSUME NEW s \in Seq(Item)
    PROVE  \E out \in [0..Len(s) -> Seq(BlockOf)] :
              /\ out[0] = << >> /\ Media!Coalesce(s) = out[Len(s)]
              /\ \A n \in 1..Len(s) : out[n] = Media!AddBlock(out[n - 1], s[n])
<1> DEFINE V == Seq(BlockOf)
           N == Len(s)
           do == [n \in 1..N |-> [v \in V |-> Media!AddBlock(v, s[n])]]
           H == CHOOSE out : out = [n \in 0..N |-> IF n = 0 THEN << >>
                                                  ELSE Media!AddBlock(out[n - 1], s[n])]
<1>1. Media!Coalesce(s) = H[N]
  BY DEF Media!Coalesce
<1>2. N \in Nat /\ \A n \in 1..N : s[n] \in Item
  OBVIOUS
<1>3. \A n \in 1..N, v \in V : do[n][v] = Media!AddBlock(v, s[n])
  OBVIOUS
<1>4. do \in [1..N -> [V -> V]]
  BY <1>2, AddIsBlocks
<1>5. << >> \in V
  OBVIOUS
<1> HIDE DEF N, V, do
<1>6. PICK F \in [0..N -> V] : Builds(F, N, << >>, do)
  BY <1>2, <1>4, <1>5, BuildExists
<1>7. F = [n \in 0..N |-> IF n = 0 THEN << >> ELSE Media!AddBlock(F[n - 1], s[n])]
  <2>1. ASSUME NEW n \in 0..N
        PROVE  F[n] = IF n = 0 THEN << >> ELSE Media!AddBlock(F[n - 1], s[n])
    <3>1. CASE n = 0
      BY <1>6, <3>1 DEF Builds
    <3>2. CASE n # 0
      <4>1. n \in 1..N /\ n - 1 \in 0..N
        BY <1>2, <3>2
      <4>2. F[n - 1] \in V
        BY <4>1
      <4> QED BY <1>3, <1>6, <3>2, <4>1, <4>2 DEF Builds
    <3> QED BY <3>1, <3>2
  <2> QED BY <2>1
<1>8. H = [n \in 0..N |-> IF n = 0 THEN << >> ELSE Media!AddBlock(H[n - 1], s[n])]
  BY <1>7
<1> HIDE DEF H
<1>9. H[0] = << >> /\ \A n \in 1..N : n - 1 \in 0..N /\ H[n] = Media!AddBlock(H[n - 1], s[n])
  <2>1. 0 \in 0..N /\ \A n \in 1..N : n \in 0..N /\ n # 0 /\ n - 1 \in 0..N
    BY <1>2
  <2>2. \A n \in 0..N : H[n] = IF n = 0 THEN << >> ELSE Media!AddBlock(H[n - 1], s[n])
    BY <1>8
  <2> QED BY <2>1, <2>2
<1>10. H \in [0..N -> V]
  <2> DEFINE Good == {n \in Nat : n <= N => H[n] \in V}
  <2>1. 0 \in Good
    BY <1>5, <1>9
  <2>2. ASSUME NEW n \in Nat, n \in Good PROVE n + 1 \in Good
    <3>1. CASE n + 1 <= N
      <4>1. n + 1 \in 1..N /\ (n + 1) - 1 = n /\ H[n] \in V
        BY <1>2, <2>2, <3>1
      <4>2. H[n + 1] = Media!AddBlock(H[n], s[n + 1])
        BY <1>9, <4>1
      <4>3. Media!AddBlock(H[n], s[n + 1]) \in V
        BY <1>2, <4>1, AddIsBlocks DEF V
      <4>4. n + 1 \in Nat
        OBVIOUS
      <4> QED BY <4>2, <4>3, <4>4
    <3>2. CASE ~(n + 1 <= N)
      BY <3>2
    <3> QED BY <3>1, <3>2
  <2> HIDE DEF Good
  <2>3. Nat \subseteq Good
    BY <2>1, <2>2, FromZero
  <2>4. \A n \in 0..N : H[n] \in V
    BY <1>2, <2>3 DEF Good
  <2>5. H = [n \in 0..N |-> H[n]]
    BY <1>8
  <2> QED BY <2>4, <2>5
<1> QED BY <1>1, <1>9, <1>10 DEF N, V

\* The blocks made of the first n items: every item is in one, pictures stand
\* alone and in their order.
Within(x, t) == \E m \in 1..Len(t) : t[m] = x
Picture(s, p, block) == s[p][1] = "image" /\ block[2] = << s[p][2] >>

AllIn(s, n, out) == \A p \in 1..n : \E k \in 1..Len(out) : Within(s[p][2], out[k][2])
Alone(s, n, out) ==
    \A k \in 1..Len(out) : out[k][1] = "image" => \E p \in 1..n : Picture(s, p, out[k])
InOrder(s, n, out) ==
    \A k, l \in 1..Len(out) :
        k < l /\ out[k][1] = "image" /\ out[l][1] = "image" =>
            \E p, q \in 1..n : p < q /\ Picture(s, p, out[k]) /\ Picture(s, q, out[l])
Kept(s, n, out) == AllIn(s, n, out) /\ Alone(s, n, out) /\ InOrder(s, n, out)

LEMMA AddKeeps ==
    ASSUME NEW s \in Seq(Item), NEW n \in Nat, n + 1 \in 1..Len(s),
           NEW out \in Seq(BlockOf), Kept(s, n, out)
    PROVE  Kept(s, n + 1, Media!AddBlock(out, s[n + 1]))
<1> DEFINE b == s[n + 1]
           x == b[2]
           new == Media!AddBlock(out, b)
           L == Len(out)
<1>1. b \in Item /\ x \in Int /\ b[1] \in {"text", "image"} /\ L \in Nat
  BY DEF Item
<1>2. 1..n + 1 = 1..n \cup {n + 1}
  OBVIOUS
<1>3. CASE b[1] = "text" /\ out # << >> /\ Media!Last(out)[1] = "text"
  <2> DEFINE t == out[L][2]
             more == Append(t, x)
  <2>1. L \in 1..L /\ out[L] \in BlockOf /\ out[L][1] = "text"
    BY <1>3 DEF Media!Last
  <2>2. t \in Seq(Int)
    BY <2>1 DEF BlockOf
  <2>3. new = [out EXCEPT ![L] = <<"text", more>>]
    BY <1>3 DEF Media!AddBlock, Media!Last
  <2> HIDE DEF t, x
  <2>4. /\ Len(more) = Len(t) + 1 /\ Len(t) \in Nat /\ more[Len(t) + 1] = x
        /\ \A m \in 1..Len(t) : more[m] = t[m]
    BY <1>1, <2>2
  <2> HIDE DEF more
  <2>5. Len(new) = L
    BY <2>3
  <2>6. new[L] = <<"text", more>> /\ \A k \in 1..L : k # L => new[k] = out[k]
    BY <2>1, <2>3
  <2> HIDE DEF new, b
  <2>7. new[L][1] = "text" /\ new[L][2] = more
    BY <2>6
  <2>8. \A k \in 1..L : new[k][1] = "image" => k # L /\ new[k] = out[k]
    BY <2>6, <2>7
  <2>9. Within(x, new[L][2])
    BY <2>4, <2>7 DEF Within
  <2>10. \A y, k : k \in 1..L /\ Within(y, out[k][2]) => Within(y, new[k][2])
    <3> SUFFICES ASSUME NEW y, NEW k \in 1..L, Within(y, out[k][2]) PROVE Within(y, new[k][2])
      OBVIOUS
    <3>1. CASE k = L
      <4>1. PICK m \in 1..Len(t) : t[m] = y
        BY <3>1 DEF Within, t
      <4>2. m \in 1..Len(more) /\ more[m] = y
        BY <2>4, <4>1
      <4> QED BY <2>7, <3>1, <4>2 DEF Within
    <3>2. CASE k # L
      BY <2>6, <3>2
    <3> QED BY <3>1, <3>2
  <2>11. AllIn(s, n + 1, new)
    <3> SUFFICES ASSUME NEW p \in 1..n + 1
                 PROVE  \E k \in 1..L : Within(s[p][2], new[k][2])
      BY <2>5 DEF AllIn
    <3>1. CASE p = n + 1
      BY <2>1, <2>9, <3>1 DEF x, b
    <3>2. CASE p # n + 1
      <4>1. p \in 1..n
        BY <3>2
      <4>2. PICK k \in 1..L : Within(s[p][2], out[k][2])
        BY <4>1 DEF Kept, AllIn
      <4> QED BY <2>10, <4>2
    <3> QED BY <3>1, <3>2
  <2>12. Alone(s, n + 1, new)
    <3> SUFFICES ASSUME NEW k \in 1..L, new[k][1] = "image"
                 PROVE  \E p \in 1..n + 1 : Picture(s, p, new[k])
      BY <2>5 DEF Alone
    <3>1. PICK p \in 1..n : Picture(s, p, out[k])
      BY <2>8 DEF Kept, Alone
    <3> QED BY <1>2, <2>8, <3>1
  <2>13. InOrder(s, n + 1, new)
    <3> SUFFICES ASSUME NEW k \in 1..L, NEW l \in 1..L, k < l,
                        new[k][1] = "image", new[l][1] = "image"
                 PROVE  \E p, q \in 1..n + 1 :
                            p < q /\ Picture(s, p, new[k]) /\ Picture(s, q, new[l])
      BY <2>5 DEF InOrder
    <3>1. PICK p \in 1..n, q \in 1..n : p < q /\ Picture(s, p, out[k]) /\ Picture(s, q, out[l])
      BY <2>8 DEF Kept, InOrder
    <3> QED BY <1>2, <2>8, <3>1
  <2> QED BY <2>11, <2>12, <2>13 DEF Kept, new, b
<1>4. CASE ~(b[1] = "text" /\ out # << >> /\ Media!Last(out)[1] = "text")
  <2>1. new = Append(out, <<b[1], <<x>> >>)
    BY <1>4 DEF Media!AddBlock
  <2>2. Len(new) = L + 1
    BY <2>1
  <2>3. \A k \in 1..L : new[k] = out[k]
    BY <2>1
  <2>4. new[L + 1] = <<b[1], <<x>> >>
    BY <2>1
  <2> HIDE DEF new, x
  <2>5. new[L + 1][1] = b[1] /\ new[L + 1][2] = <<x>>
    BY <2>4
  <2>6. Within(x, new[L + 1][2])
    <3>1. Len(<<x>>) = 1 /\ <<x>>[1] = x /\ 1 \in 1..1
      OBVIOUS
    <3> QED BY <2>5, <3>1 DEF Within
  <2> HIDE DEF b
  <2>7. 1..L + 1 = 1..L \cup {L + 1}
    BY <1>1
  <2>8. AllIn(s, n + 1, new)
    <3> SUFFICES ASSUME NEW p \in 1..n + 1
                 PROVE  \E k \in 1..L + 1 : Within(s[p][2], new[k][2])
      BY <2>2 DEF AllIn
    <3>1. CASE p = n + 1
      BY <2>6, <2>7, <3>1 DEF x, b
    <3>2. CASE p # n + 1
      <4>1. p \in 1..n
        BY <3>2
      <4>2. PICK k \in 1..L : Within(s[p][2], out[k][2])
        BY <4>1 DEF Kept, AllIn
      <4> QED BY <2>3, <2>7, <4>2
    <3> QED BY <3>1, <3>2
  <2>9. b[1] = "image" => Picture(s, n + 1, new[L + 1])
    BY <2>5 DEF Picture, x, b
  <2>10. ASSUME NEW k \in 1..L, new[k][1] = "image"
         PROVE  \E p \in 1..n : Picture(s, p, new[k])
    BY <2>3, <2>10 DEF Kept, Alone
  <2>11. Alone(s, n + 1, new)
    <3> SUFFICES ASSUME NEW k \in 1..L + 1, new[k][1] = "image"
                 PROVE  \E p \in 1..n + 1 : Picture(s, p, new[k])
      BY <2>2 DEF Alone
    <3>1. CASE k = L + 1
      BY <1>2, <2>5, <2>9, <3>1
    <3>2. CASE k # L + 1
      <4>1. k \in 1..L
        BY <2>7, <3>2
      <4> QED BY <1>2, <2>10, <4>1
    <3> QED BY <3>1, <3>2
  <2>12. InOrder(s, n + 1, new)
    <3> SUFFICES ASSUME NEW k \in 1..L + 1, NEW l \in 1..L + 1, k < l,
                        new[k][1] = "image", new[l][1] = "image"
                 PROVE  \E p, q \in 1..n + 1 :
                            p < q /\ Picture(s, p, new[k]) /\ Picture(s, q, new[l])
      BY <2>2 DEF InOrder
    <3>1. k \in 1..L
      BY <1>1
    <3>2. CASE l = L + 1
      <4>1. PICK p \in 1..n : Picture(s, p, new[k])
        BY <2>10, <3>1
      <4>2. p < n + 1 /\ n + 1 \in 1..n + 1 /\ p \in 1..n + 1
        OBVIOUS
      <4>3. Picture(s, n + 1, new[l])
        BY <2>5, <2>9, <3>2
      <4> QED BY <4>1, <4>2, <4>3
    <3>3. CASE l # L + 1
      <4>1. l \in 1..L
        BY <2>7, <3>3
      <4>2. PICK p \in 1..n, q \in 1..n : p < q /\ Picture(s, p, out[k]) /\ Picture(s, q, out[l])
        BY <2>3, <3>1, <4>1 DEF Kept, InOrder
      <4> QED BY <1>2, <2>3, <3>1, <4>1, <4>2
    <3> QED BY <3>2, <3>3
  <2> QED BY <2>8, <2>11, <2>12 DEF Kept, new, b
<1> QED BY <1>3, <1>4

LEMMA CoalesceKeeps ==
    ASSUME NEW s \in Seq(Item)
    PROVE  Media!Coalesce(s) \in Seq(BlockOf) /\ Kept(s, Len(s), Media!Coalesce(s))
<1>1. PICK out \in [0..Len(s) -> Seq(BlockOf)] :
        /\ out[0] = << >> /\ Media!Coalesce(s) = out[Len(s)]
        /\ \A n \in 1..Len(s) : out[n] = Media!AddBlock(out[n - 1], s[n])
  BY CoalesceBuilds
<1>2. Len(s) \in Nat
  OBVIOUS
<1> DEFINE Good == {n \in Nat : n <= Len(s) => Kept(s, n, out[n])}
<1>3. 0 \in Good
  <2>1. Len(out[0]) = 0 /\ 1..0 = {}
    BY <1>1
  <2>2. Kept(s, 0, out[0])
    BY <2>1 DEF Kept, AllIn, Alone, InOrder
  <2> QED BY <2>2
<1>4. ASSUME NEW n \in Nat, n \in Good PROVE n + 1 \in Good
  <2>1. CASE n + 1 <= Len(s)
    <3>1. n + 1 \in 1..Len(s) /\ (n + 1) - 1 = n /\ n \in 0..Len(s) /\ Kept(s, n, out[n])
      BY <1>2, <1>4, <2>1
    <3>2. out[n] \in Seq(BlockOf) /\ out[n + 1] = Media!AddBlock(out[n], s[n + 1])
      BY <1>1, <3>1
    <3>3. Kept(s, n + 1, out[n + 1])
      BY <3>1, <3>2, AddKeeps
    <3> QED BY <3>3
  <2>2. CASE ~(n + 1 <= Len(s))
    BY <2>2
  <2> QED BY <2>1, <2>2
<1> HIDE DEF Good
<1>5. Nat \subseteq Good
  BY <1>3, <1>4, FromZero
<1>6. Len(s) \in Good /\ Len(s) \in 0..Len(s)
  BY <1>2, <1>5
<1> QED BY <1>1, <1>2, <1>6 DEF Good

-----------------------------------------------------------------------------
(* The message: quoted parts between their marks, then the new ones *)

LEMMA PartsCount ==
    /\ Len(MtItems) \in Nat /\ Len(MtQuoted) \in Nat
    /\ Len(Media!Parts) = Len(MtItems) + Len(MtQuoted)
    /\ DOMAIN Media!Parts = 1..Len(MtItems) + Len(MtQuoted)
<1> DEFINE K == {"text", "image", "file", "video"}
<1>1. MtItems \in Seq(K) /\ MtQuoted \in Seq(K)
  BY MediaAssumption
<1> QED BY <1>1, ConcatProperties DEF Media!Parts

LEMMA BlockIsItem ==
    ASSUME NEW i \in Int
    PROVE  Media!Block(i) \in Item /\ Media!Block(i)[2] = i
<1>1. Media!Block(i) = <<"image", i>> \/ Media!Block(i) = <<"text", i>>
  BY DEF Media!Block
<1> QED BY <1>1 DEF Item

LEMMA FlattenIs ==
    ASSUME NEW from \in Nat \ {0}, NEW n \in Nat, NEW to \in Int, to = from + n - 1
    PROVE  /\ Media!Flatten(from, to) \in Seq(Item) /\ Len(Media!Flatten(from, to)) = n
           /\ \A k \in 1..n : Media!Flatten(from, to)[k] = Media!Block(from + k - 1)
<1>1. to - from + 1 = n
  OBVIOUS
<1>2. Media!Flatten(from, to) = [k \in 1..n |-> Media!Block(from + k - 1)]
  BY <1>1 DEF Media!Flatten
<1>3. \A k \in 1..n : from + k - 1 \in Int
  OBVIOUS
<1>4. [k \in 1..n |-> Media!Block(from + k - 1)] \in [1..n -> Item]
  BY <1>3, BlockIsItem
<1> DEFINE F == [k \in 1..n |-> Media!Block(from + k - 1)]
<1>5. F \in Seq(Item) /\ DOMAIN F = 1..n
  BY <1>4, IsASeq
<1>6. Len(F) = n
  BY <1>5, LenProperties
<1>7. \A k \in 1..n : F[k] = Media!Block(from + k - 1)
  OBVIOUS
<1> HIDE DEF F
<1>8. Media!Flatten(from, to) = F
  BY <1>2 DEF F
<1> QED BY <1>5, <1>6, <1>7, <1>8

\* Two sequences of items, one behind the other.
LEMMA BehindIs ==
    ASSUME NEW s1 \in Seq(Item), NEW s2 \in Seq(Item)
    PROVE  /\ s1 \o s2 \in Seq(Item) /\ Len(s1 \o s2) = Len(s1) + Len(s2)
           /\ \A i \in 1..Len(s1) : (s1 \o s2)[i] = s1[i]
           /\ \A i \in 1..Len(s2) : (s1 \o s2)[Len(s1) + i] = s2[i]
<1> DEFINE t == s1 \o s2
           m == Len(s1)
           n == Len(s2)
<1>1. /\ t \in Seq(Item) /\ Len(t) = m + n /\ m \in Nat /\ n \in Nat
      /\ \A i \in 1..m + n : t[i] = IF i <= m THEN s1[i] ELSE s2[i - m]
  BY ConcatProperties
<1> HIDE DEF t, m, n
<1>2. ASSUME NEW i \in 1..m PROVE t[i] = s1[i]
  BY <1>1
<1>3. ASSUME NEW i \in 1..n PROVE t[m + i] = s2[i]
  <2>1. m + i \in 1..m + n /\ ~(m + i <= m) /\ m + i - m = i
    BY <1>1
  <2> QED BY <1>1, <2>1
<1> QED BY <1>1, <1>2, <1>3 DEF t, m, n

\* Every part is in the message, and where the pictures stand.
MessageRight(s) ==
    /\ s \in Seq(Item)
    /\ \A p \in 1..Len(s) : s[p][1] = "image" => s[p][2] >= 1
    /\ \A p, q \in 1..Len(s) :
          p < q /\ s[p][1] = "image" /\ s[q][1] = "image" =>
              IF Media!IsQuote(s[p][2]) = Media!IsQuote(s[q][2]) THEN s[p][2] < s[q][2]
              ELSE Media!IsQuote(s[p][2])
    /\ \A i \in DOMAIN Media!Parts : \E p \in 1..Len(s) : s[p][2] = i

LEMMA MessageIsRight == MessageRight(Media!Message)
<1> DEFINE L == Len(MtItems)
           K == Len(MtQuoted)
           new == Media!Flatten(1, L)
           old == Media!Flatten(L + 1, Len(Media!Parts))
           s == Media!Message
<1>1. L \in Nat /\ K \in Nat /\ Len(Media!Parts) = L + K /\ DOMAIN Media!Parts = 1..L + K
  BY PartsCount
<1>2. /\ new \in Seq(Item) /\ Len(new) = L
      /\ \A k \in 1..L : new[k] = Media!Block(k)
  <2>1. /\ new \in Seq(Item) /\ Len(new) = L
        /\ \A k \in 1..L : new[k] = Media!Block(1 + k - 1)
    <3>1. L = 1 + L - 1 /\ L \in Int /\ L \in Nat /\ 1 \in Nat \ {0}
      BY <1>1
    <3> HIDE DEF L
    <3> QED BY <3>1, FlattenIs
  <2>2. \A k \in 1..L : 1 + k - 1 = k
    OBVIOUS
  <2> QED BY <2>1, <2>2
<1>3. /\ old \in Seq(Item) /\ Len(old) = K
      /\ \A k \in 1..K : old[k] = Media!Block(L + k)
  <2> DEFINE N == Len(Media!Parts)
             m == L + 1
  <2>1. N = m + K - 1 /\ m \in Nat \ {0} /\ N \in Int /\ K \in Nat
    BY <1>1
  <2>2. /\ old \in Seq(Item) /\ Len(old) = K
        /\ \A k \in 1..K : old[k] = Media!Block(m + k - 1)
    <3> HIDE DEF N, m, K
    <3> QED BY <2>1, FlattenIs DEF N, m
  <2>3. \A k \in 1..K : m + k - 1 = L + k
    BY <1>1
  <2> QED BY <2>2, <2>3
<1>4. s = IF old = << >> THEN new ELSE Media!Mark(-1) \o old \o Media!Mark(-2) \o new
  BY DEF Media!Message
<1> HIDE DEF L, K, new, old, s
<1>5. \A k \in 1..L : /\ Media!Block(k)[2] = k
                      /\ Media!IsQuote(k) = FALSE
  BY <1>1, BlockIsItem DEF Media!IsQuote, L
<1>6. \A k \in 1..K : /\ Media!Block(L + k)[2] = L + k
                      /\ Media!IsQuote(L + k) = TRUE
  BY <1>1, BlockIsItem DEF Media!IsQuote, L
<1>7. CASE old = << >>
  <2>1. K = 0 /\ s = new
    BY <1>3, <1>4, <1>7
  <2>2. \A p \in 1..L : s[p][2] = p
    BY <1>2, <1>5, <2>1
  <2>3. Len(s) = L /\ s \in Seq(Item) /\ DOMAIN Media!Parts = 1..L
    BY <1>1, <1>2, <2>1
  <2>4. \A p \in 1..L : p >= 1
    BY <1>1
  <2>5. \A p, q \in 1..Len(s) : p < q =>
            IF Media!IsQuote(s[p][2]) = Media!IsQuote(s[q][2]) THEN s[p][2] < s[q][2]
            ELSE Media!IsQuote(s[p][2])
    BY <1>5, <2>2, <2>3
  <2>6. \A p \in 1..Len(s) : s[p][2] >= 1
    BY <2>2, <2>3, <2>4
  <2>7. \A i \in DOMAIN Media!Parts : \E p \in 1..Len(s) : s[p][2] = i
    BY <2>2, <2>3
  <2> QED BY <2>3, <2>5, <2>6, <2>7 DEF MessageRight, s
<1>8. CASE old # << >>
  <2> DEFINE one == Media!Mark(-1)
             two == Media!Mark(-2)
             a == one \o old
             c == a \o two
  <2>1. /\ one \in Seq(Item) /\ Len(one) = 1 /\ one[1] = <<"text", -1>>
        /\ two \in Seq(Item) /\ Len(two) = 1 /\ two[1] = <<"text", -2>>
    <3>1. -1 \in Int /\ -2 \in Int
      OBVIOUS
    <3> QED BY <3>1 DEF Media!Mark, Item
  <2>2. s = c \o new
    BY <1>4, <1>8
  <2> HIDE DEF one, two
  <2>3. /\ a \in Seq(Item) /\ Len(a) = K + 1 /\ a[1] = <<"text", -1>>
        /\ \A k \in 1..K : a[k + 1] = Media!Block(L + k)
    <3>1. /\ a \in Seq(Item) /\ Len(a) = 1 + K
          /\ \A i \in 1..1 : a[i] = one[i]
          /\ \A i \in 1..K : a[1 + i] = old[i]
      <4>1. /\ a \in Seq(Item) /\ Len(a) = Len(one) + Len(old)
            /\ \A i \in 1..Len(one) : a[i] = one[i]
            /\ \A i \in 1..Len(old) : a[Len(one) + i] = old[i]
        BY <1>3, <2>1, BehindIs
      <4> HIDE DEF a
      <4> QED BY <1>3, <2>1, <4>1
    <3>2. 1 \in 1..1 /\ 1 + K = K + 1 /\ \A k \in 1..K : 1 + k = k + 1
      BY <1>1
    <3> HIDE DEF a
    <3> QED BY <1>3, <2>1, <3>1, <3>2
  <2> HIDE DEF a
  <2>4. /\ c \in Seq(Item) /\ Len(c) = K + 2 /\ c[K + 2] = <<"text", -2>>
        /\ \A i \in 1..K + 1 : c[i] = a[i]
    <3>1. /\ c \in Seq(Item) /\ Len(c) = (K + 1) + 1
          /\ \A i \in 1..K + 1 : c[i] = a[i]
          /\ \A i \in 1..1 : c[(K + 1) + i] = two[i]
      <4>1. /\ c \in Seq(Item) /\ Len(c) = Len(a) + Len(two)
            /\ \A i \in 1..Len(a) : c[i] = a[i]
            /\ \A i \in 1..Len(two) : c[Len(a) + i] = two[i]
        BY <2>1, <2>3, BehindIs
      <4> HIDE DEF c
      <4> QED BY <2>1, <2>3, <4>1
    <3>2. (K + 1) + 1 = K + 2 /\ 1 \in 1..1
      BY <1>1
    <3> HIDE DEF c
    <3> QED BY <2>1, <3>1, <3>2
  <2> HIDE DEF c
  <2>5. /\ s \in Seq(Item) /\ Len(s) = (K + 2) + L
        /\ \A i \in 1..K + 2 : s[i] = c[i]
        /\ \A i \in 1..L : s[K + 2 + i] = new[i]
    <3>1. /\ s \in Seq(Item) /\ Len(s) = Len(c) + Len(new)
          /\ \A i \in 1..Len(c) : s[i] = c[i]
          /\ \A i \in 1..Len(new) : s[Len(c) + i] = new[i]
      BY <1>2, <2>2, <2>4, BehindIs
    <3> QED BY <1>2, <2>4, <3>1
  <2>6. s[1] = <<"text", -1>> /\ s[K + 2] = <<"text", -2>>
    <3>1. 1 \in 1..K + 2 /\ K + 2 \in 1..K + 2 /\ 1 \in 1..K + 1
      BY <1>1
    <3> QED BY <2>3, <2>4, <2>5, <3>1
  <2>7. \A k \in 1..K : k + 1 \in 1..Len(s) /\ s[k + 1][2] = L + k
    <3> TAKE k \in 1..K
    <3>1. k + 1 \in 1..(K + 2) + L /\ k + 1 \in 1..K + 2 /\ k + 1 \in 1..K + 1
      BY <1>1
    <3>2. s[k + 1] = Media!Block(L + k)
      BY <2>3, <2>4, <2>5, <3>1
    <3> QED BY <1>6, <2>5, <3>1, <3>2
  <2>8. \A k \in 1..L : K + 2 + k \in 1..Len(s) /\ s[K + 2 + k][2] = k
    <3> TAKE k \in 1..L
    <3>1. K + 2 + k \in 1..(K + 2) + L
      BY <1>1
    <3>2. s[K + 2 + k] = new[k]
      BY <2>5
    <3> QED BY <1>2, <1>5, <2>5, <3>1, <3>2
  <2>9. s[1][1] = "text" /\ s[K + 2][1] = "text"
    BY <2>6
  <2>10. ASSUME NEW p \in 1..Len(s), s[p][1] = "image"
         PROVE  \/ p - 1 \in 1..K /\ s[p][2] = L + (p - 1)
                \/ p - (K + 2) \in 1..L /\ s[p][2] = p - (K + 2)
    <3>1. p # 1 /\ p # K + 2 /\ p \in 1..(K + 2) + L
      BY <2>5, <2>9, <2>10
    <3>2. p - 1 \in 1..K \/ p - (K + 2) \in 1..L
      BY <1>1, <3>1
    <3>3. CASE p - 1 \in 1..K
      <4>1. (p - 1) + 1 = p
        OBVIOUS
      <4> QED BY <2>7, <3>3, <4>1
    <3>4. CASE p - (K + 2) \in 1..L
      <4>1. K + 2 + (p - (K + 2)) = p
        BY <1>1
      <4> QED BY <2>8, <3>4, <4>1
    <3> QED BY <3>2, <3>3, <3>4
  <2>11. \A p \in 1..Len(s) : s[p][1] = "image" => s[p][2] >= 1
    <3> SUFFICES ASSUME NEW p \in 1..Len(s), s[p][1] = "image" PROVE s[p][2] >= 1
      OBVIOUS
    <3>1. CASE p - 1 \in 1..K /\ s[p][2] = L + (p - 1)
      BY <1>1, <3>1
    <3>2. CASE p - (K + 2) \in 1..L /\ s[p][2] = p - (K + 2)
      BY <1>1, <3>2
    <3> QED BY <2>10, <3>1, <3>2
  <2>12. ASSUME NEW p \in 1..Len(s), NEW q \in 1..Len(s), p < q,
                s[p][1] = "image", s[q][1] = "image"
         PROVE  IF Media!IsQuote(s[p][2]) = Media!IsQuote(s[q][2]) THEN s[p][2] < s[q][2]
                ELSE Media!IsQuote(s[p][2])
    <3>1. CASE p - 1 \in 1..K /\ s[p][2] = L + (p - 1)
      <4>1. Media!IsQuote(s[p][2]) = TRUE
        BY <1>6, <3>1
      <4>2. CASE q - 1 \in 1..K /\ s[q][2] = L + (q - 1)
        <5>1. s[p][2] < s[q][2]
          BY <1>1, <2>12, <3>1, <4>2
        <5>2. Media!IsQuote(s[q][2]) = TRUE
          BY <1>6, <4>2
        <5> QED BY <4>1, <5>1, <5>2
      <4>3. CASE q - (K + 2) \in 1..L /\ s[q][2] = q - (K + 2)
        <5>1. Media!IsQuote(s[q][2]) = FALSE
          BY <1>5, <4>3
        <5> QED BY <4>1, <5>1
      <4> QED BY <2>10, <2>12, <4>2, <4>3
    <3>2. CASE p - (K + 2) \in 1..L /\ s[p][2] = p - (K + 2)
      <4>1. Media!IsQuote(s[p][2]) = FALSE
        BY <1>5, <3>2
      <4>2. CASE q - 1 \in 1..K
        BY <1>1, <2>12, <3>2, <4>2
      <4>3. CASE q - (K + 2) \in 1..L /\ s[q][2] = q - (K + 2)
        <5>1. s[p][2] < s[q][2]
          BY <1>1, <2>12, <3>2, <4>3
        <5>2. Media!IsQuote(s[q][2]) = FALSE
          BY <1>5, <4>3
        <5> QED BY <4>1, <5>1, <5>2
      <4> QED BY <2>10, <2>12, <4>2, <4>3
    <3> QED BY <2>10, <2>12, <3>1, <3>2
  <2>13. ASSUME NEW i \in 1..L + K PROVE \E p \in 1..Len(s) : s[p][2] = i
    <3>1. CASE i \in 1..L
      BY <2>8, <3>1
    <3>2. CASE i \notin 1..L
      <4>1. i - L \in 1..K /\ L + (i - L) = i
        BY <1>1, <3>2
      <4> QED BY <2>7, <4>1
    <3> QED BY <3>1, <3>2
  <2> QED BY <1>1, <2>5, <2>11, <2>12, <2>13 DEF MessageRight, s
<1> QED BY <1>7, <1>8

-----------------------------------------------------------------------------
(* The upload *)

LEMMA MaxOfTwo ==
    ASSUME NEW a \in Int, NEW b \in Int
    PROVE  Media!Max({a, b}) = IF a >= b THEN a ELSE b
<1> DEFINE m == IF a >= b THEN a ELSE b
<1>1. m \in {a, b} /\ \A y \in {a, b} : m >= y
  OBVIOUS
<1>2. \A x \in {a, b} : (\A y \in {a, b} : x >= y) => x = m
  OBVIOUS
<1> HIDE DEF m
<1>3. Media!Max({a, b}) = m
  BY <1>1, <1>2 DEF Media!Max
<1> QED BY <1>3 DEF m

LEMMA MinOfTwo ==
    ASSUME NEW a \in Int, NEW b \in Int
    PROVE  Media!Min({a, b}) = IF a <= b THEN a ELSE b
<1> DEFINE m == IF a <= b THEN a ELSE b
<1>1. m \in {a, b} /\ \A y \in {a, b} : m <= y
  OBVIOUS
<1>2. \A x \in {a, b} : (\A y \in {a, b} : x <= y) => x = m
  OBVIOUS
<1> HIDE DEF m
<1>3. Media!Min({a, b}) = m
  BY <1>1, <1>2 DEF Media!Min
<1> QED BY <1>3 DEF m

\* The chunks are enough for all bytes.
LEMMA RoundedUp ==
    ASSUME NEW n \in Nat, NEW c \in Nat \ {0}
    PROVE  (n + c - 1) \div c \in Int /\ ((n + c - 1) \div c) * c >= n
<1> DEFINE q == (n + c - 1) \div c
           r == (n + c - 1) % c
<1>1. n + c - 1 = c * q + r /\ r \in 0..c - 1 /\ q \in Int
  OBVIOUS
<1> HIDE DEF q, r
<1>2. c * q \in Int /\ c * q = q * c
  BY <1>1
<1>3. c * q >= n
  BY <1>1, <1>2
<1> QED BY <1>1, <1>2, <1>3 DEF q

LEMMA ChunksAreEnough ==
    ASSUME NEW n \in Nat
    PROVE  Media!TotalChunks(n) \in Nat /\ Media!TotalChunks(n) * MtChunk >= n
<1> DEFINE q == (n + MtChunk - 1) \div MtChunk
<1>1. MtChunk \in Nat \ {0} /\ q \in Int /\ q * MtChunk >= n
  BY MediaAssumption, RoundedUp
<1>2. Media!TotalChunks(n) = IF 1 >= q THEN 1 ELSE q
  BY <1>1, MaxOfTwo DEF Media!TotalChunks
<1> HIDE DEF q
<1>3. CASE 1 >= q
  <2>1. q * MtChunk <= MtChunk
    <3>1. q <= 0 \/ q = 1
      BY <1>1, <1>3
    <3>2. CASE q <= 0
      BY <1>1, <3>2
    <3>3. CASE q = 1
      BY <1>1, <3>3
    <3> QED BY <3>1, <3>2, <3>3
  <2> QED BY <1>1, <1>2, <1>3, <2>1
<1>4. CASE ~(1 >= q)
  BY <1>1, <1>2, <1>4
<1> QED BY <1>3, <1>4

Lesser(a, b) == IF a <= b THEN a ELSE b

\* WeCom has the bytes of the chunks it acknowledged.
MtUpload ==
    /\ size \in Nat /\ chunk \in Nat /\ server \in Nat
    /\ step \in {"idle", "init"} => chunk = 0 /\ server = 0
    /\ step \in {"chunks", "sent"} => server = Lesser(size, chunk * MtChunk)
    /\ step = "sent" => chunk = Media!TotalChunks(size)

\* The blocks are those of the message, and nothing is fetched any more.
MtMessage ==
    blocks # << >> => /\ \A i \in Media!Media : left[i] = -1
                      /\ blocks = Media!Coalesce(Media!Message)

MtInv == MtUpload /\ MtMessage

LEMMA MtBegins == AdInit => MtInv
<1> SUFFICES ASSUME AdInit PROVE MtInv
  OBVIOUS
<1>1. blocks = << >> /\ size = 0 /\ step = "idle" /\ chunk = 0 /\ server = 0
  BY DEF AdInit, Media!MtInit
<1> QED BY <1>1 DEF MtInv, MtUpload, MtMessage

\* The message is made of what is saved.
LEMMA MessageStays ==
    ASSUME UNCHANGED saved
    PROVE  Media!Message' = Media!Message
BY DEF Media!Message, Media!Flatten, Media!Block, Media!Mark, Media!Parts

LEMMA FetchKeeps ==
    ASSUME MtInv, NEW i \in Media!Media,
           Media!AttemptFails(i) \/ Media!MediaUnusable(i) \/ Media!SaveMedia(i)
    PROVE  MtInv'
<1>1. left[i] > 0 /\ blocks' = blocks /\ UNCHANGED Media!mtOut
  BY DEF Media!AttemptFails, Media!MediaUnusable, Media!SaveMedia, Media!Fetching
<1>2. blocks = << >>
  <2>1. left[i] # -1
    BY <1>1
  <2> QED BY <2>1 DEF MtInv, MtMessage
<1> QED BY <1>1, <1>2 DEF MtInv, MtMessage, MtUpload, Media!mtOut

LEMMA AssembleKeeps == ASSUME MtInv, Media!Assemble PROVE MtInv'
<1>1. /\ \A i \in Media!Media : left[i] = -1
      /\ blocks' = Media!Coalesce(Media!Message) /\ left' = left /\ saved' = saved
      /\ UNCHANGED Media!mtOut
  BY DEF Media!Assemble
<1>2. blocks' = Media!Coalesce(Media!Message)'
  BY <1>1, MessageStays DEF Media!Coalesce, Media!AddBlock
<1>3. MtMessage'
  BY <1>1, <1>2 DEF MtMessage, Media!Media, Media!Parts
<1> QED BY <1>1, <1>3 DEF MtInv, MtUpload, Media!mtOut

\* A chunk more.
LEMMA NextChunk ==
    ASSUME NEW n \in Nat, NEW k \in Nat, NEW c \in Nat \ {0}
    PROVE  Lesser(n, (k + 1) * c)
               = Lesser(n, k * c) + Media!Max({0, Media!Min({n - k * c, c})})
<1> DEFINE d == k * c
           g == Media!Min({n - d, c})
<1>1. d \in Nat /\ (k + 1) * c = d + c /\ n - d \in Int /\ c \in Int
  OBVIOUS
<1> HIDE DEF d
<1>2. g = IF n - d <= c THEN n - d ELSE c
  BY <1>1, MinOfTwo
<1> HIDE DEF g
<1>3. g \in Int
  BY <1>1, <1>2
<1>4. Media!Max({0, g}) = IF 0 >= g THEN 0 ELSE g
  BY <1>3, MaxOfTwo
<1>5. Lesser(n, d + c) = Lesser(n, d) + IF 0 >= g THEN 0 ELSE g
  BY <1>1, <1>2 DEF Lesser
<1> QED BY <1>1, <1>4, <1>5 DEF d, g

LEMMA UploadKeeps ==
    ASSUME MtInv, Media!BeginUpload \/ Media!InitAck \/ Media!ChunkAck \/ Media!FinishAck
                  \/ Media!UploadFails
    PROVE  MtInv'
<1>1. UNCHANGED <<left, saved, settled, blocks>>
  BY DEF Media!BeginUpload, Media!InitAck, Media!ChunkAck, Media!FinishAck,
         Media!UploadFails, Media!Acknowledged, Media!mtIn
<1>2. MtMessage'
  BY <1>1, MessageStays
     DEF MtInv, MtMessage, Media!Media, Media!Parts, Media!Coalesce, Media!AddBlock
<1>3. MtUpload
  BY DEF MtInv
<1>4. MtUpload'
  <2>1. CASE Media!BeginUpload
    BY <1>3, <2>1, MediaAssumption DEF MtUpload, Media!BeginUpload
  <2>2. CASE Media!InitAck
    <3>1. /\ step = "init" /\ step' = "chunks" /\ size' = size /\ chunk' = chunk
          /\ server' = server /\ chunk = 0 /\ server = 0 /\ size \in Nat
      BY <1>3, <2>2 DEF MtUpload, Media!InitAck, Media!Acknowledged
    <3>2. Lesser(size, 0 * MtChunk) = 0
      BY <3>1, MediaAssumption DEF Lesser
    <3> QED BY <3>1, <3>2 DEF MtUpload
  <2>3. CASE Media!ChunkAck
    <3>1. /\ step = "chunks" /\ step' = "chunks" /\ size' = size /\ chunk' = chunk + 1
          /\ server' = server + Media!Max({0, Media!Min({size - chunk * MtChunk, MtChunk})})
          /\ size \in Nat /\ chunk \in Nat /\ server = Lesser(size, chunk * MtChunk)
      BY <1>3, <2>3 DEF MtUpload, Media!ChunkAck, Media!Acknowledged
    <3>2. server' = Lesser(size, (chunk + 1) * MtChunk)
      BY <3>1, NextChunk, MediaAssumption
    <3>3. (chunk + 1) * MtChunk \in Nat
      BY <3>1, MediaAssumption
    <3>4. server' \in Nat
      BY <3>1, <3>2, <3>3 DEF Lesser
    <3> QED BY <3>1, <3>2, <3>4 DEF MtUpload
  <2>4. CASE Media!FinishAck
    BY <1>3, <2>4 DEF MtUpload, Media!FinishAck, Media!Acknowledged, Media!TotalChunks
  <2>5. CASE Media!UploadFails
    BY <1>3, <2>5 DEF MtUpload, Media!UploadFails
  <2> QED BY <2>1, <2>2, <2>3, <2>4, <2>5
<1> QED BY <1>2, <1>4 DEF MtInv

\* Whatever order the downloads end in and whichever fail, the blocks of a
\* message hold every part, the pictures in their places; and a media id is used
\* only when WeCom has every byte: for any message, quotation, file and chunk
\* size (adapters/wecom.py:795-1157, adapters/base.py:50-66).
THEOREM MediaAlwaysArrives == AdSpec => []MediaArrives
<1>1. MtInv /\ [AdNext]_AdVars => MtInv'
  <2> SUFFICES ASSUME MtInv, [AdNext]_AdVars PROVE MtInv'
    OBVIOUS
  <2>1. CASE UNCHANGED mtAll
    BY <2>1, MessageStays DEF mtAll, MtInv, MtUpload, MtMessage, Media!Media, Media!Parts,
                              Media!Coalesce, Media!AddBlock, Media!TotalChunks
  <2> QED BY <2>1, FetchKeeps, AssembleKeeps, UploadKeeps, MtSteps DEF Media!MtNext
<1>2. ASSUME MtInv PROVE MediaArrives
  <2>1. ASSUME blocks # << >>
        PROVE  /\ \A i, j \in saved : \A m, n \in DOMAIN blocks :
                     /\ Media!Parts[i] = "image" /\ Media!Parts[j] = "image" /\ m < n
                     /\ blocks[m] = <<"image", <<i>> >> /\ blocks[n] = <<"image", <<j>> >>
                     => IF Media!IsQuote(i) = Media!IsQuote(j) THEN i < j
                        ELSE Media!IsQuote(i)
               /\ \A i \in DOMAIN Media!Parts :
                     \E n \in DOMAIN blocks : i \in Media!Range(blocks[n][2])
    <3> DEFINE s == Media!Message
    <3>1. MessageRight(s)
      BY MessageIsRight
    <3> HIDE DEF s
    <3>2. s \in Seq(Item)
      BY <3>1 DEF MessageRight
    <3>3. blocks = Media!Coalesce(s)
      BY <1>2, <2>1 DEF MtInv, MtMessage, s
    <3>4. blocks \in Seq(BlockOf) /\ Kept(s, Len(s), blocks)
      BY <3>2, <3>3, CoalesceKeeps
    <3>5. DOMAIN blocks = 1..Len(blocks)
      BY <3>4
    <3>6. ASSUME NEW i, NEW j, NEW m \in DOMAIN blocks, NEW n \in DOMAIN blocks, m < n,
                 blocks[m] = <<"image", <<i>> >>, blocks[n] = <<"image", <<j>> >>
          PROVE  IF Media!IsQuote(i) = Media!IsQuote(j) THEN i < j ELSE Media!IsQuote(i)
      <4>1. blocks[m][1] = "image" /\ blocks[n][1] = "image"
            /\ blocks[m][2] = <<i>> /\ blocks[n][2] = <<j>>
        BY <3>6
      <4>2. PICK p \in 1..Len(s), q \in 1..Len(s) :
              p < q /\ Picture(s, p, blocks[m]) /\ Picture(s, q, blocks[n])
        BY <3>4, <3>5, <3>6, <4>1 DEF Kept, InOrder
      <4>3. /\ s[p][1] = "image" /\ <<i>> = <<s[p][2]>>
            /\ s[q][1] = "image" /\ <<j>> = <<s[q][2]>>
        BY <4>1, <4>2 DEF Picture
      <4>4. s[p][2] = i /\ s[q][2] = j
        BY <4>3
      <4>5. IF Media!IsQuote(s[p][2]) = Media!IsQuote(s[q][2]) THEN s[p][2] < s[q][2]
            ELSE Media!IsQuote(s[p][2])
        BY <3>1, <4>2, <4>3 DEF MessageRight
      <4> QED BY <4>4, <4>5
    <3>7. ASSUME NEW i \in DOMAIN Media!Parts
          PROVE  \E n \in DOMAIN blocks : i \in Media!Range(blocks[n][2])
      <4>1. PICK p \in 1..Len(s) : s[p][2] = i
        BY <3>1 DEF MessageRight
      <4>2. PICK k \in 1..Len(blocks) : Within(i, blocks[k][2])
        BY <3>4, <4>1 DEF Kept, AllIn
      <4>3. blocks[k] \in BlockOf
        BY <3>4
      <4>4. blocks[k][2] \in Seq(Int)
        BY <4>3 DEF BlockOf
      <4>5. DOMAIN blocks[k][2] = 1..Len(blocks[k][2])
        BY <4>4
      <4> QED BY <3>5, <4>2, <4>5 DEF Within, Media!Range
    <3> QED BY <3>6, <3>7
  <2>2. ASSUME step = "sent" PROVE server = size
    <3>1. /\ size \in Nat /\ chunk = Media!TotalChunks(size)
          /\ server = Lesser(size, chunk * MtChunk)
      BY <1>2, <2>2 DEF MtInv, MtUpload
    <3>2. chunk * MtChunk >= size
      BY <3>1, ChunksAreEnough
    <3> QED BY <3>1, <3>2 DEF Lesser
  <2> QED BY <2>1, <2>2 DEF MediaArrives, Media!MediaArrives
<1> QED BY <1>1, <1>2, MtBegins, PTL DEF AdSpec

-----------------------------------------------------------------------------
(* Callbacks: a step of MCAdapter, seen from them *)

LEMMA CbSteps == [AdNext]_AdVars => Callback!CbNext \/ UNCHANGED cbAll
BY DEF AdNext, AdVars

\* A session is marked while it has one call; two of them are noted.
CbMarks ==
    /\ calls \in [Callback!CbSessions -> Nat]
    /\ Callback!BusyIsTrue
    /\ \A s \in Callback!CbSessions : calls[s] > 1 => s \in overlap

\* What has been forgotten was followed by as many others as are remembered; a
\* remembered id by those behind it.
CbMemory ==
    /\ lru \in Seq(CbMsgs) /\ Len(lru) <= CbLruSize
    /\ \A i, j \in 1..Len(lru) : lru[i] = lru[j] => i = j
    /\ others \in [CbMsgs -> (SUBSET CbMsgs) \cup {Callback!Unseen}]
    /\ \A m \in CbMsgs : others[m] # Callback!Unseen =>
          /\ IsFiniteSet(others[m])
          /\ (\E i \in 1..Len(lru) : lru[i] = m) \/ Cardinality(others[m]) >= CbLruSize
    /\ \A j \in 1..Len(lru) :
          /\ others[lru[j]] # Callback!Unseen
          /\ \A i \in 1..Len(lru) : j < i => lru[i] \in others[lru[j]]

LEMMA CallbackCounts == \A S : Callback!Cardinality(S) = Cardinality(S)
BY DEF Callback!Cardinality, Cardinality

LEMMA CbBegins == AdInit => CbMarks /\ CbMemory
<1> SUFFICES ASSUME AdInit PROVE CbMarks /\ CbMemory
  OBVIOUS
<1>1. CbMarks
  BY DEF AdInit, Callback!CbInit, CbMarks, Callback!BusyIsTrue
<1>2. lru = << >> /\ others = [m \in CbMsgs |-> Callback!Unseen]
  BY DEF AdInit, Callback!CbInit
<1>3. << >> \in Seq(CbMsgs) /\ Len(<< >>) = 0 /\ 1..0 = {}
  OBVIOUS
<1>4. CbMemory
  BY <1>2, <1>3, CallbacksAssumption DEF CbMemory
<1> QED BY <1>1, <1>4

\* The marks follow the calls.
LEMMA MarksKeep == CbMarks /\ [AdNext]_AdVars => CbMarks'
<1> SUFFICES ASSUME CbMarks, [AdNext]_AdVars PROVE CbMarks'
  OBVIOUS
<1> USE DEF CbMarks, Callback!BusyIsTrue
<1>1. CASE UNCHANGED <<busy, calls, overlap>>
  BY <1>1
<1>2. ASSUME NEW s \in Callback!CbSessions, Callback!HandleBegins(s) PROVE CbMarks'
  BY <1>2 DEF Callback!HandleBegins
<1>3. ASSUME NEW s \in Callback!CbSessions, Callback!HandleEnds(s) PROVE CbMarks'
  <2>1. calls[s] = 1 \/ calls[s] > 1
    BY <1>3 DEF Callback!HandleEnds
  <2>2. CASE calls[s] = 1
    BY <1>3, <2>2 DEF Callback!HandleEnds
  <2>3. CASE calls[s] > 1
    BY <1>3, <2>3 DEF Callback!HandleEnds
  <2> QED BY <2>1, <2>2, <2>3
<1>4. ASSUME NEW m \in CbMsgs,
             \/ Callback!Duplicate(m) \/ Callback!Blocked(m) \/ Callback!Message(m)
             \/ Callback!Unavailable(m) \/ Callback!NewCommand(m) \/ Callback!StopCommand(m)
             \/ Callback!StatusCommand(m) \/ Callback!RunningCommand(m) \/ Callback!EnterChat(m)
      PROVE  UNCHANGED <<busy, calls, overlap>>
  BY <1>4 DEF Callback!Duplicate, Callback!Blocked, Callback!Message, Callback!Unavailable,
     Callback!NewCommand, Callback!StopCommand, Callback!StatusCommand,
     Callback!RunningCommand, Callback!EnterChat, Callback!cbTurns
<1>5. CASE Callback!PolicyReloaded \/ UNCHANGED cbAll
  BY <1>1, <1>5 DEF Callback!PolicyReloaded, Callback!cbTurns, cbAll
<1> QED BY <1>1, <1>2, <1>3, <1>4, <1>5, CbSteps DEF Callback!CbNext

\* Only /new and /status tell that a session is idle, and they ask its mark.
LEMMA TellsTheTruth ==
    ASSUME CbMarks, [AdNext]_AdVars, told' # told, told'.is \in {"reset", "idle"}
    PROVE  \/ calls[CbSession[told'.to]] = 0
           \/ CbSession[told'.to] \in overlap
<1>1. ASSUME NEW m \in CbMsgs, Callback!NewCommand(m) \/ Callback!StatusCommand(m)
      PROVE  CbSession[told'.to] \notin busy /\ CbSession[told'.to] \in Callback!CbSessions
  BY <1>1 DEF Callback!NewCommand, Callback!StatusCommand, Callback!Say, Callback!CbSessions
<1>2. ASSUME NEW m \in CbMsgs,
             \/ Callback!Duplicate(m) \/ Callback!Blocked(m) \/ Callback!Message(m)
             \/ Callback!Unavailable(m) \/ Callback!StopCommand(m)
             \/ Callback!RunningCommand(m) \/ Callback!EnterChat(m)
      PROVE  FALSE
  <2>1. ASSUME NEW text, Callback!Say(m, text)
        PROVE  told'.is = text
    BY <2>1 DEF Callback!Say
  <2>2. CASE Callback!Duplicate(m) \/ Callback!Message(m)
    BY <2>2 DEF Callback!Duplicate, Callback!Message
  <2>3. CASE Callback!Blocked(m) \/ Callback!Unavailable(m)
    BY <2>1, <2>3 DEF Callback!Blocked, Callback!Unavailable
  <2>4. CASE Callback!StopCommand(m)
    <3>1. \E text \in {"stopped", "drained", "nothing"} : Callback!Say(m, text)
      BY <2>4 DEF Callback!StopCommand
    <3> QED BY <2>1, <3>1
  <2>5. CASE Callback!RunningCommand(m)
    <3>1. \E text \in {"private only", "none", "list"} : Callback!Say(m, text)
      BY <2>5 DEF Callback!RunningCommand
    <3> QED BY <2>1, <3>1
  <2>6. CASE Callback!EnterChat(m)
    <3>1. told' = told \/ Callback!Say(m, "welcome")
      BY <2>6 DEF Callback!EnterChat, Callback!Welcomed
    <3> QED BY <2>1, <3>1
  <2> QED BY <1>2, <2>2, <2>3, <2>4, <2>5, <2>6
<1>3. ASSUME \/ Callback!PolicyReloaded \/ UNCHANGED cbAll
             \/ \E s \in Callback!CbSessions : Callback!HandleBegins(s) \/ Callback!HandleEnds(s)
      PROVE  FALSE
  BY <1>3 DEF Callback!PolicyReloaded, Callback!HandleBegins, Callback!HandleEnds, cbAll
<1>4. CbSession[told'.to] \notin busy /\ CbSession[told'.to] \in Callback!CbSessions
  BY <1>1, <1>2, <1>3, CbSteps DEF Callback!CbNext
<1> QED BY <1>4 DEF CbMarks, Callback!BusyIsTrue

\* Only a callback that comes in changes what is remembered.
LEMMA CbMoves ==
    ASSUME [AdNext]_AdVars
    PROVE  \/ UNCHANGED <<lru, others, again>>
           \/ \E m \in CbMsgs :
                 /\ Callback!Seen(m)
                 /\ \/ Callback!Replay(m) /\ Callback!Refresh(m)
                    \/ ~Callback!Replay(m) /\ Callback!Insert(m)
<1>1. ASSUME NEW m \in CbMsgs,
             \/ Callback!Duplicate(m) \/ Callback!Blocked(m) \/ Callback!Message(m)
             \/ Callback!Unavailable(m) \/ Callback!NewCommand(m) \/ Callback!StopCommand(m)
             \/ Callback!StatusCommand(m) \/ Callback!RunningCommand(m) \/ Callback!EnterChat(m)
      PROVE  /\ Callback!Seen(m)
             /\ \/ Callback!Replay(m) /\ Callback!Refresh(m)
                \/ ~Callback!Replay(m) /\ Callback!Insert(m)
  BY <1>1 DEF Callback!Duplicate, Callback!Blocked, Callback!Message, Callback!Unavailable,
     Callback!NewCommand, Callback!StopCommand, Callback!StatusCommand,
     Callback!RunningCommand, Callback!EnterChat, Callback!Command, Callback!Fresh
<1>2. CASE \/ Callback!PolicyReloaded \/ UNCHANGED cbAll
           \/ \E s \in Callback!CbSessions : Callback!HandleBegins(s) \/ Callback!HandleEnds(s)
  BY <1>2 DEF Callback!PolicyReloaded, Callback!HandleBegins, Callback!HandleEnds, cbAll
<1> QED BY <1>1, <1>2, CbSteps DEF Callback!CbNext

\* An id comes to the end; the others stay in their order, and the oldest goes
\* if there are too many.
ComesLast(m, k, f) ==
    /\ k \in Nat /\ f \in [1..k -> 1..Len(lru)] /\ \A i, j \in 1..k : i < j => f[i] < f[j]
    /\ lru' \in Seq(CbMsgs) /\ Len(lru') = k + 1 /\ k + 1 <= CbLruSize /\ lru'[k + 1] = m
    /\ \A i \in 1..k : lru'[i] = lru[f[i]] /\ lru[f[i]] # m
    /\ \A j \in 1..Len(lru) :
          \/ lru[j] = m \/ \E i \in 1..k : f[i] = j
          \/ /\ j = 1 /\ Len(lru) = CbLruSize
             /\ \A i \in 1..Len(lru) : lru[i] # m

LEMMA MemoryKeeps ==
    ASSUME CbMemory, NEW m \in CbMsgs, Callback!Seen(m), NEW k, NEW f, ComesLast(m, k, f)
    PROVE  CbMemory'
<1> USE DEF ComesLast
<1>0. Len(lru) \in Nat /\ CbLruSize \in Nat \ {0} /\ \A i \in 1..Len(lru) : lru[i] \in CbMsgs
  BY CallbacksAssumption DEF CbMemory
<1>1. /\ others'[m] = {} /\ others' = [n \in CbMsgs |-> others'[n]]
      /\ \A n \in CbMsgs \ {m} :
            others'[n] = IF others[n] = Callback!Unseen THEN Callback!Unseen ELSE others[n] \cup {m}
  BY DEF Callback!Seen
<1>2. "never" \notin CbMsgs
  BY CallbacksAssumption
<1>3. \A n \in CbMsgs : /\ others[n] # Callback!Unseen => others[n] \in SUBSET CbMsgs
                        /\ others[n] # Callback!Unseen \/ n = m => others'[n] # Callback!Unseen
                        /\ others'[n] # Callback!Unseen => others[n] # Callback!Unseen \/ n = m
  <2> SUFFICES ASSUME NEW n \in CbMsgs
               PROVE  /\ others[n] # Callback!Unseen => others[n] \in SUBSET CbMsgs
                      /\ others[n] # Callback!Unseen \/ n = m => others'[n] # Callback!Unseen
                      /\ others'[n] # Callback!Unseen => others[n] # Callback!Unseen \/ n = m
    OBVIOUS
  <2>1. others[n] # Callback!Unseen => others[n] \in SUBSET CbMsgs
    BY DEF CbMemory
  <2>2. CASE n = m
    <3>1. others'[n] = {}
      BY <1>1, <2>2
    <3>2. {} # Callback!Unseen
      BY DEF Callback!Unseen
    <3> QED BY <2>1, <2>2, <3>1, <3>2
  <2>3. CASE n # m
    <3>1. others'[n] = IF others[n] = Callback!Unseen THEN Callback!Unseen ELSE others[n] \cup {m}
      BY <1>1, <2>3
    <3>2. m \notin Callback!Unseen
      BY <1>2 DEF Callback!Unseen
    <3>3. others[n] \cup {m} # Callback!Unseen
      BY <3>2
    <3> QED BY <2>1, <2>3, <3>1, <3>3
  <2> QED BY <2>2, <2>3
<1>4. others' \in [CbMsgs -> (SUBSET CbMsgs) \cup {Callback!Unseen}]
  <2>1. \A n \in CbMsgs : others'[n] \in (SUBSET CbMsgs) \cup {Callback!Unseen}
    BY <1>1, <1>3
  <2> QED BY <1>1, <2>1
<1>5. ASSUME NEW i \in 1..(k + 1), NEW j \in 1..(k + 1), lru'[i] = lru'[j], i < j
      PROVE  FALSE
  <2>1. CASE j = k + 1
    <3>1. i \in 1..k
      BY <1>5, <2>1
    <3> QED BY <1>5, <2>1, <3>1
  <2>2. CASE j # k + 1
    <3>1. i \in 1..k /\ j \in 1..k /\ f[i] < f[j] /\ f[i] \in 1..Len(lru) /\ f[j] \in 1..Len(lru)
      BY <1>5, <2>2
    <3>2. lru[f[i]] = lru[f[j]]
      BY <1>5, <3>1
    <3> QED BY <1>0, <3>1, <3>2 DEF CbMemory
  <2> QED BY <2>1, <2>2
<1>6. ASSUME NEW n \in CbMsgs, others'[n] # Callback!Unseen
      PROVE  /\ IsFiniteSet(others'[n])
             /\ (\E i \in 1..(k + 1) : lru'[i] = n) \/ Cardinality(others'[n]) >= CbLruSize
  <2>1. CASE n = m
    <3>1. IsFiniteSet(others'[n]) /\ k + 1 \in 1..(k + 1)
      BY <1>1, <2>1, FS_EmptySet
    <3> QED BY <2>1, <3>1
  <2>2. CASE n # m
    <3>1. others[n] # Callback!Unseen /\ others'[n] = others[n] \cup {m} /\ IsFiniteSet(others[n])
      BY <1>1, <1>3, <1>6, <2>2 DEF CbMemory
    <3> DEFINE S == others[n]
    <3>a. IsFiniteSet(S)
      BY <3>1
    <3> HIDE DEF S
    <3>b. /\ IsFiniteSet(S \cup {m}) /\ Cardinality(S) \in Nat
          /\ Cardinality(S \cup {m}) = IF m \in S THEN Cardinality(S) ELSE Cardinality(S) + 1
      BY <3>a, FS_AddElement, FS_CardinalityType
    <3>2. /\ IsFiniteSet(others'[n]) /\ Cardinality(others[n]) \in Nat
          /\ Cardinality(others'[n]) = IF m \in others[n] THEN Cardinality(others[n])
                                       ELSE Cardinality(others[n]) + 1
      BY <3>1, <3>b DEF S
    <3>3. CASE Cardinality(others[n]) >= CbLruSize
      BY <1>0, <3>2, <3>3
    <3>4. CASE ~(Cardinality(others[n]) >= CbLruSize)
      <4>1. PICK j \in 1..Len(lru) : lru[j] = n
        BY <3>1, <3>4 DEF CbMemory
      <4>2. CASE \E i \in 1..k : f[i] = j
        BY <3>2, <4>1, <4>2
      <4>3. CASE /\ j = 1 /\ Len(lru) = CbLruSize
                 /\ \A i \in 1..Len(lru) : lru[i] # m
        <5> DEFINE L == Len(lru)
                   g == [i \in 1..L |-> IF i < L THEN lru[i + 1] ELSE m]
        <5>1. \A i \in 1..L : i # 1 => lru[i] \in others[n]
          BY <1>0, <4>1, <4>3 DEF CbMemory
        <5>2. \A i \in 1..L : g[i] \in others'[n]
          BY <1>0, <3>1, <5>1
        <5>3. \A i, j2 \in 1..L : g[i] = g[j2] => i = j2
          BY <1>0, <4>3 DEF CbMemory
        <5>4. g \in Injection(1..L, others'[n])
          BY <5>2, <5>3 DEF Injection, IsInjective
        <5>a. L \in Nat /\ L >= 1 /\ L - 1 + 1 = L
          BY <1>0, <4>3
        <5> HIDE DEF g, L
        <5>5. IsFiniteSet(1..L) /\ Cardinality(1..L) = L
          <6>1. 1 \in Int /\ L \in Int /\ ~(1 > L)
            BY <5>a
          <6>2. IsFiniteSet(1..L) /\ Cardinality(1..L) = IF 1 > L THEN 0 ELSE L - 1 + 1
            BY <6>1, FS_Interval, Zenon
          <6> QED BY <5>a, <6>1, <6>2
        <5>6. Cardinality(1..L) <= Cardinality(others'[n])
          BY <3>2, <5>4, FS_Injection
        <5> QED BY <1>0, <3>2, <4>3, <5>5, <5>6 DEF L
      <4> QED BY <2>2, <4>1, <4>2, <4>3
    <3> QED BY <3>3, <3>4
  <2> QED BY <2>1, <2>2
<1>7. ASSUME NEW j \in 1..(k + 1)
      PROVE  /\ others'[lru'[j]] # Callback!Unseen
             /\ \A i \in 1..(k + 1) : j < i => lru'[i] \in others'[lru'[j]]
  <2>1. CASE j = k + 1
    <3>1. \A i \in 1..(k + 1) : ~(j < i)
      BY <2>1
    <3> QED BY <1>3, <2>1, <3>1
  <2>2. CASE j # k + 1
    <3>1. j \in 1..k /\ lru'[j] = lru[f[j]] /\ lru[f[j]] # m /\ f[j] \in 1..Len(lru)
      BY <2>2
    <3> DEFINE n == lru[f[j]]
    <3>2. n \in CbMsgs /\ others[n] # Callback!Unseen /\ others'[n] = others[n] \cup {m}
      BY <1>0, <1>1, <3>1 DEF CbMemory
    <3>3. ASSUME NEW i \in 1..(k + 1), j < i
          PROVE  lru'[i] \in others'[n]
      <4>1. CASE i = k + 1
        BY <3>2, <4>1
      <4>2. CASE i # k + 1
        <5>0. i \in 1..k
          BY <4>2
        <5>1. f[j] < f[i] /\ f[i] \in 1..Len(lru) /\ lru'[i] = lru[f[i]]
          BY <3>1, <3>3, <5>0
        <5>2. lru[f[i]] \in others[n]
          BY <3>1, <5>1 DEF CbMemory
        <5> QED BY <3>2, <5>0, <5>1, <5>2
      <4> QED BY <4>1, <4>2
    <3> QED BY <1>3, <3>1, <3>2, <3>3
  <2> QED BY <2>1, <2>2
<1>8. Len(lru') = k + 1 /\ Len(lru') <= CbLruSize
  OBVIOUS
<1>9. \A i, j \in 1..(k + 1) : lru'[i] = lru'[j] => i = j
  <2>1. \A i, j \in 1..(k + 1) : i < j \/ j < i \/ i = j
    OBVIOUS
  <2> QED BY <1>5, <2>1
<1> QED BY <1>4, <1>6, <1>7, <1>8, <1>9 DEF CbMemory

\* A sequence without its i-th entry.
LEMMA TakenOut ==
    ASSUME NEW X, NEW s \in Seq(X), NEW i \in 1..Len(s)
    PROVE  LET r == Callback!RemoveAt(s, i)
           IN  /\ r \in Seq(X) /\ Len(r) = Len(s) - 1
               /\ \A j \in 1..(Len(s) - 1) : r[j] = s[IF j < i THEN j ELSE j + 1]
<1> DEFINE n == Len(s)
           a == SubSeq(s, 1, i - 1)
           b == SubSeq(s, i + 1, n)
<1>1. n \in Nat /\ i \in 1..n
  OBVIOUS
<1>2. a \in Seq(X) /\ Len(a) = i - 1 /\ \A j \in 1..(i - 1) : a[j] = s[j]
  OBVIOUS
<1>3. b \in Seq(X) /\ Len(b) = n - i /\ \A j \in 1..(n - i) : b[j] = s[i + j]
  OBVIOUS
<1>4. Callback!RemoveAt(s, i) = a \o b
  BY DEF Callback!RemoveAt
<1> HIDE DEF a, b, n
<1>5. /\ a \o b \in Seq(X) /\ Len(a \o b) = Len(a) + Len(b)
      /\ \A j \in 1..(Len(a) + Len(b)) : (a \o b)[j] = IF j <= Len(a) THEN a[j] ELSE b[j - Len(a)]
  BY <1>2, <1>3, ConcatProperties
<1>6. Len(a \o b) = n - 1
  BY <1>1, <1>2, <1>3, <1>5
<1>7. ASSUME NEW j \in 1..(n - 1) PROVE (a \o b)[j] = s[IF j < i THEN j ELSE j + 1]
  <2>1. (a \o b)[j] = IF j <= i - 1 THEN a[j] ELSE b[j - (i - 1)]
    BY <1>1, <1>2, <1>3, <1>5
  <2>2. CASE j < i
    BY <1>1, <1>2, <2>1, <2>2
  <2>3. CASE ~(j < i)
    <3>1. j - (i - 1) \in 1..(n - i) /\ i + (j - (i - 1)) = j + 1 /\ ~(j <= i - 1)
      BY <1>1, <2>3
    <3> QED BY <1>3, <2>1, <2>3, <3>1
  <2> QED BY <2>2, <2>3
<1> QED BY <1>4, <1>5, <1>6, <1>7 DEF n

LEMMA MemoryStep == CbMemory /\ [AdNext]_AdVars => CbMemory'
<1> SUFFICES ASSUME CbMemory, [AdNext]_AdVars PROVE CbMemory'
  OBVIOUS
<1>0. /\ lru \in Seq(CbMsgs) /\ Len(lru) \in Nat /\ CbLruSize \in Nat \ {0} /\ Len(lru) <= CbLruSize
      /\ DOMAIN lru = 1..Len(lru) /\ \A i \in 1..Len(lru) : lru[i] \in CbMsgs
  BY CallbacksAssumption DEF CbMemory
<1>1. CASE UNCHANGED <<lru, others, again>>
  BY <1>1 DEF CbMemory
<1>2. ASSUME NEW m \in CbMsgs, Callback!Seen(m), Callback!Refresh(m)
      PROVE  CbMemory'
  <2>1. PICK p \in 1..Len(lru) : lru[p] = m /\ lru' = Append(Callback!RemoveAt(lru, p), m)
    BY <1>0, <1>2 DEF Callback!Refresh
  <2> DEFINE k == Len(lru) - 1
             f == [i \in 1..k |-> IF i < p THEN i ELSE i + 1]
             r == Callback!RemoveAt(lru, p)
  <2>2. r \in Seq(CbMsgs) /\ Len(r) = k /\ \A i \in 1..k : r[i] = lru[f[i]]
    BY <1>0, <2>1, TakenOut
  <2>3. k \in Nat /\ k + 1 = Len(lru) /\ f \in [1..k -> 1..Len(lru)]
    BY <1>0, <2>1
  <2>4. \A i \in 1..k : f[i] # p /\ f[i] \in 1..Len(lru)
    BY <1>0, <2>1
  <2>5. \A i, j \in 1..k : i < j => f[i] < f[j]
    BY <1>0, <2>1
  <2>6. ASSUME NEW j \in 1..Len(lru), j # p PROVE \E i \in 1..k : f[i] = j
    <3>1. CASE j < p
      <4>1. j \in 1..k /\ f[j] = j
        BY <1>0, <2>1, <3>1
      <4> QED BY <4>1
    <3>2. CASE ~(j < p)
      <4>1. j - 1 \in 1..k /\ f[j - 1] = j
        BY <1>0, <2>1, <2>6, <3>2
      <4> QED BY <4>1
    <3> QED BY <3>1, <3>2
  <2> HIDE DEF k, f, r
  <2>7. /\ lru' \in Seq(CbMsgs) /\ Len(lru') = k + 1 /\ lru'[k + 1] = m
        /\ \A i \in 1..k : lru'[i] = r[i]
    BY <2>1, <2>2, <2>3 DEF r
  <2>8. \A i \in 1..k : lru[f[i]] # m
    BY <2>1, <2>4 DEF CbMemory
  <2>9. \A i \in 1..k : lru'[i] = lru[f[i]]
    BY <2>2, <2>7
  <2>10. \A j \in 1..Len(lru) : lru[j] = m \/ \E i \in 1..k : f[i] = j
    BY <2>1, <2>6
  <2>11. ComesLast(m, k, f)
    BY <1>0, <2>3, <2>5, <2>7, <2>8, <2>9, <2>10 DEF ComesLast
  <2> QED BY <1>2, <2>11, MemoryKeeps
<1>3. ASSUME NEW m \in CbMsgs, Callback!Seen(m), ~Callback!Replay(m), Callback!Insert(m)
      PROVE  CbMemory'
  <2>1. \A i \in 1..Len(lru) : lru[i] # m
    BY <1>0, <1>3 DEF Callback!Replay, Callback!Range
  <2>2. CASE Len(lru) < CbLruSize
    <3> DEFINE f == [i \in 1..Len(lru) |-> i]
    <3>1. f \in [1..Len(lru) -> 1..Len(lru)] /\ \A i \in 1..Len(lru) : f[i] = i
      OBVIOUS
    <3> HIDE DEF f
    <3>2. lru' = Append(lru, m)
      BY <1>3, <2>2 DEF Callback!Insert
    <3>3. /\ lru' \in Seq(CbMsgs) /\ Len(lru') = Len(lru) + 1 /\ lru'[Len(lru) + 1] = m
          /\ \A i \in 1..Len(lru) : lru'[i] = lru[i]
      BY <1>0, <3>2
    <3>4. /\ \A i \in 1..Len(lru) : lru'[i] = lru[f[i]] /\ lru[f[i]] # m
          /\ \A i, j \in 1..Len(lru) : i < j => f[i] < f[j]
          /\ \A j \in 1..Len(lru) : \E i \in 1..Len(lru) : f[i] = j
          /\ Len(lru) + 1 <= CbLruSize
      BY <1>0, <2>1, <2>2, <3>1, <3>3
    <3>5. ComesLast(m, Len(lru), f)
      BY <1>0, <3>1, <3>3, <3>4 DEF ComesLast
    <3> QED BY <1>3, <3>5, MemoryKeeps
  <2>3. CASE ~(Len(lru) < CbLruSize)
    <3>c. Len(lru) \in Nat /\ CbLruSize \in Nat /\ Len(lru) <= CbLruSize
      BY <1>0
    <3>b. Len(lru) = CbLruSize
      BY <2>3, <3>c
    <3> DEFINE k == Len(lru) - 1
               f == [i \in 1..k |-> i + 1]
    <3>0. Len(lru) = CbLruSize /\ k \in Nat /\ k + 1 = Len(lru)
      BY <1>0, <3>b
    <3>a. \A i \in 1..k : i + 1 \in 1..Len(lru)
      BY <3>0
    <3>1. Len(lru) = CbLruSize /\ k \in Nat /\ k + 1 = Len(lru) /\ f \in [1..k -> 1..Len(lru)]
      BY <3>0, <3>a
    <3>2. \A i \in 1..k : f[i] = i + 1
      OBVIOUS
    <3>3. lru' = Append(Tail(lru), m)
      BY <1>3, <2>3 DEF Callback!Insert
    <3>4. Tail(lru) \in Seq(CbMsgs) /\ Len(Tail(lru)) = k /\ \A i \in 1..k : Tail(lru)[i] = lru[i + 1]
      BY <1>0, <3>1
    <3> HIDE DEF f, k
    <3>5. /\ lru' \in Seq(CbMsgs) /\ Len(lru') = k + 1 /\ lru'[k + 1] = m
          /\ \A i \in 1..k : lru'[i] = Tail(lru)[i]
      BY <3>1, <3>3, <3>4
    <3>6. \A i \in 1..k : lru'[i] = lru[f[i]] /\ lru[f[i]] # m
      BY <2>1, <3>1, <3>2, <3>4, <3>5
    <3>7. \A i, j \in 1..k : i < j => f[i] < f[j]
      BY <3>1, <3>2
    <3>8. ASSUME NEW j \in 1..Len(lru) PROVE j = 1 \/ \E i \in 1..k : f[i] = j
      <4>1. CASE j # 1
        <5>1. j - 1 \in 1..k /\ f[j - 1] = j
          BY <3>1, <3>2, <4>1
        <5> QED BY <5>1
      <4> QED BY <4>1
    <3>9. ComesLast(m, k, f)
      BY <1>0, <2>1, <3>1, <3>5, <3>6, <3>7, <3>8 DEF ComesLast
    <3> QED BY <1>3, <3>9, MemoryKeeps
  <2> QED BY <2>2, <2>3
<1> QED BY <1>1, <1>2, <1>3, CbMoves

\* A replay that is acted on has been forgotten.
LEMMA DropsReplays ==
    ASSUME CbMemory, [AdNext]_AdVars, NEW m \in CbMsgs,
           again', ~again, others'[m] = {}, others[m] # {}
    PROVE  Cardinality(others[m]) >= CbLruSize
<1>1. PICK n \in CbMsgs : Callback!Seen(n) /\ (~Callback!Replay(n) \/ Callback!Replay(n))
  BY CbMoves
<1>2. ~Callback!Replay(n) /\ others[n] # Callback!Unseen
  BY <1>1 DEF Callback!Seen
<1>3. n = m
  BY <1>1, <1>2 DEF Callback!Seen, Callback!Unseen
<1>4. \A i \in 1..Len(lru) : lru[i] # m
  <2>1. DOMAIN lru = 1..Len(lru)
    BY DEF CbMemory
  <2> QED BY <1>2, <1>3, <2>1 DEF Callback!Replay, Callback!Range
<1> QED BY <1>2, <1>3, <1>4 DEF CbMemory

\* However callbacks come again and calls of a session overlap: a replay is acted on
\* only if as many others as are remembered came in between; no session stays
\* marked, /new resets and /status says idle only when no turn runs (unless two
\* did at a time): for any callbacks and sessions and any size of the memory.
THEOREM CallbacksStaySound == AdSpec => CallbacksSound
<1>1. AdInit => CbMarks /\ CbMemory
  BY CbBegins
<1>2. CbMarks /\ CbMemory /\ [AdNext]_AdVars => (CbMarks /\ CbMemory)'
  BY MarksKeep, MemoryStep
<1>3. CbMarks => Callback!BusyIsTrue
  BY DEF CbMarks
<1>4. CbMarks /\ [AdNext]_AdVars =>
        [told' # told /\ told'.is \in {"reset", "idle"} =>
            \/ calls[CbSession[told'.to]] = 0
            \/ CbSession[told'.to] \in overlap]_Callback!cbVars
  BY TellsTheTruth
<1>5. CbMemory /\ [AdNext]_AdVars =>
        [\A m \in CbMsgs :
            again' /\ ~again /\ others'[m] = {} /\ others[m] # {} =>
               Callback!Cardinality(others[m]) >= CbLruSize]_Callback!cbVars
  BY DropsReplays, CallbackCounts
<1> QED
  BY <1>1, <1>2, <1>3, <1>4, <1>5, PTL
     DEF AdSpec, CallbacksSound, Callback!CommandsTellTheTruth, Callback!ReplaysAreDropped
=============================================================================
