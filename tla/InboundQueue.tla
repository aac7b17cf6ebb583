---------------------------- MODULE InboundQueue ----------------------------
(***************************************************************************)
(* The inbound queue of one session in adapters/wecom.py.                  *)
(*                                                                         *)
(* The reader loop gives every message frame a sequence number (its slot)  *)
(* and spawns a callback task for it.  The callback either turns the slot  *)
(* into a turn (a message for the dispatcher, whose media is fetched while *)
(* it stands in line) or into a skip (duplicate, parse failure, blocked    *)
(* user, slash command).  A worker task, spawned when none is alive, walks *)
(* the slots in order and awaits the handler for each turn.  /stop marks   *)
(* the queued turns dropped and cancels the worker task; the CancelledError*)
(* reaches the worker some steps later, at the await it is suspended in.   *)
(*                                                                         *)
(* asyncio runs a task without interruption from one await that suspends   *)
(* to the next, so an action here is such a stretch of code.  The cond     *)
(* critical sections contain no other await, so taking the lock never      *)
(* suspends and needs no step.  A queue that is popped from                *)
(* _inbound_queues is replaced on the next use by a fresh _InboundQueue(), *)
(* which is what resetting its fields stands for.                          *)
(***************************************************************************)
EXTENDS Integers, Sequences, FiniteSets

CONSTANTS Frames,    \* callback frames; one that has been settled may come again
          Workers,   \* identities for worker tasks
          None,      \* Python's None
          Kinds,     \* what callbacks may turn out to be, see KindSet
          MaxSeq     \* bound on next_seq, for model checking

KindSet == {"turn",     \* a message for the dispatcher
            "discard",  \* duplicate msgid, parse failure, unsupported type
            "reply",    \* blocked user, /new, /status, /running
            "stop"}     \* /stop

ASSUME QueueAssumption == /\ None \notin Frames
                          /\ None \notin Workers
                          /\ Kinds \subseteq KindSet
                          /\ MaxSeq \in Nat

NoSlot == -1

VARIABLES
    \* the fields of the _InboundQueue registered for the session
    nextSeq, dispatchSeq, turns, skipped, worker,
    \* callback tasks: order_key, progress, and the not yet started ones
    slot, cb, spawned,
    \* the fields of the _InboundTurn of a frame
    ready, done, drop, timedOut,
    \* frames whose reply, or whose handler, waits in put() for a place in a
    \* write queue that a reconnect has replaced
    stranded,
    \* worker tasks: where each is suspended, its turn, and pending cancels
    wpc, wturn, cancelled

queueVars  == <<nextSeq, dispatchSeq, turns, skipped>>
cbVars     == <<slot, cb, spawned>>
turnVars   == <<ready, done, drop, timedOut, stranded>>
workerVars == <<worker, wpc, wturn, cancelled>>
vars       == <<queueVars, cbVars, turnVars, workerVars>>

CbStates == {"idle", "spawned", "replying", "resolving", "awaiting"}
WorkerStates == {"dead",      \* not running: never spawned, or task.done()
                 "new",       \* created, its first step is still to come
                 "loop",      \* at the top of the loop, or in cond.wait_for
                 "prefetch",  \* awaiting turn.ready
                 "handler"}   \* awaiting handler(turn.inbound, stream)

TypeOK ==
    /\ nextSeq \in Nat
    /\ dispatchSeq \in Nat
    /\ turns \subseteq Frames
    /\ skipped \subseteq Nat
    /\ worker \in Workers \cup {None}
    /\ slot \in [Frames -> Nat \cup {NoSlot}]
    /\ cb \in [Frames -> CbStates]
    /\ spawned \in Seq(Frames)
    /\ ready \subseteq Frames
    /\ done \subseteq Frames
    /\ drop \subseteq Frames
    /\ timedOut \subseteq Frames
    /\ stranded \subseteq Frames
    /\ wpc \in [Workers -> WorkerStates]
    /\ wturn \in [Workers -> Frames \cup {None}]
    /\ cancelled \subseteq Workers

Init ==
    /\ nextSeq = 0 /\ dispatchSeq = 0 /\ turns = {} /\ skipped = {}
    /\ worker = None
    /\ slot = [f \in Frames |-> NoSlot]
    /\ cb = [f \in Frames |-> "idle"]
    /\ spawned = <<>>
    /\ ready = {} /\ done = {} /\ drop = {} /\ timedOut = {} /\ stranded = {}
    /\ wpc = [w \in Workers |-> "dead"]
    /\ wturn = [w \in Workers |-> None]
    /\ cancelled = {}

-----------------------------------------------------------------------------
(* Helpers *)

Alive(w) == wpc[w] # "dead"
HasLiveWorker == worker # None /\ Alive(worker)

\* The slot a callback has reserved is still ahead of the worker.
Holds(f) == slot[f] # NoSlot

SpawnWorker ==
    \E w \in Workers :
        /\ ~Alive(w)
        /\ worker' = w
        /\ wpc' = [wpc EXCEPT ![w] = "new"]
        /\ UNCHANGED <<wturn, cancelled>>

\* Mutant: q.worker is tested for None only, not for done().
EnsureWorkerNotDone == IF worker # None THEN UNCHANGED workerVars ELSE SpawnWorker

\* "if q.worker is None or q.worker.done(): q.worker = self._spawn_bg(...)"
EnsureWorker == IF HasLiveWorker THEN UNCHANGED workerVars ELSE SpawnWorker

\* A slot that will not become a turn is handed to the worker.
SkipSlot(f) ==
    /\ skipped' = skipped \cup {slot[f]}
    /\ EnsureWorker
    /\ UNCHANGED <<nextSeq, dispatchSeq, turns>>

\* Marks every queued turn dropped and releases its prefetch wait.
DrainPendingTurns ==
    /\ drop' = drop \cup turns
    /\ ready' = ready \cup (turns \ drop)
    /\ UNCHANGED <<done, timedOut, stranded>>

\* Mutant: a queue with a reserved slot that is not settled yet is popped.
QueueDrainedEarly(rest, skips) == rest = {} /\ skips = {}

\* Nothing is left, not even a reserved slot, once the head slot is settled.
QueueDrained(rest, skips) ==
    rest = {} /\ skips = {} /\ dispatchSeq + 1 = nextSeq

\* The worker w moves past the head slot, leaving the turns rest and the skips
\* skips.  An empty queue is popped and its worker returns (the return in the
\* finally block swallows a CancelledError); otherwise a cancelled worker ends
\* and clears q.worker, and any other goes round its loop.
AdvanceHead(w, rest, skips) ==
    LET popped == QueueDrained(rest, skips)
        exits  == popped \/ w \in cancelled
    IN  /\ turns' = rest
        /\ skipped' = skips
        /\ dispatchSeq' = IF popped THEN 0 ELSE dispatchSeq + 1
        /\ nextSeq' = IF popped THEN 0 ELSE nextSeq
        /\ slot' = [f \in Frames |->
                      IF slot[f] = dispatchSeq THEN NoSlot ELSE slot[f]]
        /\ wpc' = [wpc EXCEPT ![w] = IF exits THEN "dead" ELSE "loop"]
        /\ worker' = IF exits THEN None ELSE worker
        /\ wturn' = [wturn EXCEPT ![w] = None]
        /\ cancelled' = cancelled \ {w}

\* "turn.done.set(); q.turns.pop(q.dispatch_seq, None); q.dispatch_seq += 1"
FinishTurn(w) ==
    /\ done' = done \cup {wturn[w]}
    /\ stranded' = stranded \ {wturn[w]}
    /\ AdvanceHead(w, {f \in turns : slot[f] # dispatchSeq}, skipped)
    /\ UNCHANGED <<cb, spawned, ready, drop, timedOut>>

-----------------------------------------------------------------------------
(* The reader loop *)

\* A message frame arrives: reserve its slot and spawn its callback.
Reserve(f) ==
    /\ cb[f] = "idle"
    /\ ~Holds(f)
    /\ nextSeq < MaxSeq
    /\ slot' = [slot EXCEPT ![f] = nextSeq]
    /\ nextSeq' = nextSeq + 1
    /\ cb' = [cb EXCEPT ![f] = "spawned"]
    /\ spawned' = Append(spawned, f)
    /\ UNCHANGED <<dispatchSeq, turns, skipped, turnVars, workerVars>>

-----------------------------------------------------------------------------
(* The callback of a frame.  asyncio starts tasks in the order they were    *)
(* created, so the first stretch of a callback runs in arrival order.       *)

Starts(f, kind) ==
    /\ kind \in Kinds
    /\ spawned # <<>>
    /\ f = Head(spawned)
    /\ spawned' = Tail(spawned)

\* Duplicate msgid, unparsable or unsupported frame: skip at once.
DiscardFrame(f) ==
    /\ Starts(f, "discard")
    /\ cb' = [cb EXCEPT ![f] = "idle"]
    /\ SkipSlot(f)
    /\ UNCHANGED <<slot, turnVars>>

\* Blocked user, /new, /status or /running: the reply is awaited first.
BeginReply(f) ==
    /\ Starts(f, "reply")
    /\ cb' = [cb EXCEPT ![f] = "replying"]
    /\ UNCHANGED <<queueVars, slot, turnVars, workerVars>>

\* /stop: drain what is queued and cancel the worker task, if one is alive.
Stop(f) ==
    /\ Starts(f, "stop")
    /\ cb' = [cb EXCEPT ![f] = "replying"]
    /\ DrainPendingTurns
    /\ cancelled' = IF HasLiveWorker THEN cancelled \cup {worker} ELSE cancelled
    /\ UNCHANGED <<queueVars, slot, worker, wpc, wturn>>

\* The reply is out (or failed): the slot is skipped.
EndReply(f) ==
    /\ cb[f] = "replying"
    /\ f \notin stranded
    /\ cb' = [cb EXCEPT ![f] = "idle"]
    /\ SkipSlot(f)
    /\ UNCHANGED <<slot, spawned, turnVars>>

\* A message for the dispatcher: its slot becomes a turn.
Enqueue(f) ==
    /\ Starts(f, "turn")
    /\ cb' = [cb EXCEPT ![f] = "resolving"]
    /\ turns' = turns \cup {f}
    /\ EnsureWorker
    /\ UNCHANGED <<nextSeq, dispatchSeq, skipped, slot, turnVars>>

\* The media of a turn is resolved, possibly to nothing usable (the turn is
\* then dropped), possibly after the worker gave up waiting for it.
Resolve(f) ==
    /\ cb[f] = "resolving"
    /\ cb' = [cb EXCEPT ![f] = "awaiting"]
    /\ \/ /\ f \in timedOut
          /\ UNCHANGED <<ready, drop>>
       \/ /\ f \notin timedOut
          /\ ready' = ready \cup {f}
          /\ \/ UNCHANGED drop
             \/ drop' = drop \cup {f}
    /\ UNCHANGED <<queueVars, slot, spawned, done, timedOut, stranded, workerVars>>

\* turn.done.wait() returns; the turn object is garbage from here on.
CallbackReturns(f) ==
    /\ cb[f] = "awaiting"
    /\ f \in done
    /\ cb' = [cb EXCEPT ![f] = "idle"]
    /\ ready' = ready \ {f}
    /\ done' = done \ {f}
    /\ drop' = drop \ {f}
    /\ timedOut' = timedOut \ {f}
    /\ UNCHANGED <<queueVars, slot, spawned, stranded, workerVars>>

Callback(f) ==
    \/ DiscardFrame(f)
    \/ BeginReply(f)
    \/ Stop(f)
    \/ EndReply(f)
    \/ Enqueue(f)
    \/ CallbackReturns(f)

-----------------------------------------------------------------------------
(* The worker task *)

\* The worker is resumed normally: no CancelledError is waiting for it.
Resumes(w, pc) == wpc[w] = pc /\ w \notin cancelled

\* The task's first step.
BeginLoop(w) ==
    /\ Resumes(w, "new")
    /\ wpc' = [wpc EXCEPT ![w] = "loop"]
    /\ UNCHANGED <<queueVars, cbVars, turnVars, worker, wturn, cancelled>>

TakeSkipped(w) ==
    /\ Resumes(w, "loop")
    /\ dispatchSeq \in skipped
    /\ AdvanceHead(w, turns, skipped \ {dispatchSeq})
    /\ UNCHANGED <<cb, spawned, turnVars>>

\* Mutant: the turn whose media is ready overtakes the older ones.
TakeReadyTurn(w) ==
    /\ Resumes(w, "loop")
    /\ dispatchSeq \notin skipped
    /\ \E f \in turns \cap ready : wturn' = [wturn EXCEPT ![w] = f]
    /\ wpc' = [wpc EXCEPT ![w] = "prefetch"]
    /\ UNCHANGED <<queueVars, cbVars, turnVars, worker, cancelled>>

TakeTurn(w) ==
    /\ Resumes(w, "loop")
    /\ dispatchSeq \notin skipped
    /\ \E f \in turns :
          /\ slot[f] = dispatchSeq
          /\ wturn' = [wturn EXCEPT ![w] = f]
    /\ wpc' = [wpc EXCEPT ![w] = "prefetch"]
    /\ UNCHANGED <<queueVars, cbVars, turnVars, worker, cancelled>>

\* Mutant: a timeout goes round the loop again and gives nothing up.
PrefetchTimeoutRetries(w) ==
    /\ Resumes(w, "prefetch")
    /\ wturn[w] \notin ready
    /\ wpc' = [wpc EXCEPT ![w] = "loop"]
    /\ wturn' = [wturn EXCEPT ![w] = None]
    /\ UNCHANGED <<queueVars, cbVars, turnVars, worker, cancelled>>

\* INBOUND_PREFETCH_TIMEOUT_SECONDS went by: dispatch a placeholder text.
PrefetchTimeout(w) ==
    /\ Resumes(w, "prefetch")
    /\ wturn[w] \notin ready
    /\ timedOut' = timedOut \cup {wturn[w]}
    /\ ready' = ready \cup {wturn[w]}
    /\ wpc' = [wpc EXCEPT ![w] = "handler"]
    /\ UNCHANGED <<queueVars, cbVars, done, drop, stranded, worker, wturn, cancelled>>

\* Mutant: turn.drop is not looked at before the dispatch.
DispatchDropped(w) ==
    /\ Resumes(w, "prefetch")
    /\ wturn[w] \in ready
    /\ wpc' = [wpc EXCEPT ![w] = "handler"]
    /\ UNCHANGED <<queueVars, cbVars, turnVars, worker, wturn, cancelled>>

Dispatch(w) ==
    /\ Resumes(w, "prefetch")
    /\ wturn[w] \in ready
    /\ wturn[w] \notin drop
    /\ wpc' = [wpc EXCEPT ![w] = "handler"]
    /\ UNCHANGED <<queueVars, cbVars, turnVars, worker, wturn, cancelled>>

PassDropped(w) ==
    /\ Resumes(w, "prefetch")
    /\ wturn[w] \in ready
    /\ wturn[w] \in drop
    /\ FinishTurn(w)

\* The handler returns, or raises an Exception that is caught and reported.
HandlerReturns(w) ==
    /\ Resumes(w, "handler")
    /\ wturn[w] \notin stranded
    /\ FinishTurn(w)

\* A task cancelled before its first step never runs its finally block, so
\* q.worker keeps pointing to it; q.worker.done() tells.
CancelNew(w) ==
    /\ w \in cancelled
    /\ wpc[w] = "new"
    /\ wpc' = [wpc EXCEPT ![w] = "dead"]
    /\ cancelled' = cancelled \ {w}
    /\ UNCHANGED <<queueVars, cbVars, turnVars, worker, wturn>>

\* Python 3.11, which the project supports: asyncio.wait_for returns normally,
\* and the cancellation is lost, when the awaited event is set before the
\* CancelledError arrives; the drain sets it.
SwallowCancel(w) ==
    /\ w \in cancelled
    /\ wpc[w] = "prefetch"
    /\ wturn[w] \in ready
    /\ cancelled' = cancelled \ {w}
    /\ UNCHANGED <<queueVars, cbVars, turnVars, worker, wpc, wturn>>

\* CancelledError reaches a worker that awaits the condition, or the media:
\* only the outer finally runs, the turn stays in the queue.
CancelWaiting(w) ==
    /\ w \in cancelled
    /\ wpc[w] \in {"loop", "prefetch"}
    /\ wpc' = [wpc EXCEPT ![w] = "dead"]
    /\ wturn' = [wturn EXCEPT ![w] = None]
    /\ worker' = None
    /\ cancelled' = cancelled \ {w}
    /\ UNCHANGED <<queueVars, cbVars, turnVars>>

\* CancelledError has unwound the handler, even from a put(): the inner finally
\* settles the turn.
CancelHandler(w) ==
    /\ w \in cancelled
    /\ wpc[w] = "handler"
    /\ FinishTurn(w)

Worker(w) ==
    \/ BeginLoop(w)
    \/ TakeSkipped(w)
    \/ TakeTurn(w)
    \/ PrefetchTimeout(w)
    \/ Dispatch(w)
    \/ PassDropped(w)
    \/ HandlerReturns(w)
    \/ CancelNew(w)
    \/ SwallowCancel(w)
    \/ CancelWaiting(w)
    \/ CancelHandler(w)

-----------------------------------------------------------------------------

Running(f) == \E w \in Workers : wpc[w] = "handler" /\ wturn[w] = f

\* The connection is replaced while a reply, or a handler, waits in put() for
\* a place in the full write queue: nobody will take a frame out of it again.
Strand(f) ==
    /\ cb[f] = "replying" \/ Running(f)
    /\ f \notin stranded
    /\ stranded' = stranded \cup {f}
    /\ UNCHANGED <<queueVars, cbVars, ready, done, drop, timedOut, workerVars>>

Next == \/ \E f \in Frames : Reserve(f) \/ Callback(f) \/ Resolve(f) \/ Strand(f)
        \/ \E w \in Workers : Worker(w)

Spec == Init /\ [][Next]_vars

\* The event loop resumes every task whose await can return.  A reply is
\* written and a handler returns, because each of their awaits has a timeout
\* but one, the put() of _enqueue_write, and that one returns unless it is
\* stranded.  Nothing is assumed of the network: frames need not arrive, media
\* need not be delivered, and connections may be lost.
Fairness == /\ \A f \in Frames : WF_vars(Callback(f))
            /\ \A w \in Workers : WF_vars(Worker(w))

FairSpec == Spec /\ Fairness

-----------------------------------------------------------------------------
(* Properties *)

\* One turn of a session at a time, in receive order: a worker that holds a
\* turn is the only live worker, and its turn has the oldest slot still held
\* (docstring of _InboundTurn).  A second worker, or a worker that takes its
\* turn from a popped queue, would break it.
SerialInOrder ==
    /\ \A v, w \in Workers : Alive(v) /\ Alive(w) => v = w
    /\ \A w \in Workers : wpc[w] \in {"prefetch", "handler"} =>
          /\ wturn[w] \in turns
          /\ slot[wturn[w]] = dispatchSeq
    /\ \A f \in Frames : Holds(f) => slot[f] \in dispatchSeq..(nextSeq - 1)

\* The step of the callback of f that settles its slot is still to come.
Unsettled(f) == cb[f] \in {"spawned", "replying"}

\* No slot is lost and none is settled twice, although the queue object is
\* popped and recreated while callbacks hold slots of it: every slot between
\* dispatch_seq and next_seq belongs to one frame, and is either going to be
\* settled, or a turn, or a skip.
SlotsAccounted ==
    /\ \A n \in dispatchSeq..(nextSeq - 1) : \E f \in Frames :
          /\ slot[f] = n
          /\ \/ Unsettled(f) /\ f \notin turns /\ n \notin skipped
             \/ f \in turns /\ cb[f] \in {"resolving", "awaiting"} /\ n \notin skipped
             \/ n \in skipped /\ cb[f] = "idle" /\ f \notin turns
    /\ \A f \in Frames : Unsettled(f) \/ f \in turns => Holds(f)
    /\ \A f, g \in Frames : Holds(f) /\ slot[f] = slot[g] => f = g

\* The queue is sound at every moment, whatever its callbacks, workers, media
\* downloads and /stop do to it: one turn at a time, and no slot lost.
QueueSound == TypeOK /\ SerialInOrder /\ SlotsAccounted

\* The line of the abstract specification, read off the slots.
Line == [i \in 1..(nextSeq - dispatchSeq) |->
            CHOOSE f \in Frames : slot[f] = dispatchSeq + i - 1]
RunningFrame == IF \E f \in Frames : Running(f)
                THEN CHOOSE f \in Frames : Running(f) ELSE None

Fifo == INSTANCE SessionFifo WITH line <- Line, running <- RunningFrame

\* The queue implements the first-come first-served line: arrivals are put
\* last, only the head is handled, and one frame leaves at a time.
FifoSpec == Fifo!Spec

\* What /stop has drained is never handed to the handler, not even by a worker
\* spawned later for another message.
DrainedNeverStarts ==
    [][\A f \in drop : Running(f)' => Running(f)]_vars

\* The head slot is settled and nobody is there to walk past it.
Orphaned == /\ ~HasLiveWorker
            /\ \/ dispatchSeq \in skipped
               \/ \E f \in turns : slot[f] = dispatchSeq

\* Only the death of a cancelled worker orphans the queue, and the next slot
\* that is settled (a turn enqueued, a slot skipped) finds it a new worker.
OrphansComeFromStop ==
    [][/\ Orphaned' /\ ~Orphaned =>
             \E w \in cancelled : Alive(w) /\ ~Alive(w)'
       /\ ~(skipped' \subseteq skipped /\ turns' \subseteq turns) =>
             ~Orphaned']_vars

\* The head slot waits for a put() that will not return.  /stop ends that of a
\* handler; that of a reply lasts as long as the process.
HeadStranded == \E f \in stranded : slot[f] = dispatchSeq

\* Every slot is released, whatever the media downloads do, unless /stop has
\* orphaned the queue (OrphansComeFromStop says until when) or the frame at its
\* head is stranded: a message that arrived is handled or discarded, and
\* nothing else ever blocks the session.
SlotReleased ==
    \A f \in Frames : Holds(f) ~> (~Holds(f) \/ Orphaned \/ HeadStranded)

\* Claimed for /stop ("a new worker is spawned for the next inbound message"):
\* a message that /stop has not drained leaves the queue by being handled,
\* as long as nobody is stranded.
AcceptedTurnHandled ==
    \A f \in Frames :
        (f \in turns /\ f \notin drop) ~> (f \in drop \/ f \in done \/ stranded # {})

-----------------------------------------------------------------------------
(* The inductive invariant behind SerialInOrder and SlotsAccounted          *)

\* Held slots are distinct, lie between dispatch_seq and next_seq, and fill
\* that range.
SlotInv ==
    /\ dispatchSeq <= nextSeq
    /\ \A f \in Frames : Holds(f) => dispatchSeq <= slot[f] /\ slot[f] < nextSeq
    /\ \A f, g \in Frames : Holds(f) /\ slot[f] = slot[g] => f = g
    /\ \A n \in dispatchSeq..(nextSeq - 1) : \E f \in Frames : slot[f] = n

\* A held slot is unsettled, a turn or a skip, in agreement with its callback.
SettledInv ==
    /\ \A f \in Frames : Unsettled(f) => Holds(f) /\ f \notin turns /\ slot[f] \notin skipped
    /\ \A f \in turns : Holds(f) /\ slot[f] \notin skipped /\ cb[f] \in {"resolving", "awaiting"}
    /\ \A n \in skipped : \E f \in Frames : slot[f] = n /\ cb[f] = "idle"
    /\ \A f \in Frames : Holds(f) => Unsettled(f) \/ f \in turns \/ slot[f] \in skipped
    /\ \A f \in done : ~Holds(f) /\ cb[f] \in {"resolving", "awaiting"}

\* The callbacks that have not started are distinct and in state "spawned".
SpawnedInv ==
    /\ \A i \in DOMAIN spawned : cb[spawned[i]] = "spawned"
    /\ \A i, j \in DOMAIN spawned : spawned[i] = spawned[j] => i = j

\* The only live worker is the registered one; its turn has the head slot.
WorkerInv ==
    /\ \A w \in Workers : Alive(w) => worker = w
    /\ \A w \in Workers : wpc[w] \in {"prefetch", "handler"} =>
          wturn[w] \in turns /\ slot[wturn[w]] = dispatchSeq

\* All of it, with: a drained turn does not wait for its media any more.
IInv == TypeOK /\ SlotInv /\ SettledInv /\ SpawnedInv /\ WorkerInv /\ drop \subseteq ready
=============================================================================
