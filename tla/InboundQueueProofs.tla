------------------------- MODULE InboundQueueProofs -------------------------
(***************************************************************************)
(* The safety of the inbound queue for every set of frames and workers:    *)
(* IInv is inductive, and SerialInOrder, SlotsAccounted,                   *)
(* DrainedNeverStarts and OrphansComeFromStop follow; so does that every   *)
(* step of the queue is one of SessionFifo or leaves its variables alone.  *)
(* The constants are only assumed to satisfy QueueAssumption.              *)
(***************************************************************************)
EXTENDS InboundQueue, TLAPS

\* The steps of a callback and of a worker, one disjunct per operation.
LEMMA NextCases ==
    ASSUME Next
    PROVE  \/ \E f \in Frames : \/ Reserve(f) \/ DiscardFrame(f) \/ BeginReply(f)
                                \/ Stop(f) \/ EndReply(f) \/ Enqueue(f)
                                \/ CallbackReturns(f) \/ Resolve(f) \/ Strand(f)
           \/ \E w \in Workers : \/ BeginLoop(w) \/ TakeSkipped(w) \/ TakeTurn(w)
                                 \/ PrefetchTimeout(w) \/ Dispatch(w) \/ PassDropped(w)
                                 \/ HandlerReturns(w) \/ CancelNew(w) \/ SwallowCancel(w)
                                 \/ CancelWaiting(w) \/ CancelHandler(w)
  BY DEF Next, Callback, Worker

-----------------------------------------------------------------------------
(* Types *)

\* Handing a slot to the worker keeps the types of the queue and the workers.
LEMMA EnsureWorkerType ==
    ASSUME TypeOK, EnsureWorker
    PROVE  /\ worker' \in Workers \cup {None}
           /\ wpc' \in [Workers -> WorkerStates]
           /\ wturn' \in [Workers -> Frames \cup {None}]
           /\ cancelled' \subseteq Workers
  BY DEF TypeOK, EnsureWorker, SpawnWorker, workerVars, WorkerStates

\* So does moving past the head slot.
LEMMA AdvanceHeadType ==
    ASSUME TypeOK, NEW w \in Workers, NEW rest \in SUBSET Frames, NEW skips \in SUBSET Nat,
           AdvanceHead(w, rest, skips)
    PROVE  /\ nextSeq' \in Nat /\ dispatchSeq' \in Nat
           /\ turns' \subseteq Frames /\ skipped' \subseteq Nat
           /\ worker' \in Workers \cup {None}
           /\ slot' \in [Frames -> Nat \cup {NoSlot}]
           /\ wpc' \in [Workers -> WorkerStates]
           /\ wturn' \in [Workers -> Frames \cup {None}]
           /\ cancelled' \subseteq Workers
  BY DEF TypeOK, AdvanceHead, WorkerStates, NoSlot

\* A worker holds a turn, not None, from the moment it awaits the media, and
\* that turn has the head slot.
LEMMA HeldTurn ==
    ASSUME IInv, NEW w \in Workers, wpc[w] \in {"prefetch", "handler"}
    PROVE  wturn[w] \in turns /\ wturn[w] \in Frames /\ slot[wturn[w]] = dispatchSeq
  BY DEF IInv, TypeOK, WorkerInv

-----------------------------------------------------------------------------
(* Steps of a callback *)

\* A callback that starts holds an unsettled slot, and leaves the spawned line.
LEMMA StartsFacts ==
    ASSUME IInv, NEW f \in Frames, NEW k, Starts(f, k)
    PROVE  /\ cb[f] = "spawned" /\ Unsettled(f)
           /\ slot[f] \in Nat /\ Holds(f)
           /\ spawned' \in Seq(Frames)
           /\ \A i \in DOMAIN spawned' : i + 1 \in DOMAIN spawned /\ spawned'[i] = spawned[i + 1]
           /\ \A i \in DOMAIN spawned' : spawned'[i] # f
  <1> USE DEF IInv, TypeOK
  <1>1. spawned \in Seq(Frames) /\ spawned # <<>> /\ f = spawned[1] /\ spawned' = Tail(spawned)
    BY DEF Starts
  <1>2. 1 \in DOMAIN spawned /\ cb[f] = "spawned"
    BY <1>1 DEF SpawnedInv
  <1>3. Unsettled(f) /\ slot[f] \in Nat /\ Holds(f)
    BY <1>2 DEF Unsettled, SettledInv, Holds, NoSlot
  <1>4. /\ spawned' \in Seq(Frames)
        /\ \A i \in DOMAIN spawned' : i + 1 \in DOMAIN spawned /\ spawned'[i] = spawned[i + 1]
    BY <1>1
  <1>5. \A i \in DOMAIN spawned' : spawned'[i] # f
    <2> TAKE i \in DOMAIN spawned'
    <2>1. i \in Nat /\ i >= 1 /\ i + 1 # 1 BY <1>1
    <2> QED BY <1>1, <1>2, <1>4, <2>1 DEF SpawnedInv
  <1> QED BY <1>2, <1>3, <1>4, <1>5

\* Whatever state the started callback goes to, SpawnedInv is kept.
LEMMA StartsSpawnedInv ==
    ASSUME IInv, NEW f \in Frames, NEW k, Starts(f, k),
           NEW s, cb' = [cb EXCEPT ![f] = s]
    PROVE  SpawnedInv'
  <1>1. /\ \A i \in DOMAIN spawned' : i + 1 \in DOMAIN spawned /\ spawned'[i] = spawned[i + 1]
        /\ \A i \in DOMAIN spawned' : spawned'[i] # f
        /\ spawned' \in Seq(Frames) /\ spawned \in Seq(Frames)
    BY StartsFacts DEF IInv, TypeOK
  <1>2. \A i \in DOMAIN spawned' : cb'[spawned'[i]] = "spawned"
    BY <1>1 DEF IInv, TypeOK, SpawnedInv
  <1>3. ASSUME NEW i \in DOMAIN spawned', NEW j \in DOMAIN spawned', spawned'[i] = spawned'[j]
        PROVE  i = j
    <2>1. i + 1 = j + 1 BY <1>1, <1>3 DEF IInv, SpawnedInv
    <2>2. i \in Int /\ j \in Int BY <1>1
    <2> QED BY <2>1, <2>2
  <1> QED BY <1>2, <1>3 DEF SpawnedInv

\* A callback past its start is not in the spawned line.
LEMMA OtherSpawnedInv ==
    ASSUME IInv, NEW f \in Frames, cb[f] # "spawned",
           NEW s, cb' = [cb EXCEPT ![f] = s], UNCHANGED spawned
    PROVE  SpawnedInv'
  BY DEF IInv, TypeOK, SpawnedInv

\* Handing a slot over keeps the worker invariant: a worker is spawned only when
\* the registered one is dead.
LEMMA EnsureWorkerInv ==
    ASSUME IInv, EnsureWorker, turns \subseteq turns', UNCHANGED <<slot, dispatchSeq>>
    PROVE  WorkerInv'
  <1> USE DEF IInv, TypeOK, WorkerInv, Alive
  <1>1. CASE HasLiveWorker
    <2>1. UNCHANGED <<worker, wpc, wturn>> BY <1>1 DEF EnsureWorker, workerVars
    <2> QED BY <2>1
  <1>2. CASE ~HasLiveWorker
    <2>1. \A w \in Workers : wpc[w] = "dead"
      BY <1>2, QueueAssumption DEF HasLiveWorker
    <2>2. PICK w \in Workers : /\ worker' = w /\ wpc' = [wpc EXCEPT ![w] = "new"]
                               /\ UNCHANGED wturn
      BY <1>2 DEF EnsureWorker, SpawnWorker
    <2> QED BY <2>1, <2>2
  <1> QED BY <1>1, <1>2

\* The slot of an unsettled frame becomes a skip and the callback ends.
LEMMA SkipSlotInv ==
    ASSUME IInv, NEW f \in Frames, Unsettled(f), slot[f] \in Nat, SkipSlot(f),
           cb' = [cb EXCEPT ![f] = "idle"], UNCHANGED <<slot, turnVars>>
    PROVE  /\ skipped' \subseteq Nat
           /\ SlotInv' /\ SettledInv' /\ WorkerInv'
  <1> USE DEF IInv, TypeOK
  <1>1. /\ skipped' = skipped \cup {slot[f]} /\ EnsureWorker
        /\ UNCHANGED <<nextSeq, dispatchSeq, turns, slot, done>>
    BY DEF SkipSlot, turnVars
  <1>2. SlotInv' BY <1>1 DEF SlotInv, Holds
  <1>3. \A g \in Frames : Unsettled(g)' => Unsettled(g) /\ g # f
    BY DEF Unsettled
  <1>4. Holds(f) /\ f \notin turns
    BY DEF SettledInv
  <1>5. SettledInv'
    <2>1. \A g \in Frames : Unsettled(g)' => Holds(g)' /\ g \notin turns' /\ slot'[g] \notin skipped'
      BY <1>1, <1>3 DEF SettledInv, SlotInv, Holds
    <2>2. \A g \in turns' : Holds(g)' /\ slot'[g] \notin skipped' /\ cb'[g] \in {"resolving", "awaiting"}
      BY <1>1, <1>4 DEF SettledInv, SlotInv, Holds
    <2>3. \A n \in skipped' : \E g \in Frames : slot'[g] = n /\ cb'[g] = "idle"
      BY <1>1 DEF SettledInv
    <2>4. \A g \in Frames : Holds(g)' => Unsettled(g)' \/ g \in turns' \/ slot'[g] \in skipped'
      BY <1>1 DEF SettledInv, Holds, Unsettled
    <2>5. \A g \in done' : ~Holds(g)' /\ cb'[g] \in {"resolving", "awaiting"}
      BY <1>1, <1>4 DEF SettledInv, Holds
    <2> QED BY <2>1, <2>2, <2>3, <2>4, <2>5 DEF SettledInv
  <1>6. WorkerInv' BY <1>1, EnsureWorkerInv
  <1> QED BY <1>1, <1>2, <1>5, <1>6

-----------------------------------------------------------------------------
(* Steps of a worker *)

\* Moving past the head slot, whose frame g is settled, keeps the slots in order.
\* When the queue is popped no other frame holds a slot of it.
LEMMA AdvanceHeadInv ==
    ASSUME IInv, NEW w \in Workers, wpc[w] # "dead",
           NEW rest \in SUBSET turns, NEW skips \in SUBSET skipped,
           NEW g \in Frames, slot[g] = dispatchSeq, ~Unsettled(g),
           rest = turns \ {g}, skips = skipped \ {dispatchSeq},
           AdvanceHead(w, rest, skips), UNCHANGED <<cb, spawned>>
    PROVE  /\ SlotInv' /\ SpawnedInv' /\ WorkerInv'
           /\ \A f \in Frames : slot'[f] = IF f = g THEN NoSlot ELSE slot[f]
           /\ \A f \in Frames : f # g /\ Holds(f) => slot[f] # dispatchSeq
  <1> USE DEF IInv, TypeOK
  <1> DEFINE popped == QueueDrained(rest, skips)
  <1>1. /\ turns' = rest /\ skipped' = skips
        /\ dispatchSeq' = IF popped THEN 0 ELSE dispatchSeq + 1
        /\ nextSeq' = IF popped THEN 0 ELSE nextSeq
        /\ slot' = [f \in Frames |-> IF slot[f] = dispatchSeq THEN NoSlot ELSE slot[f]]
        /\ wpc' = [wpc EXCEPT ![w] = IF popped \/ w \in cancelled THEN "dead" ELSE "loop"]
        /\ worker' = IF popped \/ w \in cancelled THEN None ELSE worker
        /\ wturn' = [wturn EXCEPT ![w] = None]
    BY DEF AdvanceHead
  <1>2. Holds(g) /\ dispatchSeq < nextSeq
    BY DEF Holds, NoSlot, SlotInv
  <1>3. \A f \in Frames : f # g /\ Holds(f) => slot[f] # dispatchSeq
    BY <1>2 DEF SlotInv
  <1>4. \A f \in Frames : slot'[f] = IF f = g THEN NoSlot ELSE slot[f]
    BY <1>1, <1>3 DEF Holds
  <1>5. \A f \in Frames : Holds(f)' => Holds(f) /\ f # g
    BY <1>4 DEF Holds
  <1>6. SlotInv'
    <2>1. CASE popped
      <3>1. dispatchSeq' = 0 /\ nextSeq' = 0 /\ dispatchSeq + 1 = nextSeq
        BY <1>1, <2>1 DEF QueueDrained
      <3>2. \A f \in Frames : ~Holds(f)'
        <4> SUFFICES ASSUME NEW f \in Frames, Holds(f)' PROVE FALSE
          OBVIOUS
        <4>1. Holds(f) /\ f # g BY <1>5
        <4>2. slot[f] \in Nat BY <4>1 DEF Holds
        <4>3. dispatchSeq <= slot[f] /\ slot[f] < nextSeq BY <4>1 DEF SlotInv
        <4>4. slot[f] = dispatchSeq BY <3>1, <4>2, <4>3
        <4> QED BY <1>3, <4>1, <4>4
      <3> QED BY <3>1, <3>2 DEF SlotInv
    <2>2. CASE ~popped
      <3>1. dispatchSeq' = dispatchSeq + 1 /\ nextSeq' = nextSeq
        BY <1>1, <2>2
      <3>2. \A f \in Frames : Holds(f)' =>
               dispatchSeq' <= slot'[f] /\ slot'[f] < nextSeq'
        <4> SUFFICES ASSUME NEW f \in Frames, Holds(f)'
                     PROVE  dispatchSeq' <= slot'[f] /\ slot'[f] < nextSeq'
          OBVIOUS
        <4>1. Holds(f) /\ f # g /\ slot'[f] = slot[f] BY <1>4, <1>5
        <4>2. slot[f] \in Nat /\ dispatchSeq <= slot[f] /\ slot[f] < nextSeq
          BY <4>1 DEF Holds, SlotInv
        <4>3. slot[f] # dispatchSeq BY <1>3, <4>1
        <4> QED BY <3>1, <4>1, <4>2, <4>3
      <3>3. \A f, h \in Frames : Holds(f)' /\ slot'[f] = slot'[h] => f = h
        BY <1>4, <1>5 DEF SlotInv, Holds
      <3>4. \A n \in dispatchSeq'..(nextSeq' - 1) : \E f \in Frames : slot'[f] = n
        <4> TAKE n \in dispatchSeq'..(nextSeq' - 1)
        <4>1. n \in dispatchSeq..(nextSeq - 1) /\ n # dispatchSeq BY <3>1
        <4>2. PICK f \in Frames : slot[f] = n BY <4>1 DEF SlotInv
        <4> QED BY <1>4, <4>1, <4>2
      <3>5. dispatchSeq' <= nextSeq' BY <1>2, <3>1
      <3> QED BY <3>2, <3>3, <3>4, <3>5 DEF SlotInv
    <2> QED BY <2>1, <2>2
  <1>7. SpawnedInv' BY DEF SpawnedInv
  <1>8. WorkerInv'
    <2>1. worker = w /\ \A v \in Workers : wpc[v] # "dead" => v = w
      BY DEF WorkerInv, Alive
    <2>2. \A v \in Workers : wpc'[v] # "dead" => v = w /\ wpc'[v] = "loop" /\ worker' = worker
      BY <1>1, <2>1
    <2> QED BY <2>1, <2>2 DEF WorkerInv, Alive
  <1> QED BY <1>3, <1>4, <1>6, <1>7, <1>8

\* The head slot is a skip: it is dropped.
LEMMA TakeSkippedInv ==
    ASSUME IInv, NEW w \in Workers, TakeSkipped(w)
    PROVE  IInv'
  <1>1. /\ wpc[w] # "dead" /\ dispatchSeq \in skipped
        /\ AdvanceHead(w, turns, skipped \ {dispatchSeq})
        /\ UNCHANGED <<cb, spawned, ready, done, drop, timedOut, stranded>>
    BY DEF TakeSkipped, Resumes, turnVars
  <1>2. PICK g \in Frames : slot[g] = dispatchSeq /\ cb[g] = "idle"
    BY <1>1 DEF IInv, SettledInv
  <1>3. ~Unsettled(g) /\ g \notin turns /\ g \notin done
    BY <1>2 DEF IInv, SettledInv, Unsettled
  <1>4. turns = turns \ {g} BY <1>3
  <1>5. turns \in SUBSET Frames /\ skipped \in SUBSET Nat /\ turns \in SUBSET turns
        /\ skipped \ {dispatchSeq} \in SUBSET skipped
    BY DEF IInv, TypeOK
  <1>6. /\ SlotInv' /\ SpawnedInv' /\ WorkerInv'
        /\ \A f \in Frames : slot'[f] = IF f = g THEN NoSlot ELSE slot[f]
        /\ \A f \in Frames : f # g /\ Holds(f) => slot[f] # dispatchSeq
    BY <1>1, <1>2, <1>3, <1>4, <1>5, AdvanceHeadInv
  <1>7. turns' = turns /\ skipped' = skipped \ {dispatchSeq}
    BY <1>1 DEF AdvanceHead
  <1>8. TypeOK'
    <2>1. skipped \ {dispatchSeq} \in SUBSET Nat BY <1>5
    <2> QED BY <1>1, <1>5, <2>1, AdvanceHeadType DEF IInv, TypeOK
  <1>9. SettledInv'
    <2> USE DEF IInv, TypeOK, SettledInv, Holds, Unsettled
    <2>1. \A f \in Frames : Unsettled(f)' => Holds(f)' /\ f \notin turns' /\ slot'[f] \notin skipped'
      BY <1>1, <1>3, <1>6, <1>7
    <2>2. \A f \in turns' : Holds(f)' /\ slot'[f] \notin skipped' /\ cb'[f] \in {"resolving", "awaiting"}
      BY <1>1, <1>3, <1>6, <1>7
    <2>3. \A n \in skipped' : \E f \in Frames : slot'[f] = n /\ cb'[f] = "idle"
      BY <1>1, <1>2, <1>6, <1>7
    <2>4. \A f \in Frames : Holds(f)' => Unsettled(f)' \/ f \in turns' \/ slot'[f] \in skipped'
      BY <1>1, <1>6, <1>7
    <2>5. \A f \in done' : ~Holds(f)' /\ cb'[f] \in {"resolving", "awaiting"}
      BY <1>1, <1>6
    <2> QED BY <2>1, <2>2, <2>3, <2>4, <2>5
  <1> QED BY <1>1, <1>6, <1>8, <1>9 DEF IInv

\* The head slot is a turn that is over: handled, failed, cancelled or dropped.
LEMMA FinishTurnInv ==
    ASSUME IInv, NEW w \in Workers, wpc[w] \in {"prefetch", "handler"}, FinishTurn(w)
    PROVE  IInv'
  <1> DEFINE g == wturn[w]
             rest == {f \in turns : slot[f] # dispatchSeq}
  <1>1. /\ AdvanceHead(w, rest, skipped)
        /\ done' = done \cup {g} /\ stranded' = stranded \ {g}
        /\ UNCHANGED <<cb, spawned, ready, drop, timedOut>>
    BY DEF FinishTurn
  <1>2. g \in turns /\ g \in Frames /\ slot[g] = dispatchSeq
    BY HeldTurn
  <1>3. /\ Holds(g) /\ slot[g] \notin skipped /\ cb[g] \in {"resolving", "awaiting"}
        /\ ~Unsettled(g)
    BY <1>2 DEF IInv, SettledInv, Unsettled
  <1>4. rest = turns \ {g}
    BY <1>2, <1>3 DEF IInv, TypeOK, SlotInv, SettledInv
  <1>5. rest \in SUBSET Frames /\ rest \in SUBSET turns /\ skipped \in SUBSET Nat
        /\ skipped \in SUBSET skipped /\ skipped = skipped \ {dispatchSeq}
    BY <1>2, <1>3 DEF IInv, TypeOK
  <1> HIDE DEF rest, g
  <1>6. /\ SlotInv' /\ SpawnedInv' /\ WorkerInv'
        /\ \A f \in Frames : slot'[f] = IF f = g THEN NoSlot ELSE slot[f]
        /\ \A f \in Frames : f # g /\ Holds(f) => slot[f] # dispatchSeq
    BY <1>1, <1>2, <1>3, <1>4, <1>5, AdvanceHeadInv
  <1>7. turns' = turns \ {g} /\ skipped' = skipped
    BY <1>1, <1>4 DEF AdvanceHead
  <1>8. TypeOK'
    BY <1>1, <1>2, <1>5, AdvanceHeadType DEF IInv, TypeOK
  <1>9. SettledInv'
    <2> USE DEF IInv, TypeOK, SettledInv, Holds, Unsettled
    <2>1. \A f \in Frames : Unsettled(f)' => Holds(f)' /\ f \notin turns' /\ slot'[f] \notin skipped'
      BY <1>1, <1>3, <1>6, <1>7
    <2>2. \A f \in turns' : Holds(f)' /\ slot'[f] \notin skipped' /\ cb'[f] \in {"resolving", "awaiting"}
      BY <1>1, <1>6, <1>7
    <2>3. \A n \in skipped' : \E f \in Frames : slot'[f] = n /\ cb'[f] = "idle"
      BY <1>1, <1>2, <1>3, <1>6, <1>7
    <2>4. \A f \in Frames : Holds(f)' => Unsettled(f)' \/ f \in turns' \/ slot'[f] \in skipped'
      BY <1>1, <1>6, <1>7
    <2>5. \A f \in done' : ~Holds(f)' /\ cb'[f] \in {"resolving", "awaiting"}
      BY <1>1, <1>2, <1>3, <1>6
    <2> QED BY <2>1, <2>2, <2>3, <2>4, <2>5
  <1> QED BY <1>1, <1>6, <1>8, <1>9 DEF IInv

\* The steps that move a worker without touching the queue or the callbacks.
LEMMA WorkerMoveInv ==
    ASSUME IInv, NEW w \in Workers,
           \/ BeginLoop(w) \/ TakeTurn(w) \/ PrefetchTimeout(w) \/ Dispatch(w)
           \/ CancelNew(w) \/ SwallowCancel(w) \/ CancelWaiting(w)
    PROVE  IInv'
  <1> USE DEF IInv, TypeOK
  <1>1. UNCHANGED <<nextSeq, dispatchSeq, turns, skipped, slot, cb, spawned, done, drop>>
    BY DEF BeginLoop, TakeTurn, PrefetchTimeout, Dispatch, CancelNew, SwallowCancel,
           CancelWaiting, queueVars, cbVars, turnVars
  <1>2. SlotInv' /\ SpawnedInv'
    BY <1>1 DEF SlotInv, SpawnedInv, Holds
  <1>3. SettledInv'
    BY <1>1 DEF SettledInv, Holds, Unsettled
  <1>4. wpc[w] # "dead" /\ worker = w /\ \A v \in Workers : wpc[v] # "dead" => v = w
    BY DEF BeginLoop, TakeTurn, PrefetchTimeout, Dispatch, CancelNew, SwallowCancel,
           CancelWaiting, Resumes, WorkerInv, Alive
  <1>5. TypeOK' /\ WorkerInv' /\ drop' \subseteq ready'
    <2> USE <1>1, <1>4 DEF WorkerInv, Alive, WorkerStates
    <2>1. CASE BeginLoop(w) BY <2>1 DEF BeginLoop, Resumes, turnVars
    <2>2. CASE TakeTurn(w)
      <3>1. PICK f \in turns : slot[f] = dispatchSeq /\ wturn' = [wturn EXCEPT ![w] = f]
        BY <2>2 DEF TakeTurn
      <3> QED BY <2>2, <3>1 DEF TakeTurn, turnVars
    <2>3. CASE PrefetchTimeout(w)
      <3>1. wturn[w] \in Frames BY <2>3, HeldTurn DEF PrefetchTimeout, Resumes
      <3> QED BY <2>3, <3>1 DEF PrefetchTimeout, Resumes
    <2>4. CASE Dispatch(w) BY <2>4 DEF Dispatch, Resumes, turnVars
    <2>5. CASE CancelNew(w) BY <2>5 DEF CancelNew, turnVars
    <2>6. CASE SwallowCancel(w) BY <2>6 DEF SwallowCancel, turnVars
    <2>7. CASE CancelWaiting(w) BY <2>7 DEF CancelWaiting, turnVars
    <2> QED BY <2>1, <2>2, <2>3, <2>4, <2>5, <2>6, <2>7
  <1> QED BY <1>2, <1>3, <1>5

\* The steps that change no slot, turn or skip.
LEMMA CallbackMoveInv ==
    ASSUME IInv, NEW f \in Frames,
           BeginReply(f) \/ Stop(f) \/ Resolve(f) \/ CallbackReturns(f)
    PROVE  IInv'
  <1> USE DEF IInv, TypeOK
  <1>1. UNCHANGED <<nextSeq, dispatchSeq, turns, skipped, slot, worker, wpc, wturn>>
    BY DEF BeginReply, Stop, Resolve, CallbackReturns, queueVars, workerVars
  <1>2. SlotInv' /\ WorkerInv'
    BY <1>1 DEF SlotInv, WorkerInv, Holds, Alive
  <1>3. CASE BeginReply(f) \/ Stop(f)
    <2>1. PICK k : Starts(f, k) BY <1>3 DEF BeginReply, Stop
    <2>2. cb' = [cb EXCEPT ![f] = "replying"] /\ done' = done
      BY <1>3 DEF BeginReply, Stop, DrainPendingTurns, turnVars
    <2>3. SpawnedInv' BY <2>1, <2>2, StartsSpawnedInv
    <2>4. cb[f] = "spawned" /\ spawned' \in Seq(Frames) BY <2>1, StartsFacts
    <2>5. SettledInv' BY <1>1, <2>2, <2>4 DEF SettledInv, Holds, Unsettled
    <2>6. TypeOK' /\ drop' \subseteq ready'
      BY <1>1, <1>3, <2>2, <2>4, QueueAssumption
         DEF BeginReply, Stop, DrainPendingTurns, turnVars, workerVars, CbStates, HasLiveWorker
    <2> QED BY <1>2, <2>3, <2>5, <2>6
  <1>4. CASE Resolve(f) \/ CallbackReturns(f)
    <2>1. /\ cb[f] \in {"resolving", "awaiting"} /\ UNCHANGED spawned
          /\ \E s \in {"awaiting", "idle"} : cb' = [cb EXCEPT ![f] = s]
      BY <1>4 DEF Resolve, CallbackReturns
    <2>2. SpawnedInv' BY <2>1, OtherSpawnedInv
    <2>3. CASE Resolve(f)
      <3>1. cb' = [cb EXCEPT ![f] = "awaiting"] /\ done' = done
        BY <2>3 DEF Resolve
      <3>2. SettledInv' BY <1>1, <2>1, <3>1 DEF SettledInv, Holds, Unsettled
      <3>3. TypeOK' /\ drop' \subseteq ready'
        BY <1>1, <2>3 DEF Resolve, CbStates, workerVars
      <3> QED BY <1>2, <2>2, <3>2, <3>3
    <2>4. CASE CallbackReturns(f)
      <3>1. /\ cb' = [cb EXCEPT ![f] = "idle"] /\ done' = done \ {f} /\ f \in done
            /\ cb[f] = "awaiting"
        BY <2>4 DEF CallbackReturns
      <3>2. ~Holds(f) /\ f \notin turns BY <3>1 DEF SettledInv
      <3>3. SettledInv'
        <4>1. \A g \in Frames : Unsettled(g)' => Unsettled(g)
          BY <3>1 DEF Unsettled
        <4>2. \A g \in Frames : Holds(g)' = Holds(g) /\ (Holds(g) => g # f)
          BY <1>1, <3>2 DEF Holds
        <4>3. \A g \in Frames : g # f => cb'[g] = cb[g]
          BY <3>1
        <4>4. \A n \in skipped' : \E g \in Frames : slot'[g] = n /\ cb'[g] = "idle"
          BY <1>1, <3>1 DEF SettledInv
        <4> QED BY <1>1, <3>1, <3>2, <4>1, <4>2, <4>3, <4>4 DEF SettledInv, Unsettled
      <3>4. TypeOK' /\ drop' \subseteq ready'
        BY <1>1, <2>4 DEF CallbackReturns, CbStates, workerVars
      <3> QED BY <1>2, <2>2, <3>3, <3>4
    <2> QED BY <1>4, <2>3, <2>4
  <1> QED BY <1>3, <1>4

\* A stranded put() changes nothing else.
LEMMA StrandInv ==
    ASSUME IInv, NEW f \in Frames, Strand(f)
    PROVE  IInv'
  BY DEF Strand, queueVars, cbVars, workerVars, IInv, TypeOK, SlotInv, SettledInv,
         SpawnedInv, WorkerInv, Holds, Unsettled, Alive

\* A slot is reserved for an arriving frame: the next number, held by no other.
LEMMA ReserveInv ==
    ASSUME IInv, NEW f \in Frames, Reserve(f)
    PROVE  IInv'
  <1> USE DEF IInv, TypeOK
  <1>1. /\ cb[f] = "idle" /\ ~Holds(f) /\ f \notin turns /\ f \notin done
        /\ slot' = [slot EXCEPT ![f] = nextSeq] /\ nextSeq' = nextSeq + 1
        /\ cb' = [cb EXCEPT ![f] = "spawned"] /\ spawned' = Append(spawned, f)
        /\ UNCHANGED <<dispatchSeq, turns, skipped, ready, done, drop, timedOut, stranded,
                       worker, wpc, wturn, cancelled>>
    BY DEF Reserve, SettledInv, turnVars, workerVars
  <1>2. nextSeq \notin skipped
    BY DEF SettledInv, SlotInv, Holds, NoSlot
  <1>3. TypeOK' BY <1>1 DEF CbStates
  <1>4. SlotInv'
    <2>1. \A g \in Frames : Holds(g)' => dispatchSeq' <= slot'[g] /\ slot'[g] < nextSeq'
      BY <1>1 DEF SlotInv, Holds
    <2>2. \A g \in Frames : g # f /\ Holds(g) => slot[g] # nextSeq
      BY DEF SlotInv
    <2>3. \A g, h \in Frames : Holds(g)' /\ slot'[g] = slot'[h] => g = h
      BY <1>1, <2>2 DEF SlotInv, Holds, NoSlot
    <2>4. \A n \in dispatchSeq'..(nextSeq' - 1) : \E g \in Frames : slot'[g] = n
      <3> TAKE n \in dispatchSeq'..(nextSeq' - 1)
      <3>1. CASE n = nextSeq BY <1>1, <3>1
      <3>2. CASE n # nextSeq
        <4>1. n \in dispatchSeq..(nextSeq - 1) /\ n # NoSlot BY <1>1, <3>2 DEF NoSlot
        <4>2. PICK g \in Frames : slot[g] = n BY <4>1 DEF SlotInv
        <4>3. g # f BY <1>1, <4>1, <4>2 DEF Holds
        <4> QED BY <1>1, <4>2, <4>3
      <3> QED BY <3>1, <3>2
    <2>5. dispatchSeq' <= nextSeq' BY <1>1 DEF SlotInv
    <2> QED BY <2>1, <2>3, <2>4, <2>5 DEF SlotInv
  <1>5. SettledInv'
    <2> USE DEF SettledInv, Holds, Unsettled
    <2>1. \A g \in Frames : Unsettled(g)' => Holds(g)' /\ g \notin turns' /\ slot'[g] \notin skipped'
      BY <1>1, <1>2 DEF NoSlot
    <2>2. \A g \in turns' : Holds(g)' /\ slot'[g] \notin skipped' /\ cb'[g] \in {"resolving", "awaiting"}
      BY <1>1
    <2>3. \A n \in skipped' : \E g \in Frames : slot'[g] = n /\ cb'[g] = "idle"
      <3> TAKE n \in skipped'
      <3>1. PICK g \in Frames : slot[g] = n /\ cb[g] = "idle" BY <1>1
      <3>2. n # NoSlot BY <1>1 DEF NoSlot
      <3>3. g # f BY <1>1, <3>1, <3>2
      <3> QED BY <1>1, <3>1, <3>3
    <2>4. \A g \in Frames : Holds(g)' => Unsettled(g)' \/ g \in turns' \/ slot'[g] \in skipped'
      BY <1>1
    <2>5. \A g \in done' : ~Holds(g)' /\ cb'[g] \in {"resolving", "awaiting"}
      BY <1>1
    <2> QED BY <2>1, <2>2, <2>3, <2>4, <2>5
  <1>6. SpawnedInv'
    <2>1. \A i \in DOMAIN spawned : spawned[i] # f BY <1>1 DEF SpawnedInv
    <2>2. /\ Len(spawned') = Len(spawned) + 1
          /\ \A i \in DOMAIN spawned : spawned'[i] = spawned[i]
          /\ spawned'[Len(spawned) + 1] = f
          /\ DOMAIN spawned' = DOMAIN spawned \cup {Len(spawned) + 1}
      BY <1>1
    <2> QED BY <1>1, <2>1, <2>2 DEF SpawnedInv
  <1>7. WorkerInv' BY <1>1 DEF WorkerInv, Alive, SettledInv
  <1> QED BY <1>1, <1>3, <1>4, <1>5, <1>6, <1>7

\* The slot of a frame becomes a skip, at once or after a reply.
LEMMA SkipInv ==
    ASSUME IInv, NEW f \in Frames, DiscardFrame(f) \/ EndReply(f)
    PROVE  IInv'
  <1>1. /\ SkipSlot(f) /\ cb' = [cb EXCEPT ![f] = "idle"]
        /\ UNCHANGED <<slot, turnVars>>
    BY DEF DiscardFrame, EndReply
  <1>2. /\ Unsettled(f) /\ slot[f] \in Nat /\ spawned' \in Seq(Frames) /\ SpawnedInv'
    <2>1. CASE DiscardFrame(f)
      <3>1. Starts(f, "discard") BY <2>1 DEF DiscardFrame
      <3> QED BY <1>1, <3>1, StartsFacts, StartsSpawnedInv
    <2>2. CASE EndReply(f)
      <3>1. cb[f] = "replying" /\ UNCHANGED spawned BY <2>2 DEF EndReply
      <3>2. Unsettled(f) BY <3>1 DEF Unsettled
      <3>3. slot[f] \in Nat BY <3>2 DEF IInv, TypeOK, SettledInv, Holds
      <3>4. cb[f] # "spawned" BY <3>1
      <3> QED BY <1>1, <3>1, <3>2, <3>3, <3>4, OtherSpawnedInv DEF IInv, TypeOK
    <2> QED BY <2>1, <2>2
  <1>3. /\ skipped' \subseteq Nat /\ SlotInv' /\ SettledInv' /\ WorkerInv'
    BY <1>1, <1>2, SkipSlotInv
  <1>4. TypeOK'
    <2>1. EnsureWorker /\ UNCHANGED <<nextSeq, dispatchSeq, turns>> BY <1>1 DEF SkipSlot
    <2> QED BY <1>1, <1>2, <1>3, <2>1, EnsureWorkerType DEF IInv, TypeOK, turnVars, CbStates
  <1> QED BY <1>1, <1>2, <1>3, <1>4 DEF IInv, turnVars

\* The slot of a frame becomes a turn.
LEMMA EnqueueInv ==
    ASSUME IInv, NEW f \in Frames, Enqueue(f)
    PROVE  IInv'
  <1> USE DEF IInv, TypeOK
  <1>1. /\ Starts(f, "turn") /\ cb' = [cb EXCEPT ![f] = "resolving"]
        /\ turns' = turns \cup {f} /\ EnsureWorker
        /\ UNCHANGED <<nextSeq, dispatchSeq, skipped, slot, ready, done, drop, timedOut, stranded>>
    BY DEF Enqueue, turnVars
  <1>2. cb[f] = "spawned" /\ Unsettled(f) /\ Holds(f) /\ spawned' \in Seq(Frames)
    BY <1>1, StartsFacts
  <1>3. SpawnedInv' BY <1>1, StartsSpawnedInv
  <1>4. WorkerInv' BY <1>1, EnsureWorkerInv
  <1>5. SlotInv' BY <1>1 DEF SlotInv, Holds
  <1>6. SettledInv'
    <2> USE DEF SettledInv, Holds, Unsettled
    <2>1. \A g \in Frames : Unsettled(g)' => Holds(g)' /\ g \notin turns' /\ slot'[g] \notin skipped'
      BY <1>1
    <2>2. \A g \in turns' : Holds(g)' /\ slot'[g] \notin skipped' /\ cb'[g] \in {"resolving", "awaiting"}
      BY <1>1, <1>2
    <2>3. \A n \in skipped' : \E g \in Frames : slot'[g] = n /\ cb'[g] = "idle"
      BY <1>1, <1>2
    <2>4. \A g \in Frames : Holds(g)' => Unsettled(g)' \/ g \in turns' \/ slot'[g] \in skipped'
      BY <1>1
    <2>5. \A g \in done' : ~Holds(g)' /\ cb'[g] \in {"resolving", "awaiting"}
      BY <1>1, <1>2
    <2> QED BY <2>1, <2>2, <2>3, <2>4, <2>5
  <1>7. TypeOK' BY <1>1, <1>2, EnsureWorkerType DEF CbStates
  <1> QED BY <1>1, <1>3, <1>4, <1>5, <1>6, <1>7

-----------------------------------------------------------------------------
(* The theorems *)

LEMMA InitInv == Init => IInv
  <1> SUFFICES ASSUME Init PROVE IInv
    OBVIOUS
  <1> USE DEF Init
  <1>1. TypeOK BY DEF TypeOK, NoSlot, CbStates, WorkerStates
  <1>2. SlotInv /\ SettledInv BY DEF SlotInv, SettledInv, Holds, Unsettled
  <1>3. SpawnedInv /\ WorkerInv BY DEF SpawnedInv, WorkerInv, Alive
  <1> QED BY <1>1, <1>2, <1>3 DEF IInv

LEMMA NextInv == IInv /\ [Next]_vars => IInv'
  <1> SUFFICES ASSUME IInv, [Next]_vars PROVE IInv'
    OBVIOUS
  <1>1. ASSUME NEW f \in Frames, Reserve(f) PROVE IInv'
    BY <1>1, ReserveInv
  <1>2. ASSUME NEW f \in Frames, DiscardFrame(f) \/ EndReply(f) PROVE IInv'
    BY <1>2, SkipInv
  <1>3. ASSUME NEW f \in Frames, BeginReply(f) \/ Stop(f) \/ Resolve(f) \/ CallbackReturns(f)
        PROVE  IInv'
    BY <1>3, CallbackMoveInv
  <1>9. ASSUME NEW f \in Frames, Strand(f) PROVE IInv'
    BY <1>9, StrandInv
  <1>4. ASSUME NEW f \in Frames, Enqueue(f) PROVE IInv'
    BY <1>4, EnqueueInv
  <1>5. ASSUME NEW w \in Workers, TakeSkipped(w) PROVE IInv'
    BY <1>5, TakeSkippedInv
  <1>6. ASSUME NEW w \in Workers, PassDropped(w) \/ HandlerReturns(w) \/ CancelHandler(w)
        PROVE  IInv'
    <2>1. wpc[w] \in {"prefetch", "handler"} /\ FinishTurn(w)
      BY <1>6 DEF PassDropped, HandlerReturns, CancelHandler, Resumes
    <2> QED BY <2>1, FinishTurnInv
  <1>7. ASSUME NEW w \in Workers,
               \/ BeginLoop(w) \/ TakeTurn(w) \/ PrefetchTimeout(w) \/ Dispatch(w)
               \/ CancelNew(w) \/ SwallowCancel(w) \/ CancelWaiting(w)
        PROVE  IInv'
    BY <1>7, WorkerMoveInv
  <1>8. CASE UNCHANGED vars
    BY <1>8 DEF vars, queueVars, cbVars, turnVars, workerVars, IInv, TypeOK, SlotInv,
                SettledInv, SpawnedInv, WorkerInv, Holds, Unsettled, Alive
  <1> QED BY <1>1, <1>2, <1>3, <1>4, <1>5, <1>6, <1>7, <1>8, <1>9, NextCases

\* The queue's invariant holds in every reachable state.
THEOREM QueueInvariant == Spec => []IInv
  BY InitInv, NextInv, PTL DEF Spec

\* Types are kept, for any frames and any number of worker identities.
THEOREM TypeCorrect == Spec => []TypeOK
  <1>1. IInv => TypeOK BY DEF IInv
  <1> QED BY <1>1, QueueInvariant, PTL

\* A session's turns are processed one at a time and in receive order, whatever
\* mix of messages, slash commands and /stop arrives and whenever the
\* cancellations take effect.
THEOREM OneTurnInReceiveOrder == Spec => []SerialInOrder
  <1>1. IInv => SerialInOrder
    <2> SUFFICES ASSUME IInv PROVE SerialInOrder
      OBVIOUS
    <2>1. \A f \in Frames : Holds(f) => slot[f] \in dispatchSeq..(nextSeq - 1)
      BY DEF IInv, TypeOK, SlotInv, Holds
    <2> QED BY <2>1 DEF IInv, WorkerInv, SerialInOrder
  <1> QED BY <1>1, QueueInvariant, PTL

\* Every reserved slot is settled exactly once by its own frame, and the queue is
\* never popped under a callback that still has to settle one.
THEOREM NoSlotLost == Spec => []SlotsAccounted
  <1>1. IInv => SlotsAccounted
    <2> SUFFICES ASSUME IInv PROVE SlotsAccounted
      OBVIOUS
    <2> USE DEF IInv, TypeOK
    <2>1. ASSUME NEW n \in dispatchSeq..(nextSeq - 1)
          PROVE  \E f \in Frames :
                    /\ slot[f] = n
                    /\ \/ Unsettled(f) /\ f \notin turns /\ n \notin skipped
                       \/ f \in turns /\ cb[f] \in {"resolving", "awaiting"} /\ n \notin skipped
                       \/ n \in skipped /\ cb[f] = "idle" /\ f \notin turns
      <3>1. PICK f \in Frames : slot[f] = n BY DEF SlotInv
      <3>2. Holds(f) BY <3>1 DEF Holds, NoSlot
      <3>3. CASE Unsettled(f) BY <3>1, <3>3 DEF SettledInv
      <3>4. CASE f \in turns BY <3>1, <3>4 DEF SettledInv
      <3>5. CASE n \in skipped
        <4>1. PICK g \in Frames : slot[g] = n /\ cb[g] = "idle" BY <3>5 DEF SettledInv
        <4>2. f = g BY <3>1, <3>2, <4>1 DEF SlotInv
        <4> QED BY <3>1, <3>5, <4>1, <4>2 DEF SettledInv
      <3> QED BY <3>1, <3>2, <3>3, <3>4, <3>5 DEF SettledInv
    <2>2. \A f \in Frames : Unsettled(f) \/ f \in turns => Holds(f)
      BY DEF SettledInv
    <2>3. \A f, g \in Frames : Holds(f) /\ slot[f] = slot[g] => f = g
      BY DEF SlotInv
    <2> QED BY <2>1, <2>2, <2>3 DEF SlotsAccounted
  <1> QED BY <1>1, QueueInvariant, PTL

\* A turn that /stop has drained is never handed to the handler.
THEOREM DrainedTurnsStayOut == Spec => DrainedNeverStarts
  <1>1. IInv /\ [Next]_vars => [\A f \in drop : Running(f)' => Running(f)]_vars
    <2> SUFFICES ASSUME IInv, Next, NEW f \in drop, NEW w \in Workers,
                        wpc'[w] = "handler", wturn'[w] = f
                 PROVE  wpc[w] = "handler" /\ wturn[w] = f
      BY DEF Running
    <2> USE DEF IInv, TypeOK
    <2>1. ASSUME NEW g \in Frames,
                 \/ Reserve(g) \/ DiscardFrame(g) \/ BeginReply(g) \/ Stop(g)
                 \/ EndReply(g) \/ Enqueue(g) \/ CallbackReturns(g) \/ Resolve(g)
                 \/ Strand(g)
          PROVE  wpc[w] = "handler" /\ wturn[w] = f
      BY <2>1 DEF Reserve, DiscardFrame, BeginReply, Stop, EndReply, Enqueue, CallbackReturns,
                  Resolve, Strand, SkipSlot, EnsureWorker, SpawnWorker, workerVars, Alive
    <2>2. ASSUME NEW v \in Workers, AdvanceHead(v, turns', skipped')
          PROVE  wpc[w] = "handler" /\ wturn[w] = f
      BY <2>2 DEF AdvanceHead
    <2>3. ASSUME NEW v \in Workers,
                 \/ TakeSkipped(v) \/ PassDropped(v) \/ HandlerReturns(v) \/ CancelHandler(v)
          PROVE  wpc[w] = "handler" /\ wturn[w] = f
      <3>1. AdvanceHead(v, turns', skipped')
        BY <2>3 DEF TakeSkipped, PassDropped, HandlerReturns, CancelHandler, FinishTurn, AdvanceHead
      <3> QED BY <2>2, <3>1
    <2>4. ASSUME NEW v \in Workers,
                 \/ BeginLoop(v) \/ TakeTurn(v) \/ PrefetchTimeout(v) \/ Dispatch(v)
                 \/ CancelNew(v) \/ SwallowCancel(v) \/ CancelWaiting(v)
          PROVE  wpc[w] = "handler" /\ wturn[w] = f
      BY <2>4 DEF BeginLoop, TakeTurn, PrefetchTimeout, Dispatch, CancelNew, SwallowCancel,
                  CancelWaiting, Resumes
    <2> QED BY <2>1, <2>3, <2>4, NextCases
  <1> QED BY <1>1, QueueInvariant, PTL DEF Spec, DrainedNeverStarts

\* The queue is sound at every moment: its types, the serial order of its turns
\* and the account of its slots hold together.
THEOREM QueueIsSound == Spec => []QueueSound
  <1>1. TypeOK /\ SerialInOrder /\ SlotsAccounted => QueueSound
    BY DEF QueueSound
  <1> QED BY <1>1, TypeCorrect, OneTurnInReceiveOrder, NoSlotLost, PTL

-----------------------------------------------------------------------------
(* Who orphans the queue *)

\* Moving past the head slot leaves a settled head to nobody only if the worker
\* that moved was cancelled.
LEMMA AdvanceOrphans ==
    ASSUME IInv, NEW w \in Workers, Alive(w), NEW rest, NEW skips,
           AdvanceHead(w, rest, skips), Orphaned'
    PROVE  w \in cancelled /\ ~Alive(w)'
  <1> USE DEF IInv, TypeOK
  <1>1. worker = w
    BY DEF WorkerInv
  <1>2. CASE QueueDrained(rest, skips)
    BY <1>2 DEF AdvanceHead, QueueDrained, Orphaned
  <1>3. CASE ~QueueDrained(rest, skips) /\ w \notin cancelled
    <2>1. worker' = w /\ wpc'[w] = "loop"
      BY <1>1, <1>3 DEF AdvanceHead
    <2> QED BY <2>1, QueueAssumption DEF Orphaned, HasLiveWorker, Alive
  <1>4. CASE ~QueueDrained(rest, skips) /\ w \in cancelled
    BY <1>4 DEF AdvanceHead, Alive
  <1> QED BY <1>2, <1>3, <1>4

\* Who hands a slot over finds or spawns a worker.
LEMMA EnsuredWorkerLives ==
    ASSUME IInv, EnsureWorker
    PROVE  HasLiveWorker'
  <1>1. CASE HasLiveWorker
    BY <1>1 DEF EnsureWorker, workerVars, HasLiveWorker, Alive
  <1>2. CASE ~HasLiveWorker
    <2>1. PICK w \in Workers : worker' = w /\ wpc' = [wpc EXCEPT ![w] = "new"]
      BY <1>2 DEF EnsureWorker, SpawnWorker
    <2> QED BY <2>1, QueueAssumption DEF IInv, TypeOK, HasLiveWorker, Alive
  <1> QED BY <1>1, <1>2

\* However messages, commands, /stop and cancellations come in between: a settled
\* head slot is left without a worker only by the end of a cancelled one, and the
\* next slot that is settled finds it a new worker.
THEOREM OnlyStopOrphans == Spec => OrphansComeFromStop
  <1> DEFINE Cut == \E w \in cancelled : Alive(w) /\ ~Alive(w)'
             Settles == ~(skipped' \subseteq skipped /\ turns' \subseteq turns)
             Good == (Orphaned' /\ ~Orphaned => Cut) /\ (Settles => ~Orphaned')
  <1>1. ASSUME IInv, Next PROVE Good
    <2> USE <1>1 DEF IInv, TypeOK
    <2>1. ASSUME NEW f \in Frames, Reserve(f) PROVE Good
      <3>1. f \notin turns
        BY <2>1 DEF Reserve, SettledInv
      <3>2. \A g \in turns : slot'[g] = slot[g]
        BY <2>1, <3>1 DEF Reserve
      <3>3. UNCHANGED <<turns, skipped, dispatchSeq, worker, wpc>>
        BY <2>1 DEF Reserve, workerVars
      <3> QED BY <3>2, <3>3 DEF Orphaned, HasLiveWorker, Alive
    <2>2. ASSUME NEW f \in Frames, DiscardFrame(f) \/ EndReply(f) \/ Enqueue(f) PROVE Good
      <3>1. EnsureWorker
        BY <2>2 DEF DiscardFrame, EndReply, Enqueue, SkipSlot
      <3> QED BY <3>1, EnsuredWorkerLives DEF Orphaned
    <2>3. ASSUME NEW f \in Frames,
                 BeginReply(f) \/ Stop(f) \/ Resolve(f) \/ CallbackReturns(f) \/ Strand(f)
          PROVE  Good
      <3>1. UNCHANGED <<turns, skipped, dispatchSeq, slot, worker, wpc>>
        <4>1. CASE Strand(f)
          BY <4>1 DEF Strand, queueVars, cbVars, workerVars
        <4>2. CASE BeginReply(f) \/ Stop(f) \/ Resolve(f) \/ CallbackReturns(f)
          BY <4>2 DEF BeginReply, Stop, Resolve, CallbackReturns, queueVars, workerVars
        <4> QED BY <2>3, <4>1, <4>2
      <3> QED BY <3>1 DEF Orphaned, HasLiveWorker, Alive
    <2>4. ASSUME NEW w \in Workers,
                 \/ TakeSkipped(w) \/ PassDropped(w) \/ HandlerReturns(w) \/ CancelHandler(w)
          PROVE  Good
      <3>1. Alive(w)
        BY <2>4 DEF TakeSkipped, PassDropped, HandlerReturns, CancelHandler, Resumes, Alive
      <3>2. AdvanceHead(w, turns', skipped') /\ turns' \subseteq turns /\ skipped' \subseteq skipped
        BY <2>4 DEF TakeSkipped, PassDropped, HandlerReturns, CancelHandler, FinishTurn, AdvanceHead
      <3>3. Orphaned' => w \in cancelled /\ ~Alive(w)'
        BY <3>1, <3>2, AdvanceOrphans
      <3> QED BY <3>1, <3>2, <3>3
    <2>5. ASSUME NEW w \in Workers,
                 \/ BeginLoop(w) \/ TakeTurn(w) \/ PrefetchTimeout(w) \/ Dispatch(w)
                 \/ SwallowCancel(w)
          PROVE  Good
      <3>1. /\ UNCHANGED <<turns, skipped, dispatchSeq, slot, worker>>
            /\ \A v \in Workers : wpc'[v] = "dead" <=> wpc[v] = "dead"
        BY <2>5 DEF BeginLoop, TakeTurn, PrefetchTimeout, Dispatch, SwallowCancel, Resumes,
                    queueVars, cbVars
      <3> QED BY <3>1 DEF Orphaned, HasLiveWorker, Alive
    <2>6. ASSUME NEW w \in Workers, CancelNew(w) \/ CancelWaiting(w) PROVE Good
      <3>1. w \in cancelled /\ Alive(w) /\ ~Alive(w)' /\ UNCHANGED <<turns, skipped>>
        BY <2>6 DEF CancelNew, CancelWaiting, Alive, queueVars
      <3> QED BY <3>1
    <2> HIDE DEF Good
    <2> QED BY <2>1, <2>2, <2>3, <2>4, <2>5, <2>6, NextCases
  <1>2. IInv /\ [Next]_vars => [Good]_vars
    BY <1>1
  <1> QED BY <1>2, QueueInvariant, PTL DEF Spec, OrphansComeFromStop

-----------------------------------------------------------------------------
(* The queue implements SessionFifo *)

\* Line is the frames that hold a slot, in the order of their slots.
LineInOrder ==
    /\ Line \in Seq(Frames) /\ Len(Line) = nextSeq - dispatchSeq
    /\ \A i \in 1..Len(Line) : slot[Line[i]] = dispatchSeq + i - 1

\* RunningFrame is the turn of the worker that is in the handler.
RunningIsHandled ==
    /\ \A w \in Workers : wpc[w] = "handler" => RunningFrame = wturn[w]
    /\ (\A w \in Workers : wpc[w] # "handler") => RunningFrame = None

LEMMA LineFacts == IInv => LineInOrder
  <1> SUFFICES ASSUME IInv PROVE LineInOrder
    OBVIOUS
  <1> DEFINE n == nextSeq - dispatchSeq
             At(i) == CHOOSE f \in Frames : slot[f] = dispatchSeq + i - 1
  <1>1. n \in Nat /\ dispatchSeq \in Nat /\ nextSeq \in Nat
    BY DEF IInv, TypeOK, SlotInv
  <1>2. ASSUME NEW i \in 1..n PROVE At(i) \in Frames /\ slot[At(i)] = dispatchSeq + i - 1
    <2>1. dispatchSeq + i - 1 \in dispatchSeq..(nextSeq - 1)
      BY <1>1
    <2>2. \E f \in Frames : slot[f] = dispatchSeq + i - 1
      BY <2>1 DEF IInv, SlotInv
    <2> QED BY <2>2
  <1>3. Line = [i \in 1..n |-> At(i)]
    BY DEF Line
  <1> HIDE DEF At, n
  <1>4. Line \in Seq(Frames) /\ Len(Line) = n
    BY <1>1, <1>2, <1>3
  <1> QED BY <1>1, <1>2, <1>3, <1>4 DEF LineInOrder, n

LEMMA RunningFacts == IInv => RunningIsHandled
  <1> SUFFICES ASSUME IInv PROVE RunningIsHandled
    OBVIOUS
  <1>1. ASSUME NEW w \in Workers, wpc[w] = "handler" PROVE RunningFrame = wturn[w]
    <2>1. wturn[w] \in Frames /\ Running(wturn[w])
      BY <1>1, HeldTurn DEF Running
    <2>2. \A f \in Frames : Running(f) => f = wturn[w]
      BY <1>1 DEF Running, IInv, WorkerInv, Alive
    <2> QED BY <2>1, <2>2 DEF RunningFrame
  <1>2. ASSUME \A w \in Workers : wpc[w] # "handler" PROVE RunningFrame = None
    BY <1>2 DEF RunningFrame, Running
  <1> QED BY <1>1, <1>2 DEF RunningIsHandled

LEMMA FactsAfter == IInv' => LineInOrder' /\ RunningIsHandled'
  BY LineFacts, RunningFacts, PTL

\* The frame with the head slot is the head of the line.
LEMMA HeadOfLine ==
    ASSUME IInv, NEW f \in Frames, slot[f] = dispatchSeq
    PROVE  Line # << >> /\ Head(Line) = f
  <1>1. Holds(f) /\ dispatchSeq < nextSeq
    BY DEF IInv, TypeOK, Holds, NoSlot, SlotInv
  <1>2. LineInOrder
    BY LineFacts
  <1>3. Len(Line) >= 1 /\ Line \in Seq(Frames)
    BY <1>1, <1>2 DEF LineInOrder, IInv, TypeOK
  <1>4. slot[Line[1]] = dispatchSeq /\ Line[1] \in Frames
    BY <1>2, <1>3 DEF LineInOrder, IInv, TypeOK
  <1>5. Line[1] = f
    BY <1>1, <1>4 DEF IInv, SlotInv
  <1> QED BY <1>3, <1>5

\* As long as no slot changes, the line does not.
LEMMA LineStays ==
    ASSUME IInv, IInv', UNCHANGED <<nextSeq, dispatchSeq, slot>>
    PROVE  Line' = Line
  <1>1. LineInOrder /\ LineInOrder'
    BY LineFacts, FactsAfter
  <1>2. Line \in Seq(Frames) /\ Line' \in Seq(Frames) /\ Len(Line') = Len(Line)
    BY <1>1 DEF LineInOrder
  <1>3. ASSUME NEW i \in 1..Len(Line) PROVE Line'[i] = Line[i]
    <2>1. slot[Line'[i]] = slot[Line[i]] /\ Line[i] \in Frames /\ Line'[i] \in Frames
      BY <1>1, <1>2 DEF LineInOrder
    <2>2. slot[Line[i]] = dispatchSeq + i - 1 /\ Holds(Line[i])
      BY <1>1 DEF LineInOrder, Holds, NoSlot, IInv, TypeOK
    <2> QED BY <2>1, <2>2 DEF IInv, SlotInv
  <1> QED BY <1>2, <1>3

\* A frame that reserves a slot takes the last place.
LEMMA LineGrows ==
    ASSUME IInv, IInv', NEW f \in Frames, Reserve(f)
    PROVE  Line' = Append(Line, f) /\ \A i \in DOMAIN Line : Line[i] # f
  <1>1. LineInOrder /\ LineInOrder'
    BY LineFacts, FactsAfter
  <1>2. /\ slot' = [slot EXCEPT ![f] = nextSeq] /\ nextSeq' = nextSeq + 1 /\ ~Holds(f)
        /\ dispatchSeq' = dispatchSeq
    BY DEF Reserve
  <1>3. nextSeq \in Nat /\ dispatchSeq \in Nat /\ slot \in [Frames -> Nat \cup {NoSlot}]
    BY DEF IInv, TypeOK
  <1>4. /\ Line \in Seq(Frames) /\ Line' \in Seq(Frames)
        /\ Len(Line) = nextSeq - dispatchSeq /\ Len(Line') = Len(Line) + 1
    BY <1>1, <1>2, <1>3 DEF LineInOrder
  <1>5. ASSUME NEW i \in 1..Len(Line)
        PROVE  Holds(Line[i]) /\ Line[i] # f /\ Line'[i] = Line[i]
    <2>1. Line[i] \in Frames /\ Line'[i] \in Frames /\ i \in 1..Len(Line')
      BY <1>4
    <2>2. slot[Line[i]] = dispatchSeq + i - 1 /\ slot'[Line'[i]] = dispatchSeq + i - 1
      BY <1>1, <1>2, <2>1 DEF LineInOrder
    <2>3. Holds(Line[i]) /\ Line[i] # f
      BY <1>2, <1>3, <2>2 DEF Holds, NoSlot
    <2>4. Line'[i] # f
      BY <1>2, <1>3, <1>4, <2>2
    <2>5. slot[Line'[i]] = slot[Line[i]]
      BY <1>2, <1>3, <2>1, <2>2, <2>4
    <2> QED BY <2>1, <2>3, <2>5 DEF IInv, SlotInv
  <1>6. Line'[Len(Line) + 1] = f
    <2> DEFINE last == Line'[Len(Line) + 1]
    <2>1. last \in Frames /\ slot'[last] = nextSeq
      BY <1>1, <1>2, <1>3, <1>4 DEF LineInOrder
    <2>2. ASSUME last # f PROVE FALSE
      <3>1. slot[last] = nextSeq
        BY <1>2, <1>3, <2>1, <2>2
      <3>2. Holds(last)
        BY <1>3, <3>1 DEF Holds, NoSlot
      <3> QED BY <1>3, <2>1, <3>1, <3>2 DEF IInv, SlotInv
    <2> QED BY <2>2
  <1>7. Line' = Append(Line, f)
    BY <1>4, <1>5, <1>6
  <1> QED BY <1>4, <1>5, <1>7

\* A worker that moves past the head slot takes the head off the line, and is in
\* the handler no more.
LEMMA LineShrinks ==
    ASSUME IInv, IInv', NEW w \in Workers, Alive(w), NEW rest, NEW skips,
           AdvanceHead(w, rest, skips), NEW g \in Frames, slot[g] = dispatchSeq
    PROVE  Line # << >> /\ Line' = Tail(Line) /\ RunningFrame' = None
  <1>1. LineInOrder /\ LineInOrder' /\ RunningIsHandled'
    BY LineFacts, FactsAfter
  <1>2. /\ slot' = [f \in Frames |-> IF slot[f] = dispatchSeq THEN NoSlot ELSE slot[f]]
        /\ wpc' = [wpc EXCEPT ![w] = IF QueueDrained(rest, skips) \/ w \in cancelled
                                     THEN "dead" ELSE "loop"]
    BY DEF AdvanceHead
  <1>3. nextSeq \in Nat /\ dispatchSeq \in Nat /\ slot \in [Frames -> Nat \cup {NoSlot}]
    BY DEF IInv, TypeOK
  <1>4. Line # << >> /\ Line \in Seq(Frames) /\ Line' \in Seq(Frames)
    BY <1>1, HeadOfLine DEF LineInOrder
  <1>5. RunningFrame' = None
    <2>1. \A v \in Workers : wpc'[v] # "handler"
      BY <1>2 DEF IInv, TypeOK, WorkerInv, Alive
    <2> QED BY <1>1, <2>1 DEF RunningIsHandled
  <1>6. Line' = Tail(Line)
    <2>1. CASE QueueDrained(rest, skips)
      <3>1. nextSeq' = 0 /\ dispatchSeq' = 0 /\ dispatchSeq + 1 = nextSeq
        BY <2>1 DEF AdvanceHead, QueueDrained
      <3>2. Len(Line) = 1 /\ Len(Line') = 0
        BY <1>1, <1>3, <3>1 DEF LineInOrder
      <3>3. Tail(Line) \in Seq(Frames) /\ Len(Tail(Line)) = 0
        BY <1>4, <3>2
      <3>4. \A s \in Seq(Frames) : Len(s) = 0 => s = << >>
        OBVIOUS
      <3> QED BY <1>4, <3>2, <3>3, <3>4
    <2>2. CASE ~QueueDrained(rest, skips)
      <3>1. nextSeq' = nextSeq /\ dispatchSeq' = dispatchSeq + 1
        BY <2>2 DEF AdvanceHead
      <3>2. Len(Line') = Len(Line) - 1 /\ Len(Line) >= 1
        BY <1>1, <1>3, <1>4, <3>1 DEF LineInOrder
      <3>3. ASSUME NEW i \in 1..Len(Line') PROVE Line'[i] = Line[i + 1]
        <4>1. i + 1 \in 1..Len(Line) /\ i \in Nat
          BY <1>4, <3>2
        <4>2. Line'[i] \in Frames /\ Line[i + 1] \in Frames
          BY <1>4, <4>1
        <4>3. slot[Line[i + 1]] = dispatchSeq + i /\ slot'[Line'[i]] = dispatchSeq + i
          BY <1>1, <1>3, <3>1, <4>1 DEF LineInOrder
        <4>4. slot[Line'[i]] = dispatchSeq + i
          BY <1>2, <1>3, <4>1, <4>2, <4>3 DEF NoSlot
        <4>5. Holds(Line'[i])
          BY <1>3, <4>1, <4>4 DEF Holds, NoSlot
        <4> QED BY <4>2, <4>3, <4>4, <4>5 DEF IInv, SlotInv
      <3> QED BY <1>4, <3>2, <3>3
    <2> QED BY <2>1, <2>2
  <1> QED BY <1>4, <1>5, <1>6

\* Arrivals are put last, only the head of the line is handled, one frame at a
\* time, and frames leave only from the head: the queue of slots, callbacks,
\* workers and cancellations implements the first-come first-served line.
THEOREM ImplementsFifo == Spec => FifoSpec
  <1>1. Init => Fifo!Init
    <2> SUFFICES ASSUME Init PROVE Fifo!Init
      OBVIOUS
    <2>1. IInv /\ nextSeq = 0 /\ dispatchSeq = 0
      BY InitInv DEF Init
    <2>2. Line = << >>
      BY <2>1, LineFacts DEF LineInOrder
    <2>3. RunningFrame = None
      BY <2>1, RunningFacts DEF RunningIsHandled, Init
    <2> QED BY <2>2, <2>3 DEF Fifo!Init
  <1>2. ASSUME IInv, IInv', [Next]_vars
        PROVE  Fifo!Next \/ UNCHANGED <<Line, RunningFrame>>
    <2> DEFINE Fine == Fifo!Next \/ UNCHANGED <<Line, RunningFrame>>
               Waits == \A w \in Workers : wpc[w] # "handler"
    <2>0. /\ LineInOrder /\ RunningIsHandled /\ LineInOrder' /\ RunningIsHandled'
          /\ Waits => RunningFrame = None
          /\ Waits' => RunningFrame' = None
      BY <1>2, LineFacts, RunningFacts, FactsAfter DEF RunningIsHandled
    <2>1. ASSUME UNCHANGED <<wpc, wturn>> PROVE RunningFrame' = RunningFrame
      <3>1. CASE Waits
        BY <2>0, <2>1, <3>1
      <3>2. CASE ~Waits
        BY <2>0, <2>1, <3>2 DEF RunningIsHandled
      <3> QED BY <3>1, <3>2
    <2>2. ASSUME NEW f \in Frames, Reserve(f) PROVE Fine
      <3>1. RunningFrame' = RunningFrame
        BY <2>1, <2>2 DEF Reserve, workerVars
      <3>2. Fifo!Arrive(f)
        BY <1>2, <2>2, <3>1, LineGrows DEF Fifo!Arrive
      <3> QED BY <3>2 DEF Fifo!Next
    <2>3. ASSUME NEW f \in Frames, DiscardFrame(f) \/ EndReply(f) \/ Enqueue(f) PROVE Fine
      <3>1. EnsureWorker /\ UNCHANGED <<nextSeq, dispatchSeq, slot>>
        BY <2>3 DEF DiscardFrame, EndReply, Enqueue, SkipSlot
      <3>2. Line' = Line
        BY <1>2, <3>1, LineStays
      <3>3. CASE HasLiveWorker
        BY <2>1, <3>1, <3>2, <3>3 DEF EnsureWorker, workerVars
      <3>4. CASE ~HasLiveWorker
        <4>1. \A w \in Workers : wpc[w] = "dead"
          BY <1>2, <3>4, QueueAssumption DEF HasLiveWorker, IInv, TypeOK, WorkerInv, Alive
        <4>2. PICK w \in Workers : wpc' = [wpc EXCEPT ![w] = "new"]
          BY <3>1, <3>4 DEF EnsureWorker, SpawnWorker
        <4>3. Waits /\ Waits'
          BY <1>2, <4>1, <4>2 DEF IInv, TypeOK
        <4> QED BY <2>0, <3>2, <4>3
      <3> QED BY <3>3, <3>4
    <2>4. ASSUME NEW f \in Frames,
                 BeginReply(f) \/ Stop(f) \/ Resolve(f) \/ CallbackReturns(f) \/ Strand(f)
          PROVE  Fine
      <3>1. UNCHANGED <<nextSeq, dispatchSeq, slot, wpc, wturn>>
        <4>1. CASE Strand(f)
          BY <4>1 DEF Strand, queueVars, cbVars, workerVars
        <4>2. CASE BeginReply(f) \/ Stop(f) \/ Resolve(f) \/ CallbackReturns(f)
          BY <4>2 DEF BeginReply, Stop, Resolve, CallbackReturns, queueVars, workerVars
        <4> QED BY <2>4, <4>1, <4>2
      <3> QED BY <1>2, <2>1, <3>1, LineStays
    <2>5. ASSUME NEW w \in Workers,
                 \/ TakeSkipped(w) \/ PassDropped(w) \/ HandlerReturns(w) \/ CancelHandler(w)
          PROVE  Fine
      <3>1. Alive(w)
        BY <2>5 DEF TakeSkipped, PassDropped, HandlerReturns, CancelHandler, Resumes, Alive
      <3>2. AdvanceHead(w, turns', skipped')
        BY <2>5 DEF TakeSkipped, PassDropped, HandlerReturns, CancelHandler, FinishTurn, AdvanceHead
      <3>3. PICK g \in Frames : slot[g] = dispatchSeq
        <4>1. CASE TakeSkipped(w)
          BY <1>2, <4>1 DEF TakeSkipped, IInv, SettledInv
        <4>2. CASE PassDropped(w) \/ HandlerReturns(w) \/ CancelHandler(w)
          <5>1. wpc[w] \in {"prefetch", "handler"}
            BY <4>2 DEF PassDropped, HandlerReturns, CancelHandler, Resumes
          <5> QED BY <1>2, <5>1, HeldTurn
        <4> QED BY <2>5, <4>1, <4>2
      <3>4. Line # << >> /\ Line' = Tail(Line) /\ RunningFrame' = None
        BY <1>2, <3>1, <3>2, <3>3, LineShrinks
      <3>5. CASE RunningFrame = None
        BY <3>4, <3>5 DEF Fifo!Next, Fifo!Discard
      <3>6. CASE RunningFrame # None
        BY <3>4, <3>6 DEF Fifo!Next, Fifo!End
      <3> QED BY <3>5, <3>6
    <2>6. ASSUME NEW w \in Workers, PrefetchTimeout(w) \/ Dispatch(w) PROVE Fine
      <3>1. /\ wpc[w] = "prefetch" /\ wpc' = [wpc EXCEPT ![w] = "handler"] /\ wturn' = wturn
            /\ UNCHANGED <<nextSeq, dispatchSeq, slot>>
        BY <2>6 DEF PrefetchTimeout, Dispatch, Resumes, queueVars, cbVars
      <3>2. Waits
        BY <1>2, <3>1 DEF IInv, WorkerInv, Alive
      <3>3. RunningFrame' = wturn[w]
        BY <1>2, <2>0, <3>1 DEF RunningIsHandled, IInv, TypeOK
      <3>4. Line # << >> /\ Head(Line) = wturn[w]
        <4>1. wturn[w] \in Frames /\ slot[wturn[w]] = dispatchSeq
          BY <1>2, <3>1, HeldTurn
        <4> QED BY <1>2, <4>1, HeadOfLine
      <3>5. Line' = Line
        BY <1>2, <3>1, LineStays
      <3> QED BY <2>0, <3>2, <3>3, <3>4, <3>5 DEF Fifo!Next, Fifo!Begin
    <2>7. ASSUME NEW w \in Workers,
                 BeginLoop(w) \/ TakeTurn(w) \/ CancelNew(w) \/ CancelWaiting(w)
          PROVE  Fine
      <3>1. /\ wpc[w] \in {"new", "loop", "prefetch"}
            /\ \E pc \in {"loop", "prefetch", "dead"} : wpc' = [wpc EXCEPT ![w] = pc]
            /\ UNCHANGED <<nextSeq, dispatchSeq, slot>>
        BY <2>7 DEF BeginLoop, TakeTurn, CancelNew, CancelWaiting, Resumes, queueVars, cbVars
      <3>2. Waits /\ Waits'
        BY <1>2, <3>1 DEF IInv, TypeOK, WorkerInv, Alive
      <3>3. Line' = Line
        BY <1>2, <3>1, LineStays
      <3> QED BY <2>0, <3>2, <3>3
    <2>8. CASE UNCHANGED <<nextSeq, dispatchSeq, slot, wpc, wturn>>
      BY <1>2, <2>1, <2>8, LineStays
    <2>9. (\E w \in Workers : SwallowCancel(w)) \/ UNCHANGED vars
          => UNCHANGED <<nextSeq, dispatchSeq, slot, wpc, wturn>>
      BY DEF SwallowCancel, vars, queueVars, cbVars, workerVars
    <2> HIDE DEF Fine, Waits
    <2>10. Fine
      BY <1>2, <2>2, <2>3, <2>4, <2>5, <2>6, <2>7, <2>8, <2>9, NextCases DEF Fine
    <2> QED BY <2>10 DEF Fine
  <1>3. IInv /\ IInv' /\ [Next]_vars => [Fifo!Next]_Fifo!vars
    BY <1>2 DEF Fifo!vars
  <1> QED BY <1>1, <1>3, QueueInvariant, PTL DEF Spec, FifoSpec, Fifo!Spec
=============================================================================
