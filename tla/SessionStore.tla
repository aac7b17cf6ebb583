---------------------------- MODULE SessionStore ----------------------------
(***************************************************************************)
(* One session id, in memory and on disk: session/manager.py (the LRU cache*)
(* and its create lock), session/persistence.py (debounced flush) and the  *)
(* locking skeleton of dispatcher.py (handle, /new).                       *)
(*                                                                         *)
(* Turns come from the inbound queue of the adapter and from the advisor   *)
(* bridge, which calls dispatcher.handle on its own.  Both look the session*)
(* up, wait for its lock, and let the agent of the current role extend its *)
(* history.  Meanwhile other sessions may push this one out of the cache,  *)
(* a flush may be sleeping or writing in a thread, /new may reset the      *)
(* history, /stop may cancel the turn of the queue, and the process may be *)
(* shut down or die.                                                       *)
(*                                                                         *)
(* A history is the sequence of the turns it records: t for a completed    *)
(* turn, -t for one whose messages are still being appended.  Compaction   *)
(* replaces a prefix of messages by a summary of them and so leaves this   *)
(* abstraction alone.  An action is a stretch of code between two awaits,  *)
(* or one step of a thread.                                                *)
(***************************************************************************)
EXTENDS Integers, Sequences, SequencesExt, FiniteSets

CONSTANTS Turners,      \* tasks that call dispatcher.handle
          Stoppable,    \* those of them that /stop can cancel
          Resetters,    \* tasks that serve /new
          Evictor,      \* another session's get_or_create, evicting
          Objs,         \* identities for Session objects
          Roles, DefaultRole,
          None,         \* Python's None; also: no such file, no such key
          Events,       \* what may happen besides turns, see EventSet
          Races,        \* timings the environment may produce, see RaceSet
          TransferCap,  \* per_turn_transfer_cap
          MaxTurns      \* bound on the number of turns, for model checking

EventSet == {"evict", "reset", "stop", "transfer", "crash", "shutdown"}

RaceSet == {"evict_busy",     \* as many other sessions as the cache holds are
                              \* touched while a caller still uses this one
            "slow_write",     \* a thread takes a while to write session.json
            "reset_race",     \* a turn starts while /new is under way
            "shutdown_busy"}  \* the process is stopped during a turn

\* What session.json holds; None for a role without a history.
Snapshot == [cur : Roles, hist : [Roles -> Seq(Int) \cup {None}]]

ASSUME StoreAssumption ==
    /\ Stoppable \subseteq Turners
    /\ Turners \cap Resetters = {}
    /\ Evictor \notin Turners \cup Resetters
    /\ None \notin Objs \cup Turners \cup Resetters \cup {Evictor}
    /\ DefaultRole \in Roles
    /\ None \notin Seq(Int) \cup Snapshot
    /\ Events \subseteq EventSet
    /\ Races \subseteq RaceSet
    /\ TransferCap \in Nat
    /\ MaxTurns \in Nat

VARIABLES
    \* SessionManager: _sessions[sid], _create_lock, and the evicted session
    \* that a thread is flushing, with the snapshot it has taken
    cached, createLock, victim, victimSnap,
    \* Session objects: current_role, agents_by_role, restored_histories,
    \* transfer_count_this_turn, and the holder of each lock
    mem, lock,
    \* callers: where each is, its session, what _build_session read, its turn
    pc, sess, built, turnOf,
    \* Dispatcher: whether sid is in _busy_sessions
    busy,
    \* PersistenceManager: the snapshot whose flush sleeps, and those that
    \* threads are writing
    pending, writes,
    \* session.json
    disk,
    \* the process is being shut down
    closing,
    \* ghosts: turns begun so far; how many of them a /new has erased, and how
    \* many one that had the session to itself; those that /stop cancelled
    turns, erased, firm, cut

cacheVars == <<cached, createLock, victim, victimSnap>>
flushVars == <<pending, writes, disk>>
ghosts    == <<turns, erased, firm, cut>>
callerVars == <<pc, sess, built, turnOf>>
vars      == <<cacheVars, mem, lock, callerVars, busy, flushVars, closing, ghosts>>

Callers == Turners \cup Resetters

PCs == {"idle",
        "missed",    \* not in the cache: waiting for the create lock
        "building",  \* the thread of _build_session is about to read the file
        "loaded",    \* it has read it
        "held",      \* has the session; perhaps in the sweep
        "waiting",   \* in _busy_sessions, waiting for session.lock
        "turn",      \* agent.handle
        "forced",    \* agent.handle again, after a refused transfer
        "post"}      \* turn done: stream.finish, then compaction

Session == [cur : Roles,
            agents : [Roles -> Seq(Int) \cup {None}],
            restored : [Roles -> Seq(Int) \cup {None}],
            transfers : Nat]

NoHistories == [r \in Roles |-> None]
FreshState  == [cur |-> DefaultRole, hist |-> NoHistories]
Blank       == [cur |-> DefaultRole, agents |-> NoHistories,
                restored |-> NoHistories, transfers |-> 0]

TypeOK ==
    /\ cached \in Objs \cup {None}
    /\ createLock \in Callers \cup {Evictor, None}
    /\ victim \in Objs \cup {None}
    /\ victimSnap \in Snapshot \cup {None}
    /\ mem \in [Objs -> Session]
    /\ lock \in [Objs -> Callers \cup {None}]
    /\ pc \in [Callers -> PCs]
    /\ sess \in [Callers -> Objs \cup {None}]
    /\ built \in [Callers -> Snapshot \cup {None}]
    /\ turnOf \in [Callers -> Nat]
    /\ busy \in BOOLEAN
    /\ pending \in Snapshot \cup {None}
    /\ writes \subseteq Snapshot
    /\ disk \in Snapshot \cup {None}
    /\ closing \in BOOLEAN
    /\ turns \in Nat
    /\ erased \in Nat /\ firm \in Nat
    /\ cut \subseteq Nat

\* A process that has just started, on whatever session.json holds.
Boot ==
    /\ cached' = None /\ createLock' = None /\ victim' = None /\ victimSnap' = None
    /\ mem' = [o \in Objs |-> Blank]
    /\ lock' = [o \in Objs |-> None]
    /\ pc' = [c \in Callers |-> "idle"]
    /\ sess' = [c \in Callers |-> None]
    /\ built' = [c \in Callers |-> None]
    /\ turnOf' = [c \in Callers |-> 0]
    /\ busy' = FALSE
    /\ pending' = None /\ writes' = {}
    /\ closing' = FALSE
    /\ UNCHANGED <<disk, ghosts>>

Init ==
    /\ cached = None /\ createLock = None /\ victim = None /\ victimSnap = None
    /\ mem = [o \in Objs |-> Blank]
    /\ lock = [o \in Objs |-> None]
    /\ pc = [c \in Callers |-> "idle"]
    /\ sess = [c \in Callers |-> None]
    /\ built = [c \in Callers |-> None]
    /\ turnOf = [c \in Callers |-> 0]
    /\ busy = FALSE
    /\ pending = None /\ writes = {} /\ disk = None
    /\ closing = FALSE
    /\ turns = 0 /\ erased = 0 /\ firm = 0 /\ cut = {}

-----------------------------------------------------------------------------
(* Helpers *)

\* snapshot(session): the histories of the materialised agents, no others.
SnapshotOf(o) == [cur |-> mem[o].cur, hist |-> mem[o].agents]

InUse(o) == \E c \in Callers : sess[c] = o
Referenced(o) == o = cached \/ o = victim \/ InUse(o)
Free == {o \in Objs : ~Referenced(o)}
NewObject == CHOOSE o \in Free : TRUE      \* its identity does not matter

\* _agent_for: the agent's history, adopting what was restored for the role.
Materialised(o, r) ==
    IF mem[o].agents[r] # None THEN mem[o].agents[r]
    ELSE IF mem[o].restored[r] # None THEN mem[o].restored[r]
    ELSE <<>>

IsOpen(h) == h # None /\ h # <<>> /\ Last(h) < 0

\* The turn is complete: what the agent appended stays.
Close(h) == IF IsOpen(h) THEN Append(Front(h), -Last(h)) ELSE h

\* agent.handle's "del self.history[pre_turn_len:]".
Rollback(h) == IF IsOpen(h) THEN Front(h) ELSE h

\* The thread writes a snapshot: at once, unless writes may be slow.
StartWrite(s) ==
    IF "slow_write" \in Races
    THEN writes' = writes \cup {s} /\ UNCHANGED disk
    ELSE disk' = s /\ UNCHANGED writes

-----------------------------------------------------------------------------
(* SessionManager.get_or_create *)

\* Cache hit: no lock, but the sweep that may follow awaits.
Hit(c) ==
    /\ pc[c] = "idle" /\ ~closing
    /\ cached # None
    /\ pc' = [pc EXCEPT ![c] = "held"]
    /\ sess' = [sess EXCEPT ![c] = cached]

Miss(c) ==
    /\ pc[c] = "idle" /\ ~closing
    /\ cached = None
    /\ pc' = [pc EXCEPT ![c] = "missed"]
    /\ UNCHANGED sess

\* /new looks is_busy up first and gives up if a turn is in flight.
Lookup(c) ==
    /\ c \in Turners => turns < MaxTurns
    /\ c \in Resetters => "reset" \in Events /\ ~busy
    /\ Hit(c) \/ Miss(c)
    /\ UNCHANGED <<cacheVars, mem, lock, built, turnOf, busy, flushVars, closing, ghosts>>

\* Mutant: the cache is not looked at again under the create lock.
LockNoRecheck(c) ==
    /\ pc[c] = "missed" /\ createLock = None
    /\ createLock' = c
    /\ pc' = [pc EXCEPT ![c] = "building"]
    /\ UNCHANGED <<cached, victim, victimSnap, mem, lock, sess, built, turnOf,
                   busy, flushVars, closing, ghosts>>

\* The create lock is free: take it, unless somebody has built the session.
LockAndRecheck(c) ==
    /\ pc[c] = "missed" /\ createLock = None
    /\ \/ /\ cached # None
          /\ pc' = [pc EXCEPT ![c] = "held"]
          /\ sess' = [sess EXCEPT ![c] = cached]
          /\ UNCHANGED createLock
       \/ /\ cached = None
          /\ pc' = [pc EXCEPT ![c] = "building"]
          /\ createLock' = c
          /\ UNCHANGED sess
    /\ UNCHANGED <<cached, victim, victimSnap, mem, lock, built, turnOf,
                   busy, flushVars, closing, ghosts>>

\* _build_session, in its thread, reads session.json.
LoadState(c) ==
    /\ pc[c] = "building"
    /\ pc' = [pc EXCEPT ![c] = "loaded"]
    /\ built' = [built EXCEPT ![c] = IF disk = None THEN FreshState ELSE disk]
    /\ UNCHANGED <<cacheVars, mem, lock, sess, turnOf, busy, flushVars, closing, ghosts>>

\* Back in the event loop: the new session is entered in the cache.
InsertSession(c) ==
    /\ pc[c] = "loaded" /\ Free # {}
    /\ LET o == NewObject IN
          /\ mem' = [mem EXCEPT ![o] = [cur |-> built[c].cur,
                                        agents |-> NoHistories,
                                        restored |-> built[c].hist,
                                        transfers |-> 0]]
          /\ cached' = o
          /\ sess' = [sess EXCEPT ![c] = o]
    /\ createLock' = None
    /\ pc' = [pc EXCEPT ![c] = "held"]
    /\ built' = [built EXCEPT ![c] = None]
    /\ UNCHANGED <<victim, victimSnap, lock, turnOf, busy, flushVars, closing, ghosts>>

\* _evict_if_needed, run for another session, pops this one.
Evict ==
    /\ "evict" \in Events
    /\ cached # None /\ createLock = None
    /\ "evict_busy" \in Races \/ ~InUse(cached)
    /\ victim' = cached
    /\ cached' = None
    /\ createLock' = Evictor
    /\ UNCHANGED <<victimSnap, mem, lock, callerVars, busy, flushVars, closing, ghosts>>

\* flush_now in its thread: the snapshot, without session.lock ...
SnapshotVictim ==
    /\ victim # None /\ victimSnap = None
    /\ victimSnap' = SnapshotOf(victim)
    /\ UNCHANGED <<cached, createLock, victim, mem, lock, callerVars, busy, flushVars,
                   closing, ghosts>>

\* ... and the write; get_or_create then releases the create lock.
FlushVictim ==
    /\ victimSnap # None
    /\ disk' = victimSnap
    /\ victim' = None /\ victimSnap' = None /\ createLock' = None
    /\ mem' = IF InUse(victim) THEN mem ELSE [mem EXCEPT ![victim] = Blank]
    /\ UNCHANGED <<cached, lock, callerVars, busy, pending, writes, closing, ghosts>>

-----------------------------------------------------------------------------
(* Dispatcher.handle *)

\* The session is marked busy before its lock is waited for.
EnterHandle(c) ==
    /\ c \in Turners /\ pc[c] = "held"
    /\ pc' = [pc EXCEPT ![c] = "waiting"]
    /\ busy' = TRUE
    /\ UNCHANGED <<cacheVars, mem, lock, sess, built, turnOf, flushVars, closing, ghosts>>

\* The lock is taken and the agent of the current role appends the message.
BeginTurn(c) ==
    LET o == sess[c]
        r == mem[o].cur
    IN  /\ pc[c] = "waiting"
        /\ lock[o] = None
        /\ turns < MaxTurns
        /\ lock' = [lock EXCEPT ![o] = c]
        /\ turns' = turns + 1
        /\ mem' = [mem EXCEPT ![o].agents[r] = Append(Materialised(o, r), -turns'),
                              ![o].restored[r] = None]
        /\ pc' = [pc EXCEPT ![c] = "turn"]
        /\ turnOf' = [turnOf EXCEPT ![c] = turns']
        /\ UNCHANGED <<cacheVars, sess, built, busy, flushVars, closing, erased, firm, cut>>

\* TransferRequested: this role's part of the turn is complete, and the same
\* message goes to the agent of the target.
Transfer(c) ==
    LET o == sess[c] IN
    /\ "transfer" \in Events
    /\ pc[c] = "turn"
    /\ mem[o].transfers + 1 < TransferCap
    /\ \E r \in Roles \ {mem[o].cur} :
          mem' = [mem EXCEPT ![o].agents[mem[o].cur] = Close(@),
                             ![o].agents[r] = Append(Materialised(o, r), -turnOf[c]),
                             ![o].restored[r] = None,
                             ![o].cur = r,
                             ![o].transfers = @ + 1]
    /\ UNCHANGED <<cacheVars, lock, callerVars, busy, flushVars, closing, ghosts>>

\* A transfer past the cap, to a role that is gone, or in solo mode: the same
\* agent is asked again, and now a TransferRequested fails the turn.
ForceAnswer(c) ==
    LET o == sess[c] IN
    /\ "transfer" \in Events
    /\ pc[c] = "turn"
    /\ mem' = [mem EXCEPT ![o].agents[mem[o].cur] =
                              IF @ = None THEN None ELSE Append(Close(@), -turnOf[c]),
                          ![o].transfers = @ + 1]
    /\ pc' = [pc EXCEPT ![c] = "forced"]
    /\ UNCHANGED <<cacheVars, lock, sess, built, turnOf, busy, flushVars, closing, ghosts>>

\* agent.handle returns and its messages stay, or raises and rolls them back.
EndTurn(c) ==
    LET o == sess[c] IN
    /\ pc[c] \in {"turn", "forced"}
    /\ \/ mem' = [mem EXCEPT ![o].agents[mem[o].cur] = Close(@), ![o].transfers = 0]
       \/ mem' = [mem EXCEPT ![o].agents[mem[o].cur] = Rollback(@), ![o].transfers = 0]
    /\ pc' = [pc EXCEPT ![c] = "post"]
    /\ UNCHANGED <<cacheVars, lock, sess, built, turnOf, busy, flushVars, closing, ghosts>>

\* The caller c leaves handle (or get_or_create) and whatever it holds.
Leave(c) ==
    /\ pc' = [pc EXCEPT ![c] = "idle"]
    /\ sess' = [sess EXCEPT ![c] = None]
    /\ built' = [built EXCEPT ![c] = None]
    /\ turnOf' = [turnOf EXCEPT ![c] = 0]
    /\ createLock' = IF createLock = c THEN None ELSE createLock
    /\ lock' = [o \in Objs |-> IF lock[o] = c THEN None ELSE lock[o]]
    /\ UNCHANGED <<cached, victim, victimSnap>>

\* Mutant: a flush that is already pending is kept, with its older snapshot.
PostTurnKeepsPending(c) ==
    /\ pc[c] = "post"
    /\ pending' = IF pending # None THEN pending ELSE SnapshotOf(sess[c])
    /\ busy' = FALSE
    /\ Leave(c)
    /\ UNCHANGED <<mem, writes, disk, closing, ghosts>>

\* _post_turn ends with persistence.schedule: the snapshot is taken under
\* session.lock and replaces the one whose flush is still sleeping.
PostTurn(c) ==
    /\ pc[c] = "post"
    /\ pending' = SnapshotOf(sess[c])
    /\ busy' = FALSE
    /\ Leave(c)
    /\ UNCHANGED <<mem, writes, disk, closing, ghosts>>

\* CancelledError, from /stop: agent.handle rolls back, the finally blocks
\* run, _post_turn does not.
StopTurn(c) ==
    LET o == sess[c] IN
    /\ "stop" \in Events
    /\ c \in Stoppable /\ pc[c] # "idle"
    /\ mem' = IF pc[c] \in {"turn", "forced"}
              THEN [mem EXCEPT ![o].agents[mem[o].cur] = Rollback(@), ![o].transfers = 0]
              ELSE mem
    /\ busy' = (busy /\ pc[c] \notin {"waiting", "turn", "forced", "post"})
    /\ cut' = cut \cup ({turnOf[c]} \ {0})
    /\ Leave(c)
    /\ UNCHANGED <<flushVars, closing, turns, erased, firm>>

Working == \E c \in Turners : pc[c] \in {"turn", "forced"}

\* Nobody else has the history: no thread is writing it, no turn goes on, and
\* no other Session object is in use or being built.
HasItAlone(c) ==
    /\ writes = {} /\ ~Working /\ victim = None /\ cached = sess[c]
    /\ \A d \in Callers : sess[d] \in {None, cached} /\ built[d] = None

\* Mutant: the pending flush is left alone.
ResetKeepsPending(c) ==
    LET o == sess[c] IN
    /\ c \in Resetters /\ pc[c] = "held"
    /\ "reset_race" \in Races \/ ~Working
    /\ mem' = [mem EXCEPT ![o].agents = NoHistories, ![o].restored = NoHistories]
    /\ disk' = [cur |-> mem[o].cur, hist |-> NoHistories]
    /\ erased' = turns /\ firm' = IF HasItAlone(c) THEN turns ELSE firm
    /\ Leave(c)
    /\ UNCHANGED <<busy, pending, writes, closing, turns, cut>>

\* reset_session_history, once it has the session: no await from here on.
Reset(c) ==
    LET o == sess[c] IN
    /\ c \in Resetters /\ pc[c] = "held"
    /\ "reset_race" \in Races \/ ~Working
    /\ mem' = [mem EXCEPT ![o].agents = NoHistories, ![o].restored = NoHistories]
    /\ disk' = [cur |-> mem[o].cur, hist |-> NoHistories]
    /\ pending' = None
    /\ erased' = turns /\ firm' = IF HasItAlone(c) THEN turns ELSE firm
    /\ Leave(c)
    /\ UNCHANGED <<busy, writes, closing, turns, cut>>

-----------------------------------------------------------------------------
(* The debounced flush, and the end of the process *)

\* Mutant: the snapshot is taken when the flush is due, without session.lock.
FlushDueLive ==
    /\ pending # None
    /\ pending' = None
    /\ StartWrite(IF cached # None THEN SnapshotOf(cached) ELSE pending)
    /\ UNCHANGED <<cacheVars, mem, lock, callerVars, busy, closing, ghosts>>

\* The debounce has elapsed: a thread starts writing the snapshot.
FlushDue ==
    /\ pending # None
    /\ pending' = None
    /\ StartWrite(pending)
    /\ UNCHANGED <<cacheVars, mem, lock, callerVars, busy, closing, ghosts>>

\* os.replace, in a thread; cancelling the task of the flush no longer helps.
FlushWrite ==
    \E s \in writes :
        /\ disk' = s
        /\ writes' = writes \ {s}
        /\ UNCHANGED <<cacheVars, mem, lock, callerVars, busy, pending, closing, ghosts>>

\* flush_all, in the finally block of the main task: sleeping flushes are
\* cancelled, and every cached session is written, without its lock.
Shutdown ==
    /\ "shutdown" \in Events /\ ~closing
    /\ "shutdown_busy" \in Races \/ ~Working
    /\ closing' = TRUE
    /\ pending' = None
    /\ disk' = IF cached # None THEN SnapshotOf(cached) ELSE disk
    /\ UNCHANGED <<cacheVars, mem, lock, callerVars, busy, writes, ghosts>>

\* The interpreter waits for its threads, and is started again some time.
Exit ==
    /\ closing /\ writes = {} /\ victimSnap = None
    /\ Boot

\* kill -9, or the hard exit after the grace period, and a restart.
Crash == "crash" \in Events /\ Boot

Step(c) ==
    \/ LockAndRecheck(c)
    \/ LoadState(c)
    \/ InsertSession(c)
    \/ EnterHandle(c)
    \/ BeginTurn(c)
    \/ EndTurn(c)
    \/ PostTurn(c)
    \/ Reset(c)

Flush == SnapshotVictim \/ FlushVictim \/ FlushDue \/ FlushWrite

Next == \/ \E c \in Callers :
              Lookup(c) \/ Step(c) \/ Transfer(c) \/ ForceAnswer(c) \/ StopTurn(c)
        \/ Flush \/ Evict \/ Shutdown \/ Exit \/ Crash

Spec == Init /\ [][Next]_vars

\* The sleep of a flush ends, and so do the threads that write.  Nothing else
\* need go on: messages, commands and evictions may come at any time or never,
\* and a turn, or its post-turn stage, may wait for good in a put() whose write
\* queue a reconnect has replaced (Connection!CallersWakeUp).
Fairness == WF_vars(Flush)

FairSpec == Spec /\ Fairness

-----------------------------------------------------------------------------
(* Properties *)

InTurn(c) == pc[c] \in {"turn", "forced", "post"}

\* Turns of a session exclude each other: all callers that look it up get the
\* same Session object, hence the same lock (comment in get_or_create on what
\* would happen without the re-check under the create lock).
TurnsExclusive ==
    \A c, d \in Turners : InTurn(c) /\ InTurn(d) => c = d

\* What session.json holds was consistent: no turn of which only a part has
\* been appended, e.g. a tool call without its result (comment in schedule).
NoHalfTurnOnDisk ==
    disk # None =>
        \A r \in Roles : disk.hist[r] # None =>
            \A i \in 1..Len(disk.hist[r]) : disk.hist[r][i] > 0

\* The history that the session has for a role, materialised or not.
Known(o, r) == IF mem[o].agents[r] # None THEN mem[o].agents[r] ELSE mem[o].restored[r]

Remembers(h, t) == h # None /\ \E i \in 1..Len(h) : h[i] \in {t, -t}

\* The first n turns are neither on disk nor in what the next turn will see.
Forgotten(n) ==
    \A t \in 1..n, r \in Roles :
        /\ disk # None => ~Remembers(disk.hist[r], t)
        /\ cached # None => ~Remembers(Known(cached, r), t)

\* After a /new that had the session to itself no turn from before it comes
\* back, to disk or to memory: not by the flush that was pending, not by an
\* eviction, a rebuild or a crash, whatever turns, stops, slow threads and
\* other /new's come later.
ResetSticks == Forgotten(firm)

\* Claimed by the comment in reset_session_history, which cancels the pending
\* flush so that it does not clobber the reset: the same after every /new.  A
\* flush whose thread has begun to write is past cancelling.
EveryResetSticks == Forgotten(erased)

DiskSound == TypeOK /\ ResetSticks

\* The session's memory, also while its eviction is flushing it.
Memory == IF cached # None THEN cached ELSE victim

\* An agent of the session holds the completed turn t.
Held(t) == Memory # None /\ \E r \in Roles :
    LET h == mem[Memory].agents[r] IN h # None /\ \E i \in 1..Len(h) : h[i] = t

OnDisk(t) == disk # None /\ \E r \in Roles : Remembers(disk.hist[r], t)

\* The turn t is over, and its messages stayed; its flush is yet to be
\* scheduled.
JustCompleted(t) == Held(t) /\ \E c \in Turners : turnOf[c] = t /\ pc[c] = "post"

\* A turn that completes reaches session.json, unless /new or the end of the
\* process takes it from memory first, or its post-turn stage is cut by /stop
\* or never ends ("persistence is already on disk except for at most the last
\* debounce window"), also when threads are slow, flushes overtake each other
\* and the session is evicted and rebuilt.
CompletedReachesDisk ==
    \A t \in 1..MaxTurns :
        JustCompleted(t) ~>
            (OnDisk(t) \/ ~Held(t) \/ t \in cut \/ []JustCompleted(t))

\* What makes these properties inductive.
\*
\* Who has the session is past its lookup, and only who has read the file
\* keeps what it held.
Attached ==
    \A c \in Callers :
        /\ sess[c] # None <=> pc[c] \in {"held", "waiting", "turn", "forced", "post"}
        /\ pc[c] \in {"waiting", "turn", "forced", "post"} => c \in Turners
        /\ built[c] # None <=> pc[c] = "loaded"

\* All who have the session have the object that is cached, whose lock is held
\* for a turn; who builds one, or flushes an evicted one, has the create lock.
OneObject ==
    /\ \A c \in Callers :
          /\ sess[c] # None => sess[c] = cached
          /\ pc[c] \in {"building", "loaded"} => createLock = c /\ cached = None
          /\ InTurn(c) => lock[sess[c]] = c
    /\ victim # None => createLock = Evictor /\ cached = None
    /\ victimSnap # None => victim # None

\* Only the turn that is being appended is open, in the agent of the current
\* role of the cached session.
Whole(h)        == h # None => \A i \in 1..Len(h) : h[i] > 0
WholeButLast(h) == h # None => \A i \in 1..Len(h) : h[i] # 0 /\ (i < Len(h) => h[i] > 0)
WholeSnapshot(s) == s # None => \A r \in Roles : Whole(s.hist[r])

WholeFiles ==
    /\ WholeSnapshot(disk) /\ WholeSnapshot(pending) /\ WholeSnapshot(victimSnap)
    /\ \A s \in writes : WholeSnapshot(s)
    /\ \A c \in Callers : WholeSnapshot(built[c])

WholeAgents ==
    \A o \in Objs, r \in Roles :
        /\ Whole(mem[o].restored[r])
        /\ \/ Whole(mem[o].agents[r])
           \/ Working /\ o = cached /\ r = mem[o].cur /\ WholeButLast(mem[o].agents[r])

WholeInv ==
    /\ WholeFiles /\ WholeAgents
    /\ \A c \in Callers : pc[c] \in {"turn", "forced"} => turnOf[c] > 0

\* No history that may be used or written again records a turn that a /new
\* alone with the session has erased; such turns are over.
Clear(h) == h # None => \A i \in 1..Len(h) : h[i] > firm \/ h[i] < -firm
ClearSnapshot(s) == s # None => \A r \in Roles : Clear(s.hist[r])

ClearFiles ==
    /\ ClearSnapshot(disk) /\ ClearSnapshot(pending) /\ ClearSnapshot(victimSnap)
    /\ \A s \in writes : ClearSnapshot(s)
    /\ \A c \in Callers : ClearSnapshot(built[c])

ClearAgents ==
    \A o \in Objs, r \in Roles :
        Referenced(o) => Clear(mem[o].restored[r]) /\ Clear(mem[o].agents[r])

ClearInv ==
    /\ firm <= turns
    /\ victimSnap # None => victim # None
    /\ ClearFiles /\ ClearAgents
    /\ \A c \in Callers : pc[c] \in {"turn", "forced"} => turnOf[c] > firm

\* Claimed by the README ("Session history and current active role survive
\* restarts"): only /new takes a turn that is on disk off it.
HistoriesSurvive ==
    [][\A t \in 1..MaxTurns : OnDisk(t) /\ t > erased' => OnDisk(t)']_vars
=============================================================================
