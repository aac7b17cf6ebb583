----------------------------- MODULE Callbacks ------------------------------
(***************************************************************************)
(* What the adapter does with a callback before the inbound queue has it:  *)
(* deduplication, the private-chat gate, slash commands, events            *)
(* (adapters/wecom.py), and the busy marks of dispatcher.py that the slash *)
(* commands read without the session's lock.                               *)
(*                                                                         *)
(* WeCom delivers a callback again when it sees fit, across reconnects     *)
(* too.  Up to its first await a callback is one step; nothing that the    *)
(* properties tell apart happens behind it.  Turns wait and run in         *)
(* InboundQueue; here they are the calls of Dispatcher.handle in progress. *)
(***************************************************************************)
EXTENDS Integers, Sequences, SequencesExt, FiniteSets

CONSTANTS CbMsgs,          \* callbacks: the domain of CbKind and CbSession
          CbKind,          \* "text", "new", "stop", "status", "running", "enter", "drop"
          CbSession,       \* the session a callback belongs to
          CbPrivate,       \* the sessions that are private chats
          CbLruSize,       \* session.msgid_lru_size
          CbMaxCallbacks   \* bound on deliveries

CbSessions == {CbSession[m] : m \in CbMsgs}

VARIABLES
    direct,     \* the handler is Dispatcher.handle, not the advisor bridge
    lru,        \* _msgid_lru, oldest first
    allowed,    \* private sessions whose user private_chat.allows
    busy,       \* _busy_sessions
    calls,      \* by session: calls of Dispatcher.handle in progress
    stopped,    \* sessions whose running call /stop has cancelled
    queued,     \* by session: turns in its inbound queue, not yet dispatched
    told,       \* the last reply of the adapter: to what, and which
    others,     \* ghost, by callback: which others were seen since it was last
    again,      \* ghost: the last callback was a replay and was acted on
    overlap,    \* ghost: sessions with two calls at a time since they were idle
    delivered

cbTurns == <<busy, calls, stopped, queued, overlap>>
cbVars == <<direct, lru, allowed, cbTurns, told, others, again, delivered>>

Unseen == {"never"}
Nothing == [to |-> "", is |-> ""]

CbInit ==
    /\ direct \in BOOLEAN /\ lru = << >> /\ allowed = CbPrivate
    /\ busy = {} /\ calls = [s \in CbSessions |-> 0] /\ stopped = {}
    /\ queued = [s \in CbSessions |-> 0]
    /\ told = Nothing /\ overlap = {}
    /\ others = [m \in CbMsgs |-> Unseen] /\ again = FALSE
    /\ delivered = 0

-----------------------------------------------------------------------------
(* _LRU.add *)

Refresh(m) == \E i \in DOMAIN lru : lru[i] = m /\ lru' = Append(RemoveAt(lru, i), m)

Insert(m) ==
    lru' = IF Len(lru) < CbLruSize THEN Append(lru, m) ELSE Append(Tail(lru), m)

Replay(m) == m \in Range(lru)

\* What the ghosts note of it.
Seen(m) ==
    /\ delivered < CbMaxCallbacks /\ delivered' = delivered + 1
    /\ again' = (~Replay(m) /\ others[m] # Unseen)
    /\ others' = [n \in CbMsgs |->
                    IF n = m THEN {}
                    ELSE IF others[n] = Unseen THEN Unseen ELSE others[n] \cup {m}]

\* A replay is dropped.
Duplicate(m) ==
    /\ Replay(m) /\ Seen(m) /\ Refresh(m)
    /\ UNCHANGED <<direct, allowed, cbTurns, told>>

Fresh(m) == ~Replay(m) /\ Seen(m) /\ Insert(m)

Say(m, text) == told' = [to |-> m, is |-> text]

-----------------------------------------------------------------------------
(* _handle_msg_callback *)

\* The gate of a private chat lets the user pass.
Passes(m) == CbSession[m] \in CbPrivate => CbSession[m] \in allowed

Blocked(m) ==
    /\ Fresh(m) /\ CbKind[m] # "enter" /\ ~Passes(m)
    /\ Say(m, "blocked")
    /\ UNCHANGED <<direct, allowed, cbTurns>>

\* An ordinary message takes its place in the queue; one of an unsupported
\* type gives it back.
Message(m) ==
    /\ Fresh(m) /\ Passes(m)
    /\ \/ /\ CbKind[m] = "text"
          /\ queued' = [queued EXCEPT ![CbSession[m]] = @ + 1]
       \/ CbKind[m] = "drop" /\ UNCHANGED queued
    /\ UNCHANGED <<direct, allowed, busy, calls, stopped, overlap, told>>

\* A slash command is answered past the queue, so that /stop need not wait for
\* the turn it is to stop; /running is for private chats.
Command(m, name) ==
    /\ Fresh(m) /\ CbKind[m] = name /\ Passes(m)
    /\ UNCHANGED <<direct, allowed>>

\* _dispatcher_ref finds no Dispatcher behind the handler.
Unavailable(m) ==
    /\ ~direct
    /\ \E name \in {"new", "stop", "status", "running"} : Command(m, name)
    /\ Say(m, "unavailable")
    /\ UNCHANGED cbTurns

\* Mutant: /new looks only at whether turns wait in the queue.
NewLooksAtQueue(m) ==
    /\ direct /\ Command(m, "new")
    /\ Say(m, IF queued[CbSession[m]] > 0 THEN "refused" ELSE "reset")
    /\ UNCHANGED cbTurns

\* /new is refused while the session is marked busy.
NewCommand(m) ==
    /\ direct /\ Command(m, "new")
    /\ Say(m, IF CbSession[m] \in busy THEN "refused" ELSE "reset")
    /\ UNCHANGED cbTurns

\* /stop cancels the session's worker, whether it runs a turn or waits for
\* the media of the next, and drains what waits.
StopCommand(m) ==
    LET s == CbSession[m]
    IN /\ direct /\ Command(m, "stop")
       /\ \E waits \in BOOLEAN :
             Say(m, IF calls[s] > 0 \/ waits THEN "stopped"
                    ELSE IF queued[s] > 0 THEN "drained" ELSE "nothing")
       /\ stopped' = IF calls[s] > 0 THEN stopped \cup {s} ELSE stopped
       /\ queued' = [queued EXCEPT ![s] = 0]
       /\ UNCHANGED <<busy, calls, overlap>>

StatusCommand(m) ==
    /\ direct /\ Command(m, "status")
    /\ Say(m, IF CbSession[m] \in busy THEN "busy" ELSE "idle")
    /\ UNCHANGED cbTurns

\* busy_group_sessions
MarkedGroups == busy \ CbPrivate

RunningCommand(m) ==
    /\ direct /\ Command(m, "running")
    /\ Say(m, IF CbSession[m] \notin CbPrivate THEN "private only"
              ELSE IF MarkedGroups = {} THEN "none" ELSE "list")
    /\ UNCHANGED cbTurns

-----------------------------------------------------------------------------
(* _handle_event_callback, reload, and the calls of the handler *)

\* A text, and a template card unless that fails.
Welcomed(m) == Say(m, "welcome")

\* enter_chat is welcomed, unless the gate would block the user's messages.
EnterChat(m) ==
    /\ Fresh(m) /\ CbKind[m] = "enter"
    /\ IF Passes(m) THEN Welcomed(m) ELSE UNCHANGED told
    /\ UNCHANGED <<direct, allowed, cbTurns>>

PolicyReloaded ==
    /\ allowed' \in SUBSET CbPrivate \ {allowed}
    /\ UNCHANGED <<direct, lru, cbTurns, told, others, again, delivered>>

\* The head of the queue is dispatched: one at a time, but for a turn that
\* arrives while a stopped one is still unwinding (InboundQueue).
HandleBegins(s) ==
    /\ queued[s] > 0 /\ calls[s] < 2
    /\ calls[s] > 0 => s \in stopped
    /\ queued' = [queued EXCEPT ![s] = @ - 1]
    /\ calls' = [calls EXCEPT ![s] = @ + 1]
    /\ busy' = busy \cup {s}
    /\ overlap' = IF calls[s] > 0 THEN overlap \cup {s} ELSE overlap
    /\ UNCHANGED <<direct, lru, allowed, stopped, told, others, again, delivered>>

\* Mutant: the mark goes only when the turn returned.
HandleEndsUnmarked(s) ==
    /\ calls[s] > 0
    /\ calls' = [calls EXCEPT ![s] = @ - 1]
    /\ busy' = IF s \in stopped THEN busy ELSE busy \ {s}
    /\ IF calls[s] = 1 THEN stopped' = stopped \ {s} /\ overlap' = overlap \ {s}
       ELSE UNCHANGED <<stopped, overlap>>
    /\ UNCHANGED <<direct, lru, allowed, queued, told, others, again, delivered>>

\* A call returns, raises or is cancelled: the mark goes, whoever else set it.
HandleEnds(s) ==
    /\ calls[s] > 0
    /\ calls' = [calls EXCEPT ![s] = @ - 1]
    /\ busy' = busy \ {s}
    /\ IF calls[s] = 1 THEN stopped' = stopped \ {s} /\ overlap' = overlap \ {s}
       ELSE UNCHANGED <<stopped, overlap>>
    /\ UNCHANGED <<direct, lru, allowed, queued, told, others, again, delivered>>

CbNext ==
    \/ \E m \in CbMsgs :
          \/ Duplicate(m) \/ Blocked(m) \/ Message(m)
          \/ Unavailable(m) \/ NewCommand(m) \/ StopCommand(m)
          \/ StatusCommand(m) \/ RunningCommand(m) \/ EnterChat(m)
    \/ PolicyReloaded
    \/ \E s \in CbSessions : HandleBegins(s) \/ HandleEnds(s)

CbSpec == CbInit /\ [][CbNext]_cbVars

-----------------------------------------------------------------------------
(* Properties *)

\* However a callback is repeated, and whatever callbacks and events come in
\* between: it is acted on again only if msgid_lru_size others were seen since
\* it was last.
ReplaysAreDropped ==
    [][\A m \in CbMsgs :
          again' /\ ~again /\ others'[m] = {} /\ others[m] # {} =>
             Cardinality(others[m]) >= CbLruSize]_cbVars

\* The marks and the commands that read them: no session stays marked when its
\* calls are over (/new would be refused for good), and as long as the calls of
\* a session did not overlap, /status tells idle and /new resets only when no
\* turn runs.
BusyIsTrue ==
    /\ \A s \in CbSessions : /\ s \in busy => calls[s] > 0
                             /\ calls[s] > 0 /\ s \notin overlap => s \in busy

CommandsTellTheTruth ==
    [][told' # told /\ told'.is \in {"reset", "idle"} =>
          \/ calls[CbSession[told'.to]] = 0
          \/ CbSession[told'.to] \in overlap]_cbVars
=============================================================================
