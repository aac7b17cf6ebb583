-------------------------------- MODULE Boss --------------------------------
(***************************************************************************)
(* The boss, the command-line agent that writes the team's role files: its *)
(* two front ends, the chat loop on stdin (boss.py) and the Textual screen *)
(* (boss_tui.py).  TeamFiles has what its tools write.                     *)
(*                                                                         *)
(* The screen's input box posts what was typed and submitted to the app,   *)
(* which handles it in order, after the box has changed again perhaps.  A  *)
(* turn and the compaction after it are one worker; run_worker(exclusive)  *)
(* cancels the worker before.                                              *)
(***************************************************************************)
EXTENDS Integers, Sequences, SequencesExt

CONSTANTS BsTexts,      \* what may be typed
          BsMatches,    \* by text: the slash commands it is a prefix of
          BsMaxTurns, BsMaxEvents    \* bounds

VARIABLES
    front,      \* "screen" or "plain"
    box,        \* the text in the input box
    events,     \* messages of the box to the app
    popup,      \* the commands on offer and the highlighted one, << >> if hidden
    busy,       \* _busy
    worker,     \* what the worker does, and for which message
    pending,    \* _pending_bot_widget is mounted, or was cleared away
    history,    \* of the agent: the messages, 0 for a summary of some
    shown,      \* the messages whose answer has been shown
    began,      \* messages that were accepted
    wiped,      \* ghost: messages during whose turn the screen was cleared
    cut         \* ghost: a worker was cancelled in its turn

bsInput == <<box, events, popup>>
bsTurn == <<busy, worker, pending, history, shown, began, wiped, cut>>
bsVars == <<front, bsInput, bsTurn>>

Nothing == ""
Hidden == [cmds |-> << >>, at |-> 0]
NoWorker == [at |-> "none", msg |-> 0]
Summary == 0
Ended == "ended"

BsInit ==
    /\ front \in {"screen", "plain"}
    /\ box = Nothing /\ events = << >> /\ popup = Hidden
    /\ busy = FALSE /\ worker = NoWorker /\ pending = "no"
    /\ history = << >> /\ shown = {} /\ began = 0 /\ wiped = {} /\ cut = FALSE

Event(kind, text) == [is |-> kind, text |-> text]

-----------------------------------------------------------------------------
(* The input box *)

Room == front = "screen" /\ Len(events) < BsMaxEvents /\ UNCHANGED <<front, bsTurn>>

\* The box tells of its text when that changes.
SetBox(text, others) ==
    /\ box' = text
    /\ events' = IF text = box THEN others ELSE Append(others, Event("changed", text))

Type(text) == Room /\ text # box /\ SetBox(text, events) /\ UNCHANGED popup

PressEnter ==
    /\ Room /\ events' = Append(events, Event("submitted", box))
    /\ UNCHANGED <<box, popup>>

\* Keys that SlashInput takes for itself while the popup is on.
Move(delta) ==
    /\ Room /\ popup # Hidden
    /\ popup.at + delta \in DOMAIN popup.cmds
    /\ popup' = [popup EXCEPT !.at = @ + delta]
    /\ UNCHANGED <<box, events>>

\* Tab takes the highlighted command, a click any one.
AcceptCommand(i) ==
    /\ Room /\ i \in DOMAIN popup.cmds
    /\ SetBox(popup.cmds[i], events) /\ popup' = Hidden

PressEscape == Room /\ popup # Hidden /\ popup' = Hidden /\ UNCHANGED <<box, events>>

-----------------------------------------------------------------------------
(* BossApp *)

\* on_input_changed goes by the text of the event.
OnChanged ==
    /\ events # << >> /\ Head(events).is = "changed" /\ front # Ended
    /\ LET m == BsMatches[Head(events).text]
       IN popup' = IF m = << >> THEN Hidden ELSE [cmds |-> m, at |-> 1]
    /\ events' = Tail(events)
    /\ UNCHANGED <<front, box, bsTurn>>

\* on_input_submitted begins with these.
Submitted(text) ==
    /\ events # << >> /\ Head(events) = Event("submitted", text) /\ front # Ended
    /\ SetBox(Nothing, Tail(events)) /\ popup' = Hidden

\* /roles and /help only write to the screen; an empty text does nothing.
OnNoMessage ==
    /\ \E text \in {Nothing, "/roles", "/help"} : Submitted(text)
    /\ UNCHANGED <<front, bsTurn>>

\* /clear is handled at any time, and takes the widget of a pending answer too.
OnClear ==
    /\ Submitted("/clear")
    /\ pending' = IF pending = "mounted" THEN "cleared" ELSE pending
    /\ wiped' = IF busy THEN wiped \cup {worker.msg} ELSE wiped
    /\ UNCHANGED <<front, busy, worker, history, shown, began, cut>>

Quit ==
    /\ front # Ended
    /\ front' = Ended /\ worker' = NoWorker
    /\ UNCHANGED <<bsInput, busy, pending, history, shown, began, wiped, cut>>

OnQuit == events # << >> /\ Head(events) = Event("submitted", "/quit") /\ Quit

IsMessage(text) == text \notin {Nothing, "/quit", "/clear", "/roles", "/help"}

\* Mutant: a message is taken while a turn is running.
AlwaysIdle == TRUE

\* A message is dropped while a turn is running, not while it is compacted.
Idle == ~busy

StartWorker ==
    /\ began < BsMaxTurns /\ began' = began + 1
    /\ busy' = TRUE
    /\ worker' = [at |-> "new", msg |-> began + 1]
    /\ cut' = (cut \/ worker.at \in {"new", "turn"})

OnMessage ==
    /\ \E text \in BsTexts : IsMessage(text) /\ Submitted(text)
    /\ IF Idle THEN StartWorker ELSE UNCHANGED <<busy, worker, began, cut>>
    /\ UNCHANGED <<front, pending, history, shown, wiped>>

\* chat_loop reads the next line when all is done.
ReadLine ==
    /\ front = "plain" /\ worker = NoWorker /\ StartWorker
    /\ UNCHANGED <<front, bsInput, pending, history, shown, wiped>>

-----------------------------------------------------------------------------
(* _agent_turn *)

\* _create_pending_bot, and Agent.handle with its request under way.
BeginTurn ==
    /\ worker.at = "new"
    /\ worker' = [worker EXCEPT !.at = "turn"]
    /\ pending' = "mounted"
    /\ history' = Append(history, worker.msg)
    /\ UNCHANGED <<front, bsInput, busy, shown, began, wiped, cut>>

\* The reply or, for a transfer or an exception, a message about it; after it
\* chat_loop goes on without a compaction.  A failed turn is taken back by
\* Agent.handle.
FinishTurn(fails) ==
    /\ worker.at = "turn"
    /\ worker' = IF fails /\ front = "plain" THEN NoWorker ELSE [worker EXCEPT !.at = "compact"]
    /\ history' = IF fails THEN Front(history) ELSE history
    /\ shown' = IF pending = "mounted" THEN shown \cup {worker.msg} ELSE shown
    /\ pending' = "no" /\ busy' = FALSE
    /\ UNCHANGED <<front, bsInput, began, wiped, cut>>

\* maybe_compact; it may find nothing to do, or fail.
FinishCompaction ==
    /\ worker.at = "compact"
    /\ worker' = NoWorker
    /\ \/ UNCHANGED history
       \/ Len(history) > 1 /\ history' = <<Summary, Last(history)>>
    /\ UNCHANGED <<front, bsInput, busy, pending, shown, began, wiped, cut>>

BsNext ==
    \/ PressEnter \/ PressEscape \/ OnChanged \/ OnNoMessage \/ OnClear \/ OnQuit \/ Quit
    \/ OnMessage \/ ReadLine \/ BeginTurn \/ FinishCompaction
    \/ \E text \in BsTexts : Type(text)
    \/ \E d \in {-1, 1} : Move(d)
    \/ \E i \in 1..4 : AcceptCommand(i)
    \/ \E fails \in BOOLEAN : FinishTurn(fails)

BsSpec == BsInit /\ [][BsNext]_bsVars

-----------------------------------------------------------------------------
(* Properties *)

\* However messages, commands and keys come in between: a turn is cancelled only
\* by quitting, the busy mark is on just while there is one (else no message
\* would be taken any more), and its answer is shown unless the screen was
\* cleared in the meantime.
TurnsAreAnswered ==
    /\ ~cut
    /\ front # Ended => (busy <=> worker.at \in {"new", "turn"})
    /\ front # Ended =>
          \A m \in 1..began : m \in shown \cup wiped \/ (busy /\ worker.msg = m)

\* A compaction that the next message cancels leaves the history alone: nothing
\* but a summary stands for a message that is gone, and the latest is kept.
HistoryIsWhole ==
    \A i \in DOMAIN history : history[i] = Summary => i = 1 /\ Len(history) > 1

\* When the app has caught up with the box, the popup offers the commands that
\* the text is a prefix of, and one of them is highlighted.
PopupFits ==
    popup # Hidden =>
        /\ popup.at \in DOMAIN popup.cmds
        /\ events = << >> => popup.cmds = BsMatches[box]

BossSound == TurnsAreAnswered /\ HistoryIsWhole /\ PopupFits
=============================================================================
