------------------------------ MODULE Workspace -----------------------------
(***************************************************************************)
(* A session's working directory under the agent's tools: the file tools   *)
(* (agent/tools/file_tools.py) and run_command (agent/tools/shell_tool.py) *)
(* with the processes it starts.  Tools of a turn run one after another;   *)
(* /stop cancels the turn at any await.  A command's processes write files *)
(* whenever they like, between the read and the write of edit_file too;    *)
(* they may leave the process group, and they may redirect their output,   *)
(* and then the call does not wait for them.                               *)
(***************************************************************************)
EXTENDS Integers, FiniteSets

CONSTANTS WsRuns,          \* bound on run_command calls
          WsChunks,        \* bound on the output of a command, in reads of its pipe
          WsVersions       \* bound on the versions a file goes through

VARIABLES
    disk,       \* the file: its version, 0 when there is none
    call,       \* the tool call that is running
    procs,      \* by run: the kinds of processes of it that live
    pipe,       \* by run: chunks written, and chunks the reader has collected
    logs,       \* by run: chunks in .chat_team/runs/<ts>.log, NoLog before
    started,    \* commands started
    stops,      \* ghost: runs whose call was cancelled while its processes lived
    left,       \* ghost: runs whose call returned while processes lived
    clobbered,  \* ghost: a version was replaced by a tool that had not seen it
    written     \* versions written so far

wsFiles == <<disk, clobbered, written>>
wsVars == <<wsFiles, call, procs, pipe, logs, started, stops, left>>

Runs == 1..WsRuns
NoLog == -1
NoCall == [tool |-> "none", run |-> 0, saw |-> 0]

\* bash and its descendants: those attached to its process group and to the pipe,
\* as bash is (communicate waits for bash itself, wherever it prints to); those
\* that have redirected their output; those that have left the group (setsid);
\* and those that have done both.
Group   == {"attached", "quiet"}
Holders == {"attached", "away"}
Kinds   == Group \cup Holders \cup {"silent"}

WsInit ==
    /\ disk = 0 /\ written = 0 /\ call = NoCall /\ started = 0
    /\ procs = [n \in Runs |-> {}] /\ logs = [n \in Runs |-> NoLog]
    /\ pipe = [n \in Runs |-> [wrote |-> 0, got |-> 0]]
    /\ stops = {} /\ left = {} /\ clobbered = FALSE

Alive(n) == procs[n] # {}
Open(n) == procs[n] \cap Holders # {}
Free == call = NoCall

-----------------------------------------------------------------------------
(* file_tools.py.  A path is plain, leads outside, or is .chat_team's own. *)

PathKinds == {"plain", "outside", "internal"}
ResolveUnder(kind) == kind = "plain"

\* read_file, list_dir, glob and grep change nothing.
ReadFile(kind) == ResolveUnder(kind) /\ disk # 0

\* Some version of the file has been written.
Written(by) ==
    /\ written < WsVersions /\ written' = written + 1 /\ disk' = written + 1
    /\ by

\* write_file: validated before the atomic replace.
WriteFile(kind, tooLarge) ==
    /\ Free /\ ResolveUnder(kind) /\ ~tooLarge
    /\ Written(UNCHANGED clobbered) /\ UNCHANGED <<call, procs, pipe, logs, started, stops, left>>

\* edit_file reads, and in the same step of the event loop writes what it made
\* of that: none of its refusals writes anything.
EditReads(kind) ==
    /\ Free /\ ReadFile(kind) /\ call' = [tool |-> "edit", run |-> 0, saw |-> disk]
    /\ UNCHANGED <<wsFiles, procs, pipe, logs, started, stops, left>>

EditWrites(matches, replaceAll, tooLarge) ==
    /\ call.tool = "edit" /\ call' = NoCall
    /\ \/ /\ (matches = 1 \/ (matches > 1 /\ replaceAll)) /\ ~tooLarge
          /\ Written(clobbered' = (clobbered \/ disk # call.saw))
       \/ /\ (matches = 0 \/ (matches > 1 /\ ~replaceAll) \/ tooLarge)
          /\ UNCHANGED wsFiles
    /\ UNCHANGED <<procs, pipe, logs, started, stops, left>>

-----------------------------------------------------------------------------
(* run_command *)

\* A new session, and so a process group of its own: bash and its children.
StartCommand ==
    /\ Free /\ started < WsRuns /\ started' = started + 1
    /\ procs' = [procs EXCEPT ![started + 1] = {"attached"}]
    /\ call' = [tool |-> "communicate", run |-> started + 1, saw |-> 0]
    /\ UNCHANGED <<wsFiles, pipe, logs, stops, left>>

Waiting == call.tool \in {"communicate", "terminated", "killed"}

\* communicate returns when bash has exited and everyone has closed the pipe;
\* the log is written.
CommandEnds ==
    /\ Waiting /\ ~Open(call.run)
    /\ logs' = [logs EXCEPT ![call.run] = pipe[call.run].got] /\ call' = NoCall
    /\ left' = IF Alive(call.run) THEN left \cup {call.run} ELSE left
    /\ UNCHANGED <<wsFiles, procs, pipe, started, stops>>

\* Mutant: proc.terminate and proc.kill, which signal bash and not its children.
SignalBash(n, sig) ==
    \E dead \in SUBSET {"attached"} : procs' = [procs EXCEPT ![n] = @ \ dead]

\* os.killpg: SIGTERM is heeded or not.
Signal(n, sig) ==
    \E dead \in SUBSET Group :
        /\ sig = "KILL" => dead = Group
        /\ procs' = [procs EXCEPT ![n] = @ \ dead]

\* wait_for gives up: the cancelled communicate takes what it had collected
\* with it; then SIGTERM, and communicate anew.
TimesOut ==
    /\ call.tool = "communicate" /\ Open(call.run) /\ Signal(call.run, "TERM")
    /\ pipe' = [pipe EXCEPT ![call.run].got = 0] /\ call' = [call EXCEPT !.tool = "terminated"]
    /\ UNCHANGED <<wsFiles, logs, started, stops, left>>

\* Two seconds on: SIGKILL, and a communicate without a limit.
Escalates ==
    /\ call.tool = "terminated" /\ Open(call.run) /\ Signal(call.run, "KILL")
    /\ pipe' = [pipe EXCEPT ![call.run].got = 0] /\ call' = [call EXCEPT !.tool = "killed"]
    /\ UNCHANGED <<wsFiles, logs, started, stops, left>>

\* /stop: the CancelledError passes every handler, no process hears of it.
StopCancels ==
    /\ Waiting /\ call' = NoCall
    /\ stops' = IF Alive(call.run) THEN stops \cup {call.run} ELSE stops
    /\ UNCHANGED <<wsFiles, procs, pipe, logs, started, left>>

-----------------------------------------------------------------------------
(* The processes *)

ProcessWrites(n) ==
    /\ Alive(n) /\ Written(UNCHANGED clobbered)
    /\ UNCHANGED <<call, procs, pipe, logs, started, stops, left>>

ProcessPrints(n) ==
    /\ Open(n) /\ pipe[n].wrote < WsChunks
    /\ pipe' = [pipe EXCEPT ![n] =
          [wrote |-> @.wrote + 1,
           got |-> IF Waiting /\ call.run = n THEN @.got + 1 ELSE @.got]]
    /\ UNCHANGED <<wsFiles, call, procs, logs, started, stops, left>>

\* A descendant is in the group, and has the pipe, only if its parent does.
ProcessForks(n, kind) ==
    /\ kind \in Kinds /\ kind \notin procs[n]
    /\ \E parent \in procs[n] : /\ kind \in Group => parent \in Group
                                /\ kind \in Holders => parent \in Holders
    /\ procs' = [procs EXCEPT ![n] = @ \cup {kind}]
    /\ UNCHANGED <<wsFiles, call, pipe, logs, started, stops, left>>

ProcessExits(n, kind) ==
    /\ kind \in procs[n] /\ procs' = [procs EXCEPT ![n] = @ \ {kind}]
    /\ UNCHANGED <<wsFiles, call, pipe, logs, started, stops, left>>

-----------------------------------------------------------------------------

WsNext ==
    \/ \E kind \in PathKinds, tooLarge \in BOOLEAN : WriteFile(kind, tooLarge)
    \/ \E kind \in PathKinds : EditReads(kind)
    \/ \E matches \in 0..2, replaceAll, tooLarge \in BOOLEAN :
          EditWrites(matches, replaceAll, tooLarge)
    \/ StartCommand \/ CommandEnds \/ TimesOut \/ Escalates \/ StopCancels
    \/ \E n \in Runs : \/ ProcessWrites(n) \/ ProcessPrints(n)
                       \/ \E kind \in Kinds : ProcessForks(n, kind) \/ ProcessExits(n, kind)

\* The timers and the event loop are fair; a process owes nothing to anyone.
WsSpec == WsInit /\ [][WsNext]_wsVars
          /\ WF_wsVars(CommandEnds) /\ WF_wsVars(TimesOut) /\ WF_wsVars(Escalates)

-----------------------------------------------------------------------------

\* Who outlives the call that started it, other than by a /stop that cancelled
\* it, has redirected its output, and has left the group too if SIGKILL was
\* needed; and the tools overwrite a change they have not seen only once a call
\* has left processes behind (shell_tool.py:63-88, 152-166,
\* file_tools.py:185-210).
ProcessesAccounted ==
    /\ \A n \in Runs : Open(n) => call.run = n \/ n \in stops
    /\ call.tool = "killed" => procs[call.run] \cap Group = {}
    /\ clobbered => stops \cup left # {}

\* The call returns: no command, whatever signals it ignores, holds the turn
\* past its timeout, unless a process has left the group with the pipe open.
CommandReturns ==
    \A n \in Runs :
        [](Waiting /\ call.run = n => <>(call.run # n \/ "away" \in procs[n]))

\* The transcript of a command that ended within its timeout holds everything
\* that its processes have printed, in the group or out of it; one that was
\* killed has lost what came before the signals.
TranscriptIsWhole ==
    \A n \in Runs : logs'[n] # logs[n] =>
        /\ logs'[n] <= pipe[n].wrote
        /\ call.tool = "communicate" => logs'[n] = pipe[n].wrote

\* Every step of the tools and of the processes keeps to both
\* (shell_tool.py:63-88, 152-183).
CommandsAccounted == [][ProcessesAccounted' /\ TranscriptIsWhole]_wsVars
=============================================================================
