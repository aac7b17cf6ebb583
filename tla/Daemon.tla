------------------------------- MODULE Daemon -------------------------------
(***************************************************************************)
(* The process: daemon.py (start, --stop and --reload through the pid      *)
(* file) and the lifetime of a daemon in app.py: boot, _run_with_shutdown  *)
(* with its signal handlers and its backstop, and the teardown behind it.  *)
(*                                                                         *)
(* Commands are separate processes; a step of one is what it does between  *)
(* two looks at the pid file or at a process.  A pid is used once.  A      *)
(* daemon may hang wherever it unwinds, closes or talks to MCP servers.    *)
(***************************************************************************)
EXTENDS Integers, FiniteSets

CONSTANTS DmPids, DmCommands,
          DmKind            \* by command: "start", "stop" or "reload"

VARIABLES
    pidFile,    \* NoPid, or what chat_team.pid says
    proc,       \* by pid: where the daemon stands
    armed,      \* daemons whose _force_exit_after_grace timer runs
    command,    \* by command: where it stands
    aim,        \* by command: the pid it works on
    flushed,    \* daemons that ran persistence.flush_all
    raced,      \* ghost: a command began before another was through
    slain       \* ghost: daemons ended by a SIGHUP

dmProc == <<proc, armed, flushed, slain>>
dmVars == <<pidFile, dmProc, command, aim, raced>>

NoPid == "none"

\* "forked" has no pid file yet; "boot" no signal handlers yet; "serve" has
\* them; "unwind" is the cancelled main task; the rest is the finally.
Alive(p) == proc[p] \notin {"unused", "gone"}

DmInit ==
    /\ pidFile = NoPid
    /\ proc = [p \in DmPids |-> "unused"]
    /\ armed = {} /\ flushed = {} /\ slain = {}
    /\ command = [c \in DmCommands |-> "new"]
    /\ aim = [c \in DmCommands |-> NoPid]
    /\ raced = FALSE

Ends(c) == command' = [command EXCEPT ![c] = "done"]
Goes(c, to) == command' = [command EXCEPT ![c] = to]

-----------------------------------------------------------------------------
(* The life of a daemon *)

Steps(p, from, to) == proc[p] = from /\ proc' = [proc EXCEPT ![p] = to]

\* daemonize_and_run in the grandchild.
WritePid(p) ==
    /\ Steps(p, "forked", "boot")
    /\ pidFile' = p
    /\ UNCHANGED <<armed, flushed, slain, command, aim, raced>>

\* _async_main: settings, MCP servers, dispatcher, reloader, rotator; then the
\* signal handlers.  It may fail: atexit removes the pid file.
Boot(p) ==
    /\ Steps(p, "boot", "serve")
    /\ UNCHANGED <<pidFile, armed, flushed, slain, command, aim, raced>>

\* atexit: the pid file goes, whatever pid it has.
Exit(p) ==
    /\ proc[p] \in {"boot", "exit"}
    /\ proc' = [proc EXCEPT ![p] = "gone"]
    /\ pidFile' = NoPid
    /\ UNCHANGED <<armed, flushed, slain, command, aim, raced>>

\* The main task is through: cancelled, or because an adapter or a bridge
\* raised.  The signal handlers are removed.
Unwound(p) ==
    /\ proc[p] \in {"serve", "unwind"}
    /\ proc' = [proc EXCEPT ![p] = "close"]
    /\ UNCHANGED <<pidFile, armed, flushed, slain, command, aim, raced>>

\* Mutant: MCP servers are closed before the sessions are written.
ClosedMcpFirst(p) ==
    /\ \/ Steps(p, "close", "mcp") \/ Steps(p, "mcp", "exit")
    /\ flushed' = IF proc[p] = "mcp" THEN flushed \cup {p} ELSE flushed
    /\ UNCHANGED <<pidFile, armed, slain, command, aim, raced>>

\* The finally: rotator and adapters, then the flush, then the MCP servers.
Closed(p) ==
    /\ \/ Steps(p, "close", "mcp") /\ flushed' = flushed \cup {p}
       \/ Steps(p, "mcp", "exit") /\ UNCHANGED flushed
    /\ UNCHANGED <<pidFile, armed, slain, command, aim, raced>>

\* The backstop ends a main task that has not unwound, without atexit; the
\* finally behind the task is not covered.
ForceExit(p) ==
    /\ p \in armed
    /\ armed' = armed \ {p}
    /\ proc' = IF proc[p] = "unwind" THEN [proc EXCEPT ![p] = "gone"] ELSE proc
    /\ UNCHANGED <<pidFile, flushed, slain, command, aim, raced>>

\* SIGTERM cancels the main task and arms the backstop; without a handler it
\* ends the process there and then.
Terminate(p) ==
    IF proc[p] \in {"serve", "unwind"}
    THEN /\ proc' = [proc EXCEPT ![p] = "unwind"]
         /\ armed' = armed \cup {p}
    ELSE proc' = [proc EXCEPT ![p] = "gone"] /\ UNCHANGED armed

-----------------------------------------------------------------------------
(* chat-team, --stop and --reload *)

Invoked(c, kind) ==
    /\ command[c] = "new" /\ DmKind[c] = kind
    /\ raced' = (raced \/ \/ \E d \in DmCommands : command[d] \notin {"new", "done"}
                          \/ \E p \in DmPids : proc[p] = "forked")

\* Refused when the file names a live process; a stale file is removed.
Start(c) ==
    /\ Invoked(c, "start")
    /\ IF pidFile # NoPid /\ Alive(pidFile)
       THEN Ends(c) /\ UNCHANGED pidFile
       ELSE Goes(c, "fork") /\ pidFile' = NoPid
    /\ UNCHANGED <<aim, dmProc>>

Fork(c) ==
    /\ command[c] = "fork"
    /\ \E p \in DmPids :
          /\ Steps(p, "unused", "forked")
          /\ aim' = [aim EXCEPT ![c] = p]
    /\ Goes(c, "report")
    /\ UNCHANGED <<pidFile, armed, flushed, slain, raced>>

\* _report_startup: it ends by itself, with the daemon up or not.
Report(c) ==
    /\ command[c] = "report" /\ Ends(c)
    /\ UNCHANGED <<pidFile, dmProc, aim, raced>>

\* stop_daemon up to the signal.
Stop(c) ==
    /\ Invoked(c, "stop")
    /\ IF pidFile # NoPid /\ Alive(pidFile)
       THEN /\ Terminate(pidFile)
            /\ Goes(c, "wait") /\ aim' = [aim EXCEPT ![c] = pidFile]
            /\ UNCHANGED pidFile
       ELSE Ends(c) /\ pidFile' = NoPid /\ UNCHANGED <<aim, proc, armed>>
    /\ UNCHANGED <<flushed, slain>>

\* The process it waited for is gone, and so is the pid file, whoever wrote it.
StopSeesEnd(c) ==
    /\ command[c] = "wait" /\ ~Alive(aim[c])
    /\ pidFile' = NoPid /\ Ends(c)
    /\ UNCHANGED <<dmProc, aim, raced>>

\* Mutant: after the timeout the command returns without a SIGKILL.
StopGivesUp(c) ==
    /\ command[c] = "wait" /\ Alive(aim[c])
    /\ Ends(c)
    /\ UNCHANGED <<pidFile, dmProc, aim, raced>>

\* No end in time: SIGKILL.
StopKills(c) ==
    /\ command[c] = "wait" /\ Alive(aim[c])
    /\ proc' = [proc EXCEPT ![aim[c]] = "gone"]
    /\ pidFile' = NoPid /\ Ends(c)
    /\ UNCHANGED <<armed, flushed, slain, aim, raced>>

\* reload_daemon: SIGHUP has its handler while the daemon serves and until its
\* main task has unwound; at any other time it ends the process.  (What the
\* handler does is module Reload.)
ReloadCommand(c) ==
    /\ Invoked(c, "reload") /\ Ends(c)
    /\ IF pidFile = NoPid THEN UNCHANGED <<pidFile, proc, slain>>
       ELSE IF ~Alive(pidFile) THEN pidFile' = NoPid /\ UNCHANGED <<proc, slain>>
       ELSE /\ proc' = IF proc[pidFile] \in {"serve", "unwind"} THEN proc
                       ELSE [proc EXCEPT ![pidFile] = "gone"]
            /\ slain' = IF proc' = proc THEN slain ELSE slain \cup {pidFile}
            /\ UNCHANGED pidFile
    /\ UNCHANGED <<armed, flushed, aim>>

\* systemd or the terminal sends SIGTERM or SIGINT.
SignalFromOutside(p) ==
    /\ Alive(p) /\ Terminate(p)
    /\ UNCHANGED <<pidFile, flushed, slain, command, aim, raced>>

DmDone(p) == ForceExit(p) \/ Exit(p)
CommandStep(c) == Fork(c) \/ Report(c) \/ StopSeesEnd(c) \/ StopKills(c)

DmNext ==
    \/ \E p \in DmPids :
          WritePid(p) \/ Boot(p) \/ Unwound(p) \/ Closed(p) \/ DmDone(p) \/ SignalFromOutside(p)
    \/ \E c \in DmCommands : Start(c) \/ Stop(c) \/ ReloadCommand(c) \/ CommandStep(c)

\* Commands go on and timers fire; that a daemon unwinds or closes is not
\* assumed, for it may hang there.
DmFairness ==
    /\ \A p \in DmPids : WF_dmVars(DmDone(p))
    /\ \A c \in DmCommands : WF_dmVars(CommandStep(c))

DmSpec == DmInit /\ [][DmNext]_dmVars /\ DmFairness

-----------------------------------------------------------------------------
(* Properties *)

\* As long as no command is begun before the one before it is through, with
\* its daemon's pid written: at most one daemon lives, and the pid file finds it.
OneDaemon ==
    ~raced =>
        /\ Cardinality({p \in DmPids : Alive(p)}) <= 1
        /\ \A p \in DmPids : Alive(p) /\ proc[p] # "forked" => pidFile = p

\* However the process is stopped, and however often: if it came to close its
\* MCP servers, which may hang until it is killed, its sessions are on disk.
FlushBeforeHang == \A p \in DmPids : proc[p] \in {"mcp", "exit"} => p \in flushed

\* --stop ends the daemon it found, even one that hangs in its teardown.
StopStops ==
    \A c \in {d \in DmCommands : DmKind[d] = "stop"} : \A p \in DmPids :
        (command[c] = "wait" /\ aim[c] = p) ~> ~Alive(p)

\* Claimed of --reload ("the bot keeps serving without restart"): it never ends
\* the daemon.
ReloadNeverKills == slain = {}
=============================================================================
