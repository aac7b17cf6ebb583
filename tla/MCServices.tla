----------------------------- MODULE MCServices -----------------------------
(* Instances for TLC of the parts that wait for others: for the LLM and its  *)
(* stream, for the processes of commands, for MCP servers; and of the daemon *)
(* that commands start, reload and stop.  They share no state, so their runs *)
(* are one run: part says which of them is checked, and the others stay as   *)
(* they began.                                                               *)
EXTENDS LlmCall, Sequences

CONSTANTS LsMaxText, LsCalls, LsMaxArgs, LsMinWindow, LsCheckStep, LsMaxAttempts,
          WsRuns, WsChunks, WsVersions,
          McServers, McCalls, McTimeout,
          DmPids, DmCommands, DmKind

\* A check is due after some text, and a window holds some (llm/repetition.py:21-26).
ASSUME StreamAssumption == LsMinWindow \in Nat \ {0} /\ LsCheckStep \in Nat \ {0}

VARIABLES
    part,
    streaming, content, calls, checked, preview, result, lsAttempt, sent, mode, loopAt,
    disk, wsCall, procs, pipe, logs, started, stops, left, clobbered, written,
    stage, next, link, handles, closing, gone, tools, dead, inCall,
    pidFile, proc, armed, command, aim, flushed, raced, slain

-----------------------------------------------------------------------------
(* The parts *)

Stream == INSTANCE LlmStream WITH attempt <- lsAttempt

Tools == INSTANCE Workspace WITH call <- wsCall

ThreeServers == <<"x", "y", "z">>
Mcp == INSTANCE McpServers

\* Two daemons may be started, stopped and reloaded by four commands.
KindOf == [a |-> "start", b |-> "start", c |-> "stop", d |-> "reload"]
Process == INSTANCE Daemon

ASSUME CommandsAssumption == WsRuns \in Nat

\* mcp.servers is a mapping, and a name has a character (config.py:414, mcp/config.py:30).
ASSUME ServersAssumption ==
    /\ \A i, j \in DOMAIN McServers : McServers[i] = McServers[j] => i = j
    /\ McServers \in Seq({McServers[i] : i \in DOMAIN McServers})
    /\ \A i \in DOMAIN McServers : McServers[i] # Mcp!NoServer

\* A pid is not the word for no pid.
ASSUME DaemonAssumption == Process!NoPid \notin DmPids

-----------------------------------------------------------------------------
(* Their behaviours *)

lsAll == <<streaming, content, calls, checked, preview, result, lsAttempt, sent, mode, loopAt>>
wsAll == <<disk, wsCall, procs, pipe, logs, started, stops, left, clobbered, written>>
mcAll == <<stage, next, link, handles, closing, gone, tools, dead, inCall>>
dmAll == <<pidFile, proc, armed, command, aim, flushed, raced, slain>>
SvVars == <<part, vars, lsAll, wsAll, mcAll, dmAll>>

SvInit ==
    /\ part \in {"llm", "stream", "tools", "mcp", "daemon"}
    /\ Init /\ Stream!LsInit /\ Tools!WsInit /\ Mcp!McInit /\ Process!DmInit
    /\ part # "llm" => maxRetries = 1
    /\ part # "stream" => streaming

SvNext ==
    /\ UNCHANGED part
    /\ \/ /\ part = "llm" /\ Next
          /\ UNCHANGED <<lsAll, wsAll, mcAll, dmAll>>
       \/ /\ part = "stream" /\ Stream!LsNext
          /\ UNCHANGED <<vars, wsAll, mcAll, dmAll>>
       \/ /\ part = "tools" /\ Tools!WsNext
          /\ UNCHANGED <<vars, lsAll, mcAll, dmAll>>
       \/ /\ part = "mcp" /\ Mcp!McNext
          /\ UNCHANGED <<vars, lsAll, wsAll, dmAll>>
       \/ /\ part = "daemon" /\ Process!DmNext
          /\ UNCHANGED <<vars, lsAll, wsAll, mcAll>>

\* The fairness of LlmCall, Workspace, McpServers and Daemon, each while it is
\* checked.
SvFairness ==
    /\ \A c \in Callers : WF_vars(part = "llm" /\ Ends(c))
    /\ WF_wsAll(part = "tools" /\ Tools!CommandEnds)
    /\ WF_wsAll(part = "tools" /\ Tools!TimesOut)
    /\ WF_wsAll(part = "tools" /\ Tools!Escalates)
    /\ WF_mcAll(part = "mcp" /\ Mcp!CloseCm)
    /\ WF_mcAll(part = "mcp" /\ Mcp!Closed)
    /\ \A c \in McCalls : WF_mcAll(part = "mcp" /\ Mcp!CallTimesOut(c))
    /\ \A p \in DmPids : WF_dmAll(part = "daemon" /\ Process!DmDone(p))
    /\ \A c \in DmCommands : WF_dmAll(part = "daemon" /\ Process!CommandStep(c))

SvSpec == SvInit /\ [][SvNext]_SvVars /\ SvFairness

-----------------------------------------------------------------------------
(* The properties of each part, as its module states them *)

\* What an answer is put together from, and what a retry leaves behind.
CompletionsSound == Stream!CompletionsSound

\* Commands and their processes, the files they leave and their transcripts.
CommandsAccounted == Tools!CommandsAccounted

\* MCP servers are closed, in order, whatever became of them.
ServersClosed == Mcp!EverythingIsClosed

\* The pid file and the last flush.
DaemonSound == Process!OneDaemon /\ Process!FlushBeforeHang

\* Nobody waits for good: not for the LLM, nor for a command, for an MCP server,
\* or for a daemon that was told to stop.
WaitsEnd ==
    CallEnds /\ Tools!CommandReturns /\ Mcp!NothingBlocksOnServers /\ Process!StopStops
=============================================================================
