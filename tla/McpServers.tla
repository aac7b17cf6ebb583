----------------------------- MODULE McpServers -----------------------------
(***************************************************************************)
(* The MCP servers of a process: connect_all at boot, the proxy tools that *)
(* the agents call, close_all at shutdown (mcp/client.py, mcp/proxy_tool.py*)
(* and their use in app.py).  A server may refuse, hang or die at any      *)
(* point; its transport is a child process or an SSE stream.               *)
(***************************************************************************)
EXTENDS Integers, Sequences, SequencesExt

CONSTANTS McServers,       \* mcp.servers, in their order: a sequence of names
          McCalls,         \* proxy calls that may be in flight at once
          McTimeout        \* mcp.tool_timeout_seconds is not 0

McNames == ToSet(McServers)

VARIABLES
    stage,      \* "boot", "up", "closing", "closed"
    next,       \* position in mcp.servers while booting
    link,       \* by server: how far its connection got
    handles,    \* _handles, in order
    closing,    \* the context manager being closed, and since when it hangs
    gone,       \* context managers whose __aexit__ was awaited, in order
    tools,      \* servers whose tools are registered
    dead,       \* servers that answer no more
    inCall      \* by call: the server asked, or NoServer

mcConn == <<next, link, handles, tools>>
mcClose == <<closing, gone>>
mcVars == <<stage, mcConn, mcClose, dead, inCall>>

NoServer == ""
NoCm == [server |-> NoServer, kind |-> "session"]

McInit ==
    /\ stage = "boot" /\ next = 1 /\ link = [s \in McNames |-> "none"]
    /\ handles = << >> /\ closing = NoCm /\ gone = << >> /\ tools = {}
    /\ dead = {} /\ inCall = [c \in McCalls |-> NoServer]

-----------------------------------------------------------------------------
(* connect_all: one server after another, a failure skips the server *)

Booting(s) == stage = "boot" /\ next <= Len(McServers) /\ s = McServers[next]

\* _open_stdio, _open_sse.
OpenTransport(s) ==
    /\ Booting(s) /\ link[s] = "none" /\ s \notin dead
    /\ link' = [link EXCEPT ![s] = "open"]
    /\ UNCHANGED <<stage, next, handles, tools, mcClose, dead, inCall>>

\* Mutant: close_all does not get to know the server.
EnterUnkept(s) == link' = [link EXCEPT ![s] = "entered"] /\ UNCHANGED handles

\* session_cm.__aenter__; from now on close_all knows the server.
EnterKept(s) ==
    /\ link' = [link EXCEPT ![s] = "entered"] /\ handles' = Append(handles, s)

EnterSession(s) ==
    /\ Booting(s) /\ link[s] = "open" /\ EnterKept(s)
    /\ UNCHANGED <<stage, next, tools, mcClose, dead, inCall>>

\* initialize and list_tools.
ListTools(s) ==
    /\ Booting(s) /\ link[s] = "entered" /\ s \notin dead
    /\ link' = [link EXCEPT ![s] = "ready"] /\ tools' = tools \cup {s}
    /\ next' = next + 1 /\ UNCHANGED <<stage, handles, mcClose, dead, inCall>>

\* Anything raised: a warning.  A transport whose session was never entered
\* stays open and nobody will close it.
SkipServer(s) ==
    /\ Booting(s) /\ next' = next + 1
    /\ link' = [link EXCEPT ![s] = IF @ = "open" THEN "leaked"
                                   ELSE IF @ = "entered" THEN "failed" ELSE "none"]
    /\ UNCHANGED <<stage, handles, tools, mcClose, dead, inCall>>

Booted ==
    /\ stage = "boot" /\ next > Len(McServers) /\ stage' = "up"
    /\ UNCHANGED <<mcConn, mcClose, dead, inCall>>

ServerDies(s) ==
    /\ s \notin dead /\ dead' = dead \cup {s}
    /\ UNCHANGED <<stage, mcConn, mcClose, inCall>>

-----------------------------------------------------------------------------
(* McpProxyTool.run; parallel_safe, so calls overlap *)

CallTool(c, s) ==
    /\ stage = "up" /\ inCall[c] = NoServer /\ s \in tools
    /\ inCall' = [inCall EXCEPT ![c] = s] /\ UNCHANGED <<stage, mcConn, mcClose, dead>>

CallOver(c) == inCall' = [inCall EXCEPT ![c] = NoServer]

\* A result, isError or an exception: a text or a ToolError.
CallAnswered(c) ==
    /\ inCall[c] \in McNames \ dead /\ CallOver(c)
    /\ UNCHANGED <<stage, mcConn, mcClose, dead>>

\* wait_for: the request is abandoned, its late answer has no taker.
GivesUpOn(c) == McTimeout /\ CallOver(c)

CallTimesOut(c) ==
    /\ inCall[c] # NoServer /\ GivesUpOn(c) /\ UNCHANGED <<stage, mcConn, mcClose, dead>>

-----------------------------------------------------------------------------
(* close_all, in the finally of the run; turns have been cancelled *)

CloseAll ==
    /\ stage = "up" /\ stage' = "closing"
    /\ inCall' = [c \in McCalls |-> NoServer]
    /\ closing' = IF handles = << >> THEN NoCm ELSE [server |-> Last(handles), kind |-> "session"]
    /\ UNCHANGED <<mcConn, gone, dead>>

Following(cm) ==
    IF cm.kind = "session" THEN [cm EXCEPT !.kind = "transport"]
    ELSE LET i == CHOOSE k \in 1..Len(handles) : handles[k] = cm.server
         IN  IF i = 1 THEN NoCm ELSE [server |-> handles[i - 1], kind |-> "session"]

\* Mutant: __aexit__ is awaited for as long as it takes.
ExitsCleanly(cm) == cm.server \notin dead

\* asyncio.wait comes back when the close is done, raises or has had its five
\* seconds; a close that hangs is abandoned.
ExitsOrAbandoned(cm) == TRUE

CloseCm ==
    /\ stage = "closing" /\ closing # NoCm /\ ExitsOrAbandoned(closing)
    /\ gone' = Append(gone, closing) /\ closing' = Following(closing)
    /\ UNCHANGED <<stage, mcConn, dead, inCall>>

Closed ==
    /\ stage = "closing" /\ closing = NoCm /\ stage' = "closed" /\ handles' = << >>
    /\ UNCHANGED <<next, link, tools, mcClose, dead, inCall>>

McNext ==
    \/ Booted \/ CloseAll \/ CloseCm \/ Closed
    \/ \E s \in McNames : OpenTransport(s) \/ EnterSession(s) \/ ListTools(s)
                          \/ SkipServer(s) \/ ServerDies(s)
    \/ \E c \in McCalls : \/ CallAnswered(c) \/ CallTimesOut(c)
                          \/ \E s \in McNames : CallTool(c, s)

\* Timers and the loop are fair; a server is not.
McSpec == McInit /\ [][McNext]_mcVars
          /\ WF_mcVars(CloseCm) /\ WF_mcVars(Closed)
          /\ \A c \in McCalls : WF_mcVars(CallTimesOut(c))

-----------------------------------------------------------------------------

\* At the end every session that was entered has been closed, and its transport
\* after it, the servers in the reverse of their order, even those whose
\* initialize failed (client.py:58-83, 113-119).
EverythingIsClosed ==
    stage = "closed" =>
        \A s \in McNames : link[s] \in {"entered", "failed", "ready"} =>
            \E i \in 1..Len(gone) - 1 :
                /\ gone[i] = [server |-> s, kind |-> "session"]
                /\ gone[i + 1] = [server |-> s, kind |-> "transport"]
                /\ \A j \in 1..i - 1 : \E k, n \in 1..Len(McServers) :
                      McServers[k] = s /\ McServers[n] = gone[j].server /\ k < n

\* A dead or hanging server holds neither a call nor the shutdown
\* (client.py:14-20, 121-152, proxy_tool.py:120-150).
NothingBlocksOnServers ==
    /\ stage = "closing" ~> stage = "closed"
    /\ \A c \in McCalls : inCall[c] # NoServer ~> inCall[c] = NoServer
=============================================================================
