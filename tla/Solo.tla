-------------------------------- MODULE Solo --------------------------------
(***************************************************************************)
(* Solo mode (_run_solo of app.py): one process with several bots, each    *)
(* pinned to one role, with sessions of its own.  What they share is the   *)
(* PersistenceManager, whose pending flushes go by session id, and the     *)
(* workspace, which goes by session id too: two bots of one group have one *)
(* session id, and a file each, named after the role.                      *)
(*                                                                         *)
(* A history is the set of the turns in it.  A turn and its post-turn step *)
(* are one step here, and so is a write; SessionStore takes them apart.    *)
(***************************************************************************)
EXTENDS Integers, Sequences

CONSTANTS SoBots, SoSids,
          SoRoles,       \* names that RoleRegistry has
          SoMaxTurns     \* bound

VARIABLES
    roleOf,     \* by bot: its name in config.yaml
    phase,      \* of the process
    mcp,        \* MCP servers are connected
    mem,        \* by bot and session id: whether it is in memory, the history of
                \* its agent, and the restored one that no agent has adopted
    disk,       \* by role and session id: the history in the file
    pending,    \* _pending, by session id: the flush that waits, if any
    by,         \* ghost, by turn: the bot and the session id
    owed,       \* ghost, by bot and session id: turns done when the end began
    erased      \* ghost: turns restored and never adopted, whose file a flush wrote

soFiles == <<disk, pending>>
soVars == <<roleOf, phase, mcp, mem, soFiles, by, owed, erased>>

Unknown == "unknown"
NoFlush == [role |-> "", has |-> {}]
Out == [on |-> FALSE, has |-> {}, kept |-> {}]
Live == phase \in {"serving", "closing", "flushed"}
Nothing == [b \in SoBots |-> [s \in SoSids |-> {}]]

\* _build_bots leaves out bots without an id or a secret, and takes any name.
BotNames == SoRoles \cup {Unknown}

\* mcp_manager.connect_all has been called before.
SoInit ==
    /\ roleOf \in [SoBots -> BotNames]
    /\ phase = "boot" /\ mcp = TRUE
    /\ mem = [b \in SoBots |-> [s \in SoSids |-> Out]]
    /\ disk = [r \in SoRoles |-> [s \in SoSids |-> {}]]
    /\ pending = [s \in SoSids |-> NoFlush]
    /\ by = << >> /\ owed = Nothing /\ erased = {}

\* The first bot of an unknown role raises, before the try whose finally closes
\* the MCP servers.
Boot ==
    /\ phase = "boot"
    /\ phase' = IF \E b \in SoBots : roleOf[b] = Unknown THEN "failed" ELSE "serving"
    /\ UNCHANGED <<roleOf, mcp, mem, soFiles, by, owed, erased>>

-----------------------------------------------------------------------------
(* Sessions.  When the end has begun no messages come in, but the workers go *)
(* on with those that have.                                                  *)

\* get_or_create, of the bot's own SessionManager: what the file has is kept in
\* restored_histories until a turn has an agent made (_agent_for).
GetOrCreate(b, s) ==
    /\ Live /\ ~mem[b][s].on
    /\ mem' = [mem EXCEPT ![b][s] = [on |-> TRUE, has |-> {}, kept |-> disk[roleOf[b]][s]]]
    /\ UNCHANGED <<roleOf, phase, mcp, soFiles, by, owed, erased>>

\* PersistenceManager.schedule: whatever waits for this session id is cancelled.
Schedule(b, s, history) ==
    pending' = [pending EXCEPT ![s] = [role |-> roleOf[b], has |-> history]]

Turn(b, s) ==
    /\ Live /\ mem[b][s].on /\ Len(by) < SoMaxTurns
    /\ by' = Append(by, [bot |-> b, sid |-> s])
    /\ mem' = [mem EXCEPT ![b][s] =
                 [on |-> TRUE, has |-> @.has \cup @.kept \cup {Len(by')}, kept |-> {}]]
    /\ Schedule(b, s, mem'[b][s].has)
    /\ UNCHANGED <<roleOf, phase, mcp, disk, owed, erased>>

\* _delayed_flush.
FlushDue(s) ==
    /\ Live /\ pending[s] # NoFlush
    /\ disk' = [disk EXCEPT ![pending[s].role][s] = pending[s].has]
    /\ pending' = [pending EXCEPT ![s] = NoFlush]
    /\ UNCHANGED <<roleOf, phase, mcp, mem, by, owed, erased>>

\* _evict_if_needed, with flush_now: like every flush it writes what agents have.
Evict(b, s) ==
    /\ Live /\ mem[b][s].on
    /\ disk' = [disk EXCEPT ![roleOf[b]][s] = mem[b][s].has]
    /\ mem' = [mem EXCEPT ![b][s] = Out]
    /\ erased' = erased \cup mem[b][s].kept
    /\ UNCHANGED <<roleOf, phase, mcp, pending, by, owed>>

\* /new to one bot: reset_session_history drops what waits for the session id.
Reset(b, s) ==
    /\ phase = "serving" /\ mem[b][s].on
    /\ mem' = [mem EXCEPT ![b][s] = [on |-> TRUE, has |-> {}, kept |-> {}]]
    /\ disk' = [disk EXCEPT ![roleOf[b]][s] = {}]
    /\ pending' = [pending EXCEPT ![s] = NoFlush]
    /\ UNCHANGED <<roleOf, phase, mcp, by, owed, erased>>

-----------------------------------------------------------------------------
(* The end: a signal cancels the gathered run_forever of all bots, whose     *)
(* sockets are closed.                                                       *)

Done(b, s) == IF mem[b][s].on THEN mem[b][s].has \cup mem[b][s].kept ELSE disk[roleOf[b]][s]

ShutDown ==
    /\ phase = "serving" /\ phase' = "closing"
    /\ owed' = [b \in SoBots |-> [s \in SoSids |-> Done(b, s)]]
    /\ UNCHANGED <<roleOf, mcp, mem, soFiles, by, erased>>

Holders(r, s) == {b \in SoBots : roleOf[b] = r /\ mem[b][s].on}

\* Mutant: the flushes that wait are made at once, and no others.
FlushWaiting ==
    /\ disk' = [r \in SoRoles |-> [s \in SoSids |->
                  IF pending[s].role = r THEN pending[s].has ELSE disk[r][s]]]
    /\ UNCHANGED erased

\* The sessions in memory of all bots; the last bot of a role has the file.
FlushSessions ==
    /\ erased' = erased \cup UNION {mem[b][s].kept : b \in SoBots, s \in SoSids}
    /\ \E last \in [SoRoles -> SoBots] :
       /\ \A r \in SoRoles, s \in SoSids : Holders(r, s) # {} => last[r] \in Holders(r, s)
       /\ disk' = [r \in SoRoles |-> [s \in SoSids |->
                     IF Holders(r, s) = {} THEN disk[r][s] ELSE mem[last[r]][s].has]]

FlushAll ==
    /\ phase = "closing" /\ phase' = "flushed"
    /\ FlushSessions
    /\ pending' = [s \in SoSids |-> NoFlush]
    /\ UNCHANGED <<roleOf, mcp, mem, by, owed>>

CloseServers ==
    /\ phase = "flushed" /\ phase' = "ended" /\ mcp' = FALSE
    /\ UNCHANGED <<roleOf, mem, soFiles, by, owed, erased>>

\* The process is killed, or ends by force.
Killed ==
    /\ Live /\ phase' = "killed"
    /\ UNCHANGED <<roleOf, mcp, mem, soFiles, by, owed, erased>>

SoNext ==
    \/ Boot \/ ShutDown \/ FlushAll \/ CloseServers \/ Killed
    \/ \E s \in SoSids :
          \/ FlushDue(s)
          \/ \E b \in SoBots : GetOrCreate(b, s) \/ Turn(b, s) \/ Evict(b, s) \/ Reset(b, s)

SoSpec == SoInit /\ [][SoNext]_soVars

-----------------------------------------------------------------------------
(* Properties *)

RolesDiffer == \A b, c \in SoBots : roleOf[b] = roleOf[c] => b = c

\* Bots of different roles that share a group keep their histories apart, on
\* disk and in memory, although they share the directory and the flushes.
HistoriesApart ==
    RolesDiffer =>
        \A b \in SoBots, s \in SoSids :
            \A n \in mem[b][s].has \cup mem[b][s].kept
                       \cup (IF roleOf[b] = Unknown THEN {} ELSE disk[roleOf[b]][s]) :
                by[n] = [bot |-> b, sid |-> s]

\* Every turn that was complete when the end began is on disk after it, also one
\* whose flush had been cancelled for another bot's: but for turns that a session
\* read from its file and that were in no agent's history when it was flushed.
QuitKeepsTurns ==
    RolesDiffer /\ phase = "ended" =>
        \A b \in SoBots, s \in SoSids : owed[b][s] \subseteq disk[roleOf[b]][s] \cup erased

SoloSound == HistoriesApart /\ QuitKeepsTurns

\* "One pending debounced flush per session" (persistence.py:144): the turns that
\* a bot has in memory and no flush will write are on disk.
NothingUnscheduled ==
    RolesDiffer /\ Live =>
        \A b \in SoBots, s \in SoSids :
            mem[b][s].on /\ pending[s] = NoFlush => mem[b][s].has \subseteq disk[roleOf[b]][s]
=============================================================================
