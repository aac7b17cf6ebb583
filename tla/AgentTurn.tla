----------------------------- MODULE AgentTurn ------------------------------
(***************************************************************************)
(* The turn of a session: dispatcher.py's transfer loop (_run_turn) over   *)
(* the tool loop of the agents (agent/agent.py, Agent.handle).             *)
(*                                                                         *)
(* The LLM and the tools are the environment: a completion is a final      *)
(* answer or a batch of tool calls, a call succeeds, raises a ToolError or *)
(* another exception, or (transfer_to_employee) a TransferRequested.  The  *)
(* turn runs under session.lock, so nothing else touches these variables;  *)
(* what makes it hard is that it may be cut short at every await, by /stop,*)
(* a failing LLM call, a circuit breaker, the loop cap or a transfer, and  *)
(* that every cut must leave histories that the next turn can be built on. *)
(*                                                                         *)
(* A call is represented by its signature, i.e. tool and arguments.  The   *)
(* notebook revision an agent has seen and the request kept for compaction *)
(* are rolled back like the notes and not modelled here.                   *)
(***************************************************************************)
EXTENDS Integers, Sequences, FiniteSets

CONSTANTS Roles, DefaultRole,
          ParallelCalls,     \* calls of tools with parallel_safe = True
          SerialCalls,       \* calls of other tools, transfer_to_employee apart
          TransferCall,      \* a call of transfer_to_employee
          ErrorThreshold,    \* REPEATED_ERROR_BREAK_THRESHOLD
          SuccessThreshold,  \* repeated_success_break_threshold
          MaxLoops,          \* max_tool_loops_per_turn
          TransferCap,       \* per_turn_transfer_cap
          Batches,           \* sequences of calls that a completion may hold
          MaxTurns           \* bound on the turns, for model checking

Calls == ParallelCalls \cup SerialCalls \cup {TransferCall}

ASSUME TurnAssumption ==
    /\ DefaultRole \in Roles
    /\ ParallelCalls \cap SerialCalls = {}
    /\ TransferCall \notin ParallelCalls \cup SerialCalls
    /\ ErrorThreshold \in Nat \ {0} /\ SuccessThreshold \in Nat \ {0}
    /\ MaxLoops \in Nat \ {0}
    /\ TransferCap \in Nat \ {0}
    /\ Batches \subseteq Seq(Calls) \ {<<>>}
    /\ MaxTurns \in Nat

VARIABLES
    history, notes,    \* agent.history and agent.pending_context_notes, by role
    cur, transfers,    \* session.current_role, transfer_count_this_turn
    pc,                \* where the turn is suspended
    forced,            \* the agent has been asked again by the system
    target,            \* of the transfer under way
    calls, next,       \* the batch of tool calls, the first one not done
    tripped,           \* fallback_reply of a parallel batch is set
    loops, errs, oks,  \* loop_idx and the repeated_..._counts
    preLen, preNotes,  \* pre_turn_len, pre_pending_context_notes
    turns, issued      \* ghosts: turns begun, notes queued

agentVars  == <<history, notes>>
sessVars   == <<cur, transfers>>
batchVars  == <<calls, next, tripped>>
countVars  == <<loops, errs, oks>>
preVars    == <<preLen, preNotes>>
vars == <<agentVars, sessVars, pc, forced, target, batchVars, countVars, preVars,
          turns, issued>>

PCs == {"idle",
        "prepare",   \* awaiting apply_vision_strategy
        "complete",  \* awaiting llm.complete
        "serial",    \* awaiting one tool
        "gather",    \* awaiting all tools of a parallel batch
        "collect",   \* appending their results: no await in this loop
        "handoff"}   \* awaiting the status message of a transfer

Message == [role : {"user"}, notes : Seq(Nat)]       \* with the notes it carries
           \cup [role : {"assistant"}, calls : Seq(Calls)]
           \cup [role : {"tool"}, call : Nat]         \* answers the call-th call

User(ns)      == [role |-> "user", notes |-> ns]
Assistant(cs) == [role |-> "assistant", calls |-> cs]
Tool(k)       == [role |-> "tool", call |-> k]
Answer        == Assistant(<<>>)

TypeOK ==
    /\ history \in [Roles -> Seq(Message)]
    /\ notes \in [Roles -> Seq(Nat)]
    /\ cur \in Roles /\ transfers \in Nat
    /\ pc \in PCs
    /\ forced \in BOOLEAN
    /\ target \in Roles
    /\ calls \in Seq(Calls) /\ next \in Nat \ {0}
    /\ tripped \in BOOLEAN
    /\ loops \in Nat
    /\ errs \in [Calls -> Nat] /\ oks \in [Calls -> Nat]
    /\ preLen \in Nat /\ preNotes \in Seq(Nat)
    /\ turns \in Nat /\ issued \in Nat

\* The counts of a turn before its first call.
Zero == [c \in Calls |-> 0]

Init ==
    /\ history = [r \in Roles |-> <<>>] /\ notes = [r \in Roles |-> <<>>]
    /\ cur = DefaultRole /\ transfers = 0
    /\ pc = "idle" /\ forced = FALSE /\ target = DefaultRole
    /\ calls = <<>> /\ next = 1 /\ tripped = FALSE
    /\ loops = 0 /\ errs = Zero /\ oks = Zero
    /\ preLen = 0 /\ preNotes = <<>>
    /\ turns = 0 /\ issued = 0

-----------------------------------------------------------------------------
(* Helpers *)

\* self.history.append, for a sequence of messages
Record(ms) == history' = [history EXCEPT ![cur] = @ \o ms]

\* _handle_locked's finally: the turn is over.  (The fields that the next call
\* of handle overwrites are cleared here.)
TurnOver ==
    /\ pc' = "idle"
    /\ forced' = FALSE /\ target' = cur /\ transfers' = 0
    /\ calls' = <<>> /\ next' = 1 /\ tripped' = FALSE
    /\ loops' = 0 /\ errs' = Zero /\ oks' = Zero
    /\ preLen' = 0 /\ preNotes' = <<>>
    /\ UNCHANGED <<cur, turns, issued>>

\* All calls of a batch are of tools with parallel_safe = True.
AllParallel(cs) == \A k \in DOMAIN cs : cs[k] \in ParallelCalls

\* The head of Agent.handle, for an agent with history h and notes ns.
EnterHandle(h, ns) ==
    /\ preLen' = Len(h)
    /\ preNotes' = ns
    /\ history' = [history EXCEPT ![cur] = Append(h, User(ns))]
    /\ notes' = [notes EXCEPT ![cur] = <<>>]
    /\ calls' = <<>> /\ next' = 1 /\ tripped' = FALSE
    /\ loops' = 0 /\ errs' = Zero /\ oks' = Zero
    /\ pc' = "complete"

\* After a call that is not the last: the next one; after the last: the LLM.
NextCall ==
    IF next = Len(calls)
    THEN pc' = "complete" /\ next' = 1 /\ calls' = <<>>
    ELSE next' = next + 1 /\ UNCHANGED <<pc, calls>>

-----------------------------------------------------------------------------
(* The dispatcher *)

\* A message has come and the lock is taken: the agent of the current role is
\* materialised and the vision strategy applied.
StartTurn ==
    /\ pc = "idle" /\ turns < MaxTurns
    /\ turns' = turns + 1
    /\ pc' = "prepare"
    /\ UNCHANGED <<agentVars, sessVars, forced, target, batchVars, countVars,
                   preVars, issued>>

CallAgent ==
    /\ pc = "prepare"
    /\ EnterHandle(history[cur], notes[cur])
    /\ UNCHANGED <<sessVars, forced, target, turns, issued>>

\* The status message is out: the note is queued with the agent of the target,
\* who gets the same user content.
SwitchRole ==
    /\ pc = "handoff"
    /\ cur' = target
    /\ notes' = [notes EXCEPT ![target] = Append(@, issued + 1)]
    /\ issued' = issued + 1
    /\ pc' = "prepare"
    /\ UNCHANGED <<history, transfers, forced, target, batchVars, countVars,
                   preVars, turns>>

-----------------------------------------------------------------------------
(* The tool loop *)

\* A completion without tool calls ends the turn.
FinalAnswer ==
    /\ pc = "complete" /\ loops < MaxLoops
    /\ Record(<<Answer>>)
    /\ TurnOver
    /\ UNCHANGED notes

\* A completion with tool calls: in parallel if all of them allow it.
ToolCalls ==
    /\ pc = "complete" /\ loops < MaxLoops
    /\ \E b \in Batches :
          /\ Record(<<Assistant(b)>>)
          /\ calls' = b
          /\ pc' = IF AllParallel(b) THEN "gather" ELSE "serial"
    /\ loops' = loops + 1
    /\ next' = 1 /\ tripped' = FALSE
    /\ UNCHANGED <<notes, sessVars, forced, target, errs, oks, preVars, turns, issued>>

\* Mutant: the cap is one loop too far.
LoopCapOffByOne ==
    /\ pc = "complete" /\ loops > MaxLoops
    /\ Record(<<Answer>>)
    /\ TurnOver
    /\ UNCHANGED notes

\* The safety fuse.
LoopCap ==
    /\ pc = "complete" /\ loops = MaxLoops
    /\ Record(<<Answer>>)
    /\ TurnOver
    /\ UNCHANGED notes

\* A call succeeds.  The same success once too often ends the turn.
SerialSuccess ==
    LET c == calls[next] IN
    /\ pc = "serial" /\ c # TransferCall
    /\ IF oks[c] + 1 >= SuccessThreshold
       THEN Record(<<Tool(next), Answer>>) /\ TurnOver
       ELSE /\ Record(<<Tool(next)>>)
            /\ oks' = [oks EXCEPT ![c] = @ + 1]
            /\ NextCall
            /\ UNCHANGED <<sessVars, forced, target, loops, tripped, errs,
                           preVars, turns, issued>>
    /\ UNCHANGED notes

\* A ToolError (an unavailable transfer target is one): likewise.
SerialToolError ==
    LET c == calls[next] IN
    /\ pc = "serial"
    /\ IF errs[c] + 1 >= ErrorThreshold
       THEN Record(<<Tool(next), Answer>>) /\ TurnOver
       ELSE /\ Record(<<Tool(next)>>)
            /\ errs' = [errs EXCEPT ![c] = @ + 1]
            /\ NextCall
            /\ UNCHANGED <<sessVars, forced, target, loops, tripped, oks,
                           preVars, turns, issued>>
    /\ UNCHANGED notes

\* Any other exception becomes a result and is not counted.
SerialException ==
    /\ pc = "serial"
    /\ Record(<<Tool(next)>>)
    /\ NextCall
    /\ UNCHANGED <<notes, sessVars, forced, target, countVars, tripped, preVars,
                   turns, issued>>

\* TransferRequested: recorded as the result of the call and raised to the
\* dispatcher, which switches the role, or asks the same agent again (cap
\* reached, role gone), or, when it has asked already, gives the turn up.
SwitchRequested ==
    /\ pc = "serial" /\ calls[next] = TransferCall
    /\ ~forced /\ transfers + 1 < TransferCap
    /\ Record(<<Tool(next)>>)
    /\ transfers' = transfers + 1
    /\ target' \in Roles \ {cur}
    /\ pc' = "handoff"
    /\ UNCHANGED <<notes, cur, forced, batchVars, countVars, preVars, turns, issued>>

AskAgain ==
    /\ pc = "serial" /\ calls[next] = TransferCall /\ ~forced
    /\ EnterHandle(Append(history[cur], Tool(next)), Append(notes[cur], issued + 1))
    /\ issued' = issued + 1
    /\ transfers' = transfers + 1
    /\ forced' = TRUE
    /\ UNCHANGED <<cur, target, turns>>

GiveUp ==
    /\ pc = "serial" /\ calls[next] = TransferCall /\ forced
    /\ Record(<<Tool(next)>>)
    /\ TurnOver
    /\ UNCHANGED notes

\* asyncio.gather has returned.
Gathered ==
    /\ pc = "gather"
    /\ pc' = "collect"
    /\ UNCHANGED <<agentVars, sessVars, forced, target, batchVars, countVars,
                   preVars, turns, issued>>

\* Mutant: the loop is left as soon as a breaker trips.
CollectedAtOnce(trip, e, o) ==
    /\ IF trip
       THEN Record(<<Tool(next), Answer>>) /\ TurnOver
       ELSE /\ Record(<<Tool(next)>>)
            /\ NextCall
            /\ tripped' = trip /\ errs' = e /\ oks' = o
            /\ UNCHANGED <<sessVars, forced, target, loops, preVars, turns, issued>>
    /\ UNCHANGED notes

\* A result is recorded; trip, e and o are the new fallback_reply and counts.
\* After the last result comes the fallback reply, or the LLM again.
Collected(trip, e, o) ==
    /\ IF next = Len(calls) /\ trip
       THEN Record(<<Tool(next), Answer>>) /\ TurnOver
       ELSE /\ Record(<<Tool(next)>>)
            /\ NextCall
            /\ tripped' = trip /\ errs' = e /\ oks' = o
            /\ UNCHANGED <<sessVars, forced, target, loops, preVars, turns, issued>>
    /\ UNCHANGED notes

\* One result of the batch, in the order of the calls: a ToolError, which
\* always counts; another exception, which does not; a success, which counts
\* until a breaker has tripped.
CollectToolError ==
    LET e == [errs EXCEPT ![calls[next]] = @ + 1] IN
    /\ pc = "collect"
    /\ Collected(tripped \/ e[calls[next]] >= ErrorThreshold, e, oks)

CollectException ==
    /\ pc = "collect"
    /\ Collected(tripped, errs, oks)

CollectSuccess ==
    LET o == [oks EXCEPT ![calls[next]] = @ + 1] IN
    /\ pc = "collect"
    /\ IF tripped
       THEN Collected(TRUE, errs, oks)
       ELSE Collected(o[calls[next]] >= SuccessThreshold, errs, o)

-----------------------------------------------------------------------------
(* Failures *)

\* Mutant: the notes of the message that is taken back are not queued again.
FailForgetsNotes ==
    /\ pc \in {"complete", "serial", "gather"}
    /\ history' = [history EXCEPT ![cur] = SubSeq(@, 1, preLen)]
    /\ TurnOver
    /\ UNCHANGED notes

\* Mutant: one message too many is taken back.
FailOneTooMany ==
    /\ pc \in {"complete", "serial", "gather"}
    /\ history' = [history EXCEPT ![cur] = SubSeq(@, 1, preLen - 1)]
    /\ notes' = [notes EXCEPT ![cur] = preNotes]
    /\ TurnOver

\* The LLM call fails, or /stop cancels the turn inside handle: everything
\* handle has appended is dropped, the notes it took are queued again.
Fail ==
    /\ pc \in {"complete", "serial", "gather"}
    /\ history' = [history EXCEPT ![cur] = SubSeq(@, 1, preLen)]
    /\ notes' = [notes EXCEPT ![cur] = preNotes]
    /\ TurnOver

\* Cancelled, or failed, outside of handle.
FailOutside ==
    /\ pc \in {"prepare", "handoff"}
    /\ TurnOver
    /\ UNCHANGED agentVars

Progress ==
    \/ CallAgent \/ SwitchRole
    \/ FinalAnswer \/ ToolCalls \/ LoopCap
    \/ SerialSuccess \/ SerialToolError \/ SerialException
    \/ SwitchRequested \/ AskAgain \/ GiveUp
    \/ Gathered \/ CollectToolError \/ CollectException \/ CollectSuccess

Next == StartTurn \/ Progress \/ Fail \/ FailOutside

Spec == Init /\ [][Next]_vars

\* What a turn awaits ends: completions and tools do, if only by their timeouts.
\* (Out of this module are an MCP tool without a limit and a status that waits
\* in put() for a queue that a reconnect has replaced: both wait for /stop.)
FairSpec == Spec /\ WF_vars(Progress)

-----------------------------------------------------------------------------
(* Properties *)

\* The result of the k-th call stands k places after its assistant message.
\* A message that is no such result is a stray the LLM API refuses.
ResultAt(h, i) ==
    LET k == h[i].call IN
    /\ k >= 1 /\ k < i
    /\ h[i - k].role = "assistant"
    /\ k <= Len(h[i - k].calls)
    /\ \A j \in 1..k : h[i - k + j] = Tool(j)

StrayFree(h) == \A i \in 1..Len(h) : h[i].role = "tool" => ResultAt(h, i)

NoStrayResult == \A r \in Roles : StrayFree(history[r])

\* All calls of the assistant message at i have their results by message n.
CompleteBy(h, i, n) ==
    \A k \in 1..Len(h[i].calls) : i + k <= n /\ h[i + k] = Tool(k)

RoundComplete(h, i) == CompleteBy(h, i, Len(h))

\* The rounds of calls that ran in parallel, or of one call.
SafeRound(m) ==
    m.role = "assistant" /\ (Len(m.calls) = 1 \/ AllParallel(m.calls))

\* Between turns, a round of calls that ran in parallel, or of one call, is
\* complete, whatever broke the loop: a breaker trips, but the remaining
\* results are appended first (comment in _run_tools_parallel).
SafeRoundsComplete ==
    pc = "idle" =>
        \A r \in Roles : \A i \in 1..Len(history[r]) :
            SafeRound(history[r][i]) => RoundComplete(history[r], i)

\* Claimed of transfers ("this role's transcript stays well-formed if it's
\* revisited") and of the breakers ("so history stays well-formed"): between
\* turns every round is complete.
RoundsComplete ==
    pc = "idle" =>
        \A r \in Roles : \A i \in 1..Len(history[r]) :
            history[r][i].role = "assistant" => RoundComplete(history[r], i)

\* Between turns no history is left open on a user message or on a round that
\* the LLM has not answered, unless the role handed the turn over: a cut turn
\* is either rolled back whole or closed by a reply (_close_with_fallback).
ClosedAt(h, n) ==
    \/ n = 0
    \/ h[n] = Answer
    \/ h[n].role = "tool" /\ h[n - h[n].call].calls[h[n].call] = TransferCall

HistoriesClosed ==
    pc = "idle" => \A r \in Roles : ClosedAt(history[r], Len(history[r]))

\* Agent.handle is running for the current role; a batch of calls is open.
InHandle == pc \in {"complete", "serial", "gather", "collect"}
InRound  == pc \in {"serial", "gather", "collect"}

\* A failing turn takes back what it has appended and nothing older: what a
\* history held when handle was entered is never touched.
PastIsKept ==
    [][\A r \in Roles :
          LET n == IF InHandle /\ r = cur THEN preLen ELSE Len(history[r])
          IN  /\ Len(history'[r]) >= n
              /\ SubSeq(history'[r], 1, n) = SubSeq(history[r], 1, n)]_vars

\* The note n stands at place x of the i-th message of h, one from the user.
Carries(h, n, i, x) ==
    /\ i \in DOMAIN h /\ h[i].role = "user"
    /\ x \in DOMAIN h[i].notes /\ h[i].notes[x] = n

\* It waits at place i with the agent of r; it has been told to that agent.
Waits(n, r, i) == i \in DOMAIN notes[r] /\ notes[r][i] = n
Told(n, r, i, x) == Carries(history[r], n, i, x)

Queued(n) == {p \in UNION {{r} \X DOMAIN notes[r] : r \in Roles} :
                 Waits(n, p[1], p[2])}

Delivered(n) == {p \in UNION {{r} \X DOMAIN history[r] : r \in Roles} :
                    /\ history[p[1]][p[2]].role = "user"
                    /\ \E x \in DOMAIN history[p[1]][p[2]].notes :
                          Told(n, p[1], p[2], x)}

\* No note is lost and none is delivered twice, although a failing turn takes
\* back the user message that carried it: each one waits with exactly one
\* agent or stands in exactly one user message.
NotesDeliveredOnce ==
    \A n \in 1..issued : Cardinality(Queued(n)) + Cardinality(Delivered(n)) = 1

\* No loop goes back to the LLM once a breaker should have stopped it: a call
\* has not failed, nor succeeded, as often as its threshold says.
BreakersStopTheLoop ==
    pc = "complete" =>
        \A c \in Calls : errs[c] < ErrorThreshold /\ oks[c] < SuccessThreshold

\* The rounds of a turn: results stay with their round, parallel rounds are
\* completed, and breakers stop the loop, in whichever order the calls end.
RoundsSound == TypeOK /\ NoStrayResult /\ SafeRoundsComplete /\ BreakersStopTheLoop

\* What a turn leaves behind, however it ends: closed histories, and each of
\* the notes it took either delivered or waiting again.
TurnsClean == HistoriesClosed /\ NotesDeliveredOnce

\* What makes these properties inductive.
\*
\* While a batch is open, the last next messages are its assistant message and
\* the results so far; a serial batch is one that must not run in parallel.
Opening == Len(history[cur]) - next + 1

OpenRound ==
    /\ InHandle => preLen < Len(history[cur])
    /\ InRound =>
         /\ next \in 1..Len(calls) /\ Opening > preLen + 1
         /\ history[cur][Opening] = Assistant(calls)
         /\ \A j \in 1..(next - 1) : history[cur][Opening + j] = Tool(j)
         /\ pc = "serial" <=> ~AllParallel(calls)

\* Each round up to message n that must be complete is, apart from the one
\* that message o opens.
SafeBy(h, n, o) ==
    \A i \in 1..n : i # o /\ SafeRound(h[i]) => CompleteBy(h, i, n)

\* So it is in all histories, with what handle found complete in itself, so
\* that it may be cut back to.
RoundsInv ==
    /\ \A r \in Roles :
          SafeBy(history[r], Len(history[r]), IF InRound /\ r = cur THEN Opening ELSE 0)
    /\ InHandle => SafeBy(history[cur], preLen, 0)

\* Likewise for the ends of the histories.
ClosedInv ==
    \A r \in Roles :
        ClosedAt(history[r], IF InHandle /\ r = cur THEN preLen ELSE Len(history[r]))

\* The counts are below their thresholds until a breaker has tripped.
BreakerInv ==
    InHandle =>
        \/ pc = "collect" /\ tripped
        \/ /\ ~tripped
           /\ \A c \in Calls : errs[c] < ErrorThreshold /\ oks[c] < SuccessThreshold

\* What handle has taken is what its user message carries, which is the only
\* one it has appended, so that a cut gives back just what it removes.
TakenInv ==
    InHandle =>
        /\ notes[cur] = <<>>
        /\ history[cur][preLen + 1] = User(preNotes)
        /\ \A i \in (preLen + 2)..Len(history[cur]) : history[cur][i].role # "user"

\* Each note is in a place, and in no other.
PlacesKnown ==
    /\ \A r \in Roles, i \in Nat, n \in Nat : Waits(n, r, i) => n \in 1..issued
    /\ \A r \in Roles, i \in Nat, x \in Nat, n \in Nat : Told(n, r, i, x) => n \in 1..issued

NothingLost ==
    \A n \in 1..issued :
        \/ \E r \in Roles, i \in Nat : Waits(n, r, i)
        \/ \E r \in Roles, i \in Nat, x \in Nat : Told(n, r, i, x)

NothingTwice ==
    /\ \A n \in Nat, r \in Roles, s \in Roles, i \in Nat, j \in Nat :
          Waits(n, r, i) /\ Waits(n, s, j) => r = s /\ i = j
    /\ \A n \in Nat, r \in Roles, s \in Roles, i \in Nat, j \in Nat, x \in Nat, y \in Nat :
          Told(n, r, i, x) /\ Told(n, s, j, y) => r = s /\ i = j /\ x = y
    /\ \A n \in Nat, r \in Roles, s \in Roles, i \in Nat, j \in Nat, y \in Nat :
          ~(Waits(n, r, i) /\ Told(n, s, j, y))

PlacesInv == PlacesKnown /\ NothingLost /\ NothingTwice

IInv == /\ TypeOK /\ NoStrayResult /\ OpenRound /\ RoundsInv /\ ClosedInv
        /\ BreakerInv /\ TakenInv /\ PlacesInv

\* Every turn whose awaits end ends itself, whatever the LLM asks for: the loop
\* cap bounds an agent, the transfer cap bounds the agents.
TurnEnds == pc # "idle" ~> pc = "idle"
=============================================================================
