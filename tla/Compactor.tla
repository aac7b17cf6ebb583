----------------------------- MODULE Compactor ------------------------------
(***************************************************************************)
(* History compaction (agent/compactor.py), run after each turn on the     *)
(* history of one agent, with the request that agent.py keeps for it       *)
(* (last_completion_request, last_request_history_len).                    *)
(*                                                                         *)
(* The summary is made by extending that request, so it must still be a    *)
(* prefix of the history: turns that fail, breakers, hand-overs, restarts  *)
(* and compaction itself all change the history or the request.            *)
(* A message is its role, its size in tokens and its number; a summary     *)
(* carries the numbers of the messages that the summarizer was shown.      *)
(***************************************************************************)
EXTENDS Integers, Sequences, FiniteSets, FiniteSetsExt

CONSTANTS CpSizes,       \* tokens of a user message or a tool result
          CpBudget,      \* history_token_budget
          CpKeepTurns,   \* KEEP_LAST_USER_TURNS
          CpMaxTurns, CpMaxRounds    \* bounds, for model checking

\* max(1, int(budget * COMPACTION_TARGET_RATIO))
Target == Max({1, (CpBudget * 60) \div 100})

VARIABLES
    hist,              \* agent.history
    req, reqLen,       \* the messages of the kept request, its history length
    cpPre,             \* what handle has saved: history length, req, reqLen
    phase,             \* "idle", "turn" (Agent.handle) or "post" (_post_turn)
    rounds,            \* loop_idx
    kept,              \* ghost: numbers of the messages committed so far
    cpTurns, cpNext    \* turns begun; number of the next message

cpVars == <<hist, req, reqLen, cpPre, phase, rounds, kept, cpTurns, cpNext>>

\* No request is kept.
NoReq == <<>>

Msg(role, size, n)  == [role |-> role, size |-> size, ids |-> {n}]
Summary(ns)         == [role |-> "system", size |-> 1, ids |-> ns]
Ids(h)              == UNION {h[i].ids : i \in DOMAIN h}
Tokens(h)           == MapThenSumSet(LAMBDA i : h[i].size, DOMAIN h)
From(h, i)          == SubSeq(h, i, Len(h))

CpInit ==
    /\ hist = <<>> /\ req = NoReq /\ reqLen = 0
    /\ cpPre = [len |-> 0, req |-> NoReq, reqLen |-> 0]
    /\ phase = "idle" /\ rounds = 0 /\ kept = {} /\ cpTurns = 0 /\ cpNext = 1

-----------------------------------------------------------------------------
(* The turn: the part of Agent.handle that the compactor depends on *)

BeginHandle(size) ==
    /\ phase = "idle" /\ cpTurns < CpMaxTurns
    /\ cpPre' = [len |-> Len(hist), req |-> req, reqLen |-> reqLen]
    /\ hist' = Append(hist, Msg("user", size, cpNext))
    /\ cpNext' = cpNext + 1
    /\ cpTurns' = cpTurns + 1
    /\ rounds' = 0 /\ phase' = "turn"
    /\ UNCHANGED <<req, reqLen, kept>>

\* A completion has come: its request is kept.
KeepRequest == req' = hist /\ reqLen' = Len(hist)

Round(size) ==
    /\ phase = "turn" /\ rounds < CpMaxRounds
    /\ KeepRequest
    /\ hist' = hist \o <<Msg("assistant", 1, cpNext), Msg("tool", size, cpNext + 1)>>
    /\ cpNext' = cpNext + 2
    /\ rounds' = rounds + 1
    /\ UNCHANGED <<cpPre, phase, kept, cpTurns>>

\* The turn ends with the history h.
Commit(h) ==
    /\ hist' = h
    /\ kept' = kept \cup Ids(h)
    /\ phase' = "post"
    /\ UNCHANGED <<cpPre, rounds, cpTurns>>

Reply ==
    /\ phase = "turn"
    /\ KeepRequest
    /\ cpNext' = cpNext + 1
    /\ Commit(Append(hist, Msg("assistant", 1, cpNext)))

\* _close_with_fallback: a reply for which no request was made.
Fallback ==
    /\ phase = "turn" /\ rounds > 0
    /\ cpNext' = cpNext + 1
    /\ Commit(Append(hist, Msg("assistant", 1, cpNext)))
    /\ UNCHANGED <<req, reqLen>>

\* TransferRequested: the turn goes on with another agent.
HandOver ==
    /\ phase = "turn" /\ rounds > 0
    /\ Commit(hist)
    /\ UNCHANGED <<req, reqLen, cpNext>>

\* Mutant: the history is rolled back, the request is not.
FailKeepsRequest ==
    /\ phase = "turn"
    /\ hist' = SubSeq(hist, 1, cpPre.len)
    /\ phase' \in {"post", "idle"}
    /\ UNCHANGED <<req, reqLen, cpPre, rounds, kept, cpTurns, cpNext>>

\* The turn fails, and _post_turn runs all the same, or is cancelled.
FailHandle ==
    /\ phase = "turn"
    /\ hist' = SubSeq(hist, 1, cpPre.len)
    /\ req' = cpPre.req /\ reqLen' = cpPre.reqLen
    /\ phase' \in {"post", "idle"}
    /\ UNCHANGED <<cpPre, rounds, kept, cpTurns, cpNext>>

\* Another process: the history is restored, the request is not.
RestoreAgent ==
    /\ phase = "idle"
    /\ req' = NoReq /\ reqLen' = 0
    /\ UNCHANGED <<hist, cpPre, phase, rounds, kept, cpTurns, cpNext>>

-----------------------------------------------------------------------------
(* maybe_compact *)

\* _find_keep_boundary: the first of the last user messages, but for the very
\* first, from which the rest fits under the target; else the last one.
Boundary ==
    LET users == {i \in DOMAIN hist : hist[i].role = "user"}
        cands == {i \in users \ {Min(users)} :
                     Cardinality({j \in users : j >= i}) <= CpKeepTurns}
        fits  == {i \in cands : Tokens(From(hist, i)) <= Target}
    IN  IF Cardinality(users) <= 1 THEN 0
        ELSE IF fits = {} THEN Max(cands) ELSE Min(fits)

\* The messages that the summarizer sees: the kept request and what came after
\* it (_summarize_cache_aware), or the prefix alone (_summarize_sterile).
Shown(b) ==
    IF req = NoReq \/ reqLen > Len(hist) THEN SubSeq(hist, 1, b - 1)
    ELSE req \o SubSeq(hist, reqLen + 1, Len(hist))

Due == Tokens(hist) > CpBudget /\ Boundary > 0

\* Nothing to do, or the summarizer fails, answers with tool calls or nothing.
LeaveIntact ==
    /\ phase = "post"
    /\ phase' = "idle"
    /\ UNCHANGED <<hist, req, reqLen, cpPre, rounds, kept, cpTurns, cpNext>>

\* The prefix gives way to its summary (told not to cover the kept turns).
CompactHistory ==
    /\ phase = "post" /\ Due
    /\ hist' = <<Summary(Ids(Shown(Boundary)) \ Ids(From(hist, Boundary)))>>
               \o From(hist, Boundary)
    /\ req' = NoReq /\ reqLen' = 0
    /\ phase' = "idle"
    /\ UNCHANGED <<cpPre, rounds, kept, cpTurns, cpNext>>

CpNextStep ==
    \/ \E size \in CpSizes : BeginHandle(size) \/ Round(size)
    \/ Reply \/ Fallback \/ HandOver \/ FailHandle \/ RestoreAgent
    \/ LeaveIntact \/ CompactHistory

CpSpec == CpInit /\ [][CpNextStep]_cpVars

-----------------------------------------------------------------------------
(* Properties *)

\* Compaction splits no round (each tool result stays behind its call) and
\* forgets nothing: every committed message is in the history or was shown to
\* a summarizer, in exactly one place.
CompactionSafe ==
    /\ \A i \in DOMAIN hist :
          hist[i].role = "tool" => i > 1 /\ hist[i - 1].role = "assistant"
    /\ kept \subseteq Ids(hist)
    /\ \A i, j \in DOMAIN hist : i # j => hist[i].ids \cap hist[j].ids = {}

\* The kept request is a prefix of the history, whatever has happened to
\* either since: extending it shows the summarizer this history, not one that
\* was taken back or compacted.
RequestIsPrefix ==
    req # NoReq => reqLen <= Len(hist) /\ req = SubSeq(hist, 1, reqLen)
=============================================================================
