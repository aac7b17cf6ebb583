------------------------------ MODULE Notebook ------------------------------
(***************************************************************************)
(* The shared notebook of a workspace (session/notebook.py), its tools     *)
(* (agent/tools/notebook_tools.py) and what each agent knows of it         *)
(* (notebook_seen_revision and the update notices of agent/agent.py).      *)
(*                                                                         *)
(* The agents are those of bots in solo mode, which share a workspace and  *)
(* run their turns concurrently in one event loop.  A tool call has no     *)
(* await in it: only a crash or a failing file operation comes between the *)
(* replacement of notebook.md and that of its index.                       *)
(*                                                                         *)
(* The file is what _load_blocks makes of it.  A value that holds a line   *)
(* "## h" is read back as a block of its own: blocks are not kept in their *)
(* order here, so which of two blocks of the same key wins is left open.   *)
(***************************************************************************)
EXTENDS Integers, FiniteSets, FiniteSetsExt, Functions

CONSTANTS NbAgents, NbKeys,
          NbValues,    \* values to write
          NbSize,      \* [NbValues -> size of a block with that value]
          NbMaxBytes,  \* settings.notebook.max_bytes
          NbMaxDays, NbMaxOps    \* bounds, for model checking

NoKey == ""    \* the value has no heading line

VARIABLES
    blocks, index,       \* notebook.md and notebook.index.json, by key
    gap,                 \* the update of the index that is due, or NoGap
    day,                 \* today
    shown,               \* notebook_toc_snapshot: the directory in the prompts
    seen,                \* notebook_seen_revision of the agents
    inTurn, preSeen,     \* Agent.handle runs; pre_notebook_seen_revision
    told, preTold,       \* ghosts: by key, what its history last tells of it
    unheard,             \* ghost: keys changed since its turn began, or since
                         \* its last update, without a result that told it
    swallowed, preSwallowed,   \* ghosts: keys its own updates marked as seen
                               \* though it had not heard of their change
    torn,                \* ghost: keys whose last update lost its index half
    nbOps                \* ghost: turns begun and updates, bounded

nbFiles == <<blocks, index, day, torn>>
nbMind  == <<shown, seen, inTurn, preSeen>>
nbTelling == <<told, preTold, unheard, swallowed, preSwallowed>>
nbVars  == <<nbFiles, gap, nbMind, nbTelling, nbOps>>

\* revision(): a digest of both files.
Revision == <<blocks, index>>

\* What it has of a key: its block and its date, each in a set if there is one.
EntryOf(revision, k) == <<{revision[1][x] : x \in {k} \cap DOMAIN revision[1]},
                          {revision[2][x] : x \in {k} \cap DOMAIN revision[2]}>>
Entries == [k \in NbKeys |-> EntryOf(Revision, k)]

\* toc(): the keys with their dates, "?" where the index has none.
Toc == [k \in DOMAIN blocks |-> IF k \in DOMAIN index THEN index[k] ELSE 0]

NoGap == [agent |-> "", key |-> "", keys |-> {}, op |-> "none"]

NbInit ==
    /\ blocks = << >> /\ index = << >> /\ gap = NoGap /\ day = 1 /\ torn = {}
    /\ shown = [a \in NbAgents |-> Toc]
    /\ seen = [a \in NbAgents |-> Revision]
    /\ inTurn = [a \in NbAgents |-> FALSE] /\ preSeen = seen
    /\ told = [a \in NbAgents |-> Entries] /\ preTold = told
    /\ unheard = [a \in NbAgents |-> {}] /\ swallowed = unheard /\ preSwallowed = unheard
    /\ nbOps = 0

-----------------------------------------------------------------------------
(* The files *)

BlockSize(v) == IF v = "" THEN 1 ELSE NbSize[v]
Bytes(b) == MapThenSumSet(LAMBDA k : BlockSize(b[k]), DOMAIN b)

With(f, k, v) == [x \in DOMAIN f \cup {k} |-> IF x = k THEN v ELSE f[x]]
Without(f, k) == RestrictDomain(f, LAMBDA x : x # k)

\* What _load_blocks reads after _serialize has written blocks with v under k,
\* when v has a heading line for the key h, or (NoKey) none.
Reread(k, v, h) ==
    IF h = NoKey THEN {With(blocks, k, v)}
    ELSE LET own == With(blocks, k, "")
         IN  {With(own, h, v)} \cup (IF h \in DOMAIN blocks \ {k} THEN {own} ELSE {})

\* Nothing else runs while a tool updates the two files.
Between == gap = NoGap

\* The keys whose blocks an update under k has changed; the result of the tool
\* is to tell its agent of them.
Touched(k) == {k} \cup {x \in DOMAIN blocks' : x \in DOMAIN blocks => blocks'[x] # blocks[x]}

Updates(a, k, op) ==
    /\ torn' = torn \cup Touched(k)
    /\ gap' = [agent |-> a, key |-> k, keys |-> Touched(k), op |-> op]
    /\ unheard' = [b \in NbAgents |-> unheard[b] \cup Touched(k)]
    /\ nbOps' = nbOps + 1
    /\ UNCHANGED <<index, day, nbMind, told, preTold, swallowed, preSwallowed>>

\* write, up to the replacement of notebook.md.  (NotebookFull, like the other
\* errors of the tools, is a tool result and changes nothing.)
Write(a, k) ==
    /\ Between /\ inTurn[a] /\ nbOps < NbMaxOps
    /\ \E v \in NbValues, h \in NbKeys \cup {NoKey} : blocks' \in Reread(k, v, h)
    /\ Bytes(blocks') <= NbMaxBytes
    /\ Updates(a, k, "date")

Delete(a, k) ==
    /\ Between /\ inTurn[a] /\ nbOps < NbMaxOps
    /\ k \in DOMAIN blocks
    /\ blocks' = Without(blocks, k)
    /\ Updates(a, k, "drop")

\* The index is replaced too and the tool returns: its result tells the agent
\* of what it did itself, but all of the revision counts as seen.
UpdateIndex ==
    LET a == gap.agent IN
    /\ gap.op # "none"
    /\ index' = IF gap.op = "date" THEN With(index, gap.key, day)
                                   ELSE Without(index, gap.key)
    /\ torn' = torn \ {gap.key}
    /\ seen' = [seen EXCEPT ![a] = <<blocks, index'>>]
    /\ told' = [told EXCEPT ![a] = [k \in NbKeys |->
                  IF k \in gap.keys THEN EntryOf(<<blocks, index'>>, k) ELSE told[a][k]]]
    /\ swallowed' = [swallowed EXCEPT ![a] = (@ \cup unheard[a]) \ gap.keys]
    /\ unheard' = [unheard EXCEPT ![a] = {}]
    /\ gap' = NoGap
    /\ UNCHANGED <<blocks, day, shown, inTurn, preSeen, preTold, preSwallowed, nbOps>>

\* The index cannot be written: the tool raises, the block stays written, and
\* the revision is not seen.
IndexFails ==
    /\ gap.op # "none"
    /\ gap' = NoGap
    /\ UNCHANGED <<nbFiles, nbMind, nbTelling, nbOps>>

NextDay ==
    /\ Between /\ day < NbMaxDays
    /\ day' = day + 1
    /\ UNCHANGED <<blocks, index, torn, gap, nbMind, nbTelling, nbOps>>

-----------------------------------------------------------------------------
(* The agents *)

\* The history, or the prompt, of a has the directory as it is.
Tells(a) ==
    /\ seen' = [seen EXCEPT ![a] = Revision]
    /\ told' = [told EXCEPT ![a] = Entries]
    /\ swallowed' = [swallowed EXCEPT ![a] = {}]

\* handle: _queue_notebook_update_if_needed, and the notice goes into the
\* history with the user message.
BeginTurn(a) ==
    /\ Between /\ ~inTurn[a] /\ nbOps < NbMaxOps
    /\ nbOps' = nbOps + 1
    /\ inTurn' = [inTurn EXCEPT ![a] = TRUE]
    /\ preSeen' = [preSeen EXCEPT ![a] = seen[a]]
    /\ preTold' = [preTold EXCEPT ![a] = told[a]]
    /\ preSwallowed' = [preSwallowed EXCEPT ![a] = swallowed[a]]
    /\ unheard' = [unheard EXCEPT ![a] = {}]
    /\ IF seen[a] # Revision THEN Tells(a) ELSE UNCHANGED <<seen, told, swallowed>>
    /\ UNCHANGED <<nbFiles, gap, shown>>

EndTurn(a) ==
    /\ Between /\ inTurn[a]
    /\ inTurn' = [inTurn EXCEPT ![a] = FALSE]
    /\ UNCHANGED <<nbFiles, gap, shown, seen, preSeen, nbTelling, nbOps>>

\* Mutant: the turn is rolled back, the revision stays seen.
FailKeepsSeen(a) ==
    /\ Between /\ inTurn[a]
    /\ inTurn' = [inTurn EXCEPT ![a] = FALSE]
    /\ told' = [told EXCEPT ![a] = preTold[a]]
    /\ swallowed' = [swallowed EXCEPT ![a] = preSwallowed[a]]
    /\ UNCHANGED <<nbFiles, gap, shown, seen, preSeen, preTold, unheard, preSwallowed, nbOps>>

\* handle is cut short: the history is rolled back, and with it the notice and
\* the tool results; what the tools wrote stays.
FailTurn(a) ==
    /\ Between /\ inTurn[a]
    /\ inTurn' = [inTurn EXCEPT ![a] = FALSE]
    /\ seen' = [seen EXCEPT ![a] = preSeen[a]]
    /\ told' = [told EXCEPT ![a] = preTold[a]]
    /\ swallowed' = [swallowed EXCEPT ![a] = preSwallowed[a]]
    /\ UNCHANGED <<nbFiles, gap, shown, preSeen, preTold, unheard, preSwallowed, nbOps>>

\* A new agent (of a new process too) has the current directory in its prompt.
Rebuild(a) ==
    /\ Between /\ ~inTurn[a]
    /\ shown' = [shown EXCEPT ![a] = Toc]
    /\ Tells(a)
    /\ UNCHANGED <<nbFiles, gap, inTurn, preSeen, preTold, unheard, preSwallowed, nbOps>>

\* maybe_compact: the prompt gets the new directory (mark_seen=False), which
\* tells nothing of a change that left the directory as it was.
Compact(a) ==
    /\ Between /\ ~inTurn[a]
    /\ shown' = [shown EXCEPT ![a] = Toc]
    /\ UNCHANGED <<nbFiles, gap, seen, inTurn, preSeen, nbTelling, nbOps>>

\* The process dies, in the gap or elsewhere.
Crash ==
    /\ gap' = NoGap
    /\ inTurn' = [a \in NbAgents |-> FALSE]
    /\ shown' = [a \in NbAgents |-> Toc]
    /\ seen' = [a \in NbAgents |-> Revision]
    /\ told' = [a \in NbAgents |-> Entries]
    /\ swallowed' = [a \in NbAgents |-> {}]
    /\ UNCHANGED <<nbFiles, preSeen, preTold, unheard, preSwallowed, nbOps>>

NbNext ==
    \/ \E a \in NbAgents :
          \/ BeginTurn(a) \/ EndTurn(a) \/ FailTurn(a) \/ Rebuild(a) \/ Compact(a)
          \/ \E k \in NbKeys : Write(a, k) \/ Delete(a, k)
    \/ UpdateIndex \/ IndexFails \/ NextDay \/ Crash

NbSpec == NbInit /\ [][NbNext]_nbVars

-----------------------------------------------------------------------------
(* Properties *)

\* No agent counts a change as seen that its conversation does not tell of (a
\* notice, a result of its own tools, or the prompt it was made with), even when
\* the turn that told it is rolled back: the next turn tells it again.  The one
\* exception is what others wrote, or its own tools failed to complete, between
\* the start of its turn and an update of its own (agent.py:405-409).
SeenIsTold ==
    \A a \in NbAgents : \A k \in NbKeys \ swallowed[a] : told[a][k] = EntryOf(seen[a], k)

\* The notebook stays below its cap, and its directory knows the date of every
\* key and of no other, whatever was interrupted: only keys whose last update
\* was cut in the gap, or that came in with the text of another, are excepted.
NotebookSound ==
    /\ Bytes(blocks) <= NbMaxBytes
    /\ \A k \in NbKeys \ torn : k \in DOMAIN blocks <=> k \in DOMAIN index
=============================================================================
