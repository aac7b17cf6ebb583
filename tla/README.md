# Formal models of chat_team

chat_team connects chat bots on WeCom (a WebSocket service) to teams of LLM
agents ("roles").  A message comes in on the socket, waits its turn in the queue
of its session, and is handed to the agent of the session's current role; the
agent talks to an LLM, calls tools, may hand the conversation to another role,
and the answer is streamed back as a reply.  Sessions are cached in memory and
written to `session.json` behind the scenes.  All of it is one asyncio process
with a few worker threads; nearly everything that can go wrong goes wrong between
two `await`s.

This directory holds TLA+ models of that program, the TLC configurations that
check them and proofs for TLAPS.  Paths below are relative to
`src/src/chat_team/` unless they start with `src/`.

## 1. Inventory

| component | code | state | operations | module |
|---|---|---|---|---|
| inbound queue | `adapters/wecom.py` 127-154, 505-790, 1285-1389 | per session: `next_seq`, `dispatch_seq`, `turns`, `skipped`, worker task | reserve a slot, enqueue, skip, dispatch, prefetch of media, `/stop` (drain, cancel) | `InboundQueue` |
| callbacks | `adapters/wecom.py` 111-124, 683-750, 1159-1506 | ids seen, private-chat policy, busy marks | deduplication, slash commands, enter_chat | `Callbacks` |
| connection | `adapters/wecom.py` 272-486, 951-986 | socket, write queue, pending acks, `_shutdown`, `_connection_dead`, three tasks | `run_forever`, open, tear down, back off, send, await ack, `close` | `Connection` |
| reply stream | `adapters/wecom.py` 165-268, `dispatcher.py` 60-170 | stream id, `finished`, opened at, `_active_streams` | `push`, `status`, `finish`, media, expiry, heartbeat, `/stop` | `Replies` |
| media | `adapters/wecom_media.py`, `adapters/wecom.py` 795-1157, `agent/tools/media_tools.py` | files of the workspace | fetch with retries, flatten, quote, upload in chunks | `MediaTransfer` |
| session cache | `session/manager.py` | LRU of `Session` objects, create lock | `get_or_create`, build in a thread, evict with flush | `SessionStore` |
| persistence | `session/persistence.py` | pending debounced flushes, `session.json` | `schedule`, flush, `flush_now`, `flush_all`, load | `SessionStore`; one manager for several bots: `Solo` |
| dispatcher | `dispatcher.py` | `_busy_sessions`, session locks, role of the session, transfer count | `handle`, the transfer loop, `/new`, post-turn work, role notes | `SessionStore` (locks, cancellation), `AgentTurn` (transfer loop), `Callbacks` (marks), `Replies` (heartbeat) |
| agent | `agent/agent.py` | history, context notes, breaker counters | `handle`: LLM call, parallel and serial tool batches, breakers, rollback | `AgentTurn` |
| compactor | `agent/compactor.py`, `agent/agent.py` 305-318 | none of its own; rewrites a history | keep boundary, summary on top of the kept request | `Compactor` |
| notebook | `session/notebook.py`, `agent/tools/notebook_tools.py`, `agent/agent.py` 88-133 | markdown file, index, revision | write, delete, notice of changes by others | `Notebook` |
| LLM provider, key router | `llm/openai_provider.py`, `llm/key_rotation.py`, `llm/repetition.py` | key bindings, round-robin pointer, `max_retries`, the answer so far | pick a key, retry over keys and attempts, put a stream together, cut repetition | `LlmCall`, `LlmStream` |
| debug logs | `llm/debug_logger.py`, `llm/http_debug_logger.py` | files, numbers, the context of a request | name, pair, write, redact | `CallLogs` |
| pictures | `llm/image_cache.py`, `llm/image_description_cache.py`, `vision_shim.py`, `agent/tools/describe_image.py` | two LRU caches bounded by entries and bytes | inline, describe, evict, reconfigure | `ImageText` |
| file and command tools | `agent/tools/file_tools.py`, `agent/tools/shell_tool.py` | the workspace, processes, transcripts | read, write, edit, run, time out, cancel | `Workspace` |
| MCP | `mcp/client.py`, `mcp/proxy_tool.py` | handles of servers | connect, call, close | `McpServers` |
| roles | `roles/`, `agent/tools/team_tools.py` | role files, registry | write, delete, list, load, reload | `TeamFiles`, `Reload` |
| skills | `skills/`, `agent/tools/skill_tools.py` | skill directories, registry | load, reload, use, keyword gate | `Skills` |
| hot reload | `reload.py`, `config.py` 330-668 | settings, registries, report | swap roles, tools, settings under running sessions | `Reload` |
| advisor bridge | `advisor_bridge.py` | leased job, its stage | lease, resolve, start, announce, run a turn, complete; claim and complete an order of a group message | `AdvisorBridge`; its `dispatcher.handle` calls are in `SessionStore` |
| admin panel | `admin/` | failed attempts, sessions, cached scan, users' file, certificate | login, throttle, expiry, CSRF, restart, reload, logs, add-user, init-certs | `AdminPanel`, `AdminSetup` |
| process | `app.py`, `daemon.py`, `out_rotator.py` | tasks, pid file, log | start, stop, reload, signals, grace period, hard exit, solo bots, rotation | `Daemon`, `Solo`, `OutRotator` |
| boss | `boss.py`, `boss_tui.py` | input box, popup, busy mark, worker | type, complete, submit, turn, compaction | `Boss` |
| configuration, paths, list_tools, HTML | the rest | parsed values | parsing, rendering | not modelled (section 8) |

How they interact.  The reader task of the connection starts one callback task per
frame; callbacks of a session settle their queue slots in any order; the queue's
worker calls `dispatcher.handle`; so does the advisor bridge, on its own.
`handle` looks the session up, waits for `session.lock`, runs the agents, and
schedules a flush.  `/stop` and `/new` run in callbacks, outside the queue, next to
the turn they cancel or reset.  Replies, pings and uploads share one bounded
write queue, which is replaced with every connection.

What makes each part correct, and which behaviours are hard:

* inbound queue — turns of a session run one at a time, in the order their
  frames were received, although callbacks finish in any order, media arrives
  late or never and `/stop` cancels the worker; no slot is lost;
* session store — one `Session` object and one lock per session id in spite of
  concurrent lookups and eviction; what is on disk is whole turns, completed turns
  get there, and what `/new` has erased stays erased, although a debounced flush, a
  writer thread, a shutdown or a crash may come at any step;
* agent — every tool result stays with its request, a failed or cancelled turn
  takes back exactly what it appended, notes reach an agent exactly once,
  breakers and caps end every turn;
* LLM call — a call fails only after every key had its chance, bindings stay put
  through failures, retries end although a reload changes their number meanwhile;
* advisor bridge — an order is announced and worked on at most once, whichever
  entrance it comes through, although answers are lost, leases run out and the
  process is killed; what may have been sent is never sent again;
* connection — tasks and socket belong to the current connection, callers are
  woken when it dies, a dead socket is noticed, `close()` works at any `await`;
* replies — nothing follows the closing frame but the answer, and a turn leaves
  neither handle nor heartbeat nor counted transfers to the next one;
* callbacks — a replayed frame is dropped as long as its id is remembered, and
  `/new` and `/status` go by marks that tell the truth;
* media — parts that arrive in any order stand in their places, a media id is
  used only when WeCom has all the bytes;
* compactor, notebook — the kept request is a prefix of the history it is meant
  to extend, no message is forgotten unsummarised; no agent believes it has seen what
  its conversation does not tell;
* streams, logs, pictures — retries do not mix attempts, hidden reasoning stays
  hidden; responses are filed with their requests; byte counters count;
* tools and servers — what a command leaves behind is known, and neither a command
  nor a server that hangs holds up a turn or the exit;
* roles, skills, reload — a load meets an editor in the middle of a write; what is
  in force was on disk; a reload changes nothing silently and leaves agents and
  registry in agreement;
* process — at most one daemon, sessions are on disk before anything that may
  hang, no line of the log is lost but where the code says so; solo bots that share
  a group keep their histories apart;
* admin — sessions end when idle or old, failures are capped, users' file and
  certificate survive a kill; boss — answers are shown, the popup fits the box.

The hazards are listed with their lines in `PROJECT.json`.

## 2. Modules

| module | what it is |
|---|---|
| `SessionFifo` | abstract: the line of a session, first come first served |
| `InboundQueue`, `InboundQueueProofs` | one `_InboundQueue`, its callbacks, worker tasks and `/stop` |
| `SessionStore`, `SessionStoreProofs` | one session id: cache, locks, flushes, disk, `/new`, `/stop`, crash |
| `AgentTurn`, `AgentTurnProofs` | the agents of a session: transfer loop, tool loop, rollback |
| `Connection`, `ConnectionProofs` | the WebSocket connection with its tasks and callers |
| `LlmCall` | calls of the LLM over several API keys, and the key router |
| `AdvisorBridge`, `StaffProofs` | orders of the advisor, as jobs and in messages |
| `Replies`, `Callbacks`, `MediaTransfer` | the other parts of the adapter |
| `LlmStream`, `Workspace`, `McpServers`, `Daemon` | the other parts that wait for somebody |
| `Notebook`, `Compactor`, `ImageText`, `CallLogs`, `Skills`, `TeamFiles`, `Reload`, `OutRotator`, `AdminPanel`, `AdminSetup`, `Boss`, `Solo` | what is kept in files and caches, and who changes it |
| `MCInboundQueue`, `MCAgentTurn`, `MCConnection` | a module with values for constants that a cfg cannot write |
| `MCAdapter`, `MCServices`, `MCRecords` | instances of several modules that share no state |
| `ConnectionProofs` | with the proofs about `Connection`, those about `Replies`, `Callbacks`, `MediaTransfer`, as `MCAdapter` has them |
| `ServicesProofs` | proofs about `LlmCall`, `LlmStream`, `Workspace`, `McpServers`, `Daemon`, as `MCServices` has them |
| `StaffProofs` | with the proofs about `AdvisorBridge`, those about `TeamFiles`, `Boss`, `Skills`, `Reload`, as `MCRecords` has them |
| `RecordsProofs` | proofs about `Solo`, `AdminSetup`, `OutRotator`, `CallLogs`, as `MCRecords` has them |
| `HistoryProofs` | proofs about `Compactor`, `Notebook`, `ImageText`, `AdminPanel`, as `MCRecords` has them |

`MCAdapter`, `MCServices` and `MCRecords` check many modules in a run each.  Their variable `part` is chosen in
the initial state and never changes: it says which of the instances moves, and the
others stay as they began, so that the states of a run are the sum of the parts' states
and not their product.  Every property is stated in the module of its part and holds of
the states of the other parts as it does of an initial state.  Nothing is lost by
checking the parts apart: they share no variable in the program either, save where a
module has both sides (`Callbacks` the dispatcher's busy marks, `Replies` the write queue,
`Compactor` the agent's kept request, `Solo` the bots' common persistence).  The parameters of
the parts about which something is proved are constants of the MC module, whose values are in
its cfg; the theorems are for all values.

Conventions.  An action is the code between two `await`s (or one step of a
thread): asyncio never interleaves inside.  A definition
introduced by "Mutant:" is a plausible bug in the definition that follows; no action
uses it.  Put in that definition's place, it must make the property that
`PROJECT.json` names fail.

### InboundQueue

`nextSeq`, `dispatchSeq`, `ready` (= `turns`), `skipped`, `worker`
are the fields of `_InboundQueue`; `slot[f]` is the number a frame has reserved;
`cb[f]` is where its callback is; `wpc[w]`, `wturn[w]` are a worker task and the
turn it has in hand; `cancelled` are the tasks with a pending cancellation.
A frame is of one of the kinds of `KindSet`: a message with a turn, with or without
media to be fetched, one that is discarded, a `/stop`.  Popping the queue object when
it is empty and creating it afresh is modelled as the reset of its counters.
`stranded` are the frames whose reply, or whose handler, waits in `put()` for a place in a
write queue that a reconnect has replaced (`Strand`; `Connection` has the queue itself):
that `put()` has no timeout (`adapters/wecom.py:525-526`) and never returns, and only a
handler's is ended by `/stop`.

Cancellation is asyncio's: `task.cancel()` marks the task, and the
CancelledError is raised at the task's next step, in whichever `await` it is
(`CancelNew`, `SwallowCancel`, `CancelWaiting`, `CancelHandler`).

### SessionStore

`cached`, `createLock`, `victim` are `SessionManager`'s; `mem[o]` is a
`Session` object, with the histories of its materialised agents and those that are
only restored; `pending` is the debounced flush that sleeps, `writes` the
snapshots that threads are writing, `disk` is `session.json`.  A history is
the sequence of the turns it records, `-t` while turn `t` is still being
appended: that is all the properties can tell apart.

What the environment may do is given by two constants, so that each run names
its assumptions.  `Events`: evict, reset (`/new`), stop, transfer, crash,
shutdown.  `Races`: timings that the code does not exclude: `evict_busy`, `slow_write`,
`reset_race`, `shutdown_busy`.  The passing run has all events and the second and third
timing; what the first and the last break is in *Observations*.  Ghosts: `erased` is the
number of turns begun when the latest `/new` came, `firm` the same for the latest `/new` that had the
session to itself (`HasItAlone`: no writer thread at work, no turn under way, no other
object in use or being built), `cut` the turns that `/stop` cancelled.

### AgentTurn

`history[r]` is the history of the agent of role `r`: user messages with the notes
they carry, assistant messages with their calls, tool results.  `pc`, `batch`,
`done`, `errs`, `succ` follow `Agent.handle` through a round; `transfers` and
the pending notes are the dispatcher's.  A transfer is a tool call that raises
`TransferRequested`; the dispatcher switches roles or, past the cap, asks for an
answer without tools.  Any `await` may raise (`Fail`, `FailOutside`):
exceptions and cancellation take the same path.

### Connection

`main` is where `run_forever` is; `ws`, `dead`, `shutdown` are `_ws`,
`_connection_dead`, `_shutdown`; `queue` and `pending` are replaced by
`OpenConnection` as in the code.  A caller in `put()` on a full queue when that
happens is `"stranded"`.  Requests are named by their caller: request ids are never
reused.

### LlmCall

`rr`, `bind` are `SessionKeyRouter`'s; `stale` are the pairs whose binding is older
than `idle_reset_seconds` (time is not modelled: any binding may go idle at any
moment).  A call is at `pos` in `key_order`, on attempt `attempt` of the range it
began with the key (`limit`), while the test after an error reads the current
`maxRetries`.  `"raised"` is the moment at which `complete` raises.  Ghosts record the
attempts on each key, the keys that refused the call and the least `max_retries`
during it.

### AdvisorBridge

`wpc`, `wjob` are where `run_once` is and the job it holds; `mpc[m]`, `order[m]` where
`handle_incoming` is with a group message and the order it names.  `job[o]` is the
sidecar's view of an order.  The sidecar is not in the repository: what is modelled of
it is what the calls take for granted, that a lease runs out, that only the holder of a
lease can start a job, that a started job is not leased again, and that a claim is
accepted when nobody has the order.  Every HTTP call is processed and answered,
processed without an answer, or not processed; the last two look the same to the
caller.  A stale lease token is a `wjob` whose job is no longer `"leased"`: there is one
worker, so that nobody else can have leased it meanwhile.  Ghosts count announcements
and turns and keep the orders with attempted sends, confirmed last words, claims that
failed open, posted outcomes, and kills.

### Replies

`turn[t]`, `beat[t]` are where a turn and its heartbeat are, `streams` is
`_active_streams`, `frames` the write queue as far as replies use it, `wire[t]` the last
frame of `t` the socket took; `expired`, `window` are WeCom's ten minutes and what the
adapter knows of them.  A task at `await put()` on a full queue waits, and
`/stop` (`Stop`) cancels wherever the turn waits; `halted` tells where that was.

### Callbacks

`lru` is `_LRU`, `busy` is `_busy_sessions`, `calls` counts the `handle` calls of a session
that have not returned, `told` is the last answer to a command.  `direct` says whether the
handler is the dispatcher's own method: with the advisor bridge in front, `_dispatcher_ref`
finds no dispatcher and the commands answer that they are unavailable.

### MediaTransfer

`left` is the number of attempts left to each part, `saved`, `settled` what came of it,
`blocks` the message as the agent gets it; `size`, `step`, `chunk`, `server` follow an
upload and what WeCom has of it.

### LlmStream

Text is a sequence of tokens: a tag of the reasoning markup, whole or cut in halves by a
chunk's end, reasoning, white space, an answer.  `content`, `calls`, `checked`, `preview`
are the locals of `_complete_with_streaming`; `sent` is a ghost: what the attempt received.

### Workspace, McpServers, Daemon

`Workspace`: a tool call at a time, `procs[n]` the kinds of processes of run `n` that live: in
bash's process group or out of it, holding its output or not.  `communicate()` waits for those who hold
the output and for nobody else (`Open`), so that a call may return while processes live
(`left`).  `pipe[n]` is what they printed and what was read of it.
`McpServers`: `link[s]` is a server's connection, `handles` the manager's list, `gone` the
context managers that `close_all` has left.  `Daemon`: a daemon process and the commands
start, stop and reload as processes of their own with the pid file between them; a
command's step is what it does between two looks at the file or at a process.

### Notebook, Compactor, ImageText, CallLogs

`Notebook`: the two files, `seen[a]` the revision an agent has marked, `told[a]` a ghost: what
its conversation last told it of each key.  The result of an own update tells of the keys it
touched, while the code marks the whole revision; `swallowed[a]` are the keys that were marked
so and not told.  A write is two replacements with a crash between.  `Compactor`:
messages are weights with the numbers of what they stand for; `req`, `reqLen` the kept request.
`ImageText`: a file is a path with a version, both caches sequences from the oldest entry.
`CallLogs`: a file is its name and what is in it; `ctx` is the context variable that ties
an HTTP request to a call.

### Skills, TeamFiles, Reload

The directory is listed once and its entries are read one after another (`load`), with a
person or the boss writing in between.  `Skills`: names that differ in case are different
directories and alike in a look-up; `said` is the text of the latest user message with the
bot's notes, `asked` a ghost: what the user asked for.  `TeamFiles`: a write goes through a
temporary file of the same directory.  `Reload` is one action, `RlReload`, because the code
runs it in a signal handler without an `await`; everything it reads may fail, step by
step.  `Unread` is a configuration that parses and of which no settings can be built
(`team.md` cannot be read): `reload()` then raises, and the signal handler logs it.

### OutRotator, AdminPanel, AdminSetup, Boss, Solo

`OutRotator`: lines are numbers; `gap`, `aged`, `hit` are ghosts: lines lost between copy
and truncation, with the oldest backup, under a failed shift.  `AdminPanel`: a clock that
ticks between steps; sessions, the failures of an address, requests in progress, the cached
scan.  `AdminSetup`: `users.json` and its temporary file, which two `add-user` runs share,
certificate and key.  `Boss`: the input box posts events that the app handles later.
`Solo`: the bots of solo mode with one directory and one pending flush per session id;
a session in memory has what its agent's history has (`has`) and what was restored and not
adopted yet (`kept`), of which a flush writes the former only.  `owed` and `erased` are ghosts:
what was complete when the end began, and restored turns that a flush has erased.

## 3. Runs

| run | bounds | shows |
|---|---|---|
| `InboundQueue` | 3 frames, 2 worker identities, 4 slots | `QueueSound` (`SerialInOrder`, `SlotsAccounted`), `DrainedNeverStarts`, `OrphansComeFromStop`, `SlotReleased`; `FifoSpec`: the queue implements `SessionFifo` |
| `InboundQueue_stop_orphan` | the same, `/stop` and plain turns only | violation of `AcceptedTurnHandled` |
| `SessionStore` | 2 callers of `handle`, one of them stoppable, one `/new`, 2 session objects, 2 roles, 2 turns; all events, slow writer threads, `/new` racing a turn | `DiskSound` (types, `ResetSticks`), `TurnsExclusive`, `NoHalfTurnOnDisk`, `CompletedReachesDisk` |
| `SessionStore_new` | one caller, one `/new`, one object, slow writer threads | violation of `EveryResetSticks` |
| `SessionStore_survive` | one caller, one object | violation of `HistoriesSurvive` |
| `AgentTurn` | 2 roles, batches of two calls (parallel pair; serial call and transfer), thresholds 2, 2 rounds, 2 transfers, 2 turns | `RoundsSound` (`NoStrayResult`, `SafeRoundsComplete`, `BreakersStopTheLoop`), `TurnsClean` (`HistoriesClosed`, `NotesDeliveredOnce`), `PastIsKept`, `TurnEnds` |
| `AgentTurn_dangling` | batches with a transfer before or after another call | violation of `RoundsComplete` |
| `Connection_stranded` | queue of 1 | violation of `CallersWakeUp` |
| `Solo_flush` | 2 bots, one group, 2 turns | violation of `NothingUnscheduled` |
| `Adapter` | below | `ConnectionSound` (`TasksServe`, `AnswerCanCome`, `NoSocketLeaks`), `TurnsLeaveNothing`, `NothingFollowsTheClose`, `CallbacksSound` (`BusyIsTrue`, `CommandsTellTheTruth`, `ReplaysAreDropped`), `MediaArrives`, `WaitsEnd` (`CloseStopsTheLoop`, `Reconnects`, `Answered`) |
| `Services` | below | `CallSound`, `EvenSpread`, `KeysRespected` (`BindingSticks`, `NoHammering`), `CompletionsSound`, `CommandsAccounted` (`ProcessesAccounted`, `TranscriptIsWhole`), `ServersClosed`, `DaemonSound` (`OneDaemon`, `FlushBeforeHang`), `WaitsEnd` (`CallEnds`, `CommandReturns`, `NothingBlocksOnServers`, `StopStops`) |
| `Records` | below | `BridgeSound`, `AttemptsAreFinal`, `PanelSound`, `NotebookSound`, `CompactionSafe`, `ImagesSound`, `CallLogsSound`, `SetupSound`, `LinesAreKept`, `SoloSound`, `SkillsSound`, `ReloadSound`, `BossSound` |

A property of the runs is the conjunction of the module's named parts, each with a comment
of its own where it is defined.

Why the bounds are enough.  *InboundQueue*: with three frames one can run, one
wait and one be settled out of order between them; two identities are all the
workers a queue can have seen (a dying one and its successor); four slots let a
frame's identity be used again.  *SessionStore*: two session objects are the
cached one and the evicted or concurrently built one; two turns are one on disk
and one in flight, or two whose flushes overtake each other; two callers plus `/new` race each other pairwise.
*AgentTurn*: the breakers' thresholds are passed with 2, a batch of two has a call
before and a call after every event, two turns let a failed turn follow a
completed one and a transfer come back to a role with a past.
*Connection*: one sender and one poster; a queue of 2 is full, half full and empty.
*LlmCall*: two keys are the one a call begins with and another, and with three pairs the
pointer goes round; calls share only the router and `max_retries`, each of which they touch in one step, so
that one call at a time sees what idle pairs and reloads can do to it; the proofs are
for any number of keys and calls.
*AdvisorBridge*: two orders, one of them a simulation; a message and the worker race for an
order, the other lets the worker go on after a job it has left; a second kill
adds nothing the first, at any step, does not show; the proofs are for any number of
orders, messages and kills.

The other parts.  *Replies*: two turns of one session, one of which may be stopped and
expire, and a queue of one frame, so that every push may have to wait.  *Callbacks*: eight
callbacks of seven kinds, a memory of two ids and four deliveries: an id falls out and
comes back.  *MediaTransfer*: four parts and a quoted message of two; file sizes around
every multiple of the chunk, below the least and above the largest size.  *LlmStream*: five
tokens hold a cut tag, reasoning and an answer; two calls whose arguments interleave; two
attempts.  *Workspace*: two commands, of which one may be left over from a stopped turn or in the
background.
*McpServers*: three servers, so that one is closed between two others.  *Daemon*: two
starts, a stop and a reload, two processes.  *Notebook*: two agents, two keys, two sizes and
a quota that only some pairs exceed; three operations.  *Compactor*: three turns, messages
of two weights, two turns kept.  *ImageText*: three versions of a file, the second too
large to be shown as it is, two calls at once, room for two entries.  *Skills*: two names
alike but for case, a role for both and one for one, one edit during a load.  *CallLogs*: two tasks
whose sessions share a directory, two attempts, two calls, two instants of the clock.
*AdminPanel*: one login session, one address, two requests at a time, three ticks, which
pass the idle limit, the window and the age of the scan; *AdminSetup*: two
writers and two certificate runs.  *Reload*: three edits, two roles, one session.
*OutRotator*: three backups, five lines, one fault.  *Boss*: two turns, texts that are a
prefix of no, one and two commands.  *Solo*: two bots, one group, two turns.

`CHECK_DEADLOCK FALSE` stands where the bound on turns, slots or messages ends all
behaviours (a poll that finds no job changes nothing), or where, after `close()`,
callers may wait on a queue nobody reads.

## 4. Fairness

* `InboundQueue`: weak fairness of every callback that is not waiting for the
  network and of every worker; a worker's wait for media ends by its timeout.  A reply or a
  handler goes on unless it is `stranded`: each of its awaits has a timeout but the `put()` of
  `_enqueue_write`.  Nothing is assumed of media, of new frames, of `/stop` or of the
  connection.
* `SessionStore`: weak fairness of a flush whose delay is over and of the writer threads.
  A turn and its post-turn stage may wait for good (`stream.finish` may be stranded).
* `AgentTurn`: weak fairness of `Progress`, the steps of a turn: LLM and tool calls return or
  raise, if only by their timeouts.  It is an assumption about what a turn waits for: a
  status stranded in `put()` and a call of an MCP server without a limit last until `/stop`.
  That the LLM stops asking for tools is *not* assumed: the caps end the turn.
* `Connection`: weak fairness of `run_forever`, of the writer, of the reader's
  end, of `close()`, of the ack timeout; strong fairness of each `put()`,
  because asyncio.Queue wakes its putters first come first served.  Acks
  need not come and nobody needs to call.

* `LlmCall`: weak fairness of what ends a request or a backoff.  Nothing is assumed of
  what requests end with.
* `Replies`: strong fairness of each step of a turn and its heartbeat that waits for room
  in the queue (first come first served again), weak fairness of the writer.  WeCom's window
  need not close and nobody needs to stop a turn.
* `Workspace`: weak fairness of the timeout, of the two seconds after SIGTERM, and of the end
  of a command whose output is closed; processes need not end by themselves.  A process that has left
  the group and holds the output keeps the call for good (`CommandReturns` excepts it).
* `McpServers`: weak fairness of each close with its time limit and of the time limit of
  calls; servers need not answer.  A call without a configured limit is left out (`McTimeout`).
* `Daemon`: weak fairness of each command's next step and of the exit of a process that has
  closed everything; teardown itself may hang.

In `MCAdapter` and `MCServices` a fairness condition is that of the module, for as long as
its part is the one that moves.  `AdvisorBridge` and the modules of `MCRecords` have safety
properties only and no fairness: that a call of `run_once` ends is not always so, a send may
be stranded as in `Connection_stranded`.

## 5. Findings

Each is a run whose property quotes the code's own documentation.

* `AcceptedTurnHandled` (`adapters/wecom.py:1332`): a message that comes in
  between `/stop`'s `task.cancel()` and the death of the worker finds `q.worker` not
  done and is left without a worker until another message comes.
  `OrphansComeFromStop` shows that nothing else can do this.
* `HistoriesSurvive` (`session/persistence.py:88`): `snapshot` writes the
  histories of materialised agents; those that were restored from disk and not yet
  adopted are erased from `session.json` by the first flush after a restart.
* `EveryResetSticks` (`session/persistence.py:187`): `/new` cancels the pending flush "so it
  doesn't clobber our reset" (`dispatcher.py:234-235`).  When the flush has come to
  its thread, the cancellation does not stop it: it replaces `session.json` after the reset, and
  what `/new` erased comes back with the next rebuild.  `ResetSticks` shows that a `/new`
  that had the session to itself does stick.
* `RoundsComplete` (`agent/agent.py:346`): a transfer or a serial breaker in the
  middle of a batch leaves the remaining calls without results in the history.
  `SafeRoundsComplete` shows that rounds without either are complete.
* `CallersWakeUp` (`adapters/wecom.py:407`): a caller in `put()` on the full
  queue of a dead connection is never woken, and the session whose lock
  it holds is stuck until `/stop`.
* `NothingUnscheduled` (`session/persistence.py:162`): bots of solo mode share one
  `PersistenceManager`, whose pending flushes are keyed by session id: a turn of one bot, or
  its `/new`, cancels the flush of another bot in the same group, whose turns are then on nobody's
  schedule.  `SoloSound` shows that an orderly end writes them all the same, but for
  those that no agent had adopted (the cause of `HistoriesSurvive`).

## 6. Observations

### Observations on SessionStore

The passing run of `SessionStore` excludes the following, which the model shows
when the named constant is put in `Races`:

* `evict_busy` (`session/manager.py:161`): the LRU victim may be a session in
  use; a second lookup then builds another object with another lock, and
  `TurnsExclusive` fails.
* `shutdown_busy` (`session/persistence.py:202`): `flush_all` takes its snapshot
  without the lock, in the middle of a turn (`NoHalfTurnOnDisk` fails).

It includes the following, which its properties except by name:

* `/new` against a writer thread (`EveryResetSticks`, section 5) and against a turn:
  `dispatcher.py:220` tests `is_busy` before an `await` and acts after it, and the mark
  itself is popped by the first of two overlapping `handle` calls (`dispatcher.py:75`).  A turn
  that goes on after the clear survives it.  `ResetSticks` speaks of a `/new` that had the session to itself, with
  no other condition: turns, stops, slow threads and other `/new`s may come before and after.
* `/stop` in the post-turn stage (`dispatcher.py:176`) skips the flush, and a `stream.finish` stranded in
  `put()` comes before it: such a turn is in memory and on nobody's schedule.
  `CompletedReachesDisk` excepts the turns in `cut` and those whose post-turn stage never ends.
* Flushes overtake each other: a slow thread with an older snapshot may replace the file
  after a newer one.  `CompletedReachesDisk` says that a turn reaches the file, not that it stays.

### Observation on LlmCall

`llm/key_rotation.py:13-15` says that a pair that went idle does not get "the
just-released key" again.  The pointer always advances, but other pairs move it too:
with two keys and one new pair in between, the idle pair is bound to the key it had.
`BindingSticks` and `EvenSpread` are what does hold.

### Observations on AdvisorBridge

* `advisor_bridge.py:520-524`: a malformed job raises after `client.start` and before
  the `try`.  It stays started at the sidecar, and no outcome is ever posted;
  `AttemptsAreReported` holds from the first send on.  The same follows if the answer of
  `client.start` or the call of `client.complete` is lost.
* `advisor_bridge.py:580`: when the reply is not confirmed, the outcome says
  `"wecomMessageSent": False`, although the summary was sent and acknowledged at 532;
  the branch at 563 says `True` after a mere attempt.
* `advisor_bridge.py:409-428`: `dispatcher.handle` swallows the exceptions of a turn and
  of `stream.finish`, so that a claimed message whose turn failed is reported as
  succeeded; and `/stop` leaves the claim without an outcome (`StopManual`).
* `advisor_bridge.py:392`: a refused claim whose answer is lost is handled all the same,
  next to the job or message that has the order.  `OneTurnPerOrder` excludes
  these orders (`open`).

### Observations on the other parts

Three properties are stated in their modules, say what a comment claims, and do not hold;
no run lists them.

* `RewriteInvalidates` (`ImageText`): `llm/image_description_cache.py:8-9` says that a
  rewritten file invalidates its entry.  `describe_image` computes the key when it stores the
  answer: a file rewritten while the model looked at it gets the description of its
  predecessor.  Two calls at once describe a picture twice, although a file is to be described
  "at most once per process".
* `RestartOnlyKept` (`Reload`): the fields of `llm.vision` that "are restart-only" are skipped
  by the first `_apply_safe_nested`, and then `llm.vision` is copied whole as a field of `llm`
  (`config.py:659-666`).
* `ReloadNeverKills` (`Daemon`): SIGHUP while the daemon boots, before its handler is
  installed, or while it closes, after the handler is removed, ends it.

Others:

* `agent/agent.py:406-408` says that "the writer already learned the change from this tool
  result", and marks the whole revision as seen.  The result tells of the own key only: what
  another bot wrote between the start of the turn and the own update is never told.
  `NotebookSound` excepts just these keys (`swallowed`).  `src/README.md:307-308` and `334` say that there is no
  notice of changes by others at all; the code has one (`agent/agent.py:122-133`).
* A command that puts a process in the background with its output redirected returns at
  once, and the process outlives the call with no `/stop` and no timeout: `communicate()` waits for
  the output, not for the group.  Processes left so may change a file between the read
  and the write of `edit_file` (`left` in `CommandsAccounted`).
* A session of solo mode that was rebuilt and whose agent was not made yet is written empty by
  an eviction or by `flush_all` (`session/persistence.py:88-91`); `QuitKeepsTurns` excepts
  these turns (`erased`).
* `config.py:607` builds the settings outside the `try` of `reload_settings`: a `team.md` that
  cannot be read makes `reload()` raise, and there is no report (`ReloadRaises`).
* A `put()` stranded by a reconnect blocks its session: a reply of a callback for the life of the process, a
  turn until `/stop`.  `SlotReleased` and `AcceptedTurnHandled` except the frames behind it.
* `session/notebook.py:3` says multi-line values are preserved verbatim; a line `## h` in a
  value is read back as a block of its own (`torn` in `Notebook`).
* `agent/tools/shell_tool.py:5-7` says that the agent can read the full transcript again;
  `file_tools.py:27-28` refuses paths under `.chat_team`, where it is; and the transcript of a
  command that timed out lacks what was printed before the signals.
* With the advisor bridge between adapter and dispatcher, slash commands answer that they are
  unavailable: `_dispatcher_ref` looks at the handler's `__self__`.
* A comment in `admin/server.py` (near 292) says that a login resets the window of failures of the
  address; nothing does.
* `list_roles` raises over one broken file; `delete_role` refuses to delete a user's
  override of a built-in role.  The `skill` tool's list of names is not refreshed by a reload.
* The keyword gate of protected skills reads the text of the history, with the notes that
  the bot puts before the user's words; a forced answer has none of the user's words;
  `skill_read_file` has no gate.
* `llm/debug_logger.py:3` speaks of a file for each call; a call that is cancelled writes none.
* In the boss's screen a message typed while a turn runs is dropped, the next message
  cancels a compaction, and `/clear` during a turn loses its answer.
* `_run_solo` (`app.py`) raises for an unknown role before its `try`, so that MCP servers stay
  open; two solo bots with one role share a session file, the last to write has it.
* A role removed by a reload that a live session runs: `_agent_for` raises `KeyError` at every
  turn until `/new` (`dispatcher.py:350`).  The note that forces an answer is queued again when
  the forced turn fails, and reaches an unrelated later turn (`dispatcher.py:279`).

## 7. Proofs

Every safety invariant that a run checks is a theorem of its specification, for all values
of the constants; so is every action property, some of which are an invariant and
properties of steps together.  A proof has an inductive invariant
made of named parts, one lemma per action or group of actions that says that the action keeps
a part, and a last temporal step.

`InboundQueueProofs`, for any set of frames and of workers and any slot bound:

* `QueueInvariant`: `Spec => []IInv`;
* `TypeCorrect`, `OneTurnInReceiveOrder` (`SerialInOrder`), `NoSlotLost`
  (`SlotsAccounted`), `QueueIsSound` (`QueueSound`, the two together),
  `DrainedTurnsStayOut` (`DrainedNeverStarts`), `OnlyStopOrphans` (`OrphansComeFromStop`);
* `ImplementsFifo` (`FifoSpec`): every step of the queue is a step of `SessionFifo` or leaves
  its line as it was.

The argument.  `SerialInOrder` alone is not inductive: that a second worker is never
spawned depends on `worker` naming every living one (`WorkerInv`), that slots are
passed in order depends on every number between `dispatchSeq` and `nextSeq` belonging
to exactly one frame (`SlotInv`), which is either in the hands of a callback that has
yet to settle it, or ready, or skipped, and in one of the three only (`SettledInv`,
`SpawnedInv`).  `IInv` is their conjunction with the type invariant.  The properties
follow from it or from it and one step.  The refinement maps the queue to the line of the frames
that hold a slot, in the order of their slots; besides `IInv` it needs that the running turn is the
head of that line (`LineInOrder`, `RunningIsHandled`).

`SessionStoreProofs`, for any callers, roles, session objects and bounds, with all events and
races unless it says otherwise:

* `TypesHold`: the type invariant.
* `OneTurnAtATime` (`TurnsExclusive`), unless the cache evicts a session in use.  `OneObject`:
  who has got past the lookup has the cached object, hence its lock.
* `DiskHoldsWholeTurns` (`NoHalfTurnOnDisk`), unless that or a shutdown in the middle of a turn.
  `WholeInv`: in memory only the last turn of the current role's agent may be open, in the cached
  session and while somebody has its lock; all that waits to be written, and the file, is whole.
* `NewForgets` (`ResetSticks`), and with the types `DiskStaysSound` (`DiskSound`).  `ClearInv`: every history
  that may yet come to the file or to memory (the file, the snapshots that sleep or are being written, what
  was read for a rebuild, the objects somebody refers to) has no turn up to `firm`.

`AgentTurnProofs`, for any roles, batches, tools, thresholds and caps:

* `RoundsStaySound` (`RoundsSound`), `TurnsLeaveClean` (`TurnsClean`), `PastStays`
  (`PastIsKept`, of every step), `Invariance`.

A turn may be cut at every `await`, so that `IInv` says of each state what a cut would leave:
`OpenRound` which batch is open and how many of its results are in, `RoundsInv` and `ClosedInv`
that all rounds but this one are complete, also in what a cut goes back to, `BreakerInv` that no count has
reached its threshold unless a breaker has tripped, `TakenInv` that the one user message of the
turn carries just the notes it took, `PlacesInv` that every note is in one place: waiting for
a role or told in one message.

`ConnectionProofs` proves of the connection, for any senders, posters and capacity:
`TypeCorrect` (with it, that the write queue is bounded), `TasksAreOfTheConnection`,
`SocketsAreClosed`, `AnswersCanCome`, together `ConnectionIsSound`; `ConnectionInvariant`.
`TasksServe` and `NoSocketLeaks` are inductive with the types.  `AnswerCanCome` is not: that a
frame reaches the socket only while its sender is registered must be known when the frame is
queued or in the writer's hand (`PendingInv`), and that `OpenConnection`, which forgets the
registrations, forgets the frames with them; the former needs that a caller in `put()` has no
frame about.  It proves of replies, for any turns and sessions:

* `TurnsLeaveNothingBehind` (`TurnsLeaveNothing`), `NothingFollowsCloses`
  (`NothingFollowsTheClose`).  `TurnInv` ties the handle, the heartbeat and the
  frames of a turn to where it is; `CountInv` that a session's count of transfers is the one of the
  turn that runs in it, or of one stopped while it joined.

Of callbacks, for any callbacks and sessions and any size of the memory: `CallbacksStaySound`
(`CallbacksSound`).  `CbMemory`: what the memory has forgotten was followed by as many others as it
remembers, and what it remembers by those that stand behind it; `CbMarks`: a session with two calls
at a time is known as one whose calls overlap.

And of media, for any messages, sizes of files, chunk size and attempts: `MediaAlwaysArrives`
(`MediaArrives`).  Blocks are built by recursion over the parts; what holds of them is carried from
each position to the next (`AddKeeps`: all parts so far are in the blocks, blocks of text stand
alone, pictures are in their order), and the chunks that are sent before the last one are never
the whole file (`ChunksAreEnough`).

`ServicesProofs` proves for any number of keys, pairs and concurrent calls:
`TypeCorrect`, `RaisesAfterAllKeys`, together `CallIsSound`; `KeysStayRespected` (`KeysRespected`:
`BindingsStick`, and that a call has left the keys that refused it behind, `RefusedBehind`); `CallInvariant`.
The argument goes over `key_order`: the keys before the current one have had their chance
(`Served`), the current one was tried once per attempt, and both numbers that `max_retries` was
read as, when the range began and now, are at least its least value during the call.  That
`key_order` reaches every key is `KeyReached`, arithmetic modulo the number of keys.
`PairsSpreadEvenly` (`EvenSpread`) needs that, as long as no binding went idle, the keys that the pointer has
passed on its present round have one pair more than the others.  And of streams, for any
texts, chunks and attempts, any window and any step of the loop check: `CompletionsStaySound`
(`CompletionsSound`).  `TextInv`: what is shown of a text at any moment has no reasoning, because
the tags, whole or cut, that stand before reasoning are in the text (`ModeInv`) and are found
wherever the text ends (`TagIsSeen`); stripping and previewing leave a part of the text.
`LoopInv`: less than a step is unchecked, and what was checked holds no window of a loop.
And of the parts that wait for others:

* `CommandsStayAccounted` (`CommandsAccounted`), for any number of commands, chunks and versions: nobody holds the
  output of a command that returned, since the call goes on while somebody does; after SIGKILL nobody
  is in the group, since a child is in it only if its parent is.
* `ServersAreClosed` (`ServersClosed`), for any servers: the handles are those entered, in the order of the
  configuration, and what is closed of them is always the end of that list (`ClosingInv`).
* `DaemonStaysSound` (`DaemonSound`), for any commands and processes.  Until there is a race the commands take
  turns, and who begins finds the pid of the daemon that lives (`TurnsInv`).

`StaffProofs` proves for any orders, messages and number of kills all safety
properties of the bridge: `NeverRetried`, `AnnouncedAtMostOnce`, `OneTurn`,
`SuccessConfirmed`, `AttemptsReported`, `BridgeInvariant`, put together in `BridgeIsSound` and
`AttemptsFinal`.  Each part of `IInv` has a lemma
that names the parts it rests on.  The heart is `JobInv`: from start to outcome the job in
hand is `"started"`, so that nothing leases it again, and before that it is leased or
queued, hence was never tried (`TriedInv`).  `OneTurnPerOrder` needs that an order has one
claim holder and no job next to it (`ClaimInv`) and that nobody who may still begin a turn
has had one (`TurnInv`).

It proves of what the boss edits and the bot loads:

* `TeamFilesStaySound` (`TeamFilesSound`), for any names of roles and any builtin ones.  A file of the
  boss is filed under its name and may be loaded (`Filed`), whatever a load has read was on
  disk since the listing (`Watched`), and if nobody meddles it still is (`Undisturbed`).
* `ScreenStaysSound` (`Chat!BossSound`), and with the former `BossStaysSound` (`BossSound`), for any
  texts, commands and bounds.  That the popup fits the box when no event waits needs
  that the last text told is the one in the box (`BoxIsTold`); that no message of the user is lost,
  that a turn's own message can be taken back while it runs (`TurnUnderWay`).
* `SkillsStaySound` (`SkillsSound`), for any skills, roles, whitelists and texts.  What a scan has left
  behind was unusable at some moment since the listing, what it took was there (`ScanWatched`); the
  user's words stay in the latest message until the answer is forced (`WordsKept`).
* `ReloadStaysSound` (`ReloadSound`), for any roles and sessions.  `RolesAgree` is inductive once the
  agents of a session are known to be a function of roles; that a reload accounts for every
  change follows from its five outcomes.

`RecordsProofs`:

* `BotsStayApart` (`SoloSound`), for any bots, roles, sessions and turns.  `FlushCurrent`: a
  waiting flush has the history of its bot as it is now, but for what was `erased`, so that
  writing it late undoes nothing.
* `SetupStaysSound` (`SetupSound`), for any number of commands.  While no two `add-user` runs
  overlap one run has the temporary file (`OneAdds`), and it is no other than the list in force
  (`FilesApart`) and whole when it replaces it; of a pair the certificate is written first
  (`CertFirst`).
* `LinesStayKept` (`LinesAreKept`), for any lines, faults and number of backups.  The sweep
  shifts from the oldest to the newest, so that there is room for each (`RoomMade`), and truncates
  only what the copy has (`CopyDone`); lines rise within and across files (`LinesRise`).
* `CallLogsStaySound` (`CallLogsSound`), for any tasks, sessions and clock.  A suffix is never
  larger than the number of files (`FilesInv`), so that a free name is found; a response in hand has
  its request on file (`RequestFiled`).

`HistoryProofs`, which are about what the code counts:

* `CompactionStaysSafe` (`CompactionSafe`), for any turns, rounds, sizes, budget and number of kept
  turns.  The boundary is a user message (`BoundaryIsUser`), hence no round is split; numbers of
  messages are never used twice (`CpInv`).
* `NotebookStaysSound` (`NotebookSound`), for any agents, keys, sizes and quota.  Between the
  start of an agent's turn and its update a key has changed only if it is `unheard` (`NbHeard`);
  so what the update marks and does not tell is `swallowed` (`NbTells`, `TellsSeen`).
* `ImagesStaySound` (`ImagesSound`), for any files, requests, weights and both limits.  A counter is the
  sum over its sequence (`BytesOfAppend`, `BytesOfRemoved`); eviction removes a prefix.
* `PanelStaysSound` (`PanelSound`), for any sessions, addresses, requests and limits, and a clock
  without bound.  The limiter prunes and forgets; that it misses nothing is `LimiterInv`: for
  every cutoff that a window may still have, what it has kept counts like all failures.

They need sums, folds, least and greatest elements.  The library's induction theorems take an
operator as a parameter, which the provers cannot instantiate; each such lemma (`FoldUnique`,
`SumWithout`, `SumsAgree`, `AfterAppend`, and `FirstPosition`, `FromZero` of the other modules)
is proved by the least counterexample, from the well-foundedness of the natural numbers, and the recursive
functions of the modules are shown to exist from their values on prefixes (`SumExists`, `BuildExists`).

The assumptions on the constants are named in the modules that declare them: `QueueAssumption`,
`StoreAssumption`, `TurnAssumption`, `ConnectionAssumption`, `MediaAssumption`, `CallAssumption`,
`StreamAssumption`, `BridgeAssumption`, `ApAssumption`, `CookieAssumption`, in `MCAdapter` `CallbacksAssumption`, in `MCServices` `CommandsAssumption`,
`ServersAssumption`, `DaemonAssumption`, and in `MCRecords` `SkillsAssumption`, `TeamAssumption`, `BossAssumption`,
`SetupAssumption`, `NotesAssumption`, `CompactorAssumption`, `ImagesAssumption`, `LogsAssumption`,
`RotatorAssumption`.  They say that limits are numbers, positive where the code could not run with
zero, and that names of different kinds are different; TLC evaluates them in the runs.  Each
inductive invariant that TLC can evaluate was put among a run's invariants before it was proved; the
runs on file check what follows from it.

Model-checked only:

* all liveness properties, since neither liveness under fairness nor ENABLED is in the prover's
  reach: `SlotReleased`, `CompletedReachesDisk`, `TurnEnds` and both `WaitsEnd`.

## 8. Not modelled, and why

Configuration and paths: parsing, defaults and validation; the values are the constants of
the modules, and what a reload does with them is in `Reload`.  The pages of the admin panel,
`list_tools.py` and what the boss prints are rendering.  The codec of pictures, the cipher of
media and the tokenizer are one outcome or a weight each.  Prompts and the wording of replies
are left out.  The scripts under `src/scripts` are tests.

In modelled parts: in `InboundQueue` the exit of a worker at process shutdown; in
`Connection` the cancellation of a caller or of `run_forever`; in `LlmCall` `reset_binding`,
which has no caller; in `SessionStore` the sweep of old workspace files (its effect on
pictures is `RemoveImage` of `ImageText`).  Time is a choice of when a limit is reached,
except in `AdminPanel` and `CallLogs`, which have a clock.  A flush that is put off for as long as turns follow
each other faster than the debounce (`session/persistence.py:165`) needs time and infinitely many
turns.

## 9. What remains

1. What the passing properties except by name and the code could be changed to keep: a
   `/new` that meets a turn or a thread, `swallowed` keys, turns `erased` before they were adopted,
   racing commands of the daemon, overlapping `add-user` runs.
2. `Solo` with roles that are not distinct, once the code says what two bots of one role
   and one file should do.
