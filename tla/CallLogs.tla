------------------------------ MODULE CallLogs ------------------------------
(***************************************************************************)
(* The debug logs of LLM calls: one file for each completed call           *)
(* (llm/debug_logger.py) and one for each HTTP request and response of it  *)
(* (llm/http_debug_logger.py), written by llm/openai_provider.py.          *)
(*                                                                         *)
(* Calls are made by concurrent tasks, each with its own context variable; *)
(* writes are synchronous.  Two session ids may be mapped to one workspace *)
(* and so to one directory.  File names hold the time in milliseconds, a   *)
(* number of the session, and the kind.  (The role in the name is left     *)
(* out: here names collide more often, not less.  So is a directory that   *)
(* cannot be written, which costs the log and nothing else.)               *)
(***************************************************************************)
EXTENDS Integers, Sequences, FiniteSets

CONSTANTS ClTasks, ClSessions,   \* tasks that make calls; session ids
          ClDir,                 \* by session: its directory
          ClSessionOf,           \* by task: the sessions it makes calls for
          ClParts,               \* by session: what its messages consist of
          ClMaxAttempts,
          ClDigits,              \* the first number that needs one more digit
          ClMaxCalls, ClMaxTime  \* bounds

VARIABLES
    http,       \* http_debug_log_enabled: fixed when the providers are made
    debug,      \* debug_log_enabled, of the chat and of the vision provider
    seqNo,      \* _seq_by_session of debug_logger and of http_debug_logger
    ctx,        \* by task: _http_log_ctx, NoCtx outside of a call
    call,       \* by task: the call it makes
    files,      \* the files: their names with what is in them
    now,        \* the clock
    made,       \* calls begun
    count       \* ghost: files written, and calls that ended

clVars == <<http, debug, seqNo, ctx, call, files, now, made, count>>

Loggers == {"call", "http"}
NoCtx == [id |-> 0, index |-> 0]
NoCall == [id |-> 0, session |-> "", try |-> 0, index |-> 0, at |-> "idle", parts |-> {}]

ClInit ==
    /\ http \in BOOLEAN /\ debug = TRUE
    /\ seqNo = [l \in Loggers |-> [s \in ClSessions |-> 0]]
    /\ ctx = [t \in ClTasks |-> NoCtx] /\ call = [t \in ClTasks |-> NoCall]
    /\ files = {} /\ now = 0 /\ made = 0
    /\ count = [written |-> 0, ended |-> {}]

-----------------------------------------------------------------------------
(* Writing a file *)

\* Two random bytes, taken not to have come up before.
Suffixed(name) == [name EXCEPT !.sfx = Cardinality(files) + 1]

\* Mutant: a name that is taken is not looked for.
NameAsItIs(name) == name

\* A name that is taken gets a random suffix.
FreeName(name) ==
    IF name \in {f.name : f \in files} THEN Suffixed(name) ELSE name

Of(s) == {f \in files : f.session = s}

\* write_call_log.  Like write_text, the last to write a name has it.
Write(logger, s, kind, content) ==
    LET n == seqNo[logger][s] + 1
        name == FreeName([dir |-> ClDir[s], ts |-> now, seq |-> n, kind |-> kind, sfx |-> 0])
    IN /\ seqNo' = [seqNo EXCEPT ![logger][s] = n]
       /\ files' = {f \in files : f.name # name} \cup
                   {[name |-> name, nth |-> Cardinality(Of(s)) + 1, session |-> s, has |-> content]}

\* write_http_request_log, write_http_response_log: the bodies as they are.
WriteRequest(t) ==
    Write("http", call[t].session, "request",
          [id |-> ctx[t].id, index |-> ctx[t].index + 1, parts |-> {}])
WriteResponse(t) ==
    Write("http", call[t].session, "response",
          [id |-> ctx[t].id, index |-> call[t].index, parts |-> {}])

\* redact_messages: pictures are replaced in a copy of the messages.
Redacted(parts) == {IF p = "picture" THEN "marker" ELSE p : p \in parts}

-----------------------------------------------------------------------------
(* complete *)

\* _to_openai_messages: a picture that cannot be shown becomes a text.
Payload(parts) == {IF p = "lost" THEN "text" ELSE p : p \in parts}

Begin(t) ==
    /\ call[t] = NoCall /\ made < ClMaxCalls
    /\ made' = made + 1
    /\ \E s \in ClSessionOf[t] :
          call' = [call EXCEPT ![t] = [id |-> made + 1, session |-> s, try |-> 0, index |-> 0,
                                       at |-> "ready", parts |-> Payload(ClParts[s])]]
    /\ ctx' = [ctx EXCEPT ![t] = IF http THEN [id |-> made + 1, index |-> 0] ELSE @]
    /\ UNCHANGED <<http, debug, seqNo, files, now, count>>

\* The number of a request is noted at the request itself, for its response.
NoteIndex(t) == ctx' = [ctx EXCEPT ![t].index = @ + 1]

\* Another attempt, of this key or the next; _on_http_request.
SendRequest(t) ==
    /\ call[t].at = "ready" /\ call[t].try < ClMaxAttempts
    /\ IF ctx[t] # NoCtx
       THEN /\ NoteIndex(t)
            /\ WriteRequest(t)
            /\ count' = [count EXCEPT !.written = @ + 1]
       ELSE UNCHANGED <<ctx, seqNo, files, count>>
    /\ call' = [call EXCEPT ![t] = [@ EXCEPT !.try = call[t].try + 1, !.index = ctx'[t].index,
                                           !.at = "sent"]]
    /\ UNCHANGED <<http, debug, now, made>>

\* _on_http_response reads the whole body first, be it a stream.  Then the answer
\* is taken or is the reason for another attempt.
Respond(t) ==
    /\ call[t].at = "sent"
    /\ IF ctx[t] # NoCtx
       THEN /\ WriteResponse(t)
            /\ count' = [count EXCEPT !.written = @ + 1]
       ELSE UNCHANGED <<seqNo, files, count>>
    /\ \E at \in {"ready", "answered"} : call' = [call EXCEPT ![t].at = at]
    /\ UNCHANGED <<http, debug, ctx, now, made>>

\* No response comes: the connection breaks or times out.
Break(t) ==
    /\ call[t].at = "sent"
    /\ call' = [call EXCEPT ![t].at = "ready"]
    /\ UNCHANGED <<http, debug, seqNo, ctx, files, now, made, count>>

\* The finally of complete.
ResetCtx(t) == ctx' = [ctx EXCEPT ![t] = NoCtx]

\* _maybe_write_log, for an answer and for an error that is raised.
Finish(t) ==
    /\ \/ call[t].at = "answered"
       \/ call[t].at = "ready" /\ call[t].try = ClMaxAttempts
    /\ ResetCtx(t)
    /\ IF debug
       THEN /\ Write("call", call[t].session, "call",
                     [id |-> call[t].id, index |-> 0, parts |-> Redacted(call[t].parts)])
            /\ count' = [written |-> count.written + 1, ended |-> count.ended \cup {call[t].id}]
       ELSE UNCHANGED <<seqNo, files, count>>
    /\ call' = [call EXCEPT ![t] = NoCall]
    /\ UNCHANGED <<http, debug, now, made>>

\* /stop: CancelledError passes by the handlers, and no log is written.
CancelCall(t) ==
    /\ call[t] # NoCall
    /\ ResetCtx(t) /\ call' = [call EXCEPT ![t] = NoCall]
    /\ UNCHANGED <<http, debug, seqNo, files, now, made, count>>

\* A reload pushes debug_log_enabled into both providers, if they are two.
ReloadKnobs ==
    /\ debug' = ~debug
    /\ UNCHANGED <<http, seqNo, ctx, call, files, now, made, count>>

Tick ==
    /\ now < ClMaxTime /\ now' = now + 1
    /\ UNCHANGED <<http, debug, seqNo, ctx, call, files, made, count>>

ClNext ==
    \/ ReloadKnobs \/ Tick
    \/ \E t \in ClTasks :
          Begin(t) \/ SendRequest(t) \/ Respond(t) \/ Break(t) \/ Finish(t) \/ CancelCall(t)

ClSpec == ClInit /\ [][ClNext]_clVars

-----------------------------------------------------------------------------
(* Properties *)

\* No file is written over, also if two sessions share a directory.
NothingOverwritten == Cardinality(files) = count.written

\* Each response is filed with a request of its own call, whatever other tasks
\* send in between and however many attempts had no response.
ResponsesPaired ==
    \A r \in {f \in files : f.name.kind = "response"} :
        /\ \E q \in files : /\ q.name.kind = "request" /\ q.has.id = r.has.id
                            /\ q.has.index = r.has.index /\ q.nth < r.nth
        /\ \A s \in files : s.name.kind = "response" /\ s.has.id = r.has.id
                            /\ s.has.index = r.has.index => s = r

\* A call that ended while the log was on has one file, without its pictures.
CallsLogged ==
    LET logs == {f \in files : f.name.kind = "call"}
    IN /\ {f.has.id : f \in logs} = count.ended /\ Cardinality(logs) = Cardinality(count.ended)
       /\ \A f \in logs : "picture" \notin f.has.parts

\* The names of one session sort as the files were written (debug_logger.py:9-11:
\* seq keeps them sortable when the clock collides), until the number grows out
\* of its three digits.
Before(m, n) == m.ts < n.ts \/ (m.ts = n.ts /\ m.seq < n.seq)
NamesSort ==
    \A f, g \in files :
        /\ f.session = g.session /\ f.nth < g.nth
        /\ f.name.kind = "call" <=> g.name.kind = "call"
        /\ f.name.seq < ClDigits /\ g.name.seq < ClDigits
        => Before(f.name, g.name)

CallLogsSound == NothingOverwritten /\ ResponsesPaired /\ CallsLogged /\ NamesSort
=============================================================================
