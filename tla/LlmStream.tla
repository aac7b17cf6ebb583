------------------------------ MODULE LlmStream -----------------------------
(***************************************************************************)
(* One attempt of the provider to read a completion, and the next attempt  *)
(* after it (llm/openai_provider.py, llm/repetition.py): text and tool     *)
(* calls put together from the deltas of a stream, the reasoning taken out *)
(* of what users see, the output that has fallen into repetition cut off.  *)
(* Which key an attempt uses and how often it is tried is LlmCall's.       *)
(*                                                                         *)
(* Text is a sequence of tokens: a reasoning tag (whole, or in the halves  *)
(* a chunk may end between), reasoning, white space or an answer.          *)
(***************************************************************************)
EXTENDS Integers, Sequences, SequencesExt, FiniteSets

CONSTANTS LsMaxText,       \* bound on the text tokens of an attempt
          LsCalls,         \* tool calls of a completion: indices 0..LsCalls-1
          LsMaxArgs,       \* bound on the argument deltas of an attempt
          LsMinWindow,     \* the smallest of _WINDOWS, in tokens
          LsCheckStep,     \* CHECK_STEP_CHARS, in tokens
          LsMaxAttempts    \* bound on attempts

VARIABLES
    streaming,  \* _use_streaming
    content,    \* content_parts of the attempt
    calls,      \* tool_calls_by_index: arguments so far
    checked,    \* checked_content_len
    preview,    \* what stream_text_callback pushed last
    result,     \* the completion returned, NoResult before
    attempt,
    sent,       \* ghost: the model's text and arguments in this attempt
    mode,       \* ghost: where the model's text is: lead, opening, think, answer
    loopAt      \* ghost: tokens before the model began to repeat itself, or Never

lsVars == <<streaming, content, calls, checked, preview, result, attempt, sent, mode, loopAt>>

Never == -1
NoResult == [text |-> << >>, calls |-> << >>, is |-> "none"]
Indices == 0..LsCalls - 1
NoCalls == [i \in Indices |-> << >>]

LsInit ==
    /\ streaming \in BOOLEAN /\ content = << >> /\ calls = NoCalls /\ checked = 0
    /\ preview = << >> /\ result = NoResult /\ attempt = 1
    /\ sent = [text |-> << >>, calls |-> NoCalls] /\ mode = "lead" /\ loopAt = Never

-----------------------------------------------------------------------------
(* _strip_thinking_markup *)

IsSpace(t) == t = "space"
LStrip(text) ==
    LET solid == {i \in 1..Len(text) : ~IsSpace(text[i])}
    IN  IF solid = {} THEN << >>
        ELSE SubSeq(text, CHOOSE i \in solid : \A j \in solid : i <= j, Len(text))
Strip(text) == Reverse(LStrip(Reverse(LStrip(text))))

OpensThinking(text) ==
    LET t == LStrip(text)
    IN  (t # << >> /\ t[1] = "open") \/ (Len(t) > 1 /\ t[1] = "op" /\ t[2] = "en")

\* After the first closing tag; nothing while there is none.
Visible(text) ==
    IF ~OpensThinking(text) THEN text
    ELSE LET ends == {i \in 1..Len(text) : text[i] = "close"}
         IN  IF ends = {} THEN << >>
             ELSE Strip(SubSeq(text, (CHOOSE i \in ends : \A j \in ends : i <= j) + 1, Len(text)))

-----------------------------------------------------------------------------
(* find_degenerate_repeat: some window of the tail lies inside the loop *)

Degenerate(len) == loopAt # Never /\ len - loopAt >= LsMinWindow

\* Every CHECK_STEP_CHARS a check.
Due(len) == len - checked >= LsCheckStep

-----------------------------------------------------------------------------
(* The model's next token: a well-formed text, which may be cut anywhere *)

Follows(t, m) ==
    CASE t = "space" -> m = "lead" \/ m = "answer"
      [] t = "open"  -> m = "lead"
      [] t = "op"    -> m = "lead"
      [] t = "en"    -> m = "opening"
      [] t = "why"   -> m = "think"
      [] t = "close" -> m = "think"
      [] t = "ans"   -> m \in {"lead", "answer"}

Mode(t) ==
    CASE t = "space" -> mode
      [] t = "op" -> "opening"
      [] t \in {"open", "en", "why"} -> "think"
      [] t \in {"close", "ans"} -> "answer"

Tokens == {"space", "open", "op", "en", "why", "close", "ans"}

Running == result = NoResult

\* Mutant: the text of the broken attempt is gone on with.
FreshKeepsText ==
    /\ content' = content /\ calls' = NoCalls /\ checked' = 0

\* A fresh attempt: _complete_with_streaming starts from nothing.  The preview
\* stays until the next push replaces it.
Fresh ==
    /\ content' = << >> /\ calls' = NoCalls /\ checked' = 0

Retry ==
    /\ attempt' = attempt + 1 /\ Fresh
    /\ sent' = [text |-> << >>, calls |-> NoCalls] /\ mode' = "lead" /\ loopAt' = Never

Fail ==
    IF attempt < LsMaxAttempts THEN Retry /\ UNCHANGED result
    ELSE /\ result' = [NoResult EXCEPT !.is = "raised"]
         /\ UNCHANGED <<content, calls, checked, attempt, sent, mode, loopAt>>

\* A content delta: check, maybe abort and close the stream, else a preview of
\* all the text so far, if any of it is visible.
TextDelta(t) ==
    /\ Running /\ streaming /\ Len(sent.text) < LsMaxText /\ Follows(t, mode)
    /\ IF Due(Len(content) + 1) /\ Degenerate(Len(content) + 1)
       THEN Fail /\ UNCHANGED preview
       ELSE /\ content' = Append(content, t)
            /\ checked' = IF Due(Len(content) + 1) THEN Len(content) + 1 ELSE checked
            /\ preview' = IF Visible(content') = << >> THEN preview ELSE Visible(content')
            /\ sent' = [sent EXCEPT !.text = Append(@, t)] /\ mode' = Mode(t)
            /\ UNCHANGED <<calls, result, attempt, loopAt>>
    /\ UNCHANGED streaming

\* The model falls into repeating itself.
Loops ==
    /\ Running /\ loopAt = Never /\ mode = "answer" /\ loopAt' = Len(sent.text)
    /\ UNCHANGED <<streaming, content, calls, checked, preview, result, attempt, sent, mode>>

\* A delta of one call; the deltas of several calls come interleaved.
ToItsCall(i, a) == calls' = [calls EXCEPT ![i] = Append(@, a)]

Args == Len(sent.calls[0]) + (IF LsCalls > 1 THEN Len(sent.calls[1]) ELSE 0)

CallDelta(i) ==
    /\ Running /\ streaming /\ Args < LsMaxArgs
    /\ ToItsCall(i, Args + 1)
    /\ sent' = [sent EXCEPT !.calls[i] = Append(@, Args + 1)]
    /\ UNCHANGED <<streaming, content, checked, preview, result, attempt, mode, loopAt>>

\* The connection breaks, an API error, a time-out.
AttemptBreaks ==
    /\ Running /\ Fail /\ UNCHANGED <<streaming, preview>>

\* The end of the stream.  No call and nothing visible is a failed attempt; what
\* was not due for a check any more is not checked.
StreamEnds ==
    /\ Running /\ streaming
    /\ IF calls = NoCalls /\ Strip(Visible(content)) = << >> THEN Fail
       ELSE /\ result' = [text |-> Visible(content), calls |-> calls, is |-> "returned"]
            /\ UNCHANGED <<content, calls, checked, attempt, sent, mode, loopAt>>
    /\ UNCHANGED <<streaming, preview>>

\* Without streaming the message comes whole, is stripped, then checked.
WholeMessage(text, args) ==
    /\ Running /\ ~streaming
    /\ IF args = NoCalls /\ Strip(Visible(text)) = << >> THEN Fail
       ELSE /\ result' = [text |-> Visible(text), calls |-> args, is |-> "returned"]
            /\ sent' = [text |-> text, calls |-> args]
            /\ UNCHANGED <<content, calls, checked, attempt, mode, loopAt>>
    /\ UNCHANGED <<streaming, preview>>

Messages == {<<"ans">>, <<"open", "why", "close", "ans">>, <<"space", "open", "why">>,
             <<"op", "en", "why", "close", "space">>, <<"space">>}

LsNext ==
    \/ \E t \in Tokens : TextDelta(t)
    \/ \E i \in Indices : CallDelta(i)
    \/ \E m \in Messages : WholeMessage(m, NoCalls)
    \/ Loops \/ AttemptBreaks \/ StreamEnds

LsSpec == LsInit /\ [][LsNext]_lsVars

-----------------------------------------------------------------------------

\* However the chunks fall and whichever attempts break, no reasoning is pushed
\* as a preview or returned (openai_provider.py:75-96, 466-472).
ReasoningStaysHidden == "why" \notin ToSet(preview) /\ "why" \notin ToSet(result.text)

\* What is returned is what the last attempt sent and nothing of an earlier one,
\* each call with its own arguments in their order.
ResultIsOneAttempt ==
    result.is = "returned" =>
        result.text = Visible(sent.text) /\ result.calls = sent.calls

\* An answer that repeats itself is cut before it is a window and a step long.
LoopsAreCut ==
    (Running /\ streaming /\ loopAt # Never) =>
        Len(content) - loopAt < LsMinWindow + LsCheckStep

\* The reader of completions, together.
CompletionsSound == ReasoningStaysHidden /\ ResultIsOneAttempt /\ LoopsAreCut
=============================================================================
