-------------------------- MODULE AgentTurnProofs ---------------------------
(***************************************************************************)
(* Proofs about AgentTurn, for any roles, tools, thresholds and caps.  A   *)
(* turn may be cut at every await, so the invariant says of each suspended *)
(* state what a cut would leave behind: which prefix of the history is     *)
(* complete in itself, which batch of calls is open and how far, and where *)
(* every note is.                                                          *)
(***************************************************************************)
EXTENDS AgentTurn, SequenceTheorems, FiniteSetTheorems, TLAPS

(***************************************************************************)
(* Messages and histories.                                                 *)
(***************************************************************************)

\* What a message of each role holds.
LEMMA MessageShape ==
    ASSUME NEW m \in Message
    PROVE  /\ m.role \in {"user", "assistant", "tool"}
           /\ m.role = "user" => m.notes \in Seq(Nat)
           /\ m.role = "assistant" => m.calls \in Seq(Calls)
           /\ m.role = "tool" => m.call \in Nat
BY DEF Message

LEMMA UserMessage ==
    ASSUME NEW ns \in Seq(Nat)
    PROVE  User(ns) \in Message /\ User(ns).role = "user" /\ User(ns).notes = ns
BY DEF Message, User

LEMMA AssistantMessage ==
    ASSUME NEW cs \in Seq(Calls)
    PROVE  /\ Assistant(cs) \in Message
           /\ Assistant(cs).role = "assistant" /\ Assistant(cs).calls = cs
BY DEF Message, Assistant

LEMMA ToolMessage ==
    ASSUME NEW k \in Nat
    PROVE  Tool(k) \in Message /\ Tool(k).role = "tool" /\ Tool(k).call = k
BY DEF Message, Tool

LEMMA AnswerMessage ==
    /\ Answer \in Message
    /\ Answer.role = "assistant" /\ Answer.calls = <<>>
<1>1. <<>> \in Seq(Calls)
  OBVIOUS
<1>. QED BY <1>1, AssistantMessage DEF Answer

\* The first n messages of g are those of h.
Agree(g, h, n) ==
    /\ n \in 0..Len(h) /\ n <= Len(g)
    /\ \A i \in 1..n : g[i] = h[i]

\* One message more, two messages more, and a history cut back.
LEMMA OneMore ==
    ASSUME NEW h \in Seq(Message), NEW m \in Message
    PROVE  LET g == h \o <<m>> IN
           /\ g \in Seq(Message) /\ Len(g) = Len(h) + 1 /\ Len(h) \in Nat
           /\ Agree(g, h, Len(h)) /\ g[Len(h) + 1] = m
BY DEF Agree

LEMMA TwoMore ==
    ASSUME NEW h \in Seq(Message), NEW m \in Message, NEW m2 \in Message
    PROVE  LET g == h \o <<m, m2>> IN
           /\ g \in Seq(Message) /\ Len(g) = Len(h) + 2 /\ Len(h) \in Nat
           /\ Agree(g, h, Len(h)) /\ g[Len(h) + 1] = m /\ g[Len(h) + 2] = m2
BY DEF Agree

LEMMA CutBack ==
    ASSUME NEW h \in Seq(Message), NEW n \in 0..Len(h)
    PROVE  LET g == SubSeq(h, 1, n) IN
           g \in Seq(Message) /\ Len(g) = n /\ Agree(g, h, n)
BY DEF Agree

LEMMA OneByOne ==
    ASSUME NEW h \in Seq(Message), NEW m \in Message, NEW m2 \in Message
    PROVE  /\ Append(h, m) = h \o <<m>>
           /\ h \o <<m, m2>> = (h \o <<m>>) \o <<m2>>
<1>1. Append(h, m) = h \o <<m>>
  BY AppendIsConcat
<1>2. <<m>> \in Seq(Message) /\ <<m2>> \in Seq(Message)
  OBVIOUS
<1>3. <<m, m2>> = <<m>> \o <<m2>>
  <2>1. <<m, m2>> \in Seq(Message) /\ <<m>> \o <<m2>> \in Seq(Message)
        /\ Len(<<m>> \o <<m2>>) = Len(<<m, m2>>)
    OBVIOUS
  <2>2. \A i \in 1..Len(<<m, m2>>) : <<m, m2>>[i] = (<<m>> \o <<m2>>)[i]
    OBVIOUS
  <2>. QED BY <2>1, <2>2, SeqEqual
<1>4. (h \o <<m>>) \o <<m2>> = h \o (<<m>> \o <<m2>>)
  BY <1>2, ConcatAssociative
<1>. QED BY <1>1, <1>3, <1>4

\* The agent of one role writes, those of the others do not.
LEMMA OneWrites ==
    ASSUME history \in [Roles -> Seq(Message)], cur \in Roles,
           NEW g \in Seq(Message), history' = [history EXCEPT ![cur] = g]
    PROVE  /\ history' \in [Roles -> Seq(Message)]
           /\ history'[cur] = g
           /\ \A r \in Roles \ {cur} : history'[r] = history[r]
OBVIOUS


(***************************************************************************)
(* The kinds of step, told by what they do to the histories.               *)
(***************************************************************************)

\* Nothing is written: outside of handle, and when a batch has been gathered.
Quiet == history' = history /\ ~InHandle /\ ~InHandle'

Gather == /\ Gathered /\ InHandle /\ InHandle'

\* handle is entered, for a history h whose end the LLM may be shown.
Enter(h, ns) ==
    /\ cur' = cur /\ pc' = "complete" /\ tripped' = FALSE
    /\ preLen' = Len(h) /\ preNotes' = ns
    /\ notes' = [notes EXCEPT ![cur] = <<>>]
    /\ history' = [history EXCEPT ![cur] = Append(h, User(ns))]
    /\ errs' = Zero /\ oks' = Zero

\* The result of the open call is recorded and the batch goes on.
GoOn ==
    /\ pc \in {"serial", "collect"} /\ Record(<<Tool(next)>>)
    /\ NextCall /\ UNCHANGED <<notes, cur, preVars, issued>>

\* The turn is closed by a reply, after a last result or at once.
Reply ==
    /\ pc = "complete" /\ Record(<<Answer>>) /\ TurnOver /\ UNCHANGED notes

Stop ==
    /\ pc = "serial" \/ (pc = "collect" /\ next = Len(calls))
    /\ Record(<<Tool(next), Answer>>) /\ TurnOver /\ UNCHANGED notes

\* A transfer leaves handle with the result of its call.
Leave ==
    /\ pc = "serial" /\ calls[next] = TransferCall
    /\ Record(<<Tool(next)>>) /\ pc' \in {"idle", "handoff"}
    /\ cur' = cur /\ UNCHANGED <<notes, issued>>

LEMMA Kinds ==
    ASSUME Next, TypeOK
    PROVE  \/ Quiet
           \/ Gather
           \/ CallAgent /\ Enter(history[cur], notes[cur]) /\ issued' = issued
           \/ /\ AskAgain
              /\ Enter(Append(history[cur], Tool(next)), Append(notes[cur], issued + 1))
           \/ ToolCalls
           \/ GoOn
           \/ Reply
           \/ Stop
           \/ Leave
           \/ Fail
<1>1. CASE StartTurn \/ SwitchRole \/ FailOutside
  BY <1>1 DEF StartTurn, SwitchRole, FailOutside, TurnOver, agentVars, Quiet, InHandle
<1>2. CASE CallAgent
  BY <1>2 DEF CallAgent, EnterHandle, Enter, sessVars
<1>3. CASE AskAgain
  BY <1>3 DEF AskAgain, EnterHandle, Enter
<1>4. CASE FinalAnswer \/ LoopCap
  BY <1>4 DEF FinalAnswer, LoopCap, Reply
<1>5. CASE SerialSuccess
  BY <1>5 DEF SerialSuccess, GoOn, Stop, sessVars, preVars
<1>6. CASE SerialToolError
  BY <1>6 DEF SerialToolError, GoOn, Stop, sessVars, preVars
<1>7. CASE SerialException
  BY <1>7 DEF SerialException, GoOn, Stop, sessVars, preVars
<1>8. CASE SwitchRequested
  BY <1>8 DEF SwitchRequested, Leave
<1>9. CASE GiveUp
  BY <1>9 DEF GiveUp, Leave, TurnOver
<1>10. CASE Gathered
  BY <1>10 DEF Gathered, Gather, InHandle
<1>11. CASE CollectToolError \/ CollectException \/ CollectSuccess
  BY <1>11 DEF CollectToolError, CollectException, CollectSuccess, Collected,
     GoOn, Stop, sessVars, preVars
<1>12. CASE ToolCalls \/ Fail
  BY <1>12
<1>. QED BY <1>1, <1>2, <1>3, <1>4, <1>5, <1>6, <1>7, <1>8, <1>9, <1>10, <1>11, <1>12
         DEF Next, Progress

(***************************************************************************)
(* Types.                                                                  *)
(***************************************************************************)

LEMMA ZeroType == Zero \in [Calls -> Nat]
BY DEF Zero

\* The variables that the end of a turn resets, and those of a handle entered.
LEMMA TurnOverTypes ==
    ASSUME TypeOK, TurnOver
    PROVE  /\ cur' \in Roles /\ transfers' \in Nat /\ pc' \in PCs
           /\ forced' \in BOOLEAN /\ target' \in Roles
           /\ calls' \in Seq(Calls) /\ next' \in Nat \ {0} /\ tripped' \in BOOLEAN
           /\ loops' \in Nat /\ errs' \in [Calls -> Nat] /\ oks' \in [Calls -> Nat]
           /\ preLen' \in Nat /\ preNotes' \in Seq(Nat) /\ turns' \in Nat /\ issued' \in Nat
<1>1. <<>> \in Seq(Calls) /\ <<>> \in Seq(Nat)
  OBVIOUS
<1>2. cur' \in Roles /\ transfers' \in Nat /\ pc' \in PCs /\ target' \in Roles
  BY DEF TypeOK, TurnOver, PCs
<1>3. calls' \in Seq(Calls) /\ preNotes' \in Seq(Nat)
  BY <1>1 DEF TurnOver
<1>4. forced' \in BOOLEAN /\ tripped' \in BOOLEAN
  BY DEF TurnOver
<1>5. next' \in Nat \ {0} /\ loops' \in Nat /\ preLen' \in Nat /\ turns' \in Nat
      /\ issued' \in Nat
  BY DEF TypeOK, TurnOver
<1>6. errs' \in [Calls -> Nat] /\ oks' \in [Calls -> Nat]
  BY ZeroType DEF TurnOver
<1>. QED BY <1>2, <1>3, <1>4, <1>5, <1>6

\* What is recorded is a message.
LEMMA RecordTypes ==
    ASSUME TypeOK, NEW ms \in Seq(Message), Record(ms)
    PROVE  history' \in [Roles -> Seq(Message)]
BY DEF TypeOK, Record

LEMMA ResultTypes ==
    ASSUME TypeOK
    PROVE  <<Answer>> \in Seq(Message) /\ <<Tool(next)>> \in Seq(Message)
           /\ <<Tool(next), Answer>> \in Seq(Message)
<1>1. Answer \in Message /\ Tool(next) \in Message
  BY AnswerMessage, ToolMessage DEF TypeOK
<1>. QED BY <1>1

LEMMA EnterTypes ==
    ASSUME TypeOK, NEW h \in Seq(Message), NEW ns \in Seq(Nat), EnterHandle(h, ns)
    PROVE  /\ history' \in [Roles -> Seq(Message)] /\ notes' \in [Roles -> Seq(Nat)]
           /\ pc' \in PCs /\ calls' \in Seq(Calls) /\ next' \in Nat \ {0}
           /\ tripped' \in BOOLEAN /\ loops' \in Nat
           /\ errs' \in [Calls -> Nat] /\ oks' \in [Calls -> Nat]
           /\ preLen' \in Nat /\ preNotes' \in Seq(Nat)
<1>1. Append(h, User(ns)) \in Seq(Message)
  BY UserMessage
<1>2. history' \in [Roles -> Seq(Message)] /\ notes' \in [Roles -> Seq(Nat)]
  BY <1>1 DEF EnterHandle, TypeOK
<1>3. Len(h) \in Nat
  OBVIOUS
<1>4. <<>> \in Seq(Calls)
  OBVIOUS
<1>5. calls' \in Seq(Calls) /\ preNotes' \in Seq(Nat)
  BY <1>4 DEF EnterHandle
<1>6. errs' \in [Calls -> Nat] /\ oks' \in [Calls -> Nat]
  BY ZeroType DEF EnterHandle
<1>7. tripped' \in BOOLEAN /\ pc' \in PCs
  BY DEF EnterHandle, PCs
<1>8. next' \in Nat \ {0} /\ loops' \in Nat /\ preLen' \in Nat
  BY <1>3 DEF EnterHandle
<1>. QED BY <1>2, <1>5, <1>6, <1>7, <1>8

LEMMA NextCallTypes ==
    ASSUME TypeOK, NextCall
    PROVE  pc' \in PCs /\ next' \in Nat \ {0} /\ calls' \in Seq(Calls)
<1>1. next + 1 \in Nat \ {0}
  BY DEF TypeOK
<1>2. <<>> \in Seq(Calls)
  OBVIOUS
<1>3. CASE next = Len(calls)
  BY <1>2, <1>3 DEF NextCall, PCs
<1>4. CASE next # Len(calls)
  BY <1>1, <1>4 DEF NextCall, TypeOK
<1>. QED BY <1>3, <1>4

\* One failure or success more of a call.
LEMMA CountTypes ==
    ASSUME NEW f \in [Calls -> Nat], NEW c
    PROVE  [f EXCEPT ![c] = @ + 1] \in [Calls -> Nat]
<1>1. CASE c \in Calls
  <2>1. f[c] + 1 \in Nat
    BY <1>1
  <2>. QED BY <2>1
<1>2. CASE c \notin Calls
  <2>1. [f EXCEPT ![c] = @ + 1] = f
    BY <1>2
  <2>. QED BY <2>1
<1>. QED BY <1>1, <1>2

LEMMA TypeStep == TypeOK /\ OpenRound /\ [Next]_vars => TypeOK'
<1>. SUFFICES ASSUME TypeOK, OpenRound, [Next]_vars PROVE TypeOK'
  OBVIOUS
<1>. USE TurnOverTypes, RecordTypes, ResultTypes, NextCallTypes
<1>1. CASE StartTurn
  BY <1>1 DEF StartTurn, TypeOK, agentVars, sessVars, batchVars, countVars, preVars, PCs
<1>2. CASE CallAgent
  <2>1. history[cur] \in Seq(Message) /\ notes[cur] \in Seq(Nat)
    BY DEF TypeOK
  <2>2. EnterHandle(history[cur], notes[cur])
    BY <1>2 DEF CallAgent
  <2>. QED BY <1>2, <2>1, <2>2, EnterTypes DEF CallAgent, TypeOK, sessVars
<1>3. CASE SwitchRole
  <2>1. Append(notes[target], issued + 1) \in Seq(Nat) /\ issued + 1 \in Nat
    BY DEF TypeOK
  <2>2. notes' \in [Roles -> Seq(Nat)]
    BY <1>3, <2>1 DEF SwitchRole, TypeOK
  <2>. QED BY <1>3, <2>1, <2>2
           DEF SwitchRole, TypeOK, batchVars, countVars, preVars, PCs
<1>4. CASE FinalAnswer \/ LoopCap
  BY <1>4 DEF FinalAnswer, LoopCap, TypeOK
<1>5. CASE ToolCalls
  <2>. PICK b \in Batches :
         /\ Record(<<Assistant(b)>>) /\ calls' = b
         /\ pc' = IF AllParallel(b) THEN "gather" ELSE "serial"
    BY <1>5 DEF ToolCalls
  <2>1. b \in Seq(Calls) /\ <<Assistant(b)>> \in Seq(Message)
    BY TurnAssumption, AssistantMessage DEF TurnAssumption
  <2>2. history' \in [Roles -> Seq(Message)]
    BY <2>1
  <2>3. calls' \in Seq(Calls) /\ pc' \in PCs /\ loops + 1 \in Nat
    BY <2>1 DEF PCs, TypeOK
  <2>4. tripped' \in BOOLEAN
    BY <1>5 DEF ToolCalls
  <2>5. next' \in Nat \ {0} /\ loops' \in Nat
    BY <1>5, <2>3 DEF ToolCalls
  <2>. QED BY <1>5, <2>2, <2>3, <2>4, <2>5 DEF ToolCalls, TypeOK, sessVars, preVars
<1>6. CASE SerialSuccess
  <2>1. CASE TurnOver
    BY <1>6, <2>1 DEF SerialSuccess, TypeOK
  <2>2. CASE ~TurnOver
    <3>1. oks' \in [Calls -> Nat]
      BY <1>6, <2>2, CountTypes DEF SerialSuccess, TypeOK
    <3>. QED BY <1>6, <2>2, <3>1 DEF SerialSuccess, TypeOK, sessVars, preVars
  <2>. QED BY <2>1, <2>2
<1>7. CASE SerialToolError
  <2>1. CASE TurnOver
    BY <1>7, <2>1 DEF SerialToolError, TypeOK
  <2>2. CASE ~TurnOver
    <3>1. errs' \in [Calls -> Nat]
      BY <1>7, <2>2, CountTypes DEF SerialToolError, TypeOK
    <3>. QED BY <1>7, <2>2, <3>1 DEF SerialToolError, TypeOK, sessVars, preVars
  <2>. QED BY <2>1, <2>2
<1>8. CASE SerialException
  BY <1>8 DEF SerialException, TypeOK, sessVars, preVars, countVars
<1>9. CASE SwitchRequested
  <2>1. transfers + 1 \in Nat
    BY DEF TypeOK
  <2>. QED BY <1>9, <2>1
           DEF SwitchRequested, TypeOK, batchVars, countVars, preVars, PCs
<1>10. CASE AskAgain
  <2>1. /\ Append(history[cur], Tool(next)) \in Seq(Message)
        /\ Append(notes[cur], issued + 1) \in Seq(Nat)
        /\ issued + 1 \in Nat /\ transfers + 1 \in Nat
    BY ToolMessage DEF TypeOK
  <2>2. EnterHandle(Append(history[cur], Tool(next)), Append(notes[cur], issued + 1))
    BY <1>10 DEF AskAgain
  <2>. QED BY <1>10, <2>1, <2>2, EnterTypes DEF AskAgain, TypeOK
<1>11. CASE GiveUp
  BY <1>11 DEF GiveUp, TypeOK
<1>12. CASE Gathered
  BY <1>12 DEF Gathered, TypeOK, agentVars, sessVars, batchVars, countVars, preVars, PCs
<1>13. ASSUME NEW trip \in BOOLEAN, NEW e \in [Calls -> Nat], NEW o \in [Calls -> Nat],
              Collected(trip, e, o)
       PROVE  TypeOK'
  BY <1>13 DEF Collected, TypeOK, sessVars, preVars
<1>14. CASE CollectToolError
  <2>. DEFINE e == [errs EXCEPT ![calls[next]] = @ + 1]
  <2>1. e \in [Calls -> Nat] /\ oks \in [Calls -> Nat]
    BY CountTypes DEF TypeOK
  <2>2. (tripped \/ e[calls[next]] >= ErrorThreshold) \in BOOLEAN
    OBVIOUS
  <2>3. Collected(tripped \/ e[calls[next]] >= ErrorThreshold, e, oks)
    BY <1>14 DEF CollectToolError
  <2>. QED BY <1>13, <2>1, <2>2, <2>3
<1>15. CASE CollectException
  BY <1>13, <1>15 DEF CollectException, TypeOK
<1>16. CASE CollectSuccess
  <2>. DEFINE o == [oks EXCEPT ![calls[next]] = @ + 1]
  <2>1. o \in [Calls -> Nat] /\ errs \in [Calls -> Nat] /\ oks \in [Calls -> Nat]
    BY CountTypes DEF TypeOK
  <2>2. (o[calls[next]] >= SuccessThreshold) \in BOOLEAN
    OBVIOUS
  <2>3. \/ Collected(TRUE, errs, oks)
        \/ Collected(o[calls[next]] >= SuccessThreshold, errs, o)
    BY <1>16 DEF CollectSuccess
  <2>. QED BY <1>13, <2>1, <2>2, <2>3
<1>17. CASE Fail
  <2>1. SubSeq(history[cur], 1, preLen) \in Seq(Message)
    BY <1>17, CutBack DEF Fail, TypeOK, OpenRound, InHandle
  <2>2. history' \in [Roles -> Seq(Message)] /\ notes' \in [Roles -> Seq(Nat)]
    BY <1>17, <2>1 DEF Fail, TypeOK
  <2>. QED BY <1>17, <2>2 DEF Fail, TypeOK
<1>18. CASE FailOutside
  BY <1>18 DEF FailOutside, TypeOK, agentVars
<1>19. CASE UNCHANGED vars
  BY <1>19 DEF vars, TypeOK, agentVars, sessVars, batchVars, countVars, preVars
<1>. QED BY <1>1, <1>2, <1>3, <1>4, <1>5, <1>6, <1>7, <1>8, <1>9, <1>10, <1>11,
            <1>12, <1>14, <1>15, <1>16, <1>17, <1>18, <1>19 DEF Next, Progress

(***************************************************************************)
(* The open batch.                                                         *)
(***************************************************************************)

\* A turn that is over is not in handle.
LEMMA OverNotInHandle ==
    ASSUME TurnOver \/ pc' \in {"idle", "handoff", "prepare"}
    PROVE  ~InHandle' /\ ~InRound'
BY DEF TurnOver, InHandle, InRound

LEMMA OpenStep == TypeOK /\ OpenRound /\ Next => OpenRound'
<1>. SUFFICES ASSUME TypeOK, OpenRound, Next PROVE OpenRound'
  OBVIOUS
<1>. DEFINE h == history[cur]
<1>0. h \in Seq(Message) /\ Len(h) \in Nat /\ next \in Nat \ {0} /\ preLen \in Nat
      /\ calls \in Seq(Calls) /\ Len(calls) \in Nat
  BY DEF TypeOK
<1>1. CASE Quiet
  BY <1>1 DEF Quiet, OpenRound, InHandle, InRound
<1>2. CASE Gather
  BY <1>2 DEF Gather, Gathered, OpenRound, InHandle, InRound, Opening,
     agentVars, sessVars, batchVars, preVars
<1>3. ASSUME NEW g \in Seq(Message), NEW ns \in Seq(Nat), Enter(g, ns)
      PROVE  OpenRound'
  <2>1. Append(g, User(ns)) \in Seq(Message) /\ Len(Append(g, User(ns))) = Len(g) + 1
        /\ Len(g) \in Nat
    BY <1>3, UserMessage
  <2>2. history'[cur'] = Append(g, User(ns)) /\ preLen' = Len(g) /\ pc' = "complete"
    BY <1>3, <2>1, OneWrites DEF Enter, TypeOK
  <2>. QED BY <2>1, <2>2 DEF OpenRound, InRound
<1>4. CASE CallAgent /\ Enter(history[cur], notes[cur])
  BY <1>3, <1>4 DEF TypeOK
<1>5. CASE Enter(Append(history[cur], Tool(next)), Append(notes[cur], issued + 1))
  <2>1. Append(h, Tool(next)) \in Seq(Message) /\ Append(notes[cur], issued + 1) \in Seq(Nat)
    BY <1>0, ToolMessage DEF TypeOK
  <2>. QED BY <1>3, <1>5, <2>1
<1>6. CASE ToolCalls
  <2>. PICK b \in Batches :
         /\ Record(<<Assistant(b)>>) /\ calls' = b
         /\ pc' = IF AllParallel(b) THEN "gather" ELSE "serial"
    BY <1>6 DEF ToolCalls
  <2>. DEFINE g == h \o <<Assistant(b)>>
  <2>1. b \in Seq(Calls) /\ b # <<>> /\ Assistant(b) \in Message
    BY TurnAssumption, AssistantMessage DEF TurnAssumption
  <2>2. 1 \in 1..Len(b)
    BY <2>1
  <2>3. g \in Seq(Message) /\ Len(g) = Len(h) + 1 /\ g[Len(h) + 1] = Assistant(b)
    BY <1>0, <2>1, OneMore
  <2>4. history'[cur'] = g /\ next' = 1 /\ preLen' = preLen
    BY <1>6, <2>3, OneWrites DEF Record, ToolCalls, TypeOK, sessVars, preVars
  <2>5. preLen < Len(h)
    BY <1>6 DEF ToolCalls, OpenRound, InHandle
  <2>6. Opening' = Len(h) + 1
    BY <1>0, <2>3, <2>4 DEF Opening
  <2>. HIDE DEF g
  <2>7. preLen' < Len(history'[cur']) /\ Opening' > preLen' + 1
    BY <1>0, <2>3, <2>4, <2>5, <2>6
  <2>8. pc' = "serial" <=> ~AllParallel(b)
    OBVIOUS
  <2>9. AllParallel(b)' = AllParallel(b)
    BY DEF AllParallel
  <2>. QED BY <2>2, <2>3, <2>4, <2>6, <2>7, <2>8 DEF OpenRound, AllParallel
<1>7. CASE GoOn
  <2>. DEFINE g == h \o <<Tool(next)>>
  <2>1. g \in Seq(Message) /\ Len(g) = Len(h) + 1 /\ g[Len(h) + 1] = Tool(next)
        /\ \A i \in 1..Len(h) : g[i] = h[i]
    BY <1>0, OneMore, ToolMessage DEF Agree
  <2>2. history'[cur'] = g /\ preLen' = preLen
    BY <1>7, <2>1, OneWrites DEF GoOn, Record, TypeOK, preVars
  <2>3. /\ preLen < Len(h) /\ next \in 1..Len(calls) /\ Opening > preLen + 1
        /\ h[Opening] = Assistant(calls)
        /\ \A j \in 1..(next - 1) : h[Opening + j] = Tool(j)
        /\ (pc = "serial" <=> ~AllParallel(calls))
    BY <1>7 DEF GoOn, OpenRound, InHandle, InRound
  <2>. HIDE DEF g
  <2>4. preLen' < Len(history'[cur'])
    BY <1>0, <2>1, <2>2, <2>3
  <2>5. CASE next = Len(calls)
    BY <1>7, <2>4, <2>5 DEF GoOn, NextCall, OpenRound, InRound
  <2>6. CASE next # Len(calls)
    <3>1. next' = next + 1 /\ pc' = pc /\ calls' = calls
      BY <1>7, <2>6 DEF GoOn, NextCall
    <3>6. Len(history[cur])' = Len(h) + 1
      BY <2>1, <2>2
    <3>7. Opening = Len(h) - next + 1 /\ Opening' = Len(history[cur])' - next' + 1
      BY DEF Opening
    <3>2. Opening' = Opening /\ Opening \in 1..Len(h) /\ Opening + next = Len(h) + 1
      BY <1>0, <2>3, <3>1, <3>6, <3>7
    <3>3. ASSUME NEW j \in 1..(next' - 1) PROVE g[Opening + j] = Tool(j)
      <4>1. CASE j = next
        BY <2>1, <3>2, <4>1
      <4>2. CASE j # next
        <5>1. j \in 1..(next - 1) /\ Opening + j \in 1..Len(h)
          BY <1>0, <3>1, <3>2, <4>2
        <5>. QED BY <2>1, <2>3, <5>1
      <4>. QED BY <4>1, <4>2
    <3>4. g[Opening] = Assistant(calls) /\ next' \in 1..Len(calls)
      <4>1. g[Opening] = h[Opening]
        BY <2>1, <3>2
      <4>2. Len(calls) \in Nat
        BY <1>0
      <4>. QED BY <2>3, <2>6, <3>1, <4>1, <4>2
    <3>5. AllParallel(calls)' = AllParallel(calls)
      BY <3>1 DEF AllParallel
    <3>. QED BY <2>2, <2>3, <2>4, <3>1, <3>2, <3>3, <3>4, <3>5 DEF OpenRound
  <2>. QED BY <2>5, <2>6
<1>8. CASE Reply \/ Stop \/ Leave \/ Fail
  <2>1. ~InHandle' /\ ~InRound'
    BY <1>8, OverNotInHandle DEF Reply, Stop, Leave, Fail
  <2>. QED BY <2>1 DEF OpenRound
<1>. QED BY <1>1, <1>2, <1>4, <1>5, <1>6, <1>7, <1>8, Kinds

LEMMA ResultBy ==
    ASSUME NEW g, NEW i \in Int, NEW k \in Int, g[i].call = k, k >= 1, k < i,
           g[i - k].role = "assistant", k <= Len(g[i - k].calls),
           \A j \in 1..k : g[i - k + j] = Tool(j)
    PROVE  ResultAt(g, i)
BY DEF ResultAt

\* The result of the open call stands where it belongs.
LEMMA OpenResult ==
    ASSUME TypeOK, OpenRound, InRound, NEW g \in Seq(Message),
           Agree(g, history[cur], Len(history[cur])),
           Len(history[cur]) < Len(g), g[Len(history[cur]) + 1] = Tool(next)
    PROVE  /\ ResultAt(g, Len(history[cur]) + 1)
           /\ Opening \in 1..Len(history[cur])
           /\ history[cur][Opening] = Assistant(calls) /\ g[Opening] = Assistant(calls)
           /\ next \in 1..Len(calls) /\ Opening + next = Len(history[cur]) + 1
           /\ \A j \in 1..next : g[Opening + j] = Tool(j)
<1>. DEFINE h == history[cur]
<1>1. h \in Seq(Message) /\ Len(h) \in Nat /\ preLen \in Nat /\ next \in Nat \ {0}
      /\ calls \in Seq(Calls)
  BY DEF TypeOK
<1>2. next \in 1..Len(calls) /\ Opening > preLen + 1 /\ h[Opening] = Assistant(calls)
      /\ \A j \in 1..(next - 1) : h[Opening + j] = Tool(j)
  BY DEF OpenRound
<1>3. Opening \in 1..Len(h) /\ Opening + next = Len(h) + 1
  BY <1>1, <1>2 DEF Opening
<1>4. \A i \in 1..Len(h) : g[i] = h[i]
  BY DEF Agree
<1>5. \A j \in 1..next : g[Opening + j] = Tool(j)
  <2>. TAKE j \in 1..next
  <2>1. CASE j = next
    BY <1>3, <2>1
  <2>2. CASE j # next
    <3>1. j \in 1..(next - 1) /\ Opening + j \in 1..Len(h)
      BY <1>1, <1>3, <2>2
    <3>. QED BY <1>2, <1>4, <3>1
  <2>. QED BY <2>1, <2>2
<1>6. g[Opening] = Assistant(calls)
  BY <1>2, <1>3, <1>4
<1>7. ResultAt(g, Len(h) + 1)
  <2>1. Tool(next).call = next
    BY <1>1, ToolMessage
  <2>2. Len(h) + 1 - next = Opening /\ next < Len(h) + 1
    BY <1>1, <1>3
  <2>3. g[Len(h) + 1].call = next
    BY <2>1
  <2>4. Assistant(calls).role = "assistant" /\ Assistant(calls).calls = calls
    BY <1>1, AssistantMessage
  <2>. HIDE DEF h
  <2>. DEFINE i == Len(h) + 1
  <2>5. i \in Int /\ next \in Int /\ i - next = Opening /\ g[i].call = next
    BY <1>1, <2>2, <2>3
  <2>. HIDE DEF i
  <2>6. g[i - next].role = "assistant" /\ next <= Len(g[i - next].calls)
    BY <1>2, <1>6, <2>4, <2>5
  <2>7. \A j \in 1..next : g[i - next + j] = Tool(j)
    BY <1>5, <2>5
  <2>8. next >= 1 /\ next < i
    BY <1>1, <2>2 DEF i
  <2>9. ResultAt(g, i)
    BY <2>5, <2>6, <2>7, <2>8, ResultBy
  <2>. QED BY <2>9 DEF i
<1>. QED BY <1>2, <1>3, <1>5, <1>6, <1>7

(***************************************************************************)
(* No stray results.                                                       *)
(***************************************************************************)

\* A result is right by the messages up to its own.
LEMMA ResultAgree ==
    ASSUME NEW g \in Seq(Message), NEW h \in Seq(Message), NEW n, Agree(g, h, n),
           NEW i \in 1..n, h[i].role = "tool", ResultAt(h, i)
    PROVE  ResultAt(g, i)
<1>. DEFINE k == h[i].call
<1>1. n \in 0..Len(h) /\ n \in Nat /\ \A j \in 1..n : g[j] = h[j]
  BY DEF Agree
<1>2. k \in Nat /\ g[i] = h[i] /\ i \in Int /\ i <= n
  BY <1>1, MessageShape
<1>3. /\ k >= 1 /\ k < i
      /\ h[i - k].role = "assistant"
      /\ k <= Len(h[i - k].calls)
      /\ \A j \in 1..k : h[i - k + j] = Tool(j)
  BY DEF ResultAt
<1>. HIDE DEF k
<1>4. g[i - k] = h[i - k]
  BY <1>1, <1>2, <1>3
<1>5. \A j \in 1..k : g[i - k + j] = Tool(j)
  <2>. TAKE j \in 1..k
  <2>1. i - k + j \in 1..n
    BY <1>1, <1>2, <1>3
  <2>. QED BY <1>1, <1>3, <2>1
<1>6. g[i].call = k
  BY <1>2 DEF k
<1>. QED BY <1>2, <1>3, <1>4, <1>5, <1>6, ResultBy

LEMMA StrayCut ==
    ASSUME NEW g \in Seq(Message), NEW h \in Seq(Message), NEW n, Agree(g, h, n),
           StrayFree(h)
    PROVE  \A i \in 1..n : g[i].role = "tool" => ResultAt(g, i)
<1>. SUFFICES ASSUME NEW i \in 1..n, g[i].role = "tool" PROVE ResultAt(g, i)
  OBVIOUS
<1>1. i \in 1..Len(h) /\ h[i].role = "tool"
  BY DEF Agree
<1>. QED BY <1>1, ResultAgree DEF StrayFree

LEMMA StrayOneMore ==
    ASSUME NEW h \in Seq(Message), StrayFree(h), NEW m \in Message,
           m.role = "tool" => ResultAt(h \o <<m>>, Len(h) + 1)
    PROVE  StrayFree(h \o <<m>>)
<1>. DEFINE g == h \o <<m>>
<1>1. g \in Seq(Message) /\ Len(g) = Len(h) + 1 /\ Agree(g, h, Len(h))
      /\ g[Len(h) + 1] = m /\ Len(h) \in Nat
  BY OneMore
<1>. HIDE DEF g
<1>2. \A i \in 1..Len(h) : g[i].role = "tool" => ResultAt(g, i)
  BY <1>1, StrayCut
<1>3. \A i \in 1..Len(g) : i \in 1..Len(h) \/ i = Len(h) + 1
  BY <1>1
<1>. QED BY <1>1, <1>2, <1>3 DEF StrayFree, g

LEMMA StrayAddResult ==
    ASSUME TypeOK, OpenRound, InRound, NoStrayResult
    PROVE  StrayFree(history[cur] \o <<Tool(next)>>)
<1>. DEFINE h == history[cur]
            g == history[cur] \o <<Tool(next)>>
<1>1. h \in Seq(Message) /\ Tool(next) \in Message /\ StrayFree(h)
  BY ToolMessage DEF TypeOK, NoStrayResult
<1>2. g \in Seq(Message) /\ Agree(g, h, Len(h)) /\ Len(h) < Len(g)
      /\ g[Len(h) + 1] = Tool(next)
  <2>1. Len(h) \in Nat /\ Len(g) = Len(h) + 1 /\ Agree(g, h, Len(h))
        /\ g[Len(h) + 1] = Tool(next) /\ g \in Seq(Message)
    BY <1>1, OneMore
  <2>. HIDE DEF g, h
  <2>. QED BY <2>1
<1>3. ResultAt(g, Len(h) + 1)
  BY <1>2, OpenResult
<1>. QED BY <1>1, <1>3, StrayOneMore

LEMMA StrayStep ==
    ASSUME TypeOK, OpenRound, NoStrayResult, Next
    PROVE  NoStrayResult'
<1>. DEFINE h == history[cur]
<1>1. h \in Seq(Message) /\ StrayFree(h) /\ next \in Nat /\ notes[cur] \in Seq(Nat)
      /\ history \in [Roles -> Seq(Message)] /\ cur \in Roles
  BY DEF TypeOK, NoStrayResult
<1>2. ASSUME NEW g \in Seq(Message), StrayFree(g), history' = [history EXCEPT ![cur] = g]
      PROVE  NoStrayResult'
  BY <1>1, <1>2 DEF NoStrayResult
<1>3. ASSUME NEW g \in Seq(Message), StrayFree(g), NEW m \in Message, m.role # "tool"
      PROVE  g \o <<m>> \in Seq(Message) /\ StrayFree(g \o <<m>>)
  BY <1>3, StrayOneMore, OneMore
<1>4. InRound => h \o <<Tool(next)>> \in Seq(Message) /\ StrayFree(h \o <<Tool(next)>>)
  BY <1>1, StrayAddResult, OneMore, ToolMessage
<1>5. CASE Quiet
  BY <1>5 DEF Quiet, NoStrayResult
<1>6. CASE Gather
  BY <1>6 DEF Gather, Gathered, agentVars, NoStrayResult
<1>7. ASSUME NEW g \in Seq(Message), StrayFree(g), NEW ns \in Seq(Nat), Enter(g, ns)
      PROVE  NoStrayResult'
  <2>1. User(ns) \in Message /\ User(ns).role # "tool"
    BY UserMessage
  <2>2. history' = [history EXCEPT ![cur] = g \o <<User(ns)>>]
    BY <1>7, <2>1, OneByOne DEF Enter
  <2>. QED BY <1>2, <1>3, <1>7, <2>1, <2>2
<1>8. CASE CallAgent /\ Enter(history[cur], notes[cur])
  BY <1>1, <1>7, <1>8
<1>9. CASE AskAgain /\ Enter(Append(history[cur], Tool(next)), Append(notes[cur], issued + 1))
  <2>1. InRound /\ Append(notes[cur], issued + 1) \in Seq(Nat)
    BY <1>9 DEF AskAgain, InRound, TypeOK
  <2>2. Append(h, Tool(next)) = h \o <<Tool(next)>>
    BY <1>1, OneByOne, ToolMessage
  <2>. QED BY <1>4, <1>7, <1>9, <2>1, <2>2
<1>10. CASE ToolCalls
  <2>. PICK b \in Batches : Record(<<Assistant(b)>>)
    BY <1>10 DEF ToolCalls
  <2>1. Assistant(b) \in Message /\ Assistant(b).role # "tool"
    BY TurnAssumption, AssistantMessage DEF TurnAssumption
  <2>. QED BY <1>1, <1>2, <1>3, <2>1 DEF Record
<1>11. CASE GoOn \/ Leave
  <2>1. InRound /\ Record(<<Tool(next)>>)
    BY <1>11 DEF GoOn, Leave, InRound
  <2>. QED BY <1>2, <1>4, <2>1 DEF Record
<1>12. CASE Reply
  BY <1>1, <1>2, <1>3, <1>12, AnswerMessage DEF Reply, Record
<1>13. CASE Stop
  <2>1. InRound /\ Record(<<Tool(next), Answer>>)
    BY <1>13 DEF Stop, InRound
  <2>2. h \o <<Tool(next), Answer>> = (h \o <<Tool(next)>>) \o <<Answer>>
    BY <1>1, OneByOne, ToolMessage, AnswerMessage
  <2>3. history' = [history EXCEPT ![cur] = (h \o <<Tool(next)>>) \o <<Answer>>]
    BY <2>1, <2>2 DEF Record
  <2>. QED BY <1>2, <1>3, <1>4, <2>1, <2>3, AnswerMessage
<1>14. CASE Fail
  <2>. DEFINE g == SubSeq(h, 1, preLen)
  <2>1. preLen \in 0..Len(h)
    BY <1>1, <1>14 DEF Fail, OpenRound, InHandle, TypeOK
  <2>2. g \in Seq(Message) /\ Len(g) = preLen /\ Agree(g, h, preLen)
    BY <1>1, <2>1, CutBack
  <2>3. history' = [history EXCEPT ![cur] = g]
    BY <1>14 DEF Fail
  <2>. HIDE DEF g
  <2>4. StrayFree(g)
    BY <1>1, <2>2, StrayCut DEF StrayFree
  <2>. QED BY <1>2, <2>2, <2>3, <2>4
<1>. QED BY <1>5, <1>6, <1>8, <1>9, <1>10, <1>11, <1>12, <1>13, <1>14, Kinds

(***************************************************************************)
(* Complete rounds.                                                        *)
(***************************************************************************)

\* Rounds are complete by the messages up to n.
LEMMA SafeAgree ==
    ASSUME NEW g \in Seq(Message), NEW h \in Seq(Message), NEW n, Agree(g, h, n),
           SafeBy(h, n, 0)
    PROVE  SafeBy(g, n, 0)
<1>1. n \in 0..Len(h) /\ n \in Nat /\ \A j \in 1..n : g[j] = h[j]
  BY DEF Agree
<1>. SUFFICES ASSUME NEW i \in 1..n, SafeRound(g[i]), NEW k \in 1..Len(g[i].calls)
              PROVE  i + k <= n /\ g[i + k] = Tool(k)
  BY DEF SafeBy, CompleteBy
<1>2. g[i] = h[i] /\ i \in 1..Len(h)
  BY <1>1
<1>3. i + k <= n /\ h[i + k] = Tool(k)
  BY <1>2 DEF SafeBy, CompleteBy
<1>4. h[i].calls \in Seq(Calls)
  BY <1>2, MessageShape DEF SafeRound
<1>5. k \in Nat /\ k >= 1
  BY <1>2, <1>4
<1>. QED BY <1>1, <1>3, <1>5

\* A message more, that opens no round.
LEMMA SafeOneMore ==
    ASSUME NEW h \in Seq(Message), NEW o, SafeBy(h, Len(h), o),
           NEW m \in Message, m.role # "assistant" \/ m = Answer
    PROVE  SafeBy(h \o <<m>>, Len(h) + 1, o)
<1>. DEFINE g == h \o <<m>>
<1>1. Len(h) \in Nat /\ g[Len(h) + 1] = m /\ \A i \in 1..Len(h) : g[i] = h[i]
  BY OneMore DEF Agree
<1>. HIDE DEF g
<1>2. SUFFICES ASSUME NEW i \in 1..(Len(h) + 1), i # o, SafeRound(g[i]),
                      NEW k \in 1..Len(g[i].calls)
               PROVE  i + k <= Len(h) + 1 /\ g[i + k] = Tool(k)
  BY DEF SafeBy, CompleteBy, g
<1>3. CASE i = Len(h) + 1
  <2>1. m = Answer
    BY <1>1, <1>2, <1>3 DEF SafeRound
  <2>2. Len(g[i].calls) = 0
    BY <1>1, <1>3, <2>1, AnswerMessage
  <2>. QED BY <1>2, <2>2
<1>4. CASE i # Len(h) + 1
  <2>1. i \in 1..Len(h) /\ g[i] = h[i]
    BY <1>1, <1>2, <1>4
  <2>2. i + k <= Len(h) /\ h[i + k] = Tool(k)
    BY <1>2, <2>1 DEF SafeBy, CompleteBy
  <2>3. h[i].calls \in Seq(Calls)
    BY <1>2, <2>1, MessageShape DEF SafeRound
  <2>4. k \in Nat /\ k >= 1
    BY <1>2, <2>1, <2>3
  <2>. QED BY <1>1, <2>1, <2>2, <2>4
<1>. QED BY <1>3, <1>4

\* A message more, that may open one.
LEMMA SafeOpens ==
    ASSUME NEW h \in Seq(Message), SafeBy(h, Len(h), 0), NEW m \in Message
    PROVE  SafeBy(h \o <<m>>, Len(h) + 1, Len(h) + 1)
<1>. DEFINE g == h \o <<m>>
<1>1. Len(h) \in Nat /\ \A i \in 1..Len(h) : g[i] = h[i]
  BY OneMore DEF Agree
<1>. HIDE DEF g
<1>2. SUFFICES ASSUME NEW i \in 1..(Len(h) + 1), i # Len(h) + 1, SafeRound(g[i]),
                      NEW k \in 1..Len(g[i].calls)
               PROVE  i + k <= Len(h) + 1 /\ g[i + k] = Tool(k)
  BY DEF SafeBy, CompleteBy, g
<1>3. i \in 1..Len(h) /\ g[i] = h[i]
  BY <1>1, <1>2
<1>4. i + k <= Len(h) /\ h[i + k] = Tool(k)
  BY <1>2, <1>3 DEF SafeBy, CompleteBy
<1>5. h[i].calls \in Seq(Calls)
  BY <1>2, <1>3, MessageShape DEF SafeRound
<1>6. k \in Nat /\ k >= 1
  BY <1>2, <1>3, <1>5
<1>. QED BY <1>1, <1>3, <1>4, <1>6

\* The open round is complete with its last result, and it need not be when it
\* is serial: a serial batch of one call is complete with its first result.
LEMMA SafeCloses ==
    ASSUME TypeOK, OpenRound, RoundsInv, InRound, pc = "serial" \/ next = Len(calls)
    PROVE  SafeBy(history[cur] \o <<Tool(next)>>, Len(history[cur]) + 1, 0)
<1>. DEFINE h == history[cur]
            g == history[cur] \o <<Tool(next)>>
<1>1. h \in Seq(Message) /\ Tool(next) \in Message /\ Tool(next).role # "assistant"
      /\ next \in Nat /\ calls \in Seq(Calls)
  BY ToolMessage DEF TypeOK
<1>2. g \in Seq(Message) /\ Agree(g, h, Len(h)) /\ Len(h) \in Nat
      /\ g[Len(h) + 1] = Tool(next) /\ Len(g) = Len(h) + 1
  BY <1>1, OneMore
<1>3. SafeBy(h, Len(h), Opening)
  BY DEF RoundsInv, TypeOK
<1>4. SafeBy(g, Len(h) + 1, Opening)
  BY <1>1, <1>3, SafeOneMore
<1>. HIDE DEF g
<1>5. /\ g[Opening] = Assistant(calls)
      /\ Opening + next = Len(h) + 1
      /\ \A j \in 1..next : g[Opening + j] = Tool(j)
      /\ next \in 1..Len(calls) /\ Opening \in Int
  BY <1>2, OpenResult
<1>6. Assistant(calls).calls = calls
  BY <1>1, AssistantMessage
<1>7. SafeRound(g[Opening]) => next = Len(calls)
  <2>1. CASE pc = "serial"
    <3>1. ~AllParallel(calls)
      BY <2>1 DEF OpenRound
    <3>2. SafeRound(g[Opening]) => Len(calls) = 1
      BY <1>5, <1>6, <3>1 DEF SafeRound
    <3>3. next \in 1..Len(calls) /\ Len(calls) \in Nat
      BY <1>1, <1>5
    <3>4. Len(calls) = 1 => next = Len(calls)
      BY <3>3
    <3>. QED BY <3>2, <3>4
  <2>. QED BY <2>1
<1>8. SafeRound(g[Opening]) => CompleteBy(g, Opening, Len(h) + 1)
  BY <1>1, <1>2, <1>5, <1>6, <1>7 DEF CompleteBy
<1>. QED BY <1>4, <1>8 DEF SafeBy, g

LEMMA RoundsStep ==
    ASSUME TypeOK, OpenRound, RoundsInv, Next
    PROVE  RoundsInv'
<1>. DEFINE h == history[cur]
            t == Tool(next)
            Clean(g) == g \in Seq(Message) /\ SafeBy(g, Len(g), 0)
<1>1. h \in Seq(Message) /\ Len(h) \in Nat /\ t \in Message /\ t.role # "assistant"
      /\ notes[cur] \in Seq(Nat) /\ history \in [Roles -> Seq(Message)] /\ cur \in Roles
  BY ToolMessage DEF TypeOK
<1>2. ~InRound => Clean(h)
  BY <1>1 DEF RoundsInv
\* A step that leaves the histories of the others alone.
<1>3. ASSUME NEW g \in Seq(Message), history' = [history EXCEPT ![cur] = g],
             SafeBy(g, Len(g), IF InRound' /\ cur' = cur THEN Opening' ELSE 0),
             InRound' => cur' = cur,
             InHandle' => cur' = cur /\ SafeBy(g, preLen', 0)
      PROVE  RoundsInv'
  <2>1. history'[cur] = g /\ \A r \in Roles \ {cur} : history'[r] = history[r]
    BY <1>1, <1>3
  <2>2. ASSUME NEW r \in Roles
        PROVE  SafeBy(history'[r], Len(history'[r]),
                      IF InRound' /\ r = cur' THEN Opening' ELSE 0)
    <3>1. CASE r = cur
      BY <1>3, <2>1, <3>1
    <3>2. CASE r # cur
      <4>1. SafeBy(history[r], Len(history[r]), 0)
        BY <3>2 DEF RoundsInv
      <4>. QED BY <1>3, <2>1, <3>2, <4>1
    <3>. QED BY <3>1, <3>2
  <2>3. InHandle' => SafeBy(history'[cur'], preLen', 0)
    BY <1>3, <2>1
  <2>. QED BY <2>2, <2>3 DEF RoundsInv, SafeBy, CompleteBy, SafeRound, AllParallel, Tool
\* One that leaves handle, or is outside of it.
<1>4. ASSUME NEW g, Clean(g), history' = [history EXCEPT ![cur] = g],
             ~InHandle', ~InRound'
      PROVE  RoundsInv'
  BY <1>3, <1>4
<1>5. ASSUME NEW g, Clean(g), NEW m \in Message, m.role # "assistant" \/ m = Answer
      PROVE  Clean(g \o <<m>>)
  BY <1>5, SafeOneMore, OneMore
<1>6. pc = "serial" \/ (pc = "collect" /\ next = Len(calls)) => Clean(h \o <<t>>)
  <2>1. ASSUME pc = "serial" \/ (pc = "collect" /\ next = Len(calls))
        PROVE  SafeBy(h \o <<t>>, Len(h) + 1, 0)
    BY <2>1, SafeCloses DEF InRound
  <2>2. h \o <<t>> \in Seq(Message) /\ Len(h \o <<t>>) = Len(h) + 1
    BY <1>1, OneMore
  <2>. QED BY <2>1, <2>2
<1>7. CASE Quiet
  <2>1. ~InRound' /\ ~InRound /\ history' = history /\ ~InHandle'
    BY <1>7 DEF Quiet, InHandle, InRound
  <2>. QED BY <2>1 DEF RoundsInv, SafeBy, CompleteBy, SafeRound, AllParallel, Tool
<1>8. CASE Gather
  <2>1. history' = history /\ InRound' /\ InRound /\ InHandle /\ cur' = cur
        /\ preLen' = preLen /\ Opening' = Opening
    BY <1>8 DEF Gather, Gathered, agentVars, sessVars, batchVars, preVars, InRound, Opening
  <2>2. SafeBy(history[cur], preLen, 0)' = SafeBy(history[cur], preLen, 0)
    BY <2>1 DEF SafeBy, CompleteBy, SafeRound, AllParallel, Tool
  <2>3. ASSUME NEW r \in Roles
        PROVE  SafeBy(history'[r], Len(history'[r]),
                      IF InRound' /\ r = cur' THEN Opening' ELSE 0)
    BY <2>1 DEF RoundsInv
  <2>. QED BY <2>1, <2>2, <2>3 DEF RoundsInv
<1>9. ASSUME NEW g, Clean(g), NEW ns \in Seq(Nat), Enter(g, ns)
      PROVE  RoundsInv'
  <2>. DEFINE k == g \o <<User(ns)>>
  <2>1. User(ns) \in Message /\ User(ns).role # "assistant"
    BY UserMessage
  <2>2. history' = [history EXCEPT ![cur] = k] /\ preLen' = Len(g) /\ cur' = cur
        /\ ~InRound'
    BY <1>9, <2>1, OneByOne DEF Enter, InRound
  <2>3. Clean(k) /\ Agree(k, g, Len(g))
    BY <1>5, <1>9, <2>1, OneMore
  <2>. HIDE DEF k
  <2>4. SafeBy(k, Len(g), 0)
    BY <1>9, <2>3, SafeAgree
  <2>. QED BY <1>3, <2>2, <2>3, <2>4
<1>10. CASE CallAgent /\ Enter(history[cur], notes[cur])
  BY <1>1, <1>2, <1>9, <1>10 DEF CallAgent, InRound
<1>11. CASE AskAgain /\ Enter(Append(history[cur], Tool(next)), Append(notes[cur], issued + 1))
  <2>1. pc = "serial" /\ Append(notes[cur], issued + 1) \in Seq(Nat)
    BY <1>11 DEF AskAgain, TypeOK
  <2>2. Append(h, t) = h \o <<t>>
    BY <1>1, OneByOne
  <2>. QED BY <1>6, <1>9, <1>11, <2>1, <2>2
<1>12. ASSUME NEW m \in Message, NEW o, Record(<<m>>), InHandle, cur' = cur,
              preLen' = preLen, SafeBy(h \o <<m>>, Len(h) + 1, o),
              o = IF InRound' THEN Opening' ELSE 0
       PROVE  RoundsInv'
  <2>. DEFINE g == h \o <<m>>
  <2>1. g \in Seq(Message) /\ Len(g) = Len(h) + 1 /\ Agree(g, h, Len(h))
    BY <1>1, OneMore
  <2>2. history' = [history EXCEPT ![cur] = g]
    BY <1>12 DEF Record
  <2>3. preLen \in 0..Len(h) /\ SafeBy(h, preLen, 0)
    BY <1>1, <1>12 DEF OpenRound, RoundsInv, TypeOK
  <2>. HIDE DEF g
  <2>4. Agree(g, h, preLen)
    BY <1>1, <2>1, <2>3 DEF Agree
  <2>5. SafeBy(g, preLen, 0)
    BY <1>1, <2>1, <2>3, <2>4, SafeAgree
  <2>6. SafeBy(g, Len(g), o)
    BY <1>12, <2>1 DEF g
  <2>. QED BY <1>3, <1>12, <2>1, <2>2, <2>5, <2>6
<1>13. CASE ToolCalls
  <2>. PICK b \in Batches : Record(<<Assistant(b)>>)
    BY <1>13 DEF ToolCalls
  <2>1. Assistant(b) \in Message
    BY TurnAssumption, AssistantMessage DEF TurnAssumption
  <2>2. InHandle /\ ~InRound /\ InRound' /\ cur' = cur /\ preLen' = preLen /\ next' = 1
    BY <1>13 DEF ToolCalls, InHandle, InRound, sessVars, preVars
  <2>3. Len(history[cur])' = Len(h) + 1
    <3>1. history'[cur] = h \o <<Assistant(b)>>
      BY <1>1 DEF Record
    <3>. QED BY <1>1, <2>1, <2>2, <3>1, OneMore
  <2>4. Opening' = Len(h) + 1
    BY <1>1, <2>2, <2>3 DEF Opening
  <2>5. SafeBy(h \o <<Assistant(b)>>, Len(h) + 1, Len(h) + 1)
    BY <1>1, <1>2, <2>1, <2>2, SafeOpens
  <2>. QED BY <1>12, <2>1, <2>2, <2>4, <2>5
<1>14. CASE GoOn
  <2>1. Record(<<t>>) /\ InHandle /\ InRound /\ cur' = cur /\ preLen' = preLen
    BY <1>14 DEF GoOn, InHandle, InRound, preVars
  <2>2. CASE next = Len(calls)
    <3>1. ~InRound'
      BY <1>14, <2>2 DEF GoOn, NextCall, InRound
    <3>2. SafeBy(h \o <<t>>, Len(h) + 1, 0)
      BY <2>1, <2>2, SafeCloses
    <3>. QED BY <1>1, <1>12, <2>1, <3>1, <3>2
  <2>3. CASE next # Len(calls)
    <3>1. next' = next + 1 /\ pc' = pc /\ InRound'
      BY <1>14, <2>3 DEF GoOn, NextCall, InRound
    <3>2. Len(history[cur])' = Len(h) + 1
      <4>1. history'[cur] = h \o <<t>>
        BY <1>1, <2>1 DEF Record
      <4>. QED BY <1>1, <2>1, <4>1, OneMore
    <3>3. Opening' = Opening
      BY <1>1, <3>1, <3>2 DEF Opening, TypeOK
    <3>4. SafeBy(h, Len(h), Opening)
      BY <1>1, <2>1 DEF RoundsInv
    <3>5. SafeBy(h \o <<t>>, Len(h) + 1, Opening)
      BY <1>1, <3>4, SafeOneMore
    <3>. QED BY <1>1, <1>12, <2>1, <3>1, <3>3, <3>5
  <2>. QED BY <2>2, <2>3
<1>15. CASE Leave
  <2>1. pc = "serial" /\ Record(<<t>>) /\ ~InHandle' /\ ~InRound'
    BY <1>15, OverNotInHandle DEF Leave
  <2>. QED BY <1>4, <1>6, <2>1 DEF Record
<1>16. CASE Reply
  <2>1. ~InRound /\ ~InHandle' /\ ~InRound' /\ Record(<<Answer>>)
    BY <1>16, OverNotInHandle DEF Reply, InRound
  <2>. QED BY <1>2, <1>4, <1>5, <2>1, AnswerMessage DEF Record
<1>17. CASE Stop
  <2>1. /\ pc = "serial" \/ (pc = "collect" /\ next = Len(calls))
        /\ Record(<<t, Answer>>) /\ ~InHandle' /\ ~InRound'
    BY <1>17, OverNotInHandle DEF Stop
  <2>2. h \o <<t, Answer>> = (h \o <<t>>) \o <<Answer>>
    BY <1>1, OneByOne, AnswerMessage
  <2>3. history' = [history EXCEPT ![cur] = (h \o <<t>>) \o <<Answer>>]
    BY <2>1, <2>2 DEF Record
  <2>. QED BY <1>4, <1>5, <1>6, <2>1, <2>3, AnswerMessage
<1>18. CASE Fail
  <2>. DEFINE g == SubSeq(h, 1, preLen)
  <2>1. preLen \in 0..Len(h) /\ SafeBy(h, preLen, 0)
    BY <1>1, <1>18 DEF Fail, OpenRound, InHandle, RoundsInv, TypeOK
  <2>2. g \in Seq(Message) /\ Len(g) = preLen /\ Agree(g, h, preLen)
    BY <1>1, <2>1, CutBack
  <2>3. history' = [history EXCEPT ![cur] = g] /\ ~InHandle' /\ ~InRound'
    BY <1>18, OverNotInHandle DEF Fail
  <2>. HIDE DEF g
  <2>4. Clean(g)
    BY <1>1, <2>1, <2>2, SafeAgree
  <2>. QED BY <1>4, <2>3, <2>4
<1>. QED BY <1>7, <1>8, <1>10, <1>11, <1>13, <1>14, <1>15, <1>16, <1>17, <1>18, Kinds

(***************************************************************************)
(* Closed histories.                                                       *)
(***************************************************************************)

\* A history is closed at n by its messages up to n.
LEMMA ClosedAgree ==
    ASSUME NEW g \in Seq(Message), NEW h \in Seq(Message), NEW n, Agree(g, h, n),
           StrayFree(h), ClosedAt(h, n)
    PROVE  ClosedAt(g, n)
<1>1. n \in 0..Len(h) /\ \A j \in 1..n : g[j] = h[j]
  BY DEF Agree
<1>2. CASE n = 0
  BY <1>2 DEF ClosedAt
<1>3. CASE n # 0
  <2>1. n \in 1..n /\ n \in 1..Len(h) /\ n \in Nat /\ g[n] = h[n]
    BY <1>1, <1>3
  <2>2. CASE h[n] = Answer
    BY <2>1, <2>2 DEF ClosedAt
  <2>3. CASE h[n] # Answer
    <3>1. h[n].role = "tool" /\ h[n - h[n].call].calls[h[n].call] = TransferCall
      BY <1>3, <2>3 DEF ClosedAt
    <3>2. h[n].call \in Nat /\ h[n].call >= 1 /\ h[n].call < n
      BY <2>1, <3>1, MessageShape DEF StrayFree, ResultAt
    <3>3. g[n - h[n].call] = h[n - h[n].call]
      BY <1>1, <2>1, <3>2
    <3>. QED BY <2>1, <3>1, <3>3 DEF ClosedAt
  <2>. QED BY <2>2, <2>3
<1>. QED BY <1>2, <1>3

\* The result of a transfer closes the history.
LEMMA TransferCloses ==
    ASSUME TypeOK, OpenRound, InRound, calls[next] = TransferCall
    PROVE  ClosedAt(history[cur] \o <<Tool(next)>>, Len(history[cur]) + 1)
<1>. DEFINE h == history[cur]
            g == history[cur] \o <<Tool(next)>>
<1>1. h \in Seq(Message) /\ Tool(next) \in Message /\ Tool(next).role = "tool"
      /\ Tool(next).call = next /\ next \in Nat /\ calls \in Seq(Calls)
  BY ToolMessage DEF TypeOK
<1>2. g \in Seq(Message) /\ Agree(g, h, Len(h)) /\ Len(h) \in Nat
      /\ g[Len(h) + 1] = Tool(next) /\ Len(g) = Len(h) + 1
  BY <1>1, OneMore
<1>. HIDE DEF g
<1>3. g[Opening] = Assistant(calls) /\ Opening + next = Len(h) + 1 /\ Opening \in Int
  BY <1>2, OpenResult
<1>. DEFINE n == Len(h) + 1
<1>4. n - next = Opening /\ n # 0
  BY <1>1, <1>2 DEF Opening
<1>5. g[n].role = "tool" /\ g[n].call = next
  BY <1>1, <1>2
<1>. HIDE DEF n, h
<1>6. g[n - g[n].call].calls = calls
  BY <1>1, <1>3, <1>4, <1>5, AssistantMessage
<1>7. ClosedAt(g, n)
  BY <1>5, <1>6 DEF ClosedAt
<1>. QED BY <1>7 DEF g, n, h

LEMMA ClosedStep ==
    ASSUME TypeOK, OpenRound, NoStrayResult, ClosedInv, Next
    PROVE  ClosedInv'
<1>. DEFINE h == history[cur]
            t == Tool(next)
<1>1. h \in Seq(Message) /\ Len(h) \in Nat /\ t \in Message /\ StrayFree(h)
      /\ notes[cur] \in Seq(Nat) /\ history \in [Roles -> Seq(Message)] /\ cur \in Roles
  BY ToolMessage DEF TypeOK, NoStrayResult
<1>2. ~InHandle => ClosedAt(h, Len(h))
  BY <1>1 DEF ClosedInv
<1>3. InHandle => preLen \in 0..Len(h) /\ ClosedAt(h, preLen)
  BY <1>1 DEF ClosedInv, OpenRound, TypeOK
<1>4. InRound => h \o <<t>> \in Seq(Message) /\ Len(h \o <<t>>) = Len(h) + 1
                 /\ StrayFree(h \o <<t>>)
  BY <1>1, StrayAddResult, OneMore
<1>5. ASSUME NEW g \in Seq(Message), history' = [history EXCEPT ![cur] = g],
             ClosedAt(g, IF InHandle' THEN preLen' ELSE Len(g)),
             InHandle' => cur' = cur
      PROVE  ClosedInv'
  <2>1. history'[cur] = g /\ \A r \in Roles \ {cur} : history'[r] = history[r]
    BY <1>1, <1>5
  <2>2. ASSUME NEW r \in Roles
        PROVE  ClosedAt(history'[r],
                        IF InHandle' /\ r = cur' THEN preLen' ELSE Len(history'[r]))
    <3>1. CASE r = cur
      BY <1>5, <2>1, <3>1
    <3>2. CASE r # cur
      <4>1. ClosedAt(history[r], Len(history[r]))
        BY <3>2 DEF ClosedInv
      <4>. QED BY <1>5, <2>1, <3>2, <4>1
    <3>. QED BY <3>1, <3>2
  <2>. QED BY <2>2 DEF ClosedInv, ClosedAt, Answer, Assistant
\* A history closed by a reply.
<1>6. ASSUME NEW g \in Seq(Message), history' = [history EXCEPT ![cur] = g \o <<Answer>>],
             ~InHandle'
      PROVE  ClosedInv'
  <2>1. g \o <<Answer>> \in Seq(Message) /\ Len(g \o <<Answer>>) = Len(g) + 1
        /\ (g \o <<Answer>>)[Len(g) + 1] = Answer
    BY AnswerMessage, OneMore
  <2>. QED BY <1>5, <1>6, <2>1 DEF ClosedAt
<1>7. CASE Quiet
  BY <1>7 DEF Quiet, ClosedInv, ClosedAt, Answer, Assistant
<1>8. CASE Gather
  <2>1. history' = history /\ InHandle' /\ InHandle /\ cur' = cur /\ preLen' = preLen
    BY <1>8 DEF Gather, Gathered, agentVars, sessVars, preVars
  <2>. QED BY <2>1 DEF ClosedInv, ClosedAt, Answer, Assistant
<1>9. ASSUME NEW g \in Seq(Message), ClosedAt(g, Len(g)), StrayFree(g),
             NEW ns \in Seq(Nat), Enter(g, ns)
      PROVE  ClosedInv'
  <2>. DEFINE k == g \o <<User(ns)>>
  <2>1. User(ns) \in Message
    BY UserMessage
  <2>2. history' = [history EXCEPT ![cur] = k] /\ preLen' = Len(g) /\ cur' = cur
        /\ InHandle'
    BY <1>9, <2>1, OneByOne DEF Enter, InHandle
  <2>3. k \in Seq(Message) /\ Agree(k, g, Len(g))
    BY <1>9, <2>1, OneMore
  <2>. HIDE DEF k
  <2>4. ClosedAt(k, Len(g))
    BY <1>9, <2>3, ClosedAgree
  <2>. QED BY <1>5, <2>2, <2>3, <2>4
<1>10. CASE CallAgent /\ Enter(history[cur], notes[cur])
  BY <1>1, <1>2, <1>9, <1>10 DEF CallAgent, InHandle
<1>11. CASE AskAgain /\ Enter(Append(history[cur], Tool(next)), Append(notes[cur], issued + 1))
  <2>1. InRound /\ Append(notes[cur], issued + 1) \in Seq(Nat) /\ calls[next] = TransferCall
    BY <1>11 DEF AskAgain, TypeOK, InRound
  <2>2. Append(h, t) = h \o <<t>>
    BY <1>1, OneByOne
  <2>3. ClosedAt(h \o <<t>>, Len(h) + 1)
    BY <2>1, TransferCloses
  <2>. QED BY <1>4, <1>9, <1>11, <2>1, <2>2, <2>3
<1>12. ASSUME NEW m \in Message, Record(<<m>>), InHandle, InHandle', cur' = cur,
              preLen' = preLen
       PROVE  ClosedInv'
  <2>. DEFINE g == h \o <<m>>
  <2>1. g \in Seq(Message) /\ Len(g) = Len(h) + 1 /\ Agree(g, h, Len(h))
    BY <1>1, OneMore
  <2>2. history' = [history EXCEPT ![cur] = g]
    BY <1>12 DEF Record
  <2>. HIDE DEF g
  <2>3. Agree(g, h, preLen)
    BY <1>1, <1>3, <1>12, <2>1 DEF Agree
  <2>4. ClosedAt(g, preLen)
    BY <1>1, <1>3, <1>12, <2>1, <2>3, ClosedAgree
  <2>. QED BY <1>5, <1>12, <2>1, <2>2, <2>4
<1>13. CASE ToolCalls
  <2>. PICK b \in Batches : Record(<<Assistant(b)>>)
                            /\ pc' = IF AllParallel(b) THEN "gather" ELSE "serial"
    BY <1>13 DEF ToolCalls
  <2>1. Assistant(b) \in Message
    BY TurnAssumption, AssistantMessage DEF TurnAssumption
  <2>2. InHandle /\ InHandle' /\ cur' = cur /\ preLen' = preLen
    BY <1>13 DEF ToolCalls, InHandle, sessVars, preVars
  <2>. QED BY <1>12, <2>1, <2>2
<1>14. CASE GoOn
  <2>1. Record(<<t>>) /\ InHandle /\ InHandle' /\ cur' = cur /\ preLen' = preLen
    BY <1>14 DEF GoOn, InHandle, NextCall, preVars
  <2>. QED BY <1>1, <1>12, <2>1
<1>15. CASE Leave
  <2>1. InRound /\ calls[next] = TransferCall /\ Record(<<t>>) /\ ~InHandle'
    BY <1>15, OverNotInHandle DEF Leave, InRound
  <2>2. ClosedAt(h \o <<t>>, Len(h) + 1)
    BY <2>1, TransferCloses
  <2>. QED BY <1>4, <1>5, <2>1, <2>2 DEF Record
<1>16. CASE Reply
  <2>1. ~InHandle' /\ Record(<<Answer>>)
    BY <1>16, OverNotInHandle DEF Reply
  <2>. QED BY <1>1, <1>6, <2>1 DEF Record
<1>17. CASE Stop
  <2>1. InRound /\ Record(<<t, Answer>>) /\ ~InHandle'
    BY <1>17, OverNotInHandle DEF Stop, InRound
  <2>2. h \o <<t, Answer>> = (h \o <<t>>) \o <<Answer>>
    BY <1>1, OneByOne, AnswerMessage
  <2>3. history' = [history EXCEPT ![cur] = (h \o <<t>>) \o <<Answer>>]
    BY <2>1, <2>2 DEF Record
  <2>. QED BY <1>4, <1>6, <2>1, <2>3
<1>18. CASE Fail
  <2>. DEFINE g == SubSeq(h, 1, preLen)
  <2>1. preLen \in 0..Len(h) /\ ClosedAt(h, preLen)
    BY <1>3, <1>18 DEF Fail, InHandle
  <2>2. g \in Seq(Message) /\ Len(g) = preLen /\ Agree(g, h, preLen)
    BY <1>1, <2>1, CutBack
  <2>3. history' = [history EXCEPT ![cur] = g] /\ ~InHandle'
    BY <1>18, OverNotInHandle DEF Fail
  <2>. HIDE DEF g
  <2>4. ClosedAt(g, Len(g))
    BY <1>1, <2>1, <2>2, ClosedAgree
  <2>. QED BY <1>5, <2>2, <2>3, <2>4
<1>. QED BY <1>7, <1>8, <1>10, <1>11, <1>13, <1>14, <1>15, <1>16, <1>17, <1>18, Kinds

(***************************************************************************)
(* Breakers.                                                               *)
(***************************************************************************)

Below(e, o) == \A c \in Calls : e[c] < ErrorThreshold /\ o[c] < SuccessThreshold

LEMMA ZeroBelow == Below(Zero, Zero)
BY TurnAssumption DEF Below, Zero, TurnAssumption

\* One failure more, or one success, short of the threshold.
LEMMA BelowOneMore ==
    ASSUME NEW e \in [Calls -> Nat], NEW o \in [Calls -> Nat], NEW c \in Calls, Below(e, o)
    PROVE  LET e2 == [e EXCEPT ![c] = @ + 1]
               o2 == [o EXCEPT ![c] = @ + 1]
           IN  /\ e2[c] = e[c] + 1 /\ o2[c] = o[c] + 1
               /\ ~(e[c] + 1 >= ErrorThreshold) => Below(e2, o)
               /\ ~(o[c] + 1 >= SuccessThreshold) => Below(e, o2)
BY TurnAssumption DEF Below, TurnAssumption

LEMMA BreakerStep ==
    ASSUME TypeOK, OpenRound, BreakerInv, Next
    PROVE  BreakerInv'
<1>. DEFINE c == calls[next]
            e == [errs EXCEPT ![c] = @ + 1]
            o == [oks EXCEPT ![c] = @ + 1]
<1>1. CASE TurnOver \/ pc' \in {"idle", "handoff", "prepare"}
  BY <1>1, OverNotInHandle DEF BreakerInv
<1>2. ASSUME tripped' = FALSE, Below(errs', oks') PROVE BreakerInv'
  BY <1>2 DEF BreakerInv, Below
<1>3. CASE CallAgent \/ AskAgain
  BY <1>2, <1>3, ZeroBelow DEF CallAgent, AskAgain, EnterHandle
<1>4. CASE Gathered
  BY <1>4 DEF Gathered, BreakerInv, batchVars, countVars, InHandle
<1>5. CASE ToolCalls
  BY <1>5 DEF ToolCalls, BreakerInv, InHandle
<1>6. InRound => c \in Calls /\ e[c] = errs[c] + 1 /\ o[c] = oks[c] + 1
  BY DEF OpenRound, TypeOK
<1>7. InRound /\ Below(errs, oks) =>
         /\ ~(e[c] >= ErrorThreshold) => Below(e, oks)
         /\ ~(o[c] >= SuccessThreshold) => Below(errs, o)
  BY <1>6, BelowOneMore DEF TypeOK
<1>8. pc = "serial" => InRound /\ tripped = FALSE /\ Below(errs, oks)
  BY DEF BreakerInv, InHandle, InRound, Below, TypeOK
<1>9. CASE SerialSuccess /\ ~TurnOver
  <2>1. pc = "serial" /\ ~(oks[c] + 1 >= SuccessThreshold) /\ oks' = o
        /\ tripped' = tripped /\ errs' = errs
    BY <1>9 DEF SerialSuccess
  <2>. HIDE DEF o, e
  <2>2. Below(errs, o)
    BY <1>6, <1>7, <1>8, <2>1
  <2>. QED BY <1>2, <1>8, <2>1, <2>2
<1>10. CASE SerialToolError /\ ~TurnOver
  <2>1. pc = "serial" /\ ~(errs[c] + 1 >= ErrorThreshold) /\ errs' = e
        /\ tripped' = tripped /\ oks' = oks
    BY <1>10 DEF SerialToolError
  <2>. HIDE DEF o, e
  <2>2. Below(e, oks)
    BY <1>6, <1>7, <1>8, <2>1
  <2>. QED BY <1>2, <1>8, <2>1, <2>2
<1>11. CASE SerialException
  BY <1>2, <1>8, <1>11 DEF SerialException, countVars
\* A result of a parallel batch: the counts are exceeded only once the
\* fallback reply is set, and then the loop ends with the batch.
<1>12. ASSUME NEW trip \in BOOLEAN, NEW e2, NEW o2, Collected(trip, e2, o2),
              pc = "collect", trip = FALSE => Below(e2, o2), ~TurnOver
       PROVE  BreakerInv'
  <2>1. tripped' = trip /\ errs' = e2 /\ oks' = o2 /\ NextCall
        /\ ~(next = Len(calls) /\ trip)
    BY <1>12 DEF Collected
  <2>2. CASE trip = FALSE
    BY <1>2, <1>12, <2>1, <2>2
  <2>3. CASE trip = TRUE
    <3>1. pc' = "collect" /\ tripped' = TRUE
      BY <1>12, <2>1, <2>3 DEF NextCall
    <3>. QED BY <3>1 DEF BreakerInv
  <2>. QED BY <2>2, <2>3
<1>13. pc = "collect" => InRound /\ (tripped = FALSE => Below(errs, oks))
  BY DEF BreakerInv, InHandle, InRound, Below, TypeOK
<1>14. CASE CollectToolError /\ ~TurnOver
  <2>. DEFINE trip == tripped \/ e[c] >= ErrorThreshold
  <2>1. pc = "collect" /\ Collected(trip, e, oks)
    BY <1>14 DEF CollectToolError
  <2>. HIDE DEF e, o
  <2>2. trip = FALSE => Below(e, oks)
    BY <1>7, <1>13, <2>1 DEF TypeOK
  <2>3. trip \in BOOLEAN
    OBVIOUS
  <2>. HIDE DEF trip
  <2>. QED BY <1>12, <1>14, <2>1, <2>2, <2>3
<1>15. CASE CollectException /\ ~TurnOver
  BY <1>12, <1>13, <1>15 DEF CollectException, TypeOK
<1>16. CASE CollectSuccess /\ ~TurnOver
  <2>. DEFINE trip == o[c] >= SuccessThreshold
  <2>1. pc = "collect" /\ IF tripped THEN Collected(TRUE, errs, oks)
                                     ELSE Collected(trip, errs, o)
    BY <1>16 DEF CollectSuccess
  <2>. HIDE DEF e, o
  <2>2. CASE tripped
    BY <1>12, <1>16, <2>1, <2>2
  <2>3. CASE ~tripped
    <3>1. trip = FALSE => Below(errs, o)
      BY <1>7, <1>13, <2>1, <2>3
    <3>2. trip \in BOOLEAN
      OBVIOUS
    <3>. HIDE DEF trip
    <3>. QED BY <1>12, <1>16, <2>1, <2>3, <3>1, <3>2
  <2>. QED BY <2>2, <2>3
<1>17. CASE StartTurn \/ SwitchRole \/ FinalAnswer \/ LoopCap \/ SwitchRequested
            \/ GiveUp \/ Fail \/ FailOutside
  BY <1>1, <1>17 DEF StartTurn, SwitchRole, FinalAnswer, LoopCap, SwitchRequested,
     GiveUp, Fail, FailOutside
<1>. QED BY <1>1, <1>3, <1>4, <1>5, <1>9, <1>10, <1>11, <1>14, <1>15, <1>16, <1>17
         DEF Next, Progress

(***************************************************************************)
(* Notes.                                                                  *)
(***************************************************************************)

\* What a history carries with one message more, and when it is cut back.
LEMMA CarriesOneMore ==
    ASSUME NEW h \in Seq(Message), NEW m \in Message, NEW n, NEW i, NEW x
    PROVE  Carries(h \o <<m>>, n, i, x) <=>
               \/ Carries(h, n, i, x)
               \/ /\ i = Len(h) + 1 /\ m.role = "user"
                  /\ x \in DOMAIN m.notes /\ m.notes[x] = n
<1>. DEFINE g == h \o <<m>>
<1>1. /\ DOMAIN g = 1..(Len(h) + 1) /\ DOMAIN h = 1..Len(h) /\ Len(h) \in Nat
      /\ g[Len(h) + 1] = m /\ \A j \in 1..Len(h) : g[j] = h[j]
  BY OneMore DEF Agree
<1>. HIDE DEF g
<1>2. CASE i = Len(h) + 1
  <2>1. i \in DOMAIN g /\ i \notin DOMAIN h /\ g[i] = m
    BY <1>1, <1>2
  <2>. QED BY <1>2, <2>1 DEF Carries, g
<1>3. CASE i # Len(h) + 1
  <2>1. i \in DOMAIN g <=> i \in DOMAIN h
    BY <1>1, <1>3
  <2>2. i \in DOMAIN h => g[i] = h[i]
    BY <1>1
  <2>. QED BY <1>3, <2>1, <2>2 DEF Carries, g
<1>. QED BY <1>2, <1>3

LEMMA CarriesCut ==
    ASSUME NEW h \in Seq(Message), NEW k \in 0..Len(h), NEW n, NEW i, NEW x
    PROVE  Carries(SubSeq(h, 1, k), n, i, x) <=> Carries(h, n, i, x) /\ i \in 1..k
<1>. DEFINE g == SubSeq(h, 1, k)
<1>1. DOMAIN g = 1..k /\ DOMAIN h = 1..Len(h) /\ \A j \in 1..k : g[j] = h[j]
  BY CutBack DEF Agree
<1>2. i \in 1..k => i \in DOMAIN h /\ g[i] = h[i]
  BY <1>1
<1>. HIDE DEF g
<1>. QED BY <1>1, <1>2 DEF Carries, g

LEMMA ToldBy ==
    ASSUME NEW r, NEW g, history'[r] = g, NEW n, NEW i, NEW x
    PROVE  Told(n, r, i, x)' <=> Carries(g, n, i, x)
BY DEF Told, Carries

LEMMA TakenStep ==
    ASSUME TypeOK, OpenRound, TakenInv, Next
    PROVE  TakenInv'
<1>. DEFINE h == history[cur]
            t == Tool(next)
<1>1. h \in Seq(Message) /\ Len(h) \in Nat /\ t \in Message /\ t.role # "user"
      /\ notes[cur] \in Seq(Nat) /\ history \in [Roles -> Seq(Message)] /\ cur \in Roles
      /\ notes \in [Roles -> Seq(Nat)] /\ preLen \in Nat
  BY ToolMessage DEF TypeOK
<1>2. CASE Quiet \/ Reply \/ Stop \/ Leave \/ Fail
  <2>1. ~InHandle'
    BY <1>2, OverNotInHandle DEF Quiet, Reply, Stop, Leave, Fail
  <2>. QED BY <2>1 DEF TakenInv
<1>3. CASE Gather
  <2>1. InHandle /\ history' = history /\ notes' = notes /\ cur' = cur /\ preLen' = preLen
        /\ preNotes' = preNotes
    BY <1>3 DEF Gather, Gathered, agentVars, sessVars, preVars
  <2>. QED BY <2>1 DEF TakenInv, User
<1>4. ASSUME NEW g \in Seq(Message), NEW ns \in Seq(Nat), Enter(g, ns)
      PROVE  TakenInv'
  <2>. DEFINE k == Append(g, User(ns))
  <2>1. k \in Seq(Message) /\ Len(k) = Len(g) + 1 /\ k[Len(g) + 1] = User(ns)
        /\ Len(g) \in Nat
    BY <1>4, UserMessage
  <2>2. history'[cur'] = k /\ notes'[cur'] = <<>> /\ preLen' = Len(g) /\ preNotes' = ns
    BY <1>1, <1>4, <2>1 DEF Enter
  <2>. HIDE DEF k
  <2>3. \A i \in (preLen' + 2)..Len(k) : FALSE
    BY <2>1, <2>2
  <2>. QED BY <2>1, <2>2, <2>3 DEF TakenInv, User
<1>5. CASE CallAgent /\ Enter(history[cur], notes[cur])
  BY <1>1, <1>4, <1>5
<1>6. CASE Enter(Append(history[cur], Tool(next)), Append(notes[cur], issued + 1))
  <2>1. Append(h, t) \in Seq(Message) /\ Append(notes[cur], issued + 1) \in Seq(Nat)
    BY <1>1 DEF TypeOK
  <2>. QED BY <1>4, <1>6, <2>1
<1>7. ASSUME NEW m \in Message, m.role # "user", Record(<<m>>), InHandle,
             UNCHANGED <<notes, cur, preLen, preNotes>>
      PROVE  TakenInv'
  <2>. DEFINE g == h \o <<m>>
  <2>1. Len(g) = Len(h) + 1 /\ g[Len(h) + 1] = m /\ \A i \in 1..Len(h) : g[i] = h[i]
    BY <1>1, OneMore DEF Agree
  <2>2. history'[cur'] = g
    BY <1>1, <1>7 DEF Record
  <2>3. preLen < Len(h)
    BY <1>7 DEF OpenRound
  <2>. HIDE DEF g
  <2>4. g[preLen + 1] = User(preNotes)
    BY <1>1, <1>7, <2>1, <2>3 DEF TakenInv
  <2>5. ASSUME NEW i \in (preLen + 2)..Len(g) PROVE g[i].role # "user"
    <3>1. CASE i = Len(h) + 1
      BY <1>7, <2>1, <3>1
    <3>2. CASE i # Len(h) + 1
      <4>1. i \in (preLen + 2)..Len(h) /\ i \in 1..Len(h)
        BY <1>1, <2>1, <3>2
      <4>. QED BY <1>7, <2>1, <4>1 DEF TakenInv
    <3>. QED BY <3>1, <3>2
  <2>. QED BY <1>7, <2>2, <2>4, <2>5 DEF TakenInv, User
<1>8. CASE ToolCalls
  <2>. PICK b \in Batches : Record(<<Assistant(b)>>)
    BY <1>8 DEF ToolCalls
  <2>1. Assistant(b) \in Message /\ Assistant(b).role # "user"
    BY TurnAssumption, AssistantMessage DEF TurnAssumption
  <2>. QED BY <1>7, <1>8, <2>1 DEF ToolCalls, InHandle, sessVars, preVars
<1>9. CASE GoOn
  BY <1>1, <1>7, <1>9 DEF GoOn, InHandle, preVars
<1>. QED BY <1>2, <1>3, <1>5, <1>6, <1>8, <1>9, Kinds

\* Where the notes are after a step decides PlacesInv.
LEMMA PlacesKept ==
    ASSUME PlacesInv, issued' = issued,
           \A r \in Roles : \A n, i : Waits(n, r, i)' <=> Waits(n, r, i),
           \A r \in Roles : \A n, i, x : Told(n, r, i, x)' <=> Told(n, r, i, x)
    PROVE  PlacesInv'
BY DEF PlacesInv, PlacesKnown, NothingLost, NothingTwice

\* A new note, which waits or is told at once.
LEMMA PlacesNewWaits ==
    ASSUME PlacesInv, issued \in Nat, issued' = issued + 1,
           NEW s \in Roles, NEW k \in Nat, \A n : ~Waits(n, s, k),
           \A r \in Roles : \A n, i : Waits(n, r, i)' <=>
               Waits(n, r, i) \/ (n = issued + 1 /\ r = s /\ i = k),
           \A r \in Roles : \A n, i, x : Told(n, r, i, x)' <=> Told(n, r, i, x)
    PROVE  PlacesInv'
<1>1. /\ issued + 1 \in Nat /\ issued + 1 \notin 1..issued
      /\ \A n \in Nat : n \in 1..(issued + 1) <=> n \in 1..issued \/ n = issued + 1
  OBVIOUS
<1>2. \A n \in 1..(issued + 1) : n \in Nat
  OBVIOUS
<1>3. (\A n \in 1..issued' : n \in 1..issued \/ n = issued + 1)
      /\ \A n \in Nat : n \in 1..issued' <=> n \in 1..issued \/ n = issued + 1
  BY <1>1, <1>2
<1>4. \A r \in Roles, i \in Nat, x \in Nat :
         ~Waits(issued + 1, r, i) /\ ~Told(issued + 1, r, i, x)
  BY <1>1 DEF PlacesInv, PlacesKnown
<1>5. PlacesKnown'
  BY <1>3 DEF PlacesInv, PlacesKnown
<1>6. NothingLost'
  BY <1>3 DEF PlacesInv, NothingLost
<1>7. NothingTwice'
  <2>1. \A n \in Nat, r \in Roles, q \in Roles, i \in Nat, j \in Nat :
           Waits(n, r, i)' /\ Waits(n, q, j)' => r = q /\ i = j
    BY <1>4 DEF PlacesInv, NothingTwice
  <2>2. \A n \in Nat, r \in Roles, q \in Roles, i \in Nat, j \in Nat, y \in Nat :
           ~(Waits(n, r, i)' /\ Told(n, q, j, y)')
    BY <1>4 DEF PlacesInv, NothingTwice
  <2>3. \A n \in Nat, r \in Roles, q \in Roles, i \in Nat, j \in Nat, x \in Nat, y \in Nat :
           Told(n, r, i, x)' /\ Told(n, q, j, y)' => r = q /\ i = j /\ x = y
    BY DEF PlacesInv, NothingTwice
  <2>. QED BY <2>1, <2>2, <2>3, Zenon DEF NothingTwice
<1>. QED BY <1>5, <1>6, <1>7 DEF PlacesInv

LEMMA PlacesNewTold ==
    ASSUME PlacesInv, issued \in Nat, issued' = issued + 1,
           NEW s \in Roles, NEW k \in Nat, \A n, x : ~Told(n, s, k, x),
           \A r \in Roles : \A n, i : Waits(n, r, i)' <=> Waits(n, r, i),
           \A r \in Roles : \A n, i, x : Told(n, r, i, x)' <=>
               Told(n, r, i, x) \/ (n = issued + 1 /\ r = s /\ i = k /\ x = 1)
    PROVE  PlacesInv'
<1>1. /\ issued + 1 \in Nat /\ issued + 1 \notin 1..issued
      /\ \A n \in Nat : n \in 1..(issued + 1) <=> n \in 1..issued \/ n = issued + 1
  OBVIOUS
<1>2. \A n \in 1..(issued + 1) : n \in Nat
  OBVIOUS
<1>3. (\A n \in 1..issued' : n \in 1..issued \/ n = issued + 1)
      /\ \A n \in Nat : n \in 1..issued' <=> n \in 1..issued \/ n = issued + 1
  BY <1>1, <1>2
<1>4. \A r \in Roles, i \in Nat, x \in Nat :
         ~Waits(issued + 1, r, i) /\ ~Told(issued + 1, r, i, x)
  BY <1>1 DEF PlacesInv, PlacesKnown
<1>5. PlacesKnown'
  BY <1>3 DEF PlacesInv, PlacesKnown
<1>6. NothingLost'
  BY <1>3 DEF PlacesInv, NothingLost
<1>7. NothingTwice'
  BY <1>4 DEF PlacesInv, NothingTwice
<1>. QED BY <1>5, <1>6, <1>7 DEF PlacesInv

\* The notes of an agent become those of a message of its history, and back.
LEMMA PlacesTaken ==
    ASSUME PlacesInv, issued' = issued,
           NEW s \in Roles, NEW k \in Nat, \A n, x : ~Told(n, s, k, x),
           \A r \in Roles : \A n, i : Waits(n, r, i)' <=> r # s /\ Waits(n, r, i),
           \A r \in Roles : \A n, i, x : Told(n, r, i, x)' <=>
               Told(n, r, i, x) \/ (r = s /\ i = k /\ Waits(n, s, x))
    PROVE  PlacesInv'
BY DEF PlacesInv, PlacesKnown, NothingLost, NothingTwice

LEMMA PlacesReturned ==
    ASSUME PlacesInv, issued' = issued,
           NEW s \in Roles, NEW k \in Nat, \A n, i : ~Waits(n, s, i),
           \A r \in Roles : \A n, i : Waits(n, r, i)' <=>
               Waits(n, r, i) \/ (r = s /\ Told(n, s, k, i)),
           \A r \in Roles : \A n, i, x : Told(n, r, i, x)' <=>
               Told(n, r, i, x) /\ ~(r = s /\ i = k)
    PROVE  PlacesInv'
<1>1. PlacesKnown'
  BY DEF PlacesInv, PlacesKnown
<1>2. NothingLost'
  BY DEF PlacesInv, NothingLost
<1>3. NothingTwice'
  BY DEF PlacesInv, NothingTwice
<1>. QED BY <1>1, <1>2, <1>3 DEF PlacesInv

LEMMA PlacesStep ==
    ASSUME TypeOK, OpenRound, TakenInv, PlacesInv, Next
    PROVE  PlacesInv'
<1>. DEFINE h == history[cur]
            t == Tool(next)
<1>1. h \in Seq(Message) /\ Len(h) \in Nat /\ t \in Message /\ t.role # "user"
      /\ notes[cur] \in Seq(Nat) /\ history \in [Roles -> Seq(Message)] /\ cur \in Roles
      /\ notes \in [Roles -> Seq(Nat)] /\ preLen \in Nat /\ issued \in Nat
      /\ preNotes \in Seq(Nat) /\ target \in Roles
  BY ToolMessage DEF TypeOK
\* Nothing is written, or only messages that are not the user's.
<1>2. ASSUME notes' = notes, issued' = issued, history' = history
      PROVE  PlacesInv'
  BY <1>2, PlacesKept DEF Waits, Told, Carries
<1>3. ASSUME notes' = notes, issued' = issued, NEW g, history' = [history EXCEPT ![cur] = g],
             \A n, i, x : Carries(g, n, i, x) <=> Carries(h, n, i, x)
      PROVE  PlacesInv'
  <2>1. ASSUME NEW r \in Roles, NEW n, NEW i, NEW x
        PROVE  Told(n, r, i, x)' <=> Told(n, r, i, x)
    <3>1. CASE r = cur
      <4>1. history'[r] = g
        BY <1>1, <1>3, <3>1
      <4>. QED BY <1>3, <3>1, <4>1, ToldBy DEF Told
    <3>2. CASE r # cur
      <4>1. history'[r] = history[r]
        BY <1>1, <1>3, <3>2
      <4>. QED BY <4>1 DEF Told, Carries
    <3>. QED BY <3>1, <3>2
  <2>2. \A r \in Roles : \A n, i : Waits(n, r, i)' <=> Waits(n, r, i)
    BY <1>3 DEF Waits
  <2>. QED BY <1>3, <2>1, <2>2, PlacesKept
<1>4. ASSUME notes' = notes, issued' = issued, NEW m \in Message, m.role # "user",
             Record(<<m>>)
      PROVE  PlacesInv'
  BY <1>1, <1>3, <1>4, CarriesOneMore DEF Record
<1>5. CASE StartTurn \/ FailOutside \/ Gather
  BY <1>2, <1>5 DEF StartTurn, FailOutside, Gather, Gathered, TurnOver, agentVars
<1>6. CASE ToolCalls
  <2>. PICK b \in Batches : Record(<<Assistant(b)>>)
    BY <1>6 DEF ToolCalls
  <2>1. Assistant(b) \in Message /\ Assistant(b).role # "user"
    BY TurnAssumption, AssistantMessage DEF TurnAssumption
  <2>. QED BY <1>4, <1>6, <2>1 DEF ToolCalls
<1>7. CASE GoOn \/ Leave \/ Reply
  BY <1>1, <1>4, <1>7, AnswerMessage DEF GoOn, Leave, Reply, TurnOver
<1>8. CASE Stop
  <2>1. h \o <<t, Answer>> = (h \o <<t>>) \o <<Answer>>
    BY <1>1, OneByOne, AnswerMessage
  <2>2. history' = [history EXCEPT ![cur] = (h \o <<t>>) \o <<Answer>>]
        /\ notes' = notes /\ issued' = issued
    BY <1>8, <2>1 DEF Stop, Record, TurnOver
  <2>3. h \o <<t>> \in Seq(Message)
    BY <1>1, OneMore
  <2>4. ASSUME NEW n, NEW i, NEW x
        PROVE  Carries((h \o <<t>>) \o <<Answer>>, n, i, x) <=> Carries(h, n, i, x)
    BY <1>1, <2>3, CarriesOneMore, AnswerMessage
  <2>. QED BY <1>3, <2>2, <2>4
\* A transfer queues its note.
<1>9. CASE SwitchRole
  <2>. DEFINE k == Len(notes[target]) + 1
  <2>1. notes' = [notes EXCEPT ![target] = Append(@, issued + 1)]
        /\ issued' = issued + 1 /\ history' = history
    BY <1>9 DEF SwitchRole
  <2>2. k \in Nat \ {0} /\ DOMAIN notes[target] = 1..(k - 1) /\ notes[target] \in Seq(Nat)
    BY <1>1
  <2>3. DOMAIN notes'[target] = 1..k /\ notes'[target][k] = issued + 1
        /\ \A i \in 1..(k - 1) : notes'[target][i] = notes[target][i]
    BY <1>1, <2>1, <2>2
  <2>4. \A r \in Roles \ {target} : notes'[r] = notes[r]
    BY <1>1, <2>1
  <2>. HIDE DEF k
  <2>5. ASSUME NEW r \in Roles, NEW n, NEW i
        PROVE  Waits(n, r, i)' <=>
                   Waits(n, r, i) \/ (n = issued + 1 /\ r = target /\ i = k)
    <3>1. CASE r # target
      BY <2>4, <3>1 DEF Waits
    <3>2. CASE r = target
      <4>1. i \in 1..k <=> i \in 1..(k - 1) \/ i = k
        BY <2>2
      <4>2. i = k => i \notin 1..(k - 1)
        BY <2>2
      <4>. QED BY <2>2, <2>3, <3>2, <4>1, <4>2 DEF Waits
    <3>. QED BY <3>1, <3>2
  <2>6. \A n : ~Waits(n, target, k)
    BY <2>2 DEF Waits
  <2>7. \A r \in Roles : \A n, i, x : Told(n, r, i, x)' <=> Told(n, r, i, x)
    BY <2>1 DEF Told, Carries
  <2>8. issued \in Nat /\ issued' = issued + 1 /\ target \in Roles /\ k \in Nat
    BY <1>1, <2>1, <2>2
  <2>. QED BY <2>5, <2>6, <2>7, <2>8, PlacesNewWaits
\* handle takes the notes of its agent.
<1>10. CASE CallAgent /\ Enter(history[cur], notes[cur]) /\ issued' = issued
  <2>. DEFINE u == User(notes[cur])
              k == Len(h) + 1
  <2>1. u \in Message /\ u.role = "user" /\ u.notes = notes[cur] /\ k \in Nat
    BY <1>1, UserMessage
  <2>2. history' = [history EXCEPT ![cur] = h \o <<u>>]
        /\ notes' = [notes EXCEPT ![cur] = <<>>]
    BY <1>1, <1>10, <2>1, OneByOne DEF Enter
  <2>3. ASSUME NEW r \in Roles, NEW n, NEW i
        PROVE  Waits(n, r, i)' <=> r # cur /\ Waits(n, r, i)
    <3>1. CASE r # cur
      BY <1>1, <2>2, <3>1 DEF Waits
    <3>2. CASE r = cur
      <4>1. notes'[r] = <<>>
        BY <1>1, <2>2, <3>2
      <4>. QED BY <3>2, <4>1 DEF Waits
    <3>. QED BY <3>1, <3>2
  <2>4. ASSUME NEW r \in Roles, NEW n, NEW i, NEW x
        PROVE  Told(n, r, i, x)' <=>
                   Told(n, r, i, x) \/ (r = cur /\ i = k /\ Waits(n, cur, x))
    <3>1. CASE r # cur
      <4>1. history'[r] = history[r]
        BY <1>1, <2>2, <3>1
      <4>. QED BY <3>1, <4>1 DEF Told, Carries
    <3>2. CASE r = cur
      <4>1. history'[r] = h \o <<u>>
        BY <1>1, <2>2, <3>2
      <4>2. Carries(h \o <<u>>, n, i, x) <=>
                Carries(h, n, i, x) \/ (i = k /\ Waits(n, cur, x))
        BY <1>1, <2>1, CarriesOneMore DEF Waits
      <4>. QED BY <3>2, <4>1, <4>2, ToldBy DEF Told
    <3>. QED BY <3>1, <3>2
  <2>5. \A n, x : ~Told(n, cur, k, x)
    BY <1>1 DEF Told, Carries
  <2>. QED BY <1>1, <1>10, <2>1, <2>3, <2>4, <2>5, PlacesTaken
\* The same agent is asked again: none of its notes waits, the new one is told.
<1>11. CASE /\ AskAgain
            /\ Enter(Append(history[cur], Tool(next)), Append(notes[cur], issued + 1))
  <2>. DEFINE ns == Append(notes[cur], issued + 1)
              g == h \o <<t>>
              u == User(ns)
              k == Len(g) + 1
  <2>1. notes[cur] = <<>> /\ ns = <<issued + 1>> /\ ns \in Seq(Nat)
    BY <1>1, <1>11 DEF AskAgain, TakenInv, InHandle
  <2>2. u \in Message /\ u.role = "user" /\ u.notes = ns
    BY <2>1, UserMessage
  <2>3. g \in Seq(Message) /\ Len(g) = Len(h) + 1 /\ Append(h, t) = g /\ k \in Nat
    BY <1>1, OneMore, OneByOne
  <2>4. Append(g, u) = g \o <<u>>
    BY <2>2, <2>3, OneByOne
  <2>5. history' = [history EXCEPT ![cur] = g \o <<u>>]
        /\ notes' = [notes EXCEPT ![cur] = <<>>] /\ issued' = issued + 1
    BY <1>11, <2>3, <2>4 DEF Enter, AskAgain
  <2>6. notes' = notes
    BY <1>1, <2>1, <2>5
  <2>7. \A r \in Roles : \A n, i : Waits(n, r, i)' <=> Waits(n, r, i)
    BY <2>6 DEF Waits
  <2>8. ASSUME NEW n, NEW x PROVE  x \in DOMAIN ns /\ ns[x] = n <=> x = 1 /\ n = issued + 1
    BY <2>1
  <2>. HIDE DEF g, u, ns, h
  <2>9. ASSUME NEW n, NEW i, NEW x
        PROVE  Carries(g \o <<u>>, n, i, x) <=>
                   Carries(h, n, i, x) \/ (n = issued + 1 /\ i = k /\ x = 1)
    <3>1. Carries(g, n, i, x) <=> Carries(h, n, i, x)
      BY <1>1, CarriesOneMore DEF g
    <3>2. Carries(g \o <<u>>, n, i, x) <=>
              Carries(g, n, i, x) \/ (i = k /\ x \in DOMAIN ns /\ ns[x] = n)
      BY <2>2, <2>3, CarriesOneMore
    <3>. QED BY <2>8, <3>1, <3>2
  <2>10. ASSUME NEW r \in Roles, NEW n, NEW i, NEW x
         PROVE  Told(n, r, i, x)' <=>
                    Told(n, r, i, x) \/ (n = issued + 1 /\ r = cur /\ i = k /\ x = 1)
    <3>1. CASE r # cur
      <4>1. history'[r] = history[r]
        BY <1>1, <2>5, <3>1
      <4>. QED BY <3>1, <4>1 DEF Told, Carries
    <3>2. CASE r = cur
      <4>1. history'[r] = g \o <<u>>
        BY <1>1, <2>5, <3>2
      <4>2. Told(n, r, i, x) <=> Carries(h, n, i, x)
        BY <3>2 DEF Told, h
      <4>. QED BY <2>9, <3>2, <4>1, <4>2, ToldBy
    <3>. QED BY <3>1, <3>2
  <2>11. \A n, x : ~Told(n, cur, k, x)
    BY <1>1, <2>3 DEF Told, Carries, h
  <2>12. issued \in Nat /\ issued' = issued + 1 /\ cur \in Roles /\ k \in Nat
    BY <1>1, <2>3, <2>5
  <2>. HIDE DEF k
  <2>. QED BY <2>7, <2>10, <2>11, <2>12, PlacesNewTold
\* A cut gives back what it takes.
<1>12. CASE Fail
  <2>. DEFINE g == SubSeq(h, 1, preLen)
              k == preLen + 1
  <2>1. /\ InHandle /\ history' = [history EXCEPT ![cur] = g]
        /\ notes' = [notes EXCEPT ![cur] = preNotes] /\ issued' = issued
    BY <1>12 DEF Fail, InHandle, TurnOver
  <2>2. /\ k \in 1..Len(h) /\ preLen \in 0..Len(h) /\ notes[cur] = <<>>
        /\ h[k] = User(preNotes) /\ \A i \in (preLen + 2)..Len(h) : h[i].role # "user"
    BY <1>1, <2>1 DEF OpenRound, TakenInv
  <2>3. ASSUME NEW n, NEW i PROVE  Told(n, cur, k, i) <=> i \in DOMAIN preNotes /\ preNotes[i] = n
    BY <1>1, <2>2, UserMessage DEF Told, Carries
  <2>4. ASSUME NEW r \in Roles, NEW n, NEW i
        PROVE  Waits(n, r, i)' <=> Waits(n, r, i) \/ (r = cur /\ Told(n, cur, k, i))
    <3>1. CASE r # cur
      BY <1>1, <2>1, <3>1 DEF Waits
    <3>2. CASE r = cur
      <4>1. notes'[r] = preNotes /\ notes[r] = <<>>
        BY <1>1, <2>1, <2>2, <3>2
      <4>. QED BY <2>3, <3>2, <4>1 DEF Waits
    <3>. QED BY <3>1, <3>2
  <2>5. ASSUME NEW n, NEW i, NEW x
        PROVE  Carries(g, n, i, x) <=> Carries(h, n, i, x) /\ i # k
    <3>1. Carries(g, n, i, x) <=> Carries(h, n, i, x) /\ i \in 1..preLen
      BY <1>1, <2>2, CarriesCut
    <3>2. Carries(h, n, i, x) => i \in 1..Len(h) /\ i \notin (preLen + 2)..Len(h)
      BY <1>1, <2>2 DEF Carries
    <3>3. i \in 1..Len(h) /\ i \notin (preLen + 2)..Len(h) => (i \in 1..preLen <=> i # k)
      BY <1>1, <2>2
    <3>. QED BY <3>1, <3>2, <3>3
  <2>6. ASSUME NEW r \in Roles, NEW n, NEW i, NEW x
        PROVE  Told(n, r, i, x)' <=> Told(n, r, i, x) /\ ~(r = cur /\ i = k)
    <3>1. CASE r # cur
      <4>1. history'[r] = history[r]
        BY <1>1, <2>1, <3>1
      <4>. QED BY <3>1, <4>1 DEF Told, Carries
    <3>2. CASE r = cur
      <4>1. history'[r] = g
        BY <1>1, <2>1, <3>2
      <4>. QED BY <2>5, <3>2, <4>1, ToldBy DEF Told
    <3>. QED BY <3>1, <3>2
  <2>7. \A n, i : ~Waits(n, cur, i)
    BY <2>2 DEF Waits
  <2>8. k \in Nat
    BY <1>1
  <2>. QED BY <1>1, <2>1, <2>4, <2>6, <2>7, <2>8, PlacesReturned
<1>13. CASE Quiet
  <2>1. Quiet => StartTurn \/ FailOutside \/ SwitchRole
    BY DEF Quiet, Next, Progress, CallAgent, EnterHandle, FinalAnswer, LoopCap,
       SerialSuccess, SerialToolError, SerialException, SwitchRequested, AskAgain,
       GiveUp, Gathered, CollectToolError, CollectException, CollectSuccess, Fail,
       ToolCalls, InHandle
  <2>. QED BY <1>5, <1>9, <1>13, <2>1
<1>. QED BY <1>5, <1>6, <1>7, <1>8, <1>10, <1>11, <1>12, <1>13, Kinds

\* A note that is in one place and in no other is counted once.
LEMMA CountedOnce ==
    ASSUME TypeOK, PlacesInv
    PROVE  NotesDeliveredOnce
<1>. SUFFICES ASSUME NEW n \in 1..issued
              PROVE  Cardinality(Queued(n)) + Cardinality(Delivered(n)) = 1
  BY DEF NotesDeliveredOnce
<1>1. n \in Nat
  OBVIOUS
<1>2. /\ \A r \in Roles : \A i : Waits(n, r, i) => i \in Nat
      /\ \A r \in Roles : \A i, x : Told(n, r, i, x) => i \in Nat /\ x \in Nat
  <2>1. ASSUME NEW r \in Roles, NEW i, Waits(n, r, i) PROVE i \in Nat
    <3>1. notes[r] \in Seq(Nat)
      BY DEF TypeOK
    <3>. QED BY <2>1, <3>1 DEF Waits
  <2>2. ASSUME NEW r \in Roles, NEW i, NEW x, Told(n, r, i, x) PROVE i \in Nat /\ x \in Nat
    <3>1. history[r] \in Seq(Message)
      BY DEF TypeOK
    <3>2. i \in 1..Len(history[r]) /\ Len(history[r]) \in Nat
      BY <2>2, <3>1 DEF Told, Carries
    <3>3. history[r][i].notes \in Seq(Nat) /\ x \in DOMAIN history[r][i].notes
      BY <2>2, <3>1, <3>2, MessageShape DEF Told, Carries
    <3>. QED BY <3>2, <3>3
  <2>. QED BY <2>1, <2>2
<1>3. \A p : p \in Queued(n) <=>
         \E r \in Roles : \E i \in DOMAIN notes[r] : p = <<r, i>> /\ Waits(n, r, i)
  BY DEF Queued
<1>4. \A p : p \in Delivered(n) <=>
         \E r \in Roles : \E i \in DOMAIN history[r], x \in Nat :
             p = <<r, i>> /\ Told(n, r, i, x)
  <2>1. ASSUME NEW p \in Delivered(n)
        PROVE  \E r \in Roles : \E i \in DOMAIN history[r], x \in Nat :
                   p = <<r, i>> /\ Told(n, r, i, x)
    BY <1>2 DEF Delivered
  <2>2. ASSUME NEW r \in Roles, NEW i \in DOMAIN history[r], NEW x \in Nat, Told(n, r, i, x)
        PROVE  <<r, i>> \in Delivered(n)
    BY <2>2 DEF Delivered, Told, Carries
  <2>. QED BY <2>1, <2>2
<1>5. CASE \E r \in Roles, i \in Nat : Waits(n, r, i)
  <2>. PICK r \in Roles, i \in Nat : Waits(n, r, i)
    BY <1>5
  <2>1. Queued(n) = {<<r, i>>}
    <3>1. <<r, i>> \in Queued(n)
      BY <1>3 DEF Waits
    <3>2. ASSUME NEW p \in Queued(n) PROVE p = <<r, i>>
      BY <1>1, <1>2, <1>3 DEF PlacesInv, NothingTwice
    <3>. QED BY <3>1, <3>2
  <2>2. Delivered(n) = {}
    BY <1>1, <1>2, <1>4 DEF PlacesInv, NothingTwice
  <2>3. Cardinality({<<r, i>>}) = 1 /\ Cardinality({}) = 0
    BY FS_Singleton, FS_EmptySet
  <2>4. 1 + 0 = 1 /\ 0 + 1 = 1
    OBVIOUS
  <2>. QED BY <2>1, <2>2, <2>3, <2>4, Zenon
<1>6. CASE \E r \in Roles, i \in Nat, x \in Nat : Told(n, r, i, x)
  <2>. PICK r \in Roles, i \in Nat, x \in Nat : Told(n, r, i, x)
    BY <1>6
  <2>1. Delivered(n) = {<<r, i>>}
    <3>1. <<r, i>> \in Delivered(n)
      BY <1>4 DEF Told, Carries
    <3>2. ASSUME NEW p \in Delivered(n) PROVE p = <<r, i>>
      BY <1>1, <1>2, <1>4 DEF PlacesInv, NothingTwice
    <3>. QED BY <3>1, <3>2
  <2>2. Queued(n) = {}
    BY <1>1, <1>2, <1>3 DEF PlacesInv, NothingTwice
  <2>3. Cardinality({<<r, i>>}) = 1 /\ Cardinality({}) = 0
    BY FS_Singleton, FS_EmptySet
  <2>4. 1 + 0 = 1 /\ 0 + 1 = 1
    OBVIOUS
  <2>. QED BY <2>1, <2>2, <2>3, <2>4, Zenon
<1>. QED BY <1>5, <1>6 DEF PlacesInv, NothingLost

(***************************************************************************)
(* The invariant, and what follows.                                        *)
(***************************************************************************)

LEMMA InitInv == Init => IInv
<1>. SUFFICES ASSUME Init PROVE IInv
  OBVIOUS
<1>1. <<>> \in Seq(Message) /\ <<>> \in Seq(Nat) /\ <<>> \in Seq(Calls)
  OBVIOUS
<1>2. history \in [Roles -> Seq(Message)] /\ notes \in [Roles -> Seq(Nat)]
      /\ calls \in Seq(Calls) /\ preNotes \in Seq(Nat)
  BY <1>1 DEF Init
<1>3. TypeOK
  <2>1. cur \in Roles /\ target \in Roles /\ pc \in PCs
    BY TurnAssumption DEF Init, PCs, TurnAssumption
  <2>2. forced \in BOOLEAN /\ tripped \in BOOLEAN
    BY DEF Init
  <2>3. transfers \in Nat /\ next \in Nat \ {0} /\ loops \in Nat /\ preLen \in Nat
        /\ turns \in Nat /\ issued \in Nat
    BY DEF Init
  <2>4. errs \in [Calls -> Nat] /\ oks \in [Calls -> Nat]
    BY ZeroType DEF Init
  <2>. QED BY <1>2, <2>1, <2>2, <2>3, <2>4 DEF TypeOK
<1>4. ~InHandle /\ ~InRound
  BY DEF Init, InHandle, InRound
<1>5. \A r \in Roles : history[r] = <<>> /\ notes[r] = <<>>
  BY DEF Init
<1>6. NoStrayResult /\ OpenRound /\ RoundsInv
  BY <1>4, <1>5 DEF NoStrayResult, StrayFree, OpenRound, RoundsInv, SafeBy
<1>7. ClosedInv /\ BreakerInv /\ TakenInv
  BY <1>4, <1>5 DEF ClosedInv, ClosedAt, BreakerInv, TakenInv
<1>8. PlacesInv
  <2>1. \A r \in Roles : \A n, i : ~Waits(n, r, i)
    BY <1>5 DEF Waits
  <2>2. \A r \in Roles : \A n, i, x : ~Told(n, r, i, x)
    BY <1>5 DEF Told, Carries
  <2>3. \A n \in 1..issued : FALSE
    BY DEF Init
  <2>. QED BY <2>1, <2>2, <2>3 DEF PlacesInv, PlacesKnown, NothingLost, NothingTwice
<1>. QED BY <1>3, <1>6, <1>7, <1>8 DEF IInv

LEMMA InvStep == IInv /\ [Next]_vars => IInv'
<1>. SUFFICES ASSUME IInv, [Next]_vars PROVE IInv'
  OBVIOUS
<1>1. TypeOK'
  BY TypeStep DEF IInv
<1>2. CASE Next
  BY <1>1, <1>2, OpenStep, StrayStep, RoundsStep, ClosedStep, BreakerStep, TakenStep,
     PlacesStep DEF IInv
<1>3. CASE UNCHANGED vars
  <2>1. NoStrayResult' /\ OpenRound' /\ ClosedInv' /\ BreakerInv'
    BY <1>3 DEF vars, agentVars, sessVars, batchVars, countVars, preVars, IInv,
       NoStrayResult, StrayFree, ResultAt, OpenRound, Opening, ClosedInv, ClosedAt,
       BreakerInv, InHandle, InRound, Answer, Assistant, Tool, AllParallel
  <2>2. RoundsInv'
    <3>1. history' = history /\ cur' = cur /\ preLen' = preLen /\ Opening' = Opening
          /\ InHandle' = InHandle /\ InRound' = InRound
      BY <1>3 DEF vars, agentVars, sessVars, batchVars, preVars, Opening, InHandle, InRound
    <3>2. SafeBy(history[cur], preLen, 0)' = SafeBy(history[cur], preLen, 0)
      BY <3>1 DEF SafeBy, CompleteBy, SafeRound, AllParallel, Tool
    <3>3. ASSUME NEW r \in Roles
          PROVE  SafeBy(history'[r], Len(history'[r]),
                        IF InRound' /\ r = cur' THEN Opening' ELSE 0)
      BY <3>1 DEF IInv, RoundsInv
    <3>. QED BY <3>1, <3>2, <3>3 DEF IInv, RoundsInv
  <2>4. TakenInv'
    BY <1>3 DEF vars, agentVars, sessVars, preVars, IInv, TakenInv, InHandle, User
  <2>3. PlacesInv'
    BY <1>3, PlacesKept DEF vars, agentVars, IInv, Waits, Told, Carries
  <2>. QED BY <1>1, <2>1, <2>2, <2>3, <2>4 DEF IInv
<1>. QED BY <1>2, <1>3

THEOREM Invariance == Spec => []IInv
BY InitInv, InvStep, PTL DEF Spec

\* The rounds of every history are sound: each result stands with its round, a
\* round of parallel calls or of one call is complete between turns, and no
\* loop goes on once a breaker should have stopped it.
THEOREM RoundsStaySound == Spec => []RoundsSound
<1>1. IInv => RoundsSound
  <2>. SUFFICES ASSUME IInv PROVE RoundsSound
    OBVIOUS
  <2>1. SafeRoundsComplete
    <3>. SUFFICES ASSUME pc = "idle", NEW r \in Roles, NEW i \in 1..Len(history[r]),
                         SafeRound(history[r][i])
                  PROVE  RoundComplete(history[r], i)
      BY DEF SafeRoundsComplete
    <3>1. ~InRound /\ i # 0
      BY DEF InRound
    <3>2. SafeBy(history[r], Len(history[r]), 0)
      BY <3>1 DEF IInv, RoundsInv
    <3>. QED BY <3>1, <3>2 DEF SafeBy, RoundComplete
  <2>2. BreakersStopTheLoop
    BY DEF IInv, BreakerInv, BreakersStopTheLoop, InHandle
  <2>. QED BY <2>1, <2>2 DEF IInv, RoundsSound
<1>. QED BY <1>1, Invariance, PTL

\* However a turn ends, by an answer, a breaker, the loop cap, a failure, /stop
\* or a transfer, every history is closed and every note is in one place.
THEOREM TurnsLeaveClean == Spec => []TurnsClean
<1>1. IInv => TurnsClean
  <2>. SUFFICES ASSUME IInv PROVE TurnsClean
    OBVIOUS
  <2>1. HistoriesClosed
    BY DEF IInv, ClosedInv, HistoriesClosed, InHandle
  <2>. QED BY <2>1, CountedOnce DEF IInv, TurnsClean
<1>. QED BY <1>1, Invariance, PTL

\* What agrees up to n has the same first n messages.
LEMMA AgreeSubSeq ==
    ASSUME NEW g \in Seq(Message), NEW h \in Seq(Message), NEW n, Agree(g, h, n)
    PROVE  Len(g) >= n /\ SubSeq(g, 1, n) = SubSeq(h, 1, n)
<1>1. n \in 0..Len(h) /\ n \in 0..Len(g) /\ \A i \in 1..n : g[i] = h[i]
  BY DEF Agree
<1>2. /\ SubSeq(g, 1, n) \in Seq(Message) /\ SubSeq(h, 1, n) \in Seq(Message)
      /\ Len(SubSeq(g, 1, n)) = n /\ Len(SubSeq(h, 1, n)) = n
      /\ \A i \in 1..n : SubSeq(g, 1, n)[i] = g[i] /\ SubSeq(h, 1, n)[i] = h[i]
  BY <1>1, CutBack DEF Agree
<1>. QED BY <1>1, <1>2, SeqEqual

\* A step never touches what a history held when handle was entered, nor the
\* histories of the other roles.
THEOREM PastStays == Spec => PastIsKept
<1>. DEFINE Past(r) == IF InHandle /\ r = cur THEN preLen ELSE Len(history[r])
            Kept == \A r \in Roles :
                /\ Len(history'[r]) >= Past(r)
                /\ SubSeq(history'[r], 1, Past(r)) = SubSeq(history[r], 1, Past(r))
<1>1. IInv /\ [Next]_vars => [Kept]_vars
  <2>. SUFFICES ASSUME IInv, Next PROVE Kept
    OBVIOUS
  <2>1. TypeOK /\ TypeOK' /\ OpenRound
    BY TypeStep DEF IInv
  <2>. DEFINE h == history[cur]
              t == Tool(next)
  <2>2. h \in Seq(Message) /\ Len(h) \in Nat /\ t \in Message /\ cur \in Roles
        /\ history \in [Roles -> Seq(Message)] /\ Past(cur) \in 0..Len(h)
        /\ notes[cur] \in Seq(Nat)
    <3>1. h \in Seq(Message) /\ next \in Nat /\ preLen \in Nat /\ cur \in Roles
          /\ history \in [Roles -> Seq(Message)] /\ notes[cur] \in Seq(Nat)
      BY <2>1 DEF TypeOK
    <3>2. t \in Message /\ Len(h) \in Nat
      BY <3>1, ToolMessage
    <3>3. InHandle => preLen < Len(h)
      BY <2>1 DEF OpenRound
    <3>. QED BY <3>1, <3>2, <3>3
  <2>3. SUFFICES ASSUME NEW r \in Roles PROVE Agree(history'[r], history[r], Past(r))
    BY <2>1, AgreeSubSeq DEF TypeOK
  <2>4. ASSUME history' = history PROVE Agree(history'[r], history[r], Past(r))
    <3>1. history[r] \in Seq(Message) /\ Past(r) \in 0..Len(history[r])
      BY <2>2
    <3>. QED BY <2>4, <3>1 DEF Agree
  <2>5. ASSUME NEW g \in Seq(Message), history' = [history EXCEPT ![cur] = g],
               Agree(g, h, Past(cur))
        PROVE  Agree(history'[r], history[r], Past(r))
    <3>1. CASE r = cur
      BY <2>2, <2>5, <3>1
    <3>2. CASE r # cur
      <4>1. history'[r] = history[r] /\ Past(r) = Len(history[r])
            /\ history[r] \in Seq(Message)
        BY <2>2, <2>5, <3>2
      <4>. QED BY <4>1 DEF Agree
    <3>. QED BY <3>1, <3>2
  <2>6. ASSUME NEW g \in Seq(Message), Agree(g, h, Len(h)), NEW m \in Message
        PROVE  g \o <<m>> \in Seq(Message) /\ Agree(g \o <<m>>, h, Len(h))
    <3>. DEFINE k == g \o <<m>>
    <3>1. k \in Seq(Message) /\ Len(k) = Len(g) + 1 /\ Agree(k, g, Len(g)) /\ Len(g) \in Nat
      BY OneMore
    <3>. HIDE DEF k
    <3>2. Agree(k, h, Len(h))
      BY <2>2, <2>6, <3>1 DEF Agree
    <3>. QED BY <3>1, <3>2 DEF k
  <2>7. ASSUME NEW g \in Seq(Message), history' = [history EXCEPT ![cur] = g],
               Agree(g, h, Len(h))
        PROVE  Agree(history'[r], history[r], Past(r))
    <3>1. Agree(g, h, Past(cur))
      BY <2>2, <2>7 DEF Agree
    <3>. QED BY <2>5, <2>7, <3>1
  <2>8. Agree(h, h, Len(h))
    BY <2>2 DEF Agree
  <2>9. h \o <<t>> \in Seq(Message) /\ Agree(h \o <<t>>, h, Len(h))
    BY <2>2, <2>6, <2>8
  <2>10. ASSUME NEW m \in Message, Record(<<m>>)
         PROVE  Agree(history'[r], history[r], Past(r))
    BY <2>2, <2>6, <2>7, <2>8, <2>10 DEF Record
  <2>11. CASE Quiet \/ Gather
    BY <2>4, <2>11 DEF Quiet, Gather, Gathered, agentVars
  <2>12. ASSUME NEW g \in Seq(Message), Agree(g, h, Len(h)), NEW ns \in Seq(Nat), Enter(g, ns)
         PROVE  Agree(history'[r], history[r], Past(r))
    <3>1. User(ns) \in Message /\ Append(g, User(ns)) = g \o <<User(ns)>>
      BY <2>12, UserMessage, OneByOne
    <3>2. history' = [history EXCEPT ![cur] = g \o <<User(ns)>>]
      BY <2>12, <3>1 DEF Enter
    <3>. QED BY <2>6, <2>7, <2>12, <3>1, <3>2
  <2>13. CASE CallAgent /\ Enter(history[cur], notes[cur])
    BY <2>2, <2>8, <2>12, <2>13
  <2>14. CASE Enter(Append(history[cur], Tool(next)), Append(notes[cur], issued + 1))
    <3>1. Append(h, t) = h \o <<t>>
      BY <2>2, OneByOne
    <3>2. Append(notes[cur], issued + 1) \in Seq(Nat)
      BY <2>1, <2>2 DEF TypeOK
    <3>. QED BY <2>9, <2>12, <2>14, <3>1, <3>2
  <2>15. CASE ToolCalls
    <3>. PICK b \in Batches : Record(<<Assistant(b)>>)
      BY <2>15 DEF ToolCalls
    <3>1. Assistant(b) \in Message
      BY TurnAssumption, AssistantMessage DEF TurnAssumption
    <3>. QED BY <2>10, <3>1
  <2>16. CASE GoOn \/ Reply \/ Leave
    BY <2>2, <2>10, <2>16, AnswerMessage DEF GoOn, Reply, Leave
  <2>17. CASE Stop
    <3>1. h \o <<t, Answer>> = (h \o <<t>>) \o <<Answer>>
      BY <2>2, OneByOne, AnswerMessage
    <3>2. history' = [history EXCEPT ![cur] = (h \o <<t>>) \o <<Answer>>]
      BY <2>17, <3>1 DEF Stop, Record
    <3>. QED BY <2>6, <2>7, <2>9, <3>2, AnswerMessage
  <2>18. CASE Fail
    <3>. DEFINE g == SubSeq(h, 1, preLen)
    <3>1. history' = [history EXCEPT ![cur] = g] /\ Past(cur) = preLen
      BY <2>18 DEF Fail, InHandle
    <3>2. g \in Seq(Message) /\ Agree(g, h, preLen)
      BY <2>2, <3>1, CutBack
    <3>. QED BY <2>5, <3>1, <3>2
  <2>. QED BY <2>1, <2>11, <2>13, <2>14, <2>15, <2>16, <2>17, <2>18, Kinds
<1>. QED BY <1>1, Invariance, PTL DEF Spec, PastIsKept

=============================================================================
