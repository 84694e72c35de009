-------------------------- MODULE AgentTurnProofs ---------------------------
(***************************************************************************)
(* Proofs about AgentTurn, for every set of tools and answers, every       *)
(* length of the history and every bound on steps, retries and faults.     *)
(* GraphInv says what the graph's list of messages looks like between two  *)
(* supersteps; QueueInv says that the rows, the chunk in hand and the      *)
(* queue together hold everything the producer has put.                    *)
(***************************************************************************)
EXTENDS AgentTurn, SequenceTheorems, TLAPS

USE AgentTurnAssumption

Last == messages[Len(messages)]

\* What a run adds to the list: answers of the LLM, and results of tools.
OwnMessage(m) ==
    \/ \E calls \in Seq(Tool), body \in Body : m = AI(calls, body)
    \/ \E t \in Tool : \E b \in BodiesOf(t) : m = Result(t, b)

Own == HistoryLen + 1 .. Len(messages)

OwnMessages == \A i \in Own : OwnMessage(messages[i])

\* Where the graph stands, against the list and the number of steps.
Standing ==
    /\ HistoryLen <= Len(messages)
    /\ node # "agent_step" => HistoryLen < Len(messages)
    /\ node \in {"agent_step", "tools", "tools_terminal"} => steps < MaxSteps
    /\ node = "step_cap" => steps = MaxSteps
    /\ node \in {"tools", "tools_terminal"} => Last.kind = "ai" /\ Last.calls # <<>>
    /\ node = "tools" => ~ CallsTerminal(Last)
    /\ node = "end" /\ Last.kind = "ai" => Last.calls = <<>>

\* Only the message in hand may have calls without results, and the one the
\* cap cut off.
Replies ==
    \A i \in Own :
        \/ Answered(i)
        \/ i = Len(messages) /\ node \in {"tools", "tools_terminal", "step_cap"}
        \/ i + 1 = Len(messages) /\ node = "end" /\ steps = MaxSteps

\* A terminal tool leads to the end, and so does prose, by way of the cap if
\* it came with the last step.
TerminalsLast == node # "end" => \A i \in Own : messages[i].name \notin TerminalTool

NoAnswerAfterTerminal ==
    \A i, j \in Own : i < j /\ messages[j].kind = "ai" => messages[i].name \notin TerminalTool

ProseLast ==
    \A i \in Own : messages[i].kind = "ai" /\ messages[i].calls = <<>> =>
        \/ i = Len(messages) /\ node \in {"end", "step_cap"}
        \/ i + 1 = Len(messages) /\ node = "end" /\ steps = MaxSteps

GraphInv ==
    /\ OwnMessages /\ Standing /\ Replies
    /\ TerminalsLast /\ NoAnswerAfterTerminal /\ ProseLast

\* The sentinel is the last item, an error is put at most once, and every
\* chunk is a length the list has had.
Sentinels ==
    /\ \A n \in 1 .. Len(queue) :
          /\ queue[n].kind = "none" => producer = "done" /\ n = Len(queue)
          /\ queue[n].kind = "state" =>
                HistoryLen <= queue[n].upto /\ queue[n].upto <= Len(messages)
    /\ consumer = "returned" => producer = "done" /\ queue = <<>>
    /\ raised => producer \in {"error", "close", "done"}
    /\ producer = "error" => raised
    /\ producer \in {"close", "done"} /\ ~ raised => node = "end"

ErrorsIn(q) == {n \in 1 .. Len(q) : q[n].kind = "error"}

ErrorOnce ==
    IF raised /\ producer # "error"
    THEN \/ frames = 1 /\ ErrorsIn(queue) = {}
         \/ frames = 0 /\ \E n \in 1 .. Len(queue) : ErrorsIn(queue) = {n}
    ELSE frames = 0 /\ ErrorsIn(queue) = {}

\* Rows and seen are the turn's messages so far.
Handled ==
    /\ RowsAreTheTurn
    /\ seen = HistoryLen + 1 .. HistoryLen + Len(rows)
    /\ upto <= Len(messages)

\* The newest state is stored, in hand, or in the queue.
Newest ==
    producer # "put" =>
        \/ HistoryLen + Len(rows) = Len(messages)
        \/ consumer \in {"process", "failed"} /\ upto = Len(messages)
        \/ \E n \in 1 .. Len(queue) : queue[n].kind = "state" /\ queue[n].upto = Len(messages)

QueueInv == Sentinels /\ ErrorOnce /\ Handled /\ Newest

IInv == TypeOK /\ GraphInv /\ QueueInv

-----------------------------------------------------------------------------
(* The list of messages                                                    *)

LEMMA BodyTypes == \A t \in Tool : BodiesOf(t) \subseteq Body
  BY DEF BodiesOf, Body

LEMMA AIType ==
  ASSUME NEW calls \in Seq(Tool), NEW body \in Body
  PROVE  /\ AI(calls, body) \in Message
         /\ AI(calls, body).kind = "ai" /\ AI(calls, body).calls = calls
         /\ AI(calls, body).name \notin TerminalTool
  BY DEF AI, Message, TerminalTool

LEMMA ResultType ==
  ASSUME NEW t \in Tool, NEW b \in BodiesOf(t)
  PROVE  /\ Result(t, b) \in Message
         /\ Result(t, b).kind = "tool" /\ Result(t, b).name = t
         /\ Result(t, b).calls = <<>> /\ Result(t, b).body = b
  <1>1. b \in Body /\ <<>> \in Seq(Tool)
    BY BodyTypes
  <1> QED
    BY <1>1 DEF Result, Message

\* _last_ai_message of a list that ends in an AI message.
LEMMA LastAnswer ==
  ASSUME NEW s \in Seq(Message), Len(s) > 0, s[Len(s)].kind = "ai"
  PROVE  LastAI(s) = s[Len(s)]
  <1> DEFINE P(i) == /\ s[i].kind = "ai"
                     /\ \A j \in i + 1 .. Len(s) : s[j].kind # "ai"
  <1>1. Len(s) \in 1 .. Len(s) /\ P(Len(s))
    OBVIOUS
  <1>2. \A i \in 1 .. Len(s) : P(i) => i = Len(s)
    OBVIOUS
  <1>3. (CHOOSE i \in 1 .. Len(s) : P(i)) = Len(s)
    <2> HIDE DEF P
    <2> QED
      BY <1>1, <1>2
  <1> QED
    BY <1>3 DEF LastAI

LEMMA MessageAt ==
  ASSUME TypeOK, NEW i \in 1 .. Len(messages)
  PROVE  messages[i] \in Message /\ messages[i].calls \in Seq(Tool)
  <1>1. messages[i] \in Message
    BY DEF TypeOK
  <1> QED
    BY <1>1 DEF Message

LEMMA Numbers ==
  ASSUME TypeOK
  PROVE  /\ Len(messages) \in Nat /\ steps \in Nat /\ steps <= MaxSteps
         /\ MaxSteps \in Nat /\ HistoryLen \in Nat /\ HistoryLen > 0
  BY DEF TypeOK

LEMMA Extended ==
  ASSUME TypeOK, NEW s \in Seq(Message), messages' = messages \o s
  PROVE  /\ messages' \in Seq(Message)
         /\ Len(messages') = Len(messages) + Len(s)
         /\ \A i \in 1 .. Len(messages) : messages'[i] = messages[i]
         /\ \A k \in 1 .. Len(s) : messages'[Len(messages) + k] = s[k]
  BY ConcatProperties DEF TypeOK

LEMMA ExtendedByOne ==
  ASSUME TypeOK, NEW m \in Message, messages' = messages \o <<m>>
  PROVE  /\ messages' \in Seq(Message)
         /\ Len(messages') = Len(messages) + 1
         /\ \A i \in 1 .. Len(messages) : messages'[i] = messages[i]
         /\ messages'[Len(messages) + 1] = m
  <1> DEFINE s == <<m>>
  <1>1. s \in Seq(Message) /\ Len(s) = 1 /\ s[1] = m /\ messages' = messages \o s
    OBVIOUS
  <1> HIDE DEF s
  <1>2. 1 \in 1 .. Len(s)
    BY <1>1
  <1> QED
    BY <1>1, <1>2, Extended

-----------------------------------------------------------------------------
(* The graph                                                               *)

\* An answer of the LLM, or the fallback text after a failed step.
LEMMA AnswerStep ==
  ASSUME TypeOK, NEW m \in Message, m.kind = "ai", StepDone(m)
  PROVE  /\ messages' \in Seq(Message) /\ Len(messages') = Len(messages) + 1
         /\ \A i \in 1 .. Len(messages) : messages'[i] = messages[i]
         /\ messages'[Len(messages) + 1] = m
         /\ steps' = steps + 1
         /\ node' = IF steps + 1 >= MaxSteps THEN "step_cap"
                    ELSE IF m.calls = <<>> THEN "end"
                    ELSE IF CallsTerminal(m) THEN "tools_terminal" ELSE "tools"
  <1>1. /\ messages' = messages \o <<m>> /\ steps' = steps + 1
        /\ node' = Route(Append(messages, m), steps + 1)
    BY DEF StepDone, Yield
  <1>3. LastAI(Append(messages, m)) = m
    <2> DEFINE s == Append(messages, m)
    <2>1. /\ s \in Seq(Message)
          /\ Len(s) = Len(messages) + 1 /\ Len(messages) \in Nat
          /\ s[Len(messages) + 1] = m
      BY DEF TypeOK
    <2> HIDE DEF s
    <2>2. Len(s) > 0 /\ s[Len(s)] = m
      BY <2>1
    <2>3. LastAI(s) = m
      BY <2>1, <2>2, LastAnswer
    <2> QED
      BY <2>3 DEF s
  <1>4. /\ messages' \in Seq(Message) /\ Len(messages') = Len(messages) + 1
        /\ \A i \in 1 .. Len(messages) : messages'[i] = messages[i]
        /\ messages'[Len(messages) + 1] = m
    BY <1>1, ExtendedByOne
  <1> QED
    BY <1>1, <1>3, <1>4 DEF Route

LEMMA CapStep ==
  ASSUME TypeOK, StepCap
  PROVE  /\ messages' \in Seq(Message) /\ Len(messages') = Len(messages) + 1
         /\ \A i \in 1 .. Len(messages) : messages'[i] = messages[i]
         /\ messages'[Len(messages) + 1] = AI(<<>>, "prose")
         /\ steps' = steps /\ node = "step_cap" /\ node' = "end"
  <1> DEFINE m == AI(<<>>, "prose")
  <1>1. m \in Message
    <2>1. <<>> \in Seq(Tool) /\ "prose" \in Body
      BY DEF Body
    <2> QED
      BY <2>1, AIType
  <1> HIDE DEF m
  <1>2. messages' = messages \o <<m>>
    BY DEF StepCap, Yield, m
  <1>4. /\ messages' \in Seq(Message) /\ Len(messages') = Len(messages) + 1
        /\ \A i \in 1 .. Len(messages) : messages'[i] = messages[i]
        /\ messages'[Len(messages) + 1] = m
    BY <1>1, <1>2, ExtendedByOne
  <1> QED
    BY <1>4 DEF StepCap, Yield, InNode, m

\* run_tools answers every call of the last message, in order.
LEMMA ToolsStep ==
  ASSUME TypeOK, Standing, RunTools
  PROVE  /\ messages' \in Seq(Message) /\ Last.calls \in Seq(Tool)
         /\ Len(messages') = Len(messages) + Len(Last.calls)
         /\ \A i \in 1 .. Len(messages) : messages'[i] = messages[i]
         /\ \A k \in 1 .. Len(Last.calls) :
               \E b \in BodiesOf(Last.calls[k]) :
                  messages'[Len(messages) + k] = Result(Last.calls[k], b)
         /\ steps' = steps /\ node \in {"tools", "tools_terminal"}
         /\ node' = IF node = "tools" THEN "agent_step" ELSE "end"
  <1>1. /\ node \in {"tools", "tools_terminal"} /\ steps' = steps
        /\ node' = IF node = "tools" THEN "agent_step" ELSE "end"
    BY DEF RunTools, InNode, Yield
  <1>2. Len(messages) \in 1 .. Len(messages) /\ Len(messages) > 0 /\ Last.kind = "ai"
    BY <1>1 DEF Standing, TypeOK
  <1>3. LastAI(messages) = Last /\ Last \in Message
    BY <1>2, LastAnswer DEF TypeOK, Last
  <1>4. Last.calls \in Seq(Tool)
    BY <1>3 DEF Message
  <1>5. PICK bodies \in Answers(Last.calls) : messages' = messages \o Results(Last.calls, bodies)
    BY <1>3 DEF RunTools, Yield
  <1> DEFINE calls == Last.calls
  <1>6. \A k \in 1 .. Len(calls) : calls[k] \in Tool /\ bodies[k] \in BodiesOf(calls[k])
    BY <1>4, <1>5 DEF Answers
  <1>7. /\ Results(calls, bodies) \in Seq(Message)
        /\ Len(Results(calls, bodies)) = Len(calls)
        /\ \A k \in 1 .. Len(calls) : Results(calls, bodies)[k] = Result(calls[k], bodies[k])
    <2>1. \A k \in 1 .. Len(calls) : Result(calls[k], bodies[k]) \in Message
      BY <1>6, ResultType
    <2>2. Len(calls) \in Nat
      BY <1>4
    <2> HIDE DEF calls
    <2> QED
      BY <2>1, <2>2 DEF Results
  <1>8. /\ messages' \in Seq(Message)
        /\ Len(messages') = Len(messages) + Len(calls)
        /\ \A i \in 1 .. Len(messages) : messages'[i] = messages[i]
        /\ \A k \in 1 .. Len(calls) : messages'[Len(messages) + k] = Result(calls[k], bodies[k])
    BY <1>5, <1>7, Extended
  <1> QED
    BY <1>1, <1>4, <1>6, <1>8

\* A message that is answered stays so: the list only grows.
LEMMA AnsweredStays ==
  ASSUME TypeOK, NEW i \in 1 .. Len(messages), Answered(i),
         Len(messages') \in Nat, Len(messages) <= Len(messages'),
         \A j \in 1 .. Len(messages) : messages'[j] = messages[j]
  PROVE  Answered(i)'
  <1>1. messages[i].calls \in Seq(Tool)
    BY MessageAt
  <1>2. Len(messages) \in Nat
    BY DEF TypeOK
  <1>3. ASSUME NEW k \in 1 .. Len(messages[i].calls)
        PROVE  /\ i + k \in 1 .. Len(messages)
               /\ messages[i + k].kind = "tool" /\ messages[i + k].name = messages[i].calls[k]
    BY <1>1, <1>2, <1>3 DEF Answered
  <1>4. messages'[i] = messages[i]
    OBVIOUS
  <1>5. ASSUME NEW k \in 1 .. Len(messages'[i].calls)
        PROVE  /\ i + k <= Len(messages')
               /\ messages'[i + k].kind = "tool" /\ messages'[i + k].name = messages'[i].calls[k]
    <2>1. k \in 1 .. Len(messages[i].calls)
      BY <1>4, <1>5
    <2>2. i + k \in 1 .. Len(messages) /\ messages'[i + k] = messages[i + k]
      BY <1>3, <2>1
    <2>3. i + k <= Len(messages')
      BY <1>2, <2>2
    <2> QED
      BY <1>3, <1>4, <2>1, <2>2, <2>3
  <1> QED
    BY <1>5 DEF Answered

LEMMA NothingToAnswer ==
  ASSUME NEW i, messages'[i].calls = <<>>
  PROVE  Answered(i)'
  BY DEF Answered

LEMMA AnswerKeeps ==
  ASSUME TypeOK, GraphInv, NEW calls \in Seq(Tool), NEW body \in Body,
         node = "agent_step", StepDone(AI(calls, body))
  PROVE  GraphInv'
  <1> DEFINE n == Len(messages)
             m == AI(calls, body)
  <1>a. m \in Message /\ m.kind = "ai" /\ m.name \notin TerminalTool /\ OwnMessage(m)
    BY AIType DEF OwnMessage
  <1>c. StepDone(m)
    OBVIOUS
  <1> HIDE DEF m
  <1>1. /\ messages' \in Seq(Message) /\ Len(messages') = n + 1
        /\ \A i \in 1 .. n : messages'[i] = messages[i]
        /\ messages'[n + 1] = m
    BY <1>a, <1>c, AnswerStep
  <1>b. /\ steps' = steps + 1
        /\ node' \in {"step_cap", "end", "tools_terminal", "tools"}
        /\ node' = "step_cap" <=> steps + 1 >= MaxSteps
        /\ node' = "end" => m.calls = <<>>
        /\ node' \in {"tools_terminal", "tools"} => m.calls # <<>>
        /\ node' = "tools" => ~ CallsTerminal(m)
    <2>1. node' = IF steps + 1 >= MaxSteps THEN "step_cap"
                  ELSE IF m.calls = <<>> THEN "end"
                  ELSE IF CallsTerminal(m) THEN "tools_terminal" ELSE "tools"
      BY <1>a, <1>c, AnswerStep
    <2> QED
      BY <1>a, <1>c, <2>1, AnswerStep
  <1>2. /\ n \in Nat /\ HistoryLen <= n /\ HistoryLen \in Nat /\ node = "agent_step"
        /\ steps \in Nat /\ steps < MaxSteps
    BY Numbers DEF GraphInv, Standing
  <1>3. /\ Own' = Own \cup {n + 1} /\ n + 1 \notin Own
        /\ \A i \in Own : i \in 1 .. n /\ messages'[i] = messages[i] /\ i < n + 1
    BY <1>1, <1>2 DEF Own
  <1>4. Last' = m
    BY <1>1 DEF Last
  <1> HIDE DEF n
  <1>5. OwnMessages'
    BY <1>1, <1>3, <1>a DEF GraphInv, OwnMessages
  <1>6. Standing'
    <2>1. HistoryLen < Len(messages') /\ HistoryLen <= Len(messages')
      BY <1>1, <1>2
    <2>2. node' \in {"agent_step", "tools", "tools_terminal"} => steps' < MaxSteps
      BY <1>2, <1>b, Numbers
    <2>3. node' = "step_cap" => steps' = MaxSteps
      BY <1>2, <1>b, Numbers
    <2>4. node' = "tools" => ~ CallsTerminal(Last)'
      BY <1>4, <1>b DEF CallsTerminal
    <2>5. /\ node' \in {"tools", "tools_terminal"} => Last'.kind = "ai" /\ Last'.calls # <<>>
          /\ node' = "end" /\ Last'.kind = "ai" => Last'.calls = <<>>
      BY <1>4, <1>a, <1>b
    <2> QED
      BY <2>1, <2>2, <2>3, <2>4, <2>5 DEF Standing
  <1>7. \A i \in Own : Answered(i)'
    <2> SUFFICES ASSUME NEW i \in Own PROVE Answered(i)'
      OBVIOUS
    <2>1. Answered(i)
      BY <1>2 DEF GraphInv, Replies
    <2> QED
      BY <1>1, <1>2, <1>3, <2>1, AnsweredStays DEF n
  <1>8. Replies'
    <2>1. ASSUME NEW i, i = n + 1
          PROVE  Answered(i)' \/ node' \in {"tools", "tools_terminal", "step_cap"}
      BY <1>1, <1>b, <2>1, NothingToAnswer
    <2> QED
      BY <1>1, <1>3, <1>7, <2>1 DEF Replies
  <1>9. \A i \in Own' : messages'[i].name \notin TerminalTool
    BY <1>1, <1>2, <1>3, <1>a DEF GraphInv, TerminalsLast
  <1>10. TerminalsLast' /\ NoAnswerAfterTerminal'
    BY <1>9 DEF TerminalsLast, NoAnswerAfterTerminal
  <1>11. ProseLast'
    <2>1. \A i \in Own : ~ (messages[i].kind = "ai" /\ messages[i].calls = <<>>)
      BY <1>2 DEF GraphInv, ProseLast
    <2> QED
      BY <1>1, <1>3, <1>b, <2>1 DEF ProseLast
  <1> QED
    BY <1>5, <1>6, <1>8, <1>10, <1>11 DEF GraphInv

LEMMA CapKeeps ==
  ASSUME TypeOK, GraphInv, StepCap
  PROVE  GraphInv'
  <1> DEFINE n == Len(messages)
             m == AI(<<>>, "prose")
  <1>1. /\ messages' \in Seq(Message) /\ Len(messages') = n + 1
        /\ \A i \in 1 .. n : messages'[i] = messages[i]
        /\ messages'[n + 1] = m
        /\ steps' = steps /\ node = "step_cap" /\ node' = "end"
    BY CapStep
  <1>2. /\ n \in Nat /\ HistoryLen <= n /\ HistoryLen \in Nat /\ steps = MaxSteps
    BY <1>1, Numbers DEF GraphInv, Standing
  <1>3. /\ Own' = Own \cup {n + 1} /\ n + 1 \notin Own
        /\ \A i \in Own : i \in 1 .. n /\ messages'[i] = messages[i] /\ i < n + 1
    BY <1>1, <1>2 DEF Own
  <1>4. Last' = m
    BY <1>1 DEF Last
  <1>a. /\ m \in Message /\ m.kind = "ai" /\ m.calls = <<>> /\ m.name \notin TerminalTool
        /\ OwnMessage(m)
    <2>1. <<>> \in Seq(Tool) /\ "prose" \in Body
      BY DEF Body
    <2> QED
      BY <2>1, AIType DEF OwnMessage
  <1> HIDE DEF n, m
  <1>5. OwnMessages'
    BY <1>1, <1>3, <1>a DEF GraphInv, OwnMessages
  <1>6. Standing'
    <2>1. HistoryLen < Len(messages')
      BY <1>1, <1>2
    <2> QED
      BY <1>1, <1>4, <1>a, <2>1 DEF Standing
  <1>7. \A i \in Own : Answered(i)' \/ i = n
    <2> SUFFICES ASSUME NEW i \in Own, i # n PROVE Answered(i)'
      OBVIOUS
    <2>1. Answered(i)
      BY <1>1 DEF GraphInv, Replies, n
    <2> QED
      BY <1>1, <1>2, <1>3, <2>1, AnsweredStays DEF n
  <1>8. Replies'
    <2>1. ASSUME NEW i, i = n + 1 PROVE Answered(i)'
      BY <1>1, <1>a, <2>1, NothingToAnswer
    <2> QED
      BY <1>1, <1>2, <1>3, <1>7, <2>1 DEF Replies
  <1>9. \A i \in Own' : messages'[i].name \notin TerminalTool
    BY <1>1, <1>3, <1>a DEF GraphInv, TerminalsLast
  <1>10. TerminalsLast' /\ NoAnswerAfterTerminal'
    BY <1>9 DEF TerminalsLast, NoAnswerAfterTerminal
  <1>11. ProseLast'
    <2>1. \A i \in Own : messages[i].kind = "ai" /\ messages[i].calls = <<>> => i = n
      BY <1>1 DEF GraphInv, ProseLast, n
    <2> QED
      BY <1>1, <1>2, <1>3, <2>1 DEF ProseLast
  <1> QED
    BY <1>5, <1>6, <1>8, <1>10, <1>11 DEF GraphInv

LEMMA ToolsKeep ==
  ASSUME TypeOK, GraphInv, RunTools
  PROVE  GraphInv'
  <1> DEFINE n == Len(messages)
             calls == Last.calls
             m == Len(calls)
  <1>1. /\ messages' \in Seq(Message) /\ calls \in Seq(Tool)
        /\ Len(messages') = n + m
        /\ \A i \in 1 .. n : messages'[i] = messages[i]
        /\ \A k \in 1 .. m : \E b \in BodiesOf(calls[k]) : messages'[n + k] = Result(calls[k], b)
        /\ steps' = steps /\ node \in {"tools", "tools_terminal"}
        /\ node' = IF node = "tools" THEN "agent_step" ELSE "end"
    BY ToolsStep DEF GraphInv
  <1>2. /\ n \in Nat /\ HistoryLen < n /\ HistoryLen \in Nat /\ steps < MaxSteps
        /\ Last.kind = "ai" /\ calls # <<>> /\ (node = "tools" => ~ CallsTerminal(Last))
    BY <1>1, Numbers DEF GraphInv, Standing
  <1>3. m \in Nat /\ m > 0 /\ messages[n] = Last
    BY <1>1, <1>2 DEF Last
  <1>4. \A k \in 1 .. m :
           /\ calls[k] \in Tool
           /\ messages'[n + k].kind = "tool" /\ messages'[n + k].name = calls[k]
           /\ messages'[n + k].calls = <<>> /\ OwnMessage(messages'[n + k])
    <2> SUFFICES ASSUME NEW k \in 1 .. m
                 PROVE  /\ calls[k] \in Tool
                        /\ messages'[n + k].kind = "tool" /\ messages'[n + k].name = calls[k]
                        /\ messages'[n + k].calls = <<>> /\ OwnMessage(messages'[n + k])
      OBVIOUS
    <2>1. calls[k] \in Tool
      BY <1>1
    <2>2. PICK b \in BodiesOf(calls[k]) : messages'[n + k] = Result(calls[k], b)
      BY <1>1
    <2> HIDE DEF calls, m, n
    <2>3. /\ Result(calls[k], b).kind = "tool" /\ Result(calls[k], b).name = calls[k]
          /\ Result(calls[k], b).calls = <<>>
      BY <2>1, ResultType
    <2>4. OwnMessage(Result(calls[k], b))
      BY <2>1 DEF OwnMessage
    <2> QED
      BY <2>1, <2>2, <2>3, <2>4
  <1>5. /\ \A i \in Own : i \in 1 .. n /\ messages'[i] = messages[i]
        /\ \A i \in Own' : i \in Own \/ \E k \in 1 .. m : i = n + k
        /\ n \in Own
    <2>1. ASSUME NEW i \in Own', i \notin Own PROVE \E k \in 1 .. m : i = n + k
      <3>1. i - n \in 1 .. m /\ i = n + (i - n)
        BY <1>1, <1>2, <1>3, <2>1 DEF Own
      <3> QED
        BY <3>1
    <2> QED
      BY <1>1, <1>2, <2>1 DEF Own
  <1>6. Last' = messages'[n + m] /\ Last'.kind = "tool"
    BY <1>1, <1>3, <1>4 DEF Last
  <1> HIDE DEF n, m, calls
  <1>7. OwnMessages'
    BY <1>4, <1>5 DEF GraphInv, OwnMessages
  <1>8. Standing'
    BY <1>1, <1>2, <1>3, <1>6 DEF Standing
  <1>9. Replies'
    <2> SUFFICES ASSUME NEW i \in Own' PROVE Answered(i)'
      BY DEF Replies
    <2>1. CASE \E k \in 1 .. m : i = n + k
      BY <1>4, <2>1, NothingToAnswer
    <2>2. CASE i \in Own /\ i # n
      <3>1. Answered(i)
        BY <1>1, <2>2 DEF GraphInv, Replies, n
      <3>2. i \in 1 .. Len(messages) /\ Len(messages') \in Nat /\ Len(messages) <= Len(messages')
        BY <1>1, <1>2, <1>3, <1>5, <2>2 DEF n
      <3> QED
        BY <1>1, <3>1, <3>2, AnsweredStays DEF n
    <2>3. CASE i = n
      <3>1. messages'[n].calls = calls
        BY <1>3, <1>5 DEF calls
      <3> QED
        BY <1>1, <1>2, <1>3, <1>4, <2>3, <3>1 DEF Answered, m
    <2> QED
      BY <1>5, <2>1, <2>2, <2>3
  <1>10. node = "tools" => \A k \in 1 .. m : calls[k] \notin TerminalTool
    BY <1>2 DEF CallsTerminal, m, calls
  <1>11. \A i \in Own : messages[i].name \notin TerminalTool
    BY <1>1 DEF GraphInv, TerminalsLast
  <1>12. TerminalsLast'
    BY <1>1, <1>4, <1>5, <1>10, <1>11 DEF TerminalsLast
  <1>13. NoAnswerAfterTerminal'
    <2> SUFFICES ASSUME NEW i \in Own', NEW j \in Own', i < j, messages'[j].kind = "ai"
                 PROVE  messages'[i].name \notin TerminalTool
      BY DEF NoAnswerAfterTerminal
    <2>1. j \in Own
      BY <1>4, <1>5
    <2>2. ASSUME NEW k \in 1 .. m, i = n + k PROVE FALSE
      <3>1. j \in 1 .. n
        BY <1>5, <2>1
      <3> QED
        BY <1>2, <1>3, <2>2, <3>1
    <2>3. i \in Own
      BY <1>5, <2>2
    <2> QED
      BY <1>5, <1>11, <2>3
  <1>14. ProseLast'
    <2> SUFFICES ASSUME NEW i \in Own', messages'[i].kind = "ai", messages'[i].calls = <<>>
                 PROVE  FALSE
      BY DEF ProseLast
    <2>1. i \in Own /\ messages[i].kind = "ai" /\ messages[i].calls = <<>>
      BY <1>4, <1>5
    <2>2. i = n
      BY <1>1, <2>1 DEF GraphInv, ProseLast, n
    <2> QED
      BY <1>2, <1>3, <2>1, <2>2 DEF calls
  <1> QED
    BY <1>7, <1>8, <1>9, <1>12, <1>13, <1>14 DEF GraphInv

LEMMA GraphKept ==
  ASSUME GraphInv, UNCHANGED <<node, messages, steps>>
  PROVE  GraphInv'
  BY DEF GraphInv, OwnMessages, Own, Standing, Last, Replies, Answered, TerminalsLast,
         NoAnswerAfterTerminal, ProseLast

-----------------------------------------------------------------------------
(* The types                                                               *)

LEMMA ItemType ==
  ASSUME TypeOK, NEW n \in 1 .. Len(queue)
  PROVE  queue[n].kind \in {"state", "error", "none"} /\ queue[n].upto \in Nat
  <1>1. queue \in Seq([kind : {"state", "error", "none"}, upto : Nat])
    BY DEF TypeOK
  <1>2. queue[n] \in [kind : {"state", "error", "none"}, upto : Nat]
    BY <1>1, ElementOfSeq
  <1> QED
    BY <1>2

LEMMA PutItem ==
  ASSUME TypeOK, NEW item \in [kind : {"state", "error", "none"}, upto : Nat],
         queue' = Append(queue, item)
  PROVE  /\ queue' \in Seq([kind : {"state", "error", "none"}, upto : Nat])
         /\ Len(queue) \in Nat /\ Len(queue') = Len(queue) + 1
         /\ \A n \in 1 .. Len(queue) : queue'[n] = queue[n]
         /\ queue'[Len(queue) + 1] = item
  <1>1. queue \in Seq([kind : {"state", "error", "none"}, upto : Nat])
    BY DEF TypeOK
  <1> QED
    BY <1>1, AppendProperties

LEMMA TakeItem ==
  ASSUME TypeOK, queue # <<>>, queue' = Tail(queue)
  PROVE  /\ queue' \in Seq([kind : {"state", "error", "none"}, upto : Nat])
         /\ Len(queue) \in Nat /\ Len(queue) > 0 /\ Len(queue') = Len(queue) - 1
         /\ \A n \in 1 .. Len(queue') : queue'[n] = queue[n + 1]
         /\ Head(queue) = queue[1]
  <1>1. queue \in Seq([kind : {"state", "error", "none"}, upto : Nat])
    BY DEF TypeOK
  <1> QED
    BY <1>1, HeadTailProperties

LEMMA TypeNext ==
  ASSUME TypeOK, Standing, [Next]_vars
  PROVE  TypeOK'
  <1> USE DEF graph, producing, channel, consuming
  <1>1. CASE CallLLM
    BY <1>1 DEF CallLLM, TypeOK, SystemPrompt
  <1>2. ASSUME NEW calls \in Seq(Tool), NEW body \in Body, node = "agent_step",
               StepDone(AI(calls, body))
        PROVE  TypeOK'
    <2> DEFINE m == AI(calls, body)
    <2>1. m \in Message /\ m.kind = "ai"
      BY AIType
    <2> HIDE DEF m
    <2>2. StepDone(m)
      BY <1>2 DEF m
    <2>3. /\ messages' \in Seq(Message) /\ steps' = steps + 1
          /\ node' \in {"agent_step", "tools", "tools_terminal", "step_cap", "end"}
      BY <2>1, <2>2, AnswerStep
    <2>4. steps' \in 0 .. MaxSteps
      BY <1>2, <2>3, Numbers DEF Standing
    <2>5. /\ producer' = "put" /\ calling' = FALSE /\ attempt' = 0
          /\ UNCHANGED <<prompt, raised, channel, consuming>>
      BY <2>2 DEF StepDone, Yield
    <2>6. attempt' \in 0 .. MaxRetries
      BY <2>5
    <2> QED
      BY <2>3, <2>4, <2>5, <2>6 DEF TypeOK
  <1>3. CASE Respond
    <2>1. node = "agent_step"
      BY <1>3 DEF Respond, InNode
    <2>2. PICK calls \in Responses, body \in {"prose", "blank", "parts"} : StepDone(AI(calls, body))
      BY <1>3 DEF Respond
    <2>3. calls \in Seq(Tool) /\ body \in Body
      BY DEF Body
    <2> QED
      BY <1>2, <2>1, <2>2, <2>3
  <1>4. CASE Retry
    <2>1. attempt' \in 0 .. MaxRetries /\ attempt' \in Nat
      BY <1>4 DEF Retry, TypeOK
    <2> QED
      BY ZenonT(40), <1>4, <2>1 DEF Retry, TypeOK
  <1>5. CASE StepFailed
    <2>1. <<>> \in Seq(Tool) /\ "prose" \in Body
      BY DEF Body
    <2> QED
      BY <1>2, <1>5, <2>1 DEF StepFailed, InNode
  <1>6. CASE RunTools
    <2>1. messages' \in Seq(Message) /\ steps' = steps /\ node' \in {"agent_step", "end"}
      BY <1>6, ToolsStep
    <2> QED
      BY <1>6, <2>1 DEF RunTools, Yield, TypeOK
  <1>7. CASE StepCap
    <2>1. messages' \in Seq(Message) /\ steps' = steps /\ node' = "end"
      BY <1>7, CapStep
    <2> QED
      BY <1>7, <2>1 DEF StepCap, Yield, TypeOK
  <1>8. CASE GraphRaises \/ GraphEnds
    BY ZenonT(40), <1>8 DEF GraphRaises, GraphEnds, TypeOK
  <1>9. CASE PutChunk
    <2> DEFINE item == [kind |-> "state", upto |-> Len(messages)]
    <2>1. item \in [kind : {"state", "error", "none"}, upto : Nat]
      BY Numbers
    <2>2. queue' \in Seq([kind : {"state", "error", "none"}, upto : Nat])
      BY <1>9, <2>1, PutItem DEF PutChunk, Put
    <2> QED
      BY <1>9, <2>2 DEF PutChunk, Put, TypeOK
  <1>10. CASE PutError
    <2> DEFINE item == [kind |-> "error", upto |-> 0]
    <2>1. item \in [kind : {"state", "error", "none"}, upto : Nat]
      OBVIOUS
    <2>2. queue' \in Seq([kind : {"state", "error", "none"}, upto : Nat])
      BY <1>10, <2>1, PutItem DEF PutError, Put
    <2> QED
      BY <1>10, <2>2 DEF PutError, Put, TypeOK
  <1>11. CASE PutSentinel
    <2> DEFINE item == [kind |-> "none", upto |-> 0]
    <2>1. item \in [kind : {"state", "error", "none"}, upto : Nat]
      OBVIOUS
    <2>2. queue' \in Seq([kind : {"state", "error", "none"}, upto : Nat])
      BY <1>11, <2>1, PutItem DEF PutSentinel, Put
    <2> QED
      BY <1>11, <2>2 DEF PutSentinel, Put, TypeOK
  <1>12. CASE FindEmpty \/ Register \/ Resume \/ ChunkDone \/ PersistRaises
    <2>1. CASE FindEmpty \/ Register \/ Resume
      BY ZenonT(40), <2>1 DEF FindEmpty, Register, Resume, TypeOK
    <2>2. CASE ChunkDone
      BY <2>2 DEF ChunkDone, TypeOK
    <2>3. CASE PersistRaises
      BY <2>3 DEF PersistRaises, TypeOK
    <2> QED
      BY <1>12, <2>1, <2>2, <2>3
  <1>13. CASE TakeChunk \/ TakeError \/ TakeSentinel
    <2>1. queue # <<>> /\ queue' = Tail(queue)
      BY <1>13 DEF TakeChunk, TakeError, TakeSentinel, Take
    <2>2. queue' \in Seq([kind : {"state", "error", "none"}, upto : Nat])
      BY <2>1, TakeItem
    <2>3. Head(queue).upto \in Nat
      <3>1. 1 \in 1 .. Len(queue) /\ Head(queue) = queue[1]
        BY <2>1, TakeItem
      <3> QED
        BY <3>1, ItemType
    <2>4. CASE TakeChunk
      BY <2>2, <2>3, <2>4 DEF TakeChunk, Take, TypeOK
    <2>5. CASE TakeError
      BY <2>2, <2>5 DEF TakeError, Take, TypeOK
    <2>6. CASE TakeSentinel
      BY <2>2, <2>6 DEF TakeSentinel, Take, TypeOK
    <2> QED
      BY <1>13, <2>4, <2>5, <2>6
  <1>14. CASE ProcessMessage
    <2>1. PICK i \in Unseen(upto) : seen' = seen \cup {i} /\ rows' = Append(rows, i)
      BY <1>14 DEF ProcessMessage
    <2>2. i \in Nat
      BY <2>1 DEF Unseen, TypeOK
    <2>3. seen' \subseteq Nat /\ rows' \in Seq(Nat)
      BY <2>1, <2>2 DEF TypeOK
    <2> QED
      BY <1>14, <2>3 DEF ProcessMessage, TypeOK
  <1>15. CASE UNCHANGED vars
    BY <1>15 DEF vars, TypeOK
  <1> QED
    BY <1>1, <1>3, <1>4, <1>5, <1>6, <1>7, <1>8, <1>9, <1>10, <1>11, <1>12, <1>13, <1>14,
       <1>15 DEF Next, Producer, Consumer

LEMMA GraphNext ==
  ASSUME TypeOK, GraphInv, [Next]_vars
  PROVE  GraphInv'
  <1> USE DEF graph, producing, channel, consuming
  <1>1. CASE Respond
    BY <1>1, AnswerKeeps DEF Respond, InNode, Body
  <1>2. CASE StepFailed
    <2>1. <<>> \in Seq(Tool) /\ "prose" \in Body
      BY DEF Body
    <2> QED
      BY <1>2, <2>1, AnswerKeeps DEF StepFailed, InNode
  <1>3. CASE StepCap
    BY <1>3, CapKeeps
  <1>4. CASE RunTools
    BY <1>4, ToolsKeep
  <1>5. CASE UNCHANGED <<node, messages, steps>>
    BY <1>5, GraphKept
  <1>6. CASE CallLLM \/ Retry \/ GraphRaises \/ GraphEnds \/ PutChunk \/ PutError \/ PutSentinel
    <2>1. UNCHANGED <<node, messages, steps>>
      BY <1>6 DEF CallLLM, Retry, GraphRaises, GraphEnds, PutChunk, PutError, PutSentinel
    <2> QED
      BY <1>5, <2>1
  <1>7. CASE Consumer
    <2>1. UNCHANGED <<node, messages, steps>>
      BY <1>7 DEF Consumer, FindEmpty, Register, Resume, TakeChunk, TakeError, TakeSentinel,
                  Take, ProcessMessage, ChunkDone, PersistRaises
    <2> QED
      BY <1>5, <2>1
  <1>8. CASE UNCHANGED vars
    BY <1>5, <1>8 DEF vars
  <1> QED
    BY <1>1, <1>2, <1>3, <1>4, <1>6, <1>7, <1>8 DEF Next, Producer

-----------------------------------------------------------------------------
(* The queue                                                               *)

\* A step that touches neither the queue nor what its items stand for.
LEMMA QueueKept ==
  ASSUME QueueInv, UNCHANGED <<node, messages, producing, queue, upto, seen, rows, frames>>,
         consumer' # "returned",
         consumer' = consumer \/ (consumer \notin {"process", "failed"})
  PROVE  QueueInv'
  <1> USE DEF producing
  <1>1. Sentinels'
    BY DEF QueueInv, Sentinels
  <1>2. ErrorOnce'
    BY DEF QueueInv, ErrorOnce, ErrorsIn
  <1>3. Handled' /\ Newest'
    BY DEF QueueInv, Handled, RowsAreTheTurn, Newest
  <1> QED
    BY <1>1, <1>2, <1>3 DEF QueueInv

\* A superstep of the graph: the list grows, and the put is still to come.
LEMMA QueueYields ==
  ASSUME TypeOK, QueueInv, producer = "graph", producer' = "put",
         UNCHANGED <<raised, channel, consuming>>,
         Len(messages') \in Nat, Len(messages) <= Len(messages')
  PROVE  QueueInv'
  <1> USE DEF channel, consuming
  <1>1. ~ raised /\ consumer # "returned"
    BY DEF QueueInv, Sentinels
  <1>2. Len(messages) \in Nat /\ Len(queue) \in Nat /\ Len(rows) \in Nat /\ upto \in Nat
    BY DEF TypeOK
  <1>3. Sentinels'
    <2> SUFFICES ASSUME NEW n \in 1 .. Len(queue)
                 PROVE  /\ queue[n].kind # "none"
                        /\ queue[n].kind = "state" =>
                              HistoryLen <= queue[n].upto /\ queue[n].upto <= Len(messages')
      BY <1>1 DEF Sentinels
    <2>1. queue[n].upto \in Nat
      BY ItemType
    <2> QED
      BY <1>2, <2>1, Numbers DEF QueueInv, Sentinels
  <1>4. ErrorOnce'
    BY <1>1 DEF QueueInv, ErrorOnce, ErrorsIn
  <1>5. Handled'
    BY <1>2, Numbers DEF QueueInv, Handled, RowsAreTheTurn
  <1>6. Newest'
    BY DEF Newest
  <1> QED
    BY <1>3, <1>4, <1>5, <1>6 DEF QueueInv

LEMMA QueueCloses ==
  ASSUME TypeOK, QueueInv, GraphRaises \/ GraphEnds
  PROVE  QueueInv'
  <1>1. /\ producer = "graph" /\ UNCHANGED <<node, messages, queue, consumer, upto, seen, rows, frames>>
        /\ \/ producer' = "error" /\ raised'
           \/ producer' = "close" /\ raised' = raised /\ node = "end"
    BY DEF GraphRaises, GraphEnds, InNode, graph, channel, consuming
  <1>2. ~ raised /\ consumer # "returned"
    BY <1>1 DEF QueueInv, Sentinels
  <1>3. Sentinels'
    BY <1>1, <1>2 DEF QueueInv, Sentinels
  <1>4. ErrorOnce'
    BY <1>1, <1>2 DEF QueueInv, ErrorOnce, ErrorsIn
  <1>5. Handled' /\ Newest'
    BY <1>1 DEF QueueInv, Handled, RowsAreTheTurn, Newest
  <1> QED
    BY <1>3, <1>4, <1>5 DEF QueueInv

LEMMA QueuePuts ==
  ASSUME TypeOK, GraphInv, QueueInv, PutChunk \/ PutError \/ PutSentinel
  PROVE  QueueInv'
  <1> DEFINE q == Len(queue)
  <1>1. PICK item \in [kind : {"state", "error", "none"}, upto : Nat] :
           /\ queue' = Append(queue, item)
           /\ \/ producer = "put" /\ producer' = "graph" /\ item.kind = "state"
                 /\ item.upto = Len(messages)
              \/ producer = "error" /\ producer' = "close" /\ item.kind = "error"
              \/ producer = "close" /\ producer' = "done" /\ item.kind = "none"
    <2>1. CASE PutChunk
      BY <2>1, Numbers DEF PutChunk, Put
    <2>2. CASE PutError
      BY <2>2 DEF PutError, Put
    <2>3. CASE PutSentinel
      BY <2>3 DEF PutSentinel, Put
    <2> QED
      BY <2>1, <2>2, <2>3
  <1>2. UNCHANGED <<node, messages, raised, consumer, upto, seen, rows, frames>>
    BY DEF PutChunk, PutError, PutSentinel, graph, consuming
  <1>3. /\ q \in Nat /\ Len(queue') = q + 1 /\ queue'[q + 1] = item
        /\ \A n \in 1 .. q : queue'[n] = queue[n]
    BY <1>1, PutItem
  <1>4. /\ producer # "done" /\ consumer # "returned"
        /\ raised => producer \in {"error", "close"}
        /\ producer = "error" => raised
        /\ producer \in {"close", "done"} /\ ~ raised => node = "end"
        /\ \A n \in 1 .. q :
              /\ queue[n].kind # "none"
              /\ queue[n].kind = "state" =>
                    HistoryLen <= queue[n].upto /\ queue[n].upto <= Len(messages)
    BY <1>1 DEF QueueInv, Sentinels
  <1>5. Len(messages) \in Nat /\ HistoryLen <= Len(messages)
    BY Numbers DEF GraphInv, Standing
  <1> HIDE DEF q
  <1>6. \A n \in 1 .. Len(queue') : n \in 1 .. q \/ n = q + 1
    BY <1>3
  <1>7. Sentinels'
    <2>1. \A n \in 1 .. Len(queue') :
             /\ queue'[n].kind = "none" => producer' = "done" /\ n = Len(queue')
             /\ queue'[n].kind = "state" =>
                   HistoryLen <= queue'[n].upto /\ queue'[n].upto <= Len(messages)
      BY <1>1, <1>3, <1>4, <1>5, <1>6
    <2>2. /\ raised => producer' \in {"error", "close", "done"}
          /\ producer' = "error" => raised
          /\ producer' \in {"close", "done"} /\ ~ raised => node = "end"
      BY <1>1, <1>4
    <2> QED
      BY <1>2, <1>4, <2>1, <2>2 DEF Sentinels
  <1>8. /\ item.kind # "error" => ErrorsIn(queue') = ErrorsIn(queue)
        /\ item.kind = "error" => ErrorsIn(queue') = ErrorsIn(queue) \cup {q + 1}
    BY <1>3, <1>6 DEF ErrorsIn, q
  <1>9. ErrorOnce'
    <2>1. ErrorOnce
      BY DEF QueueInv
    <2>2. CASE item.kind = "error"
      <3>1. frames = 0 /\ ErrorsIn(queue') = {q + 1} /\ raised /\ producer' = "close"
        BY <1>1, <1>4, <1>8, <2>1, <2>2 DEF ErrorOnce
      <3>2. q + 1 \in 1 .. Len(queue')
        BY <1>3
      <3> QED
        BY <1>2, <3>1, <3>2 DEF ErrorOnce
    <2>3. CASE item.kind # "error"
      <3>1. /\ ErrorsIn(queue') = ErrorsIn(queue)
            /\ (raised /\ producer # "error") <=> (raised /\ producer' # "error")
        BY <1>1, <1>8, <2>3
      <3>2. \A n \in 1 .. Len(queue) : n \in 1 .. Len(queue')
        BY <1>3 DEF q
      <3> QED
        BY <1>2, <2>1, <3>1, <3>2 DEF ErrorOnce
    <2> QED
      BY <2>2, <2>3
  <1>10. Handled'
    BY <1>2 DEF QueueInv, Handled, RowsAreTheTurn
  <1>11. Newest'
    <2>1. CASE item.kind = "state"
      <3>1. q + 1 \in 1 .. Len(queue') /\ queue'[q + 1].kind = "state"
            /\ queue'[q + 1].upto = Len(messages')
        BY <1>1, <1>2, <1>3, <2>1
      <3> QED
        BY <3>1 DEF Newest
    <2>2. CASE producer # "put"
      <3>1. Newest
        BY DEF QueueInv
      <3>2. \A n \in 1 .. Len(queue) : n \in 1 .. Len(queue') /\ queue'[n] = queue[n]
        BY <1>3 DEF q
      <3> QED
        BY <1>2, <2>2, <3>1, <3>2 DEF Newest
    <2> QED
      BY <1>1, <2>1, <2>2
  <1> QED
    BY <1>7, <1>9, <1>10, <1>11 DEF QueueInv

LEMMA QueueTakes ==
  ASSUME TypeOK, QueueInv, TakeChunk \/ TakeError \/ TakeSentinel
  PROVE  QueueInv'
  <1> DEFINE item == Head(queue)
  <1>1. /\ consumer = "get" /\ queue # <<>> /\ queue' = Tail(queue)
        /\ UNCHANGED <<node, messages, producer, raised, seen, rows>>
    BY DEF TakeChunk, TakeError, TakeSentinel, Take, graph, producing
  <1>2. /\ Len(queue) \in Nat /\ Len(queue) > 0 /\ Len(queue') = Len(queue) - 1
        /\ \A n \in 1 .. Len(queue') : n + 1 \in 1 .. Len(queue) /\ queue'[n] = queue[n + 1]
        /\ 1 \in 1 .. Len(queue) /\ item = queue[1]
    BY <1>1, TakeItem
  <1>3. \/ item.kind = "state" /\ upto' = item.upto /\ consumer' = "process" /\ frames' = frames
        \/ item.kind = "error" /\ upto' = upto /\ consumer' = consumer /\ frames' = frames + 1
        \/ item.kind = "none" /\ upto' = upto /\ consumer' = "returned" /\ frames' = frames
    BY DEF TakeChunk, TakeError, TakeSentinel, Take
  <1> HIDE DEF item
  <1>4. Sentinels /\ ErrorOnce /\ Handled /\ Newest
    BY DEF QueueInv
  <1>5. Sentinels'
    <2>1. \A n \in 1 .. Len(queue') :
             /\ queue'[n].kind = "none" => producer' = "done" /\ n = Len(queue')
             /\ queue'[n].kind = "state" =>
                   HistoryLen <= queue'[n].upto /\ queue'[n].upto <= Len(messages')
      <3> SUFFICES ASSUME NEW n \in 1 .. Len(queue')
                   PROVE  /\ queue'[n].kind = "none" => producer' = "done" /\ n = Len(queue')
                          /\ queue'[n].kind = "state" =>
                                HistoryLen <= queue'[n].upto /\ queue'[n].upto <= Len(messages')
        OBVIOUS
      <3>1. n + 1 \in 1 .. Len(queue) /\ queue'[n] = queue[n + 1]
        BY <1>2
      <3>2. /\ queue[n + 1].kind = "none" => producer = "done" /\ n + 1 = Len(queue)
            /\ queue[n + 1].kind = "state" =>
                  HistoryLen <= queue[n + 1].upto /\ queue[n + 1].upto <= Len(messages)
        BY <1>4, <3>1 DEF Sentinels
      <3>3. queue'[n].kind = "none" => producer' = "done" /\ n = Len(queue')
        <4>1. queue'[n].kind = "none" => producer = "done" /\ n + 1 = Len(queue)
          BY <3>1, <3>2
        <4>2. n \in Int /\ Len(queue) \in Int /\ Len(queue') = Len(queue) - 1
          BY <1>2
        <4>3. n + 1 = Len(queue) => n = Len(queue')
          BY <4>2
        <4> QED
          BY <1>1, <4>1, <4>3
      <3> QED
        BY <1>1, <3>1, <3>2, <3>3
    <2>2. consumer' = "returned" => producer' = "done" /\ queue' = <<>>
      <3>1. consumer' = "returned" => item.kind = "none"
        BY <1>1, <1>3
      <3>2. item.kind = "none" => producer = "done" /\ Len(queue) = 1
        BY <1>2, <1>4 DEF Sentinels
      <3>3. Len(queue') = 0 => queue' = <<>>
        BY <1>1, TakeItem, EmptySeq
      <3> QED
        BY <1>1, <1>2, <3>1, <3>2, <3>3
    <2> QED
      BY <1>1, <1>4, <2>1, <2>2 DEF Sentinels
  <1>6. \A n : n \in ErrorsIn(queue') <=> n \in Nat /\ n + 1 \in ErrorsIn(queue) /\ n # 0
    BY <1>2 DEF ErrorsIn
  <1>7. ErrorOnce'
    <2>1. CASE item.kind = "error"
      <3>1. 1 \in ErrorsIn(queue)
        BY <1>2, <2>1 DEF ErrorsIn
      <3>2. raised /\ producer # "error" /\ frames = 0 /\ ErrorsIn(queue) = {1}
        BY <1>4, <3>1 DEF ErrorOnce
      <3>3. ErrorsIn(queue') = {}
        <4>1. \A n \in Nat : n + 1 = 1 => n = 0
          OBVIOUS
        <4> QED
          BY <1>6, <3>2, <4>1
      <3> QED
        BY <1>1, <1>3, <2>1, <3>2, <3>3 DEF ErrorOnce
    <2>2. CASE item.kind # "error"
      <3>1. frames' = frames
        BY <1>3, <2>2
      <3>2. ErrorsIn(queue) = {} => ErrorsIn(queue') = {}
        BY <1>6
      <3>3. ASSUME NEW n \in 1 .. Len(queue), ErrorsIn(queue) = {n}
            PROVE  \E k \in 1 .. Len(queue') : ErrorsIn(queue') = {k}
        <4>1. n # 1 /\ n \in Nat
          BY <1>2, <2>2, <3>3 DEF ErrorsIn
        <4>2. n - 1 \in 1 .. Len(queue') /\ n - 1 \in Nat /\ n - 1 # 0 /\ (n - 1) + 1 = n
          BY <1>2, <4>1
        <4>3. \A k \in Nat : k + 1 = n => k = n - 1
          BY <4>1
        <4>4. ErrorsIn(queue') = {n - 1}
          BY <1>6, <3>3, <4>2, <4>3
        <4> QED
          BY <4>2, <4>4
      <3> QED
        BY <1>1, <1>4, <3>1, <3>2, <3>3 DEF ErrorOnce
    <2> QED
      BY <2>1, <2>2
  <1>8. Handled'
    BY <1>1, <1>2, <1>3, <1>4 DEF Sentinels, Handled, RowsAreTheTurn
  <1>9. Newest'
    <2> SUFFICES ASSUME producer # "put", HistoryLen + Len(rows) # Len(messages)
                 PROVE  \/ consumer' = "process" /\ upto' = Len(messages)
                        \/ \E n \in 1 .. Len(queue') :
                              queue'[n].kind = "state" /\ queue'[n].upto = Len(messages)
      BY <1>1 DEF Newest
    <2>1. PICK n \in 1 .. Len(queue) :
             queue[n].kind = "state" /\ queue[n].upto = Len(messages)
      BY <1>1, <1>4 DEF Newest
    <2>2. CASE n = 1
      BY <1>2, <1>3, <2>1, <2>2
    <2>3. CASE n # 1
      <3>1. n - 1 \in 1 .. Len(queue') /\ (n - 1) + 1 = n
        BY <1>2, <2>3
      <3>2. queue'[n - 1] = queue[n]
        BY <1>2, <3>1
      <3> QED
        BY <2>1, <3>1, <3>2
    <2> QED
      BY <2>2, <2>3
  <1> QED
    BY <1>5, <1>7, <1>8, <1>9 DEF QueueInv

\* The first message that is not handled is the one behind the last row.
LEMMA QueueProcesses ==
  ASSUME TypeOK, QueueInv, ProcessMessage
  PROVE  QueueInv'
  <1> DEFINE r == Len(rows)
  <1>1. PICK i \in Unseen(upto) :
           /\ \A j \in Unseen(upto) : i <= j
           /\ seen' = seen \cup {i} /\ rows' = Append(rows, i)
    BY DEF ProcessMessage
  <1>2. /\ consumer = "process"
        /\ UNCHANGED <<node, messages, producer, raised, queue, consumer, upto, frames>>
    BY DEF ProcessMessage, graph, producing, channel
  <1>3. /\ rows \in Seq(Nat) /\ r \in Nat /\ upto \in Nat /\ Len(messages) \in Nat
        /\ HistoryLen \in Nat
    BY Numbers DEF TypeOK
  <1>4. /\ \A n \in 1 .. r : rows[n] = HistoryLen + n
        /\ HistoryLen + r <= Len(messages) /\ upto <= Len(messages)
        /\ seen = HistoryLen + 1 .. HistoryLen + r
    BY DEF QueueInv, Handled, RowsAreTheTurn
  <1>5. i \in Nat /\ HistoryLen + r + 1 <= i /\ i <= upto
    BY <1>3, <1>4 DEF Unseen
  <1>6. HistoryLen + r + 1 \in Unseen(upto)
    BY <1>3, <1>4, <1>5 DEF Unseen
  <1>7. i = HistoryLen + r + 1
    BY <1>1, <1>3, <1>5, <1>6
  <1>8. /\ Len(rows') = r + 1 /\ rows'[r + 1] = i
        /\ \A n \in 1 .. r : rows'[n] = rows[n]
    BY <1>1, <1>3, <1>5
  <1> HIDE DEF r
  <1>9. RowsAreTheTurn'
    <2>1. \A n \in 1 .. r + 1 : n \in 1 .. r \/ n = r + 1
      BY <1>3
    <2> QED
      BY <1>2, <1>3, <1>4, <1>5, <1>7, <1>8, <2>1 DEF RowsAreTheTurn
  <1>10. Handled'
    <2>1. seen' = HistoryLen + 1 .. HistoryLen + (r + 1)
      BY SMTT(30), <1>1, <1>3, <1>4, <1>7
    <2> QED
      BY <1>2, <1>4, <1>8, <1>9, <2>1 DEF Handled
  <1>11. Newest'
    <2>1. Newest
      BY DEF QueueInv
    <2>2. HistoryLen + r = Len(messages) => FALSE
      BY <1>3, <1>4, <1>5
    <2> QED
      BY <1>2, <2>1, <2>2 DEF Newest, r
  <1>12. Sentinels' /\ ErrorOnce'
    BY <1>2 DEF QueueInv, Sentinels, ErrorOnce, ErrorsIn
  <1> QED
    BY <1>10, <1>11, <1>12 DEF QueueInv

\* The chunk in hand is done when all of it is stored.
LEMMA QueueChunkDone ==
  ASSUME TypeOK, QueueInv, ChunkDone
  PROVE  QueueInv'
  <1>1. /\ consumer = "process" /\ Unseen(upto) = {} /\ consumer' = "get"
        /\ UNCHANGED <<node, messages, producer, raised, queue, upto, seen, rows, frames>>
    BY DEF ChunkDone, graph, producing, channel
  <1>2. /\ Len(rows) \in Nat /\ upto \in Nat /\ Len(messages) \in Nat /\ HistoryLen \in Nat
    BY Numbers DEF TypeOK
  <1>3. /\ HistoryLen + Len(rows) <= Len(messages) /\ upto <= Len(messages)
        /\ seen = HistoryLen + 1 .. HistoryLen + Len(rows)
    BY DEF QueueInv, Handled, RowsAreTheTurn
  <1>4. upto <= HistoryLen + Len(rows)
    <2> SUFFICES ASSUME ~ (upto <= HistoryLen + Len(rows)) PROVE FALSE
      OBVIOUS
    <2>1. HistoryLen + Len(rows) + 1 \in Unseen(upto)
      BY <1>2, <1>3 DEF Unseen
    <2> QED
      BY <1>1, <2>1
  <1>5. Newest'
    <2>1. Newest
      BY DEF QueueInv
    <2>2. upto = Len(messages) => HistoryLen + Len(rows) = Len(messages)
      BY <1>2, <1>3, <1>4
    <2> QED
      BY <1>1, <2>1, <2>2 DEF Newest
  <1>6. Sentinels' /\ ErrorOnce' /\ Handled'
    BY <1>1 DEF QueueInv, Sentinels, ErrorOnce, ErrorsIn, Handled, RowsAreTheTurn
  <1> QED
    BY <1>5, <1>6 DEF QueueInv

LEMMA QueueNext ==
  ASSUME TypeOK, GraphInv, QueueInv, [Next]_vars
  PROVE  QueueInv'
  <1> USE DEF graph, producing, channel, consuming
  <1>1. CASE CallLLM \/ Retry \/ UNCHANGED vars
    <2>1. UNCHANGED <<node, messages, producer, raised, queue, consumer, upto, seen, rows, frames>>
      BY <1>1 DEF CallLLM, Retry, vars
    <2> QED
      BY <2>1 DEF QueueInv, Sentinels, ErrorOnce, ErrorsIn, Handled, RowsAreTheTurn, Newest
  <1>2. CASE Respond \/ StepFailed
    <2>1. <<>> \in Seq(Tool) /\ {"prose", "blank", "parts"} \subseteq Body
      BY DEF Body
    <2>2. PICK calls \in Seq(Tool), body \in Body : StepDone(AI(calls, body))
      <3>1. CASE Respond
        BY <2>1, <3>1, AgentTurnAssumption DEF Respond
      <3>2. CASE StepFailed
        BY <2>1, <3>2 DEF StepFailed
      <3> QED
        BY <1>2, <3>1, <3>2
    <2>3. Len(messages') = Len(messages) + 1
      BY <2>2, AIType, AnswerStep
    <2>4. /\ producer = "graph" /\ producer' = "put" /\ UNCHANGED <<raised, channel, consuming>>
      BY <1>2, <2>2 DEF Respond, StepFailed, StepDone, Yield, InNode
    <2> QED
      BY <2>3, <2>4, Numbers, QueueYields
  <1>3. CASE RunTools
    <2>1. Len(messages') = Len(messages) + Len(Last.calls) /\ Last.calls \in Seq(Tool)
      BY <1>3, ToolsStep DEF GraphInv
    <2>2. /\ producer = "graph" /\ producer' = "put" /\ UNCHANGED <<raised, channel, consuming>>
      BY <1>3 DEF RunTools, Yield, InNode
    <2>3. Len(Last.calls) \in Nat /\ Len(messages) \in Nat
      BY <2>1, Numbers
    <2> QED
      BY <2>1, <2>2, <2>3, QueueYields
  <1>4. CASE StepCap
    <2>1. Len(messages') = Len(messages) + 1
      BY <1>4, CapStep
    <2>2. /\ producer = "graph" /\ producer' = "put" /\ UNCHANGED <<raised, channel, consuming>>
      BY <1>4 DEF StepCap, Yield, InNode
    <2> QED
      BY <2>1, <2>2, Numbers, QueueYields
  <1>5. CASE GraphRaises \/ GraphEnds
    BY <1>5, QueueCloses
  <1>6. CASE PutChunk \/ PutError \/ PutSentinel
    BY <1>6, QueuePuts
  <1>7. CASE FindEmpty \/ Register \/ Resume
    <2>1. /\ UNCHANGED <<node, messages, producing, queue, upto, seen, rows, frames>>
          /\ consumer' # "returned" /\ consumer \notin {"process", "failed"}
      BY <1>7 DEF FindEmpty, Register, Resume
    <2> QED
      BY <2>1, QueueKept
  <1>8. CASE TakeChunk \/ TakeError \/ TakeSentinel
    BY <1>8, QueueTakes
  <1>9. CASE ProcessMessage
    BY <1>9, QueueProcesses
  <1>10. CASE ChunkDone
    BY <1>10, QueueChunkDone
  <1>11. CASE PersistRaises
    <2>1. /\ consumer = "process" /\ consumer' = "failed"
          /\ UNCHANGED <<node, messages, producer, raised, queue, upto, seen, rows, frames>>
      BY <1>11 DEF PersistRaises
    <2> QED
      BY <2>1 DEF QueueInv, Sentinels, ErrorOnce, ErrorsIn, Handled, RowsAreTheTurn, Newest
  <1> QED
    BY <1>1, <1>2, <1>3, <1>4, <1>5, <1>6, <1>7, <1>8, <1>9, <1>10, <1>11
       DEF Next, Producer, Consumer

-----------------------------------------------------------------------------
(* The inductive invariant                                                 *)

LEMMA InitIInv == Init => IInv
  <1> SUFFICES ASSUME Init PROVE IInv
    OBVIOUS
  <1>1. Human \in Message /\ AI(<<>>, "prose") \in Message
    BY DEF Human, AI, Message, Body
  <1>2. messages \in Seq(Message) /\ Len(messages) = HistoryLen
    BY <1>1 DEF Init
  <1>3. TypeOK
    <2>1. /\ node = "agent_step" /\ calling = FALSE /\ attempt \in 0 .. MaxRetries
          /\ steps \in 0 .. MaxSteps /\ prompt = "none"
      BY DEF Init
    <2>2. producer = "put" /\ raised = FALSE /\ getter = "none" /\ queue = <<>>
      BY DEF Init
    <2>3. /\ consumer = "get" /\ upto \in Nat /\ seen = {} /\ rows = <<>>
          /\ frames \in Nat /\ faults \in Nat
      BY DEF Init
    <2>4. /\ queue \in Seq([kind : {"state", "error", "none"}, upto : Nat])
          /\ rows \in Seq(Nat) /\ seen \subseteq Nat
      BY <2>2, <2>3
    <2> QED
      BY <1>2, <2>1, <2>2, <2>3, <2>4 DEF TypeOK
  <1>4. Own = {} /\ HistoryLen \in Nat
    BY <1>2 DEF Own
  <1>5. GraphInv
    BY <1>2, <1>4 DEF Init, GraphInv, OwnMessages, Standing, Replies, TerminalsLast,
                      NoAnswerAfterTerminal, ProseLast
  <1>6. QueueInv
    <2>1. Sentinels /\ ErrorOnce /\ Newest
      BY DEF Init, Sentinels, ErrorOnce, ErrorsIn, Newest
    <2>2. Handled
      BY <1>2, <1>4 DEF Init, Handled, RowsAreTheTurn
    <2> QED
      BY <2>1, <2>2 DEF QueueInv
  <1> QED
    BY <1>3, <1>5, <1>6 DEF IInv

LEMMA NextIInv == IInv /\ [Next]_vars => IInv'
  BY TypeNext, GraphNext, QueueNext DEF IInv, GraphInv

\* Between any two steps of the two threads the graph's list is well formed and
\* rows, chunk in hand and queue hold together all that was put.
THEOREM Invariance == Spec => []IInv
  BY InitIInv, NextIInv, PTL DEF Spec

\* Every variable stays within its type.
THEOREM TypeCorrect == Spec => []TypeOK
  <1>1. IInv => TypeOK
    BY DEF IInv
  <1> QED
    BY <1>1, Invariance, PTL

-----------------------------------------------------------------------------
(* What the runs check                                                     *)

\* consume_queue: the rows of a turn are the turn's own messages, in order
\* and each once, whatever the lengths of the chunks.
THEOREM RowsFollowTheTurn == Spec => []RowsAreTheTurn
  <1>1. IInv => RowsAreTheTurn
    BY DEF IInv, QueueInv, Handled
  <1> QED
    BY <1>1, Invariance, PTL

\* A consumer that returns has stored every message the graph yielded: no put
\* is lost although the queue is shared by two threads.
THEOREM AllIsStored == Spec => []NothingLost
  <1>1. IInv => NothingLost
    <2> SUFFICES ASSUME IInv, consumer = "returned"
                 PROVE  HistoryLen + Len(rows) = Len(messages)
      BY DEF NothingLost
    <2>1. producer = "done" /\ queue = <<>>
      BY DEF IInv, QueueInv, Sentinels
    <2>2. Newest
      BY DEF IInv, QueueInv
    <2>3. ~ \E n \in 1 .. Len(queue) : TRUE
      BY <2>1
    <2> QED
      BY <2>1, <2>2, <2>3 DEF Newest
  <1> QED
    BY <1>1, Invariance, PTL

\* A raising graph.stream is reported once, before the consumer returns, and
\* a run that ends is not.
THEOREM ErrorIsSeenOnce == Spec => []ErrorFrameIffRaised
  <1>1. IInv => ErrorFrameIffRaised
    <2> SUFFICES ASSUME IInv, consumer = "returned"
                 PROVE  frames = IF raised THEN 1 ELSE 0
      BY DEF ErrorFrameIffRaised
    <2>1. producer = "done" /\ queue = <<>>
      BY DEF IInv, QueueInv, Sentinels
    <2>2. ErrorOnce
      BY DEF IInv, QueueInv
    <2>3. ~ \E n \in 1 .. Len(queue) : TRUE
      BY <2>1
    <2> QED
      BY <2>1, <2>2, <2>3 DEF ErrorOnce
  <1> QED
    BY <1>1, Invariance, PTL

\* run_tools leaves no tool call without its result, but for the calls that
\* the step cap cut off.
THEOREM EveryCallIsAnswered == Spec => []CallsAnswered
  <1>1. IInv => CallsAnswered
    <2> SUFFICES ASSUME IInv, NEW i \in HistoryLen + 1 .. Len(messages) - 1
                 PROVE  Answered(i) \/ (steps = MaxSteps /\ i + 1 = Len(messages))
      BY DEF CallsAnswered
    <2>1. i \in Own /\ i # Len(messages)
      BY Numbers DEF IInv, Own
    <2> QED
      BY <2>1 DEF IInv, GraphInv, Replies
  <1> QED
    BY <1>1, Invariance, PTL

\* Only the last event of a message can be final, and it is if the message
\* ends its turn.
LEMMA OneFinal ==
  ASSUME NEW m
  PROVE  HasFinal(EventsOf(m)) <=> EndsTurn(m)
  <1> DEFINE e == EventsOf(m)
             t == Thinking(m)
             s == Step(m)
             f == Event("final", "", "")
  <1>1. s.event = "step" /\ f.event = "final"
    BY DEF Step, Event
  <1>2. t = <<>> \/ \E what, name : t = <<Event("thinking", what, name)>>
    BY DEF Thinking
  <1>3. t = <<>> \/ \E h : h.event = "thinking" /\ t = <<h>>
    <2>1. \A what, name : Event("thinking", what, name).event = "thinking"
      BY DEF Event
    <2> HIDE DEF t
    <2> QED
      BY <1>2, <2>1
  <1>4. e = t \o <<s>> \o (IF EndsTurn(m) THEN <<f>> ELSE <<>>)
    BY DEF EventsOf
  <1> HIDE DEF e, t, s, f
  <1>5. CASE EndsTurn(m)
    <2>1. CASE t = <<>>
      <3>1. Len(e) = 2 /\ e[2] = f
        BY <1>4, <1>5, <2>1
      <3> QED
        BY <1>1, <1>5, <3>1 DEF HasFinal, e
    <2>2. CASE \E h : h.event = "thinking" /\ t = <<h>>
      <3>1. PICK h : h.event = "thinking" /\ t = <<h>>
        BY <2>2
      <3>2. Len(e) = 3 /\ e[3] = f
        BY <1>4, <1>5, <3>1
      <3> QED
        BY <1>1, <1>5, <3>2 DEF HasFinal, e
    <2> QED
      BY <1>3, <2>1, <2>2
  <1>6. CASE ~ EndsTurn(m)
    <2>1. CASE t = <<>>
      <3>1. Len(e) = 1 /\ e[1] = s
        BY <1>4, <1>6, <2>1
      <3> QED
        BY <1>1, <1>6, <3>1 DEF HasFinal, e
    <2>2. CASE \E h : h.event = "thinking" /\ t = <<h>>
      <3>1. PICK h : h.event = "thinking" /\ t = <<h>>
        BY <2>2
      <3>2. Len(e) = 2 /\ e[1] = h /\ e[2] = s
        BY <1>4, <1>6, <3>1
      <3> QED
        BY <1>1, <1>6, <3>1, <3>2 DEF HasFinal, e
    <2> QED
      BY <1>3, <2>1, <2>2
  <1> QED
    BY <1>5, <1>6

\* The row of an own message, read back by tail_turn: an answer keeps its
\* calls, and its content if that was text; a result keeps its name only if
\* its columns tell it.
LEMMA ReadBack ==
  ASSUME NEW m, OwnMessage(m)
  PROVE  /\ m.kind = "ai" =>
               /\ EndsTurn(RowToMessage(Persist(m))) <=> m.calls = <<>>
               /\ EndsTurn(m) <=> m.calls = <<>>
               /\ m.body # "parts" => RowToMessage(Persist(m)) = m
               /\ ~ Persist(m).widgets
         /\ m.kind # "ai" =>
               /\ RowToMessage(Persist(m)).kind = "tool"
               /\ EndsTurn(RowToMessage(Persist(m))) <=> Persist(m).widgets
               /\ EndsTurn(m) <=> TerminalPayload(m)
               /\ Persist(m).widgets => /\ m.name = "final_answer" /\ TerminalPayload(m)
                                        /\ RowToMessage(Persist(m)) = m
         /\ m.kind \in {"ai", "tool"}
  <1>1. CASE \E calls \in Seq(Tool), body \in Body : m = AI(calls, body)
    <2>1. PICK calls \in Seq(Tool), body \in Body : m = AI(calls, body)
      BY <1>1
    <2>2. m.kind = "ai" /\ m.calls = calls /\ m.body = body /\ m.name = ""
      BY <2>1 DEF AI
    <2>7. ~ Persist(m).widgets
      BY <2>2 DEF Persist, TerminalPayload
    <2> DEFINE text == IF body = "parts" THEN "prose" ELSE body
    <2>3. /\ Persist(m).role = "assistant" /\ Persist(m).calls = calls
          /\ Persist(m).body = text
      BY <2>2 DEF Persist
    <2>4. RowToMessage(Persist(m)) = AI(calls, text)
      BY <2>3 DEF RowToMessage
    <2>5. AI(calls, text).kind = "ai" /\ AI(calls, text).calls = calls
      BY DEF AI
    <2>6. body # "parts" => AI(calls, text) = m
      BY <2>1
    <2> HIDE DEF text
    <2> QED
      BY <2>2, <2>4, <2>5, <2>6, <2>7 DEF EndsTurn
  <1>2. CASE \E t \in Tool : \E b \in BodiesOf(t) : m = Result(t, b)
    <2>0. PICK t \in Tool : \E b \in BodiesOf(t) : m = Result(t, b)
      BY <1>2
    <2>1. PICK b \in BodiesOf(t) : m = Result(t, b)
      BY <2>0
    <2>2. m.kind = "tool" /\ m.name = t /\ m.body = b /\ b # "parts"
      BY <2>1 DEF Result, BodiesOf
    <2>3. /\ Persist(m).role = "tool" /\ Persist(m).body = b
          /\ Persist(m).widgets <=> (t = "final_answer" /\ b = "widgets")
      BY <2>2 DEF Persist, TerminalPayload
    <2>4. RowToMessage(Persist(m)) = Result(IF Persist(m).widgets THEN "final_answer" ELSE "tool", b)
      BY <2>3 DEF RowToMessage
    <2>5. CASE Persist(m).widgets
      <3>1. RowToMessage(Persist(m)) = m /\ TerminalPayload(m)
        BY <2>1, <2>2, <2>3, <2>4, <2>5 DEF TerminalPayload
      <3> QED
        BY <2>2, <2>3, <2>5, <3>1 DEF EndsTurn
    <2>6. CASE ~ Persist(m).widgets
      <3>1. RowToMessage(Persist(m)).kind = "tool" /\ RowToMessage(Persist(m)).name = "tool"
        BY <2>4, <2>6 DEF Result
      <3> QED
        BY <2>2, <2>6, <3>1 DEF EndsTurn, TerminalPayload
    <2> QED
      BY <2>5, <2>6
  <1> QED
    BY <1>1, <1>2 DEF OwnMessage

\* Rows are own messages.
LEMMA RowOwn ==
  ASSUME IInv, NEW n \in 1 .. Len(rows)
  PROVE  rows[n] = HistoryLen + n /\ rows[n] \in Own /\ OwnMessage(messages[rows[n]])
  <1>1. rows[n] = HistoryLen + n /\ HistoryLen + Len(rows) <= Len(messages)
    BY DEF IInv, QueueInv, Handled, RowsAreTheTurn
  <1>2. Len(rows) \in Nat /\ Len(messages) \in Nat /\ HistoryLen \in Nat
    BY Numbers DEF IInv, TypeOK
  <1>3. rows[n] \in Own
    BY <1>1, <1>2 DEF Own
  <1> QED
    BY <1>1, <1>3 DEF IInv, GraphInv, OwnMessages

\* The tail tells answers in text and final answers with widgets as the chat
\* did, and ends the turn with the same messages, but for a final answer whose
\* row kept no widget column.
THEOREM TailTellsTheAnswers == Spec => []TailRetellsTurn
  <1>1. IInv => TailRetellsTurn
    <2> SUFFICES ASSUME IInv, NEW n \in 1 .. Len(rows)
                 PROVE  TailRetells(messages[rows[n]], Row(n))
      BY DEF TailRetellsTurn
    <2> DEFINE m == messages[rows[n]]
               row == Persist(m)
    <2>1. OwnMessage(m) /\ Row(n) = row
      BY RowOwn DEF Row
    <2> HIDE DEF m, row
    <2>2. TailEvents(row) = EventsOf(RowToMessage(row)) /\ ChatEvents(m) = EventsOf(m)
      BY DEF TailEvents, ChatEvents
    <2>3. /\ HasFinal(TailEvents(row)) <=> EndsTurn(RowToMessage(row))
          /\ HasFinal(ChatEvents(m)) <=> EndsTurn(m)
      BY <2>2, OneFinal
    <2>4. m.kind \in {"ai", "tool"}
      BY <2>1, ReadBack
    <2>5. CASE m.kind = "ai"
      <3>1. /\ ~ row.widgets
            /\ EndsTurn(RowToMessage(row)) <=> EndsTurn(m)
            /\ m.body # "parts" => RowToMessage(row) = m
        BY <2>1, <2>5, ReadBack DEF row
      <3>2. m.body # "parts" => TailEvents(row) = ChatEvents(m)
        BY <2>2, <3>1
      <3>3. HasFinal(TailEvents(row)) <=> HasFinal(ChatEvents(m))
        BY <2>3, <3>1
      <3>4. m.kind # "tool"
        BY <2>5
      <3> QED
        BY <2>1, <3>1, <3>2, <3>3, <3>4 DEF TailRetells, m
    <2>6. CASE m.kind = "tool"
      <3>1. /\ EndsTurn(RowToMessage(row)) <=> row.widgets
            /\ EndsTurn(m) <=> TerminalPayload(m)
            /\ row.widgets => TerminalPayload(m) /\ RowToMessage(row) = m
        BY <2>1, <2>6, ReadBack DEF row
      <3>2. row.widgets => TailEvents(row) = ChatEvents(m)
        BY <2>2, <3>1
      <3>3. m.kind # "ai"
        BY <2>6
      <3>4. HasFinal(TailEvents(row)) <=> row.widgets /\ HasFinal(ChatEvents(m))
        BY <2>3, <3>1
      <3> QED
        BY <2>1, <2>6, <3>2, <3>3, <3>4 DEF TailRetells, m
    <2> QED
      BY <2>1, <2>4, <2>5, <2>6 DEF m
  <1> QED
    BY <1>1, Invariance, PTL

\* _route and run_tools end the turn with its first terminal call or prose,
\* and the last row, alone, carries the final event the stream closes on; the
\* exception is prose on the last step the cap allows.
THEOREM OneEnd == Spec => []TurnEndsOnce
  <1>1. IInv => TurnEndsOnce
    <2> SUFFICES ASSUME IInv PROVE TurnEndsOnce
      OBVIOUS
    <2>1. \A i, j \in HistoryLen + 1 .. Len(messages) :
             i < j /\ messages[j].kind = "ai" => messages[i].name \notin TerminalTool
      BY DEF IInv, GraphInv, NoAnswerAfterTerminal, Own
    <2>2. ASSUME consumer = "returned", ~ raised, messages[Len(messages)].kind = "ai"
          PROVE  /\ HasFinal(TailEvents(Row(Len(rows))))
                 /\ \A n \in 1 .. Len(rows) - 1 :
                       HasFinal(TailEvents(Row(n))) => steps = MaxSteps /\ n + 1 = Len(rows)
      <3>1. node = "end" /\ producer = "done" /\ queue = <<>>
        BY <2>2 DEF IInv, QueueInv, Sentinels
      <3>2. /\ Len(rows) \in Nat /\ Len(messages) \in Nat /\ HistoryLen \in Nat
            /\ HistoryLen < Len(messages) /\ Last.calls = <<>>
        BY <2>2, <3>1, Numbers DEF IInv, TypeOK, GraphInv, Standing, Last
      <3>3. HistoryLen + Len(rows) = Len(messages)
        <4>1. ~ \E n \in 1 .. Len(queue) : TRUE
          BY <3>1
        <4>2. Newest
          BY DEF IInv, QueueInv
        <4> QED
          BY <2>2, <3>1, <4>1, <4>2 DEF Newest
      <3>4. HasFinal(TailEvents(Row(Len(rows))))
        <4>1. Len(rows) \in 1 .. Len(rows)
          BY <3>2, <3>3
        <4>2. messages[rows[Len(rows)]] = Last /\ OwnMessage(Last)
          BY <3>3, <4>1, RowOwn DEF Last
        <4>3. EndsTurn(RowToMessage(Persist(Last)))
          BY <2>2, <3>2, <4>2, ReadBack DEF Last
        <4> QED
          BY <4>2, <4>3, OneFinal DEF TailEvents, Row
      <3>5. ASSUME NEW n \in 1 .. Len(rows) - 1, HasFinal(TailEvents(Row(n)))
            PROVE  steps = MaxSteps /\ n + 1 = Len(rows)
        <4> DEFINE i == rows[n]
                   m == messages[i]
        <4>1. i = HistoryLen + n /\ i \in Own /\ OwnMessage(m)
          <5>1. n \in 1 .. Len(rows)
            BY <3>2
          <5> QED
            BY <5>1, RowOwn
        <4>2. EndsTurn(RowToMessage(Persist(m)))
          BY <3>5, OneFinal DEF TailEvents, Row
        <4>3. i < Len(messages) /\ Len(messages) \in Own
          BY <3>2, <3>3, <4>1 DEF Own
        <4>4. m.name \notin TerminalTool
          BY <2>1, <2>2, <4>1, <4>3 DEF Own
        <4>5. m.kind = "ai" /\ m.calls = <<>>
          <5> HIDE DEF m
          <5>1. m.kind = "ai" \/ m.name = "final_answer"
            BY <4>1, <4>2, ReadBack
          <5>2. m.kind = "ai"
            BY <4>4, <5>1 DEF TerminalTool
          <5> QED
            BY <4>1, <4>2, <5>2, ReadBack
        <4>6. i + 1 = Len(messages) /\ steps = MaxSteps
          BY <3>1, <4>1, <4>3, <4>5 DEF IInv, GraphInv, ProseLast
        <4> QED
          BY <3>2, <3>3, <4>1, <4>6
      <3> QED
        BY <3>4, <3>5
    <2> QED
      BY <2>1, <2>2 DEF TurnEndsOnce
  <1> QED
    BY <1>1, Invariance, PTL
=============================================================================
