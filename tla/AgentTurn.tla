------------------------------ MODULE AgentTurn ------------------------------
(***************************************************************************)
(* One agent run: a producer thread drives the ReAct graph and puts every  *)
(* state it yields on an asyncio.Queue; the consumer, a coroutine of the   *)
(* event loop, persists the messages it has not seen.  The queue is shared *)
(* between the two threads although asyncio.Queue is made for one, so the  *)
(* consumer's get is two steps here: it finds the queue empty, and it      *)
(* registers the future that the next put resolves.                        *)
(*                                                                         *)
(* A message is identified by its place in the state's list, which only    *)
(* grows; a chunk is the length of that list when it was yielded.  Token   *)
(* deltas share the queue but touch nothing of this state; they are left   *)
(* out.                                                                    *)
(***************************************************************************)
EXTENDS TurnEvents, FiniteSets

CONSTANTS
    Responses,    \* tool calls of the answers the LLM may give
    HistoryLen,   \* messages the run starts from, the new user message last
    MaxSteps,     \* AgentState.max_steps
    MaxRetries,   \* _LLM_MAX_RETRIES
    MaxFaults     \* bound: INSERTs that raise

ASSUME AgentTurnAssumption ==
    /\ Responses \subseteq Seq(Tool)
    /\ HistoryLen \in Nat \ {0}
    /\ MaxSteps \in Nat \ {0}
    /\ MaxRetries \in Nat /\ MaxFaults \in Nat

VARIABLES
    \* The graph, in the producer thread.
    node,       \* the node that runs next
    calling,    \* an LLM call is under way
    attempt,    \* retries of the current step
    messages, steps,
    prompt,     \* system prompt of the last LLM call
    \* make_producer's thread function.
    producer,   \* what it does next
    raised,     \* graph.stream raised
    \* asyncio.Queue.
    queue, getter,
    \* consume_queue and its caller.
    consumer,
    upto,       \* length of the chunk in hand
    seen,       \* places of the messages already handled
    rows,       \* places of the messages persisted, in order
    frames,     \* error frames yielded to _drain_lead_turn, which drops them
    faults

graph == <<node, calling, attempt, messages, steps, prompt>>
producing == <<producer, raised>>
channel == <<queue, getter>>
consuming == <<consumer, upto, seen, rows, frames, faults>>
vars == <<graph, producing, channel, consuming>>

TypeOK ==
    /\ node \in {"agent_step", "tools", "tools_terminal", "step_cap", "end"}
    /\ calling \in BOOLEAN
    /\ attempt \in 0 .. MaxRetries
    /\ messages \in Seq(Message)
    /\ steps \in 0 .. MaxSteps
    /\ prompt \in {"none", "openui", "lead"}
    /\ producer \in {"graph", "put", "error", "close", "done"}
    /\ raised \in BOOLEAN
    /\ queue \in Seq([kind : {"state", "error", "none"}, upto : Nat])
    /\ getter \in {"none", "waiting", "resolved"}
    /\ consumer \in {"get", "register", "await", "process", "returned", "failed"}
    /\ upto \in Nat
    /\ seen \subseteq Nat
    /\ rows \in Seq(Nat)
    /\ frames \in Nat /\ faults \in Nat

\* The history is rehydrated from rows of earlier turns: here, answers.
Init ==
    /\ node = "agent_step" /\ calling = FALSE /\ attempt = 0
    /\ messages = [i \in 1 .. HistoryLen |->
                     IF i = HistoryLen THEN Human ELSE AI(<<>>, "prose")]
    /\ steps = 0 /\ prompt = "none"
    /\ producer = "put" /\ raised = FALSE  \* stream_mode "values" yields the input first
    /\ queue = <<>> /\ getter = "none"
    /\ consumer = "get" /\ upto = 0 /\ seen = {} /\ rows = <<>>
    /\ frames = 0 /\ faults = 0

-----------------------------------------------------------------------------
(* The graph                                                               *)

\* _last_ai_message, which a run always has once a step was taken.
LastAI(msgs) ==
    msgs[CHOOSE i \in 1 .. Len(msgs) :
            /\ msgs[i].kind = "ai"
            /\ \A j \in i + 1 .. Len(msgs) : msgs[j].kind # "ai"]

CallsTerminal(m) == \E i \in 1 .. Len(m.calls) : m.calls[i] \in TerminalTool

\* _route, which looks at the step cap first.
RouteByFirstCall(msgs, n) ==
    IF n >= MaxSteps THEN "step_cap"
    ELSE IF LastAI(msgs).calls = <<>> THEN "end"
    ELSE IF LastAI(msgs).calls[1] \in TerminalTool THEN "tools_terminal" ELSE "tools"
Route(msgs, n) ==
    IF n >= MaxSteps THEN "step_cap"
    ELSE IF LastAI(msgs).calls = <<>> THEN "end"
    ELSE IF CallsTerminal(LastAI(msgs)) THEN "tools_terminal" ELSE "tools"

\* ensure_system_prompt.  stream_lead_turn puts its prompt into the slots of
\* the state, not into its messages.
SystemPrompt(msgs) == IF msgs[1].kind = "system" THEN "lead" ELSE "openui"

InNode(n) == producer = "graph" /\ node = n

\* A superstep ends: the state is yielded and the producer puts it.
Yield(msgs, next) ==
    /\ messages' = messages \o msgs
    /\ node' = next
    /\ producer' = "put"

CallLLM ==
    /\ InNode("agent_step") /\ ~ calling
    /\ calling' = TRUE
    /\ prompt' = SystemPrompt(messages)
    /\ UNCHANGED <<node, attempt, messages, steps, producing, channel, consuming>>

StepDone(m) ==
    /\ Yield(<<m>>, Route(Append(messages, m), steps + 1))
    /\ steps' = steps + 1
    /\ calling' = FALSE /\ attempt' = 0
    /\ UNCHANGED <<prompt, raised, channel, consuming>>

Respond ==
    /\ InNode("agent_step") /\ calling
    /\ \E calls \in Responses, body \in {"prose", "blank", "parts"} : StepDone(AI(calls, body))

\* A transient error, the wall-clock timeout included, with retries left.
RetryForEver ==
    /\ InNode("agent_step") /\ calling
    /\ calling' = FALSE
    /\ UNCHANGED <<node, attempt, messages, steps, prompt, producing, channel, consuming>>
Retry ==
    /\ InNode("agent_step") /\ calling
    /\ attempt < MaxRetries
    /\ attempt' = attempt + 1
    /\ calling' = FALSE
    /\ UNCHANGED <<node, messages, steps, prompt, producing, channel, consuming>>

\* _step_failed: any other error, or the last attempt.
StepFailed ==
    /\ InNode("agent_step") /\ calling
    /\ StepDone(AI(<<>>, "prose"))

\* run_tools: every call of the last AI message is answered, in order; a
\* tool that raises or is unknown answers an error object.
Answers(calls) ==
    {bodies \in [1 .. Len(calls) -> Body] :
        \A i \in 1 .. Len(calls) : bodies[i] \in BodiesOf(calls[i])}

ResultsUpToTerminal(calls, bodies) ==
    [i \in 1 .. (CHOOSE n \in 1 .. Len(calls) :
                    n = Len(calls) \/ calls[n] \in TerminalTool) |->
        Result(calls[i], bodies[i])]
Results(calls, bodies) ==
    [i \in 1 .. Len(calls) |-> Result(calls[i], bodies[i])]

RunTools ==
    /\ InNode("tools") \/ InNode("tools_terminal")
    /\ LET calls == LastAI(messages).calls
       IN  \E bodies \in Answers(calls) :
              Yield(Results(calls, bodies), IF node = "tools" THEN "agent_step" ELSE "end")
    /\ UNCHANGED <<calling, attempt, steps, prompt, raised, channel, consuming>>

StepCap ==
    /\ InNode("step_cap")
    /\ Yield(<<AI(<<>>, "prose")>>, "end")
    /\ UNCHANGED <<calling, attempt, steps, prompt, raised, channel, consuming>>

-----------------------------------------------------------------------------
(* The producer thread                                                     *)

\* graph.stream raises outside the handlers of the nodes.
GraphStopsSilently ==
    /\ producer = "graph" /\ node # "end"
    /\ producer' = "close"
    /\ raised' = TRUE
    /\ UNCHANGED <<graph, channel, consuming>>
GraphRaises ==
    /\ producer = "graph" /\ node # "end"
    /\ producer' = "error"
    /\ raised' = TRUE
    /\ UNCHANGED <<graph, channel, consuming>>

GraphEnds ==
    /\ InNode("end")
    /\ producer' = "close"
    /\ UNCHANGED <<graph, raised, channel, consuming>>

\* Queue.put_nowait from the producer thread: append, then resolve the
\* waiting getter, if it is registered by now.
Put(item) ==
    /\ queue' = Append(queue, item)
    /\ getter' = IF getter = "waiting" THEN "resolved" ELSE getter

PutChunk ==
    /\ producer = "put"
    /\ Put([kind |-> "state", upto |-> Len(messages)])
    /\ producer' = "graph"
    /\ UNCHANGED <<graph, raised, consuming>>

PutError ==
    /\ producer = "error"
    /\ Put([kind |-> "error", upto |-> 0])
    /\ producer' = "close"
    /\ UNCHANGED <<graph, raised, consuming>>

\* The finally block.
PutSentinel ==
    /\ producer = "close"
    /\ Put([kind |-> "none", upto |-> 0])
    /\ producer' = "done"
    /\ UNCHANGED <<graph, raised, consuming>>

-----------------------------------------------------------------------------
(* The consumer                                                            *)

\* Queue.get: `while self.empty()` ...
FindEmpty ==
    /\ consumer = "get" /\ queue = <<>>
    /\ consumer' = "register"
    /\ UNCHANGED <<graph, producing, channel, upto, seen, rows, frames, faults>>

\* ... a future is created and appended to the getters, and awaited.
Register ==
    /\ consumer = "register"
    /\ getter' = "waiting"
    /\ consumer' = "await"
    /\ UNCHANGED <<graph, producing, queue, upto, seen, rows, frames, faults>>

\* The loop resumes the consumer; the end of the producer thread, posted with
\* call_soon_threadsafe, wakes a sleeping loop at the latest.
Resume ==
    /\ consumer = "await" /\ getter = "resolved"
    /\ getter' = "none"
    /\ consumer' = "get"
    /\ UNCHANGED <<graph, producing, queue, upto, seen, rows, frames, faults>>

Take(kind) ==
    /\ consumer = "get" /\ queue # <<>>
    /\ Head(queue).kind = kind
    /\ queue' = Tail(queue)
    /\ UNCHANGED <<graph, producing, getter, seen, rows, faults>>

TakeChunk ==
    /\ Take("state")
    /\ upto' = Head(queue).upto
    /\ consumer' = "process"
    /\ UNCHANGED frames

TakeError ==
    /\ Take("error")
    /\ frames' = frames + 1
    /\ UNCHANGED <<consumer, upto>>

TakeSentinel ==
    /\ Take("none")
    /\ consumer' = "returned"
    /\ UNCHANGED <<upto, frames>>

\* The places of the chunk in hand that are new.
WholeState(n) == 1 .. n \ seen
NewestOnly(n) == ({n} \cap (HistoryLen + 1 .. n)) \ seen
Unseen(n) == (HistoryLen + 1 .. n) \ seen

\* process_message on the first new message of the chunk.
ProcessMessage ==
    /\ consumer = "process"
    /\ \E i \in Unseen(upto) :
          /\ \A j \in Unseen(upto) : i <= j
          /\ seen' = seen \cup {i}
          /\ rows' = Append(rows, i)
    /\ UNCHANGED <<graph, producing, channel, consumer, upto, frames, faults>>

ChunkDone ==
    /\ consumer = "process" /\ Unseen(upto) = {}
    /\ consumer' = "get"
    /\ UNCHANGED <<graph, producing, channel, upto, seen, rows, frames, faults>>

\* append_message raises: the generators unwind, the producer thread lives on.
PersistRaises ==
    /\ consumer = "process" /\ Unseen(upto) # {}
    /\ faults < MaxFaults
    /\ faults' = faults + 1
    /\ consumer' = "failed"
    /\ UNCHANGED <<graph, producing, channel, upto, seen, rows, frames>>

-----------------------------------------------------------------------------

Producer ==
    \/ CallLLM \/ Respond \/ Retry \/ StepFailed \/ RunTools \/ StepCap
    \/ GraphRaises \/ GraphEnds
    \/ PutChunk \/ PutError \/ PutSentinel

Consumer ==
    \/ FindEmpty \/ Register \/ Resume
    \/ TakeChunk \/ TakeError \/ TakeSentinel
    \/ ProcessMessage \/ ChunkDone \/ PersistRaises

Next == Producer \/ Consumer

Spec == Init /\ [][Next]_vars

\* Both threads run; every LLM call returns within its wall-clock budget, and
\* tools return.
FairSpec == Spec /\ WF_vars(Producer) /\ WF_vars(Consumer)

-----------------------------------------------------------------------------
(* Properties                                                              *)

Row(n) == Persist(messages[rows[n]])

\* initial_history_len and seen in consume_queue: the rows of a turn are its
\* own messages, in order and each once, and nothing of the history, although
\* every chunk repeats the whole state.
RowsAreTheTurn ==
    /\ \A n \in 1 .. Len(rows) : rows[n] = HistoryLen + n
    /\ HistoryLen + Len(rows) <= Len(messages)

\* When the consumer returns, and the turn is marked complete, every message
\* the graph yielded is stored, also if the graph raised in the end.
NothingLost ==
    consumer = "returned" => HistoryLen + Len(rows) = Len(messages)

\* The sentinel of a raising graph.stream is seen once, before the end.
ErrorFrameIffRaised ==
    consumer = "returned" => frames = IF raised THEN 1 ELSE 0

\* Between supersteps every tool call has its result behind it, as the LLM
\* providers demand of a history; only the step cap leaves calls unanswered.
Answered(i) ==
    \A k \in 1 .. Len(messages[i].calls) :
        /\ i + k <= Len(messages)
        /\ messages[i + k].kind = "tool"
        /\ messages[i + k].name = messages[i].calls[k]

CallsAnswered ==
    \A i \in HistoryLen + 1 .. Len(messages) - 1 :
        Answered(i) \/ (steps = MaxSteps /\ i + 1 = Len(messages))

\* A turn has one end.  graph.py: "Turn ends on a `final_answer` or `clarify`
\* tool call, OR on cap", wherever in a batch of calls the terminal one stands;
\* and a turn that ends in prose (an answer, the fallback, the step cap) has a
\* final event with its last row and with no other: but prose on the last step
\* the cap allows is followed by the cap's apology, a second final.
HasFinal(events) == \E k \in 1 .. Len(events) : events[k].event = "final"

TurnEndsOnce ==
    /\ \A i, j \in HistoryLen + 1 .. Len(messages) :
          i < j /\ messages[j].kind = "ai" => messages[i].name \notin TerminalTool
    /\ consumer = "returned" /\ ~ raised /\ messages[Len(messages)].kind = "ai" =>
          /\ HasFinal(TailEvents(Row(Len(rows))))
          /\ \A n \in 1 .. Len(rows) - 1 :
                HasFinal(TailEvents(Row(n))) => steps = MaxSteps /\ n + 1 = Len(rows)

\* The step cap and the bounded retries end every run of the graph.
ProducerEnds == <>(producer = "done")

\* lead_agent.py: the background task "Marks `turn_state` on completion or
\* exception"; it does so once the consumer has returned or failed.
ConsumerEnds == <>(consumer \in {"returned", "failed"})

\* What tail_turn makes of the rows.  An answer in text, and a final_answer
\* whose row kept one of openui_dsl, mf_query and rows, give the events of the
\* chat, names and narration included; no other row ends the turn where the
\* chat did not, and none is missed but a final_answer that kept no such column.
\* (More is not true, although tail_turn.py:136 says "Mirrors": any other tool
\* row is told under the name "tool", and an answer in parts, silent in the
\* chat, is narrated from its row.)
TailRetells(m, row) ==
    /\ (m.kind = "ai" /\ m.body # "parts") \/ row.widgets
          => TailEvents(row) = ChatEvents(m)
    /\ HasFinal(TailEvents(row))
          <=> HasFinal(ChatEvents(m)) /\ (m.kind = "tool" => row.widgets)

TailRetellsTurn == \A n \in 1 .. Len(rows) : TailRetells(messages[rows[n]], Row(n))
=============================================================================
