----------------------------- MODULE TurnEvents -----------------------------
(***************************************************************************)
(* What one message of the agent becomes: the row that is persisted for    *)
(* it, the SSE events chat_process_message builds in the process that ran  *)
(* the agent, and the events tail_turn rebuilds from the row.              *)
(*                                                                         *)
(* A message keeps what these functions look at: its kind, the names of    *)
(* the tools it calls, the name of the tool it answers, and the shape of   *)
(* its content.                                                            *)
(***************************************************************************)
EXTENDS Naturals, Sequences

CONSTANTS
    DataTool    \* names of the tools that do not end a turn

TerminalTool == {"final_answer", "clarify"}
Tool == DataTool \cup TerminalTool

\* Shapes of a content: for AI messages text, blank text, or a list of parts;
\* for tool messages the JSON they carry: an object with an "error" key, an
\* object, a final answer with a non-empty openui_dsl, mf_query or rows, or a
\* list.
Body == {"prose", "blank", "parts", "error", "object", "widgets", "list"}

Message == [kind : {"system", "human", "ai", "tool"},
            calls : Seq(Tool), name : Tool \cup {"", "tool"}, body : Body]

Human == [kind |-> "human", calls |-> <<>>, name |-> "", body |-> "prose"]
AI(calls, body) == [kind |-> "ai", calls |-> calls, name |-> "", body |-> body]
Result(tool, body) == [kind |-> "tool", calls |-> <<>>, name |-> tool, body |-> body]

\* What a tool may answer; a tool that raises answers an error object.
BodiesOf(tool) ==
    IF tool = "final_answer" THEN {"error", "object", "widgets"}
    ELSE {"error", "object", "list"}

-----------------------------------------------------------------------------
(* Rows of thread_messages                                                 *)

TerminalPayload(m) == m.name = "final_answer" /\ m.body \in {"error", "object", "widgets"}

\* persist_assistant and persist_tool.  Of a list of parts _coerce_str stores
\* the joined text.  The tool's name is kept in tool_results, which the tail does not read
\* back; widgets stands for the columns openui_dsl, mf_query and rows.
Persist(m) ==
    [role |-> IF m.kind = "ai" THEN "assistant" ELSE "tool",
     calls |-> m.calls, body |-> IF m.body = "parts" THEN "prose" ELSE m.body,
     widgets |-> TerminalPayload(m) /\ m.body = "widgets"]

\* tail_turn._row_to_message.
NamelessMessage(row) ==
    IF row.role = "assistant" THEN AI(row.calls, row.body) ELSE Result("tool", row.body)
RowToMessage(row) ==
    IF row.role = "assistant"
    THEN AI(row.calls, row.body)
    ELSE Result(IF row.widgets THEN "final_answer" ELSE "tool", row.body)

-----------------------------------------------------------------------------
(* Events                                                                  *)

\* An event keeps what it tells: the narration of the line, the kind of the
\* step or the result it carries, and the tool's name.  (The number of the step
\* is left out.)
Event(event, what, name) == [event |-> event, what |-> what, name |-> name]

\* narration_for: an AI message is narrated by its first call, else as
\* reasoning if it has text; a tool message by its name, unless it tells an
\* error.
Thinking(m) ==
    CASE m.kind = "ai" /\ m.calls # <<>> -> <<Event("thinking", "calling", m.calls[1])>>
      [] m.kind = "ai" /\ m.calls = <<>> /\ m.body = "prose" ->
            <<Event("thinking", "reasoning", "")>>
      [] m.kind = "tool" /\ m.body = "error" -> <<Event("thinking", "error", "")>>
      [] m.kind = "tool" /\ m.body # "error" -> <<Event("thinking", "result", m.name)>>
      [] OTHER -> <<>>

\* emit_step.
Step(m) ==
    CASE m.kind = "tool" -> Event("step", m.body, m.name)
      [] m.calls # <<>>  -> Event("step", "tool_call", m.calls[1])
      [] OTHER           -> Event("step", "thinking", "")

\* The HUG-265 contract: prose without tool calls, or a final_answer.
EndsTurn(m) ==
    \/ m.kind = "ai" /\ m.calls = <<>>
    \/ m.kind = "tool" /\ TerminalPayload(m)

EventsOf(m) ==
    Thinking(m) \o <<Step(m)>>
        \o (IF EndsTurn(m) THEN <<Event("final", "", "")>> ELSE <<>>)

\* chat_process_message sees the message, tail_turn._events_for_row its row.
ChatEvents(m) == EventsOf(m)
TailEvents(row) == EventsOf(RowToMessage(row))
=============================================================================
