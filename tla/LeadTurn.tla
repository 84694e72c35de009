------------------------------ MODULE LeadTurn ------------------------------
(***************************************************************************)
(* The fire-and-forget turn pipeline of the API: POST .../messages stores  *)
(* the user message and starts a turn, a background task on the same       *)
(* process writes the turn's rows, and every response (of the POST or of   *)
(* GET .../tail) polls the rows back out of the database.  Several API     *)
(* processes share one database; each runs ONE event loop, which a handler *)
(* holds across all its synchronous psycopg calls.                         *)
(*                                                                         *)
(* Turns are numbered in the order of started_at, which                    *)
(* get_running_for_thread sorts by.  Row contents are left out: a row is   *)
(* its seq_no, its thread and its turn (NoTurn for a user message).        *)
(***************************************************************************)
EXTENDS Integers, FiniteSets, Sequences

CONSTANTS
    Instance,    \* API processes (Cloud Run instances), one event loop each
    Conn,        \* HTTP requests to the two SSE routes, each made once
    Thread,      \* chat threads, all owned by the caller
    FromSeq,     \* values of the from_seq query parameter
    None,        \* "no instance" and "no thread"
    Window,      \* messages of history a turn starts from (20 in post_message)
    MaxTurns,    \* bound: turns ever started (at least one per connection)
    MaxRows,     \* bound: rows one turn writes
    MaxCrashes,  \* bound: process deaths
    MaxFaults    \* bound: psycopg calls that raise

ASSUME ConstantsAssumption ==
    /\ Window \in Nat /\ MaxTurns \in Nat /\ MaxRows \in Nat
    /\ MaxCrashes \in Nat /\ MaxFaults \in Nat
    /\ FromSeq \subseteq Nat
    /\ None \notin Instance \cup Thread

VARIABLES
    \* Table turn_state, a function per column.
    status,   \* "absent": no row yet
    owner,    \* thread_id
    error,    \* error_text: "exception" from the task, "orphaned" from the sweep
    lastSeq,  \* last_seq_no, 0 standing for NULL
    aged,     \* turns whose started_at is more than 10 minutes ago
    \* Table thread_messages.
    rows,     \* committed rows [seq, thread, turn]
    nextSeq,  \* last value the BIGSERIAL behind seq_no handed out
    \* The processes.
    up,       \* those that accept requests
    \* _drain_lead_turn, the background task of a turn.
    taskPc,
    taskInst, \* the process that created the turn
    taskSeq,  \* seq_no of the INSERT in progress
    taskLast, \* what _last_seq_for_turn returned
    taskHist, \* seq_no of the messages the agent was given as history
    \* A request and the tail_turn generator behind its response.
    pc, inst, thread, turn,
    hist,     \* seq_no of the messages post_message read as history
    from, cursor, flip, batch,
    sent,     \* seq_no of the rows whose events were yielded, in order
    \* Bounds.
    crashes, faults

turnState == <<status, owner, error, lastSeq>>
messages == <<rows, nextSeq>>
taskData == <<taskInst, taskSeq, taskLast, taskHist>>
tasks == <<taskPc, taskData>>
request == <<inst, thread, turn, hist>>
tailVars == <<from, cursor, flip, batch, sent>>
conns == <<pc, request, tailVars>>
env == <<aged, up, crashes, faults>>
vars == <<turnState, messages, tasks, conns, env>>

-----------------------------------------------------------------------------
(* Types                                                                   *)

Turn == 1 .. MaxTurns
NoTurn == 0

Terminal == {"complete", "failed", "aborted"}
Status == {"absent", "running", "complete", "failed", "aborted"}

\* Where a request may stop: in the synchronous part of post_message, which
\* holds the event loop, or inside the tail generator.
HandlerPc == {"append", "guard", "create"}
TailPc == {"fetch", "emit"}
ConnPc == {"idle", "append", "guard", "create", "fetch", "emit",
           "ended", "gone", "error"}

\* "stream": waiting on the agent's queue; TaskSyncPc: inside synchronous
\* code; "dead": lost without marking the turn.
TaskSyncPc == {"insert", "mark", "except"}
TaskPc == {"none", "stream", "insert", "mark", "except", "done", "dead"}

TypeOK ==
    /\ status \in [Turn -> Status]
    /\ owner \in [Turn -> Thread \cup {None}]
    /\ error \in [Turn -> {"none", "exception", "orphaned"}]
    /\ lastSeq \in [Turn -> Nat]
    /\ rows \subseteq [seq : Nat, thread : Thread \cup {None}, turn : Turn \cup {NoTurn}]
    /\ nextSeq \in Nat
    /\ taskPc \in [Turn -> TaskPc]
    /\ taskInst \in [Turn -> Instance \cup {None}]
    /\ taskSeq \in [Turn -> Nat]
    /\ taskLast \in [Turn -> Nat]
    /\ taskHist \in [Turn -> SUBSET Nat]
    /\ pc \in [Conn -> ConnPc]
    /\ inst \in [Conn -> Instance \cup {None}]
    /\ thread \in [Conn -> Thread \cup {None}]
    /\ turn \in [Conn -> Turn \cup {NoTurn}]
    /\ hist \in [Conn -> SUBSET Nat]
    /\ from \in [Conn -> Nat]
    /\ cursor \in [Conn -> Nat]
    /\ flip \in [Conn -> BOOLEAN]
    /\ batch \in [Conn -> SUBSET Nat]
    /\ sent \in [Conn -> Seq(Nat)]
    /\ aged \subseteq Turn
    /\ up \subseteq Instance
    /\ crashes \in Nat
    /\ faults \in Nat

-----------------------------------------------------------------------------
(* Queries                                                                 *)

SeqsOf(t) == {r.seq : r \in {q \in rows : q.turn = t}}
ThreadSeqs(th) == {r.seq : r \in {q \in rows : q.thread = th}}

\* tail_turn._fetch_since: the turn's rows beyond the cursor.
FetchInclusive(t, after) == {s \in SeqsOf(t) : s >= after}
FetchWholeThread(t, after) == {s \in ThreadSeqs(owner[t]) : s > after}
FetchSince(t, after) == {s \in SeqsOf(t) : s > after}

\* lead_agent._last_seq_for_turn: MAX(seq_no), 0 standing for NULL.
ThreadLastSeq(t, m) ==
    /\ m \in ThreadSeqs(owner[t]) \cup {0}
    /\ \A s \in ThreadSeqs(owner[t]) : s <= m
LastSeqForTurn(t, m) ==
    /\ m \in SeqsOf(t) \cup {0}
    /\ \A s \in SeqsOf(t) : s <= m

Running(th) == {t \in Turn : status[t] = "running" /\ owner[t] = th}

\* turn_state.get_running_for_thread: t is the row it returns.
NeverRunning(th, t) == FALSE
GetRunning(th, t) == t \in Running(th) /\ \A u \in Running(th) : u <= t

\* The id the next turn_state INSERT returns.
NewTurn(t) ==
    /\ status[t] = "absent"
    /\ \A u \in Turn : u < t => status[u] # "absent"

\* threads.latest_n_messages: h is the newest n = Window of the messages S.
\* (By created_at there: the order of seq_no wherever one process writes.)
LatestMessages(S, h) ==
    /\ h \subseteq S
    /\ Cardinality(h) <= Window
    /\ \A s \in S \ h : Cardinality(h) = Window /\ \A x \in h : s < x

LoopYieldsInHandler(i) ==
    /\ i \in up
    /\ \A t \in Turn : taskInst[t] = i => taskPc[t] \notin TaskSyncPc

\* The event loop of i is free to run another coroutine.
LoopFree(i) ==
    /\ i \in up
    /\ \A c \in Conn : inst[c] = i => pc[c] \notin HandlerPc
    /\ \A t \in Turn : taskInst[t] = i => taskPc[t] \notin TaskSyncPc

Init ==
    /\ status = [t \in Turn |-> "absent"]
    /\ owner = [t \in Turn |-> None]
    /\ error = [t \in Turn |-> "none"]
    /\ lastSeq = [t \in Turn |-> 0]
    /\ rows = {} /\ nextSeq = 0
    /\ taskPc = [t \in Turn |-> "none"]
    /\ taskInst = [t \in Turn |-> None]
    /\ taskSeq = [t \in Turn |-> 0]
    /\ taskLast = [t \in Turn |-> 0]
    /\ taskHist = [t \in Turn |-> {}]
    /\ pc = [c \in Conn |-> "idle"]
    /\ inst = [c \in Conn |-> None]
    /\ thread = [c \in Conn |-> None]
    /\ turn = [c \in Conn |-> NoTurn]
    /\ hist = [c \in Conn |-> {}]
    /\ from = [c \in Conn |-> 0]
    /\ cursor = [c \in Conn |-> 0]
    /\ flip = [c \in Conn |-> FALSE]
    /\ batch = [c \in Conn |-> {}]
    /\ sent = [c \in Conn |-> <<>>]
    /\ aged = {} /\ up = {} /\ crashes = 0 /\ faults = 0

Move(c, to) == pc' = [pc EXCEPT ![c] = to]
TaskMove(t, to) == taskPc' = [taskPc EXCEPT ![t] = to]

\* A psycopg call raises.
Fault ==
    /\ faults < MaxFaults
    /\ faults' = faults + 1
    /\ UNCHANGED <<aged, up, crashes>>

-----------------------------------------------------------------------------
(* POST /threads/{id}/messages: one synchronous run of the event loop, with *)
(* a database transaction per action                                        *)

\* get_thread and latest_n_messages.
Submit(c, i, th) ==
    /\ pc[c] = "idle"
    /\ LoopFree(i)
    /\ Move(c, "append")
    /\ inst' = [inst EXCEPT ![c] = i]
    /\ thread' = [thread EXCEPT ![c] = th]
    /\ \E h \in SUBSET ThreadSeqs(th) :
          /\ LatestMessages(ThreadSeqs(th), h)
          /\ hist' = [hist EXCEPT ![c] = h]
    /\ UNCHANGED <<turnState, messages, tasks, turn, tailVars, env>>

\* append_message(role="user").
StoreUser(c) ==
    /\ nextSeq' = nextSeq + 1
    /\ rows' = rows \cup {[seq |-> nextSeq + 1, thread |-> thread[c], turn |-> NoTurn]}

AppendUser(c) ==
    /\ pc[c] = "append"
    /\ StoreUser(c)
    /\ Move(c, "guard")
    /\ UNCHANGED <<turnState, tasks, request, tailVars, env>>

\* The message is committed but the call raises: a 500.
LoseAppendAck(c) ==
    /\ pc[c] = "append"
    /\ Fault
    /\ StoreUser(c)
    /\ Move(c, "error")
    /\ UNCHANGED <<turnState, tasks, request, tailVars>>

\* The double-submit guard finds a running turn and returns it.
JoinRunning(c) ==
    /\ pc[c] = "guard"
    /\ \E t \in Turn :
          /\ GetRunning(thread[c], t)
          /\ turn' = [turn EXCEPT ![c] = t]
    /\ Move(c, "fetch")
    /\ UNCHANGED <<turnState, messages, tasks, inst, thread, hist, tailVars, env>>

PassGuard(c) ==
    /\ pc[c] = "guard"
    /\ \A t \in Turn : ~ GetRunning(thread[c], t)
    /\ Move(c, "create")
    /\ UNCHANGED <<turnState, messages, tasks, request, tailVars, env>>

\* create_running.
OpenTurn(c, t) ==
    /\ NewTurn(t)
    /\ status' = [status EXCEPT ![t] = "running"]
    /\ owner' = [owner EXCEPT ![t] = thread[c]]
    /\ taskInst' = [taskInst EXCEPT ![t] = inst[c]]
    /\ UNCHANGED <<error, lastSeq, messages, taskSeq, taskLast>>

\* ... then create_task, which is in memory.
CreateTurn(c) ==
    /\ pc[c] = "create"
    /\ \E t \in Turn :
          /\ OpenTurn(c, t)
          /\ TaskMove(t, "stream")
          /\ taskHist' = [taskHist EXCEPT ![t] = hist[c]]
          /\ turn' = [turn EXCEPT ![c] = t]
    /\ Move(c, "fetch")
    /\ UNCHANGED <<inst, thread, hist, tailVars, env>>

\* The row is committed but create_running raises, in COMMIT or after it: a
\* 500, and a running turn without a task.
LoseCreateAck(c) ==
    /\ pc[c] = "create"
    /\ Fault
    /\ \E t \in Turn : OpenTurn(c, t)
    /\ Move(c, "error")
    /\ UNCHANGED <<taskPc, taskHist, request, tailVars>>

\* A call of the handler raises before it took effect: a 500, and what was
\* committed stays.
HandlerRaises(c) ==
    /\ pc[c] \in HandlerPc
    /\ Fault
    /\ Move(c, "error")
    /\ UNCHANGED <<turnState, messages, tasks, request, tailVars>>

-----------------------------------------------------------------------------
(* GET /threads/{id}/tail: the route runs in the thread pool               *)

OpenTail(c, i, th, seq) ==
    /\ pc[c] = "idle"
    /\ i \in up
    /\ \E t \in Turn :
          /\ GetRunning(th, t)
          /\ turn' = [turn EXCEPT ![c] = t]
    /\ Move(c, "fetch")
    /\ inst' = [inst EXCEPT ![c] = i]
    /\ thread' = [thread EXCEPT ![c] = th]
    /\ from' = [from EXCEPT ![c] = seq]
    /\ cursor' = [cursor EXCEPT ![c] = seq]
    /\ UNCHANGED <<turnState, messages, tasks, hist, flip, batch, sent, env>>

\* 404 "no running turn".
TailNotFound(c, i, th) ==
    /\ pc[c] = "idle"
    /\ i \in up
    /\ \A t \in Turn : ~ GetRunning(th, t)
    /\ Move(c, "error")
    /\ UNCHANGED <<turnState, messages, tasks, request, tailVars, env>>

-----------------------------------------------------------------------------
(* tail_turn                                                               *)

Fetch(c) ==
    /\ pc[c] = "fetch"
    /\ LoopFree(inst[c])
    /\ batch' = [batch EXCEPT ![c] = FetchSince(turn[c], cursor[c])]
    /\ Move(c, "emit")
    /\ UNCHANGED <<turnState, messages, tasks, request, from, cursor, flip, sent, env>>

\* One row of the batch, in seq_no order; every yield is a suspension point.
Emit(c) ==
    /\ pc[c] = "emit"
    /\ LoopFree(inst[c])
    /\ \E s \in batch[c] :
          /\ \A e \in batch[c] : s <= e
          /\ sent' = [sent EXCEPT ![c] = Append(sent[c], s)]
          /\ cursor' = [cursor EXCEPT ![c] = s]
          /\ batch' = [batch EXCEPT ![c] = batch[c] \ {s}]
    /\ UNCHANGED <<turnState, messages, tasks, pc, request, from, flip, env>>

\* What the loop does after reading a terminal status.
PollForever(c) == Move(c, "fetch") /\ UNCHANGED flip
BreakAtOnce(c) == Move(c, "ended") /\ UNCHANGED flip
AfterTerminal(c) ==
    \/ flip[c] /\ Move(c, "ended") /\ UNCHANGED flip
    \/ ~ flip[c] /\ Move(c, "fetch") /\ flip' = [flip EXCEPT ![c] = TRUE]

\* get_by_id, once the batch is out.
CheckStatus(c) ==
    /\ pc[c] = "emit"
    /\ LoopFree(inst[c])
    /\ batch[c] = {}
    /\ \/ status[turn[c]] \in Terminal /\ AfterTerminal(c)
       \/ status[turn[c]] \notin Terminal /\ Move(c, "fetch") /\ UNCHANGED flip
    /\ UNCHANGED <<turnState, messages, tasks, request, from, cursor, batch, sent, env>>

\* The client leaves and sse-starlette cancels the generator, or one of its
\* queries raises: the response is cut, the task lives on.
Disconnect(c) ==
    /\ pc[c] \in TailPc
    /\ Move(c, "gone")
    /\ UNCHANGED <<turnState, messages, tasks, request, tailVars, env>>

-----------------------------------------------------------------------------
(* _drain_lead_turn: the background task of a turn                         *)

\* append_message(turn_id=t): the INSERT takes its seq_no from the sequence ...
BeginInsert(t) ==
    /\ taskPc[t] = "stream"
    /\ LoopFree(taskInst[t])
    /\ Cardinality(SeqsOf(t)) < MaxRows
    /\ nextSeq' = nextSeq + 1
    /\ taskSeq' = [taskSeq EXCEPT ![t] = nextSeq + 1]
    /\ TaskMove(t, "insert")
    /\ UNCHANGED <<turnState, rows, taskInst, taskLast, taskHist, conns, env>>

StoreRow(t) ==
    rows' = rows \cup {[seq |-> taskSeq[t], thread |-> owner[t], turn |-> t]}

\* ... and the row becomes visible at COMMIT, possibly after rows of other
\* processes that took a later seq_no.
CommitInsert(t) ==
    /\ taskPc[t] = "insert"
    /\ StoreRow(t)
    /\ TaskMove(t, "stream")
    /\ UNCHANGED <<turnState, nextSeq, taskData, conns, env>>

\* The row is committed but the call raises.
LoseInsertAck(t) ==
    /\ taskPc[t] = "insert"
    /\ Fault
    /\ StoreRow(t)
    /\ TaskMove(t, "except")
    /\ UNCHANGED <<turnState, nextSeq, taskData, conns>>

\* The stream is exhausted; _last_seq_for_turn is read.
StreamEnds(t) ==
    /\ taskPc[t] = "stream"
    /\ LoopFree(taskInst[t])
    /\ \E m \in SeqsOf(t) \cup ThreadSeqs(owner[t]) \cup {0} :
          /\ LastSeqForTurn(t, m)
          /\ taskLast' = [taskLast EXCEPT ![t] = m]
    /\ TaskMove(t, "mark")
    /\ UNCHANGED <<turnState, messages, taskInst, taskSeq, taskHist, conns, env>>

\* UPDATE turn_state ... WHERE turn_id = t AND status = 'running'.
AnyStatus(t) == TRUE
IsRunning(t) == status[t] = "running"

SetComplete(t) ==
    IF IsRunning(t)
    THEN /\ status' = [status EXCEPT ![t] = "complete"]
         /\ lastSeq' = [lastSeq EXCEPT ![t] = taskLast[t]]
         /\ UNCHANGED <<owner, error>>
    ELSE UNCHANGED turnState

SetFailed(t) ==
    IF IsRunning(t)
    THEN /\ status' = [status EXCEPT ![t] = "failed"]
         /\ error' = [error EXCEPT ![t] = "exception"]
         /\ UNCHANGED <<owner, lastSeq>>
    ELSE UNCHANGED turnState

MarkComplete(t) ==
    /\ taskPc[t] = "mark"
    /\ SetComplete(t)
    /\ TaskMove(t, "done")
    /\ UNCHANGED <<messages, taskData, conns, env>>

\* mark_complete is committed but raises: the except branch runs too.
LoseMarkAck(t) ==
    /\ taskPc[t] = "mark"
    /\ Fault
    /\ SetComplete(t)
    /\ TaskMove(t, "except")
    /\ UNCHANGED <<messages, taskData, conns>>

\* A call of the task raises before it took effect.
TaskRaises(t) ==
    /\ \/ taskPc[t] = "stream" /\ LoopFree(taskInst[t])
       \/ taskPc[t] \in {"insert", "mark"}
    /\ Fault
    /\ TaskMove(t, "except")
    /\ UNCHANGED <<turnState, messages, taskData, conns>>

\* mark_failed.
SwallowException(t) ==
    /\ taskPc[t] = "except"
    /\ TaskMove(t, "done")
    /\ UNCHANGED <<turnState, messages, taskData, conns, env>>
MarkFailed(t) ==
    /\ taskPc[t] = "except"
    /\ SetFailed(t)
    /\ TaskMove(t, "done")
    /\ UNCHANGED <<messages, taskData, conns, env>>

\* mark_failed raises inside the except block: nothing catches it.
MarkFailedRaises(t) ==
    /\ taskPc[t] = "except"
    /\ Fault
    /\ TaskMove(t, "dead")
    /\ UNCHANGED <<turnState, messages, taskData, conns>>

\* The turn is marked failed but the call raises.
LoseFailAck(t) ==
    /\ taskPc[t] = "except"
    /\ Fault
    /\ SetFailed(t)
    /\ TaskMove(t, "dead")
    /\ UNCHANGED <<messages, taskData, conns>>

-----------------------------------------------------------------------------
(* Processes                                                               *)

Stale(t) == status[t] = "running" /\ t \in aged

\* lifespan: cleanup_stale runs once, before the process takes requests.
Start(i) ==
    /\ i \notin up
    /\ status' = [t \in Turn |-> IF Stale(t) THEN "failed" ELSE status[t]]
    /\ error' = [t \in Turn |-> IF Stale(t) THEN "orphaned" ELSE error[t]]
    /\ up' = up \cup {i}
    /\ UNCHANGED <<owner, lastSeq, messages, tasks, conns, aged, crashes, faults>>

\* The process dies with its tasks, handlers and streams; an open
\* transaction is rolled back.
Crash(i) ==
    /\ i \in up
    /\ crashes < MaxCrashes
    /\ crashes' = crashes + 1
    /\ up' = up \ {i}
    /\ taskPc' = [t \in Turn |->
                    IF taskInst[t] = i /\ taskPc[t] \in TaskSyncPc \cup {"stream"}
                    THEN "dead" ELSE taskPc[t]]
    /\ pc' = [c \in Conn |->
                IF inst[c] = i /\ pc[c] \in HandlerPc \cup TailPc
                THEN "gone" ELSE pc[c]]
    /\ UNCHANGED <<turnState, messages, taskData, request, tailVars, aged, faults>>

\* Ten minutes pass since the turn started.
Age(t) ==
    /\ status[t] = "running"
    /\ t \notin aged
    /\ aged' = aged \cup {t}
    /\ UNCHANGED <<turnState, messages, tasks, conns, up, crashes, faults>>

-----------------------------------------------------------------------------

Post(c) == AppendUser(c) \/ JoinRunning(c) \/ PassGuard(c) \/ CreateTurn(c)

TailTurn(c) == Fetch(c) \/ Emit(c) \/ CheckStatus(c)

DrainLeadTurn(t) ==
    \/ BeginInsert(t) \/ CommitInsert(t) \/ StreamEnds(t) \/ MarkComplete(t)
    \/ MarkFailed(t)

RaisingCall(t) ==
    \/ LoseInsertAck(t) \/ LoseMarkAck(t) \/ TaskRaises(t)
    \/ MarkFailedRaises(t) \/ LoseFailAck(t)

RaisingPost(c) == HandlerRaises(c) \/ LoseAppendAck(c) \/ LoseCreateAck(c)

Next ==
    \/ \E c \in Conn, i \in Instance, th \in Thread :
          \/ Submit(c, i, th)
          \/ TailNotFound(c, i, th)
          \/ \E seq \in FromSeq : OpenTail(c, i, th, seq)
    \/ \E c \in Conn : Post(c) \/ RaisingPost(c) \/ TailTurn(c) \/ Disconnect(c)
    \/ \E t \in Turn : DrainLeadTurn(t) \/ RaisingCall(t) \/ Age(t)
    \/ \E i \in Instance : Start(i) \/ Crash(i)

Spec == Init /\ [][Next]_vars

\* Synchronous code runs on, the loop is fair to its coroutines, the agent's
\* stream is finite (step cap and wall-clock timeouts), Cloud Run replaces a
\* process that died, and time passes.  No request has to arrive.
Fairness ==
    /\ \A c \in Conn : WF_vars(Post(c)) /\ WF_vars(TailTurn(c))
    /\ \A t \in Turn : WF_vars(DrainLeadTurn(t)) /\ WF_vars(Age(t))
    /\ \A i \in Instance : WF_vars(Start(i))

FairSpec == Spec /\ Fairness

-----------------------------------------------------------------------------
(* Properties                                                              *)

\* The double-submit guard of start_lead_turn: a thread never has two turns
\* running at once.  (True of one process, whose loop serialises the guard
\* and the INSERT; not of two.)
AtMostOneRunning ==
    \A t, u \in Turn :
        status[t] = "running" /\ status[u] = "running"
            /\ owner[t] = owner[u] => t = u

\* What is left of the guard when the API is scaled out: two processes may
\* start a turn each on one thread, and no process ever starts a second one
\* there while its first is running, whatever other processes do meanwhile.
OneRunningPerProcess ==
    \A t, u \in Turn :
        status[t] = "running" /\ status[u] = "running" /\ owner[t] = owner[u]
            /\ taskInst[t] = taskInst[u] => t = u

\* post_message reads the history before the guard: the task of a turn that
\* starts all the same was given every row of every earlier turn of its thread,
\* but for those that a full window of newer messages pushed out.
Covers(h, s) ==
    \/ s \in h
    \/ Cardinality(h) = Window /\ \A x \in h : s < x

HistorySeesEarlierTurns ==
    \A t, u \in Turn :
        u < t /\ taskPc[t] # "none" /\ owner[u] = owner[t]
            => \A s \in SeqsOf(u) : Covers(taskHist[t], s)

\* The cursor of tail_turn: what a response has carried is, in seq_no order
\* and each row once, exactly the turn's rows between from_seq and the cursor,
\* although rows of a thread may commit out of seq_no order.
SentInOrder(c) ==
    \A m, n \in 1 .. Len(sent[c]) : m < n => sent[c][m] < sent[c][n]

SentSet(c) == {sent[c][n] : n \in 1 .. Len(sent[c])}

TailExact ==
    \A c \in Conn :
        /\ SentInOrder(c)
        /\ SentSet(c) = {s \in SeqsOf(turn[c]) :
                            from[c] < s /\ s <= cursor[c]}

\* The extra pass after the status flip: a stream that ends by itself has
\* carried every row its turn will ever have, unless the turn was swept.
TailComplete ==
    \A c \in Conn :
        pc[c] = "ended" /\ error[turn[c]] # "orphaned"
            => {s \in SeqsOf(turn[c]) : s > from[c]} \subseteq SentSet(c)

\* A turn marked complete carries the seq_no of its last row, for ever: the
\* writer is finished, no row of the turn comes later.
CompleteIsSealed ==
    \A t \in Turn :
        status[t] = "complete" =>
            /\ lastSeq[t] \in SeqsOf(t) \cup {0}
            /\ \A s \in SeqsOf(t) : s <= lastSeq[t]

\* The WHERE status='running' of every UPDATE: a turn leaves 'running' once,
\* also when a raised mark_complete had taken effect or a sweep came first.
StatusLatched ==
    [][\A t \in Turn :
          status[t] \in Terminal => UNCHANGED <<status[t], error[t], lastSeq[t]>>]_vars

\* The lifespan sweep (turn_state.py: "marks any orphaned `running` rows
\* (left over from API restarts)"): only turns whose task is dead are swept.
SweepOnlyOrphans ==
    [][\A t \in Turn :
          status[t] = "running" /\ error'[t] = "orphaned"
              => taskPc[t] = "dead"]_vars

\* A running turn nobody works on: its process died, mark_failed raised, or
\* create_running raised after its COMMIT.
Orphan(t) == status[t] = "running" /\ taskPc[t] \in {"none", "dead"}

\* A turn leaves 'running' unless its task is lost; a lost one that is older
\* than ten minutes is swept when a process that is down starts again.  (Nothing
\* else settles it: a process that is back sooner, or never goes, leaves the
\* row running for ever.)
EveryTurnSettles ==
    \A t \in Turn :
        /\ status[t] = "running" ~> status[t] \in Terminal \/ Orphan(t)
        /\ status[t] = "running" /\ t \in aged /\ up # Instance
               ~> status[t] \in Terminal

\* The tail's polling loop ends, unless it polls for a turn nobody works on.
EveryTailEnds ==
    \A c \in Conn :
        pc[c] \in TailPc
            ~> pc[c] \in {"ended", "gone"} \/ (turn[c] # NoTurn /\ Orphan(turn[c]))

-----------------------------------------------------------------------------
(* The inductive invariant behind TailExact, TailComplete and              *)
(* CompleteIsSealed                                                        *)

\* A turn has one writer, and it inserts above every row of the turn; once
\* the turn is marked by its own task, no INSERT of the task is outstanding
\* or will follow.
WriterInv(t) ==
    /\ \A s \in SeqsOf(t) : s <= nextSeq
    /\ taskPc[t] = "insert" =>
          taskSeq[t] <= nextSeq /\ \A s \in SeqsOf(t) : s < taskSeq[t]
    /\ taskPc[t] = "mark" => LastSeqForTurn(t, taskLast[t])
    /\ status[t] = "complete" => LastSeqForTurn(t, lastSeq[t])
    /\ status[t] = "complete" \/ (status[t] \in Terminal /\ error[t] # "orphaned")
          => taskPc[t] \in {"except", "done", "dead"}

\* The rows of the turn beyond the cursor that are not in the batch lie above
\* the whole batch; a batch fetched after the flip lacks no row.
ReaderInv(c) ==
    /\ pc[c] \in HandlerPc \cup {"idle"} => turn[c] = NoTurn
    /\ turn[c] = NoTurn =>
          /\ pc[c] \notin TailPc \cup {"ended"}
          /\ cursor[c] = 0 /\ from[c] = 0
          /\ sent[c] = <<>> /\ batch[c] = {} /\ ~ flip[c]
    /\ from[c] <= cursor[c]
    /\ cursor[c] = from[c] \/ cursor[c] \in SeqsOf(turn[c])
    /\ SentInOrder(c)
    /\ SentSet(c) = {s \in SeqsOf(turn[c]) : from[c] < s /\ s <= cursor[c]}
    /\ batch[c] \subseteq FetchSince(turn[c], cursor[c])
    /\ \A s \in FetchSince(turn[c], cursor[c]) \ batch[c] : \A b \in batch[c] : b < s
    /\ flip[c] => status[turn[c]] \in Terminal
    /\ pc[c] = "emit" /\ flip[c] /\ error[turn[c]] # "orphaned"
          => FetchSince(turn[c], cursor[c]) \subseteq batch[c]
    /\ pc[c] = "ended" =>
          flip[c] /\ (error[turn[c]] # "orphaned" => FetchSince(turn[c], cursor[c]) = {})

\* Every writer and every reader of the pipeline keeps its discipline.
PipelineInv ==
    /\ \A t \in Turn : WriterInv(t)
    /\ \A c \in Conn : ReaderInv(c)

-----------------------------------------------------------------------------
(* What the pipeline promises.  A turn is open while its row says running; *)
(* a response subscribes when its tail starts.                             *)

Phase(t) ==
    CASE status[t] = "absent"  -> "absent"
      [] status[t] = "running" -> "open"
      [] OTHER                 -> "sealed"

SubState(c) ==
    CASE turn[c] = NoTurn -> "off"
      [] pc[c] \in TailPc -> "on"
      [] pc[c] = "ended"  -> "closed"
      [] OTHER            -> "dropped"

Log == INSTANCE TurnLog WITH
    Reader <- Conn,
    StartAt <- FromSeq \cup {0},
    phase <- [t \in Turn |-> Phase(t)],
    log <- [t \in Turn |-> SeqsOf(t)],
    sub <- [c \in Conn |-> [state |-> SubState(c), turn |-> turn[c],
                            start |-> from[c]]],
    got <- sent

ImplementsTurnLog == Log!Spec
=============================================================================
