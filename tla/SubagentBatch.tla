--------------------------- MODULE SubagentBatch ----------------------------
(***************************************************************************)
(* One call of the lead's tool run_subagent: the rows of subagent_calls    *)
(* are inserted one by one, the workers run on a pool of threads, and the  *)
(* caller's thread records their outcomes in the order of the entries.     *)
(*                                                                         *)
(* Concurrent calls of other leads share nothing with this one but the     *)
(* process, which may die at any step.  The plan a row is bound to, the    *)
(* prompt and the payloads are data that no step looks at.                 *)
(***************************************************************************)
EXTENDS Integers, FiniteSets, Sequences

CONSTANTS
    MaxBatch,    \* MAX_SUBAGENTS_PER_BATCH
    MaxWorkers,  \* WORKER_POOL_MAX_WORKERS
    MaxSteps     \* WORKER_MAX_STEPS

ASSUME SubagentBatchAssumption ==
    MaxBatch \in Nat /\ MaxWorkers \in Nat \ {0} /\ MaxSteps \in Nat \ {0}

VARIABLES
    pc,        \* the phase the tool is in
    size,      \* entries of the list it was called with
    at,        \* the entry its loop has reached
    row,       \* committed status in subagent_calls
    worker,    \* where an entry is in the pool
    steps,     \* step_count of the worker's graph
    outcome,   \* what _run_one returned for it
    out,       \* the list finalize has built
    events     \* research.subagent.* events emitted

pool == <<worker, steps, outcome>>
vars == <<pc, size, at, row, worker, steps, outcome, out, events>>

Entry == 1 .. MaxBatch
Batch == 1 .. size
Settled == {"complete", "failed"}
Ended == {"returned", "rejected", "raised", "dead"}
Outcome == {"answer", "unanswered", "capped", "raised"}
Kind == {"answer", "structural_step_cap", "transient_worker_exception", "unknown"}

TypeOK ==
    /\ pc \in {"idle", "spawn", "fanout", "finalize"} \cup Ended
    /\ size \in 0 .. MaxBatch + 1
    /\ at \in 1 .. MaxBatch + 1
    /\ row \in [Entry -> {"absent", "pending", "running"} \cup Settled]
    /\ worker \in [Entry -> {"queued", "busy", "done"}]
    /\ steps \in [Entry -> 0 .. MaxSteps]
    /\ outcome \in [Entry -> Outcome \cup {"none"}]
    /\ out \in Seq([call : Entry, kind : Kind])
    /\ events \subseteq [name : {"spawned"} \cup Settled, call : Entry]

Init ==
    /\ pc = "idle" /\ size = 0 /\ at = 1
    /\ row = [i \in Entry |-> "absent"]
    /\ worker = [i \in Entry |-> "queued"]
    /\ steps = [i \in Entry |-> 0]
    /\ outcome = [i \in Entry |-> "none"]
    /\ out = <<>>
    /\ events = {}

\* run_subagent up to phase 1.  A list that is no list and a missing memory
\* context are answered like a list over the cap.
RunSubagent(n) ==
    /\ pc = "idle"
    /\ size' = n
    /\ pc' = IF n = 0 THEN "returned" ELSE IF n > MaxBatch THEN "rejected" ELSE "spawn"
    /\ UNCHANGED <<at, row, pool, out, events>>

\* The loop of a phase goes to its next entry, or the tool to its next phase.
NextEntry(next) ==
    IF at = size THEN pc' = next /\ at' = 1 ELSE at' = at + 1 /\ UNCHANGED pc

-----------------------------------------------------------------------------
(* Phase 1: _spawn_pending, entry by entry                                 *)

InsertRunning ==  \* variant: the insert already says running
    /\ pc = "spawn" /\ row[at] = "absent"
    /\ row' = [row EXCEPT ![at] = "running"]
    /\ UNCHANGED <<pc, size, at, pool, out, events>>

InsertPending ==
    /\ pc = "spawn" /\ row[at] = "absent"
    /\ row' = [row EXCEPT ![at] = "pending"]
    /\ UNCHANGED <<pc, size, at, pool, out, events>>

Spawned == events' = events \cup {[name |-> "spawned", call |-> at]}

MarkRunning ==
    /\ pc = "spawn" /\ row[at] = "pending"
    /\ Spawned
    /\ row' = [row EXCEPT ![at] = "running"]
    /\ NextEntry("fanout")
    /\ UNCHANGED <<size, pool, out>>

\* A statement raises: run_tools answers the lead with one error, for all
\* the entries, and the rows stay as they are.
SpawnRaises ==
    /\ pc = "spawn"
    /\ pc' = "raised"
    /\ IF row[at] = "pending" THEN Spawned ELSE UNCHANGED events
    /\ UNCHANGED <<size, at, row, pool, out>>

-----------------------------------------------------------------------------
(* Phase 2: the workers on the pool                                        *)

Busy == {i \in Entry : worker[i] = "busy"}
PoolSparesOne == IF size < MaxWorkers THEN size - 1 ELSE MaxWorkers - 1  \* variant
PoolSize == IF size < MaxWorkers THEN size ELSE MaxWorkers

\* A free thread takes the first queued entry.
StartWorker(i) ==
    /\ pc = "fanout" /\ worker[i] = "queued"
    /\ \A j \in Batch : j < i => worker[j] # "queued"
    /\ Cardinality(Busy) < PoolSize
    /\ worker' = [worker EXCEPT ![i] = "busy"]
    /\ UNCHANGED <<pc, size, at, row, steps, outcome, out, events>>

Finish(i, o) ==
    /\ worker' = [worker EXCEPT ![i] = "done"]
    /\ outcome' = [outcome EXCEPT ![i] = o]

CapReached(n) == n >= MaxSteps

\* agent_step, the route after it, and the tools it asked for.  The model
\* asks for data tools, a final_answer, or nothing that answers: prose, the
\* fallback text after a failed LLM call, or clarify.  At the cap the route
\* goes to step_cap and no tool runs, a final_answer neither.
AgentStep(i, ask) ==
    /\ pc = "fanout" /\ worker[i] = "busy"
    /\ steps' = [steps EXCEPT ![i] = @ + 1]
    /\ \/ CapReached(steps'[i]) /\ Finish(i, "capped")
       \/ ~CapReached(steps'[i]) /\ ask = "data" /\ UNCHANGED <<worker, outcome>>
       \/ ~CapReached(steps'[i]) /\ ask # "data" /\ Finish(i, ask)
    /\ UNCHANGED <<pc, size, at, row, out, events>>

\* _run_one catches whatever building or running the graph raises.
WorkerRaises(i) ==
    /\ pc = "fanout" /\ worker[i] = "busy"
    /\ Finish(i, "raised")
    /\ UNCHANGED <<pc, size, at, row, steps, out, events>>

\* pool.map has every result and the pool is shut down.
Join ==
    /\ pc = "fanout"
    /\ \A i \in Batch : worker[i] = "done"
    /\ pc' = "finalize"
    /\ UNCHANGED <<size, at, row, pool, out, events>>

-----------------------------------------------------------------------------
(* Phase 3: _finalize_batch, entry by entry                                *)

ErrorKind(o) ==
    CASE o = "raised" -> "transient_worker_exception"
      [] o = "capped" -> "structural_step_cap"
      [] o = "unanswered" -> "unknown"

SettleTogether ==  \* variant: one failed worker fails the batch
    /\ pc = "finalize" /\ row[at] = "running"
    /\ row' = [row EXCEPT ![at] = IF \A i \in Batch : outcome[i] = "answer"
                                  THEN "complete" ELSE "failed"]
    /\ UNCHANGED <<pc, size, at, pool, out, events>>

\* mark_complete, mark_failed
Settle ==
    /\ pc = "finalize" /\ row[at] = "running"
    /\ row' = [row EXCEPT ![at] = IF outcome[at] = "answer" THEN "complete" ELSE "failed"]
    /\ UNCHANGED <<pc, size, at, pool, out, events>>

EmitThenRaise ==  \* variant: the event goes out before the commit
    /\ pc = "finalize" /\ row[at] = "running"
    /\ pc' = "raised"
    /\ events' = events \cup {[name |-> "complete", call |-> at]}
    /\ UNCHANGED <<size, at, row, pool, out>>

SettleRaises ==
    /\ pc = "finalize" /\ row[at] = "running"
    /\ pc' = "raised"
    /\ UNCHANGED <<size, at, row, pool, out, events>>

ReportAnswers ==  \* variant: failed entries are left out of the result
    /\ pc = "finalize" /\ row[at] \in Settled
    /\ events' = events \cup {[name |-> row[at], call |-> at]}
    /\ out' = IF row[at] = "failed" THEN out ELSE Append(out, [call |-> at, kind |-> "answer"])
    /\ NextEntry("returned")
    /\ UNCHANGED <<size, row, pool>>

\* The event of the entry and its part of the result.
Report ==
    /\ pc = "finalize" /\ row[at] \in Settled
    /\ events' = events \cup {[name |-> row[at], call |-> at]}
    /\ out' = Append(out, [call |-> at, kind |-> IF outcome[at] = "answer" THEN "answer"
                                                 ELSE ErrorKind(outcome[at])])
    /\ NextEntry("returned")
    /\ UNCHANGED <<size, row, pool>>

-----------------------------------------------------------------------------

\* The instance is stopped: the pool and the caller are gone with it.
Crash ==
    /\ pc \in {"spawn", "fanout", "finalize"}
    /\ pc' = "dead"
    /\ UNCHANGED <<size, at, row, pool, out, events>>

Ask == {"data", "answer", "unanswered"}

Tool ==
    \/ \E n \in 0 .. MaxBatch + 1 : RunSubagent(n)
    \/ InsertPending \/ MarkRunning \/ SpawnRaises
    \/ Join \/ Settle \/ SettleRaises \/ Report

Worker(i) ==
    \/ StartWorker(i)
    \/ \E ask \in Ask : AgentStep(i, ask)
    \/ WorkerRaises(i)

Next == Tool \/ (\E i \in Batch \cap Entry : Worker(i)) \/ Crash

Spec == Init /\ [][Next]_vars

\* The tool's thread is scheduled, and so is every thread of the pool: an
\* LLM call ends by its wall-clock limit and a tool by its timeout.
FairSpec ==
    /\ Spec
    /\ WF_vars(Tool)
    /\ \A i \in Entry : WF_vars(i \in Batch /\ Worker(i))

-----------------------------------------------------------------------------
(* Properties                                                              *)

\* A worker's failure is its own: a settled row says what its own worker
\* did, whatever became of the others (_run_one catches, _finalize_batch
\* goes on).
FailureIsContained ==
    \A i \in Entry : row[i] \in Settled =>
        /\ worker[i] = "done"
        /\ (row[i] = "complete") <=> (outcome[i] = "answer")

\* When run_subagent returns, the lead has one result per entry in the order
\* of the entries, although workers finish in any order; each agrees with
\* the row the audit panel shows, and no row is left unsettled.
ResultsAreTheRows ==
    pc = "returned" =>
        /\ Len(out) = size
        /\ \A i \in Batch :
            /\ row[i] \in Settled
            /\ out[i].call = i
            /\ (out[i].kind = "answer") <=> (row[i] = "complete")

\* Never more than WORKER_POOL_MAX_WORKERS workers call the LLM at a time.
PoolBound == Cardinality(Busy) <= MaxWorkers

\* An event a client refreshes its list on is emitted after the commit it
\* tells of, even when a statement of the loop raises.
EventsFollowRows ==
    \A e \in events :
        IF e.name = "spawned" THEN row[e.call] # "absent" ELSE row[e.call] = e.name

\* The rows change as the audit log promises: pending, running, then
\* complete or failed, once.
Audit == INSTANCE CallLifecycle WITH Call <- Entry, row <- row
AuditLog == Audit!Spec

\* A call of the tool ends: workers stop at their step cap and the pool never
\* starves an entry.
BatchEnds == pc = "spawn" ~> pc \in Ended

=============================================================================
