------------------------ MODULE SubagentBatchProofs -------------------------
(***************************************************************************)
(* Proofs about SubagentBatch, for every cap on entries, threads and       *)
(* steps.  The inductive invariant adds to the type what the phases leave  *)
(* behind: finalize begins when every worker is done, and the result list  *)
(* is as long as the entries it has passed, each of which is settled.      *)
(***************************************************************************)
EXTENDS SubagentBatch, FiniteSetTheorems, TLAPS

Window ==
    pc \in {"spawn", "fanout", "finalize"} => size \in Entry /\ at \in Batch

Workers ==
    \A i \in Entry : IF worker[i] = "done" THEN outcome[i] # "none"
                     ELSE steps[i] < MaxSteps

Finalizing ==
    /\ pc \in {"idle", "fanout"} => at = 1
    /\ pc \in {"idle", "spawn", "fanout"} => out = <<>>
    /\ pc = "finalize" => /\ \A i \in Batch : worker[i] = "done"
                          /\ Len(out) = at - 1
    /\ pc = "returned" => Len(out) = size

\* The entry of the result at position n is the n-th, and agrees with its row.
Agrees(n) ==
    /\ n \in Entry
    /\ row[n] \in Settled
    /\ out[n].call = n
    /\ (out[n].kind = "answer") <=> (row[n] = "complete")

Reported == \A n \in 1 .. Len(out) : Agrees(n)

IInv == TypeOK /\ Window /\ Workers /\ Finalizing /\ FailureIsContained /\ Reported

LEMMA InitIInv == Init => IInv
<1> SUFFICES ASSUME Init PROVE IInv
    OBVIOUS
<1> USE SubagentBatchAssumption DEF Init
<1>1. TypeOK
    BY DEF TypeOK, Entry, Settled, Ended, Outcome, Kind
<1>2. Window /\ Workers /\ Finalizing
    BY DEF Window, Workers, Finalizing, Entry
<1>3. FailureIsContained /\ Reported
    BY DEF FailureIsContained, Reported, Settled, Entry
<1> QED  BY <1>1, <1>2, <1>3 DEF IInv

\* The loop of a phase stays within the batch.
LEMMA LoopLemma ==
    ASSUME NEW next, TypeOK, size \in Entry, at \in Batch, NextEntry(next)
    PROVE  /\ at' \in 1 .. MaxBatch + 1 /\ at' \in Batch
           /\ \/ pc' = next /\ at' = 1 /\ at = size
              \/ pc' = pc /\ at' = at + 1
BY SubagentBatchAssumption DEF NextEntry, TypeOK, Entry, Batch

LEMMA StepIInv == IInv /\ [Next]_vars => IInv'
<1> SUFFICES ASSUME IInv, [Next]_vars PROVE IInv'
    OBVIOUS
<1> USE SubagentBatchAssumption
<1>. TypeOK /\ Window /\ Workers /\ Finalizing /\ FailureIsContained /\ Reported
    BY DEF IInv
<1>1. ASSUME NEW n \in 0 .. MaxBatch + 1, RunSubagent(n) PROVE IInv'
  <2> USE <1>1 DEF RunSubagent, pool
  <2>1. TypeOK'
      BY DEF TypeOK, Ended
  <2>2a. pc' = "spawn" => n \in 1 .. MaxBatch
      OBVIOUS
  <2>2b. at = 1 /\ pc' \in {"returned", "rejected", "spawn"}
      BY DEF Finalizing
  <2>2. Window' /\ Workers'
      BY <2>2a, <2>2b DEF Window, Workers, Entry, Batch
  <2>2c. pc' = "returned" => size' = 0
      OBVIOUS
  <2>3. Finalizing'
      BY <2>2b, <2>2c DEF Finalizing
  <2>4. FailureIsContained' /\ Reported'
      BY DEF FailureIsContained, Reported, Agrees
  <2> QED  BY <2>1, <2>2, <2>3, <2>4 DEF IInv
<1>2. ASSUME InsertPending PROVE IInv'
  <2> USE <1>2 DEF InsertPending, pool
  <2>1. TypeOK'
      BY DEF TypeOK
  <2>2. Window' /\ Workers' /\ Finalizing'
      BY DEF Window, Workers, Finalizing, Batch
  <2>3. FailureIsContained'
      BY DEF FailureIsContained, TypeOK, Settled
  <2>4. Reported'
      BY DEF Reported, Finalizing, TypeOK
  <2> QED  BY <2>1, <2>2, <2>3, <2>4 DEF IInv
<1>3. ASSUME MarkRunning PROVE IInv'
  <2> USE <1>3 DEF MarkRunning, pool
  <2>1. size \in Entry /\ at \in Batch /\ at \in Entry
      BY DEF Window, Entry, Batch, TypeOK
  <2>2. /\ at' \in 1 .. MaxBatch + 1 /\ at' \in Batch
        /\ \/ pc' = "fanout" /\ at' = 1 /\ at = size
           \/ pc' = pc /\ at' = at + 1
      BY <2>1, LoopLemma
  <2>3. TypeOK'
      BY <2>1, <2>2 DEF TypeOK, Spawned
  <2>4. Window' /\ Workers'
      BY <2>1, <2>2 DEF Window, Workers, Batch
  <2>5. Finalizing'
      BY <2>2 DEF Finalizing
  <2>6. FailureIsContained'
      BY DEF FailureIsContained, TypeOK, Settled
  <2>7. Reported'
      BY DEF Reported, Finalizing, TypeOK
  <2> QED  BY <2>3, <2>4, <2>5, <2>6, <2>7 DEF IInv
<1>4. ASSUME pc \in {"spawn", "fanout", "finalize"}, pc' \in {"raised", "dead"},
             events' \subseteq [name : {"spawned"} \cup Settled, call : Entry],
             UNCHANGED <<size, at, row, pool, out>>
      PROVE  IInv'
  <2> USE <1>4 DEF pool
  <2>1. TypeOK'
      BY DEF TypeOK, Ended
  <2>2. Window' /\ Workers' /\ Finalizing'
      BY DEF Window, Workers, Finalizing
  <2>3. FailureIsContained' /\ Reported'
      BY DEF FailureIsContained, Reported, Agrees
  <2> QED  BY <2>1, <2>2, <2>3 DEF IInv
<1>5. ASSUME SpawnRaises PROVE IInv'
  <2>1. at \in Entry
      BY <1>5 DEF SpawnRaises, Window, Entry, Batch, TypeOK
  <2>2. events' \subseteq [name : {"spawned"} \cup Settled, call : Entry]
      BY <1>5, <2>1 DEF SpawnRaises, Spawned, TypeOK
  <2> QED  BY <1>4, <1>5, <2>2 DEF SpawnRaises
<1>6. ASSUME Join PROVE IInv'
  <2> USE <1>6 DEF Join, pool
  <2>1. TypeOK' /\ Window' /\ Workers'
      BY DEF TypeOK, Window, Workers, Batch
  <2>2. Finalizing'
      BY DEF Finalizing, Batch
  <2>3. FailureIsContained' /\ Reported'
      BY DEF FailureIsContained, Reported, Agrees
  <2> QED  BY <2>1, <2>2, <2>3 DEF IInv
<1>7. ASSUME Settle PROVE IInv'
  <2> USE <1>7 DEF Settle, pool
  <2>1. at \in Entry /\ worker[at] = "done"
      BY DEF Window, Finalizing, Entry, Batch, TypeOK
  <2>2. TypeOK'
      BY DEF TypeOK, Settled
  <2>3. Window' /\ Workers' /\ Finalizing'
      BY DEF Window, Workers, Finalizing, Batch
  <2>4. FailureIsContained'
      BY <2>1 DEF FailureIsContained, TypeOK, Settled
  <2>5. ASSUME NEW n \in 1 .. Len(out) PROVE Agrees(n)'
    <3>1. Agrees(n)
        BY DEF Reported
    <3>2. n # at
        BY <3>1 DEF Agrees, Settled
    <3> QED  BY <3>1, <3>2 DEF Agrees, TypeOK
  <2>6. Reported'
      BY <2>5 DEF Reported
  <2> QED  BY <2>2, <2>3, <2>4, <2>6 DEF IInv
<1>8. ASSUME SettleRaises PROVE IInv'
    BY <1>4, <1>8 DEF SettleRaises, TypeOK
<1>9. ASSUME Report PROVE IInv'
  <2> USE <1>9 DEF Report, pool
  <2>1. size \in Entry /\ at \in Batch /\ at \in Entry
      BY DEF Window, Entry, Batch, TypeOK
  <2>2. /\ at' \in 1 .. MaxBatch + 1 /\ at' \in Batch
        /\ \/ pc' = "returned" /\ at' = 1 /\ at = size
           \/ pc' = pc /\ at' = at + 1
      BY <2>1, LoopLemma
  <2>3. outcome[at] \in Outcome
      BY <2>1 DEF Workers, Finalizing, TypeOK
  <2>4. PICK k \in Kind : /\ out' = Append(out, [call |-> at, kind |-> k])
                          /\ (k = "answer") <=> (outcome[at] = "answer")
    <3>1. CASE outcome[at] = "answer"
        BY <3>1 DEF Kind
    <3>2. CASE outcome[at] = "unanswered"
        BY <3>2 DEF ErrorKind, Kind
    <3>3. CASE outcome[at] = "capped"
        BY <3>3 DEF ErrorKind, Kind
    <3>4. CASE outcome[at] = "raised"
        BY <3>4 DEF ErrorKind, Kind
    <3> QED  BY <2>3, <3>1, <3>2, <3>3, <3>4 DEF Outcome
  <2> DEFINE entry == [call |-> at, kind |-> k]
  <2>5. entry \in [call : Entry, kind : Kind]
        /\ entry.call = at /\ entry.kind = k
      BY <2>1
  <2> HIDE DEF entry
  <2>6. out \in Seq([call : Entry, kind : Kind]) /\ out' = Append(out, entry)
      BY <2>4 DEF TypeOK, entry
  <2>7. /\ out' \in Seq([call : Entry, kind : Kind])
        /\ Len(out') = Len(out) + 1
        /\ out'[Len(out) + 1] = entry
        /\ \A n \in 1 .. Len(out) : out'[n] = out[n]
      BY <2>5, <2>6
  <2>8. events' \subseteq [name : {"spawned"} \cup Settled, call : Entry]
      BY <2>1 DEF TypeOK
  <2>9. TypeOK'
      BY <2>2, <2>7, <2>8 DEF TypeOK, Ended
  <2>10. Window' /\ Workers'
      BY <2>1, <2>2 DEF Window, Workers, Batch
  <2>11. Len(out) = at - 1
      BY DEF Finalizing
  <2>12. Finalizing'
      BY <2>2, <2>7, <2>11 DEF Finalizing, TypeOK, Batch
  <2>13. FailureIsContained'
      BY DEF FailureIsContained
  <2>14. ASSUME NEW n \in 1 .. Len(out) PROVE Agrees(n)'
      BY <2>7 DEF Reported, Agrees
  <2>15. ASSUME NEW n, n = at PROVE Agrees(n)'
    <3>1. (row[at] = "complete") <=> (outcome[at] = "answer")
        BY <2>1 DEF FailureIsContained
    <3>2. out'[at] = entry
        BY <2>1, <2>7, <2>11 DEF TypeOK
    <3>3. /\ out'[at].call = at
          /\ (out'[at].kind = "answer") <=> (row[at] = "complete")
        BY <2>4, <2>5, <3>1, <3>2
    <3> QED  BY <2>1, <2>15, <3>3 DEF Agrees
  <2>16. 1 .. Len(out') = (1 .. Len(out)) \cup {at}
      BY <2>1, <2>7, <2>11 DEF TypeOK, Entry
  <2>17. Reported'
      BY <2>14, <2>15, <2>16 DEF Reported
  <2> QED  BY <2>9, <2>10, <2>12, <2>13, <2>17 DEF IInv
<1>10. ASSUME NEW i \in Batch \cap Entry, StartWorker(i) PROVE IInv'
  <2> USE <1>10 DEF StartWorker
  <2>1. TypeOK' /\ Window' /\ Workers'
      BY DEF TypeOK, Window, Workers, Batch
  <2>2. Finalizing'
      BY DEF Finalizing
  <2>3. FailureIsContained'
      BY DEF FailureIsContained, TypeOK
  <2>4. Reported'
      BY DEF Reported, Agrees
  <2> QED  BY <2>1, <2>2, <2>3, <2>4 DEF IInv
<1>11. ASSUME NEW i \in Batch \cap Entry, pc = "fanout", worker[i] = "busy",
              NEW o \in Outcome, Finish(i, o),
              steps' \in [Entry -> 0 .. MaxSteps],
              \A j \in Entry : j # i => steps'[j] = steps[j],
              UNCHANGED <<pc, size, at, row, out, events>>
       PROVE  IInv'
  <2> USE <1>11 DEF Finish
  <2>1. TypeOK' /\ Window'
      BY DEF TypeOK, Window, Batch
  <2>2. Workers'
      BY DEF Workers, TypeOK, Outcome
  <2>3. Finalizing'
      BY DEF Finalizing
  <2>4. FailureIsContained'
      BY DEF FailureIsContained, TypeOK
  <2>5. Reported'
      BY DEF Reported, Agrees
  <2> QED  BY <2>1, <2>2, <2>3, <2>4, <2>5 DEF IInv
<1>12. ASSUME NEW i \in Batch \cap Entry, NEW ask \in Ask, AgentStep(i, ask) PROVE IInv'
  <2>1. /\ steps' \in [Entry -> 0 .. MaxSteps] /\ steps'[i] = steps[i] + 1
        /\ \A j \in Entry : j # i => steps'[j] = steps[j]
    <3>1. steps' = [steps EXCEPT ![i] = steps[i] + 1]
        BY <1>12 DEF AgentStep
    <3>2. steps[i] < MaxSteps
        BY <1>12 DEF AgentStep, Workers
    <3> QED  BY <3>1, <3>2 DEF TypeOK
  <2>2. CASE \E o \in Outcome : Finish(i, o)
      BY <1>11, <1>12, <2>1, <2>2 DEF AgentStep
  <2>3. CASE ~CapReached(steps'[i]) /\ UNCHANGED <<worker, outcome>>
    <3> USE <1>12, <2>1, <2>3 DEF AgentStep
    <3>1. TypeOK' /\ Window'
        BY DEF TypeOK, Window, Batch
    <3>2. Workers'
        BY DEF Workers, TypeOK, CapReached
    <3>3. Finalizing'
        BY DEF Finalizing
    <3>4. FailureIsContained' /\ Reported'
        BY DEF FailureIsContained, Reported, Agrees
    <3> QED  BY <3>1, <3>2, <3>3, <3>4 DEF IInv
  <2> QED  BY <1>12, <2>2, <2>3 DEF AgentStep, Ask, Outcome
<1>13. ASSUME NEW i \in Batch \cap Entry, WorkerRaises(i) PROVE IInv'
  <2>1. "raised" \in Outcome
      BY DEF Outcome
  <2> QED  BY <1>11, <1>13, <2>1 DEF WorkerRaises, TypeOK
<1>14. ASSUME Crash PROVE IInv'
    BY <1>4, <1>14 DEF Crash, TypeOK
<1>15. ASSUME UNCHANGED vars PROVE IInv'
    BY <1>15 DEF vars, IInv, TypeOK, Window, Workers, Finalizing, FailureIsContained,
                 Reported, Agrees, Batch
<1> QED
    BY <1>1, <1>2, <1>3, <1>5, <1>6, <1>7, <1>8, <1>9, <1>10, <1>12, <1>13, <1>14, <1>15
    DEF Next, Tool, Worker

LEMMA Invariance == Spec => []IInv
BY InitIInv, StepIInv, PTL DEF Spec

\* The phases, rows, workers and results have their types.
THEOREM TypeCorrect == Spec => []TypeOK
BY Invariance, PTL DEF IInv

\* Whatever the other workers of the batch do, the settled row of an entry
\* says what its own worker did.
THEOREM Contained == Spec => []FailureIsContained
BY Invariance, PTL DEF IInv

\* A run_subagent that returns has settled every row, and its results are
\* in the order of the entries and agree with the rows.
THEOREM ReturnsTheRows == Spec => []ResultsAreTheRows
<1>1. IInv => ResultsAreTheRows
  <2> SUFFICES ASSUME IInv, pc = "returned"
               PROVE  /\ Len(out) = size
                      /\ \A i \in Batch : Agrees(i)
      BY DEF ResultsAreTheRows, Agrees
  <2>1. Len(out) = size
      BY DEF IInv, Finalizing
  <2> QED  BY <2>1 DEF IInv, Reported, Batch
<1> QED  BY <1>1, Invariance, PTL

\* A client that refreshes its list on an event finds the row the event tells
\* of, also when a later statement of the loop raised or the process died.
THEOREM EventsTellOfRows == Spec => []EventsFollowRows
<1>1. Init => EventsFollowRows
    BY DEF Init, EventsFollowRows
<1>2. IInv /\ EventsFollowRows /\ [Next]_vars => EventsFollowRows'
  <2> SUFFICES ASSUME IInv, EventsFollowRows, [Next]_vars PROVE EventsFollowRows'
      OBVIOUS
  <2>1. /\ pc \in {"spawn", "finalize"} => at \in Entry
        /\ row \in [Entry -> {"absent", "pending", "running"} \cup Settled]
        /\ events \subseteq [name : {"spawned"} \cup Settled, call : Entry]
      BY SubagentBatchAssumption DEF IInv, Window, TypeOK, Entry, Batch
  <2>2. CASE InsertPending
      BY <2>1, <2>2 DEF InsertPending, EventsFollowRows, Settled
  <2>3. CASE MarkRunning
      BY <2>1, <2>3 DEF MarkRunning, Spawned, EventsFollowRows, Settled
  <2>4. CASE SpawnRaises
      BY <2>1, <2>4 DEF SpawnRaises, Spawned, EventsFollowRows
  <2>5. CASE Settle
      BY <2>1, <2>5 DEF Settle, EventsFollowRows, Settled
  <2>6. CASE Report
      BY <2>1, <2>6 DEF Report, EventsFollowRows, Settled
  <2>7. CASE UNCHANGED <<row, events>>
      BY <2>7 DEF EventsFollowRows
  <2> QED
      BY <2>2, <2>3, <2>4, <2>5, <2>6, <2>7
      DEF Next, Tool, Worker, RunSubagent, Join, SettleRaises, StartWorker, AgentStep,
          WorkerRaises, Crash, vars
<1> QED  BY <1>1, <1>2, Invariance, PTL DEF Spec

\* An entry starts only on a free thread, so a batch of any size keeps to
\* WORKER_POOL_MAX_WORKERS workers at a time.
THEOREM PoolIsBounded == Spec => []PoolBound
<1> USE SubagentBatchAssumption
<1>1. Init => PoolBound
  <2>1. Init => Busy = {}
      BY DEF Init, Busy
  <2>2. Cardinality({}) = 0
      BY FS_EmptySet
  <2> QED  BY <2>1, <2>2 DEF PoolBound
<1>2. TypeOK => IsFiniteSet(Busy) /\ Cardinality(Busy) \in Nat
  <2>1. IsFiniteSet(Entry) /\ Busy \subseteq Entry
      BY FS_Interval DEF Entry, Busy
  <2> QED  BY <2>1, FS_Subset, FS_CardinalityType
<1>3. IInv /\ PoolBound /\ [Next]_vars => PoolBound'
  <2> SUFFICES ASSUME IInv, PoolBound, [Next]_vars PROVE Cardinality(Busy') <= MaxWorkers
      BY DEF PoolBound
  <2>1. IsFiniteSet(Busy) /\ Cardinality(Busy) \in Nat
      BY <1>2 DEF IInv
  <2>2. ASSUME NEW i \in Batch \cap Entry, StartWorker(i)
        PROVE  Cardinality(Busy') <= MaxWorkers
    <3>1. Busy' = Busy \cup {i} /\ i \notin Busy
        BY <2>2 DEF StartWorker, Busy, IInv, TypeOK
    <3>2. Cardinality(Busy) < MaxWorkers
        BY <2>1, <2>2 DEF StartWorker, PoolSize, IInv, TypeOK
    <3>3. Cardinality(Busy') = Cardinality(Busy) + 1
        BY <2>1, <3>1, FS_AddElement
    <3> QED  BY <2>1, <3>2, <3>3
  <2>3. CASE Busy' \subseteq Busy
    <3>1. Cardinality(Busy') <= Cardinality(Busy) /\ Cardinality(Busy') \in Nat
        BY <2>1, <2>3, FS_Subset, FS_CardinalityType
    <3> QED  BY <2>1, <3>1 DEF PoolBound
  <2>4. ASSUME NEW i \in Batch \cap Entry, NEW o, Finish(i, o) PROVE Busy' \subseteq Busy
      BY <2>4 DEF Finish, Busy, IInv, TypeOK
  <2>5. UNCHANGED worker => Busy' \subseteq Busy
      BY DEF Busy
  <2> QED
      BY <2>2, <2>3, <2>4, <2>5
      DEF Next, Tool, Worker, RunSubagent, InsertPending, MarkRunning, SpawnRaises, Join,
          Settle, SettleRaises, Report, AgentStep, WorkerRaises, Crash, pool, vars
<1> QED  BY <1>1, <1>3, Invariance, PTL DEF Spec

\* The rows change only as CallLifecycle allows: run_subagent implements it.
THEOREM ImplementsLifecycle == Spec => AuditLog
<1>1. Init => Audit!Init
    BY DEF Init, Audit!Init
<1>2. IInv /\ [Next]_vars => [Audit!Next]_row
  <2> SUFFICES ASSUME IInv, [Next]_vars PROVE Audit!Next \/ row' = row
      OBVIOUS
  <2>1. pc \in {"spawn", "finalize"} => at \in Entry
      BY SubagentBatchAssumption DEF IInv, Window, TypeOK, Entry, Batch
  <2>2. CASE InsertPending
    <3>1. Audit!Advance(at, {"absent"}, {"pending"})
        BY <2>2 DEF InsertPending, Audit!Advance
    <3> QED  BY <2>1, <2>2, <3>1 DEF InsertPending, Audit!Next
  <2>3. CASE MarkRunning
    <3>1. Audit!Advance(at, {"pending"}, {"running"})
        BY <2>3 DEF MarkRunning, Audit!Advance
    <3> QED  BY <2>1, <2>3, <3>1 DEF MarkRunning, Audit!Next
  <2>4. CASE Settle
    <3>1. Audit!Advance(at, {"running"}, Audit!Settled)
        BY <2>4 DEF Settle, Audit!Advance, Audit!Settled
    <3> QED  BY <2>1, <2>4, <3>1 DEF Settle, Audit!Next
  <2>5. CASE ~InsertPending /\ ~MarkRunning /\ ~Settle
      BY <2>5 DEF Next, Tool, Worker, RunSubagent, SpawnRaises, Join, SettleRaises, Report,
                  StartWorker, AgentStep, WorkerRaises, Crash, vars
  <2> QED  BY <2>2, <2>3, <2>4, <2>5
<1> QED  BY <1>1, <1>2, Invariance, PTL DEF Spec, AuditLog, Audit!Spec
=============================================================================
