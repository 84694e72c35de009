--------------------------- MODULE ResearchPlans ---------------------------
(***************************************************************************)
(* Research plans and the lead's notes: the tools propose_plan and         *)
(* write_memory, and the abort endpoint, on the tables research_plans and  *)
(* research_lead_notes.  Transactions run at READ COMMITTED, so a tool is  *)
(* one step per statement and one for its COMMIT.  An UPDATE locks its     *)
(* rows one at a time, waiting for whoever holds the next; an INSERT waits *)
(* for the transaction that has inserted the same key.  PostgreSQL's       *)
(* deadlock detector is left out: a cycle of waits would stay.             *)
(*                                                                         *)
(* A lead is the agent run of one turn, which runs its tools one at a      *)
(* time.  Two leads on one thread are what the race of two processes in    *)
(* LeadTurn leads to.  A plan is identified by its thread and version.     *)
(***************************************************************************)
EXTENDS Integers, FiniteSets

CONSTANTS
    Lead, Thread,
    ThreadOf,     \* the thread of each lead
    Request,      \* POST .../abort requests, each made once
    Key,          \* keys of notes
    MaxVersions,  \* MAX_PLAN_VERSIONS
    MaxNotes,     \* bound: notes stored
    MaxFaults     \* bound: tool calls that raise

ASSUME ResearchPlansAssumption ==
    /\ ThreadOf \in [Lead -> Thread]
    /\ MaxVersions \in Nat /\ MaxNotes \in Nat /\ MaxFaults \in Nat

VARIABLES
    \* Table research_plans, committed.
    status,    \* per thread and version; "absent": no row
    \* Table research_lead_notes, committed.
    notes,     \* rows [thread, plan, key, version]
    \* The tool a lead is in.
    pc,
    seen,      \* version of the latest plan it read, 0 for none
    match,     \* versions its UPDATE found and has not come to yet
    held,      \* versions whose rows it holds locked
    hit,       \* those of them that its UPDATE has superseded
    note,      \* key and version of the note it is about to insert
    \* The abort endpoint.
    reqPc,
    target,    \* the plan its URL names
    faults

plans == <<status>>
locks == <<match, held, hit>>
lead == <<pc, seen, locks, note>>
requests == <<reqPc, target>>
vars == <<plans, notes, lead, requests, faults>>

Version == 1 .. MaxVersions
Active == {"draft", "approved", "running", "proposed"}
Status == Active \cup {"absent", "complete", "aborted", "failed", "superseded"}

TypeOK ==
    /\ status \in [Thread -> [Version -> Status]]
    /\ notes \subseteq [thread : Thread, plan : 0 .. MaxVersions, key : Key, version : Nat]
    /\ pc \in [Lead -> {"idle", "update", "lock", "commit", "select", "write"}]
    /\ seen \in [Lead -> 0 .. MaxVersions]
    /\ match \in [Lead -> SUBSET Version]
    /\ held \in [Lead -> SUBSET Version]
    /\ hit \in [Lead -> SUBSET Version]
    /\ note \in [Lead -> [key : Key, version : Nat]]
    /\ reqPc \in [Request -> {"idle", "update", "commit", "done"}]
    /\ target \in [Request -> [thread : Thread, version : Version]]
    /\ faults \in Nat

-----------------------------------------------------------------------------
(* Queries                                                                 *)

Exists(th, v) == v \in Version /\ status[th][v] # "absent"
PlansOf(th) == {v \in Version : status[th][v] # "absent"}
ActivePlans(th) == {v \in Version : status[th][v] \in Active}

\* _latest_plan_row: v is the highest version, 0 standing for no row.
LatestPlanRow(th, v) ==
    /\ v = 0 \/ Exists(th, v)
    /\ \A u \in Version : Exists(th, u) => u <= v

\* The row is locked by the transaction of a lead or of an abort.
Locked(th, v) ==
    \/ \E l \in Lead : ThreadOf[l] = th /\ v \in held[l]
    \/ \E r \in Request : reqPc[r] = "commit" /\ target[r] = [thread |-> th, version |-> v]

NotesOf(th, v, k) == {n \in notes : n.thread = th /\ n.plan = v /\ n.key = k}

Init ==
    /\ status = [th \in Thread |-> [v \in Version |-> "absent"]]
    /\ notes = {}
    /\ pc = [l \in Lead |-> "idle"]
    /\ seen = [l \in Lead |-> 0]
    /\ match = [l \in Lead |-> {}]
    /\ held = [l \in Lead |-> {}]
    /\ hit = [l \in Lead |-> {}]
    /\ \E k \in Key : note = [l \in Lead |-> [key |-> k, version |-> 0]]
    /\ reqPc = [r \in Request |-> "idle"]
    /\ target \in [Request -> [thread : Thread, version : Version]]
    /\ faults = 0

Goto(l, to) == pc' = [pc EXCEPT ![l] = to]

\* The tool returns: its connection commits or rolls back, which frees the locks.
Return(l) ==
    /\ seen' = [seen EXCEPT ![l] = 0]
    /\ note' = [note EXCEPT ![l] = [key |-> note[l].key, version |-> 0]]
    /\ match' = [match EXCEPT ![l] = {}]
    /\ held' = [held EXCEPT ![l] = {}]
    /\ hit' = [hit EXCEPT ![l] = {}]
    /\ Goto(l, "idle")

-----------------------------------------------------------------------------
(* propose_or_supersede_plan: one transaction                              *)

\* At the cap the tool answers an error and changes nothing.
ReadLatest(l) ==
    /\ pc[l] = "idle"
    /\ \E v \in 0 .. MaxVersions - 1 :
          /\ LatestPlanRow(ThreadOf[l], v)
          /\ seen' = [seen EXCEPT ![l] = v]
    /\ Goto(l, "update")
    /\ UNCHANGED <<plans, notes, locks, note, requests, faults>>

\* UPDATE ... WHERE status = ANY(...) finds its rows in a snapshot ...
FindActive(l) ==
    /\ pc[l] = "update"
    /\ match' = [match EXCEPT ![l] = ActivePlans(ThreadOf[l])]
    /\ Goto(l, "lock")
    /\ UNCHANGED <<plans, notes, seen, held, hit, note, requests, faults>>

\* ... and locks one after the other, waiting while another transaction has the
\* row; it looks at the status again and changes the row if it still is active.
AsFound(l, v) == TRUE
StillActive(l, v) == v \in ActivePlans(ThreadOf[l])

LockRow(l) ==
    /\ pc[l] = "lock"
    /\ \E v \in match[l] :
          /\ ~ Locked(ThreadOf[l], v)
          /\ match' = [match EXCEPT ![l] = match[l] \ {v}]
          /\ held' = [held EXCEPT ![l] = held[l] \cup {v}]
          /\ hit' = [hit EXCEPT ![l] = IF StillActive(l, v) THEN hit[l] \cup {v} ELSE hit[l]]
    /\ UNCHANGED <<plans, notes, pc, seen, note, requests, faults>>

\* INSERT at the next version.  The unique index on (thread_id, version)
\* makes it wait for another transaction that has inserted this version ...
IndexNotUnique(l) == TRUE
VersionFree(l) == ~ Exists(ThreadOf[l], seen[l] + 1)
IndexFree(l) ==
    ~ \E m \in Lead : ThreadOf[m] = ThreadOf[l] /\ pc[m] = "commit" /\ seen[m] = seen[l]

InsertPlan(l) ==
    /\ pc[l] = "lock" /\ match[l] = {}
    /\ VersionFree(l) /\ IndexFree(l)
    /\ Goto(l, "commit")
    /\ UNCHANGED <<plans, notes, seen, locks, note, requests, faults>>

\* ... and rejects one that is committed (UniqueViolation): rolled back, and
\* run_tools answers the call with the error.
RetryInsert(l) == FALSE
PlanRaced(l) ==
    /\ pc[l] = "lock" /\ match[l] = {}
    /\ ~ VersionFree(l)
    /\ Return(l)
    /\ UNCHANGED <<plans, notes, requests, faults>>

\* COMMIT, on leaving the connection's block.
CommitPlan(l) ==
    /\ pc[l] = "commit"
    /\ status' = [status EXCEPT ![ThreadOf[l]] =
                    [v \in Version |->
                        IF v = seen[l] + 1 THEN "proposed"
                        ELSE IF v \in hit[l] THEN "superseded"
                        ELSE status[ThreadOf[l]][v]]]
    /\ Return(l)
    /\ UNCHANGED <<notes, requests, faults>>

-----------------------------------------------------------------------------
(* write_memory                                                            *)

\* get_latest_plan_id, a transaction of its own: "no_plan_for_thread" is an
\* answer that changes nothing.
Resolve(l, k) ==
    /\ pc[l] = "idle"
    /\ Cardinality(notes) < MaxNotes
    /\ \E v \in Version :
          /\ LatestPlanRow(ThreadOf[l], v)
          /\ seen' = [seen EXCEPT ![l] = v]
    /\ note' = [note EXCEPT ![l] = [key |-> k, version |-> 0]]
    /\ Goto(l, "select")
    /\ UNCHANGED <<plans, notes, locks, requests, faults>>

\* SELECT COALESCE(MAX(version), 0) + 1 ...
NextOfPlan(l, n) ==
    /\ n \in {1} \cup {m.version + 1 : m \in notes}
    /\ \A m \in notes :
          m.thread = ThreadOf[l] /\ m.plan = seen[l] => m.version < n
    /\ n > 1 => \E m \in notes :
                   m.thread = ThreadOf[l] /\ m.plan = seen[l] /\ m.version = n - 1
NextVersion(l, n) ==
    LET mine == NotesOf(ThreadOf[l], seen[l], note[l].key)
    IN  /\ n \in {1} \cup {m.version + 1 : m \in mine}
        /\ \A m \in mine : m.version < n

SelectVersion(l) ==
    /\ pc[l] = "select"
    /\ \E n \in {1} \cup {m.version + 1 : m \in notes} :
          /\ NextVersion(l, n)
          /\ note' = [note EXCEPT ![l] = [key |-> note[l].key, version |-> n]]
    /\ Goto(l, "write")
    /\ UNCHANGED <<plans, notes, seen, locks, requests, faults>>

NewNote(l) ==
    [thread |-> ThreadOf[l], plan |-> seen[l], key |-> note[l].key,
     version |-> note[l].version]

\* ... INSERT and COMMIT, unless (plan_id, key, version) is taken by now.
WriteNote(l) ==
    /\ pc[l] = "write"
    /\ NewNote(l) \notin notes /\ Cardinality(notes) < MaxNotes
    /\ notes' = notes \cup {NewNote(l)}
    /\ Return(l)
    /\ UNCHANGED <<plans, requests, faults>>

NoteRaced(l) ==
    /\ pc[l] = "write"
    /\ NewNote(l) \in notes \/ Cardinality(notes) >= MaxNotes
    /\ Return(l)
    /\ UNCHANGED <<plans, notes, requests, faults>>

\* A statement or the COMMIT raises: psycopg rolls back, the lead goes on.  (A
\* COMMIT that took effect before it raised is CommitPlan or WriteNote.)
ToolRaises(l) ==
    /\ pc[l] # "idle"
    /\ faults < MaxFaults
    /\ faults' = faults + 1
    /\ Return(l)
    /\ UNCHANGED <<plans, notes, requests>>

-----------------------------------------------------------------------------
(* POST /threads/{id}/plans/{id}/abort                                     *)

\* _authorize_and_get_plan, and the test of plan.status.
AbortRead(r) ==
    /\ reqPc[r] = "idle"
    /\ Exists(target[r].thread, target[r].version)
    /\ reqPc' = [reqPc EXCEPT ![r] =
                   IF status[target[r].thread][target[r].version] = "aborted"
                   THEN "done" ELSE "update"]
    /\ UNCHANGED <<plans, notes, lead, target, faults>>

\* update_plan_status, which has no condition on the status: UPDATE ...
AbortUpdate(r) ==
    /\ reqPc[r] = "update"
    /\ ~ Locked(target[r].thread, target[r].version)
    /\ reqPc' = [reqPc EXCEPT ![r] = "commit"]
    /\ UNCHANGED <<plans, notes, lead, target, faults>>

\* ... and COMMIT.
AbortCommit(r) ==
    /\ reqPc[r] = "commit"
    /\ status' = [status EXCEPT ![target[r].thread][target[r].version] = "aborted"]
    /\ reqPc' = [reqPc EXCEPT ![r] = "done"]
    /\ UNCHANGED <<notes, lead, target, faults>>

-----------------------------------------------------------------------------

ProposePlan(l) ==
    \/ ReadLatest(l) \/ FindActive(l) \/ LockRow(l)
    \/ InsertPlan(l) \/ PlanRaced(l) \/ CommitPlan(l)
WriteMemory(l) ==
    (\E k \in Key : Resolve(l, k)) \/ SelectVersion(l) \/ WriteNote(l) \/ NoteRaced(l)
AbortPlan(r) == AbortRead(r) \/ AbortUpdate(r) \/ AbortCommit(r)

Next ==
    \/ \E l \in Lead : ProposePlan(l) \/ WriteMemory(l) \/ ToolRaises(l)
    \/ \E r \in Request : AbortPlan(r)

Spec == Init /\ [][Next]_vars

\* Statements return, and PostgreSQL wakes whoever waits for a freed lock.
InTool(l) ==
    \/ FindActive(l) \/ LockRow(l) \/ InsertPlan(l) \/ PlanRaced(l) \/ CommitPlan(l)
    \/ SelectVersion(l) \/ WriteNote(l) \/ NoteRaced(l)
FairSpec ==
    /\ Spec
    /\ \A l \in Lead : WF_vars(InTool(l))
    /\ \A r \in Request : WF_vars(AbortUpdate(r) \/ AbortCommit(r))

-----------------------------------------------------------------------------
(* Properties                                                              *)

\* repo/plans.py: an invocation "marks any prior active version as
\* superseded": whatever the interleaving of leads and aborts, a thread has
\* at most one active plan, and no newer row beside it.
ActiveIsLatest ==
    \A th \in Thread : \A u, v \in Version :
        Exists(th, u) /\ status[th][v] \in Active => u <= v

\* The kill switch is final: no transaction, however early it looked at the
\* plan, turns an aborted plan into anything else.
AbortIsFinal ==
    [][\A th \in Thread : \A v \in Version :
          status[th][v] = "aborted" => status'[th][v] = "aborted"]_vars

\* A version chain per plan and key, without gaps.
NotesDense ==
    \A n \in notes : \A i \in 1 .. n.version :
        \E m \in NotesOf(n.thread, n.plan, n.key) : m.version = i

\* Lead l waits for lead x: for a row x holds, or for the version x inserts.
Waits(l, x) ==
    /\ l # x /\ ThreadOf[l] = ThreadOf[x] /\ pc[l] = "lock"
    /\ \/ match[l] \cap held[x] # {}
       \/ match[l] = {} /\ pc[x] = "commit" /\ seen[x] = seen[l]

\* Transactions that hold row locks while they wait, for a row or for the
\* unique index, form no cycle: whoever the third one waits for is not waiting.
\* (An abort waits before it holds anything.)
NoWaitCycle ==
    \A l, x, y, z \in Lead : ~ (Waits(l, x) /\ Waits(x, y) /\ Waits(y, z))

\* No tool call and no abort waits for ever.
EveryCallReturns ==
    /\ \A l \in Lead : pc[l] # "idle" ~> pc[l] = "idle"
    /\ \A r \in Request : reqPc[r] = "update" ~> reqPc[r] = "done"
=============================================================================
