------------------------ MODULE ResearchPlansProofs -------------------------
(***************************************************************************)
(* For every set of leads, threads and requests: a thread never has two    *)
(* active plans, and an aborted plan stays aborted.  No SELECT is locked,  *)
(* so what carries the proof is the unique index: as long as the version a *)
(* lead is about to insert is free, no plan became active since it looked. *)
(* Since a thread has one active plan, an UPDATE locks one row at most, and *)
(* no transaction waits for a row while it holds another.                  *)
(***************************************************************************)
EXTENDS ResearchPlans, TLAPS

\* max(version) + 1 leaves no gaps.
VersionsDense ==
    \A th \in Thread : \A u, v \in Version :
        Exists(th, v) /\ u <= v => Exists(th, u)

Proposing == {"update", "lock", "commit"}

\* The plan a proposing lead read exists, and it is below the cap.
SeenExists ==
    \A l \in Lead : pc[l] \in Proposing =>
        /\ seen[l] < MaxVersions
        /\ seen[l] # 0 => Exists(ThreadOf[l], seen[l])

\* An abort request in its UPDATE has read its plan.
TargetExists ==
    \A r \in Request :
        reqPc[r] \in {"update", "commit"} => Exists(target[r].thread, target[r].version)

\* While its version is free, a lead's UPDATE has found every active plan.
MatchComplete ==
    \A l \in Lead : pc[l] \in {"lock", "commit"} /\ VersionFree(l) =>
        ActivePlans(ThreadOf[l]) \subseteq match[l] \cup hit[l]

\* Only a transaction between UPDATE and COMMIT holds rows.
Unlocked ==
    \A l \in Lead :
        /\ pc[l] \notin {"lock", "commit"} => match[l] = {} /\ held[l] = {} /\ hit[l] = {}
        /\ pc[l] = "commit" => match[l] = {}

\* Rows a lead has superseded are locked, and stay active for everyone else.
HitActive ==
    \A l \in Lead : hit[l] \subseteq held[l] /\ hit[l] \subseteq ActivePlans(ThreadOf[l])

\* Each locked row has one holder.
LocksExclusive ==
    \A l \in Lead :
        /\ \A m \in Lead : ThreadOf[l] = ThreadOf[m] /\ l # m => held[l] \cap held[m] = {}
        /\ \A r \in Request : reqPc[r] = "commit" /\ target[r].thread = ThreadOf[l]
                              => target[r].version \notin held[l]

\* The version between INSERT and COMMIT is free, and one lead's.
Reserved ==
    \A l \in Lead : pc[l] = "commit" =>
        /\ VersionFree(l)
        /\ \A m \in Lead : pc[m] = "commit" /\ ThreadOf[m] = ThreadOf[l] /\ m # l
                           => seen[m] # seen[l]

\* An UPDATE has one row to lock, or has locked it.
OneRow ==
    \A l \in Lead :
        /\ \A u, v \in match[l] \cup held[l] : u = v
        /\ match[l] \cap held[l] = {}

\* The inductive invariant.
PlanInv ==
    /\ ActiveIsLatest
    /\ VersionsDense
    /\ SeenExists
    /\ TargetExists
    /\ MatchComplete
    /\ Unlocked
    /\ HitActive
    /\ LocksExclusive
    /\ Reserved
    /\ OneRow

IInv == TypeOK /\ PlanInv

LEMMA ThreadOfType == \A l \in Lead : ThreadOf[l] \in Thread
  BY ResearchPlansAssumption

LEMMA VersionType == MaxVersions \in Nat /\ Version \subseteq Nat /\ 0 \notin Version
  BY ResearchPlansAssumption DEF Version

LEMMA TypeInit == Init => TypeOK
  BY ResearchPlansAssumption DEF Init, TypeOK, Status, Active

LEMMA TypeStep == TypeOK /\ [Next]_vars => TypeOK'
<1> SUFFICES ASSUME TypeOK, [Next]_vars PROVE TypeOK'
  OBVIOUS
<1> USE ResearchPlansAssumption
<1>1. ASSUME NEW l \in Lead, ReadLatest(l) PROVE TypeOK'
  BY <1>1 DEF TypeOK, ReadLatest, plans, requests, locks, Goto
<1>2. ASSUME NEW l \in Lead, FindActive(l) PROVE TypeOK'
  BY <1>2 DEF TypeOK, FindActive, plans, requests, Goto, ActivePlans
<1>3. ASSUME NEW l \in Lead, LockRow(l) PROVE TypeOK'
  BY <1>3 DEF TypeOK, LockRow, plans, requests
<1>15. ASSUME NEW l \in Lead, InsertPlan(l) PROVE TypeOK'
  BY <1>15 DEF TypeOK, InsertPlan, plans, requests, locks, Goto
<1>16. ASSUME NEW l \in Lead, Return(l)
       PROVE  /\ match' \in [Lead -> SUBSET Version] /\ held' \in [Lead -> SUBSET Version]
              /\ hit' \in [Lead -> SUBSET Version] /\ seen' \in [Lead -> 0 .. MaxVersions]
              /\ note' \in [Lead -> [key : Key, version : Nat]]
              /\ pc' \in [Lead -> {"idle", "update", "lock", "commit", "select", "write"}]
  BY <1>16 DEF TypeOK, Return, Goto
<1>4. ASSUME NEW l \in Lead, CommitPlan(l) PROVE TypeOK'
  <2>1. status' \in [Thread -> [Version -> Status]]
    BY <1>4 DEF TypeOK, CommitPlan, Status, Active
  <2>2. QED
    BY <1>4, <1>16, <2>1 DEF TypeOK, CommitPlan, requests
<1>5. ASSUME NEW l \in Lead, PlanRaced(l) PROVE TypeOK'
  BY <1>5, <1>16 DEF TypeOK, PlanRaced, plans, requests
<1>6. ASSUME NEW l \in Lead, NEW k \in Key, Resolve(l, k) PROVE TypeOK'
  <2>1. seen' \in [Lead -> 0 .. MaxVersions]
    BY <1>6, VersionType DEF TypeOK, Resolve, Version
  <2>2. note' \in [Lead -> [key : Key, version : Nat]]
    BY <1>6 DEF TypeOK, Resolve
  <2>3. QED
    BY <1>6, <2>1, <2>2 DEF TypeOK, Resolve, plans, requests, locks, Goto
<1>7. ASSUME NEW l \in Lead, SelectVersion(l) PROVE TypeOK'
  <2>1. PICK n \in {1} \cup {m.version + 1 : m \in notes} :
           note' = [note EXCEPT ![l] = [key |-> note[l].key, version |-> n]]
    BY <1>7 DEF SelectVersion
  <2>2. n \in Nat
    BY DEF TypeOK
  <2>3. note' \in [Lead -> [key : Key, version : Nat]]
    BY <2>1, <2>2 DEF TypeOK
  <2>4. QED
    BY <1>7, <2>3 DEF TypeOK, SelectVersion, plans, requests, locks, Goto
<1>8. ASSUME NEW l \in Lead, WriteNote(l) PROVE TypeOK'
  <2>1. NewNote(l) \in [thread : Thread, plan : 0 .. MaxVersions, key : Key, version : Nat]
    BY DEF TypeOK, NewNote
  <2>2. QED
    BY <1>8, <1>16, <2>1 DEF TypeOK, WriteNote, plans, requests
<1>9. ASSUME NEW l \in Lead, NoteRaced(l) PROVE TypeOK'
  BY <1>9, <1>16 DEF TypeOK, NoteRaced, plans, requests
<1>10. ASSUME NEW l \in Lead, ToolRaises(l) PROVE TypeOK'
  BY <1>10, <1>16 DEF TypeOK, ToolRaises, plans, requests
<1>11. ASSUME NEW r \in Request, AbortRead(r) PROVE TypeOK'
  BY <1>11 DEF TypeOK, AbortRead, plans, lead, locks
<1>12. ASSUME NEW r \in Request, AbortUpdate(r) PROVE TypeOK'
  BY <1>12 DEF TypeOK, AbortUpdate, plans, lead, locks
<1>17. ASSUME NEW r \in Request, AbortCommit(r) PROVE TypeOK'
  BY <1>17 DEF TypeOK, AbortCommit, lead, locks, Status
<1>13. CASE UNCHANGED vars
  BY <1>13 DEF TypeOK, vars, plans, lead, locks, requests
<1>14. QED
  BY <1>1, <1>2, <1>3, <1>4, <1>5, <1>6, <1>7, <1>8, <1>9, <1>10, <1>11, <1>12, <1>13,
     <1>15, <1>17
  DEF Next, ProposePlan, WriteMemory, AbortPlan

-----------------------------------------------------------------------------
(* What each kind of step does to the plans                                *)

\* Rows are never deleted.
LEMMA TargetsKeep ==
  ASSUME IInv, UNCHANGED requests,
         \A t \in Thread, v \in Version : Exists(t, v) => status'[t][v] # "absent"
  PROVE  TargetExists'
  BY DEF IInv, TypeOK, PlanInv, TargetExists, Exists, requests

\* The rest of a lead's state that the invariant speaks of.
Same(m) ==
    /\ pc'[m] = pc[m] /\ seen'[m] = seen[m]
    /\ match'[m] = match[m] /\ held'[m] = held[m] /\ hit'[m] = hit[m]

LEMMA ReturnStep ==
  ASSUME IInv, NEW l \in Lead, Return(l)
  PROVE  /\ pc'[l] = "idle" /\ match'[l] = {} /\ held'[l] = {} /\ hit'[l] = {}
         /\ \A m \in Lead : m # l => Same(m)
  BY DEF Return, Goto, Same, IInv, TypeOK

\* A lead that proposes nothing after the step holds no lock, and nobody
\* else's state of a proposal changes.
LEMMA KeepsPlans ==
  ASSUME IInv, NEW l \in Lead, status' = status, UNCHANGED requests,
         \A m \in Lead : m # l => Same(m),
         pc'[l] \notin Proposing, match'[l] = {}, held'[l] = {}, hit'[l] = {}
  PROVE  PlanInv'
<1>1. ActiveIsLatest' /\ VersionsDense'
  BY DEF IInv, PlanInv, ActiveIsLatest, VersionsDense, Exists
<1>2. SeenExists'
  BY DEF IInv, PlanInv, SeenExists, Exists, Proposing, Same
<1>3. MatchComplete'
  BY DEF IInv, PlanInv, MatchComplete, VersionFree, Exists, ActivePlans, Proposing, Same
<1>4. Unlocked' /\ HitActive' /\ OneRow'
  BY DEF IInv, PlanInv, Unlocked, HitActive, OneRow, ActivePlans, Proposing, Same
<1>5. LocksExclusive'
  BY DEF IInv, PlanInv, LocksExclusive, Same, requests
<1>6. TargetExists'
  BY TargetsKeep DEF Exists
<1>8. Reserved'
  BY DEF IInv, PlanInv, Reserved, Proposing, Same, VersionFree, Exists
<1>7. QED
  BY <1>1, <1>2, <1>3, <1>4, <1>5, <1>6, <1>8 DEF PlanInv

\* The plans after CommitPlan.
LEMMA CommitShape ==
  ASSUME TypeOK, NEW l \in Lead, CommitPlan(l)
  PROVE  /\ status' \in [Thread -> [Version -> Status]]
         /\ \A th \in Thread, v \in Version :
               status'[th][v] = IF th # ThreadOf[l] THEN status[th][v]
                                ELSE IF v = seen[l] + 1 THEN "proposed"
                                ELSE IF v \in hit[l] THEN "superseded"
                                ELSE status[th][v]
  BY ThreadOfType DEF TypeOK, CommitPlan, Status, Active

\* No version at or above the free one exists.
LEMMA NoneAbove ==
  ASSUME VersionsDense, NEW th \in Thread, NEW n \in Version, ~ Exists(th, n),
         NEW v \in Version, Exists(th, v)
  PROVE  v < n
  BY VersionType DEF VersionsDense

-----------------------------------------------------------------------------
(* The steps of propose_plan                                               *)

\* A step of a lead that changes no row leaves the rows' invariant and what is
\* asked of the other leads.
LEMMA RowsKeep ==
  ASSUME IInv, NEW l \in Lead, status' = status, UNCHANGED requests,
         \A m \in Lead : m # l => Same(m),
         pc'[l] \in Proposing => seen'[l] < MaxVersions
                                 /\ (seen'[l] # 0 => Exists(ThreadOf[l], seen'[l]))
  PROVE  ActiveIsLatest' /\ VersionsDense' /\ SeenExists' /\ TargetExists'
<1>1. ActiveIsLatest' /\ VersionsDense'
  BY DEF IInv, PlanInv, ActiveIsLatest, VersionsDense, Exists
<1>2. SeenExists'
  BY DEF IInv, PlanInv, SeenExists, Exists, Same
<1>3. TargetExists'
  BY TargetsKeep DEF Exists
<1>4. QED
  BY <1>1, <1>2, <1>3

LEMMA ReadLatestKeeps ==
  ASSUME IInv, NEW l \in Lead, ReadLatest(l) PROVE PlanInv'
<1>1. status' = status /\ match' = match /\ held' = held /\ hit' = hit /\ UNCHANGED requests
  BY DEF ReadLatest, plans, locks
<1>2. \A m \in Lead : m # l => Same(m)
  BY <1>1 DEF ReadLatest, Goto, IInv, TypeOK, Same
<1>4. PICK v \in 0 .. MaxVersions - 1 :
         LatestPlanRow(ThreadOf[l], v) /\ seen' = [seen EXCEPT ![l] = v]
  BY DEF ReadLatest
<1>5. pc[l] = "idle" /\ pc'[l] = "update" /\ seen'[l] = v /\ v < MaxVersions
  BY <1>4, VersionType DEF ReadLatest, Goto, IInv, TypeOK
<1>6. v # 0 => Exists(ThreadOf[l], v)
  BY <1>4 DEF LatestPlanRow
<1>7. ActiveIsLatest' /\ VersionsDense' /\ SeenExists' /\ TargetExists'
  BY <1>1, <1>2, <1>5, <1>6, RowsKeep
<1>9. MatchComplete'
  BY <1>1, <1>2, <1>5 DEF IInv, PlanInv, MatchComplete, VersionFree, Exists, ActivePlans, Same
<1>10. Unlocked' /\ HitActive' /\ LocksExclusive' /\ OneRow'
  BY <1>1, <1>2, <1>5 DEF IInv, PlanInv, Unlocked, HitActive, LocksExclusive, OneRow,
     ActivePlans, Same, requests
<1>12. Reserved'
  BY <1>1, <1>2, <1>5 DEF IInv, PlanInv, Reserved, VersionFree, Exists, Same
<1>11. QED
  BY <1>7, <1>9, <1>10, <1>12 DEF PlanInv

LEMMA FindActiveKeeps ==
  ASSUME IInv, NEW l \in Lead, FindActive(l) PROVE PlanInv'
<1>1. status' = status /\ seen' = seen /\ held' = held /\ hit' = hit /\ UNCHANGED requests
  BY DEF FindActive, plans
<1>2. \A m \in Lead : m # l => Same(m)
  BY <1>1 DEF FindActive, Goto, IInv, TypeOK, Same
<1>3. pc[l] = "update" /\ pc'[l] = "lock" /\ match'[l] = ActivePlans(ThreadOf[l])
  BY DEF FindActive, Goto, IInv, TypeOK
<1>4. ActiveIsLatest' /\ VersionsDense' /\ SeenExists' /\ TargetExists'
  <2>1. seen[l] < MaxVersions /\ (seen[l] # 0 => Exists(ThreadOf[l], seen[l]))
    BY <1>3 DEF IInv, PlanInv, SeenExists, Proposing
  <2>2. QED
    BY <1>1, <1>2, <2>1, RowsKeep
<1>6. MatchComplete'
  BY <1>1, <1>2, <1>3 DEF IInv, PlanInv, MatchComplete, VersionFree, Exists, ActivePlans, Same
<1>7. held[l] = {} /\ hit[l] = {}
  BY <1>3 DEF IInv, PlanInv, Unlocked
<1>8. Unlocked' /\ HitActive' /\ LocksExclusive'
  BY <1>1, <1>2, <1>3, <1>7 DEF IInv, PlanInv, Unlocked, HitActive, LocksExclusive,
     ActivePlans, Same, requests
<1>9. \A u, v \in ActivePlans(ThreadOf[l]) : u = v
  <2> SUFFICES ASSUME NEW u \in ActivePlans(ThreadOf[l]), NEW v \in ActivePlans(ThreadOf[l])
               PROVE  u = v
    OBVIOUS
  <2>1. u \in Version /\ v \in Version /\ u <= v /\ v <= u
    BY ThreadOfType DEF IInv, PlanInv, ActiveIsLatest, ActivePlans, Exists, Active
  <2>2. QED
    BY <2>1, VersionType
<1>10. OneRow'
  BY <1>1, <1>2, <1>3, <1>7, <1>9 DEF IInv, PlanInv, OneRow, Same
<1>12. Reserved'
  BY <1>1, <1>2, <1>3 DEF IInv, PlanInv, Reserved, VersionFree, Exists, Same
<1>11. QED
  BY <1>4, <1>6, <1>8, <1>10, <1>12 DEF PlanInv

LEMMA LockRowKeeps ==
  ASSUME IInv, NEW l \in Lead, LockRow(l) PROVE PlanInv'
<1>1. status' = status /\ seen' = seen /\ pc' = pc /\ pc[l] = "lock" /\ UNCHANGED requests
  BY DEF LockRow, plans
<1>2. \A m \in Lead : m # l => Same(m)
  BY <1>1 DEF LockRow, IInv, TypeOK, Same
<1>3. PICK v \in match[l] :
         /\ ~ Locked(ThreadOf[l], v)
         /\ match' = [match EXCEPT ![l] = match[l] \ {v}]
         /\ held' = [held EXCEPT ![l] = held[l] \cup {v}]
         /\ hit' = [hit EXCEPT ![l] = IF StillActive(l, v) THEN hit[l] \cup {v} ELSE hit[l]]
  BY DEF LockRow
<1>4. /\ match'[l] = match[l] \ {v} /\ held'[l] = held[l] \cup {v} /\ v \in Version
      /\ hit'[l] = IF v \in ActivePlans(ThreadOf[l]) THEN hit[l] \cup {v} ELSE hit[l]
  BY <1>3 DEF IInv, TypeOK, StillActive
<1>5. ActiveIsLatest' /\ VersionsDense' /\ SeenExists' /\ TargetExists'
  <2>1. seen[l] < MaxVersions /\ (seen[l] # 0 => Exists(ThreadOf[l], seen[l]))
    BY <1>1 DEF IInv, PlanInv, SeenExists, Proposing
  <2>2. QED
    BY <1>1, <1>2, <2>1, RowsKeep
<1>6. MatchComplete'
  <2> SUFFICES ASSUME NEW m \in Lead, pc[m] \in {"lock", "commit"}, VersionFree(m)
               PROVE  ActivePlans(ThreadOf[m]) \subseteq match'[m] \cup hit'[m]
    BY <1>1 DEF MatchComplete, VersionFree, Exists, ActivePlans
  <2>1. ActivePlans(ThreadOf[m]) \subseteq match[m] \cup hit[m]
    BY DEF IInv, PlanInv, MatchComplete
  <2>2. QED
    BY <1>2, <1>4, <2>1 DEF Same
<1>7. Unlocked'
  BY <1>1, <1>2, <1>4 DEF IInv, PlanInv, Unlocked, Same
<1>8. HitActive'
  BY <1>1, <1>2, <1>4 DEF IInv, PlanInv, HitActive, ActivePlans, Same
<1>9. LocksExclusive'
  <2>1. \A m \in Lead : ThreadOf[m] = ThreadOf[l] => v \notin held[m]
    BY <1>3 DEF Locked
  <2>2. \A r \in Request : reqPc[r] = "commit" /\ target[r].thread = ThreadOf[l]
                           => target[r].version # v
    BY <1>3 DEF Locked, IInv, TypeOK
  <2>3. QED
    BY <1>1, <1>2, <1>4, <2>1, <2>2 DEF IInv, PlanInv, LocksExclusive, Same, requests
<1>10. OneRow'
  BY <1>2, <1>4 DEF IInv, PlanInv, OneRow, Same
<1>11. Reserved'
  BY <1>1 DEF IInv, PlanInv, Reserved, VersionFree, Exists
<1>12. QED
  BY <1>5, <1>6, <1>7, <1>8, <1>9, <1>10, <1>11 DEF PlanInv

LEMMA InsertPlanKeeps ==
  ASSUME IInv, NEW l \in Lead, InsertPlan(l) PROVE PlanInv'
<1>1. /\ status' = status /\ seen' = seen /\ match' = match /\ held' = held /\ hit' = hit
      /\ UNCHANGED requests
  BY DEF InsertPlan, plans, locks
<1>2. \A m \in Lead : m # l => Same(m)
  BY <1>1 DEF InsertPlan, Goto, IInv, TypeOK, Same
<1>3. /\ pc[l] = "lock" /\ pc'[l] = "commit" /\ match[l] = {} /\ VersionFree(l)
      /\ \A m \in Lead : ThreadOf[m] = ThreadOf[l] /\ pc[m] = "commit" => seen[m] # seen[l]
  BY DEF InsertPlan, Goto, IndexFree, IInv, TypeOK
<1>4. ActiveIsLatest' /\ VersionsDense' /\ SeenExists' /\ TargetExists'
  <2>1. seen[l] < MaxVersions /\ (seen[l] # 0 => Exists(ThreadOf[l], seen[l]))
    BY <1>3 DEF IInv, PlanInv, SeenExists, Proposing
  <2>2. QED
    BY <1>1, <1>2, <2>1, RowsKeep
<1>5. MatchComplete'
  BY <1>1, <1>2, <1>3 DEF IInv, PlanInv, MatchComplete, VersionFree, Exists, ActivePlans, Same
<1>6. Unlocked' /\ HitActive' /\ OneRow'
  BY <1>1, <1>2, <1>3 DEF IInv, PlanInv, Unlocked, HitActive, OneRow, ActivePlans, Same
<1>7. LocksExclusive'
  BY <1>1 DEF IInv, PlanInv, LocksExclusive, requests
<1>8. Reserved'
  BY <1>1, <1>2, <1>3 DEF IInv, PlanInv, Reserved, VersionFree, Exists, Same
<1>9. QED
  BY <1>4, <1>5, <1>6, <1>7, <1>8 DEF PlanInv

\* The new plan is the only active one: MatchComplete says that what it does
\* not supersede was not active.
LEMMA CommitPlanKeeps ==
  ASSUME IInv, NEW l \in Lead, CommitPlan(l) PROVE PlanInv'
<1> DEFINE th == ThreadOf[l]
           n == seen[l] + 1
<1>1. /\ pc[l] = "commit" /\ VersionFree(l) /\ pc'[l] = "idle" /\ match[l] = {}
      /\ match'[l] = {} /\ held'[l] = {} /\ hit'[l] = {}
      /\ th \in Thread /\ seen[l] \in Nat /\ UNCHANGED requests
  BY ThreadOfType, ReturnStep DEF CommitPlan, IInv, TypeOK, PlanInv, Reserved, Unlocked
<1>2. \A m \in Lead : m # l => Same(m)
  BY ReturnStep DEF CommitPlan
<1>3. n \in Version /\ ~ Exists(th, n) /\ (seen[l] # 0 => Exists(th, seen[l]))
  BY <1>1, VersionType DEF IInv, PlanInv, SeenExists, Proposing, VersionFree, Version
<1>4. /\ hit[l] \subseteq ActivePlans(th) /\ hit[l] \subseteq held[l]
      /\ ActivePlans(th) \subseteq hit[l]
  BY <1>1 DEF IInv, PlanInv, HitActive, MatchComplete
<1>5. \A t \in Thread, v \in Version :
         status'[t][v] = IF t # th THEN status[t][v]
                         ELSE IF v = n THEN "proposed"
                         ELSE IF v \in hit[l] THEN "superseded"
                         ELSE status[t][v]
  BY CommitShape DEF IInv
<1>6. \A t \in Thread, v \in Version :
         Exists(t, v)' <=> (Exists(t, v) \/ (t = th /\ v = n))
  BY <1>4, <1>5 DEF Exists, ActivePlans, Active
<1>7. \A v \in Version : Exists(th, v) => v < n
  BY <1>1, <1>3, NoneAbove DEF IInv, PlanInv
<1>8. \A v \in Version : status'[th][v] \in Active => v = n
  BY <1>1, <1>4, <1>5 DEF ActivePlans, Active
<1>9. \A t \in Thread : t # th => ActivePlans(t)' = ActivePlans(t)
  BY <1>5 DEF ActivePlans
<1>10. ActiveIsLatest'
  <2> SUFFICES ASSUME NEW t \in Thread, NEW u \in Version, NEW v \in Version,
                      Exists(t, u)', status'[t][v] \in Active
               PROVE  u <= v
    BY DEF ActiveIsLatest
  <2>1. CASE t = th
    BY <1>6, <1>7, <1>8, <2>1, VersionType
  <2>2. CASE t # th
    BY <1>5, <1>6, <2>2 DEF IInv, PlanInv, ActiveIsLatest
  <2>3. QED
    BY <2>1, <2>2
<1>11. VersionsDense'
  <2> SUFFICES ASSUME NEW t \in Thread, NEW u \in Version, NEW v \in Version,
                      Exists(t, v)', u <= v
               PROVE  Exists(t, u)'
    BY DEF VersionsDense
  <2>1. CASE Exists(t, v)
    BY <1>6, <2>1 DEF IInv, PlanInv, VersionsDense
  <2>2. CASE t = th /\ v = n
    <3>1. CASE u = n
      BY <1>6, <2>2, <3>1
    <3>2. CASE u # n
      <4>1. u <= seen[l] /\ seen[l] \in Version
        BY <1>1, <1>3, <2>2, <3>2, VersionType DEF Version
      <4>2. Exists(th, u)
        BY <1>1, <1>3, <4>1, VersionType DEF IInv, PlanInv, VersionsDense
      <4>3. QED
        BY <1>6, <2>2, <4>2
    <3>3. QED
      BY <3>1, <3>2
  <2>3. QED
    BY <1>6, <2>1, <2>2
<1>12. SeenExists'
  <2> SUFFICES ASSUME NEW m \in Lead, pc'[m] \in Proposing
               PROVE  /\ seen[m] < MaxVersions
                      /\ seen[m] # 0 => Exists(ThreadOf[m], seen[m])'
    BY <1>1, <1>2 DEF SeenExists, Same, Proposing
  <2>1. m # l /\ pc[m] \in Proposing /\ seen'[m] = seen[m]
    BY <1>1, <1>2 DEF Proposing, Same
  <2>2. seen[m] < MaxVersions /\ (seen[m] # 0 => Exists(ThreadOf[m], seen[m]))
    BY <2>1 DEF IInv, PlanInv, SeenExists
  <2>3. QED
    BY <1>6, <2>1, <2>2, ThreadOfType DEF Exists
<1>13. MatchComplete'
  <2> SUFFICES ASSUME NEW m \in Lead, pc'[m] \in {"lock", "commit"}, VersionFree(m)'
               PROVE  ActivePlans(ThreadOf[m])' \subseteq match'[m] \cup hit'[m]
    BY DEF MatchComplete
  <2>1. /\ m # l /\ pc[m] \in {"lock", "commit"} /\ seen'[m] = seen[m]
        /\ match'[m] = match[m] /\ hit'[m] = hit[m]
    BY <1>1, <1>2 DEF Same
  <2>2. /\ ThreadOf[m] \in Thread /\ seen[m] \in Nat
        /\ seen[m] < MaxVersions /\ (seen[m] # 0 => Exists(ThreadOf[m], seen[m]))
    BY <2>1, ThreadOfType DEF IInv, TypeOK, PlanInv, SeenExists, Proposing
  <2>3. seen[m] + 1 \in Version /\ status'[ThreadOf[m]][seen[m] + 1] = "absent"
    BY <2>1, <2>2, VersionType DEF VersionFree, Exists, Version
  <2>4. ThreadOf[m] # th
    <3> SUFFICES ASSUME ThreadOf[m] = th PROVE FALSE
      OBVIOUS
    <3>1. seen[m] + 1 # n /\ ~ Exists(th, seen[m] + 1)
      BY <1>1, <1>4, <1>5, <2>3 DEF Exists, ActivePlans, Active
    <3>2. seen[m] < n
      BY <1>1, <1>7, <2>2, VersionType DEF Exists
    <3>3. seen[m] + 1 <= seen[l] /\ seen[l] # 0
      BY <1>1, <2>2, <3>1, <3>2
    <3>4. Exists(th, seen[m] + 1)
      BY <1>1, <1>3, <2>3, <3>3 DEF IInv, PlanInv, VersionsDense, Exists
    <3>5. QED
      BY <3>1, <3>4
  <2>5. VersionFree(m)
    BY <1>5, <2>2, <2>3, <2>4 DEF VersionFree, Exists
  <2>6. ActivePlans(ThreadOf[m]) \subseteq match[m] \cup hit[m]
    BY <2>1, <2>5 DEF IInv, PlanInv, MatchComplete
  <2>7. QED
    BY <1>9, <2>1, <2>2, <2>4, <2>6
<1>14. HitActive'
  <2> SUFFICES ASSUME NEW m \in Lead, m # l
               PROVE  /\ hit'[m] \subseteq held'[m]
                      /\ hit'[m] \subseteq ActivePlans(ThreadOf[m])'
    BY <1>1 DEF HitActive
  <2>1. hit'[m] = hit[m] /\ held'[m] = held[m] /\ ThreadOf[m] \in Thread
    BY <1>2, ThreadOfType DEF Same
  <2>2. hit[m] \subseteq held[m] /\ hit[m] \subseteq ActivePlans(ThreadOf[m])
    BY DEF IInv, PlanInv, HitActive
  <2>3. CASE ThreadOf[m] # th
    BY <1>9, <2>1, <2>2, <2>3
  <2>4. CASE ThreadOf[m] = th
    <3>1. held[l] \cap held[m] = {}
      BY <2>4 DEF IInv, PlanInv, LocksExclusive
    <3>2. hit[m] = {}
      BY <1>4, <2>2, <2>4, <3>1
    <3>3. QED
      BY <2>1, <3>2
  <2>5. QED
    BY <2>3, <2>4
<1>15. Unlocked' /\ LocksExclusive' /\ OneRow'
  BY <1>1, <1>2 DEF IInv, PlanInv, Unlocked, LocksExclusive, OneRow, Same, requests
<1>18. Reserved'
  <2> SUFFICES ASSUME NEW m \in Lead, pc'[m] = "commit"
               PROVE  /\ VersionFree(m)'
                      /\ \A k \in Lead : pc'[k] = "commit" /\ ThreadOf[k] = ThreadOf[m] /\ k # m
                                         => seen'[k] # seen'[m]
    BY DEF Reserved
  <2>1. m # l /\ pc[m] = "commit" /\ seen'[m] = seen[m] /\ ThreadOf[m] \in Thread
    BY <1>1, <1>2, ThreadOfType DEF Same
  <2>2. VersionFree(m) /\ (ThreadOf[m] = th => seen[m] # seen[l])
    BY <1>1, <2>1 DEF IInv, PlanInv, Reserved
  <2>3. seen[m] \in Nat
    BY DEF IInv, TypeOK
  <2>4. seen[m] + 1 \in Version => ~ Exists(ThreadOf[m], seen[m] + 1)'
    BY <1>1, <1>6, <2>1, <2>2, <2>3 DEF VersionFree
  <2>5. VersionFree(m)'
    BY <2>1, <2>4 DEF VersionFree, Exists
  <2>6. ASSUME NEW k \in Lead, pc'[k] = "commit", ThreadOf[k] = ThreadOf[m], k # m
        PROVE  seen'[k] # seen'[m]
    <3>1. k # l /\ pc[k] = "commit" /\ seen'[k] = seen[k]
      BY <1>1, <1>2, <2>6 DEF Same
    <3>2. QED
      BY <2>1, <2>6, <3>1 DEF IInv, PlanInv, Reserved
  <2>7. QED
    BY <2>5, <2>6
<1>16. TargetExists'
  BY <1>6, TargetsKeep DEF CommitPlan, Exists
<1>17. QED
  BY <1>10, <1>11, <1>12, <1>13, <1>14, <1>15, <1>16, <1>18 DEF PlanInv

-----------------------------------------------------------------------------
(* The abort endpoint                                                      *)

\* The row is free, and the request locks it.
LEMMA AbortUpdateKeeps ==
  ASSUME IInv, NEW r \in Request, AbortUpdate(r) PROVE PlanInv'
<1>1. /\ status' = status /\ pc' = pc /\ seen' = seen /\ target' = target
      /\ match' = match /\ held' = held /\ hit' = hit
  BY DEF AbortUpdate, plans, lead, locks
<1>2. /\ reqPc[r] = "update" /\ reqPc'[r] = "commit"
      /\ \A q \in Request : q # r => reqPc'[q] = reqPc[q]
  BY DEF AbortUpdate, IInv, TypeOK
<1>3. \A l \in Lead : ThreadOf[l] = target[r].thread => target[r].version \notin held[l]
  BY DEF AbortUpdate, Locked
<1>4. LocksExclusive'
  BY <1>1, <1>2, <1>3 DEF IInv, PlanInv, LocksExclusive
<1>5. TargetExists'
  BY <1>1, <1>2 DEF IInv, PlanInv, TargetExists, Exists
<1>6. QED
  BY <1>1, <1>4, <1>5 DEF IInv, PlanInv, ActiveIsLatest, VersionsDense, SeenExists,
     MatchComplete, Unlocked, HitActive, Reserved, OneRow, Exists, VersionFree, ActivePlans

\* The row is locked by the request, so no lead loses an active row it holds.
LEMMA AbortCommitKeeps ==
  ASSUME IInv, NEW r \in Request, AbortCommit(r) PROVE PlanInv'
<1> DEFINE th == target[r].thread
           w == target[r].version
<1>1. /\ pc' = pc /\ seen' = seen /\ target' = target
      /\ match' = match /\ held' = held /\ hit' = hit
  BY DEF AbortCommit, lead, locks
<1>2. th \in Thread /\ w \in Version
  BY DEF IInv, TypeOK
<1>3. \A t \in Thread, v \in Version :
         status'[t][v] = IF t = th /\ v = w THEN "aborted" ELSE status[t][v]
  BY <1>2 DEF AbortCommit, IInv, TypeOK
<1>4. reqPc[r] = "commit" /\ Exists(th, w)
  BY DEF AbortCommit, IInv, PlanInv, TargetExists
<1>5. \A t \in Thread, v \in Version : Exists(t, v)' <=> Exists(t, v)
  BY <1>3, <1>4 DEF Exists
<1>6. \A t \in Thread, v \in Version : status'[t][v] \in Active => status[t][v] \in Active
  BY <1>3 DEF Active
<1>7. ActiveIsLatest' /\ VersionsDense'
  BY <1>5, <1>6 DEF IInv, PlanInv, ActiveIsLatest, VersionsDense
<1>8. SeenExists'
  BY <1>1, <1>5, ThreadOfType DEF IInv, PlanInv, SeenExists, Exists
<1>14. \A m \in Lead : VersionFree(m)' <=> VersionFree(m)
  BY <1>1, <1>5, ThreadOfType DEF VersionFree, Exists
<1>9. MatchComplete'
  <2> SUFFICES ASSUME NEW m \in Lead, pc[m] \in {"lock", "commit"}, VersionFree(m)'
               PROVE  ActivePlans(ThreadOf[m])' \subseteq match[m] \cup hit[m]
    BY <1>1 DEF MatchComplete
  <2>1. ActivePlans(ThreadOf[m]) \subseteq match[m] \cup hit[m]
    BY <1>14 DEF IInv, PlanInv, MatchComplete
  <2>2. QED
    BY <1>6, <2>1, ThreadOfType DEF ActivePlans
<1>10. HitActive'
  <2> SUFFICES ASSUME NEW m \in Lead, NEW v \in hit[m]
               PROVE  v \in ActivePlans(ThreadOf[m])' /\ v \in held[m]
    BY <1>1 DEF HitActive
  <2>1. v \in Version /\ status[ThreadOf[m]][v] \in Active /\ v \in held[m]
    BY DEF IInv, PlanInv, HitActive, ActivePlans
  <2>2. ThreadOf[m] # th \/ v # w
    BY <1>4, <2>1 DEF IInv, PlanInv, LocksExclusive
  <2>3. QED
    BY <1>3, <2>1, <2>2, ThreadOfType DEF ActivePlans
<1>11. LocksExclusive' /\ Unlocked' /\ OneRow'
  BY <1>1 DEF AbortCommit, IInv, TypeOK, PlanInv, LocksExclusive, Unlocked, OneRow
<1>12. TargetExists'
  BY <1>1, <1>5 DEF IInv, TypeOK, PlanInv, TargetExists, AbortCommit, Exists
<1>15. Reserved'
  BY <1>1, <1>14 DEF IInv, PlanInv, Reserved
<1>13. QED
  BY <1>7, <1>8, <1>9, <1>10, <1>11, <1>12, <1>15 DEF PlanInv

LEMMA AbortReadKeeps ==
  ASSUME IInv, NEW r \in Request, AbortRead(r) PROVE PlanInv'
<1>1. /\ status' = status /\ pc' = pc /\ seen' = seen /\ target' = target
      /\ match' = match /\ held' = held /\ hit' = hit
  BY DEF AbortRead, plans, lead, locks
<1>2. /\ Exists(target[r].thread, target[r].version) /\ reqPc'[r] # "commit"
      /\ \A q \in Request : q # r => reqPc'[q] = reqPc[q]
  BY DEF AbortRead, IInv, TypeOK
<1>3. TargetExists'
  BY <1>1, <1>2 DEF IInv, PlanInv, TargetExists, Exists
<1>4. LocksExclusive'
  BY <1>1, <1>2 DEF IInv, PlanInv, LocksExclusive
<1>5. QED
  BY <1>1, <1>3, <1>4 DEF IInv, PlanInv, ActiveIsLatest, VersionsDense, SeenExists,
     MatchComplete, Unlocked, HitActive, Reserved, OneRow, Exists, VersionFree, ActivePlans

-----------------------------------------------------------------------------
(* The inductive invariant and the theorems                                *)

LEMMA InitIInv == Init => IInv
<1> SUFFICES ASSUME Init PROVE IInv
  OBVIOUS
<1>1. \A th \in Thread : \A v \in Version : ~ Exists(th, v) /\ status[th][v] \notin Active
  BY DEF Init, Exists, Active
<1>2. QED
  BY <1>1, TypeInit, ThreadOfType DEF Init, IInv, PlanInv, ActiveIsLatest, VersionsDense,
     SeenExists, TargetExists, MatchComplete, Unlocked, HitActive, LocksExclusive, Reserved,
     OneRow, Proposing

LEMMA NextIInv == IInv /\ [Next]_vars => IInv'
<1> SUFFICES ASSUME IInv, [Next]_vars PROVE PlanInv'
  BY TypeStep DEF IInv
<1>1. ASSUME NEW l \in Lead, PlanRaced(l) \/ WriteNote(l) \/ NoteRaced(l) \/ ToolRaises(l)
      PROVE  PlanInv'
  <2>1. status' = status /\ UNCHANGED requests /\ Return(l)
    BY <1>1 DEF PlanRaced, WriteNote, NoteRaced, ToolRaises, plans
  <2>2. QED
    BY <2>1, KeepsPlans, ReturnStep DEF Proposing
<1>2. ASSUME NEW l \in Lead, SelectVersion(l) \/ \E k \in Key : Resolve(l, k) PROVE PlanInv'
  <2>1. /\ status' = status /\ UNCHANGED requests /\ pc'[l] \in {"select", "write"}
        /\ UNCHANGED locks /\ pc[l] \in {"idle", "select"}
    BY <1>2 DEF SelectVersion, Resolve, plans, Goto, IInv, TypeOK
  <2>2. \A m \in Lead : m # l => Same(m)
    BY <1>2 DEF SelectVersion, Resolve, Same, locks, Goto, IInv, TypeOK
  <2>3. match'[l] = {} /\ held'[l] = {} /\ hit'[l] = {}
    BY <2>1 DEF locks, IInv, PlanInv, Unlocked
  <2>4. QED
    BY <2>1, <2>2, <2>3, KeepsPlans DEF Proposing
<1>4. CASE UNCHANGED vars
  BY <1>4 DEF vars, plans, lead, locks, requests, IInv, PlanInv, ActiveIsLatest, VersionsDense,
     SeenExists, TargetExists, MatchComplete, Unlocked, HitActive, LocksExclusive, Reserved,
     OneRow, Exists, VersionFree, ActivePlans
<1>5. QED
  BY <1>1, <1>2, <1>4, ReadLatestKeeps, FindActiveKeeps, LockRowKeeps, InsertPlanKeeps,
     CommitPlanKeeps, AbortReadKeeps, AbortUpdateKeeps, AbortCommitKeeps
  DEF Next, ProposePlan, WriteMemory, AbortPlan

LEMMA Inductive == Spec => []IInv
  BY InitIInv, NextIInv, PTL DEF Spec

\* Type correctness of the plan and note tables and of the tools using them.
THEOREM TypeCorrect == Spec => []TypeOK
<1>1. IInv => TypeOK
  BY DEF IInv
<1>2. QED
  BY <1>1, Inductive, PTL

\* propose_or_supersede_plan, run by any number of leads on any number of
\* threads against any number of aborts, keeps the one active plan of a
\* thread its newest row.
THEOREM OneActivePlan == Spec => []ActiveIsLatest
<1>1. IInv => ActiveIsLatest
  BY DEF IInv, PlanInv
<1>2. QED
  BY <1>1, Inductive, PTL

\* Transactions of _insert_proposed never wait for each other in a cycle: the
\* UPDATE has one row to lock at most, and the INSERT waits only for a COMMIT.
THEOREM NoDeadlock == Spec => []NoWaitCycle
<1>1. IInv => NoWaitCycle
  <2> SUFFICES ASSUME IInv, NEW l \in Lead, NEW x \in Lead, NEW y \in Lead, NEW z \in Lead,
                      Waits(l, x), Waits(x, y), Waits(y, z)
               PROVE  FALSE
    BY DEF NoWaitCycle
  <2>1. pc[x] = "lock" /\ pc[y] = "lock"
    BY DEF Waits
  <2>2. match[l] \cap held[x] # {} /\ match[x] \cap held[y] # {}
    BY <2>1 DEF Waits
  <2>3. QED
    BY <2>2 DEF IInv, PlanInv, OneRow
<1>2. QED
  BY <1>1, Inductive, PTL

\* A lead's UPDATE never overwrites the status that the abort endpoint set:
\* the rows it has superseded were active when it locked them.
THEOREM AbortedForEver == Spec => AbortIsFinal
<1> DEFINE Kept == \A th \in Thread : \A v \in Version :
                      status[th][v] = "aborted" => status'[th][v] = "aborted"
<1>1. IInv /\ [Next]_vars => Kept
  <2> SUFFICES ASSUME IInv, [Next]_vars PROVE Kept
    OBVIOUS
  <2>1. ASSUME NEW l \in Lead, CommitPlan(l) PROVE Kept
    <3>1. hit[l] \subseteq ActivePlans(ThreadOf[l]) /\ ~ Exists(ThreadOf[l], seen[l] + 1)
      BY <2>1 DEF CommitPlan, VersionFree, IInv, PlanInv, HitActive, Reserved
    <3>2. QED
      BY <2>1, <3>1, CommitShape DEF IInv, ActivePlans, Active, Exists
  <2>2. ASSUME NEW r \in Request, AbortCommit(r) PROVE Kept
    BY <2>2 DEF AbortCommit, IInv, TypeOK
  <2>3. ASSUME status' = status PROVE Kept
    BY <2>3
  <2>4. ASSUME NEW l \in Lead, ReadLatest(l) \/ FindActive(l) \/ LockRow(l) \/ InsertPlan(l)
                               \/ PlanRaced(l)
        PROVE  status' = status
    BY <2>4 DEF ReadLatest, FindActive, LockRow, InsertPlan, PlanRaced, plans
  <2>5. ASSUME NEW l \in Lead, WriteMemory(l) \/ ToolRaises(l) PROVE status' = status
    BY <2>5 DEF WriteMemory, Resolve, SelectVersion, WriteNote, NoteRaced, ToolRaises, plans
  <2>6. ASSUME NEW r \in Request, AbortRead(r) \/ AbortUpdate(r) PROVE status' = status
    BY <2>6 DEF AbortRead, AbortUpdate, plans
  <2>7. UNCHANGED vars => status' = status
    BY DEF vars, plans
  <2>8. QED
    BY <2>1, <2>2, <2>3, <2>4, <2>5, <2>6, <2>7 DEF Next, ProposePlan, AbortPlan
<1>2. QED
  BY <1>1, Inductive, PTL DEF Spec, AbortIsFinal

-----------------------------------------------------------------------------
(* The notes                                                               *)

\* A note about to be written has its predecessors in the table, where no
\* row is ever deleted.
Numbered ==
    \A l \in Lead : pc[l] = "write" => \A i \in 1 .. note[l].version - 1 :
        \E m \in NotesOf(ThreadOf[l], seen[l], note[l].key) : m.version = i

\* However many leads number their notes from the same SELECT, the versions of
\* a plan and a key have no gaps: the unique index drops the one that is late.
THEOREM NotesAreDense == Spec => []NotesDense
<1>1. Init => NotesDense /\ Numbered
  BY DEF Init, NotesDense, Numbered
<1>2. IInv /\ NotesDense /\ Numbered /\ [Next]_vars => NotesDense' /\ Numbered'
  <2> SUFFICES ASSUME IInv, NotesDense, Numbered, [Next]_vars
               PROVE  NotesDense' /\ Numbered'
    OBVIOUS
  <2>1. ASSUME NEW l \in Lead, SelectVersion(l) PROVE NotesDense' /\ Numbered'
    <3>1. PICK n \in {1} \cup {m.version + 1 : m \in notes} :
             /\ NextVersion(l, n)
             /\ note' = [note EXCEPT ![l] = [key |-> note[l].key, version |-> n]]
      BY <2>1 DEF SelectVersion
    <3>2. /\ UNCHANGED <<notes, seen>> /\ pc'[l] = "write"
          /\ note'[l].key = note[l].key /\ note'[l].version = n
          /\ \A k \in Lead : k # l => pc'[k] = pc[k] /\ note'[k] = note[k]
      BY <2>1, <3>1 DEF SelectVersion, Goto, IInv, TypeOK
    <3>3. ASSUME NEW i \in 1 .. n - 1
          PROVE  \E m \in NotesOf(ThreadOf[l], seen[l], note[l].key) : m.version = i
      <4>1. PICK q \in NotesOf(ThreadOf[l], seen[l], note[l].key) : n = q.version + 1
        BY <3>1 DEF NextVersion
      <4>2. /\ q \in notes /\ q.version \in Nat
            /\ NotesOf(q.thread, q.plan, q.key) = NotesOf(ThreadOf[l], seen[l], note[l].key)
        BY <4>1 DEF NotesOf, IInv, TypeOK
      <4>3. QED
        BY <4>1, <4>2 DEF NotesDense
    <3>4. QED
      BY <3>2, <3>3 DEF NotesDense, Numbered, NotesOf
  <2>2. ASSUME NEW l \in Lead, WriteNote(l) PROVE NotesDense' /\ Numbered'
    <3>1. /\ notes' = notes \cup {NewNote(l)} /\ pc[l] = "write" /\ pc'[l] = "idle"
          /\ \A k \in Lead : k # l => pc'[k] = pc[k] /\ seen'[k] = seen[k] /\ note'[k] = note[k]
      BY <2>2 DEF WriteNote, Return, Goto, IInv, TypeOK
    <3>2. \A th, v, k : NotesOf(th, v, k) \subseteq NotesOf(th, v, k)'
      BY <3>1 DEF NotesOf
    <3>3. Numbered'
      BY <3>1, <3>2 DEF Numbered
    <3>4. ASSUME NEW n \in notes', NEW i \in 1 .. n.version
          PROVE  \E m \in NotesOf(n.thread, n.plan, n.key)' : m.version = i
      <4>1. CASE n \in notes
        BY <3>2, <4>1 DEF NotesDense
      <4>2. CASE n = NewNote(l)
        <5>1. /\ n.thread = ThreadOf[l] /\ n.plan = seen[l] /\ n.key = note[l].key
              /\ n.version = note[l].version /\ n.version \in Nat
          BY <4>2 DEF NewNote, IInv, TypeOK
        <5>2. CASE i = n.version
          BY <5>1, <5>2 DEF NotesOf
        <5>3. CASE i \in 1 .. n.version - 1
          BY <3>1, <3>2, <5>1, <5>3 DEF Numbered
        <5>4. QED
          BY <5>1, <5>2, <5>3
      <4>3. QED
        BY <3>1, <4>1, <4>2
    <3>5. QED
      BY <3>3, <3>4 DEF NotesDense
  <2>3. ASSUME UNCHANGED notes,
               \A l \in Lead : pc'[l] = "write" =>
                  pc[l] = "write" /\ seen'[l] = seen[l] /\ note'[l] = note[l]
        PROVE  NotesDense' /\ Numbered'
    BY <2>3 DEF NotesDense, Numbered, NotesOf
  <2>4. ASSUME NEW l \in Lead, ProposePlan(l) PROVE NotesDense' /\ Numbered'
    BY <2>3, <2>4 DEF ProposePlan, ReadLatest, FindActive, LockRow, InsertPlan, CommitPlan,
                      PlanRaced, Return, Goto, IInv, TypeOK
  <2>5. ASSUME NEW l \in Lead, NoteRaced(l) \/ ToolRaises(l) PROVE NotesDense' /\ Numbered'
    BY <2>3, <2>5 DEF NoteRaced, ToolRaises, Return, Goto, IInv, TypeOK
  <2>6. ASSUME NEW l \in Lead, NEW k \in Key, Resolve(l, k) PROVE NotesDense' /\ Numbered'
    BY <2>3, <2>6 DEF Resolve, Goto, IInv, TypeOK
  <2>7. ASSUME NEW r \in Request, AbortPlan(r) PROVE NotesDense' /\ Numbered'
    BY <2>3, <2>7 DEF AbortPlan, AbortRead, AbortUpdate, AbortCommit, lead
  <2>8. CASE UNCHANGED vars
    BY <2>3, <2>8 DEF vars, lead
  <2>9. QED
    BY <2>1, <2>2, <2>4, <2>5, <2>6, <2>7, <2>8 DEF Next, WriteMemory
<1>3. QED
  BY <1>1, <1>2, Inductive, PTL DEF Spec
=============================================================================
