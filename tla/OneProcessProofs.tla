--------------------------- MODULE OneProcessProofs ---------------------------
(***************************************************************************)
(* Proofs about the guard of start_lead_turn, for every number of          *)
(* requests, threads, turns, crashes and restarts.  Two processes pass it  *)
(* together; one process cannot, because its event loop runs a handler     *)
(* from the guard to the INSERT without a break.  So, on any number of     *)
(* processes, each has at most one running turn on a thread; on one, the   *)
(* pipeline is the log its specification promises.                         *)
(***************************************************************************)
EXTENDS LeadTurnProofs, WellFoundedInduction

OneProcess == \E i \in Instance : Instance = {i}

-----------------------------------------------------------------------------
(* The event loop of each process, of any number of them                   *)

\* What runs, runs on a process that is up; a process is in one handler at a
\* time, and in no task's synchronous code meanwhile.
LoopInv ==
    /\ \A t \in Turn : taskPc[t] \in TaskSyncPc \cup {"stream"} => taskInst[t] \in up
    /\ \A c \in Conn : pc[c] \in HandlerPc => inst[c] \in up
    /\ \A c, d \in Conn :
          pc[c] \in HandlerPc /\ pc[d] \in HandlerPc /\ inst[c] = inst[d] => c = d
    /\ \A c \in Conn, t \in Turn :
          pc[c] \in HandlerPc /\ taskPc[t] \in TaskSyncPc => taskInst[t] # inst[c]

LEMMA LoopInit == Init => LoopInv
  BY DEF Init, LoopInv, HandlerPc, TaskSyncPc

\* A step that leaves the processes and the tasks alone and takes no request
\* into a handler.
LEMMA LoopKeeps ==
  ASSUME LoopInv, UNCHANGED <<up, taskPc, taskInst>>,
         \A c \in Conn : pc'[c] \in HandlerPc => pc[c] \in HandlerPc /\ inst'[c] = inst[c]
  PROVE  LoopInv'
  BY DEF LoopInv

\* A step of one task that takes the loop only when it is free.
LEMMA LoopTask ==
  ASSUME TypeOK, LoopInv, NEW t \in Turn, NEW to \in TaskPc, TaskMove(t, to),
         UNCHANGED <<up, taskInst, pc, inst>>,
         taskPc[t] \in TaskSyncPc \cup {"stream"},
         taskPc[t] \in TaskSyncPc \/ to \notin TaskSyncPc \/ LoopFree(taskInst[t])
  PROVE  LoopInv'
  <1>1. \A u \in Turn : taskPc'[u] = IF u = t THEN to ELSE taskPc[u]
    BY DEF TaskMove, TypeOK
  <1>2. \A u \in Turn : taskPc'[u] \in TaskSyncPc \cup {"stream"} => taskInst'[u] \in up'
    BY <1>1 DEF LoopInv
  <1>3. ASSUME NEW c \in Conn, NEW u \in Turn, pc[c] \in HandlerPc, taskPc'[u] \in TaskSyncPc
        PROVE  taskInst[u] # inst[c]
    <2>1. CASE u # t \/ taskPc[u] \in TaskSyncPc
      BY <1>1, <1>3, <2>1 DEF LoopInv
    <2>2. CASE u = t /\ LoopFree(taskInst[t])
      BY <1>3, <2>2 DEF LoopFree
    <2> QED
      BY <1>1, <1>3, <2>1, <2>2
  <1> QED
    BY <1>2, <1>3 DEF LoopInv

LEMMA LoopNext ==
  ASSUME TypeOK, LoopInv, [Next]_vars
  PROVE  LoopInv'
  <1>1. ASSUME NEW c \in Conn, NEW i \in Instance, NEW th \in Thread, Submit(c, i, th)
        PROVE  LoopInv'
    <2>1. /\ \A d \in Conn : d # c => pc'[d] = pc[d] /\ inst'[d] = inst[d]
          /\ pc'[c] = "append" /\ inst'[c] = i /\ LoopFree(i)
          /\ UNCHANGED <<up, taskPc, taskInst>>
      BY <1>1 DEF Submit, Move, TypeOK, tasks, taskData, env
    <2> QED
      BY <2>1 DEF LoopInv, LoopFree
  <1>2. ASSUME NEW c \in Conn, NEW i \in Instance, NEW th \in Thread, TailNotFound(c, i, th)
        PROVE  LoopInv'
    BY <1>2, LoopKeeps DEF TailNotFound, Move, TypeOK, HandlerPc, tasks, taskData, request, env
  <1>3. ASSUME NEW c \in Conn, NEW i \in Instance, NEW th \in Thread,
               NEW seq \in FromSeq, OpenTail(c, i, th, seq)
        PROVE  LoopInv'
    BY <1>3, LoopKeeps DEF OpenTail, Move, TypeOK, HandlerPc, tasks, taskData, env
  <1>4. ASSUME NEW c \in Conn, AppendUser(c)
        PROVE  LoopInv'
    BY <1>4, LoopKeeps DEF AppendUser, StoreUser, Move, TypeOK, HandlerPc, tasks, taskData, request, env
  <1>5. ASSUME NEW c \in Conn, JoinRunning(c)
        PROVE  LoopInv'
    BY <1>5, LoopKeeps DEF JoinRunning, Move, TypeOK, HandlerPc, tasks, taskData, env
  <1>6. ASSUME NEW c \in Conn, PassGuard(c)
        PROVE  LoopInv'
    BY <1>6, LoopKeeps DEF PassGuard, Move, TypeOK, HandlerPc, tasks, taskData, request, env
  <1>7. ASSUME NEW c \in Conn, CreateTurn(c)
        PROVE  LoopInv'
    <2>1. PICK t \in Turn :
            /\ TaskMove(t, "stream")
            /\ taskInst' = [taskInst EXCEPT ![t] = inst[c]]
      BY <1>7 DEF CreateTurn, OpenTurn
    <2>2. /\ \A u \in Turn : /\ taskPc'[u] = IF u = t THEN "stream" ELSE taskPc[u]
                             /\ taskInst'[u] = IF u = t THEN inst[c] ELSE taskInst[u]
          /\ pc[c] = "create"
          /\ \A d \in Conn : pc'[d] = IF d = c THEN "fetch" ELSE pc[d]
          /\ UNCHANGED <<up, inst>>
      BY <1>7, <2>1 DEF CreateTurn, Move, TaskMove, TypeOK, env
    <2> QED
      BY <2>2 DEF LoopInv, HandlerPc, TaskSyncPc
  <1>8. ASSUME NEW c \in Conn, HandlerRaises(c)
        PROVE  LoopInv'
    BY <1>8, LoopKeeps DEF HandlerRaises, Fault, Move, TypeOK, HandlerPc, tasks, taskData, request
  <1>9. ASSUME NEW c \in Conn, Fetch(c) \/ Emit(c) \/ CheckStatus(c) \/ Disconnect(c)
        PROVE  LoopInv'
    <2>1. UNCHANGED <<up, taskPc, taskInst, inst>>
      BY <1>9 DEF Fetch, Emit, CheckStatus, Disconnect, tasks, taskData, request, env
    <2>2. \A d \in Conn : pc'[d] = pc[d] \/ pc'[d] \in {"fetch", "emit", "ended", "gone"}
      BY <1>9 DEF Fetch, Emit, CheckStatus, AfterTerminal, Disconnect, Move, TypeOK
    <2> QED
      BY <2>1, <2>2, LoopKeeps DEF HandlerPc
  <1>10. ASSUME NEW t \in Turn, BeginInsert(t)
         PROVE  LoopInv'
    BY <1>10, LoopTask DEF BeginInsert, TaskPc, conns, request, env
  <1>11. ASSUME NEW t \in Turn, CommitInsert(t)
         PROVE  LoopInv'
    BY <1>11, LoopTask DEF CommitInsert, TaskPc, TaskSyncPc, taskData, conns, request, env
  <1>12. ASSUME NEW t \in Turn, LoseInsertAck(t)
         PROVE  LoopInv'
    BY <1>12, LoopTask DEF LoseInsertAck, Fault, TaskPc, TaskSyncPc, taskData, conns, request
  <1>13. ASSUME NEW t \in Turn, StreamEnds(t)
         PROVE  LoopInv'
    BY <1>13, LoopTask DEF StreamEnds, TaskPc, conns, request, env
  <1>14. ASSUME NEW t \in Turn, MarkComplete(t)
         PROVE  LoopInv'
    BY <1>14, LoopTask DEF MarkComplete, TaskPc, TaskSyncPc, taskData, conns, request, env
  <1>15. ASSUME NEW t \in Turn, LoseMarkAck(t)
         PROVE  LoopInv'
    BY <1>15, LoopTask DEF LoseMarkAck, Fault, TaskPc, TaskSyncPc, taskData, conns, request
  <1>16. ASSUME NEW t \in Turn, TaskRaises(t)
         PROVE  LoopInv'
    BY <1>16, LoopTask DEF TaskRaises, Fault, TaskPc, TaskSyncPc, taskData, conns, request
  <1>17. ASSUME NEW t \in Turn, MarkFailed(t)
         PROVE  LoopInv'
    BY <1>17, LoopTask DEF MarkFailed, TaskPc, TaskSyncPc, taskData, conns, request, env
  <1>18. ASSUME NEW t \in Turn, MarkFailedRaises(t)
         PROVE  LoopInv'
    BY <1>18, LoopTask DEF MarkFailedRaises, Fault, TaskPc, TaskSyncPc, taskData, conns, request
  <1>19. ASSUME NEW t \in Turn, Age(t)
         PROVE  LoopInv'
    BY <1>19, LoopKeeps DEF Age, tasks, taskData, conns, request
  <1>20. ASSUME NEW i \in Instance, Start(i)
         PROVE  LoopInv'
    BY <1>20 DEF Start, LoopInv, tasks, taskData, conns, request
  <1>21. ASSUME NEW i \in Instance, Crash(i)
         PROVE  LoopInv'
    <2>1. /\ \A t \in Turn : taskPc'[t] = IF /\ taskInst[t] = i
                                             /\ taskPc[t] \in TaskSyncPc \cup {"stream"}
                                          THEN "dead" ELSE taskPc[t]
          /\ \A c \in Conn : pc'[c] = IF inst[c] = i /\ pc[c] \in HandlerPc \cup TailPc
                                      THEN "gone" ELSE pc[c]
          /\ up' = up \ {i}
          /\ UNCHANGED <<taskInst, inst>>
      BY <1>21 DEF Crash, taskData, request
    <2> QED
      BY <2>1 DEF LoopInv, HandlerPc, TaskSyncPc
  <1>22. ASSUME NEW c \in Conn, LoseAppendAck(c)
         PROVE  LoopInv'
    BY <1>22, LoopKeeps DEF LoseAppendAck, Fault, Move, TypeOK, HandlerPc, tasks, taskData, request
  <1>23. ASSUME NEW c \in Conn, LoseCreateAck(c)
         PROVE  LoopInv'
    <2>1. PICK t \in Turn : taskInst' = [taskInst EXCEPT ![t] = inst[c]]
      BY <1>23 DEF LoseCreateAck, OpenTurn
    <2>2. /\ \A u \in Turn : taskInst'[u] = IF u = t THEN inst[c] ELSE taskInst[u]
          /\ pc[c] = "create"
          /\ \A d \in Conn : pc'[d] = IF d = c THEN "error" ELSE pc[d]
          /\ UNCHANGED <<up, inst, taskPc>>
      BY <1>23, <2>1 DEF LoseCreateAck, Fault, Move, TypeOK, request
    <2> QED
      BY <2>2 DEF LoopInv, HandlerPc, TaskSyncPc
  <1>24. ASSUME NEW t \in Turn, LoseFailAck(t)
         PROVE  LoopInv'
    BY <1>24, LoopTask DEF LoseFailAck, Fault, TaskPc, TaskSyncPc, taskData, conns, request
  <1>25. CASE UNCHANGED vars
    BY <1>25, LoopKeeps DEF vars, tasks, taskData, conns, request, env
  <1> QED
    BY <1>1, <1>2, <1>3, <1>4, <1>5, <1>6, <1>7, <1>8, <1>9, <1>10, <1>11, <1>12, <1>13,
       <1>14, <1>15, <1>16, <1>17, <1>18, <1>19, <1>20, <1>21, <1>22,
       <1>23, <1>24, <1>25
       DEF Next, Post, RaisingPost, TailTurn, DrainLeadTurn, RaisingCall

-----------------------------------------------------------------------------
(* The guard, on any number of processes                                   *)

\* A handler past the guard has seen every running turn its own process
\* started on the thread, for until its INSERT the process starts no other.
GuardInv ==
    \A c \in Conn, t \in Turn :
        pc[c] = "create" /\ status[t] = "running" /\ owner[t] = thread[c]
            => taskInst[t] # inst[c]

GuardLoopInv == TypeOK /\ LoopInv /\ GuardInv /\ OneRunningPerProcess

\* A step that starts no turn and takes no request past the guard.
LEMMA GuardKeeps ==
  ASSUME GuardInv, OneRunningPerProcess, UNCHANGED <<owner, taskInst>>,
         \A t \in Turn : status'[t] = "running" => status[t] = "running",
         \A c \in Conn : pc'[c] = "create" =>
             pc[c] = "create" /\ inst'[c] = inst[c] /\ thread'[c] = thread[c]
  PROVE  (GuardInv /\ OneRunningPerProcess)'
  BY DEF GuardInv, OneRunningPerProcess

\* A step that touches neither turn_state nor the tasks' processes, and moves
\* one request to a place other than the INSERT of a turn.
LEMMA GuardRequest ==
  ASSUME TypeOK, GuardInv, OneRunningPerProcess, UNCHANGED <<status, owner, taskInst>>,
         NEW c \in Conn, NEW to, to # "create", Move(c, to),
         \A d \in Conn \ {c} : inst'[d] = inst[d] /\ thread'[d] = thread[d]
  PROVE  (GuardInv /\ OneRunningPerProcess)'
  BY GuardKeeps DEF Move, TypeOK

LEMMA GuardCreate ==
  ASSUME TypeOK, LoopInv, GuardInv, OneRunningPerProcess, NEW c \in Conn,
         CreateTurn(c) \/ LoseCreateAck(c)
  PROVE  (GuardInv /\ OneRunningPerProcess)'
  <1>0. PICK t \in Turn : OpenTurn(c, t)
    BY DEF CreateTurn, LoseCreateAck
  <1>1. /\ \A u \in Turn : /\ status'[u] = IF u = t THEN "running" ELSE status[u]
                           /\ owner'[u] = IF u = t THEN thread[c] ELSE owner[u]
                           /\ taskInst'[u] = IF u = t THEN inst[c] ELSE taskInst[u]
        /\ pc[c] = "create"
        /\ \A d \in Conn : d # c => pc'[d] = pc[d]
        /\ pc'[c] # "create"
        /\ UNCHANGED <<inst, thread>>
    <2>1. /\ status \in [Turn -> Status]
          /\ owner \in [Turn -> Thread \cup {None}]
          /\ taskInst \in [Turn -> Instance \cup {None}]
      BY DEF TypeOK
    <2>2. \A u \in Turn : /\ status'[u] = IF u = t THEN "running" ELSE status[u]
                          /\ owner'[u] = IF u = t THEN thread[c] ELSE owner[u]
                          /\ taskInst'[u] = IF u = t THEN inst[c] ELSE taskInst[u]
      BY <1>0, <2>1 DEF OpenTurn
    <2>3. /\ pc[c] = "create"
          /\ \A d \in Conn : d # c => pc'[d] = pc[d]
          /\ pc'[c] # "create"
          /\ UNCHANGED <<inst, thread>>
      BY DEF CreateTurn, LoseCreateAck, Move, TypeOK, request
    <2> QED
      BY <2>2, <2>3
  <1>2. \A d \in Conn : pc'[d] = "create" => pc[d] = "create" /\ d # c /\ inst[d] # inst[c]
    BY <1>1 DEF LoopInv, HandlerPc
  <1>3. GuardInv'
    BY <1>1, <1>2 DEF GuardInv
  <1>4. \A u \in Turn : u # t /\ status[u] = "running" /\ owner[u] = thread[c]
                           => taskInst[u] # inst[c]
    BY <1>1 DEF GuardInv
  <1>5. OneRunningPerProcess'
    BY <1>1, <1>4 DEF OneRunningPerProcess
  <1> QED
    BY <1>3, <1>5

\* A thread with a running turn has a last one, which get_running_for_thread
\* returns.
LEMMA LastRunning ==
  ASSUME NEW th, Running(th) # {}
  PROVE  \E t \in Turn : GetRunning(th, t)
  <1> DEFINE R == {ss \in Nat \X Nat : ss[1] < ss[2]}
             T == {MaxTurns - u : u \in Running(th)}
  <1>1. Running(th) \subseteq Turn
    BY DEF Running
  <1>2. T \subseteq Nat /\ T # {}
    BY <1>1, ConstantsAssumption DEF Turn
  <1>3. PICK m \in T : \A n \in T : <<n, m>> \notin R
    <2>1. IsWellFoundedOn(R, Nat)
      BY NatLessThanWellFounded DEF OpToRel
    <2> HIDE DEF R, T
    <2> QED
      BY <1>2, <2>1, WFMin
  <1>4. PICK t \in Running(th) : m = MaxTurns - t
    BY <1>3
  <1>5. ASSUME NEW u \in Running(th) PROVE u <= t
    <2>1. MaxTurns - u \in T
      OBVIOUS
    <2>2. <<MaxTurns - u, m>> \in Nat \X Nat
      BY <1>2, <2>1
    <2>3. ~ (MaxTurns - u < m)
      BY <1>3, <2>1, <2>2
    <2> QED
      BY <1>1, <1>4, <2>3, ConstantsAssumption DEF Turn
  <1> QED
    BY <1>1, <1>5 DEF GetRunning

LEMMA GuardPass ==
  ASSUME TypeOK, GuardInv, OneRunningPerProcess, NEW c \in Conn, PassGuard(c)
  PROVE  (GuardInv /\ OneRunningPerProcess)'
  <1>1. \A t \in Turn : ~ (status[t] = "running" /\ owner[t] = thread[c])
    BY LastRunning DEF PassGuard, Running
  <1>2. /\ UNCHANGED <<status, owner, taskInst, inst, thread>>
        /\ \A d \in Conn \ {c} : pc'[d] = pc[d]
    BY DEF PassGuard, Move, TypeOK, turnState, tasks, taskData, request
  <1>3. GuardInv'
    BY <1>1, <1>2 DEF GuardInv
  <1>4. OneRunningPerProcess'
    BY <1>2 DEF OneRunningPerProcess
  <1> QED
    BY <1>3, <1>4

LEMMA GuardNext ==
  ASSUME TypeOK, LoopInv, GuardInv, OneRunningPerProcess, [Next]_vars
  PROVE  (GuardInv /\ OneRunningPerProcess)'
  <1> USE DEF turnState, tasks, taskData, request
  <1>1. ASSUME NEW c \in Conn, NEW i \in Instance, NEW th \in Thread,
               \/ Submit(c, i, th) \/ TailNotFound(c, i, th)
               \/ \E seq \in FromSeq : OpenTail(c, i, th, seq)
        PROVE  (GuardInv /\ OneRunningPerProcess)'
    <2>1. CASE Submit(c, i, th)
      <3>1. /\ UNCHANGED <<status, owner, taskInst>> /\ Move(c, "append")
            /\ \A d \in Conn \ {c} : inst'[d] = inst[d] /\ thread'[d] = thread[d]
        BY <2>1 DEF Submit, TypeOK
      <3> QED
        BY <3>1, GuardRequest
    <2>2. CASE TailNotFound(c, i, th)
      BY <2>2, GuardRequest DEF TailNotFound
    <2>3. CASE \E seq \in FromSeq : OpenTail(c, i, th, seq)
      <3>1. /\ UNCHANGED <<status, owner, taskInst>> /\ Move(c, "fetch")
            /\ \A d \in Conn \ {c} : inst'[d] = inst[d] /\ thread'[d] = thread[d]
        BY <2>3 DEF OpenTail, TypeOK
      <3> QED
        BY <3>1, GuardRequest
    <2> QED
      BY <1>1, <2>1, <2>2, <2>3
  <1>2. ASSUME NEW c \in Conn, AppendUser(c) \/ LoseAppendAck(c) \/ JoinRunning(c)
                                \/ HandlerRaises(c)
        PROVE  (GuardInv /\ OneRunningPerProcess)'
    <2>1. CASE AppendUser(c)
      BY <2>1, GuardRequest DEF AppendUser
    <2>2. CASE JoinRunning(c)
      BY <2>2, GuardRequest DEF JoinRunning
    <2>3. CASE HandlerRaises(c)
      BY <2>3, GuardRequest DEF HandlerRaises
    <2>4. CASE LoseAppendAck(c)
      BY <2>4, GuardRequest DEF LoseAppendAck
    <2> QED
      BY <1>2, <2>1, <2>2, <2>3, <2>4
  <1>3. ASSUME NEW c \in Conn, TailTurn(c) \/ Disconnect(c)
        PROVE  (GuardInv /\ OneRunningPerProcess)'
    <2>1. UNCHANGED <<status, owner, taskInst, inst, thread>>
      BY <1>3 DEF TailTurn, Fetch, Emit, CheckStatus, Disconnect
    <2>2. \A d \in Conn : pc'[d] = pc[d] \/ pc'[d] \in {"fetch", "emit", "ended", "gone"}
      BY <1>3 DEF TailTurn, Fetch, Emit, CheckStatus, AfterTerminal, Disconnect, Move, TypeOK
    <2> QED
      BY <2>1, <2>2, GuardKeeps
  <1>4. ASSUME NEW t \in Turn, DrainLeadTurn(t) \/ RaisingCall(t) \/ Age(t)
        PROVE  (GuardInv /\ OneRunningPerProcess)'
    <2>1. UNCHANGED <<owner, taskInst, pc, inst, thread>>
      BY <1>4 DEF DrainLeadTurn, RaisingCall, BeginInsert, CommitInsert, StreamEnds,
         MarkComplete, MarkFailed, LoseInsertAck, LoseMarkAck, TaskRaises, MarkFailedRaises,
         LoseFailAck, Age, SetComplete, SetFailed, conns
    <2>2. \A u \in Turn : status'[u] = "running" => status[u] = "running"
      BY <1>4 DEF DrainLeadTurn, RaisingCall, BeginInsert, CommitInsert, StreamEnds,
         MarkComplete, MarkFailed, LoseInsertAck, LoseMarkAck, TaskRaises, MarkFailedRaises,
         LoseFailAck, Age, SetComplete, SetFailed, TypeOK
    <2> QED
      BY <2>1, <2>2, GuardKeeps
  <1>5. ASSUME NEW i \in Instance, Start(i) \/ Crash(i)
        PROVE  (GuardInv /\ OneRunningPerProcess)'
    <2>1. UNCHANGED <<owner, taskInst, inst, thread>>
      BY <1>5 DEF Start, Crash, conns
    <2>2. \A u \in Turn : status'[u] = "running" => status[u] = "running"
      BY <1>5 DEF Start, Crash
    <2>3. \A d \in Conn : pc'[d] = "create" => pc[d] = "create"
      BY <1>5 DEF Start, Crash, conns
    <2> QED
      BY <2>1, <2>2, <2>3, GuardKeeps
  <1>6. CASE UNCHANGED vars
    BY <1>6, GuardKeeps DEF vars, conns
  <1> QED
    BY <1>1, <1>2, <1>3, <1>4, <1>5, <1>6, GuardCreate, GuardPass DEF Next, Post, RaisingPost

\* The double-submit guard on any number of processes: no process ever starts
\* a second turn on a thread while one it started there is running, so two
\* turns that run at once on a thread come from a POST on each of two
\* processes.
THEOREM OneTurnPerProcess == Spec => []OneRunningPerProcess
  <1>1. Init => GuardLoopInv
    <2>1. Init => GuardInv /\ OneRunningPerProcess
      BY DEF Init, GuardInv, OneRunningPerProcess
    <2> QED
      BY <2>1, TypeInit, LoopInit DEF GuardLoopInv
  <1>2. GuardLoopInv /\ [Next]_vars => GuardLoopInv'
    BY TypeNext, LoopNext, GuardNext DEF GuardLoopInv
  <1>3. GuardLoopInv => OneRunningPerProcess
    BY DEF GuardLoopInv
  <1> QED
    BY <1>1, <1>2, <1>3, PTL DEF Spec

-----------------------------------------------------------------------------
(* What one event loop makes of the tables                                 *)

AbsentIsEmpty ==
    \A t \in Turn : status[t] = "absent" =>
        SeqsOf(t) = {} /\ owner[t] = None /\ taskPc[t] = "none"

StartedInOrder == \A t, u \in Turn : u < t /\ status[t] # "absent" => status[u] # "absent"

RowsOfOwner == \A t \in Turn : SeqsOf(t) \subseteq ThreadSeqs(owner[t])

\* A turn that has left 'running' has no writer: a sweep finds no live task,
\* because it runs before the only process starts one.
Quiet == \A t \in Turn : status[t] \in Terminal => taskPc[t] \notin {"stream", "insert", "mark"}

\* A turn starts when every earlier turn of its thread has left 'running'.
EarlierSettled ==
    \A t, u \in Turn :
        u < t /\ status[t] # "absent" /\ owner[u] = owner[t] => status[u] \in Terminal

TableInv ==
    /\ AbsentIsEmpty
    /\ StartedInOrder
    /\ RowsOfOwner
    /\ Quiet
    /\ EarlierSettled
    /\ HistorySeesEarlierTurns

\* What a handler has read is still true when it acts on it.
HandlerInv(c) ==
    /\ pc[c] = "create" => \A t \in Turn : status[t] = "running" => owner[t] # thread[c]
    /\ pc[c] \in HandlerPc =>
          \A u \in Turn : owner[u] = thread[c] =>
              \A s \in SeqsOf(u) : Covers(hist[c], s)

\* The batch fetched after the flip is the rest of the turn.
BatchInv(c) ==
    pc[c] = "emit" /\ flip[c] => FetchSince(turn[c], cursor[c]) \subseteq batch[c]

OneLoopInv ==
    /\ TypeOK /\ PipelineInv /\ LoopInv
    /\ TableInv
    /\ \A c \in Conn : HandlerInv(c) /\ BatchInv(c)

LEMMA OneLoopInit == Init => OneLoopInv
  <1> SUFFICES ASSUME Init PROVE OneLoopInv
    OBVIOUS
  <1>1. \A t : SeqsOf(t) = {}
    BY DEF Init, SeqsOf
  <1>2. TableInv
    BY <1>1 DEF Init, TableInv, AbsentIsEmpty, StartedInOrder, RowsOfOwner, Quiet,
                EarlierSettled, HistorySeesEarlierTurns, Terminal
  <1>3. \A c \in Conn : HandlerInv(c) /\ BatchInv(c)
    BY DEF Init, HandlerInv, BatchInv, HandlerPc
  <1> QED
    BY <1>2, <1>3, TypeInit, PipelineInit, LoopInit DEF OneLoopInv

\* While a task is in synchronous code or a handler runs, no handler, or no
\* other, runs on the same loop.
LEMMA OneLoop ==
  ASSUME OneProcess, TypeOK, LoopInv
  PROVE  /\ \A t \in Turn : taskPc[t] \in TaskSyncPc =>
                \A c \in Conn : pc[c] \notin HandlerPc
         /\ \A c, d \in Conn : pc[c] \in HandlerPc /\ pc[d] \in HandlerPc => c = d
         /\ \A i \in Instance : i \notin up =>
                /\ \A t \in Turn : taskPc[t] \notin TaskSyncPc \cup {"stream"}
                /\ \A c \in Conn : pc[c] \notin HandlerPc
  BY DEF OneProcess, TypeOK, LoopInv

LEMMA ThreadRowsKept ==
  ASSUME rows \subseteq rows'
  PROVE  \A th : ThreadSeqs(th) \subseteq ThreadSeqs(th)'
  BY DEF ThreadSeqs

\* Steps that only move tasks, or none.
LEMMA TableKeeps ==
  ASSUME TableInv, UNCHANGED <<status, owner, taskHist>>, rows \subseteq rows',
         \A t \in Turn : SeqsOf(t)' = SeqsOf(t),
         \A t \in Turn : \/ taskPc'[t] = taskPc[t]
                         \/ taskPc[t] \in {"stream", "insert", "mark"}
                         \/ taskPc[t] # "none" /\ taskPc'[t] \in {"done", "dead"}
  PROVE  TableInv'
  <1>1. AbsentIsEmpty'
    BY DEF TableInv, AbsentIsEmpty
  <1>2. RowsOfOwner'
    BY ThreadRowsKept DEF TableInv, RowsOfOwner
  <1>3. Quiet'
    BY DEF TableInv, Quiet
  <1>4. StartedInOrder' /\ EarlierSettled' /\ HistorySeesEarlierTurns'
    BY DEF TableInv, StartedInOrder, EarlierSettled, HistorySeesEarlierTurns
  <1> QED
    BY <1>1, <1>2, <1>3, <1>4 DEF TableInv

\* A turn that leaves 'running' with a task that writes no more.
LEMMA TableSettles ==
  ASSUME TypeOK, TableInv, UNCHANGED <<owner, taskHist, rows>>,
         \A t \in Turn : \/ status'[t] = status[t]
                         \/ /\ status[t] = "running" /\ status'[t] \in Terminal
                            /\ taskPc'[t] \notin {"stream", "insert", "mark"},
         \A t \in Turn : \/ taskPc'[t] = taskPc[t]
                         \/ /\ taskPc[t] # "none"
                            /\ taskPc'[t] \notin {"stream", "insert", "mark"}
  PROVE  TableInv'
  <1>1. \A t : SeqsOf(t)' = SeqsOf(t) /\ ThreadSeqs(t)' = ThreadSeqs(t)
    BY DEF SeqsOf, ThreadSeqs
  <1>2. \A t \in Turn : /\ status'[t] = "absent" <=> status[t] = "absent"
                        /\ status[t] \in Terminal => status'[t] \in Terminal
    BY DEF Terminal
  <1>3. AbsentIsEmpty'
    BY <1>1, <1>2 DEF TableInv, AbsentIsEmpty
  <1>4. RowsOfOwner'
    BY <1>1 DEF TableInv, RowsOfOwner
  <1>5. Quiet'
    BY DEF TableInv, Quiet
  <1>6. StartedInOrder' /\ EarlierSettled' /\ HistorySeesEarlierTurns'
    BY <1>1, <1>2 DEF TableInv, StartedInOrder, EarlierSettled, HistorySeesEarlierTurns
  <1> QED
    BY <1>3, <1>4, <1>5, <1>6 DEF TableInv

LEMMA BatchKeeps ==
  ASSUME NEW c \in Conn, BatchInv(c),
         \/ pc'[c] # "emit"
         \/ /\ UNCHANGED <<pc[c], turn[c], cursor[c], flip[c], batch[c]>>
            /\ SeqsOf(turn[c])' = SeqsOf(turn[c])
  PROVE  BatchInv(c)'
  BY DEF BatchInv, FetchSince

OneLoopRest == TableInv /\ \A c \in Conn : HandlerInv(c) /\ BatchInv(c)

\* Steps of a request that leave the tables alone.
LEMMA RequestStep ==
  ASSUME OneLoopInv, UNCHANGED <<turnState, rows, taskPc, taskHist>>, NEW c \in Conn,
         \A d \in Conn : d # c =>
            UNCHANGED <<pc[d], thread[d], hist[d], turn[d], cursor[d], flip[d], batch[d]>>,
         HandlerInv(c)' /\ BatchInv(c)'
  PROVE  OneLoopRest'
  <1>1. UNCHANGED <<status, owner>> /\ \A t : SeqsOf(t)' = SeqsOf(t)
    BY DEF turnState, SeqsOf
  <1>2. TableInv'
    BY <1>1, TableKeeps DEF OneLoopInv
  <1>3. ASSUME NEW d \in Conn, d # c PROVE HandlerInv(d)' /\ BatchInv(d)'
    <2>1. HandlerInv(d) /\ BatchInv(d)
      BY DEF OneLoopInv
    <2>2. /\ pc'[d] = pc[d] /\ thread'[d] = thread[d] /\ hist'[d] = hist[d]
          /\ turn'[d] = turn[d] /\ cursor'[d] = cursor[d]
          /\ flip'[d] = flip[d] /\ batch'[d] = batch[d]
      BY <1>3
    <2>3. HandlerInv(d)'
      BY <1>1, <2>1, <2>2 DEF HandlerInv
    <2>4. BatchInv(d)'
      BY <1>1, <2>1, <2>2 DEF BatchInv, FetchSince
    <2> QED
      BY <2>3, <2>4
  <1> QED
    BY <1>2, <1>3 DEF OneLoopRest

\* A request enters the handler.
LEMMA SubmitStep ==
  ASSUME OneLoopInv, NEW c \in Conn, NEW i \in Instance, NEW th \in Thread, Submit(c, i, th)
  PROVE  OneLoopRest'
  <1>1. /\ UNCHANGED <<turnState, rows, taskPc, taskHist, turn, cursor, flip, batch>>
        /\ \A d \in Conn : d # c => UNCHANGED <<pc[d], thread[d], hist[d]>>
        /\ pc'[c] = "append" /\ thread'[c] = th
        /\ LatestMessages(ThreadSeqs(th), hist'[c])
    BY DEF Submit, Move, OneLoopInv, TypeOK, messages, tasks, taskData, tailVars
  <1>2. UNCHANGED owner /\ \A t : SeqsOf(t)' = SeqsOf(t)
    BY <1>1 DEF turnState, SeqsOf
  <1>3. ASSUME NEW s \in ThreadSeqs(th) PROVE Covers(hist'[c], s)
    BY <1>1 DEF LatestMessages, Covers
  <1>4. HandlerInv(c)' /\ BatchInv(c)'
    BY <1>1, <1>2, <1>3 DEF HandlerInv, BatchInv, OneLoopInv, TableInv, RowsOfOwner, Covers
  <1> QED
    BY <1>1, <1>4, RequestStep

\* A row of the user's belongs to no turn.
LEMMA AppendUserStep ==
  ASSUME OneLoopInv, NEW c \in Conn, AppendUser(c) \/ LoseAppendAck(c)
  PROVE  OneLoopRest'
  <1>1. /\ UNCHANGED <<status, owner, taskPc, taskHist, thread, hist, turn, cursor, flip, batch>>
        /\ \A d \in Conn : d # c => pc'[d] = pc[d]
        /\ pc'[c] \in {"guard", "error"}
        /\ rows \subseteq rows' /\ pc[c] = "append"
    BY DEF AppendUser, LoseAppendAck, StoreUser, Move, OneLoopInv, TypeOK, turnState, tasks, taskData, request, tailVars
  <1>2. \A t \in Turn : SeqsOf(t)' = SeqsOf(t)
    <2>1. \A t \in Turn : t # NoTurn
      BY DEF Turn, NoTurn
    <2> QED
      BY <2>1, RowAdded DEF AppendUser, LoseAppendAck, StoreUser
  <1>3. TableInv'
    BY <1>1, <1>2, TableKeeps DEF OneLoopInv
  <1>4. ASSUME NEW d \in Conn PROVE HandlerInv(d)'
    <2>1. HandlerInv(d)
      BY DEF OneLoopInv
    <2> QED
      BY <1>1, <1>2, <2>1 DEF HandlerInv, HandlerPc
  <1>5. ASSUME NEW d \in Conn PROVE BatchInv(d)'
    <2>1. CASE d = c
      BY <1>1, <2>1 DEF BatchInv
    <2>2. CASE d # c /\ turn[d] \in Turn
      BY <1>1, <1>2, <2>2, BatchKeeps DEF OneLoopInv
    <2>3. CASE d # c /\ turn[d] = NoTurn
      <3>1. pc[d] \notin TailPc
        BY <2>3 DEF OneLoopInv, PipelineInv, ReaderInv
      <3> QED
        BY <1>1, <2>3, <3>1 DEF BatchInv, TailPc
    <2> QED
      BY <2>1, <2>2, <2>3 DEF OneLoopInv, TypeOK
  <1> QED
    BY <1>3, <1>4, <1>5 DEF OneLoopRest

\* The guard: one turn at most runs on a thread, so get_running_for_thread
\* finds nothing only where nothing runs.
LEMMA PassGuardStep ==
  ASSUME OneLoopInv, NEW c \in Conn, PassGuard(c)
  PROVE  OneLoopRest'
  <1>1. /\ UNCHANGED <<turnState, rows, taskPc, taskHist, thread, hist, turn, cursor, flip, batch>>
        /\ \A d \in Conn : d # c => pc'[d] = pc[d]
        /\ pc'[c] = "create" /\ pc[c] = "guard"
    BY DEF PassGuard, Move, OneLoopInv, TypeOK, messages, tasks, taskData, request, tailVars
  <1>2. ASSUME NEW t \in Turn, status[t] = "running", owner[t] = thread[c] PROVE FALSE
    <2>1. ASSUME NEW u \in Running(thread[c]) PROVE u <= t
      <3>1. u \in Turn /\ status[u] = "running" /\ owner[u] = owner[t]
        BY <1>2, <2>1 DEF Running
      <3>2. ~ (t < u)
        BY <1>2, <3>1 DEF OneLoopInv, TableInv, EarlierSettled, Terminal
      <3> QED
        BY <3>1, <3>2 DEF Turn
    <2>2. GetRunning(thread[c], t)
      BY <1>2, <2>1 DEF GetRunning, Running
    <2> QED
      BY <2>2 DEF PassGuard
  <1>3. UNCHANGED <<status, owner>> /\ \A t : SeqsOf(t)' = SeqsOf(t)
    BY <1>1 DEF turnState, SeqsOf
  <1>4. HandlerInv(c)
    BY DEF OneLoopInv
  <1>5. HandlerInv(c)' /\ BatchInv(c)'
    BY <1>1, <1>2, <1>3, <1>4 DEF HandlerInv, BatchInv, HandlerPc
  <1> QED
    BY <1>1, <1>5, RequestStep

\* The INSERT of a turn, on a loop that was held since the history was read.
LEMMA CreateTurnStep ==
  ASSUME OneProcess, OneLoopInv, NEW c \in Conn, CreateTurn(c) \/ LoseCreateAck(c)
  PROVE  OneLoopRest'
  <1>1. PICK t \in Turn :
          /\ OpenTurn(c, t)
          /\ \/ /\ TaskMove(t, "stream")
                /\ taskHist' = [taskHist EXCEPT ![t] = hist[c]]
             \/ UNCHANGED <<taskPc, taskHist>>
    BY DEF CreateTurn, LoseCreateAck
  <1>2. /\ \A u \in Turn : /\ status'[u] = IF u = t THEN "running" ELSE status[u]
                           /\ owner'[u] = IF u = t THEN thread[c] ELSE owner[u]
                           /\ u # t => taskPc'[u] = taskPc[u] /\ taskHist'[u] = taskHist[u]
        /\ \/ taskPc'[t] = "stream" /\ taskHist'[t] = hist[c]
           \/ taskPc'[t] = taskPc[t] /\ taskHist'[t] = taskHist[t]
        /\ UNCHANGED rows
    BY <1>1 DEF OpenTurn, TaskMove, OneLoopInv, TypeOK, messages
  <1>a. /\ \A d \in Conn : d # c => pc'[d] = pc[d] /\ turn'[d] = turn[d]
        /\ pc'[c] \in {"fetch", "error"}
        /\ UNCHANGED <<thread, hist, cursor, flip, batch>>
        /\ pc[c] = "create"
    BY DEF CreateTurn, LoseCreateAck, Move, OneLoopInv, TypeOK, tailVars, request
  <1>3. \A u : SeqsOf(u)' = SeqsOf(u) /\ ThreadSeqs(u)' = ThreadSeqs(u)
    BY <1>2 DEF SeqsOf, ThreadSeqs
  <1>4. /\ status[t] = "absent" /\ SeqsOf(t) = {} /\ taskPc[t] = "none"
        /\ \A u \in Turn : u < t => status[u] # "absent"
        /\ \A u \in Turn : t < u => status[u] = "absent"
    BY <1>1 DEF OpenTurn, NewTurn, OneLoopInv, TableInv, AbsentIsEmpty, StartedInOrder
  <1>5. HandlerInv(c)
    BY DEF OneLoopInv
  <1>6. ASSUME NEW u \in Turn, u < t, owner[u] = thread[c]
        PROVE  status[u] \in Terminal /\ \A s \in SeqsOf(u) : Covers(hist[c], s)
    BY <1>a, <1>4, <1>5, <1>6 DEF HandlerInv, HandlerPc, OneLoopInv, TypeOK, Status, Terminal
  <1>7. AbsentIsEmpty' /\ StartedInOrder' /\ RowsOfOwner' /\ Quiet'
    BY <1>2, <1>3, <1>4 DEF OneLoopInv, TableInv, AbsentIsEmpty, StartedInOrder, RowsOfOwner,
                            Quiet, Terminal, Turn
  <1>8. ASSUME NEW v \in Turn, NEW u \in Turn, u < v, status'[v] # "absent", owner'[u] = owner'[v]
        PROVE  /\ status'[u] \in Terminal
               /\ taskPc'[v] # "none" => \A s \in SeqsOf(u)' : Covers(taskHist[v], s)'
    <2>1. CASE v = t
      BY <1>2, <1>3, <1>4, <1>6, <1>8, <2>1 DEF Turn, Covers
    <2>2. CASE v # t
      <3>1. status[v] # "absent" /\ u # t
        BY <1>2, <1>4, <1>8, <2>2
      <3> QED
        BY <1>2, <1>3, <1>8, <2>2, <3>1
           DEF OneLoopInv, TableInv, EarlierSettled, HistorySeesEarlierTurns, Covers
    <2> QED
      BY <2>1, <2>2
  <1>9. TableInv'
    <2>1. \A v \in Turn : taskPc'[v] # "none" => status'[v] # "absent"
      BY <1>7 DEF AbsentIsEmpty
    <2> QED
      BY <1>7, <1>8, <2>1 DEF TableInv, EarlierSettled, HistorySeesEarlierTurns
  <1>10. \A d \in Conn : pc'[d] \notin HandlerPc
    BY <1>a, OneLoop DEF OneLoopInv, HandlerPc
  <1>11. ASSUME NEW d \in Conn PROVE HandlerInv(d)' /\ BatchInv(d)'
    BY <1>a, <1>3, <1>10, BatchKeeps DEF HandlerInv, OneLoopInv, HandlerPc
  <1> QED
    BY <1>9, <1>11 DEF OneLoopRest

\* The tails.
LEMMA TailStep ==
  ASSUME OneLoopInv, NEW c \in Conn, Fetch(c) \/ Emit(c) \/ CheckStatus(c) \/ Disconnect(c)
  PROVE  OneLoopRest'
  <1>1. UNCHANGED <<turnState, rows, taskPc, taskHist, thread, hist, turn>>
    BY DEF Fetch, Emit, CheckStatus, Disconnect, messages, tasks, taskData, request
  <1>2. \A d \in Conn : d # c => UNCHANGED <<pc[d], cursor[d], flip[d], batch[d]>>
    BY DEF Fetch, Emit, CheckStatus, AfterTerminal, Disconnect, Move, OneLoopInv, TypeOK, tailVars
  <1>3. pc'[c] \notin HandlerPc
    BY DEF Fetch, Emit, CheckStatus, AfterTerminal, Disconnect, Move, OneLoopInv, TypeOK, HandlerPc
  <1>4. \A t : SeqsOf(t)' = SeqsOf(t)
    BY <1>1, RowsUnchanged
  <1>5. BatchInv(c)'
    <2>1. CASE Fetch(c)
      BY <1>1, <1>4, <2>1 DEF Fetch, BatchInv, FetchSince, OneLoopInv, TypeOK
    <2>2. CASE Emit(c)
      <3>1. PICK s \in batch[c] : /\ cursor' = [cursor EXCEPT ![c] = s]
                                  /\ batch' = [batch EXCEPT ![c] = batch[c] \ {s}]
        BY <2>2 DEF Emit
      <3>2. cursor'[c] = s /\ batch'[c] = batch[c] \ {s} /\ pc[c] = "emit" /\ flip'[c] = flip[c]
        BY <2>2, <3>1 DEF Emit, OneLoopInv, TypeOK
      <3>3. s \in FetchSince(turn[c], cursor[c])
        BY DEF OneLoopInv, PipelineInv, ReaderInv
      <3>4. s \in Nat /\ cursor[c] \in Nat /\ SeqsOf(turn[c]) \subseteq Nat /\ cursor[c] < s
        BY <3>3, SeqsAreNat DEF FetchSince, OneLoopInv, TypeOK
      <3>5. BatchInv(c)
        BY DEF OneLoopInv
      <3> QED
        BY <1>1, <1>4, <3>2, <3>4, <3>5 DEF BatchInv, FetchSince
    <2>3. CASE CheckStatus(c) \/ Disconnect(c)
      <3>1. pc'[c] # "emit"
        BY <2>3 DEF CheckStatus, AfterTerminal, Disconnect, Move, OneLoopInv, TypeOK
      <3> QED
        BY <3>1 DEF BatchInv
    <2> QED
      BY <2>1, <2>2, <2>3
  <1>6. HandlerInv(c)'
    BY <1>3 DEF HandlerInv, HandlerPc
  <1> QED
    BY <1>1, <1>2, <1>5, <1>6, RequestStep

LEMMA OtherRequestStep ==
  ASSUME OneLoopInv, NEW c \in Conn,
         \/ JoinRunning(c) \/ HandlerRaises(c)
         \/ \E i \in Instance, th \in Thread :
               TailNotFound(c, i, th) \/ \E seq \in FromSeq : OpenTail(c, i, th, seq)
  PROVE  OneLoopRest'
  <1>1. /\ UNCHANGED <<turnState, rows, taskPc, taskHist>>
        /\ \A d \in Conn : d # c =>
            UNCHANGED <<pc[d], thread[d], hist[d], turn[d], cursor[d], flip[d], batch[d]>>
        /\ pc'[c] \in {"fetch", "error"}
    BY DEF JoinRunning, HandlerRaises, TailNotFound, OpenTail, Move, OneLoopInv, TypeOK,
           messages, tasks, taskData, request, tailVars
  <1>2. HandlerInv(c)' /\ BatchInv(c)'
    BY <1>1 DEF HandlerInv, BatchInv, HandlerPc
  <1> QED
    BY <1>1, <1>2, RequestStep

\* Steps of tasks and of time that write no row and no status.
LEMMA TaskMoveStep ==
  ASSUME OneLoopInv, NEW t \in Turn,
         \/ BeginInsert(t) \/ StreamEnds(t) \/ TaskRaises(t) \/ MarkFailedRaises(t) \/ Age(t)
  PROVE  OneLoopRest'
  <1>1. /\ UNCHANGED <<status, owner, rows, taskHist>>
        /\ UNCHANGED <<pc, thread, hist, turn, cursor, flip, batch>>
    BY DEF BeginInsert, StreamEnds, TaskRaises, MarkFailedRaises, Age, Fault, turnState, messages,
           tasks, taskData, conns, request, tailVars
  <1>2. \A u \in Turn : \/ taskPc'[u] = taskPc[u]
                        \/ taskPc[u] \in {"stream", "insert", "mark"}
                        \/ taskPc[u] # "none" /\ taskPc'[u] \in {"done", "dead"}
    BY DEF BeginInsert, StreamEnds, TaskRaises, MarkFailedRaises, Age, TaskMove, tasks,
           OneLoopInv, TypeOK
  <1>3. \A u : SeqsOf(u)' = SeqsOf(u)
    BY <1>1, RowsUnchanged
  <1>4. TableInv'
    BY <1>1, <1>2, <1>3, TableKeeps DEF OneLoopInv
  <1>5. ASSUME NEW c \in Conn PROVE HandlerInv(c)' /\ BatchInv(c)'
    <2>1. HandlerInv(c) /\ BatchInv(c)
      BY DEF OneLoopInv
    <2> QED
      BY <1>1, <1>3, <2>1 DEF HandlerInv, BatchInv, FetchSince
  <1> QED
    BY <1>4, <1>5 DEF OneLoopRest

\* A row is written while its turn runs, no later turn of the thread has
\* started, and no handler is between its reads and its writes.
LEMMA StoreRowStep ==
  ASSUME OneProcess, OneLoopInv, NEW t \in Turn, CommitInsert(t) \/ LoseInsertAck(t)
  PROVE  OneLoopRest'
  <1>1. /\ UNCHANGED <<status, owner, taskHist>>
        /\ UNCHANGED <<pc, thread, hist, turn, cursor, flip, batch>>
        /\ taskPc[t] = "insert" /\ StoreRow(t)
    BY DEF CommitInsert, LoseInsertAck, Fault, turnState, taskData, conns, request, tailVars
  <1>2. \A u \in Turn : \/ taskPc'[u] = taskPc[u]
                        \/ u = t /\ taskPc'[u] \in {"stream", "except"}
    BY DEF CommitInsert, LoseInsertAck, TaskMove, OneLoopInv, TypeOK
  <1>3. SeqsOf(t)' = SeqsOf(t) \cup {taskSeq[t]} /\ \A u : u # t => SeqsOf(u)' = SeqsOf(u)
    BY <1>1, RowStored
  <1>4. status[t] \notin Terminal /\ status[t] # "absent"
    BY <1>1 DEF OneLoopInv, TableInv, Quiet, AbsentIsEmpty
  <1>5. RowsOfOwner'
    <2>. DEFINE new == [seq |-> taskSeq[t], thread |-> owner[t], turn |-> t]
    <2>1. new \in rows' /\ rows \subseteq rows' /\ new.seq = taskSeq[t] /\ new.thread = owner[t]
      BY <1>1 DEF StoreRow
    <2>2. taskSeq[t] \in ThreadSeqs(owner[t])'
      BY <1>1, <2>1 DEF ThreadSeqs
    <2>3. \A th : ThreadSeqs(th) \subseteq ThreadSeqs(th)'
      BY <2>1, ThreadRowsKept
    <2> QED
      BY <1>1, <1>3, <2>2, <2>3 DEF OneLoopInv, TableInv, RowsOfOwner
  <1>6. AbsentIsEmpty'
    BY <1>1, <1>2, <1>3, <1>4 DEF OneLoopInv, TableInv, AbsentIsEmpty
  <1>7. Quiet' /\ StartedInOrder' /\ EarlierSettled'
    BY <1>1, <1>2, <1>4 DEF OneLoopInv, TableInv, Quiet, StartedInOrder, EarlierSettled
  <1>8. HistorySeesEarlierTurns'
    <2> SUFFICES ASSUME NEW v \in Turn, NEW u \in Turn, u < v, taskPc'[v] # "none",
                        owner[u] = owner[v]
                 PROVE  \A s \in SeqsOf(u)' : Covers(taskHist[v], s)
      BY <1>1 DEF HistorySeesEarlierTurns, Covers
    <2>1. taskPc[v] # "none"
      BY <1>1, <1>2
    <2>2. status[v] # "absent"
      BY <2>1 DEF OneLoopInv, TableInv, AbsentIsEmpty
    <2>3. u # t
      BY <1>4, <2>2 DEF OneLoopInv, TableInv, EarlierSettled
    <2> QED
      BY <1>3, <2>1, <2>3 DEF OneLoopInv, TableInv, HistorySeesEarlierTurns
  <1>9. \A c \in Conn : pc'[c] \notin HandlerPc
    BY <1>1, OneLoop DEF OneLoopInv, TaskSyncPc
  <1>10. ASSUME NEW c \in Conn PROVE BatchInv(c)'
    <2>1. BatchInv(c) /\ ReaderInv(c)
      BY DEF OneLoopInv, PipelineInv
    <2>2. CASE turn[c] = t
      BY <1>1, <1>4, <2>1, <2>2 DEF BatchInv, ReaderInv
    <2>3. CASE turn[c] # t
      BY <1>1, <1>3, <2>1, <2>3 DEF BatchInv, FetchSince
    <2> QED
      BY <2>2, <2>3
  <1> QED
    BY <1>5, <1>6, <1>7, <1>8, <1>9, <1>10 DEF OneLoopRest, TableInv, HandlerInv, HandlerPc

\* Steps that take turns out of 'running'.
LEMMA SettlingStep ==
  ASSUME OneLoopInv, UNCHANGED <<owner, taskHist, rows>>,
         UNCHANGED <<thread, hist, turn, cursor, flip, batch>>,
         \A c \in Conn : pc'[c] = pc[c] \/ pc'[c] = "gone",
         \A t \in Turn : \/ status'[t] = status[t]
                         \/ /\ status[t] = "running" /\ status'[t] \in Terminal
                            /\ taskPc'[t] \notin {"stream", "insert", "mark"},
         \A t \in Turn : \/ taskPc'[t] = taskPc[t]
                         \/ /\ taskPc[t] # "none"
                            /\ taskPc'[t] \notin {"stream", "insert", "mark"}
  PROVE  OneLoopRest'
  <1>1. TableInv'
    BY TableSettles DEF OneLoopInv
  <1>2. \A u : SeqsOf(u)' = SeqsOf(u)
    BY RowsUnchanged
  <1>3. \A t \in Turn : status'[t] = "running" => status[t] = "running"
    BY DEF Terminal
  <1>4. ASSUME NEW c \in Conn PROVE HandlerInv(c)' /\ BatchInv(c)'
    <2>1. HandlerInv(c) /\ BatchInv(c)
      BY DEF OneLoopInv
    <2>2. CASE pc'[c] = pc[c]
      BY <1>2, <1>3, <2>1, <2>2 DEF HandlerInv, BatchInv, FetchSince
    <2>3. CASE pc'[c] = "gone"
      BY <2>3 DEF HandlerInv, BatchInv, HandlerPc
    <2> QED
      BY <2>2, <2>3
  <1> QED
    BY <1>1, <1>4 DEF OneLoopRest

LEMMA MarkStep ==
  ASSUME OneLoopInv, NEW t \in Turn, MarkComplete(t) \/ LoseMarkAck(t) \/ MarkFailed(t)
                                   \/ LoseFailAck(t)
  PROVE  OneLoopRest'
  <1>1. /\ UNCHANGED <<rows, taskHist, conns>>
        /\ taskPc[t] \in {"mark", "except"}
        /\ SetComplete(t) \/ SetFailed(t)
        /\ TaskMove(t, "done") \/ (TaskMove(t, "except") \/ TaskMove(t, "dead"))
    BY DEF MarkComplete, LoseMarkAck, MarkFailed, LoseFailAck, messages, taskData
  <1>2. \A u \in Turn : taskPc'[u] = IF u = t THEN taskPc'[t] ELSE taskPc[u]
    BY <1>1 DEF TaskMove, OneLoopInv, TypeOK
  <1>3. taskPc'[t] \in {"done", "except", "dead"}
    BY <1>1 DEF TaskMove, OneLoopInv, TypeOK
  <1>4. /\ UNCHANGED owner
        /\ \A u \in Turn : \/ status'[u] = status[u]
                           \/ u = t /\ status[u] = "running" /\ status'[u] \in Terminal
    <2>1. CASE IsRunning(t)
      BY <1>1, <2>1 DEF SetComplete, SetFailed, IsRunning, Terminal, OneLoopInv, TypeOK
    <2>2. CASE ~ IsRunning(t)
      BY <1>1, <2>2 DEF SetComplete, SetFailed, turnState
    <2> QED
      BY <2>1, <2>2
  <1> QED
    BY <1>1, <1>2, <1>3, <1>4, SettlingStep DEF conns, request, tailVars

\* The sweep meets no live task.
LEMMA StartStep ==
  ASSUME OneProcess, OneLoopInv, NEW i \in Instance, Start(i)
  PROVE  OneLoopRest'
  <1>1. \A t \in Turn : taskPc[t] \notin TaskSyncPc \cup {"stream"}
    BY OneLoop DEF OneLoopInv, Start
  <1>2. \A t \in Turn : \/ status'[t] = status[t]
                        \/ status[t] = "running" /\ status'[t] \in Terminal
    BY DEF Start, Stale, Terminal
  <1> QED
    BY <1>1, <1>2, SettlingStep
       DEF Start, TaskSyncPc, messages, tasks, taskData, conns, request, tailVars

LEMMA CrashStep ==
  ASSUME OneLoopInv, NEW i \in Instance, Crash(i)
  PROVE  OneLoopRest'
  <1>1. \A t \in Turn : \/ taskPc'[t] = taskPc[t]
                        \/ taskPc[t] # "none" /\ taskPc'[t] = "dead"
    BY DEF Crash, TaskSyncPc
  <1>2. \A c \in Conn : pc'[c] = pc[c] \/ pc'[c] = "gone"
    BY DEF Crash
  <1> QED
    BY <1>1, <1>2, SettlingStep DEF Crash, turnState, messages, taskData, request, tailVars

LEMMA OneLoopNext ==
  ASSUME OneProcess, OneLoopInv, [Next]_vars
  PROVE  OneLoopInv'
  <1>1. TypeOK' /\ PipelineInv' /\ LoopInv'
    BY TypeNext, WriterNext, ReaderNext, LoopNext DEF OneLoopInv, PipelineInv
  <1>2. ASSUME UNCHANGED vars PROVE OneLoopRest'
    BY <1>2 DEF vars, OneLoopInv, OneLoopRest, TableInv, HandlerInv, BatchInv, AbsentIsEmpty,
       StartedInOrder, RowsOfOwner, Quiet, EarlierSettled, HistorySeesEarlierTurns, SeqsOf,
       ThreadSeqs, FetchSince, Covers, turnState, messages, tasks, taskData, conns, request, tailVars
  <1>3. ASSUME Next PROVE OneLoopRest'
    <2>1. CASE \E c \in Conn, i \in Instance, th \in Thread :
                  \/ Submit(c, i, th) \/ TailNotFound(c, i, th)
                  \/ \E seq \in FromSeq : OpenTail(c, i, th, seq)
      BY <2>1, SubmitStep, OtherRequestStep
    <2>2. CASE \E c \in Conn : Post(c) \/ RaisingPost(c) \/ TailTurn(c) \/ Disconnect(c)
      BY <2>2, AppendUserStep, PassGuardStep, CreateTurnStep, TailStep, OtherRequestStep
         DEF Post, RaisingPost, TailTurn
    <2>3. CASE \E t \in Turn : DrainLeadTurn(t) \/ RaisingCall(t) \/ Age(t)
      BY <2>3, TaskMoveStep, StoreRowStep, MarkStep DEF DrainLeadTurn, RaisingCall
    <2>4. CASE \E i \in Instance : Start(i) \/ Crash(i)
      BY <2>4, StartStep, CrashStep
    <2> QED
      BY <1>3, <2>1, <2>2, <2>3, <2>4 DEF Next
  <1>4. OneLoopRest'
    BY <1>2, <1>3
  <1> QED
    BY <1>1, <1>4 DEF OneLoopInv, OneLoopRest

LEMMA OneLoopCorrect ==
  ASSUME OneProcess
  PROVE  Spec => []OneLoopInv
  <1>1. OneLoopInv /\ [Next]_vars => OneLoopInv'
    BY OneLoopNext
  <1> QED
    BY <1>1, OneLoopInit, PTL DEF Spec

\* The double-submit guard holds on one process: a thread never has two turns
\* running at once, whatever crashes, restarts and raising calls come between.
THEOREM OneTurnAtATime ==
  ASSUME OneProcess
  PROVE  Spec => []AtMostOneRunning
  <1>1. OneLoopInv => AtMostOneRunning
    BY DEF OneLoopInv, TableInv, EarlierSettled, AtMostOneRunning, Terminal, Turn
  <1> QED
    BY <1>1, OneLoopCorrect, PTL

\* The history a task is given has every row its thread's earlier turns will
\* ever write, but for those that a full window of newer messages pushed out,
\* although post_message reads it before the guard.
THEOREM HistoryIsWhole ==
  ASSUME OneProcess
  PROVE  Spec => []HistorySeesEarlierTurns
  <1>1. OneLoopInv => HistorySeesEarlierTurns
    BY DEF OneLoopInv, TableInv
  <1> QED
    BY <1>1, OneLoopCorrect, PTL

-----------------------------------------------------------------------------
(* One process implements TurnLog                                          *)

\* The abstract state of LeadTurn's mapping.
PhaseMap == [t \in Turn |-> Phase(t)]
LogMap == [t \in Turn |-> SeqsOf(t)]
SubMap == [c \in Conn |-> [state |-> SubState(c), turn |-> turn[c], start |-> from[c]]]

LEMMA LogInit == Init => Log!Init
  <1> SUFFICES ASSUME Init PROVE Log!Init
    OBVIOUS
  <1>1. \A t \in Turn : Phase(t) = "absent" /\ SeqsOf(t) = {}
    BY DEF Init, Phase, SeqsOf
  <1>2. \A c \in Conn : SubState(c) = "off" /\ turn[c] = 0 /\ from[c] = 0
    BY DEF Init, SubState, NoTurn, TailPc
  <1> QED
    BY <1>1, <1>2 DEF Log!Init, Init

\* Nothing a subscriber can see has moved.
LEMMA LogStutters ==
  ASSUME \A t \in Turn : Phase(t)' = Phase(t) /\ SeqsOf(t)' = SeqsOf(t),
         \A c \in Conn : SubState(c)' = SubState(c),
         UNCHANGED <<turn, from, sent>>
  PROVE  UNCHANGED Log!vars
  BY DEF Log!vars

LEMMA PhaseKept ==
  ASSUME UNCHANGED status
  PROVE  \A t : Phase(t)' = Phase(t)
  BY DEF Phase

\* What a tail still owes is what lies beyond its cursor.
LEMMA OwedIsRest ==
  ASSUME OneLoopInv, NEW c \in Conn, turn[c] \in Turn
  PROVE  Log!Owed(c) = FetchSince(turn[c], cursor[c])
  <1>1. /\ SentSet(c) = {s \in SeqsOf(turn[c]) : from[c] < s /\ s <= cursor[c]}
        /\ from[c] <= cursor[c]
    BY DEF OneLoopInv, PipelineInv, ReaderInv
  <1>2. SeqsOf(turn[c]) \subseteq Nat /\ from[c] \in Nat /\ cursor[c] \in Nat
    BY SeqsAreNat DEF OneLoopInv, TypeOK
  <1>3. Log!Owed(c) = {s \in SeqsOf(turn[c]) : s > from[c]} \ SentSet(c)
    BY DEF Log!Owed, Log!Delivered, SentSet
  <1> QED
    BY <1>1, <1>2, <1>3 DEF FetchSince

\* A response that subscribes.
LEMMA Subscribes ==
  ASSUME OneLoopInv, NEW c \in Conn, NEW t \in Turn, NEW p \in Nat,
         pc[c] \in HandlerPc \cup {"idle"}, pc' = [pc EXCEPT ![c] = "fetch"],
         turn' = [turn EXCEPT ![c] = t],
         \/ UNCHANGED from /\ p = 0
         \/ from' = [from EXCEPT ![c] = p],
         UNCHANGED sent
  PROVE  Log!JoinAs(c, t, p)
  <1>1. turn[c] = NoTurn /\ from[c] = 0
    BY DEF OneLoopInv, PipelineInv, ReaderInv
  <1>2. /\ \A d \in Conn : d # c => UNCHANGED <<pc[d], turn[d], from[d]>>
        /\ pc'[c] = "fetch" /\ turn'[c] = t /\ from'[c] = p
    BY <1>1 DEF OneLoopInv, TypeOK
  <1>3. SubState(c) = "off" /\ SubState(c)' = "on"
    BY <1>1, <1>2 DEF SubState, TailPc, HandlerPc, Turn, NoTurn
  <1>4. \A d \in Conn : d # c => SubState(d)' = SubState(d)
    BY <1>2 DEF SubState
  <1>5. SubMap[c].state = "off"
    BY <1>3 DEF SubMap
  <1>6. SubMap' = [SubMap EXCEPT ![c] = [state |-> "on", turn |-> t, start |-> p]]
    BY <1>2, <1>3, <1>4 DEF SubMap
  <1> QED
    BY <1>5, <1>6 DEF Log!JoinAs, SubMap

LEMMA JoinSteps ==
  ASSUME OneLoopInv, NEW c \in Conn,
         \/ JoinRunning(c)
         \/ \E i \in Instance, th \in Thread, seq \in FromSeq : OpenTail(c, i, th, seq)
  PROVE  Log!Next
  <1>1. PICK t \in Turn, p \in FromSeq \cup {0} :
          /\ status[t] = "running"
          /\ pc[c] \in HandlerPc \cup {"idle"} /\ pc' = [pc EXCEPT ![c] = "fetch"]
          /\ turn' = [turn EXCEPT ![c] = t]
          /\ \/ UNCHANGED from /\ p = 0
             \/ from' = [from EXCEPT ![c] = p]
          /\ UNCHANGED <<sent, status, rows>>
    <2>1. CASE JoinRunning(c)
      BY <2>1 DEF JoinRunning, GetRunning, Running, Move, HandlerPc, tailVars, turnState, messages
    <2>2. CASE \E i \in Instance, th \in Thread, seq \in FromSeq : OpenTail(c, i, th, seq)
      BY <2>2 DEF OpenTail, GetRunning, Running, Move, turnState, messages
    <2> QED
      BY <2>1, <2>2
  <1>2. Log!JoinAs(c, t, p)
    <2>1. t \in Turn /\ p \in Nat
      BY <1>1, ConstantsAssumption
    <2> QED
      BY <1>1, <2>1, Subscribes
  <1>3. PhaseMap[t] = "open" /\ UNCHANGED <<PhaseMap, LogMap>>
    BY <1>1, PhaseKept, RowsUnchanged DEF PhaseMap, LogMap, Phase
  <1>4. Log!Join(c, t)
    BY <1>1, <1>2, <1>3 DEF Log!Join, PhaseMap, LogMap
  <1> QED
    BY <1>4 DEF Log!Next

LEMMA OpenStep ==
  ASSUME OneLoopInv, NEW c \in Conn, CreateTurn(c)
  PROVE  Log!Next
  <1>1. PICK t \in Turn :
          /\ status[t] = "absent" /\ status' = [status EXCEPT ![t] = "running"]
          /\ turn' = [turn EXCEPT ![c] = t]
    BY DEF CreateTurn, OpenTurn, NewTurn
  <1>2. /\ pc[c] \in HandlerPc /\ pc' = [pc EXCEPT ![c] = "fetch"]
        /\ UNCHANGED <<from, sent, rows>>
    BY DEF CreateTurn, OpenTurn, Move, HandlerPc, tailVars, messages
  <1>3. Log!JoinAs(c, t, 0)
    BY <1>1, <1>2, Subscribes
  <1>4. \A u \in Turn : status'[u] = IF u = t THEN "running" ELSE status[u]
    BY <1>1 DEF OneLoopInv, TypeOK
  <1>5. /\ PhaseMap[t] = "absent"
        /\ PhaseMap' = [PhaseMap EXCEPT ![t] = "open"]
        /\ UNCHANGED LogMap
    <2>1. Phase(t) = "absent" /\ \A u \in Turn : Phase(u)' = IF u = t THEN "open" ELSE Phase(u)
      BY <1>1, <1>4 DEF Phase
    <2> QED
      BY <1>2, <2>1, RowsUnchanged DEF PhaseMap, LogMap
  <1>6. Log!OpenFor(c, t)
    BY <1>3, <1>5 DEF Log!OpenFor, PhaseMap, LogMap
  <1> QED
    BY <1>6 DEF Log!Next

\* A turn whose creator was answered an error has no subscriber yet.
LEMMA OpenLostStep ==
  ASSUME OneLoopInv, NEW c \in Conn, LoseCreateAck(c)
  PROVE  Log!Next
  <1>1. PICK t \in Turn : status[t] = "absent" /\ status' = [status EXCEPT ![t] = "running"]
    BY DEF LoseCreateAck, OpenTurn, NewTurn
  <1>2. /\ pc[c] \in HandlerPc /\ pc' = [pc EXCEPT ![c] = "error"]
        /\ UNCHANGED <<turn, from, sent, rows>>
    BY DEF LoseCreateAck, OpenTurn, Move, HandlerPc, tailVars, request, messages
  <1>3. \A u \in Turn : status'[u] = IF u = t THEN "running" ELSE status[u]
    BY <1>1 DEF OneLoopInv, TypeOK
  <1>4. /\ PhaseMap[t] = "absent"
        /\ PhaseMap' = [PhaseMap EXCEPT ![t] = "open"]
        /\ UNCHANGED LogMap
    <2>1. Phase(t) = "absent" /\ \A u \in Turn : Phase(u)' = IF u = t THEN "open" ELSE Phase(u)
      BY <1>1, <1>3 DEF Phase
    <2> QED
      BY <1>2, <2>1, RowsUnchanged DEF PhaseMap, LogMap
  <1>5. ASSUME NEW d \in Conn PROVE SubState(d)' = SubState(d)
    <2>1. turn[c] = NoTurn
      BY <1>2 DEF OneLoopInv, PipelineInv, ReaderInv
    <2>2. d # c => pc'[d] = pc[d]
      BY <1>2 DEF OneLoopInv, TypeOK
    <2> QED
      BY <1>2, <2>1, <2>2 DEF SubState
  <1>6. UNCHANGED <<SubMap, sent>>
    BY <1>2, <1>5 DEF SubMap
  <1>7. Log!Open(t)
    BY <1>4, <1>6 DEF Log!Open, PhaseMap, LogMap, SubMap
  <1> QED
    BY <1>7 DEF Log!Next

LEMMA WriteStep ==
  ASSUME OneLoopInv, NEW t \in Turn, CommitInsert(t) \/ LoseInsertAck(t)
  PROVE  Log!Next
  <1>1. /\ taskPc[t] = "insert" /\ StoreRow(t)
        /\ UNCHANGED <<status, pc, turn, from, sent>>
    BY DEF CommitInsert, LoseInsertAck, Fault, turnState, conns, request, tailVars
  <1>2. status[t] = "running"
    BY <1>1 DEF OneLoopInv, TableInv, Quiet, AbsentIsEmpty, TypeOK, Status, Terminal
  <1>3. \A s \in SeqsOf(t) : s < taskSeq[t]
    BY <1>1 DEF OneLoopInv, PipelineInv, WriterInv
  <1>4. SeqsOf(t)' = SeqsOf(t) \cup {taskSeq[t]} /\ \A u : u # t => SeqsOf(u)' = SeqsOf(u)
    BY <1>1, RowStored
  <1>5. LogMap' = [LogMap EXCEPT ![t] = @ \cup {taskSeq[t]}] /\ LogMap[t] = SeqsOf(t)
    BY <1>4 DEF LogMap
  <1>6. PhaseMap[t] = "open" /\ UNCHANGED <<PhaseMap, SubMap, sent>>
    BY <1>1, <1>2 DEF PhaseMap, SubMap, Phase, SubState
  <1>7. taskSeq[t] \in LogMap'[t]
    BY <1>5 DEF LogMap
  <1>8. Log!Write(t)
    BY <1>3, <1>5, <1>6, <1>7 DEF Log!Write, PhaseMap, LogMap, SubMap
  <1> QED
    BY <1>8 DEF Log!Next

\* Turns leave 'running', one by its own task or some by a sweep.
LEMMA SealSteps ==
  ASSUME OneLoopInv, NEW T \in SUBSET Turn, \A t \in T : status[t] = "running",
         \A t \in Turn : IF t \in T THEN status'[t] \in Terminal ELSE status'[t] = status[t],
         UNCHANGED <<rows, pc, turn, from, sent>>
  PROVE  Log!Next
  <1>1. \A t \in T : PhaseMap[t] = "open"
    BY DEF PhaseMap, Phase
  <1>2. PhaseMap' = [t \in Turn |-> IF t \in T THEN "sealed" ELSE PhaseMap[t]]
    BY DEF PhaseMap, Phase, Terminal
  <1>3. UNCHANGED <<LogMap, SubMap, sent>>
    BY RowsUnchanged DEF LogMap, SubMap, SubState
  <1>4. Log!Seal(T)
    BY <1>1, <1>2, <1>3 DEF Log!Seal, PhaseMap, LogMap, SubMap
  <1> QED
    BY <1>4 DEF Log!Next

LEMMA DeliverStep ==
  ASSUME OneLoopInv, NEW c \in Conn, Emit(c)
  PROVE  Log!Next
  <1>1. PICK s \in batch[c] :
          /\ \A e \in batch[c] : s <= e
          /\ sent' = [sent EXCEPT ![c] = Append(sent[c], s)]
    BY DEF Emit
  <1>2. pc[c] = "emit" /\ UNCHANGED <<status, rows, pc, turn, from>>
    BY DEF Emit, turnState, messages, request
  <1>3. ReaderInv(c) /\ turn[c] \in Turn
    BY <1>2 DEF OneLoopInv, PipelineInv, TypeOK, ReaderInv, TailPc
  <1>4. Log!Owed(c) = FetchSince(turn[c], cursor[c])
    BY <1>3, OwedIsRest
  <1>5. batch[c] \subseteq Log!Owed(c)
    BY <1>3, <1>4 DEF ReaderInv
  <1>6. ASSUME NEW e \in Log!Owed(c) PROVE s <= e
    <2>1. e \in Nat /\ s \in Nat
      BY <1>4, <1>5, SeqsAreNat DEF FetchSince, OneLoopInv, TypeOK
    <2>2. e \in batch[c] \/ s < e
      BY <1>3, <1>4 DEF ReaderInv
    <2> QED
      BY <1>1, <2>1, <2>2
  <1>7. SubMap[c].state = "on" /\ UNCHANGED <<PhaseMap, LogMap, SubMap>>
    <2>1. SubState(c) = "on"
      BY <1>2, <1>3 DEF SubState, TailPc, Turn, NoTurn
    <2> QED
      BY <1>2, <2>1, RowsUnchanged DEF PhaseMap, LogMap, SubMap, Phase, SubState
  <1>8. Log!Deliver(c)
    BY <1>1, <1>5, <1>6, <1>7 DEF Log!Deliver, PhaseMap, LogMap, SubMap
  <1> QED
    BY <1>8 DEF Log!Next

\* The pass after the flip found nothing, and its turn has no writer: the
\* stream ends with nothing owed.
LEMMA CloseStep ==
  ASSUME OneLoopInv, NEW c \in Conn, CheckStatus(c)
  PROVE  [Log!Next]_(Log!vars)
  <1>1. /\ pc[c] = "emit" /\ batch[c] = {}
        /\ UNCHANGED <<status, rows, turn, from, sent>>
        /\ \A d \in Conn : d # c => pc'[d] = pc[d]
        /\ \/ pc'[c] = "fetch"
           \/ pc'[c] = "ended" /\ flip[c]
    BY DEF CheckStatus, AfterTerminal, Move, OneLoopInv, TypeOK, turnState, messages, request
  <1>2. ReaderInv(c) /\ BatchInv(c) /\ turn[c] \in Turn
    BY <1>1 DEF OneLoopInv, PipelineInv, TypeOK, ReaderInv, TailPc
  <1>3. SubState(c) = "on" /\ \A d \in Conn : d # c => SubState(d)' = SubState(d)
    BY <1>1, <1>2 DEF SubState, TailPc, Turn, NoTurn
  <1>4. UNCHANGED <<PhaseMap, LogMap>>
    BY <1>1, PhaseKept, RowsUnchanged DEF PhaseMap, LogMap
  <1>5. CASE pc'[c] = "fetch"
    <2>1. SubState(c)' = "on"
      BY <1>1, <1>2, <1>5 DEF SubState, TailPc, Turn, NoTurn
    <2> QED
      BY <1>1, <1>3, <2>1, PhaseKept, RowsUnchanged, LogStutters
  <1>6. CASE pc'[c] = "ended" /\ flip[c]
    <2>1. SubState(c)' = "closed"
      BY <1>1, <1>2, <1>6 DEF SubState, TailPc, Turn, NoTurn
    <2>2. Log!Owed(c) = {}
      BY <1>1, <1>2, <1>6, OwedIsRest DEF BatchInv
    <2>3. PhaseMap[SubMap[c].turn] = "sealed" /\ SubMap[c].state = "on"
      BY <1>2, <1>3, <1>6 DEF ReaderInv, PhaseMap, SubMap, Phase, Terminal
    <2>4. SubMap' = [SubMap EXCEPT ![c].state = "closed"]
      BY <1>1, <1>3, <2>1 DEF SubMap
    <2>5. Log!Close(c)
      BY <1>1, <1>4, <2>2, <2>3, <2>4 DEF Log!Close, PhaseMap, LogMap, SubMap
    <2> QED
      BY <2>5 DEF Log!Next
  <1> QED
    BY <1>1, <1>5, <1>6

LEMMA DropSteps ==
  ASSUME OneLoopInv, NEW R \in SUBSET Conn,
         \A c \in R : pc[c] \in TailPc /\ pc'[c] = "gone",
         \A c \in Conn \ R : SubState(c)' = SubState(c),
         UNCHANGED <<status, rows, turn, from, sent>>
  PROVE  Log!Next
  <1>1. \A c \in R : turn[c] \in Turn
    BY DEF OneLoopInv, PipelineInv, TypeOK, ReaderInv, TailPc
  <1>2. \A c \in R : SubState(c) = "on" /\ SubState(c)' = "dropped"
    BY <1>1 DEF SubState, TailPc, Turn, NoTurn
  <1>3. \A c \in R : SubMap[c].state = "on"
    BY <1>2 DEF SubMap
  <1>4. SubMap' = [c \in Conn |->
                      IF c \in R THEN [SubMap[c] EXCEPT !.state = "dropped"] ELSE SubMap[c]]
    BY <1>2 DEF SubMap
  <1>5. UNCHANGED <<PhaseMap, LogMap, sent>>
    BY PhaseKept, RowsUnchanged DEF PhaseMap, LogMap
  <1>6. Log!Drop(R)
    BY <1>3, <1>4, <1>5 DEF Log!Drop, PhaseMap, LogMap, SubMap
  <1> QED
    BY <1>6 DEF Log!Next

\* A request that never subscribes, and whatever only moves tasks.
LEMMA UnseenSteps ==
  ASSUME OneLoopInv,
         \/ \E c \in Conn :
               \/ \E i \in Instance, th \in Thread : Submit(c, i, th) \/ TailNotFound(c, i, th)
               \/ AppendUser(c) \/ LoseAppendAck(c) \/ PassGuard(c)
               \/ HandlerRaises(c) \/ Fetch(c)
         \/ \E t \in Turn : \/ BeginInsert(t) \/ StreamEnds(t) \/ TaskRaises(t)
                            \/ MarkFailedRaises(t) \/ Age(t)
         \/ UNCHANGED vars
  PROVE  UNCHANGED Log!vars
  <1>1. UNCHANGED <<turnState, turn, from, sent>>
    BY DEF Submit, TailNotFound, AppendUser, LoseAppendAck, PassGuard, HandlerRaises, Fetch, BeginInsert,
           StreamEnds, TaskRaises, MarkFailedRaises, Age, Fault, vars, conns, request, tailVars
  <1>2. \A t \in Turn : SeqsOf(t)' = SeqsOf(t)
    <2>1. CASE \E c \in Conn : AppendUser(c) \/ LoseAppendAck(c)
      <3>1. \A t \in Turn : t # NoTurn
        BY DEF Turn, NoTurn
      <3>2. PICK c \in Conn : AppendUser(c) \/ LoseAppendAck(c)
        BY <2>1
      <3>3. rows' = rows \cup {[seq |-> nextSeq + 1, thread |-> thread[c], turn |-> NoTurn]}
        BY <3>2 DEF AppendUser, LoseAppendAck, StoreUser
      <3>4. \A t : t # NoTurn => SeqsOf(t)' = SeqsOf(t)
        BY <3>3, RowAdded
      <3> QED
        BY <3>1, <3>4
    <2>2. CASE UNCHANGED rows
      BY <2>2, RowsUnchanged
    <2>3. (\E c \in Conn : AppendUser(c) \/ LoseAppendAck(c)) \/ UNCHANGED rows
      BY DEF Submit, TailNotFound, PassGuard, HandlerRaises, Fetch, BeginInsert,
             StreamEnds, TaskRaises, MarkFailedRaises, Age, vars, messages
    <2> QED
      BY <2>1, <2>2, <2>3
  <1>3. ASSUME NEW d \in Conn PROVE SubState(d)' = SubState(d)
    <2>1. \/ pc'[d] = pc[d]
          \/ /\ pc[d] \in HandlerPc \cup {"idle"}
             /\ pc'[d] \in HandlerPc \cup {"error"}
          \/ pc[d] = "fetch" /\ pc'[d] = "emit"
      BY DEF Submit, TailNotFound, AppendUser, LoseAppendAck, PassGuard, HandlerRaises, Fetch, Move, BeginInsert,
             StreamEnds, TaskRaises, MarkFailedRaises, Age, vars, conns, OneLoopInv, TypeOK,
             HandlerPc
    <2>2. pc[d] \in HandlerPc \cup {"idle"} => turn[d] = NoTurn
      BY DEF OneLoopInv, PipelineInv, ReaderInv
    <2>3. turn'[d] = turn[d]
      BY <1>1
    <2>4. CASE pc'[d] = pc[d]
      BY <2>3, <2>4 DEF SubState
    <2>5. CASE turn[d] = NoTurn /\ pc[d] \in HandlerPc \cup {"idle"}
                                /\ pc'[d] \in HandlerPc \cup {"error"}
      BY <2>3, <2>5 DEF SubState, TailPc, HandlerPc
    <2>6. CASE pc[d] = "fetch" /\ pc'[d] = "emit"
      <3>1. turn[d] # NoTurn
        BY <2>6 DEF OneLoopInv, PipelineInv, ReaderInv, TailPc
      <3> QED
        BY <2>3, <2>6, <3>1 DEF SubState, TailPc
    <2> QED
      BY <2>1, <2>2, <2>4, <2>5, <2>6
  <1> QED
    BY <1>1, <1>2, <1>3, PhaseKept, LogStutters DEF turnState

LEMMA LeaveSteps ==
  ASSUME OneLoopInv,
         \/ \E c \in Conn : Disconnect(c)
         \/ \E i \in Instance : Crash(i)
  PROVE  Log!Next
  <1>. DEFINE R == {c \in Conn : pc[c] \in TailPc /\ pc'[c] = "gone"}
  <1>1. /\ \A c \in Conn : \/ pc'[c] = pc[c]
                           \/ pc[c] \in HandlerPc \cup TailPc /\ pc'[c] = "gone"
        /\ UNCHANGED <<status, rows, turn, from, sent>>
    BY DEF Disconnect, Crash, Move, OneLoopInv, TypeOK, turnState, messages, request, tailVars
  <1>2. ASSUME NEW c \in Conn \ R PROVE SubState(c)' = SubState(c)
    <2>1. CASE pc'[c] = pc[c]
      BY <1>1, <2>1 DEF SubState
    <2>2. CASE pc[c] \in HandlerPc /\ pc'[c] = "gone"
      <3>1. turn[c] = NoTurn /\ turn'[c] = NoTurn
        BY <1>1, <2>2 DEF OneLoopInv, PipelineInv, ReaderInv
      <3> QED
        BY <2>2, <3>1 DEF SubState, TailPc, HandlerPc
    <2> QED
      BY <1>1, <2>1, <2>2
  <1>3. /\ R \in SUBSET Conn
        /\ \A c \in R : pc[c] \in TailPc /\ pc'[c] = "gone"
    OBVIOUS
  <1> QED
    <2> HIDE DEF R
    <2> QED
      BY <1>1, <1>2, <1>3, DropSteps

LEMMA SettlingSteps ==
  ASSUME OneLoopInv,
         \/ \E t \in Turn : MarkComplete(t) \/ LoseMarkAck(t) \/ MarkFailed(t) \/ LoseFailAck(t)
         \/ \E i \in Instance : Start(i)
  PROVE  Log!Next
  <1>. DEFINE T == {t \in Turn : status'[t] # status[t]}
  <1>1. UNCHANGED <<rows, pc, turn, from, sent>>
    BY DEF MarkComplete, LoseMarkAck, MarkFailed, LoseFailAck, Start, messages, conns, request, tailVars
  <1>2. \A u \in Turn : \/ status'[u] = status[u]
                        \/ status[u] = "running" /\ status'[u] \in Terminal
    <2>1. CASE \E i \in Instance : Start(i)
      BY <2>1 DEF Start, Stale, Terminal
    <2>2. CASE \E t \in Turn : SetComplete(t) \/ SetFailed(t)
      BY <2>2 DEF SetComplete, SetFailed, IsRunning, Terminal, OneLoopInv, TypeOK, turnState
    <2> QED
      BY <2>1, <2>2 DEF MarkComplete, LoseMarkAck, MarkFailed, LoseFailAck
  <1>3. T \in SUBSET Turn /\ \A t \in T : status[t] = "running"
    BY <1>2
  <1>4. \A t \in Turn : IF t \in T THEN status'[t] \in Terminal ELSE status'[t] = status[t]
    BY <1>2
  <1> QED
    <2> HIDE DEF T
    <2> QED
      BY <1>1, <1>3, <1>4, SealSteps

\* Every step of LeadTurn on one process is a step of TurnLog or changes
\* nothing a subscriber can see.
LEMMA LogNext ==
  ASSUME OneLoopInv, [Next]_vars
  PROVE  [Log!Next]_(Log!vars)
  <1>1. CASE \E c \in Conn, i \in Instance, th \in Thread :
               Submit(c, i, th) \/ TailNotFound(c, i, th)
    BY <1>1, UnseenSteps
  <1>2. CASE \E c \in Conn, i \in Instance, th \in Thread, seq \in FromSeq :
               OpenTail(c, i, th, seq)
    BY <1>2, JoinSteps
  <1>3. CASE \E c \in Conn : AppendUser(c) \/ LoseAppendAck(c) \/ PassGuard(c)
                             \/ HandlerRaises(c) \/ Fetch(c)
    BY <1>3, UnseenSteps
  <1>4. CASE \E c \in Conn : JoinRunning(c)
    BY <1>4, JoinSteps
  <1>5. CASE \E c \in Conn : CreateTurn(c)
    BY <1>5, OpenStep
  <1>6. CASE \E c \in Conn : Emit(c)
    BY <1>6, DeliverStep
  <1>7. CASE \E c \in Conn : CheckStatus(c)
    BY <1>7, CloseStep
  <1>8. CASE (\E c \in Conn : Disconnect(c)) \/ (\E i \in Instance : Crash(i))
    BY <1>8, LeaveSteps
  <1>9. CASE \E t \in Turn : CommitInsert(t) \/ LoseInsertAck(t)
    BY <1>9, WriteStep
  <1>10. CASE \/ \E t \in Turn : MarkComplete(t) \/ LoseMarkAck(t) \/ MarkFailed(t) \/ LoseFailAck(t)
              \/ \E i \in Instance : Start(i)
    BY <1>10, SettlingSteps
  <1>11. CASE \E t \in Turn : \/ BeginInsert(t) \/ StreamEnds(t) \/ TaskRaises(t)
                             \/ MarkFailedRaises(t) \/ Age(t)
    BY <1>11, UnseenSteps
  <1>12. CASE UNCHANGED vars
    BY <1>12, UnseenSteps
  <1>14. CASE \E c \in Conn : LoseCreateAck(c)
    BY <1>14, OpenLostStep
  <1>13. CASE Next
    BY <1>1, <1>2, <1>3, <1>4, <1>5, <1>6, <1>7, <1>8, <1>9, <1>10, <1>11, <1>13,
       <1>14 DEF Next, Post, RaisingPost, TailTurn, DrainLeadTurn, RaisingCall
  <1> QED
    BY <1>12, <1>13

\* One process keeps the promise of TurnLog: turns are append-only logs that
\* are never written once sealed, and a stream that closes has delivered its
\* log to the end, whatever crashes, raising calls and sweeps come between.
THEOREM OneProcessImplementsLog ==
  ASSUME OneProcess
  PROVE  Spec => ImplementsTurnLog
  <1>1. OneLoopInv /\ [Next]_vars => [Log!Next]_(Log!vars)
    BY LogNext
  <1> QED
    BY <1>1, LogInit, OneLoopCorrect, PTL DEF Spec, ImplementsTurnLog, Log!Spec
=============================================================================
