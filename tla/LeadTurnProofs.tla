--------------------------- MODULE LeadTurnProofs ---------------------------
(***************************************************************************)
(* Proofs about LeadTurn, for every number of processes, connections,      *)
(* threads and turns.                                                      *)
(***************************************************************************)
EXTENDS LeadTurn, TLAPS

USE ConstantsAssumption

-----------------------------------------------------------------------------
(* Type correctness                                                        *)

LEMMA TypeInit == Init => TypeOK
  BY DEF Init, TypeOK, Turn, NoTurn, Status, TaskPc, ConnPc

LEMMA SeqsAreNat ==
  ASSUME TypeOK
  PROVE  /\ \A t : SeqsOf(t) \subseteq Nat
         /\ \A th : ThreadSeqs(th) \subseteq Nat
  BY DEF TypeOK, SeqsOf, ThreadSeqs

\* mark_complete writes a status and a last_seq_no of their types.
LEMMA SetCompleteType ==
  ASSUME TypeOK, NEW t \in Turn, SetComplete(t)
  PROVE  /\ status' \in [Turn -> Status]
         /\ lastSeq' \in [Turn -> Nat]
         /\ owner' = owner /\ error' = error
  <1>1. CASE IsRunning(t)
    <2>1. /\ status' = [status EXCEPT ![t] = "complete"]
          /\ lastSeq' = [lastSeq EXCEPT ![t] = taskLast[t]]
          /\ owner' = owner /\ error' = error
      BY <1>1, Zenon DEF SetComplete
    <2>2. taskLast[t] \in Nat
      BY DEF TypeOK
    <2> QED
      BY <2>1, <2>2 DEF TypeOK, Status
  <1>2. CASE ~ IsRunning(t)
    BY <1>2 DEF TypeOK, SetComplete, turnState
  <1> QED
    BY <1>1, <1>2

\* Every column, program counter and cursor keeps its type at every step.
LEMMA TypeNext == TypeOK /\ [Next]_vars => TypeOK'
  <1> SUFFICES ASSUME TypeOK, [Next]_vars PROVE TypeOK'
    OBVIOUS
  <1> USE DEF TypeOK, NoTurn, Status, TaskPc, ConnPc, Move, TaskMove,
              turnState, messages, tasks, taskData, conns, request, tailVars, env
  <1>1. ASSUME NEW c \in Conn, NEW i \in Instance, NEW th \in Thread, Submit(c, i, th)
        PROVE  TypeOK'
    BY SMTT(30), <1>1, SeqsAreNat DEF Submit, LatestMessages
  <1>2. ASSUME NEW c \in Conn, NEW i \in Instance, NEW th \in Thread, TailNotFound(c, i, th)
        PROVE  TypeOK'
    BY <1>2 DEF TailNotFound
  <1>3. ASSUME NEW c \in Conn, NEW i \in Instance, NEW th \in Thread,
               NEW seq \in FromSeq, OpenTail(c, i, th, seq)
        PROVE  TypeOK'
    BY <1>3 DEF OpenTail
  <1>4. ASSUME NEW c \in Conn, AppendUser(c)
        PROVE  TypeOK'
    BY <1>4 DEF AppendUser, StoreUser
  <1>5. ASSUME NEW c \in Conn, JoinRunning(c)
        PROVE  TypeOK'
    BY <1>5 DEF JoinRunning
  <1>6. ASSUME NEW c \in Conn, PassGuard(c)
        PROVE  TypeOK'
    BY <1>6 DEF PassGuard
  <1>7. ASSUME NEW c \in Conn, CreateTurn(c)
        PROVE  TypeOK'
    BY <1>7 DEF CreateTurn, OpenTurn
  <1>8. ASSUME NEW c \in Conn, HandlerRaises(c)
        PROVE  TypeOK'
    BY <1>8 DEF HandlerRaises, Fault
  <1>9. ASSUME NEW c \in Conn, Fetch(c)
        PROVE  TypeOK'
    BY <1>9, SeqsAreNat DEF Fetch, FetchSince
  <1>10. ASSUME NEW c \in Conn, Emit(c)
         PROVE  TypeOK'
    BY SMTT(30), <1>10 DEF Emit
  <1>11. ASSUME NEW c \in Conn, CheckStatus(c)
         PROVE  TypeOK'
    BY ZenonT(40), <1>11 DEF CheckStatus, AfterTerminal
  <1>12. ASSUME NEW c \in Conn, Disconnect(c)
         PROVE  TypeOK'
    BY <1>12 DEF Disconnect
  <1>13. ASSUME NEW t \in Turn, BeginInsert(t)
         PROVE  TypeOK'
    BY <1>13 DEF BeginInsert
  <1>14. ASSUME NEW t \in Turn, CommitInsert(t)
         PROVE  TypeOK'
    BY <1>14 DEF CommitInsert, StoreRow
  <1>15. ASSUME NEW t \in Turn, LoseInsertAck(t)
         PROVE  TypeOK'
    BY <1>15 DEF LoseInsertAck, StoreRow, Fault
  <1>16. ASSUME NEW t \in Turn, StreamEnds(t)
         PROVE  TypeOK'
    <2>1. \E m \in Nat : taskLast' = [taskLast EXCEPT ![t] = m]
      BY <1>16, SeqsAreNat DEF StreamEnds
    <2> QED
      BY <1>16, <2>1 DEF StreamEnds
  <1>17. ASSUME NEW t \in Turn, MarkComplete(t)
         PROVE  TypeOK'
    BY <1>17, SetCompleteType DEF MarkComplete
  <1>18. ASSUME NEW t \in Turn, LoseMarkAck(t)
         PROVE  TypeOK'
    <2>1. /\ status' \in [Turn -> Status]
          /\ lastSeq' \in [Turn -> Nat]
          /\ owner' = owner /\ error' = error
      BY <1>18, SetCompleteType DEF LoseMarkAck
    <2>2. /\ taskPc' = [taskPc EXCEPT ![t] = "except"]
          /\ faults' = faults + 1
          /\ UNCHANGED <<rows, nextSeq, taskInst, taskSeq, taskLast, taskHist, pc,
                         inst, thread, turn, hist, from, cursor, flip, batch, sent,
                         aged, up, crashes>>
      BY <1>18, Zenon DEF LoseMarkAck, Fault
    <2> QED
      BY <2>1, <2>2
  <1>19. ASSUME NEW t \in Turn, TaskRaises(t)
         PROVE  TypeOK'
    BY <1>19 DEF TaskRaises, Fault
  <1>20. ASSUME NEW t \in Turn, MarkFailed(t)
         PROVE  TypeOK'
    BY ZenonT(40), <1>20 DEF MarkFailed, SetFailed
  <1>21. ASSUME NEW t \in Turn, MarkFailedRaises(t)
         PROVE  TypeOK'
    BY <1>21 DEF MarkFailedRaises, Fault
  <1>22. ASSUME NEW t \in Turn, Age(t)
         PROVE  TypeOK'
    BY <1>22 DEF Age
  <1>23. ASSUME NEW i \in Instance, Start(i)
         PROVE  TypeOK'
    BY <1>23 DEF Start
  <1>24. ASSUME NEW i \in Instance, Crash(i)
         PROVE  TypeOK'
    BY <1>24 DEF Crash
  <1>25. ASSUME NEW c \in Conn, LoseAppendAck(c)
         PROVE  TypeOK'
    BY <1>25 DEF LoseAppendAck, StoreUser, Fault
  <1>26. ASSUME NEW c \in Conn, LoseCreateAck(c)
         PROVE  TypeOK'
    BY <1>26 DEF LoseCreateAck, OpenTurn, Fault
  <1>27. ASSUME NEW t \in Turn, LoseFailAck(t)
         PROVE  TypeOK'
    <2>1. /\ status' \in [Turn -> Status]
          /\ error' \in [Turn -> {"none", "exception", "orphaned"}]
          /\ owner' = owner /\ lastSeq' = lastSeq
      <3>1. SetFailed(t)
        BY <1>27 DEF LoseFailAck
      <3> QED
        BY ZenonT(40), <3>1 DEF SetFailed
    <2>2. /\ taskPc' = [taskPc EXCEPT ![t] = "dead"]
          /\ faults' = faults + 1
          /\ UNCHANGED <<rows, nextSeq, taskInst, taskSeq, taskLast, taskHist, pc,
                         inst, thread, turn, hist, from, cursor, flip, batch, sent,
                         aged, up, crashes>>
      BY <1>27, Zenon DEF LoseFailAck, Fault
    <2> QED
      BY <2>1, <2>2
  <1>28. CASE UNCHANGED vars
    BY <1>28 DEF vars
  <1> QED
    BY <1>1, <1>2, <1>3, <1>4, <1>5, <1>6, <1>7, <1>8, <1>9, <1>10, <1>11, <1>12,
       <1>13, <1>14, <1>15, <1>16, <1>17, <1>18, <1>19, <1>20, <1>21, <1>22, <1>23, <1>24, <1>25,
       <1>26, <1>27, <1>28
       DEF Next, Post, RaisingPost, TailTurn, DrainLeadTurn, RaisingCall

THEOREM TypeCorrect == Spec => []TypeOK
  BY TypeInit, TypeNext, PTL DEF Spec

-----------------------------------------------------------------------------
(* The writer side of PipelineInv                                          *)

LEMMA RowsUnchanged ==
  ASSUME UNCHANGED rows
  PROVE  \A t : SeqsOf(t)' = SeqsOf(t)
  BY DEF SeqsOf

LEMMA RowAdded ==
  ASSUME NEW q, NEW th, NEW u,
         rows' = rows \cup {[seq |-> q, thread |-> th, turn |-> u]}
  PROVE  /\ SeqsOf(u)' = SeqsOf(u) \cup {q}
         /\ \A t : t # u => SeqsOf(t)' = SeqsOf(t)
  <1> DEFINE new == [seq |-> q, thread |-> th, turn |-> u]
  <1>1. new.seq = q /\ new.turn = u
    OBVIOUS
  <1>2. rows' = rows \cup {new}
    OBVIOUS
  <1> HIDE DEF new
  <1>3. SeqsOf(u)' = SeqsOf(u) \cup {q}
    BY <1>1, <1>2 DEF SeqsOf
  <1>4. ASSUME NEW t, t # u PROVE SeqsOf(t)' = SeqsOf(t)
    BY <1>1, <1>2, <1>4 DEF SeqsOf
  <1> QED
    BY <1>3, <1>4

LEMMA RowStored ==
  ASSUME NEW u, StoreRow(u)
  PROVE  /\ SeqsOf(u)' = SeqsOf(u) \cup {taskSeq[u]}
         /\ \A t : t # u => SeqsOf(t)' = SeqsOf(t)
  BY RowAdded DEF StoreRow

\* Whatever the handlers, the tails and the other tasks do, a turn keeps
\* its single writer.
LEMMA WriterKeeps ==
  ASSUME NEW t \in Turn, WriterInv(t), SeqsOf(t)' = SeqsOf(t),
         TypeOK, nextSeq' \in Nat, nextSeq <= nextSeq',
         UNCHANGED <<taskPc[t], taskSeq[t], taskLast[t]>>,
         UNCHANGED <<status[t], error[t], lastSeq[t]>>
  PROVE  WriterInv(t)'
  <1>1. \A s \in SeqsOf(t) : s \in Nat
    BY SeqsAreNat
  <1>2. taskSeq[t] \in Nat /\ nextSeq \in Nat
    BY DEF TypeOK
  <1> QED
    BY <1>1, <1>2 DEF WriterInv, LastSeqForTurn

\* No step lets a turn have a second writer, or its writer insert below a row.
LEMMA WriterNext ==
  ASSUME TypeOK, NEW t \in Turn, WriterInv(t), [Next]_vars
  PROVE  WriterInv(t)'
  <1>0. TypeOK'
    BY TypeNext
  <1>a. \A s \in SeqsOf(t) : s \in Nat
    BY SeqsAreNat
  <1>b. nextSeq \in Nat /\ nextSeq' \in Nat /\ taskSeq[t] \in Nat
    BY <1>0 DEF TypeOK
  <1>1. ASSUME NEW c \in Conn, NEW i \in Instance, NEW th \in Thread, Submit(c, i, th)
        PROVE  WriterInv(t)'
    BY <1>1, <1>b, RowsUnchanged, WriterKeeps
       DEF Submit, turnState, messages, tasks, taskData
  <1>2. ASSUME NEW c \in Conn, NEW i \in Instance, NEW th \in Thread, TailNotFound(c, i, th)
        PROVE  WriterInv(t)'
    BY <1>2, <1>b, RowsUnchanged, WriterKeeps
       DEF TailNotFound, turnState, messages, tasks, taskData
  <1>3. ASSUME NEW c \in Conn, NEW i \in Instance, NEW th \in Thread,
              NEW seq \in FromSeq, OpenTail(c, i, th, seq)
        PROVE  WriterInv(t)'
    BY <1>3, <1>b, RowsUnchanged, WriterKeeps
       DEF OpenTail, turnState, messages, tasks, taskData
  <1>4. ASSUME NEW c \in Conn, JoinRunning(c)
        PROVE  WriterInv(t)'
    BY <1>4, <1>b, RowsUnchanged, WriterKeeps
       DEF JoinRunning, turnState, messages, tasks, taskData
  <1>5. ASSUME NEW c \in Conn, PassGuard(c)
        PROVE  WriterInv(t)'
    BY <1>5, <1>b, RowsUnchanged, WriterKeeps
       DEF PassGuard, turnState, messages, tasks, taskData
  <1>6. ASSUME NEW c \in Conn, HandlerRaises(c)
        PROVE  WriterInv(t)'
    BY <1>6, <1>b, RowsUnchanged, WriterKeeps
       DEF HandlerRaises, Fault, turnState, messages, tasks, taskData
  <1>7. ASSUME NEW c \in Conn, Fetch(c)
        PROVE  WriterInv(t)'
    BY <1>7, <1>b, RowsUnchanged, WriterKeeps
       DEF Fetch, turnState, messages, tasks, taskData
  <1>8. ASSUME NEW c \in Conn, Emit(c)
        PROVE  WriterInv(t)'
    BY <1>8, <1>b, RowsUnchanged, WriterKeeps
       DEF Emit, turnState, messages, tasks, taskData
  <1>9. ASSUME NEW c \in Conn, CheckStatus(c)
        PROVE  WriterInv(t)'
    BY <1>9, <1>b, RowsUnchanged, WriterKeeps
       DEF CheckStatus, turnState, messages, tasks, taskData
  <1>10. ASSUME NEW c \in Conn, Disconnect(c)
         PROVE  WriterInv(t)'
    BY <1>10, <1>b, RowsUnchanged, WriterKeeps
       DEF Disconnect, turnState, messages, tasks, taskData
  <1>11. ASSUME NEW u \in Turn, Age(u)
         PROVE  WriterInv(t)'
    BY <1>11, <1>b, RowsUnchanged, WriterKeeps
       DEF Age, turnState, messages, tasks, taskData
  <1>12. ASSUME NEW c \in Conn, AppendUser(c)
         PROVE  WriterInv(t)'
    <2>1. SeqsOf(t)' = SeqsOf(t)
      <3>1. t # NoTurn
        BY DEF Turn, NoTurn
      <3> QED
        BY ZenonT(40), <1>12, <3>1, RowAdded DEF AppendUser, StoreUser
    <2> QED
      BY <1>12, <1>b, <2>1, WriterKeeps DEF AppendUser, StoreUser, turnState, tasks, taskData
  <1>13. ASSUME NEW c \in Conn, CreateTurn(c)
         PROVE  WriterInv(t)'
    BY <1>13, <1>a, <1>b, <1>0, RowsUnchanged DEF CreateTurn, OpenTurn, WriterInv, TypeOK, NewTurn, TaskMove, messages, LastSeqForTurn, Terminal
  <1>14. ASSUME NEW u \in Turn, BeginInsert(u)
         PROVE  WriterInv(t)'
    BY <1>14, <1>a, <1>b, <1>0, RowsUnchanged DEF BeginInsert, WriterInv, TypeOK, TaskMove, turnState, LastSeqForTurn
  <1>15. ASSUME NEW u \in Turn, CommitInsert(u)
         PROVE  WriterInv(t)'
    BY <1>15, <1>a, <1>b, <1>0, RowStored DEF CommitInsert, WriterInv, TypeOK, TaskMove, turnState, taskData, LastSeqForTurn
  <1>16. ASSUME NEW u \in Turn, LoseInsertAck(u)
         PROVE  WriterInv(t)'
    BY <1>16, <1>a, <1>b, <1>0, RowStored DEF LoseInsertAck, WriterInv, TypeOK, TaskMove, turnState, taskData, LastSeqForTurn
  <1>17. ASSUME NEW u \in Turn, StreamEnds(u)
         PROVE  WriterInv(t)'
    BY <1>17, <1>a, <1>b, <1>0, RowsUnchanged DEF StreamEnds, WriterInv, TypeOK, TaskMove, turnState, messages, LastSeqForTurn
  <1>18. ASSUME NEW u \in Turn, MarkComplete(u)
         PROVE  WriterInv(t)'
    BY <1>18, <1>a, <1>b, <1>0, RowsUnchanged DEF MarkComplete, SetComplete, IsRunning, WriterInv, TypeOK, TaskMove, turnState, messages, taskData, LastSeqForTurn
  <1>19. ASSUME NEW u \in Turn, LoseMarkAck(u)
         PROVE  WriterInv(t)'
    BY <1>19, <1>a, <1>b, <1>0, RowsUnchanged DEF LoseMarkAck, SetComplete, IsRunning, WriterInv, TypeOK, TaskMove, turnState, messages, taskData, LastSeqForTurn
  <1>20. ASSUME NEW u \in Turn, MarkFailed(u)
         PROVE  WriterInv(t)'
    BY <1>20, <1>a, <1>b, <1>0, RowsUnchanged DEF MarkFailed, SetFailed, IsRunning, WriterInv, TypeOK, TaskMove, turnState, messages, taskData, LastSeqForTurn, Terminal
  <1>21. ASSUME NEW u \in Turn, TaskRaises(u)
         PROVE  WriterInv(t)'
    BY <1>21, <1>a, <1>b, <1>0, RowsUnchanged DEF TaskRaises, WriterInv, TypeOK, TaskMove, turnState, messages, taskData, LastSeqForTurn
  <1>22. ASSUME NEW u \in Turn, MarkFailedRaises(u)
         PROVE  WriterInv(t)'
    BY <1>22, <1>a, <1>b, <1>0, RowsUnchanged DEF MarkFailedRaises, WriterInv, TypeOK, TaskMove, turnState, messages, taskData, LastSeqForTurn
  <1>23. ASSUME NEW i \in Instance, Start(i)
         PROVE  WriterInv(t)'
    BY <1>23, <1>a, <1>b, <1>0, RowsUnchanged DEF Start, Stale, WriterInv, TypeOK, messages, tasks, taskData, LastSeqForTurn, Terminal
  <1>24. ASSUME NEW i \in Instance, Crash(i)
         PROVE  WriterInv(t)'
    BY <1>24, <1>a, <1>b, <1>0, RowsUnchanged DEF Crash, WriterInv, TypeOK, turnState, messages, taskData, LastSeqForTurn, TaskSyncPc
  <1>25. ASSUME NEW c \in Conn, LoseAppendAck(c)
         PROVE  WriterInv(t)'
    <2>1. SeqsOf(t)' = SeqsOf(t)
      <3>1. t # NoTurn
        BY DEF Turn, NoTurn
      <3> QED
        BY <1>25, <3>1, RowAdded DEF LoseAppendAck, StoreUser
    <2> QED
      BY <1>25, <1>b, <2>1, WriterKeeps DEF LoseAppendAck, StoreUser, turnState, tasks, taskData
  <1>26. ASSUME NEW c \in Conn, LoseCreateAck(c)
         PROVE  WriterInv(t)'
    BY <1>26, <1>a, <1>b, <1>0, RowsUnchanged DEF LoseCreateAck, OpenTurn, WriterInv, TypeOK, NewTurn, messages, LastSeqForTurn, Terminal
  <1>27. ASSUME NEW u \in Turn, LoseFailAck(u)
         PROVE  WriterInv(t)'
    BY <1>27, <1>a, <1>b, <1>0, RowsUnchanged DEF LoseFailAck, SetFailed, IsRunning, WriterInv, TypeOK, TaskMove, turnState, messages, taskData, LastSeqForTurn, Terminal
  <1>28. CASE UNCHANGED vars
    BY <1>28, <1>b, RowsUnchanged, WriterKeeps DEF vars, turnState, messages, tasks, taskData
  <1> QED
    BY <1>1, <1>2, <1>3, <1>4, <1>5, <1>6, <1>7, <1>8, <1>9, <1>10, <1>11, <1>12,
       <1>13, <1>14, <1>15, <1>16, <1>17, <1>18, <1>19, <1>20, <1>21, <1>22, <1>23, <1>24, <1>25,
       <1>26, <1>27, <1>28
       DEF Next, Post, RaisingPost, TailTurn, DrainLeadTurn, RaisingCall

-----------------------------------------------------------------------------
(* The reader side of PipelineInv                                          *)

\* A response that has not subscribed has received nothing.
LEMMA ReaderOff ==
  ASSUME NEW d \in Conn, TypeOK', turn'[d] = NoTurn,
         pc'[d] \notin TailPc \cup {"ended"},
         cursor'[d] = 0, from'[d] = 0, sent'[d] = <<>>, batch'[d] = {}, ~ flip'[d]
  PROVE  ReaderInv(d)'
  <1>1. SentSet(d)' = {} /\ SentInOrder(d)'
    BY DEF SentSet, SentInOrder
  <1>2. \A u : SeqsOf(u)' \subseteq Nat
    BY DEF TypeOK, SeqsOf
  <1> QED
    BY <1>1, <1>2 DEF ReaderInv, FetchSince, TailPc, HandlerPc

\* A response is indifferent to what other requests and tasks do, unless it
\* is a new row or a new status of its own turn.
LEMMA ReaderKeeps ==
  ASSUME NEW d \in Conn, ReaderInv(d),
         UNCHANGED <<turn[d], from[d], cursor[d], flip[d], batch[d], sent[d]>>,
         \/ UNCHANGED pc[d]
         \/ pc'[d] \in {"gone", "error"}
         \/ pc[d] \in HandlerPc \cup {"idle"} /\ pc'[d] \in HandlerPc,
         SeqsOf(turn[d])' = SeqsOf(turn[d]),
         turn[d] # NoTurn /\ status[turn[d]] \in Terminal =>
            UNCHANGED <<status[turn[d]], error[turn[d]]>>
  PROVE  ReaderInv(d)'
  BY DEF ReaderInv, SentInOrder, SentSet, FetchSince, TailPc, HandlerPc, NoTurn

\* A row stored above every row of the turn reaches the response later.
LEMMA ReaderSeesRow ==
  ASSUME NEW d \in Conn, ReaderInv(d), TypeOK,
         NEW q \in Nat, \A s \in SeqsOf(turn[d]) : s < q,
         SeqsOf(turn[d])' = SeqsOf(turn[d]) \cup {q},
         turn[d] # NoTurn,
         status[turn[d]] \in Terminal => error[turn[d]] = "orphaned",
         UNCHANGED <<pc, turn, from, cursor, flip, batch, sent, status, error>>
  PROVE  ReaderInv(d)'
  <1> DEFINE S == SeqsOf(turn[d])
  <1>1. /\ S \subseteq Nat
        /\ cursor[d] \in Nat /\ from[d] \in Nat
        /\ batch[d] \subseteq S
    BY SeqsAreNat DEF TypeOK, ReaderInv, FetchSince
  <1>2. SentSet(d)' = SentSet(d) /\ SentInOrder(d)' = SentInOrder(d)
    BY DEF SentSet, SentInOrder
  <1>3. cursor[d] = from[d] \/ cursor[d] < q
    BY <1>1 DEF ReaderInv
  <1>4. FetchSince(turn[d], cursor[d])' \subseteq FetchSince(turn[d], cursor[d]) \cup {q}
    BY DEF FetchSince
  <1>5. FetchSince(turn[d], cursor[d]) \subseteq FetchSince(turn[d], cursor[d])'
    BY DEF FetchSince
  <1>6. SentSet(d)' = {s \in SeqsOf(turn[d])' : from'[d] < s /\ s <= cursor'[d]}
    BY <1>1, <1>2, <1>3 DEF ReaderInv
  <1>7. ASSUME NEW s \in FetchSince(turn[d], cursor[d])' \ batch'[d], NEW b \in batch'[d]
        PROVE  b < s
    <2>1. CASE s = q
      BY <1>1, <2>1
    <2>2. CASE s # q
      BY <1>4, <2>2 DEF ReaderInv
    <2> QED
      BY <2>1, <2>2
  <1>8. flip[d] => error[turn[d]] = "orphaned"
    BY DEF ReaderInv
  <1> QED
    BY <1>1, <1>2, <1>5, <1>6, <1>7, <1>8 DEF ReaderInv

\* A response that subscribes starts at its from_seq with nothing received.
LEMMA ReaderJoins ==
  ASSUME NEW d \in Conn, TypeOK', turn'[d] \in Turn, pc'[d] = "fetch",
         cursor'[d] = from'[d], sent'[d] = <<>>, batch'[d] = {}, ~ flip'[d]
  PROVE  ReaderInv(d)'
  <1>1. SentSet(d)' = {} /\ SentInOrder(d)'
    BY DEF SentSet, SentInOrder
  <1>2. \A u : SeqsOf(u)' \subseteq Nat
    BY DEF TypeOK, SeqsOf
  <1>3. from'[d] \in Nat /\ turn'[d] # NoTurn
    BY DEF TypeOK, Turn, NoTurn
  <1> QED
    BY <1>1, <1>2, <1>3 DEF ReaderInv, FetchSince, TailPc, HandlerPc

\* One iteration step of the polling loop, seen from its own response.
LEMMA ReaderFetches ==
  ASSUME NEW d \in Conn, ReaderInv(d), TypeOK, Fetch(d)
  PROVE  ReaderInv(d)'
  <1>1. \A u : SeqsOf(u)' = SeqsOf(u)
    BY RowsUnchanged DEF Fetch, messages
  <1>2. /\ batch'[d] = FetchSince(turn[d], cursor[d])
        /\ pc[d] = "fetch" /\ pc'[d] = "emit"
        /\ UNCHANGED <<turn, from, cursor, flip, sent, status, error>>
    BY DEF Fetch, Move, TypeOK, request, turnState
  <1>3. FetchSince(turn[d], cursor[d])' = FetchSince(turn[d], cursor[d])
    BY <1>1, <1>2 DEF FetchSince
  <1>4. SentSet(d)' = SentSet(d) /\ SentInOrder(d)' = SentInOrder(d)
    BY <1>2 DEF SentSet, SentInOrder
  <1> QED
    BY <1>1, <1>2, <1>3, <1>4 DEF ReaderInv, TailPc, HandlerPc

LEMMA ReaderChecks ==
  ASSUME NEW d \in Conn, ReaderInv(d), TypeOK, CheckStatus(d)
  PROVE  ReaderInv(d)'
  <1>1. \A u : SeqsOf(u)' = SeqsOf(u)
    BY RowsUnchanged DEF CheckStatus, messages
  <1>2. /\ UNCHANGED <<turn, from, cursor, batch, sent, status, error>>
        /\ pc[d] = "emit" /\ batch[d] = {}
    BY DEF CheckStatus, request, turnState
  <1>3. FetchSince(turn[d], cursor[d])' = FetchSince(turn[d], cursor[d])
    BY <1>1, <1>2 DEF FetchSince
  <1>4. SentSet(d)' = SentSet(d) /\ SentInOrder(d)' = SentInOrder(d)
    BY <1>2 DEF SentSet, SentInOrder
  <1>5. \/ pc'[d] = "ended" /\ flip[d] /\ UNCHANGED flip
        \/ pc'[d] = "fetch" /\ status[turn[d]] \in Terminal
        \/ pc'[d] = "fetch" /\ UNCHANGED flip
    BY DEF CheckStatus, AfterTerminal, Move, TypeOK
  <1> QED
    BY <1>1, <1>2, <1>3, <1>4, <1>5 DEF ReaderInv, TailPc, HandlerPc

LEMMA ReaderEmits ==
  ASSUME NEW d \in Conn, ReaderInv(d), TypeOK, Emit(d)
  PROVE  ReaderInv(d)'
  <1>1. \A u : SeqsOf(u)' = SeqsOf(u)
    BY RowsUnchanged DEF Emit, messages
  <1>2. PICK s \in batch[d] :
          /\ \A e \in batch[d] : s <= e
          /\ sent' = [sent EXCEPT ![d] = Append(sent[d], s)]
          /\ cursor' = [cursor EXCEPT ![d] = s]
          /\ batch' = [batch EXCEPT ![d] = batch[d] \ {s}]
    BY DEF Emit
  <1>3. /\ UNCHANGED <<pc, turn, from, flip, status, error>>
        /\ pc[d] = "emit"
    BY DEF Emit, request, turnState
  <1>4. /\ sent[d] \in Seq(Nat) /\ s \in Nat /\ cursor[d] \in Nat /\ from[d] \in Nat
        /\ batch[d] \subseteq Nat /\ SeqsOf(turn[d]) \subseteq Nat
    BY SeqsAreNat DEF TypeOK
  <1>5. /\ sent'[d] = Append(sent[d], s) /\ cursor'[d] = s
        /\ batch'[d] = batch[d] \ {s}
    BY <1>2 DEF TypeOK
  <1>6. s \in SeqsOf(turn[d]) /\ cursor[d] < s
    BY DEF ReaderInv, FetchSince
  <1>7. SentSet(d)' = SentSet(d) \cup {s}
    <2>1. /\ Len(sent'[d]) = Len(sent[d]) + 1 /\ Len(sent[d]) \in Nat
          /\ \A n \in 1 .. Len(sent[d]) : sent'[d][n] = sent[d][n]
          /\ sent'[d][Len(sent[d]) + 1] = s
      BY <1>4, <1>5
    <2>2. \A n \in 1 .. Len(sent[d]) + 1 : n \in 1 .. Len(sent[d]) \/ n = Len(sent[d]) + 1
      BY <2>1
    <2>3. ASSUME NEW e \in SentSet(d)' PROVE e \in SentSet(d) \cup {s}
      BY <2>1, <2>2 DEF SentSet
    <2>4. ASSUME NEW e \in SentSet(d) \cup {s} PROVE e \in SentSet(d)'
      <3>1. CASE e = s
        BY <2>1, <3>1 DEF SentSet
      <3>2. CASE e \in SentSet(d)
        <4>1. PICK n \in 1 .. Len(sent[d]) : e = sent[d][n]
          BY <3>2 DEF SentSet
        <4>2. n \in 1 .. Len(sent'[d]) /\ e = sent'[d][n]
          BY <2>1, <4>1
        <4> QED
          BY <4>2 DEF SentSet
      <3> QED
        BY <3>1, <3>2
    <2> QED
      BY <2>3, <2>4
  <1>8. SentInOrder(d)'
    <2>1. \A n \in 1 .. Len(sent[d]) : sent[d][n] < s
      <3>1. \A n \in 1 .. Len(sent[d]) : sent[d][n] \in SentSet(d)
        BY DEF SentSet
      <3> QED
        BY <1>4, <1>6, <3>1 DEF ReaderInv
    <2>2. SentInOrder(d)
      BY DEF ReaderInv
    <2> QED
      BY <1>4, <1>5, <2>1, <2>2 DEF SentInOrder
  <1>9. \A e \in SeqsOf(turn[d]) : cursor[d] < e => s <= e
    <2>1. \A e \in SeqsOf(turn[d]) : cursor[d] < e => e \in FetchSince(turn[d], cursor[d])
      BY <1>4 DEF FetchSince
    <2> QED
      BY <1>2, <1>4, <2>1 DEF ReaderInv
  <1>10. SentSet(d)' = {e \in SeqsOf(turn[d])' : from'[d] < e /\ e <= cursor'[d]}
    <2>1. SentSet(d) = {e \in SeqsOf(turn[d]) : from[d] < e /\ e <= cursor[d]}
      BY DEF ReaderInv
    <2>2. from[d] <= cursor[d]
      BY DEF ReaderInv
    <2> QED
      BY <1>1, <1>3, <1>4, <1>5, <1>6, <1>7, <1>9, <2>1, <2>2
  <1>11. /\ FetchSince(turn[d], cursor[d])' \subseteq FetchSince(turn[d], cursor[d]) \ {s}
         /\ batch'[d] \subseteq FetchSince(turn[d], cursor[d])'
    <2>1. batch[d] \subseteq FetchSince(turn[d], cursor[d])
      BY DEF ReaderInv
    <2> QED
      BY <1>1, <1>2, <1>3, <1>4, <1>5, <1>6, <2>1 DEF FetchSince
  <1>12. \A e \in FetchSince(turn[d], cursor[d])' \ batch'[d] : \A b \in batch'[d] : b < e
    BY <1>5, <1>11 DEF ReaderInv
  <1> QED
    BY <1>1, <1>3, <1>4, <1>5, <1>6, <1>8, <1>10, <1>11, <1>12
       DEF ReaderInv, TailPc, HandlerPc

\* No step of any process breaks the discipline of a response.
LEMMA ReaderNext ==
  ASSUME TypeOK, PipelineInv, NEW d \in Conn, [Next]_vars
  PROVE  ReaderInv(d)'
  <1>0. TypeOK' /\ ReaderInv(d)
    BY TypeNext DEF PipelineInv
  <1>a. turn[d] \in Turn \cup {NoTurn} /\ pc[d] \in ConnPc
    BY DEF TypeOK
  <1>b. NoTurn \notin Turn
    BY DEF Turn, NoTurn
  <1>1. ASSUME NEW c \in Conn, NEW i \in Instance, NEW th \in Thread, Submit(c, i, th)
        PROVE  ReaderInv(d)'
    BY <1>1, <1>0, RowsUnchanged, ReaderKeeps
       DEF Submit, Move, turnState, messages, conns, request, tailVars, TypeOK, HandlerPc
  <1>2. ASSUME NEW c \in Conn, NEW i \in Instance, NEW th \in Thread, TailNotFound(c, i, th)
        PROVE  ReaderInv(d)'
    BY <1>2, <1>0, RowsUnchanged, ReaderKeeps
       DEF TailNotFound, Move, turnState, messages, conns, request, tailVars, TypeOK
  <1>3. ASSUME NEW c \in Conn, NEW i \in Instance, NEW th \in Thread,
              NEW seq \in FromSeq, OpenTail(c, i, th, seq)
        PROVE  ReaderInv(d)'
    <2>1. CASE d = c
      <3>1. /\ turn'[d] \in Turn /\ pc'[d] = "fetch" /\ cursor'[d] = from'[d]
            /\ UNCHANGED <<sent, batch, flip>>
        BY <1>3, <2>1 DEF OpenTail, Move, TypeOK
      <3>2. sent[d] = <<>> /\ batch[d] = {} /\ ~ flip[d]
        BY <1>3, <1>0, <2>1 DEF OpenTail, ReaderInv
      <3> QED
        BY <1>0, <3>1, <3>2, ReaderJoins
    <2>2. CASE d # c
      <3>1. /\ UNCHANGED <<turn[d], from[d], cursor[d], pc[d]>>
            /\ UNCHANGED <<flip, batch, sent, status, error, rows>>
        BY <1>3, <2>2 DEF OpenTail, Move, turnState, messages, TypeOK
      <3> QED
        BY <1>0, <3>1, RowsUnchanged, ReaderKeeps
    <2> QED
      BY <2>1, <2>2
  <1>4. ASSUME NEW c \in Conn, AppendUser(c)
        PROVE  ReaderInv(d)'
    <2>1. /\ UNCHANGED <<turn, from, cursor, flip, batch, sent, status, error>>
          /\ SeqsOf(turn[d])' = SeqsOf(turn[d]) \/ turn[d] = NoTurn
      BY <1>4, RowAdded DEF AppendUser, StoreUser, turnState, messages, conns, request, tailVars
    <2>2. pc'[d] = pc[d] \/ (pc[d] \in HandlerPc /\ pc'[d] \in HandlerPc)
      BY <1>4 DEF AppendUser, Move, TypeOK, HandlerPc
    <2>3. CASE turn[d] = NoTurn
      BY <1>0, <2>1, <2>2, <2>3, ReaderOff DEF ReaderInv, TailPc, HandlerPc
    <2>4. CASE turn[d] # NoTurn
      BY <1>0, <2>1, <2>2, <2>4, ReaderKeeps
    <2> QED
      BY <2>3, <2>4
  <1>5. ASSUME NEW c \in Conn, JoinRunning(c)
        PROVE  ReaderInv(d)'
    <2>1. CASE d = c
      <3>1. /\ turn'[d] \in Turn /\ pc'[d] = "fetch"
            /\ UNCHANGED <<from, cursor, sent, batch, flip>>
        BY <1>5, <2>1 DEF JoinRunning, Move, TypeOK, tailVars
      <3>2. cursor[d] = from[d] /\ sent[d] = <<>> /\ batch[d] = {} /\ ~ flip[d]
        BY <1>5, <1>0, <2>1 DEF JoinRunning, ReaderInv, HandlerPc
      <3> QED
        BY <1>0, <3>1, <3>2, ReaderJoins
    <2>2. CASE d # c
      BY <1>5, <2>2, <1>0, <1>a, RowsUnchanged, ReaderKeeps
         DEF JoinRunning, Move, turnState, messages, conns, request, tailVars, TypeOK
    <2> QED
      BY <2>1, <2>2
  <1>6. ASSUME NEW c \in Conn, CreateTurn(c)
        PROVE  ReaderInv(d)'
    <2>1. CASE d = c
      <3>1. /\ turn'[d] \in Turn /\ pc'[d] = "fetch"
            /\ UNCHANGED <<from, cursor, sent, batch, flip>>
        BY <1>6, <2>1 DEF CreateTurn, Move, TypeOK, tailVars
      <3>2. cursor[d] = from[d] /\ sent[d] = <<>> /\ batch[d] = {} /\ ~ flip[d]
        BY <1>6, <1>0, <2>1 DEF CreateTurn, ReaderInv, HandlerPc
      <3> QED
        BY <1>0, <3>1, <3>2, ReaderJoins
    <2>2. CASE d # c
      <3>1. /\ UNCHANGED <<turn[d], pc[d], from, cursor, flip, batch, sent, error, rows>>
        BY <1>6, <2>2 DEF CreateTurn, OpenTurn, Move, messages, tailVars, TypeOK
      <3>2. turn[d] # NoTurn /\ status[turn[d]] \in Terminal => status'[turn[d]] = status[turn[d]]
        BY <1>6, <1>a DEF CreateTurn, OpenTurn, NewTurn, Terminal, TypeOK
      <3> QED
        BY <1>0, <3>1, <3>2, RowsUnchanged, ReaderKeeps
    <2> QED
      BY <2>1, <2>2
  <1>7. ASSUME NEW c \in Conn, PassGuard(c)
        PROVE  ReaderInv(d)'
    BY <1>7, <1>0, RowsUnchanged, ReaderKeeps
       DEF PassGuard, Move, turnState, messages, conns, request, tailVars, TypeOK, HandlerPc
  <1>8. ASSUME NEW c \in Conn, HandlerRaises(c)
        PROVE  ReaderInv(d)'
    BY <1>8, <1>0, RowsUnchanged, ReaderKeeps
       DEF HandlerRaises, Move, turnState, messages, conns, request, tailVars, TypeOK
  <1>9. ASSUME NEW c \in Conn, Disconnect(c)
        PROVE  ReaderInv(d)'
    BY <1>9, <1>0, RowsUnchanged, ReaderKeeps
       DEF Disconnect, Move, turnState, messages, conns, request, tailVars, TypeOK
  <1>10. ASSUME NEW c \in Conn, Fetch(c)
         PROVE  ReaderInv(d)'
    <2>1. CASE d = c
      BY <1>10, <1>0, <2>1, ReaderFetches
    <2>2. CASE d # c
      BY <1>10, <2>2, <1>0, RowsUnchanged, ReaderKeeps
         DEF Fetch, Move, turnState, messages, conns, request, tailVars, TypeOK
    <2> QED
      BY <2>1, <2>2
  <1>11. ASSUME NEW c \in Conn, Emit(c)
         PROVE  ReaderInv(d)'
    <2>1. CASE d = c
      BY <1>11, <1>0, <2>1, ReaderEmits
    <2>2. CASE d # c
      BY <1>11, <2>2, <1>0, RowsUnchanged, ReaderKeeps
         DEF Emit, Move, turnState, messages, conns, request, tailVars, TypeOK
    <2> QED
      BY <2>1, <2>2
  <1>12. ASSUME NEW c \in Conn, CheckStatus(c)
         PROVE  ReaderInv(d)'
    <2>1. CASE d = c
      BY <1>12, <1>0, <2>1, ReaderChecks
    <2>2. CASE d # c
      BY <1>12, <2>2, <1>0, RowsUnchanged, ReaderKeeps
         DEF CheckStatus, Move, turnState, messages, conns, request, tailVars, TypeOK, AfterTerminal
    <2> QED
      BY <2>1, <2>2
  <1>13. ASSUME NEW u \in Turn, BeginInsert(u)
         PROVE  ReaderInv(d)'
    BY <1>13, <1>0, RowsUnchanged, ReaderKeeps DEF BeginInsert, turnState, messages, conns, request, tailVars
  <1>14. ASSUME NEW u \in Turn, CommitInsert(u)
         PROVE  ReaderInv(d)'
    <2>1. UNCHANGED <<pc, turn, from, cursor, flip, batch, sent, status, error>>
      BY <1>14 DEF CommitInsert, turnState, messages, conns, request, tailVars
    <2>2. CASE turn[d] = u
      <3>1. SeqsOf(turn[d])' = SeqsOf(turn[d]) \cup {taskSeq[u]} /\ taskSeq[u] \in Nat
        <4>1. StoreRow(u) /\ UNCHANGED turn
          BY <1>14, <2>1 DEF CommitInsert
        <4> QED
          BY <2>2, <4>1, RowStored DEF TypeOK
      <3>2. WriterInv(u) /\ taskPc[u] = "insert"
        BY <1>14 DEF PipelineInv, CommitInsert
      <3>3. /\ \A s \in SeqsOf(turn[d]) : s < taskSeq[u]
            /\ status[turn[d]] \in Terminal => error[turn[d]] = "orphaned"
        BY <2>2, <3>2 DEF WriterInv
      <3> QED
        BY <1>0, <1>b, <2>1, <2>2, <3>1, <3>3, ReaderSeesRow
    <2>3. CASE turn[d] # u
      <3>1. SeqsOf(turn[d])' = SeqsOf(turn[d])
        <4>1. StoreRow(u) /\ UNCHANGED turn
          BY <1>14, <2>1 DEF CommitInsert
        <4> QED
          BY <2>3, <4>1, RowStored
      <3> QED
        BY <1>0, <2>1, <3>1, ReaderKeeps
    <2> QED
      BY <2>2, <2>3
  <1>15. ASSUME NEW u \in Turn, LoseInsertAck(u)
         PROVE  ReaderInv(d)'
    <2>1. UNCHANGED <<pc, turn, from, cursor, flip, batch, sent, status, error>>
      BY <1>15 DEF LoseInsertAck, turnState, messages, conns, request, tailVars
    <2>2. CASE turn[d] = u
      <3>1. SeqsOf(turn[d])' = SeqsOf(turn[d]) \cup {taskSeq[u]} /\ taskSeq[u] \in Nat
        <4>1. StoreRow(u) /\ UNCHANGED turn
          BY <1>15, <2>1 DEF LoseInsertAck
        <4> QED
          BY <2>2, <4>1, RowStored DEF TypeOK
      <3>2. WriterInv(u) /\ taskPc[u] = "insert"
        BY <1>15 DEF PipelineInv, LoseInsertAck
      <3>3. /\ \A s \in SeqsOf(turn[d]) : s < taskSeq[u]
            /\ status[turn[d]] \in Terminal => error[turn[d]] = "orphaned"
        BY <2>2, <3>2 DEF WriterInv
      <3> QED
        BY <1>0, <1>b, <2>1, <2>2, <3>1, <3>3, ReaderSeesRow
    <2>3. CASE turn[d] # u
      <3>1. SeqsOf(turn[d])' = SeqsOf(turn[d])
        <4>1. StoreRow(u) /\ UNCHANGED turn
          BY <1>15, <2>1 DEF LoseInsertAck
        <4> QED
          BY <2>3, <4>1, RowStored
      <3> QED
        BY <1>0, <2>1, <3>1, ReaderKeeps
    <2> QED
      BY <2>2, <2>3
  <1>16. ASSUME NEW u \in Turn, StreamEnds(u)
         PROVE  ReaderInv(d)'
    BY <1>16, <1>0, RowsUnchanged, ReaderKeeps DEF StreamEnds, turnState, messages, conns, request, tailVars
  <1>17. ASSUME NEW u \in Turn, MarkComplete(u)
         PROVE  ReaderInv(d)'
    BY <1>17, <1>0, RowsUnchanged, ReaderKeeps
       DEF MarkComplete, SetComplete, IsRunning, Terminal, TypeOK, turnState, messages, conns, request, tailVars
  <1>18. ASSUME NEW u \in Turn, LoseMarkAck(u)
         PROVE  ReaderInv(d)'
    BY <1>18, <1>0, RowsUnchanged, ReaderKeeps
       DEF LoseMarkAck, SetComplete, IsRunning, Terminal, TypeOK, turnState, messages, conns, request, tailVars
  <1>19. ASSUME NEW u \in Turn, MarkFailed(u)
         PROVE  ReaderInv(d)'
    BY <1>19, <1>0, RowsUnchanged, ReaderKeeps
       DEF MarkFailed, SetFailed, IsRunning, Terminal, TypeOK, turnState, messages, conns, request, tailVars
  <1>20. ASSUME NEW u \in Turn, TaskRaises(u)
         PROVE  ReaderInv(d)'
    BY <1>20, <1>0, RowsUnchanged, ReaderKeeps DEF TaskRaises, turnState, messages, conns, request, tailVars
  <1>21. ASSUME NEW u \in Turn, MarkFailedRaises(u)
         PROVE  ReaderInv(d)'
    BY <1>21, <1>0, RowsUnchanged, ReaderKeeps DEF MarkFailedRaises, turnState, messages, conns, request, tailVars
  <1>22. ASSUME NEW u \in Turn, Age(u)
         PROVE  ReaderInv(d)'
    BY <1>22, <1>0, RowsUnchanged, ReaderKeeps DEF Age, turnState, messages, conns, request, tailVars
  <1>23. ASSUME NEW i \in Instance, Start(i)
         PROVE  ReaderInv(d)'
    BY <1>23, <1>0, <1>a, RowsUnchanged, ReaderKeeps
       DEF Start, Stale, Terminal, TypeOK, turnState, messages, conns, request, tailVars
  <1>24. ASSUME NEW i \in Instance, Crash(i)
         PROVE  ReaderInv(d)'
    BY <1>24, <1>0, RowsUnchanged, ReaderKeeps DEF Crash, TypeOK, turnState, messages, conns, request, tailVars
  <1>25. ASSUME NEW c \in Conn, LoseAppendAck(c)
         PROVE  ReaderInv(d)'
    <2>1. /\ UNCHANGED <<turn, from, cursor, flip, batch, sent, status, error>>
          /\ SeqsOf(turn[d])' = SeqsOf(turn[d]) \/ turn[d] = NoTurn
      BY <1>25, RowAdded DEF LoseAppendAck, StoreUser, turnState, messages, conns, request, tailVars
    <2>2. pc'[d] = pc[d] \/ pc'[d] = "error"
      BY <1>25 DEF LoseAppendAck, Move, TypeOK
    <2>3. CASE turn[d] = NoTurn
      BY <1>0, <2>1, <2>2, <2>3, ReaderOff DEF ReaderInv, TailPc, HandlerPc
    <2>4. CASE turn[d] # NoTurn
      BY <1>0, <2>1, <2>2, <2>4, ReaderKeeps
    <2> QED
      BY <2>3, <2>4
  <1>26. ASSUME NEW c \in Conn, LoseCreateAck(c)
         PROVE  ReaderInv(d)'
    <2>1. /\ UNCHANGED <<turn, from, cursor, flip, batch, sent, error, rows>>
          /\ pc'[d] = pc[d] \/ pc'[d] = "error"
      BY <1>26 DEF LoseCreateAck, OpenTurn, Move, messages, request, tailVars, TypeOK
    <2>2. turn[d] # NoTurn /\ status[turn[d]] \in Terminal => status'[turn[d]] = status[turn[d]]
      BY <1>26, <1>a DEF LoseCreateAck, OpenTurn, NewTurn, Terminal, TypeOK
    <2> QED
      BY <1>0, <2>1, <2>2, RowsUnchanged, ReaderKeeps
  <1>27. ASSUME NEW u \in Turn, LoseFailAck(u)
         PROVE  ReaderInv(d)'
    BY <1>27, <1>0, RowsUnchanged, ReaderKeeps
       DEF LoseFailAck, SetFailed, IsRunning, Terminal, TypeOK, turnState, messages, conns, request, tailVars
  <1>28. CASE UNCHANGED vars
    BY <1>28, <1>0, RowsUnchanged, ReaderKeeps DEF vars, turnState, messages, conns, request, tailVars
  <1> QED
    BY <1>1, <1>2, <1>3, <1>4, <1>5, <1>6, <1>7, <1>8, <1>9, <1>10, <1>11, <1>12,
       <1>13, <1>14, <1>15, <1>16, <1>17, <1>18, <1>19, <1>20, <1>21, <1>22, <1>23, <1>24, <1>25,
       <1>26, <1>27, <1>28
       DEF Next, Post, RaisingPost, TailTurn, DrainLeadTurn, RaisingCall

-----------------------------------------------------------------------------
(* The theorems                                                            *)

LEMMA PipelineInit == Init => PipelineInv
  <1> SUFFICES ASSUME Init PROVE PipelineInv
    OBVIOUS
  <1>1. \A t : SeqsOf(t) = {}
    BY DEF Init, SeqsOf
  <1>2. ASSUME NEW t \in Turn PROVE WriterInv(t)
    BY <1>1 DEF Init, WriterInv, Terminal
  <1>3. ASSUME NEW d \in Conn PROVE ReaderInv(d)
    <2>1. SentSet(d) = {} /\ SentInOrder(d)
      BY DEF Init, SentSet, SentInOrder
    <2> QED
      BY <1>1, <2>1 DEF Init, ReaderInv, FetchSince, TailPc, HandlerPc, NoTurn
  <1> QED
    BY <1>2, <1>3 DEF PipelineInv

\* The writer and reader disciplines hold at every moment.
THEOREM PipelineCorrect == Spec => []PipelineInv
  <1>1. TypeOK /\ PipelineInv /\ [Next]_vars => PipelineInv'
    BY WriterNext, ReaderNext DEF PipelineInv
  <1> QED
    BY <1>1, PipelineInit, TypeCorrect, PTL DEF Spec

\* What a response has carried is, in order and once each, exactly its turn's
\* rows up to the cursor: on any number of processes, with rows committing out
\* of seq_no order, crashes, raising calls and sweeps of live turns.
THEOREM TailIsExact == Spec => []TailExact
  <1>1. PipelineInv => TailExact
    BY DEF PipelineInv, ReaderInv, TailExact
  <1> QED
    BY <1>1, PipelineCorrect, PTL

\* A stream that ends by itself has carried the whole of a turn that was not
\* swept.
THEOREM TailIsComplete == Spec => []TailComplete
  <1>1. TypeOK /\ PipelineInv => TailComplete
    <2> SUFFICES ASSUME TypeOK, PipelineInv, NEW c \in Conn, pc[c] = "ended",
                        error[turn[c]] # "orphaned",
                        NEW s \in SeqsOf(turn[c]), s > from[c]
                 PROVE  s \in SentSet(c)
      BY DEF TailComplete
    <2>1. ReaderInv(c)
      BY DEF PipelineInv
    <2>2. s \in Nat /\ cursor[c] \in Nat /\ from[c] \in Nat
      BY SeqsAreNat DEF TypeOK
    <2>3. ~ (s > cursor[c])
      BY <2>1 DEF ReaderInv, FetchSince
    <2>4. from[c] < s /\ s <= cursor[c]
      BY <2>2, <2>3
    <2> QED
      BY <2>1, <2>4 DEF ReaderInv
  <1> QED
    BY <1>1, TypeCorrect, PipelineCorrect, PTL

\* A complete turn is sealed under the last_seq_no it records.
THEOREM CompleteTurnIsSealed == Spec => []CompleteIsSealed
  <1>1. PipelineInv => CompleteIsSealed
    BY DEF PipelineInv, WriterInv, LastSeqForTurn, CompleteIsSealed
  <1> QED
    BY <1>1, PipelineCorrect, PTL

\* A turn that has left 'running' keeps its status, its error and its last
\* seq_no through raised calls that had taken effect, and through sweeps.
LEMMA LatchedStep ==
  ASSUME TypeOK, [Next]_vars, NEW t \in Turn, status[t] \in Terminal
  PROVE  UNCHANGED <<status[t], error[t], lastSeq[t]>>
  <1>1. ASSUME UNCHANGED turnState
        PROVE  UNCHANGED <<status[t], error[t], lastSeq[t]>>
    BY <1>1 DEF turnState
  <1>2. ASSUME NEW c \in Conn, CreateTurn(c) \/ LoseCreateAck(c)
        PROVE  UNCHANGED <<status[t], error[t], lastSeq[t]>>
    BY <1>2 DEF CreateTurn, LoseCreateAck, OpenTurn, NewTurn, Terminal, TypeOK
  <1>3. ASSUME NEW u \in Turn, SetComplete(u) \/ SetFailed(u)
        PROVE  UNCHANGED <<status[t], error[t], lastSeq[t]>>
    BY <1>3 DEF SetComplete, SetFailed, IsRunning, Terminal, TypeOK, turnState
  <1>4. ASSUME NEW i \in Instance, Start(i)
        PROVE  UNCHANGED <<status[t], error[t], lastSeq[t]>>
    BY <1>4 DEF Start, Stale, Terminal, TypeOK
  <1>5. ASSUME NEW c \in Conn, NEW i \in Instance, NEW th \in Thread,
               \/ Submit(c, i, th) \/ TailNotFound(c, i, th)
               \/ \E seq \in FromSeq : OpenTail(c, i, th, seq)
        PROVE  UNCHANGED turnState
    BY <1>5 DEF Submit, TailNotFound, OpenTail
  <1>6. ASSUME NEW c \in Conn,
               \/ AppendUser(c) \/ JoinRunning(c) \/ PassGuard(c) \/ HandlerRaises(c)
               \/ LoseAppendAck(c) \/ TailTurn(c) \/ Disconnect(c)
        PROVE  UNCHANGED turnState
    BY <1>6 DEF AppendUser, JoinRunning, PassGuard, HandlerRaises, LoseAppendAck, TailTurn,
                Fetch, Emit, CheckStatus, Disconnect
  <1>7. ASSUME NEW u \in Turn,
               \/ BeginInsert(u) \/ CommitInsert(u) \/ StreamEnds(u) \/ LoseInsertAck(u)
               \/ TaskRaises(u) \/ MarkFailedRaises(u) \/ Age(u)
        PROVE  UNCHANGED turnState
    BY <1>7 DEF BeginInsert, CommitInsert, StreamEnds, LoseInsertAck, TaskRaises,
                MarkFailedRaises, Age
  <1>8. ASSUME NEW u \in Turn, MarkComplete(u) \/ LoseMarkAck(u) \/ MarkFailed(u) \/ LoseFailAck(u)
        PROVE  SetComplete(u) \/ SetFailed(u)
    BY <1>8 DEF MarkComplete, LoseMarkAck, MarkFailed, LoseFailAck
  <1>9. ASSUME NEW i \in Instance, Crash(i)
        PROVE  UNCHANGED turnState
    BY <1>9 DEF Crash
  <1>10. CASE UNCHANGED vars
    BY <1>1, <1>10 DEF vars
  <1> QED
    BY <1>1, <1>2, <1>3, <1>4, <1>5, <1>6, <1>7, <1>8, <1>9, <1>10
       DEF Next, Post, RaisingPost, DrainLeadTurn, RaisingCall

THEOREM LeavesRunningOnce == Spec => StatusLatched
  <1>1. TypeOK /\ [Next]_vars =>
          [\A t \in Turn :
              status[t] \in Terminal => UNCHANGED <<status[t], error[t], lastSeq[t]>>]_vars
    BY LatchedStep
  <1> QED
    BY <1>1, TypeCorrect, PTL DEF Spec, StatusLatched
=============================================================================
