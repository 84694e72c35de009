--------------------------- MODULE ThreadPageProofs ---------------------------
(***************************************************************************)
(* The lock of the composer, for every number of threads, questions and    *)
(* streams, and any failures and reloads.  That a locked thread has a      *)
(* stream under way is not inductive: a stream that has received its final *)
(* answer is still under way, but its end unlocks nothing.  The invariant  *)
(* asks for a stream without a final answer.                               *)
(* And the answers the page shows: that a thread at rest is shown in full  *)
(* is not inductive, because it is never at rest while a request that read *)
(* too early is under way.  The invariant follows the debt: the last turn  *)
(* of a thread that lost no stream is still tailed by one that will        *)
(* invalidate the thread, or the thread is invalidated, or what is cached  *)
(* or on its way is complete.                                              *)
(* Last the types, whose bound on turns needs that a question counts once. *)
(***************************************************************************)
EXTENDS ThreadPage, FiniteSetTheorems, TLAPS

USE ThreadPageAssumption

\* The part of TypeOK the lock rests on.
StreamTypes ==
    /\ born \subseteq Thread
    /\ view \in Thread \cup {NoThread}
    /\ live \subseteq Thread
    /\ cpc \in [Conn -> {"off", "create", "request", "open"}]
    /\ cthread \in [Conn -> Thread \cup {NoThread}]
    /\ cfinal \in [Conn -> BOOLEAN]

\* A stream that unlocks its thread when it ends.
Unlocks(c, t) == cthread[c] = t /\ cpc[c] \in {"request", "open"} /\ ~ cfinal[c]

LockInv ==
    /\ StreamTypes
    /\ \A c \in Conn : cpc[c] \in {"off", "create"} => ~ cfinal[c]
    /\ \A t \in live : \E c \in Conn : Unlocks(c, t)

-----------------------------------------------------------------------------

LEMMA InitLock == Init => LockInv
  BY DEF Init, LockInv, StreamTypes

\* Nothing the lock rests on is touched.
LEMMA LockKept ==
  ASSUME LockInv, UNCHANGED <<live, cpc, cthread, cfinal>>,
         born' \subseteq Thread, view' \in Thread \cup {NoThread}
  PROVE  LockInv'
  BY DEF LockInv, StreamTypes, Unlocks

\* streamStarted: a stream begins without a final answer.
LEMMA StartKeeps ==
  ASSUME LockInv, NEW c \in Conn, NEW kind, NEW t \in Thread, NEW ask, Start(c, kind, t, ask),
         cpc[c] \in {"off", "create"}, born' \subseteq Thread, view' \in Thread \cup {NoThread}
  PROVE  LockInv'
  <1>1. /\ live' = live \cup {t} /\ cfinal' = cfinal
        /\ cpc' = [cpc EXCEPT ![c] = "request"] /\ cthread' = [cthread EXCEPT ![c] = t]
    BY DEF Start
  <1>2. StreamTypes'
    BY <1>1 DEF LockInv, StreamTypes
  <1>3. /\ cpc'[c] = "request" /\ cthread'[c] = t /\ ~ cfinal'[c]
        /\ \A d \in Conn \ {c} : cpc'[d] = cpc[d] /\ cthread'[d] = cthread[d]
    BY <1>1 DEF LockInv, StreamTypes
  <1>4. ASSUME NEW u \in live' PROVE \E d \in Conn : Unlocks(d, u)'
    <2>1. CASE u = t
      BY <1>3, <2>1 DEF Unlocks
    <2>2. CASE u \in live
      <3>1. PICK d \in Conn : Unlocks(d, u)
        BY <2>2 DEF LockInv
      <3>2. d # c
        BY <1>1, <3>1 DEF Unlocks
      <3> QED
        BY <1>1, <1>3, <3>1, <3>2 DEF Unlocks
    <2> QED
      BY <1>1, <1>4, <2>1, <2>2
  <1>5. \A d \in Conn : cpc'[d] \in {"off", "create"} => ~ cfinal'[d]
    BY <1>1, <1>3 DEF LockInv
  <1> QED
    BY <1>2, <1>4, <1>5 DEF LockInv

\* A stream ends: it unlocks its thread, has done so before, or has none yet.
LEMMA EndKeeps ==
  ASSUME LockInv, NEW c \in Conn, Ends(c),
         Unlock(c) \/ (live' = live /\ (cfinal[c] \/ cpc[c] = "create")),
         UNCHANGED <<born, view>>
  PROVE  LockInv'
  <1>1. /\ cpc' = [cpc EXCEPT ![c] = "off"] /\ cthread' = [cthread EXCEPT ![c] = NoThread]
        /\ cfinal' = [cfinal EXCEPT ![c] = FALSE] /\ live' \subseteq live
    BY DEF Ends, Unlock
  <1>2. StreamTypes'
    BY <1>1 DEF LockInv, StreamTypes
  <1>3. /\ ~ cfinal'[c]
        /\ \A d \in Conn \ {c} : /\ cpc'[d] = cpc[d] /\ cthread'[d] = cthread[d]
                                 /\ cfinal'[d] = cfinal[d]
    BY <1>1 DEF LockInv, StreamTypes
  <1>4. ASSUME NEW u \in live' PROVE \E d \in Conn : Unlocks(d, u)'
    <2>1. PICK d \in Conn : Unlocks(d, u)
      BY <1>1 DEF LockInv
    <2>2. d # c
      BY <2>1 DEF Unlock, Unlocks
    <2> QED
      BY <1>3, <2>1, <2>2 DEF Unlocks
  <1>5. \A d \in Conn : cpc'[d] \in {"off", "create"} => ~ cfinal'[d]
    BY <1>3 DEF LockInv
  <1> QED
    BY <1>2, <1>4, <1>5 DEF LockInv

\* A question whose thread is yet to be created.
LEMMA NewKeeps ==
  ASSUME LockInv, NEW c \in Conn, cpc[c] = "off", cpc' = [cpc EXCEPT ![c] = "create"],
         UNCHANGED <<born, view, live, cthread, cfinal>>
  PROVE  LockInv'
  <1>1. /\ cpc' \in [Conn -> {"off", "create", "request", "open"}] /\ ~ cfinal[c]
        /\ \A d \in Conn \ {c} : cpc'[d] = cpc[d]
    BY DEF LockInv, StreamTypes
  <1> QED
    BY <1>1 DEF LockInv, StreamTypes, Unlocks

\* The request of a stream is answered.
LEMMA AnswerKeeps ==
  ASSUME LockInv, NEW c \in Conn, cpc[c] = "request", cpc' = [cpc EXCEPT ![c] = "open"],
         born' \subseteq Thread, UNCHANGED <<view, live, cthread, cfinal>>
  PROVE  LockInv'
  <1>1. /\ cpc' \in [Conn -> {"off", "create", "request", "open"}] /\ cpc'[c] = "open"
        /\ \A d \in Conn \ {c} : cpc'[d] = cpc[d]
    BY DEF LockInv, StreamTypes
  <1> QED
    BY <1>1 DEF LockInv, StreamTypes, Unlocks

\* A final answer unlocks the thread, and the stream with it loses its say.
LEMMA ReceiveKeeps ==
  ASSUME LockInv, NEW c \in Conn, Receive(c)
  PROVE  LockInv'
  <1>1. /\ cpc[c] = "open" /\ UNCHANGED <<born, view, cpc, cthread>>
        /\ \/ Unlock(c) /\ cfinal' = [cfinal EXCEPT ![c] = TRUE]
           \/ UNCHANGED <<live, cfinal>>
    BY DEF Receive, server
  <1>2. CASE UNCHANGED <<live, cfinal>>
    BY <1>1, <1>2, LockKept DEF LockInv, StreamTypes
  <1>3. CASE Unlock(c) /\ cfinal' = [cfinal EXCEPT ![c] = TRUE]
    <2>1. StreamTypes' /\ \A d \in Conn \ {c} : cfinal'[d] = cfinal[d]
      BY <1>1, <1>3 DEF LockInv, StreamTypes, Unlock
    <2>2. ASSUME NEW u \in live' PROVE \E d \in Conn : Unlocks(d, u)'
      <3>1. PICK d \in Conn : Unlocks(d, u)
        BY <1>3 DEF LockInv, Unlock
      <3>2. d # c
        BY <1>3, <3>1 DEF Unlock, Unlocks
      <3> QED
        BY <1>1, <2>1, <3>1, <3>2 DEF Unlocks
    <2>3. \A d \in Conn : cpc'[d] \in {"off", "create"} => ~ cfinal'[d]
      BY <1>1, <2>1 DEF LockInv
    <2> QED
      BY <2>1, <2>2, <2>3 DEF LockInv
  <1> QED
    BY <1>1, <1>2, <1>3

LEMMA StreamKeeps ==
  ASSUME LockInv, NEW c \in Conn, Stream(c)
  PROVE  LockInv'
  <1> USE DEF server, slice
  <1>1. CASE PostAnswered(c)
    <2>1. /\ cpc[c] = "request" /\ cpc' = [cpc EXCEPT ![c] = "open"]
          /\ UNCHANGED <<born, view, live, cthread, cfinal>>
      BY <1>1 DEF PostAnswered, StartTurn
    <2> QED
      BY <2>1, AnswerKeeps DEF LockInv, StreamTypes
  <1>2. CASE TailAnswered(c)
    <2>1. /\ cpc[c] = "request" /\ cpc' = [cpc EXCEPT ![c] = "open"]
          /\ UNCHANGED <<born, view, live, cthread, cfinal>>
      BY <1>2 DEF TailAnswered
    <2> QED
      BY <2>1, AnswerKeeps DEF LockInv, StreamTypes
  <1>3. CASE TailNotFound(c)
    BY <1>3, EndKeeps DEF TailNotFound
  <1>4. CASE RequestFails(c)
    BY <1>4, EndKeeps DEF RequestFails, StartTurn
  <1>5. CASE Receive(c)
    BY <1>5, ReceiveKeeps
  <1>6. CASE Close(c)
    BY <1>6, EndKeeps DEF Close, CloseUnlocks
  <1>7. CASE Break(c)
    BY <1>7, EndKeeps DEF Break
  <1> QED
    BY <1>1, <1>2, <1>3, <1>4, <1>5, <1>6, <1>7 DEF Stream

LEMMA UserKeeps ==
  ASSUME LockInv, User
  PROVE  LockInv'
  <1> USE DEF server, slice, streams
  <1>1. ASSUME NEW c \in Conn, NEW x \in Content, SubmitHere(c, x)
        PROVE  LockInv'
    <2>1. /\ view \in Thread /\ Start(c, "post", view, {x}) /\ UNCHANGED <<born, view>>
          /\ cpc[c] = "off"
      BY <1>1 DEF SubmitHere, LockInv, StreamTypes
    <2> QED
      BY <2>1, StartKeeps DEF LockInv, StreamTypes
  <1>2. ASSUME NEW c \in Conn, NEW x \in Content, SubmitNew(c, x)
        PROVE  LockInv'
    BY <1>2, NewKeeps DEF SubmitNew
  <1>3. ASSUME NEW v \in born \cup {NoThread}, Navigate(v)
        PROVE  LockInv'
    BY <1>3, LockKept DEF Navigate, LockInv, StreamTypes
  <1>4. CASE Reload
    <2>1. /\ live' = {} /\ cpc' = [c \in Conn |-> "off"] /\ cthread' = [c \in Conn |-> NoThread]
          /\ cfinal' = [c \in Conn |-> FALSE] /\ UNCHANGED <<born, view>>
      BY <1>4 DEF Reload
    <2> QED
      BY <2>1 DEF LockInv, StreamTypes
  <1>5. CASE Remount
    BY <1>5, LockKept DEF Remount, LockInv, StreamTypes
  <1> QED
    BY <1>1, <1>2, <1>3, <1>4, <1>5 DEF User

LEMMA NextLock == LockInv /\ [Next]_vars => LockInv'
  <1> SUFFICES ASSUME LockInv, [Next]_vars PROVE LockInv'
    OBVIOUS
  <1> USE DEF server, slice, streams
  <1>1. CASE User
    BY <1>1, UserKeeps
  <1>2. ASSUME NEW c \in Conn, NEW t \in Thread, Created(c, t)
        PROVE  LockInv'
    <2>1. /\ born' \subseteq Thread /\ view' \in Thread \cup {NoThread}
          /\ Start(c, "post", t, cask[c]) /\ cpc[c] = "create"
      BY <1>2 DEF Created, LockInv, StreamTypes
    <2> QED
      BY <2>1, StartKeeps
  <1>9. ASSUME NEW c \in Conn, CreateFails(c)
        PROVE  LockInv'
    BY <1>9, EndKeeps DEF CreateFails
  <1>3. CASE ClearBubble \/ Refetch
    <2>1. UNCHANGED <<born, view, live, cpc, cthread, cfinal>>
      BY <1>3 DEF ClearBubble, Refetch
    <2> QED
      BY <2>1, LockKept DEF LockInv, StreamTypes
  <1>4. ASSUME NEW c \in Conn, Reconnect(c)
        PROVE  LockInv'
    <2>1. /\ view \in Thread /\ Start(c, "tail", view, {}) /\ UNCHANGED <<born, view>>
          /\ cpc[c] = "off"
      BY <1>4 DEF Reconnect, ReconnectDue, LockInv, StreamTypes
    <2> QED
      BY <2>1, StartKeeps DEF LockInv, StreamTypes
  <1>5. ASSUME NEW c \in Conn, Stream(c)
        PROVE  LockInv'
    BY <1>5, StreamKeeps
  <1>6. ASSUME NEW t \in Thread, Query(t) \/ Expire(t) \/ SealTurn(t)
        PROVE  LockInv'
    <2>1. UNCHANGED <<born, view, live, cpc, cthread, cfinal>>
      BY <1>6 DEF Query, FetchThread, ReadThread, ThreadArrives, Probe, ProbeAnswered, Expire,
                  SealTurn
    <2> QED
      BY <2>1, LockKept DEF LockInv, StreamTypes
  <1>7. ASSUME NEW t \in Thread, NEW w \in What, PersistRow(t, w)
        PROVE  LockInv'
    BY <1>7, LockKept DEF PersistRow, LockInv, StreamTypes
  <1>8. CASE UNCHANGED vars
    BY <1>8, LockKept DEF vars, LockInv, StreamTypes
  <1> QED
    BY <1>1, <1>2, <1>3, <1>4, <1>5, <1>6, <1>7, <1>8, <1>9 DEF Next, NewThread, Page

LEMMA AlwaysLock == Spec => []LockInv
  BY InitLock, NextLock, PTL DEF Spec

\* streamStarted, streamFinal and streamError: whatever streams a tab opens on
\* a thread, and however they end, the composer of the thread is locked only
\* while one of them can still unlock it.
THEOREM LockIsReleased == Spec => []LockHasStream
  <1>1. LockInv => LockHasStream
    BY DEF LockInv, LockHasStream, Unlocks, InFlight
  <1> QED
    BY <1>1, AlwaysLock, PTL

-----------------------------------------------------------------------------
(* The answers shown.                                                      *)

CatchTypes ==
    /\ running \subseteq Thread
    /\ DOMAIN log = Thread /\ turns \in [Thread -> Nat]
    /\ DOMAIN cache = Thread /\ DOMAIN fetch = Thread /\ DOMAIN reading = Thread
    /\ cpc \in [Conn -> {"off", "create", "request", "open"}]
    /\ DOMAIN cthread = Conn
    /\ cturn \in [Conn -> Nat]
    /\ \A c \in Conn : cpc[c] \in {"request", "open"} => cthread[c] \in Thread

\* A stream tails the last turn of t: its end will invalidate t.
Tailed(c, t) == cthread[c] = t /\ cpc[c] = "open" /\ cturn[c] = turns[t]

Covered(t) == \E c \in Conn : Tailed(c, t)

\* What is cached of t, or on its way, has all its rows.
UpToDate(t) ==
    \/ fetch[t] = "sent"
    \/ fetch[t] = "read" /\ reading[t] = Len(log[t])
    \/ fetch[t] = "none" /\ cache[t] \in {-1, Len(log[t])}

AnswerComes(t) ==
    t \notin cut => Covered(t) \/ (t \notin running /\ (t \in stale \/ UpToDate(t)))

CatchInv == CatchTypes /\ \A t \in Thread : AnswerComes(t)

LEMMA InitCatch == Init => CatchInv
  <1> SUFFICES ASSUME Init PROVE CatchInv
    OBVIOUS
  <1>1. CatchTypes
    BY DEF Init, CatchTypes
  <1>2. ASSUME NEW t \in Thread PROVE t \notin running /\ UpToDate(t)
    BY DEF Init, UpToDate
  <1> QED
    BY <1>1, <1>2 DEF CatchInv, AnswerComes

\* A thread whose rows, queries and streams are left alone.
LEMMA ThreadKept ==
  ASSUME NEW u \in Thread, CatchInv,
         u \in cut => u \in cut', u \in running' => u \in running, u \in stale => u \in stale',
         log'[u] = log[u], turns'[u] = turns[u], cache'[u] = cache[u],
         fetch'[u] = fetch[u], reading'[u] = reading[u],
         \A d \in Conn : Tailed(d, u) =>
             cthread'[d] = cthread[d] /\ cpc'[d] = cpc[d] /\ cturn'[d] = cturn[d]
  PROVE  AnswerComes(u)'
  BY DEF CatchInv, AnswerComes, Covered, Tailed, UpToDate

LEMMA CatchKept ==
  ASSUME CatchInv,
         UNCHANGED <<log, turns, running, cpc, cthread, cturn, cache, fetch, reading, stale, cut>>
  PROVE  CatchInv'
  BY DEF CatchInv, CatchTypes, AnswerComes, Covered, Tailed, UpToDate

\* A stream begins with a request, which tails nothing yet.
LEMMA StartCatch ==
  ASSUME CatchInv, NEW c \in Conn, NEW kind, NEW t \in Thread, NEW ask, Start(c, kind, t, ask),
         cpc[c] \in {"off", "create"},
         UNCHANGED <<log, turns, running, cache, fetch, reading, stale, cut>>
  PROVE  CatchInv'
  <1>1. /\ cturn' = cturn
        /\ cpc' = [cpc EXCEPT ![c] = "request"] /\ cthread' = [cthread EXCEPT ![c] = t]
    BY DEF Start
  <1>2. CatchTypes'
    BY <1>1 DEF CatchInv, CatchTypes
  <1>3. ASSUME NEW u \in Thread PROVE AnswerComes(u)'
    <2>1. \A d \in Conn : Tailed(d, u) => cthread'[d] = cthread[d] /\ cpc'[d] = cpc[d]
      BY <1>1 DEF CatchInv, CatchTypes, Tailed
    <2> QED
      BY <1>1, <2>1, ThreadKept
  <1> QED
    BY <1>2, <1>3 DEF CatchInv

\* A place that tails nothing is used, or given back, by a question whose
\* thread is yet to be created.
LEMMA NewCatch ==
  ASSUME CatchInv, NEW c \in Conn, cpc[c] \in {"off", "create"}, cpc'[c] \in {"off", "create"},
         cpc' \in [Conn -> {"off", "create", "request", "open"}],
         DOMAIN cthread' = Conn, cturn' \in [Conn -> Nat],
         \A d \in Conn \ {c} :
             cpc'[d] = cpc[d] /\ cthread'[d] = cthread[d] /\ cturn'[d] = cturn[d],
         UNCHANGED <<log, turns, running, cache, fetch, reading, stale, cut>>
  PROVE  CatchInv'
  <1>1. CatchTypes'
    BY DEF CatchInv, CatchTypes
  <1>2. ASSUME NEW u \in Thread PROVE AnswerComes(u)'
    <2>1. \A d \in Conn : Tailed(d, u) =>
              cthread'[d] = cthread[d] /\ cpc'[d] = cpc[d] /\ cturn'[d] = cturn[d]
      BY DEF Tailed
    <2> QED
      BY <2>1, ThreadKept
  <1> QED
    BY <1>1, <1>2 DEF CatchInv

\* What the end of a stream does to the streams.
LEMMA EndsFacts ==
  ASSUME CatchTypes, NEW c \in Conn, Ends(c)
  PROVE  /\ cpc' \in [Conn -> {"off", "create", "request", "open"}] /\ DOMAIN cthread' = Conn
         /\ cturn' \in [Conn -> Nat] /\ cpc'[c] = "off"
         /\ \A d \in Conn \ {c} :
                cpc'[d] = cpc[d] /\ cthread'[d] = cthread[d] /\ cturn'[d] = cturn[d]
  BY DEF Ends, CatchTypes

\* What the start or the joining of a turn does to the rows.
LEMMA StartTurnFacts ==
  ASSUME CatchTypes, NEW c, NEW t \in Thread, StartTurn(c, t)
  PROVE  /\ DOMAIN log' = Thread /\ turns' \in [Thread -> Nat] /\ running' = running \cup {t}
         /\ \A u \in Thread \ {t} : log'[u] = log[u] /\ turns'[u] = turns[u]
  BY DEF StartTurn, CatchTypes

\* The lost stream's thread is cut, the other threads are left alone.
LEMMA LostKeeps ==
  ASSUME CatchInv, NEW c \in Conn, cpc[c] \in {"request", "open"}, Ends(c),
         StartTurn(c, cthread[c]) \/ UNCHANGED <<log, turns, running>>,
         cut' = cut \cup {cthread[c]}, UNCHANGED <<cache, fetch, reading, stale>>
  PROVE  CatchInv'
  <1> DEFINE t == cthread[c]
  <1>1. t \in Thread /\ CatchTypes
    BY DEF CatchInv, CatchTypes
  <1>2. /\ DOMAIN log' = Thread /\ turns' \in [Thread -> Nat] /\ running' \subseteq Thread
        /\ \A u \in Thread \ {t} : /\ log'[u] = log[u] /\ turns'[u] = turns[u]
                                   /\ u \in running' => u \in running
    <2>1. CASE StartTurn(c, t)
      BY <1>1, <2>1, StartTurnFacts DEF CatchTypes
    <2>2. CASE UNCHANGED <<log, turns, running>>
      BY <1>1, <2>2 DEF CatchTypes
    <2> QED
      BY <2>1, <2>2
  <1>3. CatchTypes'
    BY <1>1, <1>2, EndsFacts DEF CatchTypes
  <1>4. ASSUME NEW u \in Thread PROVE AnswerComes(u)'
    <2>1. CASE u = t
      BY <2>1 DEF AnswerComes
    <2>2. CASE u # t
      <3>1. \A d \in Conn : Tailed(d, u) =>
                cthread'[d] = cthread[d] /\ cpc'[d] = cpc[d] /\ cturn'[d] = cturn[d]
        BY <1>1, <2>2, EndsFacts DEF Tailed
      <3> QED
        BY <1>2, <2>2, <3>1, ThreadKept
    <2> QED
      BY <2>1, <2>2
  <1> QED
    BY <1>3, <1>4 DEF CatchInv

\* An answered request tails the last turn of its thread.
LEMMA AnsweredCovers ==
  ASSUME CatchInv, NEW c \in Conn, cpc[c] = "request", cpc' = [cpc EXCEPT ![c] = "open"],
         StartTurn(c, cthread[c]) \/ UNCHANGED <<log, turns, running>>,
         cturn' = [cturn EXCEPT ![c] = turns'[cthread[c]]],
         UNCHANGED <<cthread, cache, fetch, reading, stale, cut>>
  PROVE  CatchInv'
  <1> DEFINE t == cthread[c]
  <1>1. t \in Thread /\ CatchTypes
    BY DEF CatchInv, CatchTypes
  <1>2. /\ DOMAIN log' = Thread /\ turns' \in [Thread -> Nat] /\ running' \subseteq Thread
        /\ \A u \in Thread \ {t} : /\ log'[u] = log[u] /\ turns'[u] = turns[u]
                                   /\ u \in running' => u \in running
    <2>1. CASE StartTurn(c, t)
      BY <1>1, <2>1, StartTurnFacts DEF CatchTypes
    <2>2. CASE UNCHANGED <<log, turns, running>>
      BY <1>1, <2>2 DEF CatchTypes
    <2> QED
      BY <2>1, <2>2
  <1>3. /\ cpc' \in [Conn -> {"off", "create", "request", "open"}] /\ cturn' \in [Conn -> Nat]
        /\ cpc'[c] = "open" /\ cturn'[c] = turns'[t]
        /\ \A d \in Conn \ {c} : cpc'[d] = cpc[d] /\ cturn'[d] = cturn[d]
    BY <1>1, <1>2 DEF CatchTypes
  <1>4. CatchTypes'
    BY <1>1, <1>2, <1>3 DEF CatchTypes
  <1>5. ASSUME NEW u \in Thread PROVE AnswerComes(u)'
    <2>1. CASE u = t
      <3>1. Tailed(c, t)'
        BY <1>3 DEF Tailed
      <3> QED
        BY <2>1, <3>1 DEF AnswerComes, Covered
    <2>2. CASE u # t
      <3>1. \A d \in Conn : Tailed(d, u) => cpc'[d] = cpc[d] /\ cturn'[d] = cturn[d]
        BY <1>3, <2>2 DEF Tailed
      <3> QED
        BY <1>2, <2>2, <3>1, ThreadKept
    <2> QED
      BY <2>1, <2>2
  <1> QED
    BY <1>4, <1>5 DEF CatchInv

\* The end of a response invalidates its thread, which is no longer running if
\* it was its last turn.
LEMMA CloseCatch ==
  ASSUME CatchInv, NEW c \in Conn, Close(c)
  PROVE  CatchInv'
  <1> DEFINE t == cthread[c]
  <1>1. /\ cpc[c] = "open" /\ Sealed(t, cturn[c]) /\ Ends(c)
        /\ stale' = stale \cup {t}
        /\ cut' = cut \ {v \in {t} : cturn[c] = turns[v]}
        /\ UNCHANGED <<log, turns, running, cache, fetch, reading>>
    BY DEF Close, server
  <1>2. t \in Thread /\ CatchTypes
    BY <1>1 DEF CatchInv, CatchTypes
  <1>3. CatchTypes'
    BY <1>1, <1>2, EndsFacts DEF CatchTypes
  <1>4. ASSUME NEW u \in Thread PROVE AnswerComes(u)'
    <2>1. CASE u = t /\ cturn[c] = turns[t]
      <3>1. t \notin running'
        BY <1>1, <1>2, <2>1 DEF Sealed, CatchTypes
      <3> QED
        BY <1>1, <2>1, <3>1 DEF AnswerComes
    <2>2. CASE u # t \/ cturn[c] # turns[t]
      <3>1. \A d \in Conn : Tailed(d, u) =>
                cthread'[d] = cthread[d] /\ cpc'[d] = cpc[d] /\ cturn'[d] = cturn[d]
        BY <1>1, <1>2, <2>2, EndsFacts DEF Tailed
      <3>2. u \in cut => u \in cut'
        BY <1>1, <2>2
      <3> QED
        BY <1>1, <3>1, <3>2, ThreadKept
    <2> QED
      BY <2>1, <2>2
  <1> QED
    BY <1>3, <1>4 DEF CatchInv

LEMMA StreamCatch ==
  ASSUME CatchInv, NEW c \in Conn, Stream(c)
  PROVE  CatchInv'
  <1> USE DEF server, slice, queries
  <1>1. CASE PostAnswered(c)
    BY <1>1, AnsweredCovers DEF PostAnswered
  <1>2. CASE TailAnswered(c)
    BY <1>2, AnsweredCovers DEF TailAnswered
  <1>3. CASE TailNotFound(c)
    BY <1>3, LostKeeps DEF TailNotFound
  <1>4. CASE RequestFails(c)
    BY <1>4, LostKeeps DEF RequestFails
  <1>5. CASE Receive(c)
    BY <1>5, CatchKept DEF Receive
  <1>6. CASE Close(c)
    BY <1>6, CloseCatch
  <1>7. CASE Break(c)
    BY <1>7, LostKeeps DEF Break
  <1> QED
    BY <1>1, <1>2, <1>3, <1>4, <1>5, <1>6, <1>7 DEF Stream

\* Rows are stored and turns sealed only while a stream tails the turn, or the
\* thread is cut.
LEMMA TurnCatch ==
  ASSUME CatchInv, NEW t \in Thread, SealTurn(t) \/ \E w \in What : PersistRow(t, w)
  PROVE  CatchInv'
  <1>1. /\ t \in running /\ running' \subseteq running /\ DOMAIN log' = DOMAIN log
        /\ UNCHANGED <<turns, cpc, cthread, cturn, cache, fetch, reading, stale, cut>>
        /\ \A u \in Thread \ {t} : log'[u] = log[u]
    BY DEF SealTurn, PersistRow, CatchInv, CatchTypes, streams, queries
  <1>2. CatchTypes'
    BY <1>1 DEF CatchInv, CatchTypes
  <1>3. ASSUME NEW u \in Thread PROVE AnswerComes(u)'
    <2>1. CASE u = t
      <3>1. t \notin cut => Covered(t)
        BY <1>1 DEF CatchInv, AnswerComes
      <3>2. Covered(t) => Covered(t)'
        BY <1>1 DEF Covered, Tailed
      <3> QED
        BY <1>1, <2>1, <3>1, <3>2 DEF AnswerComes
    <2>2. CASE u # t
      BY <1>1, <2>2, ThreadKept
    <2> QED
      BY <2>1, <2>2
  <1> QED
    BY <1>2, <1>3 DEF CatchInv

\* The reads and answers of one query change what is known of its thread.
LEMMA QueryCatch ==
  ASSUME CatchInv, NEW t \in Thread, Query(t) \/ Expire(t)
  PROVE  CatchInv'
  <1> USE DEF server, streams
  <1>1. CASE Probe(t) \/ ProbeAnswered(t)
    BY <1>1, CatchKept DEF Probe, ProbeAnswered
  <1>2. CASE FetchThread(t) \/ ReadThread(t) \/ ThreadArrives(t) \/ Expire(t)
    <2>1. /\ UNCHANGED <<log, turns, running, cpc, cthread, cturn, stale, cut>>
          /\ DOMAIN cache' = Thread /\ DOMAIN fetch' = Thread /\ DOMAIN reading' = Thread
          /\ \A u \in Thread \ {t} : /\ cache'[u] = cache[u] /\ fetch'[u] = fetch[u]
                                     /\ reading'[u] = reading[u]
      BY <1>2 DEF FetchThread, ReadThread, ThreadArrives, Expire, CatchInv, CatchTypes
    <2>2. CatchTypes'
      BY <2>1 DEF CatchInv, CatchTypes
    <2>3. UpToDate(t) => UpToDate(t)'
      <3>1. CASE FetchThread(t)
        BY <3>1 DEF FetchThread, UpToDate, CatchInv, CatchTypes
      <3>2. CASE ReadThread(t)
        BY <3>2 DEF ReadThread, UpToDate, CatchInv, CatchTypes
      <3>3. CASE ThreadArrives(t)
        <4>1. /\ fetch[t] = "read" /\ fetch'[t] = "none" /\ cache'[t] = reading[t]
              /\ log' = log
          BY <3>3 DEF ThreadArrives, CatchInv, CatchTypes
        <4> QED
          BY <4>1 DEF UpToDate
      <3>4. CASE Expire(t)
        BY <3>4 DEF Expire, UpToDate, CatchInv, CatchTypes
      <3> QED
        BY <1>2, <3>1, <3>2, <3>3, <3>4
    <2>4. ASSUME NEW u \in Thread PROVE AnswerComes(u)'
      <3>1. CASE u = t
        <4>1. AnswerComes(t)
          BY DEF CatchInv
        <4>2. Covered(t) => Covered(t)'
          BY <2>1 DEF Covered, Tailed
        <4> QED
          BY <2>1, <2>3, <3>1, <4>1, <4>2 DEF AnswerComes
      <3>2. CASE u # t
        BY <2>1, <3>2, ThreadKept
      <3> QED
        BY <3>1, <3>2
    <2> QED
      BY <2>2, <2>4 DEF CatchInv
  <1> QED
    BY <1>1, <1>2 DEF Query

\* The invalidated threads are fetched again or dropped, and no answer that
\* was read before is still on its way.
LEMMA RefetchCatch ==
  ASSUME CatchInv, Refetch
  PROVE  CatchInv'
  <1>1. /\ UNCHANGED <<log, turns, running, cpc, cthread, cturn, reading, cut>>
        /\ stale' = {}
        /\ fetch' = [t \in Thread |-> IF t \in stale /\ t = view /\ fetch[t] = "none"
                                      THEN "sent" ELSE fetch[t]]
        /\ cache' = [t \in Thread |-> IF t \in stale /\ t # view THEN -1 ELSE cache[t]]
    BY DEF Refetch, server, streams
  <1>2. CatchTypes'
    BY <1>1 DEF CatchInv, CatchTypes
  <1>3. ASSUME NEW u \in Thread PROVE AnswerComes(u)'
    <2>1. fetch[u] = "none"
      BY DEF Refetch, Settled, Pending
    <2>2. u \in stale => UpToDate(u)'
      BY <1>1, <2>1 DEF UpToDate
    <2>3. u \notin stale /\ UpToDate(u) => UpToDate(u)'
      BY <1>1, <2>1 DEF UpToDate
    <2>4. Covered(u) => Covered(u)'
      BY <1>1 DEF Covered, Tailed
    <2>5. AnswerComes(u)
      BY DEF CatchInv
    <2> QED
      BY <1>1, <2>2, <2>3, <2>4, <2>5 DEF AnswerComes
  <1> QED
    BY <1>2, <1>3 DEF CatchInv

\* A reload forgets every answer; the threads with a stream or a turn are cut.
LEMMA ReloadCatch ==
  ASSUME CatchInv, Reload
  PROVE  CatchInv'
  <1>1. /\ UNCHANGED <<log, turns, running>>
        /\ cache' = [t \in Thread |-> -1] /\ fetch' = [t \in Thread |-> "none"]
        /\ reading' = [t \in Thread |-> 0] /\ cpc' = [c \in Conn |-> "off"]
        /\ cthread' = [c \in Conn |-> NoThread] /\ cturn' = [c \in Conn |-> 0]
        /\ running \subseteq cut'
    BY DEF Reload, server
  <1>2. CatchTypes'
    BY <1>1 DEF CatchInv, CatchTypes
  <1>3. ASSUME NEW u \in Thread PROVE AnswerComes(u)'
    <2>1. UpToDate(u)'
      BY <1>1 DEF UpToDate
    <2> QED
      BY <1>1, <2>1 DEF AnswerComes
  <1> QED
    BY <1>2, <1>3 DEF CatchInv

LEMMA NextCatch == LockInv /\ CatchInv /\ [Next]_vars => CatchInv'
  <1> SUFFICES ASSUME LockInv, CatchInv, [Next]_vars PROVE CatchInv'
    OBVIOUS
  <1> USE DEF server, slice, streams, queries
  <1>1. ASSUME NEW c \in Conn, NEW x \in Content, SubmitHere(c, x)
        PROVE  CatchInv'
    <2>1. view \in Thread /\ Start(c, "post", view, {x}) /\ cpc[c] = "off"
      BY <1>1 DEF SubmitHere, LockInv, StreamTypes
    <2> QED
      BY <1>1, <2>1, StartCatch DEF SubmitHere
  <1>2. ASSUME NEW c \in Conn, NEW x \in Content, SubmitNew(c, x)
        PROVE  CatchInv'
    <2>1. /\ cpc[c] = "off" /\ cpc'[c] = "create" /\ UNCHANGED <<cthread, cturn>>
          /\ cpc' \in [Conn -> {"off", "create", "request", "open"}]
          /\ \A d \in Conn \ {c} : cpc'[d] = cpc[d]
      BY <1>2 DEF SubmitNew, CatchInv, CatchTypes
    <2> QED
      BY <1>2, <2>1, NewCatch DEF SubmitNew, CatchInv, CatchTypes
  <1>3. ASSUME NEW v, Navigate(v)
        PROVE  CatchInv'
    BY <1>3, CatchKept DEF Navigate
  <1>4. CASE Reload
    BY <1>4, ReloadCatch
  <1>5. CASE Remount \/ ClearBubble
    BY <1>5, CatchKept DEF Remount, ClearBubble
  <1>13. ASSUME NEW c \in Conn, CreateFails(c)
         PROVE  CatchInv'
    <2>1. CatchTypes /\ cpc[c] = "create" /\ Ends(c)
      BY <1>13 DEF CreateFails, CatchInv
    <2> QED
      BY <1>13, <2>1, EndsFacts, NewCatch DEF CreateFails
  <1>6. ASSUME NEW c \in Conn, NEW t \in Thread, Created(c, t)
        PROVE  CatchInv'
    BY <1>6, StartCatch DEF Created
  <1>7. ASSUME NEW c \in Conn, Reconnect(c)
        PROVE  CatchInv'
    <2>1. view \in Thread /\ Start(c, "tail", view, {}) /\ cpc[c] = "off"
      BY <1>7 DEF Reconnect, ReconnectDue, LockInv, StreamTypes
    <2> QED
      BY <1>7, <2>1, StartCatch DEF Reconnect
  <1>8. ASSUME NEW c \in Conn, Stream(c)
        PROVE  CatchInv'
    BY <1>8, StreamCatch
  <1>9. ASSUME NEW t \in Thread, Query(t) \/ Expire(t)
        PROVE  CatchInv'
    BY <1>9, QueryCatch
  <1>10. ASSUME NEW t \in Thread, SealTurn(t) \/ \E w \in What : PersistRow(t, w)
         PROVE  CatchInv'
    BY <1>10, TurnCatch
  <1>11. CASE Refetch
    BY <1>11, RefetchCatch
  <1>12. CASE UNCHANGED vars
    BY <1>12, CatchKept DEF vars
  <1> QED
    BY <1>1, <1>2, <1>3, <1>4, <1>5, <1>6, <1>7, <1>8, <1>9, <1>10, <1>11, <1>12,
       <1>13 DEF Next, User, NewThread, Page

\* Whatever threads, questions and streams there are, and however requests,
\* invalidations, expiry, navigation and reloads interleave: a thread that
\* lost no stream and has come to rest on screen is shown in full.
THEOREM RestShowsAll == Spec => []CaughtUp
  <1>1. CatchInv => CaughtUp
    <2> SUFFICES ASSUME CatchInv, NEW t \in Thread, Quiet(t), t \notin cut
                 PROVE  cache[t] = Len(log[t])
      BY DEF CaughtUp
    <2>1. ~ Covered(t)
      BY DEF Quiet, InFlight, Covered, Tailed
    <2>2. UpToDate(t)
      BY <2>1 DEF CatchInv, AnswerComes, Quiet
    <2> QED
      BY <2>2 DEF UpToDate, Quiet
  <1>2. Spec => []CatchInv
    BY AlwaysLock, InitCatch, NextCatch, PTL DEF Spec
  <1> QED
    BY <1>1, <1>2, PTL

-----------------------------------------------------------------------------
(* Types.  That a thread's turns stay within the questions asked is not a  *)
(* matter of types: a question is perhaps a thread to be created first,    *)
(* then a POST under way, then perhaps a turn, and it counts once.         *)

\* The questions that may still start a turn on t: its POST requests, and those
\* whose thread is yet to be created.
Asking(t) ==
    {c \in Conn : \/ cpc[c] = "create"
                  \/ cpc[c] = "request" /\ ckind[c] = "post" /\ cthread[c] = t}

Within(t) == IsFiniteSet(Asking(t)) /\ turns[t] + Cardinality(Asking(t)) <= asks

\* A stream under way is of a thread that exists, and a POST has its question.
StreamInv ==
    \A c \in Conn :
        /\ cpc[c] \in {"request", "open"} => cthread[c] \in born
        /\ cpc[c] = "create" \/ (cpc[c] = "request" /\ ckind[c] = "post") => cask[c] # {}

TypeInv == TypeOK /\ StreamInv /\ \A t \in Thread : Within(t)

\* No question is asked.
LEMMA WithinKept ==
  ASSUME NEW t \in Thread, turns[t] \in Nat, asks \in Nat, asks' \in Nat, Within(t),
         Asking(t)' \subseteq Asking(t), turns'[t] = turns[t], asks <= asks'
  PROVE  Within(t)'
  <1> DEFINE S == Asking(t)
             R == Asking(t)'
             m == Cardinality(S)
             n == Cardinality(R)
  <1>1. IsFiniteSet(S) /\ R \subseteq S /\ turns[t] + m <= asks
    BY DEF Within
  <1> HIDE DEF S, R
  <1>2. IsFiniteSet(R) /\ n \in Nat /\ m \in Nat /\ n <= m
    BY <1>1, FS_Subset, FS_CardinalityType
  <1> HIDE DEF m, n
  <1>3. turns'[t] + n <= asks'
    BY <1>1, <1>2
  <1> QED
    BY <1>2, <1>3 DEF Within, R, n

\* One question is asked.
LEMMA WithinAsked ==
  ASSUME NEW t \in Thread, turns[t] \in Nat, asks \in Nat, asks' \in Nat, Within(t), NEW c,
         Asking(t)' \subseteq Asking(t) \cup {c}, turns'[t] = turns[t], asks + 1 <= asks'
  PROVE  Within(t)'
  <1> DEFINE S == Asking(t)
             R == Asking(t)'
             m == Cardinality(S)
             n == Cardinality(R)
  <1>1. IsFiniteSet(S) /\ R \subseteq S \cup {c} /\ turns[t] + m <= asks
    BY DEF Within
  <1> HIDE DEF S, R
  <1>2. /\ IsFiniteSet(S \cup {c}) /\ m \in Nat
        /\ Cardinality(S \cup {c}) = m \/ Cardinality(S \cup {c}) = m + 1
    BY <1>1, FS_AddElement, FS_CardinalityType
  <1>3. IsFiniteSet(R) /\ n \in Nat /\ n <= Cardinality(S \cup {c})
    BY <1>1, <1>2, FS_Subset, FS_CardinalityType
  <1> HIDE DEF m, n
  <1>4. n <= m + 1 /\ m \in Nat /\ n \in Nat
    BY <1>2, <1>3
  <1>5. turns'[t] + n <= asks'
    BY <1>1, <1>4
  <1> QED
    BY <1>3, <1>5 DEF Within, R, n

\* A POST becomes a turn, or joins one.
LEMMA WithinStarted ==
  ASSUME NEW t \in Thread, turns[t] \in Nat, asks \in Nat, Within(t), NEW c \in Asking(t),
         Asking(t)' \subseteq Asking(t) \ {c}, turns'[t] \in {turns[t], turns[t] + 1},
         asks' = asks
  PROVE  Within(t)'
  <1> DEFINE S == Asking(t)
             R == Asking(t)'
             m == Cardinality(S)
             n == Cardinality(R)
  <1>1. IsFiniteSet(S) /\ c \in S /\ R \subseteq S \ {c} /\ turns[t] + m <= asks
    BY DEF Within
  <1> HIDE DEF S, R
  <1>2. IsFiniteSet(S \ {c}) /\ m \in Nat /\ Cardinality(S \ {c}) = m - 1
    BY <1>1, FS_RemoveElement, FS_CardinalityType
  <1>3. IsFiniteSet(R) /\ n \in Nat /\ n <= Cardinality(S \ {c})
    BY <1>1, <1>2, FS_Subset, FS_CardinalityType
  <1> HIDE DEF m, n
  <1>4. n <= m - 1
    BY <1>2, <1>3
  <1>5. turns'[t] + n <= asks'
    BY <1>1, <1>2, <1>3, <1>4
  <1> QED
    BY <1>3, <1>5 DEF Within, R, n

LEMMA TypeInit == Init => TypeInv
  <1> SUFFICES ASSUME Init PROVE TypeInv
    OBVIOUS
  <1>1. TypeOK /\ StreamInv
    BY DEF Init, TypeOK, StreamInv, Hook
  <1>2. ASSUME NEW t \in Thread PROVE Within(t)
    <2>1. Asking(t) = {} /\ turns[t] = 0 /\ asks = 0
      BY DEF Init, Asking
    <2> QED
      BY <2>1, FS_EmptySet DEF Within
  <1> QED
    BY <1>1, <1>2 DEF TypeInv

\* What TypeInv says in numbers.
LEMMA Counts ==
  ASSUME TypeInv
  PROVE  /\ asks \in Nat /\ asks <= MaxAsks
         /\ \A t \in Thread : turns[t] \in Nat /\ Within(t)
  BY DEF TypeInv, TypeOK

\* Steps that leave the streams, the turns and the questions alone.
LEMMA StreamsKept ==
  ASSUME TypeInv, UNCHANGED <<turns, asks, cpc, ckind, cthread, cask>>,
         born \subseteq born'
  PROVE  StreamInv' /\ \A t \in Thread : Within(t)'
  <1>1. StreamInv'
    BY DEF TypeInv, StreamInv
  <1>2. ASSUME NEW t \in Thread PROVE Within(t)'
    BY Counts DEF Within, Asking
  <1> QED
    BY <1>1, <1>2

\* TypeOK by the groups of variables.
ServerType ==
    /\ born \subseteq Thread
    /\ log \in [Thread -> Seq([turn : 0 .. MaxAsks, what : What \cup Content])]
    /\ turns \in [Thread -> 0 .. MaxAsks]
    /\ running \subseteq born

SliceType ==
    /\ view \in born \cup {NoThread}
    /\ live \subseteq born
    /\ bubble \subseteq [thread : born \cup {NoThread}, content : Content]
    /\ tailed \subseteq [thread : born, turn : 1 .. MaxAsks]

StreamType ==
    /\ cpc \in [Conn -> {"off", "create", "request", "open"}]
    /\ ckind \in [Conn -> Hook]
    /\ cthread \in [Conn -> born \cup {NoThread}]
    /\ cask \in [Conn -> SUBSET Content]
    /\ cturn \in [Conn -> 0 .. MaxAsks]
    /\ cpos \in [Conn -> Nat]
    /\ cfinal \in [Conn -> BOOLEAN]
    /\ latest \in [Hook -> Conn \cup {NoConn}]

QueryType ==
    /\ cache \in [Thread -> Nat \cup {-1}]
    /\ fetch \in [Thread -> {"none", "sent", "read"}]
    /\ reading \in [Thread -> Nat]
    /\ probe \in [Thread -> {"none", "sent", "answered"}]
    /\ seen \in [Thread -> 0 .. MaxAsks]
    /\ stale \subseteq born

BoundType ==
    /\ asks \in 0 .. MaxAsks /\ faults \in 0 .. MaxFaults /\ reloads \in 0 .. MaxReloads
    /\ cut \subseteq Thread

LEMMA TypeGroups ==
  /\ TypeOK <=> ServerType /\ SliceType /\ StreamType /\ QueryType /\ BoundType
  /\ TypeOK' <=> ServerType' /\ SliceType' /\ StreamType' /\ QueryType' /\ BoundType'
  BY DEF TypeOK, ServerType, SliceType, StreamType, QueryType, BoundType

\* A group that a step leaves alone, though threads may be born.
LEMMA GroupsKept ==
  ASSUME TypeOK, born \subseteq born', born' \subseteq Thread
  PROVE  /\ UNCHANGED server => ServerType'
         /\ UNCHANGED slice => SliceType'
         /\ UNCHANGED streams => StreamType'
         /\ UNCHANGED queries => QueryType'
         /\ UNCHANGED bounds /\ cut' \subseteq Thread => BoundType'
  <1>1. UNCHANGED server => ServerType'
    BY TypeGroups DEF ServerType, server
  <1>2. UNCHANGED slice => SliceType'
    BY TypeGroups DEF SliceType, slice
  <1>3. UNCHANGED streams => StreamType'
    BY TypeGroups DEF StreamType, streams
  <1>4. UNCHANGED queries => QueryType'
    BY TypeGroups DEF QueryType, queries
  <1>5. UNCHANGED bounds /\ cut' \subseteq Thread => BoundType'
    BY TypeGroups DEF BoundType, bounds
  <1> QED
    BY <1>1, <1>2, <1>3, <1>4, <1>5

\* The bounds are never passed.
LEMMA BoundsKept ==
  ASSUME TypeOK, Asks \/ Fails \/ Reloads, cut' \subseteq Thread
  PROVE  BoundType'
  BY TypeGroups, ThreadPageAssumption DEF BoundType, Asks, Fails, Reloads

\* The page opens a stream: for a new question, for one whose thread has just
\* been created, or to tail a turn.
LEMMA StartTypes ==
  ASSUME TypeInv, NEW c \in Conn, NEW kind \in Hook, NEW t \in Thread, t \in born',
         NEW ask \in SUBSET Content, Start(c, kind, t, ask), kind = "post" => ask # {},
         born \subseteq born', born' \subseteq Thread, UNCHANGED turns, asks' \in Nat,
         \/ asks + 1 <= asks'
         \/ asks <= asks' /\ (kind = "tail" \/ cpc[c] = "create")
  PROVE  /\ live' \subseteq born'
         /\ StreamType'
         /\ StreamInv' /\ \A u \in Thread : Within(u)'
  <1>1. /\ live' = live \cup {t}
        /\ cpc' = [cpc EXCEPT ![c] = "request"] /\ ckind' = [ckind EXCEPT ![c] = kind]
        /\ cthread' = [cthread EXCEPT ![c] = t] /\ cask' = [cask EXCEPT ![c] = ask]
        /\ latest' \in [Hook -> Conn \cup {NoConn}] /\ UNCHANGED <<cturn, cpos, cfinal>>
    BY DEF Start, Track, TypeInv, TypeOK
  <1>2. /\ live' \subseteq born'
        /\ StreamType'
    BY <1>1, TypeGroups DEF TypeInv, SliceType, StreamType
  <1>3. \A d \in Conn : /\ cpc'[d] = IF d = c THEN "request" ELSE cpc[d]
                        /\ ckind'[d] = IF d = c THEN kind ELSE ckind[d]
                        /\ cthread'[d] = IF d = c THEN t ELSE cthread[d]
                        /\ cask'[d] = IF d = c THEN ask ELSE cask[d]
    BY <1>1 DEF TypeInv, TypeOK
  <1>4. StreamInv'
    BY <1>3 DEF TypeInv, StreamInv
  <1>5. ASSUME NEW u \in Thread PROVE Within(u)'
    <2>1. CASE asks + 1 <= asks'
      <3>1. Asking(u)' \subseteq Asking(u) \cup {c}
        BY <1>3 DEF Asking
      <3> QED
        BY <2>1, <3>1, WithinAsked, Counts
    <2>2. CASE asks <= asks' /\ (kind = "tail" \/ cpc[c] = "create")
      <3>1. Asking(u)' \subseteq Asking(u)
        BY <1>3, <2>2 DEF Asking
      <3> QED
        BY <2>2, <3>1, WithinKept, Counts
    <2> QED
      BY <2>1, <2>2
  <1> QED
    BY <1>2, <1>4, <1>5

\* A stream is over.
LEMMA EndsTypes ==
  ASSUME TypeInv, NEW c \in Conn, Ends(c), UNCHANGED born
  PROVE  /\ StreamType' /\ StreamInv'
         /\ \A t \in Thread : Asking(t)' \subseteq Asking(t) \ {c}
  <1>1. StreamType'
    BY TypeGroups DEF Ends, TypeInv, StreamType, Hook
  <1>2. cpc'[c] = "off" /\ \A d \in Conn \ {c} :
            /\ cpc'[d] = cpc[d] /\ ckind'[d] = ckind[d]
            /\ cthread'[d] = cthread[d] /\ cask'[d] = cask[d]
    BY DEF Ends, TypeInv, TypeOK
  <1>3. StreamInv' /\ \A t \in Thread : Asking(t)' \subseteq Asking(t) \ {c}
    BY <1>2 DEF TypeInv, StreamInv, Asking
  <1> QED
    BY <1>1, <1>3

\* A POST is answered by a turn: the one that runs, or the next.
LEMMA StartTurnTypes ==
  ASSUME TypeInv, NEW c \in Conn, cpc[c] = "request", ckind[c] = "post",
         StartTurn(c, cthread[c]), asks' = asks,
         \A t \in Thread : Asking(t)' \subseteq Asking(t) \ {c}
  PROVE  ServerType' /\ \A t \in Thread : Within(t)'
  <1> DEFINE t == cthread[c]
             x == CHOOSE y \in cask[c] : TRUE
  <1>1. t \in born /\ t \in Thread /\ x \in Content /\ c \in Asking(t)
    BY DEF TypeInv, TypeOK, StreamInv, Asking
  <1> HIDE DEF x
  <1>2. /\ log' = [log EXCEPT ![t] = Append(log[t], [turn |-> 0, what |-> x])]
        /\ running' \subseteq born'
        /\ \A u \in Thread : turns'[u] = IF u = t /\ t \notin running THEN turns[u] + 1
                                                                       ELSE turns[u]
        /\ DOMAIN turns' = Thread
    BY <1>1 DEF StartTurn, TypeInv, TypeOK, x
  <1> HIDE DEF t
  <1>3. log' \in [Thread -> Seq([turn : 0 .. MaxAsks, what : What \cup Content])]
    <2>1. [turn |-> 0, what |-> x] \in [turn : 0 .. MaxAsks, what : What \cup Content]
      BY <1>1, ThreadPageAssumption
    <2> DEFINE Row == [turn : 0 .. MaxAsks, what : What \cup Content]
    <2>2. log \in [Thread -> Seq(Row)]
      BY DEF TypeInv, TypeOK
    <2>3. [turn |-> 0, what |-> x] \in Row
      BY <2>1
    <2> HIDE DEF Row
    <2>4. log[t] \in Seq(Row) /\ Append(log[t], [turn |-> 0, what |-> x]) \in Seq(Row)
      BY <1>1, <2>2, <2>3
    <2>5. log' \in [Thread -> Seq(Row)]
      BY <1>2, <2>2, <2>4
    <2> QED
      BY <2>5 DEF Row
  <1>4. ASSUME NEW u \in Thread PROVE Within(u)'
    <2>1. CASE u = t
      BY <1>1, <1>2, <2>1, WithinStarted, Counts
    <2>2. CASE u # t
      <3>1. turns'[u] = turns[u] /\ Asking(u)' \subseteq Asking(u)
        BY <1>2, <2>2
      <3> QED
        BY <3>1, WithinKept, Counts
    <2> QED
      BY <2>1, <2>2
  <1>5. ASSUME NEW u \in Thread PROVE turns'[u] \in 0 .. MaxAsks
    <2>1. Cardinality(Asking(u)') \in Nat /\ turns'[u] \in Nat
      BY <1>2, <1>4, FS_CardinalityType, Counts DEF Within
    <2>2. turns'[u] + Cardinality(Asking(u)') <= asks
      BY <1>4 DEF Within
    <2> QED
      BY <2>1, <2>2, Counts, ThreadPageAssumption
  <1>6. turns' \in [Thread -> 0 .. MaxAsks]
    <2>1. turns' = [u \in Thread |-> turns'[u]]
      BY <1>2 DEF StartTurn, TypeInv, TypeOK
    <2> QED
      BY <1>5, <2>1
  <1>7. born' \subseteq Thread
    BY DEF StartTurn, TypeInv, TypeOK
  <1> QED
    BY <1>2, <1>3, <1>4, <1>6, <1>7 DEF ServerType

\* The user, and the page's own effects.
LEMMA UserTypes ==
  ASSUME TypeInv, User
  PROVE  TypeInv'
  <1>1. ASSUME NEW c \in Conn, NEW x \in Content, SubmitHere(c, x)
        PROVE  TypeInv'
    <2>1. /\ view \in born /\ born \subseteq Thread /\ asks' = asks + 1 /\ asks' \in Nat
          /\ UNCHANGED <<born, turns>> /\ Start(c, "post", view, {x})
      BY <1>1, Counts DEF SubmitHere, Asks, TypeInv, TypeOK, server
    <2>2. "post" \in Hook /\ {x} \in SUBSET Content /\ {x} # {}
      BY DEF Hook
    <2>3. asks + 1 <= asks'
      BY <2>1, Counts
    <2>4. live' \subseteq born' /\ StreamType' /\ StreamInv' /\ \A t \in Thread : Within(t)'
      BY <2>1, <2>2, <2>3, StartTypes
    <2>5. SliceType'
      BY <1>1, <2>1, <2>4, TypeGroups DEF SubmitHere, TypeInv, SliceType
    <2>6. ServerType' /\ QueryType' /\ BoundType'
      BY <1>1, <2>1, GroupsKept, BoundsKept DEF SubmitHere, TypeInv, TypeOK
    <2> QED
      BY <2>4, <2>5, <2>6, TypeGroups DEF TypeInv
  <1>2. ASSUME NEW c \in Conn, NEW x \in Content, SubmitNew(c, x)
        PROVE  TypeInv'
    <2>1. /\ asks' = asks + 1 /\ asks' \in Nat
          /\ born' = born /\ born' \subseteq Thread
          /\ cpc' = [cpc EXCEPT ![c] = "create"] /\ cask' = [cask EXCEPT ![c] = {x}]
          /\ UNCHANGED <<turns, ckind, cthread, cturn, cpos, cfinal>>
      BY <1>2, Counts DEF SubmitNew, Asks, TypeInv, TypeOK, server
    <2>2. SliceType'
      BY <1>2, <2>1, TypeGroups DEF SubmitNew, TypeInv, SliceType
    <2>3. ServerType' /\ QueryType' /\ BoundType'
      BY <1>2, <2>1, GroupsKept, BoundsKept DEF SubmitNew, TypeInv, TypeOK
    <2>4. latest' \in [Hook -> Conn \cup {NoConn}]
      BY <1>2 DEF SubmitNew, Track, TypeInv, TypeOK
    <2>5. StreamType'
      BY <2>1, <2>4, TypeGroups DEF TypeInv, StreamType
    <2>6. \A d \in Conn : /\ cpc'[d] = IF d = c THEN "create" ELSE cpc[d]
                          /\ cask'[d] = IF d = c THEN {x} ELSE cask[d]
      BY <2>1 DEF TypeInv, TypeOK
    <2>7. StreamInv'
      BY <2>1, <2>6 DEF TypeInv, StreamInv
    <2>8. ASSUME NEW t \in Thread PROVE Within(t)'
      <3>1. Asking(t)' \subseteq Asking(t) \cup {c} /\ turns'[t] = turns[t]
        BY <2>1, <2>6 DEF Asking
      <3>2. asks + 1 <= asks'
        BY <2>1, Counts
      <3> QED
        BY <2>1, <3>1, <3>2, WithinAsked, Counts
    <2> QED
      BY <2>2, <2>3, <2>5, <2>7, <2>8, TypeGroups DEF TypeInv
  <1>3. ASSUME NEW v \in born \cup {NoThread}, Navigate(v)
        PROVE  TypeInv'
    <2>1. StreamInv' /\ \A t \in Thread : Within(t)'
      BY <1>3, StreamsKept DEF Navigate, server, streams, bounds
    <2>2. born' = born /\ born' \subseteq Thread /\ cut' \subseteq Thread
      BY <1>3 DEF Navigate, TypeInv, TypeOK, server
    <2>3. SliceType'
      BY <1>3, <2>2, TypeGroups DEF Navigate, TypeInv, SliceType
    <2>4. ServerType' /\ StreamType' /\ QueryType' /\ BoundType'
      BY <1>3, <2>2, GroupsKept DEF Navigate, TypeInv
    <2> QED
      BY <2>1, <2>3, <2>4, TypeGroups DEF TypeInv
  <1>4. CASE Reload
    <2>1. /\ born' = born /\ born' \subseteq Thread /\ cut' \subseteq Thread
          /\ asks' = asks /\ UNCHANGED turns
      BY <1>4 DEF Reload, Reloads, TypeInv, TypeOK, server
    <2>2. SliceType'
      BY <1>4, <2>1, TypeGroups DEF Reload, TypeInv, SliceType
    <2>3. StreamType'
      BY <1>4 DEF Reload, StreamType, Hook
    <2>4. QueryType'
      BY <1>4, ThreadPageAssumption DEF Reload, QueryType
    <2>5. ServerType' /\ BoundType'
      BY <1>4, <2>1, GroupsKept, BoundsKept DEF Reload, TypeInv
    <2>6. StreamInv'
      BY <1>4 DEF Reload, StreamInv
    <2>7. ASSUME NEW t \in Thread PROVE Within(t)'
      <3>1. Asking(t)' \subseteq Asking(t)
        BY <1>4 DEF Reload, Asking
      <3> QED
        BY <2>1, <3>1, WithinKept, Counts
    <2> QED
      BY <2>2, <2>3, <2>4, <2>5, <2>6, <2>7, TypeGroups DEF TypeInv
  <1>5. CASE Remount
    <2>1. StreamInv' /\ \A t \in Thread : Within(t)'
      BY <1>5, StreamsKept DEF Remount, Reloads, server
    <2>2. born' = born /\ born' \subseteq Thread /\ cut' \subseteq Thread
      BY <1>5 DEF Remount, TypeInv, TypeOK, server
    <2>3. SliceType'
      BY <1>5, <2>2, TypeGroups DEF Remount, TypeInv, SliceType
    <2>4. StreamType'
      BY <1>5, <2>2, TypeGroups DEF Remount, TypeInv, StreamType
    <2>5. ServerType' /\ QueryType' /\ BoundType'
      BY <1>5, <2>2, GroupsKept, BoundsKept DEF Remount, TypeInv
    <2> QED
      BY <2>1, <2>3, <2>4, <2>5, TypeGroups DEF TypeInv
  <1> QED
    BY <1>1, <1>2, <1>3, <1>4, <1>5 DEF User

LEMMA PageTypes ==
  ASSUME TypeInv, NewThread \/ Page
  PROVE  TypeInv'
  <1>1. ASSUME NEW c \in Conn, NEW t \in Thread, Created(c, t)
        PROVE  TypeInv'
    <2>1. /\ born' = born \cup {t} /\ born' \subseteq Thread /\ cpc[c] = "create"
          /\ Start(c, "post", t, cask[c]) /\ UNCHANGED <<turns, asks>>
      BY <1>1 DEF Created, TypeInv, TypeOK, bounds
    <2>2. /\ "post" \in Hook /\ cask[c] \in SUBSET Content /\ cask[c] # {}
          /\ asks \in Nat
      BY <2>1, Counts DEF Hook, TypeInv, TypeOK, StreamInv
    <2>3. asks <= asks'
      BY <2>1, <2>2
    <2>4. live' \subseteq born' /\ StreamType' /\ StreamInv' /\ \A u \in Thread : Within(u)'
      BY <2>1, <2>2, <2>3, StartTypes
    <2>5. bubble' \subseteq [thread : born' \cup {NoThread}, content : Content]
      <3>1. bubble' = {[b EXCEPT !.thread = t] : b \in bubble}
        BY <1>1 DEF Created, Rebound
      <3>2. \A b \in bubble : b \in [thread : born \cup {NoThread}, content : Content]
        BY DEF TypeInv, TypeOK
      <3>3. ASSUME NEW b \in bubble
            PROVE  [b EXCEPT !.thread = t] \in [thread : born' \cup {NoThread}, content : Content]
        BY <2>1, <3>2
      <3> QED
        BY <3>1, <3>3
    <2>6. SliceType'
      BY <1>1, <2>1, <2>4, <2>5, TypeGroups DEF Created, TypeInv, SliceType
    <2>7. ServerType'
      BY <1>1, <2>1, TypeGroups DEF Created, TypeInv, ServerType
    <2>8. QueryType' /\ BoundType'
      BY <1>1, <2>1, GroupsKept DEF Created, TypeInv, TypeOK
    <2> QED
      BY <2>4, <2>6, <2>7, <2>8, TypeGroups DEF TypeInv
  <1>2. ASSUME NEW c \in Conn, CreateFails(c)
        PROVE  TypeInv'
    <2>1. /\ Ends(c) /\ asks' = asks /\ turns' = turns
          /\ born' = born /\ born' \subseteq Thread
      BY <1>2 DEF CreateFails, Fails, TypeInv, TypeOK, server
    <2>2. ServerType' /\ SliceType' /\ QueryType' /\ BoundType'
      BY <1>2, <2>1, GroupsKept, BoundsKept DEF CreateFails, TypeInv, TypeOK
    <2>3. StreamType' /\ StreamInv'
      BY <2>1, EndsTypes
    <2>4. ASSUME NEW t \in Thread PROVE Within(t)'
      <3>1. Asking(t)' \subseteq Asking(t)
        BY <2>1, EndsTypes
      <3> QED
        BY <2>1, <3>1, WithinKept, Counts
    <2> QED
      BY <2>2, <2>3, <2>4, TypeGroups DEF TypeInv
  <1>3. CASE ClearBubble
    <2>1. StreamInv' /\ \A t \in Thread : Within(t)'
      BY <1>3, StreamsKept DEF ClearBubble, server, streams, bounds
    <2>2. born' = born /\ born' \subseteq Thread /\ cut' \subseteq Thread
      BY <1>3 DEF ClearBubble, TypeInv, TypeOK, server
    <2>3. SliceType'
      BY <1>3, <2>2, TypeGroups DEF ClearBubble, TypeInv, SliceType
    <2>4. ServerType' /\ StreamType' /\ QueryType' /\ BoundType'
      BY <1>3, <2>2, GroupsKept DEF ClearBubble, TypeInv
    <2> QED
      BY <2>1, <2>3, <2>4, TypeGroups DEF TypeInv
  <1>4. ASSUME NEW c \in Conn, Reconnect(c)
        PROVE  TypeInv'
    <2>1. /\ view \in born /\ born' \subseteq Thread /\ Start(c, "tail", view, {})
          /\ UNCHANGED <<born, turns, asks>>
      BY <1>4 DEF Reconnect, ReconnectDue, TypeInv, TypeOK, server, bounds
    <2>2. "tail" \in Hook /\ {} \in SUBSET Content /\ asks \in Nat
      BY Counts DEF Hook
    <2>3. asks <= asks'
      BY <2>1, <2>2
    <2>4. live' \subseteq born' /\ StreamType' /\ StreamInv' /\ \A t \in Thread : Within(t)'
      BY <2>1, <2>2, <2>3, StartTypes
    <2>5. tailed' \subseteq [thread : born', turn : 1 .. MaxAsks]
      BY <1>4, <2>1 DEF Reconnect, ReconnectDue, TypeInv, TypeOK
    <2>6. SliceType'
      BY <1>4, <2>1, <2>4, <2>5, TypeGroups DEF Reconnect, TypeInv, SliceType
    <2>7. ServerType' /\ QueryType' /\ BoundType'
      BY <1>4, <2>1, GroupsKept DEF Reconnect, TypeInv, TypeOK
    <2> QED
      BY <2>4, <2>6, <2>7, TypeGroups DEF TypeInv
  <1> QED
    BY <1>1, <1>2, <1>3, <1>4 DEF NewThread, Page

LEMMA StreamStepTypes ==
  ASSUME TypeInv, NEW c \in Conn, Stream(c)
  PROVE  TypeInv'
  <1>1. CASE PostAnswered(c)
    <2>1. /\ cpc' = [cpc EXCEPT ![c] = "open"] /\ cpc[c] = "request" /\ ckind[c] = "post"
          /\ StartTurn(c, cthread[c]) /\ UNCHANGED <<asks, born, ckind, cthread, cask>>
          /\ born' \subseteq Thread /\ cut' \subseteq Thread /\ cthread[c] \in Thread
      BY <1>1 DEF PostAnswered, StartTurn, slice, bounds, TypeInv, TypeOK, StreamInv
    <2>2. \A t \in Thread : Asking(t)' \subseteq Asking(t) \ {c}
      BY <2>1 DEF Asking, TypeInv, TypeOK
    <2>3. ServerType' /\ \A t \in Thread : Within(t)'
      BY <2>1, <2>2, StartTurnTypes
    <2>4. StreamType'
      BY <1>1, <2>1, <2>3, TypeGroups DEF PostAnswered, TypeInv, StreamType, ServerType
    <2>5. StreamInv'
      BY <2>1 DEF TypeInv, TypeOK, StreamInv
    <2>6. SliceType' /\ QueryType' /\ BoundType'
      BY <1>1, <2>1, GroupsKept DEF PostAnswered, TypeInv
    <2> QED
      BY <2>3, <2>4, <2>5, <2>6, TypeGroups DEF TypeInv
  <1>2. CASE TailAnswered(c)
    <2>1. /\ cpc' = [cpc EXCEPT ![c] = "open"] /\ cpc[c] = "request" /\ cthread[c] \in Thread
          /\ UNCHANGED <<asks, born, turns, ckind, cthread, cask>>
          /\ born' \subseteq Thread /\ cut' \subseteq Thread
      BY <1>2 DEF TailAnswered, TypeInv, TypeOK, StreamInv, server, slice, bounds
    <2>2. StreamInv'
      BY <2>1 DEF TypeInv, TypeOK, StreamInv
    <2>3. ASSUME NEW t \in Thread PROVE Within(t)'
      <3>1. Asking(t)' \subseteq Asking(t)
        BY <2>1 DEF Asking, TypeInv, TypeOK
      <3> QED
        BY <2>1, <3>1, WithinKept, Counts
    <2>4. StreamType'
      BY <1>2, <2>1, TypeGroups DEF TailAnswered, TypeInv, StreamType, ServerType
    <2>5. ServerType' /\ SliceType' /\ QueryType' /\ BoundType'
      BY <1>2, <2>1, GroupsKept DEF TailAnswered, TypeInv
    <2> QED
      BY <2>2, <2>3, <2>4, <2>5, TypeGroups DEF TypeInv
  <1>3. CASE Receive(c)
    <2>1. StreamInv' /\ \A t \in Thread : Within(t)'
      BY <1>3, StreamsKept DEF Receive, server, bounds
    <2>2. PICK i \in DOMAIN log[cthread[c]] :
            /\ cpos' = [cpos EXCEPT ![c] = i]
            /\ \/ Unlock(c) /\ cfinal' = [cfinal EXCEPT ![c] = TRUE]
               \/ UNCHANGED <<live, cfinal>>
      BY <1>3 DEF Receive
    <2>3. /\ born' = born /\ born' \subseteq Thread /\ cut' \subseteq Thread
          /\ live' \subseteq live /\ cfinal' \in [Conn -> BOOLEAN]
      <3>1. born' = born /\ cut' = cut
        BY <1>3 DEF Receive, server
      <3>2. born \subseteq Thread /\ cut \subseteq Thread /\ cfinal \in [Conn -> BOOLEAN]
        BY DEF TypeInv, TypeOK
      <3> QED
        BY <2>2, <3>1, <3>2 DEF Unlock
    <2>4. i \in Nat
      <3> DEFINE Row == [turn : 0 .. MaxAsks, what : What \cup Content]
      <3>1. cthread[c] \in Thread /\ log \in [Thread -> Seq(Row)]
        BY <1>3 DEF Receive, TypeInv, TypeOK, StreamInv
      <3> HIDE DEF Row
      <3>2. log[cthread[c]] \in Seq(Row)
        BY <3>1
      <3> QED
        BY <2>2, <3>2
    <2>5. SliceType'
      BY <1>3, <2>3, TypeGroups DEF Receive, TypeInv, SliceType
    <2>6. StreamType'
      BY <1>3, <2>2, <2>3, <2>4, TypeGroups DEF Receive, TypeInv, StreamType
    <2>7. ServerType' /\ QueryType' /\ BoundType'
      BY <1>3, <2>3, GroupsKept DEF Receive, TypeInv
    <2> QED
      BY <2>1, <2>5, <2>6, <2>7, TypeGroups DEF TypeInv
  <1>4. CASE RequestFails(c)
    <2>1. /\ cpc[c] = "request" /\ Ends(c) /\ Fails /\ cthread[c] \in Thread
          /\ UNCHANGED <<born, view, bubble, tailed, asks, queries>>
          /\ born' \subseteq Thread /\ live' \subseteq live /\ cut' \subseteq Thread
          /\ (ckind[c] = "post" /\ StartTurn(c, cthread[c])) \/ UNCHANGED server
      BY <1>4 DEF RequestFails, Fails, StartTurn, Unlock, TypeInv, TypeOK, StreamInv, server
    <2>2. ServerType' /\ \A t \in Thread : Within(t)'
      <3>1. CASE ckind[c] = "post" /\ StartTurn(c, cthread[c])
        BY <2>1, <3>1, EndsTypes, StartTurnTypes
      <3>2. CASE UNCHANGED server
        <4>1. ASSUME NEW t \in Thread PROVE Within(t)'
          <5>1. Asking(t)' \subseteq Asking(t) /\ turns'[t] = turns[t]
            BY <2>1, <3>2, EndsTypes DEF server
          <5> QED
            BY <2>1, <5>1, WithinKept, Counts
        <4> QED
          BY <2>1, <3>2, <4>1, GroupsKept DEF TypeInv
      <3> QED
        BY <2>1, <3>1, <3>2
    <2>3. SliceType'
      BY <2>1, TypeGroups DEF TypeInv, SliceType
    <2>4. StreamType' /\ StreamInv'
      BY <2>1, EndsTypes
    <2>5. QueryType' /\ BoundType'
      BY <2>1, GroupsKept, BoundsKept DEF TypeInv
    <2> QED
      BY <2>2, <2>3, <2>4, <2>5, TypeGroups DEF TypeInv
  <1>5. CASE TailNotFound(c) \/ Close(c) \/ Break(c)
    <2>1. /\ Ends(c) /\ born' = born /\ born' \subseteq Thread
          /\ UNCHANGED server /\ UNCHANGED <<turns, asks>>
      BY <1>5 DEF TailNotFound, Close, Break, Fails, TypeInv, TypeOK, server, bounds
    <2>2. /\ cthread[c] \in born /\ cut' \subseteq Thread /\ live' \subseteq live
          /\ UNCHANGED <<view, bubble, tailed>>
          /\ UNCHANGED bounds \/ Fails
      BY <1>5, <2>1 DEF TailNotFound, Close, CloseUnlocks, Break, Unlock, TypeInv, TypeOK,
                        StreamInv
    <2>3. SliceType'
      BY <2>1, <2>2, TypeGroups DEF TypeInv, SliceType
    <2>4. QueryType'
      BY <1>5, <2>1, <2>2, TypeGroups DEF TailNotFound, Close, Break, queries, TypeInv, QueryType
    <2>5. ServerType' /\ BoundType'
      BY <2>1, <2>2, GroupsKept, BoundsKept DEF TypeInv
    <2>6. StreamType' /\ StreamInv'
      BY <2>1, EndsTypes
    <2>7. ASSUME NEW t \in Thread PROVE Within(t)'
      <3>1. Asking(t)' \subseteq Asking(t) /\ turns'[t] = turns[t]
        BY <2>1, EndsTypes
      <3> QED
        BY <2>1, <3>1, WithinKept, Counts
    <2> QED
      BY <2>3, <2>4, <2>5, <2>6, <2>7, TypeGroups DEF TypeInv
  <1> QED
    BY <1>1, <1>2, <1>3, <1>4, <1>5 DEF Stream

\* The agent's turn, and the queries.
LEMMA TypeNext ==
  ASSUME TypeInv, [Next]_vars
  PROVE  TypeInv'
  <1>1. ASSUME NEW t \in Thread, NEW w \in What, PersistRow(t, w)
        PROVE  TypeInv'
    <2> DEFINE Row == [turn : 0 .. MaxAsks, what : What \cup Content]
    <2>1. StreamInv' /\ \A u \in Thread : Within(u)'
      BY <1>1, StreamsKept DEF PersistRow, slice, streams, bounds
    <2>2. log \in [Thread -> Seq(Row)] /\ [turn |-> turns[t], what |-> w] \in Row
      BY DEF TypeInv, TypeOK
    <2>3. /\ log' = [log EXCEPT ![t] = Append(log[t], [turn |-> turns[t], what |-> w])]
          /\ UNCHANGED <<born, turns, running>> /\ born' \subseteq Thread /\ cut' \subseteq Thread
      BY <1>1 DEF PersistRow, TypeInv, TypeOK
    <2> HIDE DEF Row
    <2>4. log' \in [Thread -> Seq(Row)]
      BY <2>2, <2>3
    <2>5. ServerType'
      BY <2>3, <2>4, TypeGroups DEF TypeInv, ServerType, Row
    <2>6. SliceType' /\ StreamType' /\ QueryType' /\ BoundType'
      BY <1>1, <2>3, GroupsKept DEF PersistRow, TypeInv
    <2> QED
      BY <2>1, <2>5, <2>6, TypeGroups DEF TypeInv
  <1>2. ASSUME NEW t \in Thread, SealTurn(t)
        PROVE  TypeInv'
    <2>1. StreamInv' /\ \A u \in Thread : Within(u)'
      BY <1>2, StreamsKept DEF SealTurn, slice, streams, bounds
    <2>2. born' = born /\ born' \subseteq Thread /\ cut' \subseteq Thread
      BY <1>2 DEF SealTurn, TypeInv, TypeOK
    <2>3. ServerType'
      BY <1>2, TypeGroups DEF SealTurn, TypeInv, ServerType
    <2>4. SliceType' /\ StreamType' /\ QueryType' /\ BoundType'
      BY <1>2, <2>2, GroupsKept DEF SealTurn, TypeInv
    <2> QED
      BY <2>1, <2>3, <2>4, TypeGroups DEF TypeInv
  <1>3. ASSUME (\E t \in Thread : Query(t) \/ Expire(t)) \/ Refetch
        PROVE  TypeInv'
    <2>1. UNCHANGED <<server, slice, streams, bounds, cut>>
      BY <1>3 DEF Query, FetchThread, ReadThread, ThreadArrives, Probe, ProbeAnswered, Expire,
                  Refetch
    <2>2. StreamInv' /\ \A u \in Thread : Within(u)'
      BY <2>1, StreamsKept DEF server, slice, streams, bounds
    <2>3. born' = born /\ born' \subseteq Thread /\ cut' \subseteq Thread
      BY <2>1 DEF TypeInv, TypeOK, server
    <2>4. \A t \in Thread : Len(log[t]) \in Nat /\ turns[t] \in 0 .. MaxAsks /\ 0 \in 0 .. MaxAsks
      BY ThreadPageAssumption DEF TypeInv, TypeOK
    <2>5. QueryType'
      <3> USE DEF TypeInv, QueryType
      <3>1. ASSUME NEW t \in Thread, FetchThread(t)
            PROVE  QueryType'
        BY <2>3, <3>1, TypeGroups DEF FetchThread
      <3>2. ASSUME NEW t \in Thread, ReadThread(t)
            PROVE  QueryType'
        BY <2>3, <2>4, <3>2, TypeGroups DEF ReadThread
      <3>3. ASSUME NEW t \in Thread, ThreadArrives(t)
            PROVE  QueryType'
        BY <2>3, <3>3, TypeGroups DEF ThreadArrives
      <3>4. ASSUME NEW t \in Thread, Probe(t)
            PROVE  QueryType'
        BY <2>3, <3>4, TypeGroups DEF Probe
      <3>5. ASSUME NEW t \in Thread, ProbeAnswered(t)
            PROVE  QueryType'
        BY <2>3, <2>4, <3>5, TypeGroups DEF ProbeAnswered
      <3>6. ASSUME NEW t \in Thread, Expire(t)
            PROVE  QueryType'
        BY <2>3, <2>4, <3>6, TypeGroups DEF Expire
      <3>7. CASE Refetch
        BY <2>3, <3>7, TypeGroups DEF Refetch
      <3> QED
        BY <1>3, <3>1, <3>2, <3>3, <3>4, <3>5, <3>6, <3>7 DEF Query
    <2>6. ServerType' /\ SliceType' /\ StreamType' /\ BoundType'
      BY <2>1, <2>3, GroupsKept DEF TypeInv
    <2> QED
      BY <2>2, <2>5, <2>6, TypeGroups DEF TypeInv
  <1>4. CASE UNCHANGED vars
    <2>1. StreamInv' /\ \A u \in Thread : Within(u)'
      BY <1>4, StreamsKept DEF vars, server, slice, streams, bounds
    <2>2. TypeOK'
      BY <1>4 DEF vars, server, slice, streams, queries, bounds, TypeInv, TypeOK
    <2> QED
      BY <2>1, <2>2 DEF TypeInv
  <1> QED
    BY <1>1, <1>2, <1>3, <1>4, UserTypes, PageTypes, StreamStepTypes DEF Next

\* Types of the page, the streams and the cache.  Among them: a question
\* starts one turn at most, whether its thread has to be created first, its
\* POST is lost on the way back, or another stream of the thread has unlocked
\* the composer meanwhile.
THEOREM TypeCorrect == Spec => []TypeOK
  <1>1. TypeInv /\ [Next]_vars => TypeInv'
    BY TypeNext
  <1>2. TypeInv => TypeOK
    BY DEF TypeInv
  <1> QED
    BY <1>1, <1>2, TypeInit, PTL DEF Spec
=============================================================================
