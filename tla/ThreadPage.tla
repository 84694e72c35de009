----------------------------- MODULE ThreadPage -----------------------------
(***************************************************************************)
(* The page /intelligence in one browser tab: which threads are streaming, *)
(* the bubble of the question just sent, the streams of postMessage and    *)
(* tailTurn, and the cached answers of the thread and turn-status queries. *)
(* Of the server the model keeps the rows of a thread, in the order the    *)
(* tail and the thread query return them, and whether a turn is running;   *)
(* LeadTurn is the model of that side.  RTK Query is a library: what it    *)
(* does with subscriptions and invalidated tags is modelled from how the   *)
(* page uses it.                                                           *)
(***************************************************************************)
EXTENDS Integers, FiniteSets, Sequences

CONSTANTS
    Thread,
    Known,       \* threads that exist when the tab is opened
    Content,     \* questions a user may type
    Conn,        \* questions under way and streams of the tab
    What,        \* kinds of rows an agent may store
    NoThread, NoConn,
    MaxRows,     \* bound: rows of a turn
    MaxAsks,     \* bound: questions sent
    MaxFaults,   \* bound: requests and streams that fail
    MaxReloads,  \* bound: reloads of the tab and returns to the page
    MaxWork      \* bound: threads, questions, failures and reloads together

ASSUME ThreadPageAssumption ==
    /\ What \subseteq {"step", "clarify", "prose", "answer"}
    /\ Known \subseteq Thread /\ NoThread \notin Thread /\ NoConn \notin Conn
    /\ MaxRows \in Nat /\ MaxAsks \in Nat /\ MaxFaults \in Nat /\ MaxReloads \in Nat
    /\ MaxWork \in Nat

VARIABLES
    \* The server.
    born,      \* rows of threads
    log,       \* rows of thread_messages, [turn, what]; a user row has turn 0
    turns,     \* turns started on a thread
    running,   \* threads whose last turn is running
    \* The slice and the route.
    view,      \* threadId of the URL
    live,      \* streamingThreadIds
    bubble,    \* pendingQuestion: none or one [thread, content]
    tailed,    \* tailedTurnIdRef: none or one [thread, turn]
    \* The streams.
    cpc, ckind, cthread, cask,
    cturn,     \* the turn the server tails for it
    cpos,      \* place in the log it has got to
    cfinal,    \* sawTerminalEvent
    latest,    \* the mutation each hook still tracks
    \* RTK Query.
    cache,     \* rows the cached thread holds, -1 for no entry
    fetch,     \* its request: "none", "sent", "read"
    reading,   \* rows the server read for it
    probe,     \* turn-status: "none", "sent" or "answered"
    seen,      \* the running turn it named, 0 for idle
    stale,     \* invalidated threads waiting for requests to settle
    \* Bounds and history.
    asks, faults, reloads,
    cut        \* threads that lost a stream, and closed none of their last turn since

server == <<born, log, turns, running>>
slice == <<view, live, bubble, tailed>>
streams == <<cpc, ckind, cthread, cask, cturn, cpos, cfinal, latest>>
queries == <<cache, fetch, reading, probe, seen, stale>>
bounds == <<asks, faults, reloads>>
vars == <<server, slice, streams, queries, bounds, cut>>

Final == {"prose", "answer"}  \* rows whose event is a final
Hook == {"create", "post", "tail"}

TypeOK ==
    /\ born \subseteq Thread
    /\ log \in [Thread -> Seq([turn : 0 .. MaxAsks, what : What \cup Content])]
    /\ turns \in [Thread -> 0 .. MaxAsks]
    /\ running \subseteq born
    /\ view \in born \cup {NoThread}
    /\ live \subseteq born
    /\ bubble \subseteq [thread : born \cup {NoThread}, content : Content]
    /\ tailed \subseteq [thread : born, turn : 1 .. MaxAsks]
    /\ cpc \in [Conn -> {"off", "create", "request", "open"}]
    /\ ckind \in [Conn -> Hook]
    /\ cthread \in [Conn -> born \cup {NoThread}]
    /\ cask \in [Conn -> SUBSET Content]
    /\ cturn \in [Conn -> 0 .. MaxAsks]
    /\ cpos \in [Conn -> Nat]
    /\ cfinal \in [Conn -> BOOLEAN]
    /\ latest \in [Hook -> Conn \cup {NoConn}]
    /\ cache \in [Thread -> Nat \cup {-1}]
    /\ fetch \in [Thread -> {"none", "sent", "read"}]
    /\ reading \in [Thread -> Nat]
    /\ probe \in [Thread -> {"none", "sent", "answered"}]
    /\ seen \in [Thread -> 0 .. MaxAsks]
    /\ stale \subseteq born
    /\ asks \in 0 .. MaxAsks /\ faults \in 0 .. MaxFaults /\ reloads \in 0 .. MaxReloads
    /\ cut \subseteq Thread

-----------------------------------------------------------------------------
(* Queries                                                                 *)

InFlight(t) == {c \in Conn : cthread[c] = t /\ cpc[c] \in {"request", "open"}}

\* The next row of its turn a stream has not received.
NextRow(c, i) ==
    LET rows == log[cthread[c]] IN
    /\ i \in DOMAIN rows /\ i > cpos[c] /\ rows[i].turn = cturn[c]
    /\ \A j \in DOMAIN rows : j > cpos[c] /\ rows[j].turn = cturn[c] => i <= j

Sealed(t, k) == k < turns[t] \/ t \notin running

RowsOf(t, k) == {i \in DOMAIN log[t] : log[t][i].turn = k}

\* The thread hook has the first n rows of t; while the viewed thread is
\* fetched for the first time it may have an earlier answer of any other.
Has(t, n) ==
    \/ t = view /\ n = cache[t]
    \/ cache[view] = -1 /\ n \in 1 .. Len(log[t])

\* The questions among these rows.
Shown(t, n) == {log[t][i].what : i \in {j \in 1 .. n : log[t][j].turn = 0}}

\* lastClarifyMessage: a clarification no later final_answer has settled.  Its
\* buttons are there while the thread streams too.
ClarifyShown ==
    \E t \in Thread : \E n \in 1 .. Len(log[t]) :
        /\ Has(t, n)
        /\ \E i \in 1 .. n :
            /\ log[t][i].what = "clarify"
            /\ \A j \in i .. n : log[t][j].what # "answer"

\* Questions on their way to a thread that does not exist yet.
Creating == {c \in Conn : cpc[c] = "create"}

\* Requests RTK Query counts as pending: a hook forgets its mutation when it
\* is used again, so of the mutations only the latest of each hook counts.
Pending ==
    \/ \E t \in Thread : fetch[t] # "none" \/ probe[t] = "sent"
    \/ \E h \in Hook : latest[h] # NoConn

Init ==
    /\ born = Known /\ running = {}
    /\ log = [t \in Thread |-> <<>>]
    /\ turns = [t \in Thread |-> 0]
    /\ view \in Known \cup {NoThread}
    /\ cache = [t \in Thread |-> -1]
    /\ fetch = [t \in Thread |-> "none"] /\ reading = [t \in Thread |-> 0]
    /\ probe = [t \in Thread |-> "none"] /\ seen = [t \in Thread |-> 0]
    /\ live = {} /\ bubble = {} /\ tailed = {} /\ stale = {}
    /\ latest = [h \in Hook |-> NoConn]
    /\ cpc = [c \in Conn |-> "off"] /\ ckind = [c \in Conn |-> "post"]
    /\ cthread = [c \in Conn |-> NoThread]
    /\ cask = [c \in Conn |-> {}]
    /\ cturn = [c \in Conn |-> 0] /\ cpos = [c \in Conn |-> 0]
    /\ cfinal = [c \in Conn |-> FALSE]
    /\ asks = 0 /\ faults = 0 /\ reloads = 0 /\ cut = {}

-----------------------------------------------------------------------------
(* The page                                                                *)

\* A hook is used: of its earlier mutation it knows nothing any more.
Track(kind, c) ==
    latest' = [h \in Hook |-> IF h = kind THEN c ELSE IF latest[h] = c THEN NoConn ELSE latest[h]]

\* The start of postMessage and tailTurn: streamStarted, then the request.
Start(c, kind, t, ask) ==
    /\ live' = live \cup {t}
    /\ cpc' = [cpc EXCEPT ![c] = "request"]
    /\ ckind' = [ckind EXCEPT ![c] = kind]
    /\ cthread' = [cthread EXCEPT ![c] = t]
    /\ cask' = [cask EXCEPT ![c] = ask]
    /\ Track(kind, c)
    /\ UNCHANGED <<cturn, cpos, cfinal>>

Room(n) == Cardinality(born) + Cardinality(Creating) + asks + faults + reloads + n <= MaxWork
Asks == asks < MaxAsks /\ asks' = asks + 1 /\ UNCHANGED <<faults, reloads>>
Fails == Room(1) /\ faults < MaxFaults /\ faults' = faults + 1 /\ UNCHANGED <<asks, reloads>>
Reloads == Room(1) /\ reloads < MaxReloads /\ reloads' = reloads + 1 /\ UNCHANGED <<asks, faults>>

\* handleSubmit on a thread, by the composer, which is disabled while the
\* thread streams, or by a button of the clarification, which is not.
SubmitHere(c, x) ==
    /\ view # NoThread
    /\ view \notin live \/ ClarifyShown
    /\ cpc[c] = "off" /\ Room(1) /\ Asks
    /\ bubble' = {[thread |-> view, content |-> x]}
    /\ Start(c, "post", view, {x})
    /\ UNCHANGED <<server, view, tailed, queries, cut>>

\* handleSubmit on the empty page, up to the answer of createThread, while the
\* thread of an earlier question may still be under way.
SubmitNew(c, x) ==
    /\ view = NoThread
    /\ cpc[c] = "off" /\ Room(2) /\ Asks
    /\ bubble' = {[thread |-> NoThread, content |-> x]}
    /\ cpc' = [cpc EXCEPT ![c] = "create"] /\ cask' = [cask EXCEPT ![c] = {x}]
    /\ Track("create", c)
    /\ UNCHANGED <<server, view, live, tailed, ckind, cthread, cturn, cpos, cfinal, queries, cut>>

\* pendingQuestionRebound: whatever question is pending goes to the thread.
Rebound(t) == {[b EXCEPT !.thread = t] : b \in bubble}

\* The rest of handleSubmit, wherever the user is by now.
Created(c, t) ==
    /\ cpc[c] = "create" /\ t \notin born
    /\ born' = born \cup {t}
    /\ bubble' = Rebound(t)
    /\ view' = t
    /\ Start(c, "post", t, cask[c])
    /\ UNCHANGED <<log, turns, running, tailed, queries, bounds, cut>>

\* ThreadRail, "+ New thread" and the browser's history.
Navigate(v) ==
    /\ v # view
    /\ view' = v
    /\ UNCHANGED <<server, live, bubble, tailed, streams, queries, bounds, cut>>

\* The effect that drops the bubble once its user row is shown.
ClearBubble ==
    /\ view # NoThread
    /\ \E b \in bubble, t \in Thread : \E n \in 1 .. Len(log[t]) :
        b.thread = view /\ Has(t, n) /\ b.content \in Shown(t, n)
    /\ bubble' = {}
    /\ UNCHANGED <<server, view, live, tailed, streams, queries, bounds, cut>>

\* The effect that reconnects to a running turn.
ReconnectDue ==
    /\ view # NoThread /\ probe[view] = "answered" /\ seen[view] # 0
    /\ tailed # {[thread |-> view, turn |-> seen[view]]}

Reconnect(c) ==
    /\ ReconnectDue /\ cpc[c] = "off"
    /\ tailed' = {[thread |-> view, turn |-> seen[view]]}
    /\ Start(c, "tail", view, {})
    /\ UNCHANGED <<server, view, bubble, queries, bounds, cut>>

\* The tab is loaded again at the same URL.
Reload ==
    /\ Reloads
    /\ cache' = [t \in Thread |-> -1]
    /\ fetch' = [t \in Thread |-> "none"] /\ reading' = [t \in Thread |-> 0]
    /\ probe' = [t \in Thread |-> "none"] /\ seen' = [t \in Thread |-> 0]
    /\ live' = {} /\ bubble' = {} /\ tailed' = {} /\ stale' = {}
    /\ latest' = [h \in Hook |-> NoConn]
    /\ cpc' = [c \in Conn |-> "off"] /\ ckind' = [c \in Conn |-> "post"]
    /\ cthread' = [c \in Conn |-> NoThread] /\ cask' = [c \in Conn |-> {}]
    /\ cturn' = [c \in Conn |-> 0] /\ cpos' = [c \in Conn |-> 0]
    /\ cfinal' = [c \in Conn |-> FALSE]
    /\ cut' = cut \cup running \cup {t \in Thread : InFlight(t) # {}}
    /\ UNCHANGED <<server, view>>

\* The user leaves /intelligence for another page and comes back: the refs
\* and hooks of the page are new, the store and the streams are not.
Remount ==
    /\ Reloads
    /\ tailed' = {}
    /\ latest' = [h \in Hook |-> NoConn]
    /\ UNCHANGED <<server, view, live, bubble, cpc, ckind, cthread, cask, cturn,
                   cpos, cfinal, queries, cut>>

-----------------------------------------------------------------------------
(* The streams                                                             *)

\* streamFinal and streamError both take the thread out of the list.
Unlock(c) == live' = live \ {cthread[c]}

\* The stream is over; c may stand for another one.
Ends(c) ==
    /\ cpc' = [cpc EXCEPT ![c] = "off"] /\ ckind' = [ckind EXCEPT ![c] = "post"]
    /\ cthread' = [cthread EXCEPT ![c] = NoThread] /\ cask' = [cask EXCEPT ![c] = {}]
    /\ cturn' = [cturn EXCEPT ![c] = 0] /\ cpos' = [cpos EXCEPT ![c] = 0]
    /\ cfinal' = [cfinal EXCEPT ![c] = FALSE]
    /\ latest' = [h \in Hook |-> IF latest[h] = c THEN NoConn ELSE latest[h]]

\* unwrap() throws: the bubble stays bound to no thread.
CreateFails(c) ==
    /\ cpc[c] = "create" /\ Fails
    /\ Ends(c)
    /\ UNCHANGED <<server, slice, queries, cut>>

\* start_lead_turn: the question is stored; a running turn is joined.
StartTurn(c, t) ==
    /\ log' = [log EXCEPT ![t] = Append(@, [turn |-> 0, what |-> CHOOSE x \in cask[c] : TRUE])]
    /\ turns' = [turns EXCEPT ![t] = IF t \in running THEN @ ELSE @ + 1]
    /\ running' = running \cup {t}
    /\ UNCHANGED born

PostAnswered(c) ==
    /\ cpc[c] = "request" /\ ckind[c] = "post"
    /\ StartTurn(c, cthread[c])
    /\ cpc' = [cpc EXCEPT ![c] = "open"]
    /\ cturn' = [cturn EXCEPT ![c] = turns'[cthread[c]]]
    /\ UNCHANGED <<slice, ckind, cthread, cask, cpos, cfinal, latest, queries, bounds, cut>>

\* The request is lost on its way there or back.
RequestFails(c) ==
    /\ cpc[c] = "request" /\ Fails
    /\ \/ ckind[c] = "post" /\ StartTurn(c, cthread[c])
       \/ UNCHANGED server
    /\ Ends(c) /\ Unlock(c)
    /\ cut' = cut \cup {cthread[c]}
    /\ UNCHANGED <<view, bubble, tailed, queries>>

\* GET .../tail.  turn-status names no seq_no while the turn is running, so
\* from_seq is 0 and the tail starts with the turn's first row.
TailAnswered(c) ==
    /\ cpc[c] = "request" /\ ckind[c] = "tail" /\ cthread[c] \in running
    /\ cpc' = [cpc EXCEPT ![c] = "open"]
    /\ cturn' = [cturn EXCEPT ![c] = turns[cthread[c]]]
    /\ UNCHANGED <<server, slice, ckind, cthread, cask, cpos, cfinal, latest, queries, bounds, cut>>

NotFoundIgnored(c) ==  \* variant: the status is not looked at
    /\ cpc[c] = "request" /\ ckind[c] = "tail" /\ cthread[c] \notin running
    /\ Ends(c)
    /\ UNCHANGED <<server, slice, queries, bounds, cut>>

\* 404: the turn has ended since turn-status was read.
TailNotFound(c) ==
    /\ cpc[c] = "request" /\ ckind[c] = "tail" /\ cthread[c] \notin running
    /\ Ends(c) /\ Unlock(c)
    /\ cut' = cut \cup {cthread[c]}
    /\ UNCHANGED <<server, view, bubble, tailed, queries, bounds>>

\* dispatchAndTrack: a final answer unlocks the composer, though the stream
\* stays open until the turn is sealed.
Receive(c) ==
    /\ cpc[c] = "open"
    /\ \E i \in DOMAIN log[cthread[c]] :
        /\ NextRow(c, i)
        /\ cpos' = [cpos EXCEPT ![c] = i]
        /\ \/ /\ log[cthread[c]][i].what \in Final
              /\ Unlock(c)
              /\ cfinal' = [cfinal EXCEPT ![c] = TRUE]
           \/ log[cthread[c]][i].what \notin Final /\ UNCHANGED <<live, cfinal>>
    /\ UNCHANGED <<server, view, bubble, tailed, cpc, ckind, cthread, cask, cturn,
                   latest, queries, bounds, cut>>

CloseQuietly(c) == UNCHANGED live  \* variant: no synthetic final
CloseUnlocks(c) == IF cfinal[c] THEN UNCHANGED live ELSE Unlock(c)

\* The server ends the response: a synthetic final if there was none, and
\* the thread's tag is invalidated.
Close(c) ==
    /\ cpc[c] = "open" /\ Sealed(cthread[c], cturn[c])
    /\ \A i \in DOMAIN log[cthread[c]] : ~NextRow(c, i)
    /\ Ends(c) /\ CloseUnlocks(c)
    /\ stale' = stale \cup {cthread[c]}
    /\ cut' = cut \ {t \in {cthread[c]} : cturn[c] = turns[t]}
    /\ UNCHANGED <<server, view, bubble, tailed, cache, fetch, reading, probe, seen, bounds>>

\* The body breaks off: streamError, and nothing is invalidated.
Break(c) ==
    /\ cpc[c] = "open" /\ Fails
    /\ Ends(c) /\ Unlock(c)
    /\ cut' = cut \cup {cthread[c]}
    /\ UNCHANGED <<server, view, bubble, tailed, queries>>

-----------------------------------------------------------------------------
(* The agent's turn                                                        *)

PersistRow(t, w) ==
    /\ t \in running
    /\ Cardinality(RowsOf(t, turns[t])) < MaxRows
    /\ log' = [log EXCEPT ![t] = Append(@, [turn |-> turns[t], what |-> w])]
    /\ UNCHANGED <<born, turns, running, slice, streams, queries, bounds, cut>>

SealTurn(t) ==
    /\ t \in running
    /\ running' = running \ {t}
    /\ UNCHANGED <<born, log, turns, slice, streams, queries, bounds, cut>>

-----------------------------------------------------------------------------
(* RTK Query                                                               *)

\* The thread query: the viewed thread is fetched unless it is cached; the
\* server reads the rows, and the answer arrives later.
FetchThread(t) ==
    /\ view = t /\ cache[t] = -1 /\ fetch[t] = "none"
    /\ fetch' = [fetch EXCEPT ![t] = "sent"]
    /\ UNCHANGED <<server, slice, streams, cache, reading, probe, seen, stale, bounds, cut>>

ReadThread(t) ==
    /\ fetch[t] = "sent"
    /\ fetch' = [fetch EXCEPT ![t] = "read"]
    /\ reading' = [reading EXCEPT ![t] = Len(log[t])]
    /\ UNCHANGED <<server, slice, streams, cache, probe, seen, stale, bounds, cut>>

ThreadArrives(t) ==
    /\ fetch[t] = "read"
    /\ fetch' = [fetch EXCEPT ![t] = "none"]
    /\ cache' = [cache EXCEPT ![t] = reading[t]]
    /\ reading' = [reading EXCEPT ![t] = 0]
    /\ UNCHANGED <<server, slice, streams, probe, seen, stale, bounds, cut>>

\* The turn-status query; nothing invalidates it.
Probe(t) ==
    /\ view = t /\ probe[t] = "none"
    /\ probe' = [probe EXCEPT ![t] = "sent"]
    /\ UNCHANGED <<server, slice, streams, cache, fetch, reading, seen, stale, bounds, cut>>

ProbeAnswered(t) ==
    /\ probe[t] = "sent"
    /\ probe' = [probe EXCEPT ![t] = "answered"]
    /\ seen' = [seen EXCEPT ![t] = IF t \in running THEN turns[t] ELSE 0]
    /\ UNCHANGED <<server, slice, streams, cache, fetch, reading, stale, bounds, cut>>

\* keepUnusedDataFor: answers nobody looks at are dropped.
Expire(t) ==
    /\ view # t /\ fetch[t] = "none" /\ probe[t] # "sent"
    /\ cache[t] # -1 \/ probe[t] = "answered"
    /\ cache' = [cache EXCEPT ![t] = -1]
    /\ probe' = [probe EXCEPT ![t] = "none"]
    /\ seen' = [seen EXCEPT ![t] = 0]
    /\ UNCHANGED <<server, slice, streams, fetch, reading, stale, bounds, cut>>

AtOnce == TRUE  \* variant: tags are invalidated without delay
Settled == ~Pending

\* Invalidated tags wait for all pending requests; then the viewed thread is
\* fetched again, and cached threads nobody looks at are dropped.
Refetch ==
    /\ stale # {} /\ Settled
    /\ stale' = {}
    /\ fetch' = [t \in Thread |-> IF t \in stale /\ t = view /\ fetch[t] = "none"
                                  THEN "sent" ELSE fetch[t]]
    /\ cache' = [t \in Thread |-> IF t \in stale /\ t # view THEN -1 ELSE cache[t]]
    /\ UNCHANGED <<server, slice, streams, reading, probe, seen, bounds, cut>>

-----------------------------------------------------------------------------

User ==
    \/ \E c \in Conn, x \in Content : SubmitHere(c, x) \/ SubmitNew(c, x)
    \/ \E v \in born \cup {NoThread} : Navigate(v)
    \/ Reload \/ Remount

NewThread == \E c \in Conn : CreateFails(c) \/ \E t \in Thread : Created(c, t)

Page == ClearBubble \/ (\E c \in Conn : Reconnect(c))

Stream(c) ==
    \/ PostAnswered(c) \/ TailAnswered(c) \/ TailNotFound(c) \/ RequestFails(c)
    \/ Receive(c) \/ Close(c) \/ Break(c)

Query(t) == FetchThread(t) \/ ReadThread(t) \/ ThreadArrives(t) \/ Probe(t) \/ ProbeAnswered(t)

Next ==
    \/ User \/ NewThread \/ Page \/ Refetch
    \/ \E c \in Conn : Stream(c)
    \/ \E t \in Thread : Query(t) \/ Expire(t) \/ SealTurn(t)
    \/ \E t \in Thread, w \in What : PersistRow(t, w)

Spec == Init /\ [][Next]_vars

-----------------------------------------------------------------------------
(* Properties                                                              *)

\* The composer of a thread is locked only while a stream of that thread can
\* still unlock it, however streams end: closed without a final, broken,
\* refused, or crossed by another POST or tail of the same thread.
LockHasStream == \A t \in live : InFlight(t) # {}

\* Nothing is under way that could still change the viewed thread.
Quiet(t) ==
    /\ view = t /\ cache[t] # -1
    /\ t \notin running /\ InFlight(t) = {}
    /\ fetch[t] = "none" /\ probe[t] = "answered" /\ stale = {}
    /\ ~ReconnectDue

\* When a thread has come to rest the page shows all its rows, the answer
\* and the questions, unless a stream of it was lost: no interleaving of
\* fetches, invalidations, expiry and navigation leaves an old answer.
CaughtUp == \A t \in Thread : Quiet(t) /\ t \notin cut => cache[t] = Len(log[t])

\* After a reload the page asks whether a turn is running and, if so, tails
\* it, "so the spinner reappears and the answer populates"
\* (IntelligencePage.tsx, at useGetTurnStatusQuery).
AnswerPopulates == \A t \in Thread : Quiet(t) => cache[t] = Len(log[t])
=============================================================================
