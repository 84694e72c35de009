# A TLA+ development of Hughes AI

Hughes AI answers questions about a credit union's loans. A question typed on the page `/intelligence` becomes a *turn* of
a chat thread: a background task of the API runs a ReAct agent, the agent writes a row per message, and the page follows
the rows over server-sent events. For deep questions the agent (the *lead*) proposes a plan, keeps notes and sends batches
of subagents. The same frontend has a Dispute Center, where reviewers take credit disputes through gated stages, and
dashboards, a lineage graph and a member's timeline over read-only routes. This directory holds the specifications of these
parts, the TLC configurations that check them on small instances, and proofs checked by TLAPS. `PROJECT.json` ties each
definition to the lines it models.

Paths below are relative to `src/packages/`; `api/` stands for `api/src/api/`, `nl/` for `nl-engine/src/nl_engine/`,
`page/` for `frontend/src/features/intelligence/`, `disputes/` for `frontend/src/features/dispute-cases/`, `shared/` for
`frontend/src/shared/`.

## 1. Inventory

| Component | State | Operations | Talks to | What is hard |
|---|---|---|---|---|
| Turn pipeline: `api/routes/threads.py`, `routes/turns.py`, `services/lead_agent.py`, `services/tail_turn.py`, `repo/turn_state.py`, `repo/threads.py`, `main.py` | tables `turn_state`, `thread_messages`; one asyncio task per turn; a cursor per response | post a question, drain a turn, tail it, resume it, complete or fail it, sweep orphans at start | the agent run; the page; other API processes through Postgres | check-then-act across processes, rows committed out of `seq_no` order, process death, calls that raise after their effect, polling that must stop exactly after the last row |
| Agent run: `nl/agent/graph.py`, `llm_invoke.py`, `state.py`, `persistence.py`, `api/services/agent_runner*.py` | message list, step count, a queue between a thread and the event loop, rows persisted | call the LLM, retry, run tools, hit the step cap, yield, persist, raise | turn pipeline, tools | a thread and a coroutine on an `asyncio.Queue`, errors on either side, messages seen twice or never, tool calls without answers |
| Research plans and notes: `nl/repo/plans.py`, `lead_memory.py`, `agent/plan_tool.py`, `memory_tools.py`, `api/repo/research.py`, migrations 016 and 017 | tables `research_plans`, `research_lead_notes` | propose, write a note, read notes, abort | the lead; the page | two leads and an abort on one thread at READ COMMITTED, unique indexes, retries, row locks |
| Subagent batches: `nl/agent/subagent_tool.py`, `repo/subagent_calls.py`, `subagent_failure.py` | table `subagent_calls`, a thread pool, a result list | insert, start, run, classify, settle, report | the lead; worker agents | workers that raise, give up or hit the cap beside others, a raise between phases, the order of commits and events |
| Intelligence page: `page/IntelligencePage.tsx`, `api.ts`, `threadSlice.ts`, `sseConsumer.ts` | streaming threads, pending question, cached queries, open streams | submit, create a thread, navigate, receive, close, reconnect, reload, refetch | turn pipeline over HTTP | two streams of one thread, a query answered late, invalidation that waits, failures half way, reload during a turn |
| Thread titles: `api/routes/threads.py`, `services/title_generator.py` | `threads.title`, a task beside the stream | generate, update if null, emit, give up waiting | turn pipeline, page | a second turn before the first title, disconnect |
| Streaming of text and narration: `nl/agent/streaming*.py`, `api/services/agent_narration.py` | buffers of one run | feed, flush | agent run | none that outlives a run |
| LLM providers, MetricFlow tools, prompts, history window | configuration; a subprocess | call, parse, truncate | agent run | numeric edges of pure functions |
| OpenUI validator, dashboards, data model, history and trust routes | none, read-only | parse, SELECT, shape | Postgres | numeric edges: months, ranges |
| Evaluation and benchmarks, synthetic data, dbt models, migrations, deployment | files, tables of source data | batch programs | Postgres | sequential |
| Dispute Center, desk: `disputes/data/caseProgressStore.ts`, `CaseFile.tsx`, the two steppers, gates, attachments panel | stage, sign-offs, viewed files and outcome of each case, in module state; selected step and open viewer in component state | open, jump, leave, reload, select, go back, continue, resolve, sign off, view | the screens | state of two lifetimes: the store outlives the screens, React keeps a stepper across a jump, a reload keeps only the URL |
| Dispute Center, book and screens: `disputes/data/*.ts`, queue, compliance strip, stage panels | none; tables of mock cases | categorise, count, map a recommendation to a response | the desk | the same fact read by several screens apart from one another |
| Pages: `router.tsx`, `DashboardContext`, `MonthSelector`, side nav, launchpad, palette, the query hooks | the URL, the browser's history, the query cache | navigate, go back, pick a month or a filter, reload, answer, settle the month, expire | API, client telemetry | a month in the URL that belongs to no page, answers that are late, a cache entry older than the page, an effect beside the user |
| Headlines, cards and tiles: `shared/insights/`, `tiles.ts`, the dashboard pages | none | read one body three times | pages | thresholds, roundings and slices that must agree |
| Lineage screen: `frontend/src/features/data-models` | filters, selection, two cached queries | toggle, filter, select, close | pages | an ancestor closure over a graph; an answer for a node that is no longer selected |
| Member journey: `disputes/member` | query, dates, category | type, pick, clear; generate, sort, filter | pages | date arithmetic, inclusive ends, filters that combine |
| Client telemetry: `shared/telemetry` | a buffer, a timer | emit, fire, flush on hide | every page | three ways to empty one buffer, a tab that goes |
| App frame, pages without a route, charts, answer rendering, UI primitives | presentation | render | RTK Query | none the models reach |

What makes them correct: a response carries exactly the rows of its turn, in order, none missing, and ends (turn pipeline);
what is persisted is what the agent produced, and the message list can be sent to an LLM again (agent run); one active plan
per thread, the newest, and an abort is final (plans); a batch's result tells what each worker did (subagents); the composer
never stays locked and a settled page shows the whole thread (page); a case moves one stage at a time past gates that are
cleared, closes only at its last stage, and every screen tells the same of it (desk); a page comes to rest on a month it has
with the body of that month (pages); where strip, cards and tiles contradict each other about a body, it is for a cause
somebody knows of (dashboards); the canvas is the lineage of what is filtered (lineage); the timeline is whole (journey); no
event the user saw is lost (telemetry).

`PROJECT.json` lists 40 hazards of these components at the lines where they bite, with the property that covers each, or
why none does.

## 2. The modules

| Module | Models | Proofs |
|---|---|---|
| `TurnLog` | abstract: append-only logs, subscribers that get each entry once | |
| `LeadTurn` | the turn pipeline, any number of API processes | `LeadTurnProofs`, `OneProcessProofs` |
| `TurnEvents` | the events a message becomes, by way of the chat and by way of the tail | |
| `AgentTurn` | the graph, its producer thread, the queue, the consumer | `AgentTurnProofs` |
| `ResearchPlans` | plan and note tools, the abort endpoint, one step per SQL statement | `ResearchPlansProofs` |
| `CallLifecycle` | abstract: the life of a row of `subagent_calls` | |
| `SubagentBatch` | `run_subagent`, its thread pool and its workers | `SubagentBatchProofs` |
| `ThreadPage` | the intelligence page in one tab, with the server reduced to rows and running turns | `ThreadPageProofs` |
| `CaseWorkflow` | abstract: what the Dispute Center promises of a case, without screens | |
| `DisputeDesk` | the session store, the steppers, the gates and the attachments panel | `DisputeDeskProofs` |
| `CaseBook` | the mock cases, their AI artifacts and tables, as far as anything tells them apart | |
| `CaseScreens` | queue, compliance strip and stage panels, computed from book and store | `DisputeDeskProofs` |
| `TelemetryClient` | buffer, batch, timer and beacon of a tab | `AppShellProofs` |
| `StableSort` | the sort two pages call, `Array.prototype.sort` by a field | `AppShellProofs` |
| `InsightRules` | headlines, insight cards and tiles as tones and labels over amounts | `AppShellProofs` |
| `DataModelScreen` | the lineage screen | `AppShellProofs` |
| `MemberJourney` | the member's timeline and its filters | `AppShellProofs` |
| `AppShell` | one tab: URL, months, query cache, and the telemetry, rules, lineage and timeline under it | `AppShellProofs` |

`MC*` modules give the constants values for TLC. Operators marked *variant* are mutated forms of the definition that
follows them: each property is paired in `PROJECT.json` with a variant that breaks it.

**LeadTurn.** A variable per column of `turn_state`, the rows of `thread_messages` as a set of `[seq, thread, turn]`, a
program counter per request and per background task. Every process runs one event loop: `LoopFree` and
`LoopYieldsInHandler` say when another coroutine may run, and a handler's psycopg calls block the loop, so within one
process `post_message` up to the tail is not interleaved with other handlers, and across processes every SQL statement is.
`BeginInsert`/`StoreRow`/`CommitInsert` separate the allocation of `seq_no` from the commit, because a BIGSERIAL value is
visible only when its transaction commits. Each writing call may raise before its effect or after it (`LoseAppendAck`,
`LoseCreateAck`, `LoseInsertAck`, `LoseMarkAck`, `LoseFailAck`): a `create_running` that raises after its COMMIT leaves a
turn without a task. `Window` is the number of messages `latest_n_messages` reads as history (20).
`Crash` stops a process and its tasks; `Start` runs `cleanup_stale`. Row contents and authorisation are left out.
`TurnLog` is implemented under the mapping `phase`/`log`/`sub` at the end of the module.

**AgentTurn.** The state of the LangGraph run (`node`, `messages`, `steps`), the producer's thread, the queue and the
consumer. An LLM answer is a sequence of tool calls from `Responses` or prose; a call may fail transiently (retried up to
`MaxRetries`) or for good, tools may raise, terminal tools end the run. `FindEmpty`/`Register` are the two halves of
`Queue.get`, between which the other thread may put. Token deltas and history truncation are left out. `TurnEvents` keeps of
a message the names of its tools and the shape of its content (prose, blank, a list of parts, ...) and of an event what it
tells, because chat and tail differ in both: see section 5.

**ResearchPlans.** A lead's tool call is a sequence of statements (`ReadLatest`, `FindActive`, `LockRow`, `InsertPlan`,
`CommitPlan`, ...). An UPDATE evaluates its WHERE on a snapshot (`match`), then locks the rows it found one by one (`held`),
waiting for whoever holds the next, and re-evaluates (`hit`). An INSERT waits, with these locks, for a transaction that has
inserted the same version (`IndexFree`); one that meets a committed row fails, and the tool answers the lead with the error
(`PlanRaced`). The deadlock detector of PostgreSQL is left out, so that a cycle of waits would show. Two leads on one thread
are what a double submission to two processes produces.

**SubagentBatch.** The three phases of `run_subagent`: a row per entry inserted pending and marked running, the pool of
`min(entries, workers)` threads, the finalising loop over the results in order. A worker is the ReAct graph seen from
outside: it answers, asks for more, gives up, raises or hits the step cap. Any statement may raise, and the process may
stop (`Crash`). It implements `CallLifecycle`, which says what the audit panel may rely on.

**ThreadPage.** `live` is `streamingThreadIds`, `bubble` is `pendingQuestion`, `tailed` the ref of the reconnect effect. A
stream goes from request to open to off; `Receive` takes the next row of the tailed turn, `Close` is the end of the response
with `consumeSseStream`'s synthetic final and invalidation. RTK Query is a library: its cache, its late answers, its delayed
invalidation (no tag is processed while a request is pending, and a hook that is used again no longer counts its older
mutation) and its expiry are modelled from how the page uses them and marked external. Turn-status, the thread query and the
streams read the server at different moments, which is the point of the module. `cut` is a history variable: threads of
which the tab lost a stream since it last followed the last turn to the end. The composer of a streaming thread is disabled,
the buttons of a clarification are not (`ClarifyShown`), and on the empty page a question may be sent while the thread of
the one before is still being created: questions under way are connections in `"create"`. Queries do not fail here, and what
the stream draws while it runs is left out; the title event, which comes between the last row and the end of the response,
only makes `Close` late.

**DisputeDesk.** `seeded`, `stage`, `resolved`, `signoffs`, `outcome` and `acknowledged` are the store of
`caseProgressStore.ts`; `page` is the route, `selected` and `viewer` the component state. `JumpToCase` is the browser's
history going from one case file to another: both are the route `/disputes/:caseId`, so the stepper keeps its selection
when the kinds are equal and the viewer stays open when both cases have a panel. `Reload` empties the store and mounts the
page again. It implements `CaseWorkflow`, whose `cleared` is the set of cases the gates let go.

**CaseBook and CaseScreens.** The cases of `dataAccuracyCases.ts` and `fraudCases.ts`, the AI artifacts, sign-offs and
response tables, reduced to what a screen or a gate reads; `FiledEntry` is the part of it the desk needs, and `MCBook` is
made of it. `CaseScreens` draws the queue, the strip and each stage's panels from the store and the book by the definitions
of each component, which the code writes apart from one another; its invariants relate them.

**AppShell.** `url` is `<<route, asOfDate, params>>`, `query`, `months` and `trust` the cache entries, `shown` the key whose
body is on screen. `Follow` is what a change of the URL mounts, unmounts and asks; `SettleMonth` is the effect of
`MonthSelector`; `Load` is a new document (reload, or the palette, which sets `window.location`). React, React Router and
RTK Query are libraries, modelled from how the pages use them and marked external. Every request action becomes an event
through `telemetryMiddleware`, so `AppShell` drives `TelemetryClient` with each step. `InsightRules` has no state: its
invariant evaluates every rule of a surface on all bodies of `Payload`, which the run chooses around the thresholds and the
proof leaves arbitrary. A loop of the source (the stack of `ancestorClosure`, a sort, a filter, a sum) is a recursive
function on `0..n`, which TLC evaluates and the provers can unfold.

How they fit: a `Receive` of ThreadPage is an `Emit` of LeadTurn; a `StoreRow` of LeadTurn is one `ProcessMessage` of
AgentTurn; the tools of AgentTurn are opaque there and are the actions of ResearchPlans and SubagentBatch. They are
checked apart because each already has over a hundred thousand states; where one relies on another, it relies on a checked
property (ThreadPage on `TailExact`, LeadTurn's task on `ProducerEnds`). DisputeDesk and AppShell are tabs of the same
frontend and share nothing but the router.

## 3. What TLC checks

| Run | Distinct states | Question |
|---|---|---|
| `lead_turn_one_process` | 1.2 M | One process, two requests, two turns of two rows, a crash with restart, two calls that raise before or after their effect: the guard lets one turn run per thread, the history lacks nothing its window has room for, a complete turn is sealed, and the pipeline implements `TurnLog`. |
| `lead_turn_two_processes` | 1.3 M | Two processes on one database: each has at most one running turn on a thread (`OneRunningPerProcess`), tails stay exact and complete whatever commits when, statuses latch. `AtMostOneRunning` is not claimed: the guard of `start_lead_turn` is a check before an insert and two processes pass it together. |
| `lead_turn_liveness` | 0.16 M | One crash and one raising call: turns settle and responses end, but for a turn nobody works on any more, which is swept when it is old and a process starts. |
| `agent_turn` | 0.81 M | Three steps, two retries, one failing insert: rows are what the graph yielded, every tool call is answered, the tail retells answers and calls as the chat does and ends where it ends, a turn ends by one of its exits only, the step cap ends every run. |
| `research_plans` | 0.34 M | Two leads, an abort, a raising statement: one active plan and it is the newest, notes without gaps, an abort is final, no cycle of transactions that wait for rows or for the index, every call returns. |
| `subagent_batch` | 0.12 M | Four entries on two threads: results agree with rows entry by entry, events follow commits, rows follow `CallLifecycle`, the call ends. |
| `thread_page` | 1.95 M | A thread created from the empty page and two questions, the second asked after the first, by the button of a clarification while the first streams, or while the thread is being created, with a failure, a reload or a return to the page: the composer is never locked without a stream that can open it, and a page at rest shows every row unless a stream was lost. |
| `dispute_desk` | 0.05 M | A draft at its intake with a consumer image, one at its decision with an affidavit and a fraud case past its intake with a sign-off on record, on three days around their deadlines, with jumps, reloads and edited sign-offs: a case closes only at its end, who is held back is told why on the same screen, the strip counts the rows the queue shows, step, document and panels are those of the case on screen and tell a decision alike, and the screens implement `CaseWorkflow`. |
| `app_shell` | 0.35 M | Two dashboards with different months, the sources, lineage and member pages, two moves of the user, failing requests, an expiring cache, reloads and a hidden tab: a page comes to rest on a month it has, nothing the user saw is lost to telemetry, canvas and timeline are complete, strip, cards and tiles contradict each other only for known causes. |

Three runs end in a counterexample on purpose. Each checks one sentence of the repository that the code does not keep:

| Run | The sentence | What happens |
|---|---|---|
| `lead_turn_scale_up_sweep` | the sweep marks "orphaned" rows (`api/repo/turn_state.py`) | a process added while another works fails a live turn older than ten minutes |
| `agent_turn_lost_wakeup` | the task marks the turn "on completion or exception" (`lead_agent.py`) | `put_nowait` from another thread, between the empty check and the getter, wakes nobody; the turn runs for ever |
| `thread_page_reload` | after a reload "the answer populates" (`IntelligencePage.tsx`) | the thread is read before the turn ends, turn-status after; nothing refetches |

**Bounds.** Each bound is a constant named in its module. Two requests, two turns and two rows are the least that give a
response a row before, at and after its cursor, and a turn of the same thread that is not its own. One crash and one or two
raising calls put a failure at every point of every path, and a second failure on the path that handles the first. Three
steps and two retries reach the cap from every node. Three plan versions reach the cap of the tool and let a row be
superseded twice. Four entries on two threads make entries wait while others finish in any order, three steps let a worker
answer before, in and after its last one. On the page, two questions let a second stream start while the first is open (the
final row opens the composer before the turn is sealed), and `MaxWork` lets a second question go with one failure or one
reload but not both. At the desk, one case of each kind that has a gate is enough, because cases meet only in a jump, and a
jump within a kind and between kinds both occur; `EditBound` lets one sign-off differ from the book at a time, since a gate
reads only its own. In AppShell, `BATCH_MAX` is 2 (20 in the code), the least that separates an emit that waits from one
that fills the batch; two dashboards, of which one has a month the other lacks, and two moves of the user let a carried
month meet a page without it and then a return, a reload or a second page while requests are open. A third move or a third
dashboard exceeds what a run may take. Symmetry is declared over connections, or processes, and only in runs without
liveness. Deadlock is not checked in any run because every program here may come to rest: no more questions, no more
requests.

**Not covered by a bound.** Two threads streaming at once in ThreadPage, and so two threads created at once, need more states
than a run may take; the theorems of `ThreadPageProofs` are about any number of threads. In the run the thread is created
while another question waits for one of its own, which never comes.
`lead_turn_two_processes` has no raising call: that a turn's status latches all the same is checked with two processes by the
proof alone. A history window that is shorter than the thread is met by `lead_turn_one_process` only (`Window` is 2).

**Fairness.** LeadTurn: weak fairness of handlers, tasks, tails and process starts, which asyncio's ready queue and Cloud
Run's minimum of one instance give, and of `Age`, the clock: time passes for a turn that runs, and a process that is down
starts. No process has to die, so what only a start settles is claimed only where one is down. AgentTurn: of the producer
thread and of the consumer. The LLM answers or fails because the clients have timeouts; no fairness chooses between the two.
ResearchPlans: of each statement and of the abort; Postgres grants a lock that is free. SubagentBatch: of the tool and of
each worker thread. Crashes, failures, user actions and disconnections are never fair. AppShell: of the first render, of the
answers (a request is answered, or fails when the network times out) and of the effect of `MonthSelector`, which React runs
after a render; not of the timer, the user or the cache. ThreadPage and DisputeDesk have no liveness property: the page's
streams end by what LeadTurn shows, and a reviewer may always stop.

## 4. What is proved

All constants are arbitrary within the assumptions stated in each module (bounds are naturals, sentinels are distinct
from real values); TLC evaluates the assumptions in the runs above.

* **`LeadTurnProofs`** - `TypeCorrect`; `PipelineCorrect`, the inductive invariant `PipelineInv`; from it `TailIsExact`,
  `TailIsComplete` and `CompleteTurnIsSealed`. That a response carries exactly the rows between `from_seq` and its cursor
  does not survive a step by itself: the row that is committed next might lie below a cursor. `WriterInv` says that the
  rows of a turn are written by one task in increasing `seq_no` and that a turn that is complete has no insert under way;
  `ReaderInv` says what a response has sent against what its cursor has passed. A row committed out of order belongs to
  another turn, so it never falls behind the cursor of this one. The proof has one step for each action, any number of
  processes, turns, crashes and raising calls. `LeavesRunningOnce` (`StatusLatched`) is the action property that goes with
  it.
* **`OneProcessProofs`** - for any number of processes, `OneTurnPerProcess` (`OneRunningPerProcess`): a process never starts
  a second turn on a thread while one it started there runs. `GuardInv` carries it: a handler past the guard knows every
  running turn of its own process, because until the INSERT that process runs no other handler (`LoopInv`), and because a
  thread with a running turn has a last one, which the guard's query returns (`LastRunning`). Then, under the assumption
  `OneProcess`, a single API process (`infra/deploy-api.sh` keeps one up and allows three): `OneTurnAtATime`
  (`AtMostOneRunning`), `HistoryIsWhole` (`HistorySeesEarlierTurns`, for every length of the window) and the refinement
  `OneProcessImplementsLog` (`ImplementsTurnLog`; a turn whose `create_running` raised is opened without a subscriber,
  `Open` of `TurnLog`). The guard and the INSERT are two transactions, so the argument is the event loop: `LoopInv` (any
  number of processes) says that a process is in one handler or in one task's synchronous code at a time, and `OneLoopInv`
  that from the read of the history to the INSERT nothing else of the only process runs, that the sweep of a starting
  process meets no live task, and that all turns of a thread but the last have ended. For two processes these three
  properties are not claimed.
* **`AgentTurnProofs`** - `TypeCorrect` and six properties of the run: `RowsFollowTheTurn` (`RowsAreTheTurn`), `AllIsStored`
  (`NothingLost`), `ErrorIsSeenOnce` (`ErrorFrameIffRaised`), `EveryCallIsAnswered` (`CallsAnswered`), `OneEnd`
  (`TurnEndsOnce`) and `TailTellsTheAnswers` (`TailRetellsTurn`: prose, calls and answers with widgets are told event by
  event as in the chat, and the tail ends where the chat does, but for an answer without widgets), for every set of tools
  and answers, every history length and every cap. `GraphInv` ties the node that runs next to the end of the message list:
  which calls still lack their result, where a terminal call or prose may stand. `QueueInv` says that what is stored, the
  chunk in hand and the queue together hold everything that was put; that an error item is put once; and that the sentinel
  is the last item.
* **`ResearchPlansProofs`** - `TypeCorrect`, `OneActivePlan` (`ActiveIsLatest`), `AbortedForEver` (`AbortIsFinal`),
  `NoDeadlock` (`NoWaitCycle`: with one active plan an UPDATE has one row to lock, so a lead that holds a row waits at most
  for an INSERT, and that one only has to commit) and `NotesAreDense` (`NotesDense`, from `Numbered`: a note about to be written has its predecessors in the table). The
  strengthening `PlanInv` follows a proposal between its statements: versions are dense, what a lead has read exists, the
  rows its UPDATE has changed are still active and locked by no other lead, and every active row is among those it will
  supersede or makes its INSERT fail.
* **`SubagentBatchProofs`** - `TypeCorrect`, `Contained`, `ReturnsTheRows`, `EventsTellOfRows` (`EventsFollowRows`),
  `PoolIsBounded` (`PoolBound`, which no run checks) and the refinement `ImplementsLifecycle`. `IInv`
  adds to the properties that the phases stay within the batch (`Window`), that a worker that is done has an outcome and
  one that is not is below the cap (`Workers`), that finalising starts when all workers are done (`Finalizing`), and that
  the report so far agrees with the rows entry by entry (`Reported`).
* **`DisputeDeskProofs`** - `TypeCorrect`, `ClosedAtTheEnd` (`ResolvedAtTheEnd`), `HintsAreTrue` (`BlockedIsExplained`) and
  the refinement `ScreensImplementWorkflow`, for every book that `BookAssumption` allows. The strengthening `IInv` says that
  no stage passes the last one of its case and that a case the store has no entry for is as the book filed it, so that
  seeding on first use changes nothing the workflow sees; the type invariant carries that the selected step belongs to the
  case on screen, which the jump between cases of one kind needs. About the screens: `StripAgreesWithRows`
  (`StripCountsRows`), for every choice of cases, every day and after every resolution, which needs that a case the tables
  close is never open again, whatever the store forgets (`FiledClosed`); and `DecisionsAreInformed` (`DecisionOnOneScreen`),
  from the type invariant, which no run lists because this one says the part of it that matters, and from the tables: the
  step on screen is a step of the case on screen, and where a gate is drawn the tables hold what its panels need
  (`DraftsAreTripped`, `BlocksHaveEvidence`). Both take `ScreensAssumption`: the cases are those of the mock tables, filed
  as the tables say (`FiledEntry`, which `BookAssumption` is checked against).
* **`AppShellProofs`** - Telemetry: `TelemetryIsKept` (`TelemetryKept`) and `ImplementsClient` (the tab's telemetry is
  the client's own specification, which the pages only feed), for every batch size, every set of dashboards, months and
  filters and any number of moves. Each step of the shell is shown to be a step of the client or
  none, so the invariant is proved once, on the client.
  What the pages compute, for data of any size: `CanvasShowsLineage` (`LineageOnScreen`),
  `ConflictsHaveKnownCauses` (`ConflictsAccounted`) and `ChipsShareTheTimeline` (`TimelineOnScreen`).
  * *Lineage.* For a finite graph, round `i` of the closure holds exactly the nodes with a way of at most `i` edges
    (`RoundsAreUpstream`); a round that adds nothing ends it (`UpstreamGrows`), and each earlier round adds a node, so
    after as many rounds as there are nodes nothing is missing (`UpstreamEnds`). `ScreenInv` adds what the drawer needs: no
    answer for the selected node is there without the drawer describing it, through selection, late answers and expiry.
  * *Cards.* For every body that `PayloadAssumption` allows: no balance is negative (the generators floor balances at zero
    or a cent), and the last row of the executive trend is the row its header shows (both are read from `fct_executive_kpis`
    for the month, `api/repo/executive.py`), or the header is zeros, for a month without a row. `LargestFirstFacts` says
    that sorting keeps the rows and the total and puts the largest first, `TopWithOtherFacts` what cutting to the top slices
    and adding "Other" does to a share, and `HeavySurvivesOther` why the concentration the strip warns of is still one on
    the card. Then a lemma per surface.
  * *Timeline.* For every member and offset of the filler (`OffsetAssumption`: the seed is unsigned, `h >>> 0`):
    `JourneyRuns` (the timeline is sorted, and every touchpoint has a type), `FilterKeeps` (a filter keeps the order and
    exactly what passes) and `FilterCounts` (how long what it keeps is), from which `ChipsShareOut`. `JourneyInv` says that
    whatever a user enters the filter keeps its four fields.
* **`ThreadPageProofs`** - `LockIsReleased` (`LockHasStream`) and `RestShowsAll` (`CaughtUp`), for any number of threads,
  streams, failures and reloads. The first is not inductive: a stream that has received its final answer is still under way
  but unlocks nothing when it ends. `LockInv` asks of every locked thread a stream without a final answer, and of every
  stream that is off that it has forgotten the last one. The second relates the server's rows to three things that are
  under way at different times: `CatchInv` says of every thread whose stream was not lost that its last turn is tailed by a
  stream, whose end will invalidate once more, or that it has ended and its entry is invalidated, being fetched, or has all
  its rows (`AnswerComes`). `TypeCorrect` needs more than types: that a thread's turns stay within the questions asked is
  carried by `Within`, which counts a question once, as a thread being created, as a POST under way or as a turn. Nothing
  bounds how many streams a thread has: a clarification is answered while its thread streams, and several questions wait
  for a thread of their own.

Every invariant and every action property that a passing run checks is a theorem. Model-checked only is the liveness,
which is beyond the prover: `EveryTurnSettles` and `EveryTailEnds` of LeadTurn, `ProducerEnds` of AgentTurn,
`EveryCallReturns` of ResearchPlans, `BatchEnds` of SubagentBatch and `PagesSettle` of AppShell, with the fairness parts of
the refinements. The library's induction theorems take an operator as a parameter, which no installed prover can
instantiate; where a property is about a loop, the induction here is over a set of numbers (`SetInduction`, from the
well-foundedness of `<` on the naturals), and `Iterates` shows once that a recursive function on `0..n` exists. It is for
this that the model has its own stable sort (`SortSeq` leaves open which of two equal elements comes first, which
JavaScript does not) and its own filter (`SelectSeq` cannot be unfolded).

## 5. Disagreements met without a run of their own

Turns and research:

* The comment at `api/main.py:99` says the sweep cleans turns whose task died at a restart; it runs once at start and skips
  turns younger than ten minutes, so a turn that dies in a quick restart stays running until another start.
* `api/services/tail_turn.py:115` and `:135` say the tail builds its events "exactly as" the chat and "mirrors" it. It names
  every tool that has no widgets "tool" and narrates its result as such; it narrates prose that was a list of parts, which
  the chat passes over in silence; and a final answer without widgets does not end it. `TailRetells` says what is left.
* `create_running` is one transaction and may raise after its COMMIT: the request is answered 500, and the turn stays running
  without a task until it is swept; every question sent meanwhile joins it and is not answered.
* The lead prompt that `lead_agent.py` prepares is never sent: `_initial_messages` is read nowhere and the chat prompt is
  used.
* A row left by a batch whose process stops, or whose statement raises between phases, stays `pending` or `running`; the
  docstring of `nl/repo/subagent_calls.py` says each call reaches complete or failed. A statement that raises while results
  are stored loses the results of the whole batch for the lead.
* A `final_answer` whose arguments are refused is recorded as complete with no summary; an answer given in the last step is
  dropped as `structural_step_cap`; a transient LLM error never raises out of a worker, so it is reported as `unknown` and
  not as `transient_worker_exception`.
* The cap on plan versions counts a thread's plans, though `plan_tool.py` and `plans.py` speak of one turn; a note may be
  written to a plan that has been superseded; the comment of `lead_memory.py` that one connection avoids a race holds for
  the connection and not for the race, which the unique index catches.
* The abort endpoint's doc says it stops the agent's persistence; no code does.
* A failed turn's error frame reaches no client: `_drain_lead_turn` drops it, and the tail ends as for any sealed turn. The
  page's synthetic final is what unlocks the composer.
* `pendingQuestionRebound` rebinds whatever question is pending; if the user asked on another thread meanwhile, that bubble
  moves to the new thread. If `createThread` fails the bubble stays bound to no thread. Two questions sent from the empty page
  make two threads; the page ends on the one whose answer is later.
* `ComposerInput` is disabled while a thread streams, `ClarificationControl` is not: its click joins the running turn, and the
  question is stored and not answered, or starts the next turn beside the open stream.
* A question sent between the final row and the seal of a turn joins the running turn: it is stored and never answered.

Dispute Center:

* The queue shows the recommended response code of a resolved case as furnished (`DisputeQueue.tsx:28`), also when the
  reviewer overrode it. The Close stage shows the mock outcome ("Pending") and the Suppress stage the mock `blockApplied`
  after a resolution; `setStage` never updates the status.
* Approving CBD-4835 resolves it as blocked under §605B without the identity theft report that `GATE_EXPLAINER` of
  `signalLibrary.ts` asks for. Choosing `more_info` resolves a case too.
* `caseSignoffs.ts:11` says only gates that are already cleared are seeded; CBD-4822 is at stage 0 and has a sign-off for it.
* The footer says "Completed step" for stages ahead too. Sign-offs stay editable after their gate was passed and after the
  case is closed. The viewer's index survives a jump between cases.
* The counts in the header comment of `dataAccuracyCases.ts` are not those of its rows; the checks recorded for CBD-5102
  differ from its gates; `aiTypes.ts` maps verify to 01 and 23 but CBD-5104 uses 24. The image reminder of the Decide stage
  reads the mock's flag and not the store.

Pages and telemetry:

* The library dispatches a rejected action on every cache hit, and `telemetryMiddleware.ts` reports it as a failed request;
  its `cache: hit` says that a key was fetched before, although a request was made.
* A page whose request fails (a malformed month is answered 422) unmounts the month selector, so the settling its comment
  promises never happens and no control of the page leads out; the side nav carries the bad month on. A failed list of
  months reads "Loading months…" for ever.
* Settling pushes a history entry, so the back button returns to the month that settles again.
* `depositMixInsight` receives the slices of `topWithOther`: "Other" may be named the largest product. A ratio of exactly
  1.5 %, or just below, is inside the healthy band on the strip, informational on the card and above on the tile. A ratio that
  rose below the band is a warning on the strip and healthy on card and tile. For a month without rows the executive body has
  zeros and an older trend, which the card reads. `ConflictsAccounted` says that there are no further conflicts. A past-due
  tile without a change shows an arrow down.
* An event emitted in a tab that is already hidden is lost when the tab closes within five seconds; `TelemetryKept` claims
  only what was emitted in a visible tab.
* The command palette loads a new document and drops the month. The "Complaints" chip of the timeline also holds letters and
  statements. The drawer of the lineage screen shows the previous node's detail while the next one loads.

## 6. Not modelled

Layout, charts, rendering of answers, prompts, generated and source data, SQL models, deployment scripts: nothing there has a
step another actor can interleave with, or a state that outlives a call. Read-only routes are single queries. The research
verifier, the worker's persistence callback and the planner of ADR-0008 have no caller in the API; `lead_agent.py` replaced
them. `features/executive`, `features/deposits`, `features/history` and the trust footer are imported by no page. Left out
inside modelled parts: token deltas and history truncation (agent run), what a stream draws while it runs and failing queries
(intelligence page), authorisation and row contents (pipeline), names, addresses, amounts and wording (Dispute Center),
positions and styles (lineage), what an event says (telemetry). Details per component are in `PROJECT.json`.

## 7. Plan

Done: LeadTurn, AgentTurn, ResearchPlans, SubagentBatch, ThreadPage, DisputeDesk with its book and screens, AppShell with the
modules it composes; the abstract TurnLog, CallLifecycle and CaseWorkflow; eight modules of proofs.

What would come next, in this order:

1. `ThreadTitle`: the title task beside the stream (guarded update, shielded wait with a timeout, disconnect, a second turn
   before the first title); abstractly, a title is set at most once and is announced only after it is stored.
2. The pending question over two threads, apart from the streams, with the rebinding and a failing `createThread`, small
   enough for TLC to run two threads at once.
3. Pure algorithms against reference definitions: `truncate_history` (what it leaves of a tool call and its answer),
   `parseSseBuffer` over chunk boundaries, the grader's matcher, the month arithmetic of the dashboard routes.
4. Token streaming and the history window in AgentTurn; liveness of the page (`live` leads to not `live`) on an instance
   with one question.
5. Proofs: the liveness of one component reduced to a chain of action properties (what is left of a turn, a batch or a
   request decreases with each fair step), so that only the last temporal argument is left to TLC; the wiring of
   components, such as a `Receive` of ThreadPage as an `Emit` of LeadTurn.
