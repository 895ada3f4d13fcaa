# ibkr-show: TLA+ models, model checks and proofs

ibkr-show imports Interactive Brokers statements into Elasticsearch, shows the
portfolio, and runs LLM agents on it. This directory holds TLA+ models of the
program, the TLC configurations that check them on small instances, and TLAPS
proofs of the properties that matter most for every value of the constants.
Everything is written from the code. Where a document, a comment or a test says
something else, the divergence is named here or in `PROJECT.json`.

    tlc -config agent_task_shared.cfg MCAgentTask     # a run
    tlapm AgentTask_proofs.tla                        # the proofs of a module

## 1. The system

Two backend processes (`docker/backend.Dockerfile` starts uvicorn with
`--workers 2`) serve a Vue frontend; a worker process imports data once a day.
They share Elasticsearch and Redis. Request handlers and background tasks run in
threads of one process. Elasticsearch documents are read and written as a whole,
without versions, with `refresh=True`; locks and the copilot's event bus live in
one process. The hard behaviour of this program follows from that combination:
read-modify-write of shared documents by threads of two processes. The rest of
the program is arithmetic and decision tables over what those documents hold.

| component | state | operations | hard behaviour | correct means |
|---|---|---|---|---|
| agent task board | one document per task: status, error, node board, counter, event window | create, mark_running, node started/finished/failed, sync, graph failed, completed/failed, startup hook | parallel nodes, lost updates, restarts, a second process's startup hook, swallowed faults | no report lost, log ordered, cursors valid, verdict final and in agreement with the board, always closed |
| task runners and report graphs | position in the program, the report's documents | supersteps, fallback documents, four ways of saving, closing | exceptions swallowed in nodes, lost answers, overlapping runs of one date | the verdict says what is stored; nothing unknown counts as safe |
| trade decisions | plan, cards, advice, document | the graph node by node, engines, gate, composer, saving | fallbacks of every node, boundaries, two documents of a run | an add has its evidence, a non-holder is told no exit, one document per run |
| task stream and graph panel | view, cursor, connection | open, stream, poll | two reads per tick, events after snapshot, breaks | the view equals the board when caught up; the final board is shown |
| copilot runs | one document per run: status, pending approval | send, ReAct loop, cancel, completion | check-then-act, cancel against completion, faults | one active run, no run stuck, the end announced |
| copilot approvals | pending approval in the run | approve, refuse, expire, execute | double answers, expiry, faults | a skill runs once and only with consent |
| copilot event bus | stored events, a counter and queues per process | publish, subscribe, list, reconnect | replay against live, several processes, restarts | numbers increase, nothing twice, the end is seen |
| copilot memory | session document, memories | load context, compress segment by segment, rebuild, rename | read-modify-write with an LLM call in it | what counts as compressed is summarised, once |
| worker import | indices, statement reference | poll with retries, bulk upsert per index, clear cache, triggers | partial import, retries, command line against scheduler | triggers follow whole imports, detail survives |
| read-through cache | Redis entries with a TTL | get, compute, set; clear by scan | a reader that overlaps an import | stale data only from overlapping readers, not for longer than the TTL |
| portfolio queries | none | positions, diluted cost, equity curve, calendars, trades, flows | pages, missing rows, settlement dates | the parts add up to the whole |
| LongBridge OAuth and MCP | one JSON file, SDK and session caches | start, complete, refresh, disconnect; call tools, repeat posts that time out or fail | unlocked read-modify-write around HTTP calls, rotating tokens | the token in the file is the one the server accepts |
| market events | event, run and status documents | sync per provider, switches, tests, keys | providers failing one by one, two processes | what a run counts as stored is stored; a switch survives a test |
| evaluation library | cases, runs, feedback, profiles, gate reports | edits, evaluation, gate, conversion of feedback | overlapping rewrites, gate saved in three writes | claims agree with what is stored; no gate passes all-in advice |
| LLM access | providers, calls, versions of prompts | select, call, record, activate | activation in two writes | one active provider and prompt |

Interactions: a task route creates the document and schedules a runner thread;
the runner's graph nodes report through `AgentTaskProgressReporter` into the same
document; the panel reads it through two routes. A copilot send creates a run and
schedules `_execute_stream_run`; its events go through `AccountCopilotEventBus` to
the queues of the process's subscribers and into Elasticsearch; cancel and
approval requests rewrite the run document meanwhile; its closing rewrites the
session and the memories. The daily import clears the cache the query services
fill, then triggers an e-mail and a review task. Every report and every decision
reads facts through the portfolio queries, the LongBridge client and the market
events, asks models through LLM access, and stores one document. The evaluation
reads those documents and judges them.

`PROJECT.json` lists every component with its sources and, under `hazards`, what
can go wrong at which line and which property looks for it.

## 2. Modules

State machines:

| module | what it is |
|---|---|
| `AgentTask` | the task document and all its writers |
| `TaskBoard` | what the document promises its readers; `AgentTask` implements it |
| `TaskStream` | a browser panel composed with `AgentTask` |
| `CopilotRun` | the runs of one session with sends, runners, cancels, approvals |
| `CopilotSession` | what a session promises its user; `CopilotRun` implements it |
| `CopilotEvents` | the event bus of one run and its subscribers |
| `CopilotMemory` | the session document, its messages and memories, and the requests that rewrite it |
| `DailyImport` | importers, indices, triggers and the read-through cache with its readers |
| `LongbridgeAuth`, `LongbridgeMCP` | the token file and its operations; agents calling tools on top of them |
| `MarketSources`, `MarketEvents` | the administrator's status documents; the synchronisations on top of them |
| `TradeDecisionGraph` | decision runs, over `RiskGate` (the gate's table) and `TradeComposer` (plan, action, target) |
| `AgentLoop` | the rounds of the tool-calling runtime and the parse, validate, repair chain |
| `ReportGraph` | daily review, trade review and risk assessment tasks, over `AgentLoop` and `RiskCards` |
| `EvalLibrary` | the evaluation's documents and requests, over `EvalVerdict` and `EvalChecks` |

Pure algorithms, as functions over small tables:

| module | what it is |
|---|---|
| `DecisionEngines`, `DecisionCards` | technical, fundamental and risk/reward engines, and the cards built on them |
| `DecisionEvidence` | account facts, evidence pack, quality, replay, outcomes and statistics of decisions |
| `RiskCards` | the five cards and the scores of a risk assessment |
| `ReviewEvidence`, `DailyEvidence` | facts, scores and invariants of a trade review; attribution and cards of a daily review |
| `EvalChecks`, `EvalVerdict` | deterministic checks, verdict, gate, comparison, coverage, correctness summary |
| `LlmAccess` | the active provider, limits, costs, recorded calls, versions of prompts |
| `PortfolioData` | positions, diluted cost, equity curve, calendars, overview, trades, flows, prices |

`X_proofs` holds the theorems about `X` (`DecisionEvaluation_proofs` those about
`TradeDecisionGraph` and `EvalLibrary`, `Copilot_proofs` those about `CopilotRun` and
`CopilotEvents`); `MC...` the instances for TLC.

### How the state machines correspond to the code

**AgentTask.** `doc` is the stored document: `status`, `error` (error_code), `seq`
(updated_seq), `node` and `graph` (graph_snapshot), `current` (current_nodes) and
`events` (graph_events). Timestamps, tool counts and messages are left out. Each
repository method is an operator on a document (`MarkNodeRunning`, `SyncGraph`, ...)
with the source's name, including the `_append_graph_event` and `_set_snapshot` at
its end. The *actions* are the GET and the INDEX of a call, because others write in
between. `op` is the runner's next call; `pc[n]` is a node thread inside
`instrument_graph_node`. `FallbackFails` chooses between the routes that turn a
fallback into a failure (daily review, risk assessment) and those that do not.
`NodeFault` and `RunnerFault` are Elasticsearch exceptions before or after the write
took effect: the reporter swallows them, the runner's `except` catches them, an
exception in the `except` branch kills the thread. `Crash` and `Restart` are the
owning process dying and a process starting up; `OtherWorkerStart` is another process
running the same startup hook, an `update_by_query` and atomic for a document.

**TaskStream** EXTENDS `AgentTask`: every step belongs to the panel or the task.
`OpenGraph` is `openGraph` with `startSse`, `ReadStatus` and `ReadEvents` are the two
reads of one tick of the server's loop, `ApplyGraphEvent` is the function of
`api/agentTasks.ts` node by node, `StartPolling` and `Poll` the fallback. A panel that is
opened before `init_graph_progress` has stored a board has none (`NoBoard`); no event makes
one, the first poll does.

**CopilotRun.** `run[s]` is the document a send creates: `status` and the status of
its `pending_approval`. `sender`, `runner`, `approver`, `canceller` are program
counters of a send request, its background task, an approval request with its
background task, and a cancel. `copy` holds a document between GET and INDEX; a call
that overwrites both modelled fields is a single step. The planner's answer is a
choice: an answer or refused skill, an approval, a tool, a subagent. `late` and
`executed` count, for the properties, what was begun after a stored cancel and the
executions of the skill.

**CopilotEvents.** A publisher goes through a script of events: number, store, take
the subscribers (under the lock of its process), then put the event into the queues
(outside of it). A client connects to any process, is replayed what is stored, and is
registered only then, as `subscribe` does. Elasticsearch sorts by number and leaves the
order of equal numbers open: `Listings` is the set of the orders it may answer with.

**CopilotMemory.** Messages are numbered in listing order; a send reads the session
and the messages, a closing compresses segments of at most eight, each with a read, a model's
answer and two writes, and rewrites the session document. Checking for and creating a
memory is one step; a session has fewer than 100 memories; what retrieval by
relevance adds is not counted on.

**DailyImport.** Importers (scheduler, command line) poll for a statement, write index
by index, clear the cache by scan and delete, and trigger; readers get, compute from
one or several searches and set with a TTL. A statement has a range of days and the report
dates of its section EQUT. One day, or a range with one report date (`SingleDay`), brings
the account's details on its last date; the report dates of a range are merged into what
is stored. A range whose EQUT has no report date is left out.

**LongbridgeAuth, LongbridgeMCP.** Each operation reads the file, calls the server and
writes the file as a whole, in steps; the server rotates the refresh token. `stale`
marks what a thread has read while another operation wrote. The MCP client adds the
session, the lock of its initialisation, and the repetition of posts that time out or
fail; an error status or an error of the tool ends the call.

**MarketSources, MarketEvents.** A synchronisation lists the sources, creates a run
document per source, fetches, goes through the events (search by dedupe key, compare
the hash, upsert, values) and closes the run; an administrator's request rewrites the
same status documents.

**TradeDecisionGraph.** One action per node of the graph; a run departs from a healthy
one in at most `MaxOdd` facts, cards, answers, nodes or writes. `Gate` and `Compose`
are the functions of `RiskGate` and `TradeComposer`, so that the same definitions
appear in the runs, in the ASSUMEs and in the proofs.

**ReportGraph.** One action per superstep of the three tasks; a model answers, calls
tools or raises (`AgentLoop`); each run has its own faults. Scores of a risk
assessment are those of `RiskCards`, in exact fractions.

**EvalLibrary.** One action per read or write of a request; requests are those of the
administrator's routes. `req[r]` is what the thread of a request holds: the document it
has read, what is left to do, the results of the run and, of a gate, what it has found of
the agents before. `stale` says that somebody stored the document after it was read. The
verdict of an evaluation is `EvalVerdict`'s. Ids are fresh, but a case may be posted under
an id of the client, that of a stored case included, which it replaces (`Named`);
`CaseIds`, `RunIds`, `FeedbackIds` and `ReportIds` bound how many there are. A complaint
by hand may name a run and a case, as the flag button of the page does.

## 3. Runs

All bounds are constants of the configurations. Small instances are enough for the
interleavings in question: a race needs two threads and a third party, a lost update
two rewrites of one document.

| run | properties | instance | distinct states |
|---|---|---|---|
| `agent_task_shared` | `NoReportLost`, `CursorsStayValid`, `VerdictMatchesBoard`, `EventuallyClosed` | two parallel nodes and a saving node; window of 4 events, shorter than the log of 8 to 10, so that it slides; one fault, one foreign startup, a crash | 143,426 |
| `agent_task_stale` | violated: `StaleTaskNeverCompletes` | one foreign startup | - |
| `task_stream` | `BoardSpec`, `CaughtUpMeansSame`, `StreamEndsComplete`, `PanelSettles` | an evidence node and the saving node, one broken stream | 673,712 |
| `copilot_runs` | `AnswerDecides`, `CancelStopsRuntime`, `PatientSession`, `HastyRunEnds`, `HastyRunAnnounced` | a patient user: two sends, two approvals, one failing request, two rounds; a hasty one: one send, one approval, one cancel, one failing background call, four rounds | 389,579 |
| `copilot_events` | `StoredInOrder`, `NoEventTwice`, `RegisteredSeesTheEnd` | two processes, three connections of one browser, replay limit 4, one fault, one restart | 533,113 |
| `copilot_memory` | `CompressedIsCovered`, `SummarisedOnce`, `MissingAreFew` | two sends, one other request, one fault; sessions of 7, 9, 11, 17 messages | 458,399 |
| `daily_import` | `TriggeredComplete`, `StaleOnlyIfOverlapped`, `DetailKept`, `CacheConverges` | scheduler and command line, two days, two revisions, two polls, two jobs, one reader, one fault | 646,713 |
| `longbridge` | `TokensAgree`, `CallEnds` | two agents and an administrator, two tokens, one link, three operations, one fault, one retry | 501,308 |
| `decisions` | `AddOnlyOnEvidence`, `NoExitWithoutPosition`, `OneDocumentPerRun`, `EndsStored` | one run; positions of 0, 4, 12 and 55 %, targets 0, 3, 12, ratios 0.5, 1.2, 2.0; three departures from a healthy run | 968,831 |
| `market_events` | `StoredIsCurrent`, `SwitchKept`, `RunsClosed` | two processes, two administrators, three requests, one revision, one fault | 2,247,584 |
| `reports` | `VerdictMatchesStore`, `CallsAnswered`, `LowNeedsAnswers`, `ReportEnds` | two runs side by side, two tool calls in a message, three faults a run; the real limits of rounds and repairs; four accounts | 160,433 |
| `evaluation` | `ClaimsAreTrue`, `OneFeedbackPerFailure`, `GateSeesAllIn`, `EditsKept` | two requesters, interchangeable, three of 29 requests, one fault, two initial libraries | 1,117,053 |

The systems stop when everything is done, so deadlock is not checked. Numbers of
sessions at 7, 9, 11 and 17 messages sit on both sides of the thresholds 8, 10, 12 and
of a second segment; positions and ratios on both sides of the gate's boundaries.

**Settings that a property depends on.** `VerdictMatchesBoard`, `NoReportLost` and
`CaughtUpMeansSame` speak of executions without an Elasticsearch fault, as their
formulas say, `RunsClosed` of at most one, `VerdictMatchesStore` of at most two in a
run. `SwitchKept`, `SummarisedOnce`, `TokensAgree`, `EditsKept` and `StoredIsCurrent`
exempt rewrites that overlap: the code has no versions, and loses one of them.
`EditsKept` lets a posted case replace a stored one, and `OneFeedbackPerFailure` is about
the report of a run's failures, not about complaints by hand.
`PatientSession` is about a user who waits for answers. `copilot_runs` has a memory
update that succeeds (`MemoryFails = FALSE`): when it fails, a stale copy may put an
older status back for good. `EndsStored` exempts a run whose composing failed and
whose two writes were refused.

**Fairness.** Weak fairness of the steps of each thread on its own: the operating
system schedules threads, and nodes, planners, tools, models and HTTP calls have
timeouts. `AgentTask` has `RunnerStep`, `NodeStep(n)` and `Restart` (the container
replaces a dead process); `DailyImport` each importer, the readers and the expiry of each
entry, which Redis does; `LongbridgeMCP` the calls of each agent; `CopilotRun`'s
instance the threads of the hasty user; `TradeDecisionGraph` and `ReportGraph` the
steps of each run. Nobody owes a request, a crash, a fault, the expiry of an
approval, a broken connection or the first connection of a browser; once connected, the
browser's reconnect timer is fair as well.

**Pure functions** are checked by the named ASSUMEs of the modules of these runs, over
every value of small tables, against a reference definition or as a law:

| in | about | ASSUMEs |
|---|---|---|
| `MCTradeDecision` | engines, cards, gate, composer | `LowerIsNeverBetter`, `ShortHistoriesLookBetter`, `BenchmarksConfirm`, `BadNewsNeverHelps`, `AddsAreEarned`, `PullbackAboveInvalidation`, `EvidenceIsEarned`, `FallbackForgets`, `LossesLookCheap`, `FitFollowsRoom`, `EngineFirst`, `EnginesCovered` |
| `DecisionEvidence` | evidence, quality, replay, outcomes, statistics of decisions | `CleanIsExcellent`, `OnlyAddsFailHard`, `LevelsAddUp`, `OutcomesAddUp`, `ShiftedWhenLate`, `DipMakesItBad` and 18 more |
| `ReviewEvidence` | trade review | `SameTradesSeen`, `ProfitAddsUp`, `MovesBracket`, `BudgetKept`, `AcceptedIsStable`, `ExcludedIsNeutral` and 8 more |
| `DailyEvidence` | daily review | `DayAddsUp`, `InferredSpansTheGap`, `OneCardEach`, `FillingIsTold`, `FlowsByCategory`, `CutIsTold` and 6 more |
| `MCDailyImport` | portfolio queries | `PagesCover`, `PagesAreCut`, `DilutedSinceSoldOut`, `StoredGainWins`, `SummaryIsOfAll`, `LateSettlementHides`, `DepositIsNoGain`, `CalendarsAddUp`, `DeltaAcrossAccounts`, `NewestBarsUnseen`, `CurrenciesApart` |
| `LlmAccess` | providers, limits, costs, calls, prompts | `OneActiveProvider`, `CallsAreRecorded`, `PolicyOnce`, `OneActivePrompt`, `HalfActivated`, `ActivationsOverlap`, `DraftsOverwrite` and 5 more |
| `MCEvaluation` | checks, verdict, comparison | `AllInNeverHelps`, `CompareMirrors`, `GoodRunClosesGaps`, `CorrectnessAddsUp` |

Some of these state what the code does although one would wish otherwise; they are
named for it (`NewestBarsUnseen`, `CashBeyondTwentyForgotten`, ...) and listed below.

### What the checks found

One divergence is a run of its own. *A task that was failed as stale is completed
later* (`agent_task_stale`): the startup hook of the second worker process fails tasks
of the first, and the docstring at `app/main.py:27` says they can never complete.

These were met while modelling, on instances of the same modules; the runs above are
set so that they do not arise, or their properties exempt them.

* Copilot. A completion overwrites a cancel (against `docs/account_copilot.md:127`), so
  that `CancelledIsFinal` is false. Two sends at the same time make two active runs
  (against line 130). A refusal and an approval at the same time leave a rejected run
  whose skill was executed (against line 96). A terminal event published between replay and
  registration is lost for that connection (against line 122). Sessions of more than 1000
  messages never show the newest.
* Decisions. Two decisions composed in the same second share an id
  (`trade_decision_composer.py:193`; `nodes.py:1386` says the repository makes it): a
  second overwrites the first. The judge's *insufficient data* does not stop an add the
  plan makes, which the evaluator calls a hard failure. A target may be above the
  assessment's maximum. A pullback entry may lie above the invalidation level. The
  statistics of AI policies are always zero; cash equivalents beyond the twenty largest
  positions are forgotten; shares of at most 1 % are read as fractions.
* Reports. The risk score, a fraction of one, is compared with 26, 51 and 76: the level
  says only whether two of the five cards were guesses (proved). A later failed daily run
  replaces the good review of its date. A failed read of trades ends as a completed
  review of the quality *high*.
* Reviews. One score out of range replaces the whole trade review by a fallback; a failed
  price read looks like one without prices; beyond 1000 trades the newest are unseen. A
  daily review's cards are for other symbols than the data that was read for it.
* Portfolio. Flows are ordered by time and counted when they settle, so a late
  settlement hides later flows from the net cost curve; the overview's delta compares the
  two newest snapshots of any account; beyond 1000 bars the newest are unseen.
* Market events. A rescheduled event is a new one; FED events never change; the answer of
  `create_sync_run` lost leaves a run open.
* Evaluation and LLM. A gate over no runs passes; two conversions of one feedback make
  two cases; the flag button of the page stores another feedback on a failure that has been
  reported, one request after the other (`create_feedback` looks for nothing); activation of a prompt is two writes, after the first of which the code's
  default is in force.

## 4. Proofs

Eight modules of proofs, for every value of the constants: any number of threads,
runs, nodes, messages, importers, days, accounts, retries and faults, and any contents of
the tables, limited only by the assumptions listed at the end.

### The task board: `AgentTask_proofs`

`TypeCorrect`, `LogOrdered`, `ReportsKept` (`Spec => []NoReportLost`),
`CursorsValid`, `VerdictAgrees` (`Spec => []VerdictMatchesBoard`), `BoardKept`
(without faults and foreign startups, `Spec => BoardSpec`, the refinement of
`TaskBoard`, across a crash and restart), `VerdictStays`, and for the browser that
follows the stream `PanelShowsBoard` (`CaughtUpMeansSame`, while the window holds the log)
and `StreamsAreComplete` (`StreamEndsComplete`, while no call raises and no other worker
starts up).

None is inductive: what a write makes of the document depends on how old the copy is.
`IInv` adds `LockInv` (the lock is held by exactly the thread between a GET and an INDEX),
`CopyInv` (its copy shows the same board as the document), `RunnerInv` with `QuietInv`
(the runner takes no lock and needs none, because outside of the graph no node is
active), `EarlyInv`, `OutcomeInv`, `BoardInv`. A startup hook changes status and error
only and keeps `SameBoard` even between a GET and an INDEX: that is why the board is
safe from it and the status is not. `VerdictInv` adds what the runner is about to
write, `AloneInv` that every copy equals the document if nobody else starts up. Lemmas
say what each document operator preserves, then one lemma per kind of step. For the
refinement, a GET stutters and an INDEX is the report `AnnounceOk` names.

The two theorems about the stream rest on `BoardMoves`: without faults a write either
leaves the board alone or appends one event from which `applyGraphEvent` makes the new
board of the old (`Reported`; `SyncInv` says why the synchronisation, whose event the
panel ignores, changes nothing). `FollowInv` then says that what the panel shows, carried
on with the events it has not got (`Following`), is the board at every moment, if it was
opened on one. `EndInv`
says that every copy about to be written is of an open task and that a closed task is
written no more: two quiet ticks after a closed status have sent everything.

### Decisions: `DecisionEvaluation_proofs`

`GateNeedsEvidence` and `GateMakesNoExit` are about the gate's function for every
pack and advice, stage by stage, because eighteen rules rewrite one action and a later one may bring back what
an earlier one took away. `AddsAreFounded`, `ExitsNeedPosition` and
`RunsLeaveOneDocument` carry them into every reachable state, with the invariants that a
composed document was gated with its run's own evidence and that a run writes a second
document only after a lost answer.

### The library of the evaluation: `DecisionEvaluation_proofs`

`EditsAreKept` (`EditsKept`) and `FailuresReportedOnce` (`OneFeedbackPerFailure`), both
action properties, `ClaimsHold` (`ClaimsAreTrue`) and `GateSees`
(`GateSeesAllIn`), for any number of requests side by side, any faults and documents.
`WhereInv` says what a request may be doing where it stands, and one lemma for each
action what the action changes. On it rest:

* `EditInv`: a request about to save a case holds the stored one, unless it is `stale`
  or a seeding that was told to overwrite.
* `RunInv`: no two requests judge the same run; a run about to be judged is stored with
  the results its request has gathered and has not passed; what a gate has found to
  have passed is stored as passed and stays so.
* `FeedInv`: a request for the failures of a run that is not `stale` has still to report
  only failures that nobody has reported, by hand or before, each once.
* `LinkInv`: the case a converted feedback names was made from it or posted in its place,
  and no request holds a document that would say otherwise. A built-in case is never the one, since seeding
  writes it anew.
* `SeeInv`: every result a regression has gathered has a critical failure if the output
  advised to go all in (`AllInFails` through the checks, which fail a fatal one for every
  agent, `GateFails` through the count, in which fatal checks are critical).

`ClaimsHold` needs more than the code enforces, and its ASSUME says what: `NoneRemakes`, no
update replaces the metadata that says what a case was made from (`update_case` lets it).
The requests of the run satisfy it. The other three have no hypothesis.

### Reports: `ReportGraph_proofs`

`PublishedLevel` and `NeverHigh` (the level is a matter of guessed cards and never above
medium), `UnknownIsNeverLow` (`LowNeedsAnswers`), `VerdictsAreTrue`
(`VerdictMatchesStore`), for overlapping runs, any answers of the model and any failing
sources. `LevelInv` ties the stored level to the cards it came from, `StoreInv` what a run
has been told to what is stored under its id. `EveryCallIsAnswered` (`CallsAnswered`) is
about the tool loop they run: `TalkInv` follows a conversation from round to round, and
the answers of a round, which arrive in any order, are shown to have exactly one sorting. `ScoreAssumption` says that scores are
integers: they are folds, and that a fold of integers is one needs induction.

### Copilot runs and their events: `Copilot_proofs`

`RunTypeCorrect`; `CancelStops` (`CancelStopsRuntime`), for any number of users,
cancels and faults; `PatientAnswerDecides` and `SingleAnswerDecides` (`AnswerDecides`);
`PatientRunsImplementSession`. The patient user of the third and last is one who begins a
request when none is under way, cancels nothing and meets no background fault, while
requests may fail at will; the refinement maps the run documents to `CopilotSession`
step by step. `PatientInv` says who may hold a copy and that it is current (`OneWaits`,
`Undisturbed`), that one run is active, and how each program counter relates to the
document (`DocInv`). `SingleAnswerDecides` has any number of users and answers, cancels
and faults, and one approval request: what decides is the copy its thread read. Both
need `MemoryFails = FALSE`: a memory error is written from a copy as old as the
run, and would undo a grant (`account_copilot.py:1027`, a hazard of its own).

About the event stream (`CopilotEvents`): `EventsTypes`, `EventsOnce` (`NoEventTwice`)
for any number of processes, publishers, clients, reconnects, restarts and failed calls,
and `EventsInOrder` (`StoredInOrder`). `SentOnceInv` says that what a client has and what it
will be sent have nothing in common, and that a publisher that may still put its event
into a client's queue (`Coming`) is ahead of all of its events there. It holds because
of four others: `LockInv` (who registers finds no publisher of the process between
number and snapshot), `TargetInv` (a connection in its replay is no publisher's target),
`SeenInv` (everything sent was begun, and the cursor is past what was seen, so that a
replay has nothing of it), `StoredInv` (nothing is stored twice). `OrderInv` relates the
counter of the process, the number a publisher holds and the stored ones.

### Copilot memory: `CopilotMemory_proofs`

`CompressedStaysCovered`, `SummarisedOnlyOnce` and `PlannersMissFew` (`MissingAreFew`), for
conversations of any length and any requests that overlap. `CoverInv` says that every copy, however old, points to
something the stored memories cover, as memories are only added; `OnceInv` that
without faults and overlaps the thread that works has read the current document, and
where the segment that it takes begins. `FewInv` counts, phase by phase, the messages
the document does not cover: at most 14 while a run is closed, 8 after a summary, 11 while
an approval is asked and 12 at rest, one more where a message is open; it needs that
the request that closes a run works alone and that one further run at most begins beside it.

### Imports and cache: `DailyImport_proofs`

`ImportTypeCorrect`, `TriggersFollowCompleteImports`, `DetailsStay` (an action property),
`StaleNeedsOverlap`. `CompleteInv` relates an importer's program counter to the indices
it has written; `FreshInv` says that an entry older than the indices belongs to a
reader that overlapped, to an import about to clear, or to a failed clearing.

### LongBridge tokens: `LongbridgeAuth_proofs`

`RotationLosesNoToken` for the operations on the file, `CallsKeepTheTokens` for the same
beside agents that call tools, which refresh a token that is about to expire, initialise
the session under its lock and repeat posts that time out or fail. `TokenInv` says of every
thread that what it has read equals the file unless it is marked as stale, and that the
token about to be saved is good unless another thread is saving.

### Market events: `MarketEvents_proofs`

`SwitchesStay` (`SwitchInv`), `SuccessIsStored` and `RunsEnd` (`EventInv`): a run
document belongs to the process that made it; a process that nobody overlapped is the
only one that is busy; the events it has gone through are stored at least as new as it
claims, and the ones to come have been fetched no older. A lemma for each stretch of the
synchronisation says that a stored document of another key, source or process is
left as it was.

### Assumptions

`AgentTaskAssumption`, `CopilotRunAssumption`, `NoRunAssumption`, `MemoryAssumption`,
`ImportAssumption`, `AuthAssumption`, `MCPAssumption`, `SourcesAssumption`,
`EventsAssumption`, `CopilotEventsAssumption`, `TradeAssumption`, `LoopAssumption`, `ReportAssumption`,
`LibraryAssumption` and `ScoreAssumption`: types of the constants, distinct names for distinct
roles and placeholders, each evaluated by the runs of its module. `LibraryAssumption` also says
that what is stored at first satisfies the properties, that new ids are no built-in ones, and
which fields an update may name. A theorem that needs more says
so in its ASSUME (one approval, a patient user, no foreign startup), and
only there.

### Only model-checked

* Liveness under fairness (`EventuallyClosed`, `PanelSettles`, `HastyRunEnds`,
  `HastyRunAnnounced`, `RegisteredSeesTheEnd`, `CacheConverges`, `CallEnds`, `EndsStored`,
  `ReportEnds`): outside of what the prover does.
* The laws of the pure functions, which are folds over tables.

Where a proof needs induction over data (the places of a sequence, the prefix of a log),
it argues by the least counterexample: `LeastNumber`, which follows from the
well-foundedness of `<` on the naturals and takes a set, not an operator. A recursive
function (`Showing`) is shown to be well defined the same way, and a definition by such a function or
by a CHOOSE can be reasoned about where a fold cannot.

Type invariants that no run lists (`StreamTypeOK`, `MCPTypeOK`, `DecisionTypeOK`) are kept as
documentation of the state; `TypeOK`, `RunTypeOK`, `EventsTypeOK` and `ImportTypeOK` are
proved.

## 5. Not modelled, and the plan

About a third of the implementation's lines is modelled. Not modelled: what the tools,
skills and subagents of the copilot look up (what they return is a choice);
authentication, administration and settings of one administrator; views; e-mail; the
normalisation of symbol data; wording, formats and prompts; daily account snapshots for
display; failure mining, simulation and judge calibration of the evaluation.
`PROJECT.json` says of each component what its model leaves out.

Next:

1. Every safety property of a passing run is proved. Weaker hypotheses for some:
   `AnswerDecides` for users with several approvals, `SummarisedOnce` after a fault.
2. `TaskStream` with overlapping polls and closing panels; `CopilotRun` with the death of
   a process.
3. An abstract specification of the import (a cache that is never older than its TTL),
   and of the token file (one token that rotates), with the refinements proved.
