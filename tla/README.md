# claude-mem-rs in TLA+

claude-mem-rs gives coding agents a memory. A *worker* process serves an HTTP interface over one SQLite
database; *hooks* report what an agent does; an *observer* inside the worker has a provider turn each report
into observations; a *transcript watcher* reports for agents that have no hooks; commands start and stop the
worker; a *dashboard*, a page the worker serves, shows what is remembered while it is being remembered. These
modules specify the parts of it whose correctness depends on interleaving, failure and order. TLC checks them on
small instances, and TLAPS proves the main invariants for every size.

Paths below are relative to `src/crates/`, and `dashboard.tsx` is `src/apps/dashboard/app/dashboard.tsx`.

## 1. The system

### 1.1 Components

| component | code | state it keeps | operations | modules |
|---|---|---|---|---|
| pending-message queue | `claude-mem-core/src/db/pending_messages.rs`, clearing routes | tables `pending_messages`, `pending_message_events` | enqueue, two claims with a self-heal, confirm, mark failed, record event, clear | `PendingQueue`, `MessageLedger` |
| observer | `claude-mem-worker/src/agents/observer.rs`, `response_processor.rs`, session routes | locals of the running handlers; memory ids; observations; summaries | process one message, drain all sessions, session init, store an answer, post a summary, complete a session | `Observer`, `ObserverOwners` |
| session rows, observation store | `claude-mem-core/src/db/sessions.rs`, `observations/store.rs`, `transactions.rs` | `sdk_sessions`, `observations`, `session_summaries` | ensure the memory id (with its cascade), insert unless a duplicate | `Observer` |
| transcript watcher | `claude-mem-supervisor/src/transcripts` | offsets in memory and in a state file, pending tool calls | a pass over the files, handling a line, saving the state | `TranscriptWatcher` |
| worker lifecycle | `claude-mem-worker/src/lib.rs`, `claude-mem-supervisor/src/worker_runtime.rs`, `infrastructure/health_monitor.rs` | the port, the PID file | bind, serve, shut down; start, stop, restart, ensure | `WorkerLifecycle` |
| hooks | `claude-mem-supervisor/src/hooks` | none | ensure a worker, check it, call it | `WorkerLifecycle` |
| knowledge corpora | `claude-mem-worker/src/knowledge`, corpus routes | one JSON file per corpus, claude sessions | build, rebuild, delete, prime, reprime, query | `KnowledgeCorpora` |
| HTTP router, server-sent events | `claude-mem-worker/src/http` | the broadcast channel | snapshot and stream, announcing what was stored | `DashboardFeed` |
| dashboard, live data | `dashboard.tsx` | list, figures and pill; timer, requests and stream of the page | snapshot, events, debounced refresh, metric window, buttons | `DashboardFeed` |
| dashboard, panels and settings | `dashboard.tsx`, settings routes | panels, drawer, settings form; the settings file | search, timeline, context, doctor; settings, logs, export, a memory by hand | `DashboardPanels` |
| session queue processor | `claude-mem-worker/src/queue` | wake-up, idle timer | iterate over a session's messages | planned |
| process registry, shutdown coordinator | `claude-mem-supervisor/src/infrastructure` | registry file | register, prune, reap | planned |
| search | `claude-mem-worker/src/search` | none (optionally a Qdrant index) | choose a strategy, fall back, merge | planned |
| migrations | `claude-mem-core/src/db/migrations.rs` | the schema, its version | apply what is missing | planned |
| MCP server, SDK parser, renderers, installers, paths | several | none, or files of other programs | translation, text, file edits | not modelled |

### 1.2 How they interact

* Hooks and watcher call the worker over HTTP and take "nobody listens" for an answer: the event is lost
  silently. A hook first tries to start a worker, ignores whether that succeeded, and looks for itself.
* Every request handler of the worker shares one SQLite connection behind a mutex. A block that holds the mutex
  has no await in it, so handlers interleave only between such blocks; the mutex is free while a provider or the
  claude CLI runs, and a handler goes on afterwards with rows or files it read before.
* A dropped connection drops the handler at its await. A death of the process falls between any two statements
  that no transaction joins.
* The queue is all that connects a hook's handler to a later drain. The drain runs on request only
  (`POST /api/pending-queue/process`).
* Corpus handlers share nothing but the corpus files; only a build holds the mutex.
* The commands and the service manager share the port, which one process can bind, and the PID file.
* Handlers announce what they stored on a bounded broadcast channel, after they stored it. The page's stream reads
  the channel; the page answers every message by reading everything again, 650 ms later. So the page needs no
  message in particular, only one after the last change.
* Pages share the settings file through `GET` and `POST /api/settings`, which read and write it as a whole.

### 1.3 What is hard here, and what makes each part correct

The list of hazards, each with its line, is in `PROJECT.json`. In short:

* **queue** - claims carry no owner, so late and contradictory settlements meet in one row; events and deletes are
  separate statements; the self-heal decides by a clock. Correct: no accepted message is lost, retries are counted
  exactly, failed and deleted are final, every claim can be healed.
* **observer** - snapshots are used after an await; the same row is wanted by a hook and a drain; a death falls
  between the commit of an answer and its confirmation; a memory id is replaced while others still hold the old
  one; a provider may outlive the claim of its message. Correct: observations and summaries stay reachable from their
  session, an answer is reported after it is stored, every message is settled; and of a message whose providers keep
  within the claim, that it is left alone at work, answered once and summarized once, and its last try caught.
* **watcher** - files grow between the stat and the read; lines appear in halves; the state file is rewritten in
  place. Correct: no line is left behind, none is handled again and again, order and call pairing survive.
* **lifecycle and hooks** - several starts and stops at once; a probe takes the very port it looks at; a
  notification without a permit; a call that is lost without a word. Correct: the PID file names the server, a stop
  waits, a call is lost only if someone stopped or killed a worker, a worker is left when no one asked for none,
  every command returns.
* **corpora** - read, await, write back; files are emptied before they are filled. Correct: a session recorded with
  a corpus knows exactly these observations, undisturbed requests are exact, every request returns.
* **dashboard, live data** - a snapshot before the subscription; a channel that drops; refreshes that overlap and
  are never cancelled; the effects of two windows; three writers of the pill. Correct: a page at rest shows every
  announced memory, the figures of its window and the right pill, and it gets there.
* **dashboard, panels and settings** - buttons that are never disabled, answers in any order into one drawer; read,
  edit, write back without a version. Correct: whoever waits for the answer sees it, an error is shown where there
  was one, pages that take turns lose no setting.

## 2. Modules and how they correspond to the code

Each component has a module with its state and actions, a `...Props` module with its properties, an `MC...`
module with configurations, and, where something is proved, a `...Proofs` module. The map in `PROJECT.json`
gives the lines of every definition. A definition named `X_Something`, marked "Fault:", is a deliberately wrong
variant of `X` just below it; no specification uses it. It records a bug that the properties would catch.

**PendingQueue** is one row per message (`rows`), the events (`events`), a clock (`now`) and two history
variables: messages ever handed out and messages cleared. There is one action per function of
`pending_messages.rs`, and one for each place a death can cut it (`ClaimNextCutShort`, `ConfirmCutShort`,
`FailCutShort`). Callers are unconstrained except that they settle only what was handed to someone. Payload
columns and `created_at_epoch` are left out: the queue orders by creation time and then id, and ids are handed
out in that order.

**MessageLedger** is what the header of `pending_messages.rs` promises: the fate of each message, its attempts,
whether it was delivered. `KeepsLedger` says that PendingQueue implements it, with the refinement mapping `Fate`
read off the tables; `PendingQueueProofs` proves it.

**Observer** extends PendingQueue. `task` holds what each handler knows: its step, its session, and the snapshots
(memory id, retry count) it took before it awaited the provider. A hook's handler does `Submit`, `ClaimOwn`, then
`Finish` or `ProviderFailed`; a drain does `StartDrain`, then `DrainClaim` and the same endings per session. A
message is an observation or a summarize message; the answer to the latter is a row of `summaries`, for which the
code has no duplicate check. Summaries also come from a route (`PostSummary`) and from the completion of a session
that has none (`Complete`, guarded by `NeedsFallback`); both generate a memory id if the session has none
(`RouteMem`), in a statement of its own (`CrashInSummary`). The memory id changes by `Ensure`, and `Cascade`
carries stored observations and summaries along as the schema's `ON UPDATE CASCADE` does. `Crash...` actions are
deaths, one for each pair of statements they can separate; `Dropped` is a client that hangs up. `UsesQueue` says
that all of this uses the queue only as PendingQueue allows.

**ObserverOwners** extends Observer with one history variable, `overrun`: the messages that were at a provider when
their claim was stale (`Overrunning`). Nothing keeps two handlers off one message but the age of its claim, 60 s, and
a provider may run 180 or 240 s, so what holds of a message depends on whether its own providers kept within the claim,
and the properties about owners and single answers are stated of the messages outside `overrun`, for any
`ProviderTimeout` and `StaleThreshold`.

**TranscriptWatcher** counts file lengths and offsets in halves of lines, so that an odd offset lies inside a
line. `pass` is where `process_once` stands: stat, read, lines, save. The stat and the read of a file are two
actions, so that a writer can get in between. Files are visited in the order of their numbers, which `WatchStart`
parts into watches: when the last resolved file of a watch is done, the next watches are resolved (`Remaining`).
A half line is no JSON; where it ends inside a character ("char"
in `Tear`) it is not text either, and the read fails.

**WorkerLifecycle** has worker processes (`starting`, `bound`, `open`, `serving`, `closing`, `closed`, and the two
ends `gone` and `failed`), the PID file, the commands with their steps, and the clients whose bind probe holds the
port. A hook is a command that starts a worker, whatever comes of it checks that one answers, and then calls it
(`Call`) or finds nobody and is done (`CallRefused`); `disturbed` remembers in whose way a stop, a restart or a
kill came. Timeouts of clients are enabled when no live process is about to take the step they wait for: the model
assumes that such a step takes less than the 0.8, 15 and 30 seconds of the code.

**KnowledgeCorpora** has the files, the handlers with the corpus each has read, the database mutex, and what each
claude session was sent to prime it; how the CLI exits after it has named a session is not looked at, as in the code. `Open` and `Fill` are the two halves of `fs::write`. A search is modelled by how
many observations it finds, which tells an earlier search from a later one.

**DashboardFeed** has the workers one after the other (a closed one lives on while it has a stream), the memories
stored and announced, the worker that announced the newest (`announcer`), the handlers between the two, and one page:
its EventSource (`conn`: `TakeSnapshot`, then `Subscribe`, then `Opened`, which is `onopen`, then `DeliverInitial` and
`DeliverEvent`; `Lost` and `Refused` are its errors), the debounce timer of
the running effect, the calls of `refreshAll` under way in the order they began, the POSTs of its buttons, which
store (`PostStores`) before they announce and answer (`PostPublishes`), and what it shows. `ChangeWindow` is `setMetricWindow`; `RunEffect` is the next run of the effect, with its cleanup. A call of
`refreshAll` sends six requests; the model has the moment at which the list of memories is read (`Read`), and the
end (`Apply`, `Unanswered`, `Refuse`). A call is *late* if it ends after one that began later.

**DashboardPanels** has several pages over one settings file. A click begins a request and is numbered; an answer
is the number of the click it answers. A settings document is the set of changes made to the first one, `Truncate`
and `Write` are the two halves of `fs::write`, a death of the worker may take an answer with it that was not sent yet
(`Die`), also that of a save which is written, and `tidy` remembers whether pages have taken turns so far. `calm`
remembers for a panel or a drawer whether it was ever asked something while it waited.

## 3. Runs

`Work`, `Proceed`, `Watch` and the like are the steps of a process; all actions fire in the runs marked pass.

| run | instance | states | what it shows |
|---|---|---|---|
| `pending_queue` | 2 sessions, 2 messages, 3 tries, stale after 1, clock to 4, 2 events of a kind | 196,203 | accounting, nothing lost, claims healable and not taken early; implements MessageLedger |
| `observer` | 1 session, 1 message of either type, 1 hook, 1 drain, an agent with 1 id, 2 tries, claims stale after 1 and providers of up to 2, fallback on, 1 posted summary, 1 fault, clock to 10 | 313,654 | every message settled while someone drains; answers before they are reported, observations and summaries reachable, queue used as allowed; outside `overrun`: a message at work left alone, answers and summaries once, last tries caught |
| `watcher` | 2 files, one from its end, 3 lines, 1 call, torn lines of both kinds, 1 fault | 2.7 million | nothing left behind, at most twice, in order, calls reported |
| `watcher_live` | 1 file, 3 lines, torn lines that stay text, 1 fault | 157,265 | every line is handled |
| `lifecycle` | 4 processes, 2 commands or hooks, 2 service starts, 1 kill | 381,141 | PID file, stops wait, losses explained, a worker is left, commands return |
| `corpora` | 1 corpus, 3 handlers, 3 sessions, 4 requests, 1 later observation, 1 death | 106,221 | sessions know their corpus, exactness, requests return |
| `dashboard_feed` | 2 windows, channel of 1, snapshot of 1, page of 2, 2 memories, 2 workers, 2 refreshes at once, 1 click or error | 4.0 million | a page at rest is current, in its window, with the right pill |
| `dashboard_live` | the same without clicks and errors | 122,612 | what is announced is shown in the end; offline is said in the end |
| `dashboard_panels` | 2 pages (symmetric), search and timeline, 4 clicks, 2 changes, 1 fault | 3.4 million | answers exact, errors truthful, settings kept, broken settings stay broken |
| `observer_stranded` | nobody posts a drain | violated | see the findings |
| `observer_overrun_fallback` | 1 hook, 2 drains, claims stale after 1 and providers of up to 3 (60 and 180 s), no fault | violated | see the findings |
| `dashboard_restart` | a worker restarted under an open page | violated | see the findings |

**Bounds, and why they are enough.** *Queue:* the tables relate rows only through `ORDER BY ... LIMIT 1` and the
session, for which two rows, of one session or of two, suffice; three tries give the first, a middle and the last
failure; the clock can pass the threshold of a claim and of the claim after its heal, and the second event of a kind
is that of a message confirmed again after a death between its event and its DELETE. *Observer:* a hook and a
drain are the pair that can want one message, in either order, and which the properties about owners speak of; a
provider may end before its claim is stale or after; the memory id can be that of the local provider, of a route and
of the agent in turn; the one fault can fall into any step of any attempt, and the clock reaches the end of every
claim (a bound of 6 or 7 is reached by a claim that is then never stale, and 8 is enough).
*Watcher:* three lines are a call, its result and what is appended between; two files, so that a pass has a file before and after
each step. *Lifecycle:* two commands and the service manager are three parties at one port, with a process for each
start. *Corpora:* three handlers make two overlap while a third reads, and the fourth request is the build that
repairs. *Dashboard:* a channel of one message overflows with the second, a snapshot of one misses what a page of
two shows, two refreshes can change places, and two workers are a restart; of panels, one that shows its errors and
one that does not; four clicks are two pages that open and save. The bounds that cap history (`MaxEvents`,
`MaxClock`, `MaxFaults`, `MaxMessages`, `MaxPosted`, `MaxLines`, `MaxUnitStarts`, `MaxKills`, `MaxStored`, `MaxRequests`,
`MaxCrashes`, `MaxItems`, `MaxWorkers`, `MaxRefreshes`, `MaxClicks`, `MaxChanges`) stand in the guards; since
executions may stop at them, deadlock is not checked.

**Fairness.** *Observer:* a handler that has started goes on (WF on its steps; a provider ends, the code gives it
a timeout) and time passes (SF on `Pass`, whose guard comes and goes with running providers). Requests need not
come; only `DrainFairness` adds that someone keeps posting the drain, which `EventuallySettled` needs and
`observer_stranded` does without. *Watcher:* its loop goes on and its service restarts it (`Restart=on-failure`), and a writer that began a
line completes it. *Lifecycle:* processes and commands that run go on; nothing makes an event stream's clients
leave (`Leave` is not fair), nobody need run a command, nothing need be killed. *Corpora:* a handler goes on and
the claude CLI ends one way or another. *Dashboard:* the browser runs its timers and effects, requests end and
the stream's messages arrive (one WF for each); nobody need store, announce, click, stop or start anything.
DashboardPanels has safety properties only and no fairness.

**Findings.** Each violation run states what a comment or a message of the code says, and TLC shows the step by
step counterexample:

* `observer_stranded` / `NoStrandedWork`: the queue's header says that a crashed worker leaves no stranded work. The
  heal runs only when someone posts a drain; a restarted worker and its hooks never touch the stuck row.
* `observer_overrun_fallback` / `FallbackOnFinalFailure`: a test asserts that nothing ends as failed with the local
  fallback on. A claim is taken for that of a crashed worker after 60 s, and providers may run 180 and 240 s. In the
  trace the heal hands a message at a provider to a drain; both handlers took their snapshot of the retry count before
  either failed; their failures add up to the last try, which neither takes for it. No death, no hang-up.
* `dashboard_restart` / `LiveEventsArrive`: the README promises live events. A graceful shutdown waits for the page's
  stream, which never ends by itself: the closed worker lives on behind it. In the trace the worker that took the port
  over stores a memory and announces it, and the page, at rest and saying "live", hears nothing of it.

**What the passing properties assume or except.**

* `RunningUndisturbed`, `FallbackCatchesAll`, `StoredOnce` and `SummarizedOnce` (in `SummariesOnce`) except messages in
  `overrun`, whose provider ran longer than a claim lasts; no other message is excepted, and the runs and proofs put no
  condition on the two times. With the defaults of the code (180 and 240 s, 60 s) a slow provider puts its message
  there: a drain is handed the message while its first handler still waits, the answer may be stored again under another
  memory id, the summary be made twice, and the last try be counted late. `FallbackComesFirst` has no exception.
* `SummarizedOnce` also allows one more summary for every death or hang-up: there is no duplicate
  check, so a message answered again after a death is summarized again.
* `NothingLeftBehind` and `EveryLineHandled` except lines an offset was put inside of, lines passed over on purpose
  and truncated files. The offset passes over a half-written last line, both of whose halves are then dropped:
  such a line is lost without any death or error. With "char" tears the watcher fails on the same read after every restart: safety holds in
  that loop, liveness does not and is checked for tears that remain text.
* `FirstInOrder`, `CallsReported` and `NothingLeftBehind` except files that were ever truncated. If a file is emptied
  and written anew between the stat and the read of one pass, the read begins in the middle of what is new, and the
  next pass at its start: lines are handled out of order, and a result before its call. The attempt to prove the
  first two without the exception showed it; TLC needs five lines in one file to reach it, more than the run has.
* `RequestsReturn` takes for granted that the claude CLI ends; the code sets it no time.
* `CallsReported` is about one life of the watcher: calls waiting for a result are in memory only.
* `RestartsLeaveWorker` excepts commands that run beside a stop and workers killed by a signal; `LossExplained`
  excepts hooks that met a stop, a restart or a kill.
* `PidNamesServer` excepts a worker that took the port from one that had not ended: that one removes the file.
* `SerialRequestsExact` excepts corpora on which requests overlapped. A prime or a query that was running writes
  back the corpus it read before, and so undoes a rebuild or a deletion.
* `FeedCurrent` and `PillTruthful` except a page whose last refresh ended after a later one, or with an error;
  `WindowShown` also one whose last refresh came from a button clicked before the window was changed. The next
  message or click repairs each. `FeedCatchesUp` is about a page whose stream is that of the worker that listens.
* `ErrorTruthful` counts a save whose answer was lost as one that failed: the form cannot know that it is written.
* `SerialAnswersExact` and `ErrorTruthful` are about panels and drawers that were not asked while they waited: all
  drawers share one state, and a late answer replaces whatever is open.
* `SavesKept` is about pages that take turns (`tidy`): each reads the settings after the last save of the other.
  Of two that overlap one loses its change, and a save that is cut short loses the file.

## 4. Proofs

Checked by TLAPS, for all values of the constants that satisfy the named assumptions (bounds are naturals, names
and processes are numbered where the code orders them, `NULL` is no element of a data set, an agent's ids are none
of those the worker generates).

* **Queue** (`PendingQueueProofs`): `QueueInv` is inductive; `TypeOK`, `NothingLost`, `RetriesAccounted` and
  `ClaimsStayHealable` follow. A settlement acts on any id that was handed out, so the invariant has to say that
  such an id belongs to a row that was inserted: `QueueInv` joins the parts, which lean on each other, and adds
  `unused <=> m >= nextId` and that nobody was handed, or cleared, an id still to come. One lemma per action;
  `HealedRows` and `DeleteFacts` state once what the shared operators do to a row.
* **Queue, refinement** (`PendingQueueProofs`): every step of the tables is a step of MessageLedger or leaves it
  alone (`LedgerKept`), and gives back only claims that are stale or whose attempt it counts (`ClaimsKept`).
  `FateFacts` reads the mapping off a row and its events; a death between the event and the DELETE already decides the
  fate, and the DELETE of a later handler is then a stutter. `FateKept`: what touches neither row nor events of a
  message keeps its fate. One lemma per operation.
* **Observer** (`ObserverProofs`): `ObserverInv` joins `QueueInv` with what tasks and tables add. `TasksOK` says that a
  handler works on a message that was handed out, so that it settles only what the queue allows:
  `QueueUsed`, by which the queue's theorems hold of the worker too (`WorkerLosesNothing`, `WorkerKeepsLedger`).
  `IdsApart` says that no two sessions have the same memory id; without it the cascade of one session could carry
  away the summaries of another, and `StoredReachable` would not be inductive. `HistoryOK` ties events to commits, for
  `StoredBeforeReported`.
* **Observer, owners** (`ObserverOwnerProofs`): for any provider timeout and any age of a stale claim, a message outside
  `overrun` has one handler at a time (`OneOwner`). `Owned` says that the row of such a message at work is as its handler
  claimed it, or cleared: a claim names no owner, and what keeps handlers apart is that the heal takes nothing
  before it is stale, at which moment a message at a provider enters `overrun` for good. `NobodyDisturbs` follows, and
  `FallbackAlways`, since the retry count of the snapshot is then that of the row. `TimelyNeverOverruns` says where the
  exception is empty: where `ProviderTimeout <= StaleThreshold`, which the defaults of the code are not.
* **Observer, once** (`ObserverOwnerProofs`): `OnceInv` is inductive, and `StoredOnce` and
  `SummariesOnce` follow. A message is *live* while its row is in the table or a provider works on it; only then can
  it be answered again. The duplicate check compares the memory id *and* the hash made with it, and a cascade changes
  the first but not the second, so `StoredOnce` alone is not inductive: an answer stored under one id, carried to
  another, would be stored again. `OnceInv` says why that is not reached outside `overrun`: an observation of a live
  message still has the id it was hashed with, and its session is `Frozen`: it has an id, and no handler is at a provider
  with a snapshot from before, so nobody will replace it (a death, the only way to leave a message live behind its
  answer, took all handlers along). Summaries of a live message are counted by the faults so far, which leaves room for
  one when it is settled; `OneOwner` excludes a second handler that would add another. `ObservedStep` and `SummedStep`
  say of the two tables what any step may do to them.
* **Watcher** (`TranscriptWatcherProofs`): five inductive parts. `BasicInv` has the types and says that a line is known
  by its number, in its file or in the hands of a pass. `LoadInv` weighs a line by what was done with it and what an offset
  will have done again (`LinesAtMostTwice`). `KeptInv` accounts for every line that begins before an offset
  (`NoLineLeftBehind`). `OrderInv`, on top of it, says that what is in hand is a stretch of the file, untouched behind it
  (`FirstHandledInOrder`), and `CallsInv`, on top of that, which calls are pending, with reports balanced against first
  lines (`EveryCallReported`). A file that was truncated is in `LoadInv` and partly in `CallsInv`.
* **Lifecycle** (`WorkerLifecycleProofs`): `LifecycleInv` is inductive; `PidNamesServer`, `StopWaits` and the types
  follow. It adds that one worker has the port (`OneListener`), that whoever has it while another is still
  closing is an heir (`HeirsKnown`: else the removal of the PID file would break `PidNamesServer`), that a worker
  told to shut down never comes back (`ToldEnds`) and that a probe which got the port found it free (`ProbedFree`),
  from which a stop's success implies that its worker left. `LossInv` follows a hook from its start to its call: as
  long as nothing disturbs it, a worker that it found will still answer (`HooksLoseNothing`).
* **Corpora** (`KnowledgeCorporaProofs`): `CorporaInv` is inductive; `SessionKnowsCorpus` and the types follow. It
  says of every corpus in a file or in a handler's hands that its session knows it (`AllMatch`; a handler may
  write back what it read long ago, so files alone do not suffice), and that each step holds what it needs
  (`HoldsCorpus`). `KnowsGrows` is the key: a fresh session changes nothing for the sessions that are recorded.
  `SerialInv` adds that a request which has met no other is alone at its corpus (`AloneIsAlone`), that what it will
  write is what belongs there (`Undisturbed`), and that the file is right or about to be (`Exact`): `SerialRequests`.
* **Dashboard** (`DashboardFeedProofs`): `FeedInv` is inductive; `FeedCurrent`, `WindowShown`, `PillTruthful` and the
  types follow. A page at rest is right because a page not at rest has something under way that will put it right:
  `Promise` says so of list, figures and pill, each by a pair. *Soon*: it is right, or a timer, a message or a call
  under way will make it so; *overtaken*: a call that would spoil it began before one that will not, and unless it is
  late, ends before it. A proof of the first alone fails at `Apply`.
* **Panels** (`DashboardPanelsProofs`): `PanelsInv` is inductive; `SerialAnswersExact`, `ErrorTruthful` and
  `SavesKept` follow. `PanelsRight`: every request under way of a panel that takes turns is the last question.
  `DrawersRight`: such a drawer waits for one request, and what that one will leave is what was asked for
  (`Promised`): without it a save, which closes whatever the drawer holds, could break the property. `SavesRight`: as
  long as pages take turns there is one save at a time, drafts that are fresh have every change saved so far, and
  none is fresh while the file is being written. `BrokenStays` needs the types alone.

Checked by TLC only: everything under fairness (`EventuallySettled`, `EveryLineHandled`, `RestartsLeaveWorker`,
`CommandsReturn`, `RequestsReturn`, `FeedCatchesUp`, `OfflineShown`), which the prover's temporal backend cannot
derive here. Every other property of the passing runs is a theorem. No module uses `RECURSIVE`; what a sequence
operator computes for every input would need induction over data and is not proved.

## 5. Not modelled, and simplifications

* Prompts and the text of answers: whether one parses is a choice; texts are told apart by message and by provider.
* Requests the watcher makes count as made: they would be lost as a hook's is while no worker listens.
* What a hook reads and prints, and the hooks that only fetch context.
* The corpus routes' search, rendering and listing; the knowledge agent is a feature that is off by default.
* The dashboard's tabs, theme, list filters, list of live events, collapsing of the settings and all formatting; the
  generated bundles and the configuration of its build. DashboardFeed has no time: a timer that is armed may fire or
  be armed again, so a debounce that events starve for ever is not told from one that they delay; weak fairness of
  the timers, with a bounded number of events, rules the first out. Six requests of one refresh count as one read.
* Read-only routes, SQL of search, MCP tools, rendering, installers: no state of their own that two actors touch,
  or edits of other programs' files by one process at a time.
* The session queue processor, the process registry, the shutdown coordinator: nothing but their tests calls them.

## 6. Plan

In this order; each step is one module, its properties, a run and, where marked, proofs.

1. **An abstract watcher**: at-least-once delivery of a growing file, with the watcher's offsets and state file shown
   to implement it, as PendingQueue implements MessageLedger.
2. **Session queue processor** as another consumer of PendingQueue: wake-up, idle timeout, abort.
3. **Search**: the choice of a strategy and its fallback as operators, against what each route promises; the
   vector index as a store that lags behind the database.
4. **Migrations**: versions applied in order over a database that a death leaves half way, against a fresh one.
5. **Process registry**: several processes over one registry file; pruning and reaping against reused pids.
6. **Composition**: the watcher over WorkerLifecycle, and both over PendingQueue, so that what reaches the queue and
   what does not is stated end to end.
7. **Installers**: install and uninstall over a configuration that others edit: what is not ours survives.
