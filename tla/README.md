# A verification development for the JARVIS desktop assistant

TLA+ modules that model the parts of this repository where things happen at the same time, in an
unexpected order, or half-way: the task scheduler, the WebSocket sessions with their confirmations, the
tool requests over RabbitMQ, the agent's conversation and its memories, and the desktop client's
connection.  TLC checks them on small instances; TLAPS proves all their safety
properties for every instance.

Paths below are relative to the repository (`src/` in `PROJECT.json`); `RE` stands for
`reasoning-engine`, `ES` for `execution-service/src/main/java/com/agentic/execution_service`, `DC` for
`desktop-client/src`.

1. [The system](#1-the-system)
2. [Modules and how they correspond to the code](#2-modules-and-how-they-correspond-to-the-code)
3. [What the runs show](#3-what-the-runs-show)
4. [Fairness](#4-fairness)
5. [What is proved](#5-what-is-proved)
6. [Where the code and its documentation disagree](#6-where-the-code-and-its-documentation-disagree)
7. [What is not modelled](#7-what-is-not-modelled)
8. [Plan](#8-plan)

## 1. The system

Three programs.  The **reasoning engine** (Python, asyncio, one process and one event loop) serves
WebSocket clients, runs a LangGraph agent over a local language model, keeps scheduled tasks and the
memory of conversations.  The **execution service** (Java, Spring) runs tools of the operating system on
requests from RabbitMQ.  The **desktop client** (React) shows the conversation, asks the user for
confirmations and manages tasks.

### Components

| Component | State | Operations | Interacts with |
|---|---|---|---|
| Task scheduler (`RE/services/task_scheduler/`) | SQLite tables `scheduled_tasks` and `task_execution_logs`; `_executing_tasks`; the coroutines of `execute_task` | `start` (with rehydration), `stop`, polling loop, `execute_task`, `create/toggle/delete_task`, run-now | tool RPC; broadcasts to the clients; called by the sessions and by the action node |
| WebSocket sessions (`RE/api/websockets.py`, `connection_manager.py`) | `active_connections`, `_active_tasks`, the receive loop of each connection, the task of each prompt | connect, user message, stop, confirmation response, email action, end of the connection | agent graph, confirmations, scheduler |
| Confirmations (`confirmation_manager.py`, `nodes/action.py`) | `_pending_confirmations` (futures) | create, resolve, cancel all, remove | sessions (who answers), action node (who waits) |
| Tool RPC (`RE/rabbitmq.py`, `ES/service/ExecutionListener.java`) | `pending_futures`; two durable queues; the delivery in progress | publish, send and wait, consume; receive, execute, answer, acknowledge | RabbitMQ; called by action node and scheduler |
| Tool discovery (`rabbitmq_listener.py`, `ToolRegistryBroadcaster.java`) | `dynamic_tools` | broadcast at the start of the service; replace the registry | command node (which tools the model sees), action node (which are critical) |
| Agent graph and checkpoint (`RE/agent/`) | the message list of the one thread `sesion-produccion` in SQLite | router, chat, command, action, summarize; clear history | sessions, tools, memory |
| Long-term memory (`agent/memory/async_manager.py`, stores) | `_pending_turns`, debounce task, vector and profile stores | record a turn, debounce, analyse a batch, flush at shutdown | agent graph |
| Short-term memory (`agent/memory/short_term.py`) | none (pure) | group, trim to a budget, assemble a context | agent graph |
| Email accounts (`ES/service/email/`) | token cache, device-code polling | authenticate, refresh, fetch, send | tools |
| Client connection (`DC/services/websocket.ts`) | socket, reconnect timer, heartbeat | connect, reconnect with backoff, send, close | sessions |
| User interface and voice (`DC/App.tsx`, `DC/hooks/useVoice.ts`) | assistant state, the one pending confirmation, speech recognition and synthesis | render, answer, listen, speak | client connection |

### What is hard, and what makes each component correct

*Task scheduler.*  The loop polls every second while executions await their tools; clients toggle,
delete and run the same tasks; every operation reads a row, awaits, and writes the row back.  Correct
means: the loop never serves a task twice at once nor an occurrence twice, releases what it took,
never runs what was missed while the process was off, never brings a deleted task back, respects a
pause, and does not leave a due task due.

*Sessions and confirmations.*  A new prompt or a stop cancels a run without waiting for it; confirmations
go to every client and any of them may answer; a client may vanish, noticed or not, at any step.
Correct means: a critical tool runs only on a yes that was the first answer to that very request; after a
stop nothing further is executed; whatever runs can be stopped; no confirmation is leaked or waits for
nobody; no client is left with THINKING.

*Tool RPC.*  Delivery is at least once and nothing times out.  Correct means: no future leaks; an answer
resolves its own call only; a call returns only what was handled; a tool is repeated only after a fault;
a call that can be delivered ends although the service crashes.

*Agent graph and conversation.*  All clients share one thread; each run writes back the whole list it read
when it began; a run may be cancelled between two tool calls of one message; the registry is replaced and the
history cleared under it.  Correct means: the history stays one that a model provider accepts; what a run
that nobody overlapped has said stays until it is cleared; what was cleared stays so; each exchange reaches the
long-term memory once; a critical tool is asked for whatever name the model wrote.

*Short-term memory.*  A budget must neither separate a tool call from its answers nor lose the prompt.  Correct
means: the window is the longest end of the history that fits, and it holds what the model has to answer.

*Long-term memory.*  A turn that arrives while a batch is analysed cancels the analysis; store calls run in
threads that no cancellation stops; access times are written back with old metadata.  Correct means: a turn
is taken once, and settled or lost once; it is never stuck in the buffer; a deleted memory stays
deleted; the profile knows the preferences that it has a key for.

*Client.*  A reconnect timer, a change of settings and a late close event race; one slot holds the pending
confirmation while renderings, key listeners and clicks lag behind.  Correct means: one connection and one
timer at most; the page is never without either; it is connected in the end and says what is the case; what the
user answers was on his screen.

`PROJECT.json` lists each of these hazards at the line where it bites.

## 2. Modules and how they correspond to the code

| Module | What it is |
|---|---|
| `ForwardSchedule` | abstract: what the scheduler promises (ADR-011, strictly forward-looking) |
| `TaskScheduler` | the scheduler over its store, its clients, crashes and restarts |
| `TaskScheduler_proofs` | theorems, among them that it implements `ForwardSchedule` |
| `Sessions` | connections, prompts, stops, status messages, confirmations |
| `Sessions_proofs` | theorems about them |
| `RemoteCall` | abstract: what `send_and_wait` promises its callers |
| `ToolRpc` | engine, broker and execution service; discovery of tools |
| `ToolRpc_proofs` | theorems, among them that it implements `RemoteCall` |
| `TurnIntake` | abstract: what the long-term memory promises of the turns it is handed |
| `MemoryManager` | buffer, debounced analysis, vector and profile store, shutdown |
| `MemoryManager_proofs` | theorems, among them that it implements `TurnIntake` |
| `ShortTermMemory` | the window of the history: blocks, trimming, purging, with a reference definition |
| `ShortTermMemory_proofs` | theorems: the window is what the reference definition says, for every history |
| `Folding` | lemmas: what the folds of the community modules compute, for any operator; instantiated by the proofs |
| `ToolResolution` | from what the model wrote to calls of registered tools |
| `Conversation` | the runs of the agent graph over the shared thread; uses the two modules above |
| `Conversation_proofs` | theorems about it |
| `ClientSocket` | the desktop client's connection and its page's confirmation slot |
| `ClientSocket_proofs` | theorems about them |
| `MC*` | small instances: constants, symmetry |

Operators named `X_Something` with the comment *Deviation* are not part of a specification: each is
a plausible wrong version of `X`, kept to show that the properties notice it.

### One step

The engine is one event loop: between two awaits a coroutine runs alone.  A step of the modules is
therefore what a coroutine does between two awaits, and everything it read before an await it goes on
using afterwards, as the code does.  The client is one event loop too: a step of `ClientSocket` is a task of
the browser (an event of a socket, a timer, a click, a rendering).

`Sessions`, `ToolRpc`, `Conversation` and `ClientSocket` are views of one system.  Each keeps what it needs of
its neighbours as free choices: `Sessions` lets the agent call any tools, `Conversation` says which;
`Conversation` lets the user and the execution service answer at any time, `Sessions` and
`ToolRpc` say when; `ClientSocket` has as much of the engine as answers it.

### TaskScheduler

* `rows` is the table (`status`, `next_run_at`), `logged` the tasks with log entries, `executing`
  is `_executing_tasks`, `run` the coroutines of `execute_task` (those of the loop and those of
  *run now*, which `_executing_tasks` does not know), `toggling` the requests of `toggle_task` that have
  read their row and not written it yet.
* A store statement belongs to the step that issues it.  aiosqlite serves all statements from one
  worker thread in the order in which they are issued, so the order of effects is the order of these
  steps.  For the same reason the SELECT of the loop and the check of its result are one step
  (`LoopTick`): results come back in the order of the statements, and asyncio resumes the coroutines in
  that order, so nothing that a later statement wrote is acted on before the loop has checked what it read.
  A crash between a statement and its commit is a crash before the statement.
* `delete_task` awaits twice (`store.py:207`, `:210`): it deletes the log entries, then the row.  `DeleteTask` is the
  second statement and takes the first along.  What another coroutine does between them is in the model what it
  does before the deletion, but for the log: an entry written in between survives the task in the code, as does one
  written after the deletion (which is in the model, section 6), and a commit in between can leave the task without
  its entries if the process then dies.  Only `logged` differs, and no property reads it.
* The rehydration in `start` is one step because no client is served and the loop does not run before
  it has returned (`main.py` awaits it in the lifespan).
* `Planned` is the row that `create_task` and `_rehydrate_tasks` write, `NextRun` is
  `calculate_next_run`; croniter is the constant `CronNext`, assumed to be strictly later than its base
  or none for an expression that it rejects.
* The clock is monotone: the module does not follow a system clock that is set back, nor time zones.
* `last_run_at`, names and descriptions are left out; no decision reads them.  A publish that fails
  becomes an ERROR result and completes a one-shot like a success (`DispatchLocally`).
* `fired` is a history variable: the instant the loop last fired each task for.  A failing store
  statement that ends an execution before its update resets it, because the task is then rightly fired
  again.

### Sessions

* `sock` is the transport as the engine meets it: `open`, `silent` (messages are lost and nobody
  notices), `broken` (sending raises) or `closed`.  `conns` is `active_connections`; `tracked` is
  `_active_tasks`; `run` is the task of `_execute_user_prompt` of each prompt, with the future it awaits and
  asyncio's cancellation flag; `registered` is `_pending_confirmations`; `drafting` are the
  connections whose receive loop is awaiting an email draft and reads nothing.
* `heard` are the requests a client has got and not answered: its answer may come at any later time, also
  after the request was aborted.  A client answers a request at most once.
* A message to a client counts to the step that sends it (the transport buffers it before anything is
  awaited).  A message to a connection that raises, or is not registered, is broadcast to all the others and
  the broken ones are pruned (`Intact`, `SendText`, `SendStatus`).  A broadcast is one step.
* `task.cancel()` sets a flag; the coroutine raises `CancelledError` at its next step even if the future it
  awaits has got its result (`Unwind`), or never starts (`NeverBegin`).  A cancellation that arrives while the
  cancellation is being reported still reaches the `finally` clause (`Finally`).
* The model chooses freely which tools the agent calls (`Ask`, `Call`, `Reply`); `Answer` is the answer of a
  tool, which `ToolRpc` details.
* `Drop`, the transport failing under the engine, is external.

### ToolRpc

* The caller of `send_and_wait` is at `sending`, `confirming` (published, the broker has not confirmed) or
  `waiting`.  The engine's channel uses publisher confirms (the default of aio_pika), so an unconfirmed
  publish raises when the connection breaks; a message that reaches no queue is returned by the
  broker, which aio_pika ignores unless told otherwise, and the caller waits.
* The messages of the engine are transient (`delivery_mode` is not set), those of Spring persistent; the
  queues are durable.  So `BrokerRestart` loses requests and keeps answers.
* Spring acknowledges after the listener has returned and requeues when it raises.  The listener
  catches what a tool throws, so an exception leaves it only from the send of the answer (`ReplyFails`).
  Answer and acknowledgement travel on one connection, in order.
* `LinkLost`: the broker takes back the delivery, and the listener goes on with it nevertheless; `held` tells
  whether its acknowledgement still means anything.
* `execution_service_queue` exists only from the first start of the service on (`declared`),
  `reasoning_engine_queue` from the first `start_consuming` on (`bound`), which runs as a task of
  its own.  Whether they exist already is the constant `Declared`.
* `tool.request.*` matches one word: a request whose tool name has a dot is not `Routable`.
* `Consume` is one step: the handler awaits only after its effect, and a redelivery of an answer to a
  restarted engine matches no future.
* Correlation ids are unique (they are tool-call ids of the model, or uuid4).
* An engine that could not connect at its start is `offline` and does not try again: each call raises.

### MemoryManager

* `turn` says where each exchange is: unsaid, in `_pending_turns` (`buffered`), in the batch of the debounce
  task (`timer`) or of `flush_and_close` (`flush`), settled or lost.  `worker` are these two tasks, each at one
  of the awaits of `_process_pending_buffer` and `_apply_memory_operations`.
* The stores call `asyncio.to_thread`.  A task that is cancelled leaves its call to the thread: a *stray* write,
  which lands or fails at any later time.  If the thread had not begun, the cancellation reaches it: no
  stray (`CancelTimer` chooses).
* `search` starts a task per hit that writes the access time back with the metadata it read; `touches` are
  these.  Two searches may write back different metadata for one memory.
* What the language model answers is any sequence of at most `MaxOps` operations of `Op`, or a failure.
  Similarity is the constant `Score`, the profile key the constant `Slug`: keys may collide, and a text whose first 30
  characters hold no ASCII letter or digit has none (`NoKey`).  `After` goes on to the profile store only with a key,
  as `if pref_key:` does; a preference without one is passed over in silence.
* `torn` is a history variable: memories whose operation was cut in two, or whose category an old access time
  brought back.  `PreferencesKnown` excepts these and the preferences without a key: without either exception it
  is false of the code.
* Left out: timestamps, counters of access, embeddings, `profile_store` errors outside of an operation.

### Conversation, ShortTermMemory, ToolResolution

* `checkpoint` is what `AsyncSqliteSaver` stores for `sesion-produccion`.  LangGraph reads it once per run and
  after each node writes all messages the run holds: `Goes`.  A run is at a node, and in the action node at one
  of the calls of the last message.
* `run[r].msgs` of a finished run is what it said, and `alone`, `recorded`, `forgotten` are history
  variables: whether another run overlapped it, which user turns it handed to the memory, whether its messages
  were cleared (`surely`, or `maybe` if a run under way still held them or it was under way itself).
* The model is offered the registry but may write anything of `Replies`; what it wrote is resolved against the
  registry at the time of its reply (`Command`), and `is_tool_critical` looks at the registry when the call is
  made.  The finding of calls in a text (four regular expressions) is abstracted to the calls each
  would find; that the first that finds a resolvable one is used, is not.
* A tool message is identified with the number of its call; ids of calls are unique per message.
* `SessionSummarizer`, retrieved memories and the profile in the prompt are left out: they enter what the model
  is shown, which is arbitrary here.

### ClientSocket

* `client` is the record of the fields of `JarvisWebSocketClient` with the `readyState` of its sockets; its
  methods are operators on that record (`connect`, `disconnect`, `setUrl`), so that an effect that calls several
  is one step.
* A replaced socket's events still arrive; whether its handlers are still set is `handled`, and `Heard` is the
  guard at the top of each handler.
* `Resubscribe` is React undoing and repeating the effect of `App` (its dependencies include `speak`, hence
  the voice settings).  `Announced` is what `connect` tells the callbacks; `Mount` connects before it
  registers them.
* `slot` is `pendingConfirmation` as last set, `shown` as last rendered, `keyed` the one the listener of Enter and
  Escape closes over.
* A new socket takes one fixed vacant name (`NewSock`): no property distinguishes the names.
* The engine side (`session`, `asked`, `Receive`, `SessionEnds`) is `Sessions` reduced to what a page can tell.

## 3. What the runs show

| Run | Question | Distinct states |
|---|---|---|
| `sched_recurring` | a cron task under two clients, loop and manual executions, a store failure, stops, crashes, restarts | 1,982,564 |
| `sched_oneshot` | the inductive invariant on a one-shot, completed, expired, resumed, run manually | 370,797 |
| `sched_liveness` | a due task does not stay due | 108,022 |
| `sess_two` | two clients, two prompts, one confirmation each, broken and silent connections | 1,844,521 |
| `sess_liveness` | a stopped prompt ends; no confirmation waits for nobody; invariant with two confirmations and drafts | 332,229 |
| `rpc_faults` | two calls, two faults of any kind | 160,458 |
| `rpc_liveness` | a routable call ends, service and link failing | 35,985 |
| `memory` | turns, cancelled analyses, stray writes and access times, preferences with and without a key, a shutdown or a crash | 319,941 |
| `conversation` | three prompts on one thread, two at a time, one cut short, one clearing, discovery or crash | 745,111 |
| `client` | three sockets, two requests, two failures, changes of settings, reloads or stops | 440,293 |

and two runs that end with a counterexample on purpose, `memory_turns_doc` and `conv_native_doc`, section 6.

**Properties of the scheduler.**  `ExecutingExact`: `_executing_tasks` names exactly the tasks of executions of
the loop.  `OccurrenceOnce`: a task that may be fired is
armed for a later instant than it was fired for, whatever happened in between.  `NextAfterBoot`: nothing that
was missed is armed.  `NoResurrection`, `QuietPauseHolds`: deletion is final; a pause lasts if no
execution under way had read the task as active (without that condition it does not, section 6).
`ForwardLooking`: refinement of `ForwardSchedule`.  `DueIsServed`: liveness.  `SchedInv`: the inductive invariant,
with the types and `LoopRunsExclusive` (never two executions of the loop for one task).

**Properties of the sessions.**  `SessInv`: the inductive invariant, among it `StatusOK` (a client whose last word
was THINKING is owed one by a prompt that still runs).  `ApprovedFirst`, `StopReaches`: what may be executed.  `PendingExact`,
`RunsReachable`: what can still be answered and stopped.  `NobodyLeftThinking`: when nothing runs, the last word
every reachable client got is IDLE.  `StopEnds`, `NoWaitForNobody`: liveness.

**Properties of the tool RPC.**  `RpcInv` (futures, calls, queues and handlings agree; `PaidOK`: what is
queued, being handled and was handled of a request is paid for by its call and the faults), `RepeatsPaid` (over
all requests there are no more repetitions than faults), `ReturnsAfterHandling` (refinement of `RemoteCall`),
`AnsweredDespiteCrashes` (liveness).

**Properties of the memory.**  `MemInv`: operations and the writes under way agree, a new identifier is in one hand
only.  `PreferencesKnown`: under the key of every preference that has one the profile has an entry, unless a failure
tore the two apart.  `NoRevival`: deletion is final, stray writes and old access times notwithstanding.
`BufferLostOnlyAtEnd`: the buffer is lost only with the process, and an orderly end takes it first.
`TurnsTakenOnce`: refinement of `TurnIntake`.  `BufferDrains`: liveness.

**Properties of the conversation.**  `ConvInv`: what each node of a run holds and collected, that a run which
overlapped no other is alone (`AloneOK`), that nobody holds what a run has not said (`UnsaidOK`), and that what a
run holds is older than its prompt or its own (`ExchangeOK`).  `HistoryPaired`: tool messages stand behind their calls, in order, in
everything stored or held.  `CallsAnswered`: a call without all its answers belongs to a run that is still
executing, was cut short, or overlapped another.  `AnsweredKept`: what a run said alone stays, whole, until a
clear.  `ClearedStaysCleared`.  `WindowServes`, `WindowLongest`: the window holds the prompt, or all calls
with their answers, and is the longest that fits, compared with `LongestFitting`.  `RecordedOnce`,
`CriticalAsked`: as their names say.

**Properties of the client.**  `ClientInv`: one socket, one timer, no heartbeat left over, an open connection is
known to the page.  `NeverStranded`: a connection, a close event to come or a timer.  `AnswersSeen`: what is
answered was on the screen, once, and the engine acts on no yes that was not given.  `Reconnects`,
`StatusSettles`: liveness.

### Bounds and why they are enough

* *Scheduler.*  `MaxTime = 3` or `4`: a cron task with period two has an occurrence before, at and after a
  restart; a one-shot for instant 2 can be created before and after it.  Two clients: a toggle can overtake
  another.  Up to two manual executions next to the loop's.  One store failure.  The run slots always
  suffice for the loop (assumed in `MCTaskScheduler` and checked there).  A negative interval, a rejected
  cron expression and a one-shot in the past are among the triggers.
* *Sessions.*  Two connections and two prompts: a prompt that replaces another on one connection, and two
  at the same time on two.  Requests are confirmed one at a time by the code, so `MaxAsks = 1` is one
  confirmation per prompt; `MaxAsks = 2` adds the late answer to an earlier request of the same
  prompt.  Names of connections are used again.
* *Tool RPC.*  Two requests: one in each queue, or two in one.  Two faults: a second crash during
  the recovery from the first.  Faults are counted over all kinds.
* *Memory.*  Three exchanges, one of them trivial: one in the buffer while another is analysed and a third
  interrupts.  One identifier and two operations per plan: it is created, updated and deleted, with writes
  of two analyses on their way to it.  Three texts: a preference with a key, one without, and one that an update
  takes for another.  One prompt that searches, one end of the process.
* *Conversation.*  Three runs, two at a time: a third reads what two that overlapped left.  One run cut short
  and one event (clear, discovery or crash) fall at any step; outputs of four tokens against a budget of
  three: no block with an answer fits, the hard case of trimming.  The replies hold a structured pair of a
  scheduler call and a critical one, and a text that resolves only after a discovery.
* *Client.*  Three sockets: the one in use, one that still closes, a new one.  Two requests: one that takes the
  place of the other.  Two events: a failure during the recovery from another, or a change of settings
  during one.
* Symmetry is used for clients, run slots, connections, prompts, requests and runs of the graph, only in runs
  without liveness.

## 4. Fairness

Only what the programs' own scheduling guarantees is fair.

* *Scheduler.*  Weak fairness of the loop's pass and of every step of an execution: the event loop runs
  ready coroutines.  `Answer` is fair too, that is, the execution service answers; `ToolRpc` shows when it does
  not.  Clients, clock, failures, starts and stops are not fair.
* *Sessions.*  Weak fairness of the steps of a task that depend on nobody else; not of the model, the tools, the
  users.  A lost connection is noticed in the end (`Close` of a connection that is not open is strongly fair: the
  messages it still held are finitely many and cannot keep the receive loop busy for ever).  A draft
  is finished (`DraftReady`).
* *Tool RPC.*  Both programs are (re)started, event loop and listener go on, a tool ends, the broker
  delivers.  Nobody need call or cancel; faults are never fair.
* *Memory.*  The cooldown ends, every await of an analysis returns or raises (the stores and the model are called
  with bounded work), the process that was asked to close exits.  Nobody need speak; stray writes need not
  land.  New turns may put the analysis off, but there are finitely many in a run.
* *Conversation.*  None: its properties are safety properties; `Sessions` and `ToolRpc` have the liveness of a run.
* *Client.*  Timers go off, sockets open and close once they may, the engine accepts and notices the end of a
  connection.  Failures are counted, never fair; users owe nothing.

## 5. What is proved

All theorems hold for every value of the constants that satisfies the assumptions (`TaskAssumption`,
`TriggerAssumption`, `CronAssumption`, `BoundAssumption`, `SessionAssumption`, `RpcAssumption`,
`SubstantialAssumption`, `MemAssumption`, `SlugAssumption`, `OpAssumption`, `CriticalAssumption`, `NativeAssumption`,
`ReplyAssumption`, `SizeAssumption`, `BudgetAssumption`, `SocketAssumption`, `UrlAssumption`), each evaluated by the runs.

**`TaskScheduler_proofs`.**  `NextAfterBoot`, `LoopRunsExclusive` and `OccurrenceOnce` are not inductive: whether the
loop may fire a task depends on what an execution under way has read and will write.  `SchedInv` adds
the types, `SlotsOK` (executions need a process), `PastOK` (history lies in the past) and the central part `SettledOK`: a task
that no execution serves, *or whose execution is already done with it*, is armed for a later instant than it was
fired for.  The second half is what survives the moment in which `_executing_tasks` releases it.  From
`SchedInv`: exclusivity, exactness, one firing per occurrence, no resurrection, that a quiet pause is kept (the only
other writer of a status is an execution that read the task as active), and `ForwardLooking`, step by step:
each action maps to an action of `ForwardSchedule` or leaves its variables unchanged.

**`Sessions_proofs`.**  `SessInv` joins `PendingExact` and `RunsReachable` with `AnswersOK` (a future holds
the first answer to its request; an aborted one holds *no*), `StoppedOK` (a stopped prompt is being cancelled or
has nothing left to do) and `RunsOK`.  `ApprovedFirst` follows from `AnswersOK` and `StopReaches` from
`StoppedOK` with a lemma on each action.  `NobodyLeftThinking` is not inductive, since it says nothing while a prompt
runs: `StatusOK` says who still *owes* each client its IDLE, and follows the debt through broadcasts, broken
sends, prunings and cancellations; when no prompt runs, nobody can owe one.

**`ToolRpc_proofs`.**  `RpcInv` joins `FuturesExact` with `HandledOK` (answers, on their way or given, are answers to
what was handled) and `IssuedOK` (what is queued or served was asked for).  From it: no future leaks, and
`ReturnsAfterHandling`, the refinement of `RemoteCall`.  `RepeatsPaid` counts over all requests at once.  Its
invariant `PaidOK` represents the debts as a set: `Owed` holds a numbered token for each handling that has happened
or is still to come of what is queued or in the listener's hands (`Load`), the first of each request being
free.  A fault adds at most one token, no other step adds any, and the theorems on finite sets turn that into
the bound.

**`MemoryManager_proofs`.**  `PreferencesKnown` and `NoRevival` depend on what the workers and the stray writes are
about to do.  `MemInv` adds `WorkOK` (the operation and the write of a worker belong together, only a shutdown
flushes), `AddsOK` (an identifier that will be added is unknown to the store and to every other write, and every
stray write is of a torn memory) and `KnownOK` (the text about to be remembered is the memory's).  `Slug` need only be
defined for every text: that an operation which is to be remembered has a key is a lemma about `After`
(`RememberedKey`), and nothing is claimed of texts without one.  From it: both,
and `BufferLostOnlyAtEnd`.  `TurnsTakenOnce` is proved step by step: each action maps to an action of
`TurnIntake` or leaves its variables unchanged.

**`Conversation_proofs`.**  There are two invariants.  `Inv`: `HistoryPaired`, `ClearedStaysCleared`, `RecordedOnce`
and `CriticalAsked` together with `PromptOK` (the last prompt a run holds is its own, which is what
`_record_turn` relies on), `ActionOK` (in the action node the last message is the run's own call, and what was
collected answers its first calls in order, so that adding it keeps the history paired; in the summarize node
calls and answers end the history) and `ForgottenOK`.  `Exchanges`: `CallsAnswered` and `AnsweredKept`
together with `AloneOK`, `UnsaidOK` and `ExchangeOK`, which tie a run's exchange to every history that was read after
it: a run that begins reads the checkpoint with all that was said alone, holds nothing of runs that have yet to
speak, and adds its own at the end, so an exchange stays *whole* in each history in which it is.
`CriticalAsked` uses that manifests mark known critical tools as such (`CriticalAssumption`) and that no native
tool is critical; `CallsAnswered` that replies hold lists (`ReplyAssumption`).  `WindowServes` and
`WindowLongest` follow from the invariants and the theorem on the window.

**`ShortTermMemory_proofs`, `Folding`.**  `TrimIsLongest`: for every history in which answers follow their calls, and
every budget, the loops of `trim_messages_token_budget` compute what `LongestFitting` says.  It needs no bound, so it
needs an induction along each loop, and the library's induction theorems cannot be used (they take an operator).
`Folding` holds the lemmas for that, `FoldsLeft` and `FoldsRight`, which say nothing about this code themselves: it
has the operator of a fold as a CONSTANT and proves, from the well-foundedness of the naturals, that
`FoldLeft` and `FoldRight` go through a list of any length one element after the other; each loop is an
instance of it (`INSTANCE Folding WITH Op <- Taken`, and so on), in which `SameFolds` identifies the
instance's folds with the module's.  The argument: grouping splits the history where a message is no answer
(`BlocksSplit`, `StartsAre`); the blocks kept are an end of it that fits unless it is the last block, while one block
more would not (`KeptIs`); costs grow towards the front because every message costs something (`SumsGrow`,
`SizeAssumption`), so this end is the longest that fits; and purging changes nothing in such an end
(`PurgedEnd`).

**`ClientSocket_proofs`.**  `ClientInv` needs *Wired* besides: what is still open is in use and its handlers are
set.  `AnswersSeen` needs that a request is in one place only, on its way, in the slot or on the screen, and
which answers are on their way to the engine.

Each preservation proof has a step per action, over lemmas that say what a kind of action leaves
alone.  Every safety property that a run checks, invariants, action properties and refinements, is a theorem.
*Only model-checked*: the liveness properties `DueIsServed`, `StopEnds`, `NoWaitForNobody`,
`AnsweredDespiteCrashes`, `BufferDrains`, `Reconnects` and `StatusSettles`, because the prover has no rules for
fairness and ENABLED; and the operators of `ToolResolution`, about which it is only proved that they give lists of
calls (`CallSequences`): nothing in the repository but the code says what they should compute.

## 6. Where the code and its documentation disagree

Two runs must end with a counterexample; each is a finding in `PROJECT.json` that quotes the document.

* `memory_turns_doc` - a turn recorded during an analysis cancels it, with the turns that already left the
  buffer (`async_manager.py:158`).
* `conv_native_doc` - the first discovery removes the scheduler's native tools from the registry
  (`rabbitmq_listener.py:77`); the model's calls of them are still carried out, with their arguments renamed to
  names the handler does not read.

Noticed while modelling, without a run.

*Scheduler.*  `execute_task` writes back the status it read before it awaited the tool
(`scheduler_service.py:339`): a task paused meanwhile is active again, against the docstring at line 420.  A
task deleted while it is executed leaves a log entry behind (`:332`; foreign keys are not switched on).  A
one-shot that is paused when its instant passes stays PAUSED at a start (`_rehydrate_tasks` looks at ACTIVE rows
only), and one resumed after its instant is ACTIVE with no `next_run_at`.  `listar_tareas_programadas` and
`pausar_reanudar_tarea` call methods that the service does not have (`scheduler_tools.py:134`).
The comment that the user must confirm native tools (`scheduler_tools.py:11`) has no counterpart in the action
node, and a scheduled critical tool runs unconfirmed.

*Start and tools.*  A reasoning engine that starts without a broker never starts its scheduler
(`AgentRuntime.initialize` stops at the first failure and `main.py:107-112` goes on with the stores only); one that
restarts alone never learns of the tools again (the manifest is broadcast once per start of the execution
service).  A request that reaches no queue waits for ever (`rabbitmq.py:88`), where `system-architecture.md:224`
promises 30 seconds; the messaging document says that there is no timeout by design.  So does a call made before
`start_consuming` (a task of its own, `main.py:104`) has declared and bound the queue of the answers for the first time:
its answer reaches no queue either.

*Sessions and conversation.*  The run that a new prompt cancels sends its IDLE after the THINKING of the new one
(`websockets.py:470`).  A run under way when the history is cleared writes back all it holds, and a clearing
that fails is reported like a success (`websockets.py:268`).  Synonyms with an underscore in
`KEYWORD_SYNONYMS` never match, because names are split at underscores first.

*Memory.*  `ADR-006:31` has the buffer "flushed cleanly to disk" at shutdown; the analysis in progress is cancelled.
`touch_memory` writes back stale metadata with the access time.  Profile keys of preferences that begin alike
collide, and a preference whose first 30 characters hold no ASCII letter or digit (one written in another script)
has no key and never reaches the profile, without a message (`async_manager.py:91`, `:364`, `:402`); a deletion never
touches the profile.  `_is_processing` is set and never read.

*Client.*  The reconnect delay is a fixed 2500 ms (`websocket.ts:27`), where `system-architecture.md:222` has
exponential backoff.  A second request replaces the first in the page's one slot; the page keeps THINKING when
the connection is lost while a prompt is worked on; a changed voice setting replaces the connection, upon which
the engine cancels the prompt; `email_draft_cleared` empties the slot of whatever draft; a prompt sent without
a connection appears in the chat and is dropped.

## 7. What is not modelled

* *Email assistant of the engine, prompts, voice text cleaning, configuration*: text and data without a state that
  anything else depends on.
* *Execution service tools*: calls of the operating system.
* *Email accounts and Microsoft Graph*: mail protocols; only the token cache and the polling of the device code
  have a state (section 8).
* *Voice, HUD, lists and drafts of the client*: state of one page that only its own rendering reads.
* *`SessionSummarizer`*: nothing in the repository calls its update, so it always returns its empty summary.
* Within the modelled components: texts, logging, envelopes and their parsing; the list of tasks and the ping that
  sessions answer without state; foreign messages in the engine's queue (acknowledged and ignored); a
  `start_consuming` that fails after the connection succeeded; `execute_task` without a broker client, which
  `AgentRuntime` always has; `last_run_at`, access counters and timestamps, which no decision reads.
* Three hazards in `PROJECT.json` have no property, and say there why; the smaller deviations that no property
  covers are listed in section 6.
* Arguments of calls (`normalize_tool_args`) are modelled, but the only statement about them is the one of
  `conv_native_doc`.

## 8. Plan

Built, in this order: `ForwardSchedule`, `TaskScheduler`; `Sessions`; `RemoteCall`, `ToolRpc`; `TurnIntake`,
`MemoryManager`; `ShortTermMemory`, `ToolResolution`, `Conversation`; `ClientSocket`; each with its proofs.

What is left, the most useful first:

1. `GraphToken` (`MicrosoftGraphService.java`): the token cache, its refresh by concurrent tools, and the polling
   of the device code.
2. The page's assistant status and drafts on top of `ClientSocket`: which messages leave it at THINKING.
3. `Lifecycle` (`main.py`, `AgentRuntime`): partial starts and the ordered shutdown, as a composition of the
   services' own starts and stops.
4. `VoiceSession` (`useVoice.ts`): recognition that restarts itself while synthesis speaks.
