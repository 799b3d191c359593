--------------------------- MODULE TaskScheduler ---------------------------
(***************************************************************************)
(* The task scheduler of the reasoning engine                              *)
(* (services/task_scheduler/scheduler_service.py over store.py): the rows  *)
(* it keeps in SQLite, the polling loop, the executions the loop and the   *)
(* clients start, the operations of the clients, and stops, crashes and    *)
(* restarts of the process.                                                *)
(*                                                                         *)
(* One step is what a coroutine does between two awaits, together with the *)
(* store statement it issues at its end: the store's single worker thread  *)
(* serves statements in the order they are issued.  Everything a coroutine *)
(* read before an await it keeps using after it, as the code does.         *)
(***************************************************************************)
EXTENDS Integers, FiniteSets, Functions

CONSTANTS
    Task,            \* task identifiers (uuid4: never used twice)
    NoTask,          \* no task
    Run,             \* slots for executions in progress
    Client,          \* websocket clients; each has one request in progress
    Trigger,         \* trigger type and argument of each task, fixed for life
    Tool,            \* "notify" (spoken locally) or "rpc" (sent to a service)
    CronNext(_, _),  \* croniter: next occurrence of a task's cron expression
    DefaultInterval, \* seconds of an interval trigger that names none
    MaxTime,         \* bound on the clock
    MaxManual,       \* bound on run-now executions in progress
    MaxFaults        \* bound on failing store statements

NoTime == -1
Instant == Nat \cup {NoTime}

ASSUME TaskAssumption == NoTask \notin Task
ASSUME BoundAssumption ==
    /\ MaxTime \in Nat /\ MaxManual \in Nat /\ MaxFaults \in Nat
    /\ DefaultInterval \in Nat \ {0}
ASSUME TriggerAssumption ==
    /\ Trigger \in [Task -> [type : {"ONE_SHOT", "CRON", "INTERVAL"}, arg : Int]]
    /\ Tool \in [Task -> {"notify", "rpc"}]
\* croniter's get_next is strictly after its base; an expression it rejects
\* has no next occurrence.
ASSUME CronAssumption ==
    \A t \in Task : \A b \in 0..MaxTime :
        \/ CronNext(t, b) = NoTime
        \/ CronNext(t, b) \in Nat /\ CronNext(t, b) > b

VARIABLES
    clock,      \* datetime.now()
    phase,      \* "down", "up", or "closing": loop stopped and store closed
    boot,       \* the instant of the last start
    rows,       \* scheduled_tasks: status and next_run_at; ABSENT is no row
    fresh,      \* identifiers no task was created with yet
    logged,     \* tasks with an entry in task_execution_logs
    executing,  \* _executing_tasks
    run,        \* the coroutines of execute_task in progress
    toggling,   \* toggle_task requests between their read and their write
    fired,      \* history: the instant the loop last fired each task for, unless
                \* a failing store statement ended that execution
    faults      \* store statements that failed so far

vars == <<clock, phase, boot, rows, fresh, logged, executing, run, toggling,
          fired, faults>>

Status == {"ABSENT", "ACTIVE", "PAUSED", "COMPLETED", "EXPIRED"}
Row == [status : Status, next : Instant]
NoRow == [status |-> "ABSENT", next |-> NoTime]

\* A slot is idle or holds the coroutine of an execution.
PC == {"read", "decide", "wait", "update", "notify"}
Idle == [pc |-> "idle", task |-> NoTask, manual |-> FALSE, seen |-> "ABSENT"]
RunState == [pc : PC, task : Task, manual : BOOLEAN, seen : Status] \cup {Idle}
Started(t, manual) ==
    [pc |-> "read", task |-> t, manual |-> manual, seen |-> "ABSENT"]

NoRequest == [task |-> NoTask, enabled |-> FALSE, next |-> NoTime]
Request == [task : Task, enabled : BOOLEAN, next : Instant] \cup {NoRequest}

TypeOK ==
    /\ clock \in 0..MaxTime
    /\ phase \in {"down", "up", "closing"}
    /\ boot \in 0..MaxTime
    /\ rows \in [Task -> Row]
    /\ fresh \subseteq Task
    /\ logged \subseteq Task
    /\ executing \subseteq Task
    /\ run \in [Run -> RunState]
    /\ toggling \in [Client -> Request]
    /\ fired \in [Task -> Instant]
    /\ faults \in 0..MaxFaults

-----------------------------------------------------------------------------
OneShot(t) == Trigger[t].type = "ONE_SHOT"
Exists(t) == rows[t].status # "ABSENT"
InFlight(r) == run[r].pc # "idle"

\* calculate_next_run: an instant strictly after base, or none.
NextRun(t, base) ==
    CASE Trigger[t].type = "ONE_SHOT" ->
            IF Trigger[t].arg > base THEN Trigger[t].arg ELSE NoTime
      [] Trigger[t].type = "CRON" -> CronNext(t, base)
      [] OTHER ->
            LET seconds == IF Trigger[t].arg = 0 THEN DefaultInterval
                                                 ELSE Trigger[t].arg
            IN base + (IF seconds > 1 THEN seconds ELSE 1)

\* Deviation: an upsert in place of the UPDATE.
UpdatedRows_Upsert(t, status, next) ==
    [rows EXCEPT ![t] = [status |-> status, next |-> next]]

\* UPDATE ... WHERE id = t: nothing happens when the row is gone.
UpdatedRows(t, status, next) ==
    IF Exists(t) THEN [rows EXCEPT ![t] = [status |-> status, next |-> next]]
                 ELSE rows

Init ==
    /\ clock = 0
    /\ phase = "down"
    /\ boot = 0
    /\ rows = [t \in Task |-> NoRow]
    /\ fresh = Task
    /\ logged = {}
    /\ executing = {}
    /\ run = [r \in Run |-> Idle]
    /\ toggling = [c \in Client |-> NoRequest]
    /\ fired = [t \in Task |-> NoTime]
    /\ faults = 0

Tick ==
    /\ clock < MaxTime
    /\ clock' = clock + 1
    /\ UNCHANGED <<phase, boot, rows, fresh, logged, executing, run, toggling,
                   fired, faults>>

-----------------------------------------------------------------------------
(* Life of the process.                                                    *)

\* What create_task and, at a start, _rehydrate_tasks write: a one-shot whose
\* instant is not in the future is expired.
Planned(t) ==
    LET next == NextRun(t, clock) IN
    [status |-> IF OneShot(t) /\ next = NoTime THEN "EXPIRED" ELSE "ACTIVE",
     next |-> next]

\* Deviation: a start expires one-shots and leaves recurring tasks as they were.
Start_KeepsMissed ==
    /\ phase = "down"
    /\ phase' = "up"
    /\ boot' = clock
    /\ rows' = [t \in Task |->
                  IF rows[t].status = "ACTIVE" /\ OneShot(t) THEN Planned(t)
                                                             ELSE rows[t]]
    /\ UNCHANGED <<clock, fresh, logged, executing, run, toggling, fired, faults>>

\* Deviation: a start recomputes the instants and forgets to expire a one-shot.
Start_Unexpired ==
    /\ phase = "down"
    /\ phase' = "up"
    /\ boot' = clock
    /\ rows' = [t \in Task |->
                  IF rows[t].status = "ACTIVE" /\ ~OneShot(t) THEN Planned(t)
                                                              ELSE rows[t]]
    /\ UNCHANGED <<clock, fresh, logged, executing, run, toggling, fired, faults>>

\* start: no client is served and the loop does not run until it returns.
Start ==
    /\ phase = "down"
    /\ phase' = "up"
    /\ boot' = clock
    /\ rows' = [t \in Task |->
                  IF rows[t].status = "ACTIVE" THEN Planned(t) ELSE rows[t]]
    /\ UNCHANGED <<clock, fresh, logged, executing, run, toggling, fired, faults>>

\* stop cancels the loop and closes the store, not the executions.
Stop ==
    /\ phase = "up"
    /\ phase' = "closing"
    /\ UNCHANGED <<clock, boot, rows, fresh, logged, executing, run, toggling,
                   fired, faults>>

\* The process ends, after a stop or by a crash; SQLite keeps the rows.
Exit ==
    /\ phase # "down"
    /\ phase' = "down"
    /\ executing' = {}
    /\ run' = [r \in Run |-> Idle]
    /\ toggling' = [c \in Client |-> NoRequest]
    /\ UNCHANGED <<clock, boot, rows, fresh, logged, fired, faults>>

-----------------------------------------------------------------------------
(* Operations of the clients.                                              *)

CreateTask(t) ==
    /\ phase = "up"
    /\ t \in fresh
    /\ fresh' = fresh \ {t}
    /\ rows' = [rows EXCEPT ![t] = Planned(t)]
    /\ UNCHANGED <<clock, phase, boot, logged, executing, run, toggling, fired,
                   faults>>

\* toggle_task up to its first await: the row is read.
ToggleRead(c, t, enabled) ==
    /\ phase = "up"
    /\ toggling[c] = NoRequest
    /\ Exists(t)
    /\ toggling' = [toggling EXCEPT ![c] =
                      [task |-> t, enabled |-> enabled, next |-> rows[t].next]]
    /\ UNCHANGED <<clock, phase, boot, rows, fresh, logged, executing, run,
                   fired, faults>>

\* Deviation: to resume keeps the next_run_at that was read, too.
ToggleWrite_KeepsNext(c) ==
    LET q == toggling[c] IN
    /\ phase = "up"
    /\ q # NoRequest
    /\ rows' = UpdatedRows(q.task, IF q.enabled THEN "ACTIVE" ELSE "PAUSED", q.next)
    /\ toggling' = [toggling EXCEPT ![c] = NoRequest]
    /\ UNCHANGED <<clock, phase, boot, fresh, logged, executing, run, fired,
                   faults>>

\* The rest of toggle_task: to pause keeps the next_run_at that was read.
ToggleWrite(c) ==
    LET q == toggling[c] IN
    /\ phase = "up"
    /\ q # NoRequest
    /\ rows' = IF q.enabled
               THEN UpdatedRows(q.task, "ACTIVE", NextRun(q.task, clock))
               ELSE UpdatedRows(q.task, "PAUSED", q.next)
    /\ toggling' = [toggling EXCEPT ![c] = NoRequest]
    /\ UNCHANGED <<clock, phase, boot, fresh, logged, executing, run, fired,
                   faults>>

\* Two statements, taken together: a log entry that an execution writes between
\* them is left behind, as one written after the deletion is.
DeleteTask(t) ==
    /\ phase = "up"
    /\ Exists(t)
    /\ rows' = [rows EXCEPT ![t] = NoRow]
    /\ logged' = logged \ {t}
    /\ UNCHANGED <<clock, phase, boot, fresh, executing, run, toggling, fired,
                   faults>>

\* task_run_now: an execution that _executing_tasks does not know of.  The
\* client may still show a task that was deleted meanwhile.
RunNow(t) ==
    /\ phase = "up"
    /\ t \notin fresh
    /\ Cardinality({r \in Run : InFlight(r) /\ run[r].manual}) < MaxManual
    /\ \E r \in Run :
          /\ ~InFlight(r)
          /\ run' = [run EXCEPT ![r] = Started(t, TRUE)]
    /\ UNCHANGED <<clock, phase, boot, rows, fresh, logged, executing, toggling,
                   fired, faults>>

-----------------------------------------------------------------------------
(* The polling loop.                                                       *)

Due(t) ==
    /\ rows[t].status = "ACTIVE"
    /\ rows[t].next # NoTime
    /\ rows[t].next <= clock

Fireable == {t \in Task : Due(t) /\ t \notin executing}

\* One pass of _scheduler_loop: every due task that no execution of the loop
\* is serving gets one.
LoopTick ==
    /\ phase = "up"
    /\ Fireable # {}
    /\ \E S \in SUBSET {r \in Run : ~InFlight(r)} :
          \E job \in Bijection(S, Fireable) :
             run' = [r \in Run |-> IF r \in S THEN Started(job[r], FALSE)
                                              ELSE run[r]]
    /\ executing' = executing \cup Fireable
    /\ fired' = [t \in Task |-> IF t \in Fireable THEN rows[t].next ELSE fired[t]]
    /\ UNCHANGED <<clock, phase, boot, rows, fresh, logged, toggling, faults>>

-----------------------------------------------------------------------------
(* execute_task, and _safe_execute_task around it.                         *)

\* Deviation: every execution releases the task.
End_Always(r) ==
    /\ run' = [run EXCEPT ![r] = Idle]
    /\ executing' = executing \ {run[r].task}

\* Deviation: the finally clause of _safe_execute_task is missing.
End_KeepsTask(r) ==
    /\ run' = [run EXCEPT ![r] = Idle]
    /\ UNCHANGED executing

\* The coroutine is over; only an execution of the loop releases the task.
End(r) ==
    /\ run' = [run EXCEPT ![r] = Idle]
    /\ executing' = IF run[r].manual THEN executing
                                     ELSE executing \ {run[r].task}

Goto(r, pc) == run' = [run EXCEPT ![r].pc = pc] /\ UNCHANGED executing

\* Neither missing nor skipped, by the row read before the await.
Proceeds(r) ==
    /\ run[r].pc = "decide"
    /\ run[r].seen # "ABSENT"
    /\ run[r].manual \/ run[r].seen = "ACTIVE"

ExecRead(r) ==
    /\ phase = "up"
    /\ run[r].pc = "read"
    /\ run' = [run EXCEPT ![r].pc = "decide", ![r].seen = rows[run[r].task].status]
    /\ UNCHANGED <<clock, phase, boot, rows, fresh, logged, executing, toggling,
                   fired, faults>>

ExecSkip(r) ==
    /\ run[r].pc = "decide"
    /\ ~Proceeds(r)
    /\ End(r)
    /\ UNCHANGED <<clock, phase, boot, rows, fresh, logged, toggling, fired, faults>>

\* The tool request is published; the answer is awaited without a timeout.
Dispatch(r) ==
    /\ Proceeds(r)
    /\ Tool[run[r].task] = "rpc"
    /\ Goto(r, "wait")
    /\ UNCHANGED <<clock, phase, boot, rows, fresh, logged, toggling, fired, faults>>

\* log_execution, a plain INSERT: no row of scheduled_tasks is required.
LogExecution(r) ==
    /\ phase = "up"
    /\ logged' = logged \cup {run[r].task}
    /\ Goto(r, "update")

\* A notification needs no service; a request that cannot be published is
\* caught and becomes an ERROR result.  Both are logged without an await.
DispatchLocally(r) ==
    /\ Proceeds(r)
    /\ LogExecution(r)
    /\ UNCHANGED <<clock, phase, boot, rows, fresh, toggling, fired, faults>>

\* The answer, SUCCESS or ERROR, or an exception: all are logged.
Answer(r) ==
    /\ run[r].pc = "wait"
    /\ LogExecution(r)
    /\ UNCHANGED <<clock, phase, boot, rows, fresh, toggling, fired, faults>>

\* Deviation: a recurring task is made active whatever it was.
Update_AlwaysActive(r) ==
    LET t == run[r].task IN
    /\ phase = "up"
    /\ run[r].pc = "update"
    /\ rows' = IF OneShot(t) THEN UpdatedRows(t, "COMPLETED", NoTime)
               ELSE UpdatedRows(t, "ACTIVE", NextRun(t, clock))
    /\ Goto(r, "notify")
    /\ UNCHANGED <<clock, phase, boot, fresh, logged, toggling, fired, faults>>

\* Deviation: the next instant is counted from the one served, not from now.
Update_FromOccurrence(r) ==
    LET t == run[r].task IN
    /\ phase = "up"
    /\ run[r].pc = "update"
    /\ rows' = IF OneShot(t) THEN UpdatedRows(t, "COMPLETED", NoTime)
               ELSE UpdatedRows(t, run[r].seen, NextRun(t, rows[t].next))
    /\ Goto(r, "notify")
    /\ UNCHANGED <<clock, phase, boot, fresh, logged, toggling, fired, faults>>

\* A one-shot is over, whatever its result; another task gets the status it
\* was read with and its next instant.
Update(r) ==
    LET t == run[r].task IN
    /\ phase = "up"
    /\ run[r].pc = "update"
    /\ rows' = IF OneShot(t) THEN UpdatedRows(t, "COMPLETED", NoTime)
               ELSE UpdatedRows(t, run[r].seen, NextRun(t, clock))
    /\ Goto(r, "notify")
    /\ UNCHANGED <<clock, phase, boot, fresh, logged, toggling, fired, faults>>

\* task_triggered and tasks_list are broadcast; no exception matters any more.
Finish(r) ==
    /\ run[r].pc = "notify"
    /\ End(r)
    /\ UNCHANGED <<clock, phase, boot, rows, fresh, logged, toggling, fired, faults>>

\* A store statement raises, because the store was closed or by a failure of
\* SQLite: the exception leaves execute_task.
StoreError(r) ==
    /\ \/ run[r].pc \in {"read", "wait", "update"}
       \/ Proceeds(r)
    /\ \/ phase = "closing" /\ UNCHANGED faults
       \/ phase = "up" /\ faults < MaxFaults /\ faults' = faults + 1
    /\ End(r)
    /\ fired' = IF run[r].manual THEN fired
                ELSE [fired EXCEPT ![run[r].task] = NoTime]
    /\ UNCHANGED <<clock, phase, boot, rows, fresh, logged, toggling>>

\* The same for the write of toggle_task.
ToggleError(c) ==
    /\ phase = "closing"
    /\ toggling[c] # NoRequest
    /\ toggling' = [toggling EXCEPT ![c] = NoRequest]
    /\ UNCHANGED <<clock, phase, boot, rows, fresh, logged, executing, run, fired,
                   faults>>

Exec(r) ==
    \/ ExecRead(r) \/ ExecSkip(r) \/ Dispatch(r) \/ DispatchLocally(r)
    \/ Answer(r) \/ Update(r) \/ Finish(r) \/ StoreError(r)

Next ==
    \/ Tick
    \/ Start
    \/ Stop
    \/ Exit
    \/ LoopTick
    \/ \E t \in Task : CreateTask(t) \/ DeleteTask(t) \/ RunNow(t)
    \/ \E c \in Client :
          \/ ToggleWrite(c)
          \/ ToggleError(c)
          \/ \E t \in Task, enabled \in BOOLEAN : ToggleRead(c, t, enabled)
    \/ \E r \in Run : Exec(r)

Spec == Init /\ [][Next]_vars

\* The event loop runs every ready coroutine, the loop polls every second,
\* and the execution service answers every request.  Nothing makes the clients
\* act, the clock advance, SQLite fail or the process start, stop or end.
Fairness ==
    /\ WF_vars(LoopTick)
    /\ \A r \in Run : /\ WF_vars(ExecRead(r)) /\ WF_vars(ExecSkip(r))
                      /\ WF_vars(Dispatch(r) \/ DispatchLocally(r))
                      /\ WF_vars(Answer(r)) /\ WF_vars(Update(r))
                      /\ WF_vars(Finish(r))

FairSpec == Spec /\ Fairness

-----------------------------------------------------------------------------
(* Correctness.                                                            *)

\* _executing_tasks names exactly the tasks an execution of the loop serves:
\* an identifier that stayed behind would never be fired again.
ExecutingExact ==
    executing = {run[r].task : r \in {q \in Run : InFlight(q) /\ ~run[q].manual}}

\* The loop never serves a task twice at the same time.
LoopRunsExclusive ==
    \A r, q \in Run :
        /\ InFlight(r) /\ ~run[r].manual
        /\ InFlight(q) /\ ~run[q].manual
        /\ run[r].task = run[q].task
        => r = q

\* Nothing that was missed while the service was off is waiting to be run:
\* every armed task is armed for an instant after the last start (ADR-011).
NextAfterBoot ==
    phase = "up" =>
        \A t \in Task : rows[t].status = "ACTIVE" /\ rows[t].next # NoTime
                         => rows[t].next > boot

\* An occurrence is fired once: whatever pauses, resumes, deletes, manual runs
\* and restarts come in between, the loop takes up a task again only for a
\* later instant than before, unless SQLite failed the previous execution.
OccurrenceOnce ==
    phase = "up" => \A t \in Fireable : rows[t].next > fired[t]

\* The row of a deleted task never comes back, although an execution or a
\* toggle that began before the deletion still writes to it.
NoResurrection ==
    [][\A t \in Task : t \notin fresh /\ ~Exists(t) => ~Exists(t)']_vars

\* A paused task stays paused until a client resumes it, if no execution of it
\* was under way that had read it as active.
QuietPauseHolds ==
    [][\A t \in Task :
          /\ rows[t].status = "PAUSED"
          /\ \A r \in Run : run[r].task = t => run[r].seen # "ACTIVE"
          /\ rows'[t].status = "ACTIVE"
          => \E c \in Client : toggling[c].task = t /\ toggling[c].enabled
                                /\ ToggleWrite(c)]_vars

\* A due task does not stay due: it is fired and given a later instant, or
\* completed, or a client or the end of the process takes it away.
DueIsServed ==
    \A t \in Task : (phase = "up" /\ Due(t)) ~> ~(phase = "up" /\ Due(t))

\* The service keeps the promise of ForwardSchedule.
Promise == INSTANCE ForwardSchedule WITH
    on    <- phase = "up",
    armed <- [t \in Task |-> IF rows[t].status = "ACTIVE" THEN rows[t].next
                                                          ELSE NoTime],
    busy  <- executing

ForwardLooking == Promise!Spec

-----------------------------------------------------------------------------
(* The inductive invariant behind NextAfterBoot, LoopRunsExclusive and      *)
(* OccurrenceOnce.                                                          *)

\* Without a process there is no execution, and none is of a future task.
SlotsOK ==
    \A r \in Run : InFlight(r) => phase # "down" /\ run[r].task \notin fresh

\* Nothing is known of the future or of tasks that were not created.
PastOK ==
    /\ boot <= clock
    /\ \A t \in Task : fired[t] <= clock
    /\ \A t \in fresh : ~Exists(t)

\* If t is armed, then for a later instant than it was last fired for.
Settled(t) ==
    rows[t].status = "ACTIVE" /\ rows[t].next # NoTime => rows[t].next > fired[t]

\* Execution r of the loop knows that it has to skip t, or has rearmed it.
DoneWith(r, t) ==
    /\ ~run[r].manual /\ run[r].task = t
    /\ run[r].pc = "notify" \/ (run[r].pc = "decide" /\ run[r].seen # "ACTIVE")

\* A task is settled when the loop may fire it again, and already when the
\* execution that serves it is done with it.
SettledOK ==
    phase = "up" =>
        \A t \in Task :
            t \notin executing \/ (\E r \in Run : DoneWith(r, t)) => Settled(t)

\* What every reachable state satisfies and every step preserves: the types
\* and parts above, exact tracking, exclusive service and forward-looking instants.
SchedInv ==
    /\ TypeOK /\ SlotsOK /\ PastOK /\ SettledOK
    /\ ExecutingExact /\ LoopRunsExclusive /\ NextAfterBoot
=============================================================================
