------------------------ MODULE TaskScheduler_proofs ------------------------
(* Proofs about TaskScheduler, for all tasks, clients, triggers and bounds. *)
EXTENDS TaskScheduler, TLAPS

USE DEF NoTime, Instant

-----------------------------------------------------------------------------
(* calculate_next_run returns no instant or one strictly after its base.    *)
LEMMA NextRunLater ==
    ASSUME NEW t \in Task, NEW b \in 0..MaxTime
    PROVE  /\ NextRun(t, b) \in Instant
           /\ NextRun(t, b) # NoTime => NextRun(t, b) \in Nat /\ NextRun(t, b) > b
<1>1. /\ Trigger[t].type \in {"ONE_SHOT", "CRON", "INTERVAL"}
      /\ Trigger[t].arg \in Int
  BY TriggerAssumption
<1>2. b \in Nat /\ DefaultInterval \in Nat \ {0} /\ MaxTime \in Nat
  BY BoundAssumption
<1>3. CASE Trigger[t].type = "ONE_SHOT"
  BY <1>1, <1>2, <1>3 DEF NextRun
<1>4. CASE Trigger[t].type = "CRON"
  BY <1>4, CronAssumption DEF NextRun
<1>5. CASE Trigger[t].type = "INTERVAL"
  BY <1>1, <1>2, <1>5 DEF NextRun
<1> QED BY <1>1, <1>3, <1>4, <1>5

-----------------------------------------------------------------------------
(* Types.                                                                   *)

LEMMA PlannedType ==
    ASSUME TypeOK, NEW t \in Task
    PROVE  Planned(t) \in Row
BY NextRunLater DEF TypeOK, Planned, Row, Status

LEMMA UpdatedRowsType ==
    ASSUME TypeOK, NEW t \in Task, NEW status \in Status, NEW next \in Instant
    PROVE  UpdatedRows(t, status, next) \in [Task -> Row]
BY DEF TypeOK, UpdatedRows, Row

LEMMA EndType ==
    ASSUME TypeOK, NEW r \in Run, End(r)
    PROVE  run' \in [Run -> RunState] /\ executing' \subseteq Task
BY DEF TypeOK, End, RunState

LEMMA GotoType ==
    ASSUME TypeOK, NEW r \in Run, NEW pc \in PC, InFlight(r), Goto(r, pc)
    PROVE  run' \in [Run -> RunState] /\ executing' \subseteq Task
<1>1. run[r] \in [pc : PC, task : Task, manual : BOOLEAN, seen : Status]
  BY DEF TypeOK, InFlight, RunState, Idle
<1>2. [run[r] EXCEPT !.pc = pc] \in RunState
  BY <1>1 DEF RunState
<1> QED BY <1>2 DEF TypeOK, Goto

(* Every variable keeps its type. *)
LEMMA TypeStep == TypeOK /\ [Next]_vars => TypeOK'
<1> SUFFICES ASSUME TypeOK, [Next]_vars PROVE TypeOK'
  OBVIOUS
<1>1. CASE Tick
  BY <1>1, BoundAssumption DEF TypeOK, Tick
<1>2. CASE Start
  <2>1. rows' \in [Task -> Row]
    BY <1>2, PlannedType DEF TypeOK, Start
  <2> QED BY <1>2, <2>1 DEF TypeOK, Start
<1>3. CASE Stop
  BY <1>3 DEF TypeOK, Stop
<1>4. CASE Exit
  BY <1>4 DEF TypeOK, Exit, RunState, Request
<1>5. CASE LoopTick
  <2>1. PICK S \in SUBSET {r \in Run : ~InFlight(r)} :
          \E job \in Bijection(S, Fireable) :
             run' = [r \in Run |-> IF r \in S THEN Started(job[r], FALSE) ELSE run[r]]
    BY <1>5 DEF LoopTick
  <2>2. PICK job \in Bijection(S, Fireable) :
          run' = [r \in Run |-> IF r \in S THEN Started(job[r], FALSE) ELSE run[r]]
    BY <2>1
  <2>3. job \in [S -> Fireable] /\ Fireable \subseteq Task
    BY DEF Bijection, Injection, Fireable
  <2>4. run' \in [Run -> RunState]
    BY <2>2, <2>3 DEF TypeOK, Started, RunState, PC, Status
  <2> QED BY <1>5, <2>3, <2>4 DEF TypeOK, LoopTick, Row
<1>6. ASSUME NEW t \in Task, CreateTask(t) PROVE TypeOK'
  BY <1>6, PlannedType DEF TypeOK, CreateTask
<1>7. ASSUME NEW t \in Task, DeleteTask(t) PROVE TypeOK'
  BY <1>7 DEF TypeOK, DeleteTask, NoRow, Row, Status
<1>8. ASSUME NEW t \in Task, RunNow(t) PROVE TypeOK'
  BY <1>8 DEF TypeOK, RunNow, Started, RunState, PC, Status
<1>9. ASSUME NEW c \in Client, ToggleWrite(c) PROVE TypeOK'
  <2>1. toggling[c] \in [task : Task, enabled : BOOLEAN, next : Instant]
    BY <1>9 DEF TypeOK, ToggleWrite, Request
  <2>2. NextRun(toggling[c].task, clock) \in Instant
    BY <2>1, NextRunLater DEF TypeOK
  <2>3. rows' \in [Task -> Row]
    BY <1>9, <2>1, <2>2, UpdatedRowsType DEF ToggleWrite, Status
  <2> QED BY <1>9, <2>3 DEF TypeOK, ToggleWrite, Request
<1>10. ASSUME NEW c \in Client, ToggleError(c) PROVE TypeOK'
  BY <1>10 DEF TypeOK, ToggleError, Request
<1>11. ASSUME NEW c \in Client, NEW t \in Task, NEW enabled \in BOOLEAN,
              ToggleRead(c, t, enabled)
       PROVE  TypeOK'
  BY <1>11 DEF TypeOK, ToggleRead, Request, Row
<1>12. ASSUME NEW r \in Run, ExecRead(r) PROVE TypeOK'
  <2>1. run[r] \in [pc : PC, task : Task, manual : BOOLEAN, seen : Status]
    BY <1>12 DEF TypeOK, ExecRead, RunState, Idle
  <2>2. run' \in [Run -> RunState]
    BY <1>12, <2>1 DEF TypeOK, ExecRead, RunState, PC, Row
  <2> QED BY <1>12, <2>2 DEF TypeOK, ExecRead
<1>13. ASSUME NEW r \in Run, ExecSkip(r) PROVE TypeOK'
  BY <1>13, EndType DEF TypeOK, ExecSkip
<1>14. ASSUME NEW r \in Run, Dispatch(r) PROVE TypeOK'
  BY <1>14, GotoType DEF TypeOK, Dispatch, Proceeds, InFlight, PC
<1>15. ASSUME NEW r \in Run, DispatchLocally(r) \/ Answer(r) PROVE TypeOK'
  <2>1. InFlight(r) /\ LogExecution(r)
    BY <1>15 DEF DispatchLocally, Answer, Proceeds, InFlight
  <2>2. run[r].task \in Task
    BY <2>1 DEF TypeOK, InFlight, RunState, Idle
  <2>3. run' \in [Run -> RunState] /\ executing' \subseteq Task
    BY <2>1, GotoType DEF LogExecution, PC
  <2> QED BY <1>15, <2>2, <2>3 DEF TypeOK, DispatchLocally, Answer, LogExecution
<1>16. ASSUME NEW r \in Run, Update(r) PROVE TypeOK'
  <2>1. run[r] \in [pc : PC, task : Task, manual : BOOLEAN, seen : Status]
    BY <1>16 DEF TypeOK, Update, RunState, Idle
  <2>2. NextRun(run[r].task, clock) \in Instant
    BY <2>1, NextRunLater DEF TypeOK
  <2>3. rows' \in [Task -> Row]
    BY <1>16, <2>1, <2>2, UpdatedRowsType DEF Update, Status
  <2>4. run' \in [Run -> RunState] /\ executing' \subseteq Task
    BY <1>16, GotoType DEF Update, InFlight, PC
  <2> QED BY <1>16, <2>3, <2>4 DEF TypeOK, Update
<1>17. ASSUME NEW r \in Run, Finish(r) PROVE TypeOK'
  BY <1>17, EndType DEF TypeOK, Finish
<1>18. ASSUME NEW r \in Run, StoreError(r) PROVE TypeOK'
  <2>1. fired' \in [Task -> Instant]
    BY <1>18 DEF TypeOK, StoreError
  <2>2. run' \in [Run -> RunState] /\ executing' \subseteq Task
    BY <1>18, EndType DEF StoreError
  <2>3. faults' \in 0..MaxFaults
    BY <1>18, BoundAssumption DEF TypeOK, StoreError
  <2>4. UNCHANGED <<clock, phase, boot, rows, fresh, logged, toggling>>
    BY <1>18 DEF StoreError
  <2> QED BY <2>1, <2>2, <2>3, <2>4 DEF TypeOK
<1>19. CASE UNCHANGED vars
  BY <1>19 DEF TypeOK, vars
<1> QED
  BY <1>1, <1>2, <1>3, <1>4, <1>5, <1>6, <1>7, <1>8, <1>9, <1>10, <1>11, <1>12,
     <1>13, <1>14, <1>15, <1>16, <1>17, <1>18, <1>19 DEF Next, Exec

(* The state of the scheduler always has its type: in particular every      *)
(* next_run_at that any operation writes is an instant or none.             *)
THEOREM TypeCorrect == Spec => []TypeOK
<1>1. Init => TypeOK
  BY BoundAssumption
     DEF Init, TypeOK, NoRow, Row, Status, RunState, Request
<1> QED BY <1>1, TypeStep, PTL DEF Spec

-----------------------------------------------------------------------------
(* Which tasks the loop is serving.                                         *)

TrackOK == SlotsOK /\ ExecutingExact /\ LoopRunsExclusive

(* Execution r goes on: its task and its origin stay.                       *)
LEMMA TrackGoOn ==
    ASSUME TypeOK, TrackOK, NEW r \in Run, InFlight(r), NEW x \in RunState,
           x.pc # "idle", x.task = run[r].task, x.manual = run[r].manual,
           run' = [run EXCEPT ![r] = x],
           UNCHANGED <<executing, phase, fresh>>
    PROVE  TrackOK'
<1>1. \A q \in Run : /\ run'[q].pc # "idle" <=> run[q].pc # "idle"
                    /\ run'[q].task = run[q].task
                    /\ run'[q].manual = run[q].manual
  BY DEF TypeOK, InFlight
<1>2. SlotsOK' /\ LoopRunsExclusive'
  BY <1>1 DEF TrackOK, SlotsOK, LoopRunsExclusive, InFlight
<1>3. ExecutingExact'
  BY <1>1 DEF TrackOK, ExecutingExact, InFlight
<1> QED BY <1>2, <1>3 DEF TrackOK

(* Execution r ends.                                                        *)
LEMMA TrackEnd ==
    ASSUME TypeOK, TrackOK, NEW r \in Run, InFlight(r), End(r),
           UNCHANGED <<phase, fresh>>
    PROVE  TrackOK'
<1>1. \A q \in Run : run'[q] = IF q = r THEN Idle ELSE run[q]
  BY DEF TypeOK, End
<1>2. SlotsOK' /\ LoopRunsExclusive'
  BY <1>1 DEF TrackOK, SlotsOK, LoopRunsExclusive, InFlight, Idle
<1>3. ExecutingExact'
  <2>1. CASE run[r].manual
    BY <1>1, <2>1 DEF TrackOK, ExecutingExact, InFlight, Idle, End
  <2>2. CASE ~run[r].manual
    <3>1. executing' = executing \ {run[r].task}
      BY <2>2 DEF End
    <3>2. \A q \in Run : q # r /\ InFlight(q) /\ ~run[q].manual
                         => run[q].task # run[r].task
      BY <2>2 DEF TrackOK, LoopRunsExclusive
    <3> QED BY <1>1, <3>1, <3>2 DEF TrackOK, ExecutingExact, InFlight, Idle
  <2> QED BY <2>1, <2>2
<1> QED BY <1>2, <1>3 DEF TrackOK

(* One pass of the loop adds one execution to each task it fires.           *)
LEMMA TrackLoopTick ==
    ASSUME TypeOK, TrackOK, PastOK, LoopTick
    PROVE  TrackOK'
<1>1. PICK S \in SUBSET {r \in Run : ~InFlight(r)} :
        \E job \in Bijection(S, Fireable) :
           run' = [r \in Run |-> IF r \in S THEN Started(job[r], FALSE) ELSE run[r]]
  BY DEF LoopTick
<1>2. PICK job \in Bijection(S, Fireable) :
        run' = [r \in Run |-> IF r \in S THEN Started(job[r], FALSE) ELSE run[r]]
  BY <1>1
<1>3. /\ job \in [S -> Fireable]
      /\ \A r, q \in S : job[r] = job[q] => r = q
      /\ \A t \in Fireable : \E r \in S : job[r] = t
  BY DEF Bijection, Injection, Surjection, IsInjective
<1>4. \A r \in S : /\ run'[r].pc # "idle" /\ ~run'[r].manual
                  /\ run'[r].task = job[r] /\ job[r] \notin executing
                  /\ job[r] \in Task \ fresh
  BY <1>2, <1>3 DEF Started, Fireable, Due, PastOK, Exists, TypeOK
<1>5. \A r \in Run \ S : run'[r] = run[r]
  BY <1>2
<1>6. \A r \in Run : InFlight(r) /\ ~run[r].manual => run[r].task \in executing
  BY DEF TrackOK, ExecutingExact
<1>7. \A r \in S : ~InFlight(r)
  BY DEF TypeOK
<1>8. SlotsOK'
  BY <1>4, <1>5 DEF TrackOK, SlotsOK, InFlight, LoopTick
<1>9. LoopRunsExclusive'
  <2> SUFFICES ASSUME NEW r \in Run, NEW q \in Run,
                      InFlight(r)', ~run'[r].manual, InFlight(q)', ~run'[q].manual,
                      run'[r].task = run'[q].task
               PROVE  r = q
    BY DEF LoopRunsExclusive
  <2>1. CASE r \in S /\ q \in S
    BY <2>1, <1>3, <1>4
  <2>2. CASE r \in S /\ q \notin S
    BY <2>2, <1>4, <1>5, <1>6 DEF InFlight
  <2>3. CASE r \notin S /\ q \in S
    BY <2>3, <1>4, <1>5, <1>6 DEF InFlight
  <2>4. CASE r \notin S /\ q \notin S
    BY <2>4, <1>5 DEF TrackOK, LoopRunsExclusive, InFlight
  <2> QED BY <2>1, <2>2, <2>3, <2>4
<1>10. ExecutingExact'
  <2> DEFINE served == {r \in Run : InFlight(r) /\ ~run[r].manual}
  <2>1. {r \in Run : InFlight(r) /\ ~run[r].manual}' = served \cup S
    BY <1>4, <1>5, <1>7 DEF InFlight
  <2>2. {run'[r].task : r \in served \cup S}
          = {run[r].task : r \in served} \cup Fireable
    <3>1. \A r \in served : run'[r].task = run[r].task
      BY <1>5, <1>7
    <3>2. \A r \in S : run'[r].task \in Fireable
      BY <1>3, <1>4
    <3>3. \A t \in Fireable : \E r \in S : run'[r].task = t
      BY <1>3, <1>4
    <3> QED BY <3>1, <3>2, <3>3
  <2>3. executing = {run[r].task : r \in served}
    BY DEF TrackOK, ExecutingExact
  <2>4. executing' = executing \cup Fireable
    BY DEF LoopTick
  <2> QED BY <2>1, <2>2, <2>3, <2>4 DEF ExecutingExact
<1> QED BY <1>8, <1>9, <1>10 DEF TrackOK

(* Every step keeps the tracking.                                           *)
LEMMA TrackStep == TypeOK /\ PastOK /\ TrackOK /\ [Next]_vars => TrackOK'
<1> SUFFICES ASSUME TypeOK, PastOK, TrackOK, [Next]_vars PROVE TrackOK'
  OBVIOUS
<1> USE DEF InFlight
<1>1. ASSUME UNCHANGED <<run, executing>>, fresh' \subseteq fresh,
             phase' = "down" => phase = "down"
      PROVE  TrackOK'
  BY <1>1 DEF TrackOK, SlotsOK, ExecutingExact, LoopRunsExclusive
<1>2. CASE Tick \/ Start \/ Stop \/ UNCHANGED vars
  BY <1>1, <1>2 DEF Tick, Start, Stop, vars
<1>3. CASE Exit
  BY <1>3 DEF Exit, TrackOK, SlotsOK, ExecutingExact, LoopRunsExclusive, Idle
<1>4. CASE LoopTick
  BY <1>4, TrackLoopTick
<1>5. ASSUME NEW t \in Task, CreateTask(t) \/ DeleteTask(t) PROVE TrackOK'
  BY <1>1, <1>5 DEF CreateTask, DeleteTask
<1>6. ASSUME NEW t \in Task, RunNow(t) PROVE TrackOK'
  <2>1. PICK r \in Run : ~InFlight(r) /\ run' = [run EXCEPT ![r] = Started(t, TRUE)]
    BY <1>6 DEF RunNow
  <2>2. \A q \in Run : run'[q] = IF q = r THEN Started(t, TRUE) ELSE run[q]
    BY <2>1 DEF TypeOK
  <2>3. SlotsOK' /\ LoopRunsExclusive'
    BY <1>6, <2>2 DEF TrackOK, SlotsOK, LoopRunsExclusive, Started, RunNow
  <2>4. ExecutingExact'
    BY <1>6, <2>1, <2>2 DEF TrackOK, ExecutingExact, Started, RunNow
  <2> QED BY <2>3, <2>4 DEF TrackOK
<1>7. ASSUME NEW c \in Client,
             \/ ToggleWrite(c) \/ ToggleError(c)
             \/ \E t \in Task, enabled \in BOOLEAN : ToggleRead(c, t, enabled)
      PROVE  TrackOK'
  BY <1>1, <1>7 DEF ToggleWrite, ToggleError, ToggleRead
<1>8. ASSUME NEW r \in Run, NEW pc \in PC, InFlight(r), Goto(r, pc),
             UNCHANGED <<phase, fresh>>
      PROVE  TrackOK'
  <2> DEFINE x == [run[r] EXCEPT !.pc = pc]
  <2>1. run[r] \in [pc : PC, task : Task, manual : BOOLEAN, seen : Status]
    BY <1>8 DEF TypeOK, RunState, Idle
  <2>2. x \in RunState /\ x.pc # "idle" /\ x.task = run[r].task
        /\ x.manual = run[r].manual
    BY <2>1 DEF RunState, PC
  <2>3. run' = [run EXCEPT ![r] = x] /\ UNCHANGED executing
    BY <1>8 DEF Goto
  <2> HIDE DEF x
  <2> QED BY <1>8, <2>2, <2>3, TrackGoOn
<1>9. ASSUME NEW r \in Run, ExecRead(r) PROVE TrackOK'
  <2> DEFINE x == [run[r] EXCEPT !.pc = "decide", !.seen = rows[run[r].task].status]
  <2>1. run[r] \in [pc : PC, task : Task, manual : BOOLEAN, seen : Status]
    BY <1>9 DEF TypeOK, ExecRead, RunState, Idle
  <2>2. x \in RunState /\ x.pc # "idle" /\ x.task = run[r].task
        /\ x.manual = run[r].manual
    BY <2>1 DEF TypeOK, RunState, PC, Row
  <2>3. run' = [run EXCEPT ![r] = x]
    BY <1>9 DEF ExecRead
  <2>4. InFlight(r) /\ UNCHANGED <<executing, phase, fresh>>
    BY <1>9 DEF ExecRead
  <2> HIDE DEF x
  <2> QED BY <2>2, <2>3, <2>4, TrackGoOn
<1>10. ASSUME NEW r \in Run,
              Dispatch(r) \/ DispatchLocally(r) \/ Answer(r) \/ Update(r)
       PROVE  TrackOK'
  BY <1>8, <1>10
     DEF Dispatch, DispatchLocally, Answer, Update, LogExecution, Proceeds, PC
<1>11. ASSUME NEW r \in Run, ExecSkip(r) \/ Finish(r) \/ StoreError(r)
       PROVE  TrackOK'
  BY <1>11, TrackEnd DEF ExecSkip, Finish, StoreError, Proceeds
<1> QED
  BY <1>2, <1>3, <1>4, <1>5, <1>6, <1>7, <1>9, <1>10, <1>11 DEF Next, Exec

-----------------------------------------------------------------------------
(* Instants.                                                                *)

(* What was started, fired or created lies in the past.                     *)
LEMMA PastStep == TypeOK /\ SlotsOK /\ PastOK /\ [Next]_vars => PastOK'
<1> SUFFICES ASSUME TypeOK, SlotsOK, PastOK, [Next]_vars PROVE PastOK'
  OBVIOUS
<1> USE DEF PastOK, Exists
<1>1. CASE Tick
  BY <1>1 DEF Tick, TypeOK
<1>2. CASE Start
  BY <1>2 DEF Start, TypeOK
<1>3. CASE LoopTick
  BY <1>3 DEF LoopTick, TypeOK, Fireable, Due, Row
<1>4. ASSUME NEW t \in Task, CreateTask(t) PROVE PastOK'
  BY <1>4 DEF CreateTask, TypeOK
<1>5. ASSUME NEW t \in Task, DeleteTask(t) PROVE PastOK'
  BY <1>5 DEF DeleteTask, TypeOK, NoRow
<1>6. ASSUME NEW c \in Client, ToggleWrite(c) PROVE PastOK'
  BY <1>6 DEF ToggleWrite, UpdatedRows, TypeOK
<1>7. ASSUME NEW r \in Run, Update(r) PROVE PastOK'
  BY <1>7 DEF Update, UpdatedRows, TypeOK
<1>8. ASSUME NEW r \in Run, StoreError(r) PROVE PastOK'
  <2>1. \A t \in Task : fired'[t] \in {fired[t], NoTime}
    BY <1>8 DEF StoreError, TypeOK
  <2> QED BY <1>8, <2>1 DEF StoreError, TypeOK
<1>9. CASE \/ Stop \/ Exit \/ UNCHANGED vars
           \/ \E t \in Task : RunNow(t)
           \/ \E c \in Client :
                 \/ ToggleError(c)
                 \/ \E t \in Task, enabled \in BOOLEAN : ToggleRead(c, t, enabled)
           \/ \E r \in Run : \/ ExecRead(r) \/ ExecSkip(r) \/ Dispatch(r)
                             \/ DispatchLocally(r) \/ Answer(r) \/ Finish(r)
  BY <1>9 DEF Stop, Exit, vars, RunNow, ToggleError, ToggleRead, ExecRead,
              ExecSkip, Dispatch, DispatchLocally, Answer, LogExecution, Finish
<1> QED
  BY <1>1, <1>2, <1>3, <1>4, <1>5, <1>6, <1>7, <1>8, <1>9 DEF Next, Exec

(* t is not armed, or for an instant after x.                               *)
ArmedAfter(t, x) ==
    rows[t].status = "ACTIVE" /\ rows[t].next # NoTime => rows[t].next > x

(* Whatever writes a row arms the task for the future, or does not arm it.  *)
LEMMA ForwardWrite ==
    TypeOK /\ [Next]_vars =>
        \A t \in Task : \/ rows'[t] = rows[t]
                        \/ ArmedAfter(t, clock)' /\ clock' = clock
<1> SUFFICES ASSUME TypeOK, [Next]_vars, NEW u \in Task, rows'[u] # rows[u]
             PROVE  ArmedAfter(u, clock)' /\ clock' = clock
  OBVIOUS
<1>1. CASE Start
  <2>1. rows'[u] = Planned(u) /\ clock' = clock
    BY <1>1 DEF Start
  <2> QED BY <2>1, NextRunLater DEF Planned, ArmedAfter, TypeOK
<1>2. ASSUME NEW t \in Task, CreateTask(t)
      PROVE  ArmedAfter(u, clock)' /\ clock' = clock
  <2>1. rows'[u] = Planned(u) /\ clock' = clock
    BY <1>2 DEF CreateTask, TypeOK
  <2> QED BY <2>1, NextRunLater DEF Planned, ArmedAfter, TypeOK
<1>3. ASSUME NEW t \in Task, DeleteTask(t)
      PROVE  ArmedAfter(u, clock)' /\ clock' = clock
  BY <1>3 DEF DeleteTask, TypeOK, NoRow, ArmedAfter
<1>4. ASSUME NEW c \in Client, ToggleWrite(c)
      PROVE  ArmedAfter(u, clock)' /\ clock' = clock
  <2>1. toggling[c] \in [task : Task, enabled : BOOLEAN, next : Instant]
    BY <1>4 DEF TypeOK, ToggleWrite, Request
  <2>2. CASE toggling[c].enabled
    BY <1>4, <2>1, <2>2, NextRunLater
       DEF ToggleWrite, UpdatedRows, ArmedAfter, TypeOK
  <2>3. CASE ~toggling[c].enabled
    BY <1>4, <2>1, <2>3 DEF ToggleWrite, UpdatedRows, ArmedAfter, TypeOK
  <2> QED BY <2>2, <2>3
<1>5. ASSUME NEW r \in Run, Update(r)
      PROVE  ArmedAfter(u, clock)' /\ clock' = clock
  <2>1. run[r].task \in Task
    BY <1>5 DEF TypeOK, Update, RunState, Idle
  <2> QED BY <1>5, <2>1, NextRunLater DEF Update, UpdatedRows, ArmedAfter, TypeOK
<1>6. ASSUME UNCHANGED rows PROVE FALSE
  BY <1>6
<1>7. CASE \/ Tick \/ Stop \/ Exit \/ LoopTick \/ UNCHANGED vars
           \/ \E t \in Task : RunNow(t)
           \/ \E c \in Client :
                 \/ ToggleError(c)
                 \/ \E t \in Task, enabled \in BOOLEAN : ToggleRead(c, t, enabled)
           \/ \E r \in Run : \/ ExecRead(r) \/ ExecSkip(r) \/ Dispatch(r)
                             \/ DispatchLocally(r) \/ Answer(r) \/ Finish(r)
                             \/ StoreError(r)
  BY <1>6, <1>7 DEF Tick, Stop, Exit, LoopTick, vars, RunNow, ToggleError,
     ToggleRead, ExecRead, ExecSkip, Dispatch, DispatchLocally, Answer, Finish,
     StoreError
<1> QED
  BY <1>1, <1>2, <1>3, <1>4, <1>5, <1>7 DEF Next, Exec

(* Only a start moves the boot instant, and it discards what was missed.    *)
LEMMA BootStep ==
    TypeOK /\ PastOK /\ NextAfterBoot /\ [Next]_vars => NextAfterBoot'
<1> SUFFICES ASSUME TypeOK, PastOK, NextAfterBoot, [Next]_vars,
                    phase' = "up", NEW t \in Task
             PROVE  ArmedAfter(t, boot)'
  BY DEF NextAfterBoot, ArmedAfter
<1>1. CASE Start
  <2>1. rows'[t].status = "ACTIVE" => rows'[t] = Planned(t)
    BY <1>1 DEF Start
  <2> QED BY <1>1, <2>1, NextRunLater DEF Start, Planned, ArmedAfter, TypeOK
<1>2. CASE ~Start
  <2>1. boot' = boot /\ phase = "up"
    BY <1>2 DEF Next, Exec, vars, Tick, Stop, Exit, LoopTick, CreateTask,
       DeleteTask, RunNow, ToggleWrite, ToggleError, ToggleRead, ExecRead,
       ExecSkip, Dispatch, DispatchLocally, Answer, LogExecution, Update, Finish,
       StoreError
  <2>2. CASE rows'[t] = rows[t]
    BY <2>1, <2>2 DEF NextAfterBoot, ArmedAfter
  <2>3. CASE ArmedAfter(t, clock)' /\ clock' = clock
    <3>1. rows'[t].next \in Instant
      BY TypeStep DEF TypeOK, Row
    <3> QED BY <2>1, <2>3, <3>1 DEF ArmedAfter, PastOK, TypeOK
  <2> QED BY <2>2, <2>3, ForwardWrite
<1> QED BY <1>1, <1>2

-----------------------------------------------------------------------------
(* No occurrence is fired twice.                                            *)

(* A settled task stays settled until the loop fires it.                    *)
LEMMA SettledStays ==
    ASSUME TypeOK, PastOK, [Next]_vars, NEW t \in Task,
           fired'[t] \in {fired[t], NoTime}, Settled(t)
    PROVE  Settled(t)'
<1>1. TypeOK' /\ rows'[t].next \in Instant /\ fired[t] \in Instant
  BY TypeStep DEF TypeOK, Row
<1>2. CASE rows'[t] = rows[t]
  BY <1>1, <1>2 DEF Settled
<1>3. CASE ArmedAfter(t, clock)' /\ clock' = clock
  BY <1>1, <1>3 DEF Settled, ArmedAfter, PastOK, TypeOK
<1> QED BY <1>2, <1>3, ForwardWrite

(* The end of an execution of the loop leaves its task settled.             *)
LEMMA SettledRelease ==
    ASSUME TypeOK, PastOK, SettledOK, [Next]_vars, phase = "up", NEW r \in Run,
           ExecSkip(r) \/ Finish(r) \/ StoreError(r), ~run[r].manual,
           NEW t \in Task, run[r].task = t
    PROVE  Settled(t)'
<1>1. CASE ExecSkip(r)
  <2>1. Settled(t)
    BY <1>1 DEF ExecSkip, Proceeds, SettledOK, DoneWith
  <2> QED BY <1>1, <2>1, SettledStays DEF ExecSkip
<1>2. CASE Finish(r)
  <2>1. Settled(t)
    BY <1>2 DEF Finish, SettledOK, DoneWith
  <2> QED BY <1>2, <2>1, SettledStays DEF Finish
<1>3. CASE StoreError(r)
  <2>1. fired'[t] = NoTime /\ rows' = rows
    BY <1>3 DEF StoreError, TypeOK
  <2>2. rows[t].next \in Instant
    BY DEF TypeOK, Row
  <2> QED BY <2>1, <2>2 DEF Settled
<1> QED BY <1>1, <1>2, <1>3

LEMMA SettledStep ==
    TypeOK /\ PastOK /\ TrackOK /\ SettledOK /\ [Next]_vars => SettledOK'
<1> SUFFICES ASSUME TypeOK, PastOK, TrackOK, SettledOK, [Next]_vars, phase' = "up",
                    NEW t \in Task,
                    t \notin executing' \/ \E r \in Run : DoneWith(r, t)'
             PROVE  Settled(t)'
  BY DEF SettledOK
<1> DEFINE Before == t \notin executing \/ \E r \in Run : DoneWith(r, t)
<1>1. \A r \in Run : run[r].pc = "idle" <=> run[r] = Idle
  BY DEF TypeOK, RunState, PC, Idle
<1>2. \A r \in Run : InFlight(r) =>
         /\ run[r] \in [pc : PC, task : Task, manual : BOOLEAN, seen : Status]
         /\ ~run[r].manual => run[r].task \in executing
  BY DEF TypeOK, RunState, InFlight, Idle, TrackOK, ExecutingExact
<1>3. CASE Start
  <2>1. rows'[t].status = "ACTIVE" => rows'[t] = Planned(t)
    BY <1>3 DEF Start
  <2> QED BY <1>3, <2>1, NextRunLater DEF Start, Planned, Settled, PastOK, TypeOK
<1>4. CASE LoopTick
  <2>1. \A r \in Run : DoneWith(r, t)' => run'[r] = run[r]
    BY <1>4 DEF LoopTick, DoneWith, Started
  <2>2. \A r \in Run : DoneWith(r, t)' => DoneWith(r, t)
    BY <2>1 DEF DoneWith
  <2>3. t \notin Fireable
    BY <1>2, <1>4, <2>2 DEF LoopTick, DoneWith, Fireable, InFlight
  <2>4. Settled(t)
    BY <1>4, <2>2 DEF SettledOK, LoopTick
  <2> QED BY <1>4, <2>3, <2>4, SettledStays DEF LoopTick
<1>5. CASE ~Start /\ ~LoopTick
  <2>1. phase = "up" /\ fired'[t] \in {fired[t], NoTime}
    BY <1>5 DEF Next, Exec, vars, Tick, Stop, Exit, CreateTask, DeleteTask,
       RunNow, ToggleWrite, ToggleError, ToggleRead, ExecRead, ExecSkip, Dispatch,
       DispatchLocally, Answer, LogExecution, Update, Finish, StoreError, TypeOK
  <2>2. Before => Settled(t)'
    BY <2>1, SettledStays DEF SettledOK
  <2>3. ASSUME UNCHANGED <<run, executing>> PROVE Settled(t)'
    BY <2>2, <2>3 DEF DoneWith
  <2>4. ASSUME NEW q \in Run, UNCHANGED executing,
               \A r \in Run \ {q} : run'[r] = run[r],
               DoneWith(q, t)' => Settled(t)'
        PROVE  Settled(t)'
    <3>1. \A r \in Run \ {q} : DoneWith(r, t)' => DoneWith(r, t)
      BY <2>4 DEF DoneWith
    <3> QED BY <2>2, <2>4, <3>1
  <2>5. ASSUME NEW q \in Run, ExecSkip(q) \/ Finish(q) \/ StoreError(q)
        PROVE  Settled(t)'
    <3>1. InFlight(q) /\ End(q)
      BY <2>5 DEF ExecSkip, Finish, StoreError, Proceeds, InFlight
    <3>2. \A r \in Run : DoneWith(r, t)' => DoneWith(r, t)
      BY <3>1 DEF End, TypeOK, DoneWith, Idle
    <3>3. CASE Before
      BY <2>2, <3>3
    <3>4. CASE ~Before
      <4>1. t = run[q].task /\ ~run[q].manual
        BY <3>1, <3>2, <3>4 DEF End
      <4> QED BY <2>1, <2>5, <4>1, SettledRelease
    <3> QED BY <3>3, <3>4
  <2>6. ASSUME NEW q \in Run, ExecRead(q) PROVE DoneWith(q, t)' => Settled(t)'
    BY <2>6 DEF ExecRead, DoneWith, Settled, TypeOK
  <2>7. ASSUME NEW q \in Run, Update(q) PROVE DoneWith(q, t)' => Settled(t)'
    <3>1. SUFFICES ASSUME run[q].task = t PROVE Settled(t)'
      BY <2>7 DEF Update, Goto, DoneWith, TypeOK
    <3>2. UNCHANGED <<fired, clock>>
      BY <2>7 DEF Update
    <3>3. rows'[t].status = "ACTIVE" => rows'[t].next = NextRun(t, clock)
      BY <2>7, <3>1 DEF Update, UpdatedRows, Exists, TypeOK
    <3>4. /\ NextRun(t, clock) \in Instant
          /\ NextRun(t, clock) # NoTime => NextRun(t, clock) > clock
      BY NextRunLater DEF TypeOK
    <3> QED BY <3>2, <3>3, <3>4 DEF Settled, PastOK, TypeOK
  <2>8. ASSUME NEW q \in Run,
               \/ ExecRead(q) \/ Update(q) \/ Dispatch(q) \/ DispatchLocally(q)
               \/ Answer(q)
        PROVE  Settled(t)'
    <3>1. UNCHANGED executing /\ \A r \in Run \ {q} : run'[r] = run[r]
      BY <2>8 DEF ExecRead, Update, Dispatch, DispatchLocally, Answer,
         LogExecution, Goto, TypeOK
    <3>2. ASSUME Dispatch(q) \/ DispatchLocally(q) \/ Answer(q)
          PROVE  ~DoneWith(q, t)'
      <4>1. InFlight(q)
        BY <3>2 DEF Dispatch, DispatchLocally, Answer, Proceeds, InFlight
      <4>2. Goto(q, "wait") \/ Goto(q, "update")
        BY <3>2 DEF Dispatch, DispatchLocally, Answer, LogExecution
      <4>3. run'[q].pc \in {"wait", "update"}
        BY <1>2, <4>1, <4>2 DEF Goto, TypeOK
      <4> QED BY <4>3 DEF DoneWith
    <3> QED BY <2>4, <2>6, <2>7, <2>8, <3>1, <3>2
  <2>9. ASSUME NEW u \in Task, RunNow(u) PROVE Settled(t)'
    <3>1. PICK q \in Run : run' = [run EXCEPT ![q] = Started(u, TRUE)]
      BY <2>9 DEF RunNow
    <3>2. UNCHANGED executing /\ \A r \in Run \ {q} : run'[r] = run[r]
      BY <2>9, <3>1 DEF RunNow, TypeOK
    <3>3. ~DoneWith(q, t)'
      BY <3>1 DEF Started, TypeOK, DoneWith
    <3> QED BY <2>4, <3>2, <3>3
  <2>10. CASE \/ Tick \/ Stop \/ UNCHANGED vars
              \/ \E u \in Task : CreateTask(u) \/ DeleteTask(u)
              \/ \E c \in Client :
                    \/ ToggleWrite(c) \/ ToggleError(c)
                    \/ \E u \in Task, enabled \in BOOLEAN : ToggleRead(c, u, enabled)
    BY <2>3, <2>10 DEF Tick, Stop, vars, CreateTask, DeleteTask, ToggleWrite,
       ToggleError, ToggleRead
  <2>11. ~Exit
    BY DEF Exit
  <2> QED BY <1>5, <2>5, <2>8, <2>9, <2>10, <2>11 DEF Next, Exec
<1> QED BY <1>3, <1>4, <1>5

-----------------------------------------------------------------------------
(* The inductive invariant and what it gives.                               *)

LEMMA InvInit == Init => TypeOK /\ SchedInv
<1> SUFFICES ASSUME Init PROVE TypeOK /\ SchedInv
  OBVIOUS
<1>1. TypeOK
  BY BoundAssumption DEF Init, TypeOK, NoRow, Row, Status, RunState, Request
<1>2. SlotsOK /\ LoopRunsExclusive /\ ExecutingExact
  BY DEF Init, SlotsOK, LoopRunsExclusive, ExecutingExact, InFlight, Idle
<1>3. PastOK /\ SettledOK /\ NextAfterBoot
  BY DEF Init, PastOK, SettledOK, NextAfterBoot, Exists, NoRow
<1> QED BY <1>1, <1>2, <1>3 DEF SchedInv

LEMMA InvStep == TypeOK /\ SchedInv /\ [Next]_vars => TypeOK' /\ SchedInv'
<1> SUFFICES ASSUME TypeOK, SchedInv, [Next]_vars PROVE TypeOK' /\ SchedInv'
  OBVIOUS
<1>1. TypeOK /\ TrackOK /\ PastOK /\ SettledOK /\ NextAfterBoot
  BY DEF SchedInv, TrackOK
<1>2. TypeOK' /\ TrackOK' /\ PastOK' /\ SettledOK' /\ NextAfterBoot'
  BY <1>1, TypeStep, TrackStep, PastStep, SettledStep, BootStep DEF TrackOK
<1> QED BY <1>2 DEF SchedInv, TrackOK

(* The inductive invariant holds: no execution without a process or of a    *)
(* task that was not created, exact tracking of the served tasks, exclusive *)
(* service, forward-looking instants, and settled tasks wherever the loop   *)
(* may fire again.                                                          *)
THEOREM InvariantHolds == Spec => [](TypeOK /\ SchedInv)
BY InvInit, InvStep, PTL DEF Spec

(* _executing_tasks names exactly the tasks that an execution of the loop   *)
(* is serving, through every skip, error, crash and restart: no task is     *)
(* blocked for ever by a name that stayed behind.                           *)
THEOREM ExecutingIsExact == Spec => []ExecutingExact
<1>1. SchedInv => ExecutingExact
  BY DEF SchedInv
<1> QED BY <1>1, InvariantHolds, PTL

(* The loop never serves a task by two executions at the same time.         *)
THEOREM LoopIsExclusive == Spec => []LoopRunsExclusive
<1>1. SchedInv => LoopRunsExclusive
  BY DEF SchedInv
<1> QED BY <1>1, InvariantHolds, PTL

(* After a start no task is armed for an instant that was missed while the  *)
(* service was off, whatever the clients and the executions write later.    *)
THEOREM NothingMissedIsArmed == Spec => []NextAfterBoot
<1>1. SchedInv => NextAfterBoot
  BY DEF SchedInv
<1> QED BY <1>1, InvariantHolds, PTL

(* The loop takes up a task only for a later instant than before.           *)
THEOREM OccurrenceFiredOnce == Spec => []OccurrenceOnce
<1>1. SchedInv => OccurrenceOnce
  BY DEF SchedInv, SettledOK, OccurrenceOnce, Fireable, Due, Settled
<1> QED BY <1>1, InvariantHolds, PTL

(* A deleted task does not come back by the write of an execution or of a   *)
(* toggle that had read it before.                                          *)
THEOREM DeletedStaysDeleted == Spec => NoResurrection
<1> DEFINE Gone(t) == t \notin fresh /\ ~Exists(t)
<1>1. TypeOK /\ [Next]_vars => [\A t \in Task : Gone(t) => ~Exists(t)']_vars
  <2> SUFFICES ASSUME TypeOK, [Next]_vars, NEW t \in Task, Gone(t)
               PROVE  ~Exists(t)'
    OBVIOUS
  <2> USE DEF Exists
  <2>1. CASE Start
    BY <2>1 DEF Start
  <2>2. ASSUME NEW u \in Task, CreateTask(u) PROVE ~Exists(t)'
    BY <2>2 DEF CreateTask, TypeOK
  <2>3. ASSUME NEW u \in Task, DeleteTask(u) PROVE ~Exists(t)'
    BY <2>3 DEF DeleteTask, NoRow, TypeOK
  <2>4. ASSUME NEW c \in Client, ToggleWrite(c) PROVE ~Exists(t)'
    BY <2>4 DEF ToggleWrite, UpdatedRows, TypeOK
  <2>5. ASSUME NEW r \in Run, Update(r) PROVE ~Exists(t)'
    BY <2>5 DEF Update, UpdatedRows, TypeOK
  <2>6. CASE \/ Tick \/ Stop \/ Exit \/ LoopTick \/ UNCHANGED vars
             \/ \E u \in Task : RunNow(u)
             \/ \E c \in Client :
                   \/ ToggleError(c)
                   \/ \E u \in Task, enabled \in BOOLEAN : ToggleRead(c, u, enabled)
             \/ \E r \in Run : \/ ExecRead(r) \/ ExecSkip(r) \/ Dispatch(r)
                               \/ DispatchLocally(r) \/ Answer(r) \/ Finish(r)
                               \/ StoreError(r)
    BY <2>6 DEF Tick, Stop, Exit, LoopTick, vars, RunNow, ToggleError,
       ToggleRead, ExecRead, ExecSkip, Dispatch, DispatchLocally, Answer, Finish,
       StoreError
  <2> QED BY <2>1, <2>2, <2>3, <2>4, <2>5, <2>6 DEF Next, Exec
<1> QED BY <1>1, TypeCorrect, PTL DEF Spec, NoResurrection

(* A paused task becomes active only by the write of a client who resumes   *)
(* it, or of an execution that had read it as active before it was paused.  *)
THEOREM QuietPauseIsKept == Spec => QuietPauseHolds
<1>1. TypeOK /\ SchedInv /\ [Next]_vars
      => [\A t \in Task :
            /\ rows[t].status = "PAUSED"
            /\ \A r \in Run : run[r].task = t => run[r].seen # "ACTIVE"
            /\ rows'[t].status = "ACTIVE"
            => \E c \in Client : toggling[c].task = t /\ toggling[c].enabled
                                  /\ ToggleWrite(c)]_vars
  <2> SUFFICES ASSUME TypeOK, SchedInv, [Next]_vars, NEW t \in Task,
                      rows[t].status = "PAUSED", rows'[t].status = "ACTIVE",
                      \A r \in Run : run[r].task = t => run[r].seen # "ACTIVE"
               PROVE  \E c \in Client : toggling[c].task = t /\ toggling[c].enabled
                                         /\ ToggleWrite(c)
    OBVIOUS
  <2>1. CASE Start
    BY <2>1 DEF Start
  <2>2. ASSUME NEW u \in Task, CreateTask(u) PROVE FALSE
    <3>1. u # t
      BY <2>2 DEF CreateTask, SchedInv, PastOK, Exists
    <3> QED BY <2>2, <3>1 DEF CreateTask, TypeOK
  <2>3. ASSUME NEW u \in Task, DeleteTask(u) PROVE FALSE
    BY <2>3 DEF DeleteTask, NoRow, TypeOK
  <2>4. ASSUME NEW c \in Client, ToggleWrite(c)
        PROVE  \E d \in Client : toggling[d].task = t /\ toggling[d].enabled
                                  /\ ToggleWrite(d)
    <3>1. toggling[c].task = t /\ toggling[c].enabled
      BY <2>4 DEF ToggleWrite, UpdatedRows, TypeOK, Request
    <3> QED BY <2>4, <3>1
  <2>5. ASSUME NEW r \in Run, Update(r) PROVE FALSE
    <3>1. CASE run[r].task = t
      BY <2>5, <3>1 DEF Update, UpdatedRows, TypeOK
    <3>2. CASE run[r].task # t
      BY <2>5, <3>2 DEF Update, UpdatedRows, TypeOK
    <3> QED BY <3>1, <3>2
  <2>6. CASE \/ Tick \/ Stop \/ Exit \/ LoopTick \/ UNCHANGED vars
             \/ \E u \in Task : RunNow(u)
             \/ \E c \in Client :
                   \/ ToggleError(c)
                   \/ \E u \in Task, enabled \in BOOLEAN : ToggleRead(c, u, enabled)
             \/ \E r \in Run : \/ ExecRead(r) \/ ExecSkip(r) \/ Dispatch(r)
                               \/ DispatchLocally(r) \/ Answer(r) \/ Finish(r)
                               \/ StoreError(r)
    BY <2>6 DEF Tick, Stop, Exit, LoopTick, vars, RunNow, ToggleError,
       ToggleRead, ExecRead, ExecSkip, Dispatch, DispatchLocally, Answer, Finish,
       StoreError
  <2> QED BY <2>1, <2>2, <2>3, <2>4, <2>5, <2>6 DEF Next, Exec
<1> QED BY <1>1, InvariantHolds, PTL DEF Spec, QuietPauseHolds

-----------------------------------------------------------------------------
(* The promise of ForwardSchedule is kept.                                  *)

(* What t is armed with.                                                    *)
ArmedWith(t) == IF rows[t].status = "ACTIVE" THEN rows[t].next ELSE NoTime
Armed == [t \in Task |-> ArmedWith(t)]

(* A step that writes only the row of t, while the service is up.           *)
LEMMA RearmStep ==
    ASSUME TypeOK, [Next]_vars, NEW t \in Task, phase = "up", phase' = "up",
           UNCHANGED <<clock, executing>>,
           \A u \in Task \ {t} : rows'[u] = rows[u]
    PROVE  [Promise!Next]_(Promise!vars)
<1>1. CASE rows'[t] = rows[t]
  <2>1. Armed' = Armed
    BY <1>1 DEF Armed, ArmedWith
  <2> QED BY <2>1 DEF Promise!vars, Armed, ArmedWith
<1>2. CASE rows'[t] # rows[t]
  <2>1. ArmedAfter(t, clock)' /\ rows'[t].next \in Instant
    BY <1>2, ForwardWrite, TypeStep DEF TypeOK, Row
  <2>2. ArmedWith(t)' = NoTime \/ (ArmedWith(t)' \in Nat /\ ArmedWith(t)' > clock)
    BY <2>1 DEF ArmedWith, ArmedAfter, TypeOK
  <2>3. Armed' = [Armed EXCEPT ![t] = ArmedWith(t)']
    BY DEF Armed, ArmedWith
  <2>4. Armed'[t] = ArmedWith(t)'
    BY DEF Armed
  <2>5. Promise!Rearm(t)
    BY <2>2, <2>3, <2>4 DEF Promise!Rearm, Promise!Later, Armed, ArmedWith
  <2> QED BY <2>5 DEF Promise!Next
<1> QED BY <1>1, <1>2

(* The end of an execution releases its task or is not noticed.             *)
LEMMA ReleaseStep ==
    ASSUME TypeOK, NEW r \in Run, InFlight(r), End(r),
           UNCHANGED <<clock, phase, rows>>
    PROVE  [Promise!Next]_(Promise!vars)
<1>1. run[r].task \in Task
  BY DEF TypeOK, InFlight, RunState, Idle
<1>2. executing' = executing \/ executing' = executing \ {run[r].task}
  BY DEF End
<1> QED BY <1>1, <1>2 DEF Promise!Next, Promise!Release, Promise!vars

(* Every step of the service is a step of the promise or is not noticed.    *)
LEMMA PromiseStep == TypeOK /\ [Next]_vars => [Promise!Next]_(Promise!vars)
<1> SUFFICES ASSUME TypeOK, [Next]_vars PROVE [Promise!Next]_(Promise!vars)
  OBVIOUS
<1>1. CASE Tick
  <2>1. Promise!Advance
    BY <1>1 DEF Tick, TypeOK, Promise!Advance
  <2> QED BY <2>1 DEF Promise!Next
<1>2. CASE Start
  <2>1. \A t \in Task : \/ ArmedWith(t)' = NoTime
                        \/ ArmedWith(t)' \in Nat /\ ArmedWith(t)' > clock
    <3> SUFFICES ASSUME NEW t \in Task, rows'[t].status = "ACTIVE"
                 PROVE  \/ rows'[t].next = NoTime
                        \/ rows'[t].next \in Nat /\ rows'[t].next > clock
      BY DEF ArmedWith
    <3>1. rows'[t] = Planned(t)
      BY <1>2 DEF Start
    <3> QED BY <3>1, NextRunLater DEF Planned, TypeOK
  <2>2. Promise!Boot
    BY <1>2, <2>1 DEF Start, Promise!Boot, Promise!Later, ArmedWith
  <2> QED BY <2>2 DEF Promise!Next
<1>3. CASE Stop \/ Exit
  <2>1. Promise!Halt
    BY <1>3 DEF Stop, Exit, Promise!Halt
  <2> QED BY <2>1 DEF Promise!Next
<1>4. CASE LoopTick
  <2>1. \A t \in Fireable : Promise!Due(t)
    BY DEF Fireable, Due, Promise!Due
  <2>2. Promise!Fire
    BY <1>4, <2>1 DEF LoopTick, Promise!Fire, Fireable
  <2> QED BY <2>2 DEF Promise!Next
<1>5. ASSUME NEW t \in Task, CreateTask(t) \/ DeleteTask(t)
      PROVE  [Promise!Next]_(Promise!vars)
  BY <1>5, RearmStep DEF CreateTask, DeleteTask, TypeOK
<1>6. ASSUME NEW c \in Client, ToggleWrite(c)
      PROVE  [Promise!Next]_(Promise!vars)
  <2>1. toggling[c].task \in Task
    BY <1>6 DEF TypeOK, ToggleWrite, Request
  <2> QED BY <1>6, <2>1, RearmStep DEF ToggleWrite, UpdatedRows, TypeOK
<1>7. ASSUME NEW r \in Run, Update(r) PROVE [Promise!Next]_(Promise!vars)
  <2>1. run[r].task \in Task
    BY <1>7 DEF TypeOK, Update, RunState, Idle
  <2> QED BY <1>7, <2>1, RearmStep DEF Update, UpdatedRows, Goto, TypeOK
<1>8. ASSUME NEW r \in Run, ExecSkip(r) \/ Finish(r) \/ StoreError(r)
      PROVE  [Promise!Next]_(Promise!vars)
  BY <1>8, ReleaseStep DEF ExecSkip, Finish, StoreError, Proceeds, InFlight
<1>9. CASE \/ UNCHANGED vars
           \/ \E t \in Task : RunNow(t)
           \/ \E c \in Client :
                 \/ ToggleError(c)
                 \/ \E t \in Task, enabled \in BOOLEAN : ToggleRead(c, t, enabled)
           \/ \E r \in Run : \/ ExecRead(r) \/ Dispatch(r) \/ DispatchLocally(r)
                             \/ Answer(r)
  <2>1. UNCHANGED <<clock, phase, rows, executing>>
    BY <1>9 DEF vars, RunNow, ToggleError, ToggleRead, ExecRead, Dispatch,
       DispatchLocally, Answer, LogExecution, Goto
  <2> QED BY <2>1 DEF Promise!vars
<1> QED
  BY <1>1, <1>2, <1>3, <1>4, <1>5, <1>6, <1>7, <1>8, <1>9 DEF Next, Exec

(* The service implements ForwardSchedule: tasks are armed only for the     *)
(* future, fired only when due, up and not being served, and a start        *)
(* discards what was missed.                                                *)
THEOREM PromiseKept == Spec => ForwardLooking
<1>1. Init => Promise!Init
  BY DEF Init, Promise!Init, NoRow
<1> QED BY <1>1, PromiseStep, TypeCorrect, PTL DEF Spec, ForwardLooking, Promise!Spec
=============================================================================
