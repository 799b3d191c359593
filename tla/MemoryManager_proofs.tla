------------------------ MODULE MemoryManager_proofs ------------------------
(* Proofs about MemoryManager, for all exchanges, memories, texts and plans. *)
EXTENDS MemoryManager, TLAPS

TakeStep == CooldownOver \/ Close
EndStep == Exit \/ Crash

-----------------------------------------------------------------------------
(* Types.                                                                   *)

LEMMA InType ==
    ASSUME NEW p \in {"idle", "cooldown", "retrieve", "extract", "plan", "seek", "remember"}
    PROVE  In(p) \in WorkerState
BY BoundAssumption DEF In, Idle, WorkerState

LEMMA IdleType == Idle \in WorkerState
BY BoundAssumption DEF Idle, WorkerState

\* One worker changes: the others keep their type.
LEMMA OneWorkerType ==
    ASSUME TypeOK, NEW k \in Worker, NEW s \in WorkerState, worker' = [worker EXCEPT ![k] = s]
    PROVE  worker' \in [Worker -> WorkerState]
BY DEF TypeOK, WorkerState

LEMMA OnwardType ==
    ASSUME TypeOK, NEW k \in Worker, NEW p \in {"plan", "remember"}, Onward(k, p)
    PROVE  worker' \in [Worker -> WorkerState]
<1>1. worker[k] \in WorkerState /\ worker[k].ops \in 0..MaxOps
  BY DEF TypeOK, WorkerState
<1>2. CASE p = "plan"
  <2> DEFINE s == [In("plan") EXCEPT !.ops = worker[k].ops]
  <2>1. s \in WorkerState
    BY <1>1 DEF WorkerState, In, Idle
  <2>2. worker' = [worker EXCEPT ![k] = s]
    BY <1>2 DEF Onward
  <2> HIDE DEF s
  <2> QED BY <2>1, <2>2, OneWorkerType
<1>3. CASE p = "remember"
  <2> DEFINE s == [worker[k] EXCEPT !.phase = "remember"]
  <2>1. s \in WorkerState
    BY <1>1 DEF WorkerState
  <2>2. worker' = [worker EXCEPT ![k] = s]
    BY <1>1, <1>3 DEF Onward
  <2> HIDE DEF s
  <2> QED BY <2>1, <2>2, OneWorkerType
<1> QED BY <1>2, <1>3

LEMMA MovedType ==
    ASSUME NEW f, NEW S, NEW p, NEW T, f \in [Exchange -> T], p \in T
    PROVE  Moved(f, S, p) \in [Exchange -> T]
BY DEF Moved

LEMMA InterruptedType ==
    ASSUME NEW f, NEW T, f \in [Exchange -> T], "lost" \in T
    PROVE  Interrupted(f) \in [Exchange -> T]
BY DEF Interrupted

LEMMA TakeBufferType ==
    ASSUME TypeOK, NEW k \in Worker, NEW f \in [Exchange -> Place], TakeBuffer(k, f)
    PROVE  turn' \in [Exchange -> Place] /\ worker' \in [Worker -> WorkerState]
<1>1. turn' \in [Exchange -> Place]
  BY DEF TakeBuffer, Moved, Place, Settled
<1>2. worker' \in [Worker -> WorkerState]
  BY InType, IdleType DEF TakeBuffer, TypeOK, Worker
<1> QED BY <1>1, <1>2

LEMMA StrayType ==
    ASSUME TypeOK, WorkOK, CancelTimer
    PROVE  strays' \subseteq Write /\ torn' \subseteq Mem
BY DEF TypeOK, WorkOK, Consistent, CancelTimer, Strays, Unremembered, Worker

LEMMA TouchesType ==
    ASSUME TypeOK, NEW S, S \subseteq LiveIds
    PROVE  TouchesOf(S) \subseteq [mem: Mem, category: Category, importance: 1..5]
<1> SUFFICES ASSUME NEW m \in S
             PROVE  [mem |-> m, category |-> store[m].category, importance |-> store[m].importance]
                       \in [mem: Mem, category: Category, importance: 1..5]
  BY DEF TouchesOf
<1>1. m \in Mem /\ store[m] \in Live
  BY DEF TypeOK, LiveIds, Never, Gone
<1> QED BY <1>1 DEF Live

LEMMA LandedType ==
    ASSUME TypeOK, NEW w \in Write, w.kind # "delete" => w.text \in Text
    PROVE  Landed(w) \in [Mem -> {Never, Gone} \cup Live]
<1>1. w.mem \in Mem /\ w.category \in Category /\ w.importance \in 1..5
  BY DEF Write
<1>2. CASE w.kind = "add" \/ (w.kind = "update" /\ w.mem \in LiveIds)
  BY <1>1, <1>2 DEF Landed, TypeOK, Live
<1>3. CASE ~(w.kind = "add" \/ (w.kind = "update" /\ w.mem \in LiveIds))
  BY <1>1, <1>3 DEF Landed, TypeOK
<1> QED BY <1>2, <1>3

LEMMA TouchedType ==
    ASSUME TypeOK, NEW x \in touches
    PROVE  Touched(x) \in [Mem -> {Never, Gone} \cup Live]
<1>1. x.mem \in Mem /\ x.category \in Category /\ x.importance \in 1..5
  BY DEF TypeOK
<1>2. CASE x.mem \in LiveIds
  <2>1. store[x.mem] \in Live
    BY <1>2 DEF LiveIds, TypeOK, Never, Gone
  <2>2. [store[x.mem] EXCEPT !.category = x.category, !.importance = x.importance] \in Live
    BY <1>1, <2>1 DEF Live
  <2> QED BY <1>1, <1>2, <2>2 DEF Touched, TypeOK
<1>3. CASE x.mem \notin LiveIds
  BY <1>3 DEF Touched, TypeOK
<1> QED BY <1>2, <1>3

\* A worker that has chosen its write.
LEMMA WritingType ==
    ASSUME TypeOK, NEW k \in Worker, NEW w \in Write
    PROVE  [worker EXCEPT ![k].phase = "write", ![k].write = w] \in [Worker -> WorkerState]
<1> DEFINE x == [worker[k] EXCEPT !.phase = "write", !.write = w]
<1>1. worker[k] \in WorkerState /\ worker \in [Worker -> WorkerState]
  BY DEF TypeOK
<1>2. x \in WorkerState
  BY <1>1 DEF WorkerState
<1>3. [worker EXCEPT ![k].phase = "write", ![k].write = w] = [worker EXCEPT ![k] = x]
  BY <1>1
<1> HIDE DEF x
<1> QED BY <1>1, <1>2, <1>3

\* What a worker writes says something, unless it is a deletion.
LEMMA WorkerWrite ==
    ASSUME TypeOK, WorkOK, NEW k \in Worker, worker[k].phase = "write"
    PROVE  /\ worker[k].write \in Write
           /\ worker[k].op \in Op /\ worker[k].op \in MemoryOperation
           /\ worker[k].write.text = worker[k].op.text
           /\ worker[k].write.category = worker[k].op.category
           /\ worker[k].write.kind # "delete" => worker[k].write.text \in Text
           /\ worker[k].write.kind = "delete" <=> worker[k].op.op = "DELETE"
<1>1. /\ worker[k].write \in Write /\ worker[k].op \in Op /\ ~Skipped(worker[k].op)
      /\ worker[k].write = WriteOf(worker[k].write.kind, worker[k].write.mem, worker[k].op)
      /\ worker[k].write.kind = "delete" <=> worker[k].op.op = "DELETE"
  BY DEF WorkOK, Consistent
<1>2. worker[k].op \in MemoryOperation
  BY <1>1, OpAssumption
<1>3. worker[k].write.text = worker[k].op.text /\ worker[k].write.category = worker[k].op.category
  BY <1>1 DEF WriteOf
<1> QED BY <1>1, <1>2, <1>3 DEF Skipped, MemoryOperation

\* An operation that is to be remembered has a text, and its text a key.
LEMMA KeyOfText ==
    ASSUME NEW t \in Text, Keyed(t)
    PROVE  Slug[t] \in Key
BY SlugAssumption DEF Keyed, Key, Range

LEMMA RememberedKey ==
    ASSUME NEW o \in MemoryOperation, ~Skipped(o), After(o) = "remember"
    PROVE  o.text \in Text /\ Slug[o.text] \in Key
<1>1. o.op # "DELETE" /\ Keyed(o.text)
  BY DEF After
<1>2. o.text \in Text
  BY <1>1 DEF Skipped, MemoryOperation
<1> QED BY <1>1, <1>2, KeyOfText

LEMMA TypeStep == TypeOK /\ WorkOK /\ AddsOK /\ [Next]_vars => TypeOK'
<1> SUFFICES ASSUME TypeOK, WorkOK, AddsOK, [Next]_vars PROVE TypeOK'
  OBVIOUS
<1> USE DEF TypeOK
<1>1. ASSUME NEW e \in Exchange, RecordTurn(e) PROVE TypeOK'
  <2>1. [turn EXCEPT ![e] = "buffered"] \in [Exchange -> Place]
    BY DEF Place
  <2>2. turn' \in [Exchange -> Place]
    BY <1>1, <2>1, InterruptedType DEF RecordTurn, Place
  <2>3. worker' \in [Worker -> WorkerState]
    BY <1>1, InType DEF RecordTurn, Worker
  <2> QED BY <1>1, <2>2, <2>3, StrayType DEF RecordTurn
<1>2. CASE CooldownOver
  BY <1>2, TakeBufferType DEF CooldownOver, Worker
<1>3. ASSUME NEW k \in Worker, Work(k) PROVE TypeOK'
  <2>1. CASE Retrieve(k)
    <3>1. [worker[k] EXCEPT !.phase = "extract"] \in WorkerState
      BY DEF WorkerState
    <3>2. \A q \in Text : Hits(q, 50) \subseteq LiveIds
      BY DEF Hits
    <3>3. touches' \subseteq [mem: Mem, category: Category, importance: 1..5]
      BY <2>1, <3>2, TouchesType DEF Retrieve, TypeOK
    <3> QED BY <2>1, <3>1, <3>3, OneWorkerType DEF Retrieve
  <2>2. CASE Extract(k)
    <3>1. [worker[k] EXCEPT !.phase = "plan"] \in WorkerState
      BY DEF WorkerState
    <3> QED BY <2>2, <3>1, OneWorkerType DEF Extract
  <2>3. CASE ExtractionFails(k)
    BY <2>3, IdleType, OneWorkerType DEF ExtractionFails, Moved, Place
  <2>4. CASE NextOperation(k)
    <3>1. PICK o \in Op :
            \/ worker' = [worker EXCEPT ![k].ops = @ + 1]
            \/ worker' = [worker EXCEPT ![k] = [In("seek") EXCEPT !.op = o, !.ops = worker[k].ops + 1]]
            \/ /\ ~Skipped(o) /\ o.op # "CREATE" /\ o.memory_id # NoMem
               /\ worker' = [worker EXCEPT ![k] =
                    [phase |-> "write", op |-> o, ops |-> @.ops + 1,
                     write |-> WriteOf(Change(o), o.memory_id, o)]]
      BY <2>4 DEF NextOperation
    <3>2. worker[k].ops + 1 \in 0..MaxOps
      <4>1. worker[k].ops \in 0..MaxOps
        BY DEF WorkerState
      <4>2. worker[k].ops < MaxOps
        BY <2>4 DEF NextOperation
      <4> HIDE DEF TypeOK
      <4> QED BY <4>1, <4>2, BoundAssumption
    <3>3. o \in MemoryOperation
      BY OpAssumption
    <3>4. o.memory_id # NoMem => WriteOf(Change(o), o.memory_id, o) \in Write
      BY <3>3 DEF WriteOf, Change, Write, MemoryOperation
    <3>5. CASE worker' = [worker EXCEPT ![k].ops = @ + 1]
      <4>1. [worker[k] EXCEPT !.ops = @ + 1] \in WorkerState
        BY <3>2 DEF WorkerState
      <4> QED BY <2>4, <3>5, <4>1, OneWorkerType DEF NextOperation
    <3>6. CASE worker' = [worker EXCEPT ![k] = [In("seek") EXCEPT !.op = o, !.ops = worker[k].ops + 1]]
      <4>1. [In("seek") EXCEPT !.op = o, !.ops = worker[k].ops + 1] \in WorkerState
        BY <3>2 DEF WorkerState, In, Idle
      <4> QED BY <2>4, <3>6, <4>1, OneWorkerType DEF NextOperation
    <3>7. CASE /\ o.memory_id # NoMem
               /\ worker' = [worker EXCEPT ![k] =
                    [phase |-> "write", op |-> o, ops |-> @.ops + 1,
                     write |-> WriteOf(Change(o), o.memory_id, o)]]
      <4>1. [phase |-> "write", op |-> o, ops |-> worker[k].ops + 1,
             write |-> WriteOf(Change(o), o.memory_id, o)] \in WorkerState
        BY <3>2, <3>4, <3>7 DEF WorkerState
      <4> QED BY <2>4, <3>7, <4>1, OneWorkerType DEF NextOperation
    <3> QED BY <3>1, <3>5, <3>6, <3>7
  <2>5. CASE Seek(k)
    <3> DEFINE o == worker[k].op
    <3>0. o \in MemoryOperation
      BY <2>5, OpAssumption DEF Seek, WorkOK, Consistent
    <3>1. CASE \E m \in Best(o.text, Threshold(o)) :
              /\ worker' = [worker EXCEPT ![k].phase = "write", ![k].write = WriteOf(Change(o), m, o)]
              /\ touches' = touches \cup TouchesOf({m})
      <4>1. PICK m \in Best(o.text, Threshold(o)) :
              /\ worker' = [worker EXCEPT ![k].phase = "write", ![k].write = WriteOf(Change(o), m, o)]
              /\ touches' = touches \cup TouchesOf({m})
        BY <3>1
      <4>2. m \in LiveIds /\ m \in Mem
        BY DEF Best, Hits, LiveIds
      <4>3. WriteOf(Change(o), m, o) \in Write
        BY <3>0, <4>2 DEF WriteOf, Change, Write, MemoryOperation
      <4>4. worker' \in [Worker -> WorkerState]
        BY <4>1, <4>3, WritingType
      <4>5. TouchesOf({m}) \subseteq [mem: Mem, category: Category, importance: 1..5]
        BY <4>2, TouchesType
      <4> QED BY <2>5, <4>1, <4>4, <4>5 DEF Seek
    <3>2. CASE /\ \E m \in Fresh :
                     worker' = [worker EXCEPT ![k].phase = "write", ![k].write = WriteOf("add", m, o)]
               /\ UNCHANGED touches
      <4>1. PICK m \in Fresh :
              worker' = [worker EXCEPT ![k].phase = "write", ![k].write = WriteOf("add", m, o)]
        BY <3>2
      <4>2. WriteOf("add", m, o) \in Write
        BY <3>0 DEF Fresh, WriteOf, Write, MemoryOperation
      <4>3. worker' \in [Worker -> WorkerState]
        BY <4>1, <4>2, WritingType
      <4> QED BY <2>5, <3>2, <4>3 DEF Seek
    <3>3. CASE Onward(k, After(o)) /\ UNCHANGED touches
      BY <2>5, <3>3, OnwardType DEF Seek, After
    <3> QED BY <2>5, <3>1, <3>2, <3>3 DEF Seek
  <2>6. CASE WriteDone(k)
    <3>1. store' \in [Mem -> {Never, Gone} \cup Live]
      BY <2>6, WorkerWrite, LandedType DEF WriteDone
    <3>2. worker' \in [Worker -> WorkerState]
      BY <2>6, OnwardType DEF WriteDone, After
    <3> QED BY <2>6, <3>1, <3>2 DEF WriteDone
  <2>7. CASE Remember(k)
    <3>1. worker[k].op \in MemoryOperation /\ ~Skipped(worker[k].op) /\ After(worker[k].op) = "remember"
      BY <2>7, OpAssumption DEF Remember, WorkOK, Consistent
    <3>2. worker[k].op.text \in Text /\ Slug[worker[k].op.text] \in Key
      BY <3>1, RememberedKey
    <3>3. worker' \in [Worker -> WorkerState]
      BY <2>7, OnwardType DEF Remember
    <3>4. profile' \in [Key -> Text \cup {NoText}]
      BY <2>7, <3>2 DEF Remember, TypeOK
    <3> QED BY <2>7, <3>3, <3>4 DEF Remember
  <2>8. CASE RememberFails(k)
    <3>1. torn' \subseteq Mem
      BY <2>8 DEF RememberFails, Unremembered
    <3> QED BY <2>8, <3>1, IdleType, OneWorkerType DEF RememberFails, Moved, Place
  <2>9. CASE PlanDone(k)
    BY <2>9, IdleType, OneWorkerType DEF PlanDone, Moved, Place, Settled
  <2> QED BY <1>3, <2>1, <2>2, <2>3, <2>4, <2>5, <2>6, <2>7, <2>8, <2>9 DEF Work
<1>4. ASSUME NEW w \in strays, StrayLands(w) PROVE TypeOK'
  <2>1. w \in Write /\ (w.kind # "delete" => w.text \in Text)
    BY DEF TypeOK, AddsOK
  <2> QED BY <1>4, <2>1, LandedType DEF StrayLands
<1>5. ASSUME NEW x \in touches, TouchLands(x) PROVE TypeOK'
  <2>1. torn' \subseteq Mem
    BY <1>5 DEF TouchLands, LiveIds
  <2> QED BY <1>5, <2>1, TouchedType DEF TouchLands
<1>6. CASE Recall
  <2>1. \A q \in Text : Hits(q, 60) \subseteq LiveIds
    BY DEF Hits
  <2>2. touches' \subseteq [mem: Mem, category: Category, importance: 1..5]
    BY <1>6, <2>1, TouchesType DEF Recall
  <2> QED BY <1>6, <2>2, BoundAssumption DEF Recall
<1>7. CASE Close
  <2>1. Interrupted(turn) \in [Exchange -> Place]
    BY InterruptedType DEF Place
  <2>2. turn' \in [Exchange -> Place] /\ worker' \in [Worker -> WorkerState]
    BY <1>7, <2>1, TakeBufferType DEF Close, Worker
  <2>3. stops' \in 0..MaxStops
    BY <1>7, BoundAssumption DEF Close
  <2> QED BY <1>7, <2>2, <2>3, StrayType DEF Close
<1>8. CASE Exit \/ Crash
  <2>1. turn' \in [Exchange -> Place] /\ worker' \in [Worker -> WorkerState]
    BY <1>8, IdleType DEF Exit, Crash, Ended, Moved, Place
  <2>2. torn' \subseteq Mem
    BY <1>8 DEF Exit, Crash, Ended, Unremembered
  <2>3. stops' \in 0..MaxStops
    BY <1>8, BoundAssumption DEF Exit, Crash, Ended
  <2> QED BY <1>8, <2>1, <2>2, <2>3 DEF Exit, Crash, Ended
<1>9. CASE Start \/ UNCHANGED vars
  BY <1>9 DEF Start, vars, TypeOK
<1> QED BY <1>1, <1>2, <1>3, <1>4, <1>5, <1>6, <1>7, <1>8, <1>9 DEF Next

-----------------------------------------------------------------------------
(* Workers and what they write.                                             *)

\* A step of worker k is a step of nobody else.
LEMMA WorkFrame ==
    ASSUME TypeOK, NEW k \in Worker, Work(k)
    PROVE  /\ worker[k].phase \notin {"idle", "cooldown"}
           /\ engine' = engine /\ strays' = strays
           /\ \A l \in Worker \ {k} : worker'[l] = worker[l]
BY DEF TypeOK, Work, Retrieve, Extract, ExtractionFails, NextOperation, Seek, WriteDone, Remember,
       RememberFails, PlanDone, Onward

LEMMA WorkStep == TypeOK /\ WorkOK /\ [Next]_vars => WorkOK'
<1> SUFFICES ASSUME TypeOK, WorkOK, [Next]_vars PROVE WorkOK'
  OBVIOUS
<1>0. \A k \in Worker : Consistent(k)
  BY DEF WorkOK
<1>1. ASSUME NEW e \in Exchange, RecordTurn(e) PROVE WorkOK'
  BY <1>1 DEF RecordTurn, WorkOK, Consistent, In, Idle, TypeOK, Worker
<1>2. CASE CooldownOver
  BY <1>2 DEF CooldownOver, TakeBuffer, WorkOK, Consistent, In, Idle, TypeOK, Worker
<1>3. ASSUME NEW k \in Worker, Work(k) PROVE WorkOK'
  <2>0. /\ engine # "closing" => worker'["flush"].phase = "idle"
        /\ engine' = engine
        /\ \A l \in Worker \ {k} : Consistent(l)'
    BY <1>0, <1>3, WorkFrame DEF WorkOK, Consistent, Worker
  <2> SUFFICES Consistent(k)'
    BY <2>0 DEF WorkOK
  <2>1. CASE Retrieve(k) \/ Extract(k) \/ ExtractionFails(k) \/ RememberFails(k) \/ PlanDone(k)
    <3>1. worker'[k].phase \in {"extract", "plan", "idle"}
      BY <2>1 DEF Retrieve, Extract, ExtractionFails, RememberFails, PlanDone, Idle, TypeOK, WorkerState
    <3> QED BY <3>1 DEF Consistent
  <2>2. CASE NextOperation(k)
    <3>1. PICK o \in Op :
            \/ worker' = [worker EXCEPT ![k].ops = @ + 1]
            \/ /\ ~Skipped(o)
               /\ worker' = [worker EXCEPT ![k] =
                                [In("seek") EXCEPT !.op = o, !.ops = worker[k].ops + 1]]
            \/ /\ ~Skipped(o) /\ o.op # "CREATE" /\ o.memory_id # NoMem
               /\ worker' = [worker EXCEPT ![k] =
                    [phase |-> "write", op |-> o, ops |-> @.ops + 1,
                     write |-> WriteOf(Change(o), o.memory_id, o)]]
      BY <2>2 DEF NextOperation
    <3>2. worker[k].phase = "plan"
      BY <2>2 DEF NextOperation
    <3>3. o.memory_id # NoMem => WriteOf(Change(o), o.memory_id, o) \in Write
      BY OpAssumption DEF WriteOf, Change, Write, MemoryOperation
    <3>4. CASE worker' = [worker EXCEPT ![k].ops = @ + 1]
      BY <3>2, <3>4 DEF Consistent, TypeOK
    <3>5. CASE /\ ~Skipped(o)
               /\ worker' = [worker EXCEPT ![k] =
                                [In("seek") EXCEPT !.op = o, !.ops = worker[k].ops + 1]]
      BY <3>5 DEF Consistent, TypeOK, In, Idle
    <3>6. CASE /\ ~Skipped(o) /\ o.op # "CREATE" /\ o.memory_id # NoMem
               /\ worker' = [worker EXCEPT ![k] =
                    [phase |-> "write", op |-> o, ops |-> @.ops + 1,
                     write |-> WriteOf(Change(o), o.memory_id, o)]]
      BY <3>3, <3>6 DEF Consistent, TypeOK, WriteOf, Change
    <3> QED BY <3>1, <3>4, <3>5, <3>6
  <2>3. CASE Seek(k)
    <3> DEFINE o == worker[k].op
    <3>0. o \in Op /\ o \in MemoryOperation /\ ~Skipped(o)
      BY <1>0, <2>3, OpAssumption DEF Seek, Consistent
    <3>1. ASSUME NEW m \in Mem, NEW kind \in {Change(o), "add"},
                 kind = "add" => o.op # "DELETE",
                 worker' = [worker EXCEPT ![k].phase = "write", ![k].write = WriteOf(kind, m, o)]
          PROVE  Consistent(k)'
      <4>1. WriteOf(kind, m, o) \in Write
        BY <3>0 DEF WriteOf, Change, Write, MemoryOperation
      <4>2. kind = "delete" <=> o.op = "DELETE"
        BY <3>1 DEF Change
      <4>3. worker'[k] = [worker[k] EXCEPT !.phase = "write", !.write = WriteOf(kind, m, o)]
        BY <3>1 DEF TypeOK
      <4>4. worker'[k].phase = "write" /\ worker'[k].op = o /\ worker'[k].write = WriteOf(kind, m, o)
        BY <4>3 DEF TypeOK, WorkerState
      <4> QED BY <3>0, <4>1, <4>2, <4>4 DEF Consistent, WriteOf
    <3>2. CASE \E m \in Best(o.text, Threshold(o)) :
              worker' = [worker EXCEPT ![k].phase = "write", ![k].write = WriteOf(Change(o), m, o)]
      BY <3>1, <3>2 DEF Best, Hits, LiveIds, Change
    <3>3. CASE /\ o.op # "DELETE"
               /\ \E m \in Fresh :
                     worker' = [worker EXCEPT ![k].phase = "write", ![k].write = WriteOf("add", m, o)]
      BY <3>1, <3>3 DEF Fresh
    <3>4. CASE Onward(k, After(o)) /\ worker[k].phase = "seek"
      <4>1. NoWrite \notin Write /\ worker[k].write = NoWrite
        BY <1>0, <3>4, MemAssumption DEF NoWrite, Write, Consistent
      <4>2. CASE After(o) = "plan"
        BY <3>4, <4>2 DEF Onward, Consistent, In, Idle, TypeOK
      <4>3. CASE After(o) = "remember"
        <5>1. worker'[k] = [worker[k] EXCEPT !.phase = "remember"]
          BY <3>4, <4>3 DEF Onward, TypeOK
        <5>2. worker'[k].phase = "remember" /\ worker'[k].op = o /\ worker'[k].write = NoWrite
          BY <4>1, <5>1 DEF TypeOK, WorkerState
        <5> QED BY <3>0, <4>1, <4>3, <5>2 DEF Consistent
      <4> QED BY <4>2, <4>3 DEF After
    <3> QED BY <2>3, <3>2, <3>3, <3>4 DEF Seek
  <2>4. CASE WriteDone(k)
    BY <1>0, <2>4 DEF WriteDone, Onward, After, Consistent, In, Idle, TypeOK, WorkerState
  <2>5. CASE Remember(k)
    BY <2>5 DEF Remember, Onward, Consistent, In, Idle, TypeOK
  <2> QED BY <1>3, <2>1, <2>2, <2>3, <2>4, <2>5 DEF Work
<1>4. ASSUME NEW w \in strays, StrayLands(w) PROVE WorkOK'
  BY <1>4 DEF StrayLands, WorkOK, Consistent
<1>5. ASSUME NEW x \in touches, TouchLands(x) PROVE WorkOK'
  BY <1>5 DEF TouchLands, WorkOK, Consistent
<1>6. CASE Recall
  BY <1>6 DEF Recall, WorkOK, Consistent
<1>7. CASE Close
  <2>1. engine' = "closing"
    BY <1>7 DEF Close
  <2>2. worker'["timer"] = Idle /\ worker'["flush"] \in {worker["flush"], In("retrieve")}
    BY <1>7 DEF Close, TakeBuffer, TypeOK, Worker
  <2>3. Consistent("timer")' /\ Consistent("flush")'
    BY <1>0, <2>2 DEF Consistent, In, Idle, Worker
  <2> QED BY <2>1, <2>3 DEF WorkOK, Worker
<1>8. CASE Exit \/ Crash
  BY <1>8 DEF Exit, Crash, Ended, WorkOK, Consistent, Idle, Worker
<1>9. CASE Start \/ UNCHANGED vars
  BY <1>9 DEF Start, vars, WorkOK, Consistent
<1> QED BY <1>1, <1>2, <1>3, <1>4, <1>5, <1>6, <1>7, <1>8, <1>9 DEF Next

\* What a write changes: the memory it is about, and never one that is deleted.
LEMMA LandedAt ==
    ASSUME TypeOK, NEW w \in Write
    PROVE  /\ \A m \in Mem : m # w.mem => Landed(w)[m] = store[m]
           /\ w.kind # "add" /\ w.mem \notin LiveIds => Landed(w) = store
<1>1. w.mem \in Mem
  BY DEF Write
<1> QED BY <1>1 DEF Landed, TypeOK, Write

LEMMA Unlike == /\ \A x \in Live : x # Never /\ x # Gone
                /\ Never # Gone /\ Never.state # "live" /\ Gone.state # "live"
BY DEF Live, Never, Gone

\* Nothing new is on its way and no memory under way appears in the store.
LEMMA AddsKept ==
    ASSUME AddsOK, strays' \subseteq strays, torn \subseteq torn',
           \A k \in Worker : worker'[k].phase = "write" =>
               worker'[k].write.kind # "add" \/ worker'[k] = worker[k],
           \A m \in Mem : store[m] = Never => store'[m] = Never,
           TypeOK, WorkOK
    PROVE  AddsOK'
<1>1. \A k \in Worker : Adds(k)' => Adds(k) /\ worker'[k].write = worker[k].write
  BY DEF Adds
<1>2. \A k \in Worker : Adds(k) => worker[k].write.mem \in Mem
  BY DEF Adds, WorkOK, Consistent, Write
<1>3. \A w \in strays : w.mem \in Mem
  BY DEF TypeOK, Write
<1> QED BY <1>1, <1>2, <1>3 DEF AddsOK

\* The debounce task is cancelled, and may leave its write behind.
LEMMA AddsCancelled ==
    ASSUME TypeOK, WorkOK, AddsOK, CancelTimer, store' = store,
           worker'["timer"].phase # "write",
           worker'["flush"] = worker["flush"] \/ worker'["flush"].phase # "write"
    PROVE  AddsOK'
<1> DEFINE w0 == worker["timer"].write
<1>1. \A w \in strays' : w \in strays \/ (worker["timer"].phase = "write" /\ w = w0)
  BY DEF CancelTimer, Strays
<1>2. CASE worker["timer"].phase = "write"
  <2>1. w0 \in Write /\ (w0.kind # "delete" => w0.text \in Text)
    BY <1>2, WorkerWrite DEF Worker
  <2>2. w0.mem \in torn' /\ torn \subseteq torn'
    BY <1>2, <2>1 DEF CancelTimer, Unremembered, Write
  <2>3. w0.kind = "add" => Adds("timer")
    BY <1>2 DEF Adds
  <2>4. \A k \in Worker : Adds(k)' => k = "flush" /\ Adds(k) /\ worker'[k].write = worker[k].write
    BY DEF Adds, Worker
  <2>5. "timer" \in Worker /\ "flush" \in Worker /\ "timer" # "flush"
    BY DEF Worker
  <2> QED BY <1>1, <2>1, <2>2, <2>3, <2>4, <2>5 DEF AddsOK
<1>3. CASE worker["timer"].phase # "write"
  <2>1. strays' \subseteq strays /\ torn \subseteq torn'
    BY <1>1, <1>3 DEF CancelTimer
  <2>2. \A k \in Worker : worker'[k].phase = "write" => worker'[k] = worker[k]
    BY DEF Worker
  <2> QED BY <2>1, <2>2, AddsKept
<1> QED BY <1>2, <1>3

LEMMA AddsStep == TypeOK /\ WorkOK /\ AddsOK /\ [Next]_vars => AddsOK'
<1> SUFFICES ASSUME TypeOK, WorkOK, AddsOK, [Next]_vars PROVE AddsOK'
  OBVIOUS
<1>1. ASSUME NEW e \in Exchange, RecordTurn(e) PROVE AddsOK'
  <2>1. worker'["timer"].phase = "cooldown" /\ worker'["flush"] = worker["flush"]
    BY <1>1 DEF RecordTurn, In, Idle, TypeOK, Worker
  <2> QED BY <1>1, <2>1, AddsCancelled DEF RecordTurn
<1>2. CASE CooldownOver
  <2>1. worker'["timer"].phase # "write" /\ worker'["flush"] = worker["flush"]
    BY <1>2 DEF CooldownOver, TakeBuffer, In, Idle, TypeOK, Worker
  <2>2. \A k \in Worker : worker'[k].phase = "write" => worker'[k] = worker[k]
    BY <2>1 DEF Worker
  <2> QED BY <1>2, <2>2, AddsKept DEF CooldownOver
<1>3. ASSUME NEW k \in Worker, Work(k) PROVE AddsOK'
  <2>0. strays' = strays /\ \A l \in Worker \ {k} : worker'[l] = worker[l]
    BY <1>3, WorkFrame
  <2>1. CASE Retrieve(k) \/ Extract(k) \/ ExtractionFails(k) \/ Remember(k) \/ RememberFails(k) \/ PlanDone(k)
    <3>1. worker'[k].phase # "write"
      <4>1. CASE Retrieve(k) \/ Extract(k)
        BY <4>1 DEF Retrieve, Extract, TypeOK, WorkerState
      <4>2. CASE ExtractionFails(k) \/ RememberFails(k) \/ PlanDone(k)
        BY <4>2 DEF ExtractionFails, RememberFails, PlanDone, Idle, TypeOK
      <4>3. CASE Remember(k)
        BY <4>3 DEF Remember, Onward, In, Idle, TypeOK
      <4> QED BY <2>1, <4>1, <4>2, <4>3
    <3>2. torn \subseteq torn' /\ store' = store
      BY <2>1 DEF Retrieve, Extract, ExtractionFails, Remember, RememberFails, PlanDone
    <3> QED BY <2>0, <3>1, <3>2, AddsKept
  <2>2. CASE NextOperation(k)
    <3>1. worker'[k].phase = "write" => worker'[k].write.kind # "add"
      <4>1. PICK o \in Op :
              \/ worker' = [worker EXCEPT ![k].ops = @ + 1]
              \/ worker' = [worker EXCEPT ![k] =
                                [In("seek") EXCEPT !.op = o, !.ops = worker[k].ops + 1]]
              \/ worker' = [worker EXCEPT ![k] =
                    [phase |-> "write", op |-> o, ops |-> @.ops + 1,
                     write |-> WriteOf(Change(o), o.memory_id, o)]]
        BY <2>2 DEF NextOperation
      <4>2. CASE worker' = [worker EXCEPT ![k].ops = @ + 1]
        BY <2>2, <4>2 DEF NextOperation, TypeOK, WorkerState
      <4>3. CASE worker' = [worker EXCEPT ![k] =
                                [In("seek") EXCEPT !.op = o, !.ops = worker[k].ops + 1]]
        BY <4>3 DEF In, Idle, TypeOK
      <4>4. CASE worker' = [worker EXCEPT ![k] =
                    [phase |-> "write", op |-> o, ops |-> @.ops + 1,
                     write |-> WriteOf(Change(o), o.memory_id, o)]]
        BY <4>4 DEF WriteOf, Change, TypeOK
      <4> QED BY <4>1, <4>2, <4>3, <4>4
    <3>2. torn \subseteq torn' /\ store' = store
      BY <2>2 DEF NextOperation
    <3> QED BY <2>0, <3>1, <3>2, AddsKept
  <2>3. CASE Seek(k)
    <3> DEFINE o == worker[k].op
    <3>0. torn \subseteq torn' /\ store' = store
      BY <2>3 DEF Seek
    <3>1. CASE \E m \in Best(o.text, Threshold(o)) :
              worker' = [worker EXCEPT ![k].phase = "write", ![k].write = WriteOf(Change(o), m, o)]
      <4>1. worker'[k].write.kind # "add"
        BY <3>1 DEF WriteOf, Change, TypeOK, WorkerState
      <4> QED BY <2>0, <3>0, <4>1, AddsKept
    <3>2. CASE \E m \in Fresh :
              worker' = [worker EXCEPT ![k].phase = "write", ![k].write = WriteOf("add", m, o)]
      <4>1. PICK m \in Fresh :
              worker' = [worker EXCEPT ![k].phase = "write", ![k].write = WriteOf("add", m, o)]
        BY <3>2
      <4>2. worker'[k].write.mem = m
        BY <4>1 DEF WriteOf, TypeOK, WorkerState
      <4>3. /\ m \in Mem /\ store[m] = Never
            /\ \A w \in strays : w.mem # m
            /\ \A l \in Worker : worker[l].write.mem # m
        BY DEF Fresh
      <4>4. \A l \in Worker \ {k} : Adds(l)' => Adds(l) /\ worker'[l].write = worker[l].write
        BY <2>0 DEF Adds
      <4>5. torn' = torn
        BY <2>3 DEF Seek
      <4> QED BY <2>0, <3>0, <4>2, <4>3, <4>4, <4>5 DEF AddsOK
    <3>3. CASE Onward(k, After(o))
      <4>1. worker'[k].phase # "write"
        BY <3>3 DEF Onward, After, In, Idle, TypeOK, WorkerState
      <4> QED BY <2>0, <3>0, <4>1, AddsKept
    <3> QED BY <2>3, <3>1, <3>2, <3>3 DEF Seek
  <2>4. CASE WriteDone(k)
    <3> DEFINE w0 == worker[k].write
    <3>1. w0 \in Write /\ w0.mem \in Mem
      BY <2>4, WorkerWrite DEF WriteDone, Write
    <3>2. worker'[k].phase # "write"
      BY <2>4 DEF WriteDone, Onward, After, In, Idle, TypeOK, WorkerState
    <3>3. CASE store' = store
      BY <2>0, <2>4, <3>2, <3>3, AddsKept DEF WriteDone
    <3>4. CASE store' = Landed(w0) /\ w0.kind # "add"
      <4>1. \A m \in Mem : store[m] = Never => m \notin LiveIds
        BY Unlike DEF LiveIds
      <4>2. \A m \in Mem : store[m] = Never => store'[m] = Never
        BY <3>1, <3>4, <4>1, LandedAt
      <4> QED BY <2>0, <2>4, <3>2, <4>2, AddsKept DEF WriteDone
    <3>5. CASE store' = Landed(w0) /\ w0.kind = "add"
      <4>1. \A m \in Mem : m # w0.mem => store'[m] = store[m]
        BY <3>1, <3>5, LandedAt
      <4>2. Adds(k)
        BY <2>4, <3>5 DEF WriteDone, Adds
      <4>3. \A l \in Worker : Adds(l)' => l # k /\ Adds(l) /\ worker'[l].write = worker[l].write
        BY <2>0, <3>2 DEF Adds
      <4>4. \A l \in Worker : Adds(l) => worker[l].write.mem \in Mem
        BY DEF Adds, WorkOK, Consistent, Write
      <4>5. \A w \in strays : w.mem \in Mem
        BY DEF TypeOK, Write
      <4>6. torn' = torn
        BY <2>4 DEF WriteDone
      <4> QED BY <2>0, <4>1, <4>2, <4>3, <4>4, <4>5, <4>6 DEF AddsOK
    <3> QED BY <2>4, <3>3, <3>4, <3>5 DEF WriteDone
  <2> QED BY <1>3, <2>1, <2>2, <2>3, <2>4 DEF Work
<1>4. ASSUME NEW w0 \in strays, StrayLands(w0) PROVE AddsOK'
  <2>1. w0 \in Write /\ w0.mem \in Mem
    BY DEF TypeOK, Write
  <2>2. strays' \subseteq strays /\ torn' = torn /\ worker' = worker
    BY <1>4 DEF StrayLands
  <2>3. CASE store' = store
    BY <2>2, <2>3, AddsKept
  <2>4. CASE store' = Landed(w0) /\ w0.kind # "add"
    <3>1. \A m \in Mem : store[m] = Never => m \notin LiveIds
      BY Unlike DEF LiveIds
    <3>2. \A m \in Mem : store[m] = Never => store'[m] = Never
      BY <2>1, <2>4, <3>1, LandedAt
    <3> QED BY <2>2, <3>2, AddsKept
  <2>5. CASE store' = Landed(w0) /\ w0.kind = "add"
    <3>1. \A m \in Mem : m # w0.mem => store'[m] = store[m]
      BY <2>1, <2>5, LandedAt
    <3>2. \A w \in strays' : w \in strays /\ w # w0
      BY <1>4 DEF StrayLands
    <3>3. \A l \in Worker : Adds(l) => worker[l].write.mem \in Mem
      BY DEF Adds, WorkOK, Consistent, Write
    <3>4. \A w \in strays : w.mem \in Mem
      BY DEF TypeOK, Write
    <3>5. \A l \in Worker : Adds(l)' <=> Adds(l)
      BY <2>2 DEF Adds
    <3> QED BY <2>2, <2>5, <3>1, <3>2, <3>3, <3>4, <3>5 DEF AddsOK
  <2> QED BY <1>4, <2>3, <2>4, <2>5 DEF StrayLands
<1>5. ASSUME NEW x \in touches, TouchLands(x) PROVE AddsOK'
  <2>1. \A m \in Mem : store[m] = Never => store'[m] = Never
    BY <1>5, Unlike DEF TouchLands, Touched, LiveIds, TypeOK
  <2> QED BY <1>5, <2>1, AddsKept DEF TouchLands
<1>6. CASE Recall
  BY <1>6, AddsKept DEF Recall
<1>7. CASE Close
  <2>1. worker'["timer"].phase # "write"
        /\ (worker'["flush"] = worker["flush"] \/ worker'["flush"].phase # "write")
    BY <1>7 DEF Close, TakeBuffer, In, Idle, TypeOK, Worker
  <2> QED BY <1>7, <2>1, AddsCancelled DEF Close
<1>8. CASE Exit \/ Crash
  <2>1. \A k \in Worker : worker'[k].phase # "write"
    BY <1>8 DEF Exit, Crash, Ended, Idle
  <2>2. strays' = {}
    BY <1>8 DEF Exit, Crash, Ended
  <2> QED BY <2>1, <2>2 DEF AddsOK, Adds
<1>9. CASE Start \/ UNCHANGED vars
  BY <1>9, AddsKept DEF Start, vars
<1> QED BY <1>1, <1>2, <1>3, <1>4, <1>5, <1>6, <1>7, <1>8, <1>9 DEF Next

-----------------------------------------------------------------------------
(* The profile.                                                             *)

\* The stores stay as they are, and whoever is about to remember still is, or is
\* cut off.
LEMMA KnownKept ==
    ASSUME TypeOK, KnownOK, store' = store, profile' = profile, torn \subseteq torn',
           \A k \in Worker : worker[k].phase = "remember" =>
               worker'[k] = worker[k] \/ Unremembered(k) \subseteq torn'
    PROVE  KnownOK'
<1> SUFFICES ASSUME NEW m \in LiveIds' \ torn', store'[m].category = "PREFERENCE",
                    Keyed(store[m].text), profile[Slug[store[m].text]] = NoText
             PROVE  \E k \in Worker : /\ worker'[k].phase = "remember" /\ worker'[k].write.mem = m
                                      /\ worker'[k].write.text = store'[m].text
  BY DEF KnownOK
<1>1. m \in LiveIds \ torn /\ m \in Mem
  BY DEF LiveIds
<1>2. PICK k \in Worker : /\ worker[k].phase = "remember" /\ worker[k].write.mem = m
                          /\ worker[k].write.text = store[m].text
  BY <1>1 DEF KnownOK
<1>3. m \in Unremembered(k)
  BY <1>1, <1>2 DEF Unremembered
<1> QED BY <1>2, <1>3

LEMMA KnownStep == TypeOK /\ WorkOK /\ AddsOK /\ KnownOK /\ [Next]_vars => KnownOK'
<1> SUFFICES ASSUME TypeOK, WorkOK, AddsOK, KnownOK, [Next]_vars PROVE KnownOK'
  OBVIOUS
<1>1. ASSUME NEW e \in Exchange, RecordTurn(e) PROVE KnownOK'
  <2>1. worker'["flush"] = worker["flush"]
    BY <1>1 DEF RecordTurn, TypeOK, Worker
  <2> QED BY <1>1, <2>1, KnownKept DEF RecordTurn, CancelTimer, Worker
<1>2. CASE CooldownOver
  <2>1. worker["timer"].phase # "remember" /\ worker'["flush"] = worker["flush"]
    BY <1>2 DEF CooldownOver, TakeBuffer, TypeOK, Worker
  <2> QED BY <1>2, <2>1, KnownKept DEF CooldownOver, Worker
<1>3. ASSUME NEW k \in Worker, Work(k) PROVE KnownOK'
  <2>0. \A l \in Worker \ {k} : worker'[l] = worker[l]
    BY <1>3, WorkFrame
  <2>1. CASE \/ Retrieve(k) \/ Extract(k) \/ ExtractionFails(k) \/ NextOperation(k)
             \/ Seek(k) \/ PlanDone(k)
    <3>1. worker[k].phase # "remember" /\ store' = store /\ profile' = profile /\ torn' = torn
      BY <2>1 DEF Retrieve, Extract, ExtractionFails, NextOperation, Seek, PlanDone
    <3> QED BY <2>0, <3>1, KnownKept
  <2>2. CASE RememberFails(k)
    BY <2>0, <2>2, KnownKept DEF RememberFails
  <2>3. CASE WriteDone(k)
    <3> DEFINE w0 == worker[k].write
               o == worker[k].op
    <3>1. /\ w0 \in Write /\ w0.mem \in Mem /\ w0.text = o.text /\ w0.category = o.category
          /\ (w0.kind = "delete" <=> o.op = "DELETE")
      BY <2>3, WorkerWrite DEF WriteDone, Write
    <3>2. profile' = profile /\ torn' = torn /\ worker[k].phase = "write"
      BY <2>3 DEF WriteDone
    <3>3. CASE store' = store
      BY <2>0, <3>2, <3>3, KnownKept
    <3>4. CASE store' = Landed(w0)
      <4> SUFFICES ASSUME NEW m \in LiveIds' \ torn', store'[m].category = "PREFERENCE",
                          Keyed(store'[m].text), profile'[Slug[store'[m].text]] = NoText
                   PROVE  \E l \in Worker : /\ worker'[l].phase = "remember" /\ worker'[l].write.mem = m
                                            /\ worker'[l].write.text = store'[m].text
        BY DEF KnownOK
      <4>0. m \in Mem /\ store'[m].state = "live"
        BY DEF LiveIds
      <4>1. CASE store'[m] = store[m]
        <5>1. m \in LiveIds \ torn
          BY <3>2, <4>0, <4>1 DEF LiveIds
        <5>2. PICK l \in Worker : /\ worker[l].phase = "remember" /\ worker[l].write.mem = m
                                  /\ worker[l].write.text = store[m].text
          BY <3>2, <4>1, <5>1 DEF KnownOK
        <5>3. l # k
          BY <3>2, <5>2
        <5> QED BY <2>0, <4>1, <5>2, <5>3
      <4>2. CASE store'[m] # store[m]
        <5>1. m = w0.mem
          BY <3>1, <3>4, <4>0, <4>2, LandedAt
        <5>2. CASE w0.kind = "delete"
          BY <3>1, <3>4, <4>0, <4>2, <5>1, <5>2, Unlike DEF Landed, TypeOK
        <5>3. CASE w0.kind # "delete"
          <6>1. store'[m].text = w0.text /\ store'[m].category = w0.category
            BY <3>1, <3>4, <4>0, <4>2, <5>1, <5>3 DEF Landed, TypeOK, Write
          <6>2. After(o) = "remember"
            BY <3>1, <5>3, <6>1 DEF After
          <6>3. worker' = [worker EXCEPT ![k].phase = "remember"]
            BY <2>3, <6>2 DEF WriteDone, Onward, TypeOK
          <6>4. worker'[k].phase = "remember" /\ worker'[k].write = w0
            BY <6>3 DEF TypeOK, WorkerState
          <6> QED BY <5>1, <6>1, <6>4
        <5> QED BY <5>2, <5>3
      <4> QED BY <4>1, <4>2
    <3> QED BY <2>3, <3>3, <3>4 DEF WriteDone
  <2>4. CASE Remember(k)
    <3> DEFINE o == worker[k].op
    <3>1. /\ o.text \in Text /\ Slug[o.text] \in Key
          /\ worker[k].write \in Write => worker[k].write.text = o.text
      <4>1. /\ o \in MemoryOperation /\ ~Skipped(o) /\ After(o) = "remember"
            /\ worker[k].write \in Write => worker[k].write.text = o.text
        <5>1. worker[k].phase = "remember" /\ Consistent(k)
          BY <2>4 DEF Remember, WorkOK
        <5>2. worker[k].write \in Write =>
                worker[k].write = WriteOf(worker[k].write.kind, worker[k].write.mem, o)
          BY <5>1 DEF Consistent
        <5>3. worker[k].write \in Write => worker[k].write.text = o.text
          BY <5>2 DEF WriteOf
        <5>4. o \in Op /\ ~Skipped(o) /\ After(o) = "remember"
          BY <5>1 DEF Consistent
        <5> QED BY <5>3, <5>4, OpAssumption
      <4> QED BY <4>1, RememberedKey
    <3>2. profile' = [profile EXCEPT ![Slug[o.text]] = o.text] /\ store' = store /\ torn' = torn
      BY <2>4 DEF Remember
    <3>3. o.text # NoText
      BY <3>1, MemAssumption
    <3>4. profile'[Slug[o.text]] # NoText
      BY <3>1, <3>2, <3>3 DEF TypeOK
    <3>5. \A i \in Key : profile[i] # NoText => profile'[i] # NoText
      BY <3>1, <3>2, <3>3 DEF TypeOK
    <3> SUFFICES ASSUME NEW m \in LiveIds' \ torn', store'[m].category = "PREFERENCE",
                        Keyed(store'[m].text), profile'[Slug[store'[m].text]] = NoText
                 PROVE  \E l \in Worker : /\ worker'[l].phase = "remember" /\ worker'[l].write.mem = m
                                          /\ worker'[l].write.text = store'[m].text
      BY DEF KnownOK
    <3>6. m \in LiveIds \ torn /\ m \in Mem /\ store[m] \in Live
      BY <3>2, Unlike DEF LiveIds, TypeOK
    <3>7. Slug[store[m].text] \in Key /\ Keyed(store[m].text)
      BY <3>2, <3>6, KeyOfText DEF Live
    <3>8. profile[Slug[store[m].text]] = NoText
      BY <3>2, <3>5, <3>7
    <3>9. PICK l \in Worker : /\ worker[l].phase = "remember" /\ worker[l].write.mem = m
                              /\ worker[l].write.text = store[m].text
      BY <3>2, <3>6, <3>8 DEF KnownOK
    <3>10. CASE l = k
      <4>1. worker[k].write \in Write \cup {NoWrite}
        BY <2>4 DEF Remember, WorkOK, Consistent
      <4>2. worker[k].write \in Write
        BY <3>6, <3>9, <3>10, <4>1, MemAssumption DEF NoWrite
      <4> QED BY <3>1, <3>2, <3>4, <3>9, <3>10, <4>2
    <3>11. CASE l # k
      BY <2>0, <3>2, <3>9, <3>11
    <3> QED BY <3>10, <3>11
  <2> QED BY <1>3, <2>1, <2>2, <2>3, <2>4 DEF Work
<1>4. ASSUME NEW w0 \in strays, StrayLands(w0) PROVE KnownOK'
  <2>1. w0 \in Write /\ w0.mem \in torn
    BY DEF TypeOK, AddsOK
  <2>2. /\ profile' = profile /\ torn' = torn /\ worker' = worker
        /\ store' = store \/ store' = Landed(w0)
    BY <1>4 DEF StrayLands
  <2>3. \A m \in Mem \ torn : store'[m] = store[m]
    BY <2>1, <2>2, LandedAt
  <2>4. LiveIds' \ torn = LiveIds \ torn
    BY <2>3 DEF LiveIds
  <2>5. \A m \in LiveIds \ torn : store'[m] = store[m]
    BY <2>3 DEF LiveIds
  <2> QED BY <2>2, <2>4, <2>5 DEF KnownOK
<1>5. ASSUME NEW x \in touches, TouchLands(x) PROVE KnownOK'
  <2>1. profile' = profile /\ torn \subseteq torn' /\ worker' = worker
    BY <1>5 DEF TouchLands
  <2>2. CASE store' = store
    BY <2>1, <2>2, KnownKept
  <2>3. CASE /\ store' = Touched(x)
             /\ torn' = torn \cup {m \in LiveIds : m = x.mem /\ store[m].category # x.category}
    <3>1. LiveIds' \subseteq LiveIds
      BY <2>3, Unlike DEF Touched, LiveIds, TypeOK
    <3>2. \A m \in LiveIds \ torn' : /\ store'[m].text = store[m].text
                                     /\ store'[m].category = store[m].category
      <4> SUFFICES ASSUME NEW m \in LiveIds \ torn'
                   PROVE  store'[m].text = store[m].text /\ store'[m].category = store[m].category
        OBVIOUS
      <4>1. m \in Mem /\ store[m] \in Live
        BY Unlike DEF LiveIds, TypeOK
      <4>2. CASE m # x.mem
        BY <2>3, <4>1, <4>2 DEF Touched, TypeOK
      <4>3. CASE m = x.mem
        <5>1. store[m].category = x.category
          BY <2>3, <4>3
        <5>2. store'[m] = [store[m] EXCEPT !.category = x.category, !.importance = x.importance]
          BY <2>3, <4>1, <4>3 DEF Touched, TypeOK
        <5> QED BY <4>1, <5>1, <5>2 DEF Live
      <4> QED BY <4>2, <4>3
    <3> QED BY <2>1, <3>1, <3>2 DEF KnownOK
  <2> QED BY <1>5, <2>2, <2>3 DEF TouchLands
<1>6. CASE Recall
  BY <1>6, KnownKept DEF Recall
<1>7. CASE Close
  <2>1. worker["flush"].phase # "remember"
    BY <1>7 DEF Close, WorkOK
  <2> QED BY <1>7, <2>1, KnownKept DEF Close, CancelTimer, Worker
<1>8. CASE Exit \/ Crash
  BY <1>8, KnownKept DEF Exit, Crash, Ended, Worker
<1>9. CASE Start \/ UNCHANGED vars
  BY <1>9, KnownKept DEF Start, vars
<1> QED BY <1>1, <1>2, <1>3, <1>4, <1>5, <1>6, <1>7, <1>8, <1>9 DEF Next

-----------------------------------------------------------------------------
(* What holds of every behaviour.                                           *)

LEMMA InitInv == Init => MemInv
<1> SUFFICES ASSUME Init PROVE MemInv
  OBVIOUS
<1>1. TypeOK
  BY IdleType, BoundAssumption DEF Init, TypeOK, Place
<1>2. WorkOK /\ AddsOK
  BY <1>1 DEF Init, WorkOK, Consistent, AddsOK, Adds, Idle, Worker
<1>3. KnownOK
  BY DEF Init, KnownOK, LiveIds, Never
<1> QED BY <1>1, <1>2, <1>3 DEF MemInv

LEMMA InvStep == MemInv /\ [Next]_vars => MemInv'
BY TypeStep, WorkStep, AddsStep, KnownStep DEF MemInv

(* Every variable keeps its type: buffers, tasks, stores and what is under way. *)
THEOREM TypeCorrect == Spec => []TypeOK
BY InitInv, InvStep, PTL DEF Spec, MemInv

(* The inductive invariant: a task's operation and write belong together, an    *)
(* identifier on its way to the store is in one hand only, the profile knows    *)
(* the preferences.                                                             *)
THEOREM InvariantHolds == Spec => []MemInv
BY InitInv, InvStep, PTL DEF Spec

(* The profile has an entry for every preference whose text makes a key and     *)
(* that no failure or stale access time has torn from it.                       *)
THEOREM PreferencesAreKnown == Spec => []PreferencesKnown
<1>1. MemInv => PreferencesKnown
  BY DEF MemInv, KnownOK, PreferencesKnown
<1> QED BY <1>1, InvariantHolds, PTL

LEMMA GoneStays ==
    MemInv /\ [Next]_vars => [\A m \in Mem : store[m] = Gone => store'[m] = Gone]_vars
<1> SUFFICES ASSUME MemInv, [Next]_vars, NEW m \in Mem, store[m] = Gone
             PROVE  store'[m] = Gone
  OBVIOUS
<1>0. TypeOK /\ WorkOK /\ AddsOK /\ m \notin LiveIds
  BY Unlike DEF MemInv, LiveIds
<1>1. ASSUME NEW w \in Write, w.kind = "add" => store[w.mem] = Never
      PROVE  Landed(w)[m] = Gone
  BY <1>0, <1>1, LandedAt, Unlike
<1>2. ASSUME NEW k \in Worker, Work(k) PROVE store'[m] = Gone
  <2>1. CASE WriteDone(k)
    <3>1. worker[k].write \in Write /\ worker[k].phase = "write"
      BY <1>0, <2>1, WorkerWrite DEF WriteDone
    <3>2. worker[k].write.kind = "add" => store[worker[k].write.mem] = Never
      BY <1>0, <3>1 DEF AddsOK, Adds
    <3> QED BY <1>1, <2>1, <3>1, <3>2 DEF WriteDone
  <2>2. CASE ~WriteDone(k)
    BY <1>2, <2>2 DEF Work, Retrieve, Extract, ExtractionFails, NextOperation, Seek, Remember,
                      RememberFails, PlanDone
  <2> QED BY <2>1, <2>2
<1>3. ASSUME NEW w \in strays, StrayLands(w) PROVE store'[m] = Gone
  <2>1. w \in Write /\ (w.kind = "add" => store[w.mem] = Never)
    BY <1>0 DEF TypeOK, AddsOK
  <2> QED BY <1>1, <1>3, <2>1 DEF StrayLands
<1>4. ASSUME NEW x \in touches, TouchLands(x) PROVE store'[m] = Gone
  BY <1>0, <1>4 DEF TouchLands, Touched, TypeOK
<1>5. CASE \/ \E e \in Exchange : RecordTurn(e)
           \/ CooldownOver \/ Recall \/ Close \/ Exit \/ Crash \/ Start \/ UNCHANGED vars
  BY <1>5 DEF RecordTurn, CooldownOver, Recall, Close, Exit, Crash, Ended, Start, vars
<1> QED BY <1>2, <1>3, <1>4, <1>5 DEF Next

(* A deleted memory stays deleted, whatever access times and cancelled writes   *)
(* are still under way.                                                         *)
THEOREM NoMemoryRevives == Spec => NoRevival
BY GoneStays, InvariantHolds, PTL DEF Spec, NoRevival

LEMMA BufferStep ==
    MemInv /\ [Next]_vars =>
        [/\ Buffered \cap {e \in Exchange : turn'[e] = "lost"} # {} => engine' = "down"
         /\ engine = "up" /\ engine' = "closing" =>
                Buffered \subseteq {e \in Exchange : turn'[e] \in {"flush", "trivial"}}]_vars
<1> SUFFICES ASSUME MemInv, Next
             PROVE  /\ \A e \in Buffered : turn'[e] = "lost" => engine' = "down"
                    /\ engine = "up" /\ engine' = "closing" =>
                           \A e \in Buffered : turn'[e] \in {"flush", "trivial"}
  BY DEF vars, Buffered
<1>0. turn \in [Exchange -> Place]
  BY DEF MemInv, TypeOK
<1>1. ASSUME NEW e \in Exchange, RecordTurn(e)
      PROVE  engine' = engine /\ \A f \in Buffered : turn'[f] # "lost"
  BY <1>0, <1>1 DEF RecordTurn, Interrupted, Buffered
<1>2. CASE CooldownOver
  BY <1>0, <1>2 DEF CooldownOver, TakeBuffer, Moved, Buffered
<1>3. ASSUME NEW k \in Worker, Work(k)
      PROVE  engine' = engine /\ \A f \in Buffered : turn'[f] # "lost"
  <2>1. \A f \in Buffered : f \in Exchange /\ turn[f] = "buffered" /\ f \notin Batch(k)
    BY DEF Buffered, Batch, Worker
  <2> QED BY <1>0, <1>3, <2>1 DEF Work, Retrieve, Extract, ExtractionFails, NextOperation, Seek,
             WriteDone, Remember, RememberFails, PlanDone, Moved
<1>4. CASE \/ \E w \in strays : StrayLands(w)
           \/ \E x \in touches : TouchLands(x)
           \/ Recall \/ Start
  BY <1>0, <1>4 DEF StrayLands, TouchLands, Recall, Start, Buffered
<1>5. CASE Close
  BY <1>0, <1>5 DEF Close, TakeBuffer, Moved, Interrupted, Buffered
<1>6. CASE Exit \/ Crash
  BY <1>6 DEF Exit, Crash, Ended
<1> QED BY <1>1, <1>2, <1>3, <1>4, <1>5, <1>6 DEF Next

(* What still waits in the buffer is lost only with the process, and an orderly *)
(* end takes all of it into its last analysis.                                  *)
THEOREM BufferIsKept == Spec => BufferLostOnlyAtEnd
BY BufferStep, InvariantHolds, PTL DEF Spec, BufferLostOnlyAtEnd

-----------------------------------------------------------------------------
(* Refinement.                                                              *)

Held == Batch("timer") \cup Batch("flush")
SettledTurns == {e \in Exchange : turn[e] \in Settled}
Lost == {e \in Exchange : turn[e] = "lost"}

\* The batches in L are given up, the buffer goes with one of them or is settled.
LEMMA TakeRefines ==
    ASSUME turn \in [Exchange -> Place], NEW k \in Worker, NEW L \in SUBSET Held,
           NEW f, f = [e \in Exchange |-> IF e \in L THEN "lost" ELSE turn[e]], TakeBuffer(k, f)
    PROVE  Intake!Take(L)
<1>1. CASE Buffered \cap Substantial = {}
  <2>1. \A e \in Exchange : turn'[e] = IF e \in Buffered THEN "trivial" ELSE f[e]
    BY <1>1 DEF TakeBuffer, Moved
  <2>2. Buffered' = {}
    BY <2>1 DEF Buffered
  <2>3. Held' = Held \ L
    BY <2>1 DEF Held, Batch, Buffered, Worker
  <2>4. SettledTurns' = SettledTurns \cup Buffered /\ Lost' = Lost \cup L
    BY <2>1 DEF SettledTurns, Lost, Buffered, Settled, Held, Batch
  <2> QED BY <2>2, <2>3, <2>4 DEF Intake!Take, Held, SettledTurns, Lost
<1>2. CASE Buffered \cap Substantial # {}
  <2>1. \A e \in Exchange : turn'[e] = IF e \in Buffered THEN k ELSE f[e]
    BY <1>2 DEF TakeBuffer, Moved
  <2>2. Buffered' = {}
    BY <2>1 DEF Buffered, Worker
  <2>3. Held' = (Held \ L) \cup Buffered
    BY <2>1 DEF Held, Batch, Buffered, Worker
  <2>4. SettledTurns' = SettledTurns /\ Lost' = Lost \cup L
    BY <2>1 DEF SettledTurns, Lost, Buffered, Settled, Held, Batch, Worker
  <2> QED BY <2>2, <2>3, <2>4 DEF Intake!Take, Held, SettledTurns, Lost
<1> QED BY <1>1, <1>2

LEMMA RefineStep == MemInv /\ [Next]_vars => [Intake!Next]_(Intake!vars)
<1> SUFFICES ASSUME MemInv, [Next]_vars
             PROVE  Intake!Next \/ UNCHANGED Intake!vars
  OBVIOUS
<1>0. turn \in [Exchange -> Place]
  BY DEF MemInv, TypeOK
<1> USE DEF Held, SettledTurns, Lost
<1>B. \A k \in Worker : Batch(k) \in SUBSET (Batch("timer") \cup Batch("flush"))
  BY DEF Worker
<1>T. "timer" \in Worker /\ "flush" \in Worker
  BY DEF Worker
<1>1. ASSUME NEW e \in Exchange, RecordTurn(e) PROVE Intake!Next
  <2>1. turn[e] = "unsaid"
    BY <1>1 DEF RecordTurn
  <2>2. \A d \in Exchange : turn'[d] = IF d = e THEN "buffered"
                                       ELSE IF turn[d] = "timer" THEN "lost" ELSE turn[d]
    BY <1>0, <1>1 DEF RecordTurn, Interrupted
  <2>3. e \notin Buffered \cup Held \cup SettledTurns \cup Lost
    BY <2>1 DEF Buffered, Batch, Settled
  <2>4. Buffered' = Buffered \cup {e}
    BY <2>2 DEF Buffered
  <2>5. Held' = Held \ Batch("timer") /\ SettledTurns' = SettledTurns
    BY <2>1, <2>2 DEF Batch, Settled
  <2>6. Lost' = Lost \cup Batch("timer")
    BY <2>1, <2>2 DEF Batch
  <2>7. Intake!Receive(e, Batch("timer"))
    BY <2>3, <2>4, <2>5, <2>6 DEF Intake!Receive
  <2>8. PICK L \in SUBSET Held : L = Batch("timer")
    BY <1>B, <1>T
  <2>9. Intake!Receive(e, L)
    BY <2>7, <2>8 DEF Intake!Receive
  <2> QED BY <2>9 DEF Intake!Next
<1>2. CASE CooldownOver
  <2>1. turn = [e \in Exchange |-> IF e \in {} THEN "lost" ELSE turn[e]]
    BY <1>0
  <2>2. Intake!Take({})
    BY <1>0, <1>2, <2>1, TakeRefines DEF CooldownOver, Worker
  <2> QED BY <2>2 DEF Intake!Next
<1>3. ASSUME NEW k \in Worker, Work(k) PROVE Intake!Next \/ UNCHANGED Intake!vars
  <2>0. k \notin Settled \cup {"buffered", "lost"}
    BY DEF Worker, Settled
  <2>1. CASE ExtractionFails(k) \/ RememberFails(k)
    <3>1. \A e \in Exchange : turn'[e] = IF turn[e] = k THEN "lost" ELSE turn[e]
      BY <2>1 DEF ExtractionFails, RememberFails, Moved, Batch
    <3>2. Buffered' = Buffered
      BY <2>0, <3>1 DEF Buffered
    <3>3. Held' = Held \ Batch(k)
      BY <2>0, <3>1 DEF Batch, Worker
    <3>4. SettledTurns' = SettledTurns
      BY <2>0, <3>1 DEF Settled
    <3>5. Lost' = Lost \cup Batch(k) /\ Batch(k) \subseteq Held
      BY <3>1 DEF Batch, Worker
    <3>6. Intake!Lose(Batch(k))
      BY <3>2, <3>3, <3>4, <3>5 DEF Intake!Lose
    <3>7. PICK S \in SUBSET Held : S = Batch(k)
      BY <1>B
    <3>8. Intake!Lose(S)
      BY <3>6, <3>7 DEF Intake!Lose
    <3> QED BY <3>8 DEF Intake!Next
  <2>2. CASE PlanDone(k)
    <3>1. \A e \in Exchange : turn'[e] = IF turn[e] = k THEN "extracted" ELSE turn[e]
      BY <2>2 DEF PlanDone, Moved, Batch
    <3>2. Buffered' = Buffered
      BY <2>0, <3>1 DEF Buffered
    <3>3. Held' = Held \ Batch(k)
      BY <2>0, <3>1 DEF Batch, Worker
    <3>4. SettledTurns' = SettledTurns \cup Batch(k)
      BY <3>1 DEF Settled, Batch
    <3>5. Lost' = Lost /\ Batch(k) \subseteq Held
      BY <2>0, <3>1 DEF Batch, Worker
    <3>6. Intake!Settle(Batch(k))
      BY <3>2, <3>3, <3>4, <3>5 DEF Intake!Settle
    <3>7. PICK S \in SUBSET Held : S = Batch(k)
      BY <1>B
    <3>8. Intake!Settle(S)
      BY <3>6, <3>7 DEF Intake!Settle
    <3> QED BY <3>8 DEF Intake!Next
  <2>3. CASE turn' = turn
    BY <2>3 DEF Intake!vars, Buffered, Batch
  <2> QED BY <1>3, <2>1, <2>2, <2>3 DEF Work, Retrieve, Extract, NextOperation, Seek, WriteDone, Remember
<1>4. CASE \/ \E w \in strays : StrayLands(w)
           \/ \E x \in touches : TouchLands(x)
           \/ Recall \/ Start \/ UNCHANGED vars
  <2>1. turn' = turn
    BY <1>4 DEF StrayLands, TouchLands, Recall, Start, vars
  <2> QED BY <2>1 DEF Intake!vars, Buffered, Batch
<1>5. CASE Close
  <2>1. PICK L \in SUBSET Held : L = Batch("timer")
    BY <1>B, <1>T
  <2>2. Interrupted(turn) = [e \in Exchange |-> IF e \in L THEN "lost" ELSE turn[e]]
    BY <2>1 DEF Interrupted, Batch
  <2>3. TakeBuffer("flush", Interrupted(turn))
    BY <1>5 DEF Close
  <2>4. Intake!Take(L)
    BY <1>0, <1>T, <2>2, <2>3, TakeRefines
  <2> QED BY <2>4 DEF Intake!Next
<1>6. CASE Exit \/ Crash
  <2>1. \A e \in Exchange :
            turn'[e] = IF turn[e] \in {"buffered", "timer", "flush"} THEN "lost" ELSE turn[e]
    BY <1>6 DEF Exit, Crash, Ended, Moved, Buffered, Batch
  <2>2. Buffered' = {} /\ Held' = {}
    BY <2>1 DEF Buffered, Batch
  <2>3. SettledTurns' = SettledTurns
    BY <2>1 DEF Settled
  <2>4. Lost' = Lost \cup Buffered \cup Held
    BY <2>1 DEF Buffered, Batch
  <2>5. Intake!End
    BY <2>2, <2>3, <2>4 DEF Intake!End
  <2> QED BY <2>5 DEF Intake!Next
<1> QED BY <1>1, <1>2, <1>3, <1>4, <1>5, <1>6 DEF Next

LEMMA RefineInit == Init => Intake!Init
BY DEF Init, Intake!Init, Buffered, Batch, Settled

(* The manager implements TurnIntake: an exchange is received once, taken from  *)
(* the buffer once with everything that waits there, and then settled or lost.  *)
THEOREM TakesTurnsOnce == Spec => TurnsTakenOnce
BY RefineInit, RefineStep, InvariantHolds, PTL DEF Spec, TurnsTakenOnce, Intake!Spec
=============================================================================
