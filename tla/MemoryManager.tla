--------------------------- MODULE MemoryManager ---------------------------
(* Long-term memory of the reasoning engine: AsyncMemoryManager collects the *)
(* exchanges of the conversation, analyses them after a while of silence and *)
(* lets a language model create, update and delete memories in the vector    *)
(* store and preferences in the profile store.  Store calls run in threads:  *)
(* one whose task is cancelled is a stray write that still may land.         *)
EXTENDS Naturals, FiniteSets, Functions

CONSTANTS
    Exchange,       \* a user turn with the assistant's answer
    Substantial,    \* the exchanges the heuristics do not find trivial
    Mem,            \* identifiers of memories, each given out once
    NoMem,
    Text,           \* what memories say
    NoText,
    Slug,           \* Slug[t]: the profile key made of the start of a text,
    NoKey,          \* or NoKey if no letter and no digit is in it
    Score,          \* Score[t, u]: similarity of two texts, in percent
    Op,             \* the operations the model may plan
    MinImportance,
    Transient,      \* texts that only report an action
    MaxOps,         \* bound: operations of one plan
    MaxRecalls,     \* bound: searches made by prompts
    MaxStops        \* bound: ends of the process

Category == {"PREFERENCE", "FACT"}

MemoryOperation ==
    [op: {"CREATE", "UPDATE", "DELETE", "NOTHING"}, memory_id: Mem \cup {NoMem},
     text: Text \cup {NoText}, category: Category, importance: 1..5]

ASSUME SubstantialAssumption == Substantial \subseteq Exchange
ASSUME MemAssumption == NoMem \notin Mem /\ NoText \notin Text
ASSUME SlugAssumption == DOMAIN Slug = Text
ASSUME OpAssumption == Op \subseteq MemoryOperation
ASSUME BoundAssumption == MaxOps \in Nat /\ MaxRecalls \in Nat /\ MaxStops \in Nat

VARIABLES
    engine,     \* "up", "closing" or "down"
    turn,       \* turn[e]: where an exchange is
    worker,     \* the debounce task ("timer") and the shutdown ("flush")
    store,      \* store[m]: the memory, or why there is none
    touches,    \* access times to write back, with the metadata that was read
    strays,     \* writes of cancelled tasks, still in their threads
    profile,    \* profile[k]: the preference under a key of the profile store
    torn,       \* memories that a failure may have left apart from the profile
    recalls, stops      \* counters behind the bounds

vars == <<engine, turn, worker, store, touches, strays, profile, torn, recalls, stops>>

-----------------------------------------------------------------------------
(* The stores.                                                              *)

Worker == {"timer", "flush"}
Settled == {"extracted", "trivial"}

Never == [state |-> "never"]    \* the identifier was not given out yet
Gone == [state |-> "gone"]      \* the memory was deleted
Live == [state: {"live"}, text: Text, category: Category, importance: 1..5]

LiveIds == {m \in Mem : store[m].state = "live"}

\* The hits of a search, and the best one of them.
Hits(q, threshold) == {m \in LiveIds : Score[q, store[m].text] >= threshold}

Best(q, threshold) ==
    {m \in Hits(q, threshold) :
        \A n \in LiveIds : Score[q, store[n].text] <= Score[q, store[m].text]}

\* A search sends for every hit a task that writes its access time back,
\* together with the rest of the metadata as the search found it.
TouchesOf(hits) ==
    {[mem |-> m, category |-> store[m].category, importance |-> store[m].importance] :
        m \in hits}

\* Deviation: an update adds what is not there.
Landed_Upsert(w) ==
    IF w.kind \in {"add", "update"}
    THEN [store EXCEPT ![w.mem] = [state |-> "live", text |-> w.text,
                    category |-> w.category, importance |-> w.importance]]
    ELSE IF w.mem \in LiveIds THEN [store EXCEPT ![w.mem] = Gone] ELSE store

\* What a write does to the store: an update or a deletion does nothing to a
\* memory that is not there.
Landed(w) ==
    IF w.kind = "add" \/ (w.kind = "update" /\ w.mem \in LiveIds)
    THEN [store EXCEPT ![w.mem] = [state |-> "live", text |-> w.text,
                    category |-> w.category, importance |-> w.importance]]
    ELSE IF w.kind = "delete" /\ w.mem \in LiveIds
         THEN [store EXCEPT ![w.mem] = Gone]
         ELSE store

\* _derive_preference_key finds something to make a key of.
Keyed(t) == Slug[t] # NoKey
Key == Range(Slug) \ {NoKey}

Touched(x) ==
    IF x.mem \in LiveIds
    THEN [store EXCEPT ![x.mem] = [@ EXCEPT !.category = x.category,
                                            !.importance = x.importance]]
    ELSE store

Write == [kind: {"add", "update", "delete"}, mem: Mem, text: Text \cup {NoText},
          category: Category, importance: 1..5]
NoWrite == [kind |-> "none", mem |-> NoMem]
NoOp == [op |-> "NONE"]

\* Deviation: an identifier is free as soon as the store does not hold it.
Fresh_StoreOnly == {m \in Mem : store[m] = Never}

\* Identifiers that neither the store nor a write on its way knows.
Fresh ==
    {m \in Mem : /\ store[m] = Never
                 /\ \A w \in strays : w.mem # m
                 /\ \A k \in Worker : worker[k].write.mem # m}

-----------------------------------------------------------------------------
(* Buffer, batches and the tasks that analyse them.                         *)

Idle == [phase |-> "idle", op |-> NoOp, write |-> NoWrite, ops |-> 0]
In(phase) == [Idle EXCEPT !.phase = phase]

Buffered == {e \in Exchange : turn[e] = "buffered"}

\* The exchanges of S go to place p.
Moved(f, S, p) == [e \in Exchange |-> IF e \in S THEN p ELSE f[e]]
Batch(k) == {e \in Exchange : turn[e] = k}

\* A task that is cancelled leaves its write to the thread; if the thread had
\* not begun with it, the write is cancelled too.
Strays(k) == IF worker[k].phase = "write" THEN {worker[k].write} ELSE {}

\* Memories that a preference has reached and the profile will not hear of.
Unremembered(k) ==
    IF worker[k].phase \in {"write", "remember"} THEN {worker[k].write.mem} \cap Mem ELSE {}

\* task.cancel() of the debounce task: what it had in hand is lost.
Interrupted(f) == [e \in Exchange |-> IF f[e] = "timer" THEN "lost" ELSE f[e]]
CancelTimer ==
    /\ strays' \in {strays, strays \cup Strays("timer")}
    /\ torn' = torn \cup Unremembered("timer")

WorkerState ==
    [phase: {"idle", "cooldown", "retrieve", "extract", "plan", "seek", "write", "remember"},
     op: Op \cup {NoOp}, write: Write \cup {NoWrite}, ops: 0..MaxOps]

Place == {"unsaid", "buffered", "lost"} \cup Worker \cup Settled

TypeOK ==
    /\ engine \in {"up", "closing", "down"}
    /\ turn \in [Exchange -> Place]
    /\ worker \in [Worker -> WorkerState]
    /\ store \in [Mem -> {Never, Gone} \cup Live]
    /\ touches \subseteq [mem: Mem, category: Category, importance: 1..5]
    /\ strays \subseteq Write
    /\ profile \in [Key -> Text \cup {NoText}]
    /\ torn \subseteq Mem
    /\ recalls \in 0..MaxRecalls /\ stops \in 0..MaxStops

Init ==
    /\ engine = "up"
    /\ turn = [e \in Exchange |-> "unsaid"]
    /\ worker = [k \in Worker |-> Idle]
    /\ store = [m \in Mem |-> Never]
    /\ touches = {} /\ strays = {}
    /\ profile = [k \in Key |-> NoText]
    /\ torn = {}
    /\ recalls = 0 /\ stops = 0

-----------------------------------------------------------------------------
(* The event loop.                                                          *)

\* Deviation: the timer is stopped and not started again.
RecordTurn_NoTimer(e) ==
    /\ engine # "down" /\ turn[e] = "unsaid"
    /\ turn' = Interrupted([turn EXCEPT ![e] = "buffered"])
    /\ CancelTimer
    /\ worker' = [worker EXCEPT !["timer"] = Idle]
    /\ UNCHANGED <<engine, store, touches, profile, recalls, stops>>

\* _record_turn: the exchange is buffered and the debounce task started anew.
RecordTurn(e) ==
    /\ engine # "down" /\ turn[e] = "unsaid"
    /\ turn' = Interrupted([turn EXCEPT ![e] = "buffered"])
    /\ CancelTimer
    /\ worker' = [worker EXCEPT !["timer"] = In("cooldown")]
    /\ UNCHANGED <<engine, store, touches, profile, recalls, stops>>

\* _process_pending_buffer: worker k takes the buffer, and keeps it unless it
\* is trivial.
TakeBuffer(k, f) ==
    IF Buffered \cap Substantial = {}
    THEN /\ turn' = Moved(f, Buffered, "trivial")
         /\ worker' = [worker EXCEPT !["timer"] = Idle]
    ELSE /\ turn' = Moved(f, Buffered, k)
         /\ worker' = [worker EXCEPT !["timer"] = Idle, ![k] = In("retrieve")]

CooldownOver ==
    /\ worker["timer"].phase = "cooldown"
    /\ TakeBuffer("timer", turn)
    /\ UNCHANGED <<engine, store, touches, strays, profile, torn, recalls, stops>>

\* The search for related memories; an error is an empty result.
Retrieve(k) ==
    /\ worker[k].phase = "retrieve"
    /\ \E hits \in {{}} \cup {Hits(q, 50) : q \in Text} :
           touches' = touches \cup TouchesOf(hits)
    /\ worker' = [worker EXCEPT ![k].phase = "extract"]
    /\ UNCHANGED <<engine, turn, store, strays, profile, torn, recalls, stops>>

\* The model answers with a plan.
Extract(k) ==
    /\ worker[k].phase = "extract"
    /\ worker' = [worker EXCEPT ![k].phase = "plan"]
    /\ UNCHANGED <<engine, turn, store, touches, strays, profile, torn, recalls, stops>>

\* The model cannot be reached, or its answer is no plan.
ExtractionFails(k) ==
    /\ worker[k].phase = "extract"
    /\ turn' = Moved(turn, Batch(k), "lost")
    /\ worker' = [worker EXCEPT ![k] = Idle]
    /\ UNCHANGED <<engine, store, touches, strays, profile, torn, recalls, stops>>

\* Operations that the plan may hold and the manager passes over.
Skipped(o) ==
    \/ o.op = "NOTHING"
    \/ o.op # "DELETE" /\ o.text = NoText
    \/ o.op # "DELETE" /\ o.importance < MinImportance
    \/ o.op # "DELETE" /\ o.text \in Transient
    \/ o.op = "DELETE" /\ o.memory_id = NoMem /\ o.text = NoText

\* The write of operation o to memory m.
Change(o) == IF o.op = "DELETE" THEN "delete" ELSE "update"
WriteOf(kind, m, o) ==
    [kind |-> kind, mem |-> m, text |-> o.text, category |-> o.category,
     importance |-> o.importance]

\* _apply_memory_operations takes the next operation of the plan.
NextOperation(k) ==
    /\ worker[k].phase = "plan" /\ worker[k].ops < MaxOps
    /\ \E o \in Op :
        \/ Skipped(o) /\ worker' = [worker EXCEPT ![k].ops = @ + 1]
        \/ /\ ~Skipped(o) /\ (o.op = "CREATE" \/ o.memory_id = NoMem)
           /\ worker' = [worker EXCEPT ![k] =
                            [In("seek") EXCEPT !.op = o, !.ops = worker[k].ops + 1]]
        \/ /\ ~Skipped(o) /\ o.op # "CREATE" /\ o.memory_id # NoMem
           /\ worker' = [worker EXCEPT ![k] =
                            [phase |-> "write", op |-> o, ops |-> @.ops + 1,
                             write |-> WriteOf(Change(o), o.memory_id, o)]]
    /\ UNCHANGED <<engine, turn, store, touches, strays, profile, torn, recalls, stops>>

\* How alike a memory must be to be taken for the one an operation means.
Threshold(o) == CASE o.op = "CREATE" -> 85 [] o.op = "UPDATE" -> 70 [] OTHER -> 75

\* Deviation: only updates reach the profile.
After_UpdatesOnly(o) ==
    IF o.op = "UPDATE" /\ o.category = "PREFERENCE" /\ Keyed(o.text) THEN "remember" ELSE "plan"

\* A preference goes to the profile store too, if its text makes a key; one
\* without a key is passed over, and nobody hears of it.
After(o) ==
    IF o.op # "DELETE" /\ o.category = "PREFERENCE" /\ Keyed(o.text) THEN "remember" ELSE "plan"

\* Worker k goes on to phase p; between operations it has none in hand.
Onward(k, p) ==
    worker' = [worker EXCEPT ![k] =
        IF p = "plan" THEN [In("plan") EXCEPT !.ops = worker[k].ops]
                      ELSE [@ EXCEPT !.phase = p]]

\* The search of an operation without an identifier.  What it finds is updated
\* or deleted; otherwise a memory is added, and nothing is deleted.  An error
\* of the search is an empty result here too.
Seek(k) ==
    /\ worker[k].phase = "seek"
    /\ LET o == worker[k].op
           hits == Best(o.text, Threshold(o))
       IN \/ \E m \in hits :
                /\ worker' = [worker EXCEPT ![k].phase = "write",
                    ![k].write = WriteOf(Change(o), m, o)]
                /\ touches' = touches \cup TouchesOf({m})
          \/ /\ o.op # "DELETE"
             /\ \E m \in Fresh :
                  worker' = [worker EXCEPT ![k].phase = "write", ![k].write = WriteOf("add", m, o)]
             /\ UNCHANGED touches
          \/ /\ o.op = "DELETE" \/ Fresh = {}
             /\ Onward(k, After(o))
             /\ UNCHANGED touches
    /\ UNCHANGED <<engine, turn, store, strays, profile, torn, recalls, stops>>

\* A write comes back, done or (no embedding, an error) not done: the manager
\* does not ask which.
WriteDone(k) ==
    /\ worker[k].phase = "write"
    /\ store' \in {store, Landed(worker[k].write)}
    /\ Onward(k, After(worker[k].op))
    /\ UNCHANGED <<engine, turn, touches, strays, profile, torn, recalls, stops>>

\* profile_store.set, under the key of the text.
Remember(k) ==
    /\ worker[k].phase = "remember"
    /\ profile' = [profile EXCEPT ![Slug[worker[k].op.text]] = worker[k].op.text]
    /\ Onward(k, "plan")
    /\ UNCHANGED <<engine, turn, store, touches, strays, torn, recalls, stops>>

\* Deviation: the batch goes back to the buffer, where nobody counts retries.
RememberFails_Again(k) ==
    /\ worker[k].phase = "remember"
    /\ torn' = torn \cup Unremembered(k)
    /\ turn' = Moved(turn, Batch(k), "buffered")
    /\ worker' = [worker EXCEPT ![k] = Idle]
    /\ UNCHANGED <<engine, store, touches, strays, profile, recalls, stops>>

\* An error of the profile store ends the analysis and what is left of the plan.
RememberFails(k) ==
    /\ worker[k].phase = "remember"
    /\ torn' = torn \cup Unremembered(k)
    /\ turn' = Moved(turn, Batch(k), "lost")
    /\ worker' = [worker EXCEPT ![k] = Idle]
    /\ UNCHANGED <<engine, store, touches, strays, profile, recalls, stops>>

PlanDone(k) ==
    /\ worker[k].phase = "plan"
    /\ turn' = Moved(turn, Batch(k), "extracted")
    /\ worker' = [worker EXCEPT ![k] = Idle]
    /\ UNCHANGED <<engine, store, touches, strays, profile, torn, recalls, stops>>

-----------------------------------------------------------------------------
(* Threads, prompts and the life of the process.                            *)

\* The thread of a cancelled write finishes, or fails.
StrayLands(w) ==
    /\ w \in strays
    /\ strays' = strays \ {w}
    /\ store' \in {store, Landed(w)}
    /\ UNCHANGED <<engine, turn, worker, touches, profile, torn, recalls, stops>>

\* touch_memory writes the access time back, and the rest of what was read.
TouchLands(x) ==
    /\ x \in touches
    /\ touches' = touches \ {x}
    /\ \/ UNCHANGED <<store, torn>>
       \/ /\ store' = Touched(x)
          /\ torn' = torn \cup {m \in LiveIds : m = x.mem /\ store[m].category # x.category}
    /\ UNCHANGED <<engine, turn, worker, strays, profile, recalls, stops>>

\* The router node of a prompt searches too.
Recall ==
    /\ engine # "down" /\ recalls < MaxRecalls
    /\ recalls' = recalls + 1
    /\ \E q \in Text : touches' = touches \cup TouchesOf(Hits(q, 60))
    /\ UNCHANGED <<engine, turn, worker, store, strays, profile, torn, stops>>

\* Deviation: the buffer is not flushed.
Close_WithoutFlush ==
    /\ engine = "up" /\ stops < MaxStops
    /\ engine' = "closing" /\ stops' = stops + 1
    /\ CancelTimer
    /\ turn' = Interrupted(turn)
    /\ worker' = [worker EXCEPT !["timer"] = Idle]
    /\ UNCHANGED <<store, touches, profile, recalls>>

\* flush_and_close: the debounce task is cancelled, whatever it does, and the
\* buffer taken for a last analysis.
Close ==
    /\ engine = "up" /\ stops < MaxStops
    /\ engine' = "closing" /\ stops' = stops + 1
    /\ CancelTimer
    /\ TakeBuffer("flush", Interrupted(turn))
    /\ UNCHANGED <<store, touches, profile, recalls>>

\* The process ends: what was only in memory is gone.
Ended ==
    /\ engine' = "down"
    /\ turn' = Moved(turn, Buffered \cup Batch("timer") \cup Batch("flush"), "lost")
    /\ worker' = [k \in Worker |-> Idle]
    /\ touches' = {} /\ strays' = {}
    /\ torn' = torn \cup Unremembered("timer") \cup Unremembered("flush")
    /\ UNCHANGED <<store, profile, recalls>>

Exit == engine = "closing" /\ worker["flush"].phase = "idle" /\ Ended /\ UNCHANGED stops
Crash == engine # "down" /\ stops < MaxStops /\ stops' = stops + 1 /\ Ended

Start ==
    /\ engine = "down"
    /\ engine' = "up"
    /\ UNCHANGED <<turn, worker, store, touches, strays, profile, torn, recalls, stops>>

Work(k) ==
    \/ Retrieve(k) \/ Extract(k) \/ ExtractionFails(k) \/ NextOperation(k)
    \/ Seek(k) \/ WriteDone(k) \/ Remember(k) \/ RememberFails(k) \/ PlanDone(k)

Next ==
    \/ \E e \in Exchange : RecordTurn(e)
    \/ CooldownOver
    \/ \E k \in Worker : Work(k)
    \/ \E w \in strays : StrayLands(w)
    \/ \E x \in touches : TouchLands(x)
    \/ Recall
    \/ Close \/ Exit \/ Crash \/ Start

Spec == Init /\ [][Next]_vars

\* Timers go off, the stores and the model answer or fail, and a program that
\* was asked to close does.  Nobody need speak.
Fairness ==
    /\ WF_vars(CooldownOver) /\ WF_vars(Exit)
    /\ \A k \in Worker : WF_vars(Work(k))

FairSpec == Spec /\ Fairness

-----------------------------------------------------------------------------
(* What memory owes the conversation.                                       *)

\* Every exchange is received once, taken once, and either settled or lost.
Intake == INSTANCE TurnIntake WITH
    Turn <- Exchange,
    pending <- Buffered,
    held <- Batch("timer") \cup Batch("flush"),
    settled <- {e \in Exchange : turn[e] \in Settled},
    lost <- {e \in Exchange : turn[e] = "lost"}

TurnsTakenOnce == Intake!Spec

\* An exchange that still waits in the buffer is lost only with the process, and
\* an orderly end takes all that wait when it begins into its last analysis:
\* only what is said during that analysis can be lost with it.
BufferLostOnlyAtEnd ==
    [][/\ Buffered \cap {e \in Exchange : turn'[e] = "lost"} # {} => engine' = "down"
       /\ engine = "up" /\ engine' = "closing" =>
              Buffered \subseteq {e \in Exchange : turn'[e] \in {"flush", "trivial"}}]_vars

\* A memory that was deleted never comes back, though access times and writes of
\* cancelled analyses are still on their way to it.
NoRevival ==
    [][\A m \in Mem : store[m] = Gone => store'[m] = Gone]_vars

\* The profile has an entry under the key of every memory that is a preference
\* and has a key, but for one whose operation was cut in two or whose category an
\* old access time brought back.  A preference without a key is in no profile.
PreferencesKnown ==
    \A m \in LiveIds \ torn :
        store[m].category = "PREFERENCE" /\ Keyed(store[m].text) =>
            \/ profile[Slug[store[m].text]] # NoText
            \/ \E k \in Worker : worker[k].phase = "remember" /\ worker[k].write.mem = m

\* Worker k has handed a new memory to a thread.
Adds(k) == worker[k].phase = "write" /\ worker[k].write.kind = "add"

\* Operation and write of worker k belong together.
Consistent(k) ==
    /\ worker[k].phase \in {"seek", "write", "remember"} =>
           worker[k].op \in Op /\ ~Skipped(worker[k].op)
    /\ worker[k].phase = "seek" => worker[k].write = NoWrite
    /\ worker[k].phase = "write" => worker[k].write \in Write
    /\ worker[k].phase = "remember" =>
           worker[k].write \in Write \cup {NoWrite} /\ After(worker[k].op) = "remember"
    /\ worker[k].phase \in {"write", "remember"} /\ worker[k].write \in Write =>
           /\ worker[k].write = WriteOf(worker[k].write.kind, worker[k].write.mem, worker[k].op)
           /\ worker[k].write.kind = "delete" <=> worker[k].op.op = "DELETE"

\* Only the shutdown flushes.
WorkOK ==
    /\ engine # "closing" => worker["flush"].phase = "idle"
    /\ \A k \in Worker : Consistent(k)

\* An identifier that is on its way to the store is in nobody else's hands.
AddsOK ==
    /\ \A w \in strays : w.mem \in torn /\ (w.kind # "delete" => w.text \in Text)
    /\ \A w \in strays : w.kind = "add" => store[w.mem] = Never
    /\ \A k \in Worker : Adds(k) => store[worker[k].write.mem] = Never
    /\ \A v, w \in strays : v.kind = "add" /\ w.kind = "add" /\ v.mem = w.mem => v = w
    /\ \A k \in Worker, w \in strays :
           Adds(k) /\ w.kind = "add" => worker[k].write.mem # w.mem
    /\ \A k, l \in Worker :
           k # l /\ Adds(k) /\ Adds(l) => worker[k].write.mem # worker[l].write.mem

\* PreferencesKnown, with the text that is about to be remembered.
KnownOK ==
    \A m \in LiveIds \ torn :
        store[m].category = "PREFERENCE" /\ Keyed(store[m].text) =>
            \/ profile[Slug[store[m].text]] # NoText
            \/ \E k \in Worker : /\ worker[k].phase = "remember"
                                 /\ worker[k].write.mem = m
                                 /\ worker[k].write.text = store[m].text

\* Inductive: the stores, the writes under way and the workers agree.
MemInv == TypeOK /\ WorkOK /\ AddsOK /\ KnownOK

\* An exchange in the buffer does not stay there: somebody's timer runs, and what
\* it takes is settled or lost.
BufferDrains ==
    \A e \in Exchange : turn[e] = "buffered" ~> turn[e] \in Settled \cup {"lost"}

\* A new turn costs only the silence that was waited for, never a turn.
TurnsSurviveActivity ==
    [][\A e, f \in Exchange :
           turn[e] = "unsaid" /\ turn'[e] = "buffered" /\ turn'[f] = "lost" =>
               turn[f] = "lost"]_vars
=============================================================================
