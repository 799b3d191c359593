--------------------------- MODULE Sessions_proofs ---------------------------
(* Proofs about Sessions, for all connections, prompts and bounds.          *)
EXTENDS Sessions, TLAPS

-----------------------------------------------------------------------------
(* Types.                                                                   *)

LEMMA SendTextType ==
    ASSUME TypeOK, NEW c, SendText(c)
    PROVE  conns' \subseteq Conn /\ told' = told
BY DEF TypeOK, SendText, Intact

LEMMA SendStatusType ==
    ASSUME TypeOK, NEW c, NEW state \in {"IDLE", "THINKING"}, SendStatus(c, state)
    PROVE  conns' \subseteq Conn /\ told' \in [Conn -> {"IDLE", "THINKING"}]
BY DEF TypeOK, SendStatus, Intact, Reached

\* A run that is cancelled or whose confirmation is answered keeps its type.
LEMMA CancelType ==
    ASSUME NEW r \in RunState, NEW b \in BOOLEAN
    PROVE  [r EXCEPT !.cancelled = b] \in RunState
BY DEF RunState

LEMMA FutureType ==
    ASSUME NEW r \in RunState, NEW f \in {"none", "open", "yes", "no"}
    PROVE  [r EXCEPT !.future = f] \in RunState
BY DEF RunState

LEMMA AbortAllType ==
    ASSUME TypeOK, NEW S, AbortAll(S)
    PROVE  run' \in [Prompt -> RunState] /\ registered' \subseteq Id
<1>1. ASSUME NEW p \in Prompt PROVE run'[p] \in RunState
  <2> DEFINE f == IF Key(p) \in registered /\ run[p].future = "open" THEN "no" ELSE run[p].future
             b == run[p].cancelled \/ p \in S
  <2>1. run[p] \in RunState
    BY DEF TypeOK
  <2>2. f \in {"none", "open", "yes", "no"} /\ b \in BOOLEAN
    BY <2>1 DEF RunState
  <2>3. run'[p] = [run[p] EXCEPT !.future = f, !.cancelled = b]
    BY DEF AbortAll
  <2> HIDE DEF f, b
  <2> QED BY <2>1, <2>2, <2>3 DEF RunState
<1>2. run' = [p \in Prompt |-> run'[p]]
  BY DEF AbortAll
<1> QED BY <1>1, <1>2 DEF AbortAll

LEMMA GotoType ==
    ASSUME TypeOK, NEW p \in Prompt, NEW pc \in PC, Goto(p, pc)
    PROVE  run' \in [Prompt -> RunState]
BY DEF TypeOK, Goto, RunState

LEMMA FinishedType ==
    ASSUME NEW r \in RunState, NEW pc \in PC, NEW s,
           s = [r EXCEPT !.pc = pc, !.cancelled = FALSE]
    PROVE  s \in RunState
BY DEF RunState

LEMMA FinishType ==
    ASSUME TypeOK, NEW p \in Prompt, NEW pc \in PC,
           run' = [run EXCEPT ![p].pc = pc, ![p].cancelled = FALSE]
    PROVE  run' \in [Prompt -> RunState]
BY FinishedType DEF TypeOK

(* Every variable keeps its type. *)
LEMMA TypeStep == TypeOK /\ [Next]_vars => TypeOK'
<1> SUFFICES ASSUME TypeOK, [Next]_vars PROVE TypeOK'
  OBVIOUS
<1>1. ASSUME NEW c \in Conn, Connect(c) \/ Drop(c) \/ EmailDraft(c) PROVE TypeOK'
  BY <1>1 DEF TypeOK, Connect, Drop, EmailDraft
<1>2. ASSUME NEW c \in Conn, Close(c) PROVE TypeOK'
  BY <1>2, AbortAllType DEF TypeOK, Close
<1>3. ASSUME NEW c \in Conn, Stop(c) PROVE TypeOK'
  BY <1>3, AbortAllType, SendStatusType DEF TypeOK, Stop
<1>4. ASSUME NEW c \in Conn, DraftReady(c) PROVE TypeOK'
  BY <1>4, SendTextType DEF TypeOK, DraftReady
<1>5. ASSUME NEW c \in Conn, NEW p \in Prompt, UserMessage(c, p) PROVE TypeOK'
  <2>0. Task("start", c) \in RunState
    BY BoundAssumption DEF Task, RunState, PC
  <2>1. \A q \in Prompt : run'[q] \in RunState
    <3> TAKE q \in Prompt
    <3>1. CASE q = p
      BY <1>5, <2>0, <3>1 DEF UserMessage
    <3>2. CASE q # p
      <4>1. run'[q] = [run[q] EXCEPT !.cancelled = @ \/ q \in Current(c)]
        BY <1>5, <3>2 DEF UserMessage
      <4>2. run[q] \in RunState
        BY DEF TypeOK
      <4>3. (run[q].cancelled \/ q \in Current(c)) \in BOOLEAN
        OBVIOUS
      <4> HIDE DEF RunState
      <4> QED BY <4>1, <4>2, <4>3, CancelType
    <3> QED BY <3>1, <3>2
  <2> QED BY <1>5, <2>1 DEF TypeOK, UserMessage
<1>6. ASSUME NEW c \in Conn, NEW i \in Id, NEW answer \in {"yes", "no"},
             Respond(c, i, answer)
      PROVE  TypeOK'
  <2>1. \A q \in Prompt : run'[q] \in RunState
    <3> TAKE q \in Prompt
    <3>1. run'[q] = run[q] \/ run'[q] = [run[q] EXCEPT !.future = answer]
      BY <1>6 DEF Respond
    <3>2. run[q] \in RunState
      BY DEF TypeOK
    <3> QED BY <1>6, <3>1, <3>2, FutureType
  <2> QED BY <1>6, <2>1 DEF TypeOK, Respond
<1>7. ASSUME NEW p \in Prompt, Begin(p) PROVE TypeOK'
  BY <1>7, GotoType, SendStatusType DEF TypeOK, Begin, Sess, PC
<1>8. ASSUME NEW p \in Prompt, Ask(p) PROVE TypeOK'
  <2>1. run[p].asked + 1 \in 1..MaxAsks
    BY <1>8, BoundAssumption DEF TypeOK, Ask, RunState
  <2>2. run' \in [Prompt -> RunState]
    BY <1>8, <2>1 DEF TypeOK, Ask, RunState, PC
  <2> QED BY <1>8, <2>1, <2>2 DEF TypeOK, Ask, Sess, Id, Intact
<1>9. ASSUME NEW p \in Prompt, Decide(p) PROVE TypeOK'
  BY <1>9 DEF TypeOK, Decide, Sess, RunState, PC
<1>10. ASSUME NEW p \in Prompt, Call(p) \/ Answer(p) PROVE TypeOK'
  BY <1>10, GotoType DEF TypeOK, Call, Answer, Sess, PC
<1>11. ASSUME NEW p \in Prompt, Reply(p) PROVE TypeOK'
  BY <1>11, GotoType, SendTextType DEF TypeOK, Reply, Sess, PC
<1>12. ASSUME NEW p \in Prompt, Unwind(p) PROVE TypeOK'
  <2>1. run' \in [Prompt -> RunState]
    BY <1>12 DEF TypeOK, Unwind, RunState, PC
  <2>2. registered' \subseteq Id
    BY <1>12 DEF TypeOK, Unwind
  <2>3. conns' \subseteq Conn /\ told' = told
    BY <1>12, SendTextType DEF Unwind
  <2>4. UNCHANGED <<Sess, heard>>
    BY <1>12 DEF Unwind
  <2> QED BY <2>1, <2>2, <2>3, <2>4 DEF TypeOK, Sess
<1>13. ASSUME NEW p \in Prompt, Finally(p) PROVE TypeOK'
  <2>1. run' \in [Prompt -> RunState]
    BY <1>13, FinishType DEF Finally, PC
  <2>2. conns' \subseteq Conn /\ told' \in [Conn -> {"IDLE", "THINKING"}]
    BY <1>13, SendStatusType DEF Finally
  <2>3. UNCHANGED <<Sess, registered, heard>>
    BY <1>13 DEF Finally
  <2> QED BY <2>1, <2>2, <2>3 DEF TypeOK, Sess
<1>14. ASSUME NEW p \in Prompt, NeverBegin(p) \/ End(p) PROVE TypeOK'
  <2>1. run' \in [Prompt -> RunState]
    BY <1>14, FinishType DEF NeverBegin, End, PC
  <2>2. UNCHANGED <<Sess, conns, registered, heard, told>>
    BY <1>14 DEF NeverBegin, End
  <2> QED BY <2>1, <2>2 DEF TypeOK, Sess
<1>15. CASE UNCHANGED vars
  BY <1>15 DEF TypeOK, vars
<1> QED
  BY <1>1, <1>2, <1>3, <1>4, <1>5, <1>6, <1>7, <1>8, <1>9, <1>10, <1>11, <1>12,
     <1>13, <1>14, <1>15 DEF Next, Step

-----------------------------------------------------------------------------
(* What the actions do to the runs, field by field.                         *)

\* A step of the task of p leaves the other runs alone and has this outcome.
Becomes(p, pc, asked, future, cancelled) ==
    /\ \A q \in Prompt : q # p => run'[q] = run[q]
    /\ run'[p].conn = run[p].conn
    /\ run'[p].pc = pc
    /\ run'[p].asked = asked
    /\ run'[p].future = future
    /\ run'[p].cancelled = cancelled

LEMMA CancelledRun ==
    ASSUME NEW r \in RunState, NEW f, NEW b
    PROVE  LET s == [r EXCEPT !.future = f, !.cancelled = b]
           IN  /\ s.pc = r.pc /\ s.conn = r.conn /\ s.asked = r.asked
               /\ s.future = f /\ s.cancelled = b
BY DEF RunState

LEMMA AbortAllEffect ==
    ASSUME TypeOK, NEW S, AbortAll(S), NEW q \in Prompt
    PROVE  /\ run'[q].pc = run[q].pc
           /\ run'[q].conn = run[q].conn
           /\ run'[q].asked = run[q].asked
           /\ run'[q].future = IF Key(q) \in registered /\ run[q].future = "open"
                               THEN "no" ELSE run[q].future
           /\ run'[q].cancelled <=> run[q].cancelled \/ q \in S
           /\ registered' = {}
<1>1. run[q] \in RunState
  BY DEF TypeOK
<1>2. PICK f : f = IF Key(q) \in registered /\ run[q].future = "open"
                   THEN "no" ELSE run[q].future
  OBVIOUS
<1>3. PICK b : b = (run[q].cancelled \/ q \in S)
  OBVIOUS
<1>4. run'[q] = [run[q] EXCEPT !.future = f, !.cancelled = b]
  BY <1>2, <1>3 DEF AbortAll
<1>5. /\ run'[q].pc = run[q].pc /\ run'[q].conn = run[q].conn
      /\ run'[q].asked = run[q].asked
      /\ run'[q].future = f /\ run'[q].cancelled = b
  BY <1>1, <1>4, CancelledRun
<1> QED BY <1>2, <1>3, <1>5 DEF AbortAll

LEMMA UserMessageEffect ==
    ASSUME TypeOK, NEW c \in Conn, NEW p \in Prompt, UserMessage(c, p),
           NEW q \in Prompt
    PROVE  /\ q = p => run'[q] = Task("start", c)
           /\ q # p => /\ run'[q].pc = run[q].pc
                       /\ run'[q].conn = run[q].conn
                       /\ run'[q].asked = run[q].asked
                       /\ run'[q].future = run[q].future
                       /\ run'[q].cancelled <=> run[q].cancelled \/ q \in Current(c)
<1>1. CASE q = p
  BY <1>1 DEF UserMessage
<1>2. CASE q # p
  <2>1. run[q] \in RunState
    BY DEF TypeOK
  <2>2. PICK b : b = (run[q].cancelled \/ q \in Current(c))
    OBVIOUS
  <2>3. run'[q] = [run[q] EXCEPT !.cancelled = b]
    BY <1>2, <2>2 DEF UserMessage
  <2>4. /\ run'[q].pc = run[q].pc /\ run'[q].conn = run[q].conn
        /\ run'[q].asked = run[q].asked
        /\ run'[q].future = run[q].future /\ run'[q].cancelled = b
    BY <2>1, <2>3 DEF RunState
  <2> QED BY <1>2, <2>2, <2>4
<1> QED BY <1>1, <1>2

LEMMA RespondEffect ==
    ASSUME TypeOK, NEW c \in Conn, NEW i \in Id, NEW answer \in {"yes", "no"},
           Respond(c, i, answer), NEW q \in Prompt
    PROVE  /\ run'[q].pc = run[q].pc
           /\ run'[q].conn = run[q].conn
           /\ run'[q].asked = run[q].asked
           /\ run'[q].cancelled = run[q].cancelled
           /\ run'[q].future =
                 IF i \in registered /\ i = Key(q) /\ run[q].future = "open"
                 THEN answer ELSE run[q].future
BY DEF TypeOK, Respond, RunState

LEMMA StepEffect ==
    ASSUME TypeOK, NEW p \in Prompt
    PROVE  /\ Begin(p) =>
                Becomes(p, "graph",
                        run[p].asked, run[p].future, run[p].cancelled)
           /\ Ask(p) =>
                Becomes(p, "ask",
                        run[p].asked + 1, "open", run[p].cancelled)
           /\ Decide(p) =>
                Becomes(p, IF run[p].future = "yes" THEN "rpc" ELSE "graph",
                        run[p].asked, "none", run[p].cancelled)
           /\ Call(p) =>
                Becomes(p, "rpc",
                        run[p].asked, run[p].future, run[p].cancelled)
           /\ Answer(p) =>
                Becomes(p, "graph",
                        run[p].asked, run[p].future, run[p].cancelled)
           /\ Reply(p) => \E pc \in {"reply", "report"} :
                             Becomes(p, pc, run[p].asked, run[p].future,
                                     run[p].cancelled)
           /\ Unwind(p) => Becomes(p, "report", run[p].asked, "none", FALSE)
           /\ NeverBegin(p) =>
                Becomes(p, "done",
                        run[p].asked, run[p].future, FALSE)
           /\ Finally(p) =>
                Becomes(p, "bye",
                        run[p].asked, run[p].future, FALSE)
           /\ End(p) => Becomes(p, "done", run[p].asked, run[p].future, FALSE)
<1>1. Begin(p) => Becomes(p, "graph",
                          run[p].asked, run[p].future, run[p].cancelled)
  BY DEF TypeOK, RunState, Becomes, Begin, Goto
<1>2. Ask(p) => Becomes(p, "ask", run[p].asked + 1, "open", run[p].cancelled)
  BY DEF TypeOK, RunState, Becomes, Ask
<1>3. Decide(p) => Becomes(p, IF run[p].future = "yes" THEN "rpc" ELSE "graph",
                          run[p].asked, "none", run[p].cancelled)
  BY DEF TypeOK, RunState, Becomes, Decide
<1>4. Call(p) => Becomes(p, "rpc",
                          run[p].asked, run[p].future, run[p].cancelled)
  BY DEF TypeOK, RunState, Becomes, Call, Goto
<1>5. Answer(p) => Becomes(p, "graph",
                          run[p].asked, run[p].future, run[p].cancelled)
  BY DEF TypeOK, RunState, Becomes, Answer, Goto
<1>6. Reply(p) => \E pc \in {"reply", "report"} :
                   Becomes(p, pc, run[p].asked, run[p].future, run[p].cancelled)
  BY DEF TypeOK, RunState, Becomes, Reply, Goto
<1>7. Unwind(p) => Becomes(p, "report", run[p].asked, "none", FALSE)
  BY DEF TypeOK, RunState, Becomes, Unwind
<1>8. NeverBegin(p) => Becomes(p, "done", run[p].asked, run[p].future, FALSE)
  BY DEF TypeOK, RunState, Becomes, NeverBegin
<1>9. Finally(p) => Becomes(p, "bye", run[p].asked, run[p].future, FALSE)
  BY DEF TypeOK, RunState, Becomes, Finally
<1>10. End(p) => Becomes(p, "done", run[p].asked, run[p].future, FALSE)
  BY DEF TypeOK, RunState, Becomes, End
<1> QED BY <1>1, <1>2, <1>3, <1>4, <1>5, <1>6, <1>7, <1>8, <1>9, <1>10

-----------------------------------------------------------------------------
(* The requests that are pending.                                           *)

\* PendingExact, of one prompt.
Pending(p) ==
    /\ run[p].future = "open" => <<p, run[p].asked>> \in registered
    /\ \A n \in 1..MaxAsks :
         <<p, n>> \in registered => n = run[p].asked /\ run[p].pc = "ask"

LEMMA PendingStep ==
    ASSUME SessInv, [Next]_vars
    PROVE  PendingExact'
<1> TypeOK /\ TypeOK'
  BY TypeStep DEF SessInv
<1>0. \A q \in Prompt : Pending(q)
  BY DEF SessInv, PendingExact, Pending, Key, Id
<1> SUFFICES ASSUME NEW q \in Prompt PROVE Pending(q)'
  <2>1. ASSUME NEW i \in registered' PROVE i = Key(i[1])' /\ run'[i[1]].pc = "ask"
    <3>1. PICK r \in Prompt, n \in 1..MaxAsks : i = <<r, n>>
      BY <2>1 DEF TypeOK, Id
    <3>2. Pending(r)'
      OBVIOUS
    <3>3. n = run'[r].asked /\ run'[r].pc = "ask"
      BY <2>1, <3>1, <3>2 DEF Pending
    <3> QED BY <3>1, <3>3 DEF Key
  <2> QED BY <2>1 DEF PendingExact, Pending, Key
<1> Pending(q)
  BY <1>0
<1>1. ASSUME NEW c \in Conn,
             Connect(c) \/ Drop(c) \/ EmailDraft(c) \/ DraftReady(c)
      PROVE  Pending(q)'
  BY <1>1 DEF Pending, Connect, Drop, EmailDraft, DraftReady
<1>2. ASSUME NEW c \in Conn, Close(c) \/ Stop(c) PROVE Pending(q)'
  <2>1. PICK S : AbortAll(S)
    BY <1>2 DEF Close, Stop
  <2>2. run'[q].future # "open"
    BY <2>1, AbortAllEffect DEF Pending, Key
  <2> QED BY <2>1, <2>2, AbortAllEffect DEF Pending
<1>3. ASSUME NEW c \in Conn, NEW p \in Prompt, UserMessage(c, p) PROVE Pending(q)'
  <2>1. registered' = registered /\ run[p].pc = "unsent"
    BY <1>3 DEF UserMessage
  <2>2. CASE q = p
    <3>0. run'[q] = Task("start", c)
      BY <1>3, <2>2, UserMessageEffect
    <3>1. run'[q].future = "none"
      BY <3>0 DEF Task
    <3> QED BY <2>1, <2>2, <3>1 DEF Pending
  <2>3. CASE q # p
    <3>1. /\ run'[q].pc = run[q].pc
          /\ run'[q].asked = run[q].asked
          /\ run'[q].future = run[q].future
      BY <1>3, <2>3, UserMessageEffect
    <3> QED BY <2>1, <3>1 DEF Pending
  <2> QED BY <2>2, <2>3
<1>4. ASSUME NEW c \in Conn, NEW i \in Id, NEW answer \in {"yes", "no"},
             Respond(c, i, answer)
      PROVE  Pending(q)'
  <2>1. registered' = registered
    BY <1>4 DEF Respond
  <2> QED BY <1>4, <2>1, RespondEffect DEF Pending
<1>5. ASSUME NEW p \in Prompt, Step(p) PROVE Pending(q)'
  <2>1. CASE Begin(p) \/ Call(p) \/ Answer(p) \/ Reply(p) \/ NeverBegin(p)
             \/ Finally(p) \/ End(p)
    <3>1. registered' = registered /\ run[p].pc # "ask"
      BY <2>1 DEF Begin, Call, Answer, Reply, NeverBegin, Finally, End, At
    <3>2. /\ q # p => run'[q] = run[q]
          /\ run'[p].asked = run[p].asked
          /\ run'[p].future = run[p].future
      BY <2>1, StepEffect DEF Becomes
    <3> QED BY <3>1, <3>2 DEF Pending, TypeOK, RunState
  <2>2. CASE Ask(p)
    <3>1. registered' = registered \cup {<<p, run[p].asked + 1>>} /\ run[p].pc = "graph"
      BY <2>2 DEF Ask, At
    <3>2. Becomes(p, "ask", run[p].asked + 1, "open", run[p].cancelled)
      BY <2>2, StepEffect
    <3>3. Pending(p)
      BY <1>0
    <3> QED BY <3>1, <3>2, <3>3 DEF Pending, Becomes
  <2>3. CASE Decide(p) \/ Unwind(p)
    <3>1. registered' = registered \ {<<p, run[p].asked>>}
      BY <2>3 DEF Decide, Unwind, Key
    <3>2. /\ q # p => run'[q] = run[q]
          /\ run'[p].asked = run[p].asked
          /\ run'[p].future = "none"
      BY <2>3, StepEffect DEF Becomes
    <3>3. Pending(p)
      BY <1>0
    <3> QED BY <3>1, <3>2, <3>3 DEF Pending, TypeOK, RunState
  <2> QED BY <1>5, <2>1, <2>2, <2>3 DEF Step
<1> QED
  <2>1. CASE UNCHANGED vars
    BY <2>1 DEF Pending, vars
  <2> QED BY <1>1, <1>2, <1>3, <1>4, <1>5, <2>1 DEF Next

-----------------------------------------------------------------------------
(* Who can stop a run.                                                      *)

\* RunsReachable and RunsOK, of one prompt.
Reachable(p) ==
    /\ Live(p) => run[p].conn \in Conn
    /\ Live(p) /\ ~run[p].cancelled /\ run[p].pc \notin {"report", "bye"}
         => sock[run[p].conn] # "closed" /\ tracked[run[p].conn] = p
    /\ run[p].pc = "unsent" => run[p].asked = 0 /\ p \notin stopped

LEMMA ReachableStep ==
    ASSUME SessInv, [Next]_vars
    PROVE  RunsReachable' /\ RunsOK'
<1> TypeOK /\ TypeOK'
  BY TypeStep DEF SessInv
<1>0. \A q \in Prompt : Reachable(q)
  BY DEF SessInv, RunsReachable, RunsOK, Reachable
<1> SUFFICES ASSUME NEW q \in Prompt PROVE Reachable(q)'
  BY DEF RunsReachable, RunsOK, Reachable
<1> Reachable(q)
  BY <1>0
<1>1. ASSUME NEW c \in Conn, Connect(c) \/ Drop(c) PROVE Reachable(q)'
  <2>1. /\ UNCHANGED <<run, tracked, stopped>>
        /\ \A d \in Conn : sock[d] # "closed" => sock'[d] # "closed"
    BY <1>1 DEF Connect, Drop, TypeOK
  <2> QED BY <2>1 DEF Reachable, Live
<1>2. ASSUME NEW c \in Conn, EmailDraft(c) \/ DraftReady(c) PROVE Reachable(q)'
  BY <1>2 DEF Reachable, Live, EmailDraft, DraftReady
<1>3. ASSUME NEW c \in Conn, Close(c) PROVE Reachable(q)'
  <2>1. /\ AbortAll(Current(c))
        /\ stopped' = stopped \cup {p \in Prompt : run[p].conn = c /\ Live(p)}
        /\ \A d \in Conn : d # c => sock'[d] = sock[d] /\ tracked'[d] = tracked[d]
    BY <1>3 DEF Close, TypeOK
  <2>2. /\ run'[q].pc = run[q].pc
        /\ run'[q].conn = run[q].conn
        /\ run'[q].asked = run[q].asked
        /\ run'[q].cancelled <=> run[q].cancelled \/ q \in Current(c)
    BY <2>1, AbortAllEffect
  <2> QED BY <2>1, <2>2 DEF Reachable, Live, Current
<1>4. ASSUME NEW c \in Conn, Stop(c) PROVE Reachable(q)'
  <2>1. /\ AbortAll(Current(c))
        /\ stopped' = stopped \cup {p \in Prompt : run[p].conn = c /\ Live(p)}
        /\ UNCHANGED <<sock, tracked>>
    BY <1>4 DEF Stop
  <2>2. /\ run'[q].pc = run[q].pc
        /\ run'[q].conn = run[q].conn
        /\ run'[q].asked = run[q].asked
        /\ run'[q].cancelled <=> run[q].cancelled \/ q \in Current(c)
    BY <2>1, AbortAllEffect
  <2> QED BY <2>1, <2>2 DEF Reachable, Live
<1>5. ASSUME NEW c \in Conn, NEW p \in Prompt, UserMessage(c, p) PROVE Reachable(q)'
  <2>1. /\ sock' = sock /\ stopped' = stopped
        /\ sock[c] # "closed"
        /\ tracked'[c] = p
        /\ \A d \in Conn : d # c => tracked'[d] = tracked[d]
    BY <1>5 DEF UserMessage, Receiving, TypeOK
  <2>2. CASE q = p
    <3>1. run'[q] = Task("start", c)
      BY <1>5, <2>2, UserMessageEffect
    <3>2. run'[q].pc = "start" /\ run'[q].conn = c
      BY <3>1 DEF Task
    <3> QED BY <2>1, <2>2, <3>2 DEF Reachable, Live
  <2>3. CASE q # p
    <3>1. /\ run'[q].pc = run[q].pc
          /\ run'[q].conn = run[q].conn
          /\ run'[q].asked = run[q].asked
          /\ run'[q].cancelled <=> run[q].cancelled \/ q \in Current(c)
      BY <1>5, <2>3, UserMessageEffect
    <3> QED BY <2>1, <3>1 DEF Reachable, Live, Current
  <2> QED BY <2>2, <2>3
<1>6. ASSUME NEW c \in Conn, NEW i \in Id, NEW answer \in {"yes", "no"},
             Respond(c, i, answer)
      PROVE  Reachable(q)'
  <2>1. UNCHANGED <<sock, tracked, stopped>>
    BY <1>6 DEF Respond
  <2> QED BY <1>6, <2>1, RespondEffect DEF Reachable, Live
<1>7. ASSUME NEW p \in Prompt, Step(p) PROVE Reachable(q)'
  <2>1. UNCHANGED <<sock, tracked, stopped>>
    BY <1>7 DEF Step, Begin, Ask, Decide, Call, Answer, Reply, Unwind, NeverBegin,
                Finally, End, Sess
  <2>2. CASE q # p
    <3>1. run'[q] = run[q]
      BY <1>7, <2>2, StepEffect DEF Step, Becomes
    <3> QED BY <2>1, <3>1 DEF Reachable, Live
  <2>3. CASE q = p
    <3>1. run'[p].conn = run[p].conn
      BY <1>7, StepEffect DEF Step, Becomes
    <3>2. CASE Begin(p) \/ Ask(p) \/ Decide(p) \/ Call(p) \/ Answer(p) \/ Reply(p)
      <4>1. Live(p) /\ ~run[p].cancelled /\ run[p].pc \notin {"report", "bye"}
        BY <3>2 DEF Begin, Ask, Decide, Call, Answer, Reply, At, Live
      <4>2. run'[p].pc # "unsent"
        BY <3>2, StepEffect DEF Becomes
      <4> QED BY <2>1, <2>3, <3>1, <4>1, <4>2 DEF Reachable, Live
    <3>3. CASE Unwind(p) \/ NeverBegin(p) \/ Finally(p) \/ End(p)
      <4>1. Live(p)
        BY <3>3 DEF Unwind, NeverBegin, Finally, End, At, Live
      <4>2. run'[p].pc \in {"report", "bye", "done"}
        BY <3>3, StepEffect DEF Becomes
      <4> QED BY <2>1, <2>3, <3>1, <4>1, <4>2 DEF Reachable, Live
    <3> QED BY <1>7, <3>2, <3>3 DEF Step
  <2> QED BY <2>2, <2>3
<1> QED
  <2>1. CASE UNCHANGED vars
    BY <2>1 DEF Reachable, Live, vars
  <2> QED BY <1>1, <1>2, <1>3, <1>4, <1>5, <1>6, <1>7, <2>1 DEF Next

-----------------------------------------------------------------------------
(* What was answered, and to what.                                          *)

\* AnswersOK, of one prompt.
Answered(p) ==
    /\ \A c \in Conn, n \in 1..MaxAsks : <<p, n>> \in heard[c] => n <= run[p].asked
    /\ \A n \in 1..MaxAsks : verdict[<<p, n>>] # "none" => n <= run[p].asked
    /\ run[p].future = "open" => verdict[<<p, run[p].asked>>] = "none"
    /\ run[p].future = "yes" => verdict[<<p, run[p].asked>>] = "yes"
    /\ run[p].future # "none" => run[p].asked > 0

LEMMA AnswersStep ==
    ASSUME SessInv, [Next]_vars
    PROVE  AnswersOK'
<1> TypeOK /\ TypeOK'
  BY TypeStep DEF SessInv
<1>0. \A q \in Prompt : Answered(q) /\ Pending(q) /\ Reachable(q)
  <2>1. \A q \in Prompt : Answered(q)
    BY DEF SessInv, AnswersOK, Answered, Key, TypeOK, Id
  <2> QED BY <2>1 DEF SessInv, PendingExact, Pending, RunsReachable, RunsOK,
                      Reachable, Key, Id
<1> SUFFICES ASSUME NEW q \in Prompt PROVE Answered(q)'
  <2>1. ASSUME NEW c \in Conn, NEW i \in heard'[c] PROVE i[2] <= run'[i[1]].asked
    <3>1. PICK r \in Prompt, n \in 1..MaxAsks : i = <<r, n>>
      BY <2>1 DEF TypeOK, Id
    <3>2. Answered(r)'
      OBVIOUS
    <3> QED BY <2>1, <3>1, <3>2 DEF Answered
  <2>2. ASSUME NEW i \in Id, verdict'[i] # "none" PROVE i[2] <= run'[i[1]].asked
    <3>1. PICK r \in Prompt, n \in 1..MaxAsks : i = <<r, n>>
      BY <2>2 DEF Id
    <3>2. Answered(r)'
      OBVIOUS
    <3> QED BY <2>2, <3>1, <3>2 DEF Answered
  <2> QED BY <2>1, <2>2 DEF AnswersOK, Answered, Key
<1> Answered(q) /\ Pending(q) /\ Reachable(q)
  BY <1>0
<1> run[q].asked \in Nat /\ run'[q].asked \in Nat
  BY BoundAssumption DEF TypeOK, RunState
<1>1. ASSUME NEW c \in Conn,
             Connect(c) \/ Drop(c) \/ EmailDraft(c) \/ DraftReady(c)
      PROVE  Answered(q)'
  BY <1>1 DEF Answered, Connect, Drop, EmailDraft, DraftReady
<1>2. ASSUME NEW c \in Conn, Close(c) \/ Stop(c) PROVE Answered(q)'
  <2>1. PICK S : AbortAll(S)
    BY <1>2 DEF Close, Stop
  <2>2. verdict' = verdict /\ \A d \in Conn : heard'[d] \subseteq heard[d]
    BY <1>2 DEF Close, Stop, TypeOK
  <2>3. /\ run'[q].asked = run[q].asked
        /\ run'[q].future \in {run[q].future, "no"}
        /\ run'[q].future = "no" => run[q].future # "none"
    BY <2>1, AbortAllEffect
  <2> QED BY <2>2, <2>3 DEF Answered
<1>3. ASSUME NEW c \in Conn, NEW p \in Prompt, UserMessage(c, p) PROVE Answered(q)'
  <2>1. UNCHANGED <<heard, verdict>> /\ run[p].pc = "unsent"
    BY <1>3 DEF UserMessage
  <2>2. CASE q = p
    <3>1. run'[q] = Task("start", c)
      BY <1>3, <2>2, UserMessageEffect
    <3>2. run'[q].asked = 0 /\ run'[q].future = "none"
      BY <3>1 DEF Task
    <3>3. run[q].asked = 0
      BY <2>1, <2>2 DEF Reachable
    <3> QED BY <2>1, <3>2, <3>3 DEF Answered
  <2>3. CASE q # p
    <3>1. run'[q].asked = run[q].asked /\ run'[q].future = run[q].future
      BY <1>3, <2>3, UserMessageEffect
    <3> QED BY <2>1, <3>1 DEF Answered
  <2> QED BY <2>2, <2>3
<1>4. ASSUME NEW c \in Conn, NEW i \in Id, NEW answer \in {"yes", "no"},
             Respond(c, i, answer)
      PROVE  Answered(q)'
  <2>1. /\ i \in heard[c]
        /\ \A d \in Conn : heard'[d] \subseteq heard[d]
        /\ \A j \in Id : verdict'[j] = IF j = i /\ verdict[i] = "none" THEN answer
                                        ELSE verdict[j]
    BY <1>4 DEF Respond, TypeOK
  <2>2. /\ run'[q].asked = run[q].asked
        /\ run'[q].future = IF i \in registered /\ i = <<q, run[q].asked>>
                               /\ run[q].future = "open"
                            THEN answer ELSE run[q].future
    BY <1>4, RespondEffect DEF Key
  <2>3. \A n \in 1..MaxAsks : <<q, n>> \in Id
    BY DEF Id
  <2>4. run[q].future # "none" => run[q].asked \in 1..MaxAsks
    BY BoundAssumption DEF Answered, TypeOK, RunState
  <2>5. \A n \in 1..MaxAsks : verdict'[<<q, n>>] # "none" => n <= run[q].asked
    BY <2>1, <2>3 DEF Answered
  <2>6. run'[q].future = "open" => verdict'[<<q, run[q].asked>>] = "none"
    BY <2>1, <2>2, <2>3, <2>4 DEF Answered, Pending
  <2>7. run'[q].future = "yes" => verdict'[<<q, run[q].asked>>] = "yes"
    BY <2>1, <2>2, <2>3, <2>4 DEF Answered, Pending
  <2> QED BY <2>1, <2>2, <2>5, <2>6, <2>7 DEF Answered
<1>5. ASSUME NEW p \in Prompt, Step(p) PROVE Answered(q)'
  <2>1. verdict' = verdict
    BY <1>5 DEF Step, Begin, Ask, Decide, Call, Answer, Reply, Unwind, NeverBegin,
                Finally, End, Sess
  <2>2. CASE Ask(p)
    <3>1. /\ q # p => run'[q] = run[q]
          /\ run'[p].asked = run[p].asked + 1
          /\ run'[p].future = "open"
      BY <2>2, StepEffect DEF Becomes
    <3>2. \A c \in Conn : heard'[c] \subseteq heard[c] \cup {<<p, run[p].asked + 1>>}
      BY <2>2 DEF Ask
    <3>3. run[p].asked + 1 \in 1..MaxAsks
      BY <2>2, BoundAssumption DEF Ask, TypeOK, RunState
    <3> QED BY <2>1, <3>1, <3>2, <3>3 DEF Answered
  <2>3. CASE ~Ask(p)
    <3>1. heard' = heard
      BY <1>5, <2>3 DEF Step, Begin, Decide, Call, Answer, Reply, Unwind, NeverBegin,
                        Finally, End
    <3>2. /\ q # p => run'[q] = run[q]
          /\ run'[p].asked = run[p].asked
          /\ run'[p].future \in {"none", run[p].future}
      BY <1>5, <2>3, StepEffect DEF Step, Becomes
    <3> QED BY <2>1, <3>1, <3>2 DEF Answered
  <2> QED BY <2>2, <2>3
<1> QED
  <2>1. CASE UNCHANGED vars
    BY <2>1 DEF Answered, vars
  <2> QED BY <1>1, <1>2, <1>3, <1>4, <1>5, <2>1 DEF Next

-----------------------------------------------------------------------------
(* A stopped prompt.                                                        *)

LEMMA StoppedStep ==
    ASSUME SessInv, [Next]_vars
    PROVE  StoppedOK'
<1> TypeOK /\ TypeOK'
  BY TypeStep DEF SessInv
<1> SUFFICES ASSUME NEW q \in Prompt, q \in stopped'
             PROVE  run'[q].cancelled \/ run'[q].pc \in {"report", "bye", "done"}
  BY DEF StoppedOK, TypeOK
<1>0. /\ Reachable(q)
      /\ q \in stopped => run[q].cancelled \/ run[q].pc \in {"report", "bye", "done"}
  BY DEF SessInv, RunsReachable, RunsOK, Reachable, StoppedOK
<1>1. ASSUME NEW c \in Conn,
             Connect(c) \/ Drop(c) \/ EmailDraft(c) \/ DraftReady(c)
      PROVE  UNCHANGED <<run, stopped>>
  BY <1>1 DEF Connect, Drop, EmailDraft, DraftReady
<1>2. ASSUME NEW c \in Conn, Close(c) \/ Stop(c)
      PROVE  run'[q].cancelled \/ run'[q].pc \in {"report", "bye", "done"}
  <2>1. /\ AbortAll(Current(c))
        /\ stopped' = stopped \cup {p \in Prompt : run[p].conn = c /\ Live(p)}
    BY <1>2 DEF Close, Stop
  <2>2. /\ run'[q].pc = run[q].pc
        /\ run'[q].cancelled <=> run[q].cancelled \/ q \in Current(c)
    BY <2>1, AbortAllEffect
  <2> QED BY <1>0, <2>1, <2>2 DEF Reachable, Current
<1>3. ASSUME NEW c \in Conn, NEW p \in Prompt, UserMessage(c, p)
      PROVE  run'[q].cancelled \/ run'[q].pc \in {"report", "bye", "done"}
  <2>1. stopped' = stopped /\ run[p].pc = "unsent"
    BY <1>3 DEF UserMessage
  <2>2. q # p
    BY <1>0, <2>1 DEF Reachable
  <2>3. run'[q].pc = run[q].pc /\ (run[q].cancelled => run'[q].cancelled)
    BY <1>3, <2>2, UserMessageEffect
  <2> QED BY <1>0, <2>1, <2>3
<1>4. ASSUME NEW c \in Conn, NEW i \in Id, NEW answer \in {"yes", "no"},
             Respond(c, i, answer)
      PROVE  run'[q].cancelled \/ run'[q].pc \in {"report", "bye", "done"}
  <2>1. stopped' = stopped
    BY <1>4 DEF Respond
  <2>2. run'[q].pc = run[q].pc /\ run'[q].cancelled = run[q].cancelled
    BY <1>4, RespondEffect
  <2> QED BY <1>0, <2>1, <2>2
<1>5. ASSUME NEW p \in Prompt, Step(p)
      PROVE  run'[q].cancelled \/ run'[q].pc \in {"report", "bye", "done"}
  <2>1. stopped' = stopped
    BY <1>5 DEF Step, Begin, Ask, Decide, Call, Answer, Reply, Unwind, NeverBegin,
                Finally, End, Sess
  <2>2. CASE q # p
    BY <1>0, <1>5, <2>1, <2>2, StepEffect DEF Step, Becomes
  <2>3. CASE q = p
    <3>1. CASE Begin(p) \/ Ask(p) \/ Decide(p) \/ Call(p) \/ Answer(p) \/ Reply(p)
      BY <1>0, <2>1, <2>3, <3>1 DEF Begin, Ask, Decide, Call, Answer, Reply, At
    <3>2. CASE Unwind(p) \/ NeverBegin(p) \/ Finally(p) \/ End(p)
      BY <2>3, <3>2, StepEffect DEF Becomes
    <3> QED BY <1>5, <3>1, <3>2 DEF Step
  <2> QED BY <2>2, <2>3
<1> QED
  <2>1. CASE UNCHANGED vars
    BY <1>0, <2>1 DEF vars
  <2> QED BY <1>0, <1>1, <1>2, <1>3, <1>4, <1>5, <2>1 DEF Next

-----------------------------------------------------------------------------
(* The last word of every client.                                           *)

\* What a status message does: c alone is told, or every client that is reached.
LEMMA StatusEffect ==
    ASSUME TypeOK, NEW c, NEW state \in {"IDLE", "THINKING"}, SendStatus(c, state),
           UNCHANGED sock
    PROVE  /\ Intact' = Intact /\ Reached' = Reached
           /\ \A d \in Reached : told'[d] \in {told[d], state}
           /\ \A d \in Conn \ Reached : told'[d] = told[d]
           /\ \A d \in Reached : c = d \/ c \notin Intact => told'[d] = state
           /\ \A d \in Reached : told'[d] # told[d] => c = d \/ c \notin Intact
BY DEF TypeOK, SendStatus, Intact, Reached

\* A step that sends no status and lets nobody in, and after which whatever owed
\* a status still does.
LEMMA StatusKept ==
    ASSUME TypeOK, StatusOK, UNCHANGED told,
           \A c \in Conn : sock'[c] = "closed" => sock[c] = "closed",
           Intact' \subseteq Intact, Reached' \subseteq Reached,
           \A q \in Prompt : Live(q) /\ run[q].pc \notin {"start", "bye"}
                => Live(q)' /\ run'[q].pc \notin {"start", "bye"}
                   /\ run'[q].conn = run[q].conn
    PROVE  StatusOK'
BY DEF StatusOK, Owes, Reached

LEMMA StatusStep ==
    ASSUME SessInv, [Next]_vars
    PROVE  StatusOK'
<1> TypeOK /\ TypeOK' /\ StatusOK
  BY TypeStep DEF SessInv
<1>1. ASSUME NEW c \in Conn, Connect(c) PROVE StatusOK'
  <2>1. /\ UNCHANGED <<told, run>>
        /\ told[c] = "IDLE"
        /\ Reached' \subseteq Reached \cup {c}
        /\ Intact' \subseteq Intact \cup {c}
        /\ \A d \in Conn : sock'[d] = "closed" => sock[d] = "closed"
    BY <1>1 DEF Connect, StatusOK, Reached, Intact, TypeOK
  <2>2. \A p \in Prompt : run[p].conn = c => ~Live(p)
    BY <1>1 DEF Connect
  <2>3. ASSUME NEW d \in Reached', told'[d] = "THINKING"
        PROVE  \E p \in Prompt : Owes(p, d)'
    <3>1. PICK p \in Prompt : Owes(p, d)
      BY <2>1, <2>3 DEF StatusOK
    <3>2. Owes(p, d)'
      BY <2>1, <2>2, <3>1 DEF Owes, Live
    <3> QED BY <3>2
  <2> QED BY <2>1, <2>3 DEF StatusOK
<1>2. ASSUME NEW c \in Conn, Drop(c) \/ EmailDraft(c) \/ DraftReady(c)
      PROVE  StatusOK'
  <2>1. /\ UNCHANGED <<told, run>>
        /\ \A d \in Conn : sock'[d] = "closed" => sock[d] = "closed"
        /\ Reached' \subseteq Reached
        /\ Intact' \subseteq Intact
    BY <1>2 DEF Drop, EmailDraft, DraftReady, SendText, Reached, Intact, TypeOK
  <2> QED BY <2>1, StatusKept DEF Live
<1>3. ASSUME NEW c \in Conn, Close(c) PROVE StatusOK'
  <2>1. PICK S : AbortAll(S)
    BY <1>3 DEF Close
  <2>2. /\ told' = [told EXCEPT ![c] = "IDLE"]
        /\ sock' = [sock EXCEPT ![c] = "closed"]
        /\ conns' = conns \ {c}
    BY <1>3 DEF Close
  <2>3. Reached' \subseteq Reached \ {c} /\ Intact' \subseteq Intact
    BY <2>2 DEF Reached, Intact, TypeOK
  <2>4. ASSUME NEW d \in Reached', told'[d] = "THINKING"
        PROVE  \E p \in Prompt : Owes(p, d)'
    <3>1. d \in Reached /\ told[d] = "THINKING"
      BY <2>2, <2>3, <2>4 DEF TypeOK
    <3>2. PICK p \in Prompt : Owes(p, d)
      BY <3>1 DEF StatusOK
    <3>3. run'[p].pc = run[p].pc /\ run'[p].conn = run[p].conn
      BY <2>1, AbortAllEffect
    <3>4. Owes(p, d)'
      BY <2>3, <3>2, <3>3 DEF Owes, Live
    <3> QED BY <3>4
  <2> QED BY <2>2, <2>4 DEF StatusOK, TypeOK
<1>4. ASSUME NEW c \in Conn, Stop(c) PROVE StatusOK'
  <2>1. PICK S : AbortAll(S)
    BY <1>4 DEF Stop
  <2>2. SendStatus(c, "IDLE") /\ UNCHANGED sock
    BY <1>4 DEF Stop
  <2>3. ASSUME NEW d \in Reached', told'[d] = "THINKING"
        PROVE  \E p \in Prompt : Owes(p, d)'
    <3>1. d \in Reached /\ told[d] = "THINKING"
      BY <2>2, <2>3, StatusEffect
    <3>2. PICK p \in Prompt : Owes(p, d)
      BY <3>1 DEF StatusOK
    <3>3. run'[p].pc = run[p].pc /\ run'[p].conn = run[p].conn
      BY <2>1, AbortAllEffect
    <3>4. Owes(p, d)'
      BY <2>2, <3>2, <3>3, StatusEffect DEF Owes, Live
    <3> QED BY <3>4
  <2> QED BY <2>2, <2>3, StatusEffect DEF StatusOK, Reached
<1>5. ASSUME NEW c \in Conn, NEW p \in Prompt, UserMessage(c, p) PROVE StatusOK'
  <2>1. UNCHANGED <<told, sock, conns>> /\ ~Live(p)
    BY <1>5 DEF UserMessage, Live
  <2>2. \A q \in Prompt : Live(q)
             => run'[q].pc = run[q].pc /\ run'[q].conn = run[q].conn
    BY <1>5, <2>1, UserMessageEffect
  <2> QED BY <2>1, <2>2, StatusKept DEF Live, Reached, Intact
<1>6. ASSUME NEW c \in Conn, NEW i \in Id, NEW answer \in {"yes", "no"},
             Respond(c, i, answer)
      PROVE  StatusOK'
  <2>1. UNCHANGED <<told, sock, conns>>
    BY <1>6 DEF Respond
  <2> QED BY <1>6, <2>1, RespondEffect, StatusKept DEF Live, Reached, Intact
<1>7. ASSUME NEW p \in Prompt, Step(p) PROVE StatusOK'
  <2>0. /\ UNCHANGED sock
        /\ \A q \in Prompt : q # p => run'[q] = run[q]
        /\ run'[p].conn = run[p].conn
    BY <1>7, StepEffect DEF Step, Becomes, Begin, Ask, Decide, Call, Answer, Reply,
       Unwind, NeverBegin, Finally, End, Sess
  <2>1. CASE Begin(p)
    <3>1. SendStatus(run[p].conn, "THINKING") /\ run'[p].pc = "graph"
      BY <2>1, StepEffect DEF Begin, Becomes
    <3>2. ASSUME NEW d \in Reached', told'[d] = "THINKING"
          PROVE  \E q \in Prompt : Owes(q, d)'
      <4>0. d \in Reached /\ Intact' = Intact
        BY <2>0, <3>1, <3>2, StatusEffect
      <4>1. CASE told'[d] # told[d]
        <5>1. Owes(p, d)'
          BY <2>0, <3>1, <4>0, <4>1, StatusEffect DEF Owes, Live
        <5> QED BY <5>1
      <4>2. CASE told'[d] = told[d]
        <5>1. PICK q \in Prompt : Owes(q, d)
          BY <3>2, <4>0, <4>2 DEF StatusOK
        <5>2. Owes(q, d)'
          BY <2>0, <3>1, <4>0, <5>1 DEF Owes, Live
        <5> QED BY <5>2
      <4> QED BY <4>1, <4>2
    <3> QED BY <2>0, <3>1, <3>2, StatusEffect DEF StatusOK, Reached
  <2>2. CASE Ask(p) \/ Decide(p) \/ Call(p) \/ Answer(p) \/ Reply(p) \/ Unwind(p)
    <3>1. /\ told' = told
          /\ Reached' \subseteq Reached
          /\ Intact' \subseteq Intact
      BY <2>0, <2>2 DEF Ask, Decide, Call, Answer, Reply, Unwind, SendText, Reached,
         Intact
    <3>2. run'[p].pc \in {"ask", "rpc", "graph", "reply", "report"}
      BY <2>2, StepEffect DEF Becomes
    <3> QED BY <2>0, <3>1, <3>2, StatusKept DEF Live
  <2>3. CASE NeverBegin(p) \/ End(p)
    <3>1. UNCHANGED <<told, conns>> /\ run[p].pc \in {"start", "bye"}
      BY <2>3 DEF NeverBegin, End
    <3> QED BY <2>0, <3>1, StatusKept DEF Live, Reached, Intact
  <2>4. CASE Finally(p)
    <3>1. SendStatus(run[p].conn, "IDLE")
      BY <2>4 DEF Finally
    <3>2. ASSUME NEW d \in Reached', told'[d] = "THINKING"
          PROVE  \E q \in Prompt : Owes(q, d)'
      <4>0. d \in Reached /\ Intact' = Intact
        BY <2>0, <3>1, <3>2, StatusEffect
      <4>1. told[d] = "THINKING" /\ ~Owes(p, d)
        BY <2>0, <3>1, <3>2, <4>0, StatusEffect DEF Owes
      <4>2. PICK q \in Prompt : Owes(q, d)
        BY <4>0, <4>1 DEF StatusOK
      <4>3. Owes(q, d)'
        BY <2>0, <4>0, <4>1, <4>2 DEF Owes, Live
      <4> QED BY <4>3
    <3> QED BY <2>0, <3>1, <3>2, StatusEffect DEF StatusOK, Reached
  <2> QED BY <1>7, <2>1, <2>2, <2>3, <2>4 DEF Step
<1> QED
  <2>1. CASE UNCHANGED vars
    BY <2>1, StatusKept DEF Live, Reached, Intact, vars
  <2> QED BY <1>1, <1>2, <1>3, <1>4, <1>5, <1>6, <1>7, <2>1 DEF Next

-----------------------------------------------------------------------------
(* How a tool request comes to be sent.                                     *)

LEMMA IntoRpc ==
    ASSUME SessInv, [Next]_vars, NEW p \in Prompt,
           run'[p].pc = "rpc", run[p].pc # "rpc"
    PROVE  Call(p) \/ (Decide(p) /\ run[p].future = "yes")
<1> TypeOK
  BY DEF SessInv
<1>1. ASSUME NEW c \in Conn,
             Connect(c) \/ Drop(c) \/ EmailDraft(c) \/ DraftReady(c)
      PROVE  FALSE
  BY <1>1 DEF Connect, Drop, EmailDraft, DraftReady
<1>2. ASSUME NEW c \in Conn, Close(c) \/ Stop(c) PROVE FALSE
  BY <1>2, AbortAllEffect DEF Close, Stop
<1>3. ASSUME NEW c \in Conn, NEW q \in Prompt, UserMessage(c, q) PROVE FALSE
  <2>1. p = q
    BY <1>3, UserMessageEffect
  <2>2. run'[p] = Task("start", c)
    BY <1>3, <2>1, UserMessageEffect
  <2> QED BY <2>2 DEF Task
<1>4. ASSUME NEW c \in Conn, NEW i \in Id, NEW answer \in {"yes", "no"},
             Respond(c, i, answer)
      PROVE  FALSE
  BY <1>4, RespondEffect
<1>5. ASSUME NEW q \in Prompt, Step(q)
      PROVE  Call(p) \/ (Decide(p) /\ run[p].future = "yes")
  BY <1>5, StepEffect DEF Step, Becomes
<1> QED BY <1>1, <1>2, <1>3, <1>4, <1>5 DEF Next, vars

-----------------------------------------------------------------------------
(* The theorems.                                                            *)

LEMMA InvInit == Init => SessInv
<1> SUFFICES ASSUME Init PROVE SessInv
  OBVIOUS
<1>1. Task("unsent", NoConn) \in RunState
  BY BoundAssumption DEF Task, RunState, PC
<1>2. \A p \in Prompt : /\ run[p].pc = "unsent" /\ run[p].asked = 0
                        /\ run[p].future = "none"
  BY DEF Init, Task
<1>3. TypeOK
  BY <1>1 DEF Init, TypeOK
<1>4. PendingExact /\ RunsReachable /\ RunsOK /\ StoppedOK
  BY <1>2 DEF Init, PendingExact, RunsReachable, RunsOK, StoppedOK, Live
<1>5. AnswersOK /\ StatusOK
  BY <1>2 DEF Init, AnswersOK, StatusOK, Reached
<1> QED BY <1>3, <1>4, <1>5 DEF SessInv

LEMMA InvStep == SessInv /\ [Next]_vars => SessInv'
BY TypeStep, PendingStep, ReachableStep, AnswersStep, StoppedStep, StatusStep
   DEF SessInv

(* The bookkeeping of the sessions, which the properties below rest on, holds
   in every reachable state. *)
THEOREM InvariantHolds == Spec => []SessInv
BY InvInit, InvStep, PTL DEF Spec

(* Every variable keeps its type. *)
THEOREM TypeCorrect == Spec => []TypeOK
<1>1. SessInv => TypeOK
  BY DEF SessInv
<1> QED BY <1>1, InvariantHolds, PTL

(* A confirmation is registered while its task waits for it, and no longer:
   every open request can be answered, and none is left behind. *)
THEOREM PendingIsExact == Spec => []PendingExact
<1>1. SessInv => PendingExact
  BY DEF SessInv
<1> QED BY <1>1, InvariantHolds, PTL

(* A run that is not being cancelled is the one its open connection tracks, so
   that stop, the next prompt and the end of the connection reach it. *)
THEOREM EveryRunReachable == Spec => []RunsReachable
<1>1. SessInv => RunsReachable
  BY DEF SessInv
<1> QED BY <1>1, InvariantHolds, PTL

(* Whatever runs overlap, are cancelled, or lose their connection in between:
   once none is left, no client that is reached was told THINKING last. *)
THEOREM NobodyKeptThinking == Spec => []NobodyLeftThinking
<1>1. SessInv => NobodyLeftThinking
  <2> SUFFICES ASSUME SessInv, \A p \in Prompt : ~Live(p), NEW c \in Reached
               PROVE  told[c] = "IDLE"
    BY DEF NobodyLeftThinking
  <2>1. told[c] # "THINKING"
    BY DEF SessInv, StatusOK, Owes
  <2> QED BY <2>1 DEF SessInv, TypeOK, Reached
<1> QED BY <1>1, InvariantHolds, PTL

(* A critical tool is sent to the execution service only after a yes that was
   the first answer to that request. *)
THEOREM NothingUnapproved == Spec => ApprovedFirst
<1>1. ASSUME SessInv, [Next]_vars
      PROVE  [\A p \in Prompt : run[p].pc = "ask" /\ run'[p].pc = "rpc"
                                => verdict[Key(p)] = "yes"]_vars
  <2> SUFFICES ASSUME NEW p \in Prompt, run[p].pc = "ask", run'[p].pc = "rpc"
               PROVE  verdict[Key(p)] = "yes"
    OBVIOUS
  <2>1. run[p].future = "yes"
    BY <1>1, IntoRpc DEF Call, At
  <2> QED BY <1>1, <2>1 DEF SessInv, AnswersOK
<1> QED BY <1>1, InvariantHolds, PTL DEF Spec, ApprovedFirst

(* After stop, or the end of its connection, a prompt sends no tool request. *)
THEOREM StopIsFinal == Spec => StopReaches
<1>1. ASSUME SessInv, [Next]_vars
      PROVE  [\A p \in stopped : run'[p].pc = "rpc" => run[p].pc = "rpc"]_vars
  <2> SUFFICES ASSUME NEW p \in stopped, run'[p].pc = "rpc", run[p].pc # "rpc"
               PROVE  FALSE
    OBVIOUS
  <2>1. p \in Prompt
    BY <1>1 DEF SessInv, TypeOK
  <2>2. At(p, "graph") \/ At(p, "ask")
    BY <1>1, <2>1, IntoRpc DEF Call, Decide
  <2> QED BY <1>1, <2>1, <2>2 DEF At, SessInv, StoppedOK
<1> QED BY <1>1, InvariantHolds, PTL DEF Spec, StopReaches
=============================================================================
