--------------------------- MODULE ToolRpc_proofs ---------------------------
(* Proofs about ToolRpc, for all requests, faults and bounds.               *)
EXTENDS ToolRpc, FiniteSetTheorems, TLAPS

-----------------------------------------------------------------------------
(* Queues.                                                                  *)

LEMMA TakeFirst ==
    ASSUME NEW S, NEW q \in Seq(S), q # <<>>
    PROVE  /\ Tail(q) \in Seq(S)
           /\ Head(q) \in S
           /\ Head(q) \in Range(q)
           /\ Range(Tail(q)) \subseteq Range(q)
<1>1. Len(q) > 0 /\ Head(q) = q[1] /\ Tail(q) \in Seq(S)
  OBVIOUS
<1>2. \A i \in 1..Len(Tail(q)) : i + 1 \in 1..Len(q) /\ Tail(q)[i] = q[i + 1]
  BY <1>1
<1> QED BY <1>1, <1>2 DEF Range

LEMMA PutLast ==
    ASSUME NEW S, NEW q \in Seq(S), NEW x \in S
    PROVE  Append(q, x) \in Seq(S) /\ Range(Append(q, x)) \subseteq Range(q) \cup {x}
BY DEF Range

LEMMA PutFirst ==
    ASSUME NEW S, NEW q \in Seq(S), NEW x \in S
    PROVE  <<x>> \o q \in Seq(S) /\ Range(<<x>> \o q) \subseteq Range(q) \cup {x}
<1>1. <<x>> \o q \in Seq(S)
  OBVIOUS
<1>2. \A i \in 1..Len(<<x>> \o q) :
         (<<x>> \o q)[i] = x \/ (i - 1 \in 1..Len(q) /\ (<<x>> \o q)[i] = q[i - 1])
  OBVIOUS
<1> QED BY <1>1, <1>2 DEF Range

LEMMA Requeueing ==
    ASSUME TypeOK, IssuedOK
    PROVE  /\ Requeued \in Seq(Req)
           /\ \A r \in Range(Requeued) : call[r] # "new"
<1>1. CASE serving.held
  <2>1. serving.req \in Req /\ call[serving.req] # "new"
    BY <1>1 DEF IssuedOK
  <2> QED BY <1>1, <2>1, PutFirst DEF Requeued, TypeOK, IssuedOK
<1>2. CASE ~serving.held
  BY <1>2 DEF Requeued, TypeOK, IssuedOK
<1> QED BY <1>1, <1>2

-----------------------------------------------------------------------------
(* Types.                                                                   *)

LEMMA FaultType == ASSUME TypeOK, NEW kind, Fault(kind) PROVE faults' \in 0..MaxFaults
BY RpcAssumption DEF TypeOK, Fault

LEMMA FinishType ==
    ASSUME TypeOK, NEW S, NEW how \in Over, Finish(S, how)
    PROVE  /\ call' \in [Req -> {"new"} \cup Open \cup Over]
           /\ pending' \subseteq Req /\ resolved' \subseteq Req
BY DEF TypeOK, Finish

(* Every variable keeps its type. *)
LEMMA TypeStep == TypeOK /\ IssuedOK /\ [Next]_vars => TypeOK'
<1> SUFFICES ASSUME TypeOK, IssuedOK, [Next]_vars PROVE TypeOK'
  OBVIOUS
<1> USE DEF engineVars, serviceVars
<1>1. ASSUME EngineStart \/ Bind PROVE TypeOK'
  BY <1>1, FaultType DEF TypeOK, EngineStart, Bind
<1>2. ASSUME EngineDown PROVE TypeOK'
  BY <1>2, FaultType, FinishType DEF TypeOK, EngineDown, Over
<1>3. ASSUME Consume PROVE TypeOK'
  <2>1. Tail(responses) \in Seq(Req \cup {Manifest})
    BY <1>3, TakeFirst DEF TypeOK, Consume
  <2> QED BY <1>3, <2>1 DEF TypeOK, Consume
<1>4. ASSUME NEW r \in Req, Send(r) PROVE TypeOK'
  <2>1. CASE engine = "offline"
    BY <1>4, <2>1, FinishType DEF TypeOK, Send, Over
  <2>2. CASE engine # "offline"
    BY <1>4, <2>2 DEF TypeOK, Send, Open
  <2> QED BY <2>1, <2>2
<1>5. ASSUME NEW r \in Req, Publish(r) PROVE TypeOK'
  BY <1>5, PutLast DEF TypeOK, Publish, Open
<1>6. ASSUME NEW r \in Req, Confirm(r) PROVE TypeOK'
  BY <1>6 DEF TypeOK, Confirm, Open
<1>7. ASSUME NEW r \in Req, PublishFails(r) PROVE TypeOK'
  BY <1>7, FaultType, FinishType DEF TypeOK, PublishFails, Over
<1>8. ASSUME NEW r \in Req, Cancel(r) \/ Return(r) PROVE TypeOK'
  BY <1>8, FinishType DEF TypeOK, Cancel, Return, Over
<1>9. ASSUME ServiceStart PROVE TypeOK'
  BY <1>9 DEF TypeOK, ServiceStart
<1>10. ASSUME Announce PROVE TypeOK'
  <2>1. Append(responses, Manifest) \in Seq(Req \cup {Manifest})
    BY PutLast DEF TypeOK
  <2>2. /\ faults' \in 0..MaxFaults
        /\ responses' \in Seq(Req \cup {Manifest})
    BY <1>10, <2>1, FaultType DEF TypeOK, Announce
  <2> QED BY <1>10, <2>2 DEF TypeOK, Announce
<1>11. ASSUME ServiceDown \/ ReplyFails PROVE TypeOK'
  <2>1. requests' \in Seq(Req) /\ serving' = Idle /\ faults' \in 0..MaxFaults
    BY <1>11, FaultType, Requeueing DEF ServiceDown, ReplyFails
  <2> QED BY <1>11, <2>1 DEF TypeOK, ServiceDown, ReplyFails, Idle
<1>12. ASSUME LinkLost PROVE TypeOK'
  <2>1. requests' \in Seq(Req) /\ faults' \in 0..MaxFaults
    BY <1>12, FaultType, Requeueing DEF LinkLost
  <2> QED BY <1>12, <2>1 DEF TypeOK, LinkLost
<1>13. ASSUME Take PROVE TypeOK'
  <2>1. Tail(requests) \in Seq(Req) /\ Head(requests) \in Req
    BY <1>13, TakeFirst DEF TypeOK, Take
  <2> QED BY <1>13, <2>1 DEF TypeOK, Take
<1>14. ASSUME Execute PROVE TypeOK'
  <2>1. serving.req \in Req
    BY <1>14 DEF Execute, IssuedOK
  <2>2. handled' \in [Req -> Nat]
    BY <1>14, <2>1 DEF TypeOK, Execute
  <2>3. serving' = [serving EXCEPT !.phase = "ran"]
    BY <1>14 DEF Execute
  <2>4. serving' \in [req : Req \cup {NoReq}, held : BOOLEAN,
                      phase : {"idle", "running", "ran", "answered"}]
    BY <2>3 DEF TypeOK
  <2> QED BY <1>14, <2>2, <2>4 DEF TypeOK, Execute
<1>15. ASSUME Reply PROVE TypeOK'
  <2>1. serving.req \in Req \cup {Manifest}
    BY <1>15 DEF Reply, IssuedOK
  <2>2. Append(responses, serving.req) \in Seq(Req \cup {Manifest})
    BY <2>1, PutLast DEF TypeOK
  <2> QED BY <1>15, <2>2 DEF TypeOK, Reply
<1>16. ASSUME Ack PROVE TypeOK'
  BY <1>16 DEF TypeOK, Ack, Idle
<1>17. ASSUME BrokerRestart PROVE TypeOK'
  <2>1. requests' \in Seq(Req)
    BY <1>17 DEF BrokerRestart
  <2> QED BY <1>17, <2>1, FaultType, FinishType DEF TypeOK, BrokerRestart, Over
<1>18. CASE UNCHANGED vars
  BY <1>18 DEF TypeOK, vars
<1> QED
  BY <1>1, <1>2, <1>3, <1>4, <1>5, <1>6, <1>7, <1>8, <1>9, <1>10, <1>11, <1>12,
     <1>13, <1>14, <1>15, <1>16, <1>17, <1>18 DEF Next

-----------------------------------------------------------------------------
(* The futures.                                                             *)

LEMMA FinishFutures ==
    ASSUME FuturesExact, NEW S, NEW how \in Over, Finish(S, how)
    PROVE  FuturesExact'
BY DEF FuturesExact, Finish, Open, Over

(* A call and its future begin and end together. *)
LEMMA FuturesStep == TypeOK /\ FuturesExact /\ [Next]_vars => FuturesExact'
<1> SUFFICES ASSUME TypeOK, FuturesExact, [Next]_vars PROVE FuturesExact'
  OBVIOUS
<1> USE DEF engineVars, serviceVars
<1>1. ASSUME UNCHANGED <<call, pending, resolved>> PROVE FuturesExact'
  BY <1>1 DEF FuturesExact
<1>2. ASSUME EngineDown \/ BrokerRestart PROVE FuturesExact'
  BY <1>2, FinishFutures DEF EngineDown, BrokerRestart, Over
<1>3. ASSUME NEW r \in Req, PublishFails(r) \/ Cancel(r) \/ Return(r) PROVE FuturesExact'
  BY <1>3, FinishFutures DEF PublishFails, Cancel, Return, Over
<1>4. ASSUME NEW r \in Req, Send(r) PROVE FuturesExact'
  <2>1. CASE engine = "offline"
    BY <1>4, <2>1, FinishFutures DEF Send, Over
  <2>2. CASE engine # "offline"
    BY <1>4, <2>2 DEF Send, FuturesExact, TypeOK, Open
  <2> QED BY <2>1, <2>2
<1>5. ASSUME NEW r \in Req, Publish(r) \/ Confirm(r) PROVE FuturesExact'
  BY <1>5 DEF Publish, Confirm, FuturesExact, TypeOK, Open
<1>6. ASSUME Consume PROVE FuturesExact'
  BY <1>6 DEF Consume, FuturesExact
<1> QED
  BY <1>1, <1>2, <1>3, <1>4, <1>5, <1>6
  DEF Next, EngineStart, Bind, ServiceStart, Announce, ServiceDown, Take, Execute,
      Reply, ReplyFails, Ack, LinkLost, vars

-----------------------------------------------------------------------------
(* What was asked for, and what was handled.                                *)

(* A request that is queued or served was asked for. *)
LEMMA IssuedStep == TypeOK /\ IssuedOK /\ [Next]_vars => IssuedOK'
<1> SUFFICES ASSUME TypeOK, IssuedOK, [Next]_vars PROVE IssuedOK'
  OBVIOUS
<1> USE DEF engineVars, serviceVars
<1>1. \A r \in Req : call[r] # "new" => call'[r] # "new"
  BY DEF Next, EngineStart, Bind, EngineDown, Consume, Send, Publish, Confirm,
         PublishFails, Cancel, Return, ServiceStart, Announce, ServiceDown, Take,
         Execute, Reply, ReplyFails, Ack, LinkLost, BrokerRestart, Finish, TypeOK, vars
<1>2. \A r \in Range(requests) : r \in Req /\ call'[r] # "new"
  BY <1>1 DEF IssuedOK, TypeOK, Range
<1>3. /\ serving.phase # "idle" => serving.req \in Req /\ call'[serving.req] # "new"
      /\ serving.held => serving.phase # "idle"
  BY <1>1 DEF IssuedOK
<1>4. CASE UNCHANGED <<requests, serving>>
  BY <1>2, <1>3, <1>4 DEF IssuedOK
<1>5. ASSUME NEW r \in Req, Publish(r) PROVE IssuedOK'
  <2>1. Range(requests') \subseteq Range(requests) \cup {r}
    BY <1>5, PutLast DEF Publish, TypeOK
  <2>2. serving' = serving /\ call'[r] # "new"
    BY <1>5 DEF Publish, TypeOK
  <2> QED BY <1>2, <1>3, <2>1, <2>2 DEF IssuedOK
<1>6. ASSUME ServiceDown \/ ReplyFails \/ LinkLost PROVE IssuedOK'
  <2>1. requests' = Requeued /\ UNCHANGED call
    BY <1>6 DEF ServiceDown, ReplyFails, LinkLost
  <2>2. \A r \in Range(requests') : call'[r] # "new"
    BY <2>1, Requeueing
  <2>3. \/ serving' = Idle
        \/ serving' = [serving EXCEPT !.held = FALSE]
    BY <1>6 DEF ServiceDown, ReplyFails, LinkLost
  <2>4. CASE serving' = Idle
    BY <2>2, <2>4 DEF IssuedOK, Idle
  <2>5. CASE serving' = [serving EXCEPT !.held = FALSE]
    <3>1. serving'.phase = serving.phase /\ serving'.req = serving.req /\ ~serving'.held
      BY <2>5 DEF TypeOK
    <3> QED BY <1>3, <2>2, <3>1 DEF IssuedOK
  <2> QED BY <2>3, <2>4, <2>5
<1>7. ASSUME Take PROVE IssuedOK'
  <2>1. /\ Head(requests) \in Range(requests)
        /\ Range(requests') \subseteq Range(requests)
    BY <1>7, TakeFirst DEF Take, TypeOK
  <2>2. serving' = [req |-> Head(requests), phase |-> "running", held |-> TRUE]
    BY <1>7 DEF Take
  <2> QED BY <1>2, <2>1, <2>2 DEF IssuedOK
<1>8. ASSUME Execute \/ Reply \/ Ack PROVE IssuedOK'
  <2>1. /\ requests' = requests
        /\ \/ serving' = Idle
           \/ /\ serving.phase # "idle"
              /\ \E phase \in {"ran", "answered"} : serving' = [serving EXCEPT !.phase = phase]
    BY <1>8 DEF Execute, Reply, Ack
  <2> QED BY <1>2, <1>3, <2>1 DEF IssuedOK, Idle, TypeOK
<1>9. ASSUME BrokerRestart PROVE IssuedOK'
  <2>1. requests' = <<>> /\ serving' = [serving EXCEPT !.held = FALSE]
    BY <1>9 DEF BrokerRestart
  <2>2. Range(requests') = {}
    BY <2>1 DEF Range
  <2> QED BY <1>3, <2>1, <2>2 DEF IssuedOK, TypeOK
<1> QED
  BY <1>4, <1>5, <1>6, <1>7, <1>8, <1>9
  DEF Next, EngineStart, Bind, EngineDown, Consume, Send, Confirm, PublishFails,
      Cancel, Return, ServiceStart, Announce, vars

(* An answer is an answer to what was handled. *)
LEMMA HandledStep == RpcInv /\ [Next]_vars => HandledOK'
<1> SUFFICES ASSUME RpcInv, [Next]_vars PROVE HandledOK'
  OBVIOUS
<1> USE DEF engineVars, serviceVars
<1> TypeOK /\ FuturesExact /\ HandledOK /\ IssuedOK
  BY DEF RpcInv
<1>1. \A r \in Req : handled[r] \in Nat
  BY DEF TypeOK
<1>2. ASSUME NEW S, NEW how \in Over, Finish(S, how), handled' = handled,
             UNCHANGED <<responses, serving>> \/
               (responses' = responses /\ serving' = [serving EXCEPT !.held = FALSE]),
             how = "returned" => \A r \in S : r \in resolved
      PROVE  HandledOK'
  BY <1>2 DEF HandledOK, Finish, TypeOK
<1>3. CASE UNCHANGED <<call, resolved, responses, handled, serving>>
  BY <1>3 DEF HandledOK
<1>4. ASSUME EngineDown \/ BrokerRestart PROVE HandledOK'
  BY <1>2, <1>4 DEF EngineDown, BrokerRestart, Over
<1>5. ASSUME NEW r \in Req, PublishFails(r) \/ Cancel(r) \/ Return(r) PROVE HandledOK'
  BY <1>2, <1>5 DEF PublishFails, Cancel, Return, Over
<1>6. ASSUME NEW r \in Req, Send(r) PROVE HandledOK'
  <2>1. CASE engine = "offline"
    BY <1>2, <1>6, <2>1 DEF Send, Over
  <2>2. CASE engine # "offline"
    BY <1>6, <2>2 DEF Send, HandledOK, TypeOK
  <2> QED BY <2>1, <2>2
<1>7. ASSUME NEW r \in Req, Publish(r) \/ Confirm(r) PROVE HandledOK'
  BY <1>7 DEF Publish, Confirm, HandledOK, TypeOK
<1>8. ASSUME Consume PROVE HandledOK'
  <2>1. /\ Head(responses) \in Range(responses)
        /\ Range(responses') \subseteq Range(responses)
    BY <1>8, TakeFirst DEF Consume, TypeOK
  <2>2. \A r \in resolved' : r \in resolved \/ (r = Head(responses) /\ r # Manifest)
    BY <1>8 DEF Consume
  <2>3. UNCHANGED <<call, handled, serving>>
    BY <1>8 DEF Consume
  <2> QED BY <2>1, <2>2, <2>3 DEF HandledOK
<1>9. ASSUME Announce PROVE HandledOK'
  <2>1. Range(responses') \subseteq Range(responses) \cup {Manifest}
    <3>1. responses \in Seq(Req \cup {Manifest})
      BY DEF TypeOK
    <3>2. Range(Append(responses, Manifest)) \subseteq Range(responses) \cup {Manifest}
      BY <3>1, PutLast
    <3> QED BY <1>9, <3>2 DEF Announce
  <2> QED BY <1>9, <2>1 DEF Announce, HandledOK
<1>10. ASSUME ServiceDown \/ ReplyFails \/ Take \/ Ack PROVE HandledOK'
  <2>1. /\ UNCHANGED <<call, resolved, responses, handled>>
        /\ serving'.phase \in {"idle", "running"}
    BY <1>10 DEF ServiceDown, ReplyFails, Take, Ack, Idle
  <2> QED BY <2>1 DEF HandledOK
<1>11. ASSUME LinkLost PROVE HandledOK'
  BY <1>11 DEF LinkLost, HandledOK, TypeOK
<1>12. ASSUME Execute PROVE HandledOK'
  <2>1. /\ serving.req \in Req
        /\ UNCHANGED <<call, resolved, responses>>
        /\ serving'.req = serving.req
    BY <1>12 DEF Execute, IssuedOK, TypeOK
  <2>2. \A r \in Req : /\ handled[r] > 0 => handled'[r] > 0
                       /\ r = serving.req => handled'[r] > 0
    BY <1>1, <1>12 DEF Execute, TypeOK
  <2>3. \A r \in Range(responses) : r # Manifest => r \in Req
    BY DEF TypeOK, Range
  <2> QED BY <2>1, <2>2, <2>3 DEF HandledOK
<1>13. ASSUME Reply PROVE HandledOK'
  <2>1. /\ serving.req \in Req /\ handled[serving.req] > 0
        /\ serving'.req = serving.req
        /\ UNCHANGED <<call, resolved, handled>>
    BY <1>13 DEF Reply, IssuedOK, HandledOK, TypeOK
  <2>2. Range(responses') \subseteq Range(responses) \cup {serving.req}
    <3>1. responses \in Seq(Req \cup {Manifest}) /\ serving.req \in Req \cup {Manifest}
      BY <2>1 DEF TypeOK
    <3>2. Range(Append(responses, serving.req)) \subseteq Range(responses) \cup {serving.req}
      BY <3>1, PutLast
    <3> QED BY <1>13, <3>2 DEF Reply
  <2> QED BY <2>1, <2>2 DEF HandledOK
<1> QED
  BY <1>3, <1>4, <1>5, <1>6, <1>7, <1>8, <1>9, <1>10, <1>11, <1>12, <1>13
  DEF Next, EngineStart, Bind, ServiceStart, vars

-----------------------------------------------------------------------------
(* How often a request is in a queue.                                       *)

Places(q, r) == {i \in DOMAIN q : q[i] = r}
Times(q, r) == Cardinality(Places(q, r))

LEMMA TimesType ==
    ASSUME NEW S, NEW q \in Seq(S), NEW r
    PROVE  IsFiniteSet(Places(q, r)) /\ Times(q, r) \in Nat
<1>1. IsFiniteSet(1..Len(q))
  BY FS_Interval
<1>2. Places(q, r) \subseteq 1..Len(q)
  BY DEF Places
<1> QED BY <1>1, <1>2, FS_Subset, FS_CardinalityType DEF Times

LEMMA TimesNone == \A r : Times(<<>>, r) = 0
BY FS_EmptySet DEF Times, Places

LEMMA TimesLast ==
    ASSUME NEW S, NEW q \in Seq(S), NEW x \in S, NEW r
    PROVE  Times(Append(q, x), r) = Times(q, r) + (IF x = r THEN 1 ELSE 0)
<1>1. IsFiniteSet(Places(q, r)) /\ Times(q, r) \in Nat
  BY TimesType
<1>2. CASE x = r
  <2>1. Places(Append(q, x), r) = Places(q, r) \cup {Len(q) + 1}
    BY <1>2 DEF Places
  <2>2. Len(q) + 1 \notin Places(q, r)
    BY DEF Places
  <2> QED BY <1>1, <1>2, <2>1, <2>2, FS_AddElement DEF Times
<1>3. CASE x # r
  <2>1. Places(Append(q, x), r) = Places(q, r)
    BY <1>3 DEF Places
  <2> QED BY <1>1, <1>3, <2>1 DEF Times
<1> QED BY <1>2, <1>3

LEMMA TimesFirst ==
    ASSUME NEW S, NEW q \in Seq(S), NEW x \in S, NEW r
    PROVE  Times(<<x>> \o q, r) = Times(q, r) + (IF x = r THEN 1 ELSE 0)
<1> DEFINE A == Places(q, r)
           B == Places(<<x>> \o q, r) \ {1}
           f == [i \in A |-> i + 1]
<1>1. IsFiniteSet(A) /\ Times(q, r) \in Nat
  BY TimesType
<1>2. \A i \in Nat : i + 1 \in DOMAIN (<<x>> \o q) /\ i # 0
                     <=> i \in DOMAIN q
  OBVIOUS
<1>3. \A i \in DOMAIN q : (<<x>> \o q)[i + 1] = q[i]
  OBVIOUS
<1>4. A \subseteq Nat /\ B \subseteq Nat /\ 0 \notin B
  BY DEF Places
<1>5. f \in Bijection(A, B)
  <2>1. f \in [A -> B]
    BY <1>2, <1>3, <1>4 DEF Places
  <2>2. \A i, j \in A : f[i] = f[j] => i = j
    BY <1>4
  <2>3. \A j \in B : \E i \in A : f[i] = j
    <3> SUFFICES ASSUME NEW j \in B PROVE j - 1 \in A
      BY <1>4
    <3>1. j - 1 \in Nat /\ (j - 1) + 1 = j /\ j - 1 # 0
      BY <1>4
    <3> QED BY <1>2, <1>3, <3>1 DEF Places
  <2> QED BY <2>1, <2>2, <2>3 DEF Bijection, Injection, Surjection, IsInjective
<1>6. IsFiniteSet(B) /\ Cardinality(B) = Times(q, r)
  BY <1>1, <1>5, FS_Bijection DEF ExistsBijection, Times
<1>7. 1 \in DOMAIN (<<x>> \o q) /\ (<<x>> \o q)[1] = x
  OBVIOUS
<1>8. CASE x = r
  <2>1. Places(<<x>> \o q, r) = B \cup {1} /\ 1 \notin B
    BY <1>7, <1>8 DEF Places
  <2> HIDE DEF B
  <2>2. Cardinality(B \cup {1}) = Cardinality(B) + 1
    BY <1>6, <2>1, FS_AddElement
  <2>3. Times(<<x>> \o q, r) = Cardinality(B \cup {1})
    BY <2>1 DEF Times
  <2> QED BY <1>6, <1>8, <2>2, <2>3
<1>9. CASE x # r
  <2>1. Places(<<x>> \o q, r) = B
    BY <1>7, <1>9 DEF Places
  <2> HIDE DEF B
  <2>2. Times(<<x>> \o q, r) = Cardinality(B)
    BY <2>1 DEF Times
  <2> QED BY <1>1, <1>6, <1>9, <2>2
<1> QED BY <1>8, <1>9

LEMMA TimesTail ==
    ASSUME NEW S, NEW q \in Seq(S), q # <<>>, NEW r
    PROVE  Times(Tail(q), r) + (IF Head(q) = r THEN 1 ELSE 0) = Times(q, r)
<1>1. PICK h \in S, t \in Seq(S) : h = Head(q) /\ t = Tail(q)
  BY TakeFirst
<1>2. <<h>> \o t = q
  BY <1>1
<1>3. Times(<<h>> \o t, r) = Times(t, r) + (IF h = r THEN 1 ELSE 0)
  BY TimesFirst
<1> QED BY <1>1, <1>2, <1>3

-----------------------------------------------------------------------------
(* What pays for the repeats.                                               *)

LEMMA LoadType ==
    ASSUME TypeOK, NEW r \in Req
    PROVE  /\ Copies(r) = Times(requests, r)
           /\ Copies(r) \in Nat /\ Load(r) \in Nat
           /\ Load(r) = handled[r] + Times(requests, r)
                        + (IF Running(r) THEN 1 ELSE 0)
<1>1. Copies(r) = Times(requests, r)
  BY DEF Copies, Times, Places
<1>2. Times(requests, r) \in Nat
  BY TimesType DEF TypeOK
<1> QED BY <1>1, <1>2 DEF Load, TypeOK

LEMMA LoadTypeNext ==
    ASSUME TypeOK', NEW r \in Req
    PROVE  /\ Load(r)' \in Nat
           /\ Load(r)' = handled'[r] + Times(requests', r)
                         + (IF Running(r)' THEN 1 ELSE 0)
<1>1. Copies(r)' = Times(requests', r)
  BY DEF Copies, Times, Places
<1>2. Times(requests', r) \in Nat
  BY TimesType DEF TypeOK
<1> QED BY <1>1, <1>2 DEF Load, TypeOK

\* The step of a fault, and of no fault, as far as the repeats are concerned.
LEMMA PaidKept ==
    ASSUME TypeOK, TypeOK', PaidOK, faults' >= faults,
           \A q \in Req : Load(q)' <= Load(q) \/ Load(q)' <= 1
    PROVE  IsFiniteSet(Owed') /\ Cardinality(Owed') <= faults'
<1>1. Owed' \subseteq Owed
  BY LoadType, LoadTypeNext DEF Owed
<1>2. IsFiniteSet(Owed') /\ Cardinality(Owed') <= Cardinality(Owed)
  BY <1>1, FS_Subset DEF PaidOK
<1>3. Cardinality(Owed) \in Nat /\ Cardinality(Owed') \in Nat
  BY <1>2, FS_CardinalityType DEF PaidOK
<1> QED BY <1>2, <1>3 DEF PaidOK, TypeOK

LEMMA PaidByFault ==
    ASSUME TypeOK, TypeOK', PaidOK, faults' = faults + 1, NEW r \in Req,
           Load(r)' <= Load(r) + 1,
           \A q \in Req : q # r => Load(q)' <= Load(q)
    PROVE  IsFiniteSet(Owed') /\ Cardinality(Owed') <= faults'
<1> DEFINE T == Owed \cup {<<r, Load(r) + 1>>}
<1>1. Owed' \subseteq T
  <2> SUFFICES ASSUME NEW q \in Req, NEW n \in 2..Load(q)' PROVE <<q, n>> \in T
    BY DEF Owed
  <2>1. Load(q) \in Nat /\ Load(q)' \in Nat
    BY LoadType, LoadTypeNext
  <2>2. n \in 2..Load(q) \/ (q = r /\ n = Load(r) + 1)
    BY <2>1
  <2> QED BY <2>2 DEF Owed
<1>2. /\ IsFiniteSet(T)
      /\ Cardinality(T) <= Cardinality(Owed) + 1
  <2>1. IsFiniteSet(Owed) /\ Cardinality(Owed) \in Nat
    BY FS_CardinalityType DEF PaidOK
  <2> QED BY <2>1, FS_AddElement
<1>3. IsFiniteSet(Owed') /\ Cardinality(Owed') <= Cardinality(T)
  BY <1>1, <1>2, FS_Subset
<1>4. /\ Cardinality(Owed) \in Nat /\ Cardinality(T) \in Nat
      /\ Cardinality(Owed') \in Nat
  BY <1>2, <1>3, FS_CardinalityType DEF PaidOK
<1> QED BY <1>2, <1>3, <1>4 DEF PaidOK, TypeOK

\* A step that brings no request back.
LEMMA PaidFree ==
    ASSUME TypeOK, TypeOK', PaidOK, faults' >= faults,
           \A q \in Req : Load(q)' <= Load(q),
           \A q \in Req : call'[q] \in {"new", "sending"}
                             => call[q] \in {"new", "sending"}
    PROVE  PaidOK'
<1>1. IsFiniteSet(Owed') /\ Cardinality(Owed') <= faults'
  BY PaidKept
<1>2. \A q \in Req : Load(q) \in Nat /\ Load(q)' \in Nat
  BY LoadType, LoadTypeNext
<1> QED BY <1>1, <1>2 DEF PaidOK

\* What a delivery that is not going to be acknowledged adds to the queue.
LEMMA RequeuedTimes ==
    ASSUME TypeOK, IssuedOK, NEW q \in Req
    PROVE  Times(Requeued, q)
             = Times(requests, q) + (IF serving.held /\ serving.req = q THEN 1 ELSE 0)
<1>1. CASE serving.held
  <2>1. serving.req \in Req
    BY <1>1 DEF IssuedOK
  <2> QED BY <1>1, <2>1, TimesFirst DEF Requeued, TypeOK
<1>2. CASE ~serving.held
  BY <1>2, TimesType DEF Requeued, TypeOK
<1> QED BY <1>1, <1>2

LEMMA RequeueStep ==
    ASSUME RpcInv, TypeOK', faults' = faults + 1, requests' = Requeued,
           UNCHANGED <<handled, call>>,
           \/ serving' = Idle
           \/ serving.held /\ serving' = [serving EXCEPT !.held = FALSE]
    PROVE  PaidOK'
<1> TypeOK /\ HandledOK /\ IssuedOK /\ PaidOK
  BY DEF RpcInv
<1>1. \A q \in Req : Running(q)' => Running(q)
  BY DEF Running, Idle, TypeOK
<1>2. ASSUME NEW q \in Req
      PROVE  /\ Load(q) \in Nat /\ Load(q)' \in Nat
             /\ Load(q)' <= Load(q) + 1
             /\ ~(serving.held /\ serving.req = q) => Load(q)' <= Load(q)
  <2>1. Times(requests', q) = Times(requests, q)
                              + (IF serving.held /\ serving.req = q THEN 1 ELSE 0)
    BY RequeuedTimes
  <2>2. Times(requests, q) \in Nat /\ handled[q] \in Nat
    BY TimesType DEF TypeOK
  <2> HIDE DEF Load, Times
  <2> QED BY <1>1, <2>1, <2>2, LoadType, LoadTypeNext
<1>3. CASE serving.held
  <2>1. serving.req \in Req /\ serving.phase # "idle"
    BY <1>3 DEF IssuedOK
  <2>2. Load(serving.req) > 0
    <3>1. handled[serving.req] > 0 \/ Running(serving.req)
      BY <2>1 DEF HandledOK, Running, TypeOK
    <3>2. Times(requests, serving.req) \in Nat /\ handled[serving.req] \in Nat
      BY <2>1, TimesType DEF TypeOK
    <3> QED BY <2>1, <3>1, <3>2, LoadType
  <2>3. call[serving.req] \notin {"new", "sending"}
    BY <2>1, <2>2, <1>2 DEF PaidOK
  <2>4. IsFiniteSet(Owed') /\ Cardinality(Owed') <= faults'
    BY <1>2, <2>1, PaidByFault
  <2>5. \A q \in Req : call'[q] \in {"new", "sending"} => Load(q)' = 0
    BY <1>2, <2>3 DEF PaidOK
  <2> QED BY <2>4, <2>5 DEF PaidOK
<1>4. CASE ~serving.held
  <2>1. \A q \in Req : Load(q)' <= Load(q)
    BY <1>2, <1>4
  <2>2. faults' >= faults
    BY DEF TypeOK
  <2> QED BY <2>1, <2>2, PaidFree
<1> QED BY <1>3, <1>4

(* A repeat that is under way has been paid for. *)
LEMMA PaidStep == RpcInv /\ [Next]_vars => PaidOK'
<1> SUFFICES ASSUME RpcInv, [Next]_vars PROVE PaidOK'
  OBVIOUS
<1> USE DEF engineVars, serviceVars
<1> TypeOK /\ TypeOK' /\ IssuedOK /\ PaidOK
  BY TypeStep DEF RpcInv
<1>0. \A q \in Req : /\ Load(q) \in Nat /\ Load(q)' \in Nat
                     /\ Times(requests, q) \in Nat /\ Times(requests', q) \in Nat
                     /\ handled[q] \in Nat
                     /\ Load(q) = handled[q] + Times(requests, q)
                                  + (IF Running(q) THEN 1 ELSE 0)
                     /\ Load(q)' = handled'[q] + Times(requests', q)
                                   + (IF Running(q)' THEN 1 ELSE 0)
  BY LoadType, LoadTypeNext, TimesType DEF TypeOK
<1>1. ASSUME UNCHANGED <<requests, serving, handled>>,
             faults' >= faults,
             \A q \in Req : call'[q] \in {"new", "sending"}
                               => call[q] \in {"new", "sending"}
      PROVE  PaidOK'
  <2>1. \A q \in Req : Load(q)' = Load(q)
    BY <1>0, <1>1 DEF Running
  <2> QED BY <1>0, <1>1, <2>1, PaidFree
<1>2. ASSUME NEW S, NEW how \in Over, Finish(S, how), NEW q \in Req,
             call'[q] \in {"new", "sending"}
      PROVE  call[q] \in {"new", "sending"}
  BY <1>2 DEF Finish, Over, TypeOK
<1>3. faults' >= faults
  <2>1. faults' = faults \/ faults' = faults + 1
    BY DEF Next, EngineStart, Bind, EngineDown, Consume, Send, Publish, Confirm,
           PublishFails, Cancel, Return, ServiceStart, Announce, ServiceDown, Take,
           Execute, Reply, ReplyFails, Ack, LinkLost, BrokerRestart, Fault, vars
  <2> QED BY <2>1 DEF TypeOK
<1>4. ASSUME EngineDown PROVE PaidOK'
  BY <1>1, <1>2, <1>3, <1>4 DEF EngineDown, Over
<1>5. ASSUME NEW r \in Req, PublishFails(r) \/ Cancel(r) \/ Return(r) PROVE PaidOK'
  BY <1>1, <1>2, <1>3, <1>5 DEF PublishFails, Cancel, Return, Over
<1>6. ASSUME NEW r \in Req, Send(r) PROVE PaidOK'
  <2>1. \A q \in Req : call'[q] \in {"new", "sending"} => call[q] \in {"new", "sending"}
    BY <1>2, <1>6 DEF Send, Over, TypeOK
  <2> QED BY <1>1, <1>3, <1>6, <2>1 DEF Send
<1>7. ASSUME NEW r \in Req, Publish(r) PROVE PaidOK'
  <2>1. \A q \in Req : Times(requests', q) <= Times(requests, q) + (IF q = r THEN 1 ELSE 0)
    <3> SUFFICES ASSUME NEW q \in Req
                 PROVE  Times(requests', q) <= Times(requests, q) + (IF q = r THEN 1 ELSE 0)
      OBVIOUS
    <3>1. Times(Append(requests, r), q) = Times(requests, q) + (IF r = q THEN 1 ELSE 0)
      BY TimesLast DEF TypeOK
    <3>2. requests' = requests \/ requests' = Append(requests, r)
      BY <1>7 DEF Publish
    <3>3. Times(requests, q) \in Nat
      BY <1>0
    <3>4. CASE requests' = requests
      BY <3>3, <3>4
    <3>5. CASE requests' = Append(requests, r)
      <4>1. Times(requests', q) = Times(requests, q) + (IF r = q THEN 1 ELSE 0)
        BY <3>1, <3>5
      <4> QED BY <3>3, <4>1
    <3> QED BY <3>2, <3>4, <3>5
  <2>2. UNCHANGED <<handled, serving>>
    BY <1>7 DEF Publish
  <2>3. \A q \in Req : Load(q)' <= Load(q) + (IF q = r THEN 1 ELSE 0)
    BY <1>0, <2>1, <2>2 DEF Running
  <2>4. Load(r) = 0
    BY <1>7 DEF Publish, PaidOK
  <2>5. IsFiniteSet(Owed') /\ Cardinality(Owed') <= faults'
    BY <1>0, <1>3, <2>3, <2>4, PaidKept
  <2>6. \A q \in Req : call'[q] \in {"new", "sending"}
                          => q # r /\ call[q] \in {"new", "sending"}
    BY <1>7 DEF Publish, TypeOK
  <2> QED BY <1>0, <2>3, <2>5, <2>6 DEF PaidOK
<1>8. ASSUME NEW r \in Req, Confirm(r) PROVE PaidOK'
  <2>1. \A q \in Req : call'[q] \in {"new", "sending"} => call[q] \in {"new", "sending"}
    BY <1>8 DEF Confirm, TypeOK
  <2> QED BY <1>1, <1>3, <1>8, <2>1 DEF Confirm
<1>9. ASSUME ServiceDown \/ ReplyFails \/ LinkLost PROVE PaidOK'
  BY <1>9, RequeueStep DEF ServiceDown, ReplyFails, LinkLost, Fault
<1>10. ASSUME Take PROVE PaidOK'
  <2>1. /\ serving' = [req |-> Head(requests), phase |-> "running", held |-> TRUE]
        /\ UNCHANGED <<handled, call>>
        /\ ~(\E q \in Req : Running(q))
    BY <1>10 DEF Take, Running
  <2>2. \A q \in Req : Running(q)' <=> Head(requests) = q
    BY <2>1 DEF Running
  <2>3. \A q \in Req : Times(requests', q) + (IF Head(requests) = q THEN 1 ELSE 0)
                           = Times(requests, q)
    BY <1>10, TimesTail DEF Take, TypeOK
  <2>4. \A q \in Req : Load(q)' <= Load(q)
    BY <1>0, <2>1, <2>2, <2>3
  <2> QED BY <1>3, <2>1, <2>4, PaidFree
<1>11. ASSUME Execute PROVE PaidOK'
  <2>1. serving.req \in Req
    BY <1>11 DEF Execute, IssuedOK
  <2>2. UNCHANGED <<requests, call>>
    BY <1>11 DEF Execute
  <2>3. \A q \in Req : /\ handled'[q] = handled[q] + (IF Running(q) THEN 1 ELSE 0)
                       /\ ~Running(q)'
    BY <1>11, <2>1 DEF Execute, Running, TypeOK
  <2>4. \A q \in Req : Load(q)' <= Load(q)
    BY <1>0, <2>2, <2>3
  <2> QED BY <1>3, <2>2, <2>4, PaidFree
<1>12. ASSUME Reply \/ Ack PROVE PaidOK'
  <2>1. /\ UNCHANGED <<requests, handled, call>>
        /\ \A q \in Req : ~Running(q)'
    BY <1>12 DEF Reply, Ack, Running, Idle, TypeOK
  <2>2. \A q \in Req : Load(q)' <= Load(q)
    BY <1>0, <2>1
  <2> QED BY <1>3, <2>1, <2>2, PaidFree
<1>13. ASSUME BrokerRestart PROVE PaidOK'
  <2>1. requests' = <<>> /\ handled' = handled
        /\ serving' = [serving EXCEPT !.held = FALSE]
    BY <1>13 DEF BrokerRestart
  <2>2. \A q \in Req : Running(q)' = Running(q) /\ Times(requests', q) = 0
    BY <2>1, TimesNone DEF Running, TypeOK
  <2>3. \A q \in Req : Load(q)' <= Load(q)
    BY <1>0, <2>1, <2>2
  <2>4. \A q \in Req : call'[q] \in {"new", "sending"} => call[q] \in {"new", "sending"}
    BY <1>2, <1>13 DEF BrokerRestart, Over
  <2> QED BY <1>3, <2>3, <2>4, PaidFree
<1> QED
  BY <1>1, <1>3, <1>4, <1>5, <1>6, <1>7, <1>8, <1>9, <1>10, <1>11, <1>12, <1>13
  DEF Next, EngineStart, Bind, ServiceStart, Consume, Announce, vars

-----------------------------------------------------------------------------
(* The theorems.                                                            *)

LEMMA InvInit == Init => RpcInv
<1> SUFFICES ASSUME Init PROVE RpcInv
  OBVIOUS
<1>1. requests = <<>> /\ responses = <<>> /\ Range(<<>>) = {}
  BY DEF Init, Range
<1>2. TypeOK
  BY RpcAssumption DEF Init, TypeOK, Idle
<1>3. FuturesExact
  BY DEF Init, FuturesExact, Open
<1>4. HandledOK /\ IssuedOK
  BY <1>1 DEF Init, HandledOK, IssuedOK, Idle
<1>5. \A r \in Req : Load(r) = 0
  BY <1>1, <1>2, LoadType, TimesNone DEF Init, Running, Idle
<1>6. Owed = {}
  BY <1>5 DEF Owed
<1>7. PaidOK
  BY <1>5, <1>6, FS_EmptySet DEF Init, PaidOK
<1> QED BY <1>2, <1>3, <1>4, <1>7 DEF RpcInv

LEMMA InvStep == RpcInv /\ [Next]_vars => RpcInv'
BY TypeStep, FuturesStep, IssuedStep, HandledStep, PaidStep DEF RpcInv

(* The bookkeeping of requests, futures and answers holds in every reachable
   state. *)
THEOREM InvariantHolds == Spec => []RpcInv
BY InvInit, InvStep, PTL DEF Spec

(* Every variable keeps its type. *)
THEOREM TypeCorrect == Spec => []TypeOK
<1>1. RpcInv => TypeOK
  BY DEF RpcInv
<1> QED BY <1>1, InvariantHolds, PTL

(* A future is in pending_futures exactly while its call runs, however the call
   ends: returned, raised or cancelled. *)
THEOREM NoFutureLeaks == Spec => []FuturesExact
<1>1. RpcInv => FuturesExact
  BY DEF RpcInv
<1> QED BY <1>1, InvariantHolds, PTL

(* Redelivery after a crash, a lost connection or a failed answer repeats a
   request, but each such fault repeats one request once, and nothing else does:
   without faults no request is handled twice. *)
THEOREM RepeatsArePaid == Spec => []RepeatsPaid
<1>1. RpcInv => RepeatsPaid
  <2> SUFFICES ASSUME RpcInv PROVE RepeatsPaid
    OBVIOUS
  <2> TypeOK /\ PaidOK
    BY DEF RpcInv
  <2>1. \A r \in Req : handled[r] \in Nat /\ Load(r) \in Nat /\ handled[r] <= Load(r)
    <3> SUFFICES ASSUME NEW r \in Req
                 PROVE  handled[r] \in Nat /\ Load(r) \in Nat /\ handled[r] <= Load(r)
      OBVIOUS
    <3>1. Times(requests, r) \in Nat /\ handled[r] \in Nat
      BY TimesType DEF TypeOK
    <3> QED BY <3>1, LoadType
  <2>2. Repeats \subseteq Owed
    BY <2>1 DEF Repeats, Owed
  <2>3. /\ IsFiniteSet(Repeats) /\ Cardinality(Repeats) <= Cardinality(Owed)
        /\ Cardinality(Owed) \in Nat /\ Cardinality(Repeats) \in Nat
    BY <2>2, FS_Subset, FS_CardinalityType DEF PaidOK
  <2> QED BY <2>3 DEF PaidOK, RepeatsPaid, TypeOK
<1> QED BY <1>1, InvariantHolds, PTL

LEMMA RemoteInit == Init => Remote!Init
<1> SUFFICES ASSUME Init PROVE Remote!Init
  OBVIOUS
<1>1. \A r \in Req : RemoteOutcome(call[r]) = "none"
  BY DEF Init, RemoteOutcome, Open
<1>2. handled = [r \in Req |-> 0]
  BY DEF Init
<1> QED BY <1>1, <1>2 DEF Remote!Init

LEMMA RemoteFinish ==
    ASSUME TypeOK, NEW S \in SUBSET Req, NEW how \in Over \ {"returned"},
           Finish(S, how), handled' = handled,
           \A r \in S : call[r] \in {"new"} \cup Open
    PROVE  Remote!Next
<1> DEFINE o == [r \in Req |-> RemoteOutcome(call[r])]
<1>1. \A r \in S : RemoteOutcome(call[r]) \in {"none", "open"}
  BY DEF RemoteOutcome, Open
<1>2. \A r \in Req : RemoteOutcome(call'[r])
                      = IF r \in S THEN "failed" ELSE RemoteOutcome(call[r])
  BY DEF Finish, RemoteOutcome, Open, Over
<1>3. Remote!Fail(S)
  BY <1>1, <1>2 DEF Remote!Fail
<1> QED BY <1>3 DEF Remote!Next

LEMMA RemoteStep == RpcInv /\ [Next]_vars => [Remote!Next]_(Remote!vars)
<1> SUFFICES ASSUME RpcInv, [Next]_vars PROVE [Remote!Next]_(Remote!vars)
  OBVIOUS
<1> USE DEF engineVars, serviceVars
<1> TypeOK /\ HandledOK /\ IssuedOK
  BY DEF RpcInv
<1>1. CASE UNCHANGED <<call, handled>>
  BY <1>1 DEF Remote!vars
<1>2. ASSUME NEW r \in Req, Send(r) PROVE Remote!Next
  <2>1. CASE engine = "offline"
    BY <1>2, <2>1, RemoteFinish DEF Send, Over
  <2>2. CASE engine # "offline"
    <3>1. Remote!Issue(r)
      BY <1>2, <2>2 DEF Send, Remote!Issue, RemoteOutcome, TypeOK, Open
    <3> QED BY <3>1 DEF Remote!Next
  <2> QED BY <2>1, <2>2
<1>3. ASSUME NEW r \in Req, Publish(r) \/ Confirm(r) PROVE UNCHANGED Remote!vars
  BY <1>3 DEF Publish, Confirm, Remote!vars, RemoteOutcome, TypeOK, Open
<1>4. ASSUME NEW r \in Req, PublishFails(r) \/ Cancel(r) PROVE Remote!Next
  BY <1>4, RemoteFinish DEF PublishFails, Cancel, Over, Open
<1>5. ASSUME EngineDown \/ BrokerRestart PROVE Remote!Next
  BY <1>5, RemoteFinish DEF EngineDown, BrokerRestart, Over, Open
<1>6. ASSUME NEW r \in Req, Return(r) PROVE Remote!Next
  <2>1. handled[r] > 0
    BY <1>6 DEF Return, HandledOK
  <2>2. Remote!Return(r)
    BY <1>6, <2>1 DEF Return, Finish, Remote!Return, RemoteOutcome, TypeOK, Open
  <2> QED BY <2>2 DEF Remote!Next
<1>7. ASSUME Execute PROVE Remote!Next
  <2>1. serving.req \in Req /\ call[serving.req] # "new"
    BY <1>7 DEF Execute, IssuedOK
  <2>2. RemoteOutcome(call[serving.req]) # "none"
    BY <2>1 DEF RemoteOutcome
  <2>3. Remote!Handle(serving.req)
    BY <1>7, <2>1, <2>2 DEF Execute, Remote!Handle
  <2> QED BY <2>1, <2>3 DEF Remote!Next
<1> QED
  BY <1>1, <1>2, <1>3, <1>4, <1>5, <1>6, <1>7
  DEF Next, EngineStart, Bind, Consume, ServiceStart, Announce, ServiceDown, Take,
      Reply, ReplyFails, Ack, LinkLost, vars

(* send_and_wait implements RemoteCall: what returns was handled before. *)
THEOREM ReturnsWereHandled == Spec => ReturnsAfterHandling
BY RemoteInit, RemoteStep, InvariantHolds, PTL
DEF Spec, ReturnsAfterHandling, Remote!Spec
=============================================================================
