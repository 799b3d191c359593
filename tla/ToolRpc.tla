------------------------------- MODULE ToolRpc -------------------------------
(***************************************************************************)
(* Tool requests over RabbitMQ: send_and_wait and start_consuming of the   *)
(* reasoning engine (rabbitmq.py), the listener and the broadcaster of the *)
(* execution service, the discovery handler (rabbitmq_listener.py), and    *)
(* the broker between them.                                                *)
(*                                                                         *)
(* The engine publishes transient messages and waits for the confirm of    *)
(* the broker; the service publishes persistent ones.  The broker holds a  *)
(* delivery until it is acknowledged and hands it out again, ahead of the  *)
(* rest, when its consumer goes away.  A message without a queue bound to  *)
(* its routing key is dropped, silently on either side.                    *)
(***************************************************************************)
EXTENDS Integers, Sequences, FiniteSets, Functions

CONSTANTS
    Req,        \* requests, by correlation id
    NoReq,      \* no request
    Routable,   \* requests whose tool name is one word, as tool.request.* asks
    Manifest,   \* the tool registry broadcast
    Declared,   \* the queues exist already when the system is started
    Faults,     \* the kinds of fault that occur
    MaxFaults   \* bound on the faults of a behaviour

ASSUME RpcAssumption ==
    /\ NoReq \notin Req /\ Manifest \notin Req
    /\ Routable \subseteq Req
    /\ Declared \in BOOLEAN
    /\ Faults \subseteq {"engine", "service", "broker", "link"}
    /\ MaxFaults \in Nat

VARIABLES
    engine,     \* "down", "up", "consuming", or "offline": it never connected
    call,       \* where each call of send_and_wait is
    pending,    \* the keys of pending_futures
    resolved,   \* those of them whose future has its result
    registry,   \* whose tools are in dynamic_tools
    declared,   \* execution_service_queue exists
    bound,      \* reasoning_engine_queue exists
    requests,   \* messages ready in execution_service_queue
    responses,  \* messages ready in reasoning_engine_queue
    service,    \* "down", "starting" or "up"
    serving,    \* the request the listener is at; held: the broker waits for its ack
    handled,    \* history: how often the listener has handled each request
    faults      \* the faults so far

engineVars == <<engine, call, pending, resolved, registry>>
serviceVars == <<service, serving, handled>>
vars == <<engineVars, declared, bound, requests, responses, serviceVars, faults>>

Open == {"sending", "confirming", "waiting"}
Over == {"returned", "raised", "cancelled", "lost"}
Idle == [req |-> NoReq, phase |-> "idle", held |-> FALSE]

TypeOK ==
    /\ engine \in {"down", "up", "consuming", "offline"}
    /\ call \in [Req -> {"new"} \cup Open \cup Over]
    /\ pending \subseteq Req
    /\ resolved \subseteq Req
    /\ registry \subseteq {"native", "os"}
    /\ declared \in BOOLEAN
    /\ bound \in BOOLEAN
    /\ requests \in Seq(Req)
    /\ responses \in Seq(Req \cup {Manifest})
    /\ service \in {"down", "starting", "up"}
    /\ serving \in [req : Req \cup {NoReq}, held : BOOLEAN,
                    phase : {"idle", "running", "ran", "answered"}]
    /\ handled \in [Req -> Nat]
    /\ faults \in 0..MaxFaults

Init ==
    /\ engine = "down"
    /\ call = [r \in Req |-> "new"]
    /\ pending = {}
    /\ resolved = {}
    /\ registry = {}
    /\ declared = Declared
    /\ bound = Declared
    /\ requests = <<>>
    /\ responses = <<>>
    /\ service = "down"
    /\ serving = Idle
    /\ handled = [r \in Req |-> 0]
    /\ faults = 0

Fault(kind) ==
    /\ kind \in Faults
    /\ faults < MaxFaults
    /\ faults' = faults + 1

-----------------------------------------------------------------------------
(* The reasoning engine.                                                    *)

\* Deviation: the future of a call that is cancelled is kept.
Finish_KeepsCancelled(S, how) ==
    /\ call' = [r \in Req |-> IF r \in S THEN how ELSE call[r]]
    /\ pending' = IF how = "cancelled" THEN pending ELSE pending \ S
    /\ resolved' = resolved \ S

\* The calls of S end like this; the finally clause forgets their futures.
Finish(S, how) ==
    /\ call' = [r \in Req |-> IF r \in S THEN how ELSE call[r]]
    /\ pending' = pending \ S
    /\ resolved' = resolved \ S

\* A broker that cannot be reached at the start is not tried again.
EngineStart ==
    /\ engine = "down"
    /\ \/ engine' = "up" /\ UNCHANGED faults
       \/ engine' = "offline" /\ Fault("link")
    /\ registry' = {"native"}
    /\ UNCHANGED <<call, pending, resolved, declared, bound, requests, responses,
                   serviceVars>>

\* start_consuming is a task of its own: calls may be made before it runs.
Bind ==
    /\ engine = "up"
    /\ engine' = "consuming"
    /\ bound' = TRUE
    /\ UNCHANGED <<call, pending, resolved, registry, declared, requests,
                   responses, serviceVars, faults>>

EngineDown ==
    /\ engine # "down"
    /\ Fault("engine")
    /\ engine' = "down"
    /\ Finish({r \in Req : call[r] \in Open}, "lost")
    /\ registry' = {}
    /\ UNCHANGED <<declared, bound, requests, responses, serviceVars>>

Send(r) ==
    /\ engine # "down"
    /\ call[r] = "new"
    /\ IF engine = "offline" THEN Finish({r}, "raised")
       ELSE /\ call' = [call EXCEPT ![r] = "sending"]
            /\ pending' = pending \cup {r}
            /\ UNCHANGED resolved
    /\ UNCHANGED <<engine, registry, declared, bound, requests, responses,
                   serviceVars, faults>>

Publish(r) ==
    /\ call[r] = "sending"
    /\ call' = [call EXCEPT ![r] = "confirming"]
    /\ requests' = IF declared /\ r \in Routable THEN Append(requests, r)
                                                 ELSE requests
    /\ UNCHANGED <<engine, pending, resolved, registry, declared, bound, responses,
                   serviceVars, faults>>

Confirm(r) ==
    /\ call[r] = "confirming"
    /\ call' = [call EXCEPT ![r] = "waiting"]
    /\ UNCHANGED <<engine, pending, resolved, registry, declared, bound, requests,
                   responses, serviceVars, faults>>

PublishFails(r) ==
    /\ call[r] \in {"sending", "confirming"}
    /\ Fault("link")
    /\ Finish({r}, "raised")
    /\ UNCHANGED <<engine, registry, declared, bound, requests, responses,
                   serviceVars>>

\* stop, the next prompt or the end of the connection cancels the caller.
Cancel(r) ==
    /\ call[r] \in Open
    /\ Finish({r}, "cancelled")
    /\ UNCHANGED <<engine, registry, declared, bound, requests, responses,
                   serviceVars, faults>>

Return(r) ==
    /\ call[r] = "waiting"
    /\ r \in resolved
    /\ Finish({r}, "returned")
    /\ UNCHANGED <<engine, registry, declared, bound, requests, responses,
                   serviceVars, faults>>

\* Deviation: an answer resolves whatever is waiting.
Consume_AnyFuture ==
    /\ engine = "consuming"
    /\ responses # <<>>
    /\ responses' = Tail(responses)
    /\ IF Head(responses) = Manifest
       THEN registry' = {"os"} /\ UNCHANGED resolved
       ELSE resolved' = resolved \cup pending /\ UNCHANGED registry
    /\ UNCHANGED <<engine, call, pending, declared, bound, requests, serviceVars,
                   faults>>

\* An answer resolves the future of its request, if that is still pending; a
\* manifest replaces all the tools.
Consume ==
    /\ engine = "consuming"
    /\ responses # <<>>
    /\ responses' = Tail(responses)
    /\ IF Head(responses) = Manifest
       THEN registry' = {"os"} /\ UNCHANGED resolved
       ELSE resolved' = resolved \cup ({Head(responses)} \cap pending)
            /\ UNCHANGED registry
    /\ UNCHANGED <<engine, call, pending, declared, bound, requests, serviceVars,
                   faults>>

-----------------------------------------------------------------------------
(* The execution service.                                                   *)

\* What the broker does with a delivery that is not going to be acknowledged.
Requeued == IF serving.held THEN <<serving.req>> \o requests ELSE requests

ServiceStart ==
    /\ service = "down"
    /\ service' = "starting"
    /\ declared' = TRUE
    /\ UNCHANGED <<engineVars, bound, requests, responses, serving, handled, faults>>

\* The broadcast at ApplicationReady; a failure of it is logged.
Announce ==
    /\ service = "starting"
    /\ service' = "up"
    /\ \/ /\ responses' = IF bound THEN Append(responses, Manifest) ELSE responses
          /\ UNCHANGED faults
       \/ Fault("link") /\ UNCHANGED responses
    /\ UNCHANGED <<engineVars, declared, bound, requests, serving, handled>>

ServiceDown ==
    /\ service # "down"
    /\ Fault("service")
    /\ service' = "down"
    /\ serving' = Idle
    /\ requests' = Requeued
    /\ UNCHANGED <<engineVars, declared, bound, responses, handled>>

\* Deviation: a request is acknowledged when it is delivered.
Take_Acknowledges ==
    /\ service # "down"
    /\ serving.phase = "idle"
    /\ requests # <<>>
    /\ serving' = [req |-> Head(requests), phase |-> "running", held |-> FALSE]
    /\ requests' = Tail(requests)
    /\ UNCHANGED <<engineVars, declared, bound, responses, service, handled, faults>>

Take ==
    /\ service # "down"
    /\ serving.phase = "idle"
    /\ requests # <<>>
    /\ serving' = [req |-> Head(requests), phase |-> "running", held |-> TRUE]
    /\ requests' = Tail(requests)
    /\ UNCHANGED <<engineVars, declared, bound, responses, service, handled, faults>>

\* Deviation: the exception of a tool leaves the listener.
Execute_Throws ==
    /\ serving.phase = "running"
    /\ handled' = [handled EXCEPT ![serving.req] = @ + 1]
    /\ \/ /\ serving' = [serving EXCEPT !.phase = "ran"]
          /\ UNCHANGED requests
       \/ /\ serving' = Idle
          /\ requests' = Requeued
    /\ UNCHANGED <<engineVars, declared, bound, responses, service, faults>>

\* The tool runs, fails or is unknown: each of them makes an answer.
Execute ==
    /\ serving.phase = "running"
    /\ handled' = [handled EXCEPT ![serving.req] = @ + 1]
    /\ serving' = [serving EXCEPT !.phase = "ran"]
    /\ UNCHANGED <<engineVars, declared, bound, requests, responses, service, faults>>

Reply ==
    /\ serving.phase = "ran"
    /\ serving' = [serving EXCEPT !.phase = "answered"]
    /\ responses' = IF bound THEN Append(responses, serving.req) ELSE responses
    /\ UNCHANGED <<engineVars, declared, bound, requests, service, handled, faults>>

\* An exception of convertAndSend leaves the listener: the request is requeued.
ReplyFails ==
    /\ serving.phase = "ran"
    /\ Fault("link")
    /\ serving' = Idle
    /\ requests' = Requeued
    /\ UNCHANGED <<engineVars, declared, bound, responses, service, handled>>

Ack ==
    /\ serving.phase = "answered"
    /\ serving' = Idle
    /\ UNCHANGED <<engineVars, declared, bound, requests, responses, service,
                   handled, faults>>

-----------------------------------------------------------------------------
(* The broker.                                                              *)

\* The listener loses its connection and goes on with what it was doing.
LinkLost ==
    /\ serving.held
    /\ Fault("link")
    /\ serving' = [serving EXCEPT !.held = FALSE]
    /\ requests' = Requeued
    /\ UNCHANGED <<engineVars, declared, bound, responses, service, handled>>

\* The queues and the persistent messages survive.
BrokerRestart ==
    /\ Fault("broker")
    /\ requests' = <<>>
    /\ serving' = [serving EXCEPT !.held = FALSE]
    /\ Finish({r \in Req : call[r] = "confirming"}, "raised")
    /\ UNCHANGED <<engine, registry, declared, bound, responses, service, handled>>

Next ==
    \/ EngineStart \/ Bind \/ EngineDown \/ Consume
    \/ \E r \in Req : \/ Send(r) \/ Publish(r) \/ Confirm(r) \/ PublishFails(r)
                      \/ Cancel(r) \/ Return(r)
    \/ ServiceStart \/ Announce \/ ServiceDown
    \/ Take \/ Execute \/ Reply \/ ReplyFails \/ Ack
    \/ LinkLost \/ BrokerRestart

Spec == Init /\ [][Next]_vars

\* Both programs are started, event loop and listener go on, every tool comes
\* to an end and the broker delivers.  Nobody need make or cancel a call.
Fairness ==
    /\ WF_vars(EngineStart) /\ WF_vars(Bind) /\ WF_vars(Consume)
    /\ \A r \in Req : WF_vars(Publish(r)) /\ WF_vars(Confirm(r)) /\ WF_vars(Return(r))
    /\ WF_vars(ServiceStart) /\ WF_vars(Announce)
    /\ WF_vars(Take) /\ WF_vars(Execute) /\ WF_vars(Reply) /\ WF_vars(Ack)

FairSpec == Spec /\ Fairness

-----------------------------------------------------------------------------
(* Correctness.                                                             *)

\* A future is registered from the start of its call to the end of it, and no
\* longer: nothing leaks, and a late answer finds nothing to resolve.
FuturesExact ==
    /\ pending = {r \in Req : call[r] \in Open}
    /\ resolved \subseteq pending

\* Each handling of a request beyond the first is paid for by a fault.
Repeats == UNION {{r} \X (2..handled[r]) : r \in Req}
RepeatsPaid == Cardinality(Repeats) <= faults

\* send_and_wait keeps what RemoteCall promises.
RemoteOutcome(pc) ==
    CASE pc = "new" -> "none" [] pc \in Open -> "open"
      [] pc = "returned" -> "returned" [] OTHER -> "failed"

Remote == INSTANCE RemoteCall
            WITH outcome <- [r \in Req |-> RemoteOutcome(call[r])]

ReturnsAfterHandling == Remote!Spec

\* A call that can be routed comes to its end, though the execution service
\* crashes and loses its connection: it is the durable queue that brings it back.
AnsweredDespiteCrashes ==
    \A r \in Routable : call[r] \in Open ~> call[r] \in Over

-----------------------------------------------------------------------------
(* The inductive invariant behind ReturnsAfterHandling and RepeatsPaid.     *)

\* Answers, on their way or given, are answers to what was handled.
HandledOK ==
    /\ \A r \in Req : call[r] = "returned" \/ r \in resolved => handled[r] > 0
    /\ \A r \in Range(responses) : r # Manifest => handled[r] > 0
    /\ serving.phase \in {"ran", "answered"} => handled[serving.req] > 0

\* What is queued or served was asked for.
IssuedOK ==
    /\ \A r \in Range(requests) : call[r] # "new"
    /\ serving.phase # "idle" => serving.req \in Req /\ call[serving.req] # "new"
    /\ serving.held => serving.phase # "idle"

\* How often r was handled, or will be if no fault occurs any more.
Copies(r) == Cardinality({i \in DOMAIN requests : requests[i] = r})
Running(r) == serving.phase = "running" /\ serving.req = r
Load(r) == handled[r] + Copies(r) + (IF Running(r) THEN 1 ELSE 0)

\* The repeats to come are paid for as well, and what was not published cannot
\* be handled.
Owed == UNION {{r} \X (2..Load(r)) : r \in Req}
PaidOK ==
    /\ IsFiniteSet(Owed) /\ Cardinality(Owed) <= faults
    /\ \A r \in Req : call[r] \in {"new", "sending"} => Load(r) = 0

RpcInv == TypeOK /\ FuturesExact /\ HandledOK /\ IssuedOK /\ PaidOK
=============================================================================
