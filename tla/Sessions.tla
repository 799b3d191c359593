------------------------------ MODULE Sessions ------------------------------
(***************************************************************************)
(* The WebSocket sessions of the reasoning engine (api/websockets.py over  *)
(* connection_manager.py): prompts, their cancellation, the status         *)
(* messages, and the confirmations that the action node asks for before a  *)
(* critical tool (nodes/action.py, confirmation_manager.py).               *)
(*                                                                         *)
(* One step is what a coroutine does between two awaits; a message to a    *)
(* client counts to the step that sends it, because the transport buffers  *)
(* it before anything is awaited.  A client sends what it likes at any     *)
(* time, and its messages are handled one after the other.  A cancelled    *)
(* coroutine raises CancelledError at its next step, as asyncio does, even *)
(* when the future it awaits has got its result meanwhile.                 *)
(***************************************************************************)
EXTENDS Integers, FiniteSets

CONSTANTS
    Conn,      \* connections; a name is used again when nothing of it is left
    NoConn,    \* no connection
    Prompt,    \* user prompts: user_message or an approved email draft
    NoPrompt,  \* no prompt
    MaxAsks,   \* bound on the confirmations that one prompt asks for
    MaxDrafts  \* bound on the email drafts in progress

ASSUME SessionAssumption == NoConn \notin Conn /\ NoPrompt \notin Prompt
ASSUME BoundAssumption == MaxAsks \in Nat \ {0} /\ MaxDrafts \in Nat

VARIABLES
    sock,        \* "closed", or what becomes of messages: "open" (delivered),
                 \* "silent" (lost unnoticed), "broken" (sending raises)
    conns,       \* active_connections
    drafting,    \* connections whose receive loop awaits an email draft
    tracked,     \* _active_tasks
    run,         \* the task of _execute_user_prompt of each prompt
    registered,  \* _pending_confirmations
    heard,       \* confirmation requests a client got and has not answered
    told,        \* the last status each client was told
    verdict,     \* history: the first answer of a user to each request
    stopped      \* history: prompts whose user has sent stop, or is gone

vars == <<sock, conns, drafting, tracked, run, registered, heard, told, verdict,
          stopped>>

\* A confirmation_id (uuid4): the number of a request of a prompt.
Id == Prompt \X (1..MaxAsks)

PC == {"unsent", "start", "graph", "ask", "rpc", "reply", "report", "bye", "done"}
RunState == [pc : PC, conn : Conn \cup {NoConn}, asked : 0..MaxAsks,
             future : {"none", "open", "yes", "no"}, cancelled : BOOLEAN]
Task(pc, c) == [pc |-> pc, conn |-> c, asked |-> 0, future |-> "none",
                cancelled |-> FALSE]

TypeOK ==
    /\ sock \in [Conn -> {"closed", "open", "silent", "broken"}]
    /\ conns \subseteq Conn
    /\ drafting \subseteq Conn
    /\ tracked \in [Conn -> Prompt \cup {NoPrompt}]
    /\ run \in [Prompt -> RunState]
    /\ registered \subseteq Id
    /\ heard \in [Conn -> SUBSET Id]
    /\ told \in [Conn -> {"IDLE", "THINKING"}]
    /\ verdict \in [Id -> {"none", "yes", "no"}]
    /\ stopped \subseteq Prompt

Init ==
    /\ sock = [c \in Conn |-> "closed"]
    /\ conns = {}
    /\ drafting = {}
    /\ tracked = [c \in Conn |-> NoPrompt]
    /\ run = [p \in Prompt |-> Task("unsent", NoConn)]
    /\ registered = {}
    /\ heard = [c \in Conn |-> {}]
    /\ told = [c \in Conn |-> "IDLE"]
    /\ verdict = [i \in Id |-> "none"]
    /\ stopped = {}

-----------------------------------------------------------------------------
\* The task exists and is not done.
Live(p) == run[p].pc \notin {"unsent", "done"}
Key(p) == <<p, run[p].asked>>
Current(c) == {p \in Prompt : p = tracked[c] /\ Live(p)}

\* The receive loop of the connection is waiting for a message.
Receiving(c) == sock[c] # "closed" /\ c \notin drafting

\* broadcast, with the connections that raise pruned.
Reached == {c \in conns : sock[c] = "open"}
Intact == {c \in conns : sock[c] # "broken"}

\* send_or_broadcast of a message that is no status, and of a status.
SendText(c) ==
    /\ conns' = IF c \in Intact THEN conns ELSE Intact
    /\ UNCHANGED told

SendStatus(c, state) ==
    \/ /\ c \in Intact
       /\ told' = [d \in Conn |-> IF d = c /\ c \in Reached THEN state ELSE told[d]]
       /\ UNCHANGED conns
    \/ /\ c \notin Intact
       /\ told' = [d \in Conn |-> IF d \in Reached THEN state ELSE told[d]]
       /\ conns' = Intact

\* Deviation: cancel_all forgets the futures and leaves them unresolved.
AbortAll_ClearsOnly(cancelled) ==
    /\ run' = [p \in Prompt |-> [run[p] EXCEPT !.cancelled = @ \/ p \in cancelled]]
    /\ registered' = {}

\* cancel_all: every pending future resolves to False; and task.cancel().
AbortAll(cancelled) ==
    /\ run' = [p \in Prompt |->
                [run[p] EXCEPT
                   !.future = IF Key(p) \in registered /\ @ = "open" THEN "no" ELSE @,
                   !.cancelled = @ \/ p \in cancelled]]
    /\ registered' = {}

-----------------------------------------------------------------------------
(* Connections and their messages.                                         *)

Connect(c) ==
    /\ sock[c] = "closed"
    /\ \A p \in Prompt : run[p].conn = c => ~Live(p)
    /\ sock' = [sock EXCEPT ![c] = "open"]
    /\ conns' = conns \cup {c}
    /\ UNCHANGED <<drafting, tracked, run, registered, heard, told, verdict,
                   stopped>>

\* The network or the client fails, and the engine does not know it yet.
Drop(c) ==
    /\ sock[c] \in {"open", "silent"}
    /\ sock' \in {[sock EXCEPT ![c] = "silent"], [sock EXCEPT ![c] = "broken"]}
    /\ UNCHANGED <<conns, drafting, tracked, run, registered, heard, told, verdict,
                   stopped>>

\* Deviation: the end of a connection leaves its task and its requests alone.
Close_Abandons(c) ==
    /\ Receiving(c)
    /\ sock' = [sock EXCEPT ![c] = "closed"]
    /\ stopped' = stopped \cup {p \in Prompt : run[p].conn = c /\ Live(p)}
    /\ tracked' = [tracked EXCEPT ![c] = NoPrompt]
    /\ conns' = conns \ {c}
    /\ heard' = [heard EXCEPT ![c] = {}]
    /\ told' = [told EXCEPT ![c] = "IDLE"]
    /\ UNCHANGED <<drafting, run, registered, verdict>>

\* The receive loop ends: the client closed, or an exception.
Close(c) ==
    /\ Receiving(c)
    /\ sock' = [sock EXCEPT ![c] = "closed"]
    /\ AbortAll(Current(c))
    /\ stopped' = stopped \cup {p \in Prompt : run[p].conn = c /\ Live(p)}
    /\ tracked' = [tracked EXCEPT ![c] = NoPrompt]
    /\ conns' = conns \ {c}
    /\ heard' = [heard EXCEPT ![c] = {}]
    /\ told' = [told EXCEPT ![c] = "IDLE"]
    /\ UNCHANGED <<drafting, verdict>>

\* Deviation: the task of the prompt before is replaced, not cancelled.
UserMessage_KeepsPrevious(c, p) ==
    /\ Receiving(c)
    /\ run[p].pc = "unsent"
    /\ run' = [run EXCEPT ![p] = Task("start", c)]
    /\ tracked' = [tracked EXCEPT ![c] = p]
    /\ UNCHANGED <<sock, conns, drafting, registered, heard, told, verdict, stopped>>

\* A new prompt cancels the one before it and does not wait for its end.
UserMessage(c, p) ==
    /\ Receiving(c)
    /\ run[p].pc = "unsent"
    /\ run' = [q \in Prompt |->
                 IF q = p THEN Task("start", c)
                 ELSE [run[q] EXCEPT !.cancelled = @ \/ q \in Current(c)]]
    /\ tracked' = [tracked EXCEPT ![c] = p]
    /\ UNCHANGED <<sock, conns, drafting, registered, heard, told, verdict, stopped>>

Stop(c) ==
    /\ Receiving(c)
    /\ AbortAll(Current(c))
    /\ stopped' = stopped \cup {p \in Prompt : run[p].conn = c /\ Live(p)}
    /\ SendStatus(c, "IDLE")
    /\ UNCHANGED <<sock, drafting, tracked, heard, verdict>>

\* Deviation: the last answer before the task wakes up counts.
Respond_Overwrites(c, i, answer) ==
    /\ Receiving(c)
    /\ i \in heard[c]
    /\ heard' = [heard EXCEPT ![c] = @ \ {i}]
    /\ verdict' = IF verdict[i] = "none" THEN [verdict EXCEPT ![i] = answer]
                                         ELSE verdict
    /\ run' = [p \in Prompt |->
                 IF i \in registered /\ i = Key(p)
                 THEN [run[p] EXCEPT !.future = answer] ELSE run[p]]
    /\ UNCHANGED <<sock, conns, drafting, tracked, registered, told, stopped>>

\* resolve_confirmation: a future that has its result keeps it.
Respond(c, i, answer) ==
    /\ Receiving(c)
    /\ i \in heard[c]
    /\ heard' = [heard EXCEPT ![c] = @ \ {i}]
    /\ verdict' = IF verdict[i] = "none" THEN [verdict EXCEPT ![i] = answer]
                                         ELSE verdict
    /\ run' = [p \in Prompt |->
                 IF i \in registered /\ i = Key(p) /\ run[p].future = "open"
                 THEN [run[p] EXCEPT !.future = answer] ELSE run[p]]
    /\ UNCHANGED <<sock, conns, drafting, tracked, registered, told, stopped>>

\* email_action, generate_draft: awaited by the receive loop itself.
EmailDraft(c) ==
    /\ Receiving(c)
    /\ Cardinality(drafting) < MaxDrafts
    /\ drafting' = drafting \cup {c}
    /\ UNCHANGED <<sock, conns, tracked, run, registered, heard, told, verdict,
                   stopped>>

DraftReady(c) ==
    /\ c \in drafting
    /\ drafting' = drafting \ {c}
    /\ SendText(c)
    /\ UNCHANGED <<sock, tracked, run, registered, heard, verdict, stopped>>

-----------------------------------------------------------------------------
(* The task of a prompt.                                                   *)

At(p, pc) == run[p].pc = pc /\ ~run[p].cancelled
Goto(p, pc) == run' = [run EXCEPT ![p].pc = pc]
Sess == <<sock, drafting, tracked, verdict, stopped>>

Begin(p) ==
    /\ At(p, "start")
    /\ Goto(p, "graph")
    /\ SendStatus(run[p].conn, "THINKING")
    /\ UNCHANGED <<Sess, registered, heard>>

\* The model calls a critical tool: the request goes to every client.
Ask(p) ==
    LET i == <<p, run[p].asked + 1>> IN
    /\ At(p, "graph")
    /\ run[p].asked < MaxAsks
    /\ run' = [run EXCEPT ![p].pc = "ask", ![p].asked = @ + 1, ![p].future = "open"]
    /\ registered' = registered \cup {i}
    /\ heard' = [c \in Conn |-> IF c \in Reached THEN heard[c] \cup {i} ELSE heard[c]]
    /\ conns' = Intact
    /\ UNCHANGED <<Sess, told>>

\* The future has its result: the tool request is published, or a refusal is
\* reported to the model.
Decide(p) ==
    /\ At(p, "ask")
    /\ run[p].future \in {"yes", "no"}
    /\ run' = [run EXCEPT ![p].pc = IF run[p].future = "yes" THEN "rpc" ELSE "graph",
                          ![p].future = "none"]
    /\ registered' = registered \ {Key(p)}
    /\ UNCHANGED <<Sess, conns, heard, told>>

\* The model calls a tool that is not critical; the execution service answers.
Call(p) ==
    /\ At(p, "graph")
    /\ Goto(p, "rpc")
    /\ UNCHANGED <<Sess, conns, registered, heard, told>>

Answer(p) ==
    /\ At(p, "rpc")
    /\ Goto(p, "graph")
    /\ UNCHANGED <<Sess, conns, registered, heard, told>>

\* The graph ends with a message of the model, or with an exception.
Reply(p) ==
    /\ \/ At(p, "graph") /\ Goto(p, "reply")
       \/ At(p, "graph") /\ Goto(p, "report")
       \/ At(p, "rpc") /\ Goto(p, "report")
    /\ SendText(run[p].conn)
    /\ UNCHANGED <<Sess, registered, heard>>

\* Deviation: the request is not removed, the finally clause is missing.
Unwind_KeepsRequest(p) ==
    /\ run[p].cancelled
    /\ run[p].pc \in {"graph", "ask", "rpc", "reply"}
    /\ run' = [run EXCEPT ![p].pc = "report", ![p].future = "none",
                          ![p].cancelled = FALSE]
    /\ SendText(run[p].conn)
    /\ UNCHANGED <<Sess, registered, heard>>

\* Deviation: a task that awaits a confirmation takes its cancellation for a
\* refusal.
Unwind_Swallowed(p) ==
    /\ run[p].cancelled
    /\ run[p].pc \in {"graph", "ask", "rpc", "reply"}
    /\ run' = [run EXCEPT ![p].pc = IF @ = "ask" THEN "graph" ELSE "report",
                          ![p].future = "none", ![p].cancelled = FALSE]
    /\ registered' = registered \ {Key(p)}
    /\ SendText(run[p].conn)
    /\ UNCHANGED <<Sess, heard>>

\* CancelledError: the confirmation is removed and the client is told.
Unwind(p) ==
    /\ run[p].cancelled
    /\ run[p].pc \in {"graph", "ask", "rpc", "reply"}
    /\ run' = [run EXCEPT ![p].pc = "report", ![p].future = "none",
                          ![p].cancelled = FALSE]
    /\ registered' = registered \ {Key(p)}
    /\ SendText(run[p].conn)
    /\ UNCHANGED <<Sess, heard>>

\* A task that is cancelled before its first step does nothing at all.
NeverBegin(p) ==
    /\ run[p].cancelled
    /\ run[p].pc = "start"
    /\ run' = [run EXCEPT ![p].pc = "done", ![p].cancelled = FALSE]
    /\ UNCHANGED <<Sess, conns, registered, heard, told>>

\* Deviation: IDLE is sent after a reply only, not from a finally clause.
Finally_RepliesOnly(p) ==
    /\ At(p, "reply") \/ run[p].pc = "report"
    /\ run' = [run EXCEPT ![p].pc = "bye", ![p].cancelled = FALSE]
    /\ IF run[p].pc = "reply" THEN SendStatus(run[p].conn, "IDLE")
                              ELSE UNCHANGED <<told, conns>>
    /\ UNCHANGED <<Sess, registered, heard>>

\* The finally clause, which a cancellation of the report reaches as well.
Finally(p) ==
    /\ At(p, "reply") \/ run[p].pc = "report"
    /\ run' = [run EXCEPT ![p].pc = "bye", ![p].cancelled = FALSE]
    /\ SendStatus(run[p].conn, "IDLE")
    /\ UNCHANGED <<Sess, registered, heard>>

End(p) ==
    /\ run[p].pc = "bye"
    /\ run' = [run EXCEPT ![p].pc = "done", ![p].cancelled = FALSE]
    /\ UNCHANGED <<Sess, conns, registered, heard, told>>

Step(p) ==
    \/ Begin(p) \/ Ask(p) \/ Decide(p) \/ Call(p) \/ Answer(p) \/ Reply(p)
    \/ Unwind(p) \/ NeverBegin(p) \/ Finally(p) \/ End(p)

Next ==
    \/ \E c \in Conn :
          \/ Connect(c) \/ Drop(c) \/ Close(c) \/ Stop(c) \/ EmailDraft(c)
          \/ DraftReady(c)
          \/ \E p \in Prompt : UserMessage(c, p)
          \/ \E i \in Id, answer \in {"yes", "no"} : Respond(c, i, answer)
    \/ \E p \in Prompt : Step(p)

Spec == Init /\ [][Next]_vars

\* The event loop runs what is ready, and a draft is made.  A lost connection
\* is noticed: the finitely many messages that it still held cannot keep the
\* receive loop from reaching the end of it for ever, hence strong fairness.
\* The model, the execution service and the user owe nothing.
Fairness ==
    /\ \A p \in Prompt : /\ WF_vars(Begin(p)) /\ WF_vars(Decide(p))
                         /\ WF_vars(Unwind(p)) /\ WF_vars(NeverBegin(p))
                         /\ WF_vars(Finally(p)) /\ WF_vars(End(p))
    /\ \A c \in Conn : /\ SF_vars(sock[c] # "open" /\ Close(c))
                       /\ WF_vars(DraftReady(c))

FairSpec == Spec /\ Fairness

-----------------------------------------------------------------------------
(* Correctness.                                                            *)

\* A critical tool is sent to the execution service only on a yes, and only if
\* that was the first answer any user gave to this very request (ADR-009).
ApprovedFirst ==
    [][\A p \in Prompt : run[p].pc = "ask" /\ run'[p].pc = "rpc"
                         => verdict[Key(p)] = "yes"]_vars

\* Once its user has sent stop, or is gone, nothing that a prompt still wants
\* is sent to the execution service.
StopReaches ==
    [][\A p \in stopped : run'[p].pc = "rpc" => run[p].pc = "rpc"]_vars

\* A pending confirmation can be answered or aborted as long as its task waits,
\* and is forgotten when it does not.
PendingExact ==
    /\ \A p \in Prompt : run[p].future = "open" => Key(p) \in registered
    /\ \A i \in registered : i = Key(i[1]) /\ run[i[1]].pc = "ask"

\* Whatever still runs and is not being cancelled is what the stop message, or
\* the end, of a connection that exists would cancel.
RunsReachable ==
    \A p \in Prompt :
        Live(p) /\ ~run[p].cancelled /\ run[p].pc \notin {"report", "bye"}
        => sock[run[p].conn] # "closed" /\ tracked[run[p].conn] = p

\* When nothing runs, no client is left with the last word THINKING.
NobodyLeftThinking ==
    (\A p \in Prompt : ~Live(p)) => \A c \in Reached : told[c] = "IDLE"

\* A stopped prompt ends, whatever the model, the tools and the user do.
StopEnds == \A p \in Prompt : p \in stopped ~> run[p].pc = "done"

\* A confirmation that no connected client can answer any more does not stay
\* open.
Unanswerable(p) ==
    /\ run[p].future = "open"
    /\ \A c \in Conn : Key(p) \in heard[c] => sock[c] # "open"

NoWaitForNobody == \A p \in Prompt : Unanswerable(p) ~> ~Unanswerable(p)

-----------------------------------------------------------------------------
(* The inductive invariant behind ApprovedFirst, StopReaches and            *)
(* NobodyLeftThinking.                                                      *)

\* Only requests that were made are heard and answered, and a future has the
\* first answer to its request, or no answer was given and it was aborted.
AnswersOK ==
    /\ \A c \in Conn : \A i \in heard[c] : i[2] <= run[i[1]].asked
    /\ \A i \in Id : verdict[i] # "none" => i[2] <= run[i[1]].asked
    /\ \A p \in Prompt : /\ run[p].future = "open" => verdict[Key(p)] = "none"
                         /\ run[p].future = "yes" => verdict[Key(p)] = "yes"
                         /\ run[p].future # "none" => run[p].asked > 0

\* A prompt that was stopped is being cancelled, or has nothing left to do.
StoppedOK ==
    \A p \in stopped : run[p].cancelled \/ run[p].pc \in {"report", "bye", "done"}

\* A prompt that was not sent has no past, and one that runs has a connection.
RunsOK ==
    \A p \in Prompt : /\ Live(p) => run[p].conn \in Conn
                      /\ run[p].pc = "unsent" => run[p].asked = 0 /\ p \notin stopped

\* Behind NobodyLeftThinking: a client whose last word is THINKING is one that
\* the finally clause of a running prompt reaches, directly or by broadcast.
Owes(p, d) ==
    /\ Live(p) /\ run[p].pc \notin {"start", "bye"}
    /\ run[p].conn = d \/ run[p].conn \notin Intact

StatusOK ==
    /\ \A c \in Conn : sock[c] = "closed" => told[c] = "IDLE"
    /\ \A d \in Reached : told[d] = "THINKING" => \E p \in Prompt : Owes(p, d)

\* What every reachable state satisfies and every step preserves.
SessInv ==
    /\ TypeOK /\ PendingExact /\ RunsReachable /\ AnswersOK /\ StoppedOK /\ RunsOK
    /\ StatusOK
=============================================================================
