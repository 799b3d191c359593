----------------------------- MODULE Conversation -----------------------------
(* The one conversation that all prompts share: runs of the agent graph     *)
(* (agent/agent.py, agent/nodes/) over the checkpoint of the thread         *)
(* "sesion-produccion", the tools registry they use, and the clearing of    *)
(* the history (api/websockets.py).                                         *)
(*                                                                          *)
(* A step is what a run does between two awaits.  LangGraph reads the       *)
(* checkpoint once, when a run begins, and from then on writes the whole    *)
(* list of messages it holds after each node: the last writer wins.  It     *)
(* writes in the background; that is the same as another run reading        *)
(* earlier, which Read and Input allow by being two steps.                  *)
(* Prompts, their tasks and confirmations are detailed in Sessions, the     *)
(* execution of a call in ToolRpc, the record of turns in MemoryManager.    *)
EXTENDS ShortTermMemory, ToolResolution

CONSTANTS
    Run,            \* runs of the graph, one per prompt
    Trivial,        \* those whose prompt is a greeting or the like
    Native,         \* SCHEDULER_TOOLS_DEFINITIONS, the registry at the start
    Manifests,      \* registries the execution service may announce
    KnownCritical,  \* KNOWN_CRITICAL_TOOLS
    Replies,        \* what the language model may write in the command node
    OutputSizes,    \* tokens of a tool's answer
    Budget,         \* max_dialogue_tokens
    MaxActive,      \* bound: runs under way at the same time
    MaxAborts,      \* bound: runs cancelled or failed
    MaxEvents       \* bound: clears, discoveries and crashes together

VARIABLES
    checkpoint,     \* the stored messages of the thread
    run,            \* what each run is doing
    registry,       \* dynamic_tools, shared by command and action node
    issued,         \* tool calls carried out, here or by the execution service
    recorded,       \* the user turns each run handed to the memory manager
    forgotten,      \* whether the user cleared the history after a prompt
    events          \* counted for MaxEvents

\* No native tool is critical, and a manifest that lists a known critical
\* tool says that it is (KillProcessTool.java:42, SendEmailTool.java:33).
ASSUME CriticalAssumption ==
    \A tools \in Manifests \cup {Native} :
        /\ tools \in Seq(ToSet(tools))
        /\ \A t \in ToSet(tools) : t.name \in KnownCritical => t.critical
\* What a reply holds are lists.
ASSUME ReplyAssumption ==
    \A reply \in Replies :
        /\ reply.text \in Seq(ToSet(reply.text))
        /\ \A calls \in {reply.calls} \cup ToSet(reply.text) : calls \in Seq(ToSet(calls))
ASSUME NativeAssumption == \A t \in ToSet(Native) : t.name \notin KnownCritical
\* Every message costs something (MESSAGE_OVERHEAD_TOKENS, short_term.py).
ASSUME SizeAssumption == OutputSizes \subseteq Nat \ {0}
ASSUME BudgetAssumption == Budget \in Int

vars == <<checkpoint, run, registry, issued, recorded, forgotten, events>>

(* node      where the run is in the graph                                  *)
(* msgs      the messages of its state; when it is done, its exchange      *)
(* at        in the action node: the call it is at                          *)
(* step      "pick", "confirm" (the user was asked) or "sent"               *)
(* answers   the tool messages it has collected                             *)
(* alone     no other run was under way while it was (history)              *)
Fresh == [node |-> "new", msgs |-> <<>>, at |-> 1, step |-> "pick",
          answers |-> <<>>, alone |-> TRUE]

Init ==
    /\ checkpoint = <<>>
    /\ run = [r \in Run |-> Fresh]
    /\ registry = Native
    /\ issued = {}
    /\ recorded = [r \in Run |-> <<>>]
    /\ forgotten = [r \in Run |-> "no"]
    /\ events = 0

Human(r) == [role |-> "human", run |-> r, calls |-> <<>>, call |-> 0, size |-> 1]
Ai(r, calls) == [role |-> "ai", run |-> r, calls |-> calls, call |-> 0, size |-> 1]
Answer(r, i, n) == [role |-> "tool", run |-> r, calls |-> <<>>, call |-> i, size |-> n]

Active(r) == run[r].node \notin {"new", "done", "aborted"}

\* extract_last_human_text: where the last prompt in msgs is, 0 for nowhere.
LastHuman(msgs) == Max({0} \cup {k \in DOMAIN msgs : msgs[k].role = "human"})

\* The state of a run that is over is gone, but for what it said (history).
Ended(r, node, said) == [Fresh EXCEPT !.node = node, !.msgs = said, !.alone = run[r].alone]

\* Run r after it went to node holding msgs.
Entered(r, node, msgs) ==
    IF node = "done"
    THEN LET h == LastHuman(msgs)
         IN  Ended(r, "done", IF h = 0 THEN <<>> ELSE SubSeq(msgs, h, Len(msgs)))
    ELSE [run[r] EXCEPT !.node = node, !.msgs = msgs]

\* Deviation: new messages are added to what is stored by now.
Goes_OnStored(r, node, new) ==
    /\ checkpoint' = checkpoint \o new
    /\ run' = [run EXCEPT ![r] = Entered(r, node, checkpoint \o new)]

\* Run r goes to node with new messages, and its messages are stored: all
\* of them, whatever is stored by now.
Goes(r, node, new) ==
    /\ checkpoint' = run[r].msgs \o new
    /\ run' = [run EXCEPT ![r] = Entered(r, node, run[r].msgs \o new)]

-----------------------------------------------------------------------------
(* The beginning of a run: ainvoke                                          *)

Read(r) ==
    /\ run[r].node = "new"
    /\ LET others == {a \in Run : Active(a)}
       IN  /\ Cardinality(others) < MaxActive
           /\ run' = [a \in Run |->
                    IF a = r THEN [Fresh EXCEPT !.node = "loaded", !.msgs = checkpoint,
                                                !.alone = (others = {})]
                    ELSE IF a \in others THEN [run[a] EXCEPT !.alone = FALSE]
                    ELSE run[a]]
    /\ UNCHANGED <<checkpoint, registry, issued, recorded, forgotten, events>>

\* Deviation: the input takes the place of the messages of the state.
Input_Replaces(r) ==
    /\ run[r].node = "loaded"
    /\ checkpoint' = <<Human(r)>>
    /\ run' = [run EXCEPT ![r].node = "router", ![r].msgs = <<Human(r)>>]
    /\ UNCHANGED <<registry, issued, recorded, forgotten, events>>

Input(r) ==
    /\ run[r].node = "loaded"
    /\ Goes(r, "router", <<Human(r)>>)
    /\ UNCHANGED <<registry, issued, recorded, forgotten, events>>

-----------------------------------------------------------------------------
(* The nodes                                                                *)

\* A greeting with nothing before it is not classified by the model.
Router(r) ==
    /\ run[r].node = "router"
    /\ \E node \in {"chat", "command"} :
        /\ r \in Trivial /\ LastHuman(run[r].msgs) <= 1 => node = "chat"
        /\ Goes(r, node, <<>>)
    /\ UNCHANGED <<registry, issued, recorded, forgotten, events>>

\* _record_turn: the user's text is the last one in the run's messages; a
\* blank one is not recorded.
Recorded(r) ==
    LET h == LastHuman(run[r].msgs)
    IN  IF h = 0 THEN recorded
        ELSE [recorded EXCEPT ![r] = Append(@, run[r].msgs[h].run)]

\* The chat node and the summarize node: the model answers, the turn is
\* recorded and the run ends.
Speak(r) ==
    /\ run[r].node \in {"chat", "summarize"}
    /\ recorded' = Recorded(r)
    /\ Goes(r, "done", <<Ai(r, <<>>)>>)
    /\ UNCHANGED <<registry, issued, forgotten, events>>

\* Deviation: the turn is recorded whatever the model wants.
Command_Records(r) ==
    /\ run[r].node = "command"
    /\ \E reply \in Replies :
        LET calls == CallsOf(reply, registry)
        IN  /\ recorded' = Recorded(r)
            /\ Goes(r, IF calls = <<>> THEN "done" ELSE "action", <<Ai(r, calls)>>)
    /\ UNCHANGED <<registry, issued, forgotten, events>>

\* What the model was offered when it was asked does not bound what it
\* writes (its prompt names a scheduler tool whatever the registry), and the
\* registry is the one at the time of its reply.  should_use_tools decides
\* whether the run goes on.
Command(r) ==
    /\ run[r].node = "command"
    /\ \E reply \in Replies :
        LET calls == CallsOf(reply, registry)
        IN  /\ recorded' = IF calls = <<>> THEN Recorded(r) ELSE recorded
            /\ Goes(r, IF calls = <<>> THEN "done" ELSE "action", <<Ai(r, calls)>>)
    /\ UNCHANGED <<registry, issued, forgotten, events>>

-----------------------------------------------------------------------------
(* The action node                                                          *)

SchedulerTools == {t.name : t \in ToSet(Native)}

\* Deviation: a tool the registry does not list is never critical.
is_tool_critical_Listed(name) ==
    \E i \in DOMAIN registry : registry[i].name = name /\ registry[i].critical

is_tool_critical(name) ==
    LET listed == {i \in DOMAIN registry : registry[i].name = name}
    IN  IF listed # {} THEN registry[Min(listed)].critical ELSE name \in KnownCritical

Calls(r) == Last(run[r].msgs).calls

\* The call run r is at, and whether it is about to handle it.
At(r) == Calls(r)[run[r].at]
Picks(r) ==
    run[r].node = "action" /\ run[r].step = "pick" /\ run[r].at \in DOMAIN Calls(r)

\* The call run r is at is carried out.
Issue(r, asked) ==
    issued' = issued \cup {[name |-> At(r).name, args |-> At(r).args, asked |-> asked]}

\* The call run r is at has its answer, of n tokens.
Collected(r, n) ==
    [run EXCEPT ![r].answers = Append(@, Answer(r, run[r].at, n)),
                ![r].at = @ + 1, ![r].step = "pick"]

CallScheduler(r) ==
    /\ Picks(r)
    /\ At(r).name \in SchedulerTools
    /\ Issue(r, FALSE)
    /\ \E n \in OutputSizes : run' = Collected(r, n)
    /\ UNCHANGED <<checkpoint, registry, recorded, forgotten, events>>

AskUser(r) ==
    /\ Picks(r)
    /\ At(r).name \notin SchedulerTools /\ is_tool_critical(At(r).name)
    /\ run' = [run EXCEPT ![r].step = "confirm"]
    /\ UNCHANGED <<checkpoint, registry, issued, recorded, forgotten, events>>

Dispatch(r) ==
    /\ Picks(r)
    /\ At(r).name \notin SchedulerTools /\ ~is_tool_critical(At(r).name)
    /\ Issue(r, FALSE)
    /\ run' = [run EXCEPT ![r].step = "sent"]
    /\ UNCHANGED <<checkpoint, registry, recorded, forgotten, events>>

Approve(r) ==
    /\ run[r].node = "action" /\ run[r].step = "confirm"
    /\ Issue(r, TRUE)
    /\ run' = [run EXCEPT ![r].step = "sent"]
    /\ UNCHANGED <<checkpoint, registry, recorded, forgotten, events>>

\* Deviation: a refused call gets no answer.
Deny_Silent(r) ==
    /\ run[r].node = "action" /\ run[r].step = "confirm"
    /\ run' = [run EXCEPT ![r].at = @ + 1, ![r].step = "pick"]
    /\ UNCHANGED <<checkpoint, registry, issued, recorded, forgotten, events>>

Deny(r) ==
    /\ run[r].node = "action" /\ run[r].step = "confirm"
    /\ run' = Collected(r, 1)
    /\ UNCHANGED <<checkpoint, registry, issued, recorded, forgotten, events>>

\* The execution service answers, or there is no usable answer.
Reply(r) ==
    /\ run[r].node = "action" /\ run[r].step = "sent"
    /\ \E n \in OutputSizes : run' = Collected(r, n)
    /\ UNCHANGED <<checkpoint, registry, issued, recorded, forgotten, events>>

\* Only now are the answers part of the conversation.
ActionDone(r) ==
    /\ run[r].node = "action" /\ run[r].at = Len(Calls(r)) + 1
    /\ Goes(r, "summarize", run[r].answers)
    /\ UNCHANGED <<registry, issued, recorded, forgotten, events>>

-----------------------------------------------------------------------------
(* The end of a run before its time                                         *)

MayAbort(r) == Active(r) /\ Cardinality({a \in Run : run[a].node = "aborted"}) < MaxAborts

\* Its task is cancelled (stop, another prompt of the client, shutdown),
\* perhaps after the model answered and before the node's result is stored.
Cancel(r) ==
    /\ MayAbort(r)
    /\ run' = [run EXCEPT ![r] = Ended(r, "aborted", <<>>)]
    /\ \/ UNCHANGED recorded
       \/ run[r].node \in {"chat", "summarize", "command"} /\ recorded' = Recorded(r)
    /\ UNCHANGED <<checkpoint, registry, issued, forgotten, events>>

\* The model, a store or the broker raises inside a node.
Fail(r) ==
    /\ MayAbort(r)
    /\ run' = [run EXCEPT ![r] = Ended(r, "aborted", <<>>)]
    /\ UNCHANGED <<checkpoint, registry, issued, recorded, forgotten, events>>

-----------------------------------------------------------------------------
(* What comes from outside                                                  *)

Held(msgs, r) == \E k \in DOMAIN msgs : msgs[k].run = r

\* A run that is under way may store r's messages again.
Kept_By(r) == \E a \in Run : Active(a) /\ (a = r \/ Held(run[a].msgs, r))

\* Deviation: only the pending writes are deleted.
ClearHistory_Writes ==
    /\ events < MaxEvents
    /\ events' = events + 1
    /\ forgotten' = [r \in Run |-> IF run[r].node = "new" THEN "no"
                                   ELSE IF Kept_By(r) THEN "maybe" ELSE "surely"]
    /\ UNCHANGED <<checkpoint, run, registry, issued, recorded>>

\* The rows of the thread are deleted; runs under way go on.  A failure to
\* delete them changes nothing (and is reported like a success).
ClearHistory ==
    /\ events < MaxEvents
    /\ events' = events + 1
    /\ checkpoint' = <<>>
    /\ forgotten' = [r \in Run |-> IF run[r].node = "new" THEN "no"
                                   ELSE IF Kept_By(r) THEN "maybe" ELSE "surely"]
    /\ UNCHANGED <<run, registry, issued, recorded>>

\* Deviation: a manifest is added to the registry.
Discover_Adds ==
    /\ events < MaxEvents
    /\ events' = events + 1
    /\ \E tools \in Manifests : registry' = registry \o tools
    /\ UNCHANGED <<checkpoint, run, issued, recorded, forgotten>>

\* A manifest replaces the registry, the native tools included.
Discover ==
    /\ events < MaxEvents
    /\ events' = events + 1
    /\ registry' \in Manifests
    /\ UNCHANGED <<checkpoint, run, issued, recorded, forgotten>>

\* The engine goes down and comes back: the checkpoint is on disk.  A write
\* still in the background is lost, as if the crash had come a node earlier.
Crash ==
    /\ events < MaxEvents
    /\ events' = events + 1
    /\ run' = [r \in Run |-> IF Active(r) THEN Ended(r, "aborted", <<>>) ELSE run[r]]
    /\ registry' = Native
    /\ UNCHANGED <<checkpoint, issued, recorded, forgotten>>

-----------------------------------------------------------------------------
Step(r) ==
    \/ Read(r) \/ Input(r) \/ Router(r) \/ Speak(r) \/ Command(r)
    \/ CallScheduler(r) \/ AskUser(r) \/ Dispatch(r) \/ Approve(r) \/ Deny(r)
    \/ Reply(r) \/ ActionDone(r) \/ Cancel(r) \/ Fail(r)

Next ==
    \/ \E r \in Run : Step(r)
    \/ ClearHistory
    \/ Discover
    \/ Crash

Spec == Init /\ [][Next]_vars

-----------------------------------------------------------------------------
(* Properties                                                               *)

\* The lists of calls a message can carry.
CallLists == {<<>>} \cup {CallsOf(reply, tools) : reply \in Replies, tools \in Manifests \cup {Native}}

Msg == [role : {"human", "ai", "tool"}, run : Run, calls : CallLists, call : Nat, size : Nat \ {0}]

RunState ==
    [node : {"new", "loaded", "router", "chat", "command", "action", "summarize",
             "done", "aborted"},
     msgs : Seq(Msg), at : Nat \ {0}, step : {"pick", "confirm", "sent"},
     answers : Seq(Msg), alone : BOOLEAN]

TypeOK ==
    /\ checkpoint \in Seq(Msg)
    /\ run \in [Run -> RunState]
    /\ registry \in Manifests \cup {Native}
    /\ recorded \in [Run -> Seq(Run)]
    /\ forgotten \in [Run -> {"no", "maybe", "surely"}]

\* The last prompt in the messages of a run is its own.
PromptOK ==
    \A r \in Run : Active(r) /\ run[r].node # "loaded" =>
        \E h \in DOMAIN run[r].msgs :
            /\ run[r].msgs[h] = Human(r)
            /\ \A k \in DOMAIN run[r].msgs : run[r].msgs[k].role = "human" => k <= h

\* In the action node the last message asks for the calls, and what was
\* collected answers those before the one the node is at; in the summarize
\* node the messages end with the calls and what was collected.
ActionOK ==
    \A r \in Run :
        /\ run[r].node \in {"loaded", "router", "command"} =>
             run[r].answers = <<>> /\ run[r].at = 1 /\ run[r].step = "pick"
        /\ run[r].node = "action" =>
             LET call == Last(run[r].msgs)
             IN  /\ run[r].msgs # <<>> /\ Calling(call) /\ call.run = r
                 /\ run[r].at = Len(run[r].answers) + 1
                 /\ run[r].step # "pick" => run[r].at \in DOMAIN call.calls
                 /\ \A k \in DOMAIN run[r].answers :
                      LET m == run[r].answers[k]
                      IN  m.role = "tool" /\ m.run = r /\ m.call = k /\ k \in DOMAIN call.calls
        /\ run[r].node = "summarize" =>
             LET n == Len(run[r].msgs) - Len(run[r].answers)
             IN  /\ n \in DOMAIN run[r].msgs /\ Calling(run[r].msgs[n])
                 /\ \A k \in DOMAIN run[r].answers :
                      run[r].answers[k] = run[r].msgs[n + k] /\ run[r].answers[k].role = "tool"

\* Only what a run already said can be forgotten, for sure only once it is over.
ForgottenOK ==
    \A r \in Run : /\ run[r].node = "new" => forgotten[r] = "no"
                   /\ Active(r) => forgotten[r] # "surely"

Histories == {checkpoint} \cup {run[r].msgs : r \in {a \in Run : Active(a)}}

\* A run that no other has overlapped so far is the only one under way.
AloneOK == \A r, a \in Run : Active(r) /\ run[r].alone /\ Active(a) => a = r

\* Nobody has a message of a run that has said nothing yet.
UnsaidOK ==
    \A r \in Run : run[r].node \in {"new", "loaded"} =>
        \A msgs \in Histories : ~Held(msgs, r)

\* What a run holds is older than its prompt or was said by the run itself: at
\* first the prompt alone, in the action node the prompt and the calls.
ExchangeOK ==
    \A r \in Run : Active(r) /\ run[r].node # "loaded" =>
        LET h == LastHuman(run[r].msgs)
        IN  /\ \A k \in DOMAIN run[r].msgs : run[r].msgs[k].run = r <=> k >= h
            /\ run[r].node \in {"router", "chat", "command"} => h = Len(run[r].msgs)
            /\ run[r].node = "action" => h = Len(run[r].msgs) - 1

NodesOK == TypeOK /\ PromptOK /\ ActionOK /\ ForgottenOK
ConvInv == NodesOK /\ AloneOK /\ UnsaidOK /\ ExchangeOK

\* Whatever overlaps, is cancelled or cleared, no stored or held history has a
\* tool message anywhere but behind its own call, in the order of the calls:
\* a model provider rejects anything else (the reason for short_term.py).
HistoryPaired == \A msgs \in Histories : WellPaired(msgs)

\* All answers to the calls of message k follow it in order.
Answered(msgs, k) ==
    \A i \in DOMAIN msgs[k].calls :
        /\ k + i \in DOMAIN msgs
        /\ Answers(msgs[k + i], msgs[k]) /\ msgs[k + i].call = i

\* A call without all its answers, stored or held, belongs to a run that is
\* still executing, ended before its time, or overlapped another run.
CallsAnswered ==
    \A msgs \in Histories : \A k \in DOMAIN msgs : Calling(msgs[k]) =>
        \/ run[msgs[k].run].node \in {"action", "aborted"}
        \/ ~run[msgs[k].run].alone
        \/ Answered(msgs, k)

\* The messages of run r in msgs are these, one behind the other.
Whole(msgs, r, said) ==
    \E n \in 0..Len(msgs) :
        /\ \A k \in DOMAIN msgs : msgs[k].run = r <=> k - n \in DOMAIN said
        /\ \A i \in DOMAIN said : n + i \in DOMAIN msgs /\ msgs[n + i] = said[i]

\* The exchange of a run that no other overlapped stays in the conversation and
\* in whatever other runs make of it, whole and in one piece, until the user
\* clears the history: through crashes and any overlapping of later runs.
AnsweredKept ==
    \A r \in Run :
        run[r].node = "done" /\ run[r].alone /\ forgotten[r] = "no"
            => \A msgs \in Histories : Whole(msgs, r, run[r].msgs)

\* After a clear, the exchanges that no run under way holds never come back.
ClearedStaysCleared ==
    \A r \in Run : forgotten[r] = "surely" =>
        ~Held(checkpoint, r) /\ \A a \in Run : Active(a) => ~Held(run[a].msgs, r)

\* What the model is shown when the run r asks it.
Window(r) == trim_messages_token_budget(run[r].msgs, Budget)

\* However long the history and the tools' outputs: the model is shown the
\* prompt it has to answer, and when it summarises, all the calls with all
\* their answers.
WindowServes ==
    \A r \in Run :
        /\ run[r].node \in {"chat", "command"} => Window(r) # <<>> /\ Last(Window(r)) = Human(r)
        /\ run[r].node = "summarize" =>
             LET n == Len(run[r].answers) + 1
             IN  /\ Len(Window(r)) >= n
                 /\ Calling(Window(r)[Len(Window(r)) - n + 1])
                 /\ SubSeq(Window(r), Len(Window(r)) - n + 2, Len(Window(r))) = run[r].answers

\* The window wastes no budget: it is the longest end of the history that fits.
WindowLongest ==
    \A r \in Run : run[r].node \in {"chat", "command", "summarize"} =>
        Window(r) = LongestFitting(run[r].msgs, Budget)

\* Each exchange reaches the long-term memory once: with the run's own
\* prompt, although the history of all clients is searched for it, and not
\* twice when tools are called in between.
RecordedOnce ==
    \A r \in Run :
        /\ recorded[r] \in {<<>>, <<r>>}
        /\ run[r].node = "done" => recorded[r] = <<r>>
        /\ run[r].node = "new" \/ Active(r) => recorded[r] = <<>>

\* Whatever the model writes, however a name resolves and whichever registry
\* is in force then, a critical tool is called only after the user agreed.
CriticalAsked == \A c \in issued : c.name \in KnownCritical => c.asked

\* A native tool is called with the arguments of its schema.  The code does
\* not keep this: after a discovery their schemas are unknown.
NativeCallsUnderstood ==
    \A c \in issued : \A t \in ToSet(Native) : c.name = t.name => DOMAIN c.args \subseteq t.props
=============================================================================
