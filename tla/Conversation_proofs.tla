-------------------------- MODULE Conversation_proofs --------------------------
(* Proofs about the conversation: what is stored and held stays well        *)
(* formed, what is cleared stays cleared, turns are recorded once, critical *)
(* tools are asked for, calls are answered, exchanges are kept and the      *)
(* model is shown what it needs, for any runs, replies, registries and      *)
(* bounds.  There are two invariants: Inv, properties that are inductive    *)
(* together with NodesOK, and Exchanges, which is inductive where Inv       *)
(* holds.                                                                   *)
EXTENDS Conversation, ShortTermMemory_proofs, SequenceTheorems, NaturalsInduction, WellFoundedInduction,
        FiniteSetTheorems, TLAPS

Nodes == {"new", "loaded", "router", "chat", "command", "action", "summarize",
          "done", "aborted"}

Inv == NodesOK /\ HistoryPaired /\ ClearedStaysCleared /\ RecordedOnce /\ CriticalAsked

-----------------------------------------------------------------------------
(* Sequences and numbers                                                    *)

LEMMA Joined ==
    ASSUME NEW S, NEW msgs \in Seq(S), NEW new \in Seq(S)
    PROVE  /\ msgs \o new \in Seq(S)
           /\ Len(msgs) \in Nat /\ Len(new) \in Nat
           /\ DOMAIN msgs = 1 .. Len(msgs) /\ DOMAIN new = 1 .. Len(new)
           /\ Len(msgs \o new) = Len(msgs) + Len(new)
           /\ DOMAIN (msgs \o new) = 1 .. Len(msgs) + Len(new)
           /\ \A k \in 1 .. Len(msgs) : (msgs \o new)[k] = msgs[k]
           /\ \A k \in 1 .. Len(new) : (msgs \o new)[Len(msgs) + k] = new[k]
  OBVIOUS

LEMMA JoinedAt ==
    ASSUME NEW S, NEW msgs \in Seq(S), NEW new \in Seq(S), NEW k \in DOMAIN (msgs \o new)
    PROVE  \/ k \in DOMAIN msgs /\ (msgs \o new)[k] = msgs[k]
           \/ \E i \in DOMAIN new : k = Len(msgs) + i /\ (msgs \o new)[k] = new[i]
  <1>1. CASE k <= Len(msgs)
    BY <1>1, Joined
  <1>2. CASE ~(k <= Len(msgs))
    <2> DEFINE i == k - Len(msgs)
    <2>1. i \in 1 .. Len(new) /\ k = Len(msgs) + i
      BY <1>2, Joined
    <2> QED BY <2>1, Joined
  <1> QED BY <1>1, <1>2

\* The last prompt is found if there is one after which there is none.
LEMMA LastHumanIs ==
    ASSUME NEW msgs \in Seq(Msg), NEW h \in DOMAIN msgs, msgs[h].role = "human",
           \A k \in DOMAIN msgs : msgs[k].role = "human" => k <= h
    PROVE  LastHuman(msgs) = h
  <1> DEFINE S == {0} \cup {k \in DOMAIN msgs : msgs[k].role = "human"}
  <1>1. h \in S /\ \A y \in S : y \in Nat /\ h >= y
    OBVIOUS
  <1>2. \A x \in S : (\A y \in S : x >= y) => x = h
    BY <1>1
  <1>3. Max(S) = h
    <2> HIDE DEF S
    <2> QED BY <1>1, <1>2 DEF Max
  <1> QED BY <1>3 DEF LastHuman

-----------------------------------------------------------------------------
(* Well-formed histories                                                    *)

LEMMA CallNumbers ==
    ASSUME NEW msgs \in Seq(Msg), NEW j \in DOMAIN msgs
    PROVE  msgs[j].call \in Nat /\ j \in 1 .. Len(msgs) /\ Len(msgs) \in Nat
  <1>1. msgs[j] \in Msg
    OBVIOUS
  <1> QED BY <1>1 DEF Msg

\* Message j answers message i, and so do all between them.
Follows(msgs, j, i) ==
    /\ i >= 1
    /\ Answers(msgs[j], msgs[i])
    /\ \A k \in i+1..j : msgs[k].role = "tool" /\ msgs[k].run = msgs[j].run
                         /\ msgs[k].call = k - i

LEMMA PairedMeans ==
    ASSUME NEW msgs
    PROVE  WellPaired(msgs) <=> \A j \in DOMAIN msgs : msgs[j].role = "tool" =>
                                    Follows(msgs, j, j - msgs[j].call)
  BY DEF WellPaired, Follows

LEMMA PairedEmpty == WellPaired(<<>>)
  BY DEF WellPaired

\* What follows does not matter.
LEMMA PairedKept ==
    ASSUME NEW msgs \in Seq(Msg), WellPaired(msgs), NEW new \in Seq(Msg),
           NEW j \in DOMAIN msgs, msgs[j].role = "tool"
    PROVE  Follows(msgs \o new, j, j - (msgs \o new)[j].call)
  <1> DEFINE all == msgs \o new
  <1> DEFINE i == j - msgs[j].call
  <1>1. j \in 1 .. Len(msgs) /\ all[j] = msgs[j] /\ msgs[j].call \in Nat /\ Len(msgs) \in Nat
    BY CallNumbers, Joined
  <1>2. Follows(msgs, j, i)
    BY PairedMeans
  <1>3. i \in Int /\ i >= 1 /\ i <= j
    BY <1>1, <1>2 DEF Follows
  <1>4. \A k \in i .. j : all[k] = msgs[k]
    BY <1>1, <1>3, Joined
  <1>5. all[i] = msgs[i] /\ j - all[j].call = i /\ \A k \in i+1 .. j : k \in i .. j
    BY <1>1, <1>3, <1>4
  <1>6. Follows(all, j, i)
    <2> HIDE DEF all, i
    <2> QED BY <1>1, <1>2, <1>4, <1>5 DEF Follows
  <1> QED BY <1>5, <1>6

LEMMA PairedAppend ==
    ASSUME NEW msgs \in Seq(Msg), WellPaired(msgs), NEW m \in Msg, m.role # "tool"
    PROVE  WellPaired(msgs \o <<m>>)
  <1> DEFINE all == msgs \o <<m>>
  <1> SUFFICES ASSUME NEW j \in DOMAIN all, all[j].role = "tool"
               PROVE  Follows(all, j, j - all[j].call)
    BY PairedMeans
  <1>1. j \in DOMAIN msgs /\ all[j] = msgs[j]
    BY JoinedAt
  <1>2. <<m>> \in Seq(Msg)
    OBVIOUS
  <1>3. Follows(msgs \o <<m>>, j, j - (msgs \o <<m>>)[j].call)
    <2> HIDE DEF all
    <2> QED BY <1>1, <1>2, PairedKept DEF all
  <1> QED BY <1>3

\* The answers of the action node go behind the message that calls.
LEMMA PairedAnswers ==
    ASSUME NEW msgs \in Seq(Msg), WellPaired(msgs), msgs # <<>>, Last(msgs).role = "ai",
           NEW new \in Seq(Msg),
           \A k \in DOMAIN new : /\ new[k].role = "tool" /\ new[k].run = Last(msgs).run
                                 /\ new[k].call = k /\ k \in DOMAIN Last(msgs).calls
    PROVE  WellPaired(msgs \o new)
  <1> DEFINE all == msgs \o new
             n == Len(msgs)
  <1> SUFFICES ASSUME NEW j \in DOMAIN all, all[j].role = "tool"
               PROVE  Follows(all, j, j - all[j].call)
    BY PairedMeans
  <1>0. n \in Nat /\ n >= 1 /\ all[n] = Last(msgs)
    BY Joined DEF Last
  <1>1. CASE j \in DOMAIN msgs /\ all[j] = msgs[j]
    BY <1>1, PairedKept
  <1>2. CASE \E i \in DOMAIN new : j = n + i /\ all[j] = new[i]
    <2>1. PICK c \in DOMAIN new : j = n + c /\ all[j] = new[c]
      BY <1>2
    <2>2. c \in Nat /\ all[j].call = c /\ j - all[j].call = n
      <3>1. c \in Nat /\ new[c].call = c
        BY Joined
      <3>2. all[j].call = c
        BY <2>1, <3>1
      <3> HIDE DEF all, n
      <3> QED BY <1>0, <2>1, <3>1, <3>2
    <2>3. \A k \in n+1 .. j : all[k].role = "tool" /\ all[k].run = Last(msgs).run
                              /\ all[k].call = k - n
      <3> SUFFICES ASSUME NEW k \in n+1 .. j
                   PROVE  all[k].role = "tool" /\ all[k].run = Last(msgs).run /\ all[k].call = k - n
        OBVIOUS
      <3>1. k - n \in DOMAIN new /\ all[k] = new[k - n]
        <4>1. k - n \in 1 .. Len(new) /\ k = n + (k - n)
          BY <1>0, <2>1, Joined
        <4> QED BY <4>1, Joined
      <3> QED BY <3>1
    <2>4. Answers(all[j], all[n]) /\ all[j].run = Last(msgs).run
      BY <1>0, <2>1 DEF Answers
    <2>5. \A k \in n+1 .. j : all[k].run = all[j].run
      BY <2>3, <2>4
    <2>6. j - all[j].call = n /\ n >= 1 /\ Answers(all[j], all[n])
      BY <1>0, <2>2, <2>4
    <2>7. \A k \in n+1 .. j : all[k].role = "tool" /\ all[k].run = all[j].run
                              /\ all[k].call = k - n
      BY <2>3, <2>5
    <2>8. Follows(all, j, n)
      BY <2>6, <2>7 DEF Follows
    <2> QED BY <2>6, <2>8
  <1> QED BY <1>1, <1>2, JoinedAt
-----------------------------------------------------------------------------
(* What the steps of a run have in common                                   *)

LEMMA RunFields ==
    ASSUME TypeOK, NEW r \in Run
    PROVE  /\ run[r] \in RunState /\ run[r].node \in Nodes
           /\ run[r].msgs \in Seq(Msg) /\ run[r].answers \in Seq(Msg)
           /\ run[r].at \in Nat /\ recorded[r] \in Seq(Run)
  <1>1. run[r] \in RunState
    BY DEF TypeOK
  <1> QED BY <1>1 DEF TypeOK, RunState, Nodes

LEMMA Messages ==
    ASSUME NEW r \in Run
    PROVE  /\ Human(r) \in Msg /\ Human(r).role = "human" /\ Human(r).run = r
           /\ \A calls \in CallLists : /\ Ai(r, calls) \in Msg /\ Ai(r, calls).role = "ai"
                                      /\ Ai(r, calls).run = r /\ Ai(r, calls).calls = calls
           /\ \A i \in Nat, n \in Nat \ {0} :
                               /\ Answer(r, i, n) \in Msg /\ Answer(r, i, n).role = "tool"
                               /\ Answer(r, i, n).run = r /\ Answer(r, i, n).call = i
  <1>1. <<>> \in CallLists
    BY DEF CallLists
  <1> QED BY <1>1 DEF Human, Ai, Answer, Msg

\* Goes to a node of the graph, and to its end.
LEMMA GoesOn ==
    ASSUME TypeOK, NEW r \in Run, NEW node \in Nodes, node # "done", NEW new \in Seq(Msg),
           Goes(r, node, new)
    PROVE  /\ checkpoint' = run[r].msgs \o new /\ checkpoint' \in Seq(Msg)
           /\ run' \in [Run -> RunState]
           /\ \A a \in Run : a # r => run'[a] = run[a]
           /\ run'[r].node = node /\ run'[r].msgs = checkpoint' /\ run'[r].at = run[r].at
           /\ run'[r].step = run[r].step /\ run'[r].answers = run[r].answers
           /\ run'[r].alone = run[r].alone
  <1>1. checkpoint' = run[r].msgs \o new /\ checkpoint' \in Seq(Msg)
    BY RunFields, Joined DEF Goes
  <1>2. run[r] \in RunState /\ run \in [Run -> RunState]
    BY DEF TypeOK
  <1>3. run' = [run EXCEPT ![r] = [run[r] EXCEPT !.node = node, !.msgs = checkpoint']]
    BY <1>1 DEF Goes, Entered
  <1>4. [run[r] EXCEPT !.node = node, !.msgs = checkpoint'] \in RunState
    BY <1>1, <1>2 DEF RunState, Nodes
  <1> QED BY <1>1, <1>2, <1>3, <1>4 DEF RunState

LEMMA EndedFields ==
    ASSUME TypeOK, NEW r \in Run, NEW node \in Nodes, NEW said \in Seq(Msg)
    PROVE  /\ Ended(r, node, said) \in RunState /\ Ended(r, node, said).node = node
           /\ Ended(r, node, said).msgs = said /\ Ended(r, node, said).alone = run[r].alone
  <1>1. run[r].alone \in BOOLEAN
    BY DEF TypeOK, RunState
  <1>2. <<>> \in Seq(Msg) /\ 1 \in Nat \ {0} /\ "pick" \in {"pick", "confirm", "sent"}
    OBVIOUS
  <1>3. Fresh \in RunState
    BY <1>2 DEF RunState, Fresh
  <1> DEFINE end == Ended(r, node, said)
  <1>0. end.alone = run[r].alone
    BY DEF Ended, Fresh
  <1>4. run[r].alone = TRUE => end \in RunState /\ end.node = node /\ end.msgs = said
    <2> SUFFICES ASSUME run[r].alone = TRUE
                 PROVE  end \in RunState /\ end.node = node /\ end.msgs = said
      OBVIOUS
    <2>1. Ended(r, node, said) = [[[Fresh EXCEPT !.node = node] EXCEPT !.msgs = said]
                                      EXCEPT !.alone = TRUE]
      BY DEF Ended
    <2> QED BY <1>3, <2>1 DEF RunState, Nodes
  <1>5. run[r].alone = FALSE => end \in RunState /\ end.node = node /\ end.msgs = said
    <2> SUFFICES ASSUME run[r].alone = FALSE
                 PROVE  end \in RunState /\ end.node = node /\ end.msgs = said
      OBVIOUS
    <2>1. Ended(r, node, said) = [[[Fresh EXCEPT !.node = node] EXCEPT !.msgs = said]
                                      EXCEPT !.alone = FALSE]
      BY DEF Ended
    <2> QED BY <1>3, <2>1 DEF RunState, Nodes
  <1>6. end \in RunState /\ end.node = node /\ end.msgs = said
    <2> HIDE DEF end
    <2> QED BY <1>1, <1>4, <1>5
  <1> QED BY <1>0, <1>6

LEMMA EndedEmpty ==
    ASSUME TypeOK
    PROVE  \A r \in Run : /\ Ended(r, "aborted", <<>>) \in RunState
                          /\ Ended(r, "aborted", <<>>).node = "aborted"
  <1> DEFINE said == <<>>
  <1>1. said \in Seq(Msg) /\ "aborted" \in Nodes
    BY DEF Nodes
  <1> HIDE DEF said
  <1>2. \A r \in Run : /\ Ended(r, "aborted", said) \in RunState
                       /\ Ended(r, "aborted", said).node = "aborted"
    BY <1>1, EndedFields
  <1> QED BY <1>2 DEF said

LEMMA GoesDone ==
    ASSUME TypeOK, NEW r \in Run, NEW new \in Seq(Msg), Goes(r, "done", new),
           LastHuman(run[r].msgs \o new) \in DOMAIN (run[r].msgs \o new)
    PROVE  /\ checkpoint' = run[r].msgs \o new /\ checkpoint' \in Seq(Msg)
           /\ run' \in [Run -> RunState]
           /\ \A a \in Run : a # r => run'[a] = run[a]
           /\ run'[r].node = "done" /\ run'[r].alone = run[r].alone
           /\ LET all == run[r].msgs \o new
              IN  run'[r].msgs = SubSeq(all, LastHuman(all), Len(all))
  <1> DEFINE all == run[r].msgs \o new
             h == LastHuman(all)
             said == SubSeq(all, h, Len(all))
  <1>1. checkpoint' = all /\ all \in Seq(Msg)
    BY RunFields, Joined DEF Goes
  <1>2. h \in 1 .. Len(all)
    BY <1>1
  <1>3. said \in Seq(Msg)
    BY <1>1, <1>2
  <1>4. run[r] \in RunState /\ run \in [Run -> RunState]
    BY DEF TypeOK
  <1>5. h # 0
    BY <1>2
  <1>6. Entered(r, "done", all) = Ended(r, "done", said)
    <2>1. Entered(r, "done", all) = Ended(r, "done", IF h = 0 THEN <<>> ELSE said)
      BY DEF Entered
    <2> HIDE DEF h, said
    <2> QED BY <1>5, <2>1
  <1>7. run' = [run EXCEPT ![r] = Ended(r, "done", said)]
    BY <1>6 DEF Goes
  <1>8. /\ Ended(r, "done", said) \in RunState /\ Ended(r, "done", said).node = "done"
        /\ Ended(r, "done", said).msgs = said /\ Ended(r, "done", said).alone = run[r].alone
    <2> HIDE DEF said
    <2> QED BY <1>3, EndedFields DEF Nodes
  <1>9. /\ run' \in [Run -> RunState] /\ run'[r].node = "done"
        /\ run'[r].msgs = said /\ run'[r].alone = run[r].alone
        /\ \A a \in Run : a # r => run'[a] = run[a]
    <2> HIDE DEF said
    <2> QED BY <1>4, <1>7, <1>8
  <1> QED BY <1>1, <1>9

\* A run under way finds its own prompt.
Prompted(msgs, r, h) ==
    /\ h \in DOMAIN msgs /\ msgs[h] = Human(r)
    /\ \A k \in DOMAIN msgs : msgs[k].role = "human" => k <= h

LEMMA PromptFound ==
    ASSUME TypeOK, PromptOK, NEW r \in Run, Active(r), run[r].node # "loaded"
    PROVE  \E h \in DOMAIN run[r].msgs : Prompted(run[r].msgs, r, h)
  BY DEF PromptOK, Prompted

LEMMA PromptStays ==
    ASSUME NEW msgs \in Seq(Msg), NEW new \in Seq(Msg), NEW r, NEW h, Prompted(msgs, r, h),
           \A k \in DOMAIN new : new[k].role # "human"
    PROVE  Prompted(msgs \o new, r, h)
  <1>1. h \in DOMAIN (msgs \o new) /\ (msgs \o new)[h] = Human(r)
    BY Joined DEF Prompted
  <1>2. \A k \in DOMAIN (msgs \o new) : (msgs \o new)[k].role = "human" => k <= h
    BY JoinedAt DEF Prompted
  <1> QED BY <1>1, <1>2 DEF Prompted

LEMMA PromptLast ==
    ASSUME NEW msgs \in Seq(Msg), NEW r \in Run, NEW h, Prompted(msgs, r, h)
    PROVE  LastHuman(msgs) = h
  BY LastHumanIs, Messages DEF Prompted

LEMMA RecordedIs ==
    ASSUME Inv, NEW r \in Run, Active(r), run[r].node # "loaded"
    PROVE  Recorded(r) = [recorded EXCEPT ![r] = <<r>>]
  <1>1. PICK h \in DOMAIN run[r].msgs : Prompted(run[r].msgs, r, h)
    BY PromptFound DEF Inv, NodesOK
  <1>2. run[r].msgs \in Seq(Msg)
    BY RunFields DEF Inv, NodesOK
  <1>3. LastHuman(run[r].msgs) = h /\ h # 0
    BY <1>1, <1>2, PromptLast
  <1>4. run[r].msgs[h].run = r
    BY <1>1, Messages DEF Prompted
  <1>5. recorded[r] = <<>> /\ Append(<<>>, r) = <<r>>
    BY DEF Inv, RecordedOnce
  <1> QED BY <1>3, <1>4, <1>5 DEF Recorded

-----------------------------------------------------------------------------
(* What does not depend on the calls of a message                           *)

Sound == PromptOK /\ ForgottenOK /\ HistoryPaired /\ ClearedStaysCleared

LEMMA InvParts ==
    /\ Inv <=> TypeOK /\ Sound /\ ActionOK /\ RecordedOnce /\ CriticalAsked
    /\ Inv' <=> TypeOK' /\ Sound' /\ ActionOK' /\ RecordedOnce' /\ CriticalAsked'
  BY DEF Inv, NodesOK, Sound

\* The step leaves the messages alone: of each run, or it ends the run.
LEMMA Quiet ==
    ASSUME Inv, UNCHANGED <<checkpoint, forgotten>>,
           \A a \in Run : \/ run'[a].node = run[a].node /\ run'[a].msgs = run[a].msgs
                          \/ Active(a) /\ run'[a].node \in {"done", "aborted"}
    PROVE  Sound'
  <1>1. \A a \in Run : Active(a)' => Active(a) /\ run'[a].msgs = run[a].msgs
                                                /\ run'[a].node = run[a].node
    BY DEF Active
  <1>2. PromptOK'
    BY <1>1 DEF PromptOK, Inv, NodesOK, Human
  <1>3. ForgottenOK'
    BY <1>1 DEF ForgottenOK, Inv, NodesOK, Active
  <1>4. HistoryPaired'
    BY <1>1 DEF HistoryPaired, Histories, Inv
  <1>5. ClearedStaysCleared'
    BY <1>1 DEF ClearedStaysCleared, Inv, Held
  <1> QED BY <1>2, <1>3, <1>4, <1>5 DEF Sound

\* The step stores what run r holds and adds to it.
LEMMA AfterGoes ==
    ASSUME Inv, NEW r \in Run, Active(r), NEW node \in Nodes \ {"new", "loaded"},
           NEW new \in Seq(Msg), Goes(r, node, new), UNCHANGED forgotten,
           WellPaired(run[r].msgs \o new), \A k \in DOMAIN new : new[k].run = r,
           NEW h, Prompted(run[r].msgs \o new, r, h)
    PROVE  /\ checkpoint' = run[r].msgs \o new /\ checkpoint' \in Seq(Msg)
           /\ run' \in [Run -> RunState] /\ run'[r].node = node
           /\ \A a \in Run : a # r => run'[a] = run[a]
           /\ node # "done" =>
                /\ run'[r].msgs = checkpoint' /\ run'[r].at = run[r].at
                /\ run'[r].step = run[r].step /\ run'[r].answers = run[r].answers
           /\ Sound'
  <1> DEFINE all == run[r].msgs \o new
  <1>1. TypeOK /\ run[r].msgs \in Seq(Msg) /\ all \in Seq(Msg)
    BY RunFields, Joined DEF Inv, NodesOK
  <1>2. LastHuman(all) \in DOMAIN all
    <2>1. LastHuman(all) = h /\ h \in DOMAIN all
      BY <1>1, PromptLast DEF Prompted
    <2> QED BY <2>1
  <1>3. /\ checkpoint' = all /\ checkpoint' \in Seq(Msg)
        /\ run' \in [Run -> RunState] /\ run'[r].node = node
        /\ \A a \in Run : a # r => run'[a] = run[a]
        /\ node # "done" =>
             /\ run'[r].msgs = checkpoint' /\ run'[r].at = run[r].at
             /\ run'[r].step = run[r].step /\ run'[r].answers = run[r].answers
    <2>1. CASE node = "done"
      BY <1>1, <1>2, <2>1, GoesDone
    <2>2. CASE node # "done"
      BY <1>1, <2>2, GoesOn
    <2> QED BY <2>1, <2>2
  <1>4. \A a \in Run : Active(a)' => Active(a) /\ (run'[a] = run[a] \/ (a = r /\ run'[a].msgs = all))
    <2> SUFFICES ASSUME NEW a \in Run, Active(a)'
                 PROVE  Active(a) /\ (run'[a] = run[a] \/ (a = r /\ run'[a].msgs = all))
      OBVIOUS
    <2>1. CASE a = r
      <3>1. run'[r].node # "done"
        BY <2>1 DEF Active
      <3>2. node # "done"
        BY <1>3, <3>1
      <3> HIDE DEF all
      <3> QED BY <1>3, <2>1, <3>2
    <2>2. CASE a # r
      <3>1. run'[a] = run[a]
        BY <1>3, <2>2
      <3>2. Active(a)
        BY <3>1 DEF Active
      <3> QED BY <3>1, <3>2
    <2> QED BY <2>1, <2>2
  <1>5. PromptOK'
    <2> SUFFICES ASSUME NEW a \in Run, Active(a)', run'[a].node # "loaded"
                 PROVE  \E k \in DOMAIN run'[a].msgs : Prompted(run'[a].msgs, a, k)
      BY DEF PromptOK, Prompted, Human
    <2>1. CASE run'[a] = run[a]
      BY <1>1, <1>4, <2>1, PromptFound DEF Inv, NodesOK
    <2>2. CASE a = r /\ run'[a].msgs = all
      BY <2>2 DEF Prompted
    <2> QED BY <1>4, <2>1, <2>2
  <1>6. ForgottenOK'
    <2> SUFFICES ASSUME NEW a \in Run
                 PROVE  /\ run'[a].node = "new" => forgotten'[a] = "no"
                        /\ Active(a)' => forgotten'[a] # "surely"
      BY DEF ForgottenOK
    <2>1. run'[a].node = "new" => run'[a] = run[a]
      BY <1>3
    <2> QED BY <1>4, <2>1 DEF ForgottenOK, Inv, NodesOK
  <1>7. HistoryPaired'
    BY <1>3, <1>4 DEF HistoryPaired, Histories, Inv
  <1>8. ClearedStaysCleared'
    <2> SUFFICES ASSUME NEW f \in Run, forgotten'[f] = "surely"
                 PROVE  ~Held(checkpoint', f) /\ \A a \in Run : Active(a)' => ~Held(run'[a].msgs, f)
      BY DEF ClearedStaysCleared, Held
    <2>1. f # r /\ \A a \in Run : Active(a) => ~Held(run[a].msgs, f)
      BY DEF ForgottenOK, ClearedStaysCleared, Inv, NodesOK
    <2>2. ~Held(all, f)
      <3> SUFFICES ASSUME NEW k \in DOMAIN all PROVE all[k].run # f
        BY DEF Held
      <3>1. \A i \in DOMAIN run[r].msgs : run[r].msgs[i].run # f
        BY <2>1 DEF Held
      <3> QED BY <1>1, <2>1, <3>1, JoinedAt
    <2> HIDE DEF all
    <2> QED BY <1>3, <1>4, <2>1, <2>2
  <1> QED BY <1>3, <1>5, <1>6, <1>7, <1>8 DEF Sound

-----------------------------------------------------------------------------
(* The nodes                                                                *)

\* The calls of run r's action node are as ActionOK says.
Handles(r, node, msgs, at, step, answers) ==
    /\ node \in {"loaded", "router", "command"} => answers = <<>> /\ at = 1 /\ step = "pick"
    /\ node = "action" =>
         LET call == Last(msgs)
         IN  /\ msgs # <<>> /\ Calling(call) /\ call.run = r
             /\ at = Len(answers) + 1
             /\ step # "pick" => at \in DOMAIN call.calls
             /\ \A k \in DOMAIN answers :
                  LET m == answers[k]
                  IN  m.role = "tool" /\ m.run = r /\ m.call = k /\ k \in DOMAIN call.calls
    /\ node = "summarize" =>
         LET n == Len(msgs) - Len(answers)
         IN  /\ n \in DOMAIN msgs /\ Calling(msgs[n])
             /\ \A k \in DOMAIN answers : answers[k] = msgs[n + k] /\ answers[k].role = "tool"

CallsOK(r) ==
    Handles(r, run[r].node, run[r].msgs, run[r].at, run[r].step, run[r].answers)

LEMMA CallsOthers ==
    /\ ActionOK <=> \A a \in Run : CallsOK(a)
    /\ ActionOK' <=> \A a \in Run : CallsOK(a)'
    /\ \A a \in Run : run'[a] = run[a] => (CallsOK(a) <=> CallsOK(a)')
  <1>1. ActionOK <=> \A a \in Run : CallsOK(a)
    BY DEF ActionOK, CallsOK, Handles
  <1>2. ActionOK' <=> \A a \in Run : CallsOK(a)'
    BY DEF ActionOK, CallsOK, Handles, Calling, Last
  <1>3. \A a \in Run : run'[a] = run[a] => (CallsOK(a) <=> CallsOK(a)')
    BY DEF CallsOK
  <1> QED BY <1>1, <1>2, <1>3

\* The invariant after run r left a node.
LEMMA AfterNode ==
    ASSUME Inv, NEW r \in Run, Active(r), Sound', checkpoint' \in Seq(Msg),
           run' \in [Run -> RunState], \A a \in Run : a # r => run'[a] = run[a],
           run'[r].node # "new", CallsOK(r)', UNCHANGED <<registry, forgotten>>, CriticalAsked',
           \/ Active(r)' /\ recorded' = recorded
           \/ run'[r].node = "done" /\ recorded' = [recorded EXCEPT ![r] = <<r>>]
    PROVE  Inv'
  <1>1. recorded \in [Run -> Seq(Run)] /\ <<r>> \in Seq(Run)
    BY DEF Inv, NodesOK, TypeOK
  <1>2. TypeOK'
    BY <1>1 DEF Inv, NodesOK, TypeOK
  <1>3. ActionOK'
    BY CallsOthers DEF Inv, NodesOK
  <1>4. RecordedOnce'
    <2> SUFFICES ASSUME NEW a \in Run
                 PROVE  /\ recorded'[a] \in {<<>>, <<a>>}
                        /\ run'[a].node = "done" => recorded'[a] = <<a>>
                        /\ run'[a].node = "new" \/ Active(a)' => recorded'[a] = <<>>
      BY DEF RecordedOnce
    <2>1. CASE a # r
      <3>1. run'[a] = run[a] /\ recorded'[a] = recorded[a]
        BY <1>1, <2>1
      <3> QED BY <3>1 DEF RecordedOnce, Inv, Active
    <2>2. CASE a = r /\ Active(r)' /\ recorded' = recorded
      <3>1. recorded[r] = <<>>
        BY DEF RecordedOnce, Inv
      <3> QED BY <2>2, <3>1 DEF Active
    <2>3. CASE a = r /\ run'[r].node = "done" /\ recorded' = [recorded EXCEPT ![r] = <<r>>]
      BY <1>1, <2>3 DEF Active
    <2> QED BY <2>1, <2>2, <2>3
  <1> QED BY <1>2, <1>3, <1>4, InvParts

LEMMA InputInv == ASSUME Inv, NEW r \in Run, Input(r) PROVE Inv'
  <1> DEFINE new == <<Human(r)>>
             all == run[r].msgs \o new
  <1>1. /\ run[r].node = "loaded" /\ Active(r) /\ Goes(r, "router", new)
        /\ UNCHANGED <<registry, issued, recorded, forgotten>>
    BY DEF Input, Active
  <1>2. run[r].msgs \in Seq(Msg) /\ new \in Seq(Msg) /\ WellPaired(run[r].msgs)
    BY <1>1, RunFields, Messages DEF Inv, NodesOK, HistoryPaired, Histories
  <1>3. WellPaired(all)
    BY <1>2, Messages, PairedAppend
  <1>4. Prompted(all, r, Len(run[r].msgs) + 1)
    <2>1. /\ Len(all) = Len(run[r].msgs) + 1 /\ Len(run[r].msgs) \in Nat
          /\ DOMAIN all = 1 .. Len(run[r].msgs) + 1 /\ all[Len(run[r].msgs) + 1] = Human(r)
      BY <1>2
    <2> HIDE DEF all
    <2> QED BY <2>1 DEF Prompted
  <1>5. \A k \in DOMAIN new : new[k].run = r
    BY Messages
  <1>6. /\ checkpoint' \in Seq(Msg) /\ run' \in [Run -> RunState] /\ run'[r].node = "router"
        /\ \A a \in Run : a # r => run'[a] = run[a]
        /\ run'[r].at = run[r].at /\ run'[r].step = run[r].step /\ run'[r].answers = run[r].answers
        /\ Sound'
    <2>1. "router" \in Nodes \ {"new", "loaded"} /\ forgotten' = forgotten
      BY <1>1 DEF Nodes
    <2> HIDE DEF new
    <2>2. /\ WellPaired(run[r].msgs \o new)
          /\ Prompted(run[r].msgs \o new, r, Len(run[r].msgs) + 1)
      BY <1>3, <1>4
    <2> HIDE DEF all
    <2>3. Active(r) /\ Goes(r, "router", new) /\ new \in Seq(Msg)
      BY <1>1, <1>2
    <2> DEFINE h == Len(run[r].msgs) + 1
    <2> HIDE DEF h
    <2>4. Prompted(run[r].msgs \o new, r, h)
      BY <2>2 DEF h
    <2>5. WellPaired(run[r].msgs \o new)
      BY <2>2
    <2> QED BY <1>5, <2>1, <2>3, <2>4, <2>5, AfterGoes
  <1>7. CallsOK(r)' /\ Active(r)'
    <2>1. run[r].answers = <<>> /\ run[r].at = 1 /\ run[r].step = "pick"
      BY <1>1 DEF ActionOK, Inv, NodesOK
    <2> QED BY <1>6, <2>1 DEF CallsOK, Handles, Active
  <1>8. CriticalAsked'
    BY <1>1 DEF CriticalAsked, Inv
  <1> QED BY <1>1, <1>6, <1>7, <1>8, AfterNode

LEMMA RouterInv == ASSUME Inv, NEW r \in Run, Router(r) PROVE Inv'
  <1> DEFINE all == run[r].msgs \o <<>>
  <1>1. PICK node \in {"chat", "command"} :
            /\ run[r].node = "router" /\ Active(r) /\ Goes(r, node, <<>>)
            /\ UNCHANGED <<registry, issued, recorded, forgotten>>
    BY DEF Router, Active
  <1>2. run[r].msgs \in Seq(Msg) /\ <<>> \in Seq(Msg) /\ WellPaired(run[r].msgs)
    BY <1>1, RunFields DEF Inv, NodesOK, HistoryPaired, Histories
  <1>3. all = run[r].msgs
    BY <1>2
  <1>4. PICK h \in DOMAIN run[r].msgs : Prompted(run[r].msgs, r, h)
    BY <1>1, PromptFound DEF Inv, NodesOK
  <1>5. /\ checkpoint' \in Seq(Msg) /\ run' \in [Run -> RunState] /\ run'[r].node = node
        /\ \A a \in Run : a # r => run'[a] = run[a]
        /\ run'[r].at = run[r].at /\ run'[r].step = run[r].step /\ run'[r].answers = run[r].answers
        /\ Sound'
    <2>1. WellPaired(all) /\ Prompted(all, r, h)
      BY <1>2, <1>3, <1>4
    <2>2. node \in Nodes \ {"new", "loaded"} /\ node # "done" /\ forgotten' = forgotten
      BY <1>1 DEF Nodes
    <2>3. \A new : new = <<>> => \A k \in DOMAIN new : new[k].run = r
      OBVIOUS
    <2> QED BY <1>1, <1>2, <2>1, <2>2, <2>3, AfterGoes
  <1>6. CallsOK(r)' /\ Active(r)'
    <2>1. run[r].answers = <<>> /\ run[r].at = 1 /\ run[r].step = "pick"
      BY <1>1 DEF ActionOK, Inv, NodesOK
    <2> QED BY <1>5, <2>1 DEF CallsOK, Handles, Active
  <1>7. CriticalAsked'
    BY <1>1 DEF CriticalAsked, Inv
  <1>8. run'[r].node # "new"
    BY <1>5
  <1> QED BY <1>1, <1>5, <1>6, <1>7, <1>8, AfterNode

\* Run r goes to node with what the model said.
LEMMA AfterReply ==
    ASSUME Inv, NEW r \in Run, Active(r), run[r].node # "loaded",
           NEW node \in Nodes \ {"new", "loaded"}, NEW calls \in CallLists,
           Goes(r, node, <<Ai(r, calls)>>), UNCHANGED forgotten
    PROVE  /\ checkpoint' = run[r].msgs \o <<Ai(r, calls)>> /\ checkpoint' \in Seq(Msg)
           /\ run' \in [Run -> RunState] /\ run'[r].node = node
           /\ \A a \in Run : a # r => run'[a] = run[a]
           /\ node # "done" =>
                /\ run'[r].msgs = checkpoint' /\ run'[r].at = run[r].at
                /\ run'[r].step = run[r].step /\ run'[r].answers = run[r].answers
           /\ Sound'
  <1> DEFINE new == <<Ai(r, calls)>>
             all == run[r].msgs \o new
  <1>1. /\ run[r].msgs \in Seq(Msg) /\ new \in Seq(Msg) /\ WellPaired(run[r].msgs)
        /\ \A k \in DOMAIN new : new[k].role = "ai" /\ new[k].run = r
    BY RunFields, Messages DEF Inv, NodesOK, HistoryPaired, Histories
  <1>2. WellPaired(all)
    BY <1>1, Messages, PairedAppend
  <1>3. PICK h \in DOMAIN run[r].msgs : Prompted(run[r].msgs, r, h)
    BY PromptFound DEF Inv, NodesOK
  <1>4. Prompted(all, r, h)
    <2> HIDE DEF new
    <2> QED BY <1>1, <1>3, PromptStays
  <1> HIDE DEF new
  <1> QED BY <1>1, <1>2, <1>4, AfterGoes DEF new

LEMMA SpeakInv == ASSUME Inv, NEW r \in Run, Speak(r) PROVE Inv'
  <1>1. /\ run[r].node \in {"chat", "summarize"} /\ Active(r) /\ recorded' = Recorded(r)
        /\ Goes(r, "done", <<Ai(r, <<>>)>>) /\ UNCHANGED <<registry, issued, forgotten>>
    BY DEF Speak, Active
  <1>2. <<>> \in CallLists /\ "done" \in Nodes \ {"new", "loaded"} /\ run[r].node # "loaded"
    BY <1>1 DEF CallLists, Nodes
  <1>3. /\ checkpoint' \in Seq(Msg) /\ run' \in [Run -> RunState] /\ run'[r].node = "done"
        /\ \A a \in Run : a # r => run'[a] = run[a]
        /\ Sound'
    BY <1>1, <1>2, AfterReply
  <1>4. recorded' = [recorded EXCEPT ![r] = <<r>>]
    BY <1>1, <1>2, RecordedIs
  <1>5. CallsOK(r)' /\ run'[r].node # "new"
    BY <1>3 DEF CallsOK, Handles
  <1>6. CriticalAsked'
    BY <1>1 DEF CriticalAsked, Inv
  <1> QED BY <1>1, <1>3, <1>4, <1>5, <1>6, AfterNode

LEMMA CommandInv == ASSUME Inv, NEW r \in Run, Command(r) PROVE Inv'
  <1>1. PICK reply \in Replies :
            /\ recorded' = IF CallsOf(reply, registry) = <<>> THEN Recorded(r) ELSE recorded
            /\ Goes(r, IF CallsOf(reply, registry) = <<>> THEN "done" ELSE "action",
                    <<Ai(r, CallsOf(reply, registry))>>)
    BY DEF Command
  <1>2. /\ run[r].node = "command" /\ Active(r) /\ run[r].node # "loaded"
        /\ UNCHANGED <<registry, issued, forgotten>>
    BY DEF Command, Active
  <1> DEFINE calls == CallsOf(reply, registry)
  <1>3. calls \in CallLists
    BY DEF CallLists, Inv, NodesOK, TypeOK
  <1>4. CriticalAsked'
    BY <1>2 DEF CriticalAsked, Inv
  <1>5. CASE calls = <<>>
    <2>1. recorded' = Recorded(r) /\ Goes(r, "done", <<Ai(r, calls)>>)
      BY <1>1, <1>5
    <2>2. /\ checkpoint' \in Seq(Msg) /\ run' \in [Run -> RunState] /\ run'[r].node = "done"
          /\ \A a \in Run : a # r => run'[a] = run[a]
          /\ Sound'
      BY <1>2, <1>3, <2>1, AfterReply DEF Nodes
    <2>3. recorded' = [recorded EXCEPT ![r] = <<r>>]
      BY <1>2, <2>1, RecordedIs
    <2>4. CallsOK(r)' /\ run'[r].node # "new"
      BY <2>2 DEF CallsOK, Handles
    <2> QED BY <1>2, <1>4, <2>2, <2>3, <2>4, AfterNode
  <1>6. CASE calls # <<>>
    <2>1. recorded' = recorded /\ Goes(r, "action", <<Ai(r, calls)>>)
      BY <1>1, <1>6
    <2>2. "action" \in Nodes \ {"new", "loaded"} /\ forgotten' = forgotten
      BY <1>2 DEF Nodes
    <2>3. /\ checkpoint' = run[r].msgs \o <<Ai(r, calls)>> /\ checkpoint' \in Seq(Msg)
          /\ run' \in [Run -> RunState] /\ run'[r].node = "action"
          /\ \A a \in Run : a # r => run'[a] = run[a]
          /\ run'[r].msgs = checkpoint' /\ run'[r].at = run[r].at
          /\ run'[r].step = run[r].step /\ run'[r].answers = run[r].answers
          /\ Sound'
      <3> HIDE DEF calls
      <3> QED BY <1>2, <1>3, <2>1, <2>2, AfterReply
    <2>4. run[r].answers = <<>> /\ run[r].at = 1 /\ run[r].step = "pick"
      BY <1>2 DEF ActionOK, Inv, NodesOK
    <2>5. Last(run'[r].msgs) = Ai(r, calls) /\ run'[r].msgs # <<>>
      <3>1. run[r].msgs \in Seq(Msg)
        BY RunFields DEF Inv, NodesOK
      <3> HIDE DEF calls
      <3> QED BY <2>3, <3>1 DEF Last
    <2>6. CallsOK(r)' /\ Active(r)' /\ run'[r].node # "new"
      <3>1. Calling(Ai(r, calls)) /\ Ai(r, calls).run = r
        BY <1>6 DEF Ai, Calling
      <3> HIDE DEF calls
      <3> QED BY <2>3, <2>4, <2>5, <3>1 DEF CallsOK, Handles, Active
    <2> QED BY <1>2, <1>4, <2>1, <2>3, <2>6, AfterNode
  <1> QED BY <1>5, <1>6

LEMMA ActionDoneInv == ASSUME Inv, NEW r \in Run, ActionDone(r) PROVE Inv'
  <1> DEFINE new == run[r].answers
             all == run[r].msgs \o new
  <1>1. /\ run[r].node = "action" /\ Active(r) /\ run[r].node # "loaded"
        /\ Goes(r, "summarize", new) /\ UNCHANGED <<registry, issued, recorded, forgotten>>
    BY DEF ActionDone, Active
  <1>2. run[r].msgs \in Seq(Msg) /\ new \in Seq(Msg) /\ WellPaired(run[r].msgs)
    BY <1>1, RunFields DEF Inv, NodesOK, HistoryPaired, Histories
  <1>3. /\ run[r].msgs # <<>> /\ Last(run[r].msgs).role = "ai" /\ Last(run[r].msgs).run = r
        /\ \A k \in DOMAIN new : /\ new[k].role = "tool" /\ new[k].run = r /\ new[k].call = k
                                 /\ k \in DOMAIN Last(run[r].msgs).calls
    BY <1>1 DEF ActionOK, Calling, Inv, NodesOK
  <1>10. Calling(Last(run[r].msgs))
    BY <1>1 DEF ActionOK, Inv, NodesOK
  <1>4. PICK h \in DOMAIN run[r].msgs : Prompted(run[r].msgs, r, h)
    BY <1>1, PromptFound DEF Inv, NodesOK
  <1> HIDE DEF new
  <1>5. WellPaired(all) /\ Prompted(all, r, h)
    BY <1>2, <1>3, <1>4, PairedAnswers, PromptStays
  <1>6. "summarize" \in Nodes \ {"new", "loaded"} /\ forgotten' = forgotten
    BY <1>1 DEF Nodes
  <1>7. /\ checkpoint' \in Seq(Msg) /\ run' \in [Run -> RunState] /\ run'[r].node = "summarize"
        /\ \A a \in Run : a # r => run'[a] = run[a]
        /\ run'[r].msgs = all /\ run'[r].answers = new
        /\ Sound'
    <2>1. \A k \in DOMAIN new : new[k].run = r
      BY <1>3
    <2>2. /\ checkpoint' = run[r].msgs \o new /\ checkpoint' \in Seq(Msg)
          /\ run' \in [Run -> RunState] /\ run'[r].node = "summarize"
          /\ \A a \in Run : a # r => run'[a] = run[a]
          /\ run'[r].msgs = checkpoint' /\ run'[r].answers = run[r].answers
          /\ Sound'
      BY <1>1, <1>2, <1>5, <1>6, <2>1, AfterGoes
    <2> QED BY <2>2 DEF new
  <1>8. CallsOK(r)' /\ Active(r)' /\ run'[r].node # "new"
    <2> DEFINE n == Len(run[r].msgs)
    <2>1. /\ n \in DOMAIN all /\ all[n] = Last(run[r].msgs) /\ Len(all) - Len(new) = n
          /\ \A k \in DOMAIN new : all[n + k] = new[k]
      <3>1. n \in Nat /\ n >= 1 /\ Len(new) \in Nat /\ Len(all) = n + Len(new)
        BY <1>2, <1>3
      <3>2. n \in DOMAIN all /\ Len(all) - Len(new) = n
        BY <1>2, <3>1
      <3>3. all[n] = Last(run[r].msgs) /\ \A k \in DOMAIN new : all[n + k] = new[k]
        <4> DEFINE msgs == run[r].msgs
        <4>1. msgs \in Seq(Msg) /\ n = Len(msgs) /\ all = msgs \o new /\ n \in 1 .. n
          BY <1>2, <3>1
        <4> HIDE DEF msgs, all, n
        <4>2. DOMAIN new = 1 .. Len(new) /\ all[n] = msgs[n] /\ \A k \in 1 .. Len(new) : all[n + k] = new[k]
          BY <1>2, <4>1, Joined
        <4>3. Last(msgs) = msgs[n]
          BY <4>1 DEF Last
        <4> QED BY <4>2, <4>3 DEF msgs
      <3> QED BY <3>2, <3>3
    <2> HIDE DEF all, n
    <2>2. Len(run'[r].msgs) - Len(run'[r].answers) = n
      BY <1>7, <2>1
    <2> QED BY <1>3, <1>7, <1>10, <2>1, <2>2 DEF CallsOK, Handles, Active
  <1>9. CriticalAsked'
    BY <1>1 DEF CriticalAsked, Inv
  <1> QED BY <1>1, <1>7, <1>8, <1>9, AfterNode

-----------------------------------------------------------------------------
(* The action node                                                          *)

LEMMA InAction ==
    ASSUME Inv, NEW r \in Run, run[r].node = "action"
    PROVE  /\ Active(r) /\ run[r].node \notin {"loaded", "router", "command"}
           /\ run \in [Run -> RunState] /\ run[r] \in RunState
           /\ run[r].answers \in Seq(Msg) /\ run[r].at \in Nat /\ CallsOK(r)
           /\ run[r].step # "pick" => run[r].at \in DOMAIN Calls(r)
  <1>1. CallsOK(r)
    BY CallsOthers DEF Inv, NodesOK
  <1> QED BY <1>1, RunFields DEF CallsOK, Handles, Calls, Active, Inv, NodesOK, TypeOK

LEMMA AfterCall ==
    ASSUME Inv, NEW r \in Run, run[r].node = "action",
           UNCHANGED <<checkpoint, registry, recorded, forgotten>>,
           run' \in [Run -> RunState], \A a \in Run : a # r => run'[a] = run[a],
           run'[r].node = "action", run'[r].msgs = run[r].msgs, CallsOK(r)', CriticalAsked'
    PROVE  Inv'
  <1>1. Sound'
    BY Quiet
  <1>2. checkpoint' \in Seq(Msg)
    BY DEF Inv, NodesOK, TypeOK
  <1>3. Active(r) /\ Active(r)' /\ run'[r].node # "new"
    BY DEF Active
  <1> QED BY <1>1, <1>2, <1>3, AfterNode

\* The call gets its answer.
LEMMA AfterAnswer ==
    ASSUME Inv, NEW r \in Run, run[r].node = "action", run[r].at \in DOMAIN Calls(r),
           UNCHANGED <<checkpoint, registry, recorded, forgotten>>, CriticalAsked',
           NEW n \in Nat \ {0}, run' = Collected(r, n)
    PROVE  Inv'
  <1> DEFINE m == Answer(r, run[r].at, n)
             more == Append(run[r].answers, m)
  <1>1. m \in Msg /\ m.role = "tool" /\ m.run = r /\ m.call = run[r].at
    BY InAction, Messages
  <1>2. CallsOK(r) /\ run \in [Run -> RunState] /\ run[r] \in RunState
        /\ run[r].answers \in Seq(Msg) /\ run[r].at \in Nat
    BY InAction
  <1> HIDE DEF m
  <1>3. /\ more \in Seq(Msg) /\ Len(more) = Len(run[r].answers) + 1
        /\ DOMAIN more = 1 .. Len(run[r].answers) + 1 /\ Len(run[r].answers) \in Nat
        /\ more[Len(run[r].answers) + 1] = m
        /\ \A k \in DOMAIN run[r].answers : more[k] = run[r].answers[k]
    BY <1>1, <1>2
  <1> HIDE DEF more
  <1>4. run' = [run EXCEPT ![r] = [run[r] EXCEPT !.answers = more, !.at = run[r].at + 1,
                                                !.step = "pick"]]
    BY <1>2 DEF Collected, more, m, RunState
  <1>5. run' \in [Run -> RunState]
    <2>1. [run[r] EXCEPT !.answers = more, !.at = run[r].at + 1, !.step = "pick"] \in RunState
      <3>1. run[r].at + 1 \in Nat \ {0} /\ "pick" \in {"pick", "confirm", "sent"}
        BY <1>2
      <3>2. [run[r] EXCEPT !.answers = more] \in RunState
        BY <1>2, <1>3 DEF RunState
      <3>3. \A x \in RunState, at \in Nat \ {0} :
                [[x EXCEPT !.at = at] EXCEPT !.step = "pick"] \in RunState
        BY DEF RunState
      <3> QED BY <3>1, <3>2, <3>3
    <2> QED BY <1>2, <1>4, <2>1
  <1>6. /\ \A a \in Run : a # r => run'[a] = run[a]
        /\ run'[r].node = "action" /\ run'[r].msgs = run[r].msgs
        /\ run'[r].answers = more /\ run'[r].at = run[r].at + 1 /\ run'[r].step = "pick"
    BY <1>2, <1>4 DEF RunState
  <1>7. CallsOK(r)'
    <2> DEFINE call == Last(run[r].msgs)
    <2>1. run[r].msgs # <<>> /\ Calling(call) /\ call.run = r /\ run[r].at = Len(run[r].answers) + 1
      BY <1>2 DEF CallsOK, Handles
    <2>2. run'[r].at = Len(run'[r].answers) + 1
      BY <1>3, <1>6, <2>1
    <2>3. ASSUME NEW k \in DOMAIN run'[r].answers
          PROVE  /\ run'[r].answers[k].role = "tool" /\ run'[r].answers[k].run = r
                 /\ run'[r].answers[k].call = k /\ k \in DOMAIN call.calls
      <3>1. CASE k = Len(run[r].answers) + 1
        BY <1>1, <1>3, <1>6, <2>1, <3>1 DEF Calls
      <3>2. CASE k \in DOMAIN run[r].answers
        BY <1>2, <1>3, <1>6, <3>2 DEF CallsOK, Handles
      <3>3. DOMAIN run[r].answers = 1 .. Len(run[r].answers)
        BY <1>2
      <3> QED BY <1>3, <1>6, <3>1, <3>2, <3>3
    <2> HIDE DEF call
    <2> QED BY <1>6, <2>1, <2>2, <2>3 DEF CallsOK, Handles, call
  <1> QED BY <1>5, <1>6, <1>7, AfterCall

\* A run changes its step only.
LEMMA AfterStep ==
    ASSUME Inv, NEW r \in Run, run[r].node = "action", run[r].at \in DOMAIN Calls(r),
           UNCHANGED <<checkpoint, registry, recorded, forgotten>>, CriticalAsked',
           NEW step \in {"confirm", "sent"}, run' = [run EXCEPT ![r].step = step]
    PROVE  Inv'
  <1>1. CallsOK(r) /\ run \in [Run -> RunState] /\ run[r] \in RunState
    BY InAction
  <1>2. run' \in [Run -> RunState]
    BY <1>1 DEF RunState
  <1>3. /\ \A a \in Run : a # r => run'[a] = run[a]
        /\ run'[r].node = "action" /\ run'[r].msgs = run[r].msgs /\ run'[r].step = step
        /\ run'[r].answers = run[r].answers /\ run'[r].at = run[r].at
    BY <1>1 DEF RunState
  <1>4. CallsOK(r)'
    <2>1. Handles(r, "action", run[r].msgs, run[r].at, run[r].step, run[r].answers)
      BY <1>1 DEF CallsOK
    <2>2. Handles(r, "action", run[r].msgs, run[r].at, step, run[r].answers)
      BY <2>1 DEF Handles, Calls
    <2> QED BY <1>3, <2>2 DEF CallsOK
  <1> QED BY <1>2, <1>3, <1>4, AfterCall

\* A tool that is not found critical is none that is known to be.
LEMMA NotCritical ==
    ASSUME Inv, NEW name, ~is_tool_critical(name)
    PROVE  name \notin KnownCritical
  <1> DEFINE listed == {i \in DOMAIN registry : registry[i].name = name}
  <1>1. registry \in Seq(ToSet(registry))
        /\ \A t \in ToSet(registry) : t.name \in KnownCritical => t.critical
    BY CriticalAssumption DEF Inv, NodesOK, TypeOK
  <1>2. CASE listed = {}
    BY <1>2 DEF is_tool_critical
  <1>3. CASE listed # {}
    <2>1. listed \in SUBSET Nat
      BY <1>1
    <2>2. Min(listed) \in listed
      <3> HIDE DEF listed
      <3> QED BY <1>3, <2>1, Least
    <2>3. registry[Min(listed)].name = name /\ registry[Min(listed)] \in ToSet(registry)
      BY <1>1, <2>2
    <2>4. ~registry[Min(listed)].critical
      BY <1>3 DEF is_tool_critical
    <2> HIDE DEF listed
    <2> QED BY <1>1, <2>3, <2>4
  <1> QED BY <1>2, <1>3

LEMMA IssueSafe ==
    ASSUME Inv, NEW r \in Run, NEW asked \in BOOLEAN, Issue(r, asked),
           asked \/ At(r).name \notin KnownCritical
    PROVE  CriticalAsked'
  BY DEF Issue, CriticalAsked, Inv

LEMMA CallInv ==
    ASSUME Inv, NEW r \in Run,
           \/ CallScheduler(r) \/ AskUser(r) \/ Dispatch(r) \/ Approve(r) \/ Deny(r) \/ Reply(r)
    PROVE  Inv'
  <1>1. UNCHANGED <<checkpoint, registry, recorded, forgotten>> /\ run[r].node = "action"
    BY DEF CallScheduler, AskUser, Dispatch, Approve, Deny, Reply, Picks
  <1>2. run[r].at \in DOMAIN Calls(r)
    <2>1. CASE Picks(r)
      BY <2>1 DEF Picks
    <2>2. CASE run[r].step # "pick"
      BY <1>1, <2>2, InAction
    <2> QED BY <2>1, <2>2 DEF CallScheduler, AskUser, Dispatch, Approve, Deny, Reply
  <1>3. issued' = issued => CriticalAsked'
    BY DEF CriticalAsked, Inv
  <1>4. CASE CallScheduler(r)
    <2>1. Issue(r, FALSE) /\ At(r).name \in SchedulerTools
      BY <1>4 DEF CallScheduler
    <2>2. At(r).name \notin KnownCritical
      BY <2>1, NativeAssumption DEF SchedulerTools
    <2>3. CriticalAsked'
      BY <2>1, <2>2, IssueSafe
    <2>4. PICK n \in Nat \ {0} : run' = Collected(r, n)
      BY <1>4, SizeAssumption DEF CallScheduler
    <2> QED BY <1>1, <1>2, <2>3, <2>4, AfterAnswer
  <1>5. CASE AskUser(r)
    <2>1. issued' = issued /\ run' = [run EXCEPT ![r].step = "confirm"]
      BY <1>5 DEF AskUser
    <2> QED BY <1>1, <1>2, <1>3, <2>1, AfterStep
  <1>6. CASE Dispatch(r)
    <2>1. Issue(r, FALSE) /\ ~is_tool_critical(At(r).name) /\ run' = [run EXCEPT ![r].step = "sent"]
      BY <1>6 DEF Dispatch
    <2>2. CriticalAsked'
      BY <2>1, NotCritical, IssueSafe
    <2> QED BY <1>1, <1>2, <2>1, <2>2, AfterStep
  <1>7. CASE Approve(r)
    <2>1. Issue(r, TRUE) /\ run' = [run EXCEPT ![r].step = "sent"]
      BY <1>7 DEF Approve
    <2>2. CriticalAsked'
      BY <2>1, IssueSafe
    <2> QED BY <1>1, <1>2, <2>1, <2>2, AfterStep
  <1>8. CASE Deny(r)
    <2>1. issued' = issued /\ run' = Collected(r, 1) /\ 1 \in Nat \ {0}
      BY <1>8 DEF Deny
    <2> QED BY <1>1, <1>2, <1>3, <2>1, AfterAnswer
  <1>9. CASE Reply(r)
    <2>1. issued' = issued
      BY <1>9 DEF Reply
    <2>2. PICK n \in Nat \ {0} : run' = Collected(r, n)
      BY <1>9, SizeAssumption DEF Reply
    <2> QED BY <1>1, <1>2, <1>3, <2>1, <2>2, AfterAnswer
  <1> QED BY <1>4, <1>5, <1>6, <1>7, <1>8, <1>9

-----------------------------------------------------------------------------
(* The ends of runs, and what comes from outside                            *)

LEMMA AfterAbort ==
    ASSUME Inv, UNCHANGED <<checkpoint, issued, forgotten>>, run' \in [Run -> RunState],
           \A a \in Run : run'[a] = run[a] \/ (Active(a) /\ run'[a].node = "aborted"),
           registry' \in Manifests \cup {Native}, recorded' \in [Run -> Seq(Run)],
           \A a \in Run : recorded'[a] = recorded[a]
                          \/ (run'[a].node = "aborted" /\ recorded'[a] = <<a>>)
    PROVE  Inv'
  <1>1. Sound'
    BY Quiet
  <1>2. TypeOK'
    BY DEF TypeOK, Inv, NodesOK
  <1>3. ActionOK'
    <2>1. \A a \in Run : run'[a].node = "aborted" => CallsOK(a)'
      BY DEF CallsOK, Handles
    <2> QED BY <2>1, CallsOthers DEF Inv, NodesOK
  <1>4. RecordedOnce'
    BY DEF RecordedOnce, Inv, Active
  <1>5. CriticalAsked'
    BY DEF CriticalAsked, Inv
  <1> QED BY <1>1, <1>2, <1>3, <1>4, <1>5, InvParts

LEMMA CancelInv == ASSUME Inv, NEW r \in Run, Cancel(r) \/ Fail(r) PROVE Inv'
  <1>1. /\ Active(r) /\ run' = [run EXCEPT ![r] = Ended(r, "aborted", <<>>)]
        /\ UNCHANGED <<checkpoint, registry, issued, forgotten>>
        /\ \/ recorded' = recorded
           \/ run[r].node \in {"chat", "summarize", "command"} /\ recorded' = Recorded(r)
    BY DEF Cancel, Fail, MayAbort
  <1>2. /\ run \in [Run -> RunState] /\ registry \in Manifests \cup {Native}
        /\ recorded \in [Run -> Seq(Run)] /\ <<r>> \in Seq(Run)
    BY DEF Inv, NodesOK, TypeOK
  <1>3. Ended(r, "aborted", <<>>) \in RunState /\ Ended(r, "aborted", <<>>).node = "aborted"
    BY EndedEmpty DEF Inv, NodesOK
  <1>4. /\ run' \in [Run -> RunState] /\ run'[r].node = "aborted"
        /\ \A a \in Run : a # r => run'[a] = run[a]
    BY <1>1, <1>2, <1>3
  <1>5. recorded' = recorded \/ recorded' = [recorded EXCEPT ![r] = <<r>>]
    BY <1>1, RecordedIs
  <1>6. /\ recorded' \in [Run -> Seq(Run)]
        /\ \A a \in Run : recorded'[a] = recorded[a] \/ (a = r /\ recorded'[a] = <<a>>)
    BY <1>2, <1>5
  <1> QED BY <1>1, <1>2, <1>4, <1>6, AfterAbort

LEMMA CrashInv == ASSUME Inv, Crash PROVE Inv'
  <1>1. /\ run' = [a \in Run |-> IF Active(a) THEN Ended(a, "aborted", <<>>) ELSE run[a]]
        /\ registry' = Native /\ UNCHANGED <<checkpoint, issued, recorded, forgotten>>
    BY DEF Crash
  <1>2. run \in [Run -> RunState] /\ recorded \in [Run -> Seq(Run)]
    BY DEF Inv, NodesOK, TypeOK
  <1>3. \A a \in Run : /\ Ended(a, "aborted", <<>>) \in RunState
                       /\ Ended(a, "aborted", <<>>).node = "aborted"
    BY EndedEmpty DEF Inv, NodesOK
  <1>4. /\ run' \in [Run -> RunState]
        /\ \A a \in Run : run'[a] = run[a] \/ (Active(a) /\ run'[a].node = "aborted")
    BY <1>1, <1>2, <1>3
  <1> QED BY <1>1, <1>2, <1>4, AfterAbort

LEMMA DiscoverInv == ASSUME Inv, Discover PROVE Inv'
  <1>1. registry' \in Manifests /\ UNCHANGED <<checkpoint, run, issued, recorded, forgotten>>
    BY DEF Discover
  <1>2. run \in [Run -> RunState] /\ recorded \in [Run -> Seq(Run)]
    BY DEF Inv, NodesOK, TypeOK
  <1> QED BY <1>1, <1>2, AfterAbort

LEMMA ClearInv == ASSUME Inv, ClearHistory PROVE Inv'
  <1>1. /\ checkpoint' = <<>> /\ UNCHANGED <<run, registry, issued, recorded>>
        /\ forgotten' = [r \in Run |-> IF run[r].node = "new" THEN "no"
                                      ELSE IF Kept_By(r) THEN "maybe" ELSE "surely"]
    BY DEF ClearHistory
  <1>2. TypeOK'
    BY <1>1 DEF TypeOK, Inv, NodesOK
  <1>3. \A f \in Run : forgotten'[f] = "surely" =>
            \A a \in Run : Active(a) => a # f /\ ~Held(run[a].msgs, f)
    BY <1>1 DEF Kept_By
  <1>4. PromptOK' /\ ActionOK' /\ RecordedOnce' /\ CriticalAsked'
    <2>1. PromptOK'
      BY <1>1 DEF PromptOK, Inv, NodesOK, Active, Human
    <2>2. ActionOK'
      BY <1>1, CallsOthers DEF Inv, NodesOK
    <2>3. RecordedOnce'
      BY <1>1 DEF RecordedOnce, Inv, Active
    <2>4. CriticalAsked'
      BY <1>1 DEF CriticalAsked, Inv
    <2> QED BY <2>1, <2>2, <2>3, <2>4
  <1>5. ForgottenOK'
    <2>1. \A f \in Run : run'[f].node = "new" => forgotten'[f] = "no"
      BY <1>1
    <2>2. \A f \in Run : Active(f)' => forgotten'[f] # "surely"
      BY <1>1, <1>3 DEF Active
    <2> QED BY <2>1, <2>2 DEF ForgottenOK
  <1>6. HistoryPaired'
    BY <1>1, PairedEmpty DEF HistoryPaired, Histories, Inv, Active
  <1>7. ClearedStaysCleared'
    <2>1. \A f \in Run : ~Held(checkpoint', f)
      BY <1>1 DEF Held
    <2>2. \A f \in Run : forgotten'[f] = "surely" =>
              \A a \in Run : Active(a)' => ~Held(run'[a].msgs, f)
      BY <1>1, <1>3 DEF Active
    <2> QED BY <2>1, <2>2 DEF ClearedStaysCleared, Held
  <1> QED BY <1>2, <1>4, <1>5, <1>6, <1>7, InvParts DEF Sound

LEMMA ReadInv == ASSUME Inv, NEW r \in Run, Read(r) PROVE Inv'
  <1> DEFINE others == {a \in Run : Active(a)}
  <1>1. /\ run[r].node = "new" /\ UNCHANGED <<checkpoint, registry, issued, recorded, forgotten>>
        /\ run' = [a \in Run |->
                    IF a = r THEN [Fresh EXCEPT !.node = "loaded", !.msgs = checkpoint,
                                                !.alone = (others = {})]
                    ELSE IF a \in others THEN [run[a] EXCEPT !.alone = FALSE]
                    ELSE run[a]]
    BY DEF Read
  <1>2. /\ run \in [Run -> RunState] /\ checkpoint \in Seq(Msg) /\ recorded \in [Run -> Seq(Run)]
        /\ registry \in Manifests \cup {Native}
    BY DEF Inv, NodesOK, TypeOK
  <1>3. \A x \in RunState : /\ [x EXCEPT !.alone = FALSE] \in RunState
                            /\ [x EXCEPT !.alone = FALSE].node = x.node
                            /\ [x EXCEPT !.alone = FALSE].msgs = x.msgs
                            /\ [x EXCEPT !.alone = FALSE].at = x.at
                            /\ [x EXCEPT !.alone = FALSE].step = x.step
                            /\ [x EXCEPT !.alone = FALSE].answers = x.answers
    BY DEF RunState
  <1>4. /\ run'[r] \in RunState /\ run'[r].node = "loaded" /\ run'[r].msgs = checkpoint
        /\ run'[r].at = 1 /\ run'[r].step = "pick" /\ run'[r].answers = <<>>
    <2>1. <<>> \in Seq(Msg) /\ 1 \in Nat \ {0} /\ "pick" \in {"pick", "confirm", "sent"}
      OBVIOUS
    <2>2. PICK alone \in BOOLEAN : run'[r] = [[[Fresh EXCEPT !.node = "loaded"]
                                        EXCEPT !.msgs = checkpoint] EXCEPT !.alone = alone]
      <3>1. CASE others = {}
        <4>1. run'[r] = [[[Fresh EXCEPT !.node = "loaded"]
                            EXCEPT !.msgs = checkpoint] EXCEPT !.alone = TRUE]
          BY <1>1, <3>1
        <4> QED BY <4>1
      <3>2. CASE others # {}
        <4>1. run'[r] = [[[Fresh EXCEPT !.node = "loaded"]
                            EXCEPT !.msgs = checkpoint] EXCEPT !.alone = FALSE]
          BY <1>1, <3>2
        <4> QED BY <4>1
      <3> QED BY <3>1, <3>2
    <2>3. Fresh \in RunState /\ Fresh.at = 1 /\ Fresh.step = "pick" /\ Fresh.answers = <<>>
      BY <2>1 DEF RunState, Fresh
    <2>4. \A x \in RunState :
            LET y == [[[x EXCEPT !.node = "loaded"] EXCEPT !.msgs = checkpoint] EXCEPT !.alone = alone]
            IN  /\ y \in RunState /\ y.node = "loaded" /\ y.msgs = checkpoint
                /\ y.at = x.at /\ y.step = x.step /\ y.answers = x.answers
      <3>1. CASE alone = TRUE
        BY <1>2, <3>1 DEF RunState
      <3>2. CASE alone = FALSE
        BY <1>2, <3>2 DEF RunState
      <3> QED BY <3>1, <3>2
    <2> QED BY <2>2, <2>3, <2>4
  <1>5. \A a \in Run : a # r =>
            /\ run'[a] \in RunState /\ run'[a].node = run[a].node /\ run'[a].msgs = run[a].msgs
            /\ run'[a].at = run[a].at /\ run'[a].step = run[a].step
            /\ run'[a].answers = run[a].answers
    <2> SUFFICES ASSUME NEW a \in Run, a # r
                 PROVE  /\ run'[a] \in RunState /\ run'[a].node = run[a].node
                        /\ run'[a].msgs = run[a].msgs /\ run'[a].at = run[a].at
                        /\ run'[a].step = run[a].step /\ run'[a].answers = run[a].answers
      OBVIOUS
    <2>1. run'[a] = [run[a] EXCEPT !.alone = FALSE] \/ run'[a] = run[a]
      BY <1>1
    <2>2. run[a] \in RunState
      BY <1>2
    <2> QED BY <1>3, <2>1, <2>2
  <1>6. TypeOK'
    <2>1. run' \in [Run -> RunState]
      BY <1>1, <1>4, <1>5
    <2> QED BY <1>1, <1>2, <2>1 DEF TypeOK, Inv, NodesOK
  <1>7. \A a \in Run : a # r => (Active(a)' <=> Active(a))
    BY <1>5 DEF Active
  <1>8. PromptOK'
    BY <1>4, <1>5, <1>7 DEF PromptOK, Human, Inv, NodesOK
  <1>9. ActionOK'
    <2>1. CallsOK(r)'
      BY <1>4 DEF CallsOK, Handles
    <2>2. \A a \in Run : a # r => (CallsOK(a) <=> CallsOK(a)')
      BY <1>5 DEF CallsOK
    <2> QED BY <2>1, <2>2, CallsOthers DEF Inv, NodesOK
  <1>10. ForgottenOK'
    <2>1. forgotten[r] = "no"
      BY <1>1 DEF ForgottenOK, Inv, NodesOK
    <2>2. forgotten' = forgotten /\ run'[r].node # "new"
      BY <1>1, <1>4
    <2>3. \A a \in Run : /\ run[a].node = "new" => forgotten[a] = "no"
                         /\ Active(a) => forgotten[a] # "surely"
      BY DEF ForgottenOK, Inv, NodesOK
    <2> SUFFICES ASSUME NEW a \in Run
                 PROVE  /\ run'[a].node = "new" => forgotten'[a] = "no"
                        /\ Active(a)' => forgotten'[a] # "surely"
      BY DEF ForgottenOK
    <2>4. CASE a = r
      BY <2>1, <2>2, <2>4
    <2>5. CASE a # r
      BY <1>5, <1>7, <2>2, <2>3, <2>5
    <2> QED BY <2>4, <2>5
  <1>11. HistoryPaired'
    <2>1. WellPaired(checkpoint) /\ \A a \in Run : Active(a) => WellPaired(run[a].msgs)
      BY DEF HistoryPaired, Histories, Inv
    <2>2. \A a \in Run : Active(a)' => WellPaired(run'[a].msgs)
      <3>1. WellPaired(run'[r].msgs)
        BY <1>4, <2>1
      <3>2. ASSUME NEW a \in Run, a # r, Active(a)' PROVE WellPaired(run'[a].msgs)
        BY <1>5, <1>7, <2>1, <3>2
      <3> QED BY <3>1, <3>2
    <2> QED BY <1>1, <2>1, <2>2 DEF HistoryPaired, Histories
  <1>12. ClearedStaysCleared'
    <2> SUFFICES ASSUME NEW f \in Run, forgotten[f] = "surely"
                 PROVE  ~Held(checkpoint, f) /\ \A a \in Run : Active(a)' => ~Held(run'[a].msgs, f)
      BY <1>1 DEF ClearedStaysCleared, Held
    <2>1. ~Held(checkpoint, f) /\ \A a \in Run : Active(a) => ~Held(run[a].msgs, f)
      BY DEF ClearedStaysCleared, Inv
    <2>2. ~Held(run'[r].msgs, f)
      BY <1>4, <2>1
    <2>3. ASSUME NEW a \in Run, a # r, Active(a)' PROVE ~Held(run'[a].msgs, f)
      BY <1>5, <1>7, <2>1, <2>3
    <2> QED BY <2>1, <2>2, <2>3
  <1>13. RecordedOnce'
    <2>1. recorded' = recorded /\ run'[r].node \notin {"new", "done"}
      BY <1>1, <1>4
    <2>2. \A a \in Run : /\ recorded[a] \in {<<>>, <<a>>}
                         /\ run[a].node = "done" => recorded[a] = <<a>>
                         /\ run[a].node = "new" \/ Active(a) => recorded[a] = <<>>
      BY DEF RecordedOnce, Inv
    <2> SUFFICES ASSUME NEW a \in Run
                 PROVE  /\ recorded'[a] \in {<<>>, <<a>>}
                        /\ run'[a].node = "done" => recorded'[a] = <<a>>
                        /\ run'[a].node = "new" \/ Active(a)' => recorded'[a] = <<>>
      BY DEF RecordedOnce
    <2>3. CASE a = r
      BY <1>1, <2>1, <2>2, <2>3
    <2>4. CASE a # r
      BY <1>5, <1>7, <2>1, <2>2, <2>4
    <2> QED BY <2>3, <2>4
  <1>14. CriticalAsked'
    BY <1>1 DEF CriticalAsked, Inv
  <1> QED BY <1>6, <1>8, <1>9, <1>10, <1>11, <1>12, <1>13, <1>14, InvParts DEF Sound

-----------------------------------------------------------------------------
(* The exchanges of the runs: where their messages are                      *)

Exchanges == AloneOK /\ UnsaidOK /\ ExchangeOK /\ CallsAnswered /\ AnsweredKept

LEMMA HistoryTypes == ASSUME TypeOK PROVE \A msgs \in Histories : msgs \in Seq(Msg)
  BY RunFields DEF Histories, TypeOK

LEMMA HistoryRuns ==
    ASSUME TypeOK
    PROVE  \A msgs \in Histories : \A k \in DOMAIN msgs : msgs[k].run \in Run
  <1>1. ASSUME NEW msgs \in Histories, NEW k \in DOMAIN msgs PROVE msgs[k].run \in Run
    <2>1. msgs[k] \in Msg
      BY HistoryTypes
    <2> QED BY <2>1 DEF Msg
  <1> QED BY <1>1

\* What is answered stays so, whatever follows.
LEMMA AnsweredMore ==
    ASSUME NEW msgs \in Seq(Msg), NEW new \in Seq(Msg), NEW k \in DOMAIN msgs, Answered(msgs, k)
    PROVE  Answered(msgs \o new, k)
  <1> DEFINE all == msgs \o new
  <1>1. /\ all[k] = msgs[k]
        /\ \A j \in DOMAIN msgs : j \in DOMAIN all /\ all[j] = msgs[j]
    BY Joined
  <1> HIDE DEF all
  <1>2. Answered(all, k)
    BY <1>1 DEF Answered
  <1> QED BY <1>2 DEF all

\* So is a whole exchange, behind which others speak.
LEMMA WholeMore ==
    ASSUME NEW msgs \in Seq(Msg), NEW new \in Seq(Msg), NEW r, NEW said \in Seq(Msg),
           Whole(msgs, r, said), \A k \in DOMAIN new : new[k].run # r
    PROVE  Whole(msgs \o new, r, said)
  <1> DEFINE all == msgs \o new
  <1>1. PICK n \in 0 .. Len(msgs) :
            /\ \A k \in DOMAIN msgs : msgs[k].run = r <=> k - n \in DOMAIN said
            /\ \A i \in DOMAIN said : n + i \in DOMAIN msgs /\ msgs[n + i] = said[i]
    BY DEF Whole
  <1>2. /\ Len(msgs) \in Nat /\ n \in 0 .. Len(all) /\ n \in Nat
        /\ DOMAIN all = 1 .. Len(all) /\ Len(all) \in Nat /\ DOMAIN msgs = 1 .. Len(msgs)
        /\ \A j \in DOMAIN msgs : j \in DOMAIN all /\ all[j] = msgs[j]
    BY Joined
  <1>3. ASSUME NEW k \in DOMAIN all PROVE all[k].run = r <=> k - n \in DOMAIN said
    <2>1. CASE k \in DOMAIN msgs
      BY <1>1, <1>2, <2>1
    <2>2. CASE k \notin DOMAIN msgs
      <3>1. all[k].run # r
        BY <2>2, JoinedAt
      <3>2. k \in Int /\ n + (k - n) = k
        BY <1>2
      <3>3. k - n \notin DOMAIN said
        BY <1>1, <2>2, <3>2
      <3> QED BY <3>1, <3>3
    <2> QED BY <2>1, <2>2
  <1>4. \A i \in DOMAIN said : n + i \in DOMAIN all /\ all[n + i] = said[i]
    BY <1>1, <1>2
  <1> HIDE DEF all
  <1>5. Whole(all, r, said)
    BY <1>2, <1>3, <1>4 DEF Whole
  <1> QED BY <1>5 DEF all

\* A run that ends leaves its exchange at the end of the history.
LEMMA WholeNew ==
    ASSUME NEW all \in Seq(Msg), NEW r, NEW h \in DOMAIN all,
           \A k \in DOMAIN all : all[k].run = r <=> k >= h
    PROVE  Whole(all, r, SubSeq(all, h, Len(all)))
  <1> DEFINE said == SubSeq(all, h, Len(all))
             n == h - 1
  <1>1. h \in 1 .. Len(all) /\ Len(all) \in Nat /\ DOMAIN all = 1 .. Len(all)
    OBVIOUS
  <1>2. /\ n \in 0 .. Len(all) /\ n \in Nat /\ h = n + 1
        /\ Len(said) = Len(all) - n /\ DOMAIN said = 1 .. Len(all) - n
        /\ \A i \in DOMAIN said : said[i] = all[n + i]
    BY <1>1
  <1> HIDE DEF said, n
  <1>3. \A k \in DOMAIN all : k - n \in DOMAIN said <=> k >= h
    BY <1>1, <1>2
  <1>4. \A i \in DOMAIN said : n + i \in DOMAIN all
    BY <1>1, <1>2
  <1>5. Whole(all, r, said)
    BY <1>2, <1>3, <1>4 DEF Whole
  <1> QED BY <1>5 DEF said

\* Nothing is said, or a run ends before its time.
LEMMA QuietExchanges ==
    ASSUME TypeOK, Exchanges, checkpoint' = checkpoint, forgotten' = forgotten,
           \A a \in Run : \/ /\ run'[a].node = run[a].node /\ run'[a].msgs = run[a].msgs
                             /\ run'[a].alone = run[a].alone
                          \/ run'[a].node = "aborted"
    PROVE  Exchanges'
  <1>1. \A a \in Run : run'[a].node # "aborted" =>
            /\ run'[a].node = run[a].node /\ run'[a].msgs = run[a].msgs
            /\ run'[a].alone = run[a].alone
    OBVIOUS
  <1>2. \A a \in Run : Active(a)' => Active(a) /\ run'[a].node # "aborted"
    BY <1>1 DEF Active
  <1>3. Histories' \subseteq Histories
    BY <1>1, <1>2 DEF Histories
  <1>4. AloneOK'
    BY <1>1, <1>2 DEF AloneOK, Exchanges
  <1>5. UnsaidOK'
    BY <1>1, <1>3 DEF UnsaidOK, Exchanges, Held
  <1>6. ExchangeOK'
    BY <1>1, <1>2 DEF ExchangeOK, Exchanges, LastHuman
  <1>7. CallsAnswered'
    <2> SUFFICES ASSUME NEW msgs \in Histories', NEW k \in DOMAIN msgs, Calling(msgs[k])
                 PROVE  \/ run'[msgs[k].run].node \in {"action", "aborted"}
                        \/ ~run'[msgs[k].run].alone
                        \/ Answered(msgs, k)
      BY DEF CallsAnswered, Answered, Calling, Answers
    <2>1. msgs \in Histories /\ msgs[k].run \in Run
      BY <1>3, HistoryRuns
    <2> QED BY <1>1, <2>1 DEF CallsAnswered, Exchanges
  <1>8. AnsweredKept'
    <2> SUFFICES ASSUME NEW a \in Run, run'[a].node = "done", run'[a].alone, forgotten'[a] = "no",
                        NEW msgs \in Histories'
                 PROVE  Whole(msgs, a, run'[a].msgs)
      BY DEF AnsweredKept, Whole
    <2>1. msgs \in Histories
      BY <1>3
    <2> QED BY <1>1, <2>1 DEF AnsweredKept, Exchanges
  <1> QED BY <1>4, <1>5, <1>6, <1>7, <1>8 DEF Exchanges

\* The history of run r that goes to node ends with its own exchange, which
\* begins at h; what it asked for is answered, unless it is about to do it.
EndsWith(all, r, h, node) ==
    /\ h \in DOMAIN all /\ LastHuman(all) = h
    /\ \A k \in DOMAIN all : all[k].run = r <=> k >= h
    /\ node \in {"router", "chat", "command"} => h = Len(all)
    /\ node = "action" => h = Len(all) - 1
    /\ \A k \in DOMAIN all : Calling(all[k]) /\ all[k].run = r =>
           node = "action" \/ ~run[r].alone \/ Answered(all, k)

\* What a run in a node of the graph holds, once its prompt is stored.
LEMMA OwnExchange ==
    ASSUME Inv, Exchanges, NEW r \in Run, Active(r), run[r].node # "loaded"
    PROVE  \E h \in DOMAIN run[r].msgs : /\ Prompted(run[r].msgs, r, h)
                                         /\ EndsWith(run[r].msgs, r, h, run[r].node)
  <1>1. PICK h \in DOMAIN run[r].msgs : Prompted(run[r].msgs, r, h)
    BY PromptFound DEF Inv, NodesOK
  <1>2. run[r].msgs \in Seq(Msg)
    BY RunFields DEF Inv, NodesOK
  <1>3. LastHuman(run[r].msgs) = h
    BY <1>1, <1>2, PromptLast
  <1>4. /\ \A k \in DOMAIN run[r].msgs : run[r].msgs[k].run = r <=> k >= h
        /\ run[r].node \in {"router", "chat", "command"} => h = Len(run[r].msgs)
        /\ run[r].node = "action" => h = Len(run[r].msgs) - 1
    BY <1>3 DEF ExchangeOK, Exchanges
  <1>5. \A k \in DOMAIN run[r].msgs : Calling(run[r].msgs[k]) /\ run[r].msgs[k].run = r =>
            run[r].node = "action" \/ ~run[r].alone \/ Answered(run[r].msgs, k)
    <2>1. run[r].msgs \in Histories /\ run[r].node # "aborted"
      BY DEF Histories, Active
    <2> QED BY <2>1 DEF CallsAnswered, Exchanges
  <1> QED BY <1>1, <1>3, <1>4, <1>5 DEF EndsWith

\* Run r goes to a node with what it said there.
LEMMA GoesExchanges ==
    ASSUME Inv, Exchanges, NEW r \in Run, Active(r),
           NEW node \in Nodes \ {"new", "loaded", "aborted"},
           NEW new \in Seq(Msg), Goes(r, node, new), forgotten' = forgotten,
           \A k \in DOMAIN new : new[k].run = r,
           NEW h, EndsWith(run[r].msgs \o new, r, h, node)
    PROVE  Exchanges'
  <1>0. PICK all : all = run[r].msgs \o new
    OBVIOUS
  <1>1. /\ TypeOK /\ run[r].msgs \in Seq(Msg) /\ all \in Seq(Msg) /\ h \in DOMAIN all
        /\ EndsWith(all, r, h, node) /\ LastHuman(all) = h
        /\ \A k \in DOMAIN all : all[k].run = r <=> k >= h
    BY <1>0, RunFields, Joined DEF Inv, NodesOK, EndsWith
  <1>2. /\ checkpoint' = all /\ run'[r].node = node /\ run'[r].alone = run[r].alone
        /\ \A a \in Run : a # r => run'[a] = run[a]
        /\ run'[r].msgs = IF node = "done" THEN SubSeq(all, h, Len(all)) ELSE all
    <2>1. CASE node = "done"
      BY <1>0, <1>1, <2>1, GoesDone
    <2>2. CASE node # "done"
      BY <1>0, <1>1, <2>2, GoesOn
    <2> QED BY <2>1, <2>2
  <1>3. \A a \in Run : Active(a)' => Active(a) /\ (a # r \/ node # "done")
    BY <1>2 DEF Active
  <1>4. \A msgs \in Histories' :
            msgs = all \/ \E a \in Run : a # r /\ Active(a) /\ msgs = run[a].msgs
    <2> SUFFICES ASSUME NEW a \in Run, Active(a)', a = r PROVE run'[a].msgs = all
      BY <1>2, <1>3 DEF Histories
    <2> QED BY <1>2, <1>3
  <1>5. AloneOK'
    <2>1. \A a \in Run : run'[a].alone = run[a].alone
      BY <1>2
    <2> QED BY <1>3, <2>1 DEF AloneOK, Exchanges
  <1>6. UnsaidOK'
    <2> SUFFICES ASSUME NEW a \in Run, run'[a].node \in {"new", "loaded"}, NEW msgs \in Histories'
                 PROVE  ~Held(msgs, a)
      BY DEF UnsaidOK, Held
    <2>1. a # r /\ run[a].node \in {"new", "loaded"}
      BY <1>2
    <2>2. \A old \in Histories : ~Held(old, a)
      BY <2>1 DEF UnsaidOK, Exchanges
    <2>3. CASE msgs = all
      <3>1. ~Held(run[r].msgs, a)
        BY <2>2 DEF Histories
      <3> QED BY <1>0, <1>1, <2>1, <2>3, <3>1, JoinedAt DEF Held
    <2>4. CASE msgs \in Histories
      BY <2>2, <2>4
    <2> QED BY <1>4, <2>3, <2>4 DEF Histories
  <1>7. ExchangeOK'
    <2> SUFFICES ASSUME NEW a \in Run, Active(a)', run'[a].node # "loaded"
                 PROVE  LET l == LastHuman(run'[a].msgs)
                        IN  /\ \A k \in DOMAIN run'[a].msgs : run'[a].msgs[k].run = a <=> k >= l
                            /\ run'[a].node \in {"router", "chat", "command"} => l = Len(run'[a].msgs)
                            /\ run'[a].node = "action" => l = Len(run'[a].msgs) - 1
      BY DEF ExchangeOK, LastHuman
    <2>1. CASE a = r
      <3>1. run'[r].msgs = all /\ run'[r].node = node
        BY <1>2, <1>3, <2>1
      <3> QED BY <1>1, <2>1, <3>1 DEF EndsWith
    <2>2. CASE a # r
      <3>1. run'[a] = run[a] /\ Active(a)
        BY <1>2, <1>3, <2>2
      <3> QED BY <3>1 DEF ExchangeOK, Exchanges
    <2> QED BY <2>1, <2>2
  <1>8. CallsAnswered'
    <2> SUFFICES ASSUME NEW msgs \in Histories', NEW k \in DOMAIN msgs, Calling(msgs[k])
                 PROVE  \/ run'[msgs[k].run].node \in {"action", "aborted"}
                        \/ ~run'[msgs[k].run].alone
                        \/ Answered(msgs, k)
      BY DEF CallsAnswered, Answered, Calling, Answers
    <2> DEFINE b == msgs[k].run
    <2>1. ASSUME NEW old \in Histories, k \in DOMAIN old, old[k] = msgs[k]
          PROVE  b \in Run /\ (\/ run[b].node \in {"action", "aborted"}
                               \/ ~run[b].alone
                               \/ Answered(old, k))
      BY <1>1, <2>1, HistoryRuns DEF CallsAnswered, Exchanges
    <2>2. CASE msgs = all
      <3>1. CASE b = r
        <4>1. node = "action" \/ ~run[r].alone \/ Answered(msgs, k)
          BY <1>1, <2>2, <3>1 DEF EndsWith
        <4> QED BY <1>2, <3>1, <4>1
      <3>2. CASE b # r
        <4>1. k \in DOMAIN run[r].msgs /\ run[r].msgs[k] = msgs[k]
          BY <1>0, <1>1, <2>2, <3>2, JoinedAt
        <4>2. run[r].msgs \in Histories
          BY DEF Histories
        <4>3. \/ run[b].node \in {"action", "aborted"}
              \/ ~run[b].alone
              \/ Answered(run[r].msgs, k)
          BY <2>1, <4>1, <4>2
        <4>4. run'[b] = run[b]
          BY <1>2, <2>1, <3>2, <4>1, <4>2
        <4>5. Answered(run[r].msgs, k) => Answered(msgs, k)
          BY <1>0, <1>1, <2>2, <4>1, AnsweredMore
        <4> QED BY <4>3, <4>4, <4>5
      <3> QED BY <3>1, <3>2
    <2>3. CASE \E a \in Run : a # r /\ Active(a) /\ msgs = run[a].msgs
      <3>1. PICK a \in Run : a # r /\ Active(a) /\ msgs = run[a].msgs
        BY <2>3
      <3>2. ~run[r].alone
        BY <3>1 DEF AloneOK, Exchanges
      <3>3. msgs \in Histories
        BY <3>1 DEF Histories
      <3>4. b \in Run /\ (\/ run[b].node \in {"action", "aborted"}
                          \/ ~run[b].alone
                          \/ Answered(msgs, k))
        BY <2>1, <3>3
      <3>5. b = r \/ run'[b] = run[b]
        BY <1>2, <3>4
      <3> QED BY <1>2, <3>2, <3>4, <3>5
    <2> QED BY <1>4, <2>2, <2>3
  <1>9. AnsweredKept'
    <2> SUFFICES ASSUME NEW b \in Run, run'[b].node = "done", run'[b].alone, forgotten'[b] = "no",
                        NEW msgs \in Histories'
                 PROVE  Whole(msgs, b, run'[b].msgs)
      BY DEF AnsweredKept, Whole
    <2>1. CASE b = r
      <3>1. ~\E a \in Run : a # r /\ Active(a)
        BY <1>2, <2>1 DEF AloneOK, Exchanges
      <3>2. msgs = all /\ run'[r].msgs = SubSeq(all, h, Len(all))
        BY <1>2, <1>4, <2>1, <3>1
      <3> QED BY <1>1, <2>1, <3>2, WholeNew
    <2>2. CASE b # r
      <3>1. run'[b] = run[b] /\ run[b].msgs \in Seq(Msg)
        BY <1>1, <1>2, <2>2, RunFields
      <3>2. \A old \in Histories : Whole(old, b, run[b].msgs)
        BY <3>1 DEF AnsweredKept, Exchanges
      <3>3. CASE msgs = all
        <4>1. Whole(run[r].msgs, b, run[b].msgs)
          BY <3>2 DEF Histories
        <4>2. \A k \in DOMAIN new : new[k].run # b
          BY <2>2
        <4>3. Whole(run[r].msgs \o new, b, run[b].msgs)
          BY <1>1, <3>1, <4>1, <4>2, WholeMore
        <4> QED BY <1>0, <3>1, <3>3, <4>3
      <3>4. CASE \E a \in Run : a # r /\ Active(a) /\ msgs = run[a].msgs
        BY <3>1, <3>2, <3>4 DEF Histories
      <3> QED BY <1>4, <3>3, <3>4
    <2> QED BY <2>1, <2>2
  <1> QED BY <1>5, <1>6, <1>7, <1>8, <1>9 DEF Exchanges

LEMMA InputExchanges == ASSUME Inv, Exchanges, NEW r \in Run, Input(r) PROVE Exchanges'
  <1> DEFINE new == <<Human(r)>>
             all == run[r].msgs \o new
             h == Len(run[r].msgs) + 1
  <1>1. /\ run[r].node = "loaded" /\ Active(r) /\ Goes(r, "router", new) /\ forgotten' = forgotten
        /\ "router" \in Nodes \ {"new", "loaded", "aborted"}
    BY DEF Input, Active, Nodes
  <1>2. /\ run[r].msgs \in Seq(Msg) /\ new \in Seq(Msg)
        /\ Human(r).role = "human" /\ Human(r).run = r /\ ~Calling(Human(r))
    BY RunFields, Messages DEF Inv, NodesOK, Calling
  <1>3. /\ Len(run[r].msgs) \in Nat /\ Len(all) = h /\ DOMAIN all = 1 .. h /\ all \in Seq(Msg)
        /\ all[h] = Human(r) /\ h \in DOMAIN all
        /\ \A k \in DOMAIN all : k # h => k \in DOMAIN run[r].msgs /\ all[k] = run[r].msgs[k]
    BY <1>2
  <1>4. \A k \in DOMAIN run[r].msgs : run[r].msgs[k].run # r
    <2>1. run[r].msgs \in Histories
      BY <1>1 DEF Histories
    <2> QED BY <1>1, <2>1 DEF UnsaidOK, Exchanges, Held
  <1>5. \A k \in DOMAIN new : new[k].run = r
    BY <1>2
  <1> HIDE DEF all, new, h
  <1>6. \A k \in DOMAIN all : k <= h /\ (all[k].run = r <=> k = h)
    BY <1>2, <1>3, <1>4 DEF h
  <1>7. LastHuman(all) = h
    BY <1>2, <1>3, <1>6, LastHumanIs
  <1>8. \A k \in DOMAIN all : (all[k].run = r <=> k >= h) /\ ~(Calling(all[k]) /\ all[k].run = r)
    BY <1>2, <1>3, <1>6 DEF h
  <1>9. EndsWith(run[r].msgs \o new, r, h, "router")
    BY <1>3, <1>7, <1>8 DEF EndsWith, all
  <1> QED BY <1>1, <1>2, <1>5, <1>9, GoesExchanges

LEMMA RouterExchanges == ASSUME Inv, Exchanges, NEW r \in Run, Router(r) PROVE Exchanges'
  <1>1. PICK node \in {"chat", "command"} :
            run[r].node = "router" /\ Active(r) /\ Goes(r, node, <<>>) /\ forgotten' = forgotten
    BY DEF Router, Active
  <1>2. PICK h \in DOMAIN run[r].msgs : EndsWith(run[r].msgs, r, h, "router")
    BY <1>1, OwnExchange
  <1>3. run[r].msgs \o <<>> = run[r].msgs
    BY RunFields DEF Inv, NodesOK
  <1>4. EndsWith(run[r].msgs, r, h, node)
    BY <1>2 DEF EndsWith
  <1> DEFINE new == <<>>
  <1>5. new \in Seq(Msg) /\ \A k \in DOMAIN new : new[k].run = r
    OBVIOUS
  <1>6. Goes(r, node, new) /\ EndsWith(run[r].msgs \o new, r, h, node)
    BY <1>1, <1>3, <1>4
  <1>7. node \in Nodes \ {"new", "loaded", "aborted"}
    BY DEF Nodes
  <1> HIDE DEF new
  <1> QED BY <1>1, <1>5, <1>6, <1>7, GoesExchanges

\* The run adds one message of the model.
LEMMA ReplyExchanges ==
    ASSUME Inv, Exchanges, NEW r \in Run, Active(r), run[r].node \notin {"loaded", "action"},
           NEW node \in {"done", "action"}, NEW calls \in CallLists,
           node = "action" => run[r].node = "command", node = "done" => calls = <<>>,
           Goes(r, node, <<Ai(r, calls)>>), forgotten' = forgotten
    PROVE  Exchanges'
  <1> DEFINE new == <<Ai(r, calls)>>
             msgs == run[r].msgs
             all == msgs \o new
  <1>1. PICK h \in DOMAIN msgs : Prompted(msgs, r, h) /\ EndsWith(msgs, r, h, run[r].node)
    BY OwnExchange
  <1>2. /\ msgs \in Seq(Msg) /\ new \in Seq(Msg)
        /\ \A k \in DOMAIN new : new[k].run = r /\ new[k].role = "ai"
        /\ node = "done" => ~Calling(Ai(r, calls))
    BY RunFields, Messages DEF Inv, NodesOK, Calling, Ai
  <1>3. /\ all \in Seq(Msg) /\ Len(all) = Len(msgs) + 1 /\ Len(msgs) \in Nat
        /\ DOMAIN all = 1 .. Len(all) /\ DOMAIN msgs = 1 .. Len(msgs)
        /\ all[Len(all)] = Ai(r, calls)
        /\ \A k \in DOMAIN msgs : all[k] = msgs[k]
        /\ \A k \in DOMAIN all : k \in DOMAIN msgs \/ k = Len(all)
    BY <1>2
  <1>4. LastHuman(all) = h /\ h \in DOMAIN all /\ h \in Nat /\ h <= Len(msgs)
    <2>1. Prompted(all, r, h)
      <3> HIDE DEF new
      <3> QED BY <1>1, <1>2, PromptStays
    <2> HIDE DEF all
    <2> QED BY <1>1, <1>3, <2>1, PromptLast
  <1>5. \A k \in DOMAIN msgs : Answered(msgs, k) => Answered(all, k)
    <2> HIDE DEF new
    <2> QED BY <1>2, AnsweredMore
  <1>6. Ai(r, calls).run = r
    BY DEF Ai
  <1>7. /\ \A k \in DOMAIN msgs : msgs[k].run = r <=> k >= h
        /\ node = "action" => h = Len(msgs)
        /\ \A k \in DOMAIN msgs : Calling(msgs[k]) /\ msgs[k].run = r =>
               ~run[r].alone \/ Answered(msgs, k)
    BY <1>1 DEF EndsWith
  <1> HIDE DEF all, msgs
  <1>8. \A k \in DOMAIN all : all[k].run = r <=> k >= h
    <2> SUFFICES ASSUME NEW k \in DOMAIN all PROVE all[k].run = r <=> k >= h
      OBVIOUS
    <2>1. CASE k \in DOMAIN msgs
      BY <1>3, <1>7, <2>1
    <2>2. CASE k = Len(all)
      BY <1>3, <1>4, <1>6, <2>2
    <2> QED BY <1>3, <2>1, <2>2
  <1>9. \A k \in DOMAIN all : Calling(all[k]) /\ all[k].run = r =>
            node = "action" \/ ~run[r].alone \/ Answered(all, k)
    <2> SUFFICES ASSUME NEW k \in DOMAIN all, Calling(all[k]), all[k].run = r, node # "action"
                 PROVE  ~run[r].alone \/ Answered(all, k)
      OBVIOUS
    <2>1. k \in DOMAIN msgs
      BY <1>2, <1>3
    <2> QED BY <1>3, <1>5, <1>7, <2>1
  <1>10. node = "action" => h = Len(all) - 1
    BY <1>3, <1>7
  <1>11. EndsWith(all, r, h, node)
    BY <1>4, <1>8, <1>9, <1>10 DEF EndsWith
  <1>12. node \in Nodes \ {"new", "loaded", "aborted"}
    BY DEF Nodes
  <1> HIDE DEF new
  <1>13. /\ Goes(r, node, new) /\ EndsWith(run[r].msgs \o new, r, h, node)
         /\ \A k \in DOMAIN new : new[k].run = r
    BY <1>2, <1>11 DEF new, all, msgs
  <1> QED BY <1>2, <1>12, <1>13, GoesExchanges

LEMMA SpeakExchanges == ASSUME Inv, Exchanges, NEW r \in Run, Speak(r) PROVE Exchanges'
  <1>1. /\ Active(r) /\ run[r].node \notin {"loaded", "action"}
        /\ Goes(r, "done", <<Ai(r, <<>>)>>) /\ forgotten' = forgotten
    BY DEF Speak, Active
  <1>2. <<>> \in CallLists
    BY DEF CallLists
  <1> QED BY <1>1, <1>2, ReplyExchanges

LEMMA CommandExchanges == ASSUME Inv, Exchanges, NEW r \in Run, Command(r) PROVE Exchanges'
  <1>1. PICK reply \in Replies :
            Goes(r, IF CallsOf(reply, registry) = <<>> THEN "done" ELSE "action",
                 <<Ai(r, CallsOf(reply, registry))>>)
    BY DEF Command
  <1>2. run[r].node = "command" /\ Active(r) /\ forgotten' = forgotten
    BY DEF Command, Active
  <1> DEFINE calls == CallsOf(reply, registry)
  <1>3. calls \in CallLists
    BY DEF CallLists, Inv, NodesOK, TypeOK
  <1>4. PICK node \in {"done", "action"} :
            Goes(r, node, <<Ai(r, calls)>>) /\ (node = "done" => calls = <<>>)
    <2>1. CASE calls = <<>>
      BY <1>1, <2>1
    <2>2. CASE calls # <<>>
      BY <1>1, <2>2
    <2> QED BY <2>1, <2>2
  <1> HIDE DEF calls
  <1> QED BY <1>2, <1>3, <1>4, ReplyExchanges

\* A function whose domain begins at 1 is a sequence.
LEMMA Listed ==
    ASSUME NEW f, NEW n \in Nat, DOMAIN f = 1 .. n, f = [i \in DOMAIN f |-> f[i]]
    PROVE  f \in Seq(ToSet(f)) /\ Len(f) = n
  <1>1. f \in [1 .. n -> ToSet(f)]
    BY DEF ToSet
  <1> QED BY <1>1

LEMMA RecoveredListed ==
    ASSUME NEW calls, calls \in Seq(ToSet(calls)), NEW tools
    PROVE  LET found == Recovered(calls, tools)
           IN  found \in Seq(ToSet(found))
  <1> DEFINE known == {k \in DOMAIN calls : resolve_tool_definition(calls[k].name, tools) # 0}
             found == Recovered(calls, tools)
  <1>1. IsFiniteSet(known) /\ Cardinality(known) \in Nat
    <2>1. known \subseteq 1 .. Len(calls) /\ 1 \in Int /\ Len(calls) \in Int
      OBVIOUS
    <2> HIDE DEF known
    <2>2. IsFiniteSet(1 .. Len(calls))
      BY <2>1, FS_Interval
    <2>3. IsFiniteSet(known)
      BY <2>1, <2>2, FS_Subset
    <2> QED BY <2>3, FS_CardinalityType
  <1>2. DOMAIN found = 1 .. Cardinality(known) /\ found = [i \in DOMAIN found |-> found[i]]
    BY DEF Recovered
  <1> HIDE DEF known, found
  <1>3. found \in Seq(ToSet(found))
    BY <1>1, <1>2, Listed
  <1> QED BY <1>3 DEF found

\* The calls of a message are a list.
LEMMA CallSequences ==
    ASSUME NEW calls \in CallLists
    PROVE  calls \in Seq(ToSet(calls))
  <1>1. \A s : s = <<>> => s \in Seq(ToSet(s))
    OBVIOUS
  <1>2. ASSUME NEW reply \in Replies, NEW tools, calls = CallsOf(reply, tools), calls # <<>>
        PROVE  calls \in Seq(ToSet(calls))
    <2>0. /\ reply.calls \in Seq(ToSet(reply.calls)) /\ reply.text \in Seq(ToSet(reply.text))
          /\ \A text \in ToSet(reply.text) : text \in Seq(ToSet(text))
      BY ReplyAssumption
    <2>1. CASE reply.calls # <<>>
      <3>1. calls = [k \in DOMAIN reply.calls |-> Structured(reply.calls[k], tools)]
        BY <1>2, <2>1 DEF CallsOf
      <3>2. /\ Len(reply.calls) \in Nat /\ DOMAIN calls = 1 .. Len(reply.calls)
            /\ calls = [k \in DOMAIN calls |-> calls[k]]
        BY <2>0, <3>1
      <3> QED BY <3>2, Listed
    <2>2. CASE reply.calls = <<>>
      <3> DEFINE found == {s \in DOMAIN reply.text : Recovered(reply.text[s], tools) # <<>>}
      <3>1. calls = extract_fallback_tool_calls(reply.text, tools)
        BY <1>2, <2>2 DEF CallsOf
      <3>2. found # {} /\ calls = Recovered(reply.text[Min(found)], tools)
        BY <1>2, <3>1 DEF extract_fallback_tool_calls
      <3>3. found \in SUBSET Nat /\ found \subseteq DOMAIN reply.text
        BY <2>0
      <3> HIDE DEF found
      <3>4. Min(found) \in DOMAIN reply.text
        BY <3>2, <3>3, Least
      <3>5. reply.text[Min(found)] \in ToSet(reply.text)
        BY <2>0, <3>4 DEF ToSet
      <3> QED BY <2>0, <3>2, <3>5, RecoveredListed
    <2> QED BY <2>1, <2>2
  <1> QED BY <1>1, <1>2 DEF CallLists

\* The answers, one for each call, follow the message that asked for them.
LEMMA ActionDoneExchanges ==
    ASSUME Inv, Exchanges, NEW r \in Run, ActionDone(r) PROVE Exchanges'
  <1> DEFINE new == run[r].answers
             msgs == run[r].msgs
             all == msgs \o new
             n == Len(msgs)
             call == Last(msgs)
  <1>1. /\ run[r].node = "action" /\ Active(r) /\ run[r].at = Len(call.calls) + 1
        /\ Goes(r, "summarize", new) /\ forgotten' = forgotten
    BY DEF ActionDone, Active, Calls
  <1>2. PICK h \in DOMAIN msgs : Prompted(msgs, r, h) /\ EndsWith(msgs, r, h, "action")
    BY <1>1, OwnExchange
  <1>3. /\ msgs \in Seq(Msg) /\ new \in Seq(Msg) /\ msgs # <<>> /\ call.role = "ai" /\ call.run = r
        /\ run[r].at = Len(new) + 1
        /\ \A k \in DOMAIN new : /\ new[k].role = "tool" /\ new[k].run = r /\ new[k].call = k
                                 /\ k \in DOMAIN call.calls
    <2>1. CallsOK(r) /\ new \in Seq(Msg) /\ msgs \in Seq(Msg)
      BY <1>1, InAction, RunFields DEF Inv, NodesOK
    <2> QED BY <1>1, <2>1 DEF CallsOK, Handles, Calling
  <1>4. /\ n \in Nat /\ n >= 1 /\ DOMAIN msgs = 1 .. n /\ msgs[n] = call /\ call \in Msg
        /\ Len(new) \in Nat /\ DOMAIN new = 1 .. Len(new)
    <2>1. msgs[n] = call
      BY DEF Last
    <2> HIDE DEF call, new, msgs
    <2> QED BY <1>3, <2>1
  <1> HIDE DEF call
  <1>5. /\ all \in Seq(Msg) /\ DOMAIN all = 1 .. n + Len(new) /\ Len(all) = n + Len(new)
        /\ \A k \in 1 .. n : all[k] = msgs[k]
        /\ \A k \in 1 .. Len(new) : all[n + k] = new[k]
        /\ \A k \in DOMAIN all : k \in 1 .. n \/ \E i \in DOMAIN new : k = n + i /\ all[k] = new[i]
    <2> HIDE DEF new, msgs
    <2>1. \A k \in DOMAIN all : \/ k \in DOMAIN msgs /\ all[k] = msgs[k]
                                \/ \E i \in DOMAIN new : k = Len(msgs) + i /\ all[k] = new[i]
      <3> SUFFICES ASSUME NEW k \in DOMAIN (msgs \o new)
                   PROVE  \/ k \in DOMAIN msgs /\ (msgs \o new)[k] = msgs[k]
                          \/ \E i \in DOMAIN new : k = Len(msgs) + i /\ (msgs \o new)[k] = new[i]
        OBVIOUS
      <3> HIDE DEF all
      <3> QED BY <1>3, JoinedAt
    <2>2. \A k \in DOMAIN all : k \in 1 .. n \/ \E i \in DOMAIN new : k = n + i /\ all[k] = new[i]
      BY <1>4, <2>1
    <2> QED BY <1>3, <2>2, Joined
  <1>6. LastHuman(all) = h /\ h \in DOMAIN all
    <2>1. Prompted(all, r, h)
      <3> HIDE DEF new, msgs
      <3> QED BY <1>2, <1>3, PromptStays
    <2> HIDE DEF all
    <2> QED BY <1>5, <2>1, PromptLast DEF Prompted
  <1>7. Answered(all, n)
    <2> DEFINE calls == call.calls
    <2>1. calls \in CallLists
      BY <1>4 DEF Msg
    <2>2. DOMAIN calls = DOMAIN new
      <3>1. calls \in Seq(ToSet(calls)) /\ Len(calls) + 1 = Len(new) + 1
        BY <1>1, <1>3, <2>1, CallSequences
      <3> HIDE DEF calls, new
      <3>2. Len(calls) \in Nat /\ DOMAIN calls = 1 .. Len(calls)
        BY <3>1
      <3>3. Len(new) \in Nat /\ DOMAIN new = 1 .. Len(new)
        BY <1>4
      <3>4. Len(calls) = Len(new)
        <4>1. \A i, j \in Nat : i + 1 = j + 1 => i = j
          OBVIOUS
        <4> QED BY <3>1, <3>2, <3>3, <4>1, Zenon
      <3> QED BY <3>2, <3>3, <3>4
    <2> HIDE DEF all, new, n, msgs
    <2>3. n \in 1 .. n /\ all[n] = call
      BY <1>4, <1>5
    <2>4. ASSUME NEW i \in DOMAIN calls
          PROVE  n + i \in DOMAIN all /\ Answers(all[n + i], all[n]) /\ all[n + i].call = i
      <3>1. i \in 1 .. Len(new) /\ n + i \in DOMAIN all /\ all[n + i] = new[i]
        BY <1>4, <1>5, <2>2
      <3> QED BY <1>3, <2>2, <2>3, <3>1 DEF Answers
    <2> QED BY <2>3, <2>4 DEF Answered
  <1>8. /\ \A k \in DOMAIN msgs : msgs[k].run = r <=> k >= h
        /\ h = n - 1 /\ msgs[h].role = "human"
    BY <1>2, Messages DEF EndsWith, Prompted
  <1> HIDE DEF all, new, n, msgs
  <1>9. \A k \in DOMAIN all : all[k].run = r <=> k >= h
    <2> SUFFICES ASSUME NEW k \in DOMAIN all PROVE all[k].run = r <=> k >= h
      OBVIOUS
    <2>1. CASE k \in 1 .. n
      BY <1>4, <1>5, <1>8, <2>1
    <2>2. CASE \E i \in DOMAIN new : k = n + i /\ all[k] = new[i]
      BY <1>3, <1>4, <1>8, <2>2
    <2> QED BY <1>5, <2>1, <2>2
  <1>10. \A k \in DOMAIN all : Calling(all[k]) /\ all[k].run = r => Answered(all, k)
    <2> SUFFICES ASSUME NEW k \in DOMAIN all, Calling(all[k]), all[k].run = r PROVE k = n
      BY <1>7
    <2>1. all[k].role = "ai"
      BY DEF Calling
    <2>2. k \in 1 .. n
      BY <1>3, <1>5, <2>1
    <2>3. k # h /\ k >= h
      BY <1>4, <1>5, <1>8, <1>9, <2>1, <2>2
    <2> QED BY <1>4, <1>8, <2>2, <2>3
  <1>11. EndsWith(all, r, h, "summarize")
    BY <1>6, <1>9, <1>10 DEF EndsWith
  <1>12. "summarize" \in Nodes \ {"new", "loaded", "aborted"}
    BY DEF Nodes
  <1>13. /\ Goes(r, "summarize", new) /\ EndsWith(run[r].msgs \o new, r, h, "summarize")
         /\ \A k \in DOMAIN new : new[k].run = r
    BY <1>1, <1>3, <1>11 DEF new, all, msgs
  <1> QED BY <1>1, <1>3, <1>12, <1>13, GoesExchanges

\* The action node on its way, the ends of runs, discoveries and crashes.
LEMMA CallExchanges ==
    ASSUME Inv, Exchanges, NEW r \in Run,
           \/ CallScheduler(r) \/ AskUser(r) \/ Dispatch(r) \/ Approve(r) \/ Deny(r) \/ Reply(r)
    PROVE  Exchanges'
  <1>1. /\ checkpoint' = checkpoint /\ forgotten' = forgotten
        /\ run \in [Run -> RunState] /\ run[r] \in RunState /\ TypeOK
    BY RunFields DEF CallScheduler, AskUser, Dispatch, Approve, Deny, Reply, Inv, NodesOK, TypeOK
  <1>2. \A step : run' = [run EXCEPT ![r].step = step] =>
            \A a \in Run : /\ run'[a].node = run[a].node /\ run'[a].msgs = run[a].msgs
                           /\ run'[a].alone = run[a].alone
    BY <1>1 DEF RunState
  <1>3. \A n : run' = Collected(r, n) =>
            \A a \in Run : /\ run'[a].node = run[a].node /\ run'[a].msgs = run[a].msgs
                           /\ run'[a].alone = run[a].alone
    <2> SUFFICES ASSUME NEW n, run' = Collected(r, n)
                 PROVE  \A a \in Run : /\ run'[a].node = run[a].node /\ run'[a].msgs = run[a].msgs
                                       /\ run'[a].alone = run[a].alone
      OBVIOUS
    <2> DEFINE more == Append(run[r].answers, Answer(r, run[r].at, n))
    <2>1. run' = [run EXCEPT ![r] = [run[r] EXCEPT !.answers = more, !.at = run[r].at + 1,
                                                  !.step = "pick"]]
      BY <1>1 DEF Collected, RunState
    <2> HIDE DEF more
    <2> QED BY <1>1, <2>1 DEF RunState
  <1>4. \A a \in Run : /\ run'[a].node = run[a].node /\ run'[a].msgs = run[a].msgs
                       /\ run'[a].alone = run[a].alone
    BY <1>2, <1>3 DEF CallScheduler, AskUser, Dispatch, Approve, Deny, Reply
  <1> QED BY <1>1, <1>4, QuietExchanges

LEMMA OutsideExchanges ==
    ASSUME Inv, Exchanges,
           \/ \E r \in Run : Cancel(r) \/ Fail(r)
           \/ Discover \/ Crash \/ UNCHANGED vars
    PROVE  Exchanges'
  <1>1. checkpoint' = checkpoint /\ forgotten' = forgotten /\ TypeOK /\ run \in [Run -> RunState]
    BY DEF Cancel, Fail, Discover, Crash, vars, Inv, NodesOK, TypeOK
  <1>2. \A a \in Run : run'[a] = run[a] \/ run'[a].node = "aborted"
    <2>1. \A a \in Run : Ended(a, "aborted", <<>>).node = "aborted"
      BY <1>1, EndedEmpty
    <2>2. ASSUME NEW r \in Run, run' = [run EXCEPT ![r] = Ended(r, "aborted", <<>>)]
          PROVE  \A a \in Run : run'[a] = run[a] \/ run'[a].node = "aborted"
      BY <1>1, <2>1, <2>2
    <2>3. CASE Crash
      BY <1>1, <2>1, <2>3 DEF Crash
    <2>4. CASE run' = run
      BY <2>4
    <2> QED BY <2>2, <2>3, <2>4 DEF Cancel, Fail, Discover, vars
  <1> QED BY <1>1, <1>2, QuietExchanges

LEMMA ClearExchanges == ASSUME Inv, Exchanges, ClearHistory PROVE Exchanges'
  <1>1. /\ checkpoint' = <<>> /\ run' = run
        /\ forgotten' = [r \in Run |-> IF run[r].node = "new" THEN "no"
                                      ELSE IF Kept_By(r) THEN "maybe" ELSE "surely"]
    BY DEF ClearHistory
  <1>2. \A msgs \in Histories' : msgs = <<>> \/ msgs \in Histories
    BY <1>1 DEF Histories, Active
  <1>3. \A a \in Run : Active(a)' <=> Active(a)
    BY <1>1 DEF Active
  <1>4. AloneOK' /\ ExchangeOK'
    BY <1>1, <1>3 DEF AloneOK, ExchangeOK, Exchanges, LastHuman
  <1>5. UnsaidOK'
    BY <1>1, <1>2 DEF UnsaidOK, Exchanges, Held
  <1>6. CallsAnswered'
    BY <1>1, <1>2 DEF CallsAnswered, Exchanges, Answered, Calling, Answers
  <1>7. AnsweredKept'
    BY <1>1 DEF AnsweredKept
  <1> QED BY <1>4, <1>5, <1>6, <1>7 DEF Exchanges

\* A run that begins overlaps those under way.
LEMMA ReadExchanges == ASSUME Inv, Exchanges, NEW r \in Run, Read(r) PROVE Exchanges'
  <1> DEFINE others == {a \in Run : Active(a)}
  <1>1. /\ run[r].node = "new" /\ checkpoint' = checkpoint /\ forgotten' = forgotten
        /\ run' = [a \in Run |->
                    IF a = r THEN [Fresh EXCEPT !.node = "loaded", !.msgs = checkpoint,
                                                !.alone = (others = {})]
                    ELSE IF a \in others THEN [run[a] EXCEPT !.alone = FALSE]
                    ELSE run[a]]
        /\ TypeOK /\ run \in [Run -> RunState]
    BY DEF Read, Inv, NodesOK, TypeOK
  <1>2. run'[r].node = "loaded" /\ run'[r].msgs = checkpoint /\ (run'[r].alone <=> others = {})
    <2>1. run'[r] = [Fresh EXCEPT !.node = "loaded", !.msgs = checkpoint, !.alone = (others = {})]
      BY <1>1
    <2> HIDE DEF others
    <2> QED BY <2>1 DEF Fresh
  <1>3. \A x \in RunState : /\ [x EXCEPT !.alone = FALSE].node = x.node
                            /\ [x EXCEPT !.alone = FALSE].msgs = x.msgs
                            /\ [x EXCEPT !.alone = FALSE].alone = FALSE
    BY DEF RunState
  <1>4. \A a \in Run : a # r =>
            /\ run'[a].node = run[a].node /\ run'[a].msgs = run[a].msgs
            /\ Active(a) => run'[a].alone = FALSE
            /\ ~Active(a) => run'[a].alone = run[a].alone
    <2> SUFFICES ASSUME NEW a \in Run, a # r
                 PROVE  /\ run'[a].node = run[a].node /\ run'[a].msgs = run[a].msgs
                        /\ Active(a) => run'[a].alone = FALSE
                        /\ ~Active(a) => run'[a].alone = run[a].alone
      OBVIOUS
    <2>1. CASE Active(a)
      <3>1. run'[a] = [run[a] EXCEPT !.alone = FALSE] /\ run[a] \in RunState
        BY <1>1, <2>1
      <3> QED BY <1>3, <2>1, <3>1
    <2>2. CASE ~Active(a)
      <3>1. run'[a] = run[a]
        BY <1>1, <2>2
      <3> QED BY <2>2, <3>1
    <2> QED BY <2>1, <2>2
  <1>5. \A a \in Run : a # r => (Active(a)' <=> Active(a))
    BY <1>4 DEF Active
  <1>6. Histories' \subseteq Histories
    <2> SUFFICES ASSUME NEW a \in Run, Active(a)' PROVE run'[a].msgs \in Histories
      BY <1>1 DEF Histories
    <2>1. CASE a = r
      BY <1>2, <2>1 DEF Histories
    <2>2. CASE a # r
      <3>1. Active(a) /\ run'[a].msgs = run[a].msgs
        BY <1>4, <1>5, <2>2
      <3> QED BY <3>1 DEF Histories
    <2> QED BY <2>1, <2>2
  <1>7. \A msgs \in Histories : ~Held(msgs, r)
    BY <1>1 DEF UnsaidOK, Exchanges
  <1>8. AloneOK'
    <2> SUFFICES ASSUME NEW a \in Run, NEW b \in Run, Active(a)', run'[a].alone, Active(b)'
                 PROVE  b = a
      BY DEF AloneOK
    <2>1. a = r
      BY <1>4, <1>5
    <2> QED BY <1>2, <1>5, <2>1
  <1>9. UnsaidOK'
    <2> SUFFICES ASSUME NEW a \in Run, run'[a].node \in {"new", "loaded"}, NEW msgs \in Histories'
                 PROVE  ~Held(msgs, a)
      BY DEF UnsaidOK, Held
    <2>1. CASE a = r
      BY <1>6, <1>7, <2>1
    <2>2. CASE a # r
      BY <1>4, <1>6, <2>2 DEF UnsaidOK, Exchanges
    <2> QED BY <2>1, <2>2
  <1>10. ExchangeOK'
    <2> SUFFICES ASSUME NEW a \in Run, Active(a)', run'[a].node # "loaded"
                 PROVE  LET l == LastHuman(run'[a].msgs)
                        IN  /\ \A k \in DOMAIN run'[a].msgs : run'[a].msgs[k].run = a <=> k >= l
                            /\ run'[a].node \in {"router", "chat", "command"} => l = Len(run'[a].msgs)
                            /\ run'[a].node = "action" => l = Len(run'[a].msgs) - 1
      BY DEF ExchangeOK, LastHuman
    <2>1. a # r
      BY <1>2
    <2>2. Active(a) /\ run'[a].node = run[a].node /\ run'[a].msgs = run[a].msgs
      BY <1>4, <1>5, <2>1
    <2> QED BY <2>2 DEF ExchangeOK, Exchanges
  <1>11. CallsAnswered'
    <2> SUFFICES ASSUME NEW msgs \in Histories', NEW k \in DOMAIN msgs, Calling(msgs[k])
                 PROVE  \/ run'[msgs[k].run].node \in {"action", "aborted"}
                        \/ ~run'[msgs[k].run].alone
                        \/ Answered(msgs, k)
      BY DEF CallsAnswered, Answered, Calling, Answers
    <2>1. msgs \in Histories /\ msgs[k].run \in Run /\ msgs[k].run # r
      BY <1>1, <1>6, <1>7, HistoryRuns DEF Held
    <2> QED BY <1>4, <2>1 DEF CallsAnswered, Exchanges
  <1>12. AnsweredKept'
    <2> SUFFICES ASSUME NEW a \in Run, run'[a].node = "done", run'[a].alone, forgotten'[a] = "no",
                        NEW msgs \in Histories'
                 PROVE  Whole(msgs, a, run'[a].msgs)
      BY DEF AnsweredKept, Whole
    <2>1. a # r /\ msgs \in Histories
      BY <1>2, <1>6
    <2>2. run[a].node = "done" /\ run'[a].msgs = run[a].msgs /\ run[a].alone /\ forgotten[a] = "no"
      BY <1>1, <1>4, <2>1 DEF Active
    <2> QED BY <2>1, <2>2 DEF AnsweredKept, Exchanges
  <1> QED BY <1>8, <1>9, <1>10, <1>11, <1>12 DEF Exchanges

-----------------------------------------------------------------------------
(* The specification                                                        *)

LEMMA InitInv == Init => Inv
  <1> SUFFICES ASSUME Init PROVE Inv
    OBVIOUS
  <1>1. \A r \in Run : run[r] = Fresh /\ ~Active(r)
    BY DEF Init, Active, Fresh
  <1>2. Fresh \in RunState
    <2>1. <<>> \in Seq(Msg) /\ 1 \in Nat \ {0} /\ "pick" \in {"pick", "confirm", "sent"}
      OBVIOUS
    <2> QED BY <2>1 DEF Fresh, RunState
  <1>3. TypeOK
    BY <1>2 DEF Init, TypeOK
  <1>4. PromptOK /\ ForgottenOK /\ ClearedStaysCleared /\ CriticalAsked
    BY <1>1 DEF Init, PromptOK, ForgottenOK, ClearedStaysCleared, CriticalAsked
  <1>5. ActionOK /\ RecordedOnce
    BY <1>1 DEF Init, ActionOK, RecordedOnce, Fresh
  <1>6. HistoryPaired
    BY <1>1, PairedEmpty DEF Init, HistoryPaired, Histories
  <1> QED BY <1>3, <1>4, <1>5, <1>6 DEF Inv, NodesOK

LEMMA NextInv == Inv /\ [Next]_vars => Inv'
  <1> SUFFICES ASSUME Inv, [Next]_vars PROVE Inv'
    OBVIOUS
  <1>1. ASSUME NEW r \in Run, Step(r) PROVE Inv'
    <2>1. CASE Read(r)
      BY <2>1, ReadInv
    <2>2. CASE Input(r)
      BY <2>2, InputInv
    <2>3. CASE Router(r)
      BY <2>3, RouterInv
    <2>4. CASE Speak(r)
      BY <2>4, SpeakInv
    <2>5. CASE Command(r)
      BY <2>5, CommandInv
    <2>6. CASE \/ CallScheduler(r) \/ AskUser(r) \/ Dispatch(r) \/ Approve(r) \/ Deny(r)
               \/ Reply(r)
      BY <2>6, CallInv
    <2>7. CASE ActionDone(r)
      BY <2>7, ActionDoneInv
    <2>8. CASE Cancel(r) \/ Fail(r)
      BY <2>8, CancelInv
    <2> QED BY <1>1, <2>1, <2>2, <2>3, <2>4, <2>5, <2>6, <2>7, <2>8 DEF Step
  <1>2. CASE UNCHANGED vars
    <2>1. UNCHANGED <<checkpoint, run, registry, issued, recorded, forgotten>>
      BY <1>2 DEF vars
    <2>2. /\ run \in [Run -> RunState] /\ recorded \in [Run -> Seq(Run)]
          /\ registry \in Manifests \cup {Native}
      BY DEF Inv, NodesOK, TypeOK
    <2> QED BY <2>1, <2>2, AfterAbort
  <1> QED BY <1>1, <1>2, ClearInv, DiscoverInv, CrashInv DEF Next

LEMMA Always == Spec => []Inv
  BY InitInv, NextInv, PTL DEF Spec

LEMMA InitExchanges == Init => Exchanges
  <1> SUFFICES ASSUME Init PROVE Exchanges
    OBVIOUS
  <1>1. \A r \in Run : run[r].node = "new" /\ ~Active(r)
    BY DEF Init, Active, Fresh
  <1>2. \A msgs \in Histories : DOMAIN msgs = {}
    BY <1>1 DEF Init, Histories
  <1>3. AloneOK /\ ExchangeOK /\ AnsweredKept
    BY <1>1 DEF AloneOK, ExchangeOK, AnsweredKept
  <1>4. UnsaidOK /\ CallsAnswered
    BY <1>2 DEF UnsaidOK, CallsAnswered, Held
  <1> QED BY <1>3, <1>4 DEF Exchanges

LEMMA NextExchanges == Inv /\ Exchanges /\ [Next]_vars => Exchanges'
  <1> SUFFICES ASSUME Inv, Exchanges, [Next]_vars PROVE Exchanges'
    OBVIOUS
  <1>1. ASSUME NEW r \in Run, Step(r) PROVE Exchanges'
    BY <1>1, ReadExchanges, InputExchanges, RouterExchanges, SpeakExchanges, CommandExchanges,
       CallExchanges, ActionDoneExchanges, OutsideExchanges DEF Step
  <1> QED BY <1>1, ClearExchanges, OutsideExchanges DEF Next

LEMMA AlwaysExchanges == Spec => []Exchanges
  BY InitExchanges, NextExchanges, Always, PTL DEF Spec

-----------------------------------------------------------------------------
(* What the model is shown                                                  *)

LEMMA MsgSized == Sized(Msg)
  BY DEF Sized, Msg

LEMMA Asking ==
    ASSUME Inv, NEW r \in Run, run[r].node \in {"chat", "command", "summarize"}
    PROVE  Active(r) /\ run[r].msgs \in Seq(Msg) /\ WellPaired(run[r].msgs)
  <1>1. Active(r) /\ run[r].msgs \in Seq(Msg)
    BY RunFields DEF Inv, NodesOK, Active
  <1>2. run[r].msgs \in Histories
    BY <1>1 DEF Histories
  <1> QED BY <1>1, <1>2 DEF Inv, HistoryPaired

\* The window ends with message number last and all behind it.
Keeps(window, msgs, last) ==
    /\ window \in Seq(Msg) /\ Len(window) >= Len(msgs) - last + 1
    /\ \A k \in 0 .. Len(msgs) - last : window[Len(window) - k] = msgs[Len(msgs) - k]

LEMMA EndKeeps ==
    ASSUME NEW msgs \in Seq(Msg), NEW n \in Nat, n = Len(msgs), NEW i \in 1 .. n,
           NEW last \in 1 .. n, i <= last
    PROVE  Keeps(SubSeq(msgs, i, n), msgs, last)
  <1> DEFINE end == SubSeq(msgs, i, n)
             l == n - i + 1
  <1>1. i \in 1 .. Len(msgs) + 1 /\ n \in i - 1 .. Len(msgs)
    OBVIOUS
  <1>2. end \in Seq(Msg) /\ Len(end) = l /\ \A k \in 1 .. l : end[k] = msgs[i - 1 + k]
    BY <1>1, Part
  <1> HIDE DEF end
  <1>3. l >= n - last + 1
    OBVIOUS
  <1>4. ASSUME NEW k \in 0 .. n - last PROVE end[l - k] = msgs[n - k]
    <2>1. l - k \in 1 .. l /\ i - 1 + (l - k) = n - k
      OBVIOUS
    <2> DEFINE at == l - k
    <2> HIDE DEF at, l
    <2> QED BY <1>2, <2>1 DEF at
  <1> HIDE DEF l
  <1> QED BY <1>2, <1>3, <1>4 DEF end, Keeps

\* The window keeps the last message that is no answer and all behind it.
LEMMA WindowKeeps ==
    ASSUME NEW msgs \in Seq(Msg), WellPaired(msgs), NEW last \in DOMAIN msgs,
           msgs[last].role # "tool",
           \A i \in DOMAIN msgs : msgs[i].role # "tool" => i <= last
    PROVE  Keeps(trim_messages_token_budget(msgs, Budget), msgs, last)
  <1>1. PICK i \in DOMAIN msgs :
            i <= last /\ trim_messages_token_budget(msgs, Budget) = SubSeq(msgs, i, Len(msgs))
    BY MsgSized, BudgetAssumption, WindowIsEnd
  <1> DEFINE n == Len(msgs)
  <1>2. n \in Nat /\ n = Len(msgs) /\ i \in 1 .. n /\ last \in 1 .. n
    OBVIOUS
  <1> HIDE DEF n
  <1>3. Keeps(SubSeq(msgs, i, n), msgs, last)
    BY <1>1, <1>2, EndKeeps
  <1> QED BY <1>1, <1>3 DEF n

LEMMA PromptShown ==
    ASSUME Inv, Exchanges, NEW r \in Run, run[r].node \in {"chat", "command"}
    PROVE  Window(r) # <<>> /\ Last(Window(r)) = Human(r)
  <1> DEFINE msgs == run[r].msgs
             n == Len(msgs)
             window == Window(r)
  <1>1. Active(r) /\ msgs \in Seq(Msg) /\ WellPaired(msgs)
    BY Asking
  <1>2. PICK h \in DOMAIN msgs : Prompted(msgs, r, h)
    BY <1>1, PromptFound DEF Inv, NodesOK
  <1>3. Human(r).role = "human" /\ Human(r).role # "tool"
    BY DEF Human
  <1>4. LastHuman(msgs) = h
    <2> HIDE DEF msgs
    <2> QED BY <1>1, <1>2, <1>3, LastHumanIs DEF Prompted
  <1>5. h = n
    BY <1>1, <1>4 DEF Exchanges, ExchangeOK
  <1> HIDE DEF msgs
  <1>6. n \in DOMAIN msgs /\ msgs[n] = Human(r) /\ \A i \in DOMAIN msgs : i <= n
    BY <1>1, <1>2, <1>5 DEF Prompted
  <1>7. window = trim_messages_token_budget(msgs, Budget)
    BY DEF Window, msgs
  <1>8. /\ window \in Seq(Msg) /\ Len(window) >= n - n + 1
        /\ \A k \in 0 .. n - n : window[Len(window) - k] = msgs[n - k]
    <2>1. Keeps(window, msgs, n)
      BY <1>1, <1>3, <1>6, <1>7, WindowKeeps
    <2> HIDE DEF window
    <2> QED BY <2>1 DEF Keeps
  <1>9. n - n = 0 /\ n - 0 = n /\ 0 \in 0 .. n - n
    BY <1>1
  <1> HIDE DEF window, n
  <1>10. Len(window) >= 1 /\ Len(window) \in Nat /\ window[Len(window) - 0] = Human(r)
    BY <1>6, <1>8, <1>9
  <1>11. Len(window) - 0 = Len(window) /\ window # <<>>
    BY <1>8, <1>10
  <1> QED BY <1>10, <1>11 DEF window, Last

LEMMA AnswersShown ==
    ASSUME Inv, NEW r \in Run, run[r].node = "summarize"
    PROVE  LET n == Len(run[r].answers) + 1
           IN  /\ Len(Window(r)) >= n
               /\ Calling(Window(r)[Len(Window(r)) - n + 1])
               /\ SubSeq(Window(r), Len(Window(r)) - n + 2, Len(Window(r))) = run[r].answers
  <1> DEFINE msgs == run[r].msgs
             answers == run[r].answers
             n == Len(msgs)
             a == Len(answers)
             last == n - a
             window == Window(r)
             w == Len(window)
  <1>1. msgs \in Seq(Msg) /\ WellPaired(msgs) /\ answers \in Seq(Msg)
    BY Asking, RunFields DEF Inv, NodesOK
  <1>2. /\ last \in DOMAIN msgs /\ Calling(msgs[last])
        /\ \A k \in DOMAIN answers : answers[k] = msgs[last + k] /\ answers[k].role = "tool"
    BY DEF Inv, NodesOK, ActionOK
  <1> HIDE DEF msgs, answers
  <1>3. /\ n \in Nat /\ a \in Nat /\ last \in 1 .. n /\ n - last = a
        /\ DOMAIN msgs = 1 .. n /\ DOMAIN answers = 1 .. a
    BY <1>1, <1>2
  <1> HIDE DEF n, a, last
  <1>4. \A i \in DOMAIN msgs : msgs[i].role # "tool" => i <= last
    <2> SUFFICES ASSUME NEW i \in 1 .. n, i > last PROVE msgs[i].role = "tool"
      BY <1>3
    <2>1. i - last \in 1 .. a /\ last + (i - last) = i
      BY <1>3
    <2> QED BY <1>2, <1>3, <2>1
  <1>5. msgs[last].role # "tool"
    BY <1>2 DEF Calling
  <1>6. /\ window \in Seq(Msg) /\ w >= n - last + 1
        /\ \A k \in 0 .. n - last : window[w - k] = msgs[n - k]
    <2>1. window = trim_messages_token_budget(msgs, Budget)
      BY DEF Window, msgs
    <2> HIDE DEF window
    <2>2. Keeps(window, msgs, last)
      BY <1>1, <1>2, <1>4, <1>5, <2>1, WindowKeeps
    <2> QED BY <2>2 DEF Keeps, n
  <1> HIDE DEF window
  <1>7. w \in Nat /\ w >= a + 1 /\ w - (a + 1) + 1 = w - a /\ w - (a + 1) + 2 = w - a + 1
    BY <1>3, <1>6
  <1> HIDE DEF w
  <1>8. Calling(window[w - a])
    <2>1. a \in 0 .. n - last /\ n - a = last
      BY <1>3
    <2> QED BY <1>2, <1>6, <2>1
  <1> DEFINE shown == SubSeq(window, w - a + 1, w)
  <1>9. /\ shown \in Seq(Msg) /\ Len(shown) = a
        /\ \A k \in 1 .. a : shown[k] = window[w - a + k]
    <2> DEFINE i == w - a + 1
    <2>1. i \in 1 .. Len(window) + 1 /\ w \in i - 1 .. Len(window) /\ w - i + 1 = a
          /\ i - 1 = w - a
      BY <1>3, <1>7 DEF w
    <2> HIDE DEF i
    <2>2. /\ SubSeq(window, i, w) \in Seq(Msg) /\ Len(SubSeq(window, i, w)) = a
          /\ \A k \in 1 .. a : SubSeq(window, i, w)[k] = window[w - a + k]
      BY <1>6, <2>1, Part
    <2> QED BY <2>2 DEF i
  <1> HIDE DEF shown
  <1>10. ASSUME NEW k \in 1 .. a PROVE shown[k] = answers[k]
    <2>1. a - k \in 0 .. n - last /\ w - (a - k) = w - a + k /\ n - (a - k) = last + k
      BY <1>3, <1>7
    <2>2. window[w - a + k] = msgs[last + k]
      BY <1>6, <2>1
    <2> QED BY <1>2, <1>3, <1>9, <2>2
  <1>11. shown = answers
    BY <1>1, <1>9, <1>10, SeqEqual DEF a
  <1>12. /\ Len(window) >= a + 1
         /\ Calling(window[Len(window) - (a + 1) + 1])
         /\ SubSeq(window, Len(window) - (a + 1) + 2, Len(window)) = answers
    BY <1>7, <1>8, <1>11 DEF w, shown
  <1> QED BY <1>12 DEF window, a, answers

-----------------------------------------------------------------------------
(* The theorems                                                             *)

\* Every message stored or held, and every record, is one the code writes.
THEOREM TypeCorrect == Spec => []TypeOK
  <1>1. Inv => TypeOK
    BY DEF Inv, NodesOK
  <1> QED BY <1>1, Always, PTL

\* A run's last prompt is its own, its action node answers its own calls, and
\* what it holds is older than its prompt or was said by itself
\* (agent/agent.py, agent/nodes/action.py), whatever other runs store.
THEOREM InvariantHolds == Spec => []ConvInv
  <1>1. Inv /\ Exchanges => ConvInv
    BY DEF Inv, Exchanges, ConvInv
  <1> QED BY <1>1, Always, AlwaysExchanges, PTL

\* The histories handed to a model are ones its provider accepts
\* (agent/memory/short_term.py), whatever overlaps or is cut short.
THEOREM HistoryWellFormed == Spec => []HistoryPaired
  <1>1. Inv => HistoryPaired
    BY DEF Inv
  <1> QED BY <1>1, Always, PTL

\* A call that a run left in the conversation without all its answers
\* (agent/nodes/action.py) is one of a run that still works on it, ended
\* before its time or overlapped another run.
THEOREM CallsAreAnswered == Spec => []CallsAnswered
  <1>1. Exchanges => CallsAnswered
    BY DEF Exchanges
  <1> QED BY <1>1, AlwaysExchanges, PTL

\* The exchange of a run that no other overlapped stays in the conversation
\* (the checkpoint of agent/agent.py) in one piece until it is cleared.
THEOREM ExchangeIsKept == Spec => []AnsweredKept
  <1>1. Exchanges => AnsweredKept
    BY DEF Exchanges
  <1> QED BY <1>1, AlwaysExchanges, PTL

\* However long the history and the answers of the tools, and whatever the
\* budget of short_term.py: the model that is asked sees the prompt it has to
\* answer, and the one that summarises sees all calls with all their answers.
THEOREM WindowShows == Spec => []WindowServes
  <1>1. Inv /\ Exchanges => WindowServes
    BY PromptShown, AnswersShown DEF WindowServes
  <1> QED BY <1>1, Always, AlwaysExchanges, PTL

\* What a run shows the model (trim_messages_token_budget of short_term.py) is
\* the longest end of its history that fits the budget.
THEOREM WindowIsLongest == Spec => []WindowLongest
  <1>1. ASSUME Inv PROVE WindowLongest
    <2> SUFFICES ASSUME NEW r \in Run, run[r].node \in {"chat", "command", "summarize"}
                 PROVE  Window(r) = LongestFitting(run[r].msgs, Budget)
      BY DEF WindowLongest
    <2> QED BY <1>1, Asking, MsgSized, BudgetAssumption, TrimIsLongest DEF Window
  <1>2. Inv => WindowLongest
    BY <1>1
  <1> QED BY <1>2, Always, PTL

\* What the user cleared (api/websockets.py) does not come back, unless a run
\* under way held it then.
THEOREM ClearedForGood == Spec => []ClearedStaysCleared
  <1>1. Inv => ClearedStaysCleared
    BY DEF Inv
  <1> QED BY <1>1, Always, PTL

\* Each exchange is handed to the long-term memory at most once, with its own
\* prompt (_record_turn of the nodes).
THEOREM TurnsRecordedOnce == Spec => []RecordedOnce
  <1>1. Inv => RecordedOnce
    BY DEF Inv
  <1> QED BY <1>1, Always, PTL

\* No critical tool is called unasked (agent/nodes/action.py), whatever the
\* model replies and whichever manifest replaces the registry meanwhile.
THEOREM NothingCriticalUnasked == Spec => []CriticalAsked
  <1>1. Inv => CriticalAsked
    BY DEF Inv
  <1> QED BY <1>1, Always, PTL
=============================================================================
