--------------------------- MODULE ShortTermMemory ---------------------------
(* The window of a conversation that the language model is shown            *)
(* (agent/memory/short_term.py): messages are grouped into blocks that must *)
(* not be separated, and the newest blocks that fit a budget are kept.      *)
(* A message is a record                                                    *)
(*   role   "human", "ai" or "tool"                                         *)
(*   run    the run of the agent that wrote it                              *)
(*   calls  of an "ai" message: the tool calls it asks for, a sequence      *)
(*   call   of a "tool" message: the number of the call it answers          *)
(*   size   its tokens                                                      *)
(* The id of a tool call is the pair of its run and its number; no system   *)
(* message is ever stored in a history.                                     *)
EXTENDS Integers, SequencesExt

Calling(m) == m.role = "ai" /\ m.calls # <<>>

\* Tool message m carries the id of one of the calls of a.
Answers(m, a) ==
    /\ m.role = "tool" /\ a.role = "ai"
    /\ m.run = a.run /\ m.call \in DOMAIN a.calls

Added(n, m) == n + m.size
Cost(msgs) == FoldLeft(Added, 0, msgs)

-----------------------------------------------------------------------------
(* group_atomic_message_blocks                                              *)

\* Deviation: every message is a block of its own.
Blocks_Single(msgs) == [i \in DOMAIN msgs |-> <<msgs[i]>>]

\* Message m goes to the last block, a call and the answers so far, if it is
\* another of its answers, else it begins a block of its own.
Grouped(blocks, m) ==
    IF blocks # <<>> /\ Answers(m, Last(blocks)[1])
    THEN [blocks EXCEPT ![Len(blocks)] = Append(@, m)]
    ELSE Append(blocks, <<m>>)

Blocks(msgs) == FoldLeft(Grouped, <<>>, msgs)

-----------------------------------------------------------------------------
(* trim_messages_token_budget                                               *)

\* What is kept of the blocks from the end on: the messages, what is left of
\* the budget, and whether all so far were kept.
NoneKept(available) == [msgs |-> <<>>, left |-> available, open |-> TRUE]

\* Deviation: a block that does not fit is skipped, older ones are kept.
Taken_Skips(b, kept) ==
    IF Cost(b) <= kept.left \/ kept.msgs = <<>>
    THEN [kept EXCEPT !.msgs = b \o @, !.left = @ - Cost(b)]
    ELSE kept

\* The newest block is kept in any case, the ones before until the first
\* that does not fit.
Taken(b, kept) ==
    IF kept.open /\ (Cost(b) <= kept.left \/ kept.msgs = <<>>)
    THEN [kept EXCEPT !.msgs = b \o @, !.left = @ - Cost(b)]
    ELSE [kept EXCEPT !.open = FALSE]

Kept(blocks, available) == FoldRight(Taken, blocks, NoneKept(available)).msgs

\* Tool messages that follow neither a call nor another tool message go.
Cleaned(clean, m) ==
    IF m.role = "tool"
       /\ (clean = <<>> \/ ~(Calling(Last(clean)) \/ Last(clean).role = "tool"))
    THEN clean
    ELSE Append(clean, m)

Purged(msgs) == FoldLeft(Cleaned, <<>>, msgs)

trim_messages_token_budget(msgs, budget) ==
    Purged(Kept(Blocks(msgs), IF budget > 1 THEN budget ELSE 1))

-----------------------------------------------------------------------------
(* What the window should be, said without the algorithm.                   *)

\* Every tool message follows the message that calls it and the answers to
\* the calls before.
WellPaired(msgs) ==
    \A j \in DOMAIN msgs : msgs[j].role = "tool" =>
        LET i == j - msgs[j].call
        IN  /\ i >= 1
            /\ Answers(msgs[j], msgs[i])
            /\ \A k \in i+1..j : msgs[k].role = "tool" /\ msgs[k].run = msgs[j].run
                                 /\ msgs[k].call = k - i

\* The longest end of a history that fits the budget and begins with no
\* answer, or the shortest such end if none fits.
LongestFitting(msgs, budget) ==
    LET cuts == {i \in DOMAIN msgs : msgs[i].role # "tool"}
        fits == {i \in cuts : Cost(SubSeq(msgs, i, Len(msgs))) <= budget}
    IN  IF cuts = {} THEN <<>>
        ELSE SubSeq(msgs, IF fits = {} THEN Max(cuts) ELSE Min(fits), Len(msgs))
=============================================================================
