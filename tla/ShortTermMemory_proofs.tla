------------------------ MODULE ShortTermMemory_proofs ------------------------
(* Proofs about the window of short_term.py: for a history in which every   *)
(* answer follows its call, what grouping, keeping and purging compute is   *)
(* the longest end of the history that fits the budget.  Each of the four   *)
(* loops is a fold; Folding gives the induction along it.                   *)
EXTENDS ShortTermMemory, SequenceTheorems, WellFoundedInduction, TLAPS

Costs    == INSTANCE Folding WITH Op <- Added
Grouping == INSTANCE Folding WITH Op <- Grouped
Taking   == INSTANCE Folding WITH Op <- Taken
Cleaning == INSTANCE Folding WITH Op <- Cleaned

LEMMA Upwards ==
    ASSUME NEW S, NEW n \in Nat, 0 \in S, \A k \in 0 .. n - 1 : k \in S => k + 1 \in S
    PROVE  0 .. n \subseteq S
  <1> DEFINE T == {k \in Nat : k <= n => k \in S}
  <1>1. 0 \in T
    OBVIOUS
  <1>2. ASSUME NEW k \in Nat, k \in T PROVE k + 1 \in T
    BY <1>2
  <1>3. Nat \subseteq T
    <2> HIDE DEF T
    <2> QED BY <1>1, <1>2, Costs!Induction
  <1> QED BY <1>3

LEMMA Downwards ==
    ASSUME NEW S, NEW n \in Nat, n + 1 \in S, \A k \in 1 .. n : k + 1 \in S => k \in S
    PROVE  1 .. n + 1 \subseteq S
  <1> DEFINE T == {k \in Nat : n + 1 - k \in S}
  <1>1. 0 \in T
    OBVIOUS
  <1>2. ASSUME NEW k \in 0 .. n - 1, k \in T PROVE k + 1 \in T
    <2>1. n - k \in 1 .. n /\ (n - k) + 1 = n + 1 - k /\ n - k = n + 1 - (k + 1) /\ k + 1 \in Nat
      OBVIOUS
    <2> QED BY <1>2, <2>1
  <1>3. 0 .. n \subseteq T
    <2> HIDE DEF T
    <2> QED BY <1>1, <1>2, Upwards
  <1>4. ASSUME NEW k \in 1 .. n + 1 PROVE k \in S
    <2>1. n + 1 - k \in 0 .. n /\ n + 1 - (n + 1 - k) = k
      OBVIOUS
    <2> QED BY <1>3, <2>1
  <1> QED BY <1>4

\* Every message costs something (MESSAGE_OVERHEAD_TOKENS).
Sized(M) == \A m \in M : m.size \in Nat \ {0} /\ m.call \in Nat

LEMMA SameFolds ==
    ASSUME NEW s, NEW base
    PROVE  /\ Costs!FoldLeft(Added, base, s) = FoldLeft(Added, base, s)
           /\ Grouping!FoldLeft(Grouped, base, s) = FoldLeft(Grouped, base, s)
           /\ Cleaning!FoldLeft(Cleaned, base, s) = FoldLeft(Cleaned, base, s)
           /\ Taking!FoldRight(Taken, s, base) = FoldRight(Taken, s, base)
  <1>1. Costs!FoldLeft(Added, base, s) = FoldLeft(Added, base, s)
    BY Zenon DEF FoldLeft, MapThenFoldSet, Max, Costs!FoldLeft, Costs!MapThenFoldSet, Costs!Max
  <1>2. Grouping!FoldLeft(Grouped, base, s) = FoldLeft(Grouped, base, s)
    BY Zenon DEF FoldLeft, MapThenFoldSet, Max, Grouping!FoldLeft, Grouping!MapThenFoldSet, Grouping!Max
  <1>3. Cleaning!FoldLeft(Cleaned, base, s) = FoldLeft(Cleaned, base, s)
    BY Zenon DEF FoldLeft, MapThenFoldSet, Max, Cleaning!FoldLeft, Cleaning!MapThenFoldSet, Cleaning!Max
  <1>4. Taking!FoldRight(Taken, s, base) = FoldRight(Taken, s, base)
    BY Zenon DEF FoldRight, MapThenFoldSet, Min, Taking!FoldRight, Taking!MapThenFoldSet, Taking!Min
  <1> QED BY <1>1, <1>2, <1>3, <1>4

-----------------------------------------------------------------------------
(* What messages cost                                                       *)

\* P[k] is the cost of the first k messages.
Sums(msgs, P) ==
    /\ P \in [0 .. Len(msgs) -> Nat]
    /\ P[0] = 0
    /\ \A k \in 1 .. Len(msgs) : P[k] = P[k - 1] + msgs[k].size

LEMMA SumsExist ==
    ASSUME NEW M, Sized(M), NEW msgs \in Seq(M)
    PROVE  \E P : Sums(msgs, P) /\ Cost(msgs) = P[Len(msgs)]
  <1>1. PICK P : Costs!LeftRun(0, msgs, P) /\ Costs!FoldLeft(Added, 0, msgs) = P[Len(msgs)]
    BY Costs!FoldsLeft
  <1> DEFINE n == Len(msgs)
  <1>2. n \in Nat /\ DOMAIN P = 0..n /\ P[0] = 0
    BY <1>1 DEF Costs!LeftRun
  <1>3. \A k \in 1..n : P[k] = P[k - 1] + msgs[k].size /\ msgs[k].size \in Nat
    <2>1. \A k \in 1..n : msgs[k] \in M
      OBVIOUS
    <2> QED BY <1>1, <2>1 DEF Costs!LeftRun, Added, Sized
  <1>4. \A k \in 0..n : P[k] \in Nat
    <2> DEFINE S == {k \in 0..n : P[k] \in Nat}
    <2>1. 0 \in S
      BY <1>2
    <2>2. ASSUME NEW k \in 0 .. n - 1, k \in S PROVE k + 1 \in S
      <3>1. k + 1 \in 1..n /\ (k + 1) - 1 = k /\ P[k] \in Nat
        BY <1>2, <2>2
      <3>2. P[k + 1] = P[(k + 1) - 1] + msgs[k + 1].size /\ msgs[k + 1].size \in Nat
        BY <1>3, <3>1
      <3> QED BY <3>1, <3>2
    <2>3. 0 .. n \subseteq S
      <3> HIDE DEF S
      <3> QED BY <1>2, <2>1, <2>2, Upwards
    <2> QED BY <2>3
  <1>5. P \in [0..n -> Nat]
    <2>1. P = [k \in DOMAIN P |-> P[k]]
      BY <1>1 DEF Costs!LeftRun
    <2> QED BY <1>2, <1>4, <2>1
  <1>6. Sums(msgs, P)
    BY <1>2, <1>3, <1>5 DEF Sums
  <1> QED BY <1>1, <1>6, SameFolds DEF Cost

LEMMA Part ==
    ASSUME NEW M, NEW msgs \in Seq(M), NEW i \in 1 .. Len(msgs) + 1, NEW j \in i - 1 .. Len(msgs)
    PROVE  /\ Len(msgs) \in Nat
           /\ SubSeq(msgs, i, j) \in Seq(M) /\ Len(SubSeq(msgs, i, j)) = j - i + 1
           /\ DOMAIN SubSeq(msgs, i, j) = 1 .. j - i + 1
           /\ \A k \in 1 .. j - i + 1 : SubSeq(msgs, i, j)[k] = msgs[i - 1 + k]
  <1>1. i..j \subseteq 1..Len(msgs) /\ Len(msgs) \in Nat /\ i \in Int /\ j \in Int
    OBVIOUS
  <1>2. Len(SubSeq(msgs, i, j)) = j - i + 1
    BY <1>1, SubSeqProperties
  <1> QED BY <1>1, <1>2, SubSeqProperties

\* Two runs over the same sizes differ by where they begin.
LEMMA CostOf ==
    ASSUME NEW M, Sized(M), NEW msgs \in Seq(M), NEW P, Sums(msgs, P),
           NEW i \in 1 .. Len(msgs) + 1, NEW j \in i - 1 .. Len(msgs)
    PROVE  Cost(SubSeq(msgs, i, j)) = P[j] - P[i - 1]
  <1> DEFINE sub == SubSeq(msgs, i, j)
             n == j - i + 1
  <1>1. /\ n \in Nat /\ sub \in Seq(M) /\ Len(sub) = n
        /\ \A k \in 1 .. n : sub[k] = msgs[i - 1 + k] /\ i - 1 + k \in 1 .. Len(msgs)
    <2>1. sub \in Seq(M) /\ Len(sub) = n /\ \A k \in 1 .. n : sub[k] = msgs[i - 1 + k]
      BY Part
    <2>2. Len(msgs) \in Nat
      OBVIOUS
    <2>3. n \in Nat /\ \A k \in 1 .. n : i - 1 + k \in 1 .. Len(msgs)
      BY <2>2
    <2> HIDE DEF sub, n
    <2> QED BY <2>1, <2>3
  <1>2. PICK Q : Sums(sub, Q) /\ Cost(sub) = Q[n]
    <2> HIDE DEF sub, n
    <2> QED BY <1>1, SumsExist
  <1>3. /\ Q[0] = 0 /\ \A k \in 1 .. n : Q[k] = Q[k - 1] + msgs[i - 1 + k].size
        /\ Q \in [0 .. n -> Nat]
    <2> HIDE DEF sub, n
    <2> QED BY <1>1, <1>2 DEF Sums
  <1>4. /\ \A k \in 1 .. Len(msgs) : P[k] = P[k - 1] + msgs[k].size /\ msgs[k].size \in Nat
        /\ P \in [0 .. Len(msgs) -> Nat]
    <2>1. \A k \in 1 .. Len(msgs) : msgs[k] \in M
      OBVIOUS
    <2> QED BY <2>1 DEF Sums, Sized
  <1> DEFINE S == {k \in 0 .. n : Q[k] = P[i - 1 + k] - P[i - 1]}
  <1>5. 0 \in S
    <2>1. i - 1 + 0 = i - 1 /\ i - 1 \in 0 .. Len(msgs) /\ 0 \in 0 .. n
      BY <1>1
    <2>2. P[i - 1 + 0] = P[i - 1] /\ P[i - 1] \in Nat
      <3>1. P[i - 1] \in Nat
        BY <1>4, <2>1
      <3> HIDE DEF n
      <3> QED BY <2>1, <3>1
    <2> QED BY <1>3, <2>1, <2>2
  <1>6. ASSUME NEW k \in 0 .. n - 1, k \in S PROVE k + 1 \in S
    <2>1. k + 1 \in 1 .. n /\ (k + 1) - 1 = k /\ i + k \in 1 .. Len(msgs) /\ i - 1 + (k + 1) = i + k
          /\ (i + k) - 1 = i - 1 + k /\ k \in 0 .. n /\ k + 1 \in 0 .. n
      BY <1>1
    <2>2. Q[k + 1] = Q[k] + msgs[i + k].size
      BY <1>3, <2>1
    <2>3. P[i + k] = P[i - 1 + k] + msgs[i + k].size /\ msgs[i + k].size \in Nat
      BY <1>4, <2>1
    <2>4. P[i - 1 + k] \in Nat /\ P[i - 1] \in Nat /\ Q[k] = P[i - 1 + k] - P[i - 1]
      <3>1. Q[k] = P[i - 1 + k] - P[i - 1]
        BY <1>6
      <3>2. Len(msgs) \in Nat
        OBVIOUS
      <3>3. i - 1 \in 0 .. Len(msgs) /\ i - 1 + k \in 0 .. Len(msgs)
        BY <2>1, <3>2
      <3> HIDE DEF n
      <3> QED BY <1>4, <3>1, <3>3
    <2> HIDE DEF n
    <2> QED BY <2>1, <2>2, <2>3, <2>4
  <1>7. n \in S
    <2>1. 0 .. n \subseteq S
      <3> HIDE DEF S, n
      <3> QED BY <1>1, <1>5, <1>6, Upwards
    <2> QED BY <1>1, <2>1
  <1>8. i - 1 + n = j
    OBVIOUS
  <1> QED BY <1>2, <1>7, <1>8

\* No message is free.
LEMMA SumsGrow ==
    ASSUME NEW M, Sized(M), NEW msgs \in Seq(M), NEW P, Sums(msgs, P),
           NEW a \in 0 .. Len(msgs), NEW b \in a .. Len(msgs)
    PROVE  P[a] \in Nat /\ P[b] \in Nat /\ P[b] - P[a] >= b - a
  <1>1. /\ \A k \in 1 .. Len(msgs) : /\ P[k] = P[k - 1] + msgs[k].size
                                     /\ msgs[k].size \in Nat /\ msgs[k].size >= 1
        /\ P \in [0 .. Len(msgs) -> Nat] /\ Len(msgs) \in Nat
    <2>1. \A k \in 1 .. Len(msgs) : msgs[k] \in M
      OBVIOUS
    <2>2. \A k \in 1 .. Len(msgs) : msgs[k].size \in Nat /\ msgs[k].size >= 1
      BY <2>1 DEF Sized
    <2>3. /\ \A k \in 1 .. Len(msgs) : P[k] = P[k - 1] + msgs[k].size
          /\ P \in [0 .. Len(msgs) -> Nat]
      BY DEF Sums
    <2>4. Len(msgs) \in Nat
      OBVIOUS
    <2> QED BY <2>2, <2>3, <2>4
  <1> DEFINE S == {k \in 0 .. b - a : P[a + k] - P[a] >= k}
  <1>2. 0 \in S
    <2>1. a + 0 = a /\ 0 \in 0 .. b - a
      BY <1>1
    <2>2. P[a] \in Nat
      BY <1>1
    <2>3. P[a + 0] = P[a]
      BY <2>1, Zenon
    <2> QED BY <2>1, <2>2, <2>3
  <1>3. ASSUME NEW k \in 0 .. (b - a) - 1, k \in S PROVE k + 1 \in S
    <2>1. a + k + 1 \in 1 .. Len(msgs) /\ (a + k + 1) - 1 = a + k /\ k + 1 \in 0 .. b - a
          /\ a + k \in 0 .. Len(msgs) /\ a + (k + 1) = a + k + 1
      BY <1>1
    <2>2. P[a + k + 1] = P[a + k] + msgs[a + k + 1].size /\ msgs[a + k + 1].size >= 1
          /\ msgs[a + k + 1].size \in Nat
      BY <1>1, <2>1
    <2>3. P[a + k] \in Nat /\ P[a] \in Nat /\ P[a + k] - P[a] >= k
      BY <1>1, <1>3, <2>1
    <2> QED BY <2>1, <2>2, <2>3, SMTT(30)
  <1>4. b - a \in S
    <2> DEFINE n == b - a
    <2>1. n \in Nat /\ \A k \in 0 .. n - 1 : k \in S => k + 1 \in S
      BY <1>3
    <2>2. 0 .. n \subseteq S
      <3> HIDE DEF S, n
      <3> QED BY <1>2, <2>1, Upwards
    <2> QED BY <2>1, <2>2
  <1> QED BY <1>1, <1>4

-----------------------------------------------------------------------------
(* How messages are grouped                                                 *)

\* The blocks of the first n messages begin at start: each is one message
\* that is no answer and the answers behind it.
BlockOf(msgs, first, next, block) ==
    /\ first < next /\ block = SubSeq(msgs, first, next - 1)
    /\ msgs[first].role # "tool"
    /\ \A k \in first + 1 .. next - 1 : msgs[k].role = "tool"

Split(msgs, n, blocks, start) ==
    /\ Len(blocks) \in Nat /\ DOMAIN blocks = 1 .. Len(blocks)
    /\ start \in [1 .. Len(blocks) + 1 -> 1 .. n + 1]
    /\ start[1] = 1 /\ start[Len(blocks) + 1] = n + 1
    /\ \A j \in 1 .. Len(blocks) : BlockOf(msgs, start[j], start[j + 1], blocks[j])

\* Tool message n+1 answers the message that begins the last block.
LEMMA AnswersLast ==
    ASSUME NEW M, Sized(M), NEW msgs \in Seq(M), WellPaired(msgs),
           NEW n \in 0 .. Len(msgs) - 1, NEW blocks, NEW start, Split(msgs, n, blocks, start),
           msgs[n + 1].role = "tool"
    PROVE  /\ blocks # <<>> /\ Answers(msgs[n + 1], Last(blocks)[1])
           /\ start[Len(blocks)] \in 1 .. n
  <1> DEFINE m == Len(blocks)
             i == n + 1 - msgs[n + 1].call
  <1>1. n + 1 \in DOMAIN msgs /\ msgs[n + 1].call \in Nat
    BY DEF Sized
  <1>2. i >= 1 /\ Answers(msgs[n + 1], msgs[i]) /\ \A k \in i + 1 .. n + 1 : msgs[k].role = "tool"
    BY <1>1 DEF WellPaired
  <1>3. i \in Int /\ i <= n
    <2>1. i # n + 1
      BY <1>2 DEF Answers
    <2> QED BY <1>1, <2>1
  <1>4. m \in Nat /\ m # 0
    <2>1. m \in Nat /\ start[1] = 1 /\ start[m + 1] = n + 1
      BY DEF Split
    <2>2. n # 0
      BY <1>2, <1>3
    <2>3. m = 0 => n + 1 = 1
      <3>1. m = 0 => m + 1 = 1
        OBVIOUS
      <3> HIDE DEF m
      <3> QED BY <2>1, <3>1
    <2> QED BY <2>1, <2>2, <2>3
  <1> DEFINE last == start[m]
  <1>5. /\ last \in 1 .. n + 1 /\ last < n + 1 /\ blocks[m] = SubSeq(msgs, last, n)
        /\ msgs[last].role # "tool" /\ \A k \in last + 1 .. n : msgs[k].role = "tool"
    <2>1. m \in 1 .. m /\ m \in 1 .. m + 1
      BY <1>4
    <2>2. last \in 1 .. n + 1 /\ start[m + 1] = n + 1 /\ BlockOf(msgs, last, start[m + 1], blocks[m])
      BY <2>1 DEF Split
    <2>3. (n + 1) - 1 = n
      OBVIOUS
    <2> HIDE DEF last
    <2> QED BY <2>2, <2>3 DEF BlockOf
  <1>6. last = i
    <2>1. last \notin i + 1 .. n + 1
      BY <1>2, <1>5
    <2>2. i \notin last + 1 .. n
      BY <1>2, <1>5 DEF Answers
    <2> HIDE DEF last, i
    <2> QED BY <1>2, <1>3, <1>5, <2>1, <2>2
  <1>7. blocks[m][1] = msgs[last]
    <2>1. last \in 1 .. Len(msgs) + 1 /\ n \in last - 1 .. Len(msgs) /\ 1 \in 1 .. n - last + 1
          /\ last - 1 + 1 = last
      BY <1>5
    <2> HIDE DEF last, m
    <2> QED BY <1>5, <2>1, Part
  <1>8. blocks # <<>> /\ Last(blocks) = blocks[m]
    BY <1>4 DEF Last
  <1> QED BY <1>2, <1>5, <1>6, <1>7, <1>8

LEMMA SplitMore ==
    ASSUME NEW M, Sized(M), NEW msgs \in Seq(M), WellPaired(msgs),
           NEW n \in 0 .. Len(msgs) - 1, NEW blocks, NEW start, Split(msgs, n, blocks, start),
           blocks \in Seq(Seq(M))
    PROVE  /\ Grouped(blocks, msgs[n + 1]) \in Seq(Seq(M))
           /\ \E s : Split(msgs, n + 1, Grouped(blocks, msgs[n + 1]), s)
  <1> DEFINE m == Len(blocks)
             msg == msgs[n + 1]
             more == Grouped(blocks, msg)
  <1>1. /\ m \in Nat /\ DOMAIN blocks = 1 .. m /\ start \in [1 .. m + 1 -> 1 .. n + 1]
        /\ start[1] = 1 /\ start[m + 1] = n + 1
        /\ \A j \in 1 .. m : BlockOf(msgs, start[j], start[j + 1], blocks[j])
    BY DEF Split
  <1>2. n \in Nat /\ n + 1 \in 1 .. Len(msgs) /\ msg \in M
    OBVIOUS
  <1>3. CASE msg.role = "tool"
    <2> DEFINE block == Append(blocks[m], msg)
               s == [start EXCEPT ![m + 1] = n + 2]
    <2>1. /\ blocks # <<>> /\ Answers(msg, Last(blocks)[1]) /\ start[m] \in 1 .. n
      BY <1>3, AnswersLast
    <2>2. more = [blocks EXCEPT ![m] = block]
      BY <2>1 DEF Grouped
    <2>3. m >= 1 /\ m \in 1 .. m
      BY <1>1, <2>1
    <2>4. BlockOf(msgs, start[m], n + 1, blocks[m])
      BY <1>1, <2>3
    <2>5. blocks[m] \in Seq(M) /\ block \in Seq(M)
      BY <1>1, <1>2, <2>3
    <2>6. more \in Seq(Seq(M)) /\ Len(more) = m /\ DOMAIN more = 1 .. m
          /\ more[m] = block /\ \A j \in 1 .. m : j # m => more[j] = blocks[j]
      <3> HIDE DEF block, more
      <3> QED BY <1>1, <2>2, <2>3, <2>5
    <2>7. /\ s \in [1 .. m + 1 -> 1 .. (n + 1) + 1] /\ s[m + 1] = (n + 1) + 1
          /\ \A j \in 1 .. m : s[j] = start[j]
      <3>1. m + 1 \in 1 .. m + 1 /\ n + 2 \in 1 .. (n + 1) + 1 /\ n + 2 = (n + 1) + 1
            /\ 1 .. n + 1 \subseteq 1 .. (n + 1) + 1 /\ \A j \in 1 .. m : j \in 1 .. m + 1 /\ j # m + 1
        BY <1>1, <1>2
      <3> HIDE DEF m
      <3> QED BY <1>1, <3>1
    <2>8. BlockOf(msgs, start[m], n + 2, block)
      <3> DEFINE f == start[m]
      <3>1. f \in 1 .. n /\ f < n + 2 /\ (n + 2) - 1 = n + 1 /\ (n + 1) - 1 = n
        BY <2>1
      <3>2. /\ blocks[m] = SubSeq(msgs, f, n) /\ msgs[f].role # "tool"
            /\ \A k \in f + 1 .. n : msgs[k].role = "tool"
        BY <2>4, <3>1 DEF BlockOf
      <3>3. \A k \in f + 1 .. n + 1 : msgs[k].role = "tool"
        <4>1. \A k \in f + 1 .. n + 1 : k \in f + 1 .. n \/ k = n + 1
          BY <3>1
        <4> QED BY <1>3, <3>2, <4>1
      <3>4. block = SubSeq(msgs, f, n + 1)
        <4>1. /\ SubSeq(msgs, f, n) \in Seq(M) /\ Len(SubSeq(msgs, f, n)) = n - f + 1
              /\ \A k \in 1 .. n - f + 1 : SubSeq(msgs, f, n)[k] = msgs[f - 1 + k]
          BY <1>2, <3>1, Part
        <4>2. /\ SubSeq(msgs, f, n + 1) \in Seq(M) /\ Len(SubSeq(msgs, f, n + 1)) = n + 1 - f + 1
              /\ \A k \in 1 .. n + 1 - f + 1 : SubSeq(msgs, f, n + 1)[k] = msgs[f - 1 + k]
          <5> DEFINE e == n + 1
          <5>1. f \in 1 .. Len(msgs) + 1 /\ e \in f - 1 .. Len(msgs)
            BY <1>2, <3>1
          <5> HIDE DEF e, f
          <5>2. /\ SubSeq(msgs, f, e) \in Seq(M) /\ Len(SubSeq(msgs, f, e)) = e - f + 1
                /\ \A k \in 1 .. e - f + 1 : SubSeq(msgs, f, e)[k] = msgs[f - 1 + k]
            BY <5>1, Part
          <5> QED BY <5>2 DEF e
        <4>3. block = Append(SubSeq(msgs, f, n), msg)
          BY <3>2
        <4>4. Len(block) = n + 1 - f + 1 /\ block[n - f + 2] = msg
              /\ \A k \in 1 .. n - f + 1 : block[k] = SubSeq(msgs, f, n)[k]
          <5> DEFINE sub == SubSeq(msgs, f, n)
          <5> HIDE DEF sub, block, f, msg
          <5> QED BY <3>1, <4>1, <4>3 DEF sub
        <4>5. \A k \in 1 .. n + 1 - f + 1 : block[k] = SubSeq(msgs, f, n + 1)[k]
          <5> SUFFICES ASSUME NEW k \in 1 .. n + 1 - f + 1
                       PROVE  block[k] = SubSeq(msgs, f, n + 1)[k]
            OBVIOUS
          <5>1. CASE k \in 1 .. n - f + 1
            <6> HIDE DEF block, f
            <6> QED BY <4>1, <4>2, <4>4, <5>1
          <5>2. CASE k = n - f + 2
            <6>1. f - 1 + k = n + 1
              BY <3>1, <5>2
            <6> HIDE DEF block, f
            <6> QED BY <4>2, <4>4, <5>2, <6>1
          <5>3. k \in 1 .. n - f + 1 \/ k = n - f + 2
            <6>1. n - f + 1 \in Int /\ n + 1 - f + 1 = (n - f + 1) + 1 /\ n - f + 2 = (n - f + 1) + 1
              BY <1>2, <3>1
            <6> DEFINE g == n - f + 1
            <6> HIDE DEF f, g
            <6>2. k \in Int /\ g \in Int /\ 1 <= k /\ k <= g + 1
              BY <6>1 DEF g
            <6>3. k \in 1 .. g \/ k = g + 1
              BY <6>2
            <6> QED BY <6>1, <6>3 DEF g
          <5> QED BY <5>1, <5>2, <5>3
        <4>6. block \in Seq(M)
          BY <2>5
        <4> HIDE DEF block, f
        <4> QED BY <4>2, <4>4, <4>5, <4>6, SeqEqual
      <3> HIDE DEF block, f
      <3> QED BY <3>1, <3>2, <3>3, <3>4 DEF BlockOf, f
    <2>9. ASSUME NEW j \in 1 .. m PROVE BlockOf(msgs, s[j], s[j + 1], more[j])
      <3>1. CASE j = m
        <4>1. s[j] = start[m] /\ s[j + 1] = n + 2 /\ more[j] = block
          BY <2>6, <2>7, <3>1
        <4> HIDE DEF block, s, more
        <4> QED BY <2>8, <4>1
      <3>2. CASE j # m
        <4>1. j + 1 \in 1 .. m /\ s[j] = start[j] /\ s[j + 1] = start[j + 1] /\ more[j] = blocks[j]
          <5>1. j + 1 \in 1 .. m
            <6> HIDE DEF m
            <6> QED BY <1>1, <3>2
          <5> HIDE DEF s, more
          <5> QED BY <2>6, <2>7, <3>2, <5>1, Zenon
        <4> HIDE DEF s, more
        <4> QED BY <1>1, <4>1
      <3> QED BY <3>1, <3>2
    <2>10. s[1] = 1
      BY <1>1, <2>3, <2>7, SMTT(30)
    <2>11. Split(msgs, n + 1, more, s)
      <3> HIDE DEF s, more, block
      <3> QED BY <1>1, <2>6, <2>7, <2>9, <2>10 DEF Split
    <2> HIDE DEF s
    <2> QED BY <2>6, <2>11
  <1>4. CASE msg.role # "tool"
    <2> DEFINE s == [j \in 1 .. m + 2 |-> IF j = m + 2 THEN n + 2 ELSE start[j]]
               block == <<msg>>
    <2>1. more = Append(blocks, block)
      BY <1>4 DEF Grouped, Answers
    <2>2. block \in Seq(M)
      BY <1>2
    <2>3. /\ more \in Seq(Seq(M)) /\ Len(more) = m + 1 /\ DOMAIN more = 1 .. m + 1
          /\ more[m + 1] = block /\ \A j \in 1 .. m : more[j] = blocks[j]
      <3> HIDE DEF block, more
      <3> QED BY <1>1, <2>1, <2>2
    <2>4. /\ s \in [1 .. (m + 1) + 1 -> 1 .. (n + 1) + 1] /\ s[(m + 1) + 1] = (n + 1) + 1
          /\ \A j \in 1 .. m + 1 : s[j] = start[j]
      <3>1. /\ m + 2 = (m + 1) + 1 /\ n + 2 = (n + 1) + 1 /\ n + 2 \in 1 .. (n + 1) + 1
            /\ 1 .. n + 1 \subseteq 1 .. (n + 1) + 1
            /\ \A j \in 1 .. m + 1 : j # m + 2 /\ j \in 1 .. m + 2
            /\ \A j \in 1 .. m + 2 : j # m + 2 => j \in 1 .. m + 1
            /\ m + 2 \in 1 .. m + 2
        BY <1>1, <1>2
      <3> HIDE DEF m
      <3> QED BY <1>1, <3>1
    <2>5. BlockOf(msgs, n + 1, n + 2, block)
      <3>1. n + 1 < n + 2 /\ (n + 2) - 1 = n + 1 /\ (n + 1) + 1 .. n + 1 = {}
        BY <1>2
      <3>2. SubSeq(msgs, n + 1, n + 1) = block
        <4>1. /\ SubSeq(msgs, n + 1, n + 1) \in Seq(M) /\ Len(SubSeq(msgs, n + 1, n + 1)) = 1
              /\ SubSeq(msgs, n + 1, n + 1)[1] = msgs[n + 1]
          <5>1. n + 1 \in 1 .. Len(msgs) + 1 /\ n + 1 \in (n + 1) - 1 .. Len(msgs)
                /\ (n + 1) - (n + 1) + 1 = 1 /\ 1 \in 1 .. 1 /\ (n + 1) - 1 + 1 = n + 1
            BY <1>2
          <5>2. /\ SubSeq(msgs, n + 1, n + 1) \in Seq(M)
                /\ Len(SubSeq(msgs, n + 1, n + 1)) = (n + 1) - (n + 1) + 1
                /\ \A k \in 1 .. (n + 1) - (n + 1) + 1 :
                      SubSeq(msgs, n + 1, n + 1)[k] = msgs[(n + 1) - 1 + k]
            BY <5>1, Part
          <5> QED BY <5>1, <5>2
        <4>2. Len(block) = 1 /\ block[1] = msgs[n + 1] /\ block \in Seq(M)
          BY <2>2
        <4>3. \A k \in 1 .. 1 : SubSeq(msgs, n + 1, n + 1)[k] = block[k]
          <5>1. \A k \in 1 .. 1 : k = 1
            OBVIOUS
          <5> HIDE DEF block
          <5> QED BY <4>1, <4>2, <5>1
        <4> HIDE DEF block
        <4> QED BY <4>1, <4>2, <4>3, SeqEqual
      <3> QED BY <1>4, <3>1, <3>2 DEF BlockOf
    <2>6. ASSUME NEW j \in 1 .. m + 1 PROVE BlockOf(msgs, s[j], s[j + 1], more[j])
      <3>1. CASE j = m + 1
        <4>1. s[j] = n + 1 /\ s[j + 1] = n + 2 /\ more[j] = block
          <5>1. (n + 1) + 1 = n + 2 /\ m + 1 \in 1 .. m + 1
            BY <1>1
          <5> HIDE DEF s, more, block, m
          <5> QED BY <1>1, <2>3, <2>4, <3>1, <5>1
        <4> HIDE DEF block, s, more
        <4> QED BY <2>5, <4>1
      <3>2. CASE j # m + 1
        <4>1. j \in 1 .. m /\ j + 1 \in 1 .. m + 1
          BY <1>1, <3>2
        <4> HIDE DEF s, more
        <4> QED BY <1>1, <2>3, <2>4, <4>1
      <3> QED BY <3>1, <3>2
    <2>7. s[1] = 1
      <3>1. 1 \in 1 .. m + 1
        BY <1>1
      <3> HIDE DEF s
      <3> QED BY <1>1, <2>4, <3>1
    <2>8. Split(msgs, n + 1, more, s)
      <3> HIDE DEF s, more, block
      <3> QED BY <1>1, <2>3, <2>4, <2>6, <2>7 DEF Split
    <2> HIDE DEF s
    <2> QED BY <2>3, <2>8
  <1> QED BY <1>3, <1>4

\* Grouping splits a well formed history at its messages that are no answers.
LEMMA BlocksSplit ==
    ASSUME NEW M, Sized(M), NEW msgs \in Seq(M), WellPaired(msgs)
    PROVE  /\ Blocks(msgs) \in Seq(Seq(M))
           /\ \E start : Split(msgs, Len(msgs), Blocks(msgs), start)
  <1> DEFINE n == Len(msgs)
  <1>1. PICK acc : /\ Grouping!LeftRun(<<>>, msgs, acc)
                   /\ Grouping!FoldLeft(Grouped, <<>>, msgs) = acc[n]
    BY Grouping!FoldsLeft
  <1>2. /\ n \in Nat /\ acc[0] = <<>>
        /\ \A k \in 1 .. n : acc[k] = Grouped(acc[k - 1], msgs[k])
    BY <1>1 DEF Grouping!LeftRun
  <1>3. Blocks(msgs) = acc[n]
    BY <1>1, SameFolds DEF Blocks
  <1> DEFINE S == {k \in 0 .. n : /\ acc[k] \in Seq(Seq(M))
                                  /\ \E start : Split(msgs, k, acc[k], start)}
  <1>4. 0 \in S
    <2> DEFINE none == <<>>
               start == [j \in 1 .. 0 + 1 |-> 1]
    <2>1. none \in Seq(Seq(M)) /\ Len(none) = 0 /\ DOMAIN none = 1 .. 0 /\ 1 .. 0 = {} /\ 0 + 1 = 1
      OBVIOUS
    <2>2. start \in [1 .. 0 + 1 -> 1 .. 0 + 1] /\ start[1] = 1
      OBVIOUS
    <2>3. Split(msgs, 0, none, start)
      <3> HIDE DEF none, start
      <3> QED BY <2>1, <2>2 DEF Split
    <2>4. \E f : Split(msgs, 0, none, f)
      <3> HIDE DEF start, none
      <3> QED BY <2>3
    <2>5. 0 \in 0 .. n
      BY <1>2
    <2>6. acc[0] = none
      BY <1>2
    <2> HIDE DEF none, n
    <2> QED BY <2>1, <2>4, <2>5, <2>6
  <1>5. ASSUME NEW k \in 0 .. n - 1, k \in S PROVE k + 1 \in S
    <2>1. PICK start : Split(msgs, k, acc[k], start) /\ acc[k] \in Seq(Seq(M))
      BY <1>5
    <2>2. acc[k + 1] = Grouped(acc[k], msgs[k + 1]) /\ k + 1 \in 0 .. n
      <3>1. k + 1 \in 1 .. n /\ (k + 1) - 1 = k
        BY <1>2
      <3> QED BY <1>2, <3>1
    <2>3. /\ Grouped(acc[k], msgs[k + 1]) \in Seq(Seq(M))
          /\ \E s : Split(msgs, k + 1, Grouped(acc[k], msgs[k + 1]), s)
      BY <2>1, SplitMore
    <2> QED BY <2>2, <2>3
  <1>6. n \in S
    <2>1. 0 .. n \subseteq S
      <3> HIDE DEF S, n
      <3> QED BY <1>2, <1>4, <1>5, Upwards
    <2> QED BY <1>2, <2>1
  <1> QED BY <1>3, <1>6

\* Later blocks begin later.
LEMMA StartsGrow ==
    ASSUME NEW msgs, NEW n \in Nat, NEW blocks, NEW start, Split(msgs, n, blocks, start),
           NEW a \in 1 .. Len(blocks) + 1, NEW b \in 1 .. Len(blocks) + 1, a < b
    PROVE  start[a] < start[b]
  <1> DEFINE m == Len(blocks)
  <1>1. /\ m \in Nat /\ start \in [1 .. m + 1 -> 1 .. n + 1]
        /\ \A j \in 1 .. m : start[j] < start[j + 1]
    BY DEF Split, BlockOf
  <1> HIDE DEF m
  <1>2. a \in 1 .. m /\ b - a - 1 \in Nat /\ \A k \in 0 .. b - a - 1 : a + 1 + k \in 1 .. m + 1
    BY <1>1 DEF m
  <1> DEFINE S == {k \in 0 .. b - a - 1 : start[a] < start[a + 1 + k]}
  <1>3. 0 \in S
    <2>1. a + 1 + 0 = a + 1 /\ 0 \in 0 .. b - a - 1
      BY <1>2
    <2>2. start[a] < start[a + 1]
      BY <1>1, <1>2
    <2> QED BY <2>1, <2>2
  <1>4. ASSUME NEW k \in 0 .. (b - a - 1) - 1, k \in S PROVE k + 1 \in S
    <2>1. /\ k \in 0 .. b - a - 1 /\ k + 1 \in 0 .. b - a - 1
          /\ a + 1 + k \in 1 .. m /\ (a + 1 + k) + 1 = a + 1 + (k + 1)
          /\ a \in 1 .. m + 1 /\ a + 1 + k \in 1 .. m + 1 /\ a + 1 + (k + 1) \in 1 .. m + 1
      BY <1>1, <1>2 DEF m
    <2>2. start[a + 1 + k] < start[a + 1 + (k + 1)] /\ start[a] < start[a + 1 + k]
      BY <1>1, <1>4, <2>1
    <2>3. start[a] \in Int /\ start[a + 1 + k] \in Int /\ start[a + 1 + (k + 1)] \in Int
      BY <1>1, <2>1
    <2> QED BY <2>1, <2>2, <2>3
  <1>5. b - a - 1 \in S
    <2> DEFINE l == b - a - 1
    <2> HIDE DEF S
    <2>1. l \in Nat
      BY <1>2
    <2>2. \A k \in 0 .. l - 1 : k \in S => k + 1 \in S
      BY <1>4
    <2> HIDE DEF l
    <2>3. l \in S
      <3>1. 0 .. l \subseteq S
        BY <1>3, <2>1, <2>2, Upwards
      <3> QED BY <2>1, <3>1
    <2> QED BY <2>3 DEF l
  <1>6. a + 1 + (b - a - 1) = b
    BY <1>1 DEF m
  <1> QED BY <1>5, <1>6

\* The messages that are no answers are those that begin a block.
LEMMA StartsAre ==
    ASSUME NEW M, NEW msgs \in Seq(M), NEW blocks, NEW start,
           Split(msgs, Len(msgs), blocks, start)
    PROVE  {i \in DOMAIN msgs : msgs[i].role # "tool"} = {start[j] : j \in 1 .. Len(blocks)}
  <1> DEFINE n == Len(msgs)
             m == Len(blocks)
  <1>1. /\ n \in Nat /\ DOMAIN msgs = 1 .. n /\ m \in Nat
        /\ start \in [1 .. m + 1 -> 1 .. n + 1] /\ start[1] = 1 /\ start[m + 1] = n + 1
        /\ \A j \in 1 .. m : BlockOf(msgs, start[j], start[j + 1], blocks[j])
    BY DEF Split
  <1> HIDE DEF n, m
  <1>2. ASSUME NEW j \in 1 .. m PROVE start[j] \in 1 .. n /\ msgs[start[j]].role # "tool"
    <2>1. BlockOf(msgs, start[j], start[j + 1], blocks[j]) /\ j \in 1 .. m + 1 /\ j + 1 \in 1 .. m + 1
      BY <1>1
    <2>2. start[j] \in 1 .. n + 1 /\ start[j + 1] \in 1 .. n + 1 /\ start[j] < start[j + 1]
      BY <1>1, <2>1 DEF BlockOf
    <2> QED BY <1>1, <2>1, <2>2 DEF BlockOf
  <1>3. ASSUME NEW i \in 1 .. n, msgs[i].role # "tool", \A j \in 1 .. m : start[j] # i
        PROVE  FALSE
    <2> DEFINE S == {j \in 0 .. m : start[j + 1] < i}
    <2>1. 0 \in S
      <3>1. 0 + 1 = 1 /\ 0 \in 0 .. m
        BY <1>1
      <3>2. i # 1
        <4>1. m # 0
          <5> SUFFICES ASSUME m = 0 PROVE FALSE
            OBVIOUS
          <5>1. m + 1 = 1
            OBVIOUS
          <5> QED BY <1>1, <5>1
        <4> QED BY <1>1, <1>3, <4>1
      <3>3. start[0 + 1] = 1
        BY <1>1, <3>1
      <3>4. 1 < i
        BY <3>2
      <3> QED BY <3>1, <3>3, <3>4
    <2>2. ASSUME NEW j \in 0 .. m - 1, j \in S PROVE j + 1 \in S
      <3>1. j + 1 \in 1 .. m /\ j + 1 \in 0 .. m /\ j + 1 \in 1 .. m + 1 /\ (j + 1) + 1 \in 1 .. m + 1
        BY <1>1
      <3> DEFINE f == start[j + 1]
                 l == start[(j + 1) + 1]
      <3>2. BlockOf(msgs, f, l, blocks[j + 1]) /\ f \in 1 .. n + 1 /\ l \in 1 .. n + 1
        BY <1>1, <3>1
      <3>3. f < i
        BY <2>2
      <3>4. i \notin f + 1 .. l - 1
        BY <1>3, <3>2 DEF BlockOf
      <3>5. l <= i
        <4> HIDE DEF f, l
        <4> QED BY <3>2, <3>3, <3>4
      <3>6. l # i
        <4>1. CASE j + 1 = m
          BY <1>1, <4>1
        <4>2. CASE j + 1 # m
          <5>1. (j + 1) + 1 \in 1 .. m
            BY <1>1, <4>2
          <5> QED BY <1>3, <5>1
        <4> QED BY <4>1, <4>2
      <3>7. l < i
        <4> HIDE DEF l
        <4> QED BY <3>2, <3>5, <3>6
      <3> QED BY <3>1, <3>7
    <2>3. m \in S
      <3>1. 0 .. m \subseteq S
        <4> HIDE DEF S
        <4> QED BY <1>1, <2>1, <2>2, Upwards
      <3> QED BY <1>1, <3>1
    <2> QED BY <1>1, <2>3
  <1> DEFINE cuts == {i \in 1 .. n : msgs[i].role # "tool"}
             starts == {start[j] : j \in 1 .. m}
  <1>4. cuts \subseteq starts
    BY <1>3
  <1>5. starts \subseteq cuts
    BY <1>2
  <1>6. cuts = starts
    <2> HIDE DEF cuts, starts
    <2> QED BY <1>4, <1>5
  <1>7. DOMAIN msgs = 1 .. n
    BY <1>1
  <1> QED BY <1>6, <1>7 DEF m

-----------------------------------------------------------------------------
(* Which blocks are kept                                                    *)

\* What is kept of the blocks from j on, if block t is the first kept.
KeptFrom(msgs, start, P, available, m, j, t, kept) ==
    /\ t \in j .. m + 1 /\ (j <= m => t <= m)
    /\ DOMAIN kept = {"msgs", "left", "open"}
    /\ kept.msgs = SubSeq(msgs, start[t], Len(msgs))
    /\ kept.left = available - (P[Len(msgs)] - P[start[t] - 1])
    /\ kept.open <=> t = j
    /\ t < m => P[Len(msgs)] - P[start[t] - 1] <= available
    /\ t # j => P[Len(msgs)] - P[start[t - 1] - 1] > available

LEMMA TakenIs ==
    ASSUME NEW b, NEW kept, DOMAIN kept = {"msgs", "left", "open"}
    PROVE  LET takes == kept.open /\ (Cost(b) <= kept.left \/ kept.msgs = <<>>)
               new   == Taken(b, kept)
           IN  /\ DOMAIN new = {"msgs", "left", "open"}
               /\ takes => new.msgs = b \o kept.msgs /\ new.left = kept.left - Cost(b) /\ new.open
               /\ ~takes => new.msgs = kept.msgs /\ new.left = kept.left /\ new.open = FALSE
  <1> DEFINE takes == kept.open /\ (Cost(b) <= kept.left \/ kept.msgs = <<>>)
             msgs == b \o kept.msgs
             left == kept.left - Cost(b)
             taken == [kept EXCEPT !.msgs = msgs, !.left = left]
             closed == [kept EXCEPT !.open = FALSE]
  <1>1. /\ takes => Taken(b, kept) = taken
        /\ ~takes => Taken(b, kept) = closed
    BY Zenon DEF Taken
  <1> HIDE DEF takes, msgs, left
  <1>2. /\ DOMAIN taken = {"msgs", "left", "open"}
        /\ taken.msgs = msgs /\ taken.left = left /\ taken.open = kept.open
    OBVIOUS
  <1>3. /\ DOMAIN closed = {"msgs", "left", "open"}
        /\ closed.msgs = kept.msgs /\ closed.left = kept.left /\ closed.open = FALSE
    OBVIOUS
  <1> HIDE DEF taken, closed
  <1>4. CASE takes
    BY <1>1, <1>2, <1>4, Zenon DEF takes, msgs, left
  <1>5. CASE ~takes
    BY <1>1, <1>3, <1>5, Zenon DEF takes
  <1> QED BY <1>4, <1>5

LEMMA Borders ==
    ASSUME NEW n \in Nat, NEW f \in 1 .. n, NEW l \in f + 1 .. n + 1
    PROVE  /\ f \in 1 .. n + 1 /\ l - 1 \in f - 1 .. n /\ f - 1 \in 0 .. n
           /\ l - 1 \in 0 .. n /\ n \in 0 .. n
  OBVIOUS

LEMMA KeptMore ==
    ASSUME NEW M, Sized(M), NEW msgs \in Seq(M), NEW P, Sums(msgs, P),
           NEW blocks, NEW start, Split(msgs, Len(msgs), blocks, start), NEW available \in Int,
           NEW j \in 1 .. Len(blocks), NEW t, NEW kept,
           KeptFrom(msgs, start, P, available, Len(blocks), j + 1, t, kept)
    PROVE  \E u : KeptFrom(msgs, start, P, available, Len(blocks), j, u, Taken(blocks[j], kept))
  <1> DEFINE n == Len(msgs)
             m == Len(blocks)
             b == blocks[j]
             C(i) == P[n] - P[start[i] - 1]
  <1>1. /\ n \in Nat /\ m \in Nat /\ start \in [1 .. m + 1 -> 1 .. n + 1] /\ start[m + 1] = n + 1
        /\ \A i \in 1 .. m : BlockOf(msgs, start[i], start[i + 1], blocks[i])
    <2>1. n \in Nat
      OBVIOUS
    <2> HIDE DEF n, m
    <2> QED BY <2>1 DEF Split, n, m
  <1>2. \A i \in 1 .. m + 1 : C(i) \in Int /\ start[i] \in 1 .. n + 1
    <2> SUFFICES ASSUME NEW i \in 1 .. m + 1 PROVE C(i) \in Int /\ start[i] \in 1 .. n + 1
      OBVIOUS
    <2>1. start[i] \in 1 .. n + 1 /\ start[i] - 1 \in 0 .. n /\ n \in 0 .. n
      <3> HIDE DEF n, m
      <3> QED BY <1>1
    <2>2. P[n] \in Nat /\ P[start[i] - 1] \in Nat
      BY <2>1 DEF Sums
    <2> QED BY <2>1, <2>2, SMTT(30)
  <1>3. /\ t \in j + 1 .. m + 1 /\ (j + 1 <= m => t <= m)
        /\ DOMAIN kept = {"msgs", "left", "open"}
        /\ kept.msgs = SubSeq(msgs, start[t], n) /\ kept.left = available - C(t)
        /\ kept.open <=> t = j + 1
        /\ t < m => C(t) <= available
        /\ t # j + 1 => C(t - 1) > available
    BY DEF KeptFrom
  <1>4. j \in 1 .. m /\ j \in 1 .. m + 1 /\ j + 1 \in 1 .. m + 1 /\ t \in 1 .. m + 1
    BY <1>1, <1>3
  <1>5. CASE t = j + 1 /\ (Cost(b) <= kept.left \/ kept.msgs = <<>>)
    <2> DEFINE f == start[j]
               l == start[j + 1]
    <2>1. f \in 1 .. n /\ l \in f + 1 .. n + 1 /\ b = SubSeq(msgs, f, l - 1)
      <3>1. BlockOf(msgs, f, l, b) /\ f \in 1 .. n + 1 /\ l \in 1 .. n + 1
        BY <1>1, <1>2, <1>4
      <3> HIDE DEF f, l, b
      <3> QED BY <1>1, <3>1 DEF BlockOf
    <2>2. Cost(b) = P[l - 1] - P[f - 1] /\ P[l - 1] \in Nat /\ P[f - 1] \in Nat /\ P[n] \in Nat
      <3>1. f \in 1 .. n + 1 /\ l - 1 \in f - 1 .. n /\ f - 1 \in 0 .. n /\ l - 1 \in 0 .. n /\ n \in 0 .. n
        <4> HIDE DEF f, l, n
        <4> QED BY <1>1, <2>1, Borders
      <3>2. Cost(SubSeq(msgs, f, l - 1)) = P[l - 1] - P[f - 1]
        BY <3>1, CostOf
      <3>3. P[l - 1] \in Nat /\ P[f - 1] \in Nat /\ P[n] \in Nat
        BY <3>1 DEF Sums
      <3> QED BY <2>1, <3>2, <3>3
    <2>3. b \o SubSeq(msgs, l, n) = SubSeq(msgs, f, n)
      <3>1. (l - 1) + 1 = l /\ f \in 1 .. n + 1 /\ l - 1 \in f - 1 .. n
        BY <1>1, <2>1, SMTT(30)
      <3>2. SubSeq(msgs, f, l - 1) \o SubSeq(msgs, (l - 1) + 1, n) = SubSeq(msgs, f, n)
        <4> DEFINE k == l - 1
        <4>1. f \in 1 .. Len(msgs) + 1 /\ k \in f - 1 .. Len(msgs) /\ n \in k .. Len(msgs)
          BY <1>1, <3>1
        <4> HIDE DEF k, f, b, n
        <4>2. SubSeq(msgs, f, k) \o SubSeq(msgs, k + 1, n) = SubSeq(msgs, f, n)
          BY <4>1, ConcatAdjacentSubSeq
        <4> QED BY <4>2 DEF k
      <3> QED BY <2>1, <3>1, <3>2
    <2>4. /\ kept.open /\ kept.left = available - (P[n] - P[l - 1])
          /\ kept.msgs = SubSeq(msgs, l, n)
      BY <1>3, <1>5
    <2>5. LET new == Taken(b, kept)
          IN  /\ DOMAIN new = {"msgs", "left", "open"} /\ new.msgs = b \o kept.msgs
              /\ new.left = kept.left - Cost(b) /\ new.open
      <3>1. kept.open /\ (Cost(b) <= kept.left \/ kept.msgs = <<>>)
        BY <1>5, <2>4
      <3>2. DOMAIN kept = {"msgs", "left", "open"}
        BY <1>3
      <3> HIDE DEF b, n, m, f, l, C
      <3> QED BY <3>1, <3>2, TakenIs, Zenon
    <2>6. LET new == Taken(b, kept)
          IN  /\ DOMAIN new = {"msgs", "left", "open"} /\ new.msgs = SubSeq(msgs, f, n)
              /\ new.left = available - C(j) /\ new.open
      <3>1. kept.left - Cost(b) = available - (P[n] - P[f - 1])
        BY <2>2, <2>4
      <3> HIDE DEF b
      <3> QED BY <2>3, <2>4, <2>5, <3>1, Zenon
    <2>7. j < m => C(j) <= available
      <3> SUFFICES ASSUME j < m PROVE C(j) <= available
        OBVIOUS
      <3>1. l # n + 1
        <4>1. start[j + 1] < start[m + 1]
          <5>1. j + 1 < m + 1 /\ m + 1 \in 1 .. m + 1
            BY <1>1
          <5> QED BY <1>1, <1>4, <5>1, StartsGrow
        <4> QED BY <1>1, <1>2, <1>4, <4>1
      <3>2. SubSeq(msgs, l, n) # <<>>
        <4>1. l \in 1 .. n + 1 /\ n \in l - 1 .. n /\ n - l + 1 # 0
          BY <1>1, <2>1, <3>1
        <4>2. Len(SubSeq(msgs, l, n)) = n - l + 1
          BY <4>1, Part
        <4>3. Len(<<>>) = 0
          OBVIOUS
        <4> QED BY <4>1, <4>2, <4>3
      <3>3. P[l - 1] - P[f - 1] <= available - (P[n] - P[l - 1])
        BY <1>5, <2>2, <2>4, <3>2
      <3> HIDE DEF f, l
      <3>4. P[n] - P[f - 1] <= available
        BY <2>2, <3>3
      <3> QED BY <3>4 DEF f
    <2>8. KeptFrom(msgs, start, P, available, m, j, j, Taken(b, kept))
      <3>1. j \in j .. m + 1 /\ j <= m
        BY <1>4
      <3> QED BY <2>6, <2>7, <3>1 DEF KeptFrom
    <2> QED BY <2>8
  <1>6. CASE ~(t = j + 1 /\ (Cost(b) <= kept.left \/ kept.msgs = <<>>))
    <2>2. LET new == Taken(b, kept)
          IN  /\ DOMAIN new = {"msgs", "left", "open"} /\ new.msgs = SubSeq(msgs, start[t], n)
              /\ new.left = available - C(t) /\ new.open = FALSE
      <3>1. ~(kept.open /\ (Cost(b) <= kept.left \/ kept.msgs = <<>>))
        BY <1>3, <1>6
      <3> HIDE DEF b
      <3> QED BY <1>3, <3>1, TakenIs, Zenon
    <2>3. t # j /\ t \in j .. m + 1
      BY <1>1, <1>3
    <2>4. t <= m
      <3> SUFFICES ASSUME t = m + 1 PROVE FALSE
        <4> HIDE DEF m
        <4> QED BY <1>1, <1>4
      <3>1. t = j + 1
        BY <1>1, <1>3, <1>4
      <3>2. kept.msgs = SubSeq(msgs, n + 1, n)
        BY <1>1, <1>3
      <3>3. SubSeq(msgs, n + 1, n) = <<>>
        BY <1>1, SubSeqEmpty
      <3> QED BY <1>6, <3>1, <3>2, <3>3
    <2>5. C(t - 1) > available
      <3>1. CASE t # j + 1
        BY <1>3, <3>1
      <3>2. CASE t = j + 1
        <4> DEFINE f == start[j]
                   l == start[j + 1]
        <4>1. f \in 1 .. n /\ l \in f + 1 .. n + 1 /\ b = SubSeq(msgs, f, l - 1)
          <5>1. BlockOf(msgs, f, l, b) /\ f \in 1 .. n + 1 /\ l \in 1 .. n + 1
            BY <1>1, <1>2, <1>4
          <5> HIDE DEF f, l, b
          <5> QED BY <1>1, <5>1 DEF BlockOf
        <4>2. f \in 1 .. n + 1 /\ l - 1 \in f - 1 .. n /\ f - 1 \in 0 .. n /\ l - 1 \in 0 .. n
              /\ n \in 0 .. n
          <5> HIDE DEF f, l, n
          <5> QED BY <1>1, <4>1, Borders
        <4>3. Cost(b) = P[l - 1] - P[f - 1]
          <5>1. Cost(SubSeq(msgs, f, l - 1)) = P[l - 1] - P[f - 1]
            BY <4>2, CostOf
          <5> HIDE DEF f, l, b
          <5> QED BY <4>1, <5>1
        <4>4. P[l - 1] \in Nat /\ P[f - 1] \in Nat /\ P[n] \in Nat
          BY <4>2 DEF Sums
        <4>5. Cost(b) \in Int /\ kept.left = available - (P[n] - P[l - 1]) /\ ~(Cost(b) <= kept.left)
          BY <1>3, <1>6, <3>2, <4>3, <4>4
        <4>6. P[n] - P[f - 1] > available
          <5> HIDE DEF f, l, b
          <5> QED BY <4>3, <4>4, <4>5
        <4>7. t - 1 = j
          BY <3>2, <1>4
        <4> QED BY <4>6, <4>7
      <3> QED BY <3>1, <3>2
    <2>6. KeptFrom(msgs, start, P, available, m, j, t, Taken(b, kept))
      BY <1>3, <2>2, <2>3, <2>4, <2>5 DEF KeptFrom
    <2> QED BY <2>6
  <1> QED BY <1>5, <1>6

\* What is kept is an end of the history that begins with a block: it fits
\* unless it is the last block alone, and with one block more it would not.
LEMMA KeptIs ==
    ASSUME NEW M, Sized(M), NEW msgs \in Seq(M), NEW P, Sums(msgs, P),
           NEW blocks \in Seq(Seq(M)), NEW start, Split(msgs, Len(msgs), blocks, start),
           NEW available \in Int
    PROVE  \E t, kept : /\ KeptFrom(msgs, start, P, available, Len(blocks), 1, t, kept)
                        /\ Kept(blocks, available) = kept.msgs
  <1> DEFINE n == Len(msgs)
             m == Len(blocks)
             none == NoneKept(available)
  <1>1. PICK acc : /\ Taking!RightRun(none, blocks, acc)
                   /\ Taking!FoldRight(Taken, blocks, none) = acc[1]
    BY Taking!FoldsRight
  <1>2. /\ m \in Nat /\ acc[m + 1] = none
        /\ \A k \in 1 .. m : acc[k] = Taken(blocks[k], acc[k + 1])
    BY <1>1 DEF Taking!RightRun
  <1>3. Kept(blocks, available) = acc[1].msgs
    BY <1>1, SameFolds DEF Kept
  <1> DEFINE S == {k \in 1 .. m + 1 : \E t : KeptFrom(msgs, start, P, available, m, k, t, acc[k])}
  <1>4. m + 1 \in S
    <2>1. start[m + 1] = n + 1 /\ n \in Nat
      BY DEF Split
    <2>2. SubSeq(msgs, n + 1, n) = <<>>
      BY SubSeqEmpty, <2>1
    <2>3. available - (P[n] - P[start[m + 1] - 1]) = available
      <3>1. P[n] \in Nat /\ n + 1 - 1 = n
        BY <2>1 DEF Sums
      <3> HIDE DEF n
      <3> QED BY <2>1, <3>1
    <2>4. /\ DOMAIN none = {"msgs", "left", "open"} /\ none.msgs = SubSeq(msgs, start[m + 1], n)
          /\ none.left = available - (P[n] - P[start[m + 1] - 1]) /\ none.open = TRUE
      BY <2>1, <2>2, <2>3 DEF NoneKept
    <2>5. m + 1 \in m + 1 .. m + 1 /\ ~(m + 1 <= m) /\ ~(m + 1 < m) /\ m + 1 \in 1 .. m + 1
      BY <1>2
    <2>6. KeptFrom(msgs, start, P, available, m, m + 1, m + 1, none)
      BY <2>4, <2>5 DEF KeptFrom
    <2> QED BY <1>2, <2>5, <2>6
  <1>5. ASSUME NEW k \in 1 .. m, k + 1 \in S PROVE k \in S
    <2>1. PICK t : KeptFrom(msgs, start, P, available, m, k + 1, t, acc[k + 1])
      BY <1>5
    <2>2. \E u : KeptFrom(msgs, start, P, available, m, k, u, Taken(blocks[k], acc[k + 1]))
      BY <2>1, KeptMore
    <2>3. k \in 1 .. m + 1 /\ acc[k] = Taken(blocks[k], acc[k + 1])
      BY <1>2
    <2> QED BY <2>2, <2>3
  <1>6. 1 \in S
    <2>1. 1 .. m + 1 \subseteq S
      <3> HIDE DEF S, m
      <3> QED BY <1>2, <1>4, <1>5, Downwards
    <2>2. 1 \in 1 .. m + 1
      BY <1>2
    <2> QED BY <2>1, <2>2
  <1> QED BY <1>3, <1>6

-----------------------------------------------------------------------------
(* What is purged                                                           *)

\* No answer in an end of a well formed history has lost its call.
LEMMA PurgedEnd ==
    ASSUME NEW M, Sized(M), NEW msgs \in Seq(M), WellPaired(msgs),
           NEW f \in DOMAIN msgs, msgs[f].role # "tool"
    PROVE  Purged(SubSeq(msgs, f, Len(msgs))) = SubSeq(msgs, f, Len(msgs))
  <1> DEFINE n == Len(msgs)
             sub == SubSeq(msgs, f, n)
             l == n - f + 1
  <1>1. /\ n \in Nat /\ f \in 1 .. n /\ l \in Nat /\ sub \in Seq(M) /\ Len(sub) = l
        /\ \A k \in 1 .. l : sub[k] = msgs[f - 1 + k]
    <2>1. f \in 1 .. Len(msgs) + 1 /\ n \in f - 1 .. Len(msgs) /\ n \in Nat /\ f \in 1 .. n
      OBVIOUS
    <2> HIDE DEF n
    <2> QED BY <2>1, Part, SMTT(30)
  <1>2. PICK acc : Cleaning!LeftRun(<<>>, sub, acc) /\ Cleaning!FoldLeft(Cleaned, <<>>, sub) = acc[l]
    <2> HIDE DEF sub, l
    <2> QED BY <1>1, Cleaning!FoldsLeft
  <1>3. /\ acc[0] = <<>> /\ \A k \in 1 .. l : acc[k] = Cleaned(acc[k - 1], sub[k])
    <2> HIDE DEF sub, l
    <2> QED BY <1>1, <1>2 DEF Cleaning!LeftRun
  <1>4. Purged(sub) = acc[l]
    BY <1>2, SameFolds DEF Purged
  <1> HIDE DEF sub
  <1> DEFINE S == {k \in 0 .. l : acc[k] = SubSeq(sub, 1, k)}
  <1>5. 0 \in S
    <2>1. SubSeq(sub, 1, 0) = <<>>
      BY SubSeqEmpty
    <2>2. 0 \in 0 .. l
      BY <1>1
    <2> HIDE DEF l
    <2> QED BY <1>3, <2>1, <2>2
  <1>6. ASSUME NEW k \in 0 .. l - 1, k \in S PROVE k + 1 \in S
    <2> DEFINE clean == SubSeq(sub, 1, k)
               msg == sub[k + 1]
               p == f + k
    <2>1. /\ k + 1 \in 1 .. l /\ k + 1 \in 0 .. l /\ (k + 1) - 1 = k /\ p \in 1 .. n
          /\ f - 1 + (k + 1) = p
      BY <1>1
    <2>2. msg = msgs[p] /\ acc[k + 1] = Cleaned(clean, msg) /\ msg.call \in Nat
      <3>1. msgs[p] \in M
        BY <2>1
      <3> HIDE DEF l, p, n
      <3> QED BY <1>1, <1>3, <1>6, <2>1, <3>1 DEF Sized
    <2>3. clean \in Seq(M) /\ Len(clean) = k /\ (k # 0 => Last(clean) = msgs[p - 1])
      <3>1. 1 \in 1 .. Len(sub) + 1 /\ k \in 1 - 1 .. Len(sub) /\ k - 1 + 1 = k
        BY <1>1
      <3>2. clean \in Seq(M) /\ Len(clean) = k /\ \A i \in 1 .. k : clean[i] = sub[1 - 1 + i]
        BY <1>1, <3>1, Part
      <3>3. k # 0 => clean[k] = msgs[p - 1]
        <4> SUFFICES ASSUME k # 0 PROVE clean[k] = msgs[p - 1]
          OBVIOUS
        <4>1. k \in 1 .. k /\ 1 - 1 + k = k /\ k \in 1 .. l /\ f - 1 + k = p - 1
          BY <1>1
        <4> HIDE DEF clean, l, p, n
        <4> QED BY <1>1, <3>2, <4>1
      <3> HIDE DEF clean, p, n
      <3> QED BY <3>2, <3>3 DEF Last
    <2>4. ASSUME msg.role = "tool"
          PROVE  clean # <<>> /\ (Calling(Last(clean)) \/ Last(clean).role = "tool")
      <3> DEFINE i == p - msgs[p].call
      <3>1. /\ i >= 1 /\ Answers(msgs[p], msgs[i])
            /\ \A j \in i + 1 .. p : msgs[j].role = "tool"
        <4>1. p \in DOMAIN msgs /\ msgs[p].role = "tool"
          BY <2>1, <2>2, <2>4
        <4> HIDE DEF p
        <4> QED BY <4>1 DEF WellPaired
      <3>2. i \in Int /\ i <= p - 1
        <4>1. i # p
          BY <2>2, <2>4, <3>1 DEF Answers
        <4>2. msgs[p].call \in Nat
          BY <2>2
        <4>3. p \in Int
          BY <1>1, <2>1
        <4> DEFINE c == msgs[p].call
        <4> HIDE DEF p, c
        <4> QED BY <4>1, <4>2, <4>3, SMTT(30) DEF c
      <3>3. k # 0
        <4> SUFFICES ASSUME k = 0 PROVE FALSE
          OBVIOUS
        <4>1. p = f
          BY <1>1
        <4> HIDE DEF p
        <4> QED BY <2>2, <2>4, <4>1
      <3>4. Last(clean) = msgs[p - 1] /\ clean # <<>>
        <4>1. Len(clean) # 0 /\ Len(<<>>) = 0
          BY <2>3, <3>3
        <4> QED BY <2>3, <3>3, <4>1
      <3>5. CASE i = p - 1
        BY <3>1, <3>4, <3>5 DEF Answers, Calling
      <3>6. CASE i # p - 1
        <4>1. p - 1 \in i + 1 .. p
          BY <2>1, <3>2, <3>6, SMTT(30)
        <4> QED BY <3>1, <3>4, <4>1
      <3> QED BY <3>5, <3>6
    <2>5. acc[k + 1] = Append(clean, msg)
      <3> HIDE DEF clean, msg
      <3> QED BY <2>2, <2>4 DEF Cleaned
    <2>6. SubSeq(sub, 1, k + 1) = Append(clean, msg)
      <3>1. 1 \in 1 .. Len(sub) /\ k + 1 \in 1 .. Len(sub) /\ (k + 1) - 1 = k
        BY <1>1, <2>1
      <3> DEFINE next == k + 1
      <3>2. next \in 1 .. Len(sub) /\ next - 1 = k
        BY <3>1
      <3>3. SubSeq(sub, 1, next) = Append(SubSeq(sub, 1, next - 1), sub[next])
        <4> HIDE DEF next
        <4>1. 1 \in 1 .. Len(sub) /\ next \in 1 .. Len(sub) /\ sub[next] \in M
          BY <1>1, <3>1, <3>2
        <4>2. SubSeq(sub, 1, next) = SubSeq(sub, 1, next - 1) \o <<sub[next]>>
          BY <1>1, <4>1, SubSeqRecursiveSecond
        <4>3. SubSeq(sub, 1, next - 1) \in Seq(M)
          BY <2>3, <3>2
        <4>4. \A x \in Seq(M), m \in M : Append(x, m) = x \o <<m>>
          OBVIOUS
        <4> QED BY <4>1, <4>2, <4>3, <4>4
      <3> QED BY <3>2, <3>3
    <2> HIDE DEF clean, msg, l
    <2> QED BY <2>1, <2>5, <2>6
  <1>7. l \in S
    <2> HIDE DEF S, l
    <2>1. 0 .. l \subseteq S
      BY <1>1, <1>5, <1>6, Upwards
    <2> QED BY <1>1, <2>1
  <1>8. SubSeq(sub, 1, l) = sub
    <2>1. SubSeq(sub, 1, Len(sub)) = sub
      BY <1>1, SubSeqFull
    <2> QED BY <1>1, <2>1
  <1>9. Purged(sub) = sub
    <2> HIDE DEF l
    <2> QED BY <1>4, <1>7, <1>8
  <1> QED BY <1>9 DEF sub

-----------------------------------------------------------------------------
(* The window                                                               *)

LEMMA Least == ASSUME NEW S \in SUBSET Nat, S # {} PROVE Min(S) \in S
  <1>1. PICK x \in S : \A y \in S : ~(<<y, x>> \in OpToRel(<, Nat))
    BY NatLessThanWellFounded, WFMin
  <1>2. \A y \in S : ~(y < x)
    BY <1>1 DEF OpToRel
  <1>3. \A y \in S : x <= y
    BY <1>2
  <1> QED BY <1>3 DEF Min

LEMMA Extremes ==
    ASSUME NEW S, NEW x \in S, x \in Int, S \subseteq Int
    PROVE  /\ (\A y \in S : y <= x) => Max(S) = x
           /\ (\A y \in S : x <= y) => Min(S) = x
  <1>1. ASSUME \A y \in S : y <= x PROVE Max(S) = x
    <2>1. \A z \in S : (\A y \in S : z >= y) <=> z = x
      BY <1>1
    <2> QED BY <2>1 DEF Max
  <1>2. ASSUME \A y \in S : x <= y PROVE Min(S) = x
    <2>1. \A z \in S : (\A y \in S : z <= y) <=> z = x
      BY <1>2
    <2> QED BY <2>1 DEF Min
  <1> QED BY <1>1, <1>2

\* trim_messages_token_budget keeps the longest end of a history that fits the
\* budget and begins with no answer, or the shortest such end: whatever the
\* sizes of the messages and the budget.
THEOREM TrimIsLongest ==
    ASSUME NEW M, Sized(M), NEW msgs \in Seq(M), WellPaired(msgs), NEW budget \in Int
    PROVE  trim_messages_token_budget(msgs, budget) = LongestFitting(msgs, budget)
  <1> DEFINE n == Len(msgs)
             blocks == Blocks(msgs)
             m == Len(blocks)
             available == IF budget > 1 THEN budget ELSE 1
             cuts == {i \in DOMAIN msgs : msgs[i].role # "tool"}
             fits == {i \in cuts : Cost(SubSeq(msgs, i, n)) <= budget}
  <1>1. PICK P : Sums(msgs, P)
    BY SumsExist
  <1>2. blocks \in Seq(Seq(M)) /\ \E start : Split(msgs, n, blocks, start)
    BY BlocksSplit
  <1>3. PICK start : Split(msgs, n, blocks, start)
    BY <1>2
  <1> HIDE DEF blocks
  <1>4. available \in Int /\ available >= 1 /\ available >= budget
        /\ (available = budget \/ available = 1)
    OBVIOUS
  <1>5. PICK t, kept : /\ KeptFrom(msgs, start, P, available, m, 1, t, kept)
                       /\ Kept(blocks, available) = kept.msgs
    <2> HIDE DEF available
    <2> QED BY <1>1, <1>2, <1>3, <1>4, KeptIs
  <1>6. trim_messages_token_budget(msgs, budget) = Purged(SubSeq(msgs, start[t], n))
    BY <1>5 DEF trim_messages_token_budget, KeptFrom, blocks
  <1>7. /\ n \in Nat /\ DOMAIN msgs = 1 .. n /\ m \in Nat
        /\ start \in [1 .. m + 1 -> 1 .. n + 1] /\ start[1] = 1 /\ start[m + 1] = n + 1
    <2>1. n \in Nat /\ DOMAIN msgs = 1 .. n
      OBVIOUS
    <2> HIDE DEF n
    <2> QED BY <1>3, <2>1 DEF Split
  <1>8. cuts = {start[j] : j \in 1 .. m}
    BY <1>3, StartsAre
  <1> DEFINE C(j) == P[n] - P[start[j] - 1]
  <1>9. /\ t \in 1 .. m + 1 /\ (1 <= m => t <= m)
        /\ t < m => C(t) <= available
        /\ t # 1 => C(t - 1) > available
    BY <1>5 DEF KeptFrom
  <1>10. \A j \in 1 .. m : start[j] \in 1 .. n /\ start[j] \in DOMAIN msgs
                            /\ msgs[start[j]].role # "tool"
    <2> SUFFICES ASSUME NEW j \in 1 .. m
                 PROVE  /\ start[j] \in 1 .. n /\ start[j] \in DOMAIN msgs
                        /\ msgs[start[j]].role # "tool"
      OBVIOUS
    <2>1. start[j] \in cuts
      <3> HIDE DEF cuts, m
      <3> QED BY <1>8
    <2>2. start[j] \in DOMAIN msgs /\ msgs[start[j]].role # "tool"
      BY <2>1
    <2> HIDE DEF n
    <2> QED BY <1>7, <2>2
  <1>11. \A j \in 1 .. m : C(j) \in Int /\ C(j) >= n + 1 - start[j]
    <2> SUFFICES ASSUME NEW j \in 1 .. m PROVE C(j) \in Int /\ C(j) >= n + 1 - start[j]
      OBVIOUS
    <2> DEFINE a == start[j] - 1
    <2>1. start[j] \in 1 .. n
      BY <1>10
    <2>2. a \in 0 .. n /\ n \in a .. n /\ n - a = n + 1 - start[j]
      BY <1>7, <2>1
    <2>3. P[a] \in Nat /\ P[n] \in Nat /\ P[n] - P[a] >= n - a
      <3> HIDE DEF a
      <3> QED BY <1>1, <2>2, SumsGrow
    <2> QED BY <2>2, <2>3
  <1>12. \A i, j \in 1 .. m : i < j => start[i] < start[j] /\ C(i) > C(j)
    <2> SUFFICES ASSUME NEW i \in 1 .. m, NEW j \in 1 .. m, i < j
                 PROVE  start[i] < start[j] /\ C(i) > C(j)
      OBVIOUS
    <2>1. i \in 1 .. m + 1 /\ j \in 1 .. m + 1
      BY <1>7
    <2>2. start[i] < start[j]
      <3> HIDE DEF n
      <3> QED BY <1>3, <1>7, <2>1, StartsGrow
    <2> DEFINE a == start[i] - 1
               b == start[j] - 1
    <2>3. a \in 0 .. n /\ b \in a .. n /\ b - a >= 1 /\ n \in 0 .. n
      <3>1. start[i] \in 1 .. n /\ start[j] \in 1 .. n
        BY <1>10
      <3> HIDE DEF n
      <3> QED BY <1>7, <2>2, <3>1
    <2>4. P[a] \in Nat /\ P[b] \in Nat /\ P[b] - P[a] >= b - a
      <3> HIDE DEF a, b
      <3> QED BY <1>1, <2>3, SumsGrow
    <2>5. P[n] \in Nat
      BY <1>1, <2>3 DEF Sums
    <2>6. P[n] - P[a] > P[n] - P[b]
      <3> HIDE DEF a, b, n
      <3> QED BY <2>3, <2>4, <2>5, SMTT(30)
    <2> QED BY <2>2, <2>6
  <1>13. \A j \in 1 .. m : start[j] \in fits <=> C(j) <= budget
    <2> SUFFICES ASSUME NEW j \in 1 .. m PROVE start[j] \in fits <=> C(j) <= budget
      OBVIOUS
    <2> DEFINE f == start[j]
    <2>1. f \in 1 .. n /\ f \in cuts
      BY <1>8, <1>10
    <2>2. Cost(SubSeq(msgs, f, n)) = P[n] - P[f - 1]
      <3>1. f \in 1 .. Len(msgs) + 1 /\ n \in f - 1 .. Len(msgs)
        BY <2>1
      <3> HIDE DEF f, n
      <3> QED BY <1>1, <3>1, CostOf
    <2> QED BY <2>1, <2>2
  <1> HIDE DEF available, C
  <1>14. CASE m = 0
    <2>1. n = 0 /\ start[t] = 1
      <3>1. t = 1 /\ m + 1 = 1
        BY <1>9, <1>14
      <3> HIDE DEF m, n
      <3> QED BY <1>7, <3>1
    <2>2. SubSeq(msgs, start[t], n) = <<>>
      <3> HIDE DEF n, m
      <3> QED BY <2>1, SubSeqEmpty
    <2>3. Purged(<<>>) = <<>>
      <3>1. <<>> \in Seq(M) /\ Len(<<>>) = 0
        OBVIOUS
      <3>2. PICK acc : /\ Cleaning!LeftRun(<<>>, <<>>, acc)
                       /\ Cleaning!FoldLeft(Cleaned, <<>>, <<>>) = acc[Len(<<>>)]
        BY <3>1, Cleaning!FoldsLeft
      <3> QED BY <3>1, <3>2, SameFolds DEF Purged, Cleaning!LeftRun
    <2>4. cuts = {}
      BY <1>8, <1>14
    <2>5. LongestFitting(msgs, budget) = <<>>
      BY <2>4 DEF LongestFitting
    <2> QED BY <1>6, <2>2, <2>3, <2>5
  <1>15. CASE m # 0
    <2>1. t \in 1 .. m /\ m \in 1 .. m
      BY <1>7, <1>9, <1>15
    <2> DEFINE f == start[t]
    <2>2. f \in DOMAIN msgs /\ msgs[f].role # "tool" /\ f \in cuts
      BY <1>8, <1>10, <2>1
    <2>3. trim_messages_token_budget(msgs, budget) = SubSeq(msgs, f, n)
      <3>1. Purged(SubSeq(msgs, f, Len(msgs))) = SubSeq(msgs, f, Len(msgs))
        <4> HIDE DEF f
        <4> QED BY <2>2, PurgedEnd
      <3> QED BY <1>6, <3>1
    <2>4. cuts # {} /\ cuts \subseteq Int /\ f \in Int
      BY <1>7, <2>2
    <2>5. t < m => available = budget
      <3> SUFFICES ASSUME t < m, available = 1 PROVE FALSE
        BY <1>4
      <3>1. start[t] < start[m] /\ start[t] \in 1 .. n /\ start[m] \in 1 .. n
        BY <1>10, <1>12, <2>1
      <3>2. C(t) <= 1 /\ C(t) \in Int /\ C(t) >= n + 1 - start[t]
        BY <1>9, <1>11, <2>1
      <3> HIDE DEF n
      <3> QED BY <1>7, <3>1, <3>2
    <2>6. CASE fits = {}
      <3>1. t = m
        <4> SUFFICES ASSUME t < m PROVE FALSE
          BY <2>1
        <4>1. C(t) <= budget
          BY <1>9, <2>5
        <4> QED BY <1>13, <2>1, <2>6, <4>1
      <3>2. \A y \in cuts : y <= f
        <4> SUFFICES ASSUME NEW j \in 1 .. m PROVE start[j] <= start[m]
          BY <1>8, <3>1
        <4>1. start[j] \in 1 .. n /\ start[m] \in 1 .. n /\ (j < m => start[j] < start[m])
          BY <1>10, <1>12, <2>1
        <4>2. j < m \/ j = m
          BY <1>7
        <4> HIDE DEF m, n
        <4> QED BY <4>1, <4>2
      <3>3. Max(cuts) = f
        <4> HIDE DEF cuts, f
        <4> QED BY <2>2, <2>4, <3>2, Extremes
      <3>4. LongestFitting(msgs, budget) = SubSeq(msgs, Max(cuts), n)
        BY <2>4, <2>6 DEF LongestFitting
      <3> QED BY <2>3, <3>3, <3>4
    <2>7. CASE fits # {}
      <3>1. PICK u \in 1 .. m : start[u] \in fits
        <4>1. PICK i \in fits : TRUE
          BY <2>7
        <4>2. i \in cuts
          BY <4>1
        <4>3. PICK u \in 1 .. m : i = start[u]
          BY <1>8, <4>2
        <4> HIDE DEF fits
        <4> QED BY <4>1, <4>3
      <3>2. \A j \in 1 .. m : C(j) <= budget => j >= t
        <4> SUFFICES ASSUME NEW j \in 1 .. m, C(j) <= budget, j < t PROVE FALSE
          BY <1>7, <2>1
        <4>1. t # 1 /\ t - 1 \in 1 .. m /\ j <= t - 1
          BY <1>7, <2>1
        <4>2. C(t - 1) > available
          BY <1>9, <4>1
        <4>3. j = t - 1 \/ C(j) > C(t - 1)
          BY <1>12, <4>1
        <4>4. C(j) \in Int /\ C(t - 1) \in Int
          BY <1>11, <4>1
        <4> HIDE DEF m
        <4> QED BY <1>4, <4>2, <4>3, <4>4
      <3>3. C(t) <= budget
        <4>1. CASE t = m
          <5>1. C(u) <= budget
            BY <1>13, <3>1
          <5>2. u = m
            BY <1>7, <3>1, <3>2, <4>1, <5>1
          <5> QED BY <4>1, <5>1, <5>2
        <4>2. CASE t # m
          BY <1>9, <2>1, <2>5, <4>2
        <4> QED BY <4>1, <4>2
      <3>4. f \in fits
        BY <1>13, <2>1, <3>3
      <3>5. \A y \in fits : f <= y
        <4> SUFFICES ASSUME NEW y \in fits PROVE f <= y
          OBVIOUS
        <4>1. y \in cuts
          OBVIOUS
        <4>2. PICK j \in 1 .. m : y = start[j]
          BY <1>8, <4>1
        <4>3. j >= t
          <5>1. start[j] \in fits
            BY <4>2
          <5> HIDE DEF fits
          <5> QED BY <1>13, <3>2, <5>1
        <4>4. t < j => start[t] < start[j]
          BY <1>12, <2>1
        <4>5. start[t] \in 1 .. n /\ start[j] \in 1 .. n
          BY <1>10, <2>1
        <4>6. t < j \/ t = j
          BY <1>7, <2>1, <4>3
        <4> HIDE DEF n
        <4> QED BY <1>7, <4>2, <4>4, <4>5, <4>6
      <3>6. Min(fits) = f
        <4>1. fits \subseteq Int
          BY <2>4
        <4> HIDE DEF fits, f
        <4> QED BY <2>4, <3>4, <3>5, <4>1, Extremes
      <3>7. LongestFitting(msgs, budget) = SubSeq(msgs, Min(fits), n)
        BY <2>4, <2>7 DEF LongestFitting
      <3> QED BY <2>3, <3>6, <3>7
    <2> QED BY <2>6, <2>7
  <1> QED BY <1>14, <1>15

\* The window of a history that has a message to begin with is an end of it.
LEMMA WindowIsEnd ==
    ASSUME NEW M, Sized(M), NEW msgs \in Seq(M), WellPaired(msgs), NEW budget \in Int,
           NEW last \in DOMAIN msgs, msgs[last].role # "tool",
           \A i \in DOMAIN msgs : msgs[i].role # "tool" => i <= last
    PROVE  \E i \in DOMAIN msgs :
              i <= last /\ trim_messages_token_budget(msgs, budget) = SubSeq(msgs, i, Len(msgs))
  <1> DEFINE n == Len(msgs)
             cuts == {i \in DOMAIN msgs : msgs[i].role # "tool"}
             fits == {i \in cuts : Cost(SubSeq(msgs, i, n)) <= budget}
  <1>1. trim_messages_token_budget(msgs, budget) = LongestFitting(msgs, budget)
    BY TrimIsLongest
  <1>2. last \in cuts /\ cuts \subseteq Int /\ last \in Int /\ \A i \in cuts : i <= last
    OBVIOUS
  <1>3. Max(cuts) = last
    <2> HIDE DEF cuts
    <2> QED BY <1>2, Extremes
  <1>4. fits = {} => LongestFitting(msgs, budget) = SubSeq(msgs, last, n)
    BY <1>2, <1>3 DEF LongestFitting
  <1>5. fits # {} => LongestFitting(msgs, budget) = SubSeq(msgs, Min(fits), n)
    BY <1>2 DEF LongestFitting
  <1>6. fits # {} => Min(fits) \in fits
    <2>1. fits \in SUBSET Nat
      OBVIOUS
    <2> HIDE DEF fits
    <2> QED BY <2>1, Least
  <1>7. \A i \in fits : i \in DOMAIN msgs /\ i <= last
    BY <1>2
  <1> HIDE DEF fits, n
  <1> QED BY <1>1, <1>2, <1>4, <1>5, <1>6, <1>7 DEF n
=============================================================================
