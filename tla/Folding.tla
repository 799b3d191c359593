-------------------------------- MODULE Folding --------------------------------
(* What the folds of the community modules compute, one step after the      *)
(* other, for any operator Op: instances of this module give the induction  *)
(* that proofs about a concrete fold need.                                  *)
EXTENDS Integers, SequencesExt, WellFoundedInduction, TLAPS

CONSTANT Op(_, _)

LEMMA Induction ==
    ASSUME NEW S, 0 \in S, \A n \in Nat : n \in S => n + 1 \in S
    PROVE  Nat \subseteq S
  <1> SUFFICES ASSUME NEW m \in Nat, m \notin S PROVE FALSE
    OBVIOUS
  <1> DEFINE T == {n \in Nat : n \notin S}
  <1>1. PICK x \in T : \A y \in T : ~(<<y, x>> \in OpToRel(<, Nat))
    BY NatLessThanWellFounded, WFMin
  <1>2. \A y \in T : ~(y < x)
    BY <1>1 DEF OpToRel
  <1>3. x # 0 /\ x - 1 \in Nat /\ x = (x - 1) + 1
    OBVIOUS
  <1>4. x - 1 \notin T
    BY <1>2, <1>3
  <1> QED BY <1>3, <1>4

LEMMA Ends ==
    ASSUME NEW i \in Int, NEW j \in Int, i <= j
    PROVE  Max(i..j) = j /\ Min(i..j) = i
  <1>1. \A x \in i..j : (\A y \in i..j : x >= y) <=> x = j
    OBVIOUS
  <1>2. \A x \in i..j : (\A y \in i..j : x <= y) <=> x = i
    OBVIOUS
  <1>3. i \in i..j /\ j \in i..j
    OBVIOUS
  <1> DEFINE S == i..j
  <1> HIDE DEF S
  <1> QED BY <1>1, <1>2, <1>3 DEF Max, Min, S

-----------------------------------------------------------------------------
(* FoldLeft                                                                 *)

\* The function that MapThenFoldSet recurs over, up to n.
Lefts(s, base, n, g) ==
    g = [t \in SUBSET (1..n) |->
            IF t = {} THEN base ELSE LET x == Max(t) IN Op(g[t \ {x}], s[x])]

LEMMA MaxIn ==
    ASSUME NEW n \in Nat, NEW t \in SUBSET (1..(n+1))
    PROVE  /\ n + 1 \in t => Max(t) = n + 1 /\ t \ {Max(t)} \in SUBSET (1..n)
           /\ n + 1 \notin t => t \in SUBSET (1..n)
  <1>1. CASE n + 1 \in t
    <2>1. \A x \in t : (\A y \in t : x >= y) <=> x = n + 1
      BY <1>1
    <2>2. Max(t) = n + 1
      BY <1>1, <2>1 DEF Max
    <2> QED BY <1>1, <2>2
  <1>2. CASE n + 1 \notin t
    BY <1>2
  <1> QED BY <1>1, <1>2

LEMMA LeftsExist ==
    ASSUME NEW s, NEW base
    PROVE  \A n \in Nat : \E g : Lefts(s, base, n, g)
  <1> DEFINE S == {n \in Nat : \E g : Lefts(s, base, n, g)}
  <1>1. 0 \in S
    <2> DEFINE g == [t \in SUBSET (1..0) |->
                        IF t = {} THEN base ELSE base]
    <2>1. \A t \in SUBSET (1..0) : t = {} /\ g[t] = base
      OBVIOUS
    <2>2. Lefts(s, base, 0, g)
      BY <2>1 DEF Lefts
    <2> QED BY <2>2
  <1>2. ASSUME NEW n \in Nat, n \in S PROVE n + 1 \in S
    <2>1. PICK g : Lefts(s, base, n, g)
      BY <1>2
    <2> DEFINE h == [t \in SUBSET (1..(n+1)) |->
                        IF n + 1 \in t THEN Op(g[t \ {n+1}], s[n+1]) ELSE g[t]]
    <2>2. \A t \in SUBSET (1..n) :
              g[t] = IF t = {} THEN base ELSE LET x == Max(t) IN Op(g[t \ {x}], s[x])
      BY <2>1 DEF Lefts
    <2>3. \A t \in SUBSET (1..n) : t \in SUBSET (1..(n+1)) /\ n + 1 \notin t /\ h[t] = g[t]
      OBVIOUS
    <2>4. ASSUME NEW t \in SUBSET (1..(n+1))
          PROVE  h[t] = IF t = {} THEN base ELSE LET x == Max(t) IN Op(h[t \ {x}], s[x])
      <3>1. CASE n + 1 \in t
        <4>1. Max(t) = n + 1 /\ t \ {n + 1} \in SUBSET (1..n)
          BY <3>1, MaxIn
        <4>2. h[t] = Op(g[t \ {n+1}], s[n+1])
          BY <3>1
        <4> HIDE DEF h
        <4> QED BY <2>3, <3>1, <4>1, <4>2
      <3>2. CASE n + 1 \notin t
        <4>1. t \in SUBSET (1..n)
          BY <3>2, MaxIn
        <4>2. h[t] = g[t] /\ \A x : h[t \ {x}] = g[t \ {x}]
          <5>1. \A x : t \ {x} \in SUBSET (1..n)
            BY <4>1
          <5> HIDE DEF h
          <5> QED BY <2>3, <4>1, <5>1
        <4> HIDE DEF h
        <4> QED BY <2>2, <4>1, <4>2
      <3> QED BY <3>1, <3>2
    <2>5. Lefts(s, base, n + 1, h)
      <3>1. h = [t \in SUBSET (1..(n+1)) |-> h[t]]
        OBVIOUS
      <3> HIDE DEF h
      <3> QED BY <2>4, <3>1 DEF Lefts
    <2> HIDE DEF h
    <2> QED BY <2>5
  <1>3. Nat \subseteq S
    <2> HIDE DEF S
    <2> QED BY <1>1, <1>2, Induction
  <1> QED BY <1>3

\* acc holds what FoldLeft has after each element.
LeftRun(base, s, acc) ==
    /\ DOMAIN acc = 0 .. Len(s)
    /\ acc[0] = base
    /\ \A k \in 1 .. Len(s) : acc[k] = Op(acc[k - 1], s[k])

\* A left fold goes through the sequence from its beginning.
LEMMA FoldsLeft ==
    ASSUME NEW S, NEW s \in Seq(S), NEW base
    PROVE  \E acc : LeftRun(base, s, acc) /\ FoldLeft(Op, base, s) = acc[Len(s)]
  <1> DEFINE n == Len(s)
             it == CHOOSE g : Lefts(s, base, n, g)
             acc == [k \in 0..n |-> it[1..k]]
  <1>1. n \in Nat /\ DOMAIN s = 1..n
    OBVIOUS
  <1>2. Lefts(s, base, n, it)
    BY <1>1, LeftsExist
  <1>3. FoldLeft(Op, base, s) = it[1..n]
    <2>1. FoldLeft(Op, base, s) = (CHOOSE g : Lefts(s, base, n, g))[DOMAIN s]
      <3>1. FoldLeft(Op, base, s) =
                (CHOOSE g : g = [t \in SUBSET DOMAIN s |->
                    IF t = {} THEN base ELSE LET x == Max(t) IN Op(g[t \ {x}], s[x])])[DOMAIN s]
        BY Zenon DEF FoldLeft, MapThenFoldSet
      <3>2. (CHOOSE g : g = [t \in SUBSET DOMAIN s |->
                    IF t = {} THEN base ELSE LET x == Max(t) IN Op(g[t \ {x}], s[x])])
             = CHOOSE g : g = [t \in SUBSET (1..n) |->
                    IF t = {} THEN base ELSE LET x == Max(t) IN Op(g[t \ {x}], s[x])]
        BY <1>1, Zenon
      <3>3. (CHOOSE g : Lefts(s, base, n, g))
             = CHOOSE g : g = [t \in SUBSET (1..n) |->
                    IF t = {} THEN base ELSE LET x == Max(t) IN Op(g[t \ {x}], s[x])]
        BY Zenon DEF Lefts
      <3> QED BY <3>1, <3>2, <3>3, Zenon
    <2> QED BY <1>1, <2>1
  <1> HIDE DEF it
  <1>4. \A t \in SUBSET (1..n) :
            it[t] = IF t = {} THEN base ELSE LET x == Max(t) IN Op(it[t \ {x}], s[x])
    BY <1>2 DEF Lefts
  <1>5. acc[0] = base
    <2>1. 1..0 = {} /\ {} \in SUBSET (1..n) /\ acc[0] = it[1..0]
      BY <1>1
    <2> HIDE DEF acc, n
    <2> QED BY <1>4, <2>1
  <1>6. ASSUME NEW k \in 1..n PROVE acc[k] = Op(acc[k - 1], s[k])
    <2>1. Max(1..k) = k /\ (1..k) \ {k} = 1..(k-1) /\ 1..k # {} /\ 1..k \in SUBSET (1..n)
      BY <1>1, Ends
    <2>2. acc[k] = it[1..k] /\ acc[k - 1] = it[1..(k-1)]
      BY <1>1
    <2> HIDE DEF acc, n
    <2> QED BY <1>4, <2>1, <2>2
  <1>7. DOMAIN acc = 0..n /\ acc[n] = it[1..n]
    BY <1>1
  <1> HIDE DEF acc
  <1>8. LeftRun(base, s, acc)
    BY <1>5, <1>6, <1>7 DEF LeftRun
  <1> QED BY <1>3, <1>7, <1>8

-----------------------------------------------------------------------------
(* FoldRight                                                                *)

\* The function that MapThenFoldSet recurs over, from i on.
Rights(s, base, i, n, g) ==
    g = [t \in SUBSET (i..n) |->
            IF t = {} THEN base ELSE LET x == Min(t) IN Op(s[x], g[t \ {x}])]

LEMMA MinIn ==
    ASSUME NEW i \in Int, NEW n \in Int, NEW t \in SUBSET (i..n)
    PROVE  /\ i \in t => Min(t) = i /\ t \ {Min(t)} \in SUBSET ((i+1)..n)
           /\ i \notin t => t \in SUBSET ((i+1)..n)
  <1>1. CASE i \in t
    <2>1. \A x \in t : (\A y \in t : x <= y) <=> x = i
      BY <1>1
    <2>2. Min(t) = i
      BY <1>1, <2>1 DEF Min
    <2> QED BY <1>1, <2>2
  <1>2. CASE i \notin t
    BY <1>2
  <1> QED BY <1>1, <1>2

LEMMA RightsExist ==
    ASSUME NEW s, NEW base, NEW n \in Int
    PROVE  \A m \in Nat : \E g : Rights(s, base, n + 1 - m, n, g)
  <1> DEFINE S == {m \in Nat : \E g : Rights(s, base, n + 1 - m, n, g)}
  <1>1. 0 \in S
    <2> DEFINE g == [t \in SUBSET ((n+1)..n) |-> base]
    <2>1. \A t \in SUBSET ((n+1)..n) : t = {} /\ g[t] = base
      OBVIOUS
    <2>2. Rights(s, base, n + 1, n, g)
      BY <2>1 DEF Rights
    <2>3. n + 1 - 0 = n + 1
      OBVIOUS
    <2> HIDE DEF g
    <2> QED BY <2>2, <2>3
  <1>2. ASSUME NEW m \in Nat, m \in S PROVE m + 1 \in S
    <2>1. PICK i \in Int : i + 1 = n + 1 - m /\ i = n + 1 - (m + 1)
      OBVIOUS
    <2>2. PICK g : Rights(s, base, i + 1, n, g)
      BY <1>2, <2>1
    <2> DEFINE h == [t \in SUBSET (i..n) |->
                        IF i \in t THEN Op(s[i], g[t \ {i}]) ELSE g[t]]
    <2>3. \A t \in SUBSET ((i+1)..n) :
              g[t] = IF t = {} THEN base ELSE LET x == Min(t) IN Op(s[x], g[t \ {x}])
      BY <2>2 DEF Rights
    <2>4. \A t \in SUBSET ((i+1)..n) : t \in SUBSET (i..n) /\ i \notin t /\ h[t] = g[t]
      OBVIOUS
    <2>5. ASSUME NEW t \in SUBSET (i..n)
          PROVE  h[t] = IF t = {} THEN base ELSE LET x == Min(t) IN Op(s[x], h[t \ {x}])
      <3>1. CASE i \in t
        <4>1. Min(t) = i /\ t \ {i} \in SUBSET ((i+1)..n)
          BY <3>1, MinIn
        <4>2. h[t] = Op(s[i], g[t \ {i}])
          BY <3>1
        <4> HIDE DEF h
        <4> QED BY <2>4, <3>1, <4>1, <4>2
      <3>2. CASE i \notin t
        <4>1. t \in SUBSET ((i+1)..n)
          BY <3>2, MinIn
        <4>2. h[t] = g[t] /\ \A x : h[t \ {x}] = g[t \ {x}]
          <5>1. \A x : t \ {x} \in SUBSET ((i+1)..n)
            BY <4>1
          <5> HIDE DEF h
          <5> QED BY <2>4, <4>1, <5>1
        <4> HIDE DEF h
        <4> QED BY <2>3, <4>1, <4>2
      <3> QED BY <3>1, <3>2
    <2>6. Rights(s, base, i, n, h)
      <3>1. h = [t \in SUBSET (i..n) |-> h[t]]
        OBVIOUS
      <3> HIDE DEF h
      <3> QED BY <2>5, <3>1 DEF Rights
    <2> HIDE DEF h
    <2> QED BY <2>1, <2>6
  <1>3. Nat \subseteq S
    <2> HIDE DEF S
    <2> QED BY <1>1, <1>2, Induction
  <1> QED BY <1>3

\* acc holds what FoldRight has after each element, the last one first.
RightRun(base, s, acc) ==
    /\ DOMAIN acc = 1 .. Len(s) + 1
    /\ acc[Len(s) + 1] = base
    /\ \A k \in 1 .. Len(s) : acc[k] = Op(s[k], acc[k + 1])

\* A right fold goes through the sequence from its end.
LEMMA FoldsRight ==
    ASSUME NEW S, NEW s \in Seq(S), NEW base
    PROVE  \E acc : RightRun(base, s, acc) /\ FoldRight(Op, s, base) = acc[1]
  <1> DEFINE n == Len(s)
             it == CHOOSE g : Rights(s, base, 1, n, g)
             acc == [k \in 1..(n+1) |-> it[k..n]]
  <1>1. n \in Nat /\ DOMAIN s = 1..n
    OBVIOUS
  <1>2. Rights(s, base, 1, n, it)
    <2>1. n + 1 - n = 1 /\ n \in Int
      BY <1>1
    <2>2. \E g : Rights(s, base, n + 1 - n, n, g)
      <3> HIDE DEF n
      <3> QED BY <1>1, <2>1, RightsExist
    <2>3. \E g : Rights(s, base, 1, n, g)
      <3> HIDE DEF n
      <3> QED BY <2>1, <2>2
    <2> QED BY <2>3
  <1>3. FoldRight(Op, s, base) = it[1..n]
    <2>1. FoldRight(Op, s, base) = (CHOOSE g : Rights(s, base, 1, n, g))[DOMAIN s]
      <3>1. FoldRight(Op, s, base) =
                (CHOOSE g : g = [t \in SUBSET DOMAIN s |->
                    IF t = {} THEN base ELSE LET x == Min(t) IN Op(s[x], g[t \ {x}])])[DOMAIN s]
        BY Zenon DEF FoldRight, MapThenFoldSet
      <3>2. (CHOOSE g : g = [t \in SUBSET DOMAIN s |->
                    IF t = {} THEN base ELSE LET x == Min(t) IN Op(s[x], g[t \ {x}])])
             = CHOOSE g : g = [t \in SUBSET (1..n) |->
                    IF t = {} THEN base ELSE LET x == Min(t) IN Op(s[x], g[t \ {x}])]
        BY <1>1, Zenon
      <3>3. (CHOOSE g : Rights(s, base, 1, n, g))
             = CHOOSE g : g = [t \in SUBSET (1..n) |->
                    IF t = {} THEN base ELSE LET x == Min(t) IN Op(s[x], g[t \ {x}])]
        BY Zenon DEF Rights
      <3> QED BY <3>1, <3>2, <3>3, Zenon
    <2> QED BY <1>1, <2>1
  <1> HIDE DEF it
  <1>4. \A t \in SUBSET (1..n) :
            it[t] = IF t = {} THEN base ELSE LET x == Min(t) IN Op(s[x], it[t \ {x}])
    BY <1>2 DEF Rights
  <1>5. acc[n + 1] = base
    <2>1. (n+1)..n = {} /\ {} \in SUBSET (1..n) /\ acc[n+1] = it[(n+1)..n]
      BY <1>1
    <2> HIDE DEF acc, n
    <2> QED BY <1>4, <2>1
  <1>6. ASSUME NEW k \in 1..n PROVE acc[k] = Op(s[k], acc[k + 1])
    <2>1. Min(k..n) = k /\ (k..n) \ {k} = (k+1)..n /\ k..n # {} /\ k..n \in SUBSET (1..n)
      BY <1>1, Ends
    <2>2. acc[k] = it[k..n] /\ acc[k + 1] = it[(k+1)..n]
      BY <1>1
    <2> HIDE DEF acc, n
    <2> QED BY <1>4, <2>1, <2>2
  <1>7. DOMAIN acc = 1..(n+1) /\ acc[1] = it[1..n]
    BY <1>1
  <1> HIDE DEF acc
  <1>8. RightRun(base, s, acc)
    BY <1>5, <1>6, <1>7 DEF RightRun
  <1> QED BY <1>3, <1>7, <1>8
================================================================================
