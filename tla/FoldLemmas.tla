----------------------------- MODULE FoldLemmas -----------------------------
(***************************************************************************)
(* Induction over sequences, for any of them.  FoldLeft is a recursive     *)
(* function over the sets of places of a sequence: its equation has a      *)
(* solution (FoldExists), the solution runs from the first place to the    *)
(* last (FoldRuns), and what holds at the start and is kept by each step   *)
(* holds at the end (Upwards, by a least counterexample).  Then what       *)
(* SeqTools' Kept returns.                                                 *)
(***************************************************************************)
EXTENDS SeqTools, SequenceTheorems, FiniteSetTheorems, WellFoundedInduction, TLAPS

\* What holds of 0, and of a number when of the one before it, holds up to n.
LEMMA Upwards ==
    ASSUME NEW n \in Nat, NEW Held, 0 \in Held,
           \A i \in 1 .. n : i - 1 \in Held => i \in Held
    PROVE  0 .. n \subseteq Held
<1> DEFINE R == {ss \in Nat \X Nat : ss[1] < ss[2]}
           Left == (0 .. n) \ Held
<1>1. IsWellFoundedOn(R, Nat)
  BY NatLessThanWellFounded, Zenon DEF OpToRel
<1>2. \A x, y \in Nat : y < x => <<y, x>> \in R
  OBVIOUS
<1>3. SUFFICES ASSUME Left # {} PROVE FALSE
  OBVIOUS
<1> HIDE DEF R
<1>4. Left \subseteq Nat
  OBVIOUS
<1>5. PICK x \in Left : \A y \in Left : ~(<<y, x>> \in R)
  <2> HIDE DEF Left
  <2>1. QED
    BY <1>1, <1>3, <1>4, WFMin
<1>6. x \in 1 .. n
  OBVIOUS
<1>7. x - 1 \notin Left
  <2>1. <<x - 1, x>> \in R
    BY <1>2, <1>6
  <2>2. QED
    BY <1>5, <2>1
<1>8. QED
  BY <1>6, <1>7

\* The greatest of numbers up to n is the one among them.
LEMMA GreatestIs ==
    ASSUME NEW S \in SUBSET Int, NEW m \in S, \A x \in S : x <= m
    PROVE  Max(S) = m
<1>1. \E x \in S : \A y \in S : x >= y
  OBVIOUS
<1>2. Max(S) \in S /\ \A y \in S : Max(S) >= y
  BY <1>1 DEF Max
<1>3. Max(S) \in Int /\ m <= Max(S) /\ Max(S) <= m
  BY <1>2
<1>4. QED
  BY <1>3

\* The recursive equation of a fold over s, and that it has a solution.
Folds(iter, V, Op, base, s) ==
    /\ iter \in [SUBSET DOMAIN s -> V]
    /\ \A S \in SUBSET DOMAIN s :
          iter[S] = IF S = {} THEN base ELSE Op[<<iter[S \ {Max(S)}], s[Max(S)]>>]

LEMMA FoldExists ==
    ASSUME NEW V, NEW X, NEW Op \in [V \X X -> V], NEW base \in V, NEW s \in Seq(X)
    PROVE  \E iter : Folds(iter, V, Op, base, s)
<1> DEFINE Iter(i, g) ==
        /\ g \in [SUBSET (1 .. i) -> V]
        /\ \A S \in SUBSET (1 .. i) :
              g[S] = IF S = {} THEN base ELSE Op[<<g[S \ {Max(S)}], s[Max(S)]>>]
           Held == {i \in 0 .. Len(s) : \E g : Iter(i, g)}
<1>1. 0 \in Held
  <2>1. 1 .. 0 = {}
    OBVIOUS
  <2>2. Iter(0, [S \in SUBSET (1 .. 0) |-> base])
    BY <2>1
  <2>3. QED
    <3> HIDE DEF Iter
    <3>1. QED
      BY <2>2
<1>2. ASSUME NEW i \in 1 .. Len(s), i - 1 \in Held PROVE i \in Held
  <2>1. PICK g : Iter(i - 1, g)
    BY <1>2
  <2> DEFINE h == [S \in SUBSET (1 .. i) |->
                      IF i \in S THEN Op[<<g[S \ {i}], s[i]>>] ELSE g[S]]
  <2>2. \A S \in SUBSET (1 .. i) : S \ {i} \in SUBSET (1 .. i - 1)
    OBVIOUS
  <2>3. s[i] \in X
    OBVIOUS
  <2>4. h \in [SUBSET (1 .. i) -> V]
    <3>1. ASSUME NEW S \in SUBSET (1 .. i) PROVE h[S] \in V
      <4>1. g[S \ {i}] \in V
        BY <2>1, <2>2
      <4>2. i \notin S => S \ {i} = S
        OBVIOUS
      <4>3. QED
        BY <2>3, <4>1, <4>2
    <3>2. QED
      BY <3>1
  <2>5. ASSUME NEW S \in SUBSET (1 .. i)
        PROVE  h[S] = IF S = {} THEN base ELSE Op[<<h[S \ {Max(S)}], s[Max(S)]>>]
    <3>1. CASE i \in S
      <4>1. Max(S) = i
        <5>1. S \in SUBSET Int /\ \A x \in S : x <= i
          OBVIOUS
        <5>2. QED
          BY <3>1, <5>1, GreatestIs
      <4>2. h[S \ {i}] = g[S \ {i}]
        OBVIOUS
      <4>3. QED
        BY <3>1, <4>1, <4>2
    <3>2. CASE i \notin S
      <4>1. S \in SUBSET (1 .. i - 1)
        <5>1. S \ {i} = S
          BY <3>2
        <5>2. QED
          BY <2>2, <5>1
      <4>4. \A x : i \notin S \ {x} /\ S \ {x} \in SUBSET (1 .. i)
        BY <3>2
      <4>2. h[S] = g[S] /\ \A x : h[S \ {x}] = g[S \ {x}]
        BY <3>2, <4>4
      <4>3. QED
        BY <2>1, <4>1, <4>2
    <3>3. QED
      BY <3>1, <3>2
  <2>6. Iter(i, h)
    <3> HIDE DEF h
    <3>1. QED
      BY <2>4, <2>5
  <2>7. QED
    <3> HIDE DEF Iter
    <3>1. QED
      BY <2>6
<1>3. Len(s) \in Nat /\ DOMAIN s = 1 .. Len(s)
  OBVIOUS
<1>4. Len(s) \in Held
  <2> HIDE DEF Held
  <2>1. 0 .. Len(s) \subseteq Held
    BY <1>1, <1>2, <1>3, Upwards
  <2>2. QED
    BY <1>3, <2>1
<1>5. PICK g : Iter(Len(s), g)
  BY <1>4
<1>6. QED
  BY <1>3, <1>5 DEF Folds

\* A set of numbers up to n has its greatest among them, and 1 .. i is i with
\* the numbers before it.
LEMMA Greatest ==
    ASSUME NEW n \in Nat
    PROVE  /\ \A S \in SUBSET (1 .. n) : S # {} => Max(S) \in S
           /\ \A i \in 1 .. n : /\ (1 .. i) \in SUBSET (1 .. n) /\ 1 .. i # {}
                               /\ Max(1 .. i) = i /\ (1 .. i) \ {i} = 1 .. (i - 1)
<1>1. ASSUME NEW S \in SUBSET (1 .. n), S # {} PROVE Max(S) \in S
  <2> DEFINE Clear == {i \in 0 .. n : S \cap (1 .. i) = {} \/ \E m \in S : \A x \in S \cap (1 .. i) : x <= m}
  <2>1. 0 \in Clear
    OBVIOUS
  <2>2. ASSUME NEW i \in 1 .. n, i - 1 \in Clear PROVE i \in Clear
    <3>1. CASE i \in S
      <4>1. \A x \in S \cap (1 .. i) : x <= i
        OBVIOUS
      <4>2. QED
        BY <3>1, <4>1
    <3>2. CASE i \notin S
      <4>1. S \cap (1 .. i) = S \cap (1 .. i - 1)
        BY <3>2
      <4>2. QED
        BY <2>2, <4>1
    <3>3. QED
      BY <3>1, <3>2
  <2>3. n \in Clear
    <3> HIDE DEF Clear
    <3>1. QED
      BY <2>1, <2>2, Upwards
  <2>4. PICK m \in S : \A x \in S : x <= m
    BY <1>1, <2>3
  <2>5. QED
    BY <2>4, GreatestIs
<1>2. ASSUME NEW i \in 1 .. n
      PROVE  /\ (1 .. i) \in SUBSET (1 .. n) /\ 1 .. i # {}
             /\ Max(1 .. i) = i /\ (1 .. i) \ {i} = 1 .. (i - 1)
  <2>1. (1 .. i) \in SUBSET Int /\ i \in 1 .. i /\ \A x \in 1 .. i : x <= i
    OBVIOUS
  <2>2. Max(1 .. i) = i
    BY <2>1, GreatestIs
  <2>3. QED
    BY <2>1, <2>2
<1>3. QED
  BY <1>1, <1>2

\* iter is base of nothing and, where it is in V, the next by Op.
Unfolds(iter, V, Op, base, s) ==
    /\ iter[{}] = base
    /\ \A T \in SUBSET DOMAIN s :
          T # {} /\ iter[T \ {Max(T)}] \in V => iter[T] = Op[<<iter[T \ {Max(T)}], s[Max(T)]>>]

\* The values a fold runs through, from base to the result.
RunsTo(pass, V, Op, base, s, result) ==
    /\ pass \in [0 .. Len(s) -> V]
    /\ pass[0] = base /\ pass[Len(s)] = result
    /\ \A i \in 1 .. Len(s) : pass[i] = Op[<<pass[i - 1], s[i]>>]

LEMMA FoldRuns ==
    ASSUME NEW V, NEW X, NEW Op \in [V \X X -> V], NEW base \in V, NEW s \in Seq(X),
           NEW iter, Unfolds(iter, V, Op, base, s)
    PROVE  \E pass : RunsTo(pass, V, Op, base, s, iter[DOMAIN s])
<1> DEFINE n == Len(s)
           pass == [i \in 0 .. n |-> iter[1 .. i]]
           Typed == {i \in 0 .. n : iter[1 .. i] \in V}
<1>1. n \in Nat /\ DOMAIN s = 1 .. n /\ \A i \in 1 .. n : s[i] \in X
  OBVIOUS
<1>2. iter[1 .. 0] = base
  <2>1. 1 .. 0 = {}
    OBVIOUS
  <2>2. QED
    BY <2>1 DEF Unfolds
<1>3. ASSUME NEW i \in 1 .. n, iter[1 .. (i - 1)] \in V
      PROVE  iter[1 .. i] = Op[<<iter[1 .. (i - 1)], s[i]>>]
  <2>1. /\ (1 .. i) \in SUBSET DOMAIN s /\ 1 .. i # {}
        /\ Max(1 .. i) = i /\ (1 .. i) \ {i} = 1 .. (i - 1)
    BY <1>1, Greatest
  <2>2. QED
    BY <1>3, <2>1 DEF Unfolds
<1>4. 0 \in Typed
  <2>1. 0 \in 0 .. n
    BY <1>1
  <2>2. iter[1 .. 0] \in V
    BY <1>2
  <2>3. QED
    BY <2>1, <2>2
<1>5. ASSUME NEW i \in 1 .. n, i - 1 \in Typed PROVE i \in Typed
  <2>1. iter[1 .. (i - 1)] \in V /\ s[i] \in X
    BY <1>1, <1>5
  <2>2. iter[1 .. i] \in V
    BY <1>3, <2>1
  <2>3. QED
    BY <1>1, <2>2
<1>6. 0 .. n \subseteq Typed
  <2> HIDE DEF Typed
  <2>1. QED
    BY <1>1, <1>4, <1>5, Upwards
<1>7. \A i \in 0 .. n : iter[1 .. i] \in V
  BY <1>6
<1>8. pass \in [0 .. n -> V]
  BY <1>7
<1>9. pass[0] = base /\ pass[n] = iter[DOMAIN s]
  BY <1>1, <1>2
<1>10. ASSUME NEW i \in 1 .. n PROVE pass[i] = Op[<<pass[i - 1], s[i]>>]
  <2>1. i - 1 \in 0 .. n /\ i \in 0 .. n
    BY <1>1
  <2>2. pass[i] = iter[1 .. i] /\ pass[i - 1] = iter[1 .. (i - 1)]
    BY <2>1
  <2>3. QED
    BY <1>3, <1>7, <2>1, <2>2
<1>11. QED
  <2> HIDE DEF pass
  <2>1. QED
    BY <1>8, <1>9, <1>10 DEF RunsTo

\* A function along a sequence is a sequence, as long.
LEMMA MappedSeq ==
    ASSUME NEW X, NEW seq \in Seq(X), NEW Y, NEW f,
           f = [i \in DOMAIN seq |-> f[i]], \A i \in DOMAIN seq : f[i] \in Y
    PROVE  f \in Seq(Y) /\ Len(f) = Len(seq)
<1>1. Len(seq) \in Nat /\ DOMAIN seq = 1 .. Len(seq)
  OBVIOUS
<1>2. f \in [1 .. Len(seq) -> Y]
  BY <1>1
<1>3. f \in Seq(Y)
  BY <1>1, <1>2, SeqDef
<1>4. QED
  BY <1>1, <1>2, <1>3

LEMMA AlongASeq ==
    ASSUME NEW X, NEW seq \in Seq(X), NEW f, f = [i \in DOMAIN seq |-> f[i]]
    PROVE  \E Y : f \in Seq(Y)
<1> DEFINE Y == {f[i] : i \in DOMAIN seq}
<1>1. \A i \in DOMAIN seq : f[i] \in Y
  OBVIOUS
<1> HIDE DEF Y
<1>2. f \in Seq(Y)
  BY <1>1, MappedSeq
<1>3. QED
  BY <1>2

\* What is a on its first places and b after them is a \o b.
LEMMA JoinedIs ==
    ASSUME NEW X, NEW a \in Seq(X), NEW b \in Seq(X), NEW c \in Seq(X), Len(c) = Len(a) + Len(b),
           \A i \in 1 .. Len(a) : c[i] = a[i],
           \A i \in Len(a) + 1 .. Len(a) + Len(b) : c[i] = b[i - Len(a)]
    PROVE  c = a \o b
<1>1. Len(a) \in Nat /\ Len(b) \in Nat
  OBVIOUS
<1>2. /\ a \o b \in Seq(X) /\ Len(a \o b) = Len(c)
      /\ \A i \in 1 .. Len(a) + Len(b) : (a \o b)[i] = IF i <= Len(a) THEN a[i] ELSE b[i - Len(a)]
  BY ConcatProperties
<1>3. ASSUME NEW i \in 1 .. Len(c) PROVE c[i] = (a \o b)[i]
  <2>1. CASE i <= Len(a)
    BY <1>1, <1>2, <2>1
  <2>2. CASE ~(i <= Len(a))
    <3>1. i \in Len(a) + 1 .. Len(a) + Len(b)
      BY <1>1, <2>2
    <3>2. QED
      BY <1>2, <2>2, <3>1
  <2>3. QED
    BY <2>1, <2>2
<1>4. QED
  BY <1>2, <1>3, SeqEqual

\* The values Kept runs through.
LEMMA KeptRuns ==
    ASSUME NEW X, NEW seq \in Seq(X), NEW S
    PROVE  \E pass \in [0 .. Len(seq) -> Seq(X)] :
              /\ pass[0] = << >> /\ pass[Len(seq)] = Kept(seq, S)
              /\ \A i \in 1 .. Len(seq) :
                    pass[i] = IF seq[i] \in S THEN Append(pass[i - 1], seq[i]) ELSE pass[i - 1]
<1> DEFINE n == Len(seq)
           Op == [p \in (Seq(X)) \X (X) |-> IF p[2] \in S THEN Append(p[1], p[2]) ELSE p[1]]
           Solves(f) == f = [T \in SUBSET DOMAIN seq |->
                               IF T = {} THEN << >>
                               ELSE IF seq[Max(T)] \in S THEN Append(f[T \ {Max(T)}], seq[Max(T)]) ELSE f[T \ {Max(T)}]]
           iter == CHOOSE f : Solves(f)
<1>1. Op \in [(Seq(X)) \X (X) -> Seq(X)] /\ << >> \in Seq(X)
  OBVIOUS
<1>2. ASSUME NEW f, NEW T \in SUBSET DOMAIN seq, T # {}, f[T \ {Max(T)}] \in Seq(X)
      PROVE  Op[<<f[T \ {Max(T)}], seq[Max(T)]>>] = IF seq[Max(T)] \in S THEN Append(f[T \ {Max(T)}], seq[Max(T)]) ELSE f[T \ {Max(T)}]
  <2>1. Len(seq) \in Nat /\ DOMAIN seq = 1 .. Len(seq)
    OBVIOUS
  <2>2. Max(T) \in DOMAIN seq
    BY <1>2, <2>1, Greatest
  <2>3. seq[Max(T)] \in X
    BY <2>2
  <2>4. QED
    BY <1>2, <2>3
<1>3. \E f : Solves(f)
  <2> HIDE DEF Op
  <2>1. PICK f : Folds(f, Seq(X), Op, << >>, seq)
    BY <1>1, FoldExists
  <2>2. \A T \in SUBSET DOMAIN seq : T # {} => f[T \ {Max(T)}] \in Seq(X)
    BY <2>1 DEF Folds
  <2>3. Solves(f)
    BY <1>2, <2>1, <2>2 DEF Folds
  <2> HIDE DEF Solves
  <2>4. QED
    BY <2>3
<1>4. Solves(iter)
  <2> HIDE DEF Solves
  <2>1. QED
    BY <1>3
<1>5. Kept(seq, S) = iter[DOMAIN seq]
  BY DEF Kept, FoldLeft, MapThenFoldSet
<1> HIDE DEF iter, Op
<1>6. Unfolds(iter, Seq(X), Op, << >>, seq)
  BY <1>2, <1>4 DEF Unfolds
<1> HIDE DEF Solves
<1>7. PICK pass : RunsTo(pass, Seq(X), Op, << >>, seq, Kept(seq, S))
  <2>1. \E pass : RunsTo(pass, Seq(X), Op, << >>, seq, iter[DOMAIN seq])
    BY <1>1, <1>6, FoldRuns
  <2>2. QED
    BY <1>5, <2>1
<1>8. ASSUME NEW i \in 1 .. n PROVE pass[i] = IF seq[i] \in S THEN Append(pass[i - 1], seq[i]) ELSE pass[i - 1]
  <2>1. pass[i - 1] \in Seq(X) /\ seq[i] \in X /\ pass[i] = Op[<<pass[i - 1], seq[i]>>]
    <3>1. i \in 1 .. Len(seq) /\ i - 1 \in 0 .. Len(seq)
      OBVIOUS
    <3>2. pass \in [0 .. Len(seq) -> Seq(X)] /\ pass[i] = Op[<<pass[i - 1], seq[i]>>]
      BY <1>7, <3>1 DEF RunsTo
    <3>3. QED
      BY <3>1, <3>2
  <2>2. QED
    BY <2>1 DEF Op
<1>9. QED
  BY <1>7, <1>8 DEF RunsTo

\* Kept returns a sequence of the same elements; and what it is when they are
\* in S up to a place and not after it.
LEMMA KeptSeq ==
    ASSUME NEW X, NEW seq \in Seq(X), NEW S
    PROVE  Kept(seq, S) \in Seq(X)
BY KeptRuns

LEMMA KeptIn ==
    ASSUME NEW X, NEW seq \in Seq(X), NEW S
    PROVE  \A k \in DOMAIN Kept(seq, S) : Kept(seq, S)[k] \in S
<1> DEFINE n == Len(seq)
<1>1. n \in Nat /\ \A i \in 1 .. n : seq[i] \in X
  OBVIOUS
<1>2. PICK pass \in [0 .. n -> Seq(X)] :
        /\ pass[0] = << >> /\ pass[n] = Kept(seq, S)
        /\ \A i \in 1 .. n : pass[i] = IF seq[i] \in S THEN Append(pass[i - 1], seq[i]) ELSE pass[i - 1]
  BY KeptRuns
<1> DEFINE Held == {i \in 0 .. n : \A k \in DOMAIN pass[i] : pass[i][k] \in S}
<1>3. 0 \in Held
  BY <1>1, <1>2
<1>4. ASSUME NEW i \in 1 .. n, i - 1 \in Held PROVE i \in Held
  <2>1. pass[i - 1] \in Seq(X) /\ seq[i] \in X
    BY <1>1, <1>2
  <2>2. \A k \in DOMAIN pass[i - 1] : pass[i - 1][k] \in S
    BY <1>4
  <2>3. CASE seq[i] \in S
    <3>1. pass[i] = Append(pass[i - 1], seq[i])
      BY <1>1, <1>2, <2>3
    <3>2. \A k \in DOMAIN pass[i] : pass[i][k] \in S
      BY <2>1, <2>2, <2>3, <3>1
    <3>3. QED
      BY <3>2
  <2>4. CASE seq[i] \notin S
    BY <1>1, <1>2, <2>2, <2>4
  <2>5. QED
    BY <2>3, <2>4
<1>5. n \in Held
  <2> HIDE DEF Held
  <2>1. 0 .. n \subseteq Held
    BY <1>1, <1>3, <1>4, Upwards
  <2>2. QED
    BY <1>1, <2>1
<1>6. QED
  BY <1>2, <1>5

SplitAt(seq, S, m) ==
    /\ m \in 0 .. Len(seq)
    /\ \A i \in 1 .. m : seq[i] \in S
    /\ \A i \in m + 1 .. Len(seq) : seq[i] \notin S

LEMMA KeptSplit ==
    ASSUME NEW X, NEW seq \in Seq(X), NEW S, NEW m
    PROVE  SplitAt(seq, S, m) =>
              /\ Kept(seq, S) \in Seq(X) /\ Len(Kept(seq, S)) = m
              /\ \A k \in 1 .. m : Kept(seq, S)[k] = seq[k]
<1> DEFINE n == Len(seq)
<1>2. PICK pass \in [0 .. n -> Seq(X)] :
        /\ pass[0] = << >> /\ pass[n] = Kept(seq, S)
        /\ \A i \in 1 .. n : pass[i] = IF seq[i] \in S THEN Append(pass[i - 1], seq[i]) ELSE pass[i - 1]
  BY KeptRuns
<1>0. SUFFICES ASSUME SplitAt(seq, S, m)
               PROVE  /\ Kept(seq, S) \in Seq(X) /\ Len(Kept(seq, S)) = m
                      /\ \A k \in 1 .. m : Kept(seq, S)[k] = seq[k]
  OBVIOUS
<1>1. n \in Nat /\ m \in Nat /\ m <= n /\ \A i \in 1 .. n : seq[i] \in X
  BY <1>0 DEF SplitAt
<1> DEFINE Upto(i) == IF i < m THEN i ELSE m
           Held == {i \in 0 .. n : /\ Len(pass[i]) = Upto(i)
                                   /\ \A k \in 1 .. Upto(i) : pass[i][k] = seq[k]}
<1>3. 0 \in Held
  BY <1>1, <1>2
<1>4. ASSUME NEW i \in 1 .. n, i - 1 \in Held PROVE i \in Held
  <2>1. pass[i - 1] \in Seq(X) /\ seq[i] \in X
    BY <1>1, <1>2
  <2>2. CASE i <= m
    <3>1. seq[i] \in S /\ Upto(i) = i /\ Upto(i - 1) = i - 1
      BY <1>0, <1>1, <2>2 DEF SplitAt
    <3>2. pass[i] = Append(pass[i - 1], seq[i])
      BY <1>1, <1>2, <3>1
    <3>3. Len(pass[i - 1]) = i - 1 /\ \A k \in 1 .. i - 1 : pass[i - 1][k] = seq[k]
      BY <1>4, <3>1
    <3>4. Len(pass[i]) = i /\ \A k \in 1 .. i : pass[i][k] = seq[k]
      BY <1>1, <2>1, <3>2, <3>3
    <3>5. QED
      BY <1>1, <3>1, <3>4
  <2>3. CASE m < i
    <3>1. seq[i] \notin S /\ Upto(i) = Upto(i - 1)
      BY <1>0, <1>1, <2>3 DEF SplitAt
    <3>2. pass[i] = pass[i - 1]
      BY <1>1, <1>2, <3>1
    <3>3. QED
      BY <1>1, <1>4, <3>1, <3>2
  <2>4. QED
    BY <1>1, <2>2, <2>3
<1>5. n \in Held
  <2> HIDE DEF Held
  <2>1. 0 .. n \subseteq Held
    BY <1>1, <1>3, <1>4, Upwards
  <2>2. QED
    BY <1>1, <2>1
<1>6. Upto(n) = m /\ n \in 0 .. n
  BY <1>1
<1>7. QED
  BY <1>2, <1>5, <1>6

\* UpTo gives sequences.
LEMMA UpToSeq ==
    ASSUME NEW n \in Nat, NEW S, NEW s \in UpTo(n, S)
    PROVE  s \in Seq(S)
<1>1. PICK k \in 0 .. n : s \in [1 .. k -> S]
  BY DEF UpTo
<1>2. k \in Nat
  OBVIOUS
<1>3. QED
  BY <1>1, <1>2, SeqDef

\* A sequence is one of what it holds, and SubSeq of it holds no more.
LEMMA Parts ==
    ASSUME NEW X, NEW s \in Seq(X), NEW a \in Nat \ {0}, NEW b \in 0 .. Len(s)
    PROVE  /\ SubSeq(s, a, b) \in Seq(X)
           /\ \A x \in ToSet(SubSeq(s, a, b)) : \E i \in a .. b : i \in DOMAIN s /\ s[i] = x
<1> DEFINE w == SubSeq(s, a, b)
<1>1. Len(s) \in Nat /\ DOMAIN s = 1 .. Len(s) /\ \A i \in 1 .. Len(s) : s[i] \in X
  OBVIOUS
<1>2. CASE a <= b
  <2>1. w \in Seq(X) /\ Len(w) = b - a + 1 /\ \A i \in 1 .. b - a + 1 : w[i] = s[a + i - 1]
    BY <1>1, <1>2, SubSeqProperties
  <2>2. ASSUME NEW i \in DOMAIN w PROVE \E k \in a .. b : k \in DOMAIN s /\ s[k] = w[i]
    <3>1. i \in 1 .. b - a + 1
      BY <2>1
    <3>2. a + i - 1 \in a .. b /\ a + i - 1 \in DOMAIN s /\ s[a + i - 1] = w[i]
      BY <1>1, <2>1, <3>1
    <3>3. QED
      BY <3>2
  <2> HIDE DEF w
  <2>3. \A x \in ToSet(w) : \E i \in DOMAIN w : w[i] = x
    BY DEF ToSet
  <2>4. QED
    BY <2>1, <2>2, <2>3 DEF w
<1>3. CASE b < a
  <2>1. w = << >>
    BY <1>1, <1>3, SubSeqEmpty
  <2>2. ToSet(<< >>) = {}
    BY DEF ToSet
  <2> HIDE DEF w
  <2>3. QED
    BY <2>1, <2>2 DEF w
<1>4. QED
  BY <1>1, <1>2, <1>3

\* What Kept returns is of the sequence, in S, and once if the sequence is.
LEMMA KeptDistinct ==
    ASSUME NEW X, NEW seq \in Seq(X), NEW S
    PROVE  Distinct(seq) => /\ Kept(seq, S) \in Seq(X) /\ Distinct(Kept(seq, S))
                        /\ ToSet(Kept(seq, S)) \subseteq ToSet(seq) \cap S
<1> DEFINE n == Len(seq)
<1>1. n \in Nat /\ DOMAIN seq = 1 .. n /\ \A i \in 1 .. n : seq[i] \in X
  OBVIOUS
<1>2. PICK pass \in [0 .. n -> Seq(X)] :
        /\ pass[0] = << >> /\ pass[n] = Kept(seq, S)
        /\ \A i \in 1 .. n : pass[i] = IF seq[i] \in S THEN Append(pass[i - 1], seq[i]) ELSE pass[i - 1]
  BY KeptRuns
<1>0. SUFFICES ASSUME Distinct(seq)
               PROVE  /\ Kept(seq, S) \in Seq(X) /\ Distinct(Kept(seq, S))
                      /\ ToSet(Kept(seq, S)) \subseteq ToSet(seq) \cap S
  OBVIOUS
<1> DEFINE From(w, i) == \A k \in DOMAIN w : \E m \in 1 .. i : seq[m] = w[k]
           Held == {i \in 0 .. n : Distinct(pass[i]) /\ From(pass[i], i)}
<1>3. 0 \in Held
  BY <1>1, <1>2 DEF Distinct
<1>4. ASSUME NEW i \in 1 .. n, i - 1 \in Held PROVE i \in Held
  <2>1. pass[i - 1] \in Seq(X) /\ seq[i] \in X
    BY <1>1, <1>2
  <2>2. Distinct(pass[i - 1]) /\ From(pass[i - 1], i - 1)
    BY <1>4
  <2>3. CASE seq[i] \in S
    <3> DEFINE w == pass[i - 1]
               m == Len(w)
               v == Append(w, seq[i])
    <3>1. pass[i] = v
      BY <1>1, <1>2, <2>3
    <3>2. /\ m \in Nat /\ DOMAIN w = 1 .. m /\ DOMAIN v = 1 .. (m + 1)
          /\ \A k \in 1 .. m : v[k] = w[k]
          /\ v[m + 1] = seq[i]
      BY <2>1
    <3>3. \A k \in 1 .. m : w[k] # seq[i]
      <4>1. SUFFICES ASSUME NEW k \in 1 .. m, w[k] = seq[i] PROVE FALSE
        OBVIOUS
      <4>2. PICK a \in 1 .. i - 1 : seq[a] = w[k]
        BY <2>2, <3>2
      <4>3. a \in DOMAIN seq /\ i \in DOMAIN seq /\ a # i
        BY <1>1
      <4>4. QED
        BY <1>0, <4>1, <4>2, <4>3 DEF Distinct
    <3> HIDE DEF v
    <3>4. \A a, b \in 1 .. m : w[a] = w[b] => a = b
      BY <2>2, <3>2 DEF Distinct
    <3>5. Distinct(v)
      <4>1. ASSUME NEW a \in 1 .. (m + 1), NEW b \in 1 .. (m + 1), v[a] = v[b] PROVE a = b
        <5>1. a \in 1 .. m \/ a = m + 1
          BY <3>2
        <5>2. b \in 1 .. m \/ b = m + 1
          BY <3>2
        <5>3. QED
          BY <3>2, <3>3, <3>4, <4>1, <5>1, <5>2
      <4>2. QED
        BY <3>2, <4>1 DEF Distinct
    <3>6. From(v, i)
      <4>1. ASSUME NEW k \in 1 .. (m + 1) PROVE \E a \in 1 .. i : seq[a] = v[k]
        <5>1. CASE k = m + 1
          BY <1>1, <3>2, <5>1
        <5>2. CASE k \in 1 .. m
          <6>1. PICK a \in 1 .. i - 1 : seq[a] = w[k]
            BY <2>2, <3>2, <5>2
          <6>2. a \in 1 .. i
            BY <1>1
          <6>3. QED
            BY <3>2, <5>2, <6>1, <6>2
        <5>3. QED
          BY <3>2, <5>1, <5>2
      <4>2. QED
        BY <3>2, <4>1
    <3>7. QED
      BY <1>1, <3>1, <3>5, <3>6
  <2>4. CASE seq[i] \notin S
    <3>1. pass[i] = pass[i - 1]
      BY <1>1, <1>2, <2>4
    <3>2. 1 .. i - 1 \subseteq 1 .. i
      BY <1>1
    <3>3. From(pass[i], i)
      BY <2>2, <3>1, <3>2
    <3>4. QED
      BY <1>1, <2>2, <3>1, <3>3
  <2>5. QED
    BY <2>3, <2>4
<1>5. Distinct(Kept(seq, S)) /\ From(Kept(seq, S), n)
  <2>1. 0 .. n \subseteq Held
    <3> HIDE DEF Held
    <3>1. QED
      BY <1>1, <1>3, <1>4, Upwards
  <2>2. n \in Held
    BY <1>1, <2>1
  <2>3. QED
    BY <1>2, <2>2
<1>6. \A k \in DOMAIN Kept(seq, S) : Kept(seq, S)[k] \in S
  BY KeptIn
<1>7. QED
  BY <1>1, <1>5, <1>6, KeptSeq DEF ToSet


LEMMA OwnSeq ==
    ASSUME NEW X, NEW seq \in Seq(X)
    PROVE  seq \in Seq(ToSet(seq))
<1>1. Len(seq) \in Nat /\ DOMAIN seq = 1 .. Len(seq) /\ seq = [i \in DOMAIN seq |-> seq[i]]
  OBVIOUS
<1>2. \A i \in DOMAIN seq : seq[i] \in ToSet(seq)
  BY DEF ToSet
<1>3. QED
  BY <1>1, <1>2, MappedSeq

LEMMA SubDistinct ==
    ASSUME NEW X, NEW s \in Seq(X), NEW b \in 0 .. Len(s)
    PROVE  Distinct(s) => SubSeq(s, 1, b) \in Seq(X) /\ Distinct(SubSeq(s, 1, b))
<1> DEFINE w == SubSeq(s, 1, b)
<1>1. Len(s) \in Nat /\ DOMAIN s = 1 .. Len(s) /\ b \in Nat
  OBVIOUS
<1>2. CASE b = 0
  <2>1. w = << >>
    BY <1>1, <1>2, SubSeqEmpty
  <2>2. << >> \in Seq(X) /\ Distinct(<< >>)
    BY EmptySeq DEF Distinct
  <2> HIDE DEF w
  <2>3. w \in Seq(X) /\ Distinct(w)
    BY <2>1, <2>2, Zenon
  <2>4. QED
    BY <2>3 DEF w
<1>3. CASE 1 <= b
  <2>1. w \in Seq(X) /\ Len(w) = b /\ \A i \in 1 .. b : w[i] = s[i]
    <3>1. 1 \in 1 .. Len(s) + 1 /\ b \in 1 - 1 .. Len(s)
      BY <1>1, <1>3
    <3>2. QED
      BY <1>1, <1>3, <3>1, SubSeqProperties
  <2> HIDE DEF w
  <2>2. DOMAIN w = 1 .. b
    BY <2>1
  <2>3. Distinct(s) => Distinct(w)
    BY <1>1, <2>1, <2>2 DEF Distinct
  <2>4. QED
    BY <2>1, <2>3 DEF w
<1>4. QED
  BY <1>1, <1>2, <1>3

=============================================================================
