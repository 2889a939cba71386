--------------------------- MODULE OperatorProofs ---------------------------
(***************************************************************************)
(* Lemmas about operators several modules are built from, and the theorem  *)
(* about the times vcap.barcode recovers from the low bits it paints.      *)
(*                                                                         *)
(* What a recursion computes is proved here by the well-foundedness of <   *)
(* on the naturals: the set of the numbers for which a statement is true   *)
(* has no least number outside it.                                         *)
(***************************************************************************)
EXTENDS Nearness, Sequences, SequencesExt, SequenceTheorems, WellFoundedInduction, TLAPS

-----------------------------------------------------------------------------
(* Induction, for sets of numbers.                                         *)


\* A set of naturals that is not empty has a least one.
LEMMA LeastNumber ==
    ASSUME NEW T \in SUBSET Nat, T # {}
    PROVE  \E m \in T : \A k \in T : m <= k
<1>1. PICK m \in T : \A k \in T : <<k, m>> \notin OpToRel(<, Nat)
  BY NatLessThanWellFounded, WFMin
<1>2. \A k \in T : ~(k < m)
  BY <1>1 DEF OpToRel
<1> QED  BY <1>2

\* Induction over the naturals, for a set: no operator is needed.
LEMMA SetInduction ==
    ASSUME NEW T \in SUBSET Nat, 0 \in T, \A n \in T : n + 1 \in T
    PROVE  T = Nat
<1> SUFFICES ASSUME Nat \ T # {} PROVE FALSE
  OBVIOUS
<1>1. PICK m \in Nat \ T : \A k \in Nat \ T : m <= k
  BY LeastNumber
<1>2. m # 0
  OBVIOUS
<1>3. m - 1 \in T
  BY <1>1, <1>2
<1> QED  BY <1>1, <1>3

-----------------------------------------------------------------------------
\* The recursion of FlattenSeq, up to n.
Solves(f, ss, n) ==
    f = [i \in 1..n |-> IF i = 1 THEN ss[i] ELSE f[i - 1] \o ss[i]]

\* One equation of a solution.
LEMMA SolvedAt ==
    ASSUME NEW f, NEW ss, NEW n, Solves(f, ss, n), NEW i \in 1..n
    PROVE  f[i] = IF i = 1 THEN ss[i] ELSE f[i - 1] \o ss[i]
<1> DEFINE h == [j \in 1..n |-> IF j = 1 THEN ss[j] ELSE f[j - 1] \o ss[j]]
<1>1. h[i] = IF i = 1 THEN ss[i] ELSE f[i - 1] \o ss[i]
  OBVIOUS
<1>2. f = h
  BY Zenon DEF Solves
<1> HIDE DEF h
<1> QED  BY <1>1, <1>2

\* It has a solution, for every n, ...
LEMMA Solvable ==
    ASSUME NEW ss
    PROVE  \A n \in Nat : \E f : Solves(f, ss, n)
<1> DEFINE T == {n \in Nat : \E f : Solves(f, ss, n)}
<1>1. 0 \in T
  <2>1. Solves([i \in 1..0 |-> <<>>], ss, 0)
    BY DEF Solves
  <2> QED  BY <2>1
<1>2. ASSUME NEW n \in T PROVE n + 1 \in T
  <2>1. PICK f : Solves(f, ss, n)
    OBVIOUS
  <2> DEFINE g == [i \in 1..(n + 1) |->
                     IF i <= n THEN f[i]
                     ELSE IF i = 1 THEN ss[i] ELSE f[i - 1] \o ss[i]]
  <2>2. ASSUME NEW i \in 1..(n + 1)
        PROVE  g[i] = IF i = 1 THEN ss[i] ELSE g[i - 1] \o ss[i]
    <3>1. CASE i <= n
      <4>1. i \in 1..n
        BY <3>1
      <4>2. f[i] = IF i = 1 THEN ss[i] ELSE f[i - 1] \o ss[i]
        BY <2>1, <4>1, SolvedAt
      <4>3. g[i] = f[i] /\ (i # 1 => g[i - 1] = f[i - 1])
        BY <3>1
      <4> QED  BY <4>2, <4>3
    <3>2. CASE i = n + 1
      BY <3>2
    <3> QED  BY <3>1, <3>2
  <2>3. Solves(g, ss, n + 1)
    BY <2>2, Zenon DEF Solves
  <2> QED  BY <2>3
<1> HIDE DEF T
<1>3. T = Nat
  BY <1>1, <1>2, SetInduction DEF T
<1> QED  BY <1>3 DEF T

\* ... which depends on the first sequences only.
Agree(f, g, n) == \A i \in 1..n : f[i] = g[i]

\* Two solutions agree as far as their sequences do.
LEMMA SolvedAlike ==
    ASSUME NEW ss, NEW tt, NEW n \in Nat, NEW m \in Nat, n <= m, Agree(ss, tt, n),
           NEW f, NEW g, Solves(f, ss, n), Solves(g, tt, m)
    PROVE  Agree(f, g, n)
<1> USE DEF Agree
<1> DEFINE T == {k \in Nat : k \in 1..n => f[k] = g[k]}
<1>1. 0 \in T
  OBVIOUS
<1>2. ASSUME NEW k \in T PROVE k + 1 \in T
  <2>1. SUFFICES ASSUME k + 1 \in 1..n PROVE f[k + 1] = g[k + 1]
    OBVIOUS
  <2>2. f[k + 1] = IF k + 1 = 1 THEN ss[k + 1] ELSE f[k] \o ss[k + 1]
    BY <2>1, SolvedAt
  <2>3. g[k + 1] = IF k + 1 = 1 THEN tt[k + 1] ELSE g[k] \o tt[k + 1]
    BY <2>1, SolvedAt
  <2> QED  BY <2>1, <2>2, <2>3
<1> HIDE DEF T
<1>3. T = Nat
  BY <1>1, <1>2, SetInduction DEF T
<1> QED  BY <1>3 DEF T

\* FlattenSeq is the last value of a solution.
LEMMA FlattenSolves ==
    ASSUME NEW ss, Len(ss) \in Nat \ {0}
    PROVE  \E f : Solves(f, ss, Len(ss)) /\ FlattenSeq(ss) = f[Len(ss)]
<1> DEFINE f == CHOOSE g : Solves(g, ss, Len(ss))
<1>1. Solves(f, ss, Len(ss))
  BY Solvable
<1>2. FlattenSeq(ss) = f[Len(ss)]
  BY DEF FlattenSeq, Solves
<1> QED  BY <1>1, <1>2

\* Without a sequence there is nothing.
LEMMA FlattenNone ==
    ASSUME NEW ss, Len(ss) = 0
    PROVE  FlattenSeq(ss) = ss
BY DEF FlattenSeq

\* The first k of some sequences.
First(ss, k) == [i \in 1..k |-> ss[i]]

\* The first k elements.
LEMMA FirstIs ==
    ASSUME NEW ss, NEW k \in Nat
    PROVE  Len(First(ss, k)) = k /\ \A i \in 1..k : First(ss, k)[i] = ss[i]
BY DEF First

\* They are again a sequence of sequences.
LEMMA FirstType ==
    ASSUME NEW S, NEW n \in Nat, NEW ss \in [1..n -> Seq(S)], NEW k \in 0..n
    PROVE  First(ss, k) \in Seq(Seq(S))
<1> DEFINE h == First(ss, k)
<1>1. h \in [1..k -> Seq(S)]
  BY DEF First
<1>2. k \in Nat
  OBVIOUS
<1> HIDE DEF h
<1>3. h \in Seq(Seq(S))
  BY <1>1, <1>2
<1> QED  BY <1>3 DEF h

\* Flattened, they are a sequence, ...
LEMMA FlattenType ==
    ASSUME NEW S, NEW ss \in Seq(Seq(S))
    PROVE  FlattenSeq(ss) \in Seq(S)
<1>1. CASE Len(ss) = 0
  <2>1. FlattenSeq(ss) = ss
    BY <1>1, FlattenNone
  <2>2. ss = <<>>
    BY <1>1
  <2> QED  BY <2>1, <2>2
<1>2. CASE Len(ss) # 0
  <2>1. PICK f : Solves(f, ss, Len(ss)) /\ FlattenSeq(ss) = f[Len(ss)]
    BY <1>2, FlattenSolves
  <2> DEFINE T == {k \in Nat : k \in 1..Len(ss) => f[k] \in Seq(S)}
  <2>2. 0 \in T
    OBVIOUS
  <2>3. ASSUME NEW k \in T PROVE k + 1 \in T
    <3> SUFFICES ASSUME k + 1 \in 1..Len(ss) PROVE f[k + 1] \in Seq(S)
      OBVIOUS
    <3>1. f[k + 1] = IF k + 1 = 1 THEN ss[k + 1] ELSE f[k] \o ss[k + 1]
      BY <2>1, SolvedAt
    <3>2. ss[k + 1] \in Seq(S)
      OBVIOUS
    <3>3. k + 1 # 1 => f[k] \in Seq(S)
      <4>1. k + 1 # 1 => k \in 1..Len(ss)
        OBVIOUS
      <4> QED  BY <4>1
    <3> HIDE DEF T
    <3>4. CASE k + 1 = 1
      BY <3>1, <3>2, <3>4
    <3>5. CASE k + 1 # 1
      <4>1. f[k] \o ss[k + 1] \in Seq(S)
        BY <3>2, <3>3, <3>5
      <4> QED  BY <3>1, <3>5, <4>1
    <3> QED  BY <3>4, <3>5
  <2> HIDE DEF T
  <2>4. T = Nat
    BY <2>2, <2>3, SetInduction DEF T
  <2>5. Len(ss) \in Nat /\ Len(ss) \in 1..Len(ss)
    BY <1>2
  <2>6. f[Len(ss)] \in Seq(S)
    BY <2>4, <2>5 DEF T
  <2> QED  BY <2>1, <2>6
<1> QED  BY <1>1, <1>2


\* The first k, flattened.
Flat(ss, k) == FlattenSeq(First(ss, k))

\* ... to which the next one is added at the end.
LEMMA FlattenNext ==
    ASSUME NEW S, NEW n \in Nat, NEW ss \in [1..n -> Seq(S)], NEW k \in 0..(n - 1)
    PROVE  Flat(ss, k + 1) = Flat(ss, k) \o ss[k + 1]
<1>0. k \in Nat /\ k + 1 \in Nat /\ k + 1 \in 1..n
  OBVIOUS
<1>a. Len(First(ss, k)) = k /\ \A i \in 1..k : First(ss, k)[i] = ss[i]
  BY <1>0, FirstIs
<1>b. Len(First(ss, k + 1)) = k + 1 /\ \A i \in 1..(k + 1) : First(ss, k + 1)[i] = ss[i]
  BY <1>0, FirstIs
<1>1. PICK g : Solves(g, First(ss, k + 1), k + 1) /\ Flat(ss, k + 1) = g[k + 1]
  <2>1. PICK g : Solves(g, First(ss, k + 1), Len(First(ss, k + 1)))
                    /\ FlattenSeq(First(ss, k + 1)) = g[Len(First(ss, k + 1))]
    BY <1>0, <1>b, FlattenSolves
  <2> QED  BY <1>b, <2>1 DEF Flat
<1>2. g[k + 1] = IF k + 1 = 1 THEN First(ss, k + 1)[k + 1] ELSE g[k] \o First(ss, k + 1)[k + 1]
  <2>1. k + 1 \in 1..(k + 1) /\ (k + 1) - 1 = k
    OBVIOUS
  <2> QED  BY <1>1, <2>1, SolvedAt
<1>3. First(ss, k + 1)[k + 1] = ss[k + 1] /\ ss[k + 1] \in Seq(S)
  BY <1>0, <1>b
<1>4. CASE k = 0
  <2>1. First(ss, k) = <<>> /\ Len(First(ss, k)) = 0
    BY <1>4, <1>a DEF First
  <2>2. Flat(ss, k) = <<>>
    BY <2>1, FlattenNone DEF Flat
  <2> QED  BY <1>1, <1>2, <1>3, <1>4, <2>2
<1>5. CASE k # 0
  <2>1. PICK f : Solves(f, First(ss, k), k) /\ Flat(ss, k) = f[k]
    <3>1. PICK f : Solves(f, First(ss, k), Len(First(ss, k)))
                      /\ FlattenSeq(First(ss, k)) = f[Len(First(ss, k))]
      BY <1>0, <1>5, <1>a, FlattenSolves
    <3> QED  BY <1>a, <3>1 DEF Flat
  <2>2. \A i \in 1..k : First(ss, k)[i] = First(ss, k + 1)[i]
    BY <1>a, <1>b
  <2>3. \A i \in 1..k : f[i] = g[i]
    <3>1. k \in Nat /\ k + 1 \in Nat /\ k <= k + 1
      OBVIOUS
    <3>2. Solves(f, First(ss, k), k) /\ Solves(g, First(ss, k + 1), k + 1)
      BY <1>1, <2>1
    <3> DEFINE s == First(ss, k)
               t == First(ss, k + 1)
    <3> HIDE DEF s, t
    <3>3. Solves(f, s, k) /\ Solves(g, t, k + 1) /\ Agree(s, t, k)
      BY <2>2, <3>2 DEF s, t, Agree
    <3>4. Agree(f, g, k)
      BY <3>1, <3>3, SolvedAlike
    <3> QED  BY <3>4 DEF Agree
  <2>4. f[k] = g[k] /\ k + 1 # 1
    <3>1. k \in 1..k /\ k + 1 # 1
      BY <1>0, <1>5
    <3> QED  BY <2>3, <3>1
  <2> QED  BY <1>1, <1>2, <1>3, <2>1, <2>4
<1> QED  BY <1>4, <1>5

\* What FlattenSeq computes of n sequences of elements of S, one by one.
FlattensBySteps(S, n, ss) ==
    /\ Flat(ss, n) = FlattenSeq(ss)
    /\ Len(Flat(ss, 0)) = 0
    /\ \A k \in 0..n : Flat(ss, k) \in Seq(S) /\ Len(Flat(ss, k)) \in Nat
    /\ \A k \in 0..(n - 1) :
          /\ ss[k + 1] \in Seq(S) /\ Len(ss[k + 1]) \in Nat
          /\ Flat(ss, k + 1) = Flat(ss, k) \o ss[k + 1]
          /\ Len(Flat(ss, k + 1)) = Len(Flat(ss, k)) + Len(ss[k + 1])
          /\ \A p \in 1..Len(Flat(ss, k)) : Flat(ss, k + 1)[p] = Flat(ss, k)[p]
          /\ \A p \in 1..Len(ss[k + 1]) :
                Flat(ss, k + 1)[Len(Flat(ss, k)) + p] = ss[k + 1][p]

\* The flattened sequence grows by one of its parts at a time.
LEMMA FlattenSteps ==
    ASSUME NEW S, NEW n \in Nat, NEW ss \in [1..n -> Seq(S)]
    PROVE  FlattensBySteps(S, n, ss)
<1>1. Flat(ss, n) = FlattenSeq(ss)
  BY DEF Flat, First
<1>2. Len(Flat(ss, 0)) = 0
  <2>1. Len(First(ss, 0)) = 0
    BY DEF First
  <2> QED  BY <2>1, FlattenNone DEF Flat
<1>3. ASSUME NEW k \in 0..n
      PROVE  Flat(ss, k) \in Seq(S) /\ Len(Flat(ss, k)) \in Nat
  <2>1. First(ss, k) \in Seq(Seq(S))
    BY FirstType
  <2>2. Flat(ss, k) \in Seq(S)
    BY <2>1, FlattenType DEF Flat
  <2> QED  BY <2>2
<1>4. ASSUME NEW k \in 0..(n - 1)
      PROVE  /\ ss[k + 1] \in Seq(S) /\ Len(ss[k + 1]) \in Nat
             /\ Flat(ss, k + 1) = Flat(ss, k) \o ss[k + 1]
             /\ Len(Flat(ss, k + 1)) = Len(Flat(ss, k)) + Len(ss[k + 1])
             /\ \A p \in 1..Len(Flat(ss, k)) : Flat(ss, k + 1)[p] = Flat(ss, k)[p]
             /\ \A p \in 1..Len(ss[k + 1]) :
                   Flat(ss, k + 1)[Len(Flat(ss, k)) + p] = ss[k + 1][p]
  <2>1. ss[k + 1] \in Seq(S)
    OBVIOUS
  <2>2. Flat(ss, k + 1) = Flat(ss, k) \o ss[k + 1]
    BY FlattenNext
  <2>3. Flat(ss, k) \in Seq(S)
    BY <1>3
  <2> QED  BY <2>1, <2>2, <2>3
<1> QED  BY <1>1, <1>2, <1>3, <1>4 DEF FlattensBySteps

\* What is in a sequence is found behind all those before it, ...
IsPlaced(ss, n) ==
    \A k \in 0..n : \A i \in 1..k : \A j \in 1..Len(ss[i]) :
    LET p == Len(Flat(ss, i - 1)) + j
    IN  p \in 1..Len(Flat(ss, k)) /\ Flat(ss, k)[p] = ss[i][j]

\* Each element of each part is where the lengths before it say.
LEMMA FlattenPlace ==
    ASSUME NEW S, NEW n \in Nat, NEW ss \in [1..n -> Seq(S)]
    PROVE  IsPlaced(ss, n)
<1> DEFINE F(k) == Flat(ss, k)
           Placed(k) == \A i \in 1..k : \A j \in 1..Len(ss[i]) :
                            /\ Len(F(i - 1)) + j \in 1..Len(F(k))
                            /\ F(k)[Len(F(i - 1)) + j] = ss[i][j]
           T == {k \in Nat : k <= n => Placed(k)}
<1>f. FlattensBySteps(S, n, ss)
  BY FlattenSteps
<1>1. 0 \in T
  OBVIOUS
<1>2. ASSUME NEW k \in T PROVE k + 1 \in T
  <2> SUFFICES ASSUME k + 1 <= n, NEW i \in 1..(k + 1), NEW j \in 1..Len(ss[i])
               PROVE  /\ Len(F(i - 1)) + j \in 1..Len(F(k + 1))
                      /\ F(k + 1)[Len(F(i - 1)) + j] = ss[i][j]
    OBVIOUS
  <2>0. k \in 0..(n - 1) /\ k \in 0..n /\ i \in 1..n /\ i - 1 \in 0..n /\ k <= n
    OBVIOUS
  <2>1. /\ Len(F(k)) \in Nat /\ Len(F(i - 1)) \in Nat
        /\ Len(ss[k + 1]) \in Nat
        /\ Len(F(k + 1)) = Len(F(k)) + Len(ss[k + 1])
        /\ \A p \in 1..Len(F(k)) : F(k + 1)[p] = F(k)[p]
        /\ \A p \in 1..Len(ss[k + 1]) : F(k + 1)[Len(F(k)) + p] = ss[k + 1][p]
    BY <2>0, <1>f DEF FlattensBySteps
  <2>p. Placed(k)
    BY <2>0
  <2>3. CASE i = k + 1
    <3>1. i - 1 = k
      BY <2>0, <2>3
    <3>2. F(i - 1) = F(k) /\ j \in 1..Len(ss[k + 1]) /\ ss[i] = ss[k + 1]
      BY <2>3, <3>1
    <3> HIDE DEF F, T
    <3> QED  BY <2>1, <3>2
  <2>4. CASE i # k + 1
    <3>0. i \in 1..k
      BY <2>4
    <3>1. Len(F(i - 1)) + j \in 1..Len(F(k)) /\ F(k)[Len(F(i - 1)) + j] = ss[i][j]
      BY <2>p, <3>0
    <3> HIDE DEF F, T
    <3> QED  BY <2>1, <3>1
  <2> QED  BY <2>3, <2>4
<1> HIDE DEF T
<1>3. T = Nat
  BY <1>1, <1>2, SetInduction DEF T
<1>4. \A k \in 0..n : k \in T /\ k <= n
  BY <1>3
<1>5. \A k \in 0..n : Placed(k)
  BY <1>4 DEF T
<1> QED  BY <1>5 DEF IsPlaced

\* ... and nothing else is there.
IsCovered(ss, n) ==
    \A k \in 0..n : \A p \in 1..Len(Flat(ss, k)) :
    \E i \in 1..k : \E j \in 1..Len(ss[i]) :
        p = Len(Flat(ss, i - 1)) + j

\* Every element is one of a part.
LEMMA FlattenElement ==
    ASSUME NEW S, NEW n \in Nat, NEW ss \in [1..n -> Seq(S)]
    PROVE  IsCovered(ss, n)
<1> DEFINE F(k) == Flat(ss, k)
           Covered(k) == \A p \in 1..Len(F(k)) : \E i \in 1..k : \E j \in 1..Len(ss[i]) :
                            p = Len(F(i - 1)) + j
           T == {k \in Nat : k <= n => Covered(k)}
<1>f. FlattensBySteps(S, n, ss)
  BY FlattenSteps
<1>1. 0 \in T
  <2>1. Len(F(0)) = 0
    BY <1>f DEF FlattensBySteps
  <2> QED  BY <2>1
<1>2. ASSUME NEW k \in T PROVE k + 1 \in T
  <2> SUFFICES ASSUME k + 1 <= n, NEW p \in 1..Len(F(k + 1))
               PROVE  \E i \in 1..(k + 1) : \E j \in 1..Len(ss[i]) : p = Len(F(i - 1)) + j
    OBVIOUS
  <2>0. k \in Nat /\ k \in 0..(n - 1) /\ k \in 0..n /\ k + 1 \in 1..n
    OBVIOUS
  <2>1. /\ Len(F(k)) \in Nat /\ Len(ss[k + 1]) \in Nat
        /\ Len(F(k + 1)) = Len(F(k)) + Len(ss[k + 1])
    BY <2>0, <1>f DEF FlattensBySteps
  <2>p. Covered(k)
    BY <2>0
  <2>3. CASE p <= Len(F(k))
    <3>1. p \in 1..Len(F(k))
      BY <2>1, <2>3
    <3>2. PICK i \in 1..k : \E j \in 1..Len(ss[i]) : p = Len(F(i - 1)) + j
      BY <2>p, <3>1
    <3>3. i \in 1..(k + 1)
      BY <2>0
    <3> HIDE DEF F, T
    <3> QED  BY <3>2, <3>3
  <2>4. CASE p > Len(F(k))
    <3>1. p - Len(F(k)) \in 1..Len(ss[k + 1])
      BY <2>1, <2>4
    <3>2. k + 1 \in 1..(k + 1) /\ F((k + 1) - 1) = F(k)
      BY <2>0
    <3>3. p = Len(F((k + 1) - 1)) + (p - Len(F(k)))
      BY <2>1, <3>2
    <3> HIDE DEF F, T
    <3> QED  BY <3>1, <3>2, <3>3
  <2> QED  BY <2>1, <2>3, <2>4
<1> HIDE DEF T
<1>3. T = Nat
  BY <1>1, <1>2, SetInduction DEF T
<1>4. \A k \in 0..n : k \in T /\ k <= n
  BY <1>3
<1>5. \A k \in 0..n : Covered(k)
  BY <1>4 DEF T
<1> QED  BY <1>5 DEF IsCovered

\* Fewer sequences flatten to the beginning of what more of them flatten to, ...
IsGrowing(ss, n) ==
    \A l \in 0..n : \A k \in 0..l :
    /\ Len(Flat(ss, k)) <= Len(Flat(ss, l))
    /\ \A p \in 1..Len(Flat(ss, k)) : Flat(ss, l)[p] = Flat(ss, k)[p]

\* What is flattened of fewer parts is a prefix of what is of more.
LEMMA FlattenPrefix ==
    ASSUME NEW S, NEW n \in Nat, NEW ss \in [1..n -> Seq(S)]
    PROVE  IsGrowing(ss, n)
<1> DEFINE F(k) == Flat(ss, k)
           Begins(l) == \A k \in 0..l :
                            /\ Len(F(k)) <= Len(F(l))
                            /\ \A p \in 1..Len(F(k)) : F(l)[p] = F(k)[p]
           T == {l \in Nat : l <= n => Begins(l)}
<1>f. FlattensBySteps(S, n, ss)
  BY FlattenSteps
<1>1. 0 \in T
  <2>1. Len(F(0)) = 0
    BY <1>f DEF FlattensBySteps
  <2> QED  BY <2>1
<1>2. ASSUME NEW l \in T PROVE l + 1 \in T
  <2> SUFFICES ASSUME l + 1 <= n, NEW k \in 0..(l + 1)
               PROVE  /\ Len(F(k)) <= Len(F(l + 1))
                      /\ \A p \in 1..Len(F(k)) : F(l + 1)[p] = F(k)[p]
    OBVIOUS
  <2>0. l \in Nat /\ l \in 0..(n - 1) /\ l \in 0..n /\ l + 1 \in 0..n /\ k \in 0..n
    OBVIOUS
  <2>1. /\ Len(F(l)) \in Nat /\ Len(ss[l + 1]) \in Nat
        /\ Len(F(k)) \in Nat /\ Len(F(l + 1)) \in Nat
        /\ Len(F(l + 1)) = Len(F(l)) + Len(ss[l + 1])
        /\ \A p \in 1..Len(F(l)) : F(l + 1)[p] = F(l)[p]
    BY <2>0, <1>f DEF FlattensBySteps
  <2>p. Begins(l)
    BY <2>0
  <2>2. CASE k = l + 1
    BY <2>1, <2>2
  <2>3. CASE k # l + 1
    <3>1. k \in 0..l
      BY <2>0, <2>3
    <3>2. Len(F(k)) <= Len(F(l)) /\ \A p \in 1..Len(F(k)) : F(l)[p] = F(k)[p]
      BY <2>p, <3>1
    <3> HIDE DEF F, T
    <3> QED  BY <2>1, <3>2
  <2> QED  BY <2>2, <2>3
<1> HIDE DEF T
<1>3. T = Nat
  BY <1>1, <1>2, SetInduction DEF T
<1>4. \A l \in 0..n : l \in T /\ l <= n
  BY <1>3
<1>5. \A l \in 0..n : Begins(l)
  BY <1>4 DEF T
<1> QED  BY <1>5 DEF IsGrowing

\* The same sequences flatten to the same, ...
LEMMA FlattenSame ==
    ASSUME NEW ss, NEW tt, NEW k \in Nat, Agree(ss, tt, k)
    PROVE  Flat(ss, k) = Flat(tt, k)
<1>1. First(ss, k) = First(tt, k)
  BY DEF First, Agree
<1> QED  BY <1>1 DEF Flat

\* All this of n sequences of elements of S.
Flattens(S, n, ss) ==
    /\ FlattensBySteps(S, n, ss)
    /\ IsPlaced(ss, n)
    /\ IsCovered(ss, n)
    /\ IsGrowing(ss, n)

\* The four facts together.
LEMMA FlattenFacts ==
    ASSUME NEW S, NEW n \in Nat, NEW ss \in [1..n -> Seq(S)]
    PROVE  Flattens(S, n, ss)
<1>1. FlattensBySteps(S, n, ss)
  BY FlattenSteps
<1>2. IsPlaced(ss, n)
  BY FlattenPlace
<1>3. IsCovered(ss, n)
  BY FlattenElement
<1>4. IsGrowing(ss, n)
  BY FlattenPrefix
<1> QED  BY <1>1, <1>2, <1>3, <1>4 DEF Flattens

\* ... and what all of them are made of stays what it is.
LEMMA FlattenAll ==
    ASSUME NEW S, NEW n \in Nat, NEW ss \in [1..n -> Seq(S)],
           NEW A, \A i \in 1..n : \A j \in 1..Len(ss[i]) : ss[i][j] \in A
    PROVE  \A p \in 1..Len(Flat(ss, n)) : Flat(ss, n)[p] \in A
<1> SUFFICES ASSUME NEW p \in 1..Len(Flat(ss, n)) PROVE Flat(ss, n)[p] \in A
  OBVIOUS
<1>1. n \in 0..n
  OBVIOUS
<1>f. Flattens(S, n, ss)
  BY FlattenFacts
<1>2. PICK i \in 1..n : \E j \in 1..Len(ss[i]) : p = Len(Flat(ss, i - 1)) + j
  BY <1>1, <1>f DEF Flattens, IsCovered
<1>3. PICK j \in 1..Len(ss[i]) : p = Len(Flat(ss, i - 1)) + j
  BY <1>2
<1>4. Flat(ss, n)[p] = ss[i][j]
  BY <1>1, <1>3, <1>f DEF Flattens, IsPlaced
<1> QED  BY <1>4

\* Sequences of one element each flatten to these elements.
LEMMA FlattenSingles ==
    ASSUME NEW S, NEW e \in Seq(S), NEW ss \in [1..Len(e) -> Seq(S)],
           \A i \in 1..Len(e) : ss[i] = <<e[i]>>
    PROVE  FlattenSeq(ss) = e
<1> DEFINE n == Len(e)
           F(k) == Flat(ss, k)
           T == {k \in Nat : k <= n => /\ Len(F(k)) = k
                                      /\ \A p \in 1..k : F(k)[p] = e[p]}
<1>0. n \in Nat
  OBVIOUS
<1>f. FlattensBySteps(S, n, ss)
  BY <1>0, FlattenSteps
<1>1. 0 \in T
  BY <1>f DEF FlattensBySteps
<1>2. ASSUME NEW k \in T PROVE k + 1 \in T
  <2> SUFFICES ASSUME k + 1 <= n
               PROVE  /\ Len(F(k + 1)) = k + 1
                      /\ \A p \in 1..(k + 1) : F(k + 1)[p] = e[p]
    OBVIOUS
  <2>1. k \in Nat /\ k \in 0..(n - 1) /\ k + 1 \in 1..n
    BY <1>0
  <2>2. Len(F(k)) = k /\ \A p \in 1..k : F(k)[p] = e[p]
    BY <1>0, <2>1
  <2>3. ss[k + 1] = <<e[k + 1]>>
    BY <2>1
  <2>4. /\ Len(F(k + 1)) = Len(F(k)) + Len(ss[k + 1])
        /\ \A p \in 1..Len(F(k)) : F(k + 1)[p] = F(k)[p]
        /\ \A p \in 1..Len(ss[k + 1]) : F(k + 1)[Len(F(k)) + p] = ss[k + 1][p]
    BY <2>1, <1>f DEF FlattensBySteps
  <2>5. Len(ss[k + 1]) = 1 /\ ss[k + 1][1] = e[k + 1]
    BY <2>3
  <2> HIDE DEF F, T
  <2>6. F(k + 1)[k + 1] = e[k + 1]
    BY <2>2, <2>4, <2>5
  <2>7. ASSUME NEW p \in 1..(k + 1) PROVE F(k + 1)[p] = e[p]
    <3>1. CASE p = k + 1
      BY <2>6, <3>1
    <3>2. CASE p # k + 1
      <4>1. p \in 1..k
        BY <2>1, <3>2
      <4> QED  BY <2>2, <2>4, <4>1
    <3> QED  BY <3>1, <3>2
  <2> QED  BY <2>2, <2>4, <2>5, <2>7
<1> HIDE DEF T
<1>3. T = Nat
  BY <1>1, <1>2, SetInduction DEF T
<1>4. n \in T /\ n <= n
  BY <1>0, <1>3
<1>5. Len(F(n)) = n /\ \A p \in 1..n : F(n)[p] = e[p]
  BY <1>4 DEF T
<1>6. F(n) = FlattenSeq(ss) /\ F(n) \in Seq(S)
  BY <1>0, <1>f DEF FlattensBySteps
<1> QED  BY <1>5, <1>6, SeqEqual

\* A prefix, element by element.
LEMMA PrefixIs ==
    ASSUME NEW S, NEW s \in Seq(S), NEW t \in Seq(S)
    PROVE  IsPrefix(s, t) <=> /\ Len(s) <= Len(t)
                              /\ \A p \in 1..Len(s) : s[p] = t[p]
<1>1. CASE Len(s) <= Len(t)
  <2>1. /\ SubSeq(t, 1, Len(s)) \in Seq(S)
        /\ Len(SubSeq(t, 1, Len(s))) = Len(s)
        /\ \A p \in 1..Len(s) : SubSeq(t, 1, Len(s))[p] = t[p]
    BY <1>1
  <2>2. SubSeq(t, 1, Len(s)) = s <=> \A p \in 1..Len(s) : s[p] = t[p]
    BY <2>1, SeqEqual
  <2>3. SubSeq(s, 1, Len(s)) = s
    <3>1. SubSeq(s, 1, Len(s)) \in Seq(S) /\ Len(SubSeq(s, 1, Len(s))) = Len(s)
            /\ \A p \in 1..Len(s) : SubSeq(s, 1, Len(s))[p] = s[p]
      OBVIOUS
    <3> QED  BY <3>1, SeqEqual
  <2> QED  BY <1>1, <2>2, <2>3 DEF IsPrefix
<1>2. CASE ~(Len(s) <= Len(t))
  BY <1>2 DEF IsPrefix
<1> QED  BY <1>1, <1>2

-----------------------------------------------------------------------------
(* The nearest of some times.                                              *)

\* One that is nearer than all others, or as near and before them, is it.
LEMMA NearestOfIs ==
    ASSUME NEW C \in SUBSET Int, NEW time \in [C -> Int], NEW t \in Int, NEW p \in C,
           \A k \in C : k # p =>
               \/ Distance(time[p], t) < Distance(time[k], t)
               \/ Distance(time[p], t) = Distance(time[k], t) /\ p < k
    PROVE  NearestOf(C, time, t) = p
<1> DEFINE P(j) == \A k \in C :
               \/ Distance(time[j], t) < Distance(time[k], t)
               \/ Distance(time[j], t) = Distance(time[k], t) /\ j <= k
<1>1. \A k \in C : k \in Int /\ Distance(time[k], t) \in Int
  BY DEF Distance
<1>2. P(p)
  BY <1>1
<1>3. ASSUME NEW q \in C, P(q) PROVE q = p
  <2>1. CASE q # p
    <3>1. \/ Distance(time[q], t) < Distance(time[p], t)
          \/ Distance(time[q], t) = Distance(time[p], t) /\ q <= p
      BY <1>3
    <3>2. \/ Distance(time[p], t) < Distance(time[q], t)
          \/ Distance(time[p], t) = Distance(time[q], t) /\ p < q
      BY <2>1
    <3> QED  BY <1>1, <3>1, <3>2
  <2> QED  BY <2>1
<1>4. NearestOf(C, time, t) = CHOOSE j \in C : P(j)
  BY DEF NearestOf
<1> HIDE DEF P
<1> QED  BY <1>2, <1>3, <1>4

-----------------------------------------------------------------------------
(* The time of a number of which only the low part is known.               *)

\* Division by a positive number.
LEMMA Divided ==
    ASSUME NEW w \in Nat \ {0}, NEW n \in Int
    PROVE  /\ n \div w \in Int /\ n % w \in 0..(w - 1)
           /\ n = ((n \div w) * w) + (n % w)
  OBVIOUS

\* Two multiples that are less than two periods apart are neighbours.
LEMMA NeighbouringMultiples ==
    ASSUME NEW w \in Nat \ {0}, NEW a \in Int, NEW b \in Int,
           a * w - b * w < 2 * w, b * w - a * w < 2 * w
    PROVE  a = b - 1 \/ a = b \/ a = b + 1
<1>1. ASSUME a >= b + 2 PROVE FALSE
  <2>1. (a - b - 2) * w >= 0  BY <1>1
  <2> QED BY <2>1
<1>2. ASSUME b >= a + 2 PROVE FALSE
  <2>1. (b - a - 2) * w >= 0  BY <1>2
  <2> QED BY <2>1
<1> QED BY <1>1, <1>2

\* A time less than half a period from a frame's own is recovered exactly
\* from its low part (barcode.reconstruct_ms): the latency measured is the
\* latency there was, also when the counter wraps between painting and capture.
THEOREM ReconstructExact ==
    ASSUME NEW painted \in Int, NEW reference \in Int,
           NEW period \in Nat \ {0}, 2 * Distance(painted, reference) < period
    PROVE  Recovered(painted % period, reference, period) = painted
<1> DEFINE w == period
           p == painted \div w
           r == reference \div w
           e == painted % w
           base == r * w
           candidates == {base + e - w, base + e, base + e + w}
<1>w. w \in Nat \ {0}  OBVIOUS
<1>h. 2 * (painted - reference) < w /\ 2 * (reference - painted) < w
  BY <1>w DEF Distance
<1> HIDE DEF w
<1>p. p \in Int /\ e \in 0..(w - 1) /\ painted = p * w + e  BY <1>w, Divided
<1>r. r \in Int /\ reference % w \in 0..(w - 1) /\ reference = base + (reference % w)
  BY <1>w, Divided
<1> DEFINE pw == p * w
<1>i. pw \in Int /\ base \in Int  BY <1>w, <1>p, <1>r
<1> HIDE DEF p, r, e
<1>1. pw - base < 2 * w /\ base - pw < 2 * w
  <2>1. painted = pw + e  BY <1>p
  <2> HIDE DEF pw, base
  <2> QED BY <2>1, <1>p, <1>r, <1>i, <1>h, <1>w
<1>2. p = r - 1 \/ p = r \/ p = r + 1
  BY <1>1, <1>w, <1>p, <1>r, NeighbouringMultiples
<1>3. pw = base - w \/ pw = base \/ pw = base + w
  <2>1. CASE p = r - 1
    <3>1. (r - 1) * w = r * w - w  BY <1>r, <1>w
    <3> QED BY <2>1, <3>1
  <2>2. CASE p = r  BY <2>2
  <2>3. CASE p = r + 1
    <3>1. (r + 1) * w = r * w + w  BY <1>r, <1>w
    <3> QED BY <2>3, <3>1
  <2> QED BY <1>2, <2>1, <2>2, <2>3
<1>4. painted = pw + e  BY <1>p
<1> HIDE DEF pw, base
<1>5. painted \in candidates  BY <1>3, <1>4, <1>p, <1>i, <1>w
\* Another candidate is at least half a period away.
<1>6. ASSUME NEW c \in candidates, c # painted
      PROVE  Distance(painted, reference) < Distance(c, reference)
  BY <1>6, <1>3, <1>4, <1>h, <1>p, <1>i, <1>w DEF Distance
<1>7. candidates \in SUBSET Int
  BY <1>p, <1>i, <1>w
<1> DEFINE time == [c \in candidates |-> c]
<1>8. Recovered(e, reference, w) = NearestOf(candidates, time, reference)
  BY DEF Recovered, base, r
<1> HIDE DEF candidates
<1>9. time \in [candidates -> Int] /\ time[painted] = painted
        /\ \A c \in candidates : time[c] = c
  BY <1>5, <1>7
<1> HIDE DEF time
<1>10. \A c \in candidates : c # painted =>
           Distance(time[painted], reference) < Distance(time[c], reference)
  BY <1>6, <1>9
<1>11. NearestOf(candidates, time, reference) = painted
  BY <1>5, <1>7, <1>9, <1>10, NearestOfIs
<1> QED BY <1>8, <1>11 DEF e, w
=============================================================================
