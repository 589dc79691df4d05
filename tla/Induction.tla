----------------------------- MODULE Induction ------------------------------
(***************************************************************************)
(* Induction and recursion over the natural numbers with sets and          *)
(* functions for what is usually a predicate or an operator: a fact holds  *)
(* of every number if the set of those it holds of is closed, and a        *)
(* definition by recursion has a solution if its step is a function.       *)
(***************************************************************************)
EXTENDS Integers, SequencesExt, FiniteSetTheorems, SequenceTheorems,
        WellFoundedInduction, TLAPS

\* A set of numbers has a least one: of the intervals that end in it, one is
\* in none of the others.
LEMMA LeastNumber ==
  ASSUME NEW S \in SUBSET Nat, S # {}
  PROVE  \E m \in S : \A k \in S : m <= k
<1> PICK n \in S : TRUE
  OBVIOUS
<1> DEFINE U == 0..n
           T == {0..k : k \in {j \in S : j <= n}}
           R == StrictSubsetOrdering(U)
<1>1. IsWellFoundedOn(R, FiniteSubsetsOf(U))
  BY FS_StrictSubsetOrderingWellFounded
<1>2. T \subseteq FiniteSubsetsOf(U) /\ T # {}
  <2>1. \A k \in S : k <= n => 0..k \in SUBSET U /\ IsFiniteSet(0..k)
    BY FS_Interval
  <2>2. \A x \in T : x \in FiniteSubsetsOf(U)
    BY <2>1 DEF FiniteSubsetsOf
  <2>3. 0..n \in T
    OBVIOUS
  <2> QED
    BY <2>2, <2>3
<1>3. PICK x \in T : \A y \in T : <<y, x>> \notin R
  BY <1>1, <1>2, WFMin
<1>4. PICK m \in S : m <= n /\ x = 0..m
  BY <1>3
<1>5. ASSUME NEW k \in S, k < m PROVE FALSE
  <2>1. 0..k \in T
    BY <1>4, <1>5
  <2>2. 0..k \subseteq 0..m /\ m \notin 0..k /\ m \in 0..m
    BY <1>4, <1>5
  <2>3. <<0..k, x>> \in R
    BY <1>4, <1>5, <2>1, <2>2 DEF StrictSubsetOrdering
  <2> QED
    BY <1>3, <2>1, <2>3
<1> QED
  BY <1>4, <1>5

\* What holds of 0, and of i if it holds of i - 1, holds of all up to n.
LEMMA IntervalInduction ==
  ASSUME NEW n \in Nat, NEW S,
         0 \in S, \A i \in 1..n : i - 1 \in S => i \in S
  PROVE  \A i \in 0..n : i \in S
<1> DEFINE Bad == {i \in 0..n : i \notin S}
<1> SUFFICES ASSUME Bad # {} PROVE FALSE
  OBVIOUS
<1>1. Bad \in SUBSET Nat
  OBVIOUS
<1>2. PICK m \in Bad : \A k \in Bad : m <= k
  BY <1>1, LeastNumber
<1>3. m \in 1..n /\ m - 1 \in 0..n /\ m - 1 \notin Bad
  BY <1>2
<1> QED
  BY <1>3

\* f is defined on 0..n, each value from the one before it by a step.
Recursive(f, n, S, base, step) ==
  /\ f \in [0..n -> S]
  /\ f[0] = base
  /\ \A i \in 1..n : f[i] = step[<<i, f[i - 1]>>]

\* A definition by recursion has a solution.
LEMMA RecursionExists ==
  ASSUME NEW n \in Nat, NEW S, NEW base \in S, NEW step \in [(1..n) \X S -> S]
  PROVE  \E f : Recursive(f, n, S, base, step)
<1> DEFINE Ok(m, f) == f[0] = base /\ \A i \in 1..m : f[i] = step[<<i, f[i - 1]>>]
           Good == {m \in 0..n : \E f \in [0..m -> S] : Ok(m, f)}
<1>1. 0 \in Good
  <2> DEFINE f == [i \in 0..0 |-> base]
  <2>1. f \in [0..0 -> S] /\ Ok(0, f)
    OBVIOUS
  <2>2. 0 \in 0..n
    OBVIOUS
  <2> HIDE DEF f, Ok
  <2> QED
    BY <2>1, <2>2
<1>2. ASSUME NEW m \in 1..n, m - 1 \in Good PROVE m \in Good
  <2>1. PICK f \in [0..m - 1 -> S] : Ok(m - 1, f)
    BY <1>2
  <2> DEFINE g == [i \in 0..m |-> IF i = m THEN step[<<m, f[m - 1]>>] ELSE f[i]]
  <2>2. f[m - 1] \in S /\ step[<<m, f[m - 1]>>] \in S
    BY <2>1
  <2>3. g \in [0..m -> S]
    BY <2>1, <2>2
  <2>4. \A i \in 0..m - 1 : g[i] = f[i]
    OBVIOUS
  <2>5. g[m] = step[<<m, f[m - 1]>>]
    OBVIOUS
  <2> HIDE DEF g
  <2>6. ASSUME NEW i \in 1..m PROVE g[i] = step[<<i, g[i - 1]>>]
    <3>1. CASE i = m
      BY <2>4, <2>5, <3>1
    <3>2. CASE i # m
      <4>1. i \in 1..m - 1 /\ i \in 0..m - 1 /\ i - 1 \in 0..m - 1
        BY <3>2
      <4> QED
        BY <2>1, <2>4, <4>1
    <3> QED
      BY <3>1, <3>2
  <2>7. Ok(m, g)
    BY <2>1, <2>4, <2>6
  <2> QED
    BY <2>3, <2>7
<1>3. \A i \in 0..n : i \in Good
  BY <1>1, <1>2, IntervalInduction
<1>4. n \in Good
  BY <1>3
<1> QED
  BY <1>4 DEF Recursive

\* The parts of a flattened sequence of sequences.
LEMMA FlattenSeqParts ==
  ASSUME NEW S, NEW seqs \in Seq(Seq(S))
  PROVE  \E f \in [0..Len(seqs) -> Seq(S)] :
           /\ f[0] = <<>> /\ FlattenSeq(seqs) = f[Len(seqs)]
           /\ \A i \in 1..Len(seqs) : f[i] = f[i - 1] \o seqs[i]
<1> DEFINE n == Len(seqs)
           step == [p \in (1..n) \X Seq(S) |-> p[2] \o seqs[p[1]]]
<1>1. n \in Nat /\ \A i \in 1..n : seqs[i] \in Seq(S)
  BY LenProperties, ElementOfSeq
<1>2. step \in [(1..n) \X Seq(S) -> Seq(S)]
  BY <1>1, ConcatProperties
<1>3. <<>> \in Seq(S)
  BY EmptySeq
<1>4. \A i \in 1..n, s \in Seq(S) : step[<<i, s>>] = s \o seqs[i]
  OBVIOUS
<1> HIDE DEF n, step
<1>5. PICK f : Recursive(f, n, Seq(S), <<>>, step)
  BY <1>1, <1>2, <1>3, RecursionExists
<1>6. \A i \in 1..n : f[i] = f[i - 1] \o seqs[i]
  <2>1. \A i \in 1..n : i - 1 \in 0..n
    BY <1>1
  <2> QED
    BY <1>4, <1>5, <2>1 DEF Recursive
<1>f. n # 0 => f[1] = seqs[1]
  <2> SUFFICES ASSUME n # 0 PROVE f[1] = seqs[1]
    OBVIOUS
  <2>1. 1 \in 1..n /\ 1 - 1 = 0
    BY <1>1
  <2>2. f[1] = <<>> \o seqs[1] /\ seqs[1] \in Seq(S)
    BY <1>1, <1>5, <1>6, <2>1 DEF Recursive
  <2> QED
    BY <2>2, ConcatEmptySeq
<1>7. FlattenSeq(seqs) = f[n]
  <2>1. CASE n = 0
    <3>1. seqs = <<>>
      BY <2>1, EmptySeq DEF n
    <3> QED
      BY <1>5, <2>1, <3>1 DEF FlattenSeq, Recursive, n
  <2>2. CASE n # 0
    <3> DEFINE P(g) == g = [i \in 1..n |-> IF i = 1 THEN seqs[i] ELSE g[i - 1] \o seqs[i]]
    <3>1. FlattenSeq(seqs) = (CHOOSE g : P(g))[n]
      BY <2>2 DEF FlattenSeq, n
    <3>2. P([i \in 1..n |-> f[i]])
      <4>1. \A i \in 1..n : i # 1 => i - 1 \in 1..n
        BY <1>1
      <4> QED
        BY <1>6, <1>f, <2>2, <4>1
    <3> DEFINE g == CHOOSE g : P(g)
    <3>3. P(g)
      <4> HIDE DEF P
      <4> QED
        BY <3>2
    <3> HIDE DEF g
    <3> DEFINE Same == {i \in 0..n : i = 0 \/ g[i] = f[i]}
    <3>4. \A i \in 1..n : g[i] = IF i = 1 THEN seqs[i] ELSE g[i - 1] \o seqs[i]
      BY <3>3
    <3>6. ASSUME NEW i \in 1..n, i - 1 \in Same PROVE i \in Same
      <4>1. CASE i = 1
        BY <1>f, <2>2, <3>4, <4>1
      <4>2. CASE i # 1
        <5>1. g[i - 1] = f[i - 1]
          BY <1>1, <3>6, <4>2
        <5>2. g[i] = g[i - 1] \o seqs[i]
          BY <3>4, <4>2
        <5> QED
          <6>1. g[i] = f[i]
            BY <1>6, <5>1, <5>2
          <6> QED
            BY <1>1, <6>1
      <4> QED
        BY <4>1, <4>2
    <3>7. \A i \in 0..n : i \in Same
      <4>1. 0 \in Same
        BY <1>1
      <4> HIDE DEF Same
      <4> QED
        BY <1>1, <3>6, <4>1, IntervalInduction
    <3>8. n \in Same
      BY <1>1, <3>7
    <3> QED
      BY <2>2, <3>1, <3>8 DEF g
  <2> QED
    BY <2>1, <2>2
<1> QED
  BY <1>5, <1>6, <1>7 DEF Recursive, n
\* How long a flattened sequence is, and what is in it.
LEMMA FlattenSeqHolds ==
  ASSUME NEW S, NEW seqs \in Seq(Seq(S)),
         NEW n \in [0..Len(seqs) -> Nat],
         n[0] = 0, \A i \in 1..Len(seqs) : n[i] = n[i - 1] + Len(seqs[i])
  PROVE  /\ FlattenSeq(seqs) \in Seq(S)
         /\ Len(FlattenSeq(seqs)) = n[Len(seqs)]
         /\ \A i \in 1..Len(seqs) : Range(seqs[i]) \subseteq Range(FlattenSeq(seqs))
<1> DEFINE m == Len(seqs)
<1>1. m \in Nat /\ \A i \in 1..m : seqs[i] \in Seq(S)
  BY LenProperties, ElementOfSeq
<1>2. n \in [0..m -> Nat] /\ n[0] = 0 /\ \A i \in 1..m : n[i] = n[i - 1] + Len(seqs[i])
  OBVIOUS
<1> HIDE DEF m
<1>3. PICK f \in [0..m -> Seq(S)] :
        /\ f[0] = <<>> /\ FlattenSeq(seqs) = f[m]
        /\ \A i \in 1..m : f[i] = f[i - 1] \o seqs[i]
  BY FlattenSeqParts DEF m
<1> DEFINE Holds(i) == \A j \in 1..i : Range(seqs[j]) \subseteq Range(f[i])
           Good == {i \in 0..m : Len(f[i]) = n[i] /\ Holds(i)}
<1>4. 0 \in Good
  <2>1. 0 \in 0..m /\ Len(f[0]) = n[0] /\ 1..0 = {}
    BY <1>1, <1>2, <1>3, EmptySeq
  <2> QED
    BY <2>1
<1>5. ASSUME NEW i \in 1..m, i - 1 \in Good PROVE i \in Good
  <2>1. i \in 0..m /\ i - 1 \in 0..m
    BY <1>1
  <2>2. f[i - 1] \in Seq(S) /\ seqs[i] \in Seq(S) /\ f[i] = f[i - 1] \o seqs[i]
    BY <1>1, <1>3, <2>1
  <2>3. Len(f[i]) = n[i - 1] + Len(seqs[i])
    <3>1. Len(f[i - 1]) = n[i - 1]
      BY <1>5
    <3>2. Len(f[i - 1] \o seqs[i]) = Len(f[i - 1]) + Len(seqs[i])
      BY <2>2, ConcatProperties
    <3> QED
      BY <2>2, <3>1, <3>2
  <2>4. Range(f[i]) = Range(f[i - 1]) \cup Range(seqs[i])
    BY <2>2, RangeConcatenation
  <2>5. \A j \in 1..i : j = i \/ j \in 1..i - 1
    BY <1>1
  <2>6. Holds(i)
    BY <1>5, <2>4, <2>5
  <2> QED
    BY <1>2, <2>1, <2>3, <2>6
<1>6. \A i \in 0..m : i \in Good
  <2> HIDE DEF Good
  <2> QED
    BY <1>1, <1>4, <1>5, IntervalInduction
<1>7. m \in 0..m
  BY <1>1
<1>8. f[m] \in Seq(S) /\ Len(f[m]) = n[m] /\ Holds(m)
  BY <1>3, <1>6, <1>7
<1> QED
  BY <1>3, <1>8 DEF m
=============================================================================
