---------------------------- MODULE CommonLemmas ----------------------------
(***************************************************************************)
(* What several proofs need: induction over natural numbers, by the least  *)
(* number for which a claim fails; chains of sets that grow step by step;  *)
(* what is in the sequences that Tail, \o, SetToSeq and FlattenSeq make.   *)
(***************************************************************************)
EXTENDS Integers, FiniteSets, SequencesExt, TLAPS, FiniteSetTheorems, SequenceTheorems,
        WellFoundedInduction

\* A set of natural numbers has a least element.
LEMMA Least ==
  ASSUME NEW S \in SUBSET Nat, S # {}
  PROVE  \E m \in S : \A n \in S : m <= n
<1> DEFINE R == StrictSubsetOrdering(Nat)
           Segments == {0 .. n : n \in S}
<1>1. Segments \subseteq FiniteSubsetsOf(Nat)
  <2>1. ASSUME NEW n \in S PROVE 0 .. n \in FiniteSubsetsOf(Nat)
    <3>1. n \in Nat OBVIOUS
    <3>2. IsFiniteSet(0 .. n) BY <3>1, FS_Interval
    <3>3. 0 .. n \subseteq Nat BY <3>1
    <3> QED BY <3>2, <3>3, Zenon DEF FiniteSubsetsOf
  <2> QED BY <2>1
<1>2. \E x \in Segments : \A y \in Segments : <<y, x>> \notin R
  <2>1. Segments # {} OBVIOUS
  <2>2. IsWellFoundedOn(R, FiniteSubsetsOf(Nat)) BY FS_StrictSubsetOrderingWellFounded
  <2> HIDE DEF R, Segments
  <2> QED BY <1>1, <2>1, <2>2, WFMin
<1>3. PICK m \in S : \A n \in S : <<0 .. n, 0 .. m>> \notin R
  BY <1>2
<1>4. ASSUME NEW n \in S, n < m PROVE FALSE
  <2>1. /\ 0 .. n \in SUBSET Nat /\ 0 .. m \in SUBSET Nat
        /\ 0 .. n \subseteq 0 .. m /\ m \in 0 .. m /\ m \notin 0 .. n
    BY <1>4
  <2>2. <<0 .. n, 0 .. m>> \in R
    BY <2>1, Zenon DEF StrictSubsetOrdering
  <2> QED BY <2>2, <1>3
<1> QED BY <1>4

\* Sets that grow in N steps, until they stop growing; the empty one does not grow.
GrowsUntil(W, N) ==
  /\ \A n \in 0 .. N - 1 : W[n] \subseteq W[n + 1]
  /\ \A n \in 0 .. N - 2 : W[n + 1] = W[n] => W[n + 2] = W[n + 1]
  /\ N > 0 /\ W[0] = {} => W[1] = {}

\* A set with no more members than the steps it grew in has stopped growing.
LEMMA ChainStops ==
  ASSUME NEW N \in Nat, NEW W, GrowsUntil(W, N), IsFiniteSet(W[N]), Cardinality(W[N]) <= N
  PROVE  W[N] = {} \/ \E m \in 0 .. N - 1 : W[m + 1] = W[m] /\ W[N] = W[m]
<1> USE DEF GrowsUntil
<1>1. ASSUME NEW m \in 0 .. N - 1, W[m + 1] = W[m] PROVE W[N] = W[m]
  <2> DEFINE Other == {n \in m .. N : W[n] # W[m]}
  <2>1. Other = {}
    <3> SUFFICES ASSUME Other # {} PROVE FALSE OBVIOUS
    <3>1. PICK k \in Other : \A n \in Other : k <= n
      <4>1. Other \in SUBSET Nat OBVIOUS
      <4> HIDE DEF Other
      <4> QED BY <4>1, Least
    <3>2. k \in m .. N /\ W[k] # W[m] /\ k # m /\ k # m + 1
      BY <1>1, <3>1
    <3>3. k - 2 \in m .. N /\ k - 1 \in m .. N /\ ~(k <= k - 1) /\ ~(k <= k - 2)
      BY <3>2
    <3>4. W[k - 1] = W[m] /\ W[k - 2] = W[m]
      BY <3>1, <3>3
    <3>5. k - 2 \in 0 .. N - 2 /\ (k - 2) + 1 = k - 1 /\ (k - 2) + 2 = k
      BY <3>2, <3>3
    <3> QED BY <3>2, <3>4, <3>5
  <2>2. N \in m .. N OBVIOUS
  <2> QED BY <2>1, <2>2
<1>2. \A n \in 0 .. N : W[n] \subseteq W[N]
  <2> DEFINE Beyond == {k \in 0 .. N : ~(W[N - k] \subseteq W[N])}
  <2>1. Beyond = {}
    <3> SUFFICES ASSUME Beyond # {} PROVE FALSE OBVIOUS
    <3>1. PICK k \in Beyond : \A n \in Beyond : k <= n
      <4>1. Beyond \in SUBSET Nat OBVIOUS
      <4> HIDE DEF Beyond
      <4> QED BY <4>1, Least
    <3>2. k \in 0 .. N /\ ~(W[N - k] \subseteq W[N]) /\ k # 0
      BY <3>1
    <3>3. k - 1 \in 0 .. N /\ ~(k <= k - 1) /\ N - k \in 0 .. N - 1 /\ (N - k) + 1 = N - (k - 1)
      BY <3>2
    <3>4. W[N - (k - 1)] \subseteq W[N]
      BY <3>1, <3>3
    <3>5. W[N - k] \subseteq W[N - (k - 1)]
      BY <3>3
    <3> QED BY <3>2, <3>4, <3>5
  <2>2. ASSUME NEW n \in 0 .. N PROVE W[n] \subseteq W[N]
    <3>1. N - n \in 0 .. N /\ N - (N - n) = n OBVIOUS
    <3>2. N - n \notin Beyond BY <2>1
    <3> QED BY <3>1, <3>2
  <2> QED BY <2>2
<1>3. ASSUME W[N] # {}, \A m \in 0 .. N - 1 : W[m + 1] # W[m] PROVE FALSE
  <2> DEFINE Small == {n \in 0 .. N : ~(Cardinality(W[n]) >= n + 1)}
  <2>1. W[0] # {}
    <3>1. CASE N = 0 BY <1>3, <3>1
    <3>2. CASE N > 0
      <4>1. 0 \in 0 .. N - 1 /\ 0 + 1 = 1 BY <3>2
      <4> QED BY <1>3, <3>2, <4>1
    <3> QED BY <3>1, <3>2
  <2>2. ASSUME NEW n \in 0 .. N PROVE IsFiniteSet(W[n]) /\ Cardinality(W[n]) \in Nat
    BY <1>2, FS_Subset, FS_CardinalityType
  <2>3. Small = {}
    <3> SUFFICES ASSUME Small # {} PROVE FALSE OBVIOUS
    <3>1. PICK k \in Small : \A n \in Small : k <= n
      <4>1. Small \in SUBSET Nat OBVIOUS
      <4> HIDE DEF Small
      <4> QED BY <4>1, Least
    <3>2. k \in 0 .. N /\ ~(Cardinality(W[k]) >= k + 1)
      BY <3>1
    <3>3. CASE k = 0
      <4>1. Cardinality(W[0]) # 0 BY <2>1, <2>2, FS_EmptySet
      <4> QED BY <2>2, <3>2, <3>3, <4>1
    <3>4. CASE k # 0
      <4>1. k - 1 \in 0 .. N /\ k - 1 \in 0 .. N - 1 /\ ~(k <= k - 1) /\ (k - 1) + 1 = k
        BY <3>2, <3>4
      <4>2. Cardinality(W[k - 1]) >= k
        BY <3>1, <4>1
      <4>3. W[k - 1] \subseteq W[k] /\ W[k] # W[k - 1]
        BY <1>3, <4>1
      <4>4. Cardinality(W[k - 1]) <= Cardinality(W[k]) /\ Cardinality(W[k - 1]) # Cardinality(W[k])
        BY <2>2, <3>2, <4>3, FS_Subset
      <4>5. Cardinality(W[k - 1]) \in Nat /\ Cardinality(W[k]) \in Nat
        BY <2>2, <3>2, <4>1
      <4> QED BY <3>2, <4>2, <4>4, <4>5
    <3> QED BY <3>3, <3>4
  <2>4. Cardinality(W[N]) >= N + 1
    <3>1. N \in 0 .. N OBVIOUS
    <3>2. N \notin Small BY <2>3
    <3> QED BY <3>1, <3>2
  <2>5. Cardinality(W[N]) \in Nat BY FS_CardinalityType
  <2> QED BY <2>4, <2>5
<1> QED BY <1>1, <1>3


\* It had stopped one step earlier.
LEMMA LastStepAddsNothing ==
  ASSUME NEW N \in Nat \ {0}, NEW W, GrowsUntil(W, N), IsFiniteSet(W[N]), Cardinality(W[N]) <= N
  PROVE  W[N] = W[N - 1]
<1>1. N - 1 \in 0 .. N - 1 /\ (N - 1) + 1 = N OBVIOUS
<1>2. W[N - 1] \subseteq W[N] BY <1>1 DEF GrowsUntil
<1>3. CASE W[N] = {} BY <1>2, <1>3
<1>4. CASE \E m \in 0 .. N - 1 : W[m + 1] = W[m] /\ W[N] = W[m]
  <2>1. PICK m \in 0 .. N - 1 : W[N] = W[m] BY <1>4
  <2> DEFINE Without == {n \in m .. N - 1 : ~(W[m] \subseteq W[n])}
  <2>2. Without = {}
    <3> SUFFICES ASSUME Without # {} PROVE FALSE OBVIOUS
    <3>1. PICK k \in Without : \A n \in Without : k <= n
      <4>1. Without \in SUBSET Nat OBVIOUS
      <4> HIDE DEF Without
      <4> QED BY <4>1, Least
    <3>2. k # m /\ k - 1 \in m .. N - 1 /\ k - 1 \in 0 .. N - 1 /\ (k - 1) + 1 = k /\ ~(k <= k - 1)
      BY <2>1, <3>1
    <3>3. W[k - 1] \subseteq W[k] BY <3>2 DEF GrowsUntil
    <3>4. W[m] \subseteq W[k - 1] BY <3>1, <3>2
    <3> QED BY <3>1, <3>3, <3>4
  <2>3. N - 1 \in m .. N - 1 BY <1>1, <2>1
  <2> QED BY <1>2, <2>1, <2>2, <2>3
<1> QED BY <1>3, <1>4, ChainStops

-----------------------------------------------------------------------------
\* The elements of a sequence are its head and those of its tail.
LEMMA TailElements ==
  ASSUME NEW S, NEW q \in Seq(S), q # <<>>
  PROVE  /\ Head(q) = q[1] /\ 1 \in DOMAIN q
         /\ Tail(q) \in Seq(S)
         /\ \A i \in DOMAIN Tail(q) : i + 1 \in DOMAIN q /\ Tail(q)[i] = q[i + 1]
         /\ ToSet(q) = ToSet(Tail(q)) \cup {Head(q)}
<1>1. /\ Tail(q) \in Seq(S) /\ Len(Tail(q)) = Len(q) - 1
      /\ \A i \in 1 .. Len(Tail(q)) : Tail(q)[i] = q[i + 1]
  BY HeadTailProperties
<1>2. /\ DOMAIN q = 1 .. Len(q) /\ Len(q) \in Nat \ {0}
      /\ DOMAIN Tail(q) = 1 .. Len(q) - 1
  BY <1>1, LenProperties, EmptySeq
<1>3. Head(q) = q[1] OBVIOUS
<1>4. \A i \in DOMAIN Tail(q) : i + 1 \in DOMAIN q /\ Tail(q)[i] = q[i + 1]
  BY <1>1, <1>2
<1>5. ASSUME NEW i \in DOMAIN q, i # 1 PROVE q[i] \in ToSet(Tail(q))
  <2>1. i - 1 \in DOMAIN Tail(q) /\ (i - 1) + 1 = i BY <1>2, <1>5
  <2> QED BY <1>4, <2>1 DEF ToSet
<1> QED BY <1>1, <1>2, <1>3, <1>4, <1>5 DEF ToSet

\* The elements of two sequences, one after the other.
LEMMA ConcatElements ==
  ASSUME NEW S, NEW p \in Seq(S), NEW q \in Seq(S)
  PROVE  p \o q \in Seq(S) /\ ToSet(p \o q) = ToSet(p) \cup ToSet(q)
<1>1. /\ DOMAIN (p \o q) = 1 .. Len(p) + Len(q)
      /\ \A i \in 1 .. Len(p) + Len(q) :
           (p \o q)[i] = IF i <= Len(p) THEN p[i] ELSE q[i - Len(p)]
  OBVIOUS
<1>2. /\ DOMAIN p = 1 .. Len(p) /\ DOMAIN q = 1 .. Len(q)
      /\ Len(p) \in Nat /\ Len(q) \in Nat
  OBVIOUS
<1>3. ASSUME NEW x \in ToSet(p \o q) PROVE x \in ToSet(p) \cup ToSet(q)
  <2>1. PICK i \in 1 .. Len(p) + Len(q) : x = (p \o q)[i] BY <1>1 DEF ToSet
  <2>2. CASE i <= Len(p)
    <3>1. x = p[i] /\ i \in 1 .. Len(p) BY <1>1, <1>2, <2>1, <2>2
    <3> QED BY <1>2, <3>1 DEF ToSet
  <2>3. CASE ~(i <= Len(p))
    <3>1. x = q[i - Len(p)] /\ i - Len(p) \in 1 .. Len(q) BY <1>1, <1>2, <2>1, <2>3
    <3> QED BY <1>2, <3>1 DEF ToSet
  <2> QED BY <2>2, <2>3
<1>4. ASSUME NEW x \in ToSet(p) PROVE x \in ToSet(p \o q)
  <2>1. PICK i \in 1 .. Len(p) : x = p[i] BY <1>2 DEF ToSet
  <2>2. i \in 1 .. Len(p) + Len(q) /\ i <= Len(p) BY <1>2, <2>1
  <2> QED BY <1>1, <2>1, <2>2 DEF ToSet
<1>5. ASSUME NEW x \in ToSet(q) PROVE x \in ToSet(p \o q)
  <2>1. PICK i \in 1 .. Len(q) : x = q[i] BY <1>2 DEF ToSet
  <2>2. /\ i + Len(p) \in 1 .. Len(p) + Len(q) /\ ~(i + Len(p) <= Len(p))
        /\ (i + Len(p)) - Len(p) = i
    BY <1>2, <2>1
  <2> QED BY <1>1, <2>1, <2>2 DEF ToSet
<1>6. p \o q \in Seq(S) OBVIOUS
<1> QED BY <1>3, <1>4, <1>5, <1>6

\* The sequence made from a finite set has its elements.
LEMMA SetToSeqElements ==
  ASSUME NEW S, IsFiniteSet(S)
  PROVE  SetToSeq(S) \in Seq(S) /\ ToSet(SetToSeq(S)) = S
<1> DEFINE n == Cardinality(S)
           f == SetToSeq(S)
<1>1. n \in Nat /\ ExistsBijection(1 .. n, S)
  BY FS_CardinalityType
<1>2. \E g \in [1 .. n -> S] : IsInjective(g)
  BY <1>1, Zenon DEF ExistsBijection, Bijection, Injection, Surjection
<1>3. f \in [1 .. n -> S] /\ IsInjective(f)
  BY <1>2, Zenon DEF SetToSeq
<1>4. f \in Injection(1 .. n, S)
  BY <1>3 DEF Injection
<1>5. Cardinality(1 .. n) = n /\ IsFiniteSet(1 .. n)
  BY <1>1, FS_Interval
<1> HIDE DEF f, n
<1>6. f \in Surjection(1 .. n, S)
  BY <1>4, <1>5, FS_Injection DEF n
<1>7. \A x \in S : \E i \in 1 .. n : f[i] = x
  BY <1>6, Zenon DEF Surjection
<1>8. f \in Seq(S) /\ DOMAIN f = 1 .. n
  BY <1>1, <1>3
<1>9. ToSet(f) = S
  BY <1>3, <1>7, <1>8 DEF ToSet
<1> QED BY <1>8, <1>9 DEF f

\* What FlattenSeq makes of at least one sequence is the last value of a
\* function that satisfies its recursion.
LEMMA FlattenSeqDef ==
  ASSUME NEW seqs, Len(seqs) \in Nat \ {0}
  PROVE  \E f : /\ f = [i \in 1 .. Len(seqs) |-> IF i = 1 THEN seqs[i] ELSE f[i - 1] \o seqs[i]]
                /\ FlattenSeq(seqs) = f[Len(seqs)]
<1> DEFINE Step(u, i) == u \o seqs[i]
           Upto(f, m) == f = [i \in 1 .. m |-> IF i = 1 THEN seqs[i] ELSE Step(f[i - 1], i)]
           Bad == {m \in 1 .. Len(seqs) : ~ \E f : Upto(f, m)}
<1>1. Bad = {}
  <2> SUFFICES ASSUME Bad # {} PROVE FALSE OBVIOUS
  <2>1. PICK m \in Bad : \A n \in Bad : m <= n
    <3> HIDE DEF Upto
    <3>1. Bad \in SUBSET Nat OBVIOUS
    <3> HIDE DEF Bad
    <3> QED BY <3>1, Least
  <2> HIDE DEF Step
  <2>2. CASE m = 1
    <3>1. Upto([i \in 1 .. 1 |-> seqs[i]], 1) OBVIOUS
    <3> QED BY <3>1, <2>1, <2>2
  <2>3. CASE m # 1
    <3>1. PICK f : Upto(f, m - 1)
      <4> HIDE DEF Upto
      <4>1. m - 1 \in 1 .. Len(seqs) /\ ~(m <= m - 1) BY <2>1, <2>3
      <4>2. m - 1 \notin Bad BY <2>1, <4>1
      <4> QED BY <4>1, <4>2
    <3> DEFINE g == [i \in 1 .. m |-> IF i = m THEN Step(f[m - 1], m) ELSE f[i]]
    <3>2. ASSUME NEW i \in 1 .. m PROVE g[i] = IF i = 1 THEN seqs[i] ELSE Step(g[i - 1], i)
      BY <3>1, <2>1, <2>3
    <3>3. Upto(g, m) BY <3>2
    <3> QED BY <3>3, <2>1
  <2> QED BY <2>2, <2>3
<1>2. \E f : Upto(f, Len(seqs))
  <2> HIDE DEF Upto
  <2>1. Len(seqs) \in 1 .. Len(seqs) OBVIOUS
  <2> QED BY <1>1, <2>1
<1> DEFINE f == CHOOSE f : Upto(f, Len(seqs))
<1>3. Upto(f, Len(seqs)) BY <1>2
<1>4. FlattenSeq(seqs) = f[Len(seqs)] BY Zenon DEF FlattenSeq
<1> QED BY <1>3, <1>4

\* The elements of a sequence of sequences, one after the other.
LEMMA FlattenSeqElements ==
  ASSUME NEW S, NEW seqs \in Seq(Seq(S))
  PROVE  /\ FlattenSeq(seqs) \in Seq(S)
         /\ ToSet(FlattenSeq(seqs)) = UNION {ToSet(seqs[i]) : i \in DOMAIN seqs}
<1>1. CASE Len(seqs) = 0
  <2>1. seqs = <<>> BY <1>1
  <2>2. FlattenSeq(seqs) = <<>> BY <1>1, <2>1 DEF FlattenSeq
  <2>3. ToSet(<<>>) = {} BY DEF ToSet
  <2>4. UNION {ToSet(seqs[i]) : i \in DOMAIN seqs} = {} BY <2>1
  <2> QED BY <2>2, <2>3, <2>4
<1>2. CASE Len(seqs) # 0
  <2>1. Len(seqs) \in Nat \ {0} /\ DOMAIN seqs = 1 .. Len(seqs) BY <1>2
  <2>2. PICK f : /\ f = [i \in 1 .. Len(seqs) |-> IF i = 1 THEN seqs[i] ELSE f[i - 1] \o seqs[i]]
                 /\ FlattenSeq(seqs) = f[Len(seqs)]
    BY <2>1, FlattenSeqDef
  <2> DEFINE Good(i) == f[i] \in Seq(S) /\ ToSet(f[i]) = UNION {ToSet(seqs[j]) : j \in 1 .. i}
             Bad == {i \in 1 .. Len(seqs) : ~Good(i)}
  <2>3. Bad = {}
    <3> SUFFICES ASSUME Bad # {} PROVE FALSE OBVIOUS
    <3>1. PICK m \in Bad : \A n \in Bad : m <= n
      <4>1. Bad \in SUBSET Nat OBVIOUS
      <4> HIDE DEF Bad
      <4> QED BY <4>1, Least
    <3>2. m \in 1 .. Len(seqs) /\ seqs[m] \in Seq(S) BY <2>1, <3>1
    <3>3. CASE m = 1
      <4>1. f[1] = seqs[1] BY <2>2, <3>2
      <4>2. UNION {ToSet(seqs[j]) : j \in 1 .. 1} = ToSet(seqs[1])
        <5>1. 1 .. 1 = {1} OBVIOUS
        <5> QED BY <5>1
      <4> QED BY <3>1, <3>2, <3>3, <4>1, <4>2
    <3>4. CASE m # 1
      <4>1. Good(m - 1)
        <5> HIDE DEF Good
        <5>1. m - 1 \in 1 .. Len(seqs) /\ ~(m <= m - 1) BY <3>2, <3>4
        <5> QED BY <3>1, <5>1
      <4>2. f[m] = f[m - 1] \o seqs[m] BY <2>2, <3>2, <3>4
      <4>3. f[m] \in Seq(S) /\ ToSet(f[m]) = ToSet(f[m - 1]) \cup ToSet(seqs[m])
        <5> DEFINE p == f[m - 1]
                   q == seqs[m]
        <5>1. p \in Seq(S) /\ q \in Seq(S) BY <3>2, <4>1
        <5> HIDE DEF p, q
        <5>2. p \o q \in Seq(S) /\ ToSet(p \o q) = ToSet(p) \cup ToSet(q)
          BY <5>1, ConcatElements
        <5> QED BY <4>2, <5>2 DEF p, q
      <4>4. 1 .. m = (1 .. m - 1) \cup {m} BY <3>2
      <4>5. UNION {ToSet(seqs[j]) : j \in 1 .. m}
              = (UNION {ToSet(seqs[j]) : j \in 1 .. m - 1}) \cup ToSet(seqs[m])
        BY <4>4, Zenon
      <4> QED BY <3>1, <4>1, <4>3, <4>5
    <3> QED BY <3>3, <3>4
  <2>4. Good(Len(seqs))
    <3> HIDE DEF Good
    <3> QED BY <2>1, <2>3
  <2> QED BY <2>1, <2>2, <2>4
<1> QED BY <1>1, <1>2

\* The results of applying g again and again, N times.
Iterates(R, N, x, g) == R = [n \in 0 .. N |-> IF n = 0 THEN x ELSE g[R[n - 1]]]

LEMMA Iteration ==
  ASSUME NEW N \in Nat, NEW x, NEW g
  PROVE  \E R : Iterates(R, N, x, g)
<1> DEFINE Upto(f, m) == f = [n \in 0 .. m |-> IF n = 0 THEN x ELSE g[f[n - 1]]]
           NotUpto == {m \in 0 .. N : ~ \E f : Upto(f, m)}
<1>1. NotUpto = {}
  <2> SUFFICES ASSUME NotUpto # {} PROVE FALSE OBVIOUS
  <2>1. PICK m \in NotUpto : \A n \in NotUpto : m <= n
    <3> HIDE DEF Upto
    <3>1. NotUpto \in SUBSET Nat OBVIOUS
    <3> HIDE DEF NotUpto
    <3> QED BY <3>1, Least
  <2>2. CASE m = 0
    <3>1. Upto([n \in 0 .. 0 |-> x], 0) OBVIOUS
    <3> QED BY <3>1, <2>1, <2>2
  <2>3. CASE m # 0
    <3>1. PICK f : Upto(f, m - 1)
      <4> HIDE DEF Upto
      <4>1. m - 1 \in 0 .. N /\ ~(m <= m - 1) BY <2>1, <2>3
      <4>2. m - 1 \notin NotUpto BY <2>1, <4>1
      <4> QED BY <4>1, <4>2
    <3> DEFINE h == [n \in 0 .. m |-> IF n = m THEN g[f[m - 1]] ELSE f[n]]
    <3>2. m \in Nat /\ \A n \in 0 .. m - 1 : f[n] = IF n = 0 THEN x ELSE g[f[n - 1]]
      BY <3>1, <2>1, <2>3
    <3>3. ASSUME NEW n \in 0 .. m PROVE h[n] = IF n = 0 THEN x ELSE g[h[n - 1]]
      <4>1. n = m => n - 1 \in 0 .. m /\ n - 1 # m /\ n # 0 BY <3>2, <2>3
      <4>2. n # m => n \in 0 .. m - 1 /\ (n # 0 => n - 1 \in 0 .. m /\ n - 1 # m) BY <3>2
      <4> QED BY <4>1, <4>2, <3>2
    <3>4. Upto(h, m) BY <3>3
    <3> QED BY <3>4, <2>1
  <2> QED BY <2>2, <2>3
<1>2. \E f : Upto(f, N)
  <2> HIDE DEF Upto
  <2>1. N \in 0 .. N OBVIOUS
  <2> QED BY <1>1, <2>1
<1> QED BY <1>2 DEF Iterates

\* They stay in a set that g does not leave.
LEMMA IterationWithin ==
  ASSUME NEW N \in Nat, NEW X, NEW x \in X, NEW g \in [X -> X]
  PROVE  \E R \in [0 .. N -> X] : Iterates(R, N, x, g)
<1>1. PICK R : Iterates(R, N, x, g) BY Iteration, Zenon
<1>2. R = [n \in 0 .. N |-> IF n = 0 THEN x ELSE g[R[n - 1]]] BY <1>1 DEF Iterates
<1> DEFINE Outside == {n \in 0 .. N : R[n] \notin X}
<1>3. Outside = {}
  <2> SUFFICES ASSUME Outside # {} PROVE FALSE OBVIOUS
  <2>1. PICK k \in Outside : \A n \in Outside : k <= n
    <3>1. Outside \in SUBSET Nat OBVIOUS
    <3> HIDE DEF Outside
    <3> QED BY <3>1, Least
  <2>2. k \in 0 .. N /\ R[k] \notin X /\ k # 0 BY <1>2, <2>1
  <2>3. k - 1 \in 0 .. N /\ ~(k <= k - 1) BY <2>2
  <2>4. R[k - 1] \in X BY <2>1, <2>3
  <2>5. R[k] = g[R[k - 1]] BY <1>2, <2>2
  <2> QED BY <2>2, <2>4, <2>5
<1>4. R = [n \in 0 .. N |-> R[n]] BY <1>2
<1> QED BY <1>1, <1>3, <1>4

\* C is the least set with all of start in it and, with a member b, all of next[b].
IsClosure(next, start, C) ==
  /\ start \subseteq C
  /\ \A b \in C : next[b] \subseteq C
  /\ \A T \in SUBSET DOMAIN next : start \subseteq T /\ (\A b \in T : next[b] \subseteq T) => C \subseteq T

\* The sets that lead to it.
Grows(next, start, W, N) ==
  W[0] = start /\ \A n \in 0 .. N - 1 : W[n + 1] = W[n] \cup UNION {next[b] : b \in W[n]}

\* Over N points, N steps make it.
LEMMA GrowsToClosure ==
  ASSUME NEW N \in Nat, NEW next \in [1 .. N -> SUBSET (1 .. N)], NEW start \in SUBSET (1 .. N),
         NEW W, Grows(next, start, W, N)
  PROVE  /\ W[N] \in SUBSET (1 .. N) /\ IsClosure(next, start, W[N])
         /\ N # 0 => W[N] = W[N - 1]
<1> USE DEF Grows
\* What start and next stay in, W stays in.
<1>1. ASSUME NEW T \in SUBSET (1 .. N), start \subseteq T, \A b \in T : next[b] \subseteq T
      PROVE  \A n \in 0 .. N : W[n] \subseteq T
  <2> DEFINE Beyond == {n \in 0 .. N : ~(W[n] \subseteq T)}
  <2> SUFFICES ASSUME Beyond # {} PROVE FALSE OBVIOUS
  <2>1. PICK k \in Beyond : \A n \in Beyond : k <= n
    <3>1. Beyond \in SUBSET Nat OBVIOUS
    <3> HIDE DEF Beyond
    <3> QED BY <3>1, Least
  <2>2. k # 0 BY <2>1, <1>1
  <2>3. k - 1 \in 0 .. N - 1 /\ k - 1 \in 0 .. N /\ (k - 1) + 1 = k /\ ~(k <= k - 1) BY <2>1, <2>2
  <2>4. W[k - 1] \subseteq T BY <2>1, <2>3
  <2>5. W[k] = W[k - 1] \cup UNION {next[b] : b \in W[k - 1]} BY <2>3
  <2>6. UNION {next[b] : b \in W[k - 1]} \subseteq T BY <1>1, <2>4
  <2> QED BY <2>1, <2>4, <2>5, <2>6
<1>2. \A n \in 0 .. N : W[n] \subseteq 1 .. N BY <1>1
<1>3. GrowsUntil(W, N)
  <2>1. \A n \in 0 .. N - 1 : W[n] \subseteq W[n + 1] OBVIOUS
  <2>2. ASSUME NEW n \in 0 .. N - 2, W[n + 1] = W[n] PROVE W[n + 2] = W[n + 1]
    <3>1. n \in 0 .. N - 1 /\ n + 1 \in 0 .. N - 1 /\ (n + 1) + 1 = n + 2 OBVIOUS
    <3>2. W[n + 1] = W[n] \cup UNION {next[b] : b \in W[n]} BY <3>1
    <3>3. W[n + 2] = W[n + 1] \cup UNION {next[b] : b \in W[n + 1]} BY <3>1
    <3> QED BY <2>2, <3>2, <3>3
  <2>3. ASSUME N > 0, W[0] = {} PROVE W[1] = {}
    <3>1. 0 \in 0 .. N - 1 /\ 0 + 1 = 1 BY <2>3
    <3>2. W[1] = W[0] \cup UNION {next[b] : b \in W[0]} BY <3>1
    <3> QED BY <2>3, <3>2
  <2> QED BY <2>1, <2>2, <2>3 DEF GrowsUntil
<1>4. N \in 0 .. N OBVIOUS
<1>5. IsFiniteSet(W[N]) /\ Cardinality(W[N]) <= N
  <2>1. IsFiniteSet(1 .. N) /\ Cardinality(1 .. N) = N BY FS_Interval
  <2> QED BY <1>2, <1>4, <2>1, FS_Subset
<1>6. \A b \in W[N] : next[b] \subseteq W[N]
  <2>1. CASE W[N] = {} BY <2>1
  <2>2. ASSUME NEW m \in 0 .. N - 1, W[m + 1] = W[m], W[N] = W[m]
        PROVE  \A b \in W[N] : next[b] \subseteq W[N]
    <3>1. W[m + 1] = W[m] \cup UNION {next[b] : b \in W[m]} OBVIOUS
    <3> QED BY <2>2, <3>1
  <2> HIDE DEF Grows
  <2> QED BY <1>3, <1>5, <2>1, <2>2, ChainStops
<1>7. start \subseteq W[N]
  <2>1. CASE N = 0 BY <2>1
  <2>2. CASE N # 0
    <3> DEFINE Without == {n \in 0 .. N : ~(start \subseteq W[n])}
    <3> SUFFICES ASSUME Without # {} PROVE FALSE BY <1>4
    <3>1. PICK k \in Without : \A n \in Without : k <= n
      <4>1. Without \in SUBSET Nat OBVIOUS
      <4> HIDE DEF Without
      <4> QED BY <4>1, Least
    <3>2. k # 0 BY <3>1
    <3>3. k - 1 \in 0 .. N - 1 /\ k - 1 \in 0 .. N /\ (k - 1) + 1 = k /\ ~(k <= k - 1) BY <3>1, <3>2
    <3>4. start \subseteq W[k - 1] BY <3>1, <3>3
    <3>5. W[k - 1] \subseteq W[k] BY <3>3
    <3> QED BY <3>1, <3>4, <3>5
  <2> QED BY <2>1, <2>2
<1>8. DOMAIN next = 1 .. N OBVIOUS
<1>9. ASSUME NEW T \in SUBSET DOMAIN next, start \subseteq T, \A b \in T : next[b] \subseteq T
      PROVE  W[N] \subseteq T
  BY <1>1, <1>4, <1>8, <1>9
<1> HIDE DEF Grows
<1>10. N # 0 => W[N] = W[N - 1] BY <1>3, <1>5, LastStepAddsNothing
<1> QED BY <1>2, <1>4, <1>6, <1>7, <1>9, <1>10 DEF IsClosure

=============================================================================
