--------------------------- MODULE KvStoreProofs ---------------------------
(***************************************************************************)
(* The hash table, the slots and the free list of a KVStore implement a    *)
(* map, whatever the keys and their hashes, the number of slots, the size  *)
(* of the table and the values put: linear probing finds every entry, a    *)
(* slot is free once or belongs to one entry, the statistics agree with    *)
(* the table, and every answer is one the map may give.                    *)
(***************************************************************************)
EXTENDS KvStore, FiniteSetTheorems, SequenceTheorems, WellFoundedInduction, TLAPS

----------------------------------------------------------------------------
(* Induction and arithmetic.                                               *)

\* A set that holds 0 and the successor of each number it holds holds them all.
LEMMA NatSetInduction ==
    ASSUME NEW N, 0 \in N, \A n \in Nat : n \in N => n + 1 \in N
    PROVE  Nat \subseteq N
<1> SUFFICES ASSUME Nat \ N # {}
             PROVE  FALSE
    OBVIOUS
<1> DEFINE R == OpToRel(<, Nat)
<1>1. IsWellFoundedOn(R, Nat)
    BY NatLessThanWellFounded
<1>2. R = {ss \in Nat \X Nat : ss[1] < ss[2]}
    BY DEF OpToRel
<1> HIDE DEF R
<1>3. PICK m \in Nat \ N : \A k \in Nat \ N : ~ (<<k, m>> \in R)
    BY <1>1, WFMin
<1>4. m # 0 /\ m - 1 \in Nat /\ (m - 1) + 1 = m
    BY <1>3
<1>5. m - 1 \in N
    <2>1. <<m - 1, m>> \in R
        BY <1>2, <1>4
    <2> QED
        BY <1>3, <1>4, <2>1
<1> QED
    BY <1>3, <1>4, <1>5

\* A set of numbers that is not empty has a least one.
LEMMA LeastNumber ==
    ASSUME NEW S \in SUBSET Nat, S # {}
    PROVE  \E m \in S : \A n \in S : m <= n
<1> DEFINE R == OpToRel(<, Nat)
<1>1. IsWellFoundedOn(R, Nat)
    BY NatLessThanWellFounded
<1>2. R = {ss \in Nat \X Nat : ss[1] < ss[2]}
    BY DEF OpToRel
<1> HIDE DEF R
<1>3. PICK m \in S : \A n \in S : ~ (<<n, m>> \in R)
    BY <1>1, WFMin
<1>4. ASSUME NEW n \in S
      PROVE  m <= n
    <2>1. m \in Nat /\ n \in Nat /\ ~(n < m)
        BY <1>2, <1>3
    <2> QED
        BY <2>1
<1> QED
    BY <1>4

\* A multiple of n that is less than n away from 0 is 0.
LEMMA SmallMultiple ==
    ASSUME NEW d \in Int, NEW n \in Nat \ {0}, n * d < n, -n < n * d
    PROVE  d = 0
<1>1. n * d = n * (d - 1) + n /\ n * d = n * (d + 1) - n
    OBVIOUS
<1>2. n * (d - 1) < 0 /\ n * (d + 1) > 0
    BY <1>1
<1>3. d - 1 < 0
    BY <1>2
<1>4. d + 1 > 0
    BY <1>2
<1> QED
    BY <1>3, <1>4

\* Numbers less than n apart with the same remainder are equal.
LEMMA SameRemainder ==
    ASSUME NEW x \in Int, NEW y \in Int, NEW n \in Nat \ {0},
           x % n = y % n, x - y < n, y - x < n
    PROVE  x = y
<1> DEFINE d == (x \div n) - (y \div n)
<1>1. x \div n \in Int /\ y \div n \in Int /\ x % n \in Int
    OBVIOUS
<1>2. x = n * (x \div n) + (x % n)
    OBVIOUS
<1>3. y = n * (y \div n) + (y % n)
    OBVIOUS
<1>4. d \in Int /\ n * d = n * (x \div n) - n * (y \div n)
    BY <1>1
<1>5. n * (x \div n) \in Int /\ n * (y \div n) \in Int
    BY <1>1
<1>6. x - y = n * (x \div n) - n * (y \div n)
    BY <1>1, <1>2, <1>3, <1>5
<1> HIDE DEF d
<1>7. d = 0
    BY <1>4, <1>6, SmallMultiple
<1> QED
    BY <1>4, <1>6, <1>7

\* A number below n is its own remainder.
LEMMA OwnRemainder ==
    ASSUME NEW n \in Nat \ {0}, NEW x \in 0 .. n - 1
    PROVE  x % n = x
<1>1. x % n \in 0 .. n - 1 /\ x \div n \in Int
    OBVIOUS
<1>2. x = n * (x \div n) + (x % n)
    OBVIOUS
<1>3. x - (x % n) = n * (x \div n)
    BY <1>1, <1>2
<1>4. x \div n = 0
    BY <1>1, <1>3, SmallMultiple
<1> QED
    BY <1>1, <1>3, <1>4

----------------------------------------------------------------------------
(* The recursive functions of the model.                                   *)

\* The table has a position at least, whatever its configured size.
LEMMA NextPowerOfTwoType ==
    ASSUME NEW n \in Nat
    PROVE  NextPowerOfTwo(n) \in Nat \ {0}
<1> DEFINE Step(F, i) == IF i = 0 THEN 1 ELSE 2 * F[i - 1]
           power == CHOOSE F : F = [i \in 0 .. n |-> Step(F, i)]
           S == {p \in {power[i] : i \in 0 .. n} : n <= p}
<1>1. NextPowerOfTwo(n) = CHOOSE x \in S : \A y \in S : x <= y
    BY DEF NextPowerOfTwo, Min
<1>2. \A m \in Nat : \E F : F = [i \in 0 .. m |-> Step(F, i)]
    <2> DEFINE N == {m \in Nat : \E F : F = [i \in 0 .. m |-> Step(F, i)]}
    <2>1. 0 \in N
        <3> DEFINE F == [i \in 0 .. 0 |-> 1]
        <3>1. F = [i \in 0 .. 0 |-> Step(F, i)]
            OBVIOUS
        <3> QED
            BY <3>1
    <2>2. ASSUME NEW m \in Nat, m \in N
          PROVE  m + 1 \in N
        <3>1. PICK F : F = [i \in 0 .. m |-> Step(F, i)]
            BY <2>2
        <3> DEFINE G == [i \in 0 .. m + 1 |-> IF i = m + 1 THEN Step(F, i) ELSE F[i]]
        <3>2. ASSUME NEW i \in 0 .. m + 1
              PROVE  G[i] = Step(G, i)
            <4>1. CASE i = 0
                BY <3>1, <4>1
            <4>2. CASE i # 0
                <5>1. i - 1 \in 0 .. m /\ i - 1 # m + 1 /\ i - 1 \in 0 .. m + 1
                    BY <4>2
                <5>2. G[i - 1] = F[i - 1]
                    BY <5>1
                <5>3. G[i] = Step(F, i)
                    <6>1. CASE i = m + 1
                        BY <6>1
                    <6>2. CASE i # m + 1
                        <7>1. i \in 0 .. m /\ G[i] = F[i]
                            BY <6>2
                        <7>2. F[i] = [j \in 0 .. m |-> Step(F, j)][i]
                            BY <3>1
                        <7> QED
                            BY <7>1, <7>2
                    <6> QED
                        BY <6>1, <6>2
                <5> QED
                    BY <5>2, <5>3
            <4> QED
                BY <4>1, <4>2
        <3>3. G = [i \in 0 .. m + 1 |-> Step(G, i)]
            <4> HIDE DEF Step
            <4> QED
                BY <3>2
        <3>4. \E H : H = [i \in 0 .. m + 1 |-> Step(H, i)]
            <4> HIDE DEF Step, G
            <4> QED
                BY <3>3
        <3> HIDE DEF Step, G
        <3> QED
            BY <3>4
    <2> HIDE DEF N
    <2>3. Nat \subseteq N
        BY <2>1, <2>2, NatSetInduction
    <2> QED
        BY <2>3 DEF N
<1>3. power = [i \in 0 .. n |-> Step(power, i)]
    <2>1. \E F : F = [i \in 0 .. n |-> Step(F, i)]
        BY <1>2
    <2> QED
        BY <2>1
<1> HIDE DEF power
<1>4. \A m \in Nat : m <= n => power[m] \in Nat /\ power[m] > m
    <2> DEFINE N == {m \in Nat : m <= n => power[m] \in Nat /\ power[m] > m}
    <2>1. 0 \in N
        BY <1>3
    <2>2. ASSUME NEW m \in Nat, m \in N
          PROVE  m + 1 \in N
        <3> SUFFICES ASSUME m + 1 <= n
                     PROVE  power[m + 1] \in Nat /\ power[m + 1] > m + 1
            OBVIOUS
        <3>1. power[m] \in Nat /\ power[m] > m /\ m + 1 \in 0 .. n
            BY <2>2
        <3>2. power[m + 1] = Step(power, m + 1)
            <4> HIDE DEF Step
            <4> QED
                BY <1>3, <3>1
        <3>3. m + 1 # 0 /\ (m + 1) - 1 = m
            OBVIOUS
        <3>4. power[m + 1] = 2 * power[m]
            BY <3>2, <3>3
        <3> QED
            BY <3>1, <3>4
    <2> HIDE DEF N
    <2>3. Nat \subseteq N
        BY <2>1, <2>2, NatSetInduction
    <2> QED
        BY <2>3 DEF N
<1>5. S \in SUBSET Nat /\ \A p \in S : p # 0
    BY <1>4
<1>6. power[n] \in S
    BY <1>4
<1> HIDE DEF S
<1>7. \E x \in S : \A y \in S : x <= y
    BY <1>5, <1>6, LeastNumber
<1>8. NextPowerOfTwo(n) \in S
    BY <1>1, <1>7
<1> QED
    BY <1>5, <1>8

\* The segments of a list, one after the other, are a value.
LEMMA FlattenSeqType ==
    ASSUME NEW T, NEW seqs \in Seq(Seq(T))
    PROVE  FlattenSeq(seqs) \in Seq(T)
<1>1. CASE Len(seqs) = 0
    <2>1. seqs = << >>
        BY <1>1, EmptySeq
    <2>2. FlattenSeq(seqs) = << >>
        BY <1>1, <2>1 DEF FlattenSeq
    <2> QED
        BY <2>2
<1>2. CASE Len(seqs) # 0
    <2> DEFINE Step(F, i) == IF i = 1 THEN seqs[i] ELSE F[i - 1] \o seqs[i]
               flatten == CHOOSE F : F = [i \in 1 .. Len(seqs) |-> Step(F, i)]
    <2>1. Len(seqs) \in Nat /\ Len(seqs) >= 1
          /\ \A i \in 1 .. Len(seqs) : seqs[i] \in Seq(T)
        BY <1>2, LenProperties, ElementOfSeq
    <2>2. FlattenSeq(seqs) = flatten[Len(seqs)]
        BY <1>2 DEF FlattenSeq
    <2>3. \A m \in Nat : \E F : F = [i \in 1 .. m |-> Step(F, i)]
        <3> DEFINE N == {m \in Nat : \E F : F = [i \in 1 .. m |-> Step(F, i)]}
        <3>1. 0 \in N
            <4> DEFINE F == [i \in 1 .. 0 |-> << >>]
            <4>1. F = [i \in 1 .. 0 |-> Step(F, i)]
                OBVIOUS
            <4> QED
                BY <4>1
        <3>2. ASSUME NEW m \in Nat, m \in N
              PROVE  m + 1 \in N
            <4>1. PICK F : F = [i \in 1 .. m |-> Step(F, i)]
                BY <3>2
            <4> DEFINE G == [i \in 1 .. m + 1 |-> IF i = m + 1 THEN Step(F, i) ELSE F[i]]
            <4>2. ASSUME NEW i \in 1 .. m + 1
                  PROVE  G[i] = Step(G, i)
                <5>1. G[i] = Step(F, i)
                    <6>1. CASE i = m + 1
                        BY <6>1
                    <6>2. CASE i # m + 1
                        <7>1. i \in 1 .. m /\ G[i] = F[i]
                            BY <6>2
                        <7>2. F[i] = [j \in 1 .. m |-> Step(F, j)][i]
                            BY <4>1
                        <7> QED
                            BY <7>1, <7>2
                    <6> QED
                        BY <6>1, <6>2
                <5>2. CASE i = 1
                    BY <5>1, <5>2
                <5>3. CASE i # 1
                    <6>1. i - 1 \in 1 .. m /\ i - 1 # m + 1 /\ i - 1 \in 1 .. m + 1
                        BY <5>3
                    <6>2. G[i - 1] = F[i - 1]
                        BY <6>1
                    <6> QED
                        BY <5>1, <6>2
                <5> QED
                    BY <5>2, <5>3
            <4>3. G = [i \in 1 .. m + 1 |-> Step(G, i)]
                <5> HIDE DEF Step
                <5> QED
                    BY <4>2
            <4>4. \E H : H = [i \in 1 .. m + 1 |-> Step(H, i)]
                <5> HIDE DEF Step, G
                <5> QED
                    BY <4>3
            <4> HIDE DEF Step, G
            <4> QED
                BY <4>4
        <3> HIDE DEF N
        <3>3. Nat \subseteq N
            BY <3>1, <3>2, NatSetInduction
        <3> QED
            BY <3>3 DEF N
    <2>4. flatten = [i \in 1 .. Len(seqs) |-> Step(flatten, i)]
        <3>1. \E F : F = [i \in 1 .. Len(seqs) |-> Step(F, i)]
            BY <2>1, <2>3
        <3> QED
            BY <3>1
    <2> HIDE DEF flatten
    <2>5. \A m \in Nat : m + 1 <= Len(seqs) => flatten[m + 1] \in Seq(T)
        <3> DEFINE N == {m \in Nat : m + 1 <= Len(seqs) => flatten[m + 1] \in Seq(T)}
        <3>1. 0 \in N
            <4>1. 1 \in 1 .. Len(seqs) /\ 0 + 1 = 1
                BY <2>1
            <4>2. flatten[1] = Step(flatten, 1)
                <5> HIDE DEF Step
                <5> QED
                    BY <2>4, <4>1
            <4> QED
                BY <2>1, <4>1, <4>2
        <3>2. ASSUME NEW m \in Nat, m \in N
              PROVE  m + 1 \in N
            <4> SUFFICES ASSUME (m + 1) + 1 <= Len(seqs)
                         PROVE  flatten[(m + 1) + 1] \in Seq(T)
                OBVIOUS
            <4>1. flatten[m + 1] \in Seq(T) /\ (m + 1) + 1 \in 1 .. Len(seqs)
                BY <2>1, <3>2
            <4>2. flatten[(m + 1) + 1] = Step(flatten, (m + 1) + 1)
                <5> HIDE DEF Step
                <5> QED
                    BY <2>4, <4>1
            <4>3. (m + 1) + 1 # 1 /\ ((m + 1) + 1) - 1 = m + 1
                OBVIOUS
            <4>4. flatten[(m + 1) + 1] = flatten[m + 1] \o seqs[(m + 1) + 1]
                BY <4>2, <4>3
            <4> QED
                BY <2>1, <4>1, <4>4, ConcatProperties
        <3> HIDE DEF N
        <3>3. Nat \subseteq N
            BY <3>1, <3>2, NatSetInduction
        <3> QED
            BY <3>3 DEF N
    <2>6. Len(seqs) - 1 \in Nat /\ (Len(seqs) - 1) + 1 = Len(seqs)
        BY <2>1
    <2>7. flatten[(Len(seqs) - 1) + 1] \in Seq(T)
        <3>1. (Len(seqs) - 1) + 1 <= Len(seqs)
            BY <2>1
        <3> QED
            BY <2>5, <2>6, <3>1
    <2> QED
        BY <2>2, <2>6, <2>7
<1> QED
    BY <1>1, <1>2

----------------------------------------------------------------------------
(* The sum of the sizes of the entries: MapThenSumSet picks the elements   *)
(* of a set in an order of its own, which does not matter.                 *)

\* One step of the summation: the element picked first, and the others.
SumStep(t, F, s) ==
    IF s = {} THEN 0
    ELSE LET x == CHOOSE x \in s : TRUE
         IN  t[x].value_size + F[s \ {x}]

\* F sums the sizes of every set of positions in S.
Sums(t, S, F) == F = [s \in SUBSET S |-> SumStep(t, F, s)]

\* The sum of the sizes of the entries of t at the positions in S.
TotalSize(t, S) == MapThenSumSet(LAMBDA p : t[p].value_size, S)

\* The subsets of a finite set, and what is left of them without an element.
LEMMA SmallerSubset ==
    ASSUME NEW S, IsFiniteSet(S), NEW s \in SUBSET S
    PROVE  /\ IsFiniteSet(s) /\ Cardinality(s) \in Nat
           /\ Cardinality(s) = 0 => s = {}
           /\ \A x \in s : /\ s \ {x} \in SUBSET S
                           /\ Cardinality(s \ {x}) = Cardinality(s) - 1
<1>1. IsFiniteSet(s)
    BY FS_Subset
<1>2. Cardinality(s) \in Nat
    BY <1>1, FS_CardinalityType
<1>3. Cardinality(s) = 0 => s = {}
    BY <1>1, FS_EmptySet
<1>4. ASSUME NEW x \in s
      PROVE  Cardinality(s \ {x}) = Cardinality(s) - 1
    BY <1>1, FS_RemoveElement
<1> QED
    BY <1>1, <1>2, <1>3, <1>4

\* The summation is defined.
LEMMA SumsExist ==
    ASSUME NEW t, NEW S, IsFiniteSet(S)
    PROVE  \E F : Sums(t, S, F)
<1> DEFINE Correct(F, n) == \A s \in SUBSET S : Cardinality(s) <= n => F[s] = SumStep(t, F, s)
           N == {n \in Nat : \E F : F = [s \in SUBSET S |-> F[s]] /\ Correct(F, n)}
<1>1. 0 \in N
    <2> DEFINE F == [s \in SUBSET S |-> 0]
    <2>1. ASSUME NEW s \in SUBSET S, Cardinality(s) <= 0
          PROVE  F[s] = SumStep(t, F, s)
        <3>1. s = {}
            BY <2>1, SmallerSubset
        <3> QED
            BY <3>1 DEF SumStep
    <2>2. F = [s \in SUBSET S |-> F[s]]
        OBVIOUS
    <2>3. Correct(F, 0)
        BY <2>1
    <2> HIDE DEF F, Correct
    <2> QED
        BY <2>2, <2>3
<1>2. ASSUME NEW n \in Nat, n \in N
      PROVE  n + 1 \in N
    <2>1. PICK F : F = [s \in SUBSET S |-> F[s]] /\ Correct(F, n)
        BY <1>2
    <2> DEFINE G == [s \in SUBSET S |-> IF Cardinality(s) <= n THEN F[s]
                                        ELSE SumStep(t, F, s)]
    <2>2. ASSUME NEW s \in SUBSET S, Cardinality(s) <= n + 1
          PROVE  G[s] = SumStep(t, G, s)
        <3>1. G[s] = SumStep(t, F, s)
            BY <2>1
        <3>2. CASE s = {}
            BY <3>1, <3>2 DEF SumStep
        <3>3. CASE s # {}
            <4> DEFINE x == CHOOSE y \in s : TRUE
            <4>1. x \in s
                BY <3>3
            <4>2. SumStep(t, F, s) = t[x].value_size + F[s \ {x}]
                BY <3>3 DEF SumStep
            <4>3. SumStep(t, G, s) = t[x].value_size + G[s \ {x}]
                BY <3>3 DEF SumStep
            <4> HIDE DEF x, G
            <4>4. Cardinality(s) \in Nat /\ s \ {x} \in SUBSET S
                  /\ Cardinality(s \ {x}) = Cardinality(s) - 1
                BY <4>1, SmallerSubset
            <4>5. Cardinality(s \ {x}) <= n
                BY <2>2, <4>4
            <4>6. G[s \ {x}] = F[s \ {x}]
                BY <4>4, <4>5 DEF G
            <4> QED
                BY <3>1, <4>2, <4>3, <4>6
        <3> QED
            BY <3>2, <3>3
    <2>3. G = [s \in SUBSET S |-> G[s]]
        OBVIOUS
    <2>4. Correct(G, n + 1)
        <3> HIDE DEF G
        <3> QED
            BY <2>2
    <2> HIDE DEF G, Correct
    <2> QED
        BY <2>3, <2>4
<1> HIDE DEF N
<1>3. Nat \subseteq N
    BY <1>1, <1>2, NatSetInduction
<1>4. Cardinality(S) \in Nat /\ \A s \in SUBSET S : Cardinality(s) <= Cardinality(S)
    BY FS_CardinalityType, FS_Subset
<1>5. PICK F : F = [s \in SUBSET S |-> F[s]] /\ Correct(F, Cardinality(S))
    BY <1>3, <1>4 DEF N
<1>6. \A s \in SUBSET S : F[s] = SumStep(t, F, s)
    BY <1>4, <1>5
<1>7. F = [s \in SUBSET S |-> SumStep(t, F, s)]
    BY <1>5, <1>6
<1> QED
    BY <1>7 DEF Sums

\* TotalSize is what a summation gives.
LEMMA TotalSizeSums ==
    ASSUME NEW t, NEW S, IsFiniteSet(S)
    PROVE  \E F : Sums(t, S, F) /\ TotalSize(t, S) = F[S]
<1> DEFINE iter == CHOOSE F : F = [s \in SUBSET S |-> SumStep(t, F, s)]
<1>1. TotalSize(t, S) = iter[S]
    BY DEF TotalSize, MapThenSumSet, MapThenFoldSet, SumStep
<1>2. iter = [s \in SUBSET S |-> SumStep(t, iter, s)]
    <2>1. \E F : F = [s \in SUBSET S |-> SumStep(t, F, s)]
        BY SumsExist DEF Sums
    <2> QED
        BY <2>1
<1> HIDE DEF iter
<1> QED
    BY <1>1, <1>2 DEF Sums

\* Two summations agree on a set on which the sizes do.
LEMMA SumsAgree ==
    ASSUME NEW t, NEW u, NEW S, NEW R, IsFiniteSet(S), IsFiniteSet(R),
           NEW F, NEW G, Sums(t, S, F), Sums(u, R, G),
           NEW T, T \subseteq S, T \subseteq R,
           \A x \in T : t[x].value_size = u[x].value_size
    PROVE  F[T] = G[T]
<1> DEFINE N == {n \in Nat : \A s \in SUBSET T : Cardinality(s) = n => F[s] = G[s]}
<1>0. IsFiniteSet(T)
    BY FS_Subset
<1>1. ASSUME NEW s \in SUBSET T
      PROVE  F[s] = SumStep(t, F, s) /\ G[s] = SumStep(u, G, s)
    <2>1. s \in SUBSET S /\ s \in SUBSET R
        OBVIOUS
    <2> QED
        BY <2>1 DEF Sums
<1>2. 0 \in N
    <2>1. ASSUME NEW s \in SUBSET T, Cardinality(s) = 0
          PROVE  F[s] = G[s]
        <3>1. s = {}
            BY <1>0, <2>1, SmallerSubset
        <3> QED
            BY <1>1, <3>1 DEF SumStep
    <2> QED
        BY <2>1
<1>3. ASSUME NEW n \in Nat, n \in N
      PROVE  n + 1 \in N
    <2>1. ASSUME NEW s \in SUBSET T, Cardinality(s) = n + 1
          PROVE  F[s] = G[s]
        <3>1. s # {}
            BY <2>1, FS_EmptySet
        <3> DEFINE x == CHOOSE y \in s : TRUE
        <3>2. x \in s
            BY <3>1
        <3>3. F[s] = t[x].value_size + F[s \ {x}] /\ G[s] = u[x].value_size + G[s \ {x}]
            BY <1>1, <3>1 DEF SumStep
        <3> HIDE DEF x
        <3>4. s \ {x} \in SUBSET T /\ Cardinality(s \ {x}) = n
            BY <1>0, <2>1, <3>2, SmallerSubset
        <3>5. F[s \ {x}] = G[s \ {x}]
            BY <1>3, <3>4
        <3>6. t[x].value_size = u[x].value_size
            BY <3>2
        <3> QED
            BY <3>3, <3>5, <3>6
    <2> QED
        BY <2>1
<1> HIDE DEF N
<1>4. Nat \subseteq N
    BY <1>2, <1>3, NatSetInduction
<1>5. Cardinality(T) \in Nat
    BY <1>0, FS_CardinalityType
<1> QED
    BY <1>4, <1>5 DEF N

\* Any element of a set may be the one that is added last.
LEMMA SumsAnyOrder ==
    ASSUME NEW t, NEW S, IsFiniteSet(S), NEW F, Sums(t, S, F),
           \A x \in S : t[x].value_size \in Nat
    PROVE  \A s \in SUBSET S :
              F[s] \in Nat /\ \A x \in s : F[s] = t[x].value_size + F[s \ {x}]
<1> DEFINE Holds(s) == F[s] \in Nat /\ \A x \in s : F[s] = t[x].value_size + F[s \ {x}]
           N == {n \in Nat : \A s \in SUBSET S : Cardinality(s) <= n => Holds(s)}
<1>1. \A s \in SUBSET S : F[s] = SumStep(t, F, s)
    BY DEF Sums
<1>2. 0 \in N
    <2>1. ASSUME NEW s \in SUBSET S, Cardinality(s) <= 0
          PROVE  Holds(s)
        <3>1. s = {}
            BY <2>1, SmallerSubset
        <3>2. F[s] = 0
            BY <1>1, <3>1 DEF SumStep
        <3> QED
            BY <3>1, <3>2
    <2> QED
        BY <2>1
<1>3. ASSUME NEW n \in Nat, n \in N
      PROVE  n + 1 \in N
    <2>1. ASSUME NEW s \in SUBSET S, Cardinality(s) <= n + 1
          PROVE  Holds(s)
        <3>1. CASE s = {}
            <4>1. F[s] = 0
                BY <1>1, <3>1 DEF SumStep
            <4> QED
                BY <3>1, <4>1
        <3>2. CASE s # {}
            <4> DEFINE y == CHOOSE z \in s : TRUE
            <4>1. y \in s
                BY <3>2
            <4>2. F[s] = t[y].value_size + F[s \ {y}]
                BY <1>1, <3>2 DEF SumStep
            <4> HIDE DEF y
            <4>3. ASSUME NEW r \in SUBSET S, NEW x \in r, Cardinality(r) <= n + 1
                  PROVE  r \ {x} \in SUBSET S /\ Holds(r \ {x})
                <5>1. Cardinality(r) \in Nat /\ r \ {x} \in SUBSET S
                      /\ Cardinality(r \ {x}) = Cardinality(r) - 1
                    BY SmallerSubset
                <5>2. Cardinality(r \ {x}) <= n
                    BY <4>3, <5>1
                <5> HIDE DEF Holds
                <5> QED
                    BY <1>3, <5>1, <5>2
            <4>4. Holds(s \ {y}) /\ t[y].value_size \in Nat
                BY <2>1, <4>1, <4>3
            <4>5. F[s] \in Nat
                BY <4>2, <4>4
            <4>6. ASSUME NEW x \in s, x # y
                  PROVE  F[s] = t[x].value_size + F[s \ {x}]
                <5>1. Holds(s \ {x}) /\ x \in s \ {y} /\ y \in s \ {x}
                    BY <2>1, <4>1, <4>3, <4>6
                <5>2. F[s \ {y}] = t[x].value_size + F[(s \ {y}) \ {x}]
                    BY <4>4, <5>1
                <5>3. F[s \ {x}] = t[y].value_size + F[(s \ {x}) \ {y}]
                    BY <5>1
                <5>4. (s \ {y}) \ {x} = (s \ {x}) \ {y}
                    OBVIOUS
                <5>5. F[(s \ {y}) \ {x}] \in Nat
                    <6>1. Cardinality(s \ {y}) <= n + 1
                        <7>1. Cardinality(s) \in Nat /\ Cardinality(s \ {y}) = Cardinality(s) - 1
                            BY <4>1, SmallerSubset
                        <7> QED
                            BY <2>1, <7>1
                    <6>2. Holds((s \ {y}) \ {x})
                        <7>1. s \ {y} \in SUBSET S
                            OBVIOUS
                        <7> QED
                            BY <4>3, <5>1, <6>1, <7>1
                    <6> QED
                        BY <6>2
                <5>6. t[x].value_size \in Nat
                    OBVIOUS
                <5> DEFINE rest == F[(s \ {y}) \ {x}]
                           tx == t[x].value_size
                           ty == t[y].value_size
                <5>7. F[s \ {y}] = tx + rest /\ F[s \ {x}] = ty + rest
                    BY <5>2, <5>3, <5>4
                <5>8. rest \in Nat /\ tx \in Nat /\ ty \in Nat /\ F[s] = ty + F[s \ {y}]
                    BY <4>2, <4>4, <5>5, <5>6
                <5> HIDE DEF rest, tx, ty
                <5>9. F[s] = tx + F[s \ {x}]
                    BY <5>7, <5>8
                <5> QED
                    BY <5>9 DEF tx
            <4>7. \A x \in s : F[s] = t[x].value_size + F[s \ {x}]
                <5> SUFFICES ASSUME NEW x \in s
                             PROVE  F[s] = t[x].value_size + F[s \ {x}]
                    OBVIOUS
                <5>1. CASE x = y
                    BY <4>2, <5>1
                <5>2. CASE x # y
                    BY <4>6, <5>2
                <5> QED
                    BY <5>1, <5>2
            <4> QED
                BY <4>5, <4>7
        <3> QED
            BY <3>1, <3>2
    <2> HIDE DEF Holds
    <2> QED
        BY <2>1
<1> HIDE DEF N
<1>4. Nat \subseteq N
    BY <1>2, <1>3, NatSetInduction
<1>5. ASSUME NEW s \in SUBSET S
      PROVE  Holds(s)
    <2>1. Cardinality(s) \in Nat
        BY SmallerSubset
    <2> HIDE DEF Holds
    <2> QED
        BY <1>4, <2>1 DEF N
<1> QED
    BY <1>5

\* Nothing stored takes no bytes.
LEMMA TotalSizeEmpty ==
    ASSUME NEW t
    PROVE  TotalSize(t, {}) = 0
<1>1. IsFiniteSet({})
    BY FS_EmptySet
<1>2. PICK F : Sums(t, {}, F) /\ TotalSize(t, {}) = F[{}]
    BY <1>1, TotalSizeSums
<1>3. F[{}] = SumStep(t, F, {})
    BY <1>2 DEF Sums
<1> QED
    BY <1>2, <1>3 DEF SumStep

\* The size of one of the entries, and that of the others.
LEMMA TotalSizeWithout ==
    ASSUME NEW t, NEW S, IsFiniteSet(S), \A x \in S : t[x].value_size \in Nat, NEW p \in S
    PROVE  /\ TotalSize(t, S) = t[p].value_size + TotalSize(t, S \ {p})
           /\ TotalSize(t, S \ {p}) \in Nat
<1>1. PICK F : Sums(t, S, F) /\ TotalSize(t, S) = F[S]
    BY TotalSizeSums
<1>2. IsFiniteSet(S \ {p})
    BY FS_Subset
<1>3. PICK G : Sums(t, S \ {p}, G) /\ TotalSize(t, S \ {p}) = G[S \ {p}]
    BY <1>2, TotalSizeSums
<1>4. F[S \ {p}] = G[S \ {p}]
    BY <1>1, <1>2, <1>3, SumsAgree
<1>5. F[S] = t[p].value_size + F[S \ {p}] /\ F[S \ {p}] \in Nat
    BY <1>1, SumsAnyOrder
<1> QED
    BY <1>1, <1>3, <1>4, <1>5

\* Entries elsewhere do not count.
LEMMA TotalSizeSame ==
    ASSUME NEW t, NEW u, NEW S, IsFiniteSet(S),
           \A x \in S : t[x].value_size = u[x].value_size
    PROVE  TotalSize(t, S) = TotalSize(u, S)
<1>1. PICK F : Sums(t, S, F) /\ TotalSize(t, S) = F[S]
    BY TotalSizeSums
<1>2. PICK G : Sums(u, S, G) /\ TotalSize(u, S) = G[S]
    BY TotalSizeSums
<1>3. F[S] = G[S]
    BY <1>1, <1>2, SumsAgree
<1> QED
    BY <1>1, <1>2, <1>3

----------------------------------------------------------------------------
(* Linear probing.                                                         *)

\* A position of the hash table.
EntryType == [key : Key \cup {0}, slot_index : SlotIndex, value_size : Nat,
              occupied : BOOLEAN]

\* The positions are numbered from 0, and there is one at least.
TableTyped ==
    /\ TableSize \in Nat \ {0}
    /\ hash_table \in [0 .. TableSize - 1 -> EntryType]

\* The positions of entries.
Occupied == Position \ Vacant

\* Entries have keys.
KeysTyped == \A p \in Occupied : hash_table[p].key \in Key

\* Probing for the key of an entry comes to the entry before it comes to a
\* vacant position or to another entry of that key.
EntriesReached ==
    \A p \in Occupied : \A o \in HoldersOf(hash_table[p].key) \cup Vacant :
        o # p => Distance(hash_table[p].key, p) < Distance(hash_table[p].key, o)

\* Positions are numbers, finitely many.
LEMMA PositionsTyped ==
    ASSUME TableTyped
    PROVE  /\ Position = 0 .. TableSize - 1 /\ IsFiniteSet(Position)
           /\ Vacant \subseteq Position /\ Occupied \subseteq Position
           /\ IsFiniteSet(Occupied) /\ Cardinality(Occupied) \in Nat
           /\ \A p \in Occupied : hash_table[p].value_size \in Nat
<1>1. Position = 0 .. TableSize - 1
    BY DEF TableTyped, Position
<1>2. TableSize - 1 \in Int /\ 0 \in Int
    BY DEF TableTyped
<1>3. IsFiniteSet(Position)
    BY <1>1, <1>2, FS_Interval
<1>4. Vacant \subseteq Position /\ Occupied \subseteq Position
    BY DEF Vacant, Occupied
<1>5. IsFiniteSet(Occupied)
    BY <1>3, <1>4, FS_Subset
<1>6. Cardinality(Occupied) \in Nat
    BY <1>5, FS_CardinalityType
<1>7. \A p \in Position : hash_table[p] \in EntryType
    BY <1>1 DEF TableTyped
<1>8. \A p \in Occupied : hash_table[p].value_size \in Nat
    BY <1>4, <1>7 DEF EntryType
<1> QED
    BY <1>1, <1>3, <1>4, <1>5, <1>6, <1>8

\* Probing looks at every position once.
LEMMA DistanceProperties ==
    ASSUME TableTyped, NEW k \in Key
    PROVE  /\ \A p \in Position : Distance(k, p) \in Nat
           /\ \A p, o \in Position : Distance(k, p) = Distance(k, o) => p = o
<1> DEFINE n == TableSize
           h == HashKey[k]
<1>1. n \in Nat \ {0} /\ h \in Int /\ Position = 0 .. n - 1
    BY KvStoreAssumption, PositionsTyped DEF TableTyped
<1>2. \A p : Distance(k, p) = (p - h) % n
    BY DEF Distance
<1> HIDE DEF n, h
<1>3. ASSUME NEW p \in Position
      PROVE  Distance(k, p) \in Nat
    <2>1. p - h \in Int
        BY <1>1
    <2>2. (p - h) % n \in 0 .. n - 1
        BY <1>1, <2>1
    <2> QED
        BY <1>1, <1>2, <2>2
<1>4. ASSUME NEW p \in Position, NEW o \in Position, Distance(k, p) = Distance(k, o)
      PROVE  p = o
    <2>1. p - h \in Int /\ o - h \in Int /\ (p - h) - (o - h) < n /\ (o - h) - (p - h) < n
        BY <1>1
    <2>2. (p - h) % n = (o - h) % n
        BY <1>2, <1>4
    <2>3. p - h = o - h
        BY <1>1, <2>1, <2>2, SameRemainder
    <2> QED
        BY <1>1, <2>3
<1> QED
    BY <1>3, <1>4

\* Some position of a set comes first, and it is the only one.
LEMMA FirstProbedExists ==
    ASSUME TableTyped, NEW k \in Key, NEW ps \in SUBSET Position, ps # {}
    PROVE  \E p \in ps : FirstProbed(k, ps) = {p}
<1> DEFINE S == {Distance(k, p) : p \in ps}
<1>1. \A p \in ps : Distance(k, p) \in Nat
    BY DistanceProperties
<1>2. S \in SUBSET Nat /\ S # {}
    BY <1>1
<1>3. PICK m \in S : \A d \in S : m <= d
    BY <1>2, LeastNumber
<1>4. PICK p \in ps : m = Distance(k, p)
    OBVIOUS
<1>5. \A o \in ps : Distance(k, p) <= Distance(k, o)
    BY <1>3, <1>4
<1>6. ASSUME NEW o \in FirstProbed(k, ps)
      PROVE  o = p
    <2>1. o \in ps /\ Distance(k, o) <= Distance(k, p)
        BY <1>4 DEF FirstProbed
    <2>2. Distance(k, o) = Distance(k, p)
        BY <1>1, <1>5, <2>1
    <2> QED
        BY <1>4, <2>1, <2>2, DistanceProperties
<1>7. p \in FirstProbed(k, ps)
    BY <1>5 DEF FirstProbed
<1> QED
    BY <1>6, <1>7

\* FindEntry finds the entry of the key, which is the only one.
LEMMA HolderFound ==
    ASSUME TableTyped, KeysTyped, EntriesReached, NEW k \in Key, NEW p \in HoldersOf(k)
    PROVE  HoldersOf(k) = {p} /\ FindEntry(k) = {p}
<1>1. p \in Occupied /\ hash_table[p].key = k
    BY DEF HoldersOf, Occupied, Vacant
<1>2. \A o \in HoldersOf(k) \cup Vacant : o # p => Distance(k, p) < Distance(k, o)
    BY <1>1 DEF EntriesReached
<1>3. HoldersOf(k) \cup Vacant \in SUBSET Position /\ p \in Position
    BY DEF HoldersOf, Vacant
<1>4. \A o \in Position : Distance(k, o) \in Nat
    BY DistanceProperties
<1>5. ASSUME NEW o \in HoldersOf(k), o # p
      PROVE  FALSE
    <2>1. o \in Occupied /\ hash_table[o].key = k
        BY DEF HoldersOf, Occupied, Vacant
    <2>2. Distance(k, o) < Distance(k, p)
        BY <1>5, <2>1 DEF EntriesReached
    <2>3. Distance(k, p) < Distance(k, o)
        BY <1>2, <1>5
    <2> QED
        BY <1>3, <1>4, <2>2, <2>3
<1>6. FirstProbed(k, HoldersOf(k) \cup Vacant) = {p}
    <2>1. \A o \in HoldersOf(k) \cup Vacant : Distance(k, p) <= Distance(k, o)
        BY <1>2, <1>3, <1>4
    <2>2. p \in FirstProbed(k, HoldersOf(k) \cup Vacant)
        BY <2>1 DEF FirstProbed
    <2>3. ASSUME NEW o \in FirstProbed(k, HoldersOf(k) \cup Vacant), o # p
          PROVE  FALSE
        <3>1. o \in HoldersOf(k) \cup Vacant /\ Distance(k, o) <= Distance(k, p)
            BY <2>3 DEF FirstProbed
        <3>2. Distance(k, p) < Distance(k, o)
            BY <1>2, <2>3, <3>1
        <3> QED
            BY <1>3, <1>4, <3>1, <3>2
    <2> QED
        BY <2>2, <2>3
<1>7. p \notin Vacant
    BY <1>1 DEF Occupied
<1>8. FindEntry(k) = {p}
    BY <1>6, <1>7 DEF FindEntry
<1> QED
    BY <1>5, <1>8

\* What FindEntry finds is an entry of the key; it finds nothing only when
\* there is none.
LEMMA FindEntryHolders ==
    ASSUME TableTyped, KeysTyped, EntriesReached, NEW k \in Key
    PROVE  FindEntry(k) = HoldersOf(k)
<1>1. CASE HoldersOf(k) = {}
    <2>1. FindEntry(k) = {}
        BY <1>1 DEF FindEntry, FirstProbed
    <2> QED
        BY <1>1, <2>1
<1>2. CASE HoldersOf(k) # {}
    <2>1. PICK p \in HoldersOf(k) : TRUE
        BY <1>2
    <2> QED
        BY <2>1, HolderFound
<1> QED
    BY <1>1, <1>2

\* Linear probing finds every entry.
LEMMA ReachedMeansChains ==
    ASSUME TableTyped, KeysTyped, EntriesReached
    PROVE  ProbeChains
<1> SUFFICES ASSUME NEW p \in Position \ Vacant
             PROVE  FindEntry(hash_table[p].key) = {p}
    BY DEF ProbeChains
<1>1. p \in HoldersOf(hash_table[p].key) /\ hash_table[p].key \in Key
    BY DEF HoldersOf, Vacant, KeysTyped, Occupied
<1> QED
    BY <1>1, HolderFound

\* There is no place for a new key only when no position is vacant.
LEMMA VacancyExists ==
    ASSUME TableTyped, NEW k \in Key
    PROVE  /\ VacancyFor(k) = {} <=> Vacant = {}
           /\ VacancyFor(k) \subseteq Vacant
<1>1. Vacant \in SUBSET Position
    BY DEF Vacant
<1>2. VacancyFor(k) \subseteq Vacant
    BY DEF VacancyFor, FirstProbed
<1>3. Vacant # {} => VacancyFor(k) # {}
    BY <1>1, FirstProbedExists DEF VacancyFor
<1> QED
    BY <1>2, <1>3

----------------------------------------------------------------------------
(* The inductive invariant.                                                *)

\* Slots hold values, none too long for its slot.
SlotsTyped ==
    /\ storage_pool \in [SlotIndex -> Seq(Unit)]
    /\ \A s \in SlotIndex : Len(storage_pool[s]) <= MaxValueSize

\* All bytes of an entry are in its slot.
EntriesInSlots ==
    \A p \in Occupied : hash_table[p].value_size <= Len(storage_pool[hash_table[p].slot_index])

\* The free list holds slots, each once.
FreeOnce == free_slots \in Seq(SlotIndex) /\ IsInjective(free_slots)

\* A slot belongs to one entry at most.
OwnedOnce ==
    \A p, q \in Occupied : hash_table[p].slot_index = hash_table[q].slot_index => p = q

\* The slots of entries are not on the free list.
OwnedNotFree ==
    \A i \in 1 .. Len(free_slots), p \in Occupied : free_slots[i] # hash_table[p].slot_index

\* The statistics agree with the table.
Counted ==
    /\ used_slots \in Nat /\ used_bytes \in Nat
    /\ Len(free_slots) + used_slots = NumSlots
    /\ used_slots = Cardinality(Occupied)
    /\ used_bytes = TotalSize(hash_table, Occupied)

\* What every operation keeps.
StoreInv ==
    /\ TableTyped /\ KeysTyped /\ EntriesReached
    /\ SlotsTyped /\ EntriesInSlots
    /\ FreeOnce /\ OwnedOnce /\ OwnedNotFree /\ Counted

\* The invariant gives what the runs check.
LEMMA StoreInvImplies ==
    ASSUME StoreInv
    PROVE  KvStoreTypeOK /\ ProbeChains /\ SlotsOwnedOnce
<1> USE DEF StoreInv
<1>1. KvStoreTypeOK
    <2>1. ASSUME NEW p \in Position \ Vacant
          PROVE  /\ hash_table[p].key \in Key
                 /\ hash_table[p].slot_index \in SlotIndex
                 /\ hash_table[p].value_size <= Len(storage_pool[hash_table[p].slot_index])
        <3>1. p \in Occupied /\ p \in 0 .. TableSize - 1
            BY PositionsTyped DEF Occupied
        <3>2. hash_table[p] \in EntryType
            BY <3>1 DEF TableTyped
        <3> QED
            BY <3>1, <3>2 DEF EntryType, KeysTyped, EntriesInSlots
    <2> QED
        BY <2>1 DEF KvStoreTypeOK, SlotsTyped, FreeOnce, Counted
<1>2. ProbeChains
    BY ReachedMeansChains
<1>3. SlotsOwnedOnce
    <2> DEFINE owned == [p \in Position \ Vacant |-> hash_table[p].slot_index]
    <2>1. DOMAIN owned = Occupied /\ \A p \in Occupied : owned[p] = hash_table[p].slot_index
        BY DEF Occupied
    <2>2. Len(free_slots) \in Nat /\ DOMAIN free_slots = 1 .. Len(free_slots)
        BY LenProperties DEF FreeOnce
    <2>3. used_bytes = MapThenSumSet(LAMBDA p : hash_table[p].value_size, DOMAIN owned)
        BY <2>1 DEF Counted, TotalSize
    <2>4. SlotsOwnedOnce <=>
            /\ IsInjective(free_slots) /\ IsInjective(owned)
            /\ {free_slots[i] : i \in DOMAIN free_slots} \cap {owned[p] : p \in DOMAIN owned} = {}
            /\ Len(free_slots) + used_slots = NumSlots
            /\ used_slots = Cardinality(DOMAIN owned)
            /\ used_bytes = MapThenSumSet(LAMBDA p : hash_table[p].value_size, DOMAIN owned)
        BY DEF SlotsOwnedOnce
    <2> HIDE DEF owned
    <2>5. IsInjective(owned)
        BY <2>1 DEF OwnedOnce, IsInjective
    <2>6. {free_slots[i] : i \in DOMAIN free_slots} \cap {owned[p] : p \in DOMAIN owned} = {}
        BY <2>1, <2>2 DEF OwnedNotFree
    <2>7. /\ IsInjective(free_slots) /\ Len(free_slots) + used_slots = NumSlots
          /\ used_slots = Cardinality(DOMAIN owned)
        BY <2>1 DEF FreeOnce, Counted
    <2> QED
        BY <2>3, <2>4, <2>5, <2>6, <2>7
<1> QED
    BY <1>1, <1>2, <1>3

\* The size of the table when it is created.
LEMMA TableSizeOfType ==
    ASSUME NEW configured \in HashTableSizes
    PROVE  TableSizeOf(configured) \in Nat \ {0}
<1>1. (IF configured = 0 THEN NumSlots * 2 ELSE configured) \in Nat
    BY KvStoreAssumption
<1> QED
    BY <1>1, NextPowerOfTwoType DEF TableSizeOf

\* A new store.
LEMMA StoreInitInv ==
    ASSUME StoreInit
    PROVE  StoreInv /\ Occupied = {}
<1>1. PICK configured \in HashTableSizes :
          hash_table = [p \in 0 .. TableSizeOf(configured) - 1 |-> NoEntry]
    BY DEF StoreInit
<1> DEFINE n == TableSizeOf(configured)
<1>2. n \in Nat \ {0}
    BY TableSizeOfType
<1> HIDE DEF n
<1>3. hash_table = [p \in 0 .. n - 1 |-> NoEntry]
    BY <1>1 DEF n
<1>4. Position = 0 .. n - 1
    BY <1>3 DEF Position
<1>5. TableSize = n
    <2>1. n - 1 \in Int /\ 0 \in Int
        BY <1>2
    <2>2. Cardinality(0 .. n - 1) = IF 0 > n - 1 THEN 0 ELSE (n - 1) - 0 + 1
        BY <2>1, FS_Interval
    <2> QED
        BY <1>2, <1>4, <2>2 DEF TableSize
<1>6. NoEntry \in EntryType /\ ~NoEntry.occupied
    BY KvStoreAssumption DEF NoEntry, EntryType, SlotIndex
<1>7. TableTyped
    BY <1>2, <1>3, <1>5, <1>6 DEF TableTyped
<1>8. Occupied = {}
    BY <1>3, <1>4, <1>6 DEF Occupied, Vacant
<1>9. NumSlots \in Nat \ {0}
    BY KvStoreAssumption
<1>10. SlotsTyped
    <2>1. storage_pool = [s \in SlotIndex |-> << >>]
        BY DEF StoreInit
    <2>2. << >> \in Seq(Unit) /\ Len(<< >>) = 0 /\ 0 <= MaxValueSize
        BY KvStoreAssumption, EmptySeq
    <2> QED
        BY <2>1, <2>2 DEF SlotsTyped
<1>11. FreeOnce /\ Len(free_slots) = NumSlots
    <2>1. free_slots = [i \in 1 .. NumSlots |-> NumSlots - i]
        BY DEF StoreInit
    <2>2. \A i \in 1 .. NumSlots : NumSlots - i \in SlotIndex
        BY <1>9 DEF SlotIndex
    <2>3. free_slots \in [1 .. NumSlots -> SlotIndex]
        BY <2>1, <2>2
    <2>4. free_slots \in Seq(SlotIndex) /\ Len(free_slots) = NumSlots
        BY <1>9, <2>3
    <2>5. IsInjective(free_slots)
        BY <1>9, <2>1 DEF IsInjective
    <2> QED
        BY <2>4, <2>5 DEF FreeOnce
<1>12. Counted
    <2>1. used_slots = 0 /\ used_bytes = 0
        BY DEF StoreInit
    <2>2. Cardinality(Occupied) = 0
        BY <1>8, FS_EmptySet
    <2>3. TotalSize(hash_table, Occupied) = 0
        BY <1>8, TotalSizeEmpty
    <2> QED
        BY <1>9, <1>11, <2>1, <2>2, <2>3 DEF Counted
<1>13. /\ KeysTyped /\ EntriesReached /\ EntriesInSlots /\ OwnedOnce /\ OwnedNotFree
    BY <1>8 DEF KeysTyped, EntriesReached, EntriesInSlots, OwnedOnce, OwnedNotFree
<1> QED
    BY <1>7, <1>8, <1>10, <1>11, <1>12, <1>13 DEF StoreInv

----------------------------------------------------------------------------
(* Copying a value, updating an entry, inserting one.                      *)

\* memcpy of v over w: v is there, and nothing gets shorter.
LEMMA Overwritten ==
    ASSUME NEW v \in Seq(Unit), NEW w \in Seq(Unit)
    PROVE  LET u == v \o SubSeq(w, Len(v) + 1, Len(w))
           IN  /\ u \in Seq(Unit)
               /\ Len(u) = IF Len(v) >= Len(w) THEN Len(v) ELSE Len(w)
               /\ SubSeq(u, 1, Len(v)) = v
<1> DEFINE rest == SubSeq(w, Len(v) + 1, Len(w))
           u == v \o rest
<1>1. Len(v) \in Nat /\ Len(w) \in Nat
    BY LenProperties
<1>2. \A i \in Len(v) + 1 .. Len(w) : w[i] \in Unit
    BY <1>1, ElementOfSeq
<1>3. /\ rest \in Seq(Unit)
      /\ Len(rest) = IF Len(v) + 1 <= Len(w) THEN Len(w) - (Len(v) + 1) + 1 ELSE 0
    BY <1>1, <1>2, SubSeqProperties
<1> HIDE DEF rest
<1>4. /\ u \in Seq(Unit) /\ Len(u) = Len(v) + Len(rest)
      /\ \A i \in 1 .. Len(v) + Len(rest) : u[i] = IF i <= Len(v) THEN v[i] ELSE rest[i - Len(v)]
    BY <1>3, ConcatProperties
<1> HIDE DEF u
<1>5. Len(u) = IF Len(v) >= Len(w) THEN Len(v) ELSE Len(w)
    BY <1>1, <1>3, <1>4
<1>6. Len(u) >= Len(v) /\ Len(u) \in Nat /\ Len(rest) \in Nat
    BY <1>1, <1>3, <1>4, <1>5
<1>7. SubSeq(u, 1, Len(v)) = v
    <2> DEFINE pre == SubSeq(u, 1, Len(v))
    <2>1. \A i \in 1 .. Len(v) : u[i] = v[i] /\ u[i] \in Unit
        <3> TAKE i \in 1 .. Len(v)
        <3>1. i \in 1 .. Len(v) + Len(rest) /\ i <= Len(v)
            BY <1>1, <1>6
        <3>2. u[i] = v[i]
            BY <1>4, <3>1
        <3>3. v[i] \in Unit
            BY ElementOfSeq
        <3> QED
            BY <3>2, <3>3
    <2>2. /\ pre \in Seq(Unit)
          /\ Len(pre) = IF 1 <= Len(v) THEN Len(v) - 1 + 1 ELSE 0
          /\ \A i \in 1 .. Len(v) - 1 + 1 : pre[i] = u[1 + i - 1]
        BY <1>1, <2>1, SubSeqProperties
    <2> HIDE DEF pre
    <2>3. Len(pre) = Len(v)
        BY <1>1, <2>2
    <2>4. \A i \in 1 .. Len(v) : pre[i] = v[i]
        <3> TAKE i \in 1 .. Len(v)
        <3>1. i \in 1 .. Len(v) - 1 + 1 /\ 1 + i - 1 = i
            BY <1>1
        <3>2. pre[i] = u[1 + i - 1]
            BY <2>2, <3>1
        <3> QED
            BY <2>1, <3>1, <3>2
    <2>5. pre = v
        BY <2>2, <2>3, <2>4, SeqEqual
    <2> QED
        BY <2>5 DEF pre
<1> QED
    BY <1>4, <1>5, <1>7 DEF u, rest

\* What the table is like once the size of an entry has changed.
LEMMA UpdatedTable ==
    ASSUME TableTyped, NEW p \in Occupied, NEW n \in Nat,
           hash_table' = [hash_table EXCEPT ![p].value_size = n]
    PROVE  /\ TableTyped' /\ Position' = Position /\ TableSize' = TableSize
           /\ Vacant' = Vacant /\ Occupied' = Occupied
           /\ \A k : HoldersOf(k)' = HoldersOf(k)
           /\ \A q \in Position : /\ hash_table'[q].key = hash_table[q].key
                                  /\ hash_table'[q].slot_index = hash_table[q].slot_index
           /\ hash_table'[p].value_size = n
           /\ \A q \in Position \ {p} : hash_table'[q] = hash_table[q]
<1>1. Position = 0 .. TableSize - 1 /\ p \in Position
    BY PositionsTyped
<1>2. \A q \in Position : hash_table[q] \in EntryType
    BY <1>1 DEF TableTyped
<1>3. Position' = Position
    BY <1>1 DEF Position
<1>4. TableSize' = TableSize
    BY <1>3 DEF TableSize
<1>5. DOMAIN hash_table = Position
    BY DEF Position
<1>6. \A q \in Position \ {p} : hash_table'[q] = hash_table[q]
    BY <1>5
<1>7. hash_table'[p] = [hash_table[p] EXCEPT !.value_size = n]
    BY <1>1, <1>5
<1>8. /\ hash_table'[p] \in EntryType /\ hash_table'[p].value_size = n
      /\ hash_table'[p].key = hash_table[p].key
      /\ hash_table'[p].slot_index = hash_table[p].slot_index
      /\ hash_table'[p].occupied = hash_table[p].occupied
    BY <1>1, <1>2, <1>7 DEF EntryType
<1>9. \A q \in Position : /\ hash_table'[q].key = hash_table[q].key
                          /\ hash_table'[q].slot_index = hash_table[q].slot_index
                          /\ hash_table'[q].occupied = hash_table[q].occupied
                          /\ hash_table'[q] \in EntryType
    BY <1>2, <1>6, <1>8
<1>10. TableTyped'
    <2>1. hash_table' = [q \in Position |-> hash_table'[q]]
        BY <1>5
    <2>2. hash_table' \in [Position -> EntryType]
        BY <1>9, <2>1
    <2> QED
        BY <1>1, <1>3, <1>4, <2>2 DEF TableTyped
<1>11. Vacant' = Vacant /\ Occupied' = Occupied
    BY <1>3, <1>9 DEF Vacant, Occupied
<1>12. ASSUME NEW k
       PROVE  HoldersOf(k)' = HoldersOf(k)
    BY <1>3, <1>9 DEF HoldersOf
<1> QED
    BY <1>3, <1>4, <1>6, <1>8, <1>9, <1>10, <1>11, <1>12

\* What the table is like once an entry has been put at a vacant position.
LEMMA InsertedTable ==
    ASSUME TableTyped, NEW p \in Vacant, NEW k \in Key, NEW s \in SlotIndex, NEW n \in Nat,
           hash_table' = [hash_table EXCEPT ![p] =
              [key |-> k, slot_index |-> s, value_size |-> n, occupied |-> TRUE]]
    PROVE  /\ TableTyped' /\ Position' = Position /\ TableSize' = TableSize
           /\ Vacant' = Vacant \ {p} /\ Occupied' = Occupied \cup {p}
           /\ p \notin Occupied /\ p \in Position
           /\ \A j : HoldersOf(j)' = IF j = k THEN HoldersOf(j) \cup {p} ELSE HoldersOf(j)
           /\ hash_table'[p].key = k /\ hash_table'[p].slot_index = s
           /\ hash_table'[p].value_size = n
           /\ \A q \in Position \ {p} : hash_table'[q] = hash_table[q]
<1>1. Position = 0 .. TableSize - 1 /\ p \in Position /\ ~hash_table[p].occupied
    BY PositionsTyped DEF Vacant
<1>2. \A q \in Position : hash_table[q] \in EntryType
    BY <1>1 DEF TableTyped
<1>3. Position' = Position
    BY <1>1 DEF Position
<1>4. TableSize' = TableSize
    BY <1>3 DEF TableSize
<1>5. DOMAIN hash_table = Position
    BY DEF Position
<1>6. \A q \in Position \ {p} : hash_table'[q] = hash_table[q]
    BY <1>5
<1>7. hash_table'[p] = [key |-> k, slot_index |-> s, value_size |-> n, occupied |-> TRUE]
    BY <1>1, <1>5
<1>8. /\ hash_table'[p].key = k /\ hash_table'[p].slot_index = s
      /\ hash_table'[p].value_size = n /\ hash_table'[p].occupied
    BY <1>7
<1>9. hash_table'[p] \in EntryType
    <2>1. k \in Key \cup {0} /\ s \in SlotIndex /\ n \in Nat
        OBVIOUS
    <2>2. [key |-> k, slot_index |-> s, value_size |-> n, occupied |-> TRUE] \in EntryType
        BY <2>1 DEF EntryType
    <2> QED
        BY <1>7, <2>2
<1>10. TableTyped'
    <2>1. hash_table' = [q \in Position |-> hash_table'[q]]
        BY <1>5
    <2>2. hash_table' \in [Position -> EntryType]
        BY <1>2, <1>6, <1>9, <2>1
    <2> QED
        BY <1>1, <1>3, <1>4, <2>2 DEF TableTyped
<1>11. Vacant' = Vacant \ {p}
    BY <1>3, <1>6, <1>8 DEF Vacant
<1>12. Occupied' = Occupied \cup {p} /\ p \notin Occupied
    BY <1>1, <1>3, <1>11 DEF Occupied
<1>13. ASSUME NEW j
       PROVE  HoldersOf(j)' = IF j = k THEN HoldersOf(j) \cup {p} ELSE HoldersOf(j)
    BY <1>1, <1>3, <1>6, <1>8 DEF HoldersOf
<1> QED
    BY <1>1, <1>3, <1>4, <1>6, <1>8, <1>10, <1>11, <1>12, <1>13

\* What the slots are like once a value has been copied into one of them.
LEMMA SlotCopied ==
    ASSUME SlotsTyped, NEW slot \in SlotIndex, NEW v \in Seq(Unit), Len(v) <= MaxValueSize,
           CopyInto(slot, v)
    PROVE  /\ SlotsTyped'
           /\ \A s \in SlotIndex \ {slot} : storage_pool'[s] = storage_pool[s]
           /\ Len(v) <= Len(storage_pool'[slot])
           /\ SubSeq(storage_pool'[slot], 1, Len(v)) = v
<1> DEFINE w == storage_pool[slot]
           u == v \o SubSeq(w, Len(v) + 1, Len(w))
<1>1. w \in Seq(Unit) /\ Len(w) <= MaxValueSize
    BY DEF SlotsTyped
<1>2. storage_pool' = [storage_pool EXCEPT ![slot] = u]
    BY DEF CopyInto
<1> HIDE DEF w
<1>3. /\ u \in Seq(Unit) /\ SubSeq(u, 1, Len(v)) = v
      /\ Len(u) = IF Len(v) >= Len(w) THEN Len(v) ELSE Len(w)
    BY <1>1, Overwritten
<1> HIDE DEF u
<1>4. Len(u) <= MaxValueSize /\ Len(v) <= Len(u)
    <2>1. Len(v) \in Nat /\ Len(w) \in Nat /\ MaxValueSize \in Nat
        BY <1>1, LenProperties, KvStoreAssumption
    <2> QED
        BY <1>1, <1>3, <2>1
<1>5. storage_pool'[slot] = u /\ \A s \in SlotIndex \ {slot} : storage_pool'[s] = storage_pool[s]
    BY <1>2 DEF SlotsTyped
<1>6. storage_pool' \in [SlotIndex -> Seq(Unit)]
    BY <1>2, <1>3 DEF SlotsTyped
<1>7. \A s \in SlotIndex : Len(storage_pool'[s]) <= MaxValueSize
    BY <1>4, <1>5 DEF SlotsTyped
<1> QED
    BY <1>3, <1>4, <1>5, <1>6, <1>7 DEF SlotsTyped

\* Updating an entry keeps the invariant.
LEMMA UpdateKeepsInv ==
    ASSUME StoreInv, NEW op, NEW k \in Key, NEW v \in Seq(Unit), Len(v) <= MaxValueSize,
           NEW p \in HoldersOf(k), UpdateEntry(op, k, v, p)
    PROVE  StoreInv'
<1> USE DEF StoreInv
<1>1. p \in Occupied /\ p \in Position
    BY DEF HoldersOf, Occupied, Vacant
<1>2. Len(v) \in Nat
    BY LenProperties
<1>3. /\ CopyInto(hash_table[p].slot_index, v)
      /\ hash_table' = [hash_table EXCEPT ![p].value_size = Len(v)]
      /\ used_bytes' = used_bytes - hash_table[p].value_size + Len(v)
      /\ free_slots' = free_slots /\ used_slots' = used_slots
    BY DEF UpdateEntry
<1>4. \A q \in Position : hash_table[q].slot_index \in SlotIndex /\ hash_table[q].value_size \in Nat
    <2>1. \A q \in Position : hash_table[q] \in EntryType
        BY PositionsTyped DEF TableTyped
    <2> QED
        BY <2>1 DEF EntryType
<1>5. /\ TableTyped' /\ Position' = Position /\ TableSize' = TableSize
      /\ Vacant' = Vacant /\ Occupied' = Occupied
      /\ \A j : HoldersOf(j)' = HoldersOf(j)
      /\ \A q \in Position : /\ hash_table'[q].key = hash_table[q].key
                             /\ hash_table'[q].slot_index = hash_table[q].slot_index
      /\ hash_table'[p].value_size = Len(v)
      /\ \A q \in Position \ {p} : hash_table'[q] = hash_table[q]
    BY <1>1, <1>2, <1>3, UpdatedTable
<1>6. /\ SlotsTyped'
      /\ \A s \in SlotIndex \ {hash_table[p].slot_index} : storage_pool'[s] = storage_pool[s]
      /\ Len(v) <= Len(storage_pool'[hash_table[p].slot_index])
    BY <1>1, <1>3, <1>4, SlotCopied
<1>7. Occupied \subseteq Position /\ IsFiniteSet(Occupied)
    BY PositionsTyped
<1>8. KeysTyped'
    BY <1>5, <1>7 DEF KeysTyped
<1>9. EntriesReached'
    <2>1. ASSUME NEW q \in Occupied,
                 NEW o \in HoldersOf(hash_table[q].key) \cup Vacant, o # q
          PROVE  Distance(hash_table[q].key, q)' < Distance(hash_table[q].key, o)'
        <3>1. hash_table'[q].key = hash_table[q].key
            BY <1>5, <1>7
        <3>2. Distance(hash_table[q].key, q) < Distance(hash_table[q].key, o)
            BY <2>1 DEF EntriesReached
        <3> QED
            BY <1>5, <3>1, <3>2 DEF Distance
    <2>2. ASSUME NEW q \in Occupied
          PROVE  HoldersOf(hash_table[q].key)' = HoldersOf(hash_table[q].key)
        <3> DEFINE j == hash_table[q].key
        <3>1. j' = j
            BY <1>5, <1>7
        <3>2. \A o \in Position : o \in Occupied <=> hash_table[o].occupied
            BY DEF Occupied, Vacant
        <3>3. \A o \in Position : o \in Occupied <=> hash_table'[o].occupied
            BY <1>5 DEF Occupied, Vacant
        <3> HIDE DEF j
        <3>4. HoldersOf(j) = {o \in Occupied : hash_table[o].key = j}
            BY <1>7, <3>2 DEF HoldersOf
        <3>5. HoldersOf(j)' = {o \in Occupied : hash_table'[o].key = j'}
            BY <1>5, <1>7, <3>3 DEF HoldersOf
        <3>6. HoldersOf(j)' = HoldersOf(j)
            BY <1>5, <1>7, <3>1, <3>4, <3>5
        <3> QED
            BY <3>6 DEF j
    <2> QED
        BY <1>5, <2>1, <2>2 DEF EntriesReached
<1>10. EntriesInSlots'
    <2>1. ASSUME NEW q \in Occupied
          PROVE  hash_table'[q].value_size <= Len(storage_pool'[hash_table'[q].slot_index])
        <3>1. CASE q = p
            BY <1>1, <1>5, <1>6, <3>1
        <3>2. CASE q # p
            <4>1. hash_table[q].slot_index # hash_table[p].slot_index
                BY <1>1, <3>2 DEF OwnedOnce
            <4>2. storage_pool'[hash_table[q].slot_index] = storage_pool[hash_table[q].slot_index]
                BY <1>4, <1>6, <1>7, <4>1
            <4>3. hash_table'[q] = hash_table[q]
                BY <1>5, <1>7, <3>2
            <4> QED
                BY <4>2, <4>3 DEF EntriesInSlots
        <3> QED
            BY <3>1, <3>2
    <2> QED
        BY <1>5, <2>1 DEF EntriesInSlots
<1>11. FreeOnce' /\ OwnedOnce' /\ OwnedNotFree'
    <2>1. FreeOnce'
        BY <1>3 DEF FreeOnce
    <2>2. OwnedOnce'
        BY <1>5, <1>7 DEF OwnedOnce
    <2>3. OwnedNotFree'
        BY <1>3, <1>5, <1>7 DEF OwnedNotFree
    <2> QED
        BY <2>1, <2>2, <2>3
<1>12. Counted'
    <2> DEFINE S == Occupied
               old == hash_table[p].value_size
               rest == TotalSize(hash_table, S \ {p})
    <2>1. TotalSize(hash_table, S) = old + rest /\ rest \in Nat
        BY <1>1, <1>4, <1>7, TotalSizeWithout
    <2>2. /\ TotalSize(hash_table', S) = hash_table'[p].value_size + TotalSize(hash_table', S \ {p})
        <3>1. \A q \in S : hash_table'[q].value_size \in Nat
            BY <1>2, <1>4, <1>5, <1>7
        <3> QED
            BY <1>1, <1>7, <3>1, TotalSizeWithout
    <2>3. TotalSize(hash_table', S \ {p}) = rest
        <3>1. IsFiniteSet(S \ {p})
            BY <1>7, FS_Subset
        <3>2. \A q \in S \ {p} : hash_table'[q].value_size = hash_table[q].value_size
            BY <1>5, <1>7
        <3> QED
            BY <3>1, <3>2, TotalSizeSame
    <2>4. old \in Nat
        BY <1>1, <1>4
    <2> HIDE DEF old, rest
    <2>5. TotalSize(hash_table', S) = Len(v) + rest
        BY <1>5, <2>2, <2>3
    <2>6. used_bytes = old + rest /\ used_bytes' = used_bytes - old + Len(v)
        BY <1>3, <2>1 DEF Counted, old
    <2>7. used_bytes' = TotalSize(hash_table', S) /\ used_bytes' \in Nat
        BY <1>2, <2>1, <2>4, <2>5, <2>6
    <2>8. TotalSize(hash_table, Occupied)' = TotalSize(hash_table', S)
        BY <1>5
    <2>9. /\ used_slots' \in Nat /\ Len(free_slots') + used_slots' = NumSlots
          /\ used_slots' = Cardinality(Occupied')
        BY <1>3, <1>5 DEF Counted
    <2> QED
        BY <2>7, <2>8, <2>9 DEF Counted
<1> QED
    BY <1>5, <1>6, <1>8, <1>9, <1>10, <1>11, <1>12

\* Taking the last of the free slots leaves the others, each still once.
LEMMA FreeSlotTaken ==
    ASSUME FreeOnce, free_slots # << >>
    PROVE  /\ Len(free_slots) \in Nat \ {0}
           /\ Last(free_slots) = free_slots[Len(free_slots)]
           /\ Last(free_slots) \in SlotIndex
           /\ Front(free_slots) \in Seq(SlotIndex) /\ IsInjective(Front(free_slots))
           /\ Len(Front(free_slots)) = Len(free_slots) - 1
           /\ \A i \in 1 .. Len(free_slots) - 1 :
                 /\ Front(free_slots)[i] = free_slots[i]
                 /\ free_slots[i] # Last(free_slots)
<1> DEFINE s == free_slots
           n == Len(s)
<1>1. s \in Seq(SlotIndex) /\ IsInjective(s)
    BY DEF FreeOnce
<1> HIDE DEF SlotIndex
<1>2. n \in Nat \ {0} /\ DOMAIN s = 1 .. n /\ \A i \in 1 .. n : s[i] \in SlotIndex
    BY <1>1, LenProperties, ElementOfSeq, EmptySeq
<1>3. /\ Front(s) \in Seq(SlotIndex) /\ Len(Front(s)) = n - 1
      /\ \A i \in 1 .. n - 1 : Front(s)[i] = s[i]
    BY <1>1, <1>2, SubSeqProperties DEF Front
<1>4. DOMAIN Front(s) = 1 .. n - 1
    BY <1>3, LenProperties
<1>5. Last(s) = s[n] /\ n \in 1 .. n
    BY <1>2 DEF Last
<1>6. \A i, j \in 1 .. n : s[i] = s[j] => i = j
    BY <1>1, <1>2 DEF IsInjective
<1>7. IsInjective(Front(s))
    BY <1>2, <1>3, <1>4, <1>6 DEF IsInjective
<1>8. \A i \in 1 .. n - 1 : s[i] # Last(s)
    BY <1>2, <1>5, <1>6
<1> QED
    BY <1>2, <1>3, <1>5, <1>7, <1>8

\* Inserting an entry for a key that has none keeps the invariant.
LEMMA InsertKeepsInv ==
    ASSUME StoreInv, NEW op, NEW k \in Key, NEW v \in Seq(Unit), Len(v) <= MaxValueSize,
           free_slots # << >>, HoldersOf(k) = {}, NEW p \in VacancyFor(k),
           InsertEntry(op, k, v, p)
    PROVE  StoreInv'
<1> USE DEF StoreInv
<1> DEFINE slot == Last(free_slots)
<1>1. p \in Vacant /\ \A o \in Vacant : Distance(k, p) <= Distance(k, o)
    BY DEF VacancyFor, FirstProbed
<1>2. Len(v) \in Nat
    BY LenProperties
<1>3. /\ CopyInto(slot, v)
      /\ hash_table' = [hash_table EXCEPT ![p] =
            [key |-> k, slot_index |-> slot, value_size |-> Len(v), occupied |-> TRUE]]
      /\ free_slots' = Front(free_slots) /\ used_slots' = used_slots + 1
      /\ used_bytes' = used_bytes + Len(v)
    BY DEF InsertEntry
<1>4. /\ Len(free_slots) \in Nat \ {0} /\ slot \in SlotIndex
      /\ slot = free_slots[Len(free_slots)]
      /\ Front(free_slots) \in Seq(SlotIndex) /\ IsInjective(Front(free_slots))
      /\ Len(Front(free_slots)) = Len(free_slots) - 1
      /\ \A i \in 1 .. Len(free_slots) - 1 :
            Front(free_slots)[i] = free_slots[i] /\ free_slots[i] # slot
    BY FreeSlotTaken
<1> HIDE DEF slot
<1>5. /\ TableTyped' /\ Position' = Position /\ TableSize' = TableSize
      /\ Vacant' = Vacant \ {p} /\ Occupied' = Occupied \cup {p}
      /\ p \notin Occupied /\ p \in Position
      /\ \A j : HoldersOf(j)' = IF j = k THEN HoldersOf(j) \cup {p} ELSE HoldersOf(j)
      /\ hash_table'[p].key = k /\ hash_table'[p].slot_index = slot
      /\ hash_table'[p].value_size = Len(v)
      /\ \A q \in Position \ {p} : hash_table'[q] = hash_table[q]
    BY <1>1, <1>2, <1>3, <1>4, InsertedTable
<1>6. /\ SlotsTyped'
      /\ \A s \in SlotIndex \ {slot} : storage_pool'[s] = storage_pool[s]
      /\ Len(v) <= Len(storage_pool'[slot])
    BY <1>3, <1>4, SlotCopied
<1>7. /\ Occupied \subseteq Position /\ IsFiniteSet(Occupied) /\ Cardinality(Occupied) \in Nat
      /\ Vacant \subseteq Position
    BY PositionsTyped
<1>8. \A q \in Position : hash_table[q].slot_index \in SlotIndex /\ hash_table[q].value_size \in Nat
    <2>1. \A q \in Position : hash_table[q] \in EntryType
        BY PositionsTyped DEF TableTyped
    <2> QED
        BY <2>1 DEF EntryType
<1>9. \A q \in Occupied : hash_table'[q] = hash_table[q] /\ q # p
    BY <1>5, <1>7
<1>10. \A q \in Occupied : hash_table[q].slot_index # slot
    BY <1>4 DEF OwnedNotFree
<1>11. \A q \in Occupied : hash_table[q].key # k /\ hash_table[q].key \in Key
    BY <1>7 DEF HoldersOf, Occupied, Vacant, KeysTyped
<1>12. KeysTyped'
    BY <1>5, <1>9 DEF KeysTyped
<1>13. EntriesReached'
    <2>1. ASSUME NEW q \in Occupied'
          PROVE  \A o \in (HoldersOf(hash_table[q].key) \cup Vacant)' : o # q =>
                    Distance(hash_table[q].key, q)' < Distance(hash_table[q].key, o)'
        <3> DEFINE j == hash_table'[q].key
        <3>1. j \in Key
            BY <1>12, <2>1 DEF KeysTyped
        <3>2. \A o : Distance(hash_table[q].key, o)' = Distance(j, o)
            BY <1>5 DEF Distance
        <3>3. HoldersOf(hash_table[q].key)' = IF j = k THEN HoldersOf(j) \cup {p} ELSE HoldersOf(j)
            BY <1>5 DEF HoldersOf
        <3> HIDE DEF j
        <3>4. ASSUME NEW o, o # q, o \in HoldersOf(hash_table[q].key)' \cup Vacant'
              PROVE  Distance(j, q) < Distance(j, o)
            <4>1. CASE q = p
                <5>1. j = k /\ HoldersOf(hash_table[q].key)' = {p}
                    BY <1>5, <3>3, <4>1 DEF j
                <5>2. o \in Vacant /\ o # p
                    BY <1>5, <3>4, <4>1, <5>1
                <5>3. Distance(k, p) <= Distance(k, o) /\ Distance(k, p) # Distance(k, o)
                    BY <1>1, <1>5, <1>7, <5>2, DistanceProperties
                <5>4. Distance(k, p) \in Nat /\ Distance(k, o) \in Nat
                    BY <1>5, <1>7, <5>2, DistanceProperties
                <5> QED
                    BY <4>1, <5>1, <5>3, <5>4
            <4>2. CASE q # p
                <5>1. q \in Occupied /\ j = hash_table[q].key /\ j # k
                    BY <1>5, <1>9, <1>11, <4>2 DEF j
                <5>2. o \in HoldersOf(hash_table[q].key) \cup Vacant
                    BY <1>5, <3>3, <3>4, <5>1
                <5> QED
                    BY <3>4, <5>1, <5>2 DEF EntriesReached
            <4> QED
                BY <4>1, <4>2
        <3> QED
            BY <3>2, <3>4
    <2> QED
        BY <2>1 DEF EntriesReached
<1>14. EntriesInSlots'
    <2>1. ASSUME NEW q \in Occupied \cup {p}
          PROVE  hash_table'[q].value_size <= Len(storage_pool'[hash_table'[q].slot_index])
        <3>1. CASE q = p
            BY <1>5, <1>6, <3>1
        <3>2. CASE q # p
            <4>1. hash_table'[q] = hash_table[q] /\ hash_table[q].slot_index # slot
                BY <1>9, <1>10, <3>2
            <4>2. storage_pool'[hash_table[q].slot_index] = storage_pool[hash_table[q].slot_index]
                BY <1>6, <1>7, <1>8, <3>2, <4>1
            <4> QED
                BY <3>2, <4>1, <4>2 DEF EntriesInSlots
        <3> QED
            BY <3>1, <3>2
    <2> QED
        BY <1>5, <2>1 DEF EntriesInSlots
<1>15. FreeOnce'
    BY <1>3, <1>4 DEF FreeOnce
<1>16. OwnedOnce'
    <2>1. \A q \in Occupied : hash_table'[q].slot_index = hash_table[q].slot_index
                              /\ hash_table'[q].slot_index # hash_table'[p].slot_index
        BY <1>5, <1>9, <1>10
    <2> QED
        BY <1>5, <2>1 DEF OwnedOnce
<1>17. OwnedNotFree'
    <2>1. ASSUME NEW i \in 1 .. Len(free_slots'), NEW q \in Occupied \cup {p}
          PROVE  free_slots'[i] # hash_table'[q].slot_index
        <3>1. i \in 1 .. Len(free_slots) - 1 /\ i \in 1 .. Len(free_slots)
            BY <1>3, <1>4
        <3>2. free_slots'[i] = free_slots[i] /\ free_slots[i] # slot
            BY <1>3, <1>4, <3>1
        <3>3. CASE q = p
            BY <1>5, <3>2, <3>3
        <3>4. CASE q # p
            BY <1>9, <3>1, <3>2, <3>4 DEF OwnedNotFree
        <3> QED
            BY <3>3, <3>4
    <2> QED
        BY <1>5, <2>1 DEF OwnedNotFree
<1>18. Counted'
    <2> DEFINE S == Occupied
    <2>1. Cardinality(S \cup {p}) = Cardinality(S) + 1 /\ IsFiniteSet(S \cup {p})
        BY <1>5, <1>7, FS_AddElement
    <2>2. Len(free_slots') = Len(free_slots) - 1
        BY <1>3, <1>4
    <2>3. used_slots \in Nat /\ used_bytes \in Nat /\ NumSlots \in Nat
        BY KvStoreAssumption DEF Counted
    <2>4. TotalSize(hash_table', S \cup {p}) = used_bytes + Len(v)
        <3>1. \A q \in S \cup {p} : hash_table'[q].value_size \in Nat
            BY <1>2, <1>5, <1>7, <1>8, <1>9
        <3>2. (S \cup {p}) \ {p} = S
            BY <1>5
        <3>3. /\ TotalSize(hash_table', S \cup {p})
                    = hash_table'[p].value_size + TotalSize(hash_table', (S \cup {p}) \ {p})
            BY <2>1, <3>1, TotalSizeWithout
        <3>4. TotalSize(hash_table', S) = TotalSize(hash_table, S)
            BY <1>7, <1>9, TotalSizeSame
        <3>5. TotalSize(hash_table', S \cup {p}) = Len(v) + used_bytes
            BY <1>5, <3>2, <3>3, <3>4 DEF Counted
        <3> QED
            BY <1>2, <2>3, <3>5
    <2>5. TotalSize(hash_table, Occupied)' = TotalSize(hash_table', S \cup {p})
        BY <1>5
    <2>6. used_slots' = Cardinality(Occupied')
        BY <1>3, <1>5, <2>1 DEF Counted
    <2>7. used_bytes' = TotalSize(hash_table, Occupied)'
        BY <1>3, <2>4, <2>5
    <2>8. used_slots' \in Nat /\ used_bytes' \in Nat
        BY <1>2, <1>3, <2>3
    <2>9. Len(free_slots') + used_slots' = NumSlots
        BY <1>3, <1>4, <2>2, <2>3 DEF Counted
    <2> QED
        BY <2>6, <2>7, <2>8, <2>9 DEF Counted
<1> QED
    BY <1>5, <1>6, <1>12, <1>13, <1>14, <1>15, <1>16, <1>17, <1>18

----------------------------------------------------------------------------
(* Every operation keeps the invariant.                                    *)

\* The invariant is about the store, not about its last answer.
LEMMA UnchangedKeepsInv ==
    ASSUME StoreInv,
           UNCHANGED <<hash_table, storage_pool, free_slots, used_slots, used_bytes>>
    PROVE  StoreInv'
<1>1. /\ hash_table' = hash_table /\ storage_pool' = storage_pool
      /\ free_slots' = free_slots /\ used_slots' = used_slots /\ used_bytes' = used_bytes
    OBVIOUS
<1>2. /\ Position' = Position /\ TableSize' = TableSize /\ Vacant' = Vacant
      /\ Occupied' = Occupied
    BY <1>1 DEF Position, TableSize, Vacant, Occupied
<1>3. TableTyped' /\ KeysTyped'
    BY <1>1, <1>2 DEF StoreInv, TableTyped, KeysTyped
<1>4. EntriesReached'
    BY <1>1, <1>2 DEF StoreInv, EntriesReached, HoldersOf, Distance
<1>5. SlotsTyped' /\ EntriesInSlots'
    BY <1>1, <1>2 DEF StoreInv, SlotsTyped, EntriesInSlots
<1>6. FreeOnce' /\ OwnedOnce' /\ OwnedNotFree'
    BY <1>1, <1>2 DEF StoreInv, FreeOnce, OwnedOnce, OwnedNotFree
<1>7. Counted'
    BY <1>1, <1>2 DEF StoreInv, Counted
<1> QED
    BY <1>3, <1>4, <1>5, <1>6, <1>7 DEF StoreInv

\* What Put and PutSGL share keeps it.
LEMMA StoreKeepsInv ==
    ASSUME StoreInv, NEW op, NEW k \in Key, NEW v \in Seq(Unit), Len(v) <= MaxValueSize,
           Store(op, k, v)
    PROVE  StoreInv'
<1>1. FindEntry(k) = HoldersOf(k)
    BY FindEntryHolders DEF StoreInv
<1>2. CASE UNCHANGED <<hash_table, storage_pool, free_slots, used_slots, used_bytes>>
    BY <1>2, UnchangedKeepsInv
<1>3. CASE \E p \in FindEntry(k) : UpdateEntry(op, k, v, p)
    <2>1. PICK p \in FindEntry(k) : UpdateEntry(op, k, v, p)
        BY <1>3
    <2> QED
        BY <1>1, <2>1, UpdateKeepsInv
<1>4. CASE /\ free_slots # << >> /\ FindEntry(k) = {}
           /\ \E p \in VacancyFor(k) : InsertEntry(op, k, v, p)
    <2>1. PICK p \in VacancyFor(k) : InsertEntry(op, k, v, p)
        BY <1>4
    <2> QED
        BY <1>1, <1>4, <2>1, InsertKeepsInv
<1> QED
    BY <1>2, <1>3, <1>4 DEF Store, Refuse

\* The sum of the sizes of segments does not wrap.
LEMMA SumIsLength ==
    ASSUME NEW segments \in SegmentLists
    PROVE  /\ FlattenSeq(segments) \in Seq(Unit)
           /\ Len(FlattenSeq(segments)) % SizeMod = Len(FlattenSeq(segments))
<1>1. segments \in Seq(Seq(Unit)) /\ SizeMod \in Nat \ {0}
    BY KvStoreAssumption
<1>2. FlattenSeq(segments) \in Seq(Unit)
    BY <1>1, FlattenSeqType
<1>3. PICK n \in Nat : n = Len(FlattenSeq(segments))
    BY <1>2, LenProperties
<1>4. n < SizeMod
    BY <1>3, SegmentListsAssumption
<1>5. n \in 0 .. SizeMod - 1 /\ SizeMod \in Nat \ {0}
    BY <1>1, <1>4
<1>6. n % SizeMod = n
    BY <1>5, OwnRemainder
<1> QED
    BY <1>2, <1>3, <1>6

\* The values put are values, and none that is accepted is too long for a slot.
LEMMA PutValues ==
    /\ \A v \in Values : /\ v \in Seq(Unit)
                         /\ IsValidValueSize(Len(v)) => Len(v) <= MaxValueSize
    /\ \A segments \in SegmentLists :
          /\ FlattenSeq(segments) \in Seq(Unit)
          /\ \A size : IsValidList(segments, size) => Len(FlattenSeq(segments)) <= MaxValueSize
<1>1. ASSUME NEW segments \in SegmentLists
      PROVE  FlattenSeq(segments) \in Seq(Unit)
    <2>1. segments \in Seq(Seq(Unit))
        BY KvStoreAssumption
    <2> QED
        BY <2>1, FlattenSeqType
<1>2. \A v \in Values : v \in Seq(Unit)
    BY KvStoreAssumption
<1>3. \A segments \in SegmentLists :
          Len(FlattenSeq(segments)) % SizeMod = Len(FlattenSeq(segments))
    BY SumIsLength
<1> QED
    BY <1>1, <1>2, <1>3 DEF IsValidList, IsValidValueSize

\* Every step keeps the invariant.
LEMMA StoreStepInv ==
    ASSUME StoreInv, [StoreNext]_storeVars
    PROVE  StoreInv'
<1>1. CASE UNCHANGED <<hash_table, storage_pool, free_slots, used_slots, used_bytes>>
    BY <1>1, UnchangedKeepsInv
<1>2. ASSUME NEW k \in Key, NEW v \in Values, Put(k, v)
      PROVE  StoreInv'
    <2>1. CASE IsValidValueSize(Len(v)) /\ Store("put", k, v)
        BY <2>1, PutValues, StoreKeepsInv
    <2>2. CASE Refuse("put", k, "INVALID_REQUEST")
        BY <1>1, <2>2 DEF Refuse
    <2> QED
        BY <1>2, <2>1, <2>2 DEF Put
<1>3. ASSUME NEW k \in Key, NEW segments \in SegmentLists, NEW size \in Sizes,
             PutSGL(k, segments, size)
      PROVE  StoreInv'
    <2>1. CASE IsValidList(segments, size) /\ Store("put_sgl", k, FlattenSeq(segments))
        BY <2>1, PutValues, StoreKeepsInv
    <2>2. CASE Refuse("put_sgl", k, "INVALID_REQUEST")
        BY <1>1, <2>2 DEF Refuse
    <2> QED
        BY <1>3, <2>1, <2>2 DEF PutSGL
<1>4. ASSUME NEW k \in Key, NEW size \in Sizes, Get(k, size)
      PROVE  StoreInv'
    BY <1>1, <1>4 DEF Get
<1>5. ASSUME NEW k \in Key, GetValuePtr(k)
      PROVE  StoreInv'
    BY <1>1, <1>5 DEF GetValuePtr
<1>6. CASE UNCHANGED storeVars
    BY <1>1, <1>6 DEF storeVars
<1> QED
    BY <1>2, <1>3, <1>4, <1>5, <1>6 DEF StoreNext

\* The invariant always holds.
LEMMA StoreInvariant == StoreSpec => []StoreInv
<1>1. StoreInit => StoreInv
    BY StoreInitInv
<1>2. StoreInv /\ [StoreNext]_storeVars => StoreInv'
    BY StoreStepInv
<1> QED
    BY <1>1, <1>2, PTL DEF StoreSpec

\* A slot never gets more than it holds, and an entry has all its bytes in its
\* slot, for any sizes of values, slots and table (kv_store.h, Put and PutSGL).
THEOREM StoreTyped == StoreSpec => []KvStoreTypeOK
<1>1. StoreInv => KvStoreTypeOK
    BY StoreInvImplies
<1> QED
    BY <1>1, StoreInvariant, PTL

\* Linear probing finds every entry, whatever the hashes: no vacant position
\* and no other entry of the key comes before it (KVStore::FindEntry).
THEOREM EntriesFound == StoreSpec => []ProbeChains
<1>1. StoreInv => ProbeChains
    BY StoreInvImplies
<1> QED
    BY <1>1, StoreInvariant, PTL

\* Every slot is on the free list once or belongs to one entry, and the
\* counters of slots and bytes agree with the table, after any sequence of
\* inserts, updates and refusals (free_slots_, used_slots_, used_bytes_).
THEOREM SlotsAccounted == StoreSpec => []SlotsOwnedOnce
<1>1. StoreInv => SlotsOwnedOnce
    BY StoreInvImplies
<1> QED
    BY <1>1, StoreInvariant, PTL

----------------------------------------------------------------------------
(* The store implements the map.                                           *)

\* The keys stored are those of the entries.
LEMMA StoredKeysHeld ==
    ASSUME StoreInv
    PROVE  /\ StoredKeys \subseteq Key
           /\ \A k : k \in StoredKeys <=> HoldersOf(k) # {}
           /\ \A k, p : p \in HoldersOf(k) <=> p \in Occupied /\ hash_table[p].key = k
<1>1. \A k, p : p \in HoldersOf(k) <=> p \in Occupied /\ hash_table[p].key = k
    BY DEF HoldersOf, Occupied, Vacant
<1>2. StoredKeys = {hash_table[p].key : p \in Occupied}
    BY DEF StoredKeys, Occupied
<1>3. StoredKeys \subseteq Key
    BY <1>2 DEF StoreInv, KeysTyped
<1> QED
    BY <1>1, <1>2, <1>3

\* There are as many keys as entries.
LEMMA StoredCount ==
    ASSUME StoreInv
    PROVE  Cardinality(StoredKeys) = Cardinality(Occupied)
<1> DEFINE f == [p \in Occupied |-> hash_table[p].key]
<1>1. StoredKeys = {hash_table[p].key : p \in Occupied}
    BY DEF StoredKeys, Occupied
<1>2. f \in [Occupied -> StoredKeys]
    BY <1>1
<1>3. ASSUME NEW p \in Occupied, NEW q \in Occupied, f[p] = f[q]
      PROVE  p = q
    <2> DEFINE k == hash_table[p].key
    <2>1. k \in Key
        BY DEF StoreInv, KeysTyped
    <2>2. p \in HoldersOf(k) /\ q \in HoldersOf(k)
        BY <1>3, StoredKeysHeld
    <2> HIDE DEF k
    <2>3. HoldersOf(k) = {p}
        BY <2>1, <2>2, HolderFound DEF StoreInv
    <2> QED
        BY <2>2, <2>3
<1>4. \A k \in StoredKeys : \E p \in Occupied : f[p] = k
    BY <1>1
<1>5. DOMAIN f = Occupied
    OBVIOUS
<1> HIDE DEF f
<1>6. f \in Bijection(Occupied, StoredKeys)
    BY <1>2, <1>3, <1>4, <1>5 DEF Bijection, Injection, Surjection, IsInjective
<1>7. IsFiniteSet(Occupied)
    BY PositionsTyped DEF StoreInv
<1>8. ExistsBijection(Occupied, StoredKeys)
    BY <1>6 DEF ExistsBijection
<1> QED
    BY <1>7, <1>8, FS_Bijection

\* The value of a stored key is the one its entry has.
LEMMA StoredValue ==
    ASSUME StoreInv, NEW p \in Occupied
    PROVE  /\ hash_table[p].key \in StoredKeys
           /\ StoredMap[hash_table[p].key] = ValueAt(p)
<1> DEFINE k == hash_table[p].key
<1>1. k \in Key
    BY DEF StoreInv, KeysTyped
<1>2. p \in HoldersOf(k)
    BY StoredKeysHeld
<1>3. k \in StoredKeys
    BY <1>2, StoredKeysHeld
<1> HIDE DEF k
<1>4. HoldersOf(k) = {p}
    BY <1>1, <1>2, HolderFound DEF StoreInv
<1>5. (CHOOSE q \in HoldersOf(k) : TRUE) = p
    BY <1>4
<1>6. StoredMap[k] = ValueAt(CHOOSE q \in HoldersOf(k) : TRUE)
    BY <1>3 DEF StoredMap
<1> QED
    BY <1>3, <1>5, <1>6 DEF k

\* The same of every entry.
ValuesStored == \A p \in Occupied : StoredMap[hash_table[p].key] = ValueAt(p)

\* Every entry has its value in the map, ...
LEMMA StoredValues == StoreInv => ValuesStored
    BY StoredValue DEF ValuesStored

\* ... also after a step that keeps the invariant.
LEMMA StoredValuesNext == StoreInv' => ValuesStored'
    BY StoredValues, PTL

\* A value is as long as its entry says, and fits in a slot.
LEMMA ValueLength ==
    ASSUME StoreInv, NEW p \in Occupied
    PROVE  /\ Len(ValueAt(p)) = hash_table[p].value_size
           /\ hash_table[p].value_size \in Nat /\ hash_table[p].value_size <= MaxValueSize
<1> DEFINE s == hash_table[p].slot_index
           n == hash_table[p].value_size
           w == storage_pool[s]
<1>1. hash_table[p] \in EntryType
    BY PositionsTyped DEF StoreInv, TableTyped
<1>2. s \in SlotIndex /\ n \in Nat
    BY <1>1 DEF EntryType
<1>3. w \in Seq(Unit) /\ Len(w) <= MaxValueSize
    BY <1>2 DEF StoreInv, SlotsTyped
<1>4. n <= Len(w)
    BY DEF StoreInv, EntriesInSlots
<1>5. ValueAt(p) = SubSeq(w, 1, n)
    BY DEF ValueAt
<1> HIDE DEF n, w, s
<1>6. Len(w) \in Nat /\ MaxValueSize \in Nat
    BY <1>3, LenProperties, KvStoreAssumption
<1>7. \A i \in 1 .. n : w[i] \in Unit
    <2>1. \A i \in 1 .. Len(w) : w[i] \in Unit
        BY <1>3, ElementOfSeq
    <2> QED
        BY <1>2, <1>4, <1>6, <2>1
<1>8. Len(SubSeq(w, 1, n)) = IF 1 <= n THEN n - 1 + 1 ELSE 0
    BY <1>2, <1>7, SubSeqProperties
<1>9. Len(SubSeq(w, 1, n)) = n /\ n <= MaxValueSize
    BY <1>2, <1>3, <1>4, <1>6, <1>8
<1> QED
    BY <1>2, <1>5, <1>9 DEF n

\* The map is full when there is no free slot or no vacant position, and only
\* then.
LEMMA FullStore ==
    ASSUME StoreInv
    PROVE  MapOfStore!IsFull <=> free_slots = << >> \/ Vacant = {}
<1>1. MapOfStore!IsFull <=> Cardinality(Occupied) >= StoreCapacity
    <2>1. DOMAIN StoredMap = StoredKeys
        BY DEF StoredMap
    <2>2. MapOfStore!Cardinality(StoredKeys) = Cardinality(StoredKeys)
        BY DEF Cardinality, MapOfStore!Cardinality
    <2> QED
        BY <2>1, <2>2, StoredCount DEF MapOfStore!IsFull
<1>2. /\ IsFiniteSet(Position) /\ Occupied \subseteq Position /\ Vacant \subseteq Position
      /\ Cardinality(Occupied) \in Nat
    BY PositionsTyped DEF StoreInv
<1>3. TableSize = Cardinality(Position) /\ TableSize \in Nat
    BY DEF TableSize, StoreInv, TableTyped
<1>4. Vacant = {} <=> Cardinality(Occupied) = TableSize
    <2>1. Vacant = {} => Occupied = Position
        BY DEF Occupied
    <2>2. Cardinality(Occupied) = Cardinality(Position) => Occupied = Position
        BY <1>2, FS_Subset
    <2>3. Occupied = Position => Vacant = {}
        BY <1>2 DEF Occupied
    <2> QED
        BY <1>3, <2>1, <2>2, <2>3
<1>5. Cardinality(Occupied) <= TableSize
    BY <1>2, <1>3, FS_Subset
<1>6. Len(free_slots) \in Nat /\ (Len(free_slots) = 0 <=> free_slots = << >>)
    BY LenProperties, EmptySeq DEF StoreInv, FreeOnce
<1>7. Len(free_slots) + Cardinality(Occupied) = NumSlots /\ NumSlots \in Nat
    BY KvStoreAssumption DEF StoreInv, Counted
<1>8. StoreCapacity = IF TableSize < NumSlots THEN TableSize ELSE NumSlots
    BY DEF StoreCapacity
<1>9. Cardinality(Occupied) >= StoreCapacity
         <=> Cardinality(Occupied) = TableSize \/ Len(free_slots) = 0
    BY <1>2, <1>3, <1>5, <1>6, <1>7, <1>8
<1> QED
    BY <1>1, <1>4, <1>6, <1>9

\* Updating the entry of a key writes the value under that key.
LEMMA UpdateWrites ==
    ASSUME StoreInv, StoreInv', NEW op, NEW k \in Key, NEW v \in Seq(Unit),
           Len(v) <= MaxValueSize, NEW p \in HoldersOf(k), UpdateEntry(op, k, v, p)
    PROVE  /\ k \in DOMAIN StoredMap /\ StoredMap' = MapOfStore!Written(k, v)
           /\ StoreCapacity' = StoreCapacity
<1>1. p \in Occupied /\ p \in Position /\ hash_table[p].key = k
    BY DEF HoldersOf, Occupied, Vacant
<1>2. Len(v) \in Nat
    BY LenProperties
<1>3. /\ CopyInto(hash_table[p].slot_index, v)
      /\ hash_table' = [hash_table EXCEPT ![p].value_size = Len(v)]
    BY DEF UpdateEntry
<1>4. \A q \in Position : hash_table[q].slot_index \in SlotIndex
    <2>1. \A q \in Position : hash_table[q] \in EntryType
        BY PositionsTyped DEF StoreInv, TableTyped
    <2> QED
        BY <2>1 DEF EntryType
<1>5. /\ TableSize' = TableSize /\ Occupied' = Occupied
      /\ \A q \in Position : /\ hash_table'[q].key = hash_table[q].key
                             /\ hash_table'[q].slot_index = hash_table[q].slot_index
      /\ hash_table'[p].value_size = Len(v)
      /\ \A q \in Position \ {p} : hash_table'[q] = hash_table[q]
    BY <1>1, <1>2, <1>3, UpdatedTable DEF StoreInv
<1>6. /\ \A s \in SlotIndex \ {hash_table[p].slot_index} : storage_pool'[s] = storage_pool[s]
      /\ SubSeq(storage_pool'[hash_table[p].slot_index], 1, Len(v)) = v
    BY <1>1, <1>3, <1>4, SlotCopied DEF StoreInv
<1>7. Occupied \subseteq Position
    BY DEF Occupied
<1>8. StoredKeys = {hash_table[q].key : q \in Occupied}
    BY DEF StoredKeys, Occupied
<1>9. StoredKeys' = {hash_table'[q].key : q \in Occupied'}
    BY DEF StoredKeys, Occupied
<1>10. StoredKeys' = StoredKeys
    BY <1>5, <1>7, <1>8, <1>9
<1>11. k \in StoredKeys /\ DOMAIN StoredMap = StoredKeys
    BY <1>1, <1>8 DEF StoredMap
<1>12. ASSUME NEW j \in StoredKeys
       PROVE  StoredMap'[j] = IF j = k THEN v ELSE StoredMap[j]
    <2>1. PICK q \in Occupied : hash_table[q].key = j
        BY <1>8
    <2>2. StoredMap[j] = ValueAt(q)
        BY <2>1, StoredValue
    <2>3. hash_table'[q].key = j /\ q \in Occupied'
        BY <1>5, <1>7, <2>1
    <2>4. StoredMap'[j] = ValueAt(q)'
        BY <2>3, StoredValuesNext DEF ValuesStored
    <2>5. CASE j = k
        <3>1. q = p
            <4>1. q \in HoldersOf(k)
                BY <2>1, <2>5, StoredKeysHeld
            <4> QED
                BY <4>1, HolderFound DEF StoreInv
        <3>2. ValueAt(q)' = v
            BY <1>1, <1>5, <1>6, <3>1 DEF ValueAt
        <3> QED
            BY <2>4, <2>5, <3>2
    <2>6. CASE j # k
        <3>1. q # p
            BY <1>1, <2>1, <2>6
        <3>2. hash_table'[q] = hash_table[q]
            BY <1>5, <1>7, <3>1
        <3>3. hash_table[q].slot_index # hash_table[p].slot_index
            BY <1>1, <3>1 DEF StoreInv, OwnedOnce
        <3>4. ValueAt(q)' = ValueAt(q)
            BY <1>4, <1>6, <1>7, <3>2, <3>3 DEF ValueAt
        <3> QED
            BY <2>2, <2>4, <2>6, <3>4
    <2> QED
        BY <2>5, <2>6
<1>13. StoredMap' = [j \in StoredKeys |-> StoredMap'[j]]
    <2>1. StoredMap' = [j \in StoredKeys' |-> ValueAt(CHOOSE q \in HoldersOf(j) : TRUE)']
        BY DEF StoredMap
    <2> QED
        BY <1>10, <2>1
<1>14. StoredMap' = MapOfStore!Written(k, v)
    <2>1. MapOfStore!Written(k, v) = [j \in StoredKeys \cup {k} |-> IF j = k THEN v ELSE StoredMap[j]]
        BY <1>11 DEF MapOfStore!Written
    <2>2. StoredKeys \cup {k} = StoredKeys
        BY <1>11
    <2> QED
        BY <1>12, <1>13, <2>1, <2>2
<1>15. StoreCapacity' = StoreCapacity
    BY <1>5 DEF StoreCapacity
<1> QED
    BY <1>11, <1>14, <1>15

\* Inserting an entry writes the value under its key, and there was room.
LEMMA InsertWrites ==
    ASSUME StoreInv, StoreInv', NEW op, NEW k \in Key, NEW v \in Seq(Unit),
           Len(v) <= MaxValueSize, free_slots # << >>, HoldersOf(k) = {},
           NEW p \in VacancyFor(k), InsertEntry(op, k, v, p)
    PROVE  /\ ~MapOfStore!IsFull /\ StoredMap' = MapOfStore!Written(k, v)
           /\ StoreCapacity' = StoreCapacity
<1> DEFINE slot == Last(free_slots)
<1>1. p \in Vacant
    BY DEF VacancyFor, FirstProbed
<1>2. Len(v) \in Nat
    BY LenProperties
<1>3. /\ CopyInto(slot, v)
      /\ hash_table' = [hash_table EXCEPT ![p] =
            [key |-> k, slot_index |-> slot, value_size |-> Len(v), occupied |-> TRUE]]
    BY DEF InsertEntry
<1>4. /\ Len(free_slots) \in Nat \ {0} /\ slot \in SlotIndex
      /\ slot = free_slots[Len(free_slots)]
    BY FreeSlotTaken DEF StoreInv
<1> HIDE DEF slot
<1>5. /\ TableSize' = TableSize /\ Occupied' = Occupied \cup {p} /\ p \notin Occupied
      /\ hash_table'[p].key = k /\ hash_table'[p].slot_index = slot
      /\ hash_table'[p].value_size = Len(v)
      /\ \A q \in Position \ {p} : hash_table'[q] = hash_table[q]
    BY <1>1, <1>2, <1>3, <1>4, InsertedTable DEF StoreInv
<1>6. /\ \A s \in SlotIndex \ {slot} : storage_pool'[s] = storage_pool[s]
      /\ SubSeq(storage_pool'[slot], 1, Len(v)) = v
    BY <1>3, <1>4, SlotCopied DEF StoreInv
<1>7. Occupied \subseteq Position
    BY DEF Occupied
<1>8. StoredKeys = {hash_table[q].key : q \in Occupied} /\ DOMAIN StoredMap = StoredKeys
    BY DEF StoredKeys, Occupied, StoredMap
<1>9. StoredKeys' = {hash_table'[q].key : q \in Occupied'}
    BY DEF StoredKeys, Occupied
<1>10. \A q \in Occupied : hash_table'[q] = hash_table[q]
    BY <1>5, <1>7
<1>11. StoredKeys' = StoredKeys \cup {k}
    BY <1>5, <1>8, <1>9, <1>10
<1>12. k \notin StoredKeys
    BY StoredKeysHeld
<1>13. StoredMap'[k] = v
    <2>1. p \in Occupied'
        BY <1>5
    <2>2. StoredMap'[k] = ValueAt(p)'
        BY <1>5, <2>1, StoredValuesNext DEF ValuesStored
    <2>3. ValueAt(p)' = v
        BY <1>5, <1>6 DEF ValueAt
    <2> QED
        BY <2>2, <2>3
<1>14. ASSUME NEW j \in StoredKeys
       PROVE  StoredMap'[j] = StoredMap[j]
    <2>1. PICK q \in Occupied : hash_table[q].key = j
        BY <1>8
    <2>2. StoredMap[j] = ValueAt(q)
        BY <2>1, StoredValue
    <2>3. hash_table'[q].key = j /\ q \in Occupied' /\ hash_table'[q] = hash_table[q]
        BY <1>5, <1>10, <2>1
    <2>4. StoredMap'[j] = ValueAt(q)'
        BY <2>3, StoredValuesNext DEF ValuesStored
    <2>5. hash_table[q].slot_index # slot
        BY <1>4 DEF StoreInv, OwnedNotFree
    <2>6. hash_table[q].slot_index \in SlotIndex
        <3>1. hash_table[q] \in EntryType
            BY PositionsTyped DEF StoreInv, TableTyped
        <3> QED
            BY <3>1 DEF EntryType
    <2>7. ValueAt(q)' = ValueAt(q)
        BY <1>6, <2>3, <2>5, <2>6 DEF ValueAt
    <2> QED
        BY <2>2, <2>4, <2>7
<1>15. StoredMap' = [j \in StoredKeys \cup {k} |-> StoredMap'[j]]
    <2>1. StoredMap' = [j \in StoredKeys' |-> ValueAt(CHOOSE q \in HoldersOf(j) : TRUE)']
        BY DEF StoredMap
    <2> QED
        BY <1>11, <2>1
<1>16. StoredMap' = MapOfStore!Written(k, v)
    <2>1. MapOfStore!Written(k, v) = [j \in StoredKeys \cup {k} |-> IF j = k THEN v ELSE StoredMap[j]]
        BY <1>8 DEF MapOfStore!Written
    <2>2. \A j \in StoredKeys \cup {k} : StoredMap'[j] = IF j = k THEN v ELSE StoredMap[j]
        BY <1>12, <1>13, <1>14
    <2> QED
        BY <1>15, <2>1, <2>2
<1>17. ~MapOfStore!IsFull
    BY <1>1, FullStore
<1>18. StoreCapacity' = StoreCapacity
    BY <1>5 DEF StoreCapacity
<1> QED
    BY <1>16, <1>17, <1>18

\* An answer as the map sees it.
LEMMA AnswerSeen ==
    ASSUME NEW op, NEW k, NEW status, NEW value, Answered(op, k, status, value)
    PROVE  /\ <<answer.op, answer.key>>' = <<op, k>>
           /\ [status |-> answer.status, value |-> answer.value]' = MapOfStore!Answer(status, value)
<1>1. answer' = [op |-> op, key |-> k, status |-> status, value |-> value]
    BY DEF Answered
<1>2. /\ answer'.op = op /\ answer'.key = k /\ answer'.status = status
      /\ answer'.value = value
    BY <1>1
<1> QED
    BY <1>2 DEF MapOfStore!Answer

\* The map depends on the table and the slots only.
LEMMA SameMap ==
    ASSUME hash_table' = hash_table, storage_pool' = storage_pool
    PROVE  StoredMap' = StoredMap /\ StoreCapacity' = StoreCapacity
<1>1. Position' = Position /\ TableSize' = TableSize
    BY DEF Position, TableSize
<1>2. StoredKeys' = StoredKeys
    BY <1>1 DEF StoredKeys, Vacant, Position
<1>3. \A k : HoldersOf(k)' = HoldersOf(k)
    BY DEF HoldersOf, Position
<1>4. \A p : ValueAt(p)' = ValueAt(p)
    BY DEF ValueAt
<1>5. StoredMap' = [k \in StoredKeys' |-> ValueAt(CHOOSE p \in HoldersOf(k) : TRUE)']
    BY DEF StoredMap
<1>6. \A k : ValueAt(CHOOSE p \in HoldersOf(k) : TRUE)' = ValueAt(CHOOSE p \in HoldersOf(k) : TRUE)
    BY DEF ValueAt, HoldersOf, Position
<1>7. StoredMap' = StoredMap
    BY <1>2, <1>5, <1>6 DEF StoredMap
<1> QED
    BY <1>1, <1>7 DEF StoreCapacity

\* What Put and PutSGL share is a write of a well-formed value.
LEMMA StoreWrites ==
    ASSUME StoreInv, NEW op, NEW k \in Key, NEW v \in Seq(Unit), NEW size,
           Len(v) = size, IsValidValueSize(size), Store(op, k, v)
    PROVE  /\ MapOfStore!Write(k, v, size)
           /\ <<answer.op, answer.key>>' = <<op, k>> /\ StoreCapacity' = StoreCapacity
<1>1. Len(v) <= MaxValueSize
    BY DEF IsValidValueSize
<1>2. FindEntry(k) = HoldersOf(k)
    BY FindEntryHolders DEF StoreInv
<1>3. StoreInv'
    BY <1>1, StoreKeepsInv
<1>4. CASE /\ free_slots = << >> \/ (free_slots # << >> /\ VacancyFor(k) = {})
           /\ Refuse(op, k, "NO_SPACE")
    <2>1. MapOfStore!IsFull
        BY <1>4, VacancyExists, FullStore DEF StoreInv
    <2>2. StoredMap' = StoredMap /\ StoreCapacity' = StoreCapacity
        BY <1>4, SameMap DEF Refuse
    <2>3. /\ <<answer.op, answer.key>>' = <<op, k>>
          /\ [status |-> answer.status, value |-> answer.value]'
                = MapOfStore!Answer("NO_SPACE", << >>)
        BY <1>4, AnswerSeen DEF Refuse
    <2>4. MapOfStore!Write(k, v, size)
        BY <2>1, <2>2, <2>3 DEF MapOfStore!Write
    <2> QED
        BY <2>2, <2>3, <2>4
<1>5. CASE \E p \in FindEntry(k) : UpdateEntry(op, k, v, p)
    <2>1. PICK p \in HoldersOf(k) : UpdateEntry(op, k, v, p)
        BY <1>2, <1>5
    <2>2. /\ k \in DOMAIN StoredMap /\ StoredMap' = MapOfStore!Written(k, v)
          /\ StoreCapacity' = StoreCapacity
        BY <1>1, <1>3, <2>1, UpdateWrites
    <2>3. /\ <<answer.op, answer.key>>' = <<op, k>>
          /\ [status |-> answer.status, value |-> answer.value]'
                = MapOfStore!Answer("OK", << >>)
        BY <2>1, AnswerSeen DEF UpdateEntry
    <2>4. MapOfStore!Write(k, v, size)
        BY <2>2, <2>3 DEF MapOfStore!Write
    <2> QED
        BY <2>2, <2>3, <2>4
<1>6. CASE /\ free_slots # << >> /\ FindEntry(k) = {}
           /\ \E p \in VacancyFor(k) : InsertEntry(op, k, v, p)
    <2>1. PICK p \in VacancyFor(k) : InsertEntry(op, k, v, p)
        BY <1>6
    <2>2. /\ ~MapOfStore!IsFull /\ StoredMap' = MapOfStore!Written(k, v)
          /\ StoreCapacity' = StoreCapacity
        BY <1>1, <1>2, <1>3, <1>6, <2>1, InsertWrites
    <2>3. /\ <<answer.op, answer.key>>' = <<op, k>>
          /\ [status |-> answer.status, value |-> answer.value]'
                = MapOfStore!Answer("OK", << >>)
        BY <2>1, AnswerSeen DEF InsertEntry
    <2>4. MapOfStore!Write(k, v, size)
        BY <2>2, <2>3 DEF MapOfStore!Write
    <2> QED
        BY <2>2, <2>3, <2>4
<1> QED
    BY <1>4, <1>5, <1>6 DEF Store

\* A refused request writes nothing.
LEMMA RefuseWrites ==
    ASSUME NEW op, NEW k, NEW v, NEW size, ~(Len(v) = size /\ IsValidValueSize(size)),
           Refuse(op, k, "INVALID_REQUEST")
    PROVE  /\ MapOfStore!Write(k, v, size)
           /\ <<answer.op, answer.key>>' = <<op, k>> /\ StoreCapacity' = StoreCapacity
<1>1. StoredMap' = StoredMap /\ StoreCapacity' = StoreCapacity
    BY SameMap DEF Refuse
<1>2. /\ <<answer.op, answer.key>>' = <<op, k>>
      /\ [status |-> answer.status, value |-> answer.value]'
            = MapOfStore!Answer("INVALID_REQUEST", << >>)
    BY AnswerSeen DEF Refuse
<1> QED
    BY <1>1, <1>2 DEF MapOfStore!Write

\* A step of the map: the operation, its key and its effect.
LEMMA MapStep ==
    ASSUME NEW op \in {"put", "put_sgl", "get", "value_ptr"}, NEW k \in Key,
           NEW size \in Sizes \cup {Len(v) : v \in Values} \cup {MaxValueSize},
           <<answer.op, answer.key>>' = <<op, k>>,
           StoreCapacity' = StoreCapacity,
           IF op \in {"put", "put_sgl"}
           THEN \E v \in Values \cup {FlattenSeq(s) : s \in SegmentLists} :
                   MapOfStore!Write(k, v, size)
           ELSE MapOfStore!Read(k, size)
    PROVE  MapOfStore!MapNext
    BY DEF MapOfStore!MapNext

\* A read, of a key that is stored or not.
LEMMA GetReads ==
    ASSUME StoreInv, NEW op, NEW k \in Key, NEW room,
           UNCHANGED <<hash_table, storage_pool, free_slots, used_slots, used_bytes>>,
           \/ FindEntry(k) = {} /\ Answered(op, k, "NOT_FOUND", << >>)
           \/ \E p \in FindEntry(k) :
                 IF room < hash_table[p].value_size
                 THEN Answered(op, k, "INVALID_REQUEST", << >>)
                 ELSE Answered(op, k, "OK", ValueAt(p)),
           room \in Nat
    PROVE  /\ MapOfStore!Read(k, room)
           /\ <<answer.op, answer.key>>' = <<op, k>> /\ StoreCapacity' = StoreCapacity
<1>1. StoredMap' = StoredMap /\ StoreCapacity' = StoreCapacity
    BY SameMap
<1>2. FindEntry(k) = HoldersOf(k) /\ DOMAIN StoredMap = StoredKeys
    BY FindEntryHolders DEF StoreInv, StoredMap
<1>3. CASE FindEntry(k) = {} /\ Answered(op, k, "NOT_FOUND", << >>)
    <2>1. k \notin DOMAIN StoredMap
        BY <1>2, <1>3, StoredKeysHeld
    <2>2. /\ <<answer.op, answer.key>>' = <<op, k>>
          /\ [status |-> answer.status, value |-> answer.value]'
                = MapOfStore!Answer("NOT_FOUND", << >>)
        BY <1>3, AnswerSeen
    <2> QED
        BY <1>1, <2>1, <2>2 DEF MapOfStore!Read
<1>4. CASE \E p \in FindEntry(k) :
              IF room < hash_table[p].value_size
              THEN Answered(op, k, "INVALID_REQUEST", << >>)
              ELSE Answered(op, k, "OK", ValueAt(p))
    <2>1. PICK p \in HoldersOf(k) :
              IF room < hash_table[p].value_size
              THEN Answered(op, k, "INVALID_REQUEST", << >>)
              ELSE Answered(op, k, "OK", ValueAt(p))
        BY <1>2, <1>4
    <2>2. p \in Occupied /\ hash_table[p].key = k
        BY StoredKeysHeld
    <2>3. k \in DOMAIN StoredMap /\ StoredMap[k] = ValueAt(p)
        BY <1>2, <2>2, StoredValue
    <2>4. Len(StoredMap[k]) = hash_table[p].value_size /\ hash_table[p].value_size \in Nat
        BY <2>2, <2>3, ValueLength
    <2>5. CASE room < hash_table[p].value_size
        <3>1. Len(StoredMap[k]) > room
            BY <2>4, <2>5
        <3>2. /\ <<answer.op, answer.key>>' = <<op, k>>
              /\ [status |-> answer.status, value |-> answer.value]'
                    = MapOfStore!Answer("INVALID_REQUEST", << >>)
            BY <2>1, <2>5, AnswerSeen
        <3> QED
            BY <1>1, <2>3, <3>1, <3>2 DEF MapOfStore!Read
    <2>6. CASE ~(room < hash_table[p].value_size)
        <3>1. ~(Len(StoredMap[k]) > room)
            BY <2>4, <2>6
        <3>2. /\ <<answer.op, answer.key>>' = <<op, k>>
              /\ [status |-> answer.status, value |-> answer.value]'
                    = MapOfStore!Answer("OK", StoredMap[k])
            BY <2>1, <2>3, <2>6, AnswerSeen
        <3> QED
            BY <1>1, <2>3, <3>1, <3>2 DEF MapOfStore!Read
    <2> QED
        BY <2>5, <2>6
<1> QED
    BY <1>3, <1>4

\* Every step of the store is a step of the map, or changes nothing of it.
LEMMA StoreStepMap ==
    ASSUME StoreInv, [StoreNext]_storeVars
    PROVE  [MapOfStore!MapNext]_(MapOfStore!mapVars)
<1> DEFINE Written == Values \cup {FlattenSeq(s) : s \in SegmentLists}
           Claimed == Sizes \cup {Len(v) : v \in Values} \cup {MaxValueSize}
<1>1. ASSUME NEW k \in Key, NEW v \in Values, Put(k, v)
      PROVE  MapOfStore!MapNext
    <2>1. v \in Seq(Unit) /\ v \in Written /\ Len(v) \in Claimed
        BY PutValues
    <2>2. /\ MapOfStore!Write(k, v, Len(v))
          /\ <<answer.op, answer.key>>' = <<"put", k>> /\ StoreCapacity' = StoreCapacity
        <3>1. CASE IsValidValueSize(Len(v)) /\ Store("put", k, v)
            BY <2>1, <3>1, StoreWrites
        <3>2. CASE ~IsValidValueSize(Len(v)) /\ Refuse("put", k, "INVALID_REQUEST")
            BY <3>2, RefuseWrites
        <3> QED
            BY <1>1, <3>1, <3>2 DEF Put
    <2>3. \E w \in Written : MapOfStore!Write(k, w, Len(v))
        BY <2>1, <2>2
    <2> QED
        BY <2>1, <2>2, <2>3, MapStep
<1>2. ASSUME NEW k \in Key, NEW segments \in SegmentLists, NEW size \in Sizes,
             PutSGL(k, segments, size)
      PROVE  MapOfStore!MapNext
    <2> DEFINE v == FlattenSeq(segments)
    <2>1. v \in Seq(Unit) /\ v \in Written /\ size \in Claimed
        BY PutValues
    <2>2. IsValidList(segments, size) <=> Len(v) = size /\ IsValidValueSize(size)
        <3>1. ASSUME segments = << >>, Len(v) = size, IsValidValueSize(size)
              PROVE  FALSE
            <4>1. Len(<< >>) = 0
                OBVIOUS
            <4>2. v = << >>
                BY <3>1, <4>1 DEF FlattenSeq
            <4>3. size = 0
                BY <3>1, <4>1, <4>2
            <4> QED
                BY <3>1, <4>3, KvStoreAssumption DEF IsValidValueSize
        <3>2. Len(v) % SizeMod = Len(v)
            BY SumIsLength
        <3> QED
            BY <3>1, <3>2 DEF IsValidList
    <2>3. /\ MapOfStore!Write(k, v, size)
          /\ <<answer.op, answer.key>>' = <<"put_sgl", k>> /\ StoreCapacity' = StoreCapacity
        <3>1. CASE IsValidList(segments, size) /\ Store("put_sgl", k, v)
            BY <2>1, <2>2, <3>1, StoreWrites
        <3>2. CASE ~IsValidList(segments, size) /\ Refuse("put_sgl", k, "INVALID_REQUEST")
            BY <2>2, <3>2, RefuseWrites
        <3> QED
            BY <1>2, <3>1, <3>2 DEF PutSGL
    <2> HIDE DEF v
    <2>4. \E w \in Written : MapOfStore!Write(k, w, size)
        BY <2>1, <2>3
    <2> QED
        BY <2>1, <2>3, <2>4, MapStep
<1>3. ASSUME NEW k \in Key, NEW size \in Sizes, Get(k, size)
      PROVE  MapOfStore!MapNext
    <2>1. size \in Nat /\ size \in Claimed
        BY KvStoreAssumption
    <2>2. /\ MapOfStore!Read(k, size)
          /\ <<answer.op, answer.key>>' = <<"get", k>> /\ StoreCapacity' = StoreCapacity
        BY <1>3, <2>1, GetReads DEF Get
    <2> QED
        BY <2>1, <2>2, MapStep
<1>4. ASSUME NEW k \in Key, GetValuePtr(k)
      PROVE  MapOfStore!MapNext
    <2>1. MaxValueSize \in Nat /\ MaxValueSize \in Claimed
        BY KvStoreAssumption
    <2>2. \A p \in FindEntry(k) : ~(MaxValueSize < hash_table[p].value_size)
        <3>1. FindEntry(k) = HoldersOf(k)
            BY FindEntryHolders DEF StoreInv
        <3> SUFFICES ASSUME NEW p \in FindEntry(k)
                     PROVE  ~(MaxValueSize < hash_table[p].value_size)
            OBVIOUS
        <3>2. p \in Occupied
            BY <3>1, StoredKeysHeld
        <3>3. hash_table[p].value_size \in Nat /\ hash_table[p].value_size <= MaxValueSize
            BY <3>2, ValueLength
        <3> QED
            BY <2>1, <3>3
    <2>3. \/ FindEntry(k) = {} /\ Answered("value_ptr", k, "NOT_FOUND", << >>)
          \/ \E p \in FindEntry(k) :
                IF MaxValueSize < hash_table[p].value_size
                THEN Answered("value_ptr", k, "INVALID_REQUEST", << >>)
                ELSE Answered("value_ptr", k, "OK", ValueAt(p))
        BY <1>4, <2>2 DEF GetValuePtr
    <2>4. /\ MapOfStore!Read(k, MaxValueSize)
          /\ <<answer.op, answer.key>>' = <<"value_ptr", k>> /\ StoreCapacity' = StoreCapacity
        BY <1>4, <2>1, <2>3, GetReads DEF GetValuePtr
    <2> QED
        BY <2>1, <2>4, MapStep
<1>5. CASE UNCHANGED storeVars
    <2>1. hash_table' = hash_table /\ storage_pool' = storage_pool /\ answer' = answer
        BY <1>5 DEF storeVars
    <2>2. StoredMap' = StoredMap /\ StoreCapacity' = StoreCapacity
        BY <2>1, SameMap
    <2> QED
        BY <2>1, <2>2 DEF MapOfStore!mapVars
<1> QED
    BY <1>1, <1>2, <1>3, <1>4, <1>5 DEF StoreNext

\* A new store is an empty map.
LEMMA StoreInitMap ==
    ASSUME StoreInit
    PROVE  MapOfStore!MapInit
<1>1. StoreInv /\ Occupied = {}
    BY StoreInitInv
<1>2. StoredKeys = {}
    BY <1>1 DEF StoredKeys, Occupied
<1>3. StoredMap = << >>
    BY <1>2 DEF StoredMap
<1>4. StoreCapacity \in Nat
    BY <1>1, KvStoreAssumption DEF StoreCapacity, StoreInv, TableTyped
<1>5. answer = [op |-> "none", key |-> 0, status |-> "OK", value |-> << >>]
    BY DEF StoreInit
<1>6. <<answer.op, answer.key>> = <<"none", 0>>
    BY <1>5
<1>7. [status |-> answer.status, value |-> answer.value] = MapOfStore!Answer("OK", << >>)
    BY <1>5 DEF MapOfStore!Answer
<1> QED
    BY <1>3, <1>4, <1>6, <1>7 DEF MapOfStore!MapInit

\* The store implements the map: a read returns the value last put under its
\* key, whole, and a well-formed put is refused only when as many keys are
\* stored as there are slots or positions (KVStore::Put, PutSGL, Get,
\* GetValuePtr).
THEOREM StoreImplementsMap == StoreSpec => ImplementsKvMap
<1>1. StoreInit => MapOfStore!MapInit
    BY StoreInitMap
<1>2. StoreInv /\ [StoreNext]_storeVars => [MapOfStore!MapNext]_(MapOfStore!mapVars)
    BY StoreStepMap
<1> QED
    BY <1>1, <1>2, StoreInvariant, PTL DEF StoreSpec, ImplementsKvMap, MapOfStore!MapSpec
============================================================================
