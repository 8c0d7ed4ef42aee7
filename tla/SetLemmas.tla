------------------------------ MODULE SetLemmas ------------------------------
(***************************************************************************)
(* Facts about numbers, finite sets and sequences that the proofs of the   *)
(* components share and that the library does not state.                   *)
(***************************************************************************)
EXTENDS SequencesExt, SequenceTheorems, FiniteSetTheorems, FunctionTheorems, TLAPS

\* A nonempty set of natural numbers has a least element.  A proof by induction
\* is a proof that a set of counterexamples has none.
LEMMA LeastNat ==
  ASSUME NEW T \in SUBSET Nat, T # {}
  PROVE  \E x \in T : \A y \in T : x <= y
<1> DEFINE R == StrictSubsetOrdering(Nat)
           S == FiniteSubsetsOf(Nat)
           F == {0 .. k : k \in T}
<1>1. \A k \in T : 0 .. k \in S
  BY FS_Interval DEF FiniteSubsetsOf
<1>2. F \subseteq S /\ F # {}
  BY <1>1
<1>3. IsWellFoundedOn(R, S)
  BY FS_StrictSubsetOrderingWellFounded
<1>4. \E x \in F : \A y \in F : ~ (<<y, x>> \in R)
  <2> HIDE DEF F, R, S
  <2>1. QED
    BY <1>2, <1>3, WFMin
<1>5. PICK k \in T : \A y \in T : ~ (<<0 .. y, 0 .. k>> \in R)
  BY <1>4
<1>6. ASSUME NEW y \in T PROVE k <= y
  <2>1. SUFFICES ASSUME y < k PROVE FALSE
    OBVIOUS
  <2>2. 0 .. y \subseteq 0 .. k /\ k \in 0 .. k /\ k \notin 0 .. y
    BY <2>1
  <2>3. 0 .. y \in SUBSET Nat /\ 0 .. k \in SUBSET Nat /\ 0 .. y # 0 .. k
    BY <2>2
  <2>4. <<0 .. y, 0 .. k>> \in R
    BY <2>2, <2>3 DEF StrictSubsetOrdering
  <2>5. QED
    BY <2>4, <1>5
<1>7. QED
  BY <1>6

\* SetToSeq lists a finite set: each element once, and nothing else.
LEMMA SetToSeqLists ==
  ASSUME NEW S, IsFiniteSet(S)
  PROVE  /\ SetToSeq(S) \in Seq(S)
         /\ {SetToSeq(S)[i] : i \in 1 .. Len(SetToSeq(S))} = S
         /\ \A i, j \in 1 .. Len(SetToSeq(S)) : SetToSeq(S)[i] = SetToSeq(S)[j] => i = j
<1> DEFINE D == 1 .. Cardinality(S)
           s == SetToSeq(S)
<1>0. Cardinality(S) \in Nat /\ IsFiniteSet(D) /\ Cardinality(D) = Cardinality(S)
  BY FS_CardinalityType, FS_Interval
<1>1. \E f : f \in Bijection(D, S)
  BY FS_CardinalityType DEF ExistsBijection
<1>2. \E f \in [D -> S] : IsInjective(f)
  <2> HIDE DEF D
  <2>1. QED
    BY <1>1, Fun_BijectionProperties DEF IsInjective
<1>3. s \in [D -> S] /\ IsInjective(s)
  <2>1. s = CHOOSE f \in [D -> S] : IsInjective(f)
    BY DEF SetToSeq
  <2> HIDE DEF D, s, IsInjective
  <2>2. QED
    BY <1>2, <2>1, Zenon
<1>4. s \in Seq(S) /\ Len(s) = Cardinality(S)
  BY <1>0, <1>3, SeqDef
<1>5. \A a, b \in D : s[a] = s[b] => a = b
  BY <1>3 DEF IsInjective
<1>6. s \in Surjection(D, S)
  <2> HIDE DEF D, s
  <2>1. s \in Injection(D, S)
    BY <1>3, <1>5, Fun_IsInj
  <2>2. QED
    BY <1>0, <2>1, FS_Injection
<1>7. \A x \in S : \E i \in D : s[i] = x
  <2> HIDE DEF D, s
  <2>1. QED
    BY <1>6, Fun_SurjectionProperties
<1>8. {s[i] : i \in D} = S
  BY <1>3, <1>7
<1>9. QED
  BY <1>4, <1>5, <1>8

\* A function on an initial segment is a sequence of that length.
LEMMA FunIsSeq ==
  ASSUME NEW S, NEW n \in Nat, NEW f \in [1 .. n -> S]
  PROVE  f \in Seq(S) /\ Len(f) = n
OBVIOUS

\* The powers of two: an element more doubles the number of subsets.
LEMMA PowersOfTwo ==
  /\ 2 ^ 0 = 1
  /\ \A n \in Nat : 2 ^ n \in Nat /\ 2 ^ (n + 1) = 2 * 2 ^ n
<1>1. \A n \in Nat : /\ IsFiniteSet(SUBSET (1 .. n))
                     /\ Cardinality(SUBSET (1 .. n)) = 2 ^ n
  <2> SUFFICES ASSUME NEW n \in Nat
               PROVE  /\ IsFiniteSet(SUBSET (1 .. n))
                      /\ Cardinality(SUBSET (1 .. n)) = 2 ^ n
    OBVIOUS
  <2>1. IsFiniteSet(1 .. n) /\ Cardinality(1 .. n) = n
    BY FS_Interval
  <2>2. QED
    BY <2>1, FS_SUBSET
<1>2. 2 ^ 0 = 1
  <2>1. Cardinality(SUBSET (1 .. 0)) = 2 ^ 0
    BY <1>1
  <2>2. 1 .. 0 = {}
    OBVIOUS
  <2>3. SUBSET (1 .. 0) = {{}}
    BY <2>2
  <2>4. Cardinality({{}}) = 1
    BY FS_Singleton
  <2>5. QED
    BY <2>1, <2>3, <2>4
<1>3. ASSUME NEW n \in Nat PROVE 2 ^ n \in Nat /\ 2 ^ (n + 1) = 2 * 2 ^ n
  <2> DEFINE A == SUBSET (1 .. n)
             B == {X \in SUBSET (1 .. n + 1) : n + 1 \in X}
             f == [X \in A |-> X \cup {n + 1}]
  <2>1. SUBSET (1 .. n + 1) = A \cup B /\ A \cap B = {}
    <3>1. \A X \in SUBSET (1 .. n + 1) : n + 1 \notin X => X \in SUBSET (1 .. n)
      OBVIOUS
    <3>2. \A X \in SUBSET (1 .. n) : X \in SUBSET (1 .. n + 1) /\ n + 1 \notin X
      OBVIOUS
    <3>3. QED
      BY <3>1, <3>2
  <2>2. f \in [A -> B]
    OBVIOUS
  <2>3. \A X, Y \in A : f[X] = f[Y] => X = Y
    <3>1. \A X \in A : n + 1 \notin X
      OBVIOUS
    <3>2. \A X \in A : X = f[X] \ {n + 1}
      BY <3>1
    <3>3. QED
      BY <3>2
  <2>4. \A Y \in B : \E X \in A : f[X] = Y
    <3> SUFFICES ASSUME NEW Y \in B PROVE \E X \in A : f[X] = Y
      OBVIOUS
    <3>1. Y \ {n + 1} \in A
      OBVIOUS
    <3>2. f[Y \ {n + 1}] = Y
      BY <3>1
    <3>3. QED
      BY <3>1, <3>2
  <2>5. /\ IsFiniteSet(A) /\ Cardinality(A) = 2 ^ n
        /\ Cardinality(SUBSET (1 .. n + 1)) = 2 ^ (n + 1)
    <3>1. n + 1 \in Nat
      OBVIOUS
    <3>2. /\ IsFiniteSet(SUBSET (1 .. n)) /\ Cardinality(SUBSET (1 .. n)) = 2 ^ n
          /\ Cardinality(SUBSET (1 .. n + 1)) = 2 ^ (n + 1)
      BY <1>1, <3>1
    <3>3. QED
      BY <3>2
  <2> HIDE DEF f, A, B
  <2>6. IsFiniteSet(B) /\ Cardinality(B) = Cardinality(A)
    <3>1. ExistsBijection(A, B)
      BY <2>2, <2>3, <2>4, Fun_IsBij DEF ExistsBijection
    <3>2. QED
      BY <2>5, <3>1, FS_Bijection
  <2>7. Cardinality(A \cup B) = Cardinality(A) + Cardinality(B) - Cardinality(A \cap B)
    BY <2>5, <2>6, FS_Union
  <2>8. Cardinality(A) \in Nat /\ Cardinality(A \cap B) = 0
    BY <2>1, <2>5, FS_EmptySet, FS_CardinalityType
  <2>9. Cardinality(A \cup B) = 2 ^ (n + 1)
    BY <2>1, <2>5
  <2>10. QED
    BY <2>5, <2>6, <2>7, <2>8, <2>9
<1>4. QED
  BY <1>2, <1>3
==============================================================================
