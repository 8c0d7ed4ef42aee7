--------------------------- MODULE ExtractProofs ----------------------------
(***************************************************************************)
(* Theorems about the driver for every environment and every selection:    *)
(* what is submitted is what the selection needs, blocks lie in one piece, *)
(* a run without failures has checked everything, on an environment as     *)
(* Lean produces it the failures are exactly the faulty constants, and the *)
(* driver ends.                                                            *)
(*                                                                         *)
(* The theorems about the search come from TopoOrderProofs, for the units  *)
(* of the environments.                                                    *)
(***************************************************************************)
EXTENDS Extract, SetLemmas

P == INSTANCE TopoOrderProofs
       WITH Unit <- AnyUnit, DepLists <- Seq(AnyUnit), RootLists <- Seq(AnyUnit)

------------------------------------------------------------------------------
(***************************************************************************)
(* Lists                                                                   *)
(***************************************************************************)
\* Keep takes the entries at the given positions and no others.
LEMMA KeepEntries ==
  ASSUME NEW S, NEW s \in Seq(S), NEW I \in SUBSET (1 .. Len(s))
  PROVE  /\ Cardinality(I) \in Nat /\ IsFiniteSet(I)
         /\ Keep(s, I) \in Seq(S)
         /\ Len(Keep(s, I)) = Cardinality(I)
         /\ \A k \in 1 .. Cardinality(I) : \E i \in I : Keep(s, I)[k] = s[i]
         /\ \A i \in I : \E k \in 1 .. Cardinality(I) : Keep(s, I)[k] = s[i]
<1> DEFINE below(i) == {m \in I : m <= i}
           D == 1 .. Cardinality(I)
           f == [i \in I |-> Cardinality(below(i))]
           c(k) == CHOOSE i \in I : Cardinality(below(i)) = k
<1>0. Len(s) \in Nat /\ \A i \in I : i \in Nat
  BY LenProperties
<1>1. IsFiniteSet(I) /\ Cardinality(I) \in Nat
  <2>1. IsFiniteSet(1 .. Len(s))
    BY <1>0, FS_Interval
  <2>2. QED
    BY <2>1, FS_Subset, FS_CardinalityType
<1>2. ASSUME NEW i \in I
      PROVE  IsFiniteSet(below(i)) /\ Cardinality(below(i)) \in D
  <2>1. IsFiniteSet(below(i)) /\ Cardinality(below(i)) <= Cardinality(I)
    BY <1>1, FS_Subset
  <2>2. i \in below(i)
    BY <1>0
  <2> HIDE DEF below
  <2>3. Cardinality(below(i)) \in Nat /\ Cardinality(below(i)) # 0
    BY <2>1, <2>2, FS_CardinalityType, FS_EmptySet
  <2>4. QED
    BY <1>1, <2>1, <2>3
<1>3. \A i, j \in I : i < j => Cardinality(below(i)) < Cardinality(below(j))
  <2> SUFFICES ASSUME NEW i \in I, NEW j \in I, i < j
               PROVE  Cardinality(below(i)) < Cardinality(below(j))
    OBVIOUS
  <2>0. j <= j /\ ~ (j <= i) /\ \A m \in I : m <= i => m <= j
    BY <1>0
  <2>1. below(i) \subseteq below(j) /\ j \in below(j) /\ j \notin below(i)
    BY <2>0
  <2>2. IsFiniteSet(below(j))
    BY <1>2
  <2> HIDE DEF below
  <2>3. below(i) # below(j)
    BY <2>1
  <2>4. /\ Cardinality(below(i)) \in Nat /\ Cardinality(below(j)) \in Nat
        /\ Cardinality(below(i)) <= Cardinality(below(j))
        /\ Cardinality(below(i)) # Cardinality(below(j))
    BY <2>1, <2>2, <2>3, FS_Subset, FS_CardinalityType
  <2>5. QED
    BY <2>4
<1>4. f \in [I -> D]
  <2> HIDE DEF below, D
  <2>1. QED
    BY <1>2
<1>5. ASSUME NEW i \in I, NEW j \in I, f[i] = f[j] PROVE i = j
  <2>1. f[i] \in Nat /\ f[j] \in Nat
    BY <1>1, <1>4
  <2>2. ~ (i < j) /\ ~ (j < i)
    <3> HIDE DEF below
    <3>1. f[i] = Cardinality(below(i)) /\ f[j] = Cardinality(below(j))
      OBVIOUS
    <3>2. Cardinality(below(i)) \in Nat /\ Cardinality(below(j)) = Cardinality(below(i))
      BY <1>5, <2>1, <3>1
    <3> HIDE DEF f
    <3>3. QED
      BY <1>3, <3>2
  <2>3. QED
    BY <1>0, <2>2
<1>6. \A k \in D : \E i \in I : f[i] = k
  <2>1. IsFiniteSet(D) /\ Cardinality(D) = Cardinality(I)
    BY <1>1, FS_Interval
  <2> HIDE DEF f, D
  <2>2. f \in Injection(I, D)
    BY <1>4, <1>5, Fun_IsInj
  <2>3. f \in Surjection(I, D)
    BY <1>1, <2>1, <2>2, FS_Injection
  <2>4. QED
    BY <2>3, Fun_SurjectionProperties
<1>7. Keep(s, I) = [k \in D |-> s[c(k)]]
  BY DEF Keep
<1>8. \A k \in D : c(k) \in I /\ f[c(k)] = k
  <2> SUFFICES ASSUME NEW k \in D PROVE c(k) \in I /\ Cardinality(below(c(k))) = k
    OBVIOUS
  <2>1. \E i \in I : Cardinality(below(i)) = k
    BY <1>6
  <2> HIDE DEF below
  <2>2. QED
    BY <2>1
<1> HIDE DEF f, D, below, c
<1>9. \A k \in D : \E i \in I : Keep(s, I)[k] = s[i]
  BY <1>7, <1>8
<1>10. ASSUME NEW i \in I PROVE \E k \in D : Keep(s, I)[k] = s[i]
  <2>1. f[i] \in D
    BY <1>4
  <2>2. c(f[i]) = i
    BY <1>5, <1>8, <2>1
  <2>3. QED
    BY <1>7, <2>1, <2>2
<1>11. Keep(s, I) \in Seq(S) /\ Len(Keep(s, I)) = Cardinality(I)
  <2>1. \A i \in I : s[i] \in S
    BY ElementOfSeq
  <2>2. Keep(s, I) \in [1 .. Cardinality(I) -> S]
    BY <1>7, <1>8, <2>1 DEF D
  <2>3. QED
    BY <1>1, <2>2
<1>12. QED
  BY <1>1, <1>9, <1>10, <1>11 DEF D

\* b lists the set M: each of its elements once, and nothing else.
Lists(b, M) ==
  /\ b \in Seq(M)
  /\ \A x \in M : \E i \in 1 .. Len(b) : b[i] = x
  /\ \A i, j \in 1 .. Len(b) : b[i] = b[j] => i = j

\* SetToSeq lists a finite set.
LEMMA ListOfSet ==
  ASSUME NEW M, IsFiniteSet(M)
  PROVE  Lists(SetToSeq(M), M)
<1> DEFINE b == SetToSeq(M)
<1>1. /\ b \in Seq(M) /\ {b[i] : i \in 1 .. Len(b)} = M
      /\ \A i, j \in 1 .. Len(b) : b[i] = b[j] => i = j
  BY SetToSeqLists
<1> HIDE DEF b
<1>2. QED
  BY <1>1 DEF Lists, b

\* The entries of two lists, one after the other.
LEMMA ConcatEntries ==
  ASSUME NEW A, NEW B, NEW a \in Seq(A), NEW b \in Seq(B)
  PROVE  /\ a \o b \in Seq(A \cup B)
         /\ Len(a) \in Nat /\ Len(b) \in Nat /\ Len(a \o b) = Len(a) + Len(b)
         /\ \A i \in 1 .. Len(a) : i \in 1 .. Len(a) + Len(b) /\ (a \o b)[i] = a[i] /\ a[i] \in A
         /\ \A i \in Len(a) + 1 .. Len(a) + Len(b) :
              /\ i - Len(a) \in 1 .. Len(b)
              /\ (a \o b)[i] = b[i - Len(a)] /\ (a \o b)[i] \in B
         /\ \A i \in 1 .. Len(b) :
              Len(a) + i \in 1 .. Len(a) + Len(b) /\ (a \o b)[Len(a) + i] = b[i] /\ b[i] \in B
<1> DEFINE c == a \o b
           m == Len(a)
           n == Len(b)
<1>1. a \in Seq(A \cup B) /\ b \in Seq(A \cup B)
  OBVIOUS
<1>2. /\ m \in Nat /\ n \in Nat
      /\ \A i \in 1 .. m : a[i] \in A
      /\ \A i \in 1 .. n : b[i] \in B
  BY <1>1, LenProperties, ElementOfSeq
<1>3. /\ c \in Seq(A \cup B) /\ Len(c) = m + n
      /\ \A i \in 1 .. m + n : c[i] = IF i <= m THEN a[i] ELSE b[i - m]
  BY <1>1, ConcatProperties
<1> HIDE DEF c, m, n
<1>4. \A i \in 1 .. m : i \in 1 .. m + n /\ c[i] = a[i]
  BY <1>2, <1>3
<1>5. ASSUME NEW i \in 1 .. n PROVE m + i \in 1 .. m + n /\ c[m + i] = b[i]
  <2>1. m + i \in 1 .. m + n /\ ~ (m + i <= m) /\ (m + i) - m = i
    BY <1>2
  <2>2. c[m + i] = b[(m + i) - m]
    BY <1>3, <2>1
  <2>3. QED
    BY <2>1, <2>2
<1>6. ASSUME NEW i \in m + 1 .. m + n
      PROVE  i - m \in 1 .. n /\ c[i] = b[i - m] /\ c[i] \in B
  <2>1. i \in 1 .. m + n /\ ~ (i <= m) /\ i - m \in 1 .. n
    BY <1>2
  <2>2. c[i] = b[i - m]
    BY <1>3, <2>1
  <2>3. QED
    BY <1>2, <2>1, <2>2
<1>7. QED
  BY <1>2, <1>3, <1>4, <1>5, <1>6 DEF c, m, n

\* What two lists of disjoint sets make, one after the other.
LEMMA ListsConcat ==
  ASSUME NEW A, NEW B, NEW a, NEW b, Lists(a, A), Lists(b, B),
         \A x \in A : x \notin B
  PROVE  Lists(a \o b, A \cup B)
<1> DEFINE c == a \o b
           m == Len(a)
           n == Len(b)
<1>1. a \in Seq(A) /\ b \in Seq(B)
  BY DEF Lists
<1>2. /\ m \in Nat /\ n \in Nat /\ c \in Seq(A \cup B) /\ Len(c) = m + n
      /\ \A i \in 1 .. m : i \in 1 .. m + n /\ c[i] = a[i] /\ a[i] \in A
      /\ \A i \in 1 .. n : m + i \in 1 .. m + n /\ c[m + i] = b[i]
  BY <1>1, ConcatEntries
<1>3. \A i \in m + 1 .. m + n : i - m \in 1 .. n /\ c[i] = b[i - m] /\ c[i] \in B
  BY <1>1, ConcatEntries
<1>4. \A x \in A : \E i \in 1 .. m : a[i] = x
  BY DEF Lists
<1>5. \A x \in B : \E i \in 1 .. n : b[i] = x
  BY DEF Lists
<1>6. /\ \A i, j \in 1 .. m : a[i] = a[j] => i = j
      /\ \A i, j \in 1 .. n : b[i] = b[j] => i = j
  BY DEF Lists
<1> HIDE DEF c, m, n
<1>7. \A i \in 1 .. m + n : i \in 1 .. m \/ i \in m + 1 .. m + n
  BY <1>2
<1>8. \A x \in A \cup B : \E i \in 1 .. m + n : c[i] = x
  <2> SUFFICES ASSUME NEW x \in A \cup B PROVE \E i \in 1 .. m + n : c[i] = x
    OBVIOUS
  <2>1. CASE x \in A
    BY <1>2, <1>4, <2>1
  <2>2. CASE x \in B
    BY <1>2, <1>5, <2>2
  <2>3. QED
    BY <2>1, <2>2
<1>9. \A i, j \in 1 .. m + n : c[i] = c[j] => i = j
  <2> SUFFICES ASSUME NEW i \in 1 .. m + n, NEW j \in 1 .. m + n, c[i] = c[j]
               PROVE  i = j
    OBVIOUS
  <2>1. CASE i \in 1 .. m /\ j \in 1 .. m
    BY <1>2, <1>6, <2>1
  <2>2. CASE i \in m + 1 .. m + n /\ j \in m + 1 .. m + n
    <3>1. i - m = j - m
      BY <1>3, <1>6, <2>2
    <3>2. QED
      BY <1>2, <2>2, <3>1
  <2>3. CASE i \in 1 .. m /\ j \in m + 1 .. m + n
    <3>1. c[i] \in A /\ c[j] \in B
      BY <1>2, <1>3, <2>3
    <3>2. QED
      BY <3>1
  <2>4. CASE i \in m + 1 .. m + n /\ j \in 1 .. m
    <3>1. c[j] \in A /\ c[i] \in B
      BY <1>2, <1>3, <2>4
    <3>2. QED
      BY <3>1
  <2>5. QED
    BY <1>7, <2>1, <2>2, <2>3, <2>4
<1>10. QED
  BY <1>2, <1>8, <1>9 DEF Lists, c

------------------------------------------------------------------------------
(***************************************************************************)
(* Units and the graph that is searched                                    *)
(***************************************************************************)
\* The request is one of those considered, and the search got its units.
Asking == env \in Envs /\ selected \in Selections
Graph ==
  /\ Asking
  /\ unitDeps = [u \in AnyUnit |-> IF u \in Units THEN SetToSeq(DepUnits(u)) ELSE <<>>]
  /\ roots = Roots

\* A step that leaves the request alone leaves alone all that is read off it.
LEMMA RequestFrame ==
  ASSUME UNCHANGED request
  PROVE  /\ env' = env /\ selected' = selected /\ Metas' = Metas /\ Units' = Units
         /\ Asked' = Asked /\ Roots' = Roots
         /\ \A n : UnitOf(n)' = UnitOf(n) /\ DepsOf(n)' = DepsOf(n)
         /\ \A u : Members(u)' = Members(u) /\ DepUnits(u)' = DepUnits(u)
         /\ \A u, k : OfKind(u, k)' = OfKind(u, k)
         /\ \A n : Members(UnitOf(n))' = Members(UnitOf(n))
<1>1. env' = env /\ selected' = selected
  BY DEF request
<1>2. Metas' = Metas
  BY <1>1 DEF Metas
<1>3. \A n : UnitOf(n)' = UnitOf(n)
  BY <1>1 DEF UnitOf
<1>4. \A n : DepsOf(n)' = DepsOf(n)
  BY <1>1 DEF DepsOf
<1>5. Units' = Units /\ \A u : Members(u)' = Members(u)
  BY <1>2, <1>3 DEF Units, Members
<1>6. \A u, k : OfKind(u, k)' = OfKind(u, k)
  BY <1>1, <1>5 DEF OfKind
<1>7. \A u : DepUnits(u)' = DepUnits(u)
  BY <1>2, <1>3, <1>4, <1>5 DEF DepUnits
<1>8. Asked' = Asked
  BY <1>1, <1>2 DEF Asked
<1>9. \A s : KnownOf(s)' = KnownOf(s)
  BY <1>2 DEF KnownOf
<1>10. Roots' = Roots
  <2>1. \A s : UnitsOf(s)' = UnitsOf(s)
    BY <1>3 DEF UnitsOf
  <2>2. QED
    BY <1>1, <1>5, <1>9, <2>1 DEF Roots
<1>11. \A n : Members(UnitOf(n))' = Members(UnitOf(n))
  BY <1>1, <1>2 DEF Members, UnitOf
<1>12. QED
  BY <1>1, <1>2, <1>3, <1>4, <1>5, <1>6, <1>7, <1>8, <1>10, <1>11

\* What a unit is made of.  Only the constants of a mutual block share a unit.
LEMMA UnitFacts ==
  ASSUME Asking
  PROVE  /\ IsFiniteSet(Metas) /\ IsFiniteSet(Units) /\ Units \subseteq AnyUnit
         /\ \A n \in Metas : env[n].kind \in Kinds /\ UnitOf(n) \in Units
         /\ \A n \in Metas : UnitOf(n).is_block <=> env[n].kind \in {"induct", "ctor", "rec"}
         /\ \A n \in Metas : ~ UnitOf(n).is_block => Members(UnitOf(n)) = {n}
         /\ \A u : /\ IsFiniteSet(Members(u)) /\ Members(u) \subseteq Metas
                   /\ IsFiniteSet(DepUnits(u)) /\ DepUnits(u) \subseteq Units /\ u \notin DepUnits(u)
         /\ \A u, k : IsFiniteSet(OfKind(u, k))
<1>1. IsFiniteSet(Metas) /\ Metas \subseteq DOMAIN env
  <2>1. IsFiniteSet(DOMAIN env) /\ Metas \subseteq DOMAIN env
    BY EnvAssumption DEF Asking, Metas, MetasIn
  <2>2. QED
    BY <2>1, FS_Subset
<1>2. \A n \in Metas : UnitOf(n) \in Units
  BY DEF Units
<1>3. IsFiniteSet(Units)
  <2> DEFINE f == [n \in Metas |-> UnitOf(n)]
  <2>1. f \in Surjection(Metas, Units)
    <3>1. f \in [Metas -> Units] /\ \A u \in Units : \E n \in Metas : f[n] = u
      BY DEF Units
    <3> HIDE DEF f
    <3>2. QED
      BY <3>1, Fun_IsSurj
  <2> HIDE DEF f
  <2>2. QED
    BY <1>1, <2>1, FS_Surjection
<1>4. Units \subseteq AnyUnit
  BY DEF Units, AnyUnit, Asking, UnitOf, Metas
<1>5. \A n \in Metas : env[n].kind \in Kinds
  BY <1>1, EnvAssumption DEF Asking
<1>6. \A n \in Metas : UnitOf(n).is_block <=> env[n].kind \in {"induct", "ctor", "rec"}
  BY <1>5 DEF UnitOf, UnitIn, Block, Singleton, Kinds
<1>7. \A n \in Metas : ~ UnitOf(n).is_block => UnitOf(n) = Singleton(n)
  BY <1>5, <1>6 DEF UnitOf, UnitIn, Kinds
<1>8. ASSUME NEW n \in Metas, ~ UnitOf(n).is_block PROVE Members(UnitOf(n)) = {n}
  <2>1. ASSUME NEW m \in Metas, UnitOf(m) = UnitOf(n) PROVE m = n
    <3>1. Singleton(m) = Singleton(n)
      BY <1>7, <1>8, <2>1
    <3>2. Singleton(m).key = {m} /\ Singleton(n).key = {n}
      BY DEF Singleton
    <3>3. QED
      BY <3>1, <3>2
  <2>2. QED
    BY <2>1 DEF Members
<1>9. \A u : IsFiniteSet(Members(u)) /\ Members(u) \subseteq Metas
  <2>1. \A u : Members(u) \in SUBSET Metas
    BY DEF Members
  <2>2. QED
    BY <1>1, <2>1, FS_Subset
<1>10. \A u : IsFiniteSet(DepUnits(u)) /\ DepUnits(u) \subseteq Units /\ u \notin DepUnits(u)
  <2>1. \A u : DepUnits(u) \in SUBSET Units /\ u \notin DepUnits(u)
    <3> SUFFICES ASSUME NEW u PROVE DepUnits(u) \in SUBSET Units /\ u \notin DepUnits(u)
      OBVIOUS
    <3> DEFINE D == UNION {DepsOf(n) : n \in Members(u)}
    <3>1. DepUnits(u) = {UnitOf(d) : d \in Metas \cap D} \ {u}
      BY DEF DepUnits
    <3> HIDE DEF D
    <3>2. QED
      BY <3>1 DEF Units
  <2>2. QED
    BY <1>3, <2>1, FS_Subset
<1>11. \A u, k : IsFiniteSet(OfKind(u, k))
  <2>1. \A u, k : OfKind(u, k) \in SUBSET Members(u)
    BY DEF OfKind
  <2>2. QED
    BY <1>9, <2>1, FS_Subset
<1>12. QED
  BY <1>1, <1>2, <1>3, <1>4, <1>5, <1>6, <1>8, <1>9, <1>10, <1>11
\* The roots of the search are the units of the constants asked for.
LEMMA RootsAreAsked ==
  ASSUME Graph
  PROVE  /\ roots \in Seq(AnyUnit)
         /\ P!RangeOf(roots) = {UnitOf(n) : n \in Asked}
         /\ Asked \subseteq Metas
<1>1. Asked \subseteq Metas
  BY DEF Asked
<1>2. Units \subseteq AnyUnit /\ IsFiniteSet(Units)
  BY UnitFacts DEF Graph
<1>3. CASE selected = <<>>
  <2>1. roots = SetToSeq(Units) /\ Asked = Metas
    BY <1>3 DEF Graph, Roots, Asked
  <2>2. roots \in Seq(Units) /\ {roots[i] : i \in 1 .. Len(roots)} = Units
    BY <1>2, <2>1, SetToSeqLists
  <2>3. roots \in Seq(AnyUnit)
    BY <1>2, <2>2
  <2>4. QED
    BY <1>1, <2>1, <2>2, <2>3 DEF P!RangeOf, Units
<1>4. CASE selected # <<>>
  <2> DEFINE known == KnownOf(selected)
             I == {i \in 1 .. Len(selected) : selected[i] \in Metas}
  <2>1. selected \in Seq(Name) /\ Len(selected) \in Nat /\ DOMAIN selected = 1 .. Len(selected)
    BY SelectionAssumption, LenProperties DEF Graph, Asking
  <2>2. I \in SUBSET (1 .. Len(selected)) /\ known = Keep(selected, I)
    BY DEF KnownOf
  <2> HIDE DEF known
  <2>3. /\ known \in Seq(Name) /\ Len(known) \in Nat
        /\ \A k \in 1 .. Len(known) : \E i \in I : known[k] = selected[i]
        /\ \A i \in I : \E k \in 1 .. Len(known) : known[k] = selected[i]
    <3> HIDE DEF I
    <3>1. /\ Cardinality(I) \in Nat
          /\ Keep(selected, I) \in Seq(Name)
          /\ Len(Keep(selected, I)) = Cardinality(I)
          /\ \A k \in 1 .. Cardinality(I) : \E i \in I : Keep(selected, I)[k] = selected[i]
          /\ \A i \in I : \E k \in 1 .. Cardinality(I) : Keep(selected, I)[k] = selected[i]
      BY <2>1, <2>2, KeepEntries
    <3>2. QED
      BY <2>2, <3>1
  <2>4. {known[k] : k \in 1 .. Len(known)} = Asked
    <3>1. Asked = {selected[i] : i \in I}
      BY <1>4, <2>1 DEF Asked, ToSet
    <3> HIDE DEF I
    <3>2. \A k \in 1 .. Len(known) : known[k] \in Asked
      BY <2>3, <3>1
    <3>3. \A n \in Asked : \E k \in 1 .. Len(known) : known[k] = n
      BY <2>3, <3>1
    <3>4. QED
      BY <3>2, <3>3
  <2>5. roots = [k \in 1 .. Len(known) |-> UnitOf(known[k])]
    BY <1>4 DEF Graph, Roots, UnitsOf, known
  <2>6. \A k \in 1 .. Len(known) : UnitOf(known[k]) \in AnyUnit
    BY <1>1, <1>2, <2>4 DEF Units
  <2>7. roots \in Seq(AnyUnit) /\ Len(roots) = Len(known)
    <3>1. roots \in [1 .. Len(known) -> AnyUnit]
      BY <2>5, <2>6
    <3>2. QED
      BY <2>3, <3>1, FunIsSeq
  <2>8. P!RangeOf(roots) = {UnitOf(n) : n \in Asked}
    <3>1. P!RangeOf(roots) = {UnitOf(known[k]) : k \in 1 .. Len(known)}
      BY <2>5, <2>7 DEF P!RangeOf
    <3>2. QED
      BY <2>4, <3>1
  <2>9. QED
    BY <1>1, <2>7, <2>8
<1>5. QED
  BY <1>3, <1>4

\* The edges of the search are the dependencies between units.
LEMMA EdgesAreDeps ==
  ASSUME Graph, NEW u \in AnyUnit
  PROVE  /\ unitDeps[u] \in Seq(AnyUnit) /\ P!IsDepList(u, unitDeps[u])
         /\ P!Deps[u] = IF u \in Units THEN DepUnits(u) ELSE {}
<1>1. unitDeps[u] = IF u \in Units THEN SetToSeq(DepUnits(u)) ELSE <<>>
  BY DEF Graph
<1>2. P!Deps[u] = {unitDeps[u][i] : i \in 1 .. Len(unitDeps[u])}
  BY DEF P!Deps, P!RangeOf
<1>3. CASE u \in Units
  <2> DEFINE d == SetToSeq(DepUnits(u))
  <2>1. unitDeps[u] = d
    BY <1>1, <1>3
  <2>2. /\ IsFiniteSet(DepUnits(u)) /\ u \notin DepUnits(u)
        /\ DepUnits(u) \subseteq AnyUnit
    BY UnitFacts DEF Graph
  <2>3. /\ d \in Seq(DepUnits(u)) /\ {d[i] : i \in 1 .. Len(d)} = DepUnits(u)
        /\ \A i, j \in 1 .. Len(d) : d[i] = d[j] => i = j
    BY <2>2, SetToSeqLists
  <2> HIDE DEF d
  <2>4. d \in Seq(AnyUnit) /\ \A i \in 1 .. Len(d) : d[i] # u
    BY <2>2, <2>3
  <2>5. P!IsDepList(u, d)
    BY <2>3, <2>4 DEF P!IsDepList
  <2>6. P!Deps[u] = DepUnits(u)
    BY <1>2, <2>1, <2>3
  <2>7. QED
    BY <1>3, <2>1, <2>4, <2>5, <2>6
<1>4. CASE u \notin Units
  <2>1. unitDeps[u] = <<>>
    BY <1>1, <1>4
  <2>2. QED
    BY <1>2, <1>4, <2>1 DEF P!IsDepList
<1>5. QED
  BY <1>3, <1>4

\* The search starts as TopoOrder says, ...
LEMMA SearchStarts ==
  ASSUME Graph, Dfs!Start
  PROVE  P!Init /\ P!Inv
<1>1. unitDeps \in [AnyUnit -> Seq(AnyUnit)]
  <2>1. \A u \in AnyUnit : unitDeps[u] \in Seq(AnyUnit)
    BY EdgesAreDeps
  <2>2. unitDeps = [u \in AnyUnit |-> unitDeps[u]]
    BY DEF Graph
  <2>3. QED
    BY <2>1, <2>2
<1>2. \A u \in AnyUnit : P!IsDepList(u, unitDeps[u])
  BY EdgesAreDeps
<1>3. roots \in Seq(AnyUnit)
  BY RootsAreAsked
<1>4. P!Start
  BY DEF Dfs!Start, P!Start
<1>5. P!Init
  BY <1>1, <1>2, <1>3, <1>4 DEF P!Init
<1>6. QED
  BY <1>5, P!InitInv

\* The search of Extract is the search that TopoOrderProofs is about.
LEMMA SameSearch == Dfs!Next => P!Next
BY DEF Dfs!Next, Dfs!SkipRoot, Dfs!StartRoot, Dfs!SkipChild, Dfs!Descend, Dfs!Leave,
       Dfs!HasChild, Dfs!Child, Dfs!Advanced, Dfs!Top, Dfs!Pop, Dfs!graph,
       P!Next, P!SkipRoot, P!StartRoot, P!SkipChild, P!Descend, P!Leave,
       P!HasChild, P!Child, P!Advanced, P!Top, P!Pop, P!graph

\* ... and goes on so.
LEMMA SearchSteps ==
  ASSUME P!Inv, Dfs!Next \/ UNCHANGED search
  PROVE  [P!Next]_P!vars /\ P!Inv'
<1>1. Dfs!Next => P!Next
  BY SameSearch
<1>2. ASSUME UNCHANGED search PROVE UNCHANGED P!vars
  BY <1>2 DEF search, P!vars
<1>3. QED
  BY <1>1, <1>2, P!StepKeepsInv

\* The order holds units of the environment, each once.
LEMMA OrderFacts ==
  ASSUME Graph, P!Inv
  PROVE  /\ order \in Seq(AnyUnit) /\ Len(order) \in Nat
         /\ \A k \in 1 .. Len(order) : order[k] \in Units /\ order[k] \in AnyUnit
         /\ \A k, l \in 1 .. Len(order) : order[k] = order[l] => k = l
<1>1. order \in Seq(AnyUnit)
  BY DEF P!Inv, P!TypeOK
<1>2. Len(order) \in Nat /\ \A k \in 1 .. Len(order) : order[k] \in AnyUnit
  BY <1>1, LenProperties, ElementOfSeq
<1>3. ASSUME NEW k \in 1 .. Len(order) PROVE order[k] \in Units
  <2>1. state[order[k]] = 2
    BY <1>2 DEF P!Inv, P!StateTellsPlace, P!RangeOf
  <2>2. P!Sched!Needs(P!RangeOf(roots), order[k])
    BY <1>2, <2>1 DEF P!Inv, P!Wanted
  <2>3. Units \in SUBSET AnyUnit /\ P!RangeOf(roots) \subseteq Units
    BY RootsAreAsked, UnitFacts DEF Graph, Units
  <2>4. P!Sched!Closed(Units)
    <3>1. \A u \in Units : P!Deps[u] \subseteq Units
      BY <2>3, EdgesAreDeps, UnitFacts DEF Graph
    <3>2. QED
      BY <3>1 DEF P!Sched!Closed
  <2>5. QED
    BY <2>2, <2>3, <2>4 DEF P!Sched!Needs
<1>4. \A k, l \in 1 .. Len(order) : order[k] = order[l] => k = l
  BY DEF P!Inv, P!StateTellsPlace
<1>5. QED
  BY <1>1, <1>2, <1>3, <1>4
------------------------------------------------------------------------------
(***************************************************************************)
(* The invariant of the driver                                             *)
(***************************************************************************)
\* The phases follow each other, and the units are submitted in order.
Progress ==
  /\ phase \in {"order", "emit", "check", "report"}
  /\ phase # "order" => P!Done
  /\ emitted \in 0 .. Len(order)
  /\ phase = "order" => emitted = 0
  /\ Submitted => emitted = Len(order)

\* The table holds the members of the units submitted so far, each once, and
\* in the order of their units.
Table ==
  /\ declars \in Seq(Metas)
  /\ \A i, j \in 1 .. Len(declars) : declars[i] = declars[j] => i = j
  /\ \A i \in 1 .. Len(declars) : \E k \in 1 .. emitted : order[k] = UnitOf(declars[i])
  /\ \A k \in 1 .. emitted : \A n \in Members(order[k]) :
       \E i \in 1 .. Len(declars) : declars[i] = n
  /\ \A i, j \in 1 .. Len(declars) : \A k, l \in 1 .. emitted :
       i < j /\ order[k] = UnitOf(declars[i]) /\ order[l] = UnitOf(declars[j]) => k <= l

\* Blocks lie where mutual_block_sizes says, inside the table.
BlockOf(n) == mutual_block_sizes[n][1] + 1 .. mutual_block_sizes[n][1] + mutual_block_sizes[n][2]
Placed ==
  /\ BlocksInPlace
  /\ \A n \in DOMAIN mutual_block_sizes :
       /\ mutual_block_sizes[n][1] \in Nat /\ mutual_block_sizes[n][2] \in Nat
       /\ mutual_block_sizes[n][1] + mutual_block_sizes[n][2] <= Len(declars)

\* An outcome is what the check of the declaration gives, and the report names
\* the declarations that failed.
Outcomes ==
  Submitted =>
    /\ outcome \in [1 .. Len(declars) -> {"todo", "passed", "failed"}]
    /\ \A i \in 1 .. Len(declars) : /\ outcome[i] = "passed" => check_declar(i)
                                    /\ outcome[i] = "failed" => ~ check_declar(i)
    /\ phase = "report" =>
         /\ \A i \in 1 .. Len(declars) : outcome[i] # "todo"
         /\ failures = Keep(declars, {i \in 1 .. Len(declars) : outcome[i] = "failed"})

EInv == Graph /\ P!Inv /\ Progress /\ Table /\ Placed /\ Outcomes

\* The table with a list of new members at its end.
LEMMA TableGrows ==
  ASSUME declars \in Seq(Metas), NEW M \in SUBSET Metas, NEW b, Lists(b, M), declars' = declars \o b
  PROVE  /\ b \in Seq(M) /\ Len(declars) \in Nat /\ Len(b) \in Nat
         /\ declars' \in Seq(Metas) /\ Len(declars') = Len(declars) + Len(b)
         /\ \A i \in 1 .. Len(declars) : declars'[i] = declars[i] /\ declars[i] \in Metas
         /\ \A i \in 1 .. Len(b) : declars'[Len(declars) + i] = b[i] /\ b[i] \in M
         /\ \A i \in Len(declars) + 1 .. Len(declars) + Len(b) :
              /\ i - Len(declars) \in 1 .. Len(b)
              /\ declars'[i] = b[i - Len(declars)] /\ declars'[i] \in M
         /\ Declared' = Declared \cup M
<1> DEFINE m == Len(declars)
           n == Len(b)
<1>1. b \in Seq(M) /\ Metas \cup M = Metas
  BY DEF Lists
<1>2. /\ m \in Nat /\ n \in Nat /\ declars' \in Seq(Metas) /\ Len(declars') = m + n
      /\ \A i \in 1 .. m : i \in 1 .. m + n /\ declars'[i] = declars[i] /\ declars[i] \in Metas
      /\ \A i \in 1 .. n : m + i \in 1 .. m + n /\ declars'[m + i] = b[i] /\ b[i] \in M
  BY <1>1, ConcatEntries
<1>3. \A i \in m + 1 .. m + n : i - m \in 1 .. n /\ declars'[i] = b[i - m] /\ declars'[i] \in M
  BY <1>1, ConcatEntries
<1>4. \A x \in M : \E i \in 1 .. n : b[i] = x
  BY DEF Lists
<1> HIDE DEF m, n
<1>5. Declared' = Declared \cup M
  <2>1. Declared' = {declars'[i] : i \in 1 .. m + n}
    BY <1>2 DEF Declared, Prefix
  <2>2. Declared = {declars[i] : i \in 1 .. m}
    BY DEF Declared, Prefix, m
  <2>3. \A i \in 1 .. m + n : i \in 1 .. m \/ i \in m + 1 .. m + n
    BY <1>2
  <2>4. Declared' \subseteq Declared \cup M
    <3> SUFFICES ASSUME NEW i \in 1 .. m + n PROVE declars'[i] \in Declared \cup M
      BY <2>1
    <3>1. CASE i \in 1 .. m
      BY <1>2, <2>2, <3>1
    <3>2. CASE i \in m + 1 .. m + n
      BY <1>3, <3>2
    <3>3. QED
      BY <2>3, <3>1, <3>2
  <2>5. Declared \subseteq Declared' /\ M \subseteq Declared'
    BY <1>2, <1>4, <2>1, <2>2
  <2>6. QED
    BY <2>4, <2>5
<1>6. QED
  BY <1>1, <1>2, <1>3, <1>5 DEF m, n

\* Submitting a unit adds its members.
LEMMA UnitSubmitted ==
  ASSUME EInv, UNCHANGED <<request, search>>, Submitting, emitted' = emitted + 1,
         NEW b, Lists(b, Members(Unit)), declars' = declars \o b
  PROVE  /\ Table' /\ emitted' \in 0 .. Len(order)
         /\ Unit \in Units /\ \A n \in Members(Unit) : n \notin Declared
<1> DEFINE m == Len(declars)
           e == emitted
           M == Members(Unit)
<1>1. /\ env' = env /\ order' = order /\ Metas' = Metas
      /\ \A n : UnitOf(n)' = UnitOf(n)
      /\ \A u : Members(u)' = Members(u)
  BY RequestFrame DEF search
<1>2. /\ e \in Nat /\ Len(order) \in Nat /\ e + 1 \in 1 .. Len(order) /\ Unit = order[e + 1]
      /\ \A k, l \in 1 .. Len(order) : order[k] = order[l] => k = l
      /\ Unit \in Units
  BY OrderFacts DEF EInv, Progress, Submitting, Unit
<1>3. M \in SUBSET Metas /\ \A n \in M : UnitOf(n) = order[e + 1]
  BY <1>2 DEF Members
<1> HIDE DEF M
<1>4. /\ m \in Nat /\ Len(b) \in Nat
      /\ declars' \in Seq(Metas) /\ Len(declars') = m + Len(b)
      /\ \A i \in 1 .. m : declars'[i] = declars[i] /\ declars[i] \in Metas
      /\ \A i \in 1 .. Len(b) : declars'[m + i] = b[i] /\ b[i] \in M
      /\ \A i \in m + 1 .. m + Len(b) :
           i - m \in 1 .. Len(b) /\ declars'[i] = b[i - m] /\ declars'[i] \in M
  <2>1. declars \in Seq(Metas) /\ Lists(b, M)
    BY DEF EInv, Table, M
  <2>2. /\ Len(declars) \in Nat /\ Len(b) \in Nat
        /\ declars' \in Seq(Metas) /\ Len(declars') = Len(declars) + Len(b)
        /\ \A i \in 1 .. Len(declars) : declars'[i] = declars[i] /\ declars[i] \in Metas
        /\ \A i \in 1 .. Len(b) : declars'[Len(declars) + i] = b[i] /\ b[i] \in M
        /\ \A i \in Len(declars) + 1 .. Len(declars) + Len(b) :
             /\ i - Len(declars) \in 1 .. Len(b)
             /\ declars'[i] = b[i - Len(declars)] /\ declars'[i] \in M
    BY <1>3, <2>1, TableGrows
  <2>3. QED
    BY <2>2
<1>5. \A i, j \in 1 .. Len(b) : b[i] = b[j] => i = j
  BY DEF Lists
<1>6. \A n \in M : \E i \in 1 .. Len(b) : b[i] = n
  BY DEF Lists, M
<1> HIDE DEF m, e
<1>7. ASSUME NEW i \in 1 .. m
      PROVE  /\ \E k \in 1 .. e : order[k] = UnitOf(declars[i])
             /\ \A k \in 1 .. Len(order) : order[k] = UnitOf(declars[i]) => k \in 1 .. e
             /\ declars[i] \notin M
  <2>1. PICK k \in 1 .. e : order[k] = UnitOf(declars[i])
    BY DEF EInv, Table, m, e
  <2>2. k \in 1 .. Len(order) /\ k # e + 1
    BY <1>2, <2>1
  <2>3. \A l \in 1 .. Len(order) : order[l] = UnitOf(declars[i]) => l = k
    BY <1>2, <2>1, <2>2
  <2>4. declars[i] \notin M
    BY <1>2, <1>3, <2>2, <2>3
  <2>5. QED
    BY <2>1, <2>3, <2>4
<1>8. \A i \in 1 .. m + Len(b) : i \in 1 .. m \/ i \in m + 1 .. m + Len(b)
  BY <1>4
<1>9. \A i, j \in 1 .. m + Len(b) : declars'[i] = declars'[j] => i = j
  <2> SUFFICES ASSUME NEW i \in 1 .. m + Len(b), NEW j \in 1 .. m + Len(b),
                      declars'[i] = declars'[j]
               PROVE  i = j
    OBVIOUS
  <2>0. declars'[i] = declars'[j]
    OBVIOUS
  <2>1. CASE i \in 1 .. m /\ j \in 1 .. m
    BY <1>4, <2>1 DEF EInv, Table, m
  <2>2. CASE i \in m + 1 .. m + Len(b) /\ j \in m + 1 .. m + Len(b)
    <3>1. i - m \in 1 .. Len(b) /\ declars'[i] = b[i - m]
      BY <1>4, <2>2
    <3>2. j - m \in 1 .. Len(b) /\ declars'[j] = b[j - m]
      BY <1>4, <2>2
    <3>3. b[i - m] = b[j - m]
      BY <2>0, <3>1, <3>2
    <3>4. i - m = j - m
      BY <1>5, <3>1, <3>2, <3>3
    <3>5. QED
      BY <1>4, <3>4
  <2>3. CASE i \in 1 .. m /\ j \in m + 1 .. m + Len(b)
    BY <1>4, <1>7, <2>3
  <2>4. CASE i \in m + 1 .. m + Len(b) /\ j \in 1 .. m
    BY <1>4, <1>7, <2>4
  <2>5. QED
    BY <1>8, <2>1, <2>2, <2>3, <2>4
<1>10. \A i \in m + 1 .. m + Len(b) : UnitOf(declars'[i]) = order[e + 1]
  BY <1>3, <1>4
<1>11. \A i \in 1 .. m + Len(b) : \E k \in 1 .. e + 1 : order[k] = UnitOf(declars'[i])
  <2> SUFFICES ASSUME NEW i \in 1 .. m + Len(b)
               PROVE  \E k \in 1 .. e + 1 : order[k] = UnitOf(declars'[i])
    OBVIOUS
  <2>1. CASE i \in 1 .. m
    <3>1. PICK k \in 1 .. e : order[k] = UnitOf(declars[i])
      BY <1>7, <2>1
    <3>2. k \in 1 .. e + 1
      BY <1>2
    <3>3. QED
      BY <1>4, <2>1, <3>1, <3>2
  <2>2. CASE i \in m + 1 .. m + Len(b)
    <3>1. e + 1 \in 1 .. e + 1
      BY <1>2
    <3>2. QED
      BY <1>10, <2>2, <3>1
  <2>3. QED
    BY <1>8, <2>1, <2>2
<1>12. \A k \in 1 .. e + 1 : \A n \in Members(order[k]) :
         \E i \in 1 .. m + Len(b) : declars'[i] = n
  <2> SUFFICES ASSUME NEW k \in 1 .. e + 1, NEW n \in Members(order[k])
               PROVE  \E i \in 1 .. m + Len(b) : declars'[i] = n
    OBVIOUS
  <2>1. CASE k \in 1 .. e
    <3>1. PICK i \in 1 .. m : declars[i] = n
      BY <2>1 DEF EInv, Table, m, e
    <3>2. i \in 1 .. m + Len(b)
      BY <1>4
    <3>3. QED
      BY <1>4, <3>1, <3>2
  <2>2. CASE k = e + 1
    <3>1. PICK i \in 1 .. Len(b) : b[i] = n
      BY <1>2, <1>6, <2>2 DEF M
    <3>2. m + i \in 1 .. m + Len(b)
      BY <1>4
    <3>3. QED
      BY <1>4, <3>1, <3>2
  <2>3. k \in 1 .. e \/ k = e + 1
    <3>1. \A x \in Nat : \A y \in 1 .. x + 1 : y \in 1 .. x \/ y = x + 1
      OBVIOUS
    <3>2. QED
      BY <1>2, <3>1
  <2>4. QED
    BY <2>1, <2>2, <2>3
<1>13. \A i, j \in 1 .. m + Len(b) : \A k, l \in 1 .. e + 1 :
         i < j /\ order[k] = UnitOf(declars'[i]) /\ order[l] = UnitOf(declars'[j]) => k <= l
  <2> SUFFICES ASSUME NEW i \in 1 .. m + Len(b), NEW j \in 1 .. m + Len(b),
                      NEW k \in 1 .. e + 1, NEW l \in 1 .. e + 1, i < j,
                      order[k] = UnitOf(declars'[i]), order[l] = UnitOf(declars'[j])
               PROVE  k <= l
    OBVIOUS
  <2>1. k \in 1 .. Len(order) /\ l \in 1 .. Len(order)
    <3>1. e \in Nat /\ Len(order) \in Nat /\ e + 1 <= Len(order)
      BY <1>2
    <3>2. QED
      BY <3>1
  <2>2. CASE i \in 1 .. m /\ j \in 1 .. m
    <3>1. declars'[i] = declars[i] /\ declars'[j] = declars[j]
      BY <1>4, <2>2
    <3>2. order[k] = UnitOf(declars[i]) /\ order[l] = UnitOf(declars[j])
      BY <3>1
    <3>3. k \in 1 .. e /\ l \in 1 .. e
      BY <1>7, <2>1, <2>2, <3>2
    <3>4. QED
      BY <2>2, <3>2, <3>3 DEF EInv, Table, m, e
  <2>3. CASE j \in m + 1 .. m + Len(b)
    <3>1. l = e + 1
      BY <1>2, <1>10, <2>1, <2>3
    <3>2. QED
      BY <1>2, <3>1
  <2>4. i \in 1 .. m \/ j \in m + 1 .. m + Len(b)
    BY <1>4, <1>8
  <2>5. QED
    BY <1>4, <1>8, <2>2, <2>3, <2>4
<1>14. Table'
  <2>1. emitted' = e + 1 /\ Len(declars') = m + Len(b) /\ order' = order
    BY <1>1, <1>4 DEF e
  <2>2. declars' \in Seq(Metas')
    BY <1>1, <1>4
  <2>3. \A i, j \in 1 .. Len(declars') : declars'[i] = declars'[j] => i = j
    BY <1>9, <2>1
  <2>4. \A i \in 1 .. Len(declars') : \E k \in 1 .. emitted' :
          order'[k] = (UnitOf(declars[i]))'
    BY <1>1, <1>11, <2>1 DEF UnitOf
  <2>5. \A k \in 1 .. emitted' : \A n \in (Members(order[k]))' :
          \E i \in 1 .. Len(declars') : declars'[i] = n
    BY <1>1, <1>12, <2>1 DEF Members, UnitOf
  <2>6. \A i, j \in 1 .. Len(declars') : \A k, l \in 1 .. emitted' :
          /\ i < j /\ order'[k] = (UnitOf(declars[i]))' /\ order'[l] = (UnitOf(declars[j]))'
          => k <= l
    BY <1>1, <1>13, <2>1 DEF UnitOf
  <2>7. QED
    BY <2>2, <2>3, <2>4, <2>5, <2>6 DEF Table
<1>15. emitted' \in 0 .. Len(order)
  BY <1>2 DEF e
<1>16. \A n \in M : n \notin Declared
  BY <1>7 DEF Declared, Prefix, m
<1>17. QED
  BY <1>2, <1>14, <1>15, <1>16 DEF M

\* What a step that leaves the request and the table alone leaves alone.
LEMMA TableFrame ==
  ASSUME UNCHANGED <<request, declars>>
  PROVE  /\ Declared' = Declared
         /\ \A k : Prefix(k)' = Prefix(k)
         /\ UNCHANGED <<order, emitted>> /\ Table => Table'
         /\ UNCHANGED mutual_block_sizes => \A i : check_declar(i)' <=> check_declar(i)
         /\ UNCHANGED mutual_block_sizes /\ Placed => Placed'
<1>1. /\ env' = env /\ Metas' = Metas /\ \A n : UnitOf(n)' = UnitOf(n)
      /\ \A u : Members(u)' = Members(u) /\ \A n : DepsOf(n)' = DepsOf(n)
  BY RequestFrame
<1>2. Declared' = Declared /\ \A k : Prefix(k)' = Prefix(k)
  BY DEF Declared, Prefix
<1>3. UNCHANGED <<order, emitted>> /\ Table => Table'
  BY <1>1 DEF Table, UnitOf, Members
<1>4. UNCHANGED mutual_block_sizes => \A i : check_declar(i)' <=> check_declar(i)
  <2> SUFFICES ASSUME UNCHANGED mutual_block_sizes, NEW i
               PROVE  check_declar(i)' <=> check_declar(i)
    OBVIOUS
  <2>1. Interned' = Interned
    BY <1>1, <1>2 DEF Interned
  <2>2. /\ UsesVisible(i)' = UsesVisible(i)
        /\ QuotReady(i)' = QuotReady(i)
        /\ check_inductive_declar(i)' = check_inductive_declar(i)
    BY <1>1, <1>2, <2>1 DEF UsesVisible, QuotReady, check_inductive_declar
  <2>3. env' = env /\ declars' = declars /\ Declared' = Declared
    BY <1>1, <1>2
  <2>4. QED
    BY <2>2, <2>3 DEF check_declar
<1>5. UNCHANGED mutual_block_sizes /\ Placed => Placed'
  BY <1>1, <1>2 DEF Placed, BlocksInPlace
<1>6. QED
  BY <1>2, <1>3, <1>4, <1>5

\* What a step of the search or of a later phase leaves alone.
LEMMA GraphFrame ==
  ASSUME Graph, UNCHANGED <<request, unitDeps, roots>>
  PROVE  Graph'
<1>1. /\ env' = env /\ selected' = selected /\ Units' = Units /\ Roots' = Roots
      /\ \A u : DepUnits(u)' = DepUnits(u)
  BY RequestFrame
<1>2. Asking'
  BY <1>1 DEF Graph, Asking
<1>3. unitDeps' = [u \in AnyUnit |-> IF u \in Units' THEN SetToSeq(DepUnits(u)') ELSE <<>>]
  BY <1>1 DEF Graph
<1>4. QED
  BY <1>1, <1>2, <1>3 DEF Graph

\* BlocksInPlace, said with BlockOf.
InPlace(n) ==
  /\ {declars[i] : i \in BlockOf(n)} = Members(UnitOf(n))
  /\ \A i, j \in BlockOf(n) : i < j => Rank[env[declars[i]].kind] <= Rank[env[declars[j]].kind]
AllInPlace ==
  /\ DOMAIN mutual_block_sizes = {n \in Declared : env[n].kind = "induct"}
  /\ \A n \in DOMAIN mutual_block_sizes : InPlace(n)

LEMMA InPlaceForm == BlocksInPlace <=> AllInPlace
BY DEF BlocksInPlace, AllInPlace, InPlace, BlockOf

\* The blocks that are in place stay in place when the table grows.
LEMMA BlocksStay ==
  ASSUME Placed, Table, UNCHANGED request,
         NEW M \in SUBSET Metas, NEW b, Lists(b, M), declars' = declars \o b
  PROVE  \A n \in DOMAIN mutual_block_sizes :
           /\ mutual_block_sizes[n][1] + mutual_block_sizes[n][2] <= Len(declars')
           /\ {declars'[i] : i \in BlockOf(n)} = Members(UnitOf(n))
           /\ \A i, j \in BlockOf(n) :
                i < j => Rank[env[declars'[i]].kind] <= Rank[env[declars'[j]].kind]
<1> SUFFICES ASSUME NEW n \in DOMAIN mutual_block_sizes
             PROVE  /\ mutual_block_sizes[n][1] + mutual_block_sizes[n][2] <= Len(declars')
                    /\ {declars'[i] : i \in BlockOf(n)} = Members(UnitOf(n))
                    /\ \A i, j \in BlockOf(n) :
                         i < j => Rank[env[declars'[i]].kind] <= Rank[env[declars'[j]].kind]
  OBVIOUS
<1>1. /\ Len(declars) \in Nat /\ Len(b) \in Nat /\ Len(declars') = Len(declars) + Len(b)
      /\ \A i \in 1 .. Len(declars) : declars'[i] = declars[i]
  BY TableGrows DEF Table
<1>2. /\ mutual_block_sizes[n][1] \in Nat /\ mutual_block_sizes[n][2] \in Nat
      /\ mutual_block_sizes[n][1] + mutual_block_sizes[n][2] <= Len(declars)
  BY DEF Placed
<1>3. /\ {declars[i] : i \in BlockOf(n)} = Members(UnitOf(n))
      /\ \A i, j \in BlockOf(n) :
           i < j => Rank[env[declars[i]].kind] <= Rank[env[declars[j]].kind]
  BY DEF Placed, BlocksInPlace, BlockOf
<1>4. \A i \in BlockOf(n) : i \in 1 .. Len(declars)
  BY <1>1, <1>2 DEF BlockOf
<1>5. \A i \in BlockOf(n) : declars'[i] = declars[i]
  BY <1>1, <1>4
<1>6. mutual_block_sizes[n][1] + mutual_block_sizes[n][2] <= Len(declars')
  BY <1>1, <1>2
<1>7. {declars'[i] : i \in BlockOf(n)} = {declars[i] : i \in BlockOf(n)}
  BY <1>5
<1>8. QED
  BY <1>3, <1>5, <1>6, <1>7

\* The list that emit_block submits: the members of the block, types first and
\* recursors last.
BlockList(u) ==
  SetToSeq(OfKind(u, "induct")) \o SetToSeq(OfKind(u, "ctor")) \o SetToSeq(OfKind(u, "rec"))

LEMMA BlockIsListed ==
  ASSUME Asking, NEW u \in Units, u.is_block
  PROVE  /\ Lists(BlockList(u), Members(u))
         /\ Len(BlockList(u)) \in Nat
         /\ \A i, j \in 1 .. Len(BlockList(u)) :
              i < j => Rank[env[BlockList(u)[i]].kind] <= Rank[env[BlockList(u)[j]].kind]
<1> DEFINE I == OfKind(u, "induct")
           C == OfKind(u, "ctor")
           R == OfKind(u, "rec")
           a == SetToSeq(I)
           c == SetToSeq(C)
           r == SetToSeq(R)
           ac == a \o c
           b == ac \o r
<1>1. Lists(a, I) /\ Lists(c, C) /\ Lists(r, R)
  BY UnitFacts, ListOfSet
<1>2. /\ \A n \in I : env[n].kind = "induct"
      /\ \A n \in C : env[n].kind = "ctor"
      /\ \A n \in R : env[n].kind = "rec"
  BY DEF OfKind
<1>3. I \cup C \cup R = Members(u)
  <2>1. \A n \in Members(u) : env[n].kind \in {"induct", "ctor", "rec"}
    BY UnitFacts DEF Members
  <2>2. QED
    BY <2>1 DEF OfKind
<1>4. b = BlockList(u)
  BY DEF BlockList
<1> HIDE DEF I, C, R, a, c, r
<1>5. \A x \in I : x \notin C
  BY <1>2
<1>6. /\ Lists(ac, I \cup C)
      /\ Len(a) \in Nat /\ Len(c) \in Nat /\ Len(ac) = Len(a) + Len(c)
      /\ \A i \in 1 .. Len(a) : ac[i] \in I
      /\ \A i \in Len(a) + 1 .. Len(a) + Len(c) : ac[i] \in C
  <2>1. Lists(a, I) /\ Lists(c, C)
    BY <1>1
  <2>2. Lists(ac, I \cup C)
    BY <1>5, <2>1, ListsConcat
  <2>3. a \in Seq(I) /\ c \in Seq(C)
    BY <2>1 DEF Lists
  <2>4. Len(a) \in Nat /\ Len(c) \in Nat /\ Len(ac) = Len(a) + Len(c)
    BY <2>3, ConcatEntries
  <2>5. ASSUME NEW i \in 1 .. Len(a) PROVE ac[i] \in I
    BY <2>3, ConcatEntries
  <2>6. ASSUME NEW i \in Len(a) + 1 .. Len(a) + Len(c) PROVE ac[i] \in C
    BY <2>3, ConcatEntries
  <2>7. QED
    BY <2>2, <2>4, <2>5, <2>6
<1> HIDE DEF ac
<1>7. /\ Lists(b, I \cup C \cup R)
      /\ Len(ac) \in Nat /\ Len(r) \in Nat /\ Len(b) = Len(ac) + Len(r)
      /\ \A i \in 1 .. Len(ac) : b[i] = ac[i]
      /\ \A i \in Len(ac) + 1 .. Len(ac) + Len(r) : b[i] \in R
  <2> DEFINE IC == I \cup C
  <2>1. Lists(ac, IC) /\ \A x \in IC : x \notin R
    BY <1>2, <1>6
  <2> HIDE DEF IC
  <2>2. Lists(r, R)
    BY <1>1
  <2>3. Lists(b, IC \cup R)
    BY <2>1, <2>2, ListsConcat
  <2>4. ac \in Seq(IC) /\ r \in Seq(R)
    BY <2>1, <2>2 DEF Lists
  <2>5. Len(ac) \in Nat /\ Len(r) \in Nat /\ Len(b) = Len(ac) + Len(r)
    BY <2>4, ConcatEntries
  <2>6. ASSUME NEW i \in 1 .. Len(ac) PROVE b[i] = ac[i]
    BY <2>4, ConcatEntries
  <2>7. ASSUME NEW i \in Len(ac) + 1 .. Len(ac) + Len(r) PROVE b[i] \in R
    BY <2>4, ConcatEntries
  <2>8. QED
    BY <2>3, <2>5, <2>6, <2>7 DEF IC
<1> HIDE DEF b
<1>8. \A i \in 1 .. Len(b) : \/ i <= Len(a) /\ b[i] \in I
                             \/ Len(a) < i /\ i <= Len(ac) /\ b[i] \in C
                             \/ Len(ac) < i /\ b[i] \in R
  <2> SUFFICES ASSUME NEW i \in 1 .. Len(b)
               PROVE  \/ i <= Len(a) /\ b[i] \in I
                      \/ Len(a) < i /\ i <= Len(ac) /\ b[i] \in C
                      \/ Len(ac) < i /\ b[i] \in R
    OBVIOUS
  <2>1. \/ i <= Len(a) /\ i \in 1 .. Len(a) /\ i \in 1 .. Len(ac)
        \/ Len(a) < i /\ i <= Len(ac) /\ i \in Len(a) + 1 .. Len(a) + Len(c) /\ i \in 1 .. Len(ac)
        \/ Len(ac) < i /\ i \in Len(ac) + 1 .. Len(ac) + Len(r)
    BY <1>6, <1>7
  <2>2. QED
    BY <1>6, <1>7, <2>1
<1>9. ASSUME NEW i \in 1 .. Len(b), NEW j \in 1 .. Len(b), i < j
      PROVE  Rank[env[b[i]].kind] <= Rank[env[b[j]].kind]
  <2>1. /\ b[i] \in I \/ (Len(a) < i /\ b[i] \in C) \/ (Len(ac) < i /\ b[i] \in R)
        /\ b[j] \in R \/ (j <= Len(ac) /\ b[j] \in C) \/ (j <= Len(a) /\ b[j] \in I)
    BY <1>8
  <2>2. i \in Nat /\ j \in Nat
    OBVIOUS
  <2>3. \/ b[i] \in I \/ b[j] \in R \/ (b[i] \in C /\ b[j] \in C)
    BY <1>6, <1>7, <1>9, <2>1, <2>2
  <2>4. /\ b[i] \in I \/ b[i] \in C \/ b[i] \in R
        /\ b[j] \in I \/ b[j] \in C \/ b[j] \in R
    BY <2>1
  <2>5. Rank["induct"] = 1 /\ Rank["ctor"] = 2 /\ Rank["rec"] = 3
    BY DEF Rank
  <2>6. QED
    BY <1>2, <2>3, <2>4, <2>5
<1>10. Len(b) \in Nat
  BY <1>6, <1>7
<1>11. QED
  BY <1>3, <1>4, <1>7, <1>9, <1>10

------------------------------------------------------------------------------
(***************************************************************************)
(* The invariant is inductive                                              *)
(***************************************************************************)
\* The initial state.
LEMMA InitEInv == Init => EInv
<1> SUFFICES ASSUME Init PROVE EInv
  OBVIOUS
<1>1. Graph
  BY DEF Init, Graph, Asking
<1>2. P!Inv
  BY <1>1, SearchStarts DEF Init
<1>3. declars = <<>> /\ Len(declars) = 0 /\ emitted = 0 /\ phase = "order"
  BY EmptySeq DEF Init
<1>4. Progress
  BY <1>1, <1>2, <1>3, OrderFacts DEF Progress, Submitted
<1>5. Table
  BY <1>3, EmptySeq DEF Table
<1>6. Placed
  <2>1. DOMAIN mutual_block_sizes = {}
    BY DEF Init
  <2>2. Declared = {}
    BY <1>3 DEF Declared, Prefix
  <2>3. QED
    BY <2>1, <2>2 DEF Placed, BlocksInPlace
<1>7. Outcomes
  BY <1>3 DEF Outcomes, Submitted
<1>8. QED
  BY <1>1, <1>2, <1>4, <1>5, <1>6, <1>7 DEF EInv

\* What every step but those of the search leaves alone.
LEMMA SearchFrame ==
  ASSUME EInv, UNCHANGED <<request, search>>
  PROVE  /\ Graph' /\ P!Inv' /\ (P!Done' <=> P!Done) /\ UNCHANGED order
<1>1. UNCHANGED <<unitDeps, roots, root, stack, order>>
  BY DEF search
<1>2. P!Done' <=> P!Done
  BY <1>1 DEF P!Done
<1>3. QED
  BY <1>1, <1>2, GraphFrame, SearchSteps DEF EInv

\* The search takes a step, or is found at its end.
LEMMA OrderKeepsEInv == EInv /\ Order => EInv'
<1> SUFFICES ASSUME EInv, Order PROVE EInv'
  OBVIOUS
<1>1. /\ phase = "order" /\ UNCHANGED <<request, emitted, builder, outcome, failures>>
      /\ \/ Dfs!Next /\ phase' = phase
         \/ Dfs!Done /\ phase' = "emit" /\ UNCHANGED search
  BY DEF Order
<1>2. emitted = 0 /\ emitted' = 0 /\ declars' = declars /\ mutual_block_sizes' = mutual_block_sizes
  BY <1>1 DEF EInv, Progress, builder
<1>3. P!Inv'
  BY <1>1, SearchSteps DEF EInv
<1>4. Graph'
  <2>1. CASE Dfs!Next
    <3>1. UNCHANGED <<unitDeps, roots>>
      BY <2>1 DEF Dfs!Next, Dfs!SkipRoot, Dfs!StartRoot, Dfs!SkipChild, Dfs!Descend, Dfs!Leave, Dfs!graph
    <3>2. QED
      BY <1>1, <3>1, GraphFrame DEF EInv
  <2>2. CASE UNCHANGED search
    BY <1>1, <2>2, GraphFrame DEF EInv, search
  <2>3. QED
    BY <1>1, <2>1, <2>2
<1>5. Len(order') \in Nat
  BY <1>3, LenProperties DEF P!Inv, P!TypeOK
<1>6. Progress'
  <2>1. Dfs!Done /\ UNCHANGED search => P!Done'
    BY DEF search, Dfs!Done, P!Done
  <2>2. QED
    BY <1>1, <1>2, <1>5, <2>1 DEF Progress, Submitted
<1>7. Table'
  <2>1. env' = env /\ Metas' = Metas /\ Len(declars) = 0 /\ declars' = declars
    <3>1. Len(declars) \in Nat
      BY LenProperties DEF EInv, Table
    <3>2. \A i \in 1 .. Len(declars) : FALSE
      BY <1>2 DEF EInv, Table
    <3>3. Len(declars) = 0
      <4>1. 1 \notin 1 .. Len(declars)
        BY <3>2
      <4>2. QED
        BY <3>1, <4>1
    <3>4. QED
      BY <1>1, <1>2, <3>3, RequestFrame
  <2>2. declars \in Seq(Metas)
    BY DEF EInv, Table
  <2>3. QED
    BY <1>2, <2>1, <2>2 DEF Table
<1>8. Placed'
  BY <1>1, <1>2, TableFrame DEF EInv
<1>9. Outcomes'
  BY <1>1 DEF Outcomes, Submitted
<1>10. QED
  BY <1>3, <1>4, <1>6, <1>7, <1>8, <1>9 DEF EInv

\* A constant of its own goes to the end of the table.
LEMMA EmitSingletonKeepsEInv == EInv /\ EmitSingleton => EInv'
<1> SUFFICES ASSUME EInv, EmitSingleton PROVE EInv'
  OBVIOUS
<1> DEFINE n == CHOOSE x \in Members(Unit) : TRUE
           b == <<n>>
<1>1. /\ Submitting /\ ~ Unit.is_block /\ declars' = Append(declars, n) /\ emitted' = emitted + 1
      /\ UNCHANGED <<request, search>> /\ phase' = phase /\ phase = "emit"
      /\ mutual_block_sizes' = mutual_block_sizes
  BY DEF EmitSingleton, Submitting
<1>2. Unit \in Units /\ Asking
  <2>1. emitted + 1 \in 1 .. Len(order)
    BY OrderFacts DEF EInv, Progress, Submitting, EmitSingleton
  <2>2. QED
    BY <2>1, OrderFacts DEF EInv, Unit, Graph
<1>3. Members(Unit) = {n} /\ n \in Metas /\ env[n].kind # "induct"
  <2>1. PICK x \in Metas : Unit = UnitOf(x)
    BY <1>2 DEF Units
  <2>2. Members(Unit) = {x} /\ env[x].kind # "induct"
    BY <1>1, <1>2, <2>1, UnitFacts
  <2>3. n = x
    BY <2>2
  <2>4. QED
    BY <2>2, <2>3
<1> HIDE DEF n
<1>4. declars' = declars \o b
  BY <1>1, <1>3, AppendProperties, ConcatProperties DEF EInv, Table
<1>5. Lists(b, Members(Unit))
  BY <1>3 DEF Lists
<1> HIDE DEF b
<1>6. Table' /\ emitted' \in 0 .. Len(order)
  BY <1>1, <1>4, <1>5, UnitSubmitted
<1>7. Graph' /\ P!Inv' /\ (P!Done' <=> P!Done) /\ order' = order
  BY <1>1, SearchFrame
<1>8. Progress'
  BY <1>1, <1>6, <1>7 DEF Progress, Submitted, EInv
<1>9. Placed'
  <2> DEFINE M == Members(Unit)
  <2>1. M \in SUBSET Metas /\ Lists(b, M) /\ \A x \in M : env[x].kind # "induct"
    BY <1>3, <1>5
  <2> HIDE DEF M
  <2>2. Declared' = Declared \cup M /\ Placed /\ Table
    BY <1>4, <2>1, TableGrows DEF EInv, Table
  <2>3. env' = env /\ \A x : Members(UnitOf(x))' = Members(UnitOf(x))
    BY <1>1, RequestFrame
  <2>4. \A x \in DOMAIN mutual_block_sizes :
          /\ mutual_block_sizes[x][1] + mutual_block_sizes[x][2] <= Len(declars')
          /\ {declars'[i] : i \in BlockOf(x)} = Members(UnitOf(x))
          /\ \A i, j \in BlockOf(x) :
               i < j => Rank[env[declars'[i]].kind] <= Rank[env[declars'[j]].kind]
    BY <1>1, <1>4, <2>1, <2>2, BlocksStay
  <2>5. DOMAIN mutual_block_sizes' = {x \in Declared' : env'[x].kind = "induct"}
    BY <1>1, <2>1, <2>2, <2>3 DEF Placed, BlocksInPlace
  <2>6. BlocksInPlace'
    <3>1. ASSUME NEW x \in DOMAIN mutual_block_sizes PROVE InPlace(x)'
      <4>1. BlockOf(x)' = BlockOf(x)
        BY <1>1 DEF BlockOf
      <4>2. QED
        BY <2>3, <2>4, <4>1 DEF InPlace
    <3>2. AllInPlace'
      BY <1>1, <2>5, <3>1 DEF AllInPlace
    <3>3. QED
      BY <3>2, InPlaceForm, PTL
  <2>7. QED
    BY <1>1, <2>2, <2>4, <2>6 DEF Placed
<1>10. Outcomes'
  BY <1>1 DEF Outcomes, Submitted
<1>11. QED
  BY <1>6, <1>7, <1>8, <1>9, <1>10 DEF EInv

\* A block goes to the end of the table, and its types are placed there.
LEMMA EmitBlockKeepsEInv == EInv /\ EmitBlock => EInv'
<1> SUFFICES ASSUME EInv, EmitBlock PROVE EInv'
  OBVIOUS
<1> DEFINE b == BlockList(Unit)
           M == Members(Unit)
           I == OfKind(Unit, "induct")
           m == Len(declars)
<1>1. /\ Submitting /\ Unit.is_block /\ emitted' = emitted + 1 /\ phase = "emit"
      /\ UNCHANGED <<request, search>> /\ phase' = phase
      /\ declars' = declars \o b
  BY DEF EmitBlock, add_inductive_block, BlockList, Submitting
<1>2. Unit \in Units /\ Asking
  <2>1. emitted + 1 \in 1 .. Len(order)
    BY OrderFacts DEF EInv, Progress, Submitting, EmitBlock
  <2>2. QED
    BY <2>1, OrderFacts DEF EInv, Unit, Graph
<1>3. /\ Lists(b, M) /\ Len(b) \in Nat
      /\ \A i, j \in 1 .. Len(b) : i < j => Rank[env[b[i]].kind] <= Rank[env[b[j]].kind]
  BY <1>1, <1>2, BlockIsListed
<1>4. mutual_block_sizes' = [n \in I \cup DOMAIN mutual_block_sizes |->
                                IF n \in I THEN <<m, Len(b)>> ELSE mutual_block_sizes[n]]
  <2>1. ToSet(SetToSeq(I)) = I
    <3>1. IsFiniteSet(I)
      BY <1>2, UnitFacts
    <3> HIDE DEF I
    <3>2. SetToSeq(I) \in Seq(I) /\ {SetToSeq(I)[i] : i \in 1 .. Len(SetToSeq(I))} = I
      BY <3>1, SetToSeqLists
    <3>3. DOMAIN SetToSeq(I) = 1 .. Len(SetToSeq(I))
      BY <3>2, LenProperties
    <3>4. QED
      BY <3>2, <3>3 DEF ToSet
  <2>2. mutual_block_sizes' = With(ToSet(SetToSeq(I)), <<m, Len(b)>>)
    BY DEF EmitBlock, add_inductive_block, BlockList
  <2>3. QED
    BY <2>1, <2>2 DEF With
<1>5. M \in SUBSET Metas /\ I = {n \in M : env[n].kind = "induct"} /\ \A n \in M : UnitOf(n) = Unit
  BY DEF Members, OfKind
<1> HIDE DEF b, M, I
<1>6. Table' /\ emitted' \in 0 .. Len(order) /\ \A n \in M : n \notin Declared
  BY <1>1, <1>3, UnitSubmitted DEF M
<1>7. Graph' /\ P!Inv' /\ (P!Done' <=> P!Done) /\ order' = order
  BY <1>1, SearchFrame
<1>8. Progress'
  BY <1>1, <1>6, <1>7 DEF Progress, Submitted, EInv
<1>9. /\ m \in Nat /\ Len(declars') = m + Len(b) /\ Declared' = Declared \cup M
      /\ \A i \in m + 1 .. m + Len(b) :
           i - m \in 1 .. Len(b) /\ declars'[i] = b[i - m] /\ declars'[i] \in M
      /\ \A i \in 1 .. Len(b) : declars'[m + i] = b[i]
  <2>1. declars \in Seq(Metas)
    BY DEF EInv, Table
  <2>2. /\ Len(declars) \in Nat /\ Len(declars') = Len(declars) + Len(b) /\ Declared' = Declared \cup M
        /\ \A i \in 1 .. Len(b) : declars'[Len(declars) + i] = b[i] /\ b[i] \in M
        /\ \A i \in Len(declars) + 1 .. Len(declars) + Len(b) :
             /\ i - Len(declars) \in 1 .. Len(b)
             /\ declars'[i] = b[i - Len(declars)] /\ declars'[i] \in M
    BY <1>1, <1>3, <1>5, <2>1, TableGrows
  <2>3. QED
    BY <2>2
<1> HIDE DEF m
<1>10. /\ env' = env /\ \A n : Members(UnitOf(n))' = Members(UnitOf(n))
  BY <1>1, RequestFrame
<1>11. /\ DOMAIN mutual_block_sizes = {n \in Declared : env[n].kind = "induct"}
       /\ \A n \in DOMAIN mutual_block_sizes :
            mutual_block_sizes[n][1] \in Nat /\ mutual_block_sizes[n][2] \in Nat
  BY DEF EInv, Placed, BlocksInPlace
<1>12. /\ DOMAIN mutual_block_sizes' = {n \in Declared' : env'[n].kind = "induct"}
       /\ \A n \in I : mutual_block_sizes'[n] = <<m, Len(b)>>
       /\ \A n \in DOMAIN mutual_block_sizes : mutual_block_sizes'[n] = mutual_block_sizes[n]
  <2>1. \A n \in I : n \notin DOMAIN mutual_block_sizes
    BY <1>5, <1>6, <1>11
  <2>2. DOMAIN mutual_block_sizes' = I \cup DOMAIN mutual_block_sizes
    BY <1>4
  <2>3. \A n \in I : mutual_block_sizes'[n] = <<m, Len(b)>>
    BY <1>4
  <2>4. \A n \in DOMAIN mutual_block_sizes : mutual_block_sizes'[n] = mutual_block_sizes[n]
    BY <1>4, <2>1
  <2>5. QED
    BY <1>5, <1>9, <1>10, <1>11, <2>2, <2>3, <2>4
<1>13. ASSUME NEW n \in I
       PROVE  /\ InPlace(n)'
              /\ mutual_block_sizes'[n][1] \in Nat /\ mutual_block_sizes'[n][2] \in Nat
              /\ mutual_block_sizes'[n][1] + mutual_block_sizes'[n][2] <= Len(declars')
  <2>1. mutual_block_sizes'[n][1] = m /\ mutual_block_sizes'[n][2] = Len(b)
    BY <1>12
  <2>2. BlockOf(n)' = m + 1 .. m + Len(b)
    BY <2>1 DEF BlockOf
  <2>3. (Members(UnitOf(n)))' = M
    BY <1>5, <1>10 DEF M
  <2>4. {declars'[i] : i \in m + 1 .. m + Len(b)} = M
    <3>1. \A x \in M : \E i \in 1 .. Len(b) : b[i] = x
      BY <1>3 DEF Lists
    <3>2. \A i \in 1 .. Len(b) : m + i \in m + 1 .. m + Len(b)
      BY <1>3, <1>9
    <3>3. QED
      BY <1>9, <3>1, <3>2
  <2>5. ASSUME NEW i \in m + 1 .. m + Len(b), NEW j \in m + 1 .. m + Len(b), i < j
        PROVE  Rank[env[declars'[i]].kind] <= Rank[env[declars'[j]].kind]
    <3>1. i - m \in 1 .. Len(b) /\ j - m \in 1 .. Len(b) /\ i - m < j - m
      BY <1>3, <1>9, <2>5
    <3>2. declars'[i] = b[i - m] /\ declars'[j] = b[j - m]
      BY <1>9
    <3>3. QED
      BY <1>3, <3>1, <3>2
  <2>6. InPlace(n)'
    BY <1>10, <2>2, <2>3, <2>4, <2>5 DEF InPlace
  <2>7. QED
    BY <1>3, <1>9, <2>1, <2>6
<1>14. ASSUME NEW n \in DOMAIN mutual_block_sizes
       PROVE  /\ InPlace(n)'
              /\ mutual_block_sizes'[n][1] \in Nat /\ mutual_block_sizes'[n][2] \in Nat
              /\ mutual_block_sizes'[n][1] + mutual_block_sizes'[n][2] <= Len(declars')
  <2>1. /\ mutual_block_sizes[n][1] + mutual_block_sizes[n][2] <= Len(declars')
        /\ {declars'[i] : i \in BlockOf(n)} = Members(UnitOf(n))
        /\ \A i, j \in BlockOf(n) :
             i < j => Rank[env[declars'[i]].kind] <= Rank[env[declars'[j]].kind]
    BY <1>1, <1>3, <1>5, BlocksStay DEF EInv
  <2>2. BlockOf(n)' = BlockOf(n)
    BY <1>12 DEF BlockOf
  <2>3. InPlace(n)'
    BY <1>10, <2>1, <2>2 DEF InPlace
  <2>4. QED
    BY <1>11, <1>12, <2>1, <2>3
<1>15. \A n \in DOMAIN mutual_block_sizes' : n \in I \/ n \in DOMAIN mutual_block_sizes
  BY <1>4
<1>16. Placed'
  <2>1. AllInPlace'
    BY <1>12, <1>13, <1>14, <1>15 DEF AllInPlace
  <2>2. BlocksInPlace'
    BY <2>1, InPlaceForm, PTL
  <2>3. QED
    BY <1>13, <1>14, <1>15, <2>2 DEF Placed
<1>17. Outcomes'
  BY <1>1 DEF Outcomes, Submitted
<1>18. QED
  BY <1>6, <1>7, <1>8, <1>16, <1>17 DEF EInv

\* The submission ends when all units are in the table.
LEMMA FinishKeepsEInv == EInv /\ Finish => EInv'
<1> SUFFICES ASSUME EInv, Finish PROVE EInv'
  OBVIOUS
<1>1. /\ UNCHANGED <<request, search, emitted, builder, failures>>
      /\ phase = "emit" /\ phase' = "check" /\ emitted = Len(order)
      /\ outcome' = [i \in 1 .. Len(declars) |-> "todo"]
  BY DEF Finish
<1>2. UNCHANGED <<request, search>> /\ UNCHANGED <<request, declars>> /\ UNCHANGED <<order, emitted>>
      /\ UNCHANGED mutual_block_sizes
  BY <1>1 DEF builder, search
<1>3. Graph' /\ P!Inv' /\ (P!Done' <=> P!Done)
  BY <1>2, SearchFrame
<1>4. Table' /\ Placed'
  BY <1>2, TableFrame DEF EInv
<1>5. Progress'
  BY <1>1, <1>2, <1>3 DEF EInv, Progress, Submitted
<1>6. Outcomes'
  BY <1>1, <1>2 DEF Outcomes, Submitted
<1>7. QED
  BY <1>3, <1>4, <1>5, <1>6 DEF EInv

\* The check of a declaration records what it found.
LEMMA CheckKeepsEInv ==
  ASSUME EInv, NEW i \in 1 .. Len(declars), Check(i)
  PROVE  EInv'
<1>1. /\ UNCHANGED <<request, search, phase, emitted, builder, failures>> /\ phase = "check"
      /\ outcome' = [outcome EXCEPT ![i] = IF check_declar(i) THEN "passed" ELSE "failed"]
  BY DEF Check
<1>2. /\ UNCHANGED <<request, search>> /\ UNCHANGED <<request, declars>> /\ UNCHANGED <<order, emitted>>
      /\ UNCHANGED mutual_block_sizes
  BY <1>1 DEF builder, search
<1>3. Graph' /\ P!Inv' /\ (P!Done' <=> P!Done)
  BY <1>2, SearchFrame
<1>4. Table' /\ Placed' /\ \A j : check_declar(j)' <=> check_declar(j)
  BY <1>2, TableFrame DEF EInv
<1>5. Progress'
  BY <1>1, <1>2, <1>3 DEF EInv, Progress, Submitted
<1>6. Outcomes'
  <2>1. /\ outcome \in [1 .. Len(declars) -> {"todo", "passed", "failed"}]
        /\ \A j \in 1 .. Len(declars) : /\ outcome[j] = "passed" => check_declar(j)
                                        /\ outcome[j] = "failed" => ~ check_declar(j)
    BY <1>1 DEF EInv, Outcomes, Submitted
  <2>2. declars' = declars /\ phase' = "check"
    BY <1>1, <1>2
  <2>3. outcome' \in [1 .. Len(declars) -> {"todo", "passed", "failed"}]
    BY <1>1, <2>1
  <2>4. ASSUME NEW j \in 1 .. Len(declars)
        PROVE  /\ outcome'[j] = "passed" => check_declar(j)
               /\ outcome'[j] = "failed" => ~ check_declar(j)
    BY <1>1, <2>1
  <2>5. QED
    BY <1>4, <2>2, <2>3, <2>4 DEF Outcomes
<1>7. QED
  BY <1>3, <1>4, <1>5, <1>6 DEF EInv

\* The report is made when every declaration has been checked.
LEMMA ReportKeepsEInv == EInv /\ Report => EInv'
<1> SUFFICES ASSUME EInv, Report PROVE EInv'
  OBVIOUS
<1>1. /\ UNCHANGED <<request, search, emitted, builder, outcome>> /\ phase = "check" /\ phase' = "report"
      /\ \A i \in 1 .. Len(declars) : outcome[i] # "todo"
      /\ failures' = Keep(declars, {i \in 1 .. Len(declars) : outcome[i] = "failed"})
  BY DEF Report
<1>2. /\ UNCHANGED <<request, search>> /\ UNCHANGED <<request, declars>> /\ UNCHANGED <<order, emitted>>
      /\ UNCHANGED mutual_block_sizes
  BY <1>1 DEF builder, search
<1>3. Graph' /\ P!Inv' /\ (P!Done' <=> P!Done)
  BY <1>2, SearchFrame
<1>4. Table' /\ Placed' /\ \A j : check_declar(j)' <=> check_declar(j)
  BY <1>2, TableFrame DEF EInv
<1>5. Progress'
  BY <1>1, <1>2, <1>3 DEF EInv, Progress, Submitted
<1>6. Outcomes'
  <2>1. declars' = declars /\ outcome' = outcome
    BY <1>1, <1>2
  <2>2. QED
    BY <1>1, <1>4, <2>1 DEF EInv, Outcomes, Submitted
<1>7. QED
  BY <1>3, <1>4, <1>5, <1>6 DEF EInv

\* A step that changes nothing.
LEMMA StutterKeepsEInv == EInv /\ UNCHANGED vars => EInv'
<1> SUFFICES ASSUME EInv, UNCHANGED vars PROVE EInv'
  OBVIOUS
<1>1. /\ UNCHANGED <<request, search>> /\ UNCHANGED <<request, declars>> /\ UNCHANGED <<order, emitted>>
      /\ UNCHANGED mutual_block_sizes /\ UNCHANGED <<phase, outcome, failures>>
  BY DEF vars, builder, search
<1>2. Graph' /\ P!Inv' /\ (P!Done' <=> P!Done)
  BY <1>1, SearchFrame
<1>3. Table' /\ Placed' /\ \A j : check_declar(j)' <=> check_declar(j)
  BY <1>1, TableFrame DEF EInv
<1>4. Progress'
  BY <1>1, <1>2 DEF EInv, Progress, Submitted
<1>5. Outcomes'
  <2>1. declars' = declars /\ outcome' = outcome /\ phase' = phase /\ failures' = failures
    BY <1>1
  <2>2. QED
    BY <1>3, <2>1 DEF EInv, Outcomes, Submitted
<1>6. QED
  BY <1>2, <1>3, <1>4, <1>5 DEF EInv

\* The invariant holds throughout: the phases, the search, the table, the
\* blocks and the outcomes agree with each other in every state.
THEOREM ExtractInvariant == Spec => []EInv
<1>1. Init => EInv
  BY InitEInv
<1>2. EInv /\ [Next]_vars => EInv'
  <2> SUFFICES ASSUME EInv, [Next]_vars PROVE EInv'
    OBVIOUS
  <2>1. CASE Order
    BY <2>1, OrderKeepsEInv
  <2>2. CASE EmitSingleton
    BY <2>2, EmitSingletonKeepsEInv
  <2>3. CASE EmitBlock
    BY <2>3, EmitBlockKeepsEInv
  <2>4. CASE Finish
    BY <2>4, FinishKeepsEInv
  <2>5. ASSUME NEW i \in 1 .. Len(declars), Check(i) PROVE EInv'
    BY <2>5, CheckKeepsEInv
  <2>6. CASE Report
    BY <2>6, ReportKeepsEInv
  <2>7. CASE UNCHANGED vars
    BY <2>7, StutterKeepsEInv
  <2>8. QED
    BY <2>1, <2>2, <2>3, <2>4, <2>5, <2>6, <2>7 DEF Next
<1>3. QED
  BY <1>1, <1>2, PTL DEF Spec

\* What the driver runs in its first phase is topo_order, on the units of the
\* environment; the later phases leave the search as it ended.
THEOREM ExtractSearches == Spec => P!Spec
<1>1. Init => P!Init
  BY SearchStarts DEF Init, Graph, Asking
<1>2. EInv /\ [Next]_vars => [P!Next]_P!vars
  <2> SUFFICES ASSUME EInv, [Next]_vars PROVE Dfs!Next \/ UNCHANGED search
    BY SearchSteps DEF EInv
  <2>1. CASE Order
    BY <2>1 DEF Order
  <2>2. CASE EmitSingleton \/ EmitBlock \/ Finish \/ Report \/ UNCHANGED vars
    BY <2>2 DEF EmitSingleton, EmitBlock, Finish, Report, vars
  <2>3. ASSUME NEW i \in 1 .. Len(declars), Check(i) PROVE UNCHANGED search
    BY <2>3 DEF Check
  <2>4. QED
    BY <2>1, <2>2, <2>3 DEF Next
<1>3. QED
  BY <1>1, <1>2, ExtractInvariant, PTL DEF Spec, P!Spec

\* The driver implements Schedule: it puts each unit that the selection needs
\* into the order of submission once, after its dependencies except on a cycle,
\* and submission and checking leave that order alone.
THEOREM ExtractImplementsSchedule == Spec => P!ImplementsSchedule
<1>1. P!Spec => P!ImplementsSchedule
  BY P!TopoOrderImplementsSchedule
<1>2. QED
  BY <1>1, ExtractSearches, PTL

\* BlocksInPlace for every environment and every selection.
THEOREM ExtractBlocks == Spec => []BlocksInPlace
<1>1. EInv => BlocksInPlace
  BY DEF EInv, Placed
<1>2. QED
  BY <1>1, ExtractInvariant, PTL

------------------------------------------------------------------------------
(***************************************************************************)
(* What is submitted                                                       *)
(***************************************************************************)
\* A constant is in the table when its unit has been submitted; the units
\* that a constant uses are the dependencies of its own.
LEMMA DeclaredByUnits ==
  ASSUME EInv, Submitted
  PROVE  /\ Declared \subseteq Metas
         /\ \A n \in Metas : n \in Declared <=> UnitOf(n) \in P!RangeOf(order)
         /\ \A n \in Metas : n \in Declared <=> P!Sched!Needs(P!RangeOf(roots), UnitOf(n))
         /\ \A n \in Metas, d \in Metas :
              d \in DepsOf(n) /\ UnitOf(d) # UnitOf(n) => UnitOf(d) \in P!Deps[UnitOf(n)]
<1>1. emitted = Len(order) /\ P!Done /\ Len(order) \in Nat
  BY OrderFacts DEF EInv, Progress, Submitted
<1>2. Declared \subseteq Metas
  BY ElementOfSeq DEF EInv, Table, Declared, Prefix
<1>3. \A n \in Metas : UnitOf(n) \in Units /\ UnitOf(n) \in AnyUnit /\ n \in Members(UnitOf(n))
  BY UnitFacts DEF EInv, Graph, Members
<1>4. ASSUME NEW n \in Metas PROVE n \in Declared <=> UnitOf(n) \in P!RangeOf(order)
  <2>1. ASSUME n \in Declared PROVE UnitOf(n) \in P!RangeOf(order)
    <3>1. PICK i \in 1 .. Len(declars) : declars[i] = n
      BY <2>1 DEF Declared, Prefix
    <3>2. PICK k \in 1 .. emitted : order[k] = UnitOf(declars[i])
      BY DEF EInv, Table
    <3>3. QED
      BY <1>1, <3>1, <3>2 DEF P!RangeOf
  <2>2. ASSUME UnitOf(n) \in P!RangeOf(order) PROVE n \in Declared
    <3>1. PICK k \in 1 .. emitted : order[k] = UnitOf(n)
      BY <1>1, <2>2 DEF P!RangeOf
    <3>2. PICK i \in 1 .. Len(declars) : declars[i] = n
      BY <1>3, <3>1 DEF EInv, Table
    <3>3. QED
      BY <3>2 DEF Declared, Prefix
  <2>3. QED
    BY <2>1, <2>2
<1>5. \A n \in Metas : n \in Declared <=> P!Sched!Needs(P!RangeOf(roots), UnitOf(n))
  <2>1. P!Complete
    BY P!InvComplete DEF EInv
  <2>2. QED
    BY <1>1, <1>3, <1>4, <2>1 DEF P!Complete
<1>6. ASSUME NEW n \in Metas, NEW d \in Metas, d \in DepsOf(n), UnitOf(d) # UnitOf(n)
      PROVE  UnitOf(d) \in P!Deps[UnitOf(n)]
  <2>1. UnitOf(d) \in DepUnits(UnitOf(n))
    BY <1>3, <1>6 DEF DepUnits
  <2>2. QED
    BY <1>3, <2>1, EdgesAreDeps DEF EInv
<1>7. QED
  BY <1>2, <1>4, <1>5, <1>6

\* The dependencies of what is submitted are submitted, and so are the other
\* members of its unit and the constants asked for.
LEMMA DeclaredIsClosed ==
  ASSUME EInv, Submitted
  PROVE  /\ Asked \subseteq Declared
         /\ \A n \in Declared : Mates(n) \subseteq Declared
         /\ \A n \in Declared : DepsOf(n) \cap Metas \subseteq Declared
<1>1. /\ Declared \subseteq Metas
      /\ \A n \in Metas : n \in Declared <=> UnitOf(n) \in P!RangeOf(order)
      /\ \A n \in Metas : n \in Declared <=> P!Sched!Needs(P!RangeOf(roots), UnitOf(n))
      /\ \A n \in Metas, d \in Metas :
           d \in DepsOf(n) /\ UnitOf(d) # UnitOf(n) => UnitOf(d) \in P!Deps[UnitOf(n)]
  BY DeclaredByUnits
<1>2. /\ Asked \subseteq Metas /\ P!RangeOf(roots) = {UnitOf(n) : n \in Asked}
      /\ Units \subseteq AnyUnit /\ \A n \in Metas : UnitOf(n) \in AnyUnit
  BY RootsAreAsked, UnitFacts DEF EInv, Graph
<1>3. P!RangeOf(roots) \in SUBSET AnyUnit
  BY <1>2
<1>4. Asked \subseteq Declared
  <2> SUFFICES ASSUME NEW n \in Asked PROVE n \in Declared
    OBVIOUS
  <2>1. P!Sched!Needs(P!RangeOf(roots), UnitOf(n))
    BY <1>2, <1>3, P!NeedsRoot
  <2>2. QED
    BY <1>1, <1>2, <2>1
<1>5. \A n \in Declared : Mates(n) \subseteq Declared
  BY <1>1 DEF Mates, Members
<1>6. ASSUME NEW n \in Declared, NEW d \in DepsOf(n) \cap Metas PROVE d \in Declared
  <2>1. CASE UnitOf(d) = UnitOf(n)
    BY <1>1, <2>1
  <2>2. CASE UnitOf(d) # UnitOf(n)
    <3>1. UnitOf(d) \in P!Deps[UnitOf(n)] /\ UnitOf(n) \in AnyUnit
      BY <1>1, <1>2, <2>2
    <3>2. P!Sched!Needs(P!RangeOf(roots), UnitOf(n))
      BY <1>1
    <3>3. P!Sched!Needs(P!RangeOf(roots), UnitOf(d))
      BY <1>3, <3>1, <3>2, P!NeedsDep
    <3>4. QED
      BY <1>1, <3>3
  <2>3. QED
    BY <2>1, <2>2
<1>7. QED
  BY <1>4, <1>5, <1>6

\* What belongs to every closed set with what is asked for.
ClosedUnderDeps(S) == Asked \subseteq S /\ \A m \in S \cap Metas : DepsOf(m) \cup Mates(m) \subseteq S
LEMMA RequiredForm ==
  \A x : x \in Required(LAMBDA m : DepsOf(m) \cup Mates(m))
           <=> x \in Mentioned /\ \A S \in SUBSET Mentioned : ClosedUnderDeps(S) => x \in S
BY DEF Required, ClosedUnderDeps

\* The table holds what the selection needs and nothing else.
LEMMA DeclaredIsRequired ==
  ASSUME EInv, Submitted
  PROVE  Declared = Metas \cap Required(LAMBDA m : DepsOf(m) \cup Mates(m))
<1>1. /\ Declared \subseteq Metas
      /\ \A n \in Metas : n \in Declared <=> P!Sched!Needs(P!RangeOf(roots), UnitOf(n))
  BY DeclaredByUnits
<1>2. Metas \subseteq Mentioned /\ \A n \in Metas : DepsOf(n) \subseteq Mentioned
  BY DEF Metas, MetasIn, Mentioned
<1>3. ASSUME NEW x \in Declared PROVE x \in Required(LAMBDA m : DepsOf(m) \cup Mates(m))
  <2> SUFFICES ASSUME NEW S \in SUBSET Mentioned, ClosedUnderDeps(S) PROVE x \in S
    BY <1>1, <1>2, RequiredForm
  <2> DEFINE W == {v \in AnyUnit : v \in Units => Members(v) \subseteq S}
  <2>1. P!RangeOf(roots) \subseteq W
    <3>1. P!RangeOf(roots) = {UnitOf(n) : n \in Asked} /\ Asked \subseteq Metas
      BY RootsAreAsked DEF EInv
    <3>2. ASSUME NEW n \in Asked PROVE UnitOf(n) \in AnyUnit /\ Members(UnitOf(n)) \subseteq S
      <4>1. n \in S \cap Metas
        BY <3>1 DEF ClosedUnderDeps
      <4>2. Mates(n) \subseteq S /\ UnitOf(n) \in AnyUnit
        BY <4>1, UnitFacts DEF ClosedUnderDeps, EInv, Graph
      <4>3. QED
        BY <4>2 DEF Mates
    <3>3. QED
      BY <3>1, <3>2
  <2>2. P!Sched!Closed(W)
    <3> SUFFICES ASSUME NEW u \in W, NEW v \in P!Deps[u] PROVE v \in W
      BY DEF P!Sched!Closed
    <3>1. u \in Units /\ v \in DepUnits(u)
      BY EdgesAreDeps DEF EInv
    <3>2. PICK n \in Members(u) : \E d \in DepsOf(n) \cap Metas : v = UnitOf(d)
      BY <3>1 DEF DepUnits
    <3>3. PICK d \in DepsOf(n) \cap Metas : v = UnitOf(d)
      BY <3>2
    <3>4. n \in S /\ n \in Metas
      BY <3>1, <3>2 DEF Members
    <3>5. d \in S
      BY <3>4, <3>3 DEF ClosedUnderDeps
    <3>6. Mates(d) \subseteq S /\ UnitOf(d) \in AnyUnit
      BY <3>5, <3>3, UnitFacts DEF ClosedUnderDeps, EInv, Graph
    <3>7. QED
      BY <3>6, <3>3 DEF Mates
  <2>3. UnitOf(x) \in W
    <3>1. W \in SUBSET AnyUnit
      OBVIOUS
    <3> HIDE DEF W
    <3>2. P!Sched!Needs(P!RangeOf(roots), UnitOf(x))
      BY <1>1
    <3>3. QED
      BY <2>1, <2>2, <3>1, <3>2 DEF P!Sched!Needs
  <2>4. QED
    BY <1>1, <2>3 DEF Units, Members
<1>4. ASSUME NEW x \in Metas, x \in Required(LAMBDA m : DepsOf(m) \cup Mates(m))
      PROVE  x \in Declared
  <2> DEFINE S == {y \in Mentioned : y \in Metas => y \in Declared}
  <2>1. /\ Asked \subseteq Declared /\ \A n \in Declared : Mates(n) \subseteq Declared
        /\ \A n \in Declared : DepsOf(n) \cap Metas \subseteq Declared
    BY DeclaredIsClosed
  <2>2. ClosedUnderDeps(S)
    <3>1. Asked \subseteq S
      BY <1>1, <1>2, <2>1
    <3>2. ASSUME NEW m \in S \cap Metas PROVE DepsOf(m) \cup Mates(m) \subseteq S
      BY <1>1, <1>2, <2>1
    <3>3. QED
      BY <3>1, <3>2 DEF ClosedUnderDeps
  <2>3. S \in SUBSET Mentioned
    OBVIOUS
  <2> HIDE DEF S
  <2>4. x \in S
    BY <1>4, <2>2, <2>3, RequiredForm
  <2>5. QED
    BY <2>4 DEF S
<1>5. QED
  BY <1>1, <1>3, <1>4

\* SubmitsWhatIsNeeded for every environment and every selection.
THEOREM ExtractSubmits == Spec => []SubmitsWhatIsNeeded
<1>1. EInv => SubmitsWhatIsNeeded
  <2> SUFFICES ASSUME EInv, Submitted
               PROVE  /\ \A i, j \in 1 .. Len(declars) : declars[i] = declars[j] => i = j
                      /\ Declared = Metas \cap Required(LAMBDA m : DepsOf(m) \cup Mates(m))
    BY DEF SubmitsWhatIsNeeded
  <2>1. \A i, j \in 1 .. Len(declars) : declars[i] = declars[j] => i = j
    BY DEF EInv, Table
  <2>2. QED
    BY <2>1, DeclaredIsRequired
<1>2. QED
  BY <1>1, ExtractInvariant, PTL

------------------------------------------------------------------------------
(***************************************************************************)
(* What a check sees                                                       *)
(***************************************************************************)
\* A check by the kind of the constant.
LEMMA CheckForm ==
  ASSUME NEW i, env[declars[i]].kind \in Kinds
  PROVE  check_declar(i) <=>
           LET c == env[declars[i]]
           IN  /\ c.fine
               /\ c.kind \in {"def", "ctor", "rec"} => UsesVisible(i)
               /\ c.kind = "ctor" => c.induct \in Declared
               /\ c.kind = "rec" => c.all \subseteq Declared
               /\ c.kind = "induct" => check_inductive_declar(i)
               /\ c.kind = "quot" => QuotReady(i)
BY DEF check_declar, Kinds

\* Where a submitted constant lies.
LEMMA PlaceFacts ==
  ASSUME EInv
  PROVE  /\ Len(declars) \in Nat
         /\ \A i \in 1 .. Len(declars) : /\ declars[i] \in Declared /\ declars[i] \in Metas
                                         /\ Place(declars[i]) = i
         /\ \A n \in Declared : Place(n) \in 1 .. Len(declars) /\ declars[Place(n)] = n
         /\ \A k \in 0 .. Len(declars) : \A n : n \in Prefix(k) <=> n \in Declared /\ Place(n) <= k
<1>1. /\ Len(declars) \in Nat
      /\ \A i, j \in 1 .. Len(declars) : declars[i] = declars[j] => i = j
      /\ \A i \in 1 .. Len(declars) : declars[i] \in Metas
  BY LenProperties, ElementOfSeq DEF EInv, Table
<1>2. Declared = {declars[i] : i \in 1 .. Len(declars)}
  BY DEF Declared, Prefix
<1>3. \A n \in Declared : Place(n) \in 1 .. Len(declars) /\ declars[Place(n)] = n
  BY <1>2 DEF Place
<1>4. \A i \in 1 .. Len(declars) : declars[i] \in Declared /\ Place(declars[i]) = i
  BY <1>1, <1>2, <1>3
<1>5. ASSUME NEW k \in 0 .. Len(declars), NEW n
      PROVE  n \in Prefix(k) <=> n \in Declared /\ Place(n) <= k
  <2>1. ASSUME n \in Prefix(k) PROVE n \in Declared /\ Place(n) <= k
    <3>1. PICK i \in 1 .. k : declars[i] = n
      BY <2>1 DEF Prefix
    <3>2. i \in 1 .. Len(declars) /\ i <= k
      BY <1>1
    <3>3. QED
      BY <1>4, <3>1, <3>2
  <2>2. ASSUME n \in Declared, Place(n) <= k PROVE n \in Prefix(k)
    <3>1. Place(n) \in 1 .. k /\ declars[Place(n)] = n
      BY <1>1, <1>3, <2>2
    <3>2. QED
      BY <3>1 DEF Prefix
  <2>3. QED
    BY <2>1, <2>2
<1>6. QED
  BY <1>1, <1>3, <1>4, <1>5

\* The types of a block that is in the table, and all its other members, lie
\* between its ends.
LEMMA BlockFacts ==
  ASSUME EInv, NEW t \in Declared, env[t].kind = "induct"
  PROVE  /\ mutual_block_sizes[t][1] \in 0 .. Len(declars)
         /\ mutual_block_sizes[t][1] + mutual_block_sizes[t][2] \in 0 .. Len(declars)
         /\ \A n \in Declared :
              UnitOf(n) = UnitOf(t) <=>
                /\ mutual_block_sizes[t][1] < Place(n)
                /\ Place(n) <= mutual_block_sizes[t][1] + mutual_block_sizes[t][2]
         /\ \A m, n \in Declared :
              UnitOf(m) = UnitOf(t) /\ UnitOf(n) = UnitOf(t) /\ Place(m) < Place(n)
                => Rank[env[m].kind] <= Rank[env[n].kind]
<1> DEFINE first == mutual_block_sizes[t][1]
           size == mutual_block_sizes[t][2]
<1>1. /\ first \in Nat /\ size \in Nat /\ first + size <= Len(declars) /\ InPlace(t)
  BY InPlaceForm DEF EInv, Placed, AllInPlace
<1>2. /\ Len(declars) \in Nat
      /\ \A i \in 1 .. Len(declars) : Place(declars[i]) = i
      /\ \A n \in Declared : n \in Metas /\ Place(n) \in 1 .. Len(declars) /\ declars[Place(n)] = n
  BY PlaceFacts
<1>3. /\ {declars[i] : i \in first + 1 .. first + size} = Members(UnitOf(t))
      /\ \A i, j \in first + 1 .. first + size :
           i < j => Rank[env[declars[i]].kind] <= Rank[env[declars[j]].kind]
  BY <1>1 DEF InPlace, BlockOf
<1> HIDE DEF first, size
<1>4. first \in 0 .. Len(declars) /\ first + size \in 0 .. Len(declars)
  BY <1>1, <1>2
<1>5. ASSUME NEW n \in Declared
      PROVE  UnitOf(n) = UnitOf(t) <=> first < Place(n) /\ Place(n) <= first + size
  <2>1. UnitOf(n) = UnitOf(t) <=> n \in Members(UnitOf(t))
    BY <1>2 DEF Members
  <2>2. ASSUME n \in Members(UnitOf(t)) PROVE first < Place(n) /\ Place(n) <= first + size
    <3>1. PICK i \in first + 1 .. first + size : declars[i] = n
      BY <1>3, <2>2
    <3>2. i \in 1 .. Len(declars) /\ first < i /\ i <= first + size
      BY <1>1, <1>2
    <3>3. Place(n) = i
      BY <1>2, <3>1, <3>2
    <3>4. QED
      BY <3>2, <3>3
  <2>3. ASSUME first < Place(n), Place(n) <= first + size PROVE n \in Members(UnitOf(t))
    <3>1. Place(n) \in first + 1 .. first + size
      BY <1>1, <1>2, <2>3
    <3>2. QED
      BY <1>2, <1>3, <3>1
  <2>4. QED
    BY <2>1, <2>2, <2>3
<1>6. ASSUME NEW m \in Declared, NEW n \in Declared,
             UnitOf(m) = UnitOf(t), UnitOf(n) = UnitOf(t), Place(m) < Place(n)
      PROVE  Rank[env[m].kind] <= Rank[env[n].kind]
  <2>1. Place(m) \in first + 1 .. first + size /\ Place(n) \in first + 1 .. first + size
    BY <1>1, <1>2, <1>5, <1>6
  <2>2. QED
    BY <1>2, <1>3, <1>6, <2>1
<1>7. QED
  BY <1>4, <1>5, <1>6 DEF first, size

\* The members of a unit come before those of another that is later in the order.
LEMMA EarlierUnits ==
  ASSUME EInv, Submitted, NEW k \in 1 .. Len(order), NEW l \in 1 .. Len(order), k < l,
         NEW m \in Metas, NEW n \in Metas, UnitOf(m) = order[k], UnitOf(n) = order[l]
  PROVE  m \in Declared /\ n \in Declared /\ Place(m) < Place(n)
<1>1. emitted = Len(order) /\ Len(order) \in Nat
  BY OrderFacts DEF EInv, Progress, Submitted
<1>2. m \in Declared /\ n \in Declared
  BY DeclaredByUnits DEF P!RangeOf
<1>3. /\ Place(m) \in 1 .. Len(declars) /\ declars[Place(m)] = m
      /\ Place(n) \in 1 .. Len(declars) /\ declars[Place(n)] = n
      /\ Len(declars) \in Nat
  BY <1>2, PlaceFacts
<1>4. Place(m) # Place(n)
  <2>1. order[k] # order[l]
    BY OrderFacts DEF EInv
  <2>2. QED
    BY <1>3, <2>1
<1>5. ~ (Place(n) < Place(m))
  <2>1. Place(n) < Place(m) => l <= k
    BY <1>1, <1>3 DEF EInv, Table
  <2>2. QED
    BY <1>1, <2>1
<1>6. QED
  BY <1>2, <1>3, <1>4, <1>5

------------------------------------------------------------------------------
(***************************************************************************)
(* A run without failures                                                  *)
(***************************************************************************)
\* A report without failures: every declaration passed its check.
LEMMA AllPassed ==
  ASSUME EInv, phase = "report", failures = <<>>
  PROVE  \A i \in 1 .. Len(declars) : check_declar(i)
<1> DEFINE F == {i \in 1 .. Len(declars) : outcome[i] = "failed"}
<1>1. /\ outcome \in [1 .. Len(declars) -> {"todo", "passed", "failed"}]
      /\ \A i \in 1 .. Len(declars) : outcome[i] = "passed" => check_declar(i)
      /\ \A i \in 1 .. Len(declars) : outcome[i] # "todo"
      /\ Keep(declars, F) = <<>>
  BY DEF EInv, Outcomes, Submitted
<1>2. F \in SUBSET (1 .. Len(declars)) /\ declars \in Seq(Metas)
  BY DEF EInv, Table
<1>3. F = {}
  <2> HIDE DEF F
  <2>1. /\ Cardinality(F) \in Nat /\ IsFiniteSet(F)
        /\ Len(Keep(declars, F)) = Cardinality(F)
    BY <1>2, KeepEntries
  <2>2. Cardinality(F) = 0
    BY <1>1, <2>1, EmptySeq
  <2>3. QED
    BY <2>1, <2>2, FS_EmptySet
<1>4. QED
  BY <1>1, <1>3

\* A quotient constant that passed has the dependencies it is expected to have.
LEMMA QuotPassed ==
  ASSUME EInv, Submitted, NEW n \in Declared, env[n].kind = "quot", env[n].fine
  PROVE  /\ QuotAsExpected(env, n) /\ DepsOf(n) = QuotUses(n) /\ env[n].uses = QuotUses(n)
         /\ UnitOf(n) = Singleton(n)
<1>1. n \in Metas /\ n \in DOMAIN env /\ env \in Envs
  BY DeclaredByUnits DEF Metas, MetasIn, EInv, Graph, Asking
<1>2. QuotAsExpected(env, n) /\ env[n].rhs = {}
  BY <1>1, EnvAssumption
<1>3. env[n].uses = QuotUses(n)
  BY <1>2 DEF QuotAsExpected
<1>4. UnitOf(n) = Singleton(n)
  BY DEF UnitOf, UnitIn
<1>5. QED
  BY <1>2, <1>3, <1>4 DEF DepsOf

\* Of two units, the one that the other depends on and that does not need it
\* comes first.
LEMMA NeededUnitFirst ==
  ASSUME EInv, Submitted, NEW m \in Declared, NEW n \in Declared,
         UnitOf(m) \in P!Deps[UnitOf(n)], ~ P!Sched!Needs({UnitOf(m)}, UnitOf(n))
  PROVE  Place(m) < Place(n)
<1>1. m \in Metas /\ n \in Metas /\ UnitOf(n) \in P!RangeOf(order)
  BY DeclaredByUnits
<1>2. PICK l \in 1 .. Len(order) : order[l] = UnitOf(n)
  BY <1>1 DEF P!RangeOf
<1>3. PICK k \in 1 .. (l - 1) : order[k] = UnitOf(m)
  BY <1>2 DEF EInv, P!Inv, P!Settled
<1>4. k \in 1 .. Len(order) /\ k < l
  BY <1>2, <1>3, OrderFacts DEF EInv
<1>5. QED
  BY <1>1, <1>2, <1>3, <1>4, EarlierUnits

\* The quotient type and its constructor come before the quotient constants
\* that use them: they cannot need those in turn.
LEMMA QuotFirst ==
  ASSUME EInv, Submitted, QuotTogether,
         \A i \in Declared : env[i].kind = "quot" => env[i].fine,
         NEW n \in Declared, env[n].kind = "quot",
         NEW m \in {"Quot", "Quot.mk"}, m \in env[n].uses
  PROVE  m \in Declared /\ Place(m) < Place(n)
<1> DEFINE Q == UnitOf("Quot")
           K == UnitOf("Quot.mk")
<1>1. /\ Declared \subseteq Metas
      /\ \A d \in Metas, x \in Metas :
           x \in DepsOf(d) /\ UnitOf(x) # UnitOf(d) => UnitOf(x) \in P!Deps[UnitOf(d)]
  BY DeclaredByUnits
<1>2. /\ "Quot" \in Metas /\ env["Quot"].kind = "quot"
      /\ "Quot.mk" \in Metas /\ env["Quot.mk"].kind = "quot"
  BY <1>1 DEF QuotTogether
<1>3. /\ DepsOf(n) = QuotUses(n) /\ env[n].uses = QuotUses(n) /\ UnitOf(n) = Singleton(n)
      /\ n \in {"Quot", "Quot.mk", "Quot.lift", "Quot.ind"}
  BY QuotPassed DEF QuotAsExpected
<1>4. m \in DepsOf(n) /\ m \in Metas /\ n # "Quot" /\ (n = "Quot.mk" => m = "Quot")
  BY <1>2, <1>3 DEF QuotUses
<1>5. m \in Declared
  BY <1>4, DeclaredIsClosed
<1>6. /\ DepsOf(m) = QuotUses(m) /\ UnitOf(m) = Singleton(m)
  BY <1>2, <1>5, QuotPassed
<1>7. "Quot" \in Declared
  <2>1. CASE m = "Quot"
    BY <1>5, <2>1
  <2>2. CASE m = "Quot.mk"
    <3>1. "Quot" \in DepsOf(m)
      BY <1>6, <2>2 DEF QuotUses
    <3>2. QED
      BY <1>2, <1>5, <3>1, DeclaredIsClosed
  <2>3. QED
    BY <2>1, <2>2
<1>8. DepsOf("Quot") = {} /\ Q = Singleton("Quot")
  <2>1. DepsOf("Quot") = QuotUses("Quot") /\ Q = Singleton("Quot")
    BY <1>2, <1>7, QuotPassed
  <2>2. QED
    BY <2>1 DEF QuotUses
<1>9. \A x, y : Singleton(x) = Singleton(y) => x = y
  <2> SUFFICES ASSUME NEW x, NEW y, Singleton(x) = Singleton(y) PROVE x = y
    OBVIOUS
  <2>1. Singleton(x).key = {x} /\ Singleton(y).key = {y}
    BY DEF Singleton
  <2>2. {x} = {y}
    BY <2>1
  <2>3. QED
    BY <2>2
<1>10. /\ Q \in Units /\ Q \in AnyUnit /\ UnitOf(m) \in Units /\ UnitOf(m) \in AnyUnit
       /\ Members(Q) = {"Quot"} /\ Members(UnitOf(m)) = {m}
  <2>1. ~ Q.is_block /\ ~ UnitOf(m).is_block
    BY <1>6, <1>8 DEF Singleton
  <2>2. QED
    BY <1>2, <1>4, <2>1, UnitFacts DEF EInv, Graph
<1>11. P!Deps[Q] = {}
  <2>1. DepUnits(Q) = {}
    BY <1>8, <1>10 DEF DepUnits
  <2>2. QED
    BY <1>10, <2>1, EdgesAreDeps DEF EInv
<1>12. P!Deps[UnitOf(m)] \subseteq {Q}
  <2>1. DepsOf(m) \subseteq {"Quot"}
    BY <1>6 DEF QuotUses
  <2>2. DepUnits(UnitOf(m)) \subseteq {Q}
    BY <1>10, <2>1 DEF DepUnits
  <2>3. QED
    BY <1>10, <2>2, EdgesAreDeps DEF EInv
<1>13. UnitOf(n) # UnitOf(m) /\ UnitOf(n) # Q
  BY <1>3, <1>4, <1>6, <1>8, <1>9 DEF QuotUses
<1>14. ~ P!Sched!Needs({UnitOf(m)}, UnitOf(n))
  <2> DEFINE W == {UnitOf(m), Q}
  <2>1. W \in SUBSET AnyUnit /\ {UnitOf(m)} \subseteq W /\ UnitOf(n) \notin W
    BY <1>10, <1>13
  <2>2. P!Sched!Closed(W)
    BY <1>11, <1>12 DEF P!Sched!Closed
  <2> HIDE DEF W
  <2>3. QED
    BY <2>1, <2>2 DEF P!Sched!Needs
<1>15. UnitOf(m) \in P!Deps[UnitOf(n)]
  BY <1>1, <1>4, <1>13
<1>16. QED
  BY <1>5, <1>14, <1>15, NeededUnitFirst

\* What a constant that passed its check uses is in the table, before it or in
\* its block.
LEMMA UsesBefore ==
  ASSUME EInv, Submitted, QuotTogether, \A i \in 1 .. Len(declars) : check_declar(i),
         NEW n \in Declared
  PROVE  /\ env[n].fine
         /\ \A m \in env[n].uses :
              /\ m \in Declared
              /\ Place(m) < Place(n) \/ (UnitOf(m) = UnitOf(n) /\ UnitOf(n).is_block)
<1> DEFINE p == Place(n)
<1>1. /\ Len(declars) \in Nat /\ p \in 1 .. Len(declars) /\ declars[p] = n /\ n \in Metas
      /\ \A k \in 0 .. Len(declars) : \A m : m \in Prefix(k) <=> m \in Declared /\ Place(m) <= k
      /\ \A m \in Declared : Place(m) \in 1 .. Len(declars)
  BY PlaceFacts
<1> HIDE DEF p
<1>2. env[n].kind \in Kinds /\ (UnitOf(n).is_block <=> env[n].kind \in {"induct", "ctor", "rec"})
  BY <1>1, UnitFacts DEF EInv, Graph
<1>3. /\ env[n].fine
      /\ env[n].kind \in {"def", "ctor", "rec"} => UsesVisible(p)
      /\ env[n].kind = "induct" => check_inductive_declar(p)
      /\ env[n].kind = "quot" => QuotReady(p)
  BY <1>1, <1>2, CheckForm
<1>4. \A m \in Prefix(p - 1) : m \in Declared /\ Place(m) < p
  <2>1. p - 1 \in 0 .. Len(declars)
    BY <1>1
  <2>2. \A m \in Prefix(p - 1) : m \in Declared /\ Place(m) <= p - 1
    BY <1>1, <2>1
  <2>3. QED
    BY <1>1, <2>2
<1>5. CASE env[n].kind \in {"def", "ctor", "rec"}
  <2>1. env[n].uses \subseteq Prefix(p - 1)
    BY <1>1, <1>3, <1>5 DEF UsesVisible
  <2>2. QED
    BY <1>3, <1>4, <2>1 DEF p
<1>6. CASE env[n].kind = "induct"
  <2> DEFINE first == mutual_block_sizes[n][1]
             last == first + mutual_block_sizes[n][2]
  <2>1. env[n].uses \subseteq Prefix(last)
    BY <1>1, <1>3, <1>6 DEF check_inductive_declar
  <2>2. /\ first \in 0 .. Len(declars) /\ last \in 0 .. Len(declars)
        /\ \A m \in Declared : UnitOf(m) = UnitOf(n) <=> first < Place(m) /\ Place(m) <= last
    BY <1>6, BlockFacts
  <2> HIDE DEF first, last
  <2>3. ASSUME NEW m \in env[n].uses
        PROVE  m \in Declared /\ (Place(m) < p \/ UnitOf(m) = UnitOf(n))
    <3>1. m \in Declared /\ Place(m) <= last
      BY <1>1, <2>1, <2>2
    <3>2. first < p
      BY <2>2 DEF p
    <3>3. UnitOf(m) # UnitOf(n) => ~ (first < Place(m))
      BY <2>2, <3>1
    <3>4. Place(m) \in Nat /\ p \in Nat /\ first \in Nat
      BY <1>1, <2>2, <3>1
    <3>5. QED
      BY <3>1, <3>2, <3>3, <3>4
  <2>4. QED
    BY <1>2, <1>3, <1>6, <2>3 DEF p
<1>7. CASE env[n].kind = "quot"
  <2>1. /\ env[n].uses = QuotUses(n)
        /\ n \in {"Quot", "Quot.mk", "Quot.lift", "Quot.ind"}
    BY <1>3, <1>7, QuotPassed DEF QuotAsExpected
  <2>2. \A m \in env[n].uses : m \in {"Quot", "Quot.mk"} \/ (n = "Quot.lift" /\ m = "Eq")
    BY <2>1 DEF QuotUses
  <2>3. \A i \in Declared : env[i].kind = "quot" => env[i].fine
    <3> SUFFICES ASSUME NEW i \in Declared PROVE env[i].fine
      OBVIOUS
    <3>1. Place(i) \in 1 .. Len(declars) /\ declars[Place(i)] = i
      BY PlaceFacts
    <3>2. QED
      BY <3>1 DEF check_declar
  <2>4. n = "Quot.lift" => "Eq" \in Declared /\ Place("Eq") < p
    BY <1>1, <1>3, <1>4, <1>7 DEF QuotReady
  <2>5. ASSUME NEW m \in env[n].uses PROVE m \in Declared /\ Place(m) < p
    <3>1. CASE m \in {"Quot", "Quot.mk"}
      BY <1>7, <2>3, <3>1, QuotFirst DEF p
    <3>2. CASE n = "Quot.lift" /\ m = "Eq"
      BY <2>4, <3>2
    <3>3. QED
      BY <2>2, <3>1, <3>2
  <2>6. QED
    BY <1>3, <2>5 DEF p
<1>8. QED
  BY <1>2, <1>5, <1>6, <1>7 DEF Kinds

\* PassMeansChecked for every environment and every selection: the exit code
\* of a run without failures speaks for all that the selection uses.
THEOREM ExtractPasses == Spec => []PassMeansChecked
<1>1. EInv => PassMeansChecked
  <2> SUFFICES ASSUME EInv, phase = "report", failures = <<>>, QuotTogether,
                      NEW n \in Required(LAMBDA m : env[m].uses)
               PROVE  /\ n \in Declared /\ env[n].fine
                      /\ \A m \in env[n].uses :
                           Place(m) < Place(n) \/ (UnitOf(m) = UnitOf(n) /\ UnitOf(n).is_block)
    BY DEF PassMeansChecked
  <2>1. Submitted /\ \A i \in 1 .. Len(declars) : check_declar(i)
    BY AllPassed DEF Submitted
  <2>2. /\ Asked \subseteq Declared
        /\ Declared \in SUBSET Mentioned
    <3>1. Declared \subseteq Metas /\ Asked \subseteq Declared
      BY <2>1, DeclaredByUnits, DeclaredIsClosed
    <3>2. QED
      BY <3>1 DEF Metas, MetasIn, Mentioned
  <2>3. \A m \in Declared : env[m].uses \subseteq Declared
    BY <2>1, UsesBefore
  <2>4. n \in Declared
    BY <2>2, <2>3 DEF Required
  <2>5. QED
    BY <2>1, <2>4, UsesBefore
<1>2. QED
  BY <1>1, ExtractInvariant, PTL

------------------------------------------------------------------------------
(***************************************************************************)
(* The blame                                                               *)
(***************************************************************************)
\* On a well-formed environment the units come in the order of their
\* dependencies: what belongs to a unit that n's unit depends on precedes n.
LEMMA DepsFirst ==
  ASSUME EInv, Submitted, WellFormed, NEW n \in Declared, NEW m \in Metas,
         UnitOf(m) \in P!Deps[UnitOf(n)]
  PROVE  m \in Declared /\ Place(m) < Place(n)
<1>1. n \in Metas /\ UnitOf(n) \in P!RangeOf(order)
  BY DeclaredByUnits
<1>2. PICK l \in 1 .. Len(order) : order[l] = UnitOf(n)
  BY <1>1 DEF P!RangeOf
<1>3. P!DependenciesFirst /\ P!Acyclic
  <2>1. Dfs!Acyclic
    BY DEF WellFormed
  <2>2. P!Acyclic
    BY <2>1 DEF Dfs!Acyclic, Dfs!Deps, Dfs!RangeOf, Dfs!Sched!Needs, Dfs!Sched!Closed,
                P!Acyclic, P!Deps, P!RangeOf, P!Sched!Needs, P!Sched!Closed
  <2>3. QED
    BY <2>2, P!InvDependenciesFirst DEF EInv
<1>4. PICK k \in 1 .. (l - 1) : order[k] = UnitOf(m)
  BY <1>2, <1>3 DEF P!DependenciesFirst
<1>5. k \in 1 .. Len(order) /\ k < l
  BY <1>2, <1>4, OrderFacts DEF EInv
<1>6. QED
  BY <1>1, <1>2, <1>4, <1>5, EarlierUnits

\* A constant of a well-formed environment finds what it uses before itself,
\* or in its own block.
LEMMA UsesFirst ==
  ASSUME EInv, Submitted, WellFormed, NEW n \in Declared, NEW m \in env[n].uses
  PROVE  /\ m \in Declared
         /\ UnitOf(m) # UnitOf(n) => Place(m) < Place(n) /\ UnitOf(m) \in P!Deps[UnitOf(n)]
<1>1. n \in Metas /\ m \in DepsOf(n) /\ m \in Metas
  BY DeclaredByUnits DEF WellFormed, DepsOf
<1>2. m \in Declared
  BY <1>1, DeclaredIsClosed
<1>3. UnitOf(m) # UnitOf(n) => UnitOf(m) \in P!Deps[UnitOf(n)]
  BY <1>1, DeclaredByUnits
<1>4. QED
  BY <1>1, <1>2, <1>3, DepsFirst

\* Constructors and recursors come after the types and constructors of their
\* block that they use.
LEMMA UsesInBlockFirst ==
  ASSUME EInv, Submitted, WellFormed, NEW n \in Declared, env[n].kind \in {"ctor", "rec"},
         NEW m \in env[n].uses
  PROVE  Place(m) < Place(n)
<1>1. n \in Metas /\ m \in Metas /\ m # n
  BY DeclaredByUnits DEF WellFormed, DepsOf
<1>2. m \in Declared /\ (UnitOf(m) # UnitOf(n) => Place(m) < Place(n))
  BY UsesFirst
<1>3. CASE UnitOf(m) = UnitOf(n)
  <2>1. Rank[env[m].kind] < Rank[env[n].kind]
    BY <1>1, <1>3 DEF WellFormed, BlocksAgree
  <2>2. env[m].kind \in {"induct", "ctor"}
    <3>1. env[m].kind \in {"induct", "ctor", "rec"}
      BY <1>1, <1>3, UnitFacts DEF EInv, Graph
    <3>2. Rank["induct"] = 1 /\ Rank["ctor"] = 2 /\ Rank["rec"] = 3
      BY DEF Rank
    <3>3. QED
      BY <2>1, <3>1, <3>2
  <2>3. PICK t \in Declared : env[t].kind = "induct" /\ UnitOf(t) = UnitOf(m)
    <3>1. CASE env[m].kind = "induct"
      BY <1>2, <3>1
    <3>2. CASE env[m].kind = "ctor"
      <4> DEFINE t == env[m].induct
      <4>1. t \in Metas /\ env[t].kind = "induct"
        BY <1>1, <3>2 DEF WellFormed, BlocksAgree
      <4>2. UnitOf(m) = Block(env[t].all) /\ UnitOf(t) = Block(env[t].all)
        BY <3>2, <4>1 DEF UnitOf, UnitIn, Metas
      <4>3. t \in Mates(m)
        BY <4>1, <4>2 DEF Mates, Members
      <4>4. t \in Declared
        BY <1>2, <4>3, DeclaredIsClosed
      <4>5. QED
        BY <4>1, <4>2, <4>4
    <3>3. QED
      BY <2>2, <3>1, <3>2
  <2>4. ~ (Place(n) < Place(m))
    <3>1. Place(n) < Place(m) => Rank[env[n].kind] <= Rank[env[m].kind]
      BY <1>2, <1>3, <2>3, BlockFacts
    <3>2. Rank[env[n].kind] \in Nat /\ Rank[env[m].kind] \in Nat
      BY <2>2 DEF Rank
    <3>3. QED
      BY <2>1, <3>1, <3>2
  <2>5. /\ Place(m) \in 1 .. Len(declars) /\ declars[Place(m)] = m
        /\ Place(n) \in 1 .. Len(declars) /\ declars[Place(n)] = n
        /\ Len(declars) \in Nat
    BY <1>2, PlaceFacts
  <2>6. Place(m) # Place(n)
    BY <1>1, <2>5
  <2>7. QED
    BY <2>4, <2>5, <2>6
<1>4. QED
  BY <1>2, <1>3

\* The check of an inductive type sees its whole block and what that uses.
LEMMA BlockSeen ==
  ASSUME EInv, Submitted, WellFormed, NEW n \in Declared, env[n].kind = "induct"
  PROVE  check_inductive_declar(Place(n))
<1> DEFINE last == mutual_block_sizes[n][1] + mutual_block_sizes[n][2]
           all == env[n].all
           ctors == UNION {env[t].ctors : t \in all}
<1>1. n \in Metas /\ declars[Place(n)] = n /\ Len(declars) \in Nat
      /\ \A x \in Declared : Place(x) \in 1 .. Len(declars)
  BY DeclaredByUnits, PlaceFacts
<1>2. /\ last \in 0 .. Len(declars)
      /\ \A m \in Declared : UnitOf(m) = UnitOf(n) => Place(m) <= last
  BY BlockFacts
<1>3. \A m : m \in Prefix(last) <=> m \in Declared /\ Place(m) <= last
  BY <1>2, PlaceFacts
<1> HIDE DEF last
<1>4. ASSUME NEW m \in Metas, UnitOf(m) = UnitOf(n) PROVE m \in Declared
  BY <1>4, DeclaredIsClosed DEF Mates, Members
<1>5. \A t \in all : t \in Metas /\ env[t].kind = "induct" /\ env[t].all = all
  BY <1>1 DEF WellFormed, BlocksAgree
<1>6. UnitOf(n) = Block(all) /\ \A t \in all : UnitOf(t) = Block(all)
  BY <1>1, <1>5 DEF UnitOf, UnitIn
<1>7. ASSUME NEW c \in ctors PROVE c \in Metas /\ UnitOf(c) = UnitOf(n)
  <2>1. PICK t \in all : c \in env[t].ctors
    OBVIOUS
  <2>2. c \in Metas /\ env[c].kind = "ctor" /\ env[c].induct = t
    BY <1>5, <2>1 DEF WellFormed, BlocksAgree
  <2>3. UnitOf(c) = Block(all)
    BY <1>5, <2>2 DEF UnitOf, UnitIn, Metas
  <2>4. QED
    BY <1>6, <2>2, <2>3
<1>8. \A x \in {n} \cup all \cup ctors : x \in Declared /\ UnitOf(x) = UnitOf(n)
  BY <1>1, <1>4, <1>5, <1>6, <1>7
<1> HIDE DEF all, ctors
<1>9. \A x \in {n} \cup all \cup ctors : x \in Prefix(last)
  BY <1>2, <1>3, <1>8
<1>10. ASSUME NEW x \in {n} \cup all \cup ctors, NEW m \in env[x].uses PROVE m \in Prefix(last)
  <2>1. x \in Declared /\ UnitOf(x) = UnitOf(n)
    BY <1>8
  <2>2. m \in Declared /\ (UnitOf(m) # UnitOf(x) => Place(m) < Place(x))
    BY <2>1, UsesFirst
  <2>3. Place(x) <= last
    BY <1>2, <2>1
  <2>4. Place(m) \in Nat /\ Place(x) \in Nat /\ last \in Nat
    BY <1>1, <1>2, <2>1, <2>2
  <2>5. Place(m) <= last
    BY <1>2, <2>1, <2>2, <2>3, <2>4
  <2>6. QED
    BY <1>3, <2>2, <2>5
<1>11. QED
  BY <1>1, <1>9, <1>10 DEF check_inductive_declar, all, ctors, last

\* What a quotient constant asks of the name cache is there.
LEMMA QuotIsReady ==
  ASSUME EInv, Submitted, WellFormed, QuotComplete,
         NEW n \in Declared, env[n].kind = "quot", env[n].fine
  PROVE  QuotReady(Place(n))
<1>1. /\ n \in {"Quot", "Quot.mk", "Quot.lift", "Quot.ind"}
      /\ env[n].uses = QuotUses(n) /\ UnitOf(n) = Singleton(n)
      /\ n = "Quot.lift" /\ "Eq" \in DOMAIN env
           => env["Eq"].kind = "induct" /\ "Eq.refl" \in env["Eq"].ctors
  BY QuotPassed DEF QuotAsExpected
<1>2. {"Quot", "Quot.mk"} \subseteq Interned
  <2>1. n \in Interned /\ env[n].uses \subseteq Interned
    BY DEF Interned, DepsOf
  <2>2. "Quot" \in Interned
    BY <1>1, <2>1 DEF QuotUses
  <2>3. QED
    BY <2>2 DEF QuotComplete
<1>3. declars[Place(n)] = n /\ Place(n) \in 1 .. Len(declars) /\ Len(declars) \in Nat
  BY PlaceFacts
<1>4. ASSUME n = "Quot.lift" PROVE {"Eq", "Eq.refl"} \subseteq Prefix(Place(n) - 1)
  <2>1. "Eq" \in env[n].uses
    BY <1>1, <1>4 DEF QuotUses
  <2>2. n \in Metas /\ "Eq" \in Metas /\ "Eq" \in DOMAIN env
    BY <2>1, DeclaredByUnits DEF WellFormed, DepsOf, Metas, MetasIn
  <2>3. env["Eq"].kind = "induct" /\ "Eq.refl" \in env["Eq"].ctors
    BY <1>1, <1>4, <2>2
  <2>4. "Eq.refl" \in Metas /\ env["Eq.refl"].kind = "ctor" /\ env["Eq.refl"].induct = "Eq"
    BY <2>2, <2>3 DEF WellFormed, BlocksAgree
  <2>5. UnitOf("Eq") = Block(env["Eq"].all) /\ UnitOf("Eq.refl") = Block(env["Eq"].all)
    BY <2>2, <2>3, <2>4 DEF UnitOf, UnitIn, Metas
  <2>6. UnitOf("Eq") # UnitOf(n)
    <3>1. UnitOf("Eq").is_block /\ ~ UnitOf(n).is_block
      BY <1>1, <2>5 DEF Block, Singleton
    <3>2. QED
      BY <3>1
  <2>7. UnitOf("Eq") \in P!Deps[UnitOf(n)] /\ UnitOf("Eq.refl") \in P!Deps[UnitOf(n)]
    BY <2>1, <2>5, <2>6, UsesFirst
  <2>8. ASSUME NEW m \in {"Eq", "Eq.refl"} PROVE m \in Prefix(Place(n) - 1)
    <3>1. m \in Declared /\ Place(m) < Place(n)
      BY <2>2, <2>4, <2>7, DepsFirst
    <3>2. Place(m) \in 1 .. Len(declars)
      BY <3>1, PlaceFacts
    <3>3. Place(n) - 1 \in 0 .. Len(declars) /\ Place(m) <= Place(n) - 1
      BY <1>3, <3>1, <3>2
    <3>4. QED
      BY <3>1, <3>3, PlaceFacts
  <2>9. QED
    BY <2>8
<1>5. QED
  BY <1>2, <1>3, <1>4 DEF QuotReady

\* On a well-formed environment a constant that is fine passes its check,
\* whatever the constants that it uses are.
LEMMA FinePasses ==
  ASSUME EInv, Submitted, WellFormed, QuotComplete,
         NEW i \in 1 .. Len(declars), env[declars[i]].fine
  PROVE  check_declar(i)
<1> DEFINE n == declars[i]
<1>1. n \in Declared /\ n \in Metas /\ Place(n) = i /\ Len(declars) \in Nat
  BY PlaceFacts
<1>2. env[n].kind \in Kinds
  BY <1>1, UnitFacts DEF EInv, Graph
<1>3. ASSUME env[n].kind \in {"def", "ctor", "rec"} PROVE UsesVisible(i)
  <2> SUFFICES ASSUME NEW m \in env[n].uses PROVE m \in Prefix(i - 1)
    BY DEF UsesVisible
  <2>1. m \in Declared
    BY <1>1, UsesFirst
  <2>2. Place(m) < i
    <3>1. CASE env[n].kind = "def"
      <4>1. ~ UnitOf(n).is_block /\ Members(UnitOf(n)) = {n}
        BY <1>1, <3>1, UnitFacts DEF EInv, Graph
      <4>2. m # n /\ m \in Metas
        BY <1>1, <2>1, DeclaredByUnits DEF WellFormed
      <4>3. UnitOf(m) # UnitOf(n)
        BY <4>1, <4>2 DEF Members
      <4>4. QED
        BY <1>1, <4>3, UsesFirst
    <3>2. CASE env[n].kind \in {"ctor", "rec"}
      BY <1>1, <3>2, UsesInBlockFirst
    <3>3. QED
      BY <1>3, <3>1, <3>2
  <2>3. i - 1 \in 0 .. Len(declars) /\ Place(m) <= i - 1
    <3>1. Place(m) \in 1 .. Len(declars)
      BY <2>1, PlaceFacts
    <3>2. QED
      BY <1>1, <2>2, <3>1
  <2>4. QED
    BY <2>1, <2>3, PlaceFacts
<1>4. ASSUME env[n].kind = "ctor" PROVE env[n].induct \in Declared
  <2> DEFINE t == env[n].induct
  <2>1. t \in Metas /\ env[t].kind = "induct"
    BY <1>1, <1>4 DEF WellFormed, BlocksAgree
  <2>2. UnitOf(n) = Block(env[t].all) /\ UnitOf(t) = Block(env[t].all)
    BY <1>4, <2>1 DEF UnitOf, UnitIn, Metas
  <2>3. t \in Mates(n)
    BY <2>1, <2>2 DEF Mates, Members
  <2>4. QED
    BY <1>1, <2>3, DeclaredIsClosed
<1>5. ASSUME env[n].kind = "rec" PROVE env[n].all \subseteq Declared
  <2> SUFFICES ASSUME NEW t \in env[n].all PROVE t \in Declared
    OBVIOUS
  <2>1. t \in Metas /\ env[t].kind = "induct" /\ env[t].all = env[n].all
    BY <1>1, <1>5 DEF WellFormed, BlocksAgree
  <2>2. UnitOf(n) = Block(env[n].all) /\ UnitOf(t) = Block(env[n].all)
    BY <1>5, <2>1 DEF UnitOf, UnitIn
  <2>3. t \in Mates(n)
    BY <2>1, <2>2 DEF Mates, Members
  <2>4. QED
    BY <1>1, <2>3, DeclaredIsClosed
<1>6. env[n].kind = "induct" => check_inductive_declar(i)
  BY <1>1, BlockSeen
<1>7. env[n].kind = "quot" => QuotReady(i)
  BY <1>1, QuotIsReady
<1>8. QED
  BY <1>2, <1>3, <1>4, <1>5, <1>6, <1>7, CheckForm

\* BlameIsExact for every environment and every selection: on an environment
\* as Lean produces it, the report names the faulty constants and no others.
THEOREM ExtractBlames == Spec => []BlameIsExact
<1>1. EInv => BlameIsExact
  <2> SUFFICES ASSUME EInv, phase = "report", WellFormed, QuotComplete PROVE failures = Faulty
    BY DEF BlameIsExact
  <2>1. Submitted
    BY DEF Submitted
  <2>2. /\ outcome \in [1 .. Len(declars) -> {"todo", "passed", "failed"}]
        /\ \A i \in 1 .. Len(declars) : /\ outcome[i] = "passed" => check_declar(i)
                                        /\ outcome[i] = "failed" => ~ check_declar(i)
        /\ \A i \in 1 .. Len(declars) : outcome[i] # "todo"
        /\ failures = Keep(declars, {i \in 1 .. Len(declars) : outcome[i] = "failed"})
    BY <2>1 DEF EInv, Outcomes
  <2>3. ASSUME NEW i \in 1 .. Len(declars) PROVE outcome[i] = "failed" <=> ~ env[declars[i]].fine
    <3>1. env[declars[i]].fine => check_declar(i)
      BY <2>1, FinePasses
    <3>2. check_declar(i) => env[declars[i]].fine
      BY DEF check_declar
    <3>3. outcome[i] \in {"passed", "failed"}
      BY <2>2
    <3>4. QED
      BY <2>2, <3>1, <3>2, <3>3
  <2>4. {i \in 1 .. Len(declars) : outcome[i] = "failed"}
          = {i \in 1 .. Len(declars) : ~ env[declars[i]].fine}
    BY <2>3
  <2>5. QED
    BY <2>2, <2>4 DEF Faulty
<1>2. QED
  BY <1>1, ExtractInvariant, PTL

------------------------------------------------------------------------------
(***************************************************************************)
(* The driver ends: what it has left to do only shrinks                    *)
(***************************************************************************)
\* The phases still to come, the units not submitted, and the constants that have
\* no outcome; the first phase also shrinks what the search has left.
Coming == CASE phase = "order" -> {"emit", "check", "report"}
            [] phase = "emit" -> {"check", "report"}
            [] phase = "check" -> {"report"}
            [] OTHER -> {}
Unsubmitted == Units \ {order[k] : k \in 1 .. emitted}
Decided == {declars[i] : i \in {j \in 1 .. Len(declars) : Submitted /\ outcome[j] # "todo"}}
Unchecked == Metas \ Decided

WorkLeft == <<P!RootsLeft, P!Pending, Coming, Unsubmitted, Unchecked>>
Shrinks == (\A i \in 1 .. 5 : WorkLeft'[i] \subseteq WorkLeft[i]) /\ WorkLeft' # WorkLeft

\* It is enough to show that each part shrinks and one of them differs.
LEMMA Parts ==
  ASSUME /\ P!RootsLeft' \subseteq P!RootsLeft /\ P!Pending' \subseteq P!Pending
         /\ Coming' \subseteq Coming /\ Unsubmitted' \subseteq Unsubmitted
         /\ Unchecked' \subseteq Unchecked,
         \/ P!RootsLeft' # P!RootsLeft \/ P!Pending' # P!Pending \/ Coming' # Coming
         \/ Unsubmitted' # Unsubmitted \/ Unchecked' # Unchecked
  PROVE  Shrinks
BY DEF Shrinks, WorkLeft

\* What a step leaves alone leaves alone what is left of it.
LEMMA LeftFrame ==
  ASSUME EInv, UNCHANGED <<request, search>>
  PROVE  /\ P!RootsLeft' = P!RootsLeft /\ P!Pending' = P!Pending
         /\ Units' = Units /\ Metas' = Metas /\ order' = order
<1>1. Units' = Units /\ Metas' = Metas
  BY RequestFrame
<1>2. UNCHANGED <<unitDeps, roots, root, state, stack, order>>
  BY DEF search
<1>3. P!RootsLeft' = P!RootsLeft
  BY <1>2 DEF P!RootsLeft
<1>4. P!Needed' = P!Needed
  BY <1>2, P!NeededFrame DEF EInv
<1>5. \A u, k : P!IsPending(u, k)' <=> P!IsPending(u, k)
  BY <1>2 DEF P!IsPending
<1>6. P!Pending' = P!Pending
  BY <1>4, <1>5 DEF P!Pending
<1>7. QED
  BY <1>1, <1>2, <1>3, <1>6

\* The search shrinks in the first phase, or the next phase begins.
LEMMA OrderShrinks ==
  ASSUME EInv, Order
  PROVE  Shrinks
<1>1. /\ phase = "order" /\ UNCHANGED <<request, emitted, declars, outcome>>
      /\ \/ Dfs!Next /\ phase' = phase
         \/ Dfs!Done /\ phase' = "emit" /\ UNCHANGED search
  BY DEF Order, builder
<1>2. phase' \in {"order", "emit"} /\ Units' = Units /\ Metas' = Metas /\ emitted = 0
  BY <1>1, RequestFrame DEF EInv, Progress
<1>3. Unsubmitted = Units /\ Unsubmitted' = Units
  BY <1>1, <1>2 DEF Unsubmitted
<1>4. Unchecked = Metas /\ Unchecked' = Metas
  BY <1>1, <1>2 DEF Unchecked, Decided, Submitted
<1>5. CASE Dfs!Next /\ phase' = phase
  <2>1. P!Next
    BY <1>5, SameSearch
  <2>2. P!Shrinks
    BY <2>1, P!StepShrinks DEF EInv
  <2>3. Coming' = Coming
    BY <1>5 DEF Coming
  <2>4. QED
    BY <1>3, <1>4, <2>2, <2>3, Parts DEF P!Shrinks
<1>6. CASE phase' = "emit" /\ UNCHANGED search
  <2>1. Coming = {"emit", "check", "report"} /\ Coming' = {"check", "report"}
    BY <1>1, <1>6 DEF Coming
  <2>2. "emit" \in Coming /\ "emit" \notin Coming' /\ Coming' \subseteq Coming
    BY <2>1
  <2>3. P!RootsLeft' = P!RootsLeft /\ P!Pending' = P!Pending
    BY <1>1, <1>6, LeftFrame
  <2>4. QED
    BY <1>3, <1>4, <2>2, <2>3, Parts
<1>7. QED
  BY <1>1, <1>5, <1>6

\* Submitting a unit takes it from those not submitted: no unit is in the order
\* twice.
LEMMA EmitShrinks ==
  ASSUME EInv, EmitSingleton \/ EmitBlock
  PROVE  Shrinks
<1>1. /\ phase = "emit" /\ phase' = phase /\ emitted < Len(order) /\ emitted' = emitted + 1
      /\ UNCHANGED <<request, search>>
  BY DEF EmitSingleton, EmitBlock, Submitting
<1>2. /\ P!RootsLeft' = P!RootsLeft /\ P!Pending' = P!Pending
      /\ Units' = Units /\ Metas' = Metas /\ order' = order
  BY <1>1, LeftFrame
<1>3. Coming' = Coming /\ Unchecked = Metas /\ Unchecked' = Metas
  BY <1>1, <1>2 DEF Coming, Unchecked, Decided, Submitted
<1>4. /\ Len(order) \in Nat /\ emitted \in Nat
      /\ \A k \in 1 .. Len(order) : order[k] \in Units
      /\ \A k, l \in 1 .. Len(order) : order[k] = order[l] => k = l
  <2>1. Len(order) \in Nat /\ emitted \in 0 .. Len(order)
    BY OrderFacts DEF EInv, Progress
  <2>2. QED
    BY <2>1, OrderFacts DEF EInv
<1>5. /\ emitted + 1 \in 1 .. Len(order) /\ emitted + 1 \in 1 .. emitted + 1
      /\ \A k \in 1 .. emitted : k \in 1 .. Len(order) /\ k \in 1 .. emitted + 1 /\ k # emitted + 1
  BY <1>1, <1>4
<1>6. order[emitted + 1] \in Unsubmitted
  BY <1>4, <1>5 DEF Unsubmitted
<1>7. order[emitted + 1] \notin Unsubmitted' /\ Unsubmitted' \subseteq Unsubmitted
  BY <1>1, <1>2, <1>5 DEF Unsubmitted
<1>8. QED
  BY <1>2, <1>3, <1>6, <1>7, Parts

\* No declaration has an outcome when the checking begins.
LEMMA FinishShrinks ==
  ASSUME EInv, Finish
  PROVE  Shrinks
<1>1. /\ phase = "emit" /\ phase' = "check" /\ UNCHANGED <<request, search, emitted, declars>>
      /\ outcome' = [i \in 1 .. Len(declars) |-> "todo"]
  BY DEF Finish, builder
<1>2. /\ P!RootsLeft' = P!RootsLeft /\ P!Pending' = P!Pending
      /\ Units' = Units /\ Metas' = Metas /\ order' = order
  BY <1>1, LeftFrame
<1>3. Coming = {"check", "report"} /\ Coming' = {"report"}
  BY <1>1 DEF Coming
<1>4. "check" \in Coming /\ "check" \notin Coming' /\ Coming' \subseteq Coming
  BY <1>3
<1>5. Unsubmitted' = Unsubmitted
  BY <1>1, <1>2 DEF Unsubmitted
<1>6. Unchecked = Metas
  BY <1>1 DEF Unchecked, Decided, Submitted
<1>7. Unchecked' \subseteq Metas
  BY <1>2 DEF Unchecked
<1>8. QED
  BY <1>2, <1>4, <1>5, <1>6, <1>7, Parts

\* A check decides a declaration that no other place of the table holds.
LEMMA CheckShrinks ==
  ASSUME EInv, NEW i \in 1 .. Len(declars), Check(i)
  PROVE  Shrinks
<1>1. /\ phase = "check" /\ phase' = phase /\ UNCHANGED <<request, search, emitted, declars>>
      /\ outcome[i] = "todo"
      /\ outcome' = [outcome EXCEPT ![i] = IF check_declar(i) THEN "passed" ELSE "failed"]
  BY DEF Check, builder
<1>2. /\ P!RootsLeft' = P!RootsLeft /\ P!Pending' = P!Pending
      /\ Units' = Units /\ Metas' = Metas /\ order' = order
  BY <1>1, LeftFrame
<1>3. Coming' = Coming /\ Unsubmitted' = Unsubmitted /\ Submitted /\ Submitted'
  BY <1>1, <1>2 DEF Coming, Unsubmitted, Submitted
<1>4. /\ outcome \in [1 .. Len(declars) -> {"todo", "passed", "failed"}]
      /\ \A k, l \in 1 .. Len(declars) : declars[k] = declars[l] => k = l
      /\ declars[i] \in Metas
  <2>1. declars \in Seq(Metas)
    BY DEF EInv, Table
  <2>2. QED
    BY <1>3, <2>1, ElementOfSeq DEF EInv, Table, Outcomes
<1>5. /\ outcome'[i] # "todo"
      /\ \A j \in 1 .. Len(declars) : j # i => outcome'[j] = outcome[j]
  BY <1>1, <1>4
<1>6. declars[i] \in Unchecked
  BY <1>1, <1>4 DEF Unchecked, Decided
<1>7. declars[i] \in Decided' /\ Decided \subseteq Decided'
  BY <1>1, <1>3, <1>5 DEF Decided
<1>8. declars[i] \notin Unchecked' /\ Unchecked' \subseteq Unchecked
  BY <1>2, <1>7 DEF Unchecked
<1>9. QED
  BY <1>2, <1>3, <1>6, <1>8, Parts

\* The report is the last thing.
LEMMA ReportShrinks ==
  ASSUME EInv, Report
  PROVE  Shrinks
<1>1. /\ phase = "check" /\ phase' = "report"
      /\ UNCHANGED <<request, search, emitted, declars, outcome>>
  BY DEF Report, builder
<1>2. /\ P!RootsLeft' = P!RootsLeft /\ P!Pending' = P!Pending
      /\ Units' = Units /\ Metas' = Metas /\ order' = order
  BY <1>1, LeftFrame
<1>3. Coming = {"report"} /\ Coming' = {}
  BY <1>1 DEF Coming
<1>4. Unsubmitted' = Unsubmitted
  BY <1>1, <1>2 DEF Unsubmitted
<1>5. Unchecked' = Unchecked
  BY <1>1, <1>2 DEF Unchecked, Decided, Submitted
<1>6. QED
  BY <1>2, <1>3, <1>4, <1>5, Parts

\* An environment is finite, and so is what there is to do for it.
LEMMA WorkFinite ==
  ASSUME EInv
  PROVE  \A i \in 1 .. 5 : IsFiniteSet(WorkLeft[i])
<1>1. IsFiniteSet(Metas) /\ IsFiniteSet(Units) /\ Units \subseteq AnyUnit
  BY UnitFacts DEF EInv, Graph
<1>2. P!Needed \subseteq Units
  <2>1. Units \in SUBSET AnyUnit /\ P!RangeOf(roots) \subseteq Units
    BY <1>1, RootsAreAsked DEF EInv, Graph, Units
  <2>2. \A u \in Units : P!Deps[u] \subseteq Units
    BY <2>1, EdgesAreDeps, UnitFacts DEF EInv, Graph
  <2>3. P!Sched!Closed(Units)
    BY <2>2 DEF P!Sched!Closed
  <2>4. QED
    BY <2>1, <2>3 DEF P!Needed, P!Sched!Needs
<1>3. IsFiniteSet(P!RootsLeft) /\ IsFiniteSet(P!Pending)
  <2>1. IsFiniteSet(P!Needed)
    BY <1>1, <1>2, FS_Subset
  <2>2. P!Inv
    BY DEF EInv
  <2>3. \A S : P!IsFiniteSet(S) <=> IsFiniteSet(S)
    BY DEF P!IsFiniteSet, IsFiniteSet
  <2>4. QED
    BY <2>1, <2>2, <2>3, P!PendingFinite
<1>4. IsFiniteSet(Coming)
  <2>1. IsFiniteSet({"emit"} \cup ({"check"} \cup {"report"}))
    BY FS_Singleton, FS_Union
  <2>2. Coming \subseteq {"emit"} \cup ({"check"} \cup {"report"})
    BY DEF Coming
  <2>3. QED
    BY <2>1, <2>2, FS_Subset
<1>5. IsFiniteSet(Unsubmitted) /\ IsFiniteSet(Unchecked)
  BY <1>1, FS_Subset DEF Unsubmitted, Unchecked
<1>6. QED
  BY <1>3, <1>4, <1>5 DEF WorkLeft

\* The driver ends, whatever the environment and the selection and whatever
\* fails: each step searches on, submits, decides a constant or goes on to the next
\* phase for good, and all of that is finite.
THEOREM ExtractShrinks ==
  Spec => [][Shrinks]_vars /\ [](\A i \in 1 .. 5 : IsFiniteSet(WorkLeft[i]))
<1>1. EInv /\ [Next]_vars => [Shrinks]_vars
  BY OrderShrinks, EmitShrinks, FinishShrinks, CheckShrinks, ReportShrinks DEF Next
<1>2. QED
  BY <1>1, WorkFinite, ExtractInvariant, PTL DEF Spec
==============================================================================
