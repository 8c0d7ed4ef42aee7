----------------------------- MODULE LevelsProofs -----------------------------
(***************************************************************************)
(* Theorems about universe levels, for every set of parameters, levels of  *)
(* any depth and a stack of any size: what the comparison accepts holds    *)
(* for all values of the parameters, it never panics, it decides levels    *)
(* without imax, the tests for zero reject only what does not hold, and    *)
(* simplification and substitution keep the number that a level denotes.   *)
(***************************************************************************)
EXTENDS Levels, TLAPS

Sets == INSTANCE SetLemmas

------------------------------------------------------------------------------
(***************************************************************************)
(* Levels                                                                  *)
(***************************************************************************)
\* Induction up to a bound: what holds of 0 and passes on holds of all numbers.
LEMMA UpTo ==
  ASSUME NEW n \in Nat, NEW T, 0 \in T,
         \A k \in 0 .. n : k # n /\ k \in T => k + 1 \in T
  PROVE  0 .. n \subseteq T
<1> DEFINE Bad == {k \in 0 .. n : k \notin T}
<1>1. SUFFICES ASSUME Bad # {} PROVE FALSE
  OBVIOUS
<1>2. PICK k \in Bad : \A l \in Bad : k <= l
  <2>1. Bad \in SUBSET Nat
    OBVIOUS
  <2> HIDE DEF Bad
  <2>2. QED
    BY <1>1, <2>1, Sets!LeastNat
<1>3. k # 0 /\ k - 1 \in 0 .. n /\ k - 1 # n /\ (k - 1) + 1 = k
  BY <1>2
<1>4. k - 1 \in T
  BY <1>2, <1>3
<1>5. QED
  BY <1>2, <1>3, <1>4

\* What is read off the variants of a level.
LEMMA Fields ==
  /\ Zero.k = "zero" /\ Panic.k = "panic" /\ Exhausted.k = "overflow"
  /\ \A p : Var(p).k = "param" /\ Var(p).name = p
  /\ \A l : Succ(l).k = "succ" /\ Succ(l).of = l
  /\ \A l, r : /\ Max(l, r).k = "max" /\ Max(l, r).l = l /\ Max(l, r).r = r
               /\ IMax(l, r).k = "imax" /\ IMax(l, r).l = l /\ IMax(l, r).r = r
BY DEF Zero, Panic, Exhausted, Var, Succ, Max, IMax

\* The variants, over levels of a set.
Variant(l, Part) ==
  \/ l = Zero
  \/ \E p \in Param : l = Var(p)
  \/ \E m \in Part : l = Succ(m)
  \/ \E m, n \in Part : l = Max(m, n)
  \/ \E m, n \in Part : l = IMax(m, n)

Leaves == {Zero} \cup {Var(p) : p \in Param}
Over(Part) == Part \cup [k : {"succ"}, of : Part] \cup [k : {"max", "imax"}, l : Part, r : Part]

\* LevelTo is defined: the recursion on the height has a solution.
LEMMA LevelToEquation ==
  LevelTo = [h \in 0 .. Height |-> IF h = 0 THEN Leaves ELSE Over(LevelTo[h - 1])]
<1> DEFINE D == 0 .. Height
           Solves(k, f) ==
             f = [h \in D |-> IF h <= k THEN IF h = 0 THEN Leaves ELSE Over(f[h - 1]) ELSE {}]
           T == {k \in D : \E f : Solves(k, f)}
<1> HIDE DEF Leaves, Over
<1>1. 0 \in T
  <2>1. Solves(0, [h \in D |-> IF h = 0 THEN Leaves ELSE {}])
    OBVIOUS
  <2>2. 0 \in D
    BY BoundAssumption
  <2> HIDE DEF Solves, D
  <2>3. QED
    BY <2>1, <2>2
<1>2. ASSUME NEW k \in D, k # Height, k \in T PROVE k + 1 \in T
  <2>1. PICK f : Solves(k, f)
    BY <1>2
  <2> DEFINE g == [h \in D |-> IF h <= k + 1 THEN IF h = 0 THEN Leaves ELSE Over(f[h - 1]) ELSE {}]
  <2>2. ASSUME NEW h \in D, h <= k PROVE f[h] = g[h]
    <3>1. h <= k + 1
      BY <2>2, BoundAssumption
    <3>2. f[h] = IF h = 0 THEN Leaves ELSE Over(f[h - 1])
      BY <2>1, <2>2
    <3>3. QED
      BY <3>1, <3>2
  <2>3. ASSUME NEW h \in D, h <= k + 1, h # 0 PROVE f[h - 1] = g[h - 1]
    <3>1. h - 1 \in D /\ h - 1 <= k
      BY <2>3, BoundAssumption
    <3>2. QED
      BY <2>2, <3>1
  <2>4. Solves(k + 1, g)
    BY <2>3
  <2>5. k + 1 \in D
    BY <1>2, BoundAssumption
  <2>6. QED
    BY <2>4, <2>5
<1>3. Height \in T
  <2> HIDE DEF T
  <2>1. 0 .. Height \subseteq T
    BY <1>1, <1>2, UpTo, BoundAssumption
  <2>2. QED
    BY <2>1, BoundAssumption
<1>4. \E f : f = [h \in D |-> IF h = 0 THEN Leaves ELSE Over(f[h - 1])]
  BY <1>3
<1>5. QED
  BY <1>4 DEF LevelTo, Leaves, Over

\* Each height has the levels of the height below, and those made of them.
LEMMA LevelToGrows ==
  /\ LevelTo[0] = Leaves
  /\ \A h \in 0 .. Height : h # 0 =>
       h - 1 \in 0 .. Height /\ LevelTo[h] = Over(LevelTo[h - 1]) /\ LevelTo[h - 1] \subseteq LevelTo[h]
<1>1. \A h \in 0 .. Height : h # 0 => h - 1 \in 0 .. Height
  BY BoundAssumption
<1>2. 0 \in 0 .. Height
  BY BoundAssumption
<1>3. LevelTo[0] = Leaves /\ \A h \in 0 .. Height : h # 0 => LevelTo[h] = Over(LevelTo[h - 1])
  <2> HIDE DEF Leaves, Over
  <2>1. QED
    BY <1>2, LevelToEquation
<1>4. \A P : P \subseteq Over(P)
  BY DEF Over
<1>5. QED
  BY <1>1, <1>3, <1>4

\* A level is of one of the five variants, over levels of the height below.
LEMMA Heights ==
  \A h \in 0 .. Height : \A l \in LevelTo[h] :
    /\ h = 0 => Variant(l, {})
    /\ h # 0 => Variant(l, LevelTo[h - 1])
<1> DEFINE Form(h) == \A l \in LevelTo[h] : (h = 0 => Variant(l, {})) /\ (h # 0 => Variant(l, LevelTo[h - 1]))
           T == {h \in 0 .. Height : Form(h)}
<1>1. 0 \in T
  <2>1. \A l \in Leaves : Variant(l, {})
    BY DEF Leaves, Variant
  <2>2. Form(0)
    BY <2>1, LevelToGrows
  <2>3. QED
    BY <2>2, BoundAssumption
<1>2. ASSUME NEW k \in 0 .. Height, k # Height, k \in T PROVE k + 1 \in T
  <2>1. k + 1 \in 0 .. Height /\ k + 1 # 0 /\ (k + 1) - 1 = k
    BY <1>2, BoundAssumption
  <2>2. LevelTo[k + 1] = Over(LevelTo[k])
    BY <2>1, LevelToGrows
  <2>3. ASSUME NEW l \in LevelTo[k] PROVE Variant(l, LevelTo[k])
    <3>1. CASE k = 0
      BY <1>2, <2>3, <3>1 DEF Variant
    <3>2. CASE k # 0
      <4>1. LevelTo[k - 1] \subseteq LevelTo[k] /\ Variant(l, LevelTo[k - 1])
        BY <1>2, <2>3, <3>2, LevelToGrows
      <4>2. QED
        BY <4>1 DEF Variant
    <3>3. QED
      BY <3>1, <3>2
  <2>4. ASSUME NEW l \in [k : {"succ"}, of : LevelTo[k]] PROVE Variant(l, LevelTo[k])
    <3>1. l = Succ(l.of) /\ l.of \in LevelTo[k]
      BY <2>4 DEF Succ
    <3>2. QED
      BY <3>1 DEF Variant
  <2>5. ASSUME NEW l \in [k : {"max", "imax"}, l : LevelTo[k], r : LevelTo[k]]
        PROVE  Variant(l, LevelTo[k])
    <3>1. (l = Max(l.l, l.r) \/ l = IMax(l.l, l.r)) /\ l.l \in LevelTo[k] /\ l.r \in LevelTo[k]
      BY <2>5 DEF Max, IMax
    <3>2. QED
      BY <3>1 DEF Variant
  <2>6. \A l \in LevelTo[k + 1] : Variant(l, LevelTo[k])
    BY <2>2, <2>3, <2>4, <2>5 DEF Over
  <2>7. QED
    BY <2>1, <2>6
<1>3. 0 .. Height \subseteq T
  <2> HIDE DEF T
  <2>1. QED
    BY <1>1, <1>2, UpTo, BoundAssumption
<1>4. QED
  BY <1>3

\* A level of any height is a level.
LEMMA Included == \A h \in 0 .. Height : LevelTo[h] \subseteq Level
<1> DEFINE T == {j \in 0 .. Height : LevelTo[Height - j] \subseteq Level}
<1>1. 0 \in T
  BY BoundAssumption DEF Level
<1>2. ASSUME NEW k \in 0 .. Height, k # Height, k \in T PROVE k + 1 \in T
  <2>1. Height - k \in 0 .. Height /\ Height - k # 0 /\ (Height - k) - 1 = Height - (k + 1)
    BY <1>2, BoundAssumption
  <2>2. LevelTo[Height - (k + 1)] \subseteq LevelTo[Height - k]
    BY <2>1, LevelToGrows
  <2>3. k + 1 \in 0 .. Height
    BY <1>2, BoundAssumption
  <2>4. QED
    BY <1>2, <2>2, <2>3
<1>3. 0 .. Height \subseteq T
  <2> HIDE DEF T
  <2>1. QED
    BY <1>1, <1>2, UpTo, BoundAssumption
<1>4. ASSUME NEW h \in 0 .. Height PROVE LevelTo[h] \subseteq Level
  <2>1. Height - h \in 0 .. Height /\ Height - (Height - h) = h
    BY BoundAssumption
  <2>2. QED
    BY <1>3, <2>1
<1>5. QED
  BY <1>4

\* Induction over levels: what passes from the parts of a level to the level
\* holds of all levels.
LEMMA LevelInduction ==
  ASSUME NEW T, \A l \in Level : Variant(l, T \cap Level) => l \in T
  PROVE  Level \subseteq T
<1> DEFINE S == {h \in 0 .. Height : LevelTo[h] \subseteq T}
<1>1. 0 \in S
  <2>1. 0 \in 0 .. Height
    BY BoundAssumption
  <2>2. \A l \in LevelTo[0] : l \in Level /\ Variant(l, {})
    BY <2>1, Heights, Included
  <2>3. \A l \in LevelTo[0] : Variant(l, T \cap Level)
    BY <2>2 DEF Variant
  <2>4. QED
    BY <2>1, <2>2, <2>3
<1>2. ASSUME NEW k \in 0 .. Height, k # Height, k \in S PROVE k + 1 \in S
  <2>1. k + 1 \in 0 .. Height /\ k + 1 # 0 /\ (k + 1) - 1 = k
    BY <1>2, BoundAssumption
  <2>2. \A l \in LevelTo[k + 1] : l \in Level /\ Variant(l, LevelTo[k])
    BY <2>1, Heights, Included
  <2>3. LevelTo[k] \subseteq T \cap Level
    BY <1>2, Included
  <2>4. \A l \in LevelTo[k + 1] : Variant(l, T \cap Level)
    BY <2>2, <2>3 DEF Variant
  <2>5. QED
    BY <2>1, <2>2, <2>4
<1>3. 0 .. Height \subseteq S
  <2> HIDE DEF S
  <2>1. QED
    BY <1>1, <1>2, UpTo, BoundAssumption
<1>4. Height \in S
  BY <1>3, BoundAssumption
<1>5. QED
  BY <1>4 DEF Level

\* The parts of a level are levels.
LEMMA Parts ==
  /\ Zero \in Level /\ \A p \in Param : Var(p) \in Level
  /\ \A l \in Level : Variant(l, Level)
  /\ \A l : Succ(l) \in Level => l \in Level
  /\ \A l, r : Max(l, r) \in Level \/ IMax(l, r) \in Level => l \in Level /\ r \in Level
  /\ \A l \in NoLevel : l \notin Level /\ l.k \in Failure
<1>1. Leaves \subseteq Level
  <2>1. 0 \in 0 .. Height
    BY BoundAssumption
  <2>2. QED
    BY <2>1, LevelToGrows, Included
<1>2. \A l \in Level : Variant(l, Level)
  <2> DEFINE T == {l \in Level : Variant(l, Level)}
  <2>1. \A l \in Level : Variant(l, T \cap Level) => l \in T
    BY DEF Variant
  <2>2. Level \subseteq T
    <3> HIDE DEF T
    <3>1. QED
      BY <2>1, LevelInduction
  <2>3. QED
    BY <2>2
<1>3. \A l : Succ(l) \in Level => l \in Level
  <2> SUFFICES ASSUME NEW l, Succ(l) \in Level PROVE l \in Level
    OBVIOUS
  <2>1. Variant(Succ(l), Level)
    BY <1>2
  <2>2. \A m : Succ(l) = Succ(m) => l = m
    BY Fields
  <2>3. QED
    BY <2>1, <2>2, Fields DEF Variant
<1>4. \A l, r : Max(l, r) \in Level \/ IMax(l, r) \in Level => l \in Level /\ r \in Level
  <2> SUFFICES ASSUME NEW l, NEW r, Max(l, r) \in Level \/ IMax(l, r) \in Level
               PROVE  l \in Level /\ r \in Level
    OBVIOUS
  <2>1. Variant(Max(l, r), Level) \/ Variant(IMax(l, r), Level)
    BY <1>2
  <2>2. \A m, n : Max(l, r) = Max(m, n) \/ IMax(l, r) = IMax(m, n) => l = m /\ r = n
    BY Fields
  <2>3. CASE Variant(Max(l, r), Level)
    BY <2>2, <2>3, Fields DEF Variant
  <2>4. CASE Variant(IMax(l, r), Level)
    BY <2>2, <2>4, Fields DEF Variant
  <2>5. QED
    BY <2>1, <2>3, <2>4
<1>5. \A l \in NoLevel : l \notin Level /\ l.k \in Failure
  <2>1. ~ Variant(Panic, Level) /\ ~ Variant(Exhausted, Level)
    BY Fields DEF Variant
  <2>2. QED
    BY <1>2, <2>1, Fields DEF NoLevel, Failure
<1>6. QED
  BY <1>1, <1>2, <1>3, <1>4, <1>5 DEF Leaves

------------------------------------------------------------------------------
(***************************************************************************)
(* What a level denotes                                                    *)
(***************************************************************************)
Valuation == [Param -> Nat]

\* What a level denotes depends on what its parts denote.
LEMMA DenotedFrame ==
  ASSUME NEW P, NEW l, Variant(l, P), NEW s, NEW f, NEW g, \A m \in P : f[m] = g[m]
  PROVE  Denoted(l, s, f) = Denoted(l, s, g)
<1>1. CASE l = Zero \/ \E p \in Param : l = Var(p)
  BY <1>1, Fields DEF Denoted
<1>2. ASSUME NEW m \in P, l = Succ(m) PROVE Denoted(l, s, f) = Denoted(l, s, g)
  BY <1>2, Fields DEF Denoted
<1>3. ASSUME NEW m \in P, NEW n \in P, l = Max(m, n) PROVE Denoted(l, s, f) = Denoted(l, s, g)
  BY <1>3, Fields DEF Denoted
<1>4. ASSUME NEW m \in P, NEW n \in P, l = IMax(m, n) PROVE Denoted(l, s, f) = Denoted(l, s, g)
  BY <1>4, Fields DEF Denoted
<1>5. QED
  BY <1>1, <1>2, <1>3, <1>4 DEF Variant

\* Meaning is defined: the recursion on the parts of a level has a solution.
LEMMA MeaningEquation ==
  ASSUME NEW s
  PROVE  Meaning(s) = [l \in Level |-> Denoted(l, s, Meaning(s))]
<1> DEFINE Solves(k, f) == f = [l \in Level |-> IF l \in LevelTo[k] THEN Denoted(l, s, f) ELSE 0]
           T == {k \in 0 .. Height : \E f : Solves(k, f)}
<1>1. 0 \in T
  <2>1. 0 \in 0 .. Height
    BY BoundAssumption
  <2> DEFINE f == [l \in Level |-> 0]
             g == [l \in Level |-> IF l \in LevelTo[0] THEN Denoted(l, s, f) ELSE 0]
  <2> HIDE DEF f
  <2>2. ASSUME NEW l \in LevelTo[0] PROVE Denoted(l, s, f) = Denoted(l, s, g)
    <3>1. Variant(l, {})
      BY <2>1, Heights
    <3> HIDE DEF g
    <3>2. QED
      BY <3>1, DenotedFrame
  <2>3. Solves(0, g)
    BY <2>2
  <2>4. QED
    <3> HIDE DEF Solves, g
    <3>1. QED
      BY <2>1, <2>3
<1>2. ASSUME NEW k \in 0 .. Height, k # Height, k \in T PROVE k + 1 \in T
  <2>1. k + 1 \in 0 .. Height /\ k + 1 # 0 /\ (k + 1) - 1 = k
    BY <1>2, BoundAssumption
  <2>2. PICK f : Solves(k, f)
    BY <1>2
  <2> DEFINE g == [l \in Level |-> IF l \in LevelTo[k + 1] THEN Denoted(l, s, f) ELSE 0]
  <2>3. ASSUME NEW l \in LevelTo[k] PROVE f[l] = g[l]
    <3>1. l \in Level /\ l \in LevelTo[k + 1]
      BY <2>1, <2>3, Included, LevelToGrows
    <3>2. f[l] = Denoted(l, s, f)
      BY <2>2, <2>3, <3>1
    <3>3. QED
      BY <3>1, <3>2
  <2>4. ASSUME NEW l \in LevelTo[k + 1] PROVE Denoted(l, s, f) = Denoted(l, s, g)
    <3>1. Variant(l, LevelTo[k])
      BY <2>1, Heights
    <3> HIDE DEF g
    <3>2. QED
      BY <2>3, <3>1, DenotedFrame
  <2>5. Solves(k + 1, g)
    BY <2>4
  <2>6. QED
    <3> HIDE DEF Solves, g
    <3>1. QED
      BY <2>1, <2>5
<1>3. Height \in T
  <2> HIDE DEF T
  <2>1. 0 .. Height \subseteq T
    BY <1>1, <1>2, UpTo, BoundAssumption
  <2>2. QED
    BY <2>1, BoundAssumption
<1>4. \E f : f = [l \in Level |-> Denoted(l, s, f)]
  <2>1. PICK f : Solves(Height, f)
    BY <1>3
  <2>2. f = [l \in Level |-> Denoted(l, s, f)]
    BY <2>1 DEF Level
  <2>3. QED
    BY <2>2
<1>5. QED
  BY <1>4 DEF Meaning

\* The equations of Value, and that it is a number.
LEMMA ValueEquations ==
  ASSUME NEW s \in Valuation
  PROVE  /\ Value(Zero, s) = 0
         /\ \A p \in Param : Value(Var(p), s) = s[p]
         /\ \A l : Succ(l) \in Level => Value(Succ(l), s) = Value(l, s) + 1
         /\ \A l, r : Max(l, r) \in Level => Value(Max(l, r), s) = Max2(Value(l, s), Value(r, s))
         /\ \A l, r : IMax(l, r) \in Level => Value(IMax(l, r), s) = IMax2(Value(l, s), Value(r, s))
<1>1. \A l \in Level : Value(l, s) = Denoted(l, s, Meaning(s))
  BY MeaningEquation DEF Value
<1>2. /\ Denoted(Zero, s, Meaning(s)) = 0
      /\ \A p : Denoted(Var(p), s, Meaning(s)) = s[p]
      /\ \A l : Denoted(Succ(l), s, Meaning(s)) = Value(l, s) + 1
      /\ \A l, r : Denoted(Max(l, r), s, Meaning(s)) = Max2(Value(l, s), Value(r, s))
      /\ \A l, r : Denoted(IMax(l, r), s, Meaning(s)) = IMax2(Value(l, s), Value(r, s))
  BY Fields DEF Denoted, Value
<1>3. QED
  BY <1>1, <1>2, Parts

\* The value of a level is a natural number.
LEMMA ValueType == \A s \in Valuation : \A l \in Level : Value(l, s) \in Nat
<1> SUFFICES ASSUME NEW s \in Valuation PROVE \A l \in Level : Value(l, s) \in Nat
  OBVIOUS
<1> DEFINE T == {l \in Level : Value(l, s) \in Nat}
<1>1. ASSUME NEW l \in Level, Variant(l, T \cap Level) PROVE l \in T
  <2>1. CASE l = Zero
    BY <2>1, ValueEquations
  <2>2. ASSUME NEW p \in Param, l = Var(p) PROVE Value(l, s) \in Nat
    BY <2>2, ValueEquations DEF Valuation
  <2>3. ASSUME NEW m \in T, l = Succ(m) PROVE Value(l, s) \in Nat
    BY <2>3, ValueEquations
  <2>4. ASSUME NEW m \in T, NEW n \in T, l = Max(m, n) PROVE Value(l, s) \in Nat
    BY <2>4, ValueEquations DEF Max2
  <2>5. ASSUME NEW m \in T, NEW n \in T, l = IMax(m, n) PROVE Value(l, s) \in Nat
    BY <2>5, ValueEquations DEF Max2, IMax2
  <2>6. QED
    BY <1>1, <2>1, <2>2, <2>3, <2>4, <2>5 DEF Variant
<1>2. Level \subseteq T
  <2> HIDE DEF T
  <2>1. QED
    BY <1>1, LevelInduction
<1>3. QED
  BY <1>2

------------------------------------------------------------------------------
(***************************************************************************)
(* Calls                                                                   *)
(***************************************************************************)
\* Call is defined: the recursion on the free stack has a solution.
LEMMA CallEquation ==
  Call = [d \in 0 .. Depth |-> IF d = 0 THEN Overflow ELSE Frame(Call[d - 1])]
<1> DEFINE D == 0 .. Depth
           Solves(k, f) ==
             f = [d \in D |-> IF d <= k THEN IF d = 0 THEN Overflow ELSE Frame(f[d - 1]) ELSE {}]
           T == {k \in D : \E f : Solves(k, f)}
<1>1. 0 \in T
  <2>1. Solves(0, [d \in D |-> IF d = 0 THEN Overflow ELSE {}])
    OBVIOUS
  <2>2. 0 \in D
    BY BoundAssumption
  <2> HIDE DEF Solves, D
  <2>3. QED
    BY <2>1, <2>2
<1>2. ASSUME NEW k \in D, k # Depth, k \in T PROVE k + 1 \in T
  <2>1. PICK f : Solves(k, f)
    BY <1>2
  <2> DEFINE g == [d \in D |-> IF d <= k + 1 THEN IF d = 0 THEN Overflow ELSE Frame(f[d - 1]) ELSE {}]
  <2>2. ASSUME NEW d \in D, d <= k PROVE f[d] = g[d]
    <3>1. d <= k + 1
      BY <2>2, BoundAssumption
    <3>2. f[d] = IF d = 0 THEN Overflow ELSE Frame(f[d - 1])
      BY <2>1, <2>2
    <3>3. QED
      BY <3>1, <3>2
  <2>3. ASSUME NEW d \in D, d <= k + 1, d # 0 PROVE f[d - 1] = g[d - 1]
    <3>1. d - 1 \in D /\ d - 1 <= k
      BY <2>3, BoundAssumption
    <3>2. QED
      BY <2>2, <3>1
  <2>4. Solves(k + 1, g)
    BY <2>3
  <2>5. k + 1 \in D
    BY <1>2, BoundAssumption
  <2>6. QED
    BY <2>4, <2>5
<1>3. Depth \in T
  <2> HIDE DEF T
  <2>1. 0 .. Depth \subseteq T
    BY <1>1, <1>2, UpTo, BoundAssumption
  <2>2. QED
    BY <2>1, BoundAssumption
<1>4. \E f : f = [d \in D |-> IF d = 0 THEN Overflow ELSE Frame(f[d - 1])]
  BY <1>3
<1>5. QED
  BY <1>4 DEF Call

\* What each function promises.  A call that returns was given levels; what it
\* returns denotes what it should, and what is said to be below is below.
Outcome == {"yes", "no"} \cup Failure

CombiningRight(f) ==
  /\ f \in [Two -> LevelOrNone]
  /\ \A l, r \in LevelOrNone : f[<<l, r>>] \in Level =>
       /\ l \in Level /\ r \in Level
       /\ \A s \in Valuation : Value(f[<<l, r>>], s) = Max2(Value(l, s), Value(r, s))

SimplifyRight(f) ==
  /\ f \in [LevelOrNone -> LevelOrNone]
  /\ \A l \in LevelOrNone : f[l] \in Level =>
       l \in Level /\ \A s \in Valuation : Value(f[l], s) = Value(l, s)

Substituted(ks, vs, s) == [p \in Param |-> ReplacedBy(p, ks, vs, s)]

SubstRight(f) ==
  /\ f \in [Replacing -> LevelOrNone]
  /\ \A l \in LevelOrNone, ks \in Seq(LevelOrNone), vs \in Seq(Level) : f[<<l, ks, vs>>] \in Level =>
       l \in Level /\ \A s \in Valuation : Value(f[<<l, ks, vs>>], s) = Value(l, Substituted(ks, vs, s))

LeqRight(f) ==
  /\ f \in [Compared -> Outcome]
  /\ \A l, r \in LevelOrNone, diff \in Int : f[<<l, r, diff>>] \in {"yes", "no"} =>
       /\ l \in Level /\ r \in Level
       /\ f[<<l, r, diff>>] = "yes" => \A s \in Valuation : Value(l, s) <= Value(r, s) + diff

CallRight(at) ==
  /\ CombiningRight(at.combining) /\ SimplifyRight(at.simplify)
  /\ SubstRight(at.subst_level) /\ LeqRight(at.leq_core)

\* A level is stored or not; stored, it is the level that was asked for, and so
\* are its parts.
LEMMA Storing ==
  /\ \A l : succ(l) \in LevelOrNone /\ (succ(l) \in Level => l \in Level /\ succ(l) = Succ(l))
  /\ \A l, r : /\ max(l, r) \in LevelOrNone
               /\ max(l, r) \in Level => l \in Level /\ r \in Level /\ max(l, r) = Max(l, r)
               /\ imax(l, r) \in LevelOrNone
               /\ imax(l, r) \in Level => l \in Level /\ r \in Level /\ imax(l, r) = IMax(l, r)
  /\ \A l \in LevelOrNone : Variant(l, Level) \/ l \in NoLevel
  /\ \A l \in LevelOrNone : l.k \in {"succ", "max", "imax"} => Variant(l, Level)
  /\ LevelOrNone = Level \cup NoLevel /\ Panic \in NoLevel /\ Exhausted \in NoLevel
<1>1. \A level, l, r : /\ Stored(level, l, r) \in LevelOrNone
                       /\ Stored(level, l, r) \in Level => Stored(level, l, r) = level
  BY Parts DEF Stored, LevelOrNone, NoLevel
<1>2. /\ \A l \in LevelOrNone : Variant(l, Level) \/ l \in NoLevel
      /\ \A l \in NoLevel : l.k \notin {"succ", "max", "imax"}
  BY Parts DEF LevelOrNone, Failure
<1>3. LevelOrNone = Level \cup NoLevel /\ Panic \in NoLevel /\ Exhausted \in NoLevel
  BY DEF LevelOrNone, NoLevel
<1>4. ASSUME NEW l
      PROVE  succ(l) \in LevelOrNone /\ (succ(l) \in Level => l \in Level /\ succ(l) = Succ(l))
  <2>1. succ(l) = Stored(Succ(l), l, l)
    BY DEF succ
  <2>2. Succ(l) \in Level => l \in Level
    BY Parts
  <2>3. QED
    BY <1>1, <2>1, <2>2
<1>5. ASSUME NEW l, NEW r
      PROVE  /\ max(l, r) \in LevelOrNone
             /\ max(l, r) \in Level => l \in Level /\ r \in Level /\ max(l, r) = Max(l, r)
  <2>1. max(l, r) = Stored(Max(l, r), l, r)
    BY DEF max
  <2>2. Max(l, r) \in Level => l \in Level /\ r \in Level
    BY Parts
  <2>3. QED
    BY <1>1, <2>1, <2>2
<1>6. ASSUME NEW l, NEW r
      PROVE  /\ imax(l, r) \in LevelOrNone
             /\ imax(l, r) \in Level => l \in Level /\ r \in Level /\ imax(l, r) = IMax(l, r)
  <2>1. imax(l, r) = Stored(IMax(l, r), l, r)
    BY DEF imax
  <2>2. IMax(l, r) \in Level => l \in Level /\ r \in Level
    BY Parts
  <2>3. QED
    BY <1>1, <2>1, <2>2
<1>7. QED
  BY <1>2, <1>3, <1>4, <1>5, <1>6

\* Adding one, and the larger of two.
LEMMA CombiningStep ==
  ASSUME NEW at, CallRight(at), NEW l \in LevelOrNone, NEW r \in LevelOrNone
  PROVE  /\ combining(at, l, r) \in LevelOrNone
         /\ combining(at, l, r) \in Level =>
              /\ l \in Level /\ r \in Level
              /\ \A s \in Valuation : Value(combining(at, l, r), s) = Max2(Value(l, s), Value(r, s))
<1>1. CASE l = Zero
  <2>1. combining(at, l, r) = r /\ l \in Level
    BY <1>1, Parts DEF combining
  <2>2. \A s \in Valuation : r \in Level => Max2(Value(l, s), Value(r, s)) = Value(r, s)
    BY <1>1, ValueEquations, ValueType DEF Max2
  <2>3. QED
    BY <2>1, <2>2
<1>2. CASE l # Zero /\ r = Zero
  <2>1. combining(at, l, r) = l /\ r \in Level
    BY <1>2, Parts DEF combining
  <2>2. \A s \in Valuation : l \in Level => Max2(Value(l, s), Value(r, s)) = Value(l, s)
    BY <1>2, ValueEquations, ValueType DEF Max2
  <2>3. QED
    BY <2>1, <2>2
<1>3. CASE l # Zero /\ r # Zero /\ l.k = "succ" /\ r.k = "succ"
  <2>1. PICK m \in Level, n \in Level : l = Succ(m) /\ r = Succ(n)
    BY <1>3, Storing, Fields DEF Variant
  <2> DEFINE c == at.combining[<<m, n>>]
  <2>2. combining(at, l, r) = succ(c) /\ l \in Level /\ r \in Level
    <3>1. l \in Level /\ r \in Level
      BY <1>3, Storing, Parts DEF Failure
    <3>2. QED
      BY <1>3, <2>1, <3>1, Fields DEF combining
  <2>3. ASSUME NEW s \in Valuation, succ(c) \in Level
        PROVE  Value(succ(c), s) = Max2(Value(l, s), Value(r, s))
    <3>1. Succ(c) \in Level /\ succ(c) = Succ(c) /\ c \in Level
      BY <2>3, Storing, Parts
    <3>2. Value(c, s) = Max2(Value(m, s), Value(n, s))
      <4>1. m \in LevelOrNone /\ n \in LevelOrNone
        BY Storing
      <4>2. QED
        BY <3>1, <4>1 DEF CallRight, CombiningRight
    <3>3. Value(Succ(c), s) = Value(c, s) + 1 /\ Value(l, s) = Value(m, s) + 1 /\ Value(r, s) = Value(n, s) + 1
      BY <2>1, <2>2, <3>1, ValueEquations
    <3>4. Value(m, s) \in Nat /\ Value(n, s) \in Nat
      BY ValueType
    <3>5. QED
      BY <3>1, <3>2, <3>3, <3>4 DEF Max2
  <2>4. QED
    BY <2>2, <2>3, Storing
<1>4. CASE l # Zero /\ r # Zero /\ ~ (l.k = "succ" /\ r.k = "succ")
  <2>1. combining(at, l, r) = max(l, r)
    BY <1>4 DEF combining
  <2>2. QED
    BY <2>1, Storing, Parts, ValueEquations
<1>5. QED
  BY <1>1, <1>2, <1>3, <1>4

\* What the tests accept holds, provided that what they call is right.
LEMMA TestsRight ==
  ASSUME NEW at, CallRight(at)
  PROVE  /\ \A l, r \in LevelOrNone :
              /\ leq(at, l, r) \in Outcome
              /\ leq(at, l, r) \in {"yes", "no"} =>
                   /\ l \in Level /\ r \in Level
                   /\ leq(at, l, r) = "yes" => \A s \in Valuation : Value(l, s) <= Value(r, s)
         /\ \A l \in LevelOrNone :
              /\ is_zero(at, l) \in Outcome
              /\ is_zero(at, l) \in {"yes", "no"} => l \in Level
              /\ is_zero(at, l) = "yes" => \A s \in Valuation : Value(l, s) = 0
              /\ is_one(at, l) \in Outcome
              /\ is_one(at, l) = "yes" => l \in Level /\ \A s \in Valuation : Value(l, s) = 1
<1>1. ASSUME NEW l \in LevelOrNone, NEW r \in LevelOrNone
      PROVE  /\ leq(at, l, r) \in Outcome
             /\ leq(at, l, r) \in {"yes", "no"} =>
                  /\ l \in Level /\ r \in Level
                  /\ leq(at, l, r) = "yes" => \A s \in Valuation : Value(l, s) <= Value(r, s)
  <2> DEFINE a == at.simplify[l]
             b == at.simplify[r]
  <2>1. a \in LevelOrNone /\ b \in LevelOrNone
    BY DEF CallRight, SimplifyRight
  <2>2. leq(at, l, r) = at.leq_core[<<a, b, 0>>] /\ <<a, b, 0>> \in Compared
    BY <2>1 DEF leq, Compared
  <2>3. leq(at, l, r) \in Outcome
    BY <2>2 DEF CallRight, LeqRight
  <2>4. ASSUME leq(at, l, r) \in {"yes", "no"}
        PROVE  /\ a \in Level /\ b \in Level
               /\ leq(at, l, r) = "yes" => \A s \in Valuation : Value(a, s) <= Value(b, s) + 0
    BY <2>1, <2>2, <2>4 DEF CallRight, LeqRight
  <2>5. a \in Level => l \in Level /\ \A s \in Valuation : Value(a, s) = Value(l, s)
    BY DEF CallRight, SimplifyRight
  <2>6. b \in Level => r \in Level /\ \A s \in Valuation : Value(b, s) = Value(r, s)
    BY DEF CallRight, SimplifyRight
  <2> HIDE DEF a, b
  <2>7. QED
    BY <2>3, <2>4, <2>5, <2>6, ValueType
<1>2. ASSUME NEW l \in LevelOrNone
      PROVE  /\ is_zero(at, l) \in Outcome
             /\ is_zero(at, l) \in {"yes", "no"} => l \in Level
             /\ is_zero(at, l) = "yes" => \A s \in Valuation : Value(l, s) = 0
  <2>1. Zero \in LevelOrNone
    BY Parts, Storing
  <2>2. l \in Level => \A s \in Valuation : Value(Zero, s) = 0 /\ Value(l, s) \in Nat
    BY ValueEquations, ValueType
  <2>3. QED
    BY <1>1, <2>1, <2>2 DEF is_zero
<1>3. ASSUME NEW l \in LevelOrNone
      PROVE  /\ is_one(at, l) \in Outcome
             /\ is_one(at, l) = "yes" => l \in Level /\ \A s \in Valuation : Value(l, s) = 1
  <2>1. CASE l.k = "succ"
    <3>0. l \in Level
      BY <2>1, Storing, Parts DEF Failure
    <3>1. PICK m \in Level : l = Succ(m) /\ l \in Level /\ m \in LevelOrNone
      BY <2>1, <3>0, Storing, Fields DEF Variant
    <3>2. is_one(at, l) = is_zero(at, m)
      BY <2>1, <3>1, Fields DEF is_one
    <3>3. \A s \in Valuation : Value(l, s) = Value(m, s) + 1
      BY <3>1, ValueEquations
    <3>4. QED
      BY <1>2, <3>1, <3>2, <3>3
  <2>2. CASE l.k # "succ"
    BY <2>2 DEF is_one, Outcome, Failure
  <2>3. QED
    BY <2>1, <2>2
<1>4. QED
  BY <1>1, <1>2, <1>3

\* An imax whose left side is at most one is its right side; one whose right side
\* is not zero is a max.
LEMMA SimplifyIMaxStep ==
  ASSUME NEW at, CallRight(at), NEW l \in LevelOrNone, NEW r \in LevelOrNone
  PROVE  /\ SimplifyIMax(at, l, r) \in LevelOrNone
         /\ SimplifyIMax(at, l, r) \in Level =>
              /\ l \in Level /\ r \in Level
              /\ \A s \in Valuation : Value(SimplifyIMax(at, l, r), s) = IMax2(Value(l, s), Value(r, s))
<1> DEFINE small == OrElse(is_zero(at, l), is_one(at, l))
           c == at.combining[<<l, r>>]
<1>1. /\ small \in Outcome
      /\ small \in {"yes", "no"} => l \in Level
      /\ small = "yes" => \A s \in Valuation : Value(l, s) \in {0, 1}
  BY TestsRight DEF OrElse, Outcome, Failure
<1>2. \A s \in Valuation : /\ l \in Level => Value(l, s) \in Nat
                           /\ r \in Level => Value(r, s) \in Nat
  BY ValueType
<1>3. CASE small = "yes"
  <2>1. SimplifyIMax(at, l, r) = r
    BY <1>3 DEF SimplifyIMax
  <2>2. QED
    BY <1>1, <1>2, <1>3, <2>1 DEF IMax2, Max2
<1>4. CASE small \in Failure
  <2>1. SimplifyIMax(at, l, r) \in NoLevel
    BY <1>4 DEF SimplifyIMax, Failure, NoLevel, Panic, Exhausted
  <2>2. QED
    BY <2>1, Parts, Storing
<1>5. CASE small = "no" /\ r = Zero
  <2>1. SimplifyIMax(at, l, r) = r /\ r \in Level
    BY <1>5, Fields, Parts DEF SimplifyIMax, Failure
  <2>2. \A s \in Valuation : Value(r, s) = 0
    BY <1>5, ValueEquations
  <2>3. QED
    BY <1>1, <1>5, <2>1, <2>2 DEF IMax2
<1>6. CASE small = "no" /\ r # Zero /\ r.k = "succ"
  <2>1. SimplifyIMax(at, l, r) = c
    BY <1>6 DEF SimplifyIMax, Failure
  <2>0. r \in Level
    BY <1>6, Storing, Parts DEF Failure
  <2>2. PICK m \in Level : r = Succ(m) /\ r \in Level
    BY <1>6, <2>0, Storing, Fields DEF Variant
  <2>3. \A s \in Valuation : Value(r, s) # 0
    BY <2>2, ValueEquations, ValueType
  <2>4. /\ c \in LevelOrNone
        /\ c \in Level => \A s \in Valuation : Value(c, s) = Max2(Value(l, s), Value(r, s))
    <3>1. <<l, r>> \in Two
      BY DEF Two
    <3>2. QED
      BY <3>1 DEF CallRight, CombiningRight
  <2> HIDE DEF c
  <2>5. QED
    BY <1>1, <1>6, <2>1, <2>2, <2>3, <2>4 DEF IMax2
<1>7. CASE small = "no" /\ r # Zero /\ r.k # "succ"
  <2>1. SimplifyIMax(at, l, r) = imax(l, r)
    BY <1>7 DEF SimplifyIMax, Failure
  <2>2. QED
    BY <2>1, Storing, Parts, ValueEquations
<1>8. QED
  BY <1>1, <1>3, <1>4, <1>5, <1>6, <1>7 DEF Outcome, Failure

\* Simplifying keeps what a level denotes.
LEMMA SimplifyStep ==
  ASSUME NEW at, CallRight(at), NEW l \in LevelOrNone
  PROVE  /\ simplify(at, l) \in LevelOrNone
         /\ simplify(at, l) \in Level =>
              l \in Level /\ \A s \in Valuation : Value(simplify(at, l), s) = Value(l, s)
<1>1. CASE l \in NoLevel \/ l = Zero \/ \E p \in Param : l = Var(p)
  <2>1. simplify(at, l) = l
    BY <1>1, Fields, Parts DEF simplify, Failure
  <2>2. QED
    BY <2>1
<1>2. \A m \in Level : /\ m \in LevelOrNone /\ at.simplify[m] \in LevelOrNone
                       /\ at.simplify[m] \in Level => \A s \in Valuation : Value(at.simplify[m], s) = Value(m, s)
  BY Storing DEF CallRight, SimplifyRight
<1>3. ASSUME NEW m \in Level, l = Succ(m), l \in Level
      PROVE  /\ simplify(at, l) \in LevelOrNone
             /\ simplify(at, l) \in Level => \A s \in Valuation : Value(simplify(at, l), s) = Value(l, s)
  <2> DEFINE a == at.simplify[m]
  <2>1. simplify(at, l) = succ(a)
    BY <1>3, Fields, Parts DEF simplify, Failure
  <2>2. succ(a) \in Level => a \in Level /\ succ(a) = Succ(a)
    BY Storing, Parts
  <2>3. a \in Level => \A s \in Valuation : Value(a, s) = Value(m, s)
    BY <1>2
  <2> HIDE DEF a
  <2>4. QED
    BY <1>3, <2>1, <2>2, <2>3, Storing, ValueEquations
<1>4. ASSUME NEW m \in Level, NEW n \in Level, l = Max(m, n) \/ l = IMax(m, n), l \in Level
      PROVE  /\ simplify(at, l) \in LevelOrNone
             /\ simplify(at, l) \in Level => \A s \in Valuation : Value(simplify(at, l), s) = Value(l, s)
  <2> DEFINE a == at.simplify[m]
             b == at.simplify[n]
             c == at.combining[<<a, b>>]
  <2>1. /\ a \in LevelOrNone /\ (a \in Level => \A s \in Valuation : Value(a, s) = Value(m, s))
        /\ b \in LevelOrNone /\ (b \in Level => \A s \in Valuation : Value(b, s) = Value(n, s))
    BY <1>2
  <2> HIDE DEF a, b
  <2>2. CASE l = Max(m, n)
    <3>1. simplify(at, l) = c
      BY <2>2, Fields DEF simplify, a, b
    <3>2. <<a, b>> \in Two
      BY <2>1 DEF Two
    <3>3. /\ c \in LevelOrNone
          /\ c \in Level => /\ a \in Level /\ b \in Level
                            /\ \A s \in Valuation : Value(c, s) = Max2(Value(a, s), Value(b, s))
      BY <2>1, <3>2 DEF CallRight, CombiningRight
    <3> HIDE DEF c
    <3>4. \A s \in Valuation : Value(l, s) = Max2(Value(m, s), Value(n, s))
      BY <1>4, <2>2, ValueEquations
    <3>5. QED
      BY <2>1, <3>1, <3>3, <3>4
  <2>3. CASE l = IMax(m, n)
    <3>1. simplify(at, l) = SimplifyIMax(at, a, b)
      BY <2>3, Fields DEF simplify, a, b
    <3>2. \A s \in Valuation : Value(l, s) = IMax2(Value(m, s), Value(n, s))
      BY <1>4, <2>3, ValueEquations
    <3>3. QED
      BY <2>1, <3>1, <3>2, SimplifyIMaxStep
  <2>4. QED
    BY <1>4, <2>2, <2>3
<1>5. QED
  BY <1>1, <1>3, <1>4, Storing DEF Variant

\* The first entry for a parameter is one of the values, if there is an entry.
Hits(l, ks, vs) == {i \in 1 .. Len(ks) : i <= Len(vs) /\ ks[i] = l}
First(I) == CHOOSE i \in I : \A j \in I : i <= j

\* The first entry is an entry.
LEMMA FirstHit ==
  ASSUME NEW l, NEW S, NEW ks \in Seq(LevelOrNone), NEW vs \in Seq(S), Hits(l, ks, vs) # {}
  PROVE  First(Hits(l, ks, vs)) \in Hits(l, ks, vs) /\ vs[First(Hits(l, ks, vs))] \in S
<1> DEFINE I == Hits(l, ks, vs)
<1>1. I \in SUBSET Nat
  BY DEF Hits
<1>2. \A i \in I : vs[i] \in S
  BY DEF Hits
<1> HIDE DEF I
<1>3. \E i \in I : \A j \in I : i <= j
  BY <1>1, Sets!LeastNat DEF I
<1>4. First(I) \in I
  BY <1>3 DEF First
<1>5. QED
  BY <1>2, <1>4 DEF I

\* Replacing parameters gives values to the parameters again.
LEMMA SubstitutedType ==
  ASSUME NEW ks \in Seq(LevelOrNone), NEW vs \in Seq(Level), NEW s \in Valuation
  PROVE  Substituted(ks, vs, s) \in Valuation
<1>1. ASSUME NEW p \in Param PROVE ReplacedBy(p, ks, vs, s) \in Nat
  <2>1. CASE Hits(Var(p), ks, vs) = {}
    <3>1. ReplacedBy(p, ks, vs, s) = s[p]
      BY <2>1 DEF ReplacedBy, Hits
    <3>2. QED
      BY <3>1 DEF Valuation
  <2>2. CASE Hits(Var(p), ks, vs) # {}
    <3>1. ReplacedBy(p, ks, vs, s) = Value(vs[First(Hits(Var(p), ks, vs))], s)
      BY <2>2 DEF ReplacedBy, Hits, First
    <3>2. QED
      BY <2>2, <3>1, FirstHit, ValueType
  <2>3. QED
    BY <2>1, <2>2
<1>2. QED
  BY <1>1 DEF Substituted, Valuation

\* A parameter becomes the level that denotes what the parameter is replaced by.
LEMMA SubstParamStep ==
  ASSUME NEW p \in Param, NEW ks \in Seq(LevelOrNone), NEW vs \in Seq(LevelOrNone)
  PROVE  /\ SubstParam(Var(p), ks, vs) \in LevelOrNone
         /\ vs \in Seq(Level) =>
              \A s \in Valuation : Value(SubstParam(Var(p), ks, vs), s) = Value(Var(p), Substituted(ks, vs, s))
<1>0. ASSUME vs \in Seq(Level), NEW s \in Valuation
      PROVE  Value(Var(p), Substituted(ks, vs, s)) = ReplacedBy(p, ks, vs, s)
  <2>1. Substituted(ks, vs, s) \in Valuation
    BY <1>0, SubstitutedType
  <2>2. Value(Var(p), Substituted(ks, vs, s)) = Substituted(ks, vs, s)[p]
    BY <2>1, ValueEquations
  <2>3. QED
    BY <2>2 DEF Substituted
<1>1. CASE Hits(Var(p), ks, vs) = {}
  <2>1. SubstParam(Var(p), ks, vs) = Var(p)
    BY <1>1 DEF SubstParam, Hits
  <2>2. \A s \in Valuation : ReplacedBy(p, ks, vs, s) = s[p]
    BY <1>1 DEF ReplacedBy, Hits
  <2>3. Var(p) \in LevelOrNone
    BY Parts, Storing
  <2>4. QED
    BY <1>0, <2>1, <2>2, <2>3, ValueEquations
<1>2. CASE Hits(Var(p), ks, vs) # {}
  <2> DEFINE v == vs[First(Hits(Var(p), ks, vs))]
  <2>1. SubstParam(Var(p), ks, vs) = v
    BY <1>2 DEF SubstParam, Hits, First
  <2>2. v \in LevelOrNone
    BY <1>2, FirstHit
  <2>3. \A s \in Valuation : ReplacedBy(p, ks, vs, s) = Value(v, s)
    BY <1>2 DEF ReplacedBy, Hits, First
  <2> HIDE DEF v
  <2>4. QED
    BY <1>0, <2>1, <2>2, <2>3
<1>3. QED
  BY <1>1, <1>2

\* Substituting in a level is giving the parameters the values of what replaces
\* them.
LEMMA SubstStep ==
  ASSUME NEW at, CallRight(at), NEW l \in LevelOrNone,
         NEW ks \in Seq(LevelOrNone), NEW vs \in Seq(LevelOrNone)
  PROVE  /\ subst_level(at, l, ks, vs) \in LevelOrNone
         /\ vs \in Seq(Level) /\ subst_level(at, l, ks, vs) \in Level =>
              /\ l \in Level
              /\ \A s \in Valuation :
                   Value(subst_level(at, l, ks, vs), s) = Value(l, Substituted(ks, vs, s))
<1> DEFINE res == subst_level(at, l, ks, vs)
           Part(m) == at.subst_level[<<m, ks, vs>>]
           Sub(s) == Substituted(ks, vs, s)
           Goal == /\ res \in LevelOrNone
                   /\ vs \in Seq(Level) /\ res \in Level =>
                        l \in Level /\ \A s \in Valuation : Value(res, s) = Value(l, Sub(s))
<1>1. \A m \in Level : /\ Part(m) \in LevelOrNone
                       /\ vs \in Seq(Level) /\ Part(m) \in Level =>
                            \A s \in Valuation : Value(Part(m), s) = Value(m, Sub(s))
  <2>1. \A m \in Level : m \in LevelOrNone /\ <<m, ks, vs>> \in Replacing
    BY Storing DEF Replacing
  <2>2. QED
    BY <2>1 DEF CallRight, SubstRight
<1>2. vs \in Seq(Level) => \A s \in Valuation : Sub(s) \in Valuation
  BY SubstitutedType
<1> HIDE DEF Sub
<1>3. CASE l \in NoLevel \/ l = Zero
  <2>1. res = l
    BY <1>3, Fields, Parts DEF subst_level, Failure
  <2>2. QED
    BY <1>2, <1>3, <2>1, Parts, ValueEquations DEF Sub
<1>4. ASSUME NEW p \in Param, l = Var(p) PROVE Goal
  <2>1. res = SubstParam(l, ks, vs)
    BY <1>4, Fields, Parts DEF subst_level, Failure
  <2>2. QED
    BY <1>4, <2>1, SubstParamStep, Parts DEF Sub
<1>5. ASSUME NEW m \in Level, l = Succ(m), l \in Level PROVE Goal
  <2> DEFINE a == Part(m)
  <2>1. res = succ(a)
    BY <1>5, Fields, Parts DEF subst_level, Failure
  <2>2. succ(a) \in Level => a \in Level /\ succ(a) = Succ(a)
    BY Storing, Parts
  <2>3. vs \in Seq(Level) /\ a \in Level => \A s \in Valuation : Value(a, s) = Value(m, Sub(s))
    BY <1>1
  <2> HIDE DEF a, res
  <2>4. QED
    BY <1>2, <1>5, <2>1, <2>2, <2>3, Storing, ValueEquations
<1>6. ASSUME NEW m \in Level, NEW n \in Level, l = Max(m, n) \/ l = IMax(m, n), l \in Level PROVE Goal
  <2> DEFINE a == Part(m)
             b == Part(n)
  <2>1. /\ vs \in Seq(Level) /\ a \in Level => \A s \in Valuation : Value(a, s) = Value(m, Sub(s))
        /\ vs \in Seq(Level) /\ b \in Level => \A s \in Valuation : Value(b, s) = Value(n, Sub(s))
    BY <1>1
  <2>2. CASE l = Max(m, n)
    <3>1. res = max(a, b)
      <4>1. l.k = "max" /\ l.l = m /\ l.r = n
        BY <2>2, Fields
      <4>2. QED
        BY <4>1 DEF subst_level, Failure
    <3>2. max(a, b) \in Level => a \in Level /\ b \in Level /\ max(a, b) = Max(a, b)
      BY Storing, Parts
    <3> HIDE DEF a, b, res
    <3>3. QED
      BY <1>2, <1>6, <2>1, <2>2, <3>1, <3>2, Storing, ValueEquations
  <2>3. CASE l = IMax(m, n)
    <3>1. res = imax(a, b)
      <4>1. l.k = "imax" /\ l.l = m /\ l.r = n
        BY <2>3, Fields
      <4>2. QED
        BY <4>1 DEF subst_level, Failure
    <3>2. imax(a, b) \in Level => a \in Level /\ b \in Level /\ imax(a, b) = IMax(a, b)
      BY Storing, Parts
    <3> HIDE DEF a, b, res
    <3>3. QED
      BY <1>2, <1>6, <2>1, <2>3, <3>1, <3>2, Storing, ValueEquations
  <2>4. QED
    BY <1>6, <2>2, <2>3
<1>7. QED
  BY <1>3, <1>4, <1>5, <1>6, Storing DEF Variant, Sub

\* One parameter is replaced and the others keep their values.
LEMMA SubstitutedOne ==
  ASSUME NEW p \in Param, NEW v \in Level, NEW s \in Valuation
  PROVE  Substituted(<<Var(p)>>, <<v>>, s) = [s EXCEPT ![p] = Value(v, s)]
<1> DEFINE ks == <<Var(p)>>
           vs == <<v>>
<1>1. Len(ks) = 1 /\ Len(vs) = 1 /\ ks[1] = Var(p) /\ vs[1] = v
  OBVIOUS
<1> HIDE DEF ks, vs
<1>2. ReplacedBy(p, ks, vs, s) = Value(v, s)
  <2> DEFINE I == {i \in 1 .. Len(ks) : i <= Len(vs) /\ ks[i] = Var(p)}
  <2>1. I = {1}
    BY <1>1
  <2>2. (CHOOSE i \in I : \A j \in I : i <= j) = 1
    BY <2>1
  <2>3. QED
    BY <1>1, <2>1, <2>2 DEF ReplacedBy
<1>3. ASSUME NEW q \in Param, q # p PROVE ReplacedBy(q, ks, vs, s) = s[q]
  <2>1. Var(p) # Var(q)
    BY <1>3, Fields
  <2>2. {i \in 1 .. Len(ks) : i <= Len(vs) /\ ks[i] = Var(q)} = {}
    BY <1>1, <2>1
  <2>3. QED
    BY <2>2 DEF ReplacedBy
<1>4. Substituted(ks, vs, s) = [s EXCEPT ![p] = Value(v, s)]
  BY <1>2, <1>3 DEF Substituted, Valuation
<1>5. QED
  BY <1>4 DEF ks, vs

\* To compare for the parameter at 0 and at a successor is to compare for every
\* value of it.
LEMMA ByCasesStep ==
  ASSUME NEW at, CallRight(at), NEW p \in Param, NEW l \in Level, NEW r \in Level, NEW diff \in Int
  PROVE  /\ leq_imax_by_cases(at, Var(p), l, r, diff) \in Outcome
         /\ leq_imax_by_cases(at, Var(p), l, r, diff) = "yes" =>
              \A s \in Valuation : Value(l, s) <= Value(r, s) + diff
<1> DEFINE At(m, v) == subst_simp(at, m, <<Var(p)>>, <<v>>)
           Case(v) == at.leq_core[<<At(l, v), At(r, v), diff>>]
           up == succ(Var(p))
           res == leq_imax_by_cases(at, Var(p), l, r, diff)
           failed == {up, At(l, Zero), At(r, Zero), At(l, up), At(r, up)} \cap NoLevel
<1>1. Zero \in Level /\ Var(p) \in Level /\ Level \subseteq LevelOrNone /\ up \in LevelOrNone
  BY Parts, Storing
<1>2. ASSUME NEW m \in Level, NEW v \in LevelOrNone
      PROVE  /\ At(m, v) \in LevelOrNone
             /\ v \in Level /\ At(m, v) \in Level =>
                  \A s \in Valuation : Value(At(m, v), s) = Value(m, [s EXCEPT ![p] = Value(v, s)])
  <2> DEFINE b == at.subst_level[<<m, <<Var(p)>>, <<v>>>>]
  <2>1. <<Var(p)>> \in Seq(LevelOrNone) /\ <<v>> \in Seq(LevelOrNone) /\ (v \in Level => <<v>> \in Seq(Level))
    BY <1>1
  <2>2. /\ b \in LevelOrNone
        /\ v \in Level /\ b \in Level =>
             \A s \in Valuation : Value(b, s) = Value(m, Substituted(<<Var(p)>>, <<v>>, s))
    <3>1. m \in LevelOrNone
      BY <1>1
    <3> HIDE DEF Substituted
    <3>2. <<m, <<Var(p)>>, <<v>>>> \in Replacing
      BY <2>1, <3>1 DEF Replacing
    <3>3. QED
      BY <2>1, <3>1, <3>2 DEF CallRight, SubstRight
  <2>3. At(m, v) = at.simplify[b]
    BY DEF subst_simp
  <2> HIDE DEF At, b
  <2>4. /\ at.simplify[b] \in LevelOrNone
        /\ at.simplify[b] \in Level => b \in Level /\ \A s \in Valuation : Value(at.simplify[b], s) = Value(b, s)
    BY <2>2 DEF CallRight, SimplifyRight
  <2>5. QED
    BY <2>2, <2>3, <2>4, SubstitutedOne
<1>3. /\ failed = {} => res = AndThen(Case(Zero), Case(up))
      /\ failed # {} => res \in Failure
  BY Parts DEF leq_imax_by_cases
<1> HIDE DEF At, res
<1>4. ASSUME NEW v \in LevelOrNone
      PROVE  /\ Case(v) \in Outcome
             /\ Case(v) = "yes" =>
                  /\ At(l, v) \in Level /\ At(r, v) \in Level
                  /\ \A s \in Valuation : Value(At(l, v), s) <= Value(At(r, v), s) + diff
  <2>1. At(l, v) \in LevelOrNone /\ At(r, v) \in LevelOrNone
    BY <1>2
  <2>2. <<At(l, v), At(r, v), diff>> \in Compared
    BY <2>1 DEF Compared
  <2>3. QED
    BY <2>1, <2>2 DEF CallRight, LeqRight
<1> HIDE DEF Case
<1>5. res \in Outcome
  BY <1>1, <1>3, <1>4 DEF AndThen, Outcome, Failure
<1>6. ASSUME res = "yes", NEW s \in Valuation PROVE Value(l, s) <= Value(r, s) + diff
  <2>1. up \notin NoLevel /\ Case(Zero) = "yes" /\ Case(up) = "yes"
    <3>1. failed = {}
      BY <1>3, <1>6 DEF Failure
    <3>2. QED
      BY <1>3, <1>6, <3>1 DEF AndThen
  <2>2. ASSUME NEW v \in Level, Case(v) = "yes", NEW t \in Valuation
        PROVE  Value(l, [t EXCEPT ![p] = Value(v, t)]) <= Value(r, [t EXCEPT ![p] = Value(v, t)]) + diff
    BY <1>1, <1>2, <1>4, <2>2
  <2>3. CASE s[p] = 0
    <3>1. Value(Zero, s) = 0 /\ [s EXCEPT ![p] = 0] = s
      BY <2>3, ValueEquations DEF Valuation
    <3>2. QED
      BY <1>1, <2>1, <2>2, <3>1
  <2>4. CASE s[p] # 0
    <3> DEFINE t == [s EXCEPT ![p] = s[p] - 1]
    <3>1. s[p] \in Nat /\ s[p] - 1 \in Nat
      BY <2>4 DEF Valuation
    <3>2. t \in Valuation /\ t[p] = s[p] - 1
      BY <3>1 DEF Valuation
    <3>3. up = Succ(Var(p)) /\ up \in Level
      BY <1>1, <2>1, Storing
    <3>4. Value(up, t) = s[p]
      BY <3>1, <3>2, <3>3, ValueEquations
    <3>5. [t EXCEPT ![p] = s[p]] = s
      BY DEF Valuation
    <3> HIDE DEF t
    <3>6. QED
      BY <2>1, <2>2, <3>2, <3>3, <3>4, <3>5
  <2>5. QED
    BY <2>3, <2>4
<1>7. QED
  BY <1>5, <1>6 DEF res

\* An imax over an imax or a max is a max of two imaxes.
LEMMA IMaxDistributes ==
  \A a, x, y \in Nat :
    /\ IMax2(a, IMax2(x, y)) = Max2(IMax2(a, y), IMax2(x, y))
    /\ IMax2(a, Max2(x, y)) = Max2(IMax2(a, x), IMax2(a, y))
BY DEF IMax2, Max2

\* Distributing keeps what a level denotes.
LEMMA DistributedStep ==
  ASSUME NEW at, CallRight(at), NEW l \in Level, l.k = "imax", IsAnyMax(l.r)
  PROVE  /\ Distributed(at, l) \in LevelOrNone
         /\ Distributed(at, l) \in Level => \A s \in Valuation : Value(Distributed(at, l), s) = Value(l, s)
<1> DEFINE res == Distributed(at, l)
<1>1. PICK a \in Level, b \in Level : l = IMax(a, b)
  BY Parts, Fields DEF Variant
<1>2. l.l = a /\ l.r = b /\ b.k \in {"max", "imax"}
  BY <1>1, Fields DEF IsAnyMax
<1>3. PICK x \in Level, y \in Level : b = Max(x, y) \/ b = IMax(x, y)
  BY <1>2, Parts, Fields DEF Variant
<1>4. \A s \in Valuation : Value(a, s) \in Nat /\ Value(x, s) \in Nat /\ Value(y, s) \in Nat
  BY ValueType
<1>5. CASE b = IMax(x, y)
  <2> DEFINE m == imax(a, y)
             n == imax(x, y)
  <2>1. res = max(m, n)
    BY <1>2, <1>5, Fields DEF Distributed
  <2>2. max(m, n) \in Level => m \in Level /\ n \in Level /\ max(m, n) = Max(m, n)
    BY Storing, Parts
  <2>3. /\ m \in Level => m = IMax(a, y)
        /\ n \in Level => n = IMax(x, y)
    BY Storing
  <2>4. ASSUME res \in Level, NEW s \in Valuation PROVE Value(res, s) = Value(l, s)
    <3>1. Value(res, s) = Max2(IMax2(Value(a, s), Value(y, s)), IMax2(Value(x, s), Value(y, s)))
      BY <2>1, <2>2, <2>3, <2>4, ValueEquations
    <3>2. Value(l, s) = IMax2(Value(a, s), IMax2(Value(x, s), Value(y, s)))
      BY <1>1, <1>5, ValueEquations
    <3>3. QED
      BY <1>4, <3>1, <3>2, IMaxDistributes
  <2>5. QED
    BY <2>1, <2>4, Storing
<1>6. CASE b = Max(x, y)
  <2> DEFINE m == imax(a, x)
             n == imax(a, y)
             c == max(m, n)
  <2>1. res = at.simplify[c]
    BY <1>2, <1>6, Fields DEF Distributed
  <2>2. c \in LevelOrNone
    BY Storing
  <2>3. /\ at.simplify[c] \in LevelOrNone
        /\ at.simplify[c] \in Level => c \in Level /\ \A s \in Valuation : Value(at.simplify[c], s) = Value(c, s)
    BY <2>2 DEF CallRight, SimplifyRight
  <2>4. c \in Level => m \in Level /\ n \in Level /\ c = Max(m, n)
    BY Storing, Parts
  <2>5. /\ m \in Level => m = IMax(a, x)
        /\ n \in Level => n = IMax(a, y)
    BY Storing
  <2> HIDE DEF c, m, n
  <2>6. ASSUME res \in Level, NEW s \in Valuation PROVE Value(res, s) = Value(l, s)
    <3>1. Value(res, s) = Max2(IMax2(Value(a, s), Value(x, s)), IMax2(Value(a, s), Value(y, s)))
      BY <2>1, <2>3, <2>4, <2>5, <2>6, ValueEquations
    <3>2. Value(l, s) = IMax2(Value(a, s), Max2(Value(x, s), Value(y, s)))
      BY <1>1, <1>6, ValueEquations
    <3>3. QED
      BY <1>4, <3>1, <3>2, IMaxDistributes
  <2>7. QED
    BY <2>1, <2>3, <2>6
<1>7. QED
  BY <1>3, <1>5, <1>6

\* What is claimed of a comparison.
Holds(res, l, r, diff) ==
  /\ res \in Outcome
  /\ res = "yes" => \A s \in Valuation : Value(l, s) <= Value(r, s) + diff

\* Comparisons with a max or an imax.
LEMMA LeqMaxStep ==
  ASSUME NEW at, CallRight(at), NEW l \in Level, NEW r \in Level, NEW diff \in Int
  PROVE  Holds(leq_max(at, l, r, diff), l, r, diff)
<1> DEFINE res == leq_max(at, l, r, diff)
           A == l.k = "max"
           B == l.k # "imax" /\ r.k = "max"
           C == l.k = "imax" /\ l = r /\ diff >= 0
           D == l.k = "imax" /\ IsParam(l.r)
           E == r.k = "imax" /\ IsParam(r.r)
           F == l.k = "imax" /\ IsAnyMax(l.r)
           G == r.k = "imax" /\ IsAnyMax(r.r)
<1>1. ASSUME NEW m \in LevelOrNone, NEW n \in LevelOrNone
      PROVE  /\ at.leq_core[<<m, n, diff>>] \in Outcome
             /\ at.leq_core[<<m, n, diff>>] = "yes" =>
                  m \in Level /\ n \in Level /\ \A s \in Valuation : Value(m, s) <= Value(n, s) + diff
  <2>1. <<m, n, diff>> \in Compared
    BY DEF Compared
  <2>2. QED
    BY <2>1 DEF CallRight, LeqRight
<1>2. /\ Level \subseteq LevelOrNone
      /\ \A s \in Valuation : Value(l, s) \in Nat /\ Value(r, s) \in Nat
  BY Storing, ValueType
<1>3. \A m \in Level : m.k = "imax" => \E a, b \in Level : m = IMax(a, b) /\ m.r = b
  BY Parts, Fields DEF Variant
<1>4. \A m \in Level : m.k = "param" => \E p \in Param : m = Var(p)
  BY Parts, Fields DEF Variant
<1>5. CASE A
  <2>1. PICK m \in Level, n \in Level : l = Max(m, n)
    BY <1>5, Parts, Fields DEF Variant
  <2>2. res = AndThen(at.leq_core[<<m, r, diff>>], at.leq_core[<<n, r, diff>>])
    BY <1>5, <2>1, Fields DEF leq_max
  <2>3. \A s \in Valuation : Value(l, s) = Max2(Value(m, s), Value(n, s))
    BY <2>1, ValueEquations
  <2>4. res \in Outcome /\ (res = "yes" => at.leq_core[<<m, r, diff>>] = "yes" /\ at.leq_core[<<n, r, diff>>] = "yes")
    BY <1>1, <1>2, <2>2 DEF AndThen
  <2>5. QED
    BY <1>1, <1>2, <2>3, <2>4 DEF Holds, Max2
<1>6. CASE ~ A /\ B
  <2>1. PICK m \in Level, n \in Level : r = Max(m, n)
    BY <1>6, Parts, Fields DEF Variant
  <2>2. res = OrElse(at.leq_core[<<l, m, diff>>], at.leq_core[<<l, n, diff>>])
    BY <1>6, <2>1, Fields DEF leq_max
  <2>3. \A s \in Valuation : /\ Value(r, s) = Max2(Value(m, s), Value(n, s))
                             /\ Value(m, s) \in Nat /\ Value(n, s) \in Nat
    BY <2>1, ValueEquations, ValueType
  <2>4. res \in Outcome /\ (res = "yes" => at.leq_core[<<l, m, diff>>] = "yes" \/ at.leq_core[<<l, n, diff>>] = "yes")
    BY <1>1, <1>2, <2>2 DEF OrElse
  <2>5. QED
    BY <1>1, <1>2, <2>3, <2>4 DEF Holds, Max2
<1>7. CASE ~ A /\ ~ B /\ C
  <2>1. res = "yes"
    BY <1>7 DEF leq_max
  <2>2. QED
    BY <1>2, <1>7, <2>1 DEF Holds, Outcome, Failure
<1>8. CASE ~ A /\ ~ B /\ ~ C /\ D
  <2>1. res = leq_imax_by_cases(at, l.r, l, r, diff)
    BY <1>8 DEF leq_max
  <2>2. \E p \in Param : l.r = Var(p)
    BY <1>3, <1>4, <1>8 DEF IsParam
  <2>3. QED
    BY <2>1, <2>2, ByCasesStep DEF Holds
<1>9. CASE ~ A /\ ~ B /\ ~ C /\ ~ D /\ E
  <2>1. res = leq_imax_by_cases(at, r.r, l, r, diff)
    BY <1>9 DEF leq_max
  <2>2. \E p \in Param : r.r = Var(p)
    BY <1>3, <1>4, <1>9 DEF IsParam
  <2>3. QED
    BY <2>1, <2>2, ByCasesStep DEF Holds
<1>10. CASE ~ A /\ ~ B /\ ~ C /\ ~ D /\ ~ E /\ F
  <2> DEFINE d == Distributed(at, l)
  <2>1. res = at.leq_core[<<d, r, diff>>]
    BY <1>10 DEF leq_max
  <2>2. d \in LevelOrNone /\ (d \in Level => \A s \in Valuation : Value(d, s) = Value(l, s))
    BY <1>10, DistributedStep
  <2> HIDE DEF d
  <2>3. QED
    BY <1>1, <1>2, <2>1, <2>2 DEF Holds
<1>11. CASE ~ A /\ ~ B /\ ~ C /\ ~ D /\ ~ E /\ ~ F /\ G
  <2> DEFINE d == Distributed(at, r)
  <2>1. res = at.leq_core[<<l, d, diff>>]
    BY <1>11 DEF leq_max
  <2>2. d \in LevelOrNone /\ (d \in Level => \A s \in Valuation : Value(d, s) = Value(r, s))
    BY <1>11, DistributedStep
  <2> HIDE DEF d
  <2>3. QED
    BY <1>1, <1>2, <2>1, <2>2 DEF Holds
<1>12. CASE ~ A /\ ~ B /\ ~ C /\ ~ D /\ ~ E /\ ~ F /\ ~ G
  <2>1. res = "panic"
    BY <1>12 DEF leq_max
  <2>2. QED
    BY <2>1 DEF Holds, Outcome, Failure
<1>13. QED
  BY <1>5, <1>6, <1>7, <1>8, <1>9, <1>10, <1>11, <1>12

\* A comparison that answers was given levels, and what it accepts holds.
LEMMA LeqStep ==
  ASSUME NEW at, CallRight(at), NEW l \in LevelOrNone, NEW r \in LevelOrNone, NEW diff \in Int
  PROVE  /\ leq_core(at, l, r, diff) \in Outcome
         /\ leq_core(at, l, r, diff) \in {"yes", "no"} =>
              /\ l \in Level /\ r \in Level
              /\ leq_core(at, l, r, diff) = "yes" => \A s \in Valuation : Value(l, s) <= Value(r, s) + diff
<1> DEFINE res == leq_core(at, l, r, diff)
           A == l = Zero /\ diff >= 0
           B == r = Zero /\ diff < 0
           C == {l.k, r.k} \subseteq {"zero", "param"}
<1>1. ASSUME l \in NoLevel \/ r \in NoLevel PROVE res \in Failure
  BY <1>1, Parts DEF leq_core
<1>2. ASSUME l \notin NoLevel, r \notin NoLevel PROVE l \in Level /\ r \in Level /\ Holds(res, l, r, diff)
  <2>1. l \in Level /\ r \in Level
    BY <1>2, Storing
  <2>2. \A s \in Valuation : Value(l, s) \in Nat /\ Value(r, s) \in Nat
    BY <2>1, ValueType
  <2> SUFFICES Holds(res, l, r, diff)
    BY <2>1
  <2>3. CASE A
    <3>1. \A s \in Valuation : Value(l, s) = 0
      BY <2>3, ValueEquations
    <3>2. res = "yes"
      BY <1>2, <2>3 DEF leq_core
    <3>3. QED
      BY <2>2, <2>3, <3>1, <3>2 DEF Holds, Outcome, Failure
  <2>4. CASE ~ A /\ B
    <3>1. res = "no"
      BY <1>2, <2>4 DEF leq_core
    <3>2. QED
      BY <3>1 DEF Holds, Outcome, Failure
  <2>5. CASE ~ A /\ ~ B /\ C
    <3>1. res = YesNo(IsParam(l) /\ l = r /\ diff >= 0)
      BY <1>2, <2>5 DEF leq_core
    <3>2. QED
      BY <2>2, <3>1 DEF Holds, Outcome, Failure, YesNo
  <2>6. CASE ~ A /\ ~ B /\ ~ C /\ l.k = "succ"
    <3>1. PICK m \in Level : l = Succ(m)
      BY <2>1, <2>6, Parts, Fields DEF Variant
    <3>2. res = at.leq_core[<<m, r, diff - 1>>]
      BY <1>2, <2>6, <3>1, Fields DEF leq_core
    <3>3. m \in LevelOrNone /\ diff - 1 \in Int /\ <<m, r, diff - 1>> \in Compared
      BY Storing DEF Compared
    <3>4. /\ res \in Outcome
          /\ res = "yes" => \A s \in Valuation : Value(m, s) <= Value(r, s) + (diff - 1)
      BY <3>2, <3>3 DEF CallRight, LeqRight
    <3>5. \A s \in Valuation : Value(l, s) = Value(m, s) + 1 /\ Value(m, s) \in Nat
      BY <2>1, <3>1, ValueEquations, ValueType
    <3>6. QED
      BY <2>2, <3>4, <3>5 DEF Holds
  <2>7. CASE ~ A /\ ~ B /\ ~ C /\ l.k # "succ" /\ r.k = "succ"
    <3>1. PICK m \in Level : r = Succ(m)
      BY <2>1, <2>7, Parts, Fields DEF Variant
    <3>2. res = at.leq_core[<<l, m, diff + 1>>]
      BY <1>2, <2>7, <3>1, Fields DEF leq_core
    <3>3. m \in LevelOrNone /\ diff + 1 \in Int /\ <<l, m, diff + 1>> \in Compared
      BY Storing DEF Compared
    <3>4. /\ res \in Outcome
          /\ res = "yes" => \A s \in Valuation : Value(l, s) <= Value(m, s) + (diff + 1)
      BY <3>2, <3>3 DEF CallRight, LeqRight
    <3>5. \A s \in Valuation : Value(r, s) = Value(m, s) + 1 /\ Value(m, s) \in Nat
      BY <2>1, <3>1, ValueEquations, ValueType
    <3>6. QED
      BY <2>2, <3>4, <3>5 DEF Holds
  <2>8. CASE ~ A /\ ~ B /\ ~ C /\ l.k # "succ" /\ r.k # "succ"
    <3>1. res = leq_max(at, l, r, diff)
      BY <1>2, <2>8 DEF leq_core
    <3>2. QED
      BY <2>1, <3>1, LeqMaxStep
  <2>9. QED
    BY <2>1, <2>3, <2>4, <2>5, <2>6, <2>7, <2>8
<1>3. QED
  BY <1>1, <1>2 DEF Holds, Outcome, Failure

------------------------------------------------------------------------------
(***************************************************************************)
(* No call panics                                                          *)
(***************************************************************************)
\* Simplified levels: on the right of an imax is a parameter, a max or another
\* imax, in every part.
NotFlat == {"param", "max", "imax"}
Closed(S) ==
  \A l \in S : /\ l.k = "succ" => l.of \in S
               /\ l.k \in {"max", "imax"} => l.l \in S /\ l.r \in S
               /\ l.k = "imax" => l.r.k \in NotFlat
Simple == {l \in Level : \E S \in SUBSET Level : l \in S /\ Closed(S)}

Fine == Level \cup {Exhausted}
Simplified == Simple \cup {Exhausted}

\* How simplified levels are built.
LEMMA SimpleBuilt ==
  /\ Zero \in Simple /\ \A p \in Param : Var(p) \in Simple
  /\ \A l \in Simple : Succ(l) \in Level => Succ(l) \in Simple
  /\ \A l, r \in Simple : Max(l, r) \in Level => Max(l, r) \in Simple
  /\ \A l, r \in Simple : r.k \in NotFlat /\ IMax(l, r) \in Level => IMax(l, r) \in Simple
<1>1. ASSUME NEW l \in Level, l = Zero \/ \E p \in Param : l = Var(p) PROVE l \in Simple
  <2>1. Closed({l})
    BY <1>1, Fields DEF Closed
  <2>2. QED
    BY <2>1 DEF Simple
<1>2. ASSUME NEW l \in Simple, Succ(l) \in Level PROVE Succ(l) \in Simple
  <2>1. PICK S \in SUBSET Level : l \in S /\ Closed(S)
    BY DEF Simple
  <2>2. Closed(S \cup {Succ(l)})
    BY <2>1, Fields DEF Closed
  <2>3. QED
    BY <1>2, <2>1, <2>2 DEF Simple
<1>3. ASSUME NEW l \in Simple, NEW r \in Simple, NEW m \in Level,
             m = Max(l, r) \/ (m = IMax(l, r) /\ r.k \in NotFlat)
      PROVE  m \in Simple
  <2>1. PICK S \in SUBSET Level : l \in S /\ Closed(S)
    BY DEF Simple
  <2>2. PICK T \in SUBSET Level : r \in T /\ Closed(T)
    BY DEF Simple
  <2>3. m.k \in {"max", "imax"} /\ m.l = l /\ m.r = r
    BY <1>3, Fields
  <2>4. m.k = "imax" => m.r.k \in NotFlat
    BY <1>3, Fields
  <2>5. Closed(S \cup T \cup {m})
    BY <2>1, <2>2, <2>3, <2>4 DEF Closed
  <2>6. S \cup T \cup {m} \in SUBSET Level
    OBVIOUS
  <2>7. QED
    BY <2>5, <2>6 DEF Simple
<1>4. QED
  BY <1>1, <1>2, <1>3, Parts

\* The parts of simplified levels are simplified.
LEMMA SimpleParts ==
  /\ Simple \subseteq Level
  /\ \A l : Succ(l) \in Simple => l \in Simple
  /\ \A l, r : Max(l, r) \in Simple => l \in Simple /\ r \in Simple
  /\ \A l, r : IMax(l, r) \in Simple => l \in Simple /\ r \in Simple /\ r.k \in NotFlat
<1>1. ASSUME NEW l \in Simple
      PROVE  /\ l.k = "succ" => l.of \in Simple
             /\ l.k \in {"max", "imax"} => l.l \in Simple /\ l.r \in Simple
             /\ l.k = "imax" => l.r.k \in NotFlat
  <2>1. PICK S \in SUBSET Level : l \in S /\ Closed(S)
    BY DEF Simple
  <2>2. S \subseteq Simple
    BY <2>1 DEF Simple
  <2>3. QED
    BY <2>1, <2>2 DEF Closed
<1>2. QED
  BY <1>1, Fields DEF Simple

\* Memory that is exhausted is all that stands in the way of a level.
LEMMA StoringFine ==
  /\ \A l \in Fine : succ(l) \in Fine
  /\ \A l, r \in Fine : max(l, r) \in Fine /\ imax(l, r) \in Fine
  /\ \A l \in Simplified : succ(l) \in Simplified
  /\ \A l, r \in Simplified : max(l, r) \in Simplified
  /\ \A l, r \in Simplified : r.k \in NotFlat \/ r = Exhausted => imax(l, r) \in Simplified
  /\ Simplified \subseteq Fine /\ Fine \subseteq LevelOrNone
<1>1. ASSUME NEW m, NEW l, NEW r, Stored(m, l, r) \notin Level, l # Panic, r # Panic
      PROVE  Stored(m, l, r) = Exhausted
  BY <1>1 DEF Stored, NoLevel
<1>2. Panic \notin Fine
  BY Parts, Storing, Fields DEF Fine
<1>3. Simplified \subseteq Fine /\ Fine \subseteq LevelOrNone
  BY SimpleParts, Storing DEF Simplified, Fine
<1>4. ASSUME NEW l \in Fine
      PROVE  succ(l) \in Fine /\ (l \in Simplified => succ(l) \in Simplified)
  <2>1. succ(l) \in Level \/ succ(l) = Exhausted
    BY <1>1, <1>2 DEF succ
  <2>2. succ(l) \in Level => succ(l) = Succ(l) /\ l \in Level
    BY Storing
  <2>3. l \in Simplified /\ l \in Level => l \in Simple
    BY Parts, Storing DEF Simplified
  <2>4. QED
    BY <2>1, <2>2, <2>3, SimpleBuilt DEF Fine, Simplified
<1>5. ASSUME NEW l \in Fine, NEW r \in Fine
      PROVE  /\ max(l, r) \in Fine /\ imax(l, r) \in Fine
             /\ l \in Simplified /\ r \in Simplified =>
                  /\ max(l, r) \in Simplified
                  /\ r.k \in NotFlat \/ r = Exhausted => imax(l, r) \in Simplified
  <2>1. /\ max(l, r) \in Level \/ max(l, r) = Exhausted
        /\ imax(l, r) \in Level \/ imax(l, r) = Exhausted
    BY <1>1, <1>2 DEF max, imax
  <2>2. /\ max(l, r) \in Level => max(l, r) = Max(l, r) /\ l \in Level /\ r \in Level
        /\ imax(l, r) \in Level => imax(l, r) = IMax(l, r) /\ l \in Level /\ r \in Level
    BY Storing
  <2>3. /\ l \in Simplified /\ l \in Level => l \in Simple
        /\ r \in Simplified /\ r \in Level => r \in Simple
        /\ Exhausted \notin Level
    BY Parts, Storing DEF Simplified
  <2>4. QED
    BY <2>1, <2>2, <2>3, SimpleBuilt DEF Fine, Simplified
<1>6. QED
  BY <1>3, <1>4, <1>5

\* What a call returns if it does not panic, given what it is given by callers.
CallTotal(at) ==
  /\ \A l, r \in Simplified : at.combining[<<l, r>>] \in Simplified
  /\ \A l \in Fine : at.simplify[l] \in Simplified
  /\ \A l \in Fine, ks \in Seq(LevelOrNone), vs \in Seq(Fine) : at.subst_level[<<l, ks, vs>>] \in Fine
  /\ \A l, r \in Simplified, diff \in Int : at.leq_core[<<l, r, diff>>] # "panic"

\* The kinds of simplified levels.
LEMMA SimpleKinds ==
  \A l \in Simplified :
    \/ l = Exhausted \/ l = Zero \/ \E p \in Param : l = Var(p)
    \/ \E m \in Simple : l = Succ(m) /\ l \in Level
    \/ \E m, n \in Simple : l = Max(m, n) /\ l \in Level
    \/ \E m, n \in Simple : l = IMax(m, n) /\ l \in Level /\ n.k \in NotFlat
<1> SUFFICES ASSUME NEW l \in Simple
             PROVE  \/ l = Zero \/ \E p \in Param : l = Var(p)
                    \/ \E m \in Simple : l = Succ(m)
                    \/ \E m, n \in Simple : l = Max(m, n)
                    \/ \E m, n \in Simple : l = IMax(m, n) /\ n.k \in NotFlat
  BY SimpleParts DEF Simplified
<1>1. Variant(l, Level)
  BY SimpleParts, Parts
<1>2. QED
  BY <1>1, SimpleParts DEF Variant

\* Combining simplified levels gives a simplified level.
LEMMA CombiningTotal ==
  ASSUME NEW at, CallTotal(at), NEW l \in Simplified, NEW r \in Simplified
  PROVE  combining(at, l, r) \in Simplified
<1>1. CASE l = Zero \/ r = Zero
  BY <1>1 DEF combining
<1>2. CASE l # Zero /\ r # Zero /\ l.k = "succ" /\ r.k = "succ"
  <2>1. PICK m \in Simple : l = Succ(m)
    BY <1>2, SimpleKinds, Fields
  <2>2. PICK n \in Simple : r = Succ(n)
    BY <1>2, SimpleKinds, Fields
  <2>3. combining(at, l, r) = succ(at.combining[<<m, n>>])
    BY <1>2, <2>1, <2>2, Fields DEF combining
  <2>4. at.combining[<<m, n>>] \in Simplified
    BY DEF CallTotal, Simplified
  <2>5. QED
    BY <2>3, <2>4, StoringFine
<1>3. CASE l # Zero /\ r # Zero /\ ~ (l.k = "succ" /\ r.k = "succ")
  <2>1. combining(at, l, r) = max(l, r)
    BY <1>3 DEF combining
  <2>2. QED
    BY <2>1, StoringFine
<1>4. QED
  BY <1>1, <1>2, <1>3

\* The tests do not panic.
LEMMA TestsTotal ==
  ASSUME NEW at, CallTotal(at)
  PROVE  /\ \A l, r \in Fine : leq(at, l, r) # "panic"
         /\ \A l \in Fine : is_zero(at, l) # "panic" /\ is_one(at, l) # "panic"
<1>1. \A l, r \in Fine : leq(at, l, r) # "panic"
  BY DEF leq, CallTotal
<1>2. Zero \in Fine
  BY Parts DEF Fine
<1>3. \A l \in Fine : is_zero(at, l) # "panic"
  BY <1>1, <1>2 DEF is_zero
<1>4. ASSUME NEW l \in Fine PROVE is_one(at, l) # "panic"
  <2>1. CASE l.k = "succ"
    <3>1. PICK m \in Level : l = Succ(m)
      BY <2>1, StoringFine, Storing, Fields DEF Variant
    <3>2. is_one(at, l) = is_zero(at, m)
      BY <3>1, Fields DEF is_one
    <3>3. QED
      BY <1>3, <3>2 DEF Fine
  <2>2. CASE l.k # "succ"
    BY <2>2 DEF is_one
  <2>3. QED
    BY <2>1, <2>2
<1>5. QED
  BY <1>1, <1>3, <1>4

\* What is simplified can be below an imax where simplify puts it.
LEMMA SimplifyIMaxTotal ==
  ASSUME NEW at, CallRight(at), CallTotal(at), NEW l \in Simplified, NEW r \in Simplified
  PROVE  SimplifyIMax(at, l, r) \in Simplified
<1> DEFINE small == OrElse(is_zero(at, l), is_one(at, l))
<1>1. small \in Outcome /\ small # "panic"
  <2>1. l \in Fine /\ l \in LevelOrNone
    BY StoringFine
  <2>2. QED
    BY <2>1, TestsTotal, TestsRight DEF OrElse, Outcome, Failure
<1>2. CASE small = "yes"
  BY <1>2 DEF SimplifyIMax
<1>3. CASE small = "overflow"
  <2>1. SimplifyIMax(at, l, r) = Exhausted
    BY <1>3 DEF SimplifyIMax, Failure, Exhausted
  <2>2. QED
    BY <2>1 DEF Simplified
<1>4. CASE small = "no" /\ r = Zero
  <2>1. SimplifyIMax(at, l, r) = r
    BY <1>4, Fields DEF SimplifyIMax, Failure
  <2>2. QED
    BY <2>1
<1>5. CASE small = "no" /\ r # Zero /\ r.k = "succ"
  <2>1. SimplifyIMax(at, l, r) = at.combining[<<l, r>>]
    BY <1>5 DEF SimplifyIMax, Failure
  <2>2. QED
    BY <2>1 DEF CallTotal
<1>6. CASE small = "no" /\ r # Zero /\ r.k # "succ"
  <2>1. SimplifyIMax(at, l, r) = imax(l, r)
    BY <1>6 DEF SimplifyIMax, Failure
  <2>2. r.k \in NotFlat \/ r = Exhausted
    BY <1>6, SimpleKinds, Fields DEF NotFlat
  <2>3. QED
    BY <2>1, <2>2, StoringFine
<1>7. QED
  BY <1>1, <1>2, <1>3, <1>4, <1>5, <1>6 DEF Outcome, Failure

\* Simplifying gives a simplified level.
LEMMA SimplifyTotal ==
  ASSUME NEW at, CallRight(at), CallTotal(at), NEW l \in Fine
  PROVE  simplify(at, l) \in Simplified
<1>1. \A m \in Level : at.simplify[m] \in Simplified
  BY DEF CallTotal, Fine
<1>2. CASE l = Exhausted \/ l = Zero \/ \E p \in Param : l = Var(p)
  <2>1. simplify(at, l) = l
    BY <1>2, Fields DEF simplify, Failure
  <2>2. QED
    BY <1>2, <2>1, SimpleBuilt DEF Simplified
<1>3. ASSUME NEW m \in Level, l = Succ(m) PROVE simplify(at, l) \in Simplified
  <2>1. simplify(at, l) = succ(at.simplify[m])
    BY <1>3, Fields DEF simplify, Failure
  <2>2. QED
    BY <1>1, <2>1, StoringFine
<1>4. ASSUME NEW m \in Level, NEW n \in Level, l = Max(m, n) PROVE simplify(at, l) \in Simplified
  <2>1. simplify(at, l) = at.combining[<<at.simplify[m], at.simplify[n]>>]
    BY <1>4, Fields DEF simplify, Failure
  <2>2. QED
    BY <1>1, <2>1 DEF CallTotal
<1>5. ASSUME NEW m \in Level, NEW n \in Level, l = IMax(m, n) PROVE simplify(at, l) \in Simplified
  <2>1. simplify(at, l) = SimplifyIMax(at, at.simplify[m], at.simplify[n])
    BY <1>5, Fields DEF simplify, Failure
  <2>2. QED
    BY <1>1, <2>1, SimplifyIMaxTotal
<1>6. QED
  BY <1>2, <1>3, <1>4, <1>5, Parts DEF Fine, Variant

\* Substituting levels in a level does not panic.
LEMMA SubstTotal ==
  ASSUME NEW at, CallTotal(at), NEW l \in Fine, NEW ks \in Seq(LevelOrNone), NEW vs \in Seq(Fine)
  PROVE  subst_level(at, l, ks, vs) \in Fine
<1> DEFINE Part(m) == at.subst_level[<<m, ks, vs>>]
<1>1. \A m \in Level : Part(m) \in Fine
  BY DEF CallTotal, Fine
<1>2. CASE l = Exhausted \/ l = Zero
  BY <1>2, Fields DEF subst_level, Failure
<1>3. ASSUME NEW p \in Param, l = Var(p) PROVE subst_level(at, l, ks, vs) \in Fine
  <2>1. subst_level(at, l, ks, vs) = SubstParam(l, ks, vs)
    BY <1>3, Fields DEF subst_level, Failure
  <2>2. CASE Hits(l, ks, vs) = {}
    BY <2>1, <2>2 DEF SubstParam, Hits
  <2>3. CASE Hits(l, ks, vs) # {}
    <3>1. SubstParam(l, ks, vs) = vs[First(Hits(l, ks, vs))]
      BY <2>3 DEF SubstParam, Hits, First
    <3>2. QED
      BY <2>1, <2>3, <3>1, FirstHit
  <2>4. QED
    BY <2>2, <2>3
<1>4. ASSUME NEW m \in Level, l = Succ(m) PROVE subst_level(at, l, ks, vs) \in Fine
  <2>1. subst_level(at, l, ks, vs) = succ(Part(m))
    BY <1>4, Fields DEF subst_level, Failure
  <2> HIDE DEF Part
  <2>2. QED
    BY <1>1, <2>1, StoringFine
<1>5. ASSUME NEW m \in Level, NEW n \in Level, l = Max(m, n) \/ l = IMax(m, n)
      PROVE  subst_level(at, l, ks, vs) \in Fine
  <2>1. l.k \in {"max", "imax"} /\ l.l = m /\ l.r = n
    BY <1>5, Fields
  <2>2. subst_level(at, l, ks, vs) \in {max(Part(m), Part(n)), imax(Part(m), Part(n))}
    BY <2>1 DEF subst_level, Failure
  <2> HIDE DEF Part
  <2>3. QED
    BY <1>1, <2>2, StoringFine
<1>6. QED
  BY <1>2, <1>3, <1>4, <1>5, Parts DEF Fine, Variant

\* The two cases of a parameter are compared on simplified levels.
LEMMA ByCasesTotal ==
  ASSUME NEW at, CallTotal(at), NEW p \in Param, NEW l \in Level, NEW r \in Level, NEW diff \in Int
  PROVE  leq_imax_by_cases(at, Var(p), l, r, diff) # "panic"
<1> DEFINE At(m, v) == subst_simp(at, m, <<Var(p)>>, <<v>>)
           Case(v) == at.leq_core[<<At(l, v), At(r, v), diff>>]
           up == succ(Var(p))
           failed == {up, At(l, Zero), At(r, Zero), At(l, up), At(r, up)} \cap NoLevel
           res == leq_imax_by_cases(at, Var(p), l, r, diff)
<1>1. Var(p) \in Level /\ Zero \in Fine /\ up \in Fine
  BY Parts, StoringFine DEF Fine
<1>2. ASSUME NEW m \in Level, NEW v \in Fine PROVE At(m, v) \in Simplified
  <2>1. m \in Fine /\ <<Var(p)>> \in Seq(LevelOrNone) /\ <<v>> \in Seq(Fine)
    BY <1>1, Storing DEF Fine
  <2>2. at.subst_level[<<m, <<Var(p)>>, <<v>>>>] \in Fine
    BY <2>1 DEF CallTotal
  <2>3. QED
    BY <2>2 DEF subst_simp, CallTotal
<1>3. ASSUME NEW v \in Fine PROVE Case(v) # "panic"
  BY <1>2, <1>3 DEF CallTotal
<1>4. \A m \in failed : m = Exhausted
  <2>1. \A m \in failed : m \in Fine /\ m \in NoLevel
    BY <1>1, <1>2, StoringFine
  <2>2. QED
    BY <2>1, Parts DEF Fine
<1>5. res = IF failed # {} THEN (CHOOSE m \in failed : TRUE).k ELSE AndThen(Case(Zero), Case(up))
  BY DEF leq_imax_by_cases
<1> HIDE DEF At, res, Case, failed, up
<1>6. ASSUME failed # {} PROVE res # "panic"
  <2>1. (CHOOSE m \in failed : TRUE) = Exhausted
    BY <1>4, <1>6
  <2>2. QED
    BY <1>5, <1>6, <2>1, Fields
<1>7. ASSUME failed = {} PROVE res # "panic"
  BY <1>1, <1>3, <1>5, <1>7 DEF AndThen
<1>8. QED
  BY <1>6, <1>7 DEF res

\* Distributing leaves a simplified level.
LEMMA DistributedTotal ==
  ASSUME NEW at, CallTotal(at), NEW l \in Simple, l.k = "imax", IsAnyMax(l.r)
  PROVE  Distributed(at, l) \in Simplified
<1>1. PICK a \in Simple, b \in Simple : l = IMax(a, b)
  BY SimpleKinds, Fields DEF Simplified
<1>2. l.l = a /\ l.r = b /\ b.k \in {"max", "imax"}
  BY <1>1, Fields DEF IsAnyMax
<1>3. CASE b.k = "imax"
  <2>1. PICK x \in Simple, y \in Simple : b = IMax(x, y) /\ y.k \in NotFlat
    BY <1>3, SimpleKinds, Fields DEF Simplified
  <2>2. Distributed(at, l) = max(imax(a, y), imax(x, y))
    BY <1>2, <1>3, <2>1, Fields DEF Distributed
  <2>3. imax(a, y) \in Simplified /\ imax(x, y) \in Simplified
    BY <2>1, StoringFine DEF Simplified
  <2>4. QED
    BY <2>2, <2>3, StoringFine
<1>4. CASE b.k = "max"
  <2>1. PICK x \in Simple, y \in Simple : b = Max(x, y)
    BY <1>4, SimpleKinds, Fields DEF Simplified
  <2>2. Distributed(at, l) = at.simplify[max(imax(a, x), imax(a, y))]
    BY <1>2, <1>4, <2>1, Fields DEF Distributed
  <2>3. imax(a, x) \in Fine /\ imax(a, y) \in Fine
    BY StoringFine DEF Simplified
  <2>4. QED
    BY <2>2, <2>3, StoringFine DEF CallTotal
<1>5. QED
  BY <1>2, <1>3, <1>4

\* On simplified levels the last arm of leq_core is not reached.
LEMMA LeqMaxTotal ==
  ASSUME NEW at, CallTotal(at), NEW l \in Simple, NEW r \in Simple, NEW diff \in Int,
         l.k # "succ", r.k # "succ", ~ ({l.k, r.k} \subseteq {"zero", "param"})
  PROVE  leq_max(at, l, r, diff) # "panic"
<1> DEFINE res == leq_max(at, l, r, diff)
<1>1. \A m, n \in Simplified : at.leq_core[<<m, n, diff>>] # "panic"
  BY DEF CallTotal
<1>2. l \in Simplified /\ r \in Simplified /\ l \in Level /\ r \in Level
  BY SimpleParts DEF Simplified
<1>3. \A m \in Simple : m.k = "param" => \E p \in Param : m = Var(p)
  BY SimpleKinds, Fields DEF Simplified
<1>4. \A m \in Simple : m.k = "imax" => m.r \in Simple /\ (IsParam(m.r) \/ IsAnyMax(m.r))
  BY SimpleKinds, Fields DEF Simplified, NotFlat, IsParam, IsAnyMax
<1>5. CASE l.k = "max"
  <2>1. PICK m \in Simple, n \in Simple : l = Max(m, n)
    BY <1>2, <1>5, SimpleKinds, Fields
  <2>2. res = AndThen(at.leq_core[<<m, r, diff>>], at.leq_core[<<n, r, diff>>])
    BY <1>5, <2>1, Fields DEF leq_max
  <2>3. QED
    BY <1>1, <1>2, <2>2 DEF AndThen, Simplified
<1>6. CASE l.k \notin {"max", "imax"} /\ r.k = "max"
  <2>1. PICK m \in Simple, n \in Simple : r = Max(m, n)
    BY <1>2, <1>6, SimpleKinds, Fields
  <2>2. res = OrElse(at.leq_core[<<l, m, diff>>], at.leq_core[<<l, n, diff>>])
    BY <1>6, <2>1, Fields DEF leq_max
  <2>3. QED
    BY <1>1, <1>2, <2>2 DEF OrElse, Simplified
<1>7. CASE l.k = "imax"
  <2>1. \/ res = "yes"
        \/ IsParam(l.r) /\ res = leq_imax_by_cases(at, l.r, l, r, diff)
        \/ r.k = "imax" /\ IsParam(r.r) /\ res = leq_imax_by_cases(at, r.r, l, r, diff)
        \/ IsAnyMax(l.r) /\ res = at.leq_core[<<Distributed(at, l), r, diff>>]
    BY <1>4, <1>7 DEF leq_max
  <2>2. IsParam(l.r) => leq_imax_by_cases(at, l.r, l, r, diff) # "panic"
    BY <1>2, <1>3, <1>4, <1>7, ByCasesTotal DEF IsParam
  <2>3. r.k = "imax" /\ IsParam(r.r) => leq_imax_by_cases(at, r.r, l, r, diff) # "panic"
    BY <1>2, <1>3, <1>4, ByCasesTotal DEF IsParam
  <2>4. IsAnyMax(l.r) => at.leq_core[<<Distributed(at, l), r, diff>>] # "panic"
    BY <1>1, <1>2, <1>7, DistributedTotal
  <2>5. QED
    BY <2>1, <2>2, <2>3, <2>4
<1>8. CASE l.k \notin {"max", "imax"} /\ r.k = "imax"
  <2>1. \/ IsParam(r.r) /\ res = leq_imax_by_cases(at, r.r, l, r, diff)
        \/ IsAnyMax(r.r) /\ res = at.leq_core[<<l, Distributed(at, r), diff>>]
    BY <1>4, <1>8 DEF leq_max
  <2>2. IsParam(r.r) => leq_imax_by_cases(at, r.r, l, r, diff) # "panic"
    BY <1>2, <1>3, <1>4, <1>8, ByCasesTotal DEF IsParam
  <2>3. IsAnyMax(r.r) => at.leq_core[<<l, Distributed(at, r), diff>>] # "panic"
    BY <1>1, <1>2, <1>8, DistributedTotal
  <2>4. QED
    BY <2>1, <2>2, <2>3
<1>9. l.k \in {"zero", "param", "max", "imax"} /\ r.k \in {"zero", "param", "max", "imax"}
  BY <1>2, SimpleKinds, Fields, Parts, Storing
<1>10. QED
  BY <1>5, <1>6, <1>7, <1>8, <1>9

\* Comparing simplified levels does not panic.
LEMMA LeqTotal ==
  ASSUME NEW at, CallTotal(at), NEW l \in Simplified, NEW r \in Simplified, NEW diff \in Int
  PROVE  leq_core(at, l, r, diff) # "panic"
<1> DEFINE res == leq_core(at, l, r, diff)
           A == l = Zero /\ diff >= 0
           B == r = Zero /\ diff < 0
           C == {l.k, r.k} \subseteq {"zero", "param"}
<1>1. CASE l \in NoLevel \/ r \in NoLevel
  <2>1. /\ l \in NoLevel => l = Exhausted
        /\ r \in NoLevel => r = Exhausted
    BY Parts, SimpleParts DEF Simplified
  <2>2. res = "overflow"
    BY <1>1, <2>1, Fields DEF leq_core
  <2>3. QED
    BY <2>2
<1>2. CASE l \notin NoLevel /\ r \notin NoLevel
  <2>1. l \in Simple /\ r \in Simple
    BY <1>2, Storing DEF Simplified
  <2>2. CASE A
    BY <1>2, <2>2 DEF leq_core
  <2>3. CASE ~ A /\ B
    BY <1>2, <2>3 DEF leq_core
  <2>4. CASE ~ A /\ ~ B /\ C
    BY <1>2, <2>4 DEF leq_core, YesNo
  <2>5. CASE ~ A /\ ~ B /\ ~ C /\ l.k = "succ"
    <3>1. PICK m \in Simple : l = Succ(m)
      BY <2>5, SimpleKinds, Fields
    <3>2. res = at.leq_core[<<m, r, diff - 1>>]
      BY <1>2, <2>5, <3>1, Fields DEF leq_core
    <3>3. m \in Simplified /\ diff - 1 \in Int
      BY DEF Simplified
    <3>4. QED
      BY <3>2, <3>3 DEF CallTotal
  <2>6. CASE ~ A /\ ~ B /\ ~ C /\ l.k # "succ" /\ r.k = "succ"
    <3>1. PICK m \in Simple : r = Succ(m)
      BY <2>6, SimpleKinds, Fields
    <3>2. res = at.leq_core[<<l, m, diff + 1>>]
      BY <1>2, <2>6, <3>1, Fields DEF leq_core
    <3>3. m \in Simplified /\ diff + 1 \in Int
      BY DEF Simplified
    <3>4. QED
      BY <3>2, <3>3 DEF CallTotal
  <2>7. CASE ~ A /\ ~ B /\ ~ C /\ l.k # "succ" /\ r.k # "succ"
    <3>1. res = leq_max(at, l, r, diff)
      BY <1>2, <2>7 DEF leq_core
    <3>2. QED
      BY <2>1, <2>7, <3>1, LeqMaxTotal
  <2>8. QED
    BY <2>2, <2>3, <2>4, <2>5, <2>6, <2>7
<1>3. QED
  BY <1>1, <1>2

------------------------------------------------------------------------------
(***************************************************************************)
(* What the tests for zero reject does not hold                            *)
(***************************************************************************)
Zeros == [p \in Param |-> 0]

CallExact(at) ==
  /\ \A l \in {Zero, Succ(Zero)} \cap Level : at.simplify[l] \in Level => at.simplify[l] = l
  /\ \A ks, vs \in Seq(LevelOrNone) :
       at.subst_level[<<Zero, ks, vs>>] \in Level => at.subst_level[<<Zero, ks, vs>>] = Zero
  /\ \A l \in LevelOrNone : at.leq_core[<<l, Zero, 0>>] = "no" => \E s \in Valuation : Value(l, s) # 0
  /\ \A r \in LevelOrNone :
       /\ at.leq_core[<<Zero, r, 0>>] # "no"
       /\ at.leq_core[<<Zero, r, -1>>] = "no" => Value(r, Zeros) = 0
       /\ Succ(Zero) \in Level /\ at.leq_core[<<Succ(Zero), r, 0>>] = "no" => Value(r, Zeros) = 0

\* A level that denotes 0 still does when parameters become 0.
LEMMA ZeroStays ==
  ASSUME NEW s \in Valuation, NEW t \in Valuation, \A p \in Param : s[p] = 0 => t[p] = 0
  PROVE  \A l \in Level : Value(l, s) = 0 => Value(l, t) = 0
<1> DEFINE T == {l \in Level : Value(l, s) = 0 => Value(l, t) = 0}
<1>1. ASSUME NEW l \in Level, Variant(l, T \cap Level) PROVE l \in T
  <2>1. CASE l = Zero
    BY <2>1, ValueEquations
  <2>2. ASSUME NEW p \in Param, l = Var(p) PROVE l \in T
    BY <2>2, ValueEquations
  <2>3. ASSUME NEW m \in T, l = Succ(m) PROVE l \in T
    <3>1. Value(m, s) \in Nat /\ Value(l, s) = Value(m, s) + 1
      BY <2>3, ValueEquations, ValueType
    <3>2. QED
      BY <3>1
  <2>4. ASSUME NEW m \in T, NEW n \in T, l = Max(m, n) \/ l = IMax(m, n) PROVE l \in T
    <3>1. /\ Value(m, s) \in Nat /\ Value(n, s) \in Nat
          /\ Value(m, t) \in Nat /\ Value(n, t) \in Nat
      BY ValueType
    <3>2. CASE l = Max(m, n)
      <4>1. Value(l, s) = Max2(Value(m, s), Value(n, s)) /\ Value(l, t) = Max2(Value(m, t), Value(n, t))
        BY <3>2, ValueEquations
      <4>2. QED
        BY <3>1, <4>1 DEF Max2
    <3>3. CASE l = IMax(m, n)
      <4>1. Value(l, s) = IMax2(Value(m, s), Value(n, s)) /\ Value(l, t) = IMax2(Value(m, t), Value(n, t))
        BY <3>3, ValueEquations
      <4>2. QED
        BY <3>1, <4>1 DEF IMax2, Max2
    <3>4. QED
      BY <2>4, <3>2, <3>3
  <2>5. QED
    BY <1>1, <2>1, <2>2, <2>3, <2>4 DEF Variant
<1>2. Level \subseteq T
  <2> HIDE DEF T
  <2>1. QED
    BY <1>1, LevelInduction
<1>3. QED
  BY <1>2

\* A level with a parameter replaced, and 0 with a parameter replaced.
LEMMA SubstSimpOne ==
  ASSUME NEW at, CallRight(at), CallExact(at), NEW p \in Param, NEW v \in Level, NEW m \in Level,
         subst_simp(at, m, <<Var(p)>>, <<v>>) \in Level
  PROVE  /\ \A s \in Valuation :
              Value(subst_simp(at, m, <<Var(p)>>, <<v>>), s) = Value(m, [s EXCEPT ![p] = Value(v, s)])
         /\ m = Zero => subst_simp(at, m, <<Var(p)>>, <<v>>) = Zero
<1> DEFINE b == at.subst_level[<<m, <<Var(p)>>, <<v>>>>]
<1>1. /\ m \in LevelOrNone /\ <<Var(p)>> \in Seq(LevelOrNone)
      /\ <<v>> \in Seq(Level) /\ <<v>> \in Seq(LevelOrNone)
  BY Parts, Storing
<1>2. subst_simp(at, m, <<Var(p)>>, <<v>>) = at.simplify[b]
  BY DEF subst_simp
<1>3. /\ b \in LevelOrNone
      /\ b \in Level => \A s \in Valuation : Value(b, s) = Value(m, Substituted(<<Var(p)>>, <<v>>, s))
  <2>1. <<m, <<Var(p)>>, <<v>>>> \in Replacing
    BY <1>1 DEF Replacing
  <2> HIDE DEF Substituted
  <2>2. QED
    BY <1>1, <2>1 DEF CallRight, SubstRight
<1>4. m = Zero /\ b \in Level => b = Zero
  BY <1>1 DEF CallExact
<1> HIDE DEF b
<1>5. b \in Level /\ \A s \in Valuation : Value(at.simplify[b], s) = Value(b, s)
  BY <1>2, <1>3 DEF CallRight, SimplifyRight
<1>6. b = Zero => at.simplify[b] = Zero
  BY <1>2, <1>5 DEF CallExact
<1>7. QED
  BY <1>2, <1>3, <1>4, <1>5, <1>6, SubstitutedOne

\* When the comparison by cases fails, one of the cases does.
LEMMA ByCasesFails ==
  ASSUME NEW at, CallRight(at), NEW p \in Param, NEW l \in Level, NEW r \in Level, NEW diff \in Int,
         leq_imax_by_cases(at, Var(p), l, r, diff) = "no"
  PROVE  \E v \in {Zero, Succ(Var(p))} :
           /\ v \in Level
           /\ subst_simp(at, l, <<Var(p)>>, <<v>>) \in Level
           /\ subst_simp(at, r, <<Var(p)>>, <<v>>) \in Level
           /\ at.leq_core[<<subst_simp(at, l, <<Var(p)>>, <<v>>),
                            subst_simp(at, r, <<Var(p)>>, <<v>>), diff>>] = "no"
<1> DEFINE At(m, v) == subst_simp(at, m, <<Var(p)>>, <<v>>)
           Case(v) == at.leq_core[<<At(l, v), At(r, v), diff>>]
           up == succ(Var(p))
           failed == {up, At(l, Zero), At(r, Zero), At(l, up), At(r, up)} \cap NoLevel
           res == leq_imax_by_cases(at, Var(p), l, r, diff)
<1>1. /\ failed = {} => res = AndThen(Case(Zero), Case(up))
      /\ failed # {} => res \in Failure
  BY Parts DEF leq_imax_by_cases
<1>2. up \in LevelOrNone /\ Zero \in Level /\ Level \subseteq LevelOrNone /\ Var(p) \in Level
  BY Parts, Storing
<1>3. ASSUME NEW m \in Level, NEW v \in LevelOrNone PROVE At(m, v) \in LevelOrNone
  <2>1. m \in LevelOrNone /\ <<Var(p)>> \in Seq(LevelOrNone) /\ <<v>> \in Seq(LevelOrNone)
    BY <1>2
  <2>2. <<m, <<Var(p)>>, <<v>>>> \in Replacing
    BY <2>1 DEF Replacing
  <2>3. at.subst_level[<<m, <<Var(p)>>, <<v>>>>] \in LevelOrNone
    BY <2>2 DEF CallRight, SubstRight
  <2>4. QED
    BY <2>3 DEF subst_simp, CallRight, SimplifyRight
<1> HIDE DEF At, Case
<1>4. failed = {}
  <2> HIDE DEF failed
  <2>1. res = "no"
    OBVIOUS
  <2> HIDE DEF res
  <2>2. QED
    BY <1>1, <2>1 DEF Failure
<1>5. up = Succ(Var(p)) /\ up \in Level
  BY <1>2, <1>4, Storing
<1>6. \A v \in {Zero, up} : At(l, v) \in Level /\ At(r, v) \in Level
  BY <1>2, <1>3, <1>4, Storing
<1>7. Case(Zero) = "no" \/ Case(up) = "no"
  BY <1>1, <1>4 DEF AndThen
<1>8. QED
  BY <1>2, <1>5, <1>6, <1>7 DEF At, Case

\* What is rejected by a max or an imax that should be 0, ...
LEMMA LeqMaxZero ==
  ASSUME NEW at, CallRight(at), CallExact(at), NEW l \in Level, leq_max(at, l, Zero, 0) = "no"
  PROVE  \E s \in Valuation : Value(l, s) # 0
<1> DEFINE res == leq_max(at, l, Zero, 0)
<1>1. ASSUME NEW m \in LevelOrNone, at.leq_core[<<m, Zero, 0>>] = "no"
      PROVE  m \in Level /\ \E s \in Valuation : Value(m, s) # 0
  <2>1. Zero \in LevelOrNone
    BY Parts, Storing
  <2>2. QED
    BY <1>1, <2>1 DEF CallRight, LeqRight, CallExact
<1>2. Zero \in Level /\ Level \subseteq LevelOrNone
  BY Parts, Storing
<1>3. CASE l.k = "max"
  <2>1. PICK m \in Level, n \in Level : l = Max(m, n)
    BY <1>3, Parts, Fields DEF Variant
  <2>2. res = AndThen(at.leq_core[<<m, Zero, 0>>], at.leq_core[<<n, Zero, 0>>])
    BY <1>3, <2>1, Fields DEF leq_max
  <2>3. PICK s \in Valuation : Value(m, s) # 0 \/ Value(n, s) # 0
    BY <1>1, <1>2, <2>2 DEF AndThen
  <2>4. Value(m, s) \in Nat /\ Value(n, s) \in Nat /\ Value(l, s) = Max2(Value(m, s), Value(n, s))
    BY <2>1, ValueType, ValueEquations
  <2>5. QED
    BY <2>3, <2>4 DEF Max2
<1>4. CASE l.k = "imax" /\ IsParam(l.r)
  <2>1. PICK p \in Param : l.r = Var(p)
    <3>1. l.r \in Level
      BY <1>4, Parts, Fields DEF Variant
    <3>2. QED
      BY <1>4, <3>1, Parts, Fields DEF Variant, IsParam
  <2>2. leq_imax_by_cases(at, Var(p), l, Zero, 0) = "no"
    BY <1>4, <2>1, Fields DEF leq_max
  <2>3. PICK v \in {Zero, Succ(Var(p))} :
           /\ v \in Level
           /\ subst_simp(at, l, <<Var(p)>>, <<v>>) \in Level
           /\ subst_simp(at, Zero, <<Var(p)>>, <<v>>) \in Level
           /\ at.leq_core[<<subst_simp(at, l, <<Var(p)>>, <<v>>),
                            subst_simp(at, Zero, <<Var(p)>>, <<v>>), 0>>] = "no"
    BY <1>2, <2>2, ByCasesFails
  <2> DEFINE m == subst_simp(at, l, <<Var(p)>>, <<v>>)
  <2>4. \A s \in Valuation : Value(m, s) = Value(l, [s EXCEPT ![p] = Value(v, s)])
    BY <2>3, SubstSimpOne
  <2>5. subst_simp(at, Zero, <<Var(p)>>, <<v>>) = Zero
    BY <1>2, <2>3, SubstSimpOne
  <2>6. m \in LevelOrNone /\ at.leq_core[<<m, Zero, 0>>] = "no"
    BY <1>2, <2>3, <2>5
  <2> HIDE DEF m
  <2>7. PICK s \in Valuation : Value(m, s) # 0
    BY <1>1, <2>6
  <2>8. [s EXCEPT ![p] = Value(v, s)] \in Valuation
    BY <2>3, ValueType DEF Valuation
  <2>9. QED
    BY <2>4, <2>7, <2>8
<1>5. CASE l.k = "imax" /\ ~ IsParam(l.r) /\ IsAnyMax(l.r)
  <2> DEFINE d == Distributed(at, l)
  <2>1. res = at.leq_core[<<d, Zero, 0>>] \/ l = Zero
    BY <1>5, Fields DEF leq_max
  <2>2. d \in LevelOrNone /\ (d \in Level => \A s \in Valuation : Value(d, s) = Value(l, s))
    BY <1>5, DistributedStep
  <2>3. l # Zero
    BY <1>5, Fields
  <2> HIDE DEF d
  <2>4. QED
    BY <1>1, <2>1, <2>2, <2>3
<1>6. CASE l.k # "max" /\ ~ (l.k = "imax" /\ (IsParam(l.r) \/ IsAnyMax(l.r)))
  <2>1. res \in {"yes", "panic"}
    BY <1>6, Fields DEF leq_max
  <2>2. QED
    BY <2>1
<1>7. QED
  BY <1>3, <1>4, <1>5, <1>6

\* ... and by one that should not, ...
LEMMA ZeroLeqMax ==
  ASSUME NEW at, CallRight(at), CallExact(at), NEW r \in Level, leq_max(at, Zero, r, -1) = "no"
  PROVE  Value(r, Zeros) = 0
<1> DEFINE res == leq_max(at, Zero, r, -1)
<1>0. Zeros \in Valuation
  BY DEF Zeros, Valuation
<1>1. ASSUME NEW m \in LevelOrNone, at.leq_core[<<Zero, m, -1>>] = "no"
      PROVE  m \in Level /\ Value(m, Zeros) = 0
  <2>1. Zero \in LevelOrNone /\ -1 \in Int
    BY Parts, Storing
  <2>2. m \in Level
    BY <1>1, <2>1 DEF CallRight, LeqRight
  <2>3. QED
    BY <1>1, <2>2 DEF CallExact
<1>2. Zero \in Level /\ Level \subseteq LevelOrNone /\ Zero.k = "zero"
  BY Parts, Storing, Fields
<1>3. CASE r.k = "max"
  <2>1. PICK m \in Level, n \in Level : r = Max(m, n)
    BY <1>3, Parts, Fields DEF Variant
  <2>2. res = OrElse(at.leq_core[<<Zero, m, -1>>], at.leq_core[<<Zero, n, -1>>])
    BY <1>3, <2>1, Fields DEF leq_max
  <2>3. Value(m, Zeros) = 0 /\ Value(n, Zeros) = 0
    BY <1>1, <1>2, <2>2 DEF OrElse
  <2>4. Value(r, Zeros) = Max2(Value(m, Zeros), Value(n, Zeros))
    BY <1>0, <2>1, ValueEquations
  <2>5. QED
    BY <2>3, <2>4 DEF Max2
<1>4. CASE r.k = "imax" /\ IsParam(r.r)
  <2>1. PICK p \in Param : r.r = Var(p)
    <3>1. r.r \in Level
      BY <1>4, Parts, Fields DEF Variant
    <3>2. QED
      BY <1>4, <3>1, Parts, Fields DEF Variant, IsParam
  <2>2. leq_imax_by_cases(at, Var(p), Zero, r, -1) = "no"
    BY <1>2, <1>4, <2>1 DEF leq_max
  <2>3. PICK v \in {Zero, Succ(Var(p))} :
           /\ v \in Level
           /\ subst_simp(at, Zero, <<Var(p)>>, <<v>>) \in Level
           /\ subst_simp(at, r, <<Var(p)>>, <<v>>) \in Level
           /\ at.leq_core[<<subst_simp(at, Zero, <<Var(p)>>, <<v>>),
                            subst_simp(at, r, <<Var(p)>>, <<v>>), -1>>] = "no"
    <3>1. -1 \in Int
      OBVIOUS
    <3>2. QED
      BY <1>2, <2>2, <3>1, ByCasesFails
  <2> DEFINE m == subst_simp(at, r, <<Var(p)>>, <<v>>)
             t == [Zeros EXCEPT ![p] = Value(v, Zeros)]
  <2>4. Value(m, Zeros) = Value(r, t)
    BY <1>0, <2>3, SubstSimpOne
  <2>5. subst_simp(at, Zero, <<Var(p)>>, <<v>>) = Zero
    BY <1>2, <2>3, SubstSimpOne
  <2>6. m \in LevelOrNone /\ at.leq_core[<<Zero, m, -1>>] = "no"
    BY <1>2, <2>3, <2>5
  <2>7. t \in Valuation /\ \A q \in Param : t[q] = 0 => Zeros[q] = 0
    BY <1>0, <2>3, ValueType DEF Valuation, Zeros
  <2> HIDE DEF m, t
  <2>8. QED
    BY <1>0, <1>1, <2>4, <2>6, <2>7, ZeroStays
<1>5. CASE r.k = "imax" /\ ~ IsParam(r.r) /\ IsAnyMax(r.r)
  <2> DEFINE d == Distributed(at, r)
  <2>1. res = at.leq_core[<<Zero, d, -1>>]
    BY <1>2, <1>5 DEF leq_max
  <2>2. d \in LevelOrNone /\ (d \in Level => \A s \in Valuation : Value(d, s) = Value(r, s))
    BY <1>5, DistributedStep
  <2> HIDE DEF d
  <2>3. QED
    BY <1>0, <1>1, <2>1, <2>2
<1>6. CASE r.k # "max" /\ ~ (r.k = "imax" /\ (IsParam(r.r) \/ IsAnyMax(r.r)))
  <2>1. res = "panic"
    BY <1>2, <1>6 DEF leq_max
  <2>2. QED
    BY <2>1
<1>7. QED
  BY <1>3, <1>4, <1>5, <1>6

\* ... and so of what a test for zero rejects.
LEMMA LeqExact ==
  ASSUME NEW at, CallRight(at), CallExact(at), NEW l \in LevelOrNone
  PROVE  /\ leq_core(at, l, Zero, 0) = "no" => \E s \in Valuation : Value(l, s) # 0
         /\ leq_core(at, Zero, l, 0) # "no"
         /\ leq_core(at, Zero, l, -1) = "no" => Value(l, Zeros) = 0
         /\ leq_core(at, Succ(Zero), l, 0) = "no" => Value(l, Zeros) = 0
<1>0. Zeros \in Valuation /\ Zero \notin NoLevel /\ Zero \in Level /\ Zero.k = "zero"
  BY Parts, Storing, Fields DEF Zeros, Valuation
<1>1. leq_core(at, Zero, l, 0) # "no"
  BY <1>0, Parts DEF leq_core, Failure
<1>2. l \in NoLevel => l.k \in Failure
  BY Parts
<1>3. ASSUME leq_core(at, l, Zero, 0) = "no" PROVE \E s \in Valuation : Value(l, s) # 0
  <2>1. l \in Level /\ l \notin NoLevel
    BY <1>2, <1>3, Storing DEF leq_core, Failure
  <2>2. CASE l.k = "zero"
    <3>1. l = Zero
      BY <2>1, <2>2, Parts, Fields DEF Variant
    <3>2. QED
      BY <1>1, <1>3, <3>1
  <2>3. CASE l.k = "param"
    <3>1. PICK p \in Param : l = Var(p)
      BY <2>1, <2>3, Parts, Fields DEF Variant
    <3>2. [q \in Param |-> 1] \in Valuation
      BY DEF Valuation
    <3>3. Value(l, [q \in Param |-> 1]) = 1
      BY <3>1, <3>2, ValueEquations
    <3>4. QED
      BY <3>2, <3>3
  <2>4. CASE l.k = "succ"
    <3>1. PICK m \in Level : l = Succ(m)
      BY <2>1, <2>4, Parts, Fields DEF Variant
    <3>2. Value(l, Zeros) = Value(m, Zeros) + 1 /\ Value(m, Zeros) \in Nat
      BY <1>0, <2>1, <3>1, ValueEquations, ValueType
    <3>3. QED
      BY <1>0, <3>2
  <2>5. CASE l.k \in {"max", "imax"}
    <3>1. leq_core(at, l, Zero, 0) = leq_max(at, l, Zero, 0)
      BY <1>0, <2>1, <2>5 DEF leq_core
    <3>2. QED
      BY <1>3, <2>1, <3>1, LeqMaxZero
  <2>6. QED
    BY <2>1, <2>2, <2>3, <2>4, <2>5, Parts, Fields DEF Variant
<1>4. ASSUME leq_core(at, Zero, l, -1) = "no" PROVE Value(l, Zeros) = 0
  <2>1. l \in Level /\ l \notin NoLevel
    BY <1>0, <1>2, <1>4, Storing DEF leq_core, Failure
  <2>2. CASE l.k = "zero"
    BY <1>0, <2>1, <2>2, Parts, Fields, ValueEquations DEF Variant
  <2>3. CASE l.k = "param"
    <3>1. PICK p \in Param : l = Var(p)
      BY <2>1, <2>3, Parts, Fields DEF Variant
    <3>2. QED
      BY <1>0, <3>1, ValueEquations DEF Zeros
  <2>4. CASE l.k = "succ"
    <3>1. PICK m \in Level : l = Succ(m)
      BY <2>1, <2>4, Parts, Fields DEF Variant
    <3>2. l # Zero /\ l.of = m
      BY <2>4, <3>1, Fields
    <3>3. leq_core(at, Zero, l, -1) = at.leq_core[<<Zero, m, -1 + 1>>]
      BY <1>0, <2>1, <2>4, <3>2 DEF leq_core
    <3>4. m \in LevelOrNone
      BY Storing
    <3>5. -1 + 1 = 0
      OBVIOUS
    <3>6. leq_core(at, Zero, l, -1) = at.leq_core[<<Zero, m, 0>>]
      BY <3>3, <3>5
    <3>7. QED
      BY <1>4, <3>4, <3>6 DEF CallExact
  <2>5. CASE l.k \in {"max", "imax"}
    <3>1. leq_core(at, Zero, l, -1) = leq_max(at, Zero, l, -1)
      BY <1>0, <2>1, <2>5 DEF leq_core
    <3>2. QED
      BY <1>4, <2>1, <3>1, ZeroLeqMax
  <2>6. QED
    BY <2>1, <2>2, <2>3, <2>4, <2>5, Parts, Fields DEF Variant
<1>5. ASSUME leq_core(at, Succ(Zero), l, 0) = "no" PROVE Value(l, Zeros) = 0
  <2>1. Succ(Zero).k = "succ" /\ Succ(Zero).of = Zero /\ Succ(Zero) \notin NoLevel /\ Succ(Zero) # Zero
    BY Fields, Parts DEF Failure
  <2>2. l \notin NoLevel
    BY <1>2, <1>5, <2>1 DEF leq_core, Failure
  <2>3. leq_core(at, Succ(Zero), l, 0) = at.leq_core[<<Zero, l, 0 - 1>>]
    BY <2>1, <2>2 DEF leq_core
  <2>4. 0 - 1 = -1
    OBVIOUS
  <2>5. leq_core(at, Succ(Zero), l, 0) = at.leq_core[<<Zero, l, -1>>]
    BY <2>3, <2>4
  <2>6. QED
    BY <1>5, <2>5 DEF CallExact
<1>6. QED
  BY <1>1, <1>3, <1>4, <1>5

------------------------------------------------------------------------------
(***************************************************************************)
(* Without imax, what leq rejects fails for some values of the parameters  *)
(***************************************************************************)
\* The rule by which NoIMax goes through a level, on the results for its parts.
Unmixed(l, pure) ==
  CASE l.k \in {"zero", "param"} -> TRUE
    [] l.k = "succ" -> pure[l.of]
    [] l.k = "max" -> pure[l.l] /\ pure[l.r]
    [] l.k = "imax" -> FALSE

\* Whether a level has an imax depends on whether its parts have.
LEMMA UnmixedFrame ==
  ASSUME NEW P, NEW l, Variant(l, P), NEW f, NEW g, \A m \in P : f[m] = g[m]
  PROVE  Unmixed(l, f) = Unmixed(l, g)
<1>1. CASE l = Zero \/ \E p \in Param : l = Var(p)
  BY <1>1, Fields DEF Unmixed
<1>2. ASSUME NEW m \in P, l = Succ(m) PROVE Unmixed(l, f) = Unmixed(l, g)
  BY <1>2, Fields DEF Unmixed
<1>3. ASSUME NEW m \in P, NEW n \in P, l = Max(m, n) PROVE Unmixed(l, f) = Unmixed(l, g)
  BY <1>3, Fields DEF Unmixed
<1>4. ASSUME NEW m \in P, NEW n \in P, l = IMax(m, n) PROVE Unmixed(l, f) = Unmixed(l, g)
  BY <1>4, Fields DEF Unmixed
<1>5. QED
  BY <1>1, <1>2, <1>3, <1>4 DEF Variant

\* NoIMax is defined: its recursion on the parts of a level has a solution.
LEMMA NoIMaxEquation == NoIMax = [l \in Level |-> Unmixed(l, NoIMax)]
<1> DEFINE Solves(k, f) == f = [l \in Level |-> IF l \in LevelTo[k] THEN Unmixed(l, f) ELSE FALSE]
           T == {k \in 0 .. Height : \E f : Solves(k, f)}
<1>1. 0 \in T
  <2>1. 0 \in 0 .. Height
    BY BoundAssumption
  <2> DEFINE f == [l \in Level |-> FALSE]
             g == [l \in Level |-> IF l \in LevelTo[0] THEN Unmixed(l, f) ELSE FALSE]
  <2> HIDE DEF f
  <2>2. ASSUME NEW l \in LevelTo[0] PROVE Unmixed(l, f) = Unmixed(l, g)
    <3>1. Variant(l, {})
      BY <2>1, Heights
    <3> HIDE DEF g
    <3>2. QED
      BY <3>1, UnmixedFrame
  <2>3. Solves(0, g)
    BY <2>2
  <2>4. QED
    <3> HIDE DEF Solves, g
    <3>1. QED
      BY <2>1, <2>3
<1>2. ASSUME NEW k \in 0 .. Height, k # Height, k \in T PROVE k + 1 \in T
  <2>1. k + 1 \in 0 .. Height /\ k + 1 # 0 /\ (k + 1) - 1 = k
    BY <1>2, BoundAssumption
  <2>2. PICK f : Solves(k, f)
    BY <1>2
  <2> DEFINE g == [l \in Level |-> IF l \in LevelTo[k + 1] THEN Unmixed(l, f) ELSE FALSE]
  <2>3. ASSUME NEW l \in LevelTo[k] PROVE f[l] = g[l]
    <3>1. l \in Level /\ l \in LevelTo[k + 1]
      BY <2>1, <2>3, Included, LevelToGrows
    <3>2. f[l] = Unmixed(l, f)
      BY <2>2, <2>3, <3>1
    <3>3. QED
      BY <3>1, <3>2
  <2>4. ASSUME NEW l \in LevelTo[k + 1] PROVE Unmixed(l, f) = Unmixed(l, g)
    <3>1. Variant(l, LevelTo[k])
      BY <2>1, Heights
    <3> HIDE DEF g
    <3>2. QED
      BY <2>3, <3>1, UnmixedFrame
  <2>5. Solves(k + 1, g)
    BY <2>4
  <2>6. QED
    <3> HIDE DEF Solves, g
    <3>1. QED
      BY <2>1, <2>5
<1>3. Height \in T
  <2> HIDE DEF T
  <2>1. 0 .. Height \subseteq T
    BY <1>1, <1>2, UpTo, BoundAssumption
  <2>2. QED
    BY <2>1, BoundAssumption
<1>4. \E f : f = [l \in Level |-> Unmixed(l, f)]
  <2>1. PICK f : Solves(Height, f)
    BY <1>3
  <2>2. f = [l \in Level |-> Unmixed(l, f)]
    BY <2>1 DEF Level
  <2>3. QED
    BY <2>2
<1>5. QED
  BY <1>4 DEF NoIMax, Unmixed

Pure == {l \in Level : NoIMax[l]}

\* The levels without imax.
LEMMA PureParts ==
  /\ Zero \in Pure /\ \A p \in Param : Var(p) \in Pure
  /\ \A l : Succ(l) \in Level => (Succ(l) \in Pure <=> l \in Pure)
  /\ \A l, r : Max(l, r) \in Level => (Max(l, r) \in Pure <=> l \in Pure /\ r \in Pure)
  /\ \A l, r : IMax(l, r) \notin Pure
<1>1. \A l \in Level : NoIMax[l] = Unmixed(l, NoIMax)
  BY NoIMaxEquation
<1>2. Unmixed(Zero, NoIMax) /\ \A p : Unmixed(Var(p), NoIMax)
  BY Fields DEF Unmixed
<1>3. \A l : Unmixed(Succ(l), NoIMax) = NoIMax[l]
  BY Fields DEF Unmixed
<1>4. ASSUME NEW l, NEW r PROVE Unmixed(Max(l, r), NoIMax) = (NoIMax[l] /\ NoIMax[r])
  <2>1. Max(l, r).k = "max" /\ Max(l, r).l = l /\ Max(l, r).r = r
    BY Fields
  <2>2. QED
    BY <2>1 DEF Unmixed
<1>5. ASSUME NEW l, NEW r PROVE ~ Unmixed(IMax(l, r), NoIMax)
  <2>1. IMax(l, r).k = "imax"
    BY Fields
  <2>2. QED
    BY <2>1 DEF Unmixed
<1>6. ASSUME NEW l, Succ(l) \in Level PROVE Succ(l) \in Pure <=> l \in Pure
  BY <1>1, <1>3, <1>6, Parts DEF Pure
<1>7. ASSUME NEW l, NEW r, Max(l, r) \in Level PROVE Max(l, r) \in Pure <=> l \in Pure /\ r \in Pure
  BY <1>1, <1>4, <1>7, Parts DEF Pure
<1>8. QED
  BY <1>1, <1>2, <1>5, <1>6, <1>7, Parts DEF Pure

\* A level without imax is 0, a parameter, a successor or a max.
LEMMA PureVariant ==
  ASSUME NEW l \in Pure
  PROVE  \/ l = Zero
         \/ \E p \in Param : l = Var(p)
         \/ \E m \in Pure : l = Succ(m)
         \/ \E m, n \in Pure : l = Max(m, n)
<1>1. l \in Level /\ Variant(l, Level)
  BY Parts DEF Pure
<1>2. QED
  BY <1>1, PureParts DEF Variant

\* The values by which 0 and a parameter are least and greatest: all parameters
\* are 0, and one of them is large.
Large(p, n) == [Zeros EXCEPT ![p] = n]

\* When 0 is not below r + diff.
ZeroFails(r, diff) == Value(r, Zeros) + diff < 0

\* When p is not below r + diff: for all values from some value on, the others
\* being 0.
ParamFails(p, r, diff) ==
  \E least \in Nat : \A n \in Nat : n >= least => Value(r, Large(p, n)) + diff < n

Fails(l, r, diff) ==
  /\ l = Zero => ZeroFails(r, diff)
  /\ \A p \in Param : l = Var(p) => ParamFails(p, r, diff)
  /\ \E s \in Valuation : Value(r, s) + diff < Value(l, s)

CallComplete(at) ==
  /\ \A l, r \in Pure : at.combining[<<l, r>>] \in Level => at.combining[<<l, r>>] \in Pure
  /\ \A l \in Pure : at.simplify[l] \in Level => at.simplify[l] \in Pure
  /\ \A l, r \in Pure, diff \in Int : at.leq_core[<<l, r, diff>>] = "no" => Fails(l, r, diff)

\* Zeros and Large are values of the parameters.
LEMMA LargeType ==
  /\ Zeros \in Valuation
  /\ \A p \in Param, n \in Nat : Large(p, n) \in Valuation /\ Large(p, n)[p] = n
  /\ \A p, q \in Param, n \in Nat : p # q => Large(p, n)[q] = 0
  /\ \A p \in Param : Zeros[p] = 0
BY DEF Zeros, Large, Valuation

\* For 0 and parameters the last conjunct of Fails follows from the others.
LEMMA FailsLeaf ==
  ASSUME NEW l, NEW r \in Level, NEW diff \in Int,
         \/ l = Zero /\ ZeroFails(r, diff)
         \/ \E p \in Param : l = Var(p) /\ ParamFails(p, r, diff)
  PROVE  Fails(l, r, diff)
<1>1. \A p \in Param : Var(p) # Zero /\ \A q \in Param : Var(p) = Var(q) => p = q
  BY DEF Var, Zero
<1>2. CASE l = Zero /\ ZeroFails(r, diff)
  <2>1. Value(r, Zeros) + diff < Value(l, Zeros)
    BY <1>2, LargeType, ValueEquations DEF ZeroFails
  <2>2. QED
    BY <1>1, <1>2, <2>1, LargeType DEF Fails
<1>3. ASSUME NEW p \in Param, l = Var(p), ParamFails(p, r, diff) PROVE Fails(l, r, diff)
  <2>1. PICK n \in Nat : Value(r, Large(p, n)) + diff < n
    BY <1>3 DEF ParamFails
  <2>2. Value(l, Large(p, n)) = n
    BY <1>3, LargeType, ValueEquations
  <2>3. \E s \in Valuation : Value(r, s) + diff < Value(l, s)
    BY <2>1, <2>2, LargeType
  <2>4. QED
    BY <1>1, <1>3, <2>3 DEF Fails
<1>4. QED
  BY <1>2, <1>3

\* 0 and parameters against 0 and parameters.
LEMMA LeavesFail ==
  ASSUME NEW l \in Leaves, NEW r \in Leaves, NEW diff \in Int,
         l = Zero => diff < 0, ~ (IsParam(l) /\ l = r /\ diff >= 0)
  PROVE  Fails(l, r, diff)
<1>1. r \in Level
  BY Parts DEF Leaves
<1>2. CASE l = Zero
  <2>1. Value(r, Zeros) = 0
    BY LargeType, ValueEquations DEF Leaves
  <2>2. ZeroFails(r, diff)
    BY <1>2, <2>1 DEF ZeroFails
  <2>3. QED
    BY <1>1, <1>2, <2>2, FailsLeaf
<1>3. ASSUME NEW p \in Param, l = Var(p) PROVE Fails(l, r, diff)
  <2>1. ParamFails(p, r, diff)
    <3>1. CASE r = Var(p)
      <4>1. diff < 0
        BY <1>3, <3>1, Fields DEF IsParam
      <4>2. \A n \in Nat : Value(r, Large(p, n)) = n
        BY <3>1, LargeType, ValueEquations
      <4>3. \A n \in Nat : n >= 0 => Value(r, Large(p, n)) + diff < n
        BY <4>1, <4>2
      <4>4. QED
        BY <4>3 DEF ParamFails
    <3>2. CASE r # Var(p)
      <4>1. \A n \in Nat : Value(r, Large(p, n)) = 0
        BY <3>2, LargeType, ValueEquations DEF Leaves
      <4>2. PICK least \in Nat : diff < least
        <5>1. CASE diff < 0
          BY <5>1
        <5>2. CASE diff >= 0
          <6>1. diff + 1 \in Nat /\ diff < diff + 1
            BY <5>2
          <6>2. QED
            BY <6>1
        <5>3. QED
          BY <5>1, <5>2
      <4>3. \A n \in Nat : n >= least => Value(r, Large(p, n)) + diff < n
        BY <4>1, <4>2
      <4>4. QED
        BY <4>3 DEF ParamFails
    <3>3. QED
      BY <3>1, <3>2
  <2>2. QED
    BY <1>1, <1>3, <2>1, FailsLeaf
<1>4. QED
  BY <1>2, <1>3 DEF Leaves

\* What fails against the part of a successor fails against the successor.
LEMMA SuccFails ==
  ASSUME NEW l, NEW m \in Level, NEW diff \in Int, Succ(m) \in Level, Fails(l, m, diff + 1)
  PROVE  Fails(l, Succ(m), diff)
<1>1. \A s \in Valuation : Value(Succ(m), s) + diff = Value(m, s) + (diff + 1)
  BY ValueEquations, ValueType
<1>2. l = Zero => ZeroFails(Succ(m), diff)
  BY <1>1, LargeType DEF Fails, ZeroFails
<1>3. ASSUME NEW p \in Param, l = Var(p) PROVE ParamFails(p, Succ(m), diff)
  <2>1. PICK least \in Nat : \A n \in Nat : n >= least => Value(m, Large(p, n)) + (diff + 1) < n
    BY <1>3 DEF Fails, ParamFails
  <2>2. \A n \in Nat : n >= least => Value(Succ(m), Large(p, n)) + diff < n
    BY <1>1, <2>1, LargeType
  <2>3. QED
    BY <2>2 DEF ParamFails
<1>4. \E s \in Valuation : Value(Succ(m), s) + diff < Value(l, s)
  BY <1>1 DEF Fails
<1>5. QED
  BY <1>2, <1>3, <1>4 DEF Fails

\* 0 or a parameter that fails against both sides of a max fails against it:
\* both failures are for the same values.
LEMMA MaxFails ==
  ASSUME NEW l \in Leaves, NEW m \in Level, NEW n \in Level, NEW diff \in Int, Max(m, n) \in Level,
         Fails(l, m, diff), Fails(l, n, diff)
  PROVE  Fails(l, Max(m, n), diff)
<1>1. \A s \in Valuation : /\ Value(Max(m, n), s) = Max2(Value(m, s), Value(n, s))
                           /\ Value(m, s) \in Nat /\ Value(n, s) \in Nat
  BY ValueEquations, ValueType
<1>2. CASE l = Zero
  <2>1. Value(m, Zeros) + diff < 0 /\ Value(n, Zeros) + diff < 0
    BY <1>2 DEF Fails, ZeroFails
  <2>2. ZeroFails(Max(m, n), diff)
    BY <1>1, <2>1, LargeType DEF ZeroFails, Max2
  <2>3. QED
    BY <1>2, <2>2, FailsLeaf
<1>3. ASSUME NEW p \in Param, l = Var(p) PROVE Fails(l, Max(m, n), diff)
  <2>1. PICK a \in Nat : \A i \in Nat : i >= a => Value(m, Large(p, i)) + diff < i
    BY <1>3 DEF Fails, ParamFails
  <2>2. PICK b \in Nat : \A i \in Nat : i >= b => Value(n, Large(p, i)) + diff < i
    BY <1>3 DEF Fails, ParamFails
  <2> DEFINE c == Max2(a, b)
  <2>3. c \in Nat /\ \A i \in Nat : i >= c => i >= a /\ i >= b
    BY DEF Max2
  <2> HIDE DEF c
  <2>4. ASSUME NEW i \in Nat, i >= c PROVE Value(Max(m, n), Large(p, i)) + diff < i
    <3>1. Value(m, Large(p, i)) + diff < i /\ Value(n, Large(p, i)) + diff < i
      BY <2>1, <2>2, <2>3, <2>4
    <3>2. QED
      BY <1>1, <3>1, LargeType DEF Max2
  <2>5. ParamFails(p, Max(m, n), diff)
    BY <2>3, <2>4 DEF ParamFails
  <2>6. QED
    BY <1>3, <2>5, FailsLeaf
<1>4. QED
  BY <1>2, <1>3 DEF Leaves

\* What leq_core rejects fails, if what it calls is right about that; ...
LEMMA LeqComplete ==
  ASSUME NEW at, CallRight(at), CallComplete(at), NEW l \in Pure, NEW r \in Pure, NEW diff \in Int,
         leq_core(at, l, r, diff) = "no"
  PROVE  Fails(l, r, diff)
<1>1. l \in Level /\ r \in Level /\ l \notin NoLevel /\ r \notin NoLevel
  BY Parts DEF Pure
<1>2. \A m, n \in Pure, d \in Int : at.leq_core[<<m, n, d>>] = "no" => Fails(m, n, d)
  BY DEF CallComplete
<1>3. ~ (l = Zero /\ diff >= 0)
  BY <1>1 DEF leq_core
<1>4. CASE r = Zero /\ diff < 0
  <2>1. CASE l \in Leaves
    <3>1. r \in Leaves
      BY <1>4 DEF Leaves
    <3>2. QED
      BY <1>4, <2>1, <3>1, LeavesFail
  <2>2. CASE l \notin Leaves
    <3>1. Value(r, Zeros) = 0 /\ Value(l, Zeros) \in Nat
      BY <1>1, <1>4, LargeType, ValueEquations, ValueType
    <3>2. Value(r, Zeros) + diff < Value(l, Zeros)
      BY <1>4, <3>1
    <3>3. QED
      BY <2>2, <3>2, LargeType DEF Fails, Leaves
  <2>3. QED
    BY <2>1, <2>2
<1>5. CASE ~ (r = Zero /\ diff < 0) /\ {l.k, r.k} \subseteq {"zero", "param"}
  <2>1. l \in Leaves /\ r \in Leaves
    BY <1>5, PureVariant, Fields DEF Leaves
  <2>2. leq_core(at, l, r, diff) = YesNo(IsParam(l) /\ l = r /\ diff >= 0)
    BY <1>1, <1>3, <1>5 DEF leq_core
  <2>3. ~ (IsParam(l) /\ l = r /\ diff >= 0)
    BY <2>2 DEF YesNo
  <2>4. QED
    BY <1>3, <2>1, <2>3, LeavesFail
<1>6. CASE ~ (r = Zero /\ diff < 0) /\ l.k = "succ"
  <2>1. PICK m \in Pure : l = Succ(m)
    BY <1>6, PureVariant, Fields
  <2>2. leq_core(at, l, r, diff) = at.leq_core[<<m, r, diff - 1>>]
    BY <1>1, <1>3, <1>6, <2>1, Fields DEF leq_core
  <2>3. PICK s \in Valuation : Value(r, s) + (diff - 1) < Value(m, s)
    BY <1>2, <2>2 DEF Fails
  <2>4. /\ Value(l, s) = Value(m, s) + 1
        /\ Value(m, s) \in Nat /\ Value(r, s) \in Nat
    BY <1>1, <2>1, ValueEquations, ValueType DEF Pure
  <2>5. Value(r, s) + diff < Value(l, s)
    BY <2>3, <2>4
  <2>6. QED
    BY <2>1, <2>5, Fields DEF Fails
<1>7. CASE ~ (r = Zero /\ diff < 0) /\ l.k # "succ" /\ r.k = "succ"
  <2>1. PICK m \in Pure : r = Succ(m)
    BY <1>7, PureVariant, Fields
  <2>2. leq_core(at, l, r, diff) = at.leq_core[<<l, m, diff + 1>>]
    BY <1>1, <1>3, <1>7, <2>1, Fields DEF leq_core
  <2>3. Fails(l, m, diff + 1)
    BY <1>2, <2>2
  <2>4. QED
    BY <1>1, <2>1, <2>3, SuccFails DEF Pure
<1>8. CASE ~ (r = Zero /\ diff < 0) /\ l.k = "max" /\ r.k # "succ"
  <2>1. PICK m \in Pure, n \in Pure : l = Max(m, n)
    BY <1>8, PureVariant, Fields
  <2>2. leq_core(at, l, r, diff) = AndThen(at.leq_core[<<m, r, diff>>], at.leq_core[<<n, r, diff>>])
    BY <1>1, <1>3, <1>8, <2>1, Fields DEF leq_core, leq_max
  <2>3. Fails(m, r, diff) \/ Fails(n, r, diff)
    BY <1>2, <2>2 DEF AndThen
  <2>4. PICK s \in Valuation : Value(r, s) + diff < Value(m, s) \/ Value(r, s) + diff < Value(n, s)
    BY <2>3 DEF Fails
  <2>5. /\ Value(l, s) = Max2(Value(m, s), Value(n, s))
        /\ Value(m, s) \in Nat /\ Value(n, s) \in Nat /\ Value(r, s) \in Nat
    BY <1>1, <2>1, ValueEquations, ValueType DEF Pure
  <2>6. Value(r, s) + diff < Value(l, s)
    BY <2>4, <2>5 DEF Max2
  <2>7. QED
    BY <2>1, <2>6, Fields DEF Fails
<1>9. CASE ~ (r = Zero /\ diff < 0) /\ l \in Leaves /\ r.k = "max"
  <2>1. PICK m \in Pure, n \in Pure : r = Max(m, n)
    BY <1>9, PureVariant, Fields
  <2>2. l.k \in {"zero", "param"}
    BY <1>9, Fields DEF Leaves
  <2>3. leq_core(at, l, r, diff) = OrElse(at.leq_core[<<l, m, diff>>], at.leq_core[<<l, n, diff>>])
    BY <1>1, <1>3, <1>9, <2>1, <2>2, Fields DEF leq_core, leq_max
  <2>4. Fails(l, m, diff) /\ Fails(l, n, diff)
    BY <1>2, <2>3 DEF OrElse
  <2>5. QED
    BY <1>1, <1>9, <2>1, <2>4, MaxFails DEF Pure
<1>10. QED
  BY <1>4, <1>5, <1>6, <1>7, <1>8, <1>9, PureVariant, Fields DEF Leaves

------------------------------------------------------------------------------
(***************************************************************************)
(* All calls of a thread                                                   *)
(***************************************************************************)
AllRight(at) == CallRight(at) /\ CallTotal(at) /\ CallExact(at) /\ CallComplete(at)

\* A call does what the operation of that name does.
LEMMA FrameCalls ==
  ASSUME NEW at
  PROVE  /\ \A l, r \in LevelOrNone : Frame(at).combining[<<l, r>>] = combining(at, l, r)
         /\ \A l \in LevelOrNone : Frame(at).simplify[l] = simplify(at, l)
         /\ \A l \in LevelOrNone, ks, vs \in Seq(LevelOrNone) :
              Frame(at).subst_level[<<l, ks, vs>>] = subst_level(at, l, ks, vs)
         /\ \A l, r \in LevelOrNone, diff \in Int :
              Frame(at).leq_core[<<l, r, diff>>] = leq_core(at, l, r, diff)
<1>1. \A l, r \in LevelOrNone : Frame(at).combining[<<l, r>>] = combining(at, l, r)
  BY DEF Frame, Two
<1>2. \A l \in LevelOrNone : Frame(at).simplify[l] = simplify(at, l)
  BY DEF Frame
<1>3. \A l \in LevelOrNone, ks, vs \in Seq(LevelOrNone) :
        Frame(at).subst_level[<<l, ks, vs>>] = subst_level(at, l, ks, vs)
  BY DEF Frame, Replacing
<1>4. \A l, r \in LevelOrNone, diff \in Int :
        Frame(at).leq_core[<<l, r, diff>>] = leq_core(at, l, r, diff)
  BY DEF Frame, Compared
<1>5. QED
  BY <1>1, <1>2, <1>3, <1>4

\* A call is right if the calls that it makes are, ...
LEMMA FrameRight ==
  ASSUME NEW at, CallRight(at)
  PROVE  CallRight(Frame(at))
<1>1. CombiningRight(Frame(at).combining)
  <2>1. Frame(at).combining = [a \in Two |-> combining(at, a[1], a[2])]
    BY DEF Frame
  <2>2. Frame(at).combining \in [Two -> LevelOrNone]
    BY <2>1, CombiningStep DEF Two
  <2>3. QED
    BY <2>2, FrameCalls, CombiningStep DEF CombiningRight
<1>2. SimplifyRight(Frame(at).simplify)
  <2>1. Frame(at).simplify = [l \in LevelOrNone |-> simplify(at, l)]
    BY DEF Frame
  <2>2. Frame(at).simplify \in [LevelOrNone -> LevelOrNone]
    BY <2>1, SimplifyStep
  <2>3. QED
    BY <2>2, FrameCalls, SimplifyStep DEF SimplifyRight
<1>3. SubstRight(Frame(at).subst_level)
  <2>1. Frame(at).subst_level = [a \in Replacing |-> subst_level(at, a[1], a[2], a[3])]
    BY DEF Frame
  <2>2. Frame(at).subst_level \in [Replacing -> LevelOrNone]
    BY <2>1, SubstStep DEF Replacing
  <2>3. Seq(Level) \subseteq Seq(LevelOrNone)
    BY Storing
  <2>4. QED
    BY <2>2, <2>3, FrameCalls, SubstStep DEF SubstRight
<1>4. LeqRight(Frame(at).leq_core)
  <2>1. Frame(at).leq_core = [a \in Compared |-> leq_core(at, a[1], a[2], a[3])]
    BY DEF Frame
  <2>2. Frame(at).leq_core \in [Compared -> Outcome]
    BY <2>1, LeqStep DEF Compared
  <2>3. QED
    BY <2>2, FrameCalls, LeqStep DEF LeqRight
<1>5. QED
  BY <1>1, <1>2, <1>3, <1>4 DEF CallRight

\* ... it does not panic if they do not, ...
LEMMA FrameTotal ==
  ASSUME NEW at, CallRight(at), CallTotal(at)
  PROVE  CallTotal(Frame(at))
<1>1. Simplified \subseteq LevelOrNone /\ Fine \subseteq LevelOrNone /\ Simplified \subseteq Fine
  BY StoringFine
<1>2. Seq(Fine) \subseteq Seq(LevelOrNone)
  BY <1>1
<1>3. \A l, r \in Simplified : Frame(at).combining[<<l, r>>] \in Simplified
  <2> SUFFICES ASSUME NEW l \in Simplified, NEW r \in Simplified
               PROVE  Frame(at).combining[<<l, r>>] \in Simplified
    OBVIOUS
  <2>1. Frame(at).combining[<<l, r>>] = combining(at, l, r)
    BY <1>1, FrameCalls
  <2>2. QED
    BY <2>1, CombiningTotal
<1>4. \A l \in Fine : Frame(at).simplify[l] \in Simplified
  BY <1>1, FrameCalls, SimplifyTotal
<1>5. \A l \in Fine, ks \in Seq(LevelOrNone), vs \in Seq(Fine) :
        Frame(at).subst_level[<<l, ks, vs>>] \in Fine
  <2> SUFFICES ASSUME NEW l \in Fine, NEW ks \in Seq(LevelOrNone), NEW vs \in Seq(Fine)
               PROVE  Frame(at).subst_level[<<l, ks, vs>>] \in Fine
    OBVIOUS
  <2>1. Frame(at).subst_level[<<l, ks, vs>>] = subst_level(at, l, ks, vs)
    BY <1>1, <1>2, FrameCalls
  <2>2. QED
    BY <2>1, SubstTotal
<1>6. \A l, r \in Simplified, diff \in Int : Frame(at).leq_core[<<l, r, diff>>] # "panic"
  <2> SUFFICES ASSUME NEW l \in Simplified, NEW r \in Simplified, NEW diff \in Int
               PROVE  Frame(at).leq_core[<<l, r, diff>>] # "panic"
    OBVIOUS
  <2>1. Frame(at).leq_core[<<l, r, diff>>] = leq_core(at, l, r, diff)
    BY <1>1, FrameCalls
  <2>2. QED
    BY <2>1, LeqTotal
<1>7. QED
  BY <1>3, <1>4, <1>5, <1>6 DEF CallTotal

\* ... and a test for zero is exact if those that it makes are; ...
LEMMA FrameExact ==
  ASSUME NEW at, CallRight(at), CallExact(at)
  PROVE  CallExact(Frame(at))
<1>1. Zero \in LevelOrNone /\ -1 \in Int /\ 0 \in Int
  BY Parts, Storing
<1>2. ASSUME NEW l \in {Zero, Succ(Zero)} \cap Level, Frame(at).simplify[l] \in Level
      PROVE  Frame(at).simplify[l] = l
  <2>1. CASE l = Zero
    <3>1. simplify(at, Zero) = Zero
      BY Fields DEF simplify
    <3>2. QED
      BY <1>1, <2>1, <3>1, FrameCalls
  <2>2. CASE l = Succ(Zero)
    <3>1. l \in LevelOrNone /\ Zero \in Level
      BY Parts, Storing
    <3>2. simplify(at, Succ(Zero)) = succ(at.simplify[Zero])
      BY Fields DEF simplify, Failure
    <3>3. Frame(at).simplify[l] = succ(at.simplify[Zero])
      BY <2>2, <3>1, <3>2, FrameCalls
    <3>4. succ(at.simplify[Zero]) \in Level =>
            at.simplify[Zero] \in Level /\ succ(at.simplify[Zero]) = Succ(at.simplify[Zero])
      BY Storing
    <3>5. at.simplify[Zero] \in Level => at.simplify[Zero] = Zero
      BY <3>1 DEF CallExact
    <3>6. QED
      BY <1>2, <2>2, <3>3, <3>4, <3>5
  <2>3. QED
    BY <1>2, <2>1, <2>2
<1>3. \A ks, vs \in Seq(LevelOrNone) :
        Frame(at).subst_level[<<Zero, ks, vs>>] \in Level => Frame(at).subst_level[<<Zero, ks, vs>>] = Zero
  <2>1. \A ks, vs : subst_level(at, Zero, ks, vs) = Zero
    BY Fields DEF subst_level
  <2>2. QED
    BY <1>1, <2>1, FrameCalls
<1>4. \A l \in LevelOrNone :
        /\ Frame(at).leq_core[<<l, Zero, 0>>] = leq_core(at, l, Zero, 0)
        /\ Frame(at).leq_core[<<Zero, l, 0>>] = leq_core(at, Zero, l, 0)
        /\ Frame(at).leq_core[<<Zero, l, -1>>] = leq_core(at, Zero, l, -1)
  BY <1>1, FrameCalls
<1>5. Succ(Zero) \in Level => \A l \in LevelOrNone :
        Frame(at).leq_core[<<Succ(Zero), l, 0>>] = leq_core(at, Succ(Zero), l, 0)
  <2>1. Succ(Zero) \in Level => Succ(Zero) \in LevelOrNone
    BY Storing
  <2>2. QED
    BY <1>1, <2>1, FrameCalls
<1>6. ASSUME NEW l \in LevelOrNone
      PROVE  /\ Frame(at).leq_core[<<l, Zero, 0>>] = "no" => \E s \in Valuation : Value(l, s) # 0
             /\ Frame(at).leq_core[<<Zero, l, 0>>] # "no"
             /\ Frame(at).leq_core[<<Zero, l, -1>>] = "no" => Value(l, Zeros) = 0
             /\ Succ(Zero) \in Level /\ Frame(at).leq_core[<<Succ(Zero), l, 0>>] = "no" => Value(l, Zeros) = 0
  BY <1>4, <1>5, LeqExact
<1>7. QED
  BY <1>2, <1>3, <1>6 DEF CallExact

\* ... so does what a call rejects, and simplification makes no imax.
LEMMA FrameComplete ==
  ASSUME NEW at, CallRight(at), CallComplete(at)
  PROVE  CallComplete(Frame(at))
<1>1. Pure \subseteq Level /\ Pure \subseteq LevelOrNone
  BY Storing DEF Pure
<1>2. ASSUME NEW l \in Pure, NEW r \in Pure, combining(at, l, r) \in Level
      PROVE  combining(at, l, r) \in Pure
  <2>1. CASE l = Zero \/ r = Zero
    BY <2>1 DEF combining
  <2>2. CASE l # Zero /\ r # Zero /\ l.k = "succ" /\ r.k = "succ"
    <3>1. PICK m \in Pure, n \in Pure : l = Succ(m) /\ r = Succ(n)
      BY <2>2, PureVariant, Fields
    <3> DEFINE c == at.combining[<<m, n>>]
    <3>2. combining(at, l, r) = succ(c)
      BY <2>2, <3>1, Fields DEF combining
    <3>3. c \in Level => c \in Pure
      BY DEF CallComplete
    <3> HIDE DEF c
    <3>4. QED
      BY <1>2, <3>2, <3>3, Storing, PureParts
  <2>3. CASE l # Zero /\ r # Zero /\ ~ (l.k = "succ" /\ r.k = "succ")
    <3>1. combining(at, l, r) = max(l, r)
      BY <2>3 DEF combining
    <3>2. QED
      BY <1>2, <3>1, Storing, PureParts
  <2>4. QED
    BY <2>1, <2>2, <2>3
<1>3. ASSUME NEW l \in Pure, simplify(at, l) \in Level PROVE simplify(at, l) \in Pure
  <2>1. CASE l = Zero \/ \E p \in Param : l = Var(p)
    BY <2>1, Fields DEF simplify
  <2>2. ASSUME NEW m \in Pure, l = Succ(m) PROVE simplify(at, l) \in Pure
    <3> DEFINE c == at.simplify[m]
    <3>1. simplify(at, l) = succ(c)
      BY <2>2, Fields DEF simplify, Failure
    <3>2. c \in Level => c \in Pure
      BY DEF CallComplete
    <3> HIDE DEF c
    <3>3. QED
      BY <1>3, <3>1, <3>2, Storing, PureParts
  <2>3. ASSUME NEW m \in Pure, NEW n \in Pure, l = Max(m, n) PROVE simplify(at, l) \in Pure
    <3> DEFINE a == at.simplify[m]
               b == at.simplify[n]
    <3>1. simplify(at, l) = at.combining[<<a, b>>]
      BY <2>3, Fields DEF simplify, Failure
    <3>2. a \in LevelOrNone /\ b \in LevelOrNone
      BY <1>1 DEF CallRight, SimplifyRight
    <3>3. (a \in Level => a \in Pure) /\ (b \in Level => b \in Pure)
      BY DEF CallComplete
    <3> HIDE DEF a, b
    <3>4. a \in Level /\ b \in Level
      BY <1>3, <3>1, <3>2 DEF CallRight, CombiningRight
    <3>5. QED
      BY <1>3, <3>1, <3>3, <3>4 DEF CallComplete
  <2>4. QED
    BY <2>1, <2>2, <2>3, PureVariant
<1>4. \A l, r \in Pure : Frame(at).combining[<<l, r>>] = combining(at, l, r)
  BY <1>1, FrameCalls
<1>5. \A l \in Pure : Frame(at).simplify[l] = simplify(at, l)
  BY <1>1, FrameCalls
<1>6. \A l, r \in Pure, diff \in Int : Frame(at).leq_core[<<l, r, diff>>] = leq_core(at, l, r, diff)
  BY <1>1, FrameCalls
<1>7. \A l, r \in Pure, diff \in Int : Frame(at).leq_core[<<l, r, diff>>] = "no" => Fails(l, r, diff)
  BY <1>6, LeqComplete
<1>8. QED
  BY <1>2, <1>3, <1>4, <1>5, <1>7 DEF CallComplete

\* ... and a call for which there is no room claims nothing.
LEMMA OverflowRight == CallRight(Overflow)
<1>1. /\ Overflow.combining = [a \in Two |-> Exhausted]
      /\ Overflow.simplify = [l \in LevelOrNone |-> Exhausted]
      /\ Overflow.subst_level = [a \in Replacing |-> Exhausted]
      /\ Overflow.leq_core = [a \in Compared |-> "overflow"]
  BY DEF Overflow
<1>2. CombiningRight([a \in Two |-> Exhausted])
  BY Storing, Parts DEF CombiningRight, Two
<1>3. SimplifyRight([l \in LevelOrNone |-> Exhausted])
  BY Storing, Parts DEF SimplifyRight
<1>4. SubstRight([a \in Replacing |-> Exhausted])
  <2>1. Seq(Level) \subseteq Seq(LevelOrNone)
    BY Storing
  <2>2. QED
    BY <2>1, Storing, Parts DEF SubstRight, Replacing
<1>5. LeqRight([a \in Compared |-> "overflow"])
  BY DEF LeqRight, Compared, Outcome, Failure
<1>6. QED
  BY <1>1, <1>2, <1>3, <1>4, <1>5 DEF CallRight

\* Nor does it panic, or reject.
LEMMA OverflowTotal == CallTotal(Overflow) /\ CallExact(Overflow)
<1>1. /\ Overflow.combining = [a \in Two |-> Exhausted]
      /\ Overflow.simplify = [l \in LevelOrNone |-> Exhausted]
      /\ Overflow.subst_level = [a \in Replacing |-> Exhausted]
      /\ Overflow.leq_core = [a \in Compared |-> "overflow"]
  BY DEF Overflow
<1>2. /\ Simplified \subseteq LevelOrNone /\ Fine \subseteq LevelOrNone /\ Exhausted \notin Level
      /\ Exhausted \in Simplified /\ Exhausted \in Fine /\ Zero \in Level /\ Zero \in LevelOrNone
      /\ Level \subseteq LevelOrNone
  BY StoringFine, Parts, Storing DEF Simplified, Fine
<1>3. /\ \A l, r \in LevelOrNone : Overflow.combining[<<l, r>>] = Exhausted
      /\ \A l \in LevelOrNone : Overflow.simplify[l] = Exhausted
      /\ \A l, r \in LevelOrNone, diff \in Int : Overflow.leq_core[<<l, r, diff>>] = "overflow"
  BY <1>1 DEF Two, Compared
<1>4. \A l \in LevelOrNone, ks, vs \in Seq(LevelOrNone) : Overflow.subst_level[<<l, ks, vs>>] = Exhausted
  BY <1>1 DEF Replacing
<1>5. Seq(Fine) \subseteq Seq(LevelOrNone)
  BY <1>2
<1>6. CallTotal(Overflow)
  BY <1>2, <1>3, <1>4, <1>5 DEF CallTotal
<1>7. -1 \in Int /\ 0 \in Int
  OBVIOUS
<1>8. CallExact(Overflow)
  BY <1>2, <1>3, <1>4, <1>7 DEF CallExact
<1>9. QED
  BY <1>6, <1>8

\* A call for which there is no room rejects nothing.
LEMMA OverflowComplete == CallComplete(Overflow)
<1>1. Pure \subseteq LevelOrNone /\ Exhausted \notin Level
  BY Storing, Parts DEF Pure, NoLevel
<1>2. /\ \A l, r \in LevelOrNone : Overflow.combining[<<l, r>>] = Exhausted
      /\ \A l \in LevelOrNone : Overflow.simplify[l] = Exhausted
      /\ \A l, r \in LevelOrNone, diff \in Int : Overflow.leq_core[<<l, r, diff>>] = "overflow"
  BY DEF Overflow, Two, Compared
<1>3. QED
  BY <1>1, <1>2 DEF CallComplete

\* Whatever the stack holds, the calls of a thread are right.
LEMMA ThreadRight == AllRight(Thread)
<1> DEFINE T == {d \in 0 .. Depth : AllRight(Call[d])}
<1> HIDE DEF AllRight
<1>1. 0 \in T
  <2>1. 0 \in 0 .. Depth
    BY BoundAssumption
  <2>2. Call[0] = Overflow
    BY <2>1, CallEquation
  <2>3. QED
    BY <2>1, <2>2, OverflowRight, OverflowTotal, OverflowComplete DEF AllRight
<1>2. ASSUME NEW k \in 0 .. Depth, k # Depth, k \in T PROVE k + 1 \in T
  <2>1. k + 1 \in 0 .. Depth /\ k + 1 # 0 /\ (k + 1) - 1 = k
    BY <1>2, BoundAssumption
  <2>2. Call[k + 1] = Frame(Call[k])
    BY <2>1, CallEquation
  <2>3. AllRight(Frame(Call[k]))
    BY <1>2, FrameRight, FrameTotal, FrameExact, FrameComplete DEF AllRight
  <2>4. QED
    BY <2>1, <2>2, <2>3
<1>3. 0 .. Depth \subseteq T
  <2> HIDE DEF T
  <2>1. QED
    BY <1>1, <1>2, UpTo, BoundAssumption
<1>4. Depth \in T
  BY <1>3, BoundAssumption
<1>5. QED
  BY <1>4 DEF Thread

------------------------------------------------------------------------------
(***************************************************************************)
(* Theorems                                                                *)
(***************************************************************************)
\* The values of a run are among all values.
LEMMA ValuesAreValuations == Values \subseteq Valuation
BY BoundAssumption DEF Values, Valuation

\* What leq, is_zero and is_nonzero accept holds for all values of the parameters.
THEOREM LevelsLeqSound == Spec => []LeqSound
<1>1. Init => LeqSound
  BY DEF Init, NoQuery, LeqSound
<1>2. ASSUME LeqSound, [Next]_vars PROVE LeqSound'
  <2>1. CASE UNCHANGED vars
    BY <1>2, <2>1 DEF vars, LeqSound
  <2>2. ASSUME NEW pair \in Pairs, Leq(pair[1], pair[2]) PROVE LeqSound'
    <3>1. pair[1] \in LevelOrNone /\ pair[2] \in LevelOrNone
      BY QueryAssumption, Storing
    <3>2. leq(Thread, pair[1], pair[2]) = "yes" => Below(pair[1], pair[2])
      BY <3>1, ThreadRight, TestsRight, ValuesAreValuations DEF AllRight, Below
    <3>3. QED
      BY <2>2, <3>2 DEF Leq, LeqSound
  <2>3. ASSUME NEW l \in Deep, IsZero(l) PROVE LeqSound'
    <3>1. l \in LevelOrNone /\ Zero \in LevelOrNone
      BY QueryAssumption, Storing, Parts
    <3>2. is_zero(Thread, l) = "yes" => Below(l, Zero)
      BY <3>1, ThreadRight, TestsRight, ValuesAreValuations DEF AllRight, Below, is_zero
    <3>3. QED
      BY <2>3, <3>2 DEF IsZero, LeqSound
  <2>4. ASSUME NEW l \in Deep, IsNonzero(l) PROVE LeqSound'
    <3>1. l \in LevelOrNone /\ succ(Zero) \in LevelOrNone
      BY QueryAssumption, Storing
    <3>2. succ(Zero) \in Level => succ(Zero) = Succ(Zero)
      BY Storing
    <3>3. is_nonzero(Thread, l) = "yes" => Below(Succ(Zero), l)
      BY <3>1, <3>2, ThreadRight, TestsRight, ValuesAreValuations DEF AllRight, Below, is_nonzero
    <3>4. QED
      BY <2>4, <3>3 DEF IsNonzero, LeqSound
  <2>5. ASSUME NEW l, NEW ks, NEW vs, SubstSimp(l, ks, vs) PROVE LeqSound'
    BY <2>5 DEF SubstSimp, LeqSound
  <2>6. QED
    BY <1>2, <2>1, <2>2, <2>3, <2>4, <2>5 DEF Next
<1>3. QED
  BY <1>1, <1>2, PTL DEF Spec

\* Substitution and simplification keep what a level denotes.
THEOREM LevelsSubstitution == Spec => []SubstitutionKeepsMeaning
<1>1. Init => SubstitutionKeepsMeaning
  BY DEF Init, NoQuery, SubstitutionKeepsMeaning
<1>2. ASSUME SubstitutionKeepsMeaning, [Next]_vars PROVE SubstitutionKeepsMeaning'
  <2>1. CASE UNCHANGED vars
    BY <1>2, <2>1 DEF vars, SubstitutionKeepsMeaning
  <2>2. ASSUME NEW l, NEW r, Leq(l, r) \/ IsZero(l) \/ IsNonzero(l) PROVE SubstitutionKeepsMeaning'
    BY <2>2 DEF Leq, IsZero, IsNonzero, SubstitutionKeepsMeaning
  <2>3. ASSUME NEW l \in Deep, NEW p \in Param, NEW q \in Param, NEW v \in Leaf, NEW w \in Leaf,
               SubstSimp(l, <<Var(p), Var(q)>>, <<v, w>>)
        PROVE  SubstitutionKeepsMeaning'
    <3> DEFINE ks == <<Var(p), Var(q)>>
               vs == <<v, w>>
               b == Thread.subst_level[<<l, ks, vs>>]
               res == Thread.simplify[b]
    <3>1. ks \in Seq(LevelOrNone) /\ vs \in Seq(Level) /\ vs \in Seq(LevelOrNone) /\ l \in LevelOrNone
      BY QueryAssumption, Parts, Storing
    <3>2. query'.op = "subst_simp" /\ query'.l = l /\ query'.ks = ks /\ query'.vs = vs /\ answer' = res
      BY <2>3 DEF SubstSimp, subst_simp
    <3> HIDE DEF ks, vs
    <3>3. b \in LevelOrNone /\ (b \in Level => \A s \in Valuation : Value(b, s) = Value(l, Substituted(ks, vs, s)))
      <4>1. <<l, ks, vs>> \in Replacing
        BY <3>1 DEF Replacing
      <4>2. QED
        BY <3>1, <4>1, ThreadRight DEF AllRight, CallRight, SubstRight
    <3> HIDE DEF b
    <3>4. /\ res \in LevelOrNone
          /\ res \in Level => b \in Level /\ \A s \in Valuation : Value(res, s) = Value(b, s)
      BY <3>3, ThreadRight DEF AllRight, CallRight, SimplifyRight
    <3> HIDE DEF res
    <3>5. res \in Level => \A s \in Values : Value(res, s) = Value(l, Substituted(ks, vs, s))
      BY <3>3, <3>4, Storing, ValuesAreValuations
    <3>6. QED
      BY <3>2, <3>5 DEF SubstitutionKeepsMeaning, Substituted
  <2>4. ASSUME NEW l \in Deep, NEW ks \in [1 .. 2 -> Param], NEW v \in Leaf, NEW w \in Leaf,
               SubstSimp(l, <<Var(ks[1]), Var(ks[2])>>, <<v, w>>)
        PROVE  SubstitutionKeepsMeaning'
    <3>1. ks[1] \in Param /\ ks[2] \in Param
      OBVIOUS
    <3>2. QED
      BY <2>3, <2>4, <3>1
  <2>5. QED
    BY <1>2, <2>1, <2>2, <2>4 DEF Next
<1>3. QED
  BY <1>1, <1>2, PTL DEF Spec

\* No call of leq, is_zero, is_nonzero and of substitution panics, whatever the
\* levels: the last arm of leq_core is not reached on simplified levels.
THEOREM LevelsTotal == Spec => []TypeOK
<1>1. Init => TypeOK
  BY DEF Init, NoQuery, TypeOK
<1>2. ASSUME TypeOK, [Next]_vars PROVE TypeOK'
  <2>0. CallRight(Thread) /\ CallTotal(Thread)
    BY ThreadRight DEF AllRight
  <2>1. CASE UNCHANGED vars
    BY <1>2, <2>1 DEF vars, TypeOK
  <2>2. ASSUME NEW l \in Fine, NEW r \in Fine PROVE leq(Thread, l, r) \in {"yes", "no", "overflow"}
    <3>1. leq(Thread, l, r) \in Outcome
      BY <2>0, StoringFine, TestsRight
    <3>2. leq(Thread, l, r) # "panic"
      BY <2>0, TestsTotal
    <3>3. QED
      BY <3>1, <3>2 DEF Outcome, Failure
  <2>3. Zero \in Fine /\ succ(Zero) \in Fine /\ Level \subseteq Fine
    BY Parts, StoringFine DEF Fine
  <2>4. ASSUME NEW pair \in Pairs, Leq(pair[1], pair[2]) PROVE TypeOK'
    <3>1. pair[1] \in Fine /\ pair[2] \in Fine
      BY <2>3, QueryAssumption
    <3>2. QED
      BY <2>2, <2>4, <3>1 DEF Leq, TypeOK
  <2>5. ASSUME NEW l \in Deep, IsZero(l) PROVE TypeOK'
    <3>1. l \in Fine
      BY <2>3, QueryAssumption
    <3>2. QED
      BY <2>2, <2>3, <2>5, <3>1 DEF IsZero, is_zero, TypeOK
  <2>6. ASSUME NEW l \in Deep, IsNonzero(l) PROVE TypeOK'
    <3>1. l \in Fine
      BY <2>3, QueryAssumption
    <3>2. QED
      BY <2>2, <2>3, <2>6, <3>1 DEF IsNonzero, is_nonzero, TypeOK
  <2>7. ASSUME NEW l \in Deep, NEW ks \in [1 .. 2 -> Param], NEW v \in Leaf, NEW w \in Leaf,
               SubstSimp(l, <<Var(ks[1]), Var(ks[2])>>, <<v, w>>)
        PROVE  TypeOK'
    <3> DEFINE a == <<Var(ks[1]), Var(ks[2])>>
               b == <<v, w>>
    <3>1. Var(ks[1]) \in LevelOrNone /\ Var(ks[2]) \in LevelOrNone /\ v \in Fine /\ w \in Fine /\ l \in Fine
      BY <2>3, QueryAssumption, Parts, Storing
    <3>2. a \in Seq(LevelOrNone) /\ b \in Seq(Fine)
      BY <3>1
    <3>3. query'.op = "subst_simp" /\ answer' = Thread.simplify[Thread.subst_level[<<l, a, b>>]]
      BY <2>7 DEF SubstSimp, subst_simp
    <3> HIDE DEF a, b
    <3>4. answer' \in Fine
      BY <2>0, <3>1, <3>2, <3>3, StoringFine DEF CallTotal
    <3>5. QED
      BY <3>3, <3>4 DEF TypeOK, Fine
  <2>8. QED
    BY <1>2, <2>1, <2>4, <2>5, <2>6, <2>7 DEF Next
<1>3. QED
  BY <1>1, <1>2, PTL DEF Spec

\* A level that is_zero rejects is not zero for some values of the parameters, and
\* one that is_nonzero rejects is zero for some.
THEOREM LevelsZeroTests == Spec => []ZeroTestsExact
<1>1. Init => ZeroTestsExact
  BY DEF Init, NoQuery, ZeroTestsExact
<1>2. ASSUME ZeroTestsExact, [Next]_vars PROVE ZeroTestsExact'
  <2>0. CallRight(Thread) /\ CallExact(Thread)
    BY ThreadRight DEF AllRight
  <2>1. CASE UNCHANGED vars
    BY <1>2, <2>1 DEF vars, ZeroTestsExact
  <2>2. Zero \in Level /\ Level \subseteq LevelOrNone
    BY Parts, Storing
  <2>3. ASSUME NEW l \in LevelOrNone, NEW r \in LevelOrNone, leq(Thread, l, r) = "no"
        PROVE  \E a, b \in Level :
                 /\ a = Thread.simplify[l] /\ b = Thread.simplify[r]
                 /\ l \in Level /\ r \in Level
                 /\ \A s \in Valuation : Value(a, s) = Value(l, s) /\ Value(b, s) = Value(r, s)
                 /\ Thread.leq_core[<<a, b, 0>>] = "no"
    <3> DEFINE a == Thread.simplify[l]
               b == Thread.simplify[r]
    <3>1. a \in LevelOrNone /\ b \in LevelOrNone
      BY <2>0 DEF CallRight, SimplifyRight
    <3>2. Thread.leq_core[<<a, b, 0>>] = "no"
      BY <2>3 DEF leq
    <3>3. /\ a \in Level => l \in Level /\ \A s \in Valuation : Value(a, s) = Value(l, s)
          /\ b \in Level => r \in Level /\ \A s \in Valuation : Value(b, s) = Value(r, s)
      BY <2>0 DEF CallRight, SimplifyRight
    <3>4. a \in Level /\ b \in Level
      <4> HIDE DEF a, b
      <4>1. QED
        BY <2>0, <3>1, <3>2 DEF CallRight, LeqRight
    <3>5. QED
      BY <3>2, <3>3, <3>4
  <2>4. ASSUME NEW l \in Deep, IsZero(l) PROVE ZeroTestsExact'
    <3>1. SUFFICES ASSUME is_zero(Thread, l) = "no" PROVE ~ Below(l, Zero)
      BY <2>4 DEF IsZero, ZeroTestsExact, Below, Zero, Values
    <3>2. l \in LevelOrNone /\ Zero \in LevelOrNone
      BY <2>2, QueryAssumption
    <3>3. PICK a \in Level, b \in Level :
            /\ a = Thread.simplify[l] /\ b = Thread.simplify[Zero]
            /\ l \in Level /\ Zero \in Level
            /\ \A s \in Valuation : Value(a, s) = Value(l, s) /\ Value(b, s) = Value(Zero, s)
            /\ Thread.leq_core[<<a, b, 0>>] = "no"
      <4>1. leq(Thread, l, Zero) = "no"
        BY <3>1 DEF is_zero
      <4>2. QED
        BY <2>3, <3>2, <4>1
    <3>4. b = Zero
      BY <2>0, <2>2, <3>3 DEF CallExact
    <3>5. PICK s \in Valuation : Value(l, s) # 0
      BY <2>0, <2>2, <3>3, <3>4 DEF CallExact
    <3> DEFINE t == [p \in Param |-> IF s[p] = 0 THEN 0 ELSE 1]
    <3>6. t \in Values /\ t \in Valuation /\ \A p \in Param : t[p] = 0 => s[p] = 0
      BY BoundAssumption DEF Values, Valuation
    <3> HIDE DEF t
    <3>7. Value(l, t) # 0
      BY <3>3, <3>5, <3>6, ZeroStays
    <3>8. Value(l, t) \in Nat /\ Value(Zero, t) = 0
      BY <3>3, <3>6, ValueType, ValueEquations
    <3>9. QED
      BY <3>6, <3>7, <3>8 DEF Below
  <2>5. ASSUME NEW l \in Deep, IsNonzero(l) PROVE ZeroTestsExact'
    <3>1. SUFFICES ASSUME is_nonzero(Thread, l) = "no" PROVE ~ Below(Succ(Zero), l)
      BY <2>5 DEF IsNonzero, ZeroTestsExact, Below, Values
    <3>2. l \in Level /\ succ(Zero) \in LevelOrNone
      BY QueryAssumption, Storing
    <3>3. PICK a \in Level, b \in Level :
            /\ a = Thread.simplify[succ(Zero)] /\ b = Thread.simplify[l]
            /\ succ(Zero) \in Level
            /\ \A s \in Valuation : Value(b, s) = Value(l, s)
            /\ Thread.leq_core[<<a, b, 0>>] = "no"
      BY <2>2, <2>3, <3>1, <3>2 DEF is_nonzero
    <3>4. a = Succ(Zero) /\ Succ(Zero) \in Level
      <4>1. succ(Zero) = Succ(Zero)
        BY <3>3, Storing
      <4>2. QED
        BY <2>0, <3>3, <4>1 DEF CallExact
    <3>5. Zeros \in Valuation /\ Zeros \in Values
      BY BoundAssumption DEF Zeros, Valuation, Values
    <3>6. Value(l, Zeros) = 0
      BY <2>0, <2>2, <3>3, <3>4, <3>5 DEF CallExact
    <3>7. Value(Succ(Zero), Zeros) = 1
      BY <3>4, <3>5, ValueEquations
    <3>8. QED
      BY <3>5, <3>6, <3>7 DEF Below
  <2>6. ASSUME NEW l, NEW ks, NEW vs, Leq(l, ks) \/ SubstSimp(l, ks, vs) PROVE ZeroTestsExact'
    BY <2>6 DEF Leq, SubstSimp, ZeroTestsExact
  <2>7. QED
    BY <1>2, <2>1, <2>4, <2>5, <2>6 DEF Next
<1>3. QED
  BY <1>1, <1>2, PTL DEF Spec

\* On levels without imax the comparison decides: it answers yes exactly when the
\* one level is at most the other whatever natural numbers the parameters are.
LeqDecides ==
  query.op = "leq" /\ NoIMax[query.l] /\ NoIMax[query.r] /\ answer # "overflow" =>
    answer = YesNo(\A s \in Valuation : Value(query.l, s) <= Value(query.r, s))

\* What leq rejects of levels without imax fails for some values of the parameters.
THEOREM LevelsLeqDecides == Spec => []LeqDecides
<1>1. Init => LeqDecides
  BY DEF Init, NoQuery, LeqDecides
<1>2. ASSUME LeqDecides, [Next]_vars PROVE LeqDecides'
  <2>0. CallRight(Thread) /\ CallTotal(Thread) /\ CallComplete(Thread)
    BY ThreadRight DEF AllRight
  <2>1. CASE UNCHANGED vars
    BY <1>2, <2>1 DEF vars, LeqDecides
  <2>2. ASSUME NEW l \in Level, NEW r \in Level, NoIMax[l], NoIMax[r], leq(Thread, l, r) # "overflow"
        PROVE  leq(Thread, l, r) = YesNo(\A s \in Valuation : Value(l, s) <= Value(r, s))
    <3> DEFINE a == Thread.simplify[l]
               b == Thread.simplify[r]
    <3>1. l \in LevelOrNone /\ r \in LevelOrNone /\ l \in Pure /\ r \in Pure /\ l \in Fine /\ r \in Fine
      BY <2>2, Storing DEF Pure, Fine
    <3>2. leq(Thread, l, r) \in {"yes", "no"}
      <4>1. leq(Thread, l, r) \in Outcome
        BY <2>0, <3>1, TestsRight
      <4>2. leq(Thread, l, r) # "panic"
        BY <2>0, <3>1, TestsTotal
      <4>3. QED
        BY <2>2, <4>1, <4>2 DEF Outcome, Failure
    <3>3. CASE leq(Thread, l, r) = "yes"
      <4>1. \A s \in Valuation : Value(l, s) <= Value(r, s)
        BY <2>0, <3>1, <3>3, TestsRight
      <4>2. QED
        BY <3>3, <4>1 DEF YesNo
    <3>4. CASE leq(Thread, l, r) = "no"
      <4>1. a \in LevelOrNone /\ b \in LevelOrNone
        BY <2>0, <3>1 DEF CallRight, SimplifyRight
      <4>2. Thread.leq_core[<<a, b, 0>>] = "no"
        BY <3>4 DEF leq
      <4>3. /\ a \in Level => a \in Pure /\ \A s \in Valuation : Value(a, s) = Value(l, s)
            /\ b \in Level => b \in Pure /\ \A s \in Valuation : Value(b, s) = Value(r, s)
        BY <2>0, <3>1 DEF CallRight, SimplifyRight, CallComplete
      <4> HIDE DEF a, b
      <4>4. a \in Level /\ b \in Level
        BY <2>0, <4>1, <4>2 DEF CallRight, LeqRight
      <4>5. PICK s \in Valuation : Value(b, s) + 0 < Value(a, s)
        BY <2>0, <4>2, <4>3, <4>4 DEF CallComplete, Fails
      <4>6. Value(l, s) \in Nat /\ Value(r, s) \in Nat
        BY ValueType
      <4>7. ~ (Value(l, s) <= Value(r, s))
        BY <4>3, <4>4, <4>5, <4>6
      <4>8. QED
        BY <3>4, <4>7 DEF YesNo
    <3>5. QED
      BY <3>2, <3>3, <3>4
  <2>3. ASSUME NEW pair \in Pairs, Leq(pair[1], pair[2]) PROVE LeqDecides'
    <3>1. pair[1] \in Level /\ pair[2] \in Level
      BY QueryAssumption
    <3>2. query'.op = "leq" /\ query'.l = pair[1] /\ query'.r = pair[2] /\ answer' = leq(Thread, pair[1], pair[2])
      BY <2>3 DEF Leq
    <3> DEFINE l == pair[1]
               r == pair[2]
    <3> HIDE DEF l, r
    <3>3. NoIMax[l] /\ NoIMax[r] /\ answer' # "overflow" =>
            answer' = YesNo(\A s \in Valuation : Value(l, s) <= Value(r, s))
      BY <2>2, <3>1, <3>2 DEF l, r
    <3>4. query'.l = l /\ query'.r = r
      BY <3>2 DEF l, r
    <3>5. QED
      BY <3>3, <3>4 DEF LeqDecides
  <2>4. ASSUME NEW l, NEW ks, NEW vs, IsZero(l) \/ IsNonzero(l) \/ SubstSimp(l, ks, vs) PROVE LeqDecides'
    BY <2>4 DEF IsZero, IsNonzero, SubstSimp, LeqDecides
  <2>5. QED
    BY <1>2, <2>1, <2>3, <2>4 DEF Next
<1>3. QED
  BY <1>1, <1>2, PTL DEF Spec
==============================================================================
