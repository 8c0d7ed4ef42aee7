------------------------------ MODULE ExprProofs ------------------------------
(***************************************************************************)
(* Theorems about substitution, for expressions of any depth.              *)
(*                                                                         *)
(* A definition by recursion on expressions is a function here, which the  *)
(* first part shows to exist.  The three walks are the steps of Expr, each *)
(* passed to itself.  They are compared with substitutions that have no    *)
(* cache and skip nothing (Everywhere), about which the theorems at the    *)
(* end are then shown by looking at the nodes without parts.               *)
(*                                                                         *)
(* Bound-variable indices are integers, as fvar_to_bvar subtracts without  *)
(* a check; the last part says when they are natural.                      *)
(***************************************************************************)
EXTENDS Expr, TLAPS

Sets == INSTANCE SetLemmas

CONSTANTS Name,   \* names of constants and structures
          Id      \* identifiers of unique variables

------------------------------------------------------------------------------
(***************************************************************************)
(* Expressions                                                             *)
(***************************************************************************)
\* The expressions without parts, with indices from I, and those made of parts.
Leaves(I) == [k : {"sort"}, level : Nat] \cup [k : {"const"}, name : Name]
             \cup [k : {"var"}, dbj_idx : I] \cup [k : {"nat"}, n : Nat]
Over(P) ==
  P \cup [k : {"app"}, fun : P, arg : P]
    \cup [k : {"lambda", "pi"}, binder_type : P, body : P]
    \cup [k : {"let"}, binder_type : P, val : P, body : P]
    \cup [k : {"proj"}, ty_name : Name, idx : Nat, structure : P]
    \cup [k : {"local"}, level : Nat, binder_type : P]
    \cup [k : {"unique"}, id : Id, binder_type : P]

TermTo(I) == LET T[n \in Nat] == IF n = 0 THEN Leaves(I) ELSE Over(T[n - 1]) IN T
TermOver(I) == UNION {TermTo(I)[n] : n \in Nat}

Term == TermOver(Int)

\* Induction: what holds of 0 and passes on holds of all numbers.
LEMMA Induction ==
  ASSUME NEW T, 0 \in T, \A n \in Nat : n \in T => n + 1 \in T
  PROVE  Nat \subseteq T
<1> DEFINE Bad == {n \in Nat : n \notin T}
<1>1. SUFFICES ASSUME Bad # {} PROVE FALSE
  OBVIOUS
<1>2. PICK n \in Bad : \A l \in Bad : n <= l
  <2>1. Bad \in SUBSET Nat
    OBVIOUS
  <2> HIDE DEF Bad
  <2>2. QED
    BY <1>1, <2>1, Sets!LeastNat
<1>3. n # 0 /\ n - 1 \in Nat /\ (n - 1) + 1 = n
  BY <1>2
<1>4. n - 1 \in T
  BY <1>2, <1>3
<1>5. QED
  BY <1>2, <1>3, <1>4

\* The recursion on the height has a solution: TermTo is what it says.
LEMMA TermToEquation ==
  ASSUME NEW I
  PROVE  TermTo(I)[0] = Leaves(I) /\ \A n \in Nat : TermTo(I)[n + 1] = Over(TermTo(I)[n])
<1> DEFINE L == Leaves(I)
           UpTo(k, f) ==
             f = [n \in Nat |-> IF n <= k THEN IF n = 0 THEN L ELSE Over(f[n - 1]) ELSE {}]
           T == {k \in Nat : \E f : UpTo(k, f)}
<1> HIDE DEF L
<1>1. 0 \in T
  <2>1. UpTo(0, [n \in Nat |-> IF n = 0 THEN L ELSE {}])
    OBVIOUS
  <2> HIDE DEF UpTo
  <2>2. QED
    BY <2>1
<1>2. ASSUME NEW k \in Nat, k \in T PROVE k + 1 \in T
  <2>1. PICK f : UpTo(k, f)
    BY <1>2
  <2> DEFINE g == [n \in Nat |-> IF n <= k + 1 THEN IF n = 0 THEN L ELSE Over(f[n - 1]) ELSE {}]
  <2>2. ASSUME NEW n \in Nat, n <= k PROVE f[n] = g[n]
    <3>1. n <= k + 1
      BY <2>2
    <3>2. f[n] = IF n = 0 THEN L ELSE Over(f[n - 1])
      BY <2>1, <2>2
    <3>3. QED
      BY <3>1, <3>2
  <2>3. ASSUME NEW n \in Nat, n <= k + 1, n # 0 PROVE f[n - 1] = g[n - 1]
    <3>1. n - 1 \in Nat /\ n - 1 <= k
      BY <2>3
    <3>2. QED
      BY <2>2, <3>1
  <2>4. UpTo(k + 1, g)
    BY <2>3
  <2> HIDE DEF UpTo, g
  <2>5. QED
    BY <2>4
<1>3. \A k \in Nat : \E f : UpTo(k, f)
  <2>1. Nat \subseteq T
    <3> HIDE DEF T
    <3>1. QED
      BY <1>1, <1>2, Induction
  <2>2. QED
    BY <2>1
\* Two solutions agree as far as both go.
<1>4. ASSUME NEW k \in Nat, NEW l \in Nat, k <= l, NEW f, NEW g, UpTo(k, f), UpTo(l, g)
      PROVE  \A n \in Nat : n <= k => f[n] = g[n]
  <2> DEFINE A == {n \in Nat : n <= k => f[n] = g[n]}
  <2>1. 0 \in A
    BY <1>4
  <2>2. ASSUME NEW n \in Nat, n \in A PROVE n + 1 \in A
    <3>1. SUFFICES ASSUME n + 1 <= k PROVE f[n + 1] = g[n + 1]
      OBVIOUS
    <3>2. f[n] = g[n] /\ (n + 1) - 1 = n /\ n + 1 <= l /\ n + 1 # 0
      BY <1>4, <2>2, <3>1
    <3>3. f[n + 1] = Over(f[n])
      BY <1>4, <3>1, <3>2
    <3>4. g[n + 1] = Over(g[n])
      BY <1>4, <3>1, <3>2
    <3>5. QED
      BY <3>2, <3>3, <3>4
  <2>3. Nat \subseteq A
    <3> HIDE DEF A
    <3>1. QED
      BY <2>1, <2>2, Induction
  <2>4. QED
    BY <2>3
<1> DEFINE at(k) == CHOOSE f : UpTo(k, f)
           F == [n \in Nat |-> at(n)[n]]
<1>5. \A k \in Nat : UpTo(k, at(k))
  <2> HIDE DEF UpTo
  <2>1. QED
    BY <1>3
<1>6. F[0] = L
  <2>1. UpTo(0, at(0))
    BY <1>5
  <2> HIDE DEF at
  <2>2. QED
    BY <2>1
<1>7. ASSUME NEW n \in Nat PROVE F[n + 1] = Over(F[n])
  <2>1. at(n + 1)[n + 1] = Over(at(n + 1)[n])
    <3>1. (n + 1) - 1 = n /\ n + 1 # 0 /\ n + 1 \in Nat
      OBVIOUS
    <3> HIDE DEF at
    <3>2. QED
      BY <1>5, <3>1
  <2>2. at(n)[n] = at(n + 1)[n]
    <3> HIDE DEF UpTo, at
    <3>1. QED
      BY <1>4, <1>5
  <2>3. QED
    BY <2>1, <2>2
<1>8. F = [n \in Nat |-> IF n = 0 THEN L ELSE Over(F[n - 1])]
  <2>1. ASSUME NEW n \in Nat, n # 0 PROVE F[n] = Over(F[n - 1])
    <3>1. n - 1 \in Nat /\ (n - 1) + 1 = n
      BY <2>1
    <3> HIDE DEF F
    <3>2. QED
      BY <1>7, <3>1
  <2>2. F = [n \in Nat |-> F[n]]
    OBVIOUS
  <2> HIDE DEF F
  <2>3. QED
    BY <1>6, <2>1, <2>2
<1>9. TermTo(I) = [n \in Nat |-> IF n = 0 THEN L ELSE Over(TermTo(I)[n - 1])]
  <2>1. \E G : G = [n \in Nat |-> IF n = 0 THEN L ELSE Over(G[n - 1])]
    BY <1>8
  <2>2. QED
    BY <2>1 DEF TermTo, L
<1>10. ASSUME NEW n \in Nat PROVE TermTo(I)[n + 1] = Over(TermTo(I)[n])
  <2>1. n + 1 \in Nat /\ n + 1 # 0 /\ (n + 1) - 1 = n
    OBVIOUS
  <2>2. QED
    BY <1>9, <2>1
<1>11. TermTo(I)[0] = Leaves(I)
  BY <1>9 DEF L
<1>12. QED
  BY <1>10, <1>11

\* Each height has the expressions of the heights below.
LEMMA Taller ==
  ASSUME NEW I
  PROVE  \A m, n \in Nat : m <= n => TermTo(I)[m] \subseteq TermTo(I)[n]
<1> DEFINE T == {n \in Nat : \A m \in Nat : m <= n => TermTo(I)[m] \subseteq TermTo(I)[n]}
<1>1. 0 \in T
  OBVIOUS
<1>2. ASSUME NEW n \in Nat, n \in T PROVE n + 1 \in T
  <2>1. TermTo(I)[n] \subseteq TermTo(I)[n + 1]
    <3>1. TermTo(I)[n + 1] = Over(TermTo(I)[n])
      BY TermToEquation
    <3>2. QED
      BY <3>1 DEF Over
  <2>2. \A m \in Nat : m <= n + 1 => m <= n \/ m = n + 1
    OBVIOUS
  <2>3. QED
    BY <1>2, <2>1, <2>2
<1>3. Nat \subseteq T
  <2> HIDE DEF T
  <2>1. QED
    BY <1>1, <1>2, Induction
<1>4. QED
  BY <1>3

\* What a node is made of, over expressions of P.
Shape(e, P, I) ==
  \/ e \in Leaves(I)
  \/ e.k = "app" /\ e = App(e.fun, e.arg) /\ e.fun \in P /\ e.arg \in P
  \/ e.k = "lambda" /\ e = Lambda(e.binder_type, e.body) /\ e.binder_type \in P /\ e.body \in P
  \/ e.k = "pi" /\ e = Pi(e.binder_type, e.body) /\ e.binder_type \in P /\ e.body \in P
  \/ /\ e.k = "let" /\ e = Let(e.binder_type, e.val, e.body)
     /\ e.binder_type \in P /\ e.val \in P /\ e.body \in P
  \/ /\ e.k = "proj" /\ e = Proj(e.ty_name, e.idx, e.structure)
     /\ e.ty_name \in Name /\ e.idx \in Nat /\ e.structure \in P
  \/ e.k = "local" /\ e = Local(e.level, e.binder_type) /\ e.level \in Nat /\ e.binder_type \in P
  \/ e.k = "unique" /\ e = Unique(e.id, e.binder_type) /\ e.id \in Id /\ e.binder_type \in P

LEMMA ShapeOver ==
  ASSUME NEW I, NEW P
  PROVE  \A e \in Over(P) : e \in P \/ Shape(e, P, I)
<1> SUFFICES ASSUME NEW e \in Over(P), e \notin P PROVE Shape(e, P, I)
  OBVIOUS
<1>1. CASE e \in [k : {"app"}, fun : P, arg : P]
  BY <1>1 DEF Shape, App
<1>2. CASE e \in [k : {"lambda", "pi"}, binder_type : P, body : P]
  <2>1. e.k \in {"lambda", "pi"} /\ e = [k |-> e.k, binder_type |-> e.binder_type, body |-> e.body]
        /\ e.binder_type \in P /\ e.body \in P
    BY <1>2
  <2>2. QED
    BY <2>1 DEF Shape, Lambda, Pi
<1>3. CASE e \in [k : {"let"}, binder_type : P, val : P, body : P]
  BY <1>3 DEF Shape, Let
<1>4. CASE e \in [k : {"proj"}, ty_name : Name, idx : Nat, structure : P]
  BY <1>4 DEF Shape, Proj
<1>5. CASE e \in [k : {"local"}, level : Nat, binder_type : P]
  BY <1>5 DEF Shape, Local
<1>6. CASE e \in [k : {"unique"}, id : Id, binder_type : P]
  BY <1>6 DEF Shape, Unique
<1>7. QED
  BY <1>1, <1>2, <1>3, <1>4, <1>5, <1>6 DEF Over

\* A larger set of parts changes nothing of the shape.
LEMMA ShapeGrows ==
  ASSUME NEW I, NEW P, NEW Q, P \subseteq Q, NEW e, Shape(e, P, I)
  PROVE  Shape(e, Q, I)
BY DEF Shape

\* An expression of some height has its parts at the height below.
LEMMA ShapeAt ==
  ASSUME NEW I
  PROVE  /\ \A e \in TermTo(I)[0] : e \in Leaves(I)
         /\ \A n \in Nat : \A e \in TermTo(I)[n + 1] : Shape(e, TermTo(I)[n], I)
<1>1. TermTo(I)[0] = Leaves(I) /\ \A n \in Nat : TermTo(I)[n + 1] = Over(TermTo(I)[n])
  BY TermToEquation
<1> DEFINE T == {n \in Nat : \A e \in TermTo(I)[n + 1] : Shape(e, TermTo(I)[n], I)}
<1>2. 0 \in T
  <2> SUFFICES ASSUME NEW e \in TermTo(I)[0 + 1] PROVE Shape(e, TermTo(I)[0], I)
    OBVIOUS
  <2>1. e \in Over(TermTo(I)[0])
    BY <1>1
  <2>2. CASE e \in TermTo(I)[0]
    BY <1>1, <2>2 DEF Shape
  <2>3. QED
    BY <2>1, <2>2, ShapeOver
<1>3. ASSUME NEW n \in Nat, n \in T PROVE n + 1 \in T
  <2> SUFFICES ASSUME NEW e \in TermTo(I)[(n + 1) + 1] PROVE Shape(e, TermTo(I)[n + 1], I)
    OBVIOUS
  <2>1. e \in Over(TermTo(I)[n + 1])
    BY <1>1
  <2>2. CASE e \in TermTo(I)[n + 1]
    <3>1. Shape(e, TermTo(I)[n], I)
      BY <1>3, <2>2
    <3>2. TermTo(I)[n] \subseteq TermTo(I)[n + 1]
      BY Taller
    <3>3. QED
      BY <3>1, <3>2, ShapeGrows
  <2>3. QED
    BY <2>1, <2>2, ShapeOver
<1>4. Nat \subseteq T
  <2> HIDE DEF T
  <2>1. QED
    BY <1>2, <1>3, Induction
<1>5. QED
  BY <1>1, <1>4

\* Expressions have a shape over expressions.
LEMMA TermShape ==
  ASSUME NEW I
  PROVE  \A e \in TermOver(I) : Shape(e, TermOver(I), I)
<1> SUFFICES ASSUME NEW e \in TermOver(I) PROVE Shape(e, TermOver(I), I)
  OBVIOUS
<1>1. PICK n \in Nat : e \in TermTo(I)[n]
  BY DEF TermOver
<1>2. CASE n = 0
  BY <1>1, <1>2, ShapeAt DEF Shape
<1>3. CASE n # 0
  <2>1. n - 1 \in Nat /\ (n - 1) + 1 = n
    BY <1>3
  <2>2. Shape(e, TermTo(I)[n - 1], I)
    BY <1>1, <2>1, ShapeAt
  <2>3. TermTo(I)[n - 1] \subseteq TermOver(I)
    BY <2>1 DEF TermOver
  <2>4. QED
    BY <2>2, <2>3, ShapeGrows
<1>4. QED
  BY <1>2, <1>3

\* What is made of expressions is an expression.
LEMMA TermClosed ==
  ASSUME NEW I
  PROVE  Leaves(I) \subseteq TermOver(I) /\ Over(TermOver(I)) \subseteq TermOver(I)
<1> DEFINE P == TermOver(I)
           At(n) == TermTo(I)[n]
<1>1. /\ At(0) = Leaves(I) /\ \A n \in Nat : At(n + 1) = Over(At(n))
      /\ \A m, n \in Nat : m <= n => At(m) \subseteq At(n)
      /\ \A n \in Nat : At(n) \subseteq P
      /\ \A e \in P : \E n \in Nat : e \in At(n)
  BY TermToEquation, Taller DEF TermOver
<1> HIDE DEF P, At
<1>2. \A x, y, z \in P : \E n \in Nat : x \in At(n) /\ y \in At(n) /\ z \in At(n)
  <2> SUFFICES ASSUME NEW x \in P, NEW y \in P, NEW z \in P
               PROVE  \E n \in Nat : x \in At(n) /\ y \in At(n) /\ z \in At(n)
    OBVIOUS
  <2>1. PICK l \in Nat, m \in Nat, n \in Nat : x \in At(l) /\ y \in At(m) /\ z \in At(n)
    BY <1>1
  <2>2. l + m + n \in Nat /\ l <= l + m + n /\ m <= l + m + n /\ n <= l + m + n
    OBVIOUS
  <2>3. QED
    BY <1>1, <2>1, <2>2
<1>3. ASSUME NEW x \in P, NEW y \in P, NEW z \in P, NEW e,
             \A Q : x \in Q /\ y \in Q /\ z \in Q => e \in Over(Q)
      PROVE  e \in P
  <2>1. PICK n \in Nat : x \in At(n) /\ y \in At(n) /\ z \in At(n)
    BY <1>2
  <2>2. e \in At(n + 1)
    BY <1>1, <1>3, <2>1
  <2>3. n + 1 \in Nat
    OBVIOUS
  <2>4. QED
    BY <1>1, <2>2, <2>3
<1>4. ASSUME NEW e \in [k : {"app"}, fun : P, arg : P] PROVE e \in P
  <2>1. \A Q : e.fun \in Q /\ e.arg \in Q => e \in Over(Q)
    BY DEF Over
  <2>2. QED
    BY <1>3, <2>1
<1>5. ASSUME NEW e \in [k : {"lambda", "pi"}, binder_type : P, body : P] PROVE e \in P
  <2>1. \A Q : e.binder_type \in Q /\ e.body \in Q => e \in Over(Q)
    BY DEF Over
  <2>2. QED
    BY <1>3, <2>1
<1>6. ASSUME NEW e \in [k : {"let"}, binder_type : P, val : P, body : P] PROVE e \in P
  <2>1. \A Q : e.binder_type \in Q /\ e.val \in Q /\ e.body \in Q => e \in Over(Q)
    BY DEF Over
  <2>2. QED
    BY <1>3, <2>1
<1>7. ASSUME NEW e \in [k : {"proj"}, ty_name : Name, idx : Nat, structure : P] PROVE e \in P
  <2>1. \A Q : e.structure \in Q => e \in Over(Q)
    BY DEF Over
  <2>2. QED
    BY <1>3, <2>1
<1>8. ASSUME NEW e \in [k : {"local"}, level : Nat, binder_type : P] PROVE e \in P
  <2>1. \A Q : e.binder_type \in Q => e \in Over(Q)
    BY DEF Over
  <2>2. QED
    BY <1>3, <2>1
<1>9. ASSUME NEW e \in [k : {"unique"}, id : Id, binder_type : P] PROVE e \in P
  <2>1. \A Q : e.binder_type \in Q => e \in Over(Q)
    BY DEF Over
  <2>2. QED
    BY <1>3, <2>1
<1>10. Over(P) \subseteq P
  BY <1>4, <1>5, <1>6, <1>7, <1>8, <1>9 DEF Over
<1>11. Leaves(I) \subseteq P
  <2>1. 0 \in Nat
    OBVIOUS
  <2>2. QED
    BY <1>1, <2>1
<1>12. QED
  BY <1>10, <1>11 DEF P

LEMMA Constructors ==
  ASSUME NEW I, NEW P, P = TermOver(I)
  PROVE  /\ \A i \in I : Var(i) \in P
         /\ \A f, a \in P : App(f, a) \in P
         /\ \A t, b \in P : Lambda(t, b) \in P /\ Pi(t, b) \in P
         /\ \A t, v, b \in P : Let(t, v, b) \in P
         /\ \A S \in Name, i \in Nat, e \in P : Proj(S, i, e) \in P
<1>1. Leaves(I) \subseteq P /\ Over(P) \subseteq P
  BY TermClosed
<1>2. \A i \in I : Var(i) \in P
  BY <1>1 DEF Leaves, Var
<1>3. \A f, a \in P : App(f, a) \in P
  BY <1>1 DEF Over, App
<1>4. \A t, b \in P : Lambda(t, b) \in P /\ Pi(t, b) \in P
  BY <1>1 DEF Over, Lambda, Pi
<1>5. \A t, v, b \in P : Let(t, v, b) \in P
  BY <1>1 DEF Over, Let
<1>6. \A S \in Name, i \in Nat, e \in P : Proj(S, i, e) \in P
  BY <1>1 DEF Over, Proj
<1>7. QED
  BY <1>2, <1>3, <1>4, <1>5, <1>6

\* The parts that the walks go into; the type of a free variable is not one.
Parts(e) ==
  CASE e.k = "app" -> {e.fun, e.arg}
    [] e.k \in {"lambda", "pi"} -> {e.binder_type, e.body}
    [] e.k = "let" -> {e.binder_type, e.val, e.body}
    [] e.k = "proj" -> {e.structure}
    [] OTHER -> {}

LEMMA PartsOfShape ==
  ASSUME NEW I, NEW P, NEW e, Shape(e, P, I)
  PROVE  Parts(e) \subseteq P
BY DEF Shape, Parts, Leaves

\* Induction on expressions: what passes from parts to wholes holds of all.
LEMMA TermInduction ==
  ASSUME NEW I, NEW T, \A e \in TermOver(I) : Parts(e) \subseteq T => e \in T
  PROVE  TermOver(I) \subseteq T
<1> DEFINE A == {n \in Nat : TermTo(I)[n] \subseteq T}
<1>0. \A n \in Nat : TermTo(I)[n] \subseteq TermOver(I)
  BY DEF TermOver
<1>1. 0 \in A
  <2>1. \A e \in Leaves(I) : Parts(e) = {}
    BY DEF Leaves, Parts
  <2>2. \A e \in TermTo(I)[0] : e \in Leaves(I) /\ e \in TermOver(I)
    BY <1>0, ShapeAt
  <2>3. QED
    BY <2>1, <2>2
<1>2. ASSUME NEW n \in Nat, n \in A PROVE n + 1 \in A
  <2>1. ASSUME NEW e \in TermTo(I)[n + 1] PROVE e \in T
    <3>1. Parts(e) \subseteq TermTo(I)[n]
      BY ShapeAt, PartsOfShape
    <3>2. e \in TermOver(I)
      BY <1>0
    <3>3. QED
      BY <1>2, <3>1, <3>2
  <2>2. QED
    BY <2>1
<1>3. Nat \subseteq A
  <2> HIDE DEF A
  <2>1. QED
    BY <1>1, <1>2, Induction
<1>4. QED
  BY <1>3 DEF TermOver

LEMMA TermParts == \A e \in Term : Parts(e) \subseteq Term
BY TermShape, PartsOfShape DEF Term

\* Recursion on expressions: a step that depends on what the function is at the
\* parts of an expression has a solution.
IsStep(V, H) ==
  /\ H \in [Term \X [Term -> V] -> V]
  /\ \A e \in Term : \A f, g \in [Term -> V] :
       (\A p \in Parts(e) : f[p] = g[p]) => H[<<e, f>>] = H[<<e, g>>]
Solves(f, V, H) == f \in [Term -> V] /\ \A e \in Term : f[e] = H[<<e, f>>]

LEMMA TermRecursion ==
  ASSUME NEW V, V # {}, NEW H, IsStep(V, H)
  PROVE  \E f : Solves(f, V, H)
<1> USE DEF IsStep
<1>a. PICK v : v \in V
  OBVIOUS
<1> DEFINE F == [Term -> V]
           Good(P, f) == P \subseteq Term /\ \A e \in P : Parts(e) \subseteq P /\ f[e] = H[<<e, f>>]
           At(n) == TermTo(Int)[n]
           T == {n \in Nat : \E f \in F : Good(At(n), f)}
<1>0. /\ \A n \in Nat : At(n) \subseteq Term
      /\ \A n \in Nat : At(n) \subseteq At(n + 1)
      /\ \A e \in Term : \E n \in Nat : e \in At(n)
      /\ \A e \in At(0) : Parts(e) = {}
      /\ \A n \in Nat : \A e \in At(n + 1) : Parts(e) \subseteq At(n)
  <2>1. \A e \in Leaves(Int) : Parts(e) = {}
    BY DEF Leaves, Parts
  <2>2. \A e \in At(0) : Parts(e) = {}
    BY <2>1, ShapeAt
  <2>3. \A n \in Nat : \A e \in At(n + 1) : Parts(e) \subseteq At(n)
    BY ShapeAt, PartsOfShape
  <2>4. \A n \in Nat : At(n) \subseteq At(n + 1)
    BY Taller
  <2>5. QED
    BY <2>2, <2>3, <2>4 DEF Term, TermOver
<1> HIDE DEF At
<1>1. 0 \in T
  <2> DEFINE c == [e \in Term |-> v]
             f == [e \in Term |-> H[<<e, c>>]]
  <2>1. c \in F /\ f \in F
    BY <1>a
  <2>2. \A e \in At(0) : e \in Term /\ Parts(e) = {}
    BY <1>0
  <2>3. \A e \in At(0) : f[e] = H[<<e, f>>]
    <3> SUFFICES ASSUME NEW e \in At(0) PROVE f[e] = H[<<e, f>>]
      OBVIOUS
    <3>1. f[e] = H[<<e, c>>]
      BY <2>2
    <3> HIDE DEF f, c
    <3>2. H[<<e, c>>] = H[<<e, f>>]
      BY <2>1, <2>2
    <3>3. QED
      BY <3>1, <3>2
  <2> HIDE DEF f
  <2>4. Good(At(0), f)
    BY <2>2, <2>3
  <2>5. QED
    BY <2>1, <2>4
<1>2. ASSUME NEW n \in Nat, n \in T PROVE n + 1 \in T
  <2>1. PICK f \in F : Good(At(n), f)
    BY <1>2
  <2> DEFINE g == [e \in Term |-> H[<<e, f>>]]
  <2>2. g \in F
    OBVIOUS
  <2>3. \A e \in At(n) : f[e] = g[e]
    BY <1>0, <2>1
  <2>4. \A e \in At(n + 1) : g[e] = H[<<e, g>>]
    <3> SUFFICES ASSUME NEW e \in At(n + 1) PROVE g[e] = H[<<e, g>>]
      OBVIOUS
    <3>1. e \in Term /\ Parts(e) \subseteq At(n)
      BY <1>0
    <3>2. g[e] = H[<<e, f>>]
      BY <3>1
    <3> HIDE DEF g
    <3>3. H[<<e, f>>] = H[<<e, g>>]
      BY <2>2, <2>3, <3>1
    <3>4. QED
      BY <3>2, <3>3
  <2> HIDE DEF g
  <2>5. n + 1 \in Nat /\ At(n + 1) \subseteq Term
        /\ \A e \in At(n + 1) : Parts(e) \subseteq At(n + 1)
    <3>1. n + 1 \in Nat
      OBVIOUS
    <3>2. QED
      BY <1>0, <3>1
  <2>6. Good(At(n + 1), g)
    BY <2>4, <2>5
  <2> HIDE DEF Good, F
  <2>7. QED
    BY <2>2, <2>5, <2>6
<1>3. \A n \in Nat : \E f \in F : Good(At(n), f)
  <2>1. Nat \subseteq T
    <3> HIDE DEF T
    <3>1. QED
      BY <1>1, <1>2, Induction
  <2>2. QED
    BY <2>1
\* Two solutions agree where both are good.
<1>4. ASSUME NEW P, NEW Q, NEW f \in F, NEW g \in F, Good(P, f), Good(Q, g)
      PROVE  \A e \in P \cap Q : f[e] = g[e]
  <2> DEFINE A == {e \in Term : e \in P \cap Q => f[e] = g[e]}
  <2>1. ASSUME NEW e \in TermOver(Int), Parts(e) \subseteq A PROVE e \in A
    <3> SUFFICES ASSUME e \in P \cap Q PROVE f[e] = g[e]
      BY DEF Term
    <3>1. e \in Term /\ f[e] = H[<<e, f>>] /\ g[e] = H[<<e, g>>]
      BY <1>4
    <3>2. \A p \in Parts(e) : f[p] = g[p]
      BY <1>4, <2>1
    <3>3. H[<<e, f>>] = H[<<e, g>>]
      BY <3>1, <3>2
    <3>4. QED
      BY <3>1, <3>3
  <2>2. TermOver(Int) \subseteq A
    <3> HIDE DEF A
    <3>1. QED
      BY <2>1, TermInduction
  <2>3. QED
    BY <1>4, <2>2 DEF Term
<1> DEFINE sol(n) == CHOOSE f \in F : Good(At(n), f)
           rank(e) == CHOOSE n \in Nat : e \in At(n)
           h == [e \in Term |-> sol(rank(e))[e]]
<1>5. \A n \in Nat : sol(n) \in F /\ Good(At(n), sol(n))
  <2> HIDE DEF F, Good
  <2>1. QED
    BY <1>3
<1>6. \A e \in Term : rank(e) \in Nat /\ e \in At(rank(e))
  BY <1>0
<1> HIDE DEF sol, rank
<1>7. h \in F
  BY <1>5, <1>6
<1>8. ASSUME NEW n \in Nat, NEW e \in At(n) PROVE h[e] = sol(n)[e]
  <2>1. e \in Term /\ e \in At(rank(e)) /\ rank(e) \in Nat
    BY <1>0, <1>6
  <2>2. sol(rank(e))[e] = sol(n)[e]
    <3> HIDE DEF Good, F
    <3>1. QED
      BY <1>4, <1>5, <2>1
  <2>3. QED
    BY <2>1, <2>2
<1>9. ASSUME NEW e \in Term PROVE h[e] = H[<<e, h>>]
  <2> DEFINE n == rank(e)
  <2>1. n \in Nat /\ e \in At(n)
    BY <1>6
  <2> HIDE DEF n
  <2>2. sol(n) \in F /\ sol(n)[e] = H[<<e, sol(n)>>] /\ Parts(e) \subseteq At(n)
    BY <1>5, <2>1
  <2>3. \A p \in Parts(e) : h[p] = sol(n)[p]
    BY <1>8, <2>1, <2>2
  <2>4. h[e] = sol(n)[e]
    BY <1>8, <2>1
  <2> HIDE DEF h
  <2>5. H[<<e, h>>] = H[<<e, sol(n)>>]
    BY <1>7, <2>2, <2>3
  <2>6. QED
    BY <2>2, <2>4, <2>5
<1> HIDE DEF h
<1>10. QED
  BY <1>7, <1>9 DEF Solves

Inner == {"app", "lambda", "pi", "let", "proj"}
Outer == {"sort", "const", "var", "nat", "local", "unique"}

\* What the variant of an expression says about its fields.
LEMMA Kinds ==
  ASSUME NEW I, NEW P, P = TermOver(I), NEW e \in P
  PROVE  /\ e.k \in Inner \cup Outer
         /\ e.k = "app" => e = App(e.fun, e.arg) /\ e.fun \in P /\ e.arg \in P
         /\ e.k = "lambda" => e = Lambda(e.binder_type, e.body) /\ e.binder_type \in P /\ e.body \in P
         /\ e.k = "pi" => e = Pi(e.binder_type, e.body) /\ e.binder_type \in P /\ e.body \in P
         /\ e.k = "let" => /\ e = Let(e.binder_type, e.val, e.body)
                          /\ e.binder_type \in P /\ e.val \in P /\ e.body \in P
         /\ e.k = "proj" => /\ e = Proj(e.ty_name, e.idx, e.structure)
                           /\ e.ty_name \in Name /\ e.idx \in Nat /\ e.structure \in P
         /\ e.k = "var" => e = Var(e.dbj_idx) /\ e.dbj_idx \in I
         /\ e.k = "local" => e.level \in Nat
<1>1. Shape(e, P, I)
  BY TermShape
<1>2. CASE e \in Leaves(I)
  BY <1>2 DEF Leaves, Inner, Outer, Var
<1>3. CASE e \notin Leaves(I)
  BY <1>1, <1>3 DEF Shape, Inner, Outer
<1>4. QED
  BY <1>2, <1>3

\* The walks go into the parts of inner nodes only.
LEMMA PartsOfKind ==
  ASSUME NEW e \in Term
  PROVE  /\ e.k = "app" => Parts(e) = {e.fun, e.arg}
         /\ e.k \in {"lambda", "pi"} => Parts(e) = {e.binder_type, e.body}
         /\ e.k = "let" => Parts(e) = {e.binder_type, e.val, e.body}
         /\ e.k = "proj" => Parts(e) = {e.structure}
         /\ e.k \notin Inner => Parts(e) = {}
BY DEF Parts, Inner

------------------------------------------------------------------------------
(***************************************************************************)
(* What nodes keep about themselves                                        *)
(***************************************************************************)
\* The steps of Expr with a function on expressions as the recursive call.
LooseBy(e, f) == LooseBvars(e, LAMBDA x : f[x])
FvarsBy(e, f) == HasFvars(e, LAMBDA x : f[x])

NumLooseBvars == CHOOSE f \in [Term -> Int] : \A e \in Term : f[e] = LooseBy(e, f)
HasFreeVars == CHOOSE f \in [Term -> BOOLEAN] : \A e \in Term : f[e] = FvarsBy(e, f)

\* The free variables of an expression.
FreeBy(e, f) == IF e.k \in {"local", "unique"} THEN {e} ELSE UNION {f[p] : p \in Parts(e)}
FreeVars == CHOOSE f \in [Term -> SUBSET Term] : \A e \in Term : f[e] = FreeBy(e, f)

LEMMA LooseEquation ==
  /\ NumLooseBvars \in [Term -> Int]
  /\ \A e \in Term : NumLooseBvars[e] = LooseBy(e, NumLooseBvars)
<1> DEFINE F == [Term -> Int]
           H == [x \in Term \X F |-> LooseBy(x[1], x[2])]
<1>1. ASSUME NEW e \in Term, NEW f \in F PROVE LooseBy(e, f) \in Int
  <2>1. \A p \in Parts(e) : f[p] \in Int
    BY TermParts
  <2>2. e.k = "var" => e.dbj_idx \in Int
    BY Kinds DEF Term
  <2>3. CASE e.k = "app"
    BY <2>1, <2>3, PartsOfKind DEF LooseBy, LooseBvars, Larger
  <2>4. CASE e.k \in {"lambda", "pi"}
    <3>1. f[e.binder_type] \in Int /\ f[e.body] \in Int
      BY <2>1, <2>4, PartsOfKind
    <3>2. LooseBy(e, f) = LooseUnder(f[e.binder_type], f[e.body])
      BY <2>4 DEF LooseBy, LooseBvars
    <3>3. QED
      BY <3>1, <3>2 DEF LooseUnder, Larger
  <2>5. CASE e.k = "let"
    <3>1. f[e.binder_type] \in Int /\ f[e.val] \in Int /\ f[e.body] \in Int
      BY <2>1, <2>5, PartsOfKind
    <3>2. LooseBy(e, f) = Larger(f[e.val], LooseUnder(f[e.binder_type], f[e.body]))
      BY <2>5 DEF LooseBy, LooseBvars
    <3>3. QED
      BY <3>1, <3>2 DEF LooseUnder, Larger
  <2>6. CASE e.k = "proj"
    BY <2>1, <2>6, PartsOfKind DEF LooseBy, LooseBvars
  <2>7. CASE e.k \notin Inner
    BY <2>2, <2>7 DEF LooseBy, LooseBvars, Inner
  <2>8. QED
    BY <2>3, <2>4, <2>5, <2>6, <2>7 DEF Inner
<1>2. ASSUME NEW e \in Term, NEW f \in F, NEW g \in F, \A p \in Parts(e) : f[p] = g[p]
      PROVE  LooseBy(e, f) = LooseBy(e, g)
  BY <1>2, PartsOfKind DEF LooseBy, LooseBvars
<1>3. \A e \in Term, f \in F : H[<<e, f>>] = LooseBy(e, f)
  OBVIOUS
<1>4. H \in [Term \X F -> Int]
  BY <1>1
<1> HIDE DEF H
<1>5. \E f \in F : \A e \in Term : f[e] = H[<<e, f>>]
  <2>1. Int # {}
    OBVIOUS
  <2>2. IsStep(Int, H)
    BY <1>2, <1>3, <1>4 DEF IsStep
  <2>3. \E f : Solves(f, Int, H)
    BY <2>1, <2>2, TermRecursion
  <2>4. QED
    BY <2>3 DEF Solves
<1>6. \E f \in F : \A e \in Term : f[e] = LooseBy(e, f)
  BY <1>3, <1>5
<1>7. QED
  BY <1>6 DEF NumLooseBvars

LEMMA FvarsEquation ==
  /\ HasFreeVars \in [Term -> BOOLEAN]
  /\ \A e \in Term : HasFreeVars[e] = FvarsBy(e, HasFreeVars)
<1> DEFINE F == [Term -> BOOLEAN]
           H == [x \in Term \X F |-> FvarsBy(x[1], x[2])]
<1>1. ASSUME NEW e \in Term, NEW f \in F PROVE FvarsBy(e, f) \in BOOLEAN
  <2>1. CASE e.k = "proj"
    <3>1. f[e.structure] \in BOOLEAN
      BY <2>1, Kinds DEF Term
    <3>2. FvarsBy(e, f) = f[e.structure]
      BY <2>1 DEF FvarsBy, HasFvars
    <3>3. QED
      BY <3>1, <3>2
  <2>2. CASE e.k # "proj"
    BY <2>2 DEF FvarsBy, HasFvars
  <2>3. QED
    BY <2>1, <2>2
<1>2. ASSUME NEW e \in Term, NEW f \in F, NEW g \in F, \A p \in Parts(e) : f[p] = g[p]
      PROVE  FvarsBy(e, f) = FvarsBy(e, g)
  BY <1>2, PartsOfKind DEF FvarsBy, HasFvars
<1>3. \A e \in Term, f \in F : H[<<e, f>>] = FvarsBy(e, f)
  OBVIOUS
<1>4. H \in [Term \X F -> BOOLEAN]
  BY <1>1
<1> HIDE DEF H
<1>5. \E f \in F : \A e \in Term : f[e] = H[<<e, f>>]
  <2> DEFINE V == BOOLEAN
  <2>1. V # {}
    OBVIOUS
  <2>2. IsStep(V, H)
    BY <1>2, <1>3, <1>4 DEF IsStep
  <2> HIDE DEF V
  <2>3. \E f : Solves(f, V, H)
    BY <2>1, <2>2, TermRecursion
  <2>4. QED
    BY <2>3 DEF Solves, V
<1>6. \E f \in F : \A e \in Term : f[e] = FvarsBy(e, f)
  BY <1>3, <1>5
<1>7. QED
  BY <1>6 DEF HasFreeVars

LEMMA FreeVarsEquation ==
  /\ FreeVars \in [Term -> SUBSET Term]
  /\ \A e \in Term : FreeVars[e] = FreeBy(e, FreeVars)
<1> DEFINE F == [Term -> SUBSET Term]
           H == [x \in Term \X F |-> FreeBy(x[1], x[2])]
<1>1. ASSUME NEW e \in Term, NEW f \in F PROVE FreeBy(e, f) \in SUBSET Term
  <2>1. \A p \in Parts(e) : f[p] \in SUBSET Term
    BY TermParts
  <2>2. QED
    BY <2>1 DEF FreeBy
<1>2. ASSUME NEW e \in Term, NEW f \in F, NEW g \in F, \A p \in Parts(e) : f[p] = g[p]
      PROVE  FreeBy(e, f) = FreeBy(e, g)
  BY <1>2 DEF FreeBy
<1>3. \A e \in Term, f \in F : H[<<e, f>>] = FreeBy(e, f)
  OBVIOUS
<1>4. H \in [Term \X F -> SUBSET Term]
  BY <1>1
<1> HIDE DEF H
<1>5. \E f \in F : \A e \in Term : f[e] = H[<<e, f>>]
  <2> DEFINE V == SUBSET Term
  <2>1. V # {}
    OBVIOUS
  <2>2. IsStep(V, H)
    <3>1. H \in [Term \X [Term -> V] -> V]
      BY <1>4
    <3>2. ASSUME NEW e \in Term, NEW f \in [Term -> V], NEW g \in [Term -> V],
                 \A p \in Parts(e) : f[p] = g[p]
          PROVE  H[<<e, f>>] = H[<<e, g>>]
      <4>1. FreeBy(e, f) = FreeBy(e, g)
        BY <1>2, <3>2
      <4>2. QED
        BY <1>3, <4>1
    <3> HIDE DEF V
    <3>3. QED
      BY <3>1, <3>2 DEF IsStep
  <2> HIDE DEF V
  <2>3. \E f : Solves(f, V, H)
    BY <2>1, <2>2, TermRecursion
  <2>4. QED
    BY <2>3 DEF Solves, V
<1>6. \E f \in F : \A e \in Term : f[e] = FreeBy(e, f)
  BY <1>3, <1>5
<1>7. QED
  BY <1>6 DEF FreeVars

------------------------------------------------------------------------------
(***************************************************************************)
(* Walks with a cache                                                      *)
(*                                                                         *)
(* The three walks of Expr differ in where they return the expression as   *)
(* it is (skip), under which key of keys they keep a result (key), at      *)
(* which variants they do not go into the parts (stop), and what they      *)
(* return there (at).  g is the record of these.                           *)
(***************************************************************************)
CacheOn(K) == UNION {[D -> Term] : D \in SUBSET K}
ResultOn(K) == [e : Term, c : CacheOn(K)]
CallsOn(K) == [Nat \X CacheOn(K) -> ResultOn(K)]

Call(w, x, n, c) == w[x][<<n, c>>]
RebuildBy(e, n, c, w) == Rebuild(e, c, LAMBDA x, d, cx : Call(w, x, n + d, cx))

WalkBy(e, n, c, w, g) ==
  IF <<e, n>> \in g.skip THEN [e |-> e, c |-> c]
  ELSE IF g.key[<<e, n>>] \in DOMAIN c THEN [e |-> c[g.key[<<e, n>>]], c |-> c]
  ELSE Cached(g.key[<<e, n>>], IF e.k \in g.stop THEN [e |-> g.at[<<e, n>>], c |-> c]
                                  ELSE RebuildBy(e, n, c, w))

IsWalk(g) ==
  /\ g.key \in [Term \X Nat -> g.keys]
  /\ \A e, f \in Term : \A m, n \in Nat : g.key[<<e, m>>] = g.key[<<f, n>>] => e = f /\ m = n
  /\ g.at \in [Term \X Nat -> Term]
  /\ g.stop \cap Inner = {}
  /\ \A e \in Term : \A n \in Nat : <<e, n>> \in g.skip \/ e.k \in g.stop \cup Inner

\* The order of the calls for the parts, and what is made of their results.
LEMMA Rebuilt ==
  ASSUME NEW e \in Term, NEW n \in Nat, NEW c, NEW w
  PROVE  /\ e.k = "app" =>
              LET f == Call(w, e.fun, n, c)
                  a == Call(w, e.arg, n, f.c)
              IN  RebuildBy(e, n, c, w) = [e |-> App(f.e, a.e), c |-> a.c]
         /\ e.k \in {"lambda", "pi"} =>
              LET t == Call(w, e.binder_type, n, c)
                  b == Call(w, e.body, n + 1, t.c)
              IN  /\ RebuildBy(e, n, c, w).c = b.c
                  /\ e.k = "lambda" => RebuildBy(e, n, c, w) = [e |-> Lambda(t.e, b.e), c |-> b.c]
                  /\ e.k = "pi" => RebuildBy(e, n, c, w) = [e |-> Pi(t.e, b.e), c |-> b.c]
         /\ e.k = "let" =>
              LET t == Call(w, e.binder_type, n, c)
                  v == Call(w, e.val, n, t.c)
                  b == Call(w, e.body, n + 1, v.c)
              IN  RebuildBy(e, n, c, w) = [e |-> Let(t.e, v.e, b.e), c |-> b.c]
         /\ e.k = "proj" =>
              LET s == Call(w, e.structure, n, c)
              IN  RebuildBy(e, n, c, w) = [e |-> Proj(e.ty_name, e.idx, s.e), c |-> s.c]
<1>0. n + 0 = n
  OBVIOUS
<1>1. CASE e.k = "app"
  BY <1>0, <1>1 DEF RebuildBy, Rebuild
<1>2. CASE e.k \in {"lambda", "pi"}
  <2> DEFINE t == Call(w, e.binder_type, n, c)
             b == Call(w, e.body, n + 1, t.c)
  <2>1. RebuildBy(e, n, c, w) =
          [e |-> [k |-> e.k, binder_type |-> t.e, body |-> b.e], c |-> b.c]
    BY <1>0, <1>2 DEF RebuildBy, Rebuild
  <2> HIDE DEF t, b
  <2>2. /\ e.k = "lambda" => [k |-> e.k, binder_type |-> t.e, body |-> b.e] = Lambda(t.e, b.e)
        /\ e.k = "pi" => [k |-> e.k, binder_type |-> t.e, body |-> b.e] = Pi(t.e, b.e)
    BY DEF Lambda, Pi
  <2>4. /\ RebuildBy(e, n, c, w).c = b.c
        /\ e.k = "lambda" => RebuildBy(e, n, c, w) = [e |-> Lambda(t.e, b.e), c |-> b.c]
        /\ e.k = "pi" => RebuildBy(e, n, c, w) = [e |-> Pi(t.e, b.e), c |-> b.c]
    BY <2>1, <2>2
  <2>5. QED
    BY <1>2, <2>4 DEF t, b
<1>3. CASE e.k = "let"
  BY <1>0, <1>3 DEF RebuildBy, Rebuild
<1>4. CASE e.k = "proj"
  BY <1>0, <1>4 DEF RebuildBy, Rebuild
<1>5. QED
  BY <1>1, <1>2, <1>3, <1>4

\* A part walked, and the cache handed on.
LEMMA CallType ==
  ASSUME NEW K, NEW w \in [Term -> CallsOn(K)], NEW e \in Term, NEW n \in Nat, NEW c \in CacheOn(K)
  PROVE  Call(w, e, n, c).e \in Term /\ Call(w, e, n, c).c \in CacheOn(K)
<1>1. w[e] \in CallsOn(K)
  OBVIOUS
<1>2. Call(w, e, n, c) \in ResultOn(K)
  BY <1>1 DEF CallsOn, Call
<1>3. QED
  BY <1>2 DEF ResultOn

LEMMA RebuildType ==
  ASSUME NEW K, NEW w \in [Term -> CallsOn(K)], NEW e \in Term, e.k \in Inner,
         NEW n \in Nat, NEW c \in CacheOn(K)
  PROVE  RebuildBy(e, n, c, w) \in ResultOn(K)
<1>0. n + 1 \in Nat
  OBVIOUS
<1>1. CASE e.k = "app"
  <2> DEFINE f == Call(w, e.fun, n, c)
             a == Call(w, e.arg, n, f.c)
  <2>1. e.fun \in Term /\ e.arg \in Term
    BY <1>1, Kinds DEF Term
  <2>2. f.e \in Term /\ f.c \in CacheOn(K)
    BY <2>1, CallType
  <2>3. a.e \in Term /\ a.c \in CacheOn(K)
    BY <2>1, <2>2, CallType
  <2>4. RebuildBy(e, n, c, w) = [e |-> App(f.e, a.e), c |-> a.c]
    BY <1>1, Rebuilt
  <2> HIDE DEF f, a
  <2>5. App(f.e, a.e) \in Term
    BY <2>2, <2>3, Constructors DEF Term
  <2>6. QED
    BY <2>3, <2>4, <2>5 DEF ResultOn
<1>2. CASE e.k \in {"lambda", "pi"}
  <2> DEFINE t == Call(w, e.binder_type, n, c)
             b == Call(w, e.body, n + 1, t.c)
  <2>1. e.binder_type \in Term /\ e.body \in Term
    BY <1>2, Kinds DEF Term
  <2>2. t.e \in Term /\ t.c \in CacheOn(K)
    BY <2>1, CallType
  <2>3. b.e \in Term /\ b.c \in CacheOn(K)
    BY <1>0, <2>1, <2>2, CallType
  <2>4. \/ RebuildBy(e, n, c, w) = [e |-> Lambda(t.e, b.e), c |-> b.c]
        \/ RebuildBy(e, n, c, w) = [e |-> Pi(t.e, b.e), c |-> b.c]
    BY <1>2, Rebuilt
  <2> HIDE DEF t, b
  <2>5. Lambda(t.e, b.e) \in Term /\ Pi(t.e, b.e) \in Term
    BY <2>2, <2>3, Constructors DEF Term
  <2>6. QED
    BY <2>3, <2>4, <2>5 DEF ResultOn
<1>3. CASE e.k = "let"
  <2> DEFINE t == Call(w, e.binder_type, n, c)
             v == Call(w, e.val, n, t.c)
             b == Call(w, e.body, n + 1, v.c)
  <2>1. e.binder_type \in Term /\ e.val \in Term /\ e.body \in Term
    BY <1>3, Kinds DEF Term
  <2>2. t.e \in Term /\ t.c \in CacheOn(K)
    BY <2>1, CallType
  <2>3. v.e \in Term /\ v.c \in CacheOn(K)
    BY <2>1, <2>2, CallType
  <2>4. b.e \in Term /\ b.c \in CacheOn(K)
    BY <1>0, <2>1, <2>3, CallType
  <2>5. RebuildBy(e, n, c, w) = [e |-> Let(t.e, v.e, b.e), c |-> b.c]
    BY <1>3, Rebuilt
  <2> HIDE DEF t, v, b
  <2>6. Let(t.e, v.e, b.e) \in Term
    BY <2>2, <2>3, <2>4, Constructors DEF Term
  <2>7. QED
    BY <2>4, <2>5, <2>6 DEF ResultOn
<1>4. CASE e.k = "proj"
  <2> DEFINE s == Call(w, e.structure, n, c)
  <2>1. e.structure \in Term /\ e.ty_name \in Name /\ e.idx \in Nat
    BY <1>4, Kinds DEF Term
  <2>2. s.e \in Term /\ s.c \in CacheOn(K)
    BY <2>1, CallType
  <2>3. RebuildBy(e, n, c, w) = [e |-> Proj(e.ty_name, e.idx, s.e), c |-> s.c]
    BY <1>4, Rebuilt
  <2> HIDE DEF s
  <2>4. Proj(e.ty_name, e.idx, s.e) \in Term
    BY <2>1, <2>2, Constructors DEF Term
  <2>5. QED
    BY <2>2, <2>3, <2>4 DEF ResultOn
<1>5. QED
  BY <1>1, <1>2, <1>3, <1>4 DEF Inner

\* A cache with one more entry.
LEMMA CachedIs ==
  ASSUME NEW K, NEW key \in K, NEW r \in ResultOn(K)
  PROVE  /\ Cached(key, r) \in ResultOn(K)
         /\ Cached(key, r).e = r.e
         /\ DOMAIN Cached(key, r).c = {key} \cup DOMAIN r.c
         /\ Cached(key, r).c[key] = r.e
         /\ \A x \in DOMAIN r.c : x # key => Cached(key, r).c[x] = r.c[x]
<1> DEFINE d == [x \in {key} \cup DOMAIN r.c |-> IF x = key THEN r.e ELSE r.c[x]]
<1>1. Cached(key, r) = [e |-> r.e, c |-> d]
  BY DEF Cached
<1>2. PICK D \in SUBSET K : r.c \in [D -> Term] /\ r.e \in Term
  BY DEF ResultOn, CacheOn
<1>3. d \in [{key} \cup D -> Term]
  BY <1>2
<1>4. d \in CacheOn(K)
  <2>1. {key} \cup D \in SUBSET K
    BY <1>2
  <2> HIDE DEF d
  <2>2. QED
    BY <1>3, <2>1 DEF CacheOn
<1>5. Cached(key, r) \in ResultOn(K)
  <2> HIDE DEF d
  <2>1. QED
    BY <1>1, <1>2, <1>4 DEF ResultOn
<1>6. QED
  BY <1>1, <1>5

LEMMA WalkType ==
  ASSUME NEW g, IsWalk(g), NEW w \in [Term -> CallsOn(g.keys)], NEW e \in Term, NEW n \in Nat,
         NEW c \in CacheOn(g.keys)
  PROVE  WalkBy(e, n, c, w, g) \in ResultOn(g.keys)
<1> DEFINE K == g.keys
           key == g.key[<<e, n>>]
<1>1. key \in K /\ g.at[<<e, n>>] \in Term
  BY DEF IsWalk
<1>2. \A x \in Term, d \in CacheOn(K) : [e |-> x, c |-> d] \in ResultOn(K)
  BY DEF ResultOn
<1>3. \A x \in DOMAIN c : c[x] \in Term
  BY DEF CacheOn
<1>4. CASE <<e, n>> \in g.skip \/ key \in DOMAIN c
  BY <1>2, <1>3, <1>4 DEF WalkBy
<1>5. CASE ~ (<<e, n>> \in g.skip \/ key \in DOMAIN c)
  <2> DEFINE r == IF e.k \in g.stop THEN [e |-> g.at[<<e, n>>], c |-> c] ELSE RebuildBy(e, n, c, w)
  <2>1. r \in ResultOn(K)
    <3>1. CASE e.k \in g.stop
      BY <1>1, <1>2, <3>1
    <3>2. CASE e.k \notin g.stop
      <4>1. e.k \in Inner
        BY <1>5, <3>2 DEF IsWalk
      <4>2. QED
        BY <3>2, <4>1, RebuildType
    <3>3. QED
      BY <3>1, <3>2
  <2>2. WalkBy(e, n, c, w, g) = Cached(key, r)
    BY <1>5 DEF WalkBy
  <2> HIDE DEF r, key, K
  <2>3. QED
    BY <1>1, <2>1, <2>2, CachedIs DEF K
<1>6. QED
  BY <1>4, <1>5

\* The walk of g is the one function that calls itself so.
IsCallOf(w, g) ==
  /\ w \in [Term -> CallsOn(g.keys)]
  /\ \A e \in Term : \A n \in Nat : \A c \in CacheOn(g.keys) : Call(w, e, n, c) = WalkBy(e, n, c, w, g)

LEMMA WalkExists ==
  ASSUME NEW g, IsWalk(g)
  PROVE  \E w : IsCallOf(w, g)
<1> DEFINE C == CacheOn(g.keys)
           V == CallsOn(g.keys)
           F == [Term -> V]
           At(e, w) == [y \in Nat \X C |-> WalkBy(e, y[1], y[2], w, g)]
           H == [x \in Term \X F |-> At(x[1], x[2])]
<1>1. ASSUME NEW e \in Term, NEW w \in F PROVE At(e, w) \in V
  <2>1. \A n \in Nat, c \in C : WalkBy(e, n, c, w, g) \in ResultOn(g.keys)
    BY WalkType
  <2> HIDE DEF C
  <2>2. At(e, w) \in [Nat \X C -> ResultOn(g.keys)]
    BY <2>1
  <2>3. QED
    BY <2>2 DEF CallsOn, C
<1>2. ASSUME NEW e \in Term, NEW v \in F, NEW w \in F, \A p \in Parts(e) : v[p] = w[p]
      PROVE  At(e, v) = At(e, w)
  <2>1. ASSUME NEW n \in Nat, NEW c \in C PROVE WalkBy(e, n, c, v, g) = WalkBy(e, n, c, w, g)
    <3>1. CASE e.k \in Inner
      <4>1. \A p \in Parts(e) : \A k \in Nat : \A d : Call(v, p, k, d) = Call(w, p, k, d)
        BY <1>2 DEF Call
      <4>2. RebuildBy(e, n, c, v) = RebuildBy(e, n, c, w)
        <5>0. n + 1 \in Nat /\ n + 0 \in Nat
          OBVIOUS
        <5>1. CASE e.k = "app"
          <6>1. \A k \in Nat : \A d :
                  Call(v, e.fun, k, d) = Call(w, e.fun, k, d) /\ Call(v, e.arg, k, d) = Call(w, e.arg, k, d)
            BY <4>1, <5>1, PartsOfKind
          <6>2. QED
            BY <5>0, <5>1, <6>1 DEF RebuildBy, Rebuild
        <5>2. CASE e.k = "lambda"
          <6>1. \A k \in Nat : \A d :
                  Call(v, e.binder_type, k, d) = Call(w, e.binder_type, k, d) /\ Call(v, e.body, k, d) = Call(w, e.body, k, d)
            BY <4>1, <5>2, PartsOfKind
          <6>2. QED
            BY <5>0, <5>2, <6>1 DEF RebuildBy, Rebuild
        <5>3. CASE e.k = "pi"
          <6>1. \A k \in Nat : \A d :
                  Call(v, e.binder_type, k, d) = Call(w, e.binder_type, k, d) /\ Call(v, e.body, k, d) = Call(w, e.body, k, d)
            BY <4>1, <5>3, PartsOfKind
          <6>2. QED
            BY <5>0, <5>3, <6>1 DEF RebuildBy, Rebuild
        <5>4. CASE e.k = "let"
          <6>1. \A k \in Nat : \A d :
                  /\ Call(v, e.binder_type, k, d) = Call(w, e.binder_type, k, d)
                  /\ Call(v, e.val, k, d) = Call(w, e.val, k, d)
                  /\ Call(v, e.body, k, d) = Call(w, e.body, k, d)
            BY <4>1, <5>4, PartsOfKind
          <6>2. QED
            BY <5>0, <5>4, <6>1 DEF RebuildBy, Rebuild
        <5>5. CASE e.k = "proj"
          <6>1. \A k \in Nat : \A d :
                  Call(v, e.structure, k, d) = Call(w, e.structure, k, d)
            BY <4>1, <5>5, PartsOfKind
          <6>2. QED
            BY <5>0, <5>5, <6>1 DEF RebuildBy, Rebuild
        <5>6. QED
          BY <3>1, <5>1, <5>2, <5>3, <5>4, <5>5 DEF Inner
      <4>3. QED
        BY <4>2 DEF WalkBy
    <3>2. CASE e.k \notin Inner
      <4>1. <<e, n>> \in g.skip \/ e.k \in g.stop
        BY <3>2 DEF IsWalk
      <4>2. QED
        BY <4>1 DEF WalkBy
    <3>3. QED
      BY <3>1, <3>2
  <2> HIDE DEF C, F
  <2>2. QED
    BY <2>1
<1>3. \A e \in Term, w \in F : H[<<e, w>>] = At(e, w)
  <2> HIDE DEF F, At
  <2>1. QED
    OBVIOUS
<1>4. IsStep(V, H)
  <2>1. H \in [Term \X F -> V]
    <3> HIDE DEF F, At, V
    <3>1. QED
      BY <1>1
  <2>2. \A e \in Term : \A v, w \in F : (\A p \in Parts(e) : v[p] = w[p]) => H[<<e, v>>] = H[<<e, w>>]
    <3> HIDE DEF F, At, V, H
    <3>1. QED
      BY <1>2, <1>3
  <2> HIDE DEF V, H
  <2>3. QED
    BY <2>1, <2>2 DEF IsStep
<1>5. V # {}
  <2> DEFINE r(y) == [e |-> Var(0), c |-> y[2]]
  <2>1. Var(0) \in Term
    BY Constructors DEF Term
  <2>2. [y \in Nat \X C |-> r(y)] \in [Nat \X C -> ResultOn(g.keys)]
    BY <2>1 DEF ResultOn
  <2>3. QED
    BY <2>2 DEF CallsOn
<1>6. PICK w : Solves(w, V, H)
  <2> HIDE DEF V, H
  <2>1. QED
    BY <1>4, <1>5, TermRecursion
<1>7. w \in F /\ \A e \in Term : w[e] = At(e, w)
  <2>1. w \in F /\ \A e \in Term : w[e] = H[<<e, w>>]
    <3> HIDE DEF H
    <3>1. QED
      BY <1>6 DEF Solves
  <2> HIDE DEF F, H, At
  <2>2. QED
    BY <1>3, <2>1
<1>8. \A e \in Term : \A n \in Nat : \A c \in C : Call(w, e, n, c) = WalkBy(e, n, c, w, g)
  <2> HIDE DEF C, F
  <2>1. QED
    BY <1>7 DEF Call
<1>9. QED
  BY <1>7, <1>8 DEF IsCallOf

------------------------------------------------------------------------------
(***************************************************************************)
(* The same without cache and without returning early: each node is made   *)
(* again from what its parts become, and a node without parts becomes at.  *)
(***************************************************************************)
Img(m, e, n) == m[e][n]
MapBy(e, n, m, at) ==
  CASE e.k = "app" -> App(Img(m, e.fun, n), Img(m, e.arg, n))
    [] e.k = "lambda" -> Lambda(Img(m, e.binder_type, n), Img(m, e.body, n + 1))
    [] e.k = "pi" -> Pi(Img(m, e.binder_type, n), Img(m, e.body, n + 1))
    [] e.k = "let" -> Let(Img(m, e.binder_type, n), Img(m, e.val, n), Img(m, e.body, n + 1))
    [] e.k = "proj" -> Proj(e.ty_name, e.idx, Img(m, e.structure, n))
    [] OTHER -> at[<<e, n>>]

IsMap(m, at) ==
  /\ m \in [Term -> [Nat -> Term]]
  /\ \A e \in Term : \A n \in Nat : Img(m, e, n) = MapBy(e, n, m, at)

Everywhere(at) == CHOOSE m : IsMap(m, at)

LEMMA MapType ==
  ASSUME NEW at \in [Term \X Nat -> Term], NEW m \in [Term -> [Nat -> Term]], NEW e \in Term, NEW n \in Nat
  PROVE  MapBy(e, n, m, at) \in Term
<1>1. n + 1 \in Nat /\ \A p \in Term : \A k \in Nat : Img(m, p, k) \in Term
  BY DEF Img
<1>2. \/ e.k = "app" /\ e.fun \in Term /\ e.arg \in Term
      \/ e.k \in {"lambda", "pi"} /\ e.binder_type \in Term /\ e.body \in Term
      \/ e.k = "let" /\ e.binder_type \in Term /\ e.val \in Term /\ e.body \in Term
      \/ e.k = "proj" /\ e.ty_name \in Name /\ e.idx \in Nat /\ e.structure \in Term
      \/ e.k \notin Inner
  BY Kinds DEF Term, Inner
<1>3. /\ \A f, a \in Term : App(f, a) \in Term
      /\ \A t, b \in Term : Lambda(t, b) \in Term /\ Pi(t, b) \in Term
      /\ \A t, v, b \in Term : Let(t, v, b) \in Term
      /\ \A S \in Name, i \in Nat, x \in Term : Proj(S, i, x) \in Term
  BY Constructors DEF Term
<1>4. at[<<e, n>>] \in Term
  OBVIOUS
<1>5. QED
  BY <1>1, <1>2, <1>3, <1>4 DEF MapBy, Inner

LEMMA MapExists ==
  ASSUME NEW at \in [Term \X Nat -> Term]
  PROVE  IsMap(Everywhere(at), at)
<1> DEFINE V == [Nat -> Term]
           F == [Term -> V]
           At(e, m) == [n \in Nat |-> MapBy(e, n, m, at)]
           H == [x \in Term \X F |-> At(x[1], x[2])]
<1>1. \A e \in Term, m \in F : At(e, m) \in V
  BY MapType
<1>2. ASSUME NEW e \in Term, NEW l \in F, NEW m \in F, \A p \in Parts(e) : l[p] = m[p]
      PROVE  At(e, l) = At(e, m)
  <2>1. ASSUME NEW n \in Nat PROVE MapBy(e, n, l, at) = MapBy(e, n, m, at)
    <3>1. \A p \in Parts(e) : \A k \in Nat : Img(l, p, k) = Img(m, p, k)
      BY <1>2 DEF Img
    <3>2. n + 1 \in Nat
      OBVIOUS
    <3>3. QED
      BY <3>1, <3>2, PartsOfKind DEF MapBy
  <2> HIDE DEF F
  <2>2. QED
    BY <2>1
<1>3. \A e \in Term, m \in F : H[<<e, m>>] = At(e, m)
  <2> HIDE DEF F, At
  <2>1. QED
    OBVIOUS
<1>4. IsStep(V, H)
  <2>1. H \in [Term \X F -> V]
    <3> HIDE DEF F, At, V
    <3>1. QED
      BY <1>1
  <2>2. \A e \in Term : \A l, m \in F : (\A p \in Parts(e) : l[p] = m[p]) => H[<<e, l>>] = H[<<e, m>>]
    <3> HIDE DEF F, At, V, H
    <3>1. QED
      BY <1>2, <1>3
  <2> HIDE DEF V, H
  <2>3. QED
    BY <2>1, <2>2 DEF IsStep
<1>5. V # {}
  <2>1. Var(0) \in Term
    BY Constructors DEF Term
  <2>2. [n \in Nat |-> Var(0)] \in V
    BY <2>1
  <2>3. QED
    BY <2>2
<1>6. PICK m : Solves(m, V, H)
  <2> HIDE DEF V, H
  <2>1. QED
    BY <1>4, <1>5, TermRecursion
<1>7. m \in F /\ \A e \in Term : m[e] = At(e, m)
  <2>1. m \in F /\ \A e \in Term : m[e] = H[<<e, m>>]
    <3> HIDE DEF H
    <3>1. QED
      BY <1>6 DEF Solves
  <2> HIDE DEF F, H, At
  <2>2. QED
    BY <1>3, <2>1
<1>8. IsMap(m, at)
  BY <1>7 DEF IsMap, Img
<1>9. QED
  BY <1>8 DEF Everywhere

\* What is in the cache is what the substitution gives.
CacheRight(c, g, m) ==
  \A e \in Term : \A n \in Nat :
    g.key[<<e, n>>] \in DOMAIN c => c[g.key[<<e, n>>]] = Img(m, e, n)

Right(r, e, n, g, m) == r.e = Img(m, e, n) /\ r.c \in CacheOn(g.keys) /\ CacheRight(r.c, g, m)

\* A walk gives what the substitution without cache and without returning early
\* gives, and leaves a cache that says so, if it returns early only where the
\* substitution changes nothing and finds nothing wrong in the cache.
LEMMA WalkRight ==
  ASSUME NEW g, IsWalk(g), NEW m, IsMap(m, g.at), NEW w, IsCallOf(w, g),
         \A e \in Term : \A n \in Nat : <<e, n>> \in g.skip => Img(m, e, n) = e
  PROVE  \A e \in Term : \A n \in Nat : \A c \in CacheOn(g.keys) :
           CacheRight(c, g, m) => Right(Call(w, e, n, c), e, n, g, m)
<1> DEFINE K == g.keys
           C == CacheOn(K)
           T == {e \in Term : \A n \in Nat : \A c \in C :
                   CacheRight(c, g, m) => Right(Call(w, e, n, c), e, n, g, m)}
<1>1. ASSUME NEW e \in TermOver(Int), Parts(e) \subseteq T PROVE e \in T
  <2> SUFFICES ASSUME NEW n \in Nat, NEW c \in C, CacheRight(c, g, m)
               PROVE  Right(Call(w, e, n, c), e, n, g, m)
    BY DEF Term
  <2> DEFINE key == g.key[<<e, n>>]
             r == IF e.k \in g.stop THEN [e |-> g.at[<<e, n>>], c |-> c] ELSE RebuildBy(e, n, c, w)
  <2>1. e \in Term
    BY DEF Term
  <2>2. Call(w, e, n, c) = WalkBy(e, n, c, w, g) /\ Img(m, e, n) = MapBy(e, n, m, g.at)
    BY <2>1 DEF IsCallOf, IsMap
  <2>3. CASE <<e, n>> \in g.skip
    BY <2>1, <2>2, <2>3 DEF WalkBy, Right
  <2>4. CASE <<e, n>> \notin g.skip /\ key \in DOMAIN c
    BY <2>1, <2>2, <2>4 DEF WalkBy, Right, CacheRight
  <2>5. CASE <<e, n>> \notin g.skip /\ key \notin DOMAIN c
    <3>1. Right(r, e, n, g, m)
      <4>1. CASE e.k \in g.stop
        <5>1. e.k \notin Inner
          BY <4>1 DEF IsWalk
        <5>2. Img(m, e, n) = g.at[<<e, n>>]
          BY <2>2, <5>1 DEF MapBy, Inner
        <5>3. QED
          BY <4>1, <5>2 DEF Right
      <4>2. CASE e.k \notin g.stop
        <5>0. e.k \in Inner
          BY <2>1, <2>5, <4>2 DEF IsWalk
        <5>1. n + 1 \in Nat
          OBVIOUS
        <5>2. \A p \in Parts(e) : \A k \in Nat : \A d \in C :
                CacheRight(d, g, m) => Right(Call(w, p, k, d), p, k, g, m)
          BY <1>1
        <5> HIDE DEF T, C, K
        <5>3. CASE e.k = "app"
          <6> DEFINE f == Call(w, e.fun, n, c)
                     a == Call(w, e.arg, n, f.c)
          <6>1. e.fun \in Parts(e) /\ e.arg \in Parts(e)
            BY <2>1, <5>3, PartsOfKind
          <6>2. Right(f, e.fun, n, g, m)
            BY <5>2, <6>1
          <6>3. f.c \in C /\ CacheRight(f.c, g, m)
            BY <6>2 DEF Right, C, K
          <6>4. Right(a, e.arg, n, g, m)
            BY <5>2, <6>1, <6>3
          <6>5. RebuildBy(e, n, c, w) = [e |-> App(f.e, a.e), c |-> a.c]
            BY <2>1, <5>3, Rebuilt
          <6>6. Img(m, e, n) = App(Img(m, e.fun, n), Img(m, e.arg, n))
            BY <2>2, <5>3 DEF MapBy
          <6> HIDE DEF f, a
          <6>7. QED
            BY <4>2, <6>2, <6>4, <6>5, <6>6 DEF Right
        <5>4. CASE e.k \in {"lambda", "pi"}
          <6> DEFINE t == Call(w, e.binder_type, n, c)
                     b == Call(w, e.body, n + 1, t.c)
          <6>1. e.binder_type \in Parts(e) /\ e.body \in Parts(e)
            BY <2>1, <5>4, PartsOfKind
          <6>2. Right(t, e.binder_type, n, g, m)
            BY <5>2, <6>1
          <6>3. t.c \in C /\ CacheRight(t.c, g, m)
            BY <6>2 DEF Right, C, K
          <6>4. Right(b, e.body, n + 1, g, m)
            BY <5>1, <5>2, <6>1, <6>3
          <6>5. \/ /\ RebuildBy(e, n, c, w) = [e |-> Lambda(t.e, b.e), c |-> b.c]
                   /\ Img(m, e, n) = Lambda(Img(m, e.binder_type, n), Img(m, e.body, n + 1))
                \/ /\ RebuildBy(e, n, c, w) = [e |-> Pi(t.e, b.e), c |-> b.c]
                   /\ Img(m, e, n) = Pi(Img(m, e.binder_type, n), Img(m, e.body, n + 1))
            <7>1. CASE e.k = "lambda"
              BY <2>1, <2>2, <7>1, Rebuilt DEF MapBy
            <7>2. CASE e.k = "pi"
              BY <2>1, <2>2, <7>2, Rebuilt DEF MapBy
            <7>3. QED
              BY <5>4, <7>1, <7>2
          <6> HIDE DEF t, b
          <6>6. QED
            BY <4>2, <6>2, <6>4, <6>5 DEF Right
        <5>5. CASE e.k = "let"
          <6> DEFINE t == Call(w, e.binder_type, n, c)
                     v == Call(w, e.val, n, t.c)
                     b == Call(w, e.body, n + 1, v.c)
          <6>1. e.binder_type \in Parts(e) /\ e.val \in Parts(e) /\ e.body \in Parts(e)
            BY <2>1, <5>5, PartsOfKind
          <6>2. Right(t, e.binder_type, n, g, m)
            BY <5>2, <6>1
          <6>3. t.c \in C /\ CacheRight(t.c, g, m)
            BY <6>2 DEF Right, C, K
          <6>4. Right(v, e.val, n, g, m)
            BY <5>2, <6>1, <6>3
          <6>5. v.c \in C /\ CacheRight(v.c, g, m)
            BY <6>4 DEF Right, C, K
          <6>6. Right(b, e.body, n + 1, g, m)
            BY <5>1, <5>2, <6>1, <6>5
          <6>7. RebuildBy(e, n, c, w) = [e |-> Let(t.e, v.e, b.e), c |-> b.c]
            BY <2>1, <5>5, Rebuilt
          <6>8. Img(m, e, n) =
                  Let(Img(m, e.binder_type, n), Img(m, e.val, n), Img(m, e.body, n + 1))
            BY <2>2, <5>5 DEF MapBy
          <6> HIDE DEF t, v, b
          <6>9. QED
            BY <4>2, <6>2, <6>4, <6>6, <6>7, <6>8 DEF Right
        <5>6. CASE e.k = "proj"
          <6> DEFINE s == Call(w, e.structure, n, c)
          <6>1. e.structure \in Parts(e)
            BY <2>1, <5>6, PartsOfKind
          <6>2. Right(s, e.structure, n, g, m)
            BY <5>2, <6>1
          <6>3. RebuildBy(e, n, c, w) = [e |-> Proj(e.ty_name, e.idx, s.e), c |-> s.c]
            BY <2>1, <5>6, Rebuilt
          <6>4. Img(m, e, n) = Proj(e.ty_name, e.idx, Img(m, e.structure, n))
            BY <2>2, <5>6 DEF MapBy
          <6> HIDE DEF s
          <6>5. QED
            BY <4>2, <6>2, <6>3, <6>4 DEF Right
        <5>7. QED
          BY <5>0, <5>3, <5>4, <5>5, <5>6 DEF Inner
      <4>3. QED
        BY <4>1, <4>2
    <3>2. r \in ResultOn(K) /\ key \in K
      <4>1. Img(m, e, n) \in Term
        BY <2>1 DEF IsMap, Img
      <4>2. r.c \in CacheOn(K) /\ r.e = Img(m, e, n)
        <5> HIDE DEF r
        <5>1. QED
          BY <3>1 DEF Right
      <4>3. r = [e |-> r.e, c |-> r.c]
        <5>1. CASE e.k \in g.stop
          BY <5>1
        <5>2. CASE e.k \notin g.stop
          <6>1. e.k \in Inner
            BY <2>1, <2>5, <5>2 DEF IsWalk
          <6>2. RebuildBy(e, n, c, w) \in ResultOn(K)
            BY <2>1, <6>1, RebuildType DEF IsCallOf
          <6>3. QED
            BY <5>2, <6>2 DEF ResultOn
        <5>3. QED
          BY <5>1, <5>2
      <4>4. key \in K
        BY <2>1 DEF IsWalk
      <4> HIDE DEF r, key, K
      <4>5. QED
        BY <4>1, <4>2, <4>3, <4>4 DEF ResultOn
    <3>3. WalkBy(e, n, c, w, g) = Cached(key, r)
      BY <2>5 DEF WalkBy
    <3> DEFINE q == Cached(key, r)
    <3> HIDE DEF r
    <3>4. /\ q \in ResultOn(K) /\ q.e = r.e /\ DOMAIN q.c = {key} \cup DOMAIN r.c
          /\ q.c[key] = r.e /\ \A x \in DOMAIN r.c : x # key => q.c[x] = r.c[x]
      <4> HIDE DEF key, K
      <4>1. QED
        BY <3>2, CachedIs
    <3> HIDE DEF q
    <3>5. CacheRight(q.c, g, m)
      <4> SUFFICES ASSUME NEW f \in Term, NEW k \in Nat, g.key[<<f, k>>] \in DOMAIN q.c
                   PROVE  q.c[g.key[<<f, k>>]] = Img(m, f, k)
        BY DEF CacheRight
      <4>1. CASE g.key[<<f, k>>] = key
        <5>1. f = e /\ k = n
          BY <2>1, <4>1 DEF IsWalk
        <5>2. QED
          BY <3>1, <3>4, <5>1 DEF Right
      <4>2. CASE g.key[<<f, k>>] # key
        BY <3>1, <3>4, <4>2 DEF Right, CacheRight
      <4>3. QED
        BY <4>1, <4>2
    <3>6. q.c \in C
      BY <3>4 DEF ResultOn
    <3>7. Right(q, e, n, g, m)
      BY <3>1, <3>4, <3>5, <3>6 DEF Right
    <3>8. QED
      BY <2>2, <3>3, <3>7 DEF q
  <2>6. QED
    BY <2>3, <2>4, <2>5
<1>2. TermOver(Int) \subseteq T
  <2> HIDE DEF T
  <2>1. QED
    BY <1>1, TermInduction
<1>3. QED
  BY <1>2 DEF Term

------------------------------------------------------------------------------
(***************************************************************************)
(* Substitutions node by node                                              *)
(*                                                                         *)
(* What holds of a substitution at the nodes without parts holds           *)
(* everywhere, on a set of pairs of an expression and a number of binders  *)
(* that has with a pair the pairs for the parts.                           *)
(***************************************************************************)
\* The parts of e, each with the number of binders it is under if e is under n.
Below(e, n) ==
  CASE e.k = "app" -> {<<e.fun, n>>, <<e.arg, n>>}
    [] e.k \in {"lambda", "pi"} -> {<<e.binder_type, n>>, <<e.body, n + 1>>}
    [] e.k = "let" -> {<<e.binder_type, n>>, <<e.val, n>>, <<e.body, n + 1>>}
    [] e.k = "proj" -> {<<e.structure, n>>}
    [] OTHER -> {}

IsClosed(S) ==
  /\ S \subseteq Term \X Nat
  /\ \A e \in Term : \A n \in Nat : <<e, n>> \in S => Below(e, n) \subseteq S

LEMMA BelowParts ==
  ASSUME NEW e \in Term, NEW n \in Nat
  PROVE  \A y \in Below(e, n) : \E p \in Parts(e) : \E k \in Nat : y = <<p, k>>
BY PartsOfKind DEF Below, Inner

\* Induction on pairs.
LEMMA PairInduction ==
  ASSUME NEW S, IsClosed(S), NEW T,
         \A e \in Term : \A n \in Nat : <<e, n>> \in S /\ Below(e, n) \subseteq T => <<e, n>> \in T
  PROVE  S \subseteq T
<1> DEFINE A == {e \in Term : \A n \in Nat : <<e, n>> \in S => <<e, n>> \in T}
<1>1. ASSUME NEW e \in TermOver(Int), Parts(e) \subseteq A PROVE e \in A
  <2> SUFFICES ASSUME NEW n \in Nat, <<e, n>> \in S PROVE <<e, n>> \in T
    BY DEF Term
  <2>1. e \in Term
    BY DEF Term
  <2>2. Below(e, n) \subseteq S
    BY <2>1 DEF IsClosed
  <2>3. Below(e, n) \subseteq T
    BY <1>1, <2>1, <2>2, BelowParts
  <2>4. QED
    BY <2>1, <2>3
<1>2. TermOver(Int) \subseteq A
  <2> HIDE DEF A
  <2>1. QED
    BY <1>1, TermInduction
<1>3. QED
  BY <1>2 DEF Term, IsClosed

\* The nodes without parts.
LEMMA MapOuter ==
  ASSUME NEW m, NEW at, IsMap(m, at), NEW e \in Term, e.k \notin Inner, NEW n \in Nat
  PROVE  Img(m, e, n) = at[<<e, n>>]
BY DEF IsMap, MapBy, Inner

\* The nodes with parts.
LEMMA MapInner ==
  ASSUME NEW m, NEW at, IsMap(m, at), NEW e \in Term, NEW n \in Nat
  PROVE  /\ e.k = "app" => Img(m, e, n) = App(Img(m, e.fun, n), Img(m, e.arg, n))
         /\ e.k = "lambda" => Img(m, e, n) = Lambda(Img(m, e.binder_type, n), Img(m, e.body, n + 1))
         /\ e.k = "pi" => Img(m, e, n) = Pi(Img(m, e.binder_type, n), Img(m, e.body, n + 1))
         /\ e.k = "let" => Img(m, e, n) = Let(Img(m, e.binder_type, n), Img(m, e.val, n), Img(m, e.body, n + 1))
         /\ e.k = "proj" => Img(m, e, n) = Proj(e.ty_name, e.idx, Img(m, e.structure, n))
BY DEF IsMap, MapBy

LEMMA ImgType ==
  ASSUME NEW m, NEW at, IsMap(m, at), NEW e \in Term, NEW n \in Nat
  PROVE  Img(m, e, n) \in Term
BY DEF IsMap, Img

\* A substitution that changes no node without parts changes nothing.
LEMMA MapIdentity ==
  ASSUME NEW m, NEW at, IsMap(m, at), NEW S, IsClosed(S),
         \A e \in Term : \A n \in Nat : <<e, n>> \in S /\ e.k \notin Inner => at[<<e, n>>] = e
  PROVE  \A e \in Term : \A n \in Nat : <<e, n>> \in S => Img(m, e, n) = e
<1> DEFINE T == {y \in Term \X Nat : Img(m, y[1], y[2]) = y[1]}
<1>1. ASSUME NEW e \in Term, NEW n \in Nat, <<e, n>> \in S, Below(e, n) \subseteq T
      PROVE  Img(m, e, n) = e
  <2>1. CASE e.k = "app"
    <3>1. Img(m, e.fun, n) = e.fun /\ Img(m, e.arg, n) = e.arg
      BY <1>1, <2>1 DEF Below
    <3>2. QED
      BY <2>1, <3>1, MapInner, Kinds DEF Term
  <2>2. CASE e.k = "lambda"
    <3>1. Img(m, e.binder_type, n) = e.binder_type /\ Img(m, e.body, n + 1) = e.body
      BY <1>1, <2>2 DEF Below
    <3>2. QED
      BY <2>2, <3>1, MapInner, Kinds DEF Term
  <2>3. CASE e.k = "pi"
    <3>1. Img(m, e.binder_type, n) = e.binder_type /\ Img(m, e.body, n + 1) = e.body
      BY <1>1, <2>3 DEF Below
    <3>2. QED
      BY <2>3, <3>1, MapInner, Kinds DEF Term
  <2>4. CASE e.k = "let"
    <3>1. /\ Img(m, e.binder_type, n) = e.binder_type
          /\ Img(m, e.val, n) = e.val /\ Img(m, e.body, n + 1) = e.body
      BY <1>1, <2>4 DEF Below
    <3>2. QED
      BY <2>4, <3>1, MapInner, Kinds DEF Term
  <2>5. CASE e.k = "proj"
    <3>1. Img(m, e.structure, n) = e.structure
      BY <1>1, <2>5 DEF Below
    <3>2. QED
      BY <2>5, <3>1, MapInner, Kinds DEF Term
  <2>6. CASE e.k \notin Inner
    BY <1>1, <2>6, MapOuter
  <2>7. QED
    BY <2>1, <2>2, <2>3, <2>4, <2>5, <2>6 DEF Inner
<1>2. \A e \in Term : \A n \in Nat : <<e, n>> \in S /\ Below(e, n) \subseteq T => <<e, n>> \in T
  BY <1>1
<1>3. S \subseteq T
  <2> HIDE DEF T
  <2>1. QED
    BY <1>2, PairInduction
<1>4. QED
  BY <1>3

\* One substitution after another is a third if it is at the nodes without parts.
Agree(at1, m2, at3, S, j, k) ==
  \A e \in Term : \A n \in Nat :
    <<e, n>> \in S /\ e.k \notin Inner => Img(m2, at1[<<e, n + j>>], n + k) = at3[<<e, n>>]

LEMMA MapCompose ==
  ASSUME NEW m1, NEW at1, IsMap(m1, at1), NEW m2, NEW at2, IsMap(m2, at2),
         NEW m3, NEW at3, IsMap(m3, at3), NEW j \in Nat, NEW k \in Nat, NEW S, IsClosed(S),
         Agree(at1, m2, at3, S, j, k)
  PROVE  \A e \in Term : \A n \in Nat :
           <<e, n>> \in S => Img(m2, Img(m1, e, n + j), n + k) = Img(m3, e, n)
<1> DEFINE T == {y \in Term \X Nat : Img(m2, Img(m1, y[1], y[2] + j), y[2] + k) = Img(m3, y[1], y[2])}
<1>1. ASSUME NEW e \in Term, NEW n \in Nat, <<e, n>> \in S, Below(e, n) \subseteq T
      PROVE  Img(m2, Img(m1, e, n + j), n + k) = Img(m3, e, n)
  <2>0. /\ n + j \in Nat /\ n + k \in Nat /\ n + 1 \in Nat
        /\ (n + j) + 1 = (n + 1) + j /\ (n + k) + 1 = (n + 1) + k /\ (n + j) + 1 \in Nat
    OBVIOUS
  <2> DEFINE x == Img(m1, e, n + j)
  <2>a. x \in Term
    BY <2>0, ImgType
  <2>1. CASE e.k = "app"
    <3>1. /\ Img(m2, Img(m1, e.fun, n + j), n + k) = Img(m3, e.fun, n)
          /\ Img(m2, Img(m1, e.arg, n + j), n + k) = Img(m3, e.arg, n)
      BY <1>1, <2>1 DEF Below
    <3>2. x = App(Img(m1, e.fun, n + j), Img(m1, e.arg, n + j))
      BY <2>0, <2>1, MapInner
    <3> HIDE DEF x
    <3>3. x.k = "app" /\ x.fun = Img(m1, e.fun, n + j) /\ x.arg = Img(m1, e.arg, n + j)
      BY <3>2 DEF App
    <3>4. Img(m2, x, n + k) = App(Img(m2, x.fun, n + k), Img(m2, x.arg, n + k))
      BY <2>0, <2>a, <3>3, MapInner
    <3>5. Img(m3, e, n) = App(Img(m3, e.fun, n), Img(m3, e.arg, n))
      BY <2>1, MapInner
    <3>6. QED
      BY <3>1, <3>3, <3>4, <3>5 DEF x
  <2>2. CASE e.k \in {"lambda", "pi"}
    <3>1. /\ Img(m2, Img(m1, e.binder_type, n + j), n + k) = Img(m3, e.binder_type, n)
          /\ Img(m2, Img(m1, e.body, (n + j) + 1), (n + k) + 1) = Img(m3, e.body, n + 1)
      BY <1>1, <2>0, <2>2 DEF Below
    <3>2. \/ e.k = "lambda" /\ x = Lambda(Img(m1, e.binder_type, n + j), Img(m1, e.body, (n + j) + 1))
          \/ e.k = "pi" /\ x = Pi(Img(m1, e.binder_type, n + j), Img(m1, e.body, (n + j) + 1))
      BY <2>0, <2>2, MapInner
    <3> HIDE DEF x
    <3>3. /\ x.k = e.k /\ x.binder_type = Img(m1, e.binder_type, n + j)
          /\ x.body = Img(m1, e.body, (n + j) + 1)
      BY <3>2 DEF Lambda, Pi
    <3>4. \/ /\ e.k = "lambda"
             /\ Img(m2, x, n + k) = Lambda(Img(m2, x.binder_type, n + k), Img(m2, x.body, (n + k) + 1))
          \/ /\ e.k = "pi"
             /\ Img(m2, x, n + k) = Pi(Img(m2, x.binder_type, n + k), Img(m2, x.body, (n + k) + 1))
      BY <2>0, <2>a, <2>2, <3>3, MapInner
    <3>5. /\ e.k = "lambda" => Img(m3, e, n) = Lambda(Img(m3, e.binder_type, n), Img(m3, e.body, n + 1))
          /\ e.k = "pi" => Img(m3, e, n) = Pi(Img(m3, e.binder_type, n), Img(m3, e.body, n + 1))
      BY <2>2, MapInner
    <3>6. QED
      BY <3>1, <3>3, <3>4, <3>5 DEF x
  <2>3. CASE e.k = "let"
    <3>1. /\ Img(m2, Img(m1, e.binder_type, n + j), n + k) = Img(m3, e.binder_type, n)
          /\ Img(m2, Img(m1, e.val, n + j), n + k) = Img(m3, e.val, n)
          /\ Img(m2, Img(m1, e.body, (n + j) + 1), (n + k) + 1) = Img(m3, e.body, n + 1)
      BY <1>1, <2>0, <2>3 DEF Below
    <3>2. x = Let(Img(m1, e.binder_type, n + j), Img(m1, e.val, n + j), Img(m1, e.body, (n + j) + 1))
      BY <2>0, <2>3, MapInner
    <3> HIDE DEF x
    <3>3. /\ x.k = "let" /\ x.binder_type = Img(m1, e.binder_type, n + j)
          /\ x.val = Img(m1, e.val, n + j) /\ x.body = Img(m1, e.body, (n + j) + 1)
      BY <3>2 DEF Let
    <3>4. Img(m2, x, n + k) =
            Let(Img(m2, x.binder_type, n + k), Img(m2, x.val, n + k), Img(m2, x.body, (n + k) + 1))
      BY <2>0, <2>a, <3>3, MapInner
    <3>5. Img(m3, e, n) = Let(Img(m3, e.binder_type, n), Img(m3, e.val, n), Img(m3, e.body, n + 1))
      BY <2>3, MapInner
    <3>6. QED
      BY <3>1, <3>3, <3>4, <3>5 DEF x
  <2>4. CASE e.k = "proj"
    <3>1. Img(m2, Img(m1, e.structure, n + j), n + k) = Img(m3, e.structure, n)
      BY <1>1, <2>4 DEF Below
    <3>2. x = Proj(e.ty_name, e.idx, Img(m1, e.structure, n + j))
      BY <2>0, <2>4, MapInner
    <3> HIDE DEF x
    <3>3. /\ x.k = "proj" /\ x.ty_name = e.ty_name /\ x.idx = e.idx
          /\ x.structure = Img(m1, e.structure, n + j)
      BY <3>2 DEF Proj
    <3>4. Img(m2, x, n + k) = Proj(x.ty_name, x.idx, Img(m2, x.structure, n + k))
      BY <2>0, <2>a, <3>3, MapInner
    <3>5. Img(m3, e, n) = Proj(e.ty_name, e.idx, Img(m3, e.structure, n))
      BY <2>4, MapInner
    <3>6. QED
      BY <3>1, <3>3, <3>4, <3>5 DEF x
  <2>5. CASE e.k \notin Inner
    <3>1. x = at1[<<e, n + j>>] /\ Img(m3, e, n) = at3[<<e, n>>]
      BY <2>0, <2>5, MapOuter
    <3>2. QED
      BY <1>1, <2>5, <3>1 DEF Agree
  <2>6. QED
    BY <2>1, <2>2, <2>3, <2>4, <2>5 DEF Inner
<1>2. \A e \in Term : \A n \in Nat : <<e, n>> \in S /\ Below(e, n) \subseteq T => <<e, n>> \in T
  BY <1>1
<1>3. S \subseteq T
  <2> HIDE DEF T
  <2>1. QED
    BY <1>2, PairInduction
<1>4. QED
  BY <1>3

\* Loose bound variables of an expression and of its parts.
LEMMA LooseParts ==
  ASSUME NEW e \in Term, NEW n \in Nat
  PROVE  LET fits(x, l) == NumLooseBvars[x] <= l
         IN  /\ e.k = "app" => (fits(e, n) <=> fits(e.fun, n) /\ fits(e.arg, n))
             /\ e.k \in {"lambda", "pi"} => (fits(e, n) <=> fits(e.binder_type, n) /\ fits(e.body, n + 1))
             /\ e.k = "let" => (fits(e, n) <=> /\ fits(e.binder_type, n) /\ fits(e.val, n)
                                              /\ fits(e.body, n + 1))
             /\ e.k = "proj" => (fits(e, n) <=> fits(e.structure, n))
             /\ e.k = "var" => (fits(e, n) <=> e.dbj_idx < n)
             /\ e.k \in Outer \ {"var"} => fits(e, n)
<1> DEFINE N(x) == NumLooseBvars[x]
<1>1. N(e) = LooseBy(e, NumLooseBvars) /\ \A x \in Term : N(x) \in Int
  BY LooseEquation
<1>2. CASE e.k = "app"
  <2>1. N(e.fun) \in Int /\ N(e.arg) \in Int
    BY <1>1, <1>2, Kinds DEF Term
  <2>2. N(e) = Larger(N(e.fun), N(e.arg))
    BY <1>1, <1>2 DEF LooseBy, LooseBvars
  <2> HIDE DEF N
  <2>3. N(e) <= n <=> N(e.fun) <= n /\ N(e.arg) <= n
    BY <2>1, <2>2 DEF Larger
  <2>4. QED
    BY <1>2, <2>3 DEF N, Outer
<1>3. CASE e.k \in {"lambda", "pi"}
  <2>1. N(e.binder_type) \in Int /\ N(e.body) \in Int
    BY <1>1, <1>3, Kinds DEF Term
  <2>2. N(e) = LooseUnder(N(e.binder_type), N(e.body))
    BY <1>1, <1>3 DEF LooseBy, LooseBvars
  <2> HIDE DEF N
  <2>3. N(e) <= n <=> N(e.binder_type) <= n /\ N(e.body) <= n + 1
    BY <2>1, <2>2 DEF LooseUnder, Larger
  <2>4. QED
    BY <1>3, <2>3 DEF N, Outer
<1>4. CASE e.k = "let"
  <2>1. N(e.binder_type) \in Int /\ N(e.val) \in Int /\ N(e.body) \in Int
    BY <1>1, <1>4, Kinds DEF Term
  <2>2. N(e) = Larger(N(e.val), LooseUnder(N(e.binder_type), N(e.body)))
    BY <1>1, <1>4 DEF LooseBy, LooseBvars
  <2> HIDE DEF N
  <2>3. N(e) <= n <=> N(e.binder_type) <= n /\ N(e.val) <= n /\ N(e.body) <= n + 1
    BY <2>1, <2>2 DEF LooseUnder, Larger
  <2>4. QED
    BY <1>4, <2>3 DEF N, Outer
<1>5. CASE e.k = "proj"
  <2>1. N(e) = N(e.structure)
    BY <1>1, <1>5 DEF LooseBy, LooseBvars
  <2>2. QED
    BY <1>5, <2>1 DEF Outer
<1>6. CASE e.k = "var"
  <2>1. N(e) = e.dbj_idx + 1 /\ e.dbj_idx \in Int
    BY <1>1, <1>6, Kinds DEF Term, LooseBy, LooseBvars
  <2>2. QED
    BY <1>6, <2>1 DEF Outer
<1>7. CASE e.k \in Outer \ {"var"}
  <2>1. N(e) = 0
    BY <1>1, <1>7 DEF LooseBy, LooseBvars, Outer
  <2>2. QED
    BY <1>7, <2>1 DEF Outer
<1>8. e.k \in Inner \cup Outer
  BY Kinds DEF Term
<1>9. QED
  BY <1>2, <1>3, <1>4, <1>5, <1>6, <1>7, <1>8 DEF Inner

\* Free variables of an expression and of its parts.
LEMMA FreeParts ==
  ASSUME NEW e \in Term
  PROVE  /\ FreeVars[e] \in SUBSET Term
         /\ e.k \in {"local", "unique"} => FreeVars[e] = {e}
         /\ e.k \in Inner => FreeVars[e] = UNION {FreeVars[p] : p \in Parts(e)}
         /\ e.k \in Outer \ {"local", "unique"} => FreeVars[e] = {}
<1>1. FreeVars[e] = FreeBy(e, FreeVars) /\ FreeVars[e] \in SUBSET Term
  BY FreeVarsEquation
<1>2. e.k \in Outer => Parts(e) = {}
  BY PartsOfKind DEF Outer, Inner
<1>3. CASE e.k \in {"local", "unique"}
  BY <1>1, <1>3 DEF FreeBy, Inner, Outer
<1>4. CASE e.k \notin {"local", "unique"}
  <2>1. FreeVars[e] = UNION {FreeVars[p] : p \in Parts(e)}
    BY <1>1, <1>4 DEF FreeBy
  <2>2. QED
    BY <1>1, <1>2, <1>4, <2>1 DEF Inner
<1>5. QED
  BY <1>3, <1>4

\* Indices that are numbers are integers.
LEMMA NaturalTerm == TermOver(Nat) \subseteq Term
<1> DEFINE A == {n \in Nat : TermTo(Nat)[n] \subseteq TermTo(Int)[n]}
<1>1. 0 \in A
  BY TermToEquation DEF Leaves
<1>2. ASSUME NEW n \in Nat, n \in A PROVE n + 1 \in A
  <2>1. \A P, Q : P \subseteq Q => Over(P) \subseteq Over(Q)
    BY DEF Over
  <2>2. TermTo(Nat)[n + 1] = Over(TermTo(Nat)[n]) /\ TermTo(Int)[n + 1] = Over(TermTo(Int)[n])
    BY TermToEquation
  <2>3. QED
    BY <1>2, <2>1, <2>2
<1>3. Nat \subseteq A
  <2> HIDE DEF A
  <2>1. QED
    BY <1>1, <1>2, Induction
<1>4. QED
  BY <1>3 DEF Term, TermOver

\* Expressions with indices from I that are closed below k binders more than
\* they are under, and have free variables of X.
Class(I, k, X) ==
  {y \in TermOver(I) \X Nat : NumLooseBvars[y[1]] <= y[2] + k /\ FreeVars[y[1]] \subseteq X}

LEMMA ClassClosed ==
  ASSUME NEW I, I \in {Nat, Int}, NEW k \in Nat, NEW X
  PROVE  IsClosed(Class(I, k, X))
<1> DEFINE P == TermOver(I)
<1>1. P \subseteq Term
  BY NaturalTerm DEF Term
<1>2. ASSUME NEW e \in P, NEW n \in Nat, NumLooseBvars[e] <= n + k, FreeVars[e] \subseteq X
      PROVE  Below(e, n) \subseteq Class(I, k, X)
  <2>0. e \in Term /\ n + k \in Nat /\ n + 1 \in Nat /\ (n + k) + 1 = (n + 1) + k
    BY <1>1
  <2>1. \A p \in Parts(e) : p \in P /\ FreeVars[p] \subseteq X
    <3>1. Parts(e) \subseteq P
      BY TermShape, PartsOfShape
    <3>2. CASE e.k \in Inner
      BY <1>2, <2>0, <3>1, <3>2, FreeParts
    <3>3. CASE e.k \notin Inner
      BY <2>0, <3>3, PartsOfKind
    <3>4. QED
      BY <3>1, <3>2, <3>3
  <2>2. \A p, l : p \in P /\ l \in Nat /\ NumLooseBvars[p] <= l + k /\ FreeVars[p] \subseteq X
                  => <<p, l>> \in Class(I, k, X)
    BY DEF Class
  <2>3. CASE e.k = "app"
    <3>1. e.fun \in Parts(e) /\ e.arg \in Parts(e)
      BY <2>0, <2>3, PartsOfKind
    <3>2. NumLooseBvars[e.fun] <= n + k /\ NumLooseBvars[e.arg] <= n + k
      BY <1>2, <2>0, <2>3, LooseParts
    <3>3. Below(e, n) = {<<e.fun, n>>, <<e.arg, n>>}
      BY <2>3 DEF Below
    <3>4. QED
      BY <2>1, <2>2, <3>1, <3>2, <3>3
  <2>4. CASE e.k \in {"lambda", "pi"}
    <3>1. e.binder_type \in Parts(e) /\ e.body \in Parts(e)
      BY <2>0, <2>4, PartsOfKind
    <3>2. NumLooseBvars[e.binder_type] <= n + k /\ NumLooseBvars[e.body] <= (n + k) + 1
      BY <1>2, <2>0, <2>4, LooseParts
    <3>3. Below(e, n) = {<<e.binder_type, n>>, <<e.body, n + 1>>}
      BY <2>4 DEF Below
    <3>4. QED
      BY <2>0, <2>1, <2>2, <3>1, <3>2, <3>3
  <2>5. CASE e.k = "let"
    <3>1. e.binder_type \in Parts(e) /\ e.val \in Parts(e) /\ e.body \in Parts(e)
      BY <2>0, <2>5, PartsOfKind
    <3>2. /\ NumLooseBvars[e.binder_type] <= n + k /\ NumLooseBvars[e.val] <= n + k
          /\ NumLooseBvars[e.body] <= (n + k) + 1
      BY <1>2, <2>0, <2>5, LooseParts
    <3>3. Below(e, n) = {<<e.binder_type, n>>, <<e.val, n>>, <<e.body, n + 1>>}
      BY <2>5 DEF Below
    <3>4. QED
      BY <2>0, <2>1, <2>2, <3>1, <3>2, <3>3
  <2>6. CASE e.k = "proj"
    <3>1. e.structure \in Parts(e)
      BY <2>0, <2>6, PartsOfKind
    <3>2. NumLooseBvars[e.structure] <= n + k
      BY <1>2, <2>0, <2>6, LooseParts
    <3>3. Below(e, n) = {<<e.structure, n>>}
      BY <2>6 DEF Below
    <3>4. QED
      BY <2>1, <2>2, <3>1, <3>2, <3>3
  <2>7. CASE e.k \notin Inner
    BY <2>7 DEF Below, Inner
  <2>8. QED
    BY <2>3, <2>4, <2>5, <2>6, <2>7 DEF Inner
<1>3. \A e, n : <<e, n>> \in Class(I, k, X) =>
        e \in P /\ n \in Nat /\ NumLooseBvars[e] <= n + k /\ FreeVars[e] \subseteq X
  BY DEF Class
<1>4. Class(I, k, X) \subseteq Term \X Nat
  BY <1>1 DEF Class
<1> HIDE DEF P
<1>5. QED
  BY <1>2, <1>3, <1>4 DEF IsClosed

\* Bounds on what is made at the nodes without parts are bounds on the result:
\* how deep it is open, the free variables it has, and its indices.
LEMMA MapBounds ==
  ASSUME NEW m, NEW at, IsMap(m, at), NEW I, I \in {Nat, Int}, NEW j \in Nat, NEW k \in Nat, NEW X,
         NEW S, IsClosed(S), S \subseteq TermOver(I) \X Nat,
         \A e \in Term : \A n \in Nat :
           <<e, n>> \in S /\ e.k \notin Inner => <<at[<<e, n + j>>], n>> \in Class(I, k, X)
  PROVE  \A e \in Term : \A n \in Nat : <<e, n>> \in S => <<Img(m, e, n + j), n>> \in Class(I, k, X)
<1> DEFINE P == TermOver(I)
           Q == Class(I, k, X)
           T == {y \in Term \X Nat : <<Img(m, y[1], y[2] + j), y[2]>> \in Q}
<1>0. /\ P \subseteq Term
      /\ \A x, l : <<x, l>> \in Q <=>
            x \in P /\ l \in Nat /\ NumLooseBvars[x] <= l + k /\ FreeVars[x] \subseteq X
  BY NaturalTerm DEF Class, Term
<1>a. ASSUME NEW x \in P, NEW n \in Nat, x.k \in Inner, NumLooseBvars[x] <= n + k,
             \A p \in Parts(x) : FreeVars[p] \subseteq X
      PROVE  <<x, n>> \in Q
  <2>1. FreeVars[x] \subseteq X
    BY <1>0, <1>a, FreeParts
  <2> HIDE DEF Q
  <2>2. QED
    BY <1>0, <1>a, <2>1
<1>1. ASSUME NEW e \in Term, NEW n \in Nat, <<e, n>> \in S, Below(e, n) \subseteq T
      PROVE  <<Img(m, e, n + j), n>> \in Q
  <2>0. /\ n + j \in Nat /\ n + k \in Nat /\ n + 1 \in Nat
        /\ (n + j) + 1 = (n + 1) + j /\ (n + k) + 1 = (n + 1) + k /\ (n + j) + 1 \in Nat
        /\ e \in P
    BY <1>1
  <2> DEFINE x == Img(m, e, n + j)
             f(p) == Img(m, p, n + j)
             b == Img(m, e.body, (n + j) + 1)
  <2>1. CASE e.k = "app"
    <3>1. <<f(e.fun), n>> \in Q /\ <<f(e.arg), n>> \in Q
      BY <1>1, <2>1 DEF Below
    <3>2. x = App(f(e.fun), f(e.arg))
      BY <2>0, <2>1, MapInner
    <3> HIDE DEF x, f, Q
    <3>3. x.k = "app" /\ x.fun = f(e.fun) /\ x.arg = f(e.arg)
      BY <3>2 DEF App
    <3>4. x \in P
      BY <1>0, <3>1, <3>2, Constructors DEF P
    <3>5. Parts(x) = {x.fun, x.arg} /\ NumLooseBvars[x] <= n + k
      BY <1>0, <2>0, <3>1, <3>3, <3>4, PartsOfKind, LooseParts
    <3>6. x.k \in Inner
      BY <3>3 DEF Inner
    <3>7. <<x, n>> \in Q
      BY <1>0, <1>a, <3>1, <3>3, <3>4, <3>5, <3>6
    <3>8. QED
      BY <3>7 DEF x
  <2>2. CASE e.k \in {"lambda", "pi"}
    <3>1. <<f(e.binder_type), n>> \in Q /\ <<b, n + 1>> \in Q
      BY <1>1, <2>0, <2>2 DEF Below
    <3>2. x = Lambda(f(e.binder_type), b) \/ x = Pi(f(e.binder_type), b)
      BY <2>0, <2>2, MapInner
    <3> HIDE DEF x, f, b, Q
    <3>3. x.k \in {"lambda", "pi"} /\ x.binder_type = f(e.binder_type) /\ x.body = b
      BY <3>2 DEF Lambda, Pi
    <3>4. x \in P
      BY <1>0, <3>1, <3>2, Constructors DEF P
    <3>5. Parts(x) = {x.binder_type, x.body} /\ NumLooseBvars[x] <= n + k
      BY <1>0, <2>0, <3>1, <3>3, <3>4, PartsOfKind, LooseParts
    <3>6. x.k \in Inner
      BY <3>3 DEF Inner
    <3>7. <<x, n>> \in Q
      BY <1>0, <1>a, <3>1, <3>3, <3>4, <3>5, <3>6
    <3>8. QED
      BY <3>7 DEF x
  <2>3. CASE e.k = "let"
    <3>1. <<f(e.binder_type), n>> \in Q /\ <<f(e.val), n>> \in Q /\ <<b, n + 1>> \in Q
      BY <1>1, <2>0, <2>3 DEF Below
    <3>2. x = Let(f(e.binder_type), f(e.val), b)
      BY <2>0, <2>3, MapInner
    <3> HIDE DEF x, f, b, Q
    <3>3. x.k = "let" /\ x.binder_type = f(e.binder_type) /\ x.val = f(e.val) /\ x.body = b
      BY <3>2 DEF Let
    <3>4. x \in P
      BY <1>0, <3>1, <3>2, Constructors DEF P
    <3>5. Parts(x) = {x.binder_type, x.val, x.body} /\ NumLooseBvars[x] <= n + k
      BY <1>0, <2>0, <3>1, <3>3, <3>4, PartsOfKind, LooseParts
    <3>6. x.k \in Inner
      BY <3>3 DEF Inner
    <3>7. <<x, n>> \in Q
      BY <1>0, <1>a, <3>1, <3>3, <3>4, <3>5, <3>6
    <3>8. QED
      BY <3>7 DEF x
  <2>4. CASE e.k = "proj"
    <3>1. <<f(e.structure), n>> \in Q
      BY <1>1, <2>4 DEF Below
    <3>2. x = Proj(e.ty_name, e.idx, f(e.structure)) /\ e.ty_name \in Name /\ e.idx \in Nat
      BY <2>0, <2>4, MapInner, Kinds DEF Term
    <3> HIDE DEF x, f, Q
    <3>3. x.k = "proj" /\ x.structure = f(e.structure)
      BY <3>2 DEF Proj
    <3>4. x \in P
      BY <1>0, <3>1, <3>2, Constructors DEF P
    <3>5. Parts(x) = {x.structure} /\ NumLooseBvars[x] <= n + k
      BY <1>0, <2>0, <3>1, <3>3, <3>4, PartsOfKind, LooseParts
    <3>6. x.k \in Inner
      BY <3>3 DEF Inner
    <3>7. <<x, n>> \in Q
      BY <1>0, <1>a, <3>1, <3>3, <3>4, <3>5, <3>6
    <3>8. QED
      BY <3>7 DEF x
  <2>5. CASE e.k \notin Inner
    <3>1. x = at[<<e, n + j>>]
      BY <2>0, <2>5, MapOuter
    <3> HIDE DEF Q
    <3>2. QED
      BY <1>1, <2>5, <3>1 DEF Q
  <2>6. QED
    BY <2>1, <2>2, <2>3, <2>4, <2>5 DEF Inner
<1>2. \A e \in Term : \A n \in Nat : <<e, n>> \in S /\ Below(e, n) \subseteq T => <<e, n>> \in T
  BY <1>1
<1>3. S \subseteq T
  <2> HIDE DEF T
  <2>1. QED
    BY <1>2, PairInduction
<1>4. QED
  BY <1>3

\* The flag a node keeps, computed from the flags of its parts, says whether there
\* is a free variable in it: the abstractions skip what has none.
THEOREM FlagRight == \A e \in Term : HasFreeVars[e] <=> FreeVars[e] # {}
<1> DEFINE T == {e \in Term : HasFreeVars[e] <=> FreeVars[e] # {}}
<1>1. ASSUME NEW e \in TermOver(Int), Parts(e) \subseteq T PROVE e \in T
  <2>0. e \in Term
    BY DEF Term
  <2>1. HasFreeVars[e] = FvarsBy(e, HasFreeVars)
    BY <2>0, FvarsEquation
  <2>2. CASE e.k \in Inner
    <3>1. FreeVars[e] # {} <=> \E p \in Parts(e) : FreeVars[p] # {}
      BY <2>0, <2>2, FreeParts
    <3>2. FreeVars[e] # {} <=> \E p \in Parts(e) : HasFreeVars[p]
      BY <1>1, <3>1
    <3>3. FvarsBy(e, HasFreeVars) <=> \E p \in Parts(e) : HasFreeVars[p]
      <4>1. CASE e.k = "app"
        BY <2>0, <4>1, PartsOfKind DEF FvarsBy, HasFvars
      <4>2. CASE e.k \in {"lambda", "pi"}
        BY <2>0, <4>2, PartsOfKind DEF FvarsBy, HasFvars
      <4>3. CASE e.k = "let"
        BY <2>0, <4>3, PartsOfKind DEF FvarsBy, HasFvars
      <4>4. CASE e.k = "proj"
        BY <2>0, <4>4, PartsOfKind DEF FvarsBy, HasFvars
      <4>5. QED
        BY <2>2, <4>1, <4>2, <4>3, <4>4 DEF Inner
    <3>4. QED
      BY <2>0, <2>1, <3>2, <3>3
  <2>3. CASE e.k \in {"local", "unique"}
    <3>1. FreeVars[e] = {e}
      BY <2>0, <2>3, FreeParts
    <3>2. FvarsBy(e, HasFreeVars) = TRUE
      BY <2>3 DEF FvarsBy, HasFvars
    <3>3. QED
      BY <2>0, <2>1, <3>1, <3>2
  <2>4. CASE e.k \in Outer \ {"local", "unique"}
    <3>1. FreeVars[e] = {}
      BY <2>0, <2>4, FreeParts
    <3>2. FvarsBy(e, HasFreeVars) = FALSE
      BY <2>4 DEF FvarsBy, HasFvars, Outer
    <3>3. QED
      BY <2>0, <2>1, <3>1, <3>2
  <2>5. e.k \in Inner \cup Outer
    BY Kinds
  <2>6. QED
    BY <2>2, <2>3, <2>4, <2>5
<1>2. TermOver(Int) \subseteq T
  <2> HIDE DEF T
  <2>1. QED
    BY <1>1, TermInduction
<1>3. QED
  BY <1>2 DEF Term

------------------------------------------------------------------------------
(***************************************************************************)
(* The three walks of Expr                                                 *)
(***************************************************************************)
Pairs == Term \X Nat
Triples == Term \X Nat \X Nat

\* The step of inst_aux, and inst_aux for the arguments substs.
InstBy(e, substs, n, c, w) ==
  InstStep(e, NumLooseBvars[e], substs, n, c, LAMBDA x, d, cx : Call(w, x, n + d, cx))
InstAux(substs) ==
  CHOOSE w \in [Term -> CallsOn(Pairs)] :
    \A e \in Term : \A n \in Nat : \A c \in CacheOn(Pairs) :
      Call(w, e, n, c) = InstBy(e, substs, n, c, w)

\* The step of abstr_aux, and abstr_aux for the variables locals.
AbstrBy(e, locals, n, c, w) ==
  AbstrStep(e, HasFreeVars[e], locals, n, c, LAMBDA x, d, cx : Call(w, x, n + d, cx))
AbstrAux(locals) ==
  CHOOSE w \in [Term -> CallsOn(Pairs)] :
    \A e \in Term : \A n \in Nat : \A c \in CacheOn(Pairs) :
      Call(w, e, n, c) = AbstrBy(e, locals, n, c, w)

\* The step of abstr_aux_levels, and abstr_aux_levels for start_pos.
AbstrLevelsBy(e, start_pos, n, c, w) ==
  AbstrLevelsStep(e, HasFreeVars[e], start_pos, n, c, LAMBDA x, d, cx : Call(w, x, n + d, cx))
AbstrAuxLevels(start_pos) ==
  CHOOSE w \in [Term -> CallsOn(Triples)] :
    \A e \in Term : \A n \in Nat : \A c \in CacheOn(Triples) :
      Call(w, e, n, c) = AbstrLevelsBy(e, start_pos, n, c, w)

\* What each is to compute.  Below n binders, the variables n, n + 1, ... become
\* the members of s from the last to the first,
SubstAt(s) ==
  [y \in Pairs |->
     IF y[1].k = "var" /\ y[2] <= y[1].dbj_idx /\ y[1].dbj_idx < y[2] + Len(s)
     THEN s[Len(s) - (y[1].dbj_idx - y[2])] ELSE y[1]]
Substituted(s) == Everywhere(SubstAt(s))

\* a free variable of s becomes a bound one,
BindAt(s) == [y \in Pairs |-> IF y[1].k \in {"local", "unique"} THEN BoundVar(y[1], s, y[2]) ELSE y[1]]
Bound(s) == Everywhere(BindAt(s))

\* and one with a level from start_pos does.
BindLevelAt(start_pos) ==
  [y \in Pairs |-> IF y[1].k = "local" /\ start_pos <= y[1].level THEN fvar_to_bvar(y[2], y[1].level) ELSE y[1]]
BoundLevels(start_pos) == Everywhere(BindLevelAt(start_pos))

InstWalk(s) == [skip |-> {y \in Pairs : NumLooseBvars[y[1]] <= y[2]}, keys |-> Pairs,
                key |-> [y \in Pairs |-> y], stop |-> {"var"}, at |-> SubstAt(s)]
AbstrWalk(s) == [skip |-> {y \in Pairs : ~ HasFreeVars[y[1]]}, keys |-> Pairs,
                 key |-> [y \in Pairs |-> y], stop |-> {"local", "unique"}, at |-> BindAt(s)]
LevelsWalk(start_pos) ==
  [skip |-> {y \in Pairs : ~ HasFreeVars[y[1]]}, keys |-> Triples,
   key |-> [y \in Pairs |-> <<y[1], start_pos, y[2]>>], stop |-> {"local", "unique"},
   at |-> BindLevelAt(start_pos)]

LEMMA SubstAtType ==
  ASSUME NEW s \in Seq(Term)
  PROVE  SubstAt(s) \in [Pairs -> Term]
<1> SUFFICES ASSUME NEW e \in Term, NEW n \in Nat, e.k = "var", n <= e.dbj_idx, e.dbj_idx < n + Len(s)
             PROVE  s[Len(s) - (e.dbj_idx - n)] \in Term
  BY DEF SubstAt, Pairs
<1>1. e.dbj_idx \in Int
  BY Kinds DEF Term
<1>2. Len(s) - (e.dbj_idx - n) \in 1 .. Len(s)
  BY <1>1
<1>3. QED
  BY <1>2

\* The last place of a variable in s.
LEMMA LastPlace ==
  ASSUME NEW s \in Seq(Term), NEW e, NEW n \in Nat
  PROVE  \/ /\ \A i \in 1 .. Len(s) : s[i] # e
            /\ BoundVar(e, s, n) = e
         \/ \E p \in 1 .. Len(s) : /\ s[p] = e
                                  /\ \A i \in 1 .. Len(s) : s[i] = e => i <= p
                                  /\ BoundVar(e, s, n) = Var((Len(s) - p) + n)
<1> DEFINE A == {i \in 1 .. Len(s) : s[i] = e}
<1>1. CASE A = {}
  <2>1. ~ Contains(s, e)
    BY <1>1 DEF Contains
  <2>2. QED
    BY <1>1, <2>1 DEF BoundVar
<1>2. CASE A # {}
  <2>1. Contains(s, e)
    BY <1>2 DEF Contains
  <2>2. SelectLastInSeq(s, LAMBDA x : x = e) = Max(A)
    BY <1>2 DEF SelectLastInSeq
  <2>3. PICK p \in A : \A i \in A : i <= p
    <3> DEFINE B == {Len(s) - i : i \in A}
    <3>1. B \in SUBSET Nat /\ B # {}
      BY <1>2
    <3>2. PICK b \in B : \A d \in B : b <= d
      <4> HIDE DEF B
      <4>1. QED
        BY <3>1, Sets!LeastNat
    <3>3. PICK p \in A : b = Len(s) - p
      OBVIOUS
    <3>4. \A i \in A : Len(s) - p <= Len(s) - i
      BY <3>2, <3>3
    <3>5. \A i \in A : i <= p
      BY <3>4
    <3>6. QED
      BY <3>5
  <2>4. Max(A) = p
    <3>1. \A q \in A : (\A i \in A : q >= i) => q = p
      BY <2>3
    <3>2. \A i \in A : p >= i
      BY <2>3
    <3> HIDE DEF A
    <3>3. QED
      BY <2>3, <3>1, <3>2 DEF Max
  <2>5. BoundVar(e, s, n) = Var((Len(s) - p) + n)
    BY <2>1, <2>2, <2>4 DEF BoundVar
  <2>6. QED
    BY <2>3, <2>5
<1>3. QED
  BY <1>1, <1>2

LEMMA BindAtType ==
  ASSUME NEW s \in Seq(Term)
  PROVE  BindAt(s) \in [Pairs -> Term]
<1>1. \A e \in Term, n \in Nat : BoundVar(e, s, n) \in Term
  <2> SUFFICES ASSUME NEW e \in Term, NEW n \in Nat PROVE BoundVar(e, s, n) \in Term
    OBVIOUS
  <2>1. \A i \in Int : Var(i) \in Term
    BY Constructors DEF Term
  <2>2. Len(s) \in Nat
    OBVIOUS
  <2>3. QED
    BY <2>1, <2>2, LastPlace
<1>2. QED
  BY <1>1 DEF BindAt, Pairs

LEMMA BindLevelAtType ==
  ASSUME NEW start_pos \in Nat
  PROVE  BindLevelAt(start_pos) \in [Pairs -> Term]
<1>1. \A e \in Term, n \in Nat : e.k = "local" => fvar_to_bvar(n, e.level) \in Term
  <2> SUFFICES ASSUME NEW e \in Term, NEW n \in Nat, e.k = "local" PROVE fvar_to_bvar(n, e.level) \in Term
    OBVIOUS
  <2>1. \A i \in Int : Var(i) \in Term
    BY Constructors DEF Term
  <2>2. e.level \in Nat
    BY Kinds DEF Term
  <2>3. QED
    BY <2>1, <2>2 DEF fvar_to_bvar
<1>2. QED
  BY <1>1 DEF BindLevelAt, Pairs

\* inst_aux is a walk, on a cache with entries for expressions and offsets.
LEMMA InstIsWalk ==
  ASSUME NEW s \in Seq(Term)
  PROVE  IsWalk(InstWalk(s)) /\ IsCallOf(InstAux(s), InstWalk(s))
<1> DEFINE g == InstWalk(s)
<1>1. /\ g.keys = Pairs /\ g.at = SubstAt(s) /\ g.stop = {"var"}
      /\ \A e \in Term : \A n \in Nat :
           g.key[<<e, n>>] = <<e, n>> /\ (<<e, n>> \in g.skip <=> NumLooseBvars[e] <= n)
      /\ g.key \in [Pairs -> Pairs]
  BY DEF InstWalk, Pairs
<1> HIDE DEF g
<1>2. IsWalk(g)
  <2>1. \A e \in Term : \A n \in Nat : <<e, n>> \in g.skip \/ e.k \in g.stop \cup Inner
    <3>a. g.stop = {"var"}
      BY <1>1
    <3> SUFFICES ASSUME NEW e \in Term, NEW n \in Nat, e.k \notin g.stop \cup Inner
                 PROVE  <<e, n>> \in g.skip
      OBVIOUS
    <3>0. <<e, n>> \in g.skip <=> NumLooseBvars[e] <= n
      BY <1>1
    <3>1. e.k \in Outer \ {"var"}
      BY <3>a, Kinds DEF Term
    <3>2. QED
      BY <3>0, <3>1, LooseParts
  <2>2. g.stop \cap Inner = {}
    BY <1>1 DEF Inner
  <2>3. g.at \in [Term \X Nat -> Term]
    BY <1>1, SubstAtType DEF Pairs
  <2>4. g.key \in [Term \X Nat -> g.keys]
    BY <1>1 DEF Pairs
  <2>5. \A e, f \in Term : \A m, n \in Nat : g.key[<<e, m>>] = g.key[<<f, n>>] => e = f /\ m = n
    BY <1>1
  <2>6. QED
    BY <2>1, <2>2, <2>3, <2>4, <2>5 DEF IsWalk
<1>3. ASSUME NEW e \in Term, NEW n \in Nat, NEW c, NEW w
      PROVE  InstBy(e, s, n, c, w) = WalkBy(e, n, c, w, g)
  <2> DEFINE N == NumLooseBvars[e]
             r == IF e.k = "var" THEN [e |-> SubstVar(e, s, n), c |-> c] ELSE RebuildBy(e, n, c, w)
  <2>1. N \in Int
    BY LooseEquation
  <2>2. InstBy(e, s, n, c, w) =
          IF N <= n THEN [e |-> e, c |-> c]
          ELSE IF <<e, n>> \in DOMAIN c THEN [e |-> c[<<e, n>>], c |-> c] ELSE Cached(<<e, n>>, r)
    BY <2>1 DEF InstBy, InstStep, RebuildBy
  <2>3. e.k = "var" /\ ~ (N <= n) => SubstVar(e, s, n) = SubstAt(s)[<<e, n>>]
    <3> SUFFICES ASSUME e.k = "var", ~ (N <= n) PROVE SubstVar(e, s, n) = SubstAt(s)[<<e, n>>]
      OBVIOUS
    <3>1. e.dbj_idx \in Int /\ n <= e.dbj_idx
      BY Kinds, LooseParts DEF Term
    <3>2. e.dbj_idx - n < Len(s) <=> e.dbj_idx < n + Len(s)
      BY <3>1
    <3>3. QED
      BY <3>1, <3>2 DEF SubstVar, SubstAt, Pairs
  <2>4. WalkBy(e, n, c, w, g) =
          IF N <= n THEN [e |-> e, c |-> c]
          ELSE IF <<e, n>> \in DOMAIN c THEN [e |-> c[<<e, n>>], c |-> c]
          ELSE Cached(<<e, n>>, IF e.k = "var" THEN [e |-> SubstAt(s)[<<e, n>>], c |-> c]
                                ELSE RebuildBy(e, n, c, w))
    BY <1>1 DEF WalkBy
  <2> HIDE DEF N
  <2>5. QED
    BY <2>2, <2>3, <2>4
<1>4. \E w : IsCallOf(w, g)
  BY <1>2, WalkExists
<1>5. \E w \in [Term -> CallsOn(Pairs)] :
        \A e \in Term : \A n \in Nat : \A c \in CacheOn(Pairs) :
          Call(w, e, n, c) = InstBy(e, s, n, c, w)
  BY <1>1, <1>3, <1>4 DEF IsCallOf
<1>6. /\ InstAux(s) \in [Term -> CallsOn(Pairs)]
      /\ \A e \in Term : \A n \in Nat : \A c \in CacheOn(Pairs) :
           Call(InstAux(s), e, n, c) = InstBy(e, s, n, c, InstAux(s))
  BY <1>5 DEF InstAux
<1>7. IsCallOf(InstAux(s), g)
  BY <1>1, <1>3, <1>6 DEF IsCallOf
<1>8. QED
  BY <1>2, <1>7 DEF g

\* abstr_aux is one too,
LEMMA AbstrIsWalk ==
  ASSUME NEW s \in Seq(Term)
  PROVE  IsWalk(AbstrWalk(s)) /\ IsCallOf(AbstrAux(s), AbstrWalk(s))
<1> DEFINE g == AbstrWalk(s)
<1>1. /\ g.keys = Pairs /\ g.at = BindAt(s) /\ g.stop = {"local", "unique"}
      /\ \A e \in Term : \A n \in Nat :
           g.key[<<e, n>>] = <<e, n>> /\ (<<e, n>> \in g.skip <=> ~ HasFreeVars[e])
      /\ g.key \in [Pairs -> Pairs]
  BY DEF AbstrWalk, Pairs
<1> HIDE DEF g
<1>2. IsWalk(g)
  <2>1. \A e \in Term : \A n \in Nat : <<e, n>> \in g.skip \/ e.k \in g.stop \cup Inner
    <3>a. g.stop = {"local", "unique"}
      BY <1>1
    <3> SUFFICES ASSUME NEW e \in Term, NEW n \in Nat, e.k \notin g.stop \cup Inner
                 PROVE  <<e, n>> \in g.skip
      OBVIOUS
    <3>0. <<e, n>> \in g.skip <=> ~ HasFreeVars[e]
      BY <1>1
    <3>1. e.k \in Outer \ {"local", "unique"}
      BY <3>a, Kinds DEF Term
    <3>2. QED
      BY <3>0, <3>1, FreeParts, FlagRight
  <2>2. g.stop \cap Inner = {}
    BY <1>1 DEF Inner
  <2>3. g.at \in [Term \X Nat -> Term]
    BY <1>1, BindAtType DEF Pairs
  <2>4. g.key \in [Term \X Nat -> g.keys]
    BY <1>1 DEF Pairs
  <2>5. \A e, f \in Term : \A m, n \in Nat : g.key[<<e, m>>] = g.key[<<f, n>>] => e = f /\ m = n
    BY <1>1
  <2>6. QED
    BY <2>1, <2>2, <2>3, <2>4, <2>5 DEF IsWalk
<1>3. ASSUME NEW e \in Term, NEW n \in Nat, NEW c, NEW w
      PROVE  AbstrBy(e, s, n, c, w) = WalkBy(e, n, c, w, g)
  <2> DEFINE F == HasFreeVars[e]
             r == IF e.k \in {"local", "unique"} THEN [e |-> BoundVar(e, s, n), c |-> c]
                  ELSE RebuildBy(e, n, c, w)
  <2>1. AbstrBy(e, s, n, c, w) =
          IF ~ F THEN [e |-> e, c |-> c]
          ELSE IF <<e, n>> \in DOMAIN c THEN [e |-> c[<<e, n>>], c |-> c] ELSE Cached(<<e, n>>, r)
    BY DEF AbstrBy, AbstrStep, RebuildBy
  <2>2. e.k \in {"local", "unique"} => BoundVar(e, s, n) = BindAt(s)[<<e, n>>]
    BY DEF BindAt, Pairs
  <2>3. WalkBy(e, n, c, w, g) =
          IF ~ F THEN [e |-> e, c |-> c]
          ELSE IF <<e, n>> \in DOMAIN c THEN [e |-> c[<<e, n>>], c |-> c]
          ELSE Cached(<<e, n>>, IF e.k \in {"local", "unique"} THEN [e |-> BindAt(s)[<<e, n>>], c |-> c]
                                ELSE RebuildBy(e, n, c, w))
    BY <1>1 DEF WalkBy
  <2> HIDE DEF F
  <2>4. QED
    BY <2>1, <2>2, <2>3
<1>4. \E w : IsCallOf(w, g)
  BY <1>2, WalkExists
<1>5. \E w \in [Term -> CallsOn(Pairs)] :
        \A e \in Term : \A n \in Nat : \A c \in CacheOn(Pairs) :
          Call(w, e, n, c) = AbstrBy(e, s, n, c, w)
  BY <1>1, <1>3, <1>4 DEF IsCallOf
<1>6. /\ AbstrAux(s) \in [Term -> CallsOn(Pairs)]
      /\ \A e \in Term : \A n \in Nat : \A c \in CacheOn(Pairs) :
           Call(AbstrAux(s), e, n, c) = AbstrBy(e, s, n, c, AbstrAux(s))
  BY <1>5 DEF AbstrAux
<1>7. IsCallOf(AbstrAux(s), g)
  BY <1>1, <1>3, <1>6 DEF IsCallOf
<1>8. QED
  BY <1>2, <1>7 DEF g

\* and so is abstr_aux_levels.
LEMMA LevelsIsWalk ==
  ASSUME NEW start_pos \in Nat
  PROVE  IsWalk(LevelsWalk(start_pos)) /\ IsCallOf(AbstrAuxLevels(start_pos), LevelsWalk(start_pos))
<1> DEFINE g == LevelsWalk(start_pos)
           s == start_pos
<1>1. /\ g.keys = Triples /\ g.at = BindLevelAt(s) /\ g.stop = {"local", "unique"}
      /\ \A e \in Term : \A n \in Nat :
           g.key[<<e, n>>] = <<e, s, n>> /\ (<<e, n>> \in g.skip <=> ~ HasFreeVars[e])
      /\ g.key \in [Pairs -> Triples]
  BY DEF LevelsWalk, Pairs, Triples
<1> HIDE DEF g
<1>2. IsWalk(g)
  <2>1. \A e \in Term : \A n \in Nat : <<e, n>> \in g.skip \/ e.k \in g.stop \cup Inner
    <3>a. g.stop = {"local", "unique"}
      BY <1>1
    <3> SUFFICES ASSUME NEW e \in Term, NEW n \in Nat, e.k \notin g.stop \cup Inner
                 PROVE  <<e, n>> \in g.skip
      OBVIOUS
    <3>0. <<e, n>> \in g.skip <=> ~ HasFreeVars[e]
      BY <1>1
    <3>1. e.k \in Outer \ {"local", "unique"}
      BY <3>a, Kinds DEF Term
    <3>2. QED
      BY <3>0, <3>1, FreeParts, FlagRight
  <2>2. g.stop \cap Inner = {}
    BY <1>1 DEF Inner
  <2>3. g.at \in [Term \X Nat -> Term]
    BY <1>1, BindLevelAtType DEF Pairs
  <2>4. g.key \in [Term \X Nat -> g.keys]
    BY <1>1 DEF Pairs
  <2>5. \A e, f \in Term : \A m, n \in Nat : g.key[<<e, m>>] = g.key[<<f, n>>] => e = f /\ m = n
    BY <1>1
  <2>6. QED
    BY <2>1, <2>2, <2>3, <2>4, <2>5 DEF IsWalk
<1>3. ASSUME NEW e \in Term, NEW n \in Nat, NEW c, NEW w
      PROVE  AbstrLevelsBy(e, s, n, c, w) = WalkBy(e, n, c, w, g)
  <2> DEFINE F == HasFreeVars[e]
             key == <<e, s, n>>
             r == IF e.k = "unique" \/ (e.k = "local" /\ e.level < s) THEN [e |-> e, c |-> c]
                  ELSE IF e.k = "local" THEN [e |-> fvar_to_bvar(n, e.level), c |-> c]
                  ELSE RebuildBy(e, n, c, w)
  <2>1. AbstrLevelsBy(e, s, n, c, w) =
          IF ~ F THEN [e |-> e, c |-> c]
          ELSE IF key \in DOMAIN c THEN [e |-> c[key], c |-> c] ELSE Cached(key, r)
    BY DEF AbstrLevelsBy, AbstrLevelsStep, RebuildBy
  <2>2. e.k = "local" => e.level \in Nat
    BY Kinds DEF Term
  <2>3. r = IF e.k \in {"local", "unique"} THEN [e |-> BindLevelAt(s)[<<e, n>>], c |-> c]
            ELSE RebuildBy(e, n, c, w)
    BY <2>2 DEF BindLevelAt, Pairs
  <2>4. WalkBy(e, n, c, w, g) =
          IF ~ F THEN [e |-> e, c |-> c]
          ELSE IF key \in DOMAIN c THEN [e |-> c[key], c |-> c]
          ELSE Cached(key, IF e.k \in {"local", "unique"} THEN [e |-> BindLevelAt(s)[<<e, n>>], c |-> c]
                           ELSE RebuildBy(e, n, c, w))
    BY <1>1 DEF WalkBy
  <2> HIDE DEF F, r
  <2>5. QED
    BY <2>1, <2>3, <2>4
<1>4. \E w : IsCallOf(w, g)
  BY <1>2, WalkExists
<1>5. \E w \in [Term -> CallsOn(Triples)] :
        \A e \in Term : \A n \in Nat : \A c \in CacheOn(Triples) :
          Call(w, e, n, c) = AbstrLevelsBy(e, s, n, c, w)
  BY <1>1, <1>3, <1>4 DEF IsCallOf
<1>6. /\ AbstrAuxLevels(s) \in [Term -> CallsOn(Triples)]
      /\ \A e \in Term : \A n \in Nat : \A c \in CacheOn(Triples) :
           Call(AbstrAuxLevels(s), e, n, c) = AbstrLevelsBy(e, s, n, c, AbstrAuxLevels(s))
  BY <1>5 DEF AbstrAuxLevels
<1>7. IsCallOf(AbstrAuxLevels(s), g)
  BY <1>1, <1>3, <1>6 DEF IsCallOf
<1>8. QED
  BY <1>2, <1>7 DEF g

(***************************************************************************)
(* What they do to an expression                                           *)
(***************************************************************************)
\* The branches of the walks that panic, and the assertion that a variable met by
\* inst_aux is not bound below: what a node keeps about itself is enough for no
\* walk to come to a node it has nothing to do at.
THEOREM PanicsUnreachable ==
  ASSUME NEW e \in Term, NEW n \in Nat
  PROVE  /\ ~ (NumLooseBvars[e] <= n) => \/ e.k \in Inner
                                         \/ e.k = "var" /\ n <= e.dbj_idx
         /\ HasFreeVars[e] => e.k \in Inner \cup {"local", "unique"}
<1>1. e.k \in Inner \cup Outer /\ (e.k = "var" => e.dbj_idx \in Int)
  BY Kinds DEF Term
<1>2. ~ (NumLooseBvars[e] <= n) => e.k \in Inner \/ (e.k = "var" /\ n <= e.dbj_idx)
  BY <1>1, LooseParts
<1>3. HasFreeVars[e] => e.k \in Inner \cup {"local", "unique"}
  BY <1>1, FreeParts, FlagRight
<1>4. QED
  BY <1>2, <1>3

LEMMA NothingCached ==
  ASSUME NEW K, NEW g, NEW m
  PROVE  NoCache \in CacheOn(K) /\ CacheRight(NoCache, g, m)
<1>1. NoCache \in [{} -> Term] /\ DOMAIN NoCache = {}
  BY DEF NoCache
<1>2. NoCache \in CacheOn(K)
  BY <1>1 DEF CacheOn
<1>3. QED
  BY <1>1, <1>2 DEF CacheRight

LEMMA SubstitutedMap == \A s \in Seq(Term) : IsMap(Substituted(s), SubstAt(s))
<1> SUFFICES ASSUME NEW s \in Seq(Term) PROVE IsMap(Substituted(s), SubstAt(s))
  OBVIOUS
<1>1. SubstAt(s) \in [Term \X Nat -> Term]
  BY SubstAtType DEF Pairs
<1>2. QED
  BY <1>1, MapExists DEF Substituted, Everywhere

LEMMA BoundMap == \A s \in Seq(Term) : IsMap(Bound(s), BindAt(s))
<1> SUFFICES ASSUME NEW s \in Seq(Term) PROVE IsMap(Bound(s), BindAt(s))
  OBVIOUS
<1>1. BindAt(s) \in [Term \X Nat -> Term]
  BY BindAtType DEF Pairs
<1>2. QED
  BY <1>1, MapExists DEF Bound, Everywhere

LEMMA BoundLevelsMap == \A l \in Nat : IsMap(BoundLevels(l), BindLevelAt(l))
<1> SUFFICES ASSUME NEW l \in Nat PROVE IsMap(BoundLevels(l), BindLevelAt(l))
  OBVIOUS
<1>1. BindLevelAt(l) \in [Term \X Nat -> Term]
  BY BindLevelAtType DEF Pairs
<1>2. QED
  BY <1>1, MapExists DEF BoundLevels, Everywhere

\* The substitution that changes nothing.
SameAt == [y \in Pairs |-> y[1]]
LEMMA SameMap == IsMap(Everywhere(SameAt), SameAt) /\ \A e \in Term : \A n \in Nat : Img(Everywhere(SameAt), e, n) = e
<1> DEFINE m == Everywhere(SameAt)
<1>1. SameAt \in [Term \X Nat -> Term]
  BY DEF SameAt, Pairs
<1>2. IsMap(m, SameAt)
  BY <1>1, MapExists DEF Everywhere
<1>3. IsClosed(Pairs)
  BY BelowParts, TermParts DEF IsClosed, Pairs
<1>4. \A e \in Term : \A n \in Nat : SameAt[<<e, n>>] = e
  BY DEF SameAt, Pairs
<1> HIDE DEF m
<1>5. \A e \in Term : \A n \in Nat : <<e, n>> \in Pairs => Img(m, e, n) = e
  BY <1>2, <1>3, <1>4, MapIdentity
<1>6. QED
  BY <1>2, <1>5 DEF Pairs, m

\* What is closed below n binders is not changed there by a substitution,
LEMMA SubstSkip ==
  ASSUME NEW s \in Seq(Term), NEW e \in Term, NEW n \in Nat, NumLooseBvars[e] <= n
  PROVE  Img(Substituted(s), e, n) = e
<1> DEFINE S == Class(Int, 0, Term)
<1>1. IsClosed(S)
  BY ClassClosed
<1>2. ASSUME NEW x \in Term, NEW l \in Nat, <<x, l>> \in S, x.k \notin Inner
      PROVE  SubstAt(s)[<<x, l>>] = x
  <2>1. NumLooseBvars[x] <= l
    BY <1>2 DEF Class
  <2>2. x.k = "var" => x.dbj_idx \in Int /\ x.dbj_idx < l
    BY <2>1, LooseParts, Kinds DEF Term
  <2>3. QED
    BY <2>2 DEF SubstAt, Pairs
<1>3. <<e, n>> \in S
  BY FreeParts, LooseEquation DEF Class, Term
<1> HIDE DEF S
<1>4. QED
  BY <1>1, <1>2, <1>3, SubstitutedMap, MapIdentity

\* and what has no free variable by neither abstraction.
LEMMA BindSkip ==
  ASSUME NEW m, NEW at, IsMap(m, at), NEW e \in Term, NEW n \in Nat, ~ HasFreeVars[e],
         \A x \in Term : \A l \in Nat : x.k \notin Inner \cup {"local", "unique"} => at[<<x, l>>] = x
  PROVE  Img(m, e, n) = e
<1> DEFINE k == Larger(NumLooseBvars[e], 0)
           S == Class(Int, k, {})
<1>1. k \in Nat /\ NumLooseBvars[e] <= n + k
  BY LooseEquation DEF Larger
<1>2. IsClosed(S)
  <2> HIDE DEF k
  <2>1. QED
    BY <1>1, ClassClosed
<1>3. ASSUME NEW x \in Term, NEW l \in Nat, <<x, l>> \in S, x.k \notin Inner
      PROVE  at[<<x, l>>] = x
  <2>1. FreeVars[x] = {}
    BY <1>3 DEF Class
  <2>2. x.k \notin {"local", "unique"}
    BY <2>1, FreeParts
  <2>3. QED
    BY <1>3, <2>2
<1>4. <<e, n>> \in S
  BY <1>1, FlagRight DEF Class, Term
<1> HIDE DEF S
<1>5. QED
  BY <1>2, <1>3, <1>4, MapIdentity

\* Instantiation with a cache is the substitution: what inst_aux returns below n
\* binders is e with the variables n, n + 1, ... replaced, for every cache that
\* holds only such results, and the cache it leaves holds only such results, so
\* that neither a shared part, nor a part met below another number of binders,
\* nor a part skipped because it is closed comes out wrong.
THEOREM InstWalks ==
  ASSUME NEW s \in Seq(Term), NEW e \in Term, NEW n \in Nat, NEW c \in CacheOn(Pairs),
         CacheRight(c, InstWalk(s), Substituted(s))
  PROVE  Right(Call(InstAux(s), e, n, c), e, n, InstWalk(s), Substituted(s))
<1> DEFINE g == InstWalk(s)
           m == Substituted(s)
           w == InstAux(s)
<1>1. IsWalk(g) /\ IsCallOf(w, g)
  BY InstIsWalk
<1>2. g.at = SubstAt(s) /\ g.keys = Pairs
  BY DEF InstWalk
<1>3. IsMap(m, g.at)
  BY <1>2, SubstitutedMap
<1>4. \A x \in Term : \A l \in Nat : <<x, l>> \in g.skip => Img(m, x, l) = x
  <2> SUFFICES ASSUME NEW x \in Term, NEW l \in Nat, <<x, l>> \in g.skip PROVE Img(m, x, l) = x
    OBVIOUS
  <2>1. NumLooseBvars[x] <= l
    BY DEF InstWalk, Pairs
  <2>2. QED
    BY <2>1, SubstSkip
<1>5. CacheRight(c, g, m) /\ c \in CacheOn(g.keys)
  BY <1>2
<1> HIDE DEF g, m, w
<1>6. Right(Call(w, e, n, c), e, n, g, m)
  BY <1>1, <1>3, <1>4, <1>5, WalkRight
<1>7. QED
  BY <1>6 DEF g, m, w

\* The same for the abstraction of given variables: the last of them in the list
\* becomes the innermost bound variable, and no other is touched.
THEOREM AbstrWalks ==
  ASSUME NEW s \in Seq(Term), NEW e \in Term, NEW n \in Nat, NEW c \in CacheOn(Pairs),
         CacheRight(c, AbstrWalk(s), Bound(s))
  PROVE  Right(Call(AbstrAux(s), e, n, c), e, n, AbstrWalk(s), Bound(s))
<1> DEFINE g == AbstrWalk(s)
           m == Bound(s)
           w == AbstrAux(s)
<1>1. IsWalk(g) /\ IsCallOf(w, g)
  BY AbstrIsWalk
<1>2. g.at = BindAt(s) /\ g.keys = Pairs
  BY DEF AbstrWalk
<1>3. IsMap(m, g.at)
  BY <1>2, BoundMap
<1>4. \A x \in Term : \A l \in Nat : <<x, l>> \in g.skip => Img(m, x, l) = x
  <2> SUFFICES ASSUME NEW x \in Term, NEW l \in Nat, <<x, l>> \in g.skip PROVE Img(m, x, l) = x
    OBVIOUS
  <2>1. ~ HasFreeVars[x]
    BY DEF AbstrWalk, Pairs
  <2>2. \A y \in Term : \A j \in Nat : y.k \notin Inner \cup {"local", "unique"} => BindAt(s)[<<y, j>>] = y
    BY DEF BindAt, Pairs
  <2>3. IsMap(m, BindAt(s))
    BY <1>2, <1>3
  <2> HIDE DEF m
  <2>4. QED
    BY <2>1, <2>2, <2>3, BindSkip
<1>5. CacheRight(c, g, m) /\ c \in CacheOn(g.keys)
  BY <1>2
<1> HIDE DEF g, m, w
<1>6. Right(Call(w, e, n, c), e, n, g, m)
  BY <1>1, <1>3, <1>4, <1>5, WalkRight
<1>7. QED
  BY <1>6 DEF g, m, w

\* And for the abstraction of the variables numbered from start_pos.
THEOREM AbstrLevelsWalks ==
  ASSUME NEW start_pos \in Nat, NEW e \in Term, NEW n \in Nat, NEW c \in CacheOn(Triples),
         CacheRight(c, LevelsWalk(start_pos), BoundLevels(start_pos))
  PROVE  Right(Call(AbstrAuxLevels(start_pos), e, n, c), e, n, LevelsWalk(start_pos), BoundLevels(start_pos))
<1> DEFINE g == LevelsWalk(start_pos)
           m == BoundLevels(start_pos)
           w == AbstrAuxLevels(start_pos)
<1>1. IsWalk(g) /\ IsCallOf(w, g)
  BY LevelsIsWalk
<1>2. g.at = BindLevelAt(start_pos) /\ g.keys = Triples
  BY DEF LevelsWalk
<1>3. IsMap(m, g.at)
  BY <1>2, BoundLevelsMap
<1>4. \A x \in Term : \A l \in Nat : <<x, l>> \in g.skip => Img(m, x, l) = x
  <2> SUFFICES ASSUME NEW x \in Term, NEW l \in Nat, <<x, l>> \in g.skip PROVE Img(m, x, l) = x
    OBVIOUS
  <2>1. ~ HasFreeVars[x]
    BY DEF LevelsWalk, Pairs
  <2>2. \A y \in Term : \A j \in Nat :
          y.k \notin Inner \cup {"local", "unique"} => BindLevelAt(start_pos)[<<y, j>>] = y
    BY DEF BindLevelAt, Pairs
  <2>3. IsMap(m, BindLevelAt(start_pos))
    BY <1>2, <1>3
  <2> HIDE DEF m
  <2>4. QED
    BY <2>1, <2>2, <2>3, BindSkip
<1>5. CacheRight(c, g, m) /\ c \in CacheOn(g.keys)
  BY <1>2
<1> HIDE DEF g, m, w
<1>6. Right(Call(w, e, n, c), e, n, g, m)
  BY <1>1, <1>3, <1>4, <1>5, WalkRight
<1>7. QED
  BY <1>6 DEF g, m, w

\* A call with an empty cache, as inst, abstr and abstr_levels make it.
InstUnder(e, s, n) == Call(InstAux(s), e, n, NoCache).e
AbstrUnder(e, s, n) == Call(AbstrAux(s), e, n, NoCache).e
AbstrLevelsUnder(e, start_pos, n) == Call(AbstrAuxLevels(start_pos), e, n, NoCache).e

LEMMA FreshCalls ==
  ASSUME NEW e \in Term, NEW n \in Nat
  PROVE  /\ \A s \in Seq(Term) : InstUnder(e, s, n) = Img(Substituted(s), e, n)
         /\ \A s \in Seq(Term) : AbstrUnder(e, s, n) = Img(Bound(s), e, n)
         /\ \A l \in Nat : AbstrLevelsUnder(e, l, n) = Img(BoundLevels(l), e, n)
<1>1. ASSUME NEW s \in Seq(Term) PROVE InstUnder(e, s, n) = Img(Substituted(s), e, n)
  BY InstWalks, NothingCached DEF InstUnder, Right
<1>2. ASSUME NEW s \in Seq(Term) PROVE AbstrUnder(e, s, n) = Img(Bound(s), e, n)
  BY AbstrWalks, NothingCached DEF AbstrUnder, Right
<1>3. ASSUME NEW l \in Nat PROVE AbstrLevelsUnder(e, l, n) = Img(BoundLevels(l), e, n)
  BY AbstrLevelsWalks, NothingCached DEF AbstrLevelsUnder, Right
<1>4. QED
  BY <1>1, <1>2, <1>3

------------------------------------------------------------------------------
(***************************************************************************)
(* What the walks are to each other.  In the code e is closed (below no    *)
(* binder, n = 0) when its free variables are abstracted, and has no more  *)
(* loose bound variables than there are locals when it is instantiated     *)
(* with them.                                                              *)
(***************************************************************************)
\* What a substitution does with a node without parts.
LEMMA SubstOuter ==
  ASSUME NEW s \in Seq(Term), NEW e \in Term, e.k \notin Inner, NEW n \in Nat
  PROVE  /\ e.k # "var" => Img(Substituted(s), e, n) = e
         /\ e.k = "var" /\ ~ (n <= e.dbj_idx /\ e.dbj_idx < n + Len(s)) => Img(Substituted(s), e, n) = e
         /\ e.k = "var" /\ n <= e.dbj_idx /\ e.dbj_idx < n + Len(s)
              => Img(Substituted(s), e, n) = s[Len(s) - (e.dbj_idx - n)]
<1>1. Img(Substituted(s), e, n) = SubstAt(s)[<<e, n>>]
  BY SubstitutedMap, MapOuter
<1>2. QED
  BY <1>1 DEF SubstAt, Pairs

LEMMA BindOuter ==
  ASSUME NEW s \in Seq(Term), NEW e \in Term, e.k \notin Inner, NEW n \in Nat
  PROVE  /\ e.k \notin {"local", "unique"} => Img(Bound(s), e, n) = e
         /\ e.k \in {"local", "unique"} => Img(Bound(s), e, n) = BoundVar(e, s, n)
<1>1. Img(Bound(s), e, n) = BindAt(s)[<<e, n>>]
  BY BoundMap, MapOuter
<1>2. QED
  BY <1>1 DEF BindAt, Pairs

LEMMA BindLevelOuter ==
  ASSUME NEW start_pos \in Nat, NEW e \in Term, e.k \notin Inner, NEW n \in Nat
  PROVE  /\ ~ (e.k = "local" /\ start_pos <= e.level) => Img(BoundLevels(start_pos), e, n) = e
         /\ e.k = "local" /\ start_pos <= e.level
              => Img(BoundLevels(start_pos), e, n) = fvar_to_bvar(n, e.level)
<1>1. Img(BoundLevels(start_pos), e, n) = BindLevelAt(start_pos)[<<e, n>>]
  BY BoundLevelsMap, MapOuter
<1>2. QED
  BY <1>1 DEF BindLevelAt, Pairs

\* A new variable below n binders is replaced by the member it was made for.
LEMMA SubstPlace ==
  ASSUME NEW s \in Seq(Term), NEW p \in 1 .. Len(s), NEW n \in Nat
  PROVE  /\ Var((Len(s) - p) + n) \in Term
         /\ Img(Substituted(s), Var((Len(s) - p) + n), n) = s[p]
<1> DEFINE i == (Len(s) - p) + n
           x == Var(i)
<1>1. i \in Int /\ n <= i /\ i < n + Len(s) /\ Len(s) - (i - n) = p
  OBVIOUS
<1> HIDE DEF i
<1>2. x \in Term
  BY <1>1, Constructors DEF Term
<1>3. x.k = "var" /\ x.dbj_idx = i /\ x.k \notin Inner
  BY DEF Var, Inner
<1> HIDE DEF x
<1>4. Img(Substituted(s), x, n) = s[p]
  BY <1>1, <1>2, <1>3, SubstOuter
<1>5. QED
  BY <1>2, <1>4 DEF x, i

\* The composition of two substitutions below the same binders.
LEMMA MapComposeHere ==
  ASSUME NEW m1, NEW at1, IsMap(m1, at1), NEW m2, NEW at2, IsMap(m2, at2),
         NEW m3, NEW at3, IsMap(m3, at3), NEW S, IsClosed(S), Agree(at1, m2, at3, S, 0, 0)
  PROVE  \A e \in Term : \A n \in Nat : <<e, n>> \in S => Img(m2, Img(m1, e, n), n) = Img(m3, e, n)
<1> DEFINE z == 0
<1>1. z \in Nat /\ \A n \in Nat : n + z = n
  OBVIOUS
<1>2. Agree(at1, m2, at3, S, z, z)
  OBVIOUS
<1> HIDE DEF z
<1>3. \A e \in Term : \A n \in Nat :
        <<e, n>> \in S => Img(m2, Img(m1, e, n + z), n + z) = Img(m3, e, n)
  BY <1>1, <1>2, MapCompose
<1>4. QED
  BY <1>1, <1>3

\* To abstract variables of a closed expression and to instantiate with the same
\* list gives it back, whatever the list (a variable may be in it twice, or be
\* none of the expression's).
THEOREM InstOfAbstr ==
  ASSUME NEW s \in Seq(Term), NEW e \in Term, NEW n \in Nat, NumLooseBvars[e] <= n
  PROVE  InstUnder(AbstrUnder(e, s, n), s, n) = e
<1> DEFINE S == Class(Int, 0, Term)
<1>1. IsClosed(S)
  BY ClassClosed
<1>2. ASSUME NEW x \in Term, NEW l \in Nat, <<x, l>> \in S, x.k \notin Inner
      PROVE  Img(Substituted(s), BindAt(s)[<<x, l>>], l) = SameAt[<<x, l>>]
  <2>0. SameAt[<<x, l>>] = x /\ NumLooseBvars[x] <= l
    BY <1>2 DEF SameAt, Pairs, Class
  <2>1. CASE x.k \in {"local", "unique"}
    <3>1. BindAt(s)[<<x, l>>] = BoundVar(x, s, l)
      BY <2>1 DEF BindAt, Pairs
    <3>2. CASE BoundVar(x, s, l) = x
      BY <1>2, <2>0, <2>1, <3>1, <3>2, SubstOuter
    <3>3. CASE \E p \in 1 .. Len(s) : s[p] = x /\ BoundVar(x, s, l) = Var((Len(s) - p) + l)
      BY <2>0, <3>1, <3>3, SubstPlace
    <3>4. QED
      BY <3>2, <3>3, LastPlace
  <2>2. CASE x.k \notin {"local", "unique"}
    <3>1. BindAt(s)[<<x, l>>] = x
      BY <2>2 DEF BindAt, Pairs
    <3>2. Img(Substituted(s), x, l) = x
      BY <2>0, SubstSkip
    <3>3. QED
      BY <2>0, <3>1, <3>2
  <2>3. QED
    BY <2>1, <2>2
<1>3. <<e, n>> \in S
  BY FreeParts, LooseEquation DEF Class, Term
<1> HIDE DEF S
<1>a. IsMap(Bound(s), BindAt(s)) /\ IsMap(Substituted(s), SubstAt(s)) /\ IsMap(Everywhere(SameAt), SameAt)
  BY BoundMap, SubstitutedMap, SameMap
<1>b. Agree(BindAt(s), Substituted(s), SameAt, S, 0, 0)
  BY <1>2 DEF Agree
<1>4. Img(Substituted(s), Img(Bound(s), e, n), n) = Img(Everywhere(SameAt), e, n)
  BY <1>1, <1>3, <1>a, <1>b, MapComposeHere
<1>5. Img(Bound(s), e, n) \in Term
  BY BoundMap, ImgType
<1>6. Img(Everywhere(SameAt), e, n) = e
  BY SameMap
<1>7. QED
  BY <1>4, <1>5, <1>6, FreshCalls

LEMMA OnlyPlace ==
  ASSUME NEW s \in Seq(Term), NEW p \in 1 .. Len(s), NEW n \in Nat,
         \A i, j \in 1 .. Len(s) : s[i] = s[j] => i = j
  PROVE  BoundVar(s[p], s, n) = Var((Len(s) - p) + n)
BY LastPlace

\* To instantiate with variables and to abstract them again gives the expression
\* back, if they are distinct, none of them is in it and there are enough.
THEOREM AbstrOfInst ==
  ASSUME NEW s \in Seq(Term), NEW e \in Term, NEW n \in Nat, NumLooseBvars[e] <= n + Len(s),
         \A i \in 1 .. Len(s) : s[i].k \in {"local", "unique"} /\ s[i] \notin FreeVars[e],
         \A i, j \in 1 .. Len(s) : s[i] = s[j] => i = j
  PROVE  AbstrUnder(InstUnder(e, s, n), s, n) = e
<1> DEFINE X == {x \in Term : \A i \in 1 .. Len(s) : s[i] # x}
           S == Class(Int, Len(s), X)
<1>0. Len(s) \in Nat
  OBVIOUS
<1>1. IsClosed(S)
  BY <1>0, ClassClosed
<1>2. ASSUME NEW x \in Term, NEW l \in Nat, <<x, l>> \in S, x.k \notin Inner
      PROVE  Img(Bound(s), SubstAt(s)[<<x, l>>], l) = SameAt[<<x, l>>]
  <2>0. SameAt[<<x, l>>] = x /\ NumLooseBvars[x] <= l + Len(s) /\ FreeVars[x] \subseteq X
    BY <1>2 DEF SameAt, Pairs, Class
  <2>1. CASE x.k = "var" /\ l <= x.dbj_idx
    <3> DEFINE i == x.dbj_idx
               p == Len(s) - (i - l)
    <3>1. i \in Int /\ x = Var(i) /\ i < l + Len(s)
      <4>1. l + Len(s) \in Nat
        BY <1>0
      <4>2. QED
        BY <2>0, <2>1, <4>1, LooseParts, Kinds DEF Term
    <3>2. p \in 1 .. Len(s) /\ (Len(s) - p) + l = i
      BY <1>0, <2>1, <3>1
    <3>3. SubstAt(s)[<<x, l>>] = s[p]
      BY <2>1, <3>1 DEF SubstAt, Pairs
    <3> HIDE DEF p
    <3>4. s[p] \in Term /\ s[p].k \in {"local", "unique"} /\ s[p].k \notin Inner
      BY <3>2 DEF Inner
    <3>5. Img(Bound(s), s[p], l) = BoundVar(s[p], s, l)
      BY <3>4, BindOuter
    <3>6. BoundVar(s[p], s, l) = Var((Len(s) - p) + l)
      BY <3>2, OnlyPlace
    <3>7. QED
      BY <2>0, <3>1, <3>2, <3>3, <3>5, <3>6
  <2>2. CASE ~ (x.k = "var" /\ l <= x.dbj_idx)
    <3>1. SubstAt(s)[<<x, l>>] = x
      BY <2>2 DEF SubstAt, Pairs
    <3>2. x.k \in {"local", "unique"} => BoundVar(x, s, l) = x
      <4> SUFFICES ASSUME x.k \in {"local", "unique"} PROVE BoundVar(x, s, l) = x
        OBVIOUS
      <4>1. x \in X
        BY <2>0, FreeParts
      <4>2. QED
        BY <4>1, LastPlace
    <3>3. Img(Bound(s), x, l) = x
      BY <1>2, <3>2, BindOuter
    <3>4. QED
      BY <2>0, <3>1, <3>3
  <2>3. QED
    BY <2>1, <2>2
<1>3. <<e, n>> \in S
  BY <1>0, FreeParts, LooseEquation DEF Class, Term
<1> HIDE DEF S
<1>a. IsMap(Substituted(s), SubstAt(s)) /\ IsMap(Bound(s), BindAt(s)) /\ IsMap(Everywhere(SameAt), SameAt)
  BY BoundMap, SubstitutedMap, SameMap
<1>b. Agree(SubstAt(s), Bound(s), SameAt, S, 0, 0)
  BY <1>2 DEF Agree
<1>4. Img(Bound(s), Img(Substituted(s), e, n), n) = Img(Everywhere(SameAt), e, n)
  BY <1>1, <1>3, <1>a, <1>b, MapComposeHere
<1>5. Img(Substituted(s), e, n) \in Term
  BY SubstitutedMap, ImgType
<1>6. Img(Everywhere(SameAt), e, n) = e
  BY SameMap
<1>7. QED
  BY <1>4, <1>5, <1>6, FreshCalls

\* Abstraction of the numbered variables opened last: locals are the levels from
\* start_pos and the counter stands behind them.
Opened(s, start_pos) == \A i \in 1 .. Len(s) : s[i].k = "local" /\ s[i].level = start_pos + (i - 1)

\* To open binders with numbered variables and to close what results with
\* abstr_levels gives the expression back, if it has none of these levels: the
\* number computed from counter and level is the number of the binder opened.
THEOREM AbstrLevelsOfInst ==
  ASSUME NEW s \in Seq(Term), NEW start_pos \in Nat, Opened(s, start_pos),
         NEW e \in Term, NEW n \in Nat, NumLooseBvars[e] <= n + Len(s),
         \A x \in FreeVars[e] : x.k = "local" => x.level < start_pos
  PROVE  AbstrLevelsUnder(InstUnder(e, s, n), start_pos, n + (start_pos + Len(s))) = e
<1> DEFINE X == {x \in Term : x.k = "local" => x.level < start_pos}
           S == Class(Int, Len(s), X)
           t == start_pos + Len(s)
           z == 0
<1>0. Len(s) \in Nat /\ t \in Nat /\ z \in Nat /\ \A l \in Nat : l + z = l /\ l + t \in Nat
  OBVIOUS
<1>c. \A p \in 1 .. Len(s) : s[p] \in Term /\ s[p].k = "local" /\ s[p].level = start_pos + (p - 1)
  BY DEF Opened
<1>1. IsClosed(S)
  BY <1>0, ClassClosed
<1>2. ASSUME NEW x \in Term, NEW l \in Nat, <<x, l>> \in S, x.k \notin Inner
      PROVE  Img(BoundLevels(start_pos), SubstAt(s)[<<x, l>>], l + t) = SameAt[<<x, l>>]
  <2>0. SameAt[<<x, l>>] = x /\ NumLooseBvars[x] <= l + Len(s) /\ FreeVars[x] \subseteq X
    BY <1>2 DEF SameAt, Pairs, Class
  <2>1. CASE x.k = "var" /\ l <= x.dbj_idx
    <3>1. PICK i \in Int : x = Var(i) /\ i = x.dbj_idx /\ l <= i /\ i < l + Len(s)
      <4>1. l + Len(s) \in Nat
        BY <1>0
      <4>2. x.dbj_idx \in Int /\ x = Var(x.dbj_idx) /\ x.dbj_idx < l + Len(s)
        BY <2>0, <2>1, <4>1, LooseParts, Kinds DEF Term
      <4>3. QED
        BY <2>1, <4>2
    <3> DEFINE p == Len(s) - (i - l)
    <3>2. p \in 1 .. Len(s) /\ ((l + t) - (start_pos + (p - 1))) - 1 = i /\ start_pos <= start_pos + (p - 1)
      <4>1. p \in 1 .. Len(s)
        BY <1>0, <3>1
      <4>2. ((l + t) - (start_pos + (p - 1))) - 1 = i
        BY <1>0
      <4>3. QED
        BY <4>1, <4>2
    <3>3. SubstAt(s)[<<x, l>>] = s[p]
      BY <2>1, <3>1 DEF SubstAt, Pairs
    <3> HIDE DEF p
    <3>a. s[p] \in Term /\ s[p].k = "local" /\ s[p].level = start_pos + (p - 1)
      BY <1>c, <3>2
    <3>4. s[p] \in Term /\ s[p].k = "local" /\ s[p].level = start_pos + (p - 1) /\ s[p].k \notin Inner
      BY <3>a DEF Inner
    <3>5. Img(BoundLevels(start_pos), s[p], l + t) = fvar_to_bvar(l + t, s[p].level)
      BY <1>0, <3>2, <3>4, BindLevelOuter
    <3>6. fvar_to_bvar(l + t, s[p].level) = Var(i)
      BY <3>2, <3>4 DEF fvar_to_bvar
    <3>7. QED
      BY <2>0, <3>1, <3>3, <3>5, <3>6
  <2>2. CASE ~ (x.k = "var" /\ l <= x.dbj_idx)
    <3>1. SubstAt(s)[<<x, l>>] = x
      BY <2>2 DEF SubstAt, Pairs
    <3>2. ~ (x.k = "local" /\ start_pos <= x.level)
      <4> SUFFICES ASSUME x.k = "local" PROVE ~ start_pos <= x.level
        OBVIOUS
      <4>1. x \in X
        BY <2>0, FreeParts
      <4>2. x.level < start_pos /\ x.level \in Nat
        BY <4>1, Kinds DEF Term
      <4>3. QED
        BY <4>2
    <3>3. Img(BoundLevels(start_pos), x, l + t) = x
      BY <1>0, <1>2, <3>2, BindLevelOuter
    <3>4. QED
      BY <2>0, <3>1, <3>3
  <2>3. QED
    BY <2>1, <2>2
<1>3. <<e, n>> \in S
  BY <1>0, FreeParts, LooseEquation DEF Class, Term
<1> HIDE DEF S, t, z
<1>4. Agree(SubstAt(s), BoundLevels(start_pos), SameAt, S, z, t)
  BY <1>0, <1>2 DEF Agree
<1>a. /\ IsMap(BoundLevels(start_pos), BindLevelAt(start_pos)) /\ IsMap(Substituted(s), SubstAt(s))
      /\ IsMap(Everywhere(SameAt), SameAt)
  BY BoundLevelsMap, SubstitutedMap, SameMap
<1>b. t \in Nat /\ z \in Nat
  BY <1>0
<1>d. \A x \in Term : \A l \in Nat :
        <<x, l>> \in S => Img(BoundLevels(start_pos), Img(Substituted(s), x, l + z), l + t) = Img(Everywhere(SameAt), x, l)
  <2> DEFINE m1 == Substituted(s)
             at1 == SubstAt(s)
             m2 == BoundLevels(start_pos)
             at2 == BindLevelAt(start_pos)
             m3 == Everywhere(SameAt)
  <2>1. IsMap(m1, at1) /\ IsMap(m2, at2) /\ IsMap(m3, SameAt) /\ Agree(at1, m2, SameAt, S, z, t)
    BY <1>4, <1>a
  <2> HIDE DEF m1, at1, m2, at2, m3
  <2>2. \A x \in Term : \A l \in Nat : <<x, l>> \in S => Img(m2, Img(m1, x, l + z), l + t) = Img(m3, x, l)
    BY <1>1, <1>b, <2>1, MapCompose
  <2>3. QED
    BY <2>2 DEF m1, m2, m3
<1>5. Img(BoundLevels(start_pos), Img(Substituted(s), e, n + z), n + t) = Img(Everywhere(SameAt), e, n)
  BY <1>3, <1>d
<1>6. Img(Substituted(s), e, n) \in Term
  BY SubstitutedMap, ImgType
<1>7. Img(Everywhere(SameAt), e, n) = e
  BY SameMap
<1>8. n + z = n /\ n + t \in Nat
  BY <1>0
<1>9. InstUnder(e, s, n) = Img(Substituted(s), e, n)
  BY FreshCalls
<1>10. AbstrLevelsUnder(InstUnder(e, s, n), start_pos, n + t) = e
  BY <1>5, <1>6, <1>7, <1>8, <1>9, FreshCalls
<1>11. QED
  BY <1>10 DEF t

\* The other way round, for an expression all of whose variables with a level
\* from start_pos are among those opened.
THEOREM InstOfAbstrLevels ==
  ASSUME NEW s \in Seq(Term), NEW start_pos \in Nat, Opened(s, start_pos),
         NEW e \in Term, NEW n \in Nat, NumLooseBvars[e] <= n,
         \A x \in FreeVars[e] : x.k = "local" /\ start_pos <= x.level => \E i \in 1 .. Len(s) : x = s[i]
  PROVE  InstUnder(AbstrLevelsUnder(e, start_pos, n + (start_pos + Len(s))), s, n) = e
<1> DEFINE X == {x \in Term : x.k = "local" /\ start_pos <= x.level => \E i \in 1 .. Len(s) : x = s[i]}
           S == Class(Int, 0, X)
           t == start_pos + Len(s)
           z == 0
<1>0. Len(s) \in Nat /\ t \in Nat /\ z \in Nat /\ \A l \in Nat : l + z = l /\ l + t \in Nat
  OBVIOUS
<1>1. IsClosed(S)
  BY <1>0, ClassClosed
<1>2. ASSUME NEW x \in Term, NEW l \in Nat, <<x, l>> \in S, x.k \notin Inner
      PROVE  Img(Substituted(s), BindLevelAt(start_pos)[<<x, l + t>>], l) = SameAt[<<x, l>>]
  <2>0. SameAt[<<x, l>>] = x /\ NumLooseBvars[x] <= l /\ FreeVars[x] \subseteq X
    BY <1>2 DEF SameAt, Pairs, Class
  <2>1. CASE x.k = "local" /\ start_pos <= x.level
    <3>1. x \in X
      BY <2>0, <2>1, FreeParts
    <3>2. PICK p \in 1 .. Len(s) : x = s[p]
      BY <2>1, <3>1
    <3>3. x.level = start_pos + (p - 1)
      BY <3>2 DEF Opened
    <3>4. ((l + t) - x.level) - 1 = (Len(s) - p) + l
      BY <1>0, <3>2, <3>3
    <3>5. BindLevelAt(start_pos)[<<x, l + t>>] = Var((Len(s) - p) + l)
      BY <1>0, <2>1, <3>4 DEF BindLevelAt, Pairs, fvar_to_bvar
    <3>6. QED
      BY <2>0, <3>2, <3>5, SubstPlace
  <2>2. CASE ~ (x.k = "local" /\ start_pos <= x.level)
    <3>1. BindLevelAt(start_pos)[<<x, l + t>>] = x
      BY <1>0, <2>2 DEF BindLevelAt, Pairs
    <3>2. Img(Substituted(s), x, l) = x
      BY <2>0, SubstSkip
    <3>3. QED
      BY <2>0, <3>1, <3>2
  <2>3. QED
    BY <2>1, <2>2
<1>3. <<e, n>> \in S
  BY <1>0, FreeParts, LooseEquation DEF Class, Term
<1> HIDE DEF S, t, z
<1>4. Agree(BindLevelAt(start_pos), Substituted(s), SameAt, S, t, z)
  BY <1>0, <1>2 DEF Agree
<1>a. /\ IsMap(BoundLevels(start_pos), BindLevelAt(start_pos)) /\ IsMap(Substituted(s), SubstAt(s))
      /\ IsMap(Everywhere(SameAt), SameAt)
  BY BoundLevelsMap, SubstitutedMap, SameMap
<1>b. t \in Nat /\ z \in Nat
  BY <1>0
<1>d. \A x \in Term : \A l \in Nat :
        <<x, l>> \in S => Img(Substituted(s), Img(BoundLevels(start_pos), x, l + t), l + z) = Img(Everywhere(SameAt), x, l)
  BY <1>1, <1>4, <1>a, <1>b, MapCompose
<1>5. Img(Substituted(s), Img(BoundLevels(start_pos), e, n + t), n + z) = Img(Everywhere(SameAt), e, n)
  BY <1>3, <1>d
<1>6. Img(BoundLevels(start_pos), e, n + t) \in Term
  BY <1>0, BoundLevelsMap, ImgType
<1>7. Img(Everywhere(SameAt), e, n) = e
  BY SameMap
<1>8. n + z = n /\ n + t \in Nat
  BY <1>0
<1>9. AbstrLevelsUnder(e, start_pos, n + t) = Img(BoundLevels(start_pos), e, n + t)
  BY <1>8, FreshCalls
<1>10. InstUnder(AbstrLevelsUnder(e, start_pos, n + t), s, n) = e
  BY <1>5, <1>6, <1>7, <1>8, <1>9, FreshCalls
<1>11. QED
  BY <1>10 DEF t

\* To instantiate the binders of a telescope one argument list after the other,
\* each below the binders still there, is to instantiate once with all of them,
\* if the arguments are closed: beta reduction takes as many at once as it finds.
THEOREM InstOfInst ==
  ASSUME NEW s \in Seq(Term), NEW t \in Seq(Term), NEW e \in Term, NEW n \in Nat,
         \A i \in 1 .. Len(s) : NumLooseBvars[s[i]] <= 0
  PROVE  InstUnder(InstUnder(e, s, n + Len(t)), t, n) = InstUnder(e, s \o t, n)
<1> DEFINE r == s \o t
           j == Len(t)
           z == 0
<1>0. /\ Len(s) \in Nat /\ j \in Nat /\ z \in Nat /\ r \in Seq(Term) /\ Len(r) = Len(s) + j
      /\ \A l \in Nat : l + z = l /\ l + j \in Nat
  OBVIOUS
<1>1. IsClosed(Pairs)
  BY BelowParts, TermParts DEF IsClosed, Pairs
<1>2. ASSUME NEW x \in Term, NEW l \in Nat, x.k \notin Inner
      PROVE  Img(Substituted(t), SubstAt(s)[<<x, l + j>>], l) = SubstAt(r)[<<x, l>>]
  <2>1. CASE x.k = "var" /\ l + j <= x.dbj_idx /\ x.dbj_idx < (l + j) + Len(s)
    <3> DEFINE i == x.dbj_idx
               p == Len(s) - (i - (l + j))
    <3>1. i \in Int
      BY <2>1, Kinds DEF Term
    <3>2. p \in 1 .. Len(s) /\ Len(r) - (i - l) = p /\ l <= i /\ i < l + Len(r)
      BY <1>0, <2>1, <3>1
    <3>3. SubstAt(s)[<<x, l + j>>] = s[p]
      BY <1>0, <2>1 DEF SubstAt, Pairs
    <3>4. SubstAt(r)[<<x, l>>] = r[p]
      BY <2>1, <3>2 DEF SubstAt, Pairs
    <3> HIDE DEF p
    <3>5. r[p] = s[p] /\ s[p] \in Term
      BY <3>2
    <3>6. NumLooseBvars[s[p]] <= l
      <4>1. NumLooseBvars[s[p]] \in Int /\ NumLooseBvars[s[p]] <= 0
        BY <3>2, <3>5, LooseEquation
      <4>2. QED
        BY <4>1
    <3>7. QED
      BY <3>3, <3>4, <3>5, <3>6, SubstSkip
  <2>2. CASE x.k = "var" /\ l <= x.dbj_idx /\ x.dbj_idx < l + j
    <3> DEFINE i == x.dbj_idx
               p == j - (i - l)
    <3>1. i \in Int
      BY <2>2, Kinds DEF Term
    <3>2. p \in 1 .. j /\ Len(r) - (i - l) = Len(s) + p /\ i < l + Len(r) /\ ~ (l + j <= i)
      BY <1>0, <2>2, <3>1
    <3>3. SubstAt(s)[<<x, l + j>>] = x
      BY <1>0, <3>2 DEF SubstAt, Pairs
    <3>4. SubstAt(r)[<<x, l>>] = r[Len(s) + p]
      BY <2>2, <3>2 DEF SubstAt, Pairs
    <3>5. Img(Substituted(t), x, l) = t[p]
      BY <1>2, <2>2, SubstOuter
    <3> HIDE DEF p
    <3>6. r[Len(s) + p] = t[p]
      BY <3>2
    <3>7. QED
      BY <3>3, <3>4, <3>5, <3>6
  <2>3. CASE ~ (x.k = "var" /\ l <= x.dbj_idx /\ x.dbj_idx < l + Len(r))
    <3>1. x.k = "var" => x.dbj_idx \in Int
      BY Kinds DEF Term
    <3>2. /\ ~ (x.k = "var" /\ l + j <= x.dbj_idx /\ x.dbj_idx < (l + j) + Len(s))
          /\ ~ (x.k = "var" /\ l <= x.dbj_idx /\ x.dbj_idx < l + j)
      BY <1>0, <2>3, <3>1
    <3>3. SubstAt(s)[<<x, l + j>>] = x /\ SubstAt(r)[<<x, l>>] = x
      BY <1>0, <2>3, <3>2 DEF SubstAt, Pairs
    <3>4. Img(Substituted(t), x, l) = x
      BY <1>2, <3>2, SubstOuter
    <3>5. QED
      BY <3>3, <3>4
  <2>4. QED
    <3>1. x.k = "var" => x.dbj_idx \in Int
      BY Kinds DEF Term
    <3>2. (l + j) + Len(s) = l + Len(r)
      BY <1>0
    <3>3. x.k = "var" => l + j <= x.dbj_idx \/ x.dbj_idx < l + j
      BY <1>0, <3>1
    <3>4. QED
      BY <2>1, <2>2, <2>3, <3>2, <3>3
<1> HIDE DEF r, j, z
<1>3. Agree(SubstAt(s), Substituted(t), SubstAt(r), Pairs, j, z)
  BY <1>0, <1>2 DEF Agree
<1>4. <<e, n>> \in Pairs
  BY DEF Pairs
<1>5. IsMap(Substituted(s), SubstAt(s)) /\ IsMap(Substituted(t), SubstAt(t)) /\ IsMap(Substituted(r), SubstAt(r))
  BY <1>0, SubstitutedMap
<1>a. j \in Nat /\ z \in Nat
  BY <1>0
<1>b. \A x \in Term : \A l \in Nat :
        <<x, l>> \in Pairs => Img(Substituted(t), Img(Substituted(s), x, l + j), l + z) = Img(Substituted(r), x, l)
  BY <1>1, <1>3, <1>5, <1>a, MapCompose
<1>6. Img(Substituted(t), Img(Substituted(s), e, n + j), n + z) = Img(Substituted(r), e, n)
  BY <1>4, <1>b
<1>7. Img(Substituted(s), e, n + j) \in Term
  BY <1>0, <1>5, ImgType
<1>8. n + z = n /\ n + j \in Nat
  BY <1>0
<1>9. /\ InstUnder(e, s, n + j) = Img(Substituted(s), e, n + j)
      /\ InstUnder(e, r, n) = Img(Substituted(r), e, n)
  BY <1>0, <1>8, FreshCalls
<1>10. InstUnder(InstUnder(e, s, n + j), t, n) = Img(Substituted(t), InstUnder(e, s, n + j), n)
  BY <1>7, <1>9, FreshCalls
<1>11. InstUnder(InstUnder(e, s, n + j), t, n) = InstUnder(e, r, n)
  BY <1>6, <1>8, <1>9, <1>10
<1>12. QED
  BY <1>11 DEF r, j

\* replace_params puts ingoing[i] for outgoing[i], all at once: what comes in is
\* not looked at again, even if it has variables of outgoing.
ParamsAt(ingoing, outgoing) ==
  [y \in Pairs |->
     IF \E i \in 1 .. Len(outgoing) : outgoing[i] = y[1]
     THEN ingoing[CHOOSE i \in 1 .. Len(outgoing) : outgoing[i] = y[1]] ELSE y[1]]

THEOREM ReplaceParams ==
  ASSUME NEW ingoing \in Seq(Term), NEW outgoing \in Seq(Term), Len(ingoing) = Len(outgoing),
         \A i \in 1 .. Len(outgoing) : outgoing[i].k \in {"local", "unique"},
         \A i, j \in 1 .. Len(outgoing) : outgoing[i] = outgoing[j] => i = j,
         NEW e \in Term, NumLooseBvars[e] <= 0
  PROVE  InstUnder(AbstrUnder(e, outgoing, 0), ingoing, 0) = Img(Everywhere(ParamsAt(ingoing, outgoing)), e, 0)
<1> DEFINE S == Class(Int, 0, Term)
           R == ParamsAt(ingoing, outgoing)
<1>1. IsClosed(S)
  BY ClassClosed
<1>2. \A p \in 1 .. Len(outgoing) : \A l \in Nat :
        /\ ingoing[p] \in Term
        /\ Img(Substituted(ingoing), Var((Len(outgoing) - p) + l), l) = ingoing[p]
  <2> SUFFICES ASSUME NEW p \in 1 .. Len(outgoing), NEW l \in Nat
               PROVE  /\ ingoing[p] \in Term
                      /\ Img(Substituted(ingoing), Var((Len(outgoing) - p) + l), l) = ingoing[p]
    OBVIOUS
  <2>1. p \in 1 .. Len(ingoing)
    OBVIOUS
  <2>2. Img(Substituted(ingoing), Var((Len(ingoing) - p) + l), l) = ingoing[p]
    BY <2>1, SubstPlace
  <2>3. ingoing[p] \in Term
    BY <2>1
  <2>4. QED
    BY <2>2, <2>3
<1>3. \A p \in 1 .. Len(outgoing) : \A l \in Nat : R[<<outgoing[p], l>>] = ingoing[p]
  <2> SUFFICES ASSUME NEW p \in 1 .. Len(outgoing), NEW l \in Nat PROVE R[<<outgoing[p], l>>] = ingoing[p]
    OBVIOUS
  <2> DEFINE o == outgoing[p]
             q == CHOOSE i \in 1 .. Len(outgoing) : outgoing[i] = o
  <2>1. o \in Term
    OBVIOUS
  <2>2. q \in 1 .. Len(outgoing) /\ outgoing[q] = o
    OBVIOUS
  <2>3. q = p
    BY <2>2
  <2>4. \E i \in 1 .. Len(outgoing) : outgoing[i] = o
    OBVIOUS
  <2>5. R[<<o, l>>] = ingoing[q]
    BY <2>1, <2>4 DEF ParamsAt, Pairs
  <2>6. QED
    BY <2>3, <2>5
<1>4. R \in [Term \X Nat -> Term]
  <2>1. \A x : (\E i \in 1 .. Len(outgoing) : outgoing[i] = x)
               => (CHOOSE i \in 1 .. Len(outgoing) : outgoing[i] = x) \in 1 .. Len(outgoing)
    OBVIOUS
  <2>2. \A i \in 1 .. Len(outgoing) : ingoing[i] \in Term
    OBVIOUS
  <2>3. QED
    BY <2>1, <2>2 DEF ParamsAt, Pairs
<1>5. ASSUME NEW x \in Term, NEW l \in Nat, <<x, l>> \in S, x.k \notin Inner
      PROVE  Img(Substituted(ingoing), BindAt(outgoing)[<<x, l>>], l) = R[<<x, l>>]
  <2>0. NumLooseBvars[x] <= l
    BY <1>5 DEF Class
  <2>1. CASE \E p \in 1 .. Len(outgoing) : outgoing[p] = x
    <3>1. PICK p \in 1 .. Len(outgoing) : outgoing[p] = x
      BY <2>1
    <3>2. BindAt(outgoing)[<<x, l>>] = BoundVar(x, outgoing, l)
      BY <3>1 DEF BindAt, Pairs
    <3>3. BoundVar(x, outgoing, l) = Var((Len(outgoing) - p) + l)
      BY <3>1, OnlyPlace
    <3>4. QED
      BY <1>2, <1>3, <3>1, <3>2, <3>3
  <2>2. CASE ~ \E p \in 1 .. Len(outgoing) : outgoing[p] = x
    <3>1. BoundVar(x, outgoing, l) = x
      BY <2>2, LastPlace
    <3>2. BindAt(outgoing)[<<x, l>>] = x
      BY <3>1 DEF BindAt, Pairs
    <3>3. R[<<x, l>>] = x
      BY <2>2 DEF ParamsAt, Pairs
    <3>4. Img(Substituted(ingoing), x, l) = x
      BY <2>0, SubstSkip
    <3>5. QED
      BY <3>2, <3>3, <3>4
  <2>3. QED
    BY <2>1, <2>2
<1>6. <<e, 0>> \in S
  BY FreeParts, LooseEquation DEF Class, Term
<1>7. /\ IsMap(Bound(outgoing), BindAt(outgoing)) /\ IsMap(Substituted(ingoing), SubstAt(ingoing))
      /\ IsMap(Everywhere(R), R)
  <2> HIDE DEF R
  <2>1. QED
    BY <1>4, BoundMap, SubstitutedMap, MapExists
<1> DEFINE z == 0
<1>8. z \in Nat /\ <<e, z>> \in S
  BY <1>6
<1> HIDE DEF S, R, z
<1>a. Agree(BindAt(outgoing), Substituted(ingoing), R, S, 0, 0)
  <2>1. ASSUME NEW x \in Term, NEW l \in Nat, <<x, l>> \in S, x.k \notin Inner
        PROVE  Img(Substituted(ingoing), BindAt(outgoing)[<<x, l + 0>>], l + 0) = R[<<x, l>>]
    <3>1. Img(Substituted(ingoing), BindAt(outgoing)[<<x, l>>], l) = R[<<x, l>>]
      BY <1>5, <2>1
    <3>2. l + 0 = l
      OBVIOUS
    <3>3. QED
      BY <3>1, <3>2
  <2>2. QED
    BY <2>1 DEF Agree
<1>9. Img(Substituted(ingoing), Img(Bound(outgoing), e, z), z) = Img(Everywhere(R), e, z)
  BY <1>1, <1>7, <1>8, <1>a, MapComposeHere
<1>10. Img(Bound(outgoing), e, z) \in Term
  BY <1>7, <1>8, ImgType
<1>11. InstUnder(AbstrUnder(e, outgoing, z), ingoing, z) = Img(Everywhere(R), e, z)
  BY <1>8, <1>9, <1>10, FreshCalls
<1>12. QED
  BY <1>11 DEF R, z

------------------------------------------------------------------------------
(***************************************************************************)
(* What the walks leave: bound-variable indices that are natural numbers   *)
(* (unsigned in the code, so that a negative one would have wrapped), no   *)
(* loose bound variable too many and no free variable from elsewhere.      *)
(***************************************************************************)
THEOREM InstBounds ==
  ASSUME NEW s \in Seq(Term), NEW e \in TermOver(Nat), NEW n \in Nat, NumLooseBvars[e] <= n + Len(s),
         \A i \in 1 .. Len(s) : s[i] \in TermOver(Nat) /\ NumLooseBvars[s[i]] <= 0
  PROVE  LET r == InstUnder(e, s, n)
         IN  /\ r \in TermOver(Nat)
             /\ NumLooseBvars[r] <= n
             /\ FreeVars[r] \subseteq FreeVars[e] \cup UNION {FreeVars[s[i]] : i \in 1 .. Len(s)}
<1> DEFINE Y == FreeVars[e]
           X == Y \cup UNION {FreeVars[s[i]] : i \in 1 .. Len(s)}
           S == Class(Nat, Len(s), Y)
<1>0. Len(s) \in Nat /\ TermOver(Nat) \subseteq Term /\ S \subseteq TermOver(Nat) \X Nat
  BY NaturalTerm DEF Class
<1>1. IsClosed(S)
  BY <1>0, ClassClosed
<1>2. ASSUME NEW x \in Term, NEW l \in Nat, <<x, l>> \in S, x.k \notin Inner
      PROVE  <<SubstAt(s)[<<x, l>>], l>> \in Class(Nat, 0, X)
  <2>0. x \in TermOver(Nat) /\ NumLooseBvars[x] <= l + Len(s) /\ FreeVars[x] \subseteq Y
    BY <1>2 DEF Class
  <2>1. CASE x.k = "var" /\ l <= x.dbj_idx
    <3> DEFINE i == x.dbj_idx
               p == Len(s) - (i - l)
    <3>1. i \in Int /\ i < l + Len(s)
      <4>1. l + Len(s) \in Nat
        BY <1>0
      <4>2. QED
        BY <2>0, <2>1, <4>1, LooseParts, Kinds DEF Term
    <3>2. p \in 1 .. Len(s)
      BY <1>0, <2>1, <3>1
    <3>3. SubstAt(s)[<<x, l>>] = s[p]
      BY <2>1, <3>1 DEF SubstAt, Pairs
    <3> HIDE DEF p
    <3>4. s[p] \in TermOver(Nat) /\ NumLooseBvars[s[p]] \in Int /\ NumLooseBvars[s[p]] <= 0
      BY <1>0, <3>2, LooseEquation
    <3>5. NumLooseBvars[s[p]] <= l + 0
      BY <3>4
    <3>6. FreeVars[s[p]] \subseteq X
      BY <3>2
    <3>7. QED
      BY <3>3, <3>4, <3>5, <3>6 DEF Class
  <2>2. CASE ~ (x.k = "var" /\ l <= x.dbj_idx)
    <3>1. SubstAt(s)[<<x, l>>] = x
      BY <2>2 DEF SubstAt, Pairs
    <3>2. NumLooseBvars[x] <= l
      <4>1. x.k = "var" => x.dbj_idx \in Int /\ x.dbj_idx < l
        BY <2>2, Kinds DEF Term
      <4>2. x.k \in Outer
        BY <1>2, Kinds DEF Term
      <4>3. QED
        BY <4>1, <4>2, LooseParts
    <3>3. NumLooseBvars[x] <= l + 0
      BY <3>2
    <3>4. FreeVars[x] \subseteq X
      BY <2>0
    <3>5. QED
      BY <2>0, <3>1, <3>3, <3>4 DEF Class
  <2>3. QED
    BY <2>1, <2>2
<1>3. <<e, n>> \in S
  BY DEF Class
<1> DEFINE z == 0
           N == Nat
<1>4. z \in Nat /\ N \in {Nat, Int} /\ S \subseteq TermOver(N) \X Nat /\ \A l \in Nat : l + z = l
  BY <1>0
<1>5. \A x \in Term : \A l \in Nat : <<x, l>> \in S /\ x.k \notin Inner =>
        <<SubstAt(s)[<<x, l + z>>], l>> \in Class(N, z, X)
  BY <1>2, <1>4
<1> HIDE DEF S, X, z, N
<1>6. \A x \in Term : \A l \in Nat : <<x, l>> \in S => <<Img(Substituted(s), x, l + z), l>> \in Class(N, z, X)
  BY <1>1, <1>4, <1>5, SubstitutedMap, MapBounds
<1>7. <<Img(Substituted(s), e, n), n>> \in Class(N, z, X)
  BY <1>0, <1>3, <1>4, <1>6
<1>8. <<InstUnder(e, s, n), n>> \in Class(Nat, 0, X)
  BY <1>0, <1>7, FreshCalls DEF z, N
<1>9. QED
  BY <1>8 DEF Class, X

\* A new variable for number i - n above n binders.
LEMMA NewVar ==
  ASSUME NEW i \in Nat, NEW l \in Nat, NEW k \in Nat, i < l + k, NEW X
  PROVE  <<Var(i), l>> \in Class(Nat, k, X)
<1> DEFINE x == Var(i)
<1>1. x \in TermOver(Nat) /\ x \in Term
  BY Constructors, NaturalTerm
<1>2. x.k = "var" /\ x.dbj_idx = i /\ x.k \in Outer \ {"local", "unique"}
  BY DEF Var, Outer
<1> HIDE DEF x
<1>3. l + k \in Nat
  OBVIOUS
<1>4. NumLooseBvars[x] <= l + k
  BY <1>1, <1>2, <1>3, LooseParts
<1>5. FreeVars[x] = {}
  BY <1>1, <1>2, FreeParts
<1>6. QED
  BY <1>1, <1>4, <1>5 DEF Class, x

\* After abstraction the given variables are gone, and there is at most one loose
\* bound variable for each.
THEOREM AbstrBounds ==
  ASSUME NEW s \in Seq(Term), NEW e \in TermOver(Nat), NEW n \in Nat, NumLooseBvars[e] <= n
  PROVE  LET r == AbstrUnder(e, s, n)
         IN  /\ r \in TermOver(Nat)
             /\ NumLooseBvars[r] <= n + Len(s)
             /\ FreeVars[r] \subseteq FreeVars[e] \ {s[i] : i \in 1 .. Len(s)}
<1> DEFINE Y == FreeVars[e]
           X == Y \ {s[i] : i \in 1 .. Len(s)}
           S == Class(Nat, 0, Y)
           k == Len(s)
<1>0. k \in Nat /\ TermOver(Nat) \subseteq Term /\ S \subseteq TermOver(Nat) \X Nat
  BY NaturalTerm DEF Class
<1>1. IsClosed(S)
  BY ClassClosed
<1>2. ASSUME NEW x \in Term, NEW l \in Nat, <<x, l>> \in S, x.k \notin Inner
      PROVE  <<BindAt(s)[<<x, l>>], l>> \in Class(Nat, k, X)
  <2>0. x \in TermOver(Nat) /\ NumLooseBvars[x] \in Int /\ NumLooseBvars[x] <= l + 0 /\ FreeVars[x] \subseteq Y
    BY <1>2, LooseEquation DEF Class
  <2>a. NumLooseBvars[x] <= l + k
    BY <1>0, <2>0
  <2>1. CASE x.k \in {"local", "unique"}
    <3>1. BindAt(s)[<<x, l>>] = BoundVar(x, s, l)
      BY <2>1 DEF BindAt, Pairs
    <3>2. CASE BoundVar(x, s, l) = x /\ \A i \in 1 .. Len(s) : s[i] # x
      <4>1. FreeVars[x] \subseteq X
        BY <2>0, <2>1, <3>2, FreeParts
      <4>2. QED
        BY <2>0, <2>a, <3>1, <3>2, <4>1 DEF Class
    <3>3. CASE \E p \in 1 .. Len(s) : s[p] = x /\ BoundVar(x, s, l) = Var((Len(s) - p) + l)
      <4>1. PICK p \in 1 .. Len(s) : BoundVar(x, s, l) = Var((Len(s) - p) + l)
        BY <3>3
      <4>2. (Len(s) - p) + l \in Nat /\ (Len(s) - p) + l < l + k
        OBVIOUS
      <4> HIDE DEF X
      <4>3. QED
        BY <1>0, <3>1, <4>1, <4>2, NewVar
    <3>4. QED
      BY <3>2, <3>3, LastPlace
  <2>2. CASE x.k \notin {"local", "unique"}
    <3>1. BindAt(s)[<<x, l>>] = x
      BY <2>2 DEF BindAt, Pairs
    <3>2. FreeVars[x] = {}
      BY <1>2, <2>2, FreeParts, Kinds DEF Term
    <3>3. QED
      BY <2>0, <2>a, <3>1, <3>2 DEF Class
  <2>3. QED
    BY <2>1, <2>2
<1>3. <<e, n>> \in S
  BY <1>0, LooseEquation DEF Class
<1> DEFINE z == 0
           N == Nat
<1>4. z \in Nat /\ N \in {Nat, Int} /\ S \subseteq TermOver(N) \X Nat /\ \A l \in Nat : l + z = l
  BY <1>0
<1>5. \A x \in Term : \A l \in Nat : <<x, l>> \in S /\ x.k \notin Inner =>
        <<BindAt(s)[<<x, l + z>>], l>> \in Class(N, k, X)
  BY <1>2, <1>4
<1> HIDE DEF S, X, z, N, k
<1>6. \A x \in Term : \A l \in Nat : <<x, l>> \in S => <<Img(Bound(s), x, l + z), l>> \in Class(N, k, X)
  BY <1>0, <1>1, <1>4, <1>5, BoundMap, MapBounds
<1>7. <<Img(Bound(s), e, n), n>> \in Class(N, k, X)
  BY <1>0, <1>3, <1>4, <1>6
<1>8. <<AbstrUnder(e, s, n), n>> \in Class(Nat, k, X)
  BY <1>0, <1>7, FreshCalls DEF N
<1>9. QED
  BY <1>8 DEF Class, X, k

\* The subtraction of a level and of one from the number of open binders stays
\* natural: if the counter is above every level of the expression, abstr_levels
\* makes the indices of at most counter - start_pos binders, and leaves no
\* variable with a level from start_pos.
THEOREM AbstrLevelsBounds ==
  ASSUME NEW start_pos \in Nat, NEW counter \in Nat, start_pos <= counter,
         NEW e \in TermOver(Nat), NEW n \in Nat, NumLooseBvars[e] <= n,
         \A x \in FreeVars[e] : x.k = "local" => x.level < counter
  PROVE  LET r == AbstrLevelsUnder(e, start_pos, n + counter)
         IN  /\ r \in TermOver(Nat)
             /\ NumLooseBvars[r] <= n + (counter - start_pos)
             /\ FreeVars[r] \subseteq {x \in FreeVars[e] : x.k = "local" => x.level < start_pos}
<1> DEFINE Y == FreeVars[e]
           X == {x \in Y : x.k = "local" => x.level < start_pos}
           S == Class(Nat, 0, Y)
           k == counter - start_pos
<1>0. k \in Nat /\ TermOver(Nat) \subseteq Term /\ S \subseteq TermOver(Nat) \X Nat
  BY NaturalTerm DEF Class
<1>1. IsClosed(S)
  BY ClassClosed
<1>2. ASSUME NEW x \in Term, NEW l \in Nat, <<x, l>> \in S, x.k \notin Inner
      PROVE  <<BindLevelAt(start_pos)[<<x, l + counter>>], l>> \in Class(Nat, k, X)
  <2>0. x \in TermOver(Nat) /\ NumLooseBvars[x] \in Int /\ NumLooseBvars[x] <= l + 0 /\ FreeVars[x] \subseteq Y
    BY <1>2, LooseEquation DEF Class
  <2>a. NumLooseBvars[x] <= l + k /\ l + counter \in Nat
    BY <1>0, <2>0
  <2>b. x.k = "local" => x.level \in Nat
    BY Kinds DEF Term
  <2>1. CASE x.k = "local" /\ start_pos <= x.level
    <3> DEFINE i == ((l + counter) - x.level) - 1
    <3>1. BindLevelAt(start_pos)[<<x, l + counter>>] = Var(i)
      BY <2>1, <2>a DEF BindLevelAt, Pairs, fvar_to_bvar
    <3>2. x.level < counter
      BY <2>0, <2>1, FreeParts
    <3>3. i \in Nat /\ i < l + k
      BY <2>1, <2>b, <3>2
    <3> HIDE DEF i, X, k
    <3>4. QED
      BY <1>0, <3>1, <3>3, NewVar
  <2>2. CASE ~ (x.k = "local" /\ start_pos <= x.level)
    <3>1. BindLevelAt(start_pos)[<<x, l + counter>>] = x
      BY <2>2, <2>a DEF BindLevelAt, Pairs
    <3>2. x.k = "local" => x.level < start_pos
      BY <2>2, <2>b
    <3>3. FreeVars[x] \in {{}, {x}}
      BY <1>2, FreeParts, Kinds DEF Term
    <3>4. FreeVars[x] \subseteq X
      BY <2>0, <3>2, <3>3
    <3>5. QED
      BY <2>0, <2>a, <3>1, <3>4 DEF Class
  <2>3. QED
    BY <2>1, <2>2
<1>3. <<e, n>> \in S
  BY <1>0, LooseEquation DEF Class
<1> DEFINE N == Nat
<1>4. N \in {Nat, Int} /\ S \subseteq TermOver(N) \X Nat /\ n + counter \in Nat
  BY <1>0
<1>5. \A x \in Term : \A l \in Nat : <<x, l>> \in S /\ x.k \notin Inner =>
        <<BindLevelAt(start_pos)[<<x, l + counter>>], l>> \in Class(N, k, X)
  BY <1>2
<1> HIDE DEF S, X, N, k
<1>6. \A x \in Term : \A l \in Nat :
        <<x, l>> \in S => <<Img(BoundLevels(start_pos), x, l + counter), l>> \in Class(N, k, X)
  BY <1>0, <1>1, <1>4, <1>5, BoundLevelsMap, MapBounds
<1>7. <<Img(BoundLevels(start_pos), e, n + counter), n>> \in Class(N, k, X)
  BY <1>0, <1>3, <1>6
<1>8. <<AbstrLevelsUnder(e, start_pos, n + counter), n>> \in Class(Nat, k, X)
  BY <1>0, <1>4, <1>7, FreshCalls DEF N
<1>9. QED
  BY <1>8 DEF Class, X, k
=============================================================================
