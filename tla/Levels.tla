-------------------------------- MODULE Levels --------------------------------
(***************************************************************************)
(* Universe levels (level.rs): simplification, substitution and the        *)
(* comparison that every universe check of the kernel comes down to.  A    *)
(* level denotes a number once its parameters have values; the comparison  *)
(* is a syntactic algorithm, and what is checked is that it agrees with    *)
(* the numbers.                                                            *)
(*                                                                         *)
(* Levels are hash-consed, so that a pointer and the level it denotes are  *)
(* one thing here (module HashCons), and the cache of `simplify` returns   *)
(* what computing again would.                                             *)
(*                                                                         *)
(* The functions call each other, and nothing but memory and the stack of  *)
(* the thread bounds how deep.  Call[d] is what they return when d more    *)
(* calls fit on the stack; an operation `f(at, ...)` is the body of one    *)
(* call, and `at` what it calls.                                           *)
(***************************************************************************)
EXTENDS Integers, Sequences

CONSTANTS
  Param,    \* universe parameters
  Height,   \* bound: how deep levels are nested that fit into memory,
  Depth,    \* and how many calls fit on the stack
  Pairs,    \* model bound: the pairs of levels that are compared,
  Deep,     \* the levels that are tested, or substituted in and simplified,
  Leaf,     \* the levels that are put in place of parameters,
  MaxValue  \* and the values of parameters

VARIABLES query, answer   \* the call that was made and what it returned
vars == <<query, answer>>

Zero == [k |-> "zero"]
Succ(l) == [k |-> "succ", of |-> l]
Max(l, r) == [k |-> "max", l |-> l, r |-> r]
IMax(l, r) == [k |-> "imax", l |-> l, r |-> r]
Var(p) == [k |-> "param", name |-> p]

\* The levels that are nested at most h deep.
LevelTo[h \in 0 .. Height] ==
  IF h = 0 THEN {Zero} \cup {Var(p) : p \in Param}
  ELSE LET Part == LevelTo[h - 1]
       IN  Part \cup [k : {"succ"}, of : Part] \cup [k : {"max", "imax"}, l : Part, r : Part]
Level == LevelTo[Height]

ASSUME BoundAssumption == Height \in Nat /\ Depth \in Nat /\ MaxValue \in Nat \ {0}
ASSUME QueryAssumption ==
  /\ \A pair \in Pairs : pair[1] \in Level /\ pair[2] \in Level
  /\ \A l \in Deep \cup Leaf : l \in Level

\* In place of a level when the call does not return: a test panicked, or memory
\* or stack are exhausted.
Failure == {"panic", "overflow"}
Panic == [k |-> "panic"]
Exhausted == [k |-> "overflow"]
NoLevel == {Panic, Exhausted}
LevelOrNone == Level \cup NoLevel

\* Allocation, of a level with the parts l and r.
Stored(level, l, r) ==
  CASE l \in NoLevel -> l
    [] l \notin NoLevel /\ r \in NoLevel -> r
    [] OTHER -> IF level \in Level THEN level ELSE Exhausted
succ(l) == Stored(Succ(l), l, l)
max(l, r) == Stored(Max(l, r), l, r)
imax(l, r) == Stored(IMax(l, r), l, r)

IsParam(l) == l.k = "param"
IsAnyMax(l) == l.k \in {"max", "imax"}

------------------------------------------------------------------------------
\* The outcome of a test: it may also panic, or not return.  && stops at the
\* first conjunct that does not hold, || at the first disjunct that does not
\* fail.
YesNo(b) == IF b THEN "yes" ELSE "no"
AndThen(a, b) == IF a = "yes" THEN b ELSE a
OrElse(a, b) == IF a = "no" THEN b ELSE a

combining(at, l, r) ==
  IF l = Zero THEN r
  ELSE IF r = Zero THEN l
  ELSE IF l.k = "succ" /\ r.k = "succ" THEN succ(at.combining[<<l.of, r.of>>])
  ELSE max(l, r)

leq(at, l, r) == at.leq_core[<<at.simplify[l], at.simplify[r], 0>>]
is_zero(at, l) == leq(at, l, Zero)
is_nonzero(at, l) == leq(at, succ(Zero), l)
is_one(at, l) == IF l.k = "succ" THEN is_zero(at, l.of) ELSE "no"

\* Mutants: imax is zero when its left side is; an imax over a successor stays.
SimplifyIMaxLeft(at, l, r) ==
  IF is_zero(at, l) = "yes" THEN l
  ELSE CASE r = Zero     -> r
         [] r.k = "succ" -> at.combining[<<l, r>>]
         [] OTHER        -> imax(l, r)

SimplifyIMaxKeepsSucc(at, l, r) ==
  IF OrElse(is_zero(at, l), is_one(at, l)) = "yes" THEN r
  ELSE IF r = Zero THEN r ELSE imax(l, r)

\* The IMax arm of simplify, on simplified sides.
SimplifyIMax(at, l, r) ==
  LET small == OrElse(is_zero(at, l), is_one(at, l))
  IN  IF small = "yes" THEN r
      ELSE IF small \in Failure THEN [k |-> small]
      ELSE CASE r = Zero     -> r
             [] r.k = "succ" -> at.combining[<<l, r>>]
             [] OTHER        -> imax(l, r)

simplify(at, l) ==
  CASE l.k \in {"zero", "param"} \cup Failure -> l
    [] l.k = "succ" -> succ(at.simplify[l.of])
    [] l.k = "max"  -> at.combining[<<at.simplify[l.l], at.simplify[l.r]>>]
    [] l.k = "imax" -> SimplifyIMax(at, at.simplify[l.l], at.simplify[l.r])

\* Mutant: the values are substituted one after the other.
SubstParamInTurn(l, ks, vs) ==
  LET first == IF l = ks[1] THEN vs[1] ELSE l
  IN  IF Len(ks) = 2 /\ first = ks[2] THEN vs[2] ELSE first

\* The Param arm of subst_level: the value of the first key that matches.
SubstParam(l, ks, vs) ==
  LET hits == {i \in 1 .. Len(ks) : i <= Len(vs) /\ ks[i] = l}
  IN  IF hits = {} THEN l ELSE vs[CHOOSE i \in hits : \A j \in hits : i <= j]

subst_level(at, l, ks, vs) ==
  LET Part(m) == at.subst_level[<<m, ks, vs>>]
  IN  CASE l.k \in {"zero"} \cup Failure -> l
        [] l.k = "succ"  -> succ(Part(l.of))
        [] l.k = "max"   -> max(Part(l.l), Part(l.r))
        [] l.k = "imax"  -> imax(Part(l.l), Part(l.r))
        [] l.k = "param" -> SubstParam(l, ks, vs)

subst_simp(at, l, ks, vs) == at.simplify[at.subst_level[<<l, ks, vs>>]]

------------------------------------------------------------------------------
\* Mutant: only the case that the parameter is not zero.
LeqByCasesSucc(at, p, l, r, diff) ==
  LET At(m) == subst_simp(at, m, <<p>>, <<succ(p)>>)
  IN  at.leq_core[<<At(l), At(r), diff>>]

\* An imax whose right side is a parameter: compare for 0 and for p + 1.
leq_imax_by_cases(at, p, l, r, diff) ==
  LET At(m, v) == subst_simp(at, m, <<p>>, <<v>>)
      Case(v) == at.leq_core[<<At(l, v), At(r, v), diff>>]
      failed == {succ(p), At(l, Zero), At(r, Zero), At(l, succ(p)), At(r, succ(p))} \cap NoLevel
  IN  IF failed # {} THEN (CHOOSE m \in failed : TRUE).k
      ELSE AndThen(Case(Zero), Case(succ(p)))

\* An imax whose right side is an imax or a max, as a max of two imaxes.
Distributed(at, l) ==
  IF l.r.k = "imax" THEN max(imax(l.l, l.r.r), imax(l.r.l, l.r.r))
                    ELSE at.simplify[max(imax(l.l, l.r.l), imax(l.l, l.r.r))]

\* Two levels neither of which is a successor, and not both 0 or parameters.
leq_max(at, l, r, diff) ==
  IF l.k = "max"
    THEN AndThen(at.leq_core[<<l.l, r, diff>>], at.leq_core[<<l.r, r, diff>>])
  ELSE IF l.k # "imax" /\ r.k = "max"
    THEN OrElse(at.leq_core[<<l, r.l, diff>>], at.leq_core[<<l, r.r, diff>>])
  ELSE IF l.k = "imax" /\ l = r /\ diff >= 0 THEN "yes"
  ELSE IF l.k = "imax" /\ IsParam(l.r) THEN leq_imax_by_cases(at, l.r, l, r, diff)
  ELSE IF r.k = "imax" /\ IsParam(r.r) THEN leq_imax_by_cases(at, r.r, l, r, diff)
  ELSE IF l.k = "imax" /\ IsAnyMax(l.r) THEN at.leq_core[<<Distributed(at, l), r, diff>>]
  ELSE IF r.k = "imax" /\ IsAnyMax(r.r) THEN at.leq_core[<<l, Distributed(at, r), diff>>]
  ELSE "panic"

\* leq_core: l <= r + diff.
leq_core(at, l, r, diff) ==
  IF l \in NoLevel THEN l.k
  ELSE IF r \in NoLevel THEN r.k
  ELSE IF l = Zero /\ diff >= 0 THEN "yes"
  ELSE IF r = Zero /\ diff < 0 THEN "no"
  ELSE IF {l.k, r.k} \subseteq {"zero", "param"}
    THEN YesNo(IsParam(l) /\ l = r /\ diff >= 0)
  ELSE IF l.k = "succ" THEN at.leq_core[<<l.of, r, diff - 1>>]
  ELSE IF r.k = "succ" THEN at.leq_core[<<l, r.of, diff + 1>>]
  ELSE leq_max(at, l, r, diff)

------------------------------------------------------------------------------
\* What the functions return when no call, and when d calls, fit on the stack.
Two == LevelOrNone \X LevelOrNone
Compared == LevelOrNone \X LevelOrNone \X Int
Replacing == LevelOrNone \X Seq(LevelOrNone) \X Seq(LevelOrNone)

Overflow ==
  [combining   |-> [a \in Two |-> Exhausted],
   simplify    |-> [l \in LevelOrNone |-> Exhausted],
   subst_level |-> [a \in Replacing |-> Exhausted],
   leq_core    |-> [a \in Compared |-> "overflow"]]

Frame(at) ==
  [combining   |-> [a \in Two |-> combining(at, a[1], a[2])],
   simplify    |-> [l \in LevelOrNone |-> simplify(at, l)],
   subst_level |-> [a \in Replacing |-> subst_level(at, a[1], a[2], a[3])],
   leq_core    |-> [a \in Compared |-> leq_core(at, a[1], a[2], a[3])]]

Call[d \in 0 .. Depth] == IF d = 0 THEN Overflow ELSE Frame(Call[d - 1])
Thread == Call[Depth]

NoQuery == [op |-> "none"]

Init == query = NoQuery /\ answer = Zero

Leq(l, r) == /\ query' = [op |-> "leq", l |-> l, r |-> r]
             /\ answer' = leq(Thread, l, r)

IsZero(l) == query' = [op |-> "is_zero", l |-> l] /\ answer' = is_zero(Thread, l)

IsNonzero(l) == query' = [op |-> "is_nonzero", l |-> l] /\ answer' = is_nonzero(Thread, l)

SubstSimp(l, ks, vs) ==
  /\ query' = [op |-> "subst_simp", l |-> l, ks |-> ks, vs |-> vs]
  /\ answer' = subst_simp(Thread, l, ks, vs)

Next ==
  /\ query = NoQuery
  /\ \/ \E pair \in Pairs : Leq(pair[1], pair[2])
     \/ \E l \in Deep : IsZero(l) \/ IsNonzero(l)
     \/ \E l \in Deep, ks \in [1 .. 2 -> Param], v \in Leaf, w \in Leaf :
          SubstSimp(l, <<Var(ks[1]), Var(ks[2])>>, <<v, w>>)

Spec == Init /\ [][Next]_vars
------------------------------------------------------------------------------
(***************************************************************************)
(* Properties                                                              *)
(***************************************************************************)
Max2(m, n) == IF m < n THEN n ELSE m
IMax2(m, n) == IF n = 0 THEN 0 ELSE Max2(m, n)

\* The number that l denotes when the parameters have the values s.
Denoted(l, s, value) ==
  CASE l.k = "zero"  -> 0
    [] l.k = "param" -> s[l.name]
    [] l.k = "succ"  -> value[l.of] + 1
    [] l.k = "max"   -> Max2(value[l.l], value[l.r])
    [] l.k = "imax"  -> IMax2(value[l.l], value[l.r])
Meaning(s) == LET value[l \in Level] == Denoted(l, s, value) IN value
Value(l, s) == Meaning(s)[l]

Values == [Param -> 0 .. MaxValue]
Below(l, r) == \A s \in Values : Value(l, s) <= Value(r, s)

\* No call panics: the arms of leq_core that do are never reached.
TypeOK ==
  /\ query.op \in {"leq", "is_zero", "is_nonzero"} => answer \in {"yes", "no", "overflow"}
  /\ query.op = "subst_simp" => answer \in Level \cup {Exhausted}

\* What leq accepts holds whatever values the parameters take.
LeqSound ==
  /\ query.op = "leq" /\ answer = "yes" => Below(query.l, query.r)
  /\ query.op = "is_zero" /\ answer = "yes" => Below(query.l, Zero)
  /\ query.op = "is_nonzero" /\ answer = "yes" => Below(Succ(Zero), query.l)

\* The two tests that decide on propositions and on large elimination miss
\* nothing, ...
ZeroTestsExact ==
  /\ query.op = "is_zero" /\ answer = "no" => ~ Below(query.l, Zero)
  /\ query.op = "is_nonzero" /\ answer = "no" => ~ Below(Succ(Zero), query.l)

\* ... and on levels without imax neither does leq; on others it may miss what
\* holds by one side of a max for some values and by the other for the rest
\* (p + 1 <= max 1 (imax (p + 1) p)).
NoIMax[l \in Level] ==
  CASE l.k \in {"zero", "param"} -> TRUE
    [] l.k = "succ" -> NoIMax[l.of]
    [] l.k = "max" -> NoIMax[l.l] /\ NoIMax[l.r]
    [] l.k = "imax" -> FALSE

\* The bounds are large enough for the calls of a run to return.
Returned == IF query.op = "subst_simp" THEN answer \in Level ELSE answer # "overflow"

TestsExact ==
  /\ ZeroTestsExact
  /\ query.op = "leq" /\ NoIMax[query.l] /\ NoIMax[query.r] =>
       answer = YesNo(Below(query.l, query.r))
  /\ query # NoQuery => Returned

\* Substituting and simplifying keeps the meaning: the result denotes what the level
\* denotes when the parameters take the values of what replaces them.  All
\* parameters are replaced at once, by the first entry that names them.
ReplacedBy(p, ks, vs, s) ==
  LET hits == {i \in 1 .. Len(ks) : i <= Len(vs) /\ ks[i] = Var(p)}
  IN  IF hits = {} THEN s[p] ELSE Value(vs[CHOOSE i \in hits : \A j \in hits : i <= j], s)
SubstitutionKeepsMeaning ==
  query.op = "subst_simp" /\ answer \in Level =>
    \A s \in Values :
      Value(answer, s) = Value(query.l, [p \in Param |-> ReplacedBy(p, query.ks, query.vs, s)])
==============================================================================
