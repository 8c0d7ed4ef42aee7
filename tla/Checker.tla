------------------------------- MODULE Checker -------------------------------
(***************************************************************************)
(* One type checker (module Infer) at work: its caches go from one request *)
(* to the next, a panic ends it.  inductive.rs asks one checker for many   *)
(* things, of terms it has checked and of declared ones it has not.        *)
(*                                                                         *)
(* The caches of substitution belong to the context, which outlives the    *)
(* checker; they are left over from one call to the next.                  *)
(***************************************************************************)
EXTENDS Infer, TypeTheory

CONSTANTS
  Environment, \* what the checkers see, the same throughout
  Terms,       \* closed terms, with and without a type
  Pairs,       \* pairs of terms to compare, with and without a type
  Candidates,  \* declarations to check
  Walks,       \* terms with loose and free variables, and substitutes
  First,       \* model bound: the first requests
  MaxAsked     \* model bound: the requests to one checker

ASSUME PairsAssumption == \A q \in Pairs : Len(q) = 2
ASSUME CandidatesAssumption == \A d \in Candidates : d.kind \in {"axiom", "def", "thm", "opaque"}
ASSUME MaxAskedAssumption == MaxAsked \in Nat

VARIABLES
  tc,          \* what the checker keeps
  expr_cache,  \* what the last walks left in their caches
  asked,       \* how many requests there were
  last         \* the last request and its answer

vars == <<declars, tc, expr_cache, asked, last>>

Idle == [kind |-> "idle"]
NoExprCache == [inst |-> NoCache, abstr_levels |-> NoCache]

Init == declars = Environment /\ tc = NewTypeChecker /\ expr_cache = NoExprCache /\ asked = 0 /\ last = Idle

\* A request is made of a checker that has not panicked.
Request(req, r) ==
  /\ asked < MaxAsked /\ (last = Idle \/ (last.kind \in {"check", "equal", "whnf"} /\ last.ok))
  /\ asked = 0 => req \in First
  /\ last' = [kind |-> req[1], req |-> req, ok |-> r.ok, v |-> r.v] /\ tc' = r.s
  /\ asked' = asked + 1
  /\ UNCHANGED <<declars, expr_cache>>

Check(e) == Request(<<"check", e>>, infer(e, "Check", tc))
Compare(x, y) == Request(<<"equal", x, y>>, def_eq(x, y, tc))
Reduce(e) == Request(<<"whnf", e>>, whnf(e, tc))

\* Each declaration has a checker of its own.
CheckDeclar(d) ==
  /\ asked = 0 /\ last = Idle
  /\ Request(<<"declar", d>>, check_declar(d))

clear ==
  /\ last.kind \in {"check", "equal", "whnf"} /\ last.ok
  /\ tc' = clear_tc(tc) /\ last' = Idle /\ UNCHANGED <<declars, expr_cache, asked>>

\* Walks are made while nothing is asked: all that they share with the checker
\* is the number of open binders.
Walking == tc = NewTypeChecker /\ (last = Idle \/ last.kind \in {"inst", "abstr_levels"}) /\ asked < MaxAsked
Inst(w) ==
  /\ Walking /\ w.kind = "inst"
  /\ LET r == InstCall(w.e, w.substs, expr_cache.inst)
     IN  last' = [kind |-> "inst", w |-> w, v |-> r.e] /\ expr_cache' = [expr_cache EXCEPT !.inst = r.c]
  /\ asked' = asked + 1 /\ UNCHANGED <<declars, tc>>

AbstrLevels(w) ==
  /\ Walking /\ w.kind = "abstr_levels"
  /\ LET r == AbstrLevelsCall(w.e, w.start_pos, w.start_pos + Len(w.locals), expr_cache.abstr_levels)
     IN  last' = [kind |-> "abstr_levels", w |-> w, v |-> r.e] /\ expr_cache' = [expr_cache EXCEPT !.abstr_levels = r.c]
  /\ asked' = asked + 1 /\ UNCHANGED <<declars, tc>>

Next ==
  \/ \E e \in Terms : Check(e) \/ Reduce(e)
  \/ \E q \in Pairs : Compare(q[1], q[2])
  \/ \E d \in Candidates : CheckDeclar(d)
  \/ \E w \in Walks : Inst(w) \/ AbstrLevels(w)
  \/ clear

Spec == Init /\ [][Next]_vars

------------------------------------------------------------------------------
TypeIn(e) == TypeOf(<<>>, e)
SameType(A, B) == EqualTypes(<<>>, A, B)
Same(x, y) == Equal(<<>>, x, y, TypeIn(x))

\* A term passes when it has a type, whatever the checker has seen before and
\* whatever it took on trust, and the type found is the one it has.
ChecksTyping ==
  last.kind = "check" =>
    /\ last.ok = Typed(<<>>, last.req[2])
    /\ last.ok => SameType(last.v, TypeIn(last.req[2]))

\* Of two terms that have a type the checker tells whether they are equal, by
\* what it found equal earlier, by proof irrelevance or by conversion.
ComparesRight ==
  last.kind = "equal" =>
    LET x == last.req[2]
        y == last.req[3]
    IN  Typed(<<>>, x) /\ Typed(<<>>, y) =>
          last.ok /\ last.v = (SameType(TypeIn(x), TypeIn(y)) /\ Same(x, y))

\* A term that has a type is reduced to its head: the result is equal to it and
\* starts as the weak head normal form does.
SameHeads(x, y) ==
  LET f == unfold_apps_fun(AsCtor(x))
      g == unfold_apps_fun(AsCtor(y))
  IN  f.k = g.k /\ (f.k = "const" => f.name = g.name)
      /\ Len(unfold_apps_args(AsCtor(x))) = Len(unfold_apps_args(AsCtor(y)))
ReducesRight ==
  last.kind = "whnf" =>
    LET e == last.req[2]
    IN  Typed(<<>>, e) => last.ok /\ Same(last.v, e) /\ SameHeads(last.v, Whnf(<<>>, e))

\* A declaration is accepted when its type is a type, of a theorem a
\* proposition, and its value has that type.
GoodDeclar(d) ==
  /\ ~ has_fvars(d.ty) /\ IsType(<<>>, d.ty)
  /\ d.kind = "thm" => SortOf(<<>>, d.ty) = 0
  /\ d.kind # "axiom" => Typed(<<>>, d.val) /\ SameType(TypeIn(d.val), d.ty)
AcceptsGood == last.kind = "declar" => (last.ok <=> GoodDeclar(last.req[2]))

\* Between requests no binder is open, and what was found out about terms
\* without free variables does not mention one.
FreeOfLocals(cache) == \A e \in DOMAIN cache : ~ has_fvars(e) => ~ has_fvars(cache[e])
NothingLeftOpen ==
  (last = Idle \/ ("ok" \in DOMAIN last /\ last.ok)) =>
    /\ tc.dbj_level_counter = 0
    /\ \A c \in {tc.infer_cache_check, tc.infer_cache_no_check, tc.whnf_cache, tc.whnf_no_unfolding_cache} :
         FreeOfLocals(c)

\* A walk is not misled by what an earlier one left in the cache: substitution
\* is that of the theory, and abstraction is undone by substitution.
Undone(e, substs) == FoldRight(LAMBDA a, x : Put(x, 0, a), substs, e)
WalksRight ==
  /\ last.kind = "inst" => last.v = Undone(last.w.e, last.w.substs)
  /\ last.kind = "abstr_levels" => Undone(last.v, last.w.locals) = last.w.e
==============================================================================
