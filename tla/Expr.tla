-------------------------------- MODULE Expr ---------------------------------
(***************************************************************************)
(* Expressions (expr.rs) and one step of each walk over them.              *)
(*                                                                         *)
(* Expressions are hash-consed, so that a pointer and the expression are   *)
(* one thing here (module HashCons).  Universe levels are numbers (module  *)
(* Levels has the symbolic ones); binder names and styles are left out.    *)
(*                                                                         *)
(* A step takes what it calls for the parts of an expression as an         *)
(* operator.  Module Terms passes each step to itself, which is what the   *)
(* runs evaluate; ExprProofs does so with functions on all expressions,    *)
(* about which there are theorems.                                         *)
(***************************************************************************)
EXTENDS Integers, Sequences, SequencesExt

Sort(l)       == [k |-> "sort", level |-> l]
Const(n)      == [k |-> "const", name |-> n]
Var(i)        == [k |-> "var", dbj_idx |-> i]
App(f, a)     == [k |-> "app", fun |-> f, arg |-> a]
Lambda(t, b)  == [k |-> "lambda", binder_type |-> t, body |-> b]
Pi(t, b)      == [k |-> "pi", binder_type |-> t, body |-> b]
Let(t, v, b)  == [k |-> "let", binder_type |-> t, val |-> v, body |-> b]
Proj(S, i, e) == [k |-> "proj", ty_name |-> S, idx |-> i, structure |-> e]
NatLit(n)     == [k |-> "nat", n |-> n]
Local(l, t)   == [k |-> "local", level |-> l, binder_type |-> t]   \* FVarId::DbjLevel
Unique(i, t)  == [k |-> "unique", id |-> i, binder_type |-> t]     \* FVarId::Unique

Larger(m, n) == IF m < n THEN n ELSE m

------------------------------------------------------------------------------
(***************************************************************************)
(* What a node keeps about itself: below how many binders it is closed,    *)
(* and whether it has free variables.                                      *)
(***************************************************************************)
\* A binder type and what is below the binder.
LooseUnder(t, b) == Larger(t, Larger(b - 1, 0))

LooseBvars(e, of(_)) ==
  CASE e.k = "var" -> e.dbj_idx + 1
    [] e.k = "app" -> Larger(of(e.fun), of(e.arg))
    [] e.k \in {"pi", "lambda"} -> LooseUnder(of(e.binder_type), of(e.body))
    [] e.k = "let" -> Larger(of(e.val), LooseUnder(of(e.binder_type), of(e.body)))
    [] e.k = "proj" -> of(e.structure)
    [] OTHER -> 0

HasFvars(e, in(_)) ==
  CASE e.k \in {"local", "unique"} -> TRUE
    [] e.k = "app" -> in(e.fun) \/ in(e.arg)
    [] e.k \in {"pi", "lambda"} -> in(e.binder_type) \/ in(e.body)
    [] e.k = "let" -> in(e.binder_type) \/ in(e.val) \/ in(e.body)
    [] e.k = "proj" -> in(e.structure)
    [] OTHER -> FALSE

------------------------------------------------------------------------------
(***************************************************************************)
(* Substitution.  Each of the three walks keeps a cache, from expression   *)
(* and number of binders crossed to result, for the duration of one call.  *)
(* A walk returns the expression and the cache it leaves.                  *)
(***************************************************************************)
NoCache == <<>>

\* What all walks do at an inner node: the parts in order, each with the number
\* of binders it is under, and the node made again from the results.
Rebuild(e, c, walk(_, _, _)) ==
  CASE e.k = "app" ->
         LET f == walk(e.fun, 0, c)
             a == walk(e.arg, 0, f.c)
         IN  [e |-> App(f.e, a.e), c |-> a.c]
    [] e.k \in {"pi", "lambda"} ->
         LET t == walk(e.binder_type, 0, c)
             b == walk(e.body, 1, t.c)
         IN  [e |-> [k |-> e.k, binder_type |-> t.e, body |-> b.e], c |-> b.c]
    [] e.k = "let" ->
         LET t == walk(e.binder_type, 0, c)
             v == walk(e.val, 0, t.c)
             b == walk(e.body, 1, v.c)
         IN  [e |-> Let(t.e, v.e, b.e), c |-> b.c]
    [] e.k = "proj" ->
         LET s == walk(e.structure, 0, c)
         IN  [e |-> Proj(e.ty_name, e.idx, s.e), c |-> s.c]

Cached(key, r) ==
  [e |-> r.e, c |-> [x \in {key} \cup DOMAIN r.c |-> IF x = key THEN r.e ELSE r.c[x]]]

\* The variable of the innermost binder is replaced by the last of substs.
SubstVar(e, substs, offset) ==
  LET i == e.dbj_idx - offset
  IN  IF i < Len(substs) THEN substs[Len(substs) - i] ELSE e

\* loose is what the node keeps as num_loose_bvars.
InstStep(e, loose, substs, offset, c, walk(_, _, _)) ==
  LET key == <<e, offset>>
  IN  IF loose <= offset THEN [e |-> e, c |-> c]
      ELSE IF key \in DOMAIN c THEN [e |-> c[key], c |-> c]
      ELSE Cached(key, IF e.k = "var" THEN [e |-> SubstVar(e, substs, offset), c |-> c]
                       ELSE Rebuild(e, c, walk))

fvar_to_bvar(num_open_binders, dbj_level) == Var((num_open_binders - dbj_level) - 1)

\* open is what the node keeps as has_fvars.
AbstrLevelsStep(e, open, start_pos, num_open_binders, c, walk(_, _, _)) ==
  LET key == <<e, start_pos, num_open_binders>>
  IN  IF ~ open THEN [e |-> e, c |-> c]
      ELSE IF key \in DOMAIN c THEN [e |-> c[key], c |-> c]
      ELSE Cached(key,
                  IF e.k = "unique" \/ (e.k = "local" /\ e.level < start_pos) THEN [e |-> e, c |-> c]
                  ELSE IF e.k = "local" THEN [e |-> fvar_to_bvar(num_open_binders, e.level), c |-> c]
                  ELSE Rebuild(e, c, walk))

\* The variables in locals, the last of which becomes the innermost.
BoundVar(e, locals, offset) ==
  IF Contains(locals, e)
  THEN Var((Len(locals) - SelectLastInSeq(locals, LAMBDA x : x = e)) + offset)
  ELSE e

AbstrStep(e, open, locals, offset, c, walk(_, _, _)) ==
  LET key == <<e, offset>>
  IN  IF ~ open THEN [e |-> e, c |-> c]
      ELSE IF key \in DOMAIN c THEN [e |-> c[key], c |-> c]
      ELSE Cached(key,
                  IF e.k \in {"local", "unique"} THEN [e |-> BoundVar(e, locals, offset), c |-> c]
                  ELSE Rebuild(e, c, walk))
==============================================================================
