-------------------------------- MODULE Terms --------------------------------
(***************************************************************************)
(* The walks over expressions (expr.rs): the steps of module Expr, each    *)
(* passed to itself, and the operations on telescopes and applications.    *)
(* Two kinds of free variables are abstracted, those numbered from the     *)
(* outside and unique ones, and bound ones are counted from the inside.    *)
(***************************************************************************)
EXTENDS Expr

IsConst(e, n) == e.k = "const" /\ e.name = n
imax(l, r) == IF r = 0 THEN 0 ELSE Larger(l, r)

RECURSIVE num_loose_bvars(_), has_fvars(_), unfold_apps_fun(_), unfold_apps_args(_),
          find_const(_, _), pi_telescope_size(_), get_nth_pi_binder(_, _),
          inst_aux(_, _, _, _), abstr_aux_levels(_, _, _, _), abstr_aux(_, _, _, _)

num_loose_bvars(e) == LooseBvars(e, num_loose_bvars)
has_fvars(e) == HasFvars(e, has_fvars)

unfold_apps_fun(e) == IF e.k = "app" THEN unfold_apps_fun(e.fun) ELSE e
unfold_apps_args(e) == IF e.k = "app" THEN Append(unfold_apps_args(e.fun), e.arg) ELSE <<>>
foldl_apps(f, args) == FoldLeft(App, f, args)

\* Whether e mentions a constant of names.
find_const(e, names) ==
  CASE e.k = "const" -> e.name \in names
    [] e.k = "app" -> find_const(e.fun, names) \/ find_const(e.arg, names)
    [] e.k \in {"pi", "lambda"} -> find_const(e.binder_type, names) \/ find_const(e.body, names)
    [] e.k = "let" -> find_const(e.binder_type, names) \/ find_const(e.val, names)
                        \/ find_const(e.body, names)
    [] e.k \in {"local", "unique"} -> find_const(e.binder_type, names)
    [] e.k = "proj" -> find_const(e.structure, names)
    [] OTHER -> FALSE

pi_telescope_size(e) == IF e.k = "pi" THEN 1 + pi_telescope_size(e.body) ELSE 0

\* The type of binder n; "none" has no such expression.
NoExpr == [k |-> "none"]
get_nth_pi_binder(e, n) ==
  IF e.k # "pi" THEN NoExpr ELSE IF n = 0 THEN e.binder_type ELSE get_nth_pi_binder(e.body, n - 1)

------------------------------------------------------------------------------
(***************************************************************************)
(* Substitution                                                            *)
(***************************************************************************)
inst_aux(e, substs, offset, c) ==
  InstStep(e, num_loose_bvars(e), substs, offset, c,
           LAMBDA x, d, cx : inst_aux(x, substs, offset + d, cx))

\* Mutant: the cache of the last call is kept.
InstKeepCache(e, substs, c) == inst_aux(e, substs, 0, c)

\* A call that finds cache c clears it first.
InstCall(e, substs, c) == inst_aux(e, substs, 0, NoCache)
inst(e, substs) == InstCall(e, substs, NoCache).e

abstr_aux_levels(e, start_pos, num_open_binders, c) ==
  AbstrLevelsStep(e, has_fvars(e), start_pos, num_open_binders, c,
                  LAMBDA x, d, cx : abstr_aux_levels(x, start_pos, num_open_binders + d, cx))

AbstrLevelsCall(e, start_pos, dbj_level_counter, c) ==
  abstr_aux_levels(e, start_pos, dbj_level_counter, NoCache)
abstr_levels(e, start_pos, dbj_level_counter) ==
  AbstrLevelsCall(e, start_pos, dbj_level_counter, NoCache).e

abstr_aux(e, locals, offset, c) ==
  AbstrStep(e, has_fvars(e), locals, offset, c,
            LAMBDA x, d, cx : abstr_aux(x, locals, offset + d, cx))

abstr(e, locals) == abstr_aux(e, locals, 0, NoCache).e
abstr_pi(binder, body) == Pi(binder.binder_type, abstr(body, <<binder>>))
apply_lambda(binder, body) == Lambda(binder.binder_type, abstr(body, <<binder>>))
abstr_pis(binders, body) == FoldRight(abstr_pi, binders, body)
abstr_lambda_telescope(binders, body) == FoldRight(apply_lambda, binders, body)
replace_params(e, ingoing, outgoing) == inst(abstr(e, outgoing), ingoing)
==============================================================================
