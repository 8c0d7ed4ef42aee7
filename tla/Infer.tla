-------------------------------- MODULE Infer --------------------------------
(***************************************************************************)
(* Type inference and reduction of expressions (tc.rs).  An operation      *)
(* takes what the type checker keeps, s, and returns a value and what is   *)
(* then kept, or panics: Ret and Panics.  InferOnly is the flag of the     *)
(* calls that trust the term; what they find is kept apart from what       *)
(* Check found.                                                            *)
(*                                                                         *)
(* Left out: string literals, universe parameters, and strong_reduce,      *)
(* which nothing calls.                                                    *)
(***************************************************************************)
EXTENDS Eval

NewTypeChecker ==
  [infer_cache_check |-> <<>>, infer_cache_no_check |-> <<>>,
   whnf_cache |-> <<>>, whnf_no_unfolding_cache |-> <<>>,
   eq_cache |-> {},          \* the classes of two or more terms (module UnionFind)
   conv |-> Fresh,           \* the caches of the conversion checker
   dbj_level_counter |-> 0,  \* these two belong to the context, which may
   unique_counter |-> 0]     \* have several checkers in turn

clear_tc(s) ==
  [s EXCEPT !.infer_cache_check = <<>>, !.infer_cache_no_check = <<>>, !.whnf_cache = <<>>,
            !.whnf_no_unfolding_cache = <<>>, !.eq_cache = {}, !.conv = Cleared(@)]

Ret(v, s) == [ok |-> TRUE, v |-> v, s |-> s]
Panics(s) == [ok |-> FALSE, v |-> NoExpr, s |-> s]
Then(r, next(_, _)) == IF r.ok THEN next(r.v, r.s) ELSE r
Require(cond, v, s) == IF cond THEN Ret(v, s) ELSE Panics(s)

\* The operations that call each other go through Call, defined at the end.
RECURSIVE Call(_, _, _), whnf_loop(_, _, _), lambda_prefix(_, _), app_spine(_, _, _, _, _),
          open_binders(_, _, _, _, _, _), apply_params(_, _, _), field_binder(_, _, _, _, _, _)

infer(e, flag, s) == Call("infer", <<e, flag>>, s)
whnf(e, s) == Call("whnf", <<e>>, s)
whnf_no_unfolding(e, s) == Call("whnf_no_unfolding", <<e>>, s)
def_eq(x, y, s) == Call("def_eq", <<x, y>>, s)

infer_then_whnf(e, flag, s) == Then(infer(e, flag, s), LAMBDA t, s1 : whnf(t, s1))

\* ensure_sort and ensure_pi.
ensure(kind, e, s) ==
  IF e.k = kind THEN Ret(e, s) ELSE Then(whnf(e, s), LAMBDA w, s1 : Require(w.k = kind, w, s1))
infer_sort_of(e, flag, s) ==
  Then(infer_then_whnf(e, flag, s), LAMBDA w, s1 : Require(w.k = "sort", w.level, s1))
ensure_infers_as_sort(e, s) ==
  Then(infer(e, "Check", s), LAMBDA t, s1 : Then(ensure("sort", t, s1), LAMBDA w, s2 : Ret(w.level, s2)))

is_sort_zero(e, s) == Then(whnf(e, s), LAMBDA w, s1 : Ret(w = Sort(0), s1))
is_proposition(e, s) == Then(infer(e, "InferOnly", s), LAMBDA t, s1 : is_sort_zero(t, s1))
assert_def_eq(x, y, s) == Then(def_eq(x, y, s), LAMBDA same, s1 : Require(same, TRUE, s1))

------------------------------------------------------------------------------
(***************************************************************************)
(* Reduction.  NoExpr is the answer of a rule that does not apply.         *)
(***************************************************************************)
bignum(e) == CASE e.k = "nat" -> e.n [] IsConst(e, "Nat.zero") -> 0 [] OTHER -> NoNum

\* get_bignum_succ_from_expr and do_nat_bin, after the arguments are reduced.
nat_result(op, args) ==
  LET n(i) == bignum(args[i])
      res == do_nat_bin(n(1), n(2), op)
  IN  IF \E i \in DOMAIN args : n(i) = NoNum THEN NoExpr
      ELSE IF op = "Nat.succ" THEN NatLit(n(1) + 1)
      ELSE IF op \in BoolOps THEN Const(IF res THEN "Bool.true" ELSE "Bool.false")
      ELSE NatLit(res)

\* Only for terms without free variables.
try_reduce_nat(e, s) ==
  LET f == unfold_apps_fun(e)
      args == unfold_apps_args(e)
  IN  IF has_fvars(e) \/ f.k # "const" THEN Ret(NoExpr, s)
      ELSE IF f.name = "Nat.succ" /\ Len(args) = 1
      THEN Then(whnf(args[1], s), LAMBDA a, s1 : Ret(nat_result(f.name, <<a>>), s1))
      ELSE IF f.name \in BinOps \cup BoolOps /\ Len(args) = 2
      THEN Then(whnf(args[1], s),
             LAMBDA a, s1 : Then(whnf(args[2], s1), LAMBDA b, s2 : Ret(nat_result(f.name, <<a, b>>), s2)))
      ELSE Ret(NoExpr, s)

is_ctor_app(e) == LET f == unfold_apps_fun(e) IN f.k = "const" /\ IsOfKind(f.name, {"ctor"})

reduce_proj(idx, structure, s) ==
  Then(whnf(structure, s),
    LAMBDA w, s1 :
      LET args == unfold_apps_args(w)
          pos == declars[unfold_apps_fun(w).name].num_params + idx + 1
      IN  IF ~ is_ctor_app(w) THEN Ret(NoExpr, s1) ELSE Require(pos <= Len(args), args[pos], s1))

nat_lit_to_constructor(n) == IF n = 0 THEN Const("Nat.zero") ELSE App(Const("Nat.succ"), NatLit(n - 1))

\* x : S p becomes S.mk p x.0 x.1.
expand_eta_struct_aux(e_type, e) ==
  LET S == unfold_apps_fun(e_type).name
      ctor == declars[S].ctors[1]
  IN  foldl_apps(Const(ctor), SubSeq(unfold_apps_args(e_type), 1, declars[ctor].num_params)
                                \o [i \in 1 .. declars[ctor].num_fields |-> Proj(S, i - 1, e)])

\* A major premise of a structure type that is not a proposition.
iota_try_eta_struct(ind_name, e, s) ==
  IF ~ can_be_struct(ind_name) \/ is_ctor_app(e) THEN Ret(e, s)
  ELSE Then(infer_then_whnf(e, "InferOnly", s),
         LAMBDA t, s1 : IF ~ IsConst(unfold_apps_fun(t), ind_name) THEN Ret(e, s1)
                        ELSE Then(infer_then_whnf(t, "InferOnly", s1),
                               LAMBDA u, s2 : Ret(IF u = Sort(0) THEN e ELSE expand_eta_struct_aux(t, e), s2)))

\* get_rec_rule, and the right-hand side of the rule applied.
apply_rec_rule(rec, major, args) ==
  LET f == unfold_apps_fun(major)
      rules == {i \in DOMAIN rec.rules : IsConst(f, rec.rules[i].ctor)}
      rule == rec.rules[CHOOSE i \in rules : TRUE]
  IN  IF rules = {} THEN NoExpr
      ELSE foldl_apps(rule.val,
             SubSeq(args, 1, rec.num_params + rec.num_motives + rec.num_minors)
               \o ctor_fields(unfold_apps_args(major), rule.size)
               \o SubSeq(args, major_idx(rec) + 2, Len(args)))

mk_nullary_ctor(ty, num_params) ==
  foldl_apps(Const(declars[unfold_apps_fun(ty).name].ctors[1]), SubSeq(unfold_apps_args(ty), 1, num_params))

\* An element of a type that only its constructor without fields can have is
\* that constructor, or else itself.
to_ctor_when_k(major, rec, s) ==
  IF ~ rec.is_k THEN Ret(major, s)
  ELSE Then(infer_then_whnf(major, "InferOnly", s),
         LAMBDA t, s1 :
           IF ~ IsConst(unfold_apps_fun(t), get_major_induct(rec)) THEN Ret(major, s1)
           ELSE LET mk == mk_nullary_ctor(t, rec.num_params)
                IN  Then(infer(mk, "InferOnly", s1),
                      LAMBDA u, s2 : Then(def_eq(t, u, s2),
                        LAMBDA same, s3 : Ret(IF same THEN mk ELSE major, s3))))

reduce_rec(n, args, s) ==
  IF ~ IsOfKind(n, {"rec"}) THEN Ret(NoExpr, s)
  ELSE IF Len(args) <= major_idx(declars[n]) THEN Ret(NoExpr, s)
  ELSE Then(to_ctor_when_k(args[major_idx(declars[n]) + 1], declars[n], s),
         LAMBDA m, s1 : Then(whnf(m, s1),
           LAMBDA w, s2 :
             Then(IF w.k = "nat" THEN Ret(nat_lit_to_constructor(w.n), s2)
                  ELSE iota_try_eta_struct(get_major_induct(declars[n]), w, s2),
               LAMBDA major, s3 : Ret(apply_rec_rule(declars[n], major, args), s3))))

reduce_quot(n, args, s) ==
  IF ~ IsOfKind(n, {"quot"}) \/ MajorPos(n) = 0 \/ Len(args) < MajorPos(n) THEN Ret(NoExpr, s)
  ELSE Then(whnf(args[MajorPos(n)], s),
         LAMBDA q, s1 :
           IF ~ IsConst(unfold_apps_fun(q), "Quot.mk") \/ Len(unfold_apps_args(q)) # 3 THEN Ret(NoExpr, s1)
           ELSE Ret(foldl_apps(App(args[4], q.arg), SubSeq(args, MajorPos(n) + 1, Len(args))), s1))

unfold_def(e) ==
  LET f == unfold_apps_fun(e)
  IN  IF f.k # "const" THEN NoExpr
      ELSE IF ~ has_declar_val(f.name) THEN NoExpr ELSE foldl_apps(declars[f.name].val, unfold_apps_args(e))

\* How many of the lambdas at the front of e the n arguments are for.
lambda_prefix(e, n) == IF e.k = "lambda" /\ n > 0 THEN 1 + lambda_prefix(e.body, n - 1) ELSE 0
BodyUnder(e, n) == FoldLeft(LAMBDA x, i : x.body, e, [i \in 1 .. n |-> i])
beta(f, args) ==
  LET n == lambda_prefix(f, Len(args))
  IN  foldl_apps(inst(BodyUnder(f, n), SubSeq(args, 1, n)), SubSeq(args, n + 1, Len(args)))

\* One step at the head, without unfolding a definition.
reduce_head(e, s) ==
  LET f == unfold_apps_fun(e)
      args == unfold_apps_args(e)
  IN  CASE f.k = "proj" ->
             Then(reduce_proj(f.idx, f.structure, s),
               LAMBDA r, s1 : Ret(IF r = NoExpr THEN NoExpr ELSE foldl_apps(r, args), s1))
        [] f.k = "lambda" /\ args # <<>> -> Ret(beta(f, args), s)
        [] f.k = "let" -> Ret(foldl_apps(inst(f.body, <<f.val>>), args), s)
        [] f.k = "const" ->
             Then(reduce_quot(f.name, args, s),
               LAMBDA r, s1 : IF r # NoExpr THEN Ret(r, s1) ELSE reduce_rec(f.name, args, s1))
        [] f.k = "var" -> Panics(s)
        [] OTHER -> Ret(NoExpr, s)

\* Only what was reduced is kept.
whnf_no_unfolding_body(e, s) ==
  IF e \in DOMAIN s.whnf_no_unfolding_cache THEN Ret(s.whnf_no_unfolding_cache[e], s)
  ELSE Then(reduce_head(e, s),
         LAMBDA r, s1 :
           IF r = NoExpr THEN Ret(e, s1)
           ELSE Then(whnf_no_unfolding(r, s1),
                  LAMBDA w, s2 : Ret(w, [s2 EXCEPT !.whnf_no_unfolding_cache = (e :> w) @@ @])))

\* Mutant: a definition is kept folded if its arguments could be reduced.
whnf_loop_early(e, cursor, s) ==
  Then(whnf_no_unfolding(cursor, s),
    LAMBDA w, s1 : IF w # cursor \/ unfold_def(w) = NoExpr
                   THEN Ret(w, [s1 EXCEPT !.whnf_cache = (e :> w) @@ @])
                   ELSE whnf_loop(e, unfold_def(w), s1))

whnf_loop(e, cursor, s) ==
  Then(whnf_no_unfolding(cursor, s),
    LAMBDA w, s1 :
      Then(try_reduce_nat(w, s1),
        LAMBDA n, s2 : IF n # NoExpr THEN whnf_loop(e, n, s2)
                       ELSE IF unfold_def(w) # NoExpr THEN whnf_loop(e, unfold_def(w), s2)
                       ELSE Ret(w, [s2 EXCEPT !.whnf_cache = (e :> w) @@ @])))

whnf_body(e, s) ==
  IF e.k = "nat" THEN Ret(e, s)
  ELSE IF e \in DOMAIN s.whnf_cache THEN Ret(s.whnf_cache[e], s)
  ELSE whnf_loop(e, e, s)

------------------------------------------------------------------------------
(***************************************************************************)
(* Equality: the same term, found equal before, proofs of one proposition, *)
(* or equal by conversion.                                                 *)
(***************************************************************************)
check_uf_eq(x, y, s) == \E c \in s.eq_cache : {x, y} \subseteq c
union(x, y, s) ==
  LET joined == {c \in s.eq_cache : x \in c \/ y \in c}
  IN  [s EXCEPT !.eq_cache = (@ \ joined) \cup {{x, y} \cup UNION joined}]

is_proof(e, s) ==
  Then(infer(e, "InferOnly", s),
    LAMBDA t, s1 : Then(is_proposition(t, s1), LAMBDA p, s2 : Ret([is |-> p, ty |-> t], s2)))

\* Mutant: proofs of any two propositions are the same.
proof_irrel_any(x, y, s) ==
  Then(is_proof(x, s), LAMBDA px, s1 : IF ~ px.is THEN Ret(FALSE, s1)
                                       ELSE Then(is_proof(y, s1), LAMBDA py, s2 : Ret(py.is, s2)))

proof_irrel_eq(x, y, s) ==
  Then(is_proof(x, s),
    LAMBDA px, s1 :
      IF ~ px.is THEN Ret(FALSE, s1)
      ELSE Then(is_proof(y, s1),
             LAMBDA py, s2 : IF ~ py.is THEN Ret(FALSE, s2) ELSE def_eq(px.ty, py.ty, s2)))

Answered(r, s) == Ret(r.ok, [s EXCEPT !.conv = r.s])
conv_def_eq(x, y, s) == Answered(def_eq_core(x, y, s.conv), s)

def_eq_body(x, y, s) ==
  IF x = y \/ check_uf_eq(x, y, s) THEN Ret(TRUE, s)
  ELSE Then(proof_irrel_eq(x, y, s),
         LAMBDA irrel, s1 :
           Then(IF irrel THEN Ret(TRUE, s1) ELSE conv_def_eq(x, y, s1),
             LAMBDA same, s2 : Ret(same, IF same THEN union(x, y, s2) ELSE s2)))

------------------------------------------------------------------------------
(***************************************************************************)
(* Inference                                                               *)
(***************************************************************************)
\* The binders at the front of e, opened with free variables that are numbered
\* from the outside; universes are those of the binder types.
open_binders(e, kind, flag, locals, universes, s) ==
  IF e.k # kind THEN Ret([body |-> inst(e, locals), locals |-> locals, universes |-> universes], s)
  ELSE LET t == inst(e.binder_type, locals)
       IN  Then(IF kind = "pi" \/ flag = "Check" THEN infer_sort_of(t, flag, s) ELSE Ret(0, s),
             LAMBDA u, s1 :
               open_binders(e.body, kind, flag, Append(locals, Local(s1.dbj_level_counter, t)),
                            Append(universes, u), [s1 EXCEPT !.dbj_level_counter = @ + 1]))

\* replace_dbj_level of all locals, the last of which was made last.
replace_dbj_levels(locals, s) == [s EXCEPT !.dbj_level_counter = @ - Len(locals)]

\* Mutant: a variable is given back after its type is closed, not before.
close_binders_first(body, locals, start_pos) ==
  FoldRight(LAMBDA i, t : Pi(abstr_levels(locals[i].binder_type, start_pos, start_pos + i), t),
            [i \in DOMAIN locals |-> i], abstr_levels(body, start_pos, start_pos + Len(locals)))

\* The function type over locals, whose levels start at start_pos.
close_binders(body, locals, start_pos) ==
  FoldRight(LAMBDA i, t : Pi(abstr_levels(locals[i].binder_type, start_pos, start_pos + i - 1), t),
            [i \in DOMAIN locals |-> i], abstr_levels(body, start_pos, start_pos + Len(locals)))

infer_lambda(e, flag, s) ==
  Then(open_binders(e, "lambda", flag, <<>>, <<>>, s),
    LAMBDA o, s1 : Then(infer(o.body, flag, s1),
      LAMBDA t, s2 : Ret(close_binders(t, o.locals, s.dbj_level_counter), replace_dbj_levels(o.locals, s2))))

\* Mutant: the last variable is not given back.
infer_pi_leaves_one(e, flag, s) ==
  Then(open_binders(e, "pi", flag, <<>>, <<>>, s),
    LAMBDA o, s1 : Then(infer_sort_of(o.body, flag, s1),
      LAMBDA u, s2 : Ret(Sort(FoldRight(imax, o.universes, u)), replace_dbj_levels(Tail(o.locals), s2))))

infer_pi(e, flag, s) ==
  Then(open_binders(e, "pi", flag, <<>>, <<>>, s),
    LAMBDA o, s1 : Then(infer_sort_of(o.body, flag, s1),
      LAMBDA u, s2 :
        LET s3 == replace_dbj_levels(o.locals, s2)
        IN  Require(s3.dbj_level_counter = s.dbj_level_counter, Sort(FoldRight(imax, o.universes, u)), s3)))

\* The type of an application, fun being the type of what ctx is to be put into.
app_spine(fun, args, ctx, flag, s) ==
  IF args = <<>> THEN Ret(inst(fun, ctx), s)
  ELSE IF fun.k # "pi" THEN Then(ensure("pi", inst(fun, ctx), s), LAMBDA p, s1 : app_spine(p, args, <<>>, flag, s1))
  ELSE Then(IF flag # "Check" THEN Ret(TRUE, s)
            ELSE Then(infer(args[1], flag, s),
                   LAMBDA t, s1 : assert_def_eq(inst(fun.binder_type, ctx), t, s1)),
         LAMBDA ok, s2 : app_spine(fun.body, Tail(args), Append(ctx, args[1]), flag, s2))

infer_app(e, flag, s) ==
  Then(infer(unfold_apps_fun(e), flag, s),
    LAMBDA f, s1 : app_spine(f, unfold_apps_args(e), <<>>, flag, s1))

\* The value takes the variable's place in the body.
infer_let(e, flag, s) ==
  Then(IF flag # "Check" THEN Ret(TRUE, s)
       ELSE Then(infer_sort_of(e.binder_type, flag, s),
              LAMBDA u, s1 : Then(infer(e.val, flag, s1),
                LAMBDA t, s2 : assert_def_eq(t, e.binder_type, s2))),
    LAMBDA ok, s3 : infer(inst(e.body, <<e.val>>), flag, s3))

apply_params(t, args, s) ==
  IF args = <<>> THEN Ret(t, s)
  ELSE Then(whnf(t, s),
         LAMBDA w, s1 : IF w.k # "pi" THEN Panics(s1) ELSE apply_params(inst(w.body, <<args[1]>>), Tail(args), s1))

\* The type of field idx in the telescope t, which starts at field i.  Of a
\* proof only proofs can be taken, and only if those it depends on can be.
field_binder(t, i, idx, e, prop, s) ==
  Then(whnf(t, s),
    LAMBDA w, s1 :
      IF w.k # "pi" THEN Panics(s1)
      ELSE Then(IF prop /\ (i = idx \/ num_loose_bvars(w.body) # 0) THEN is_proposition(w.binder_type, s1)
                                                                     ELSE Ret(TRUE, s1),
             LAMBDA may, s2 :
               IF ~ may THEN Panics(s2)
               ELSE IF i = idx THEN Ret(w.binder_type, s2)
               ELSE field_binder(inst(w.body, <<Proj(e.ty_name, i, e.structure)>>), i + 1, idx, e, prop, s2)))

infer_proj(e, flag, s) ==
  Then(infer_then_whnf(e.structure, flag, s),
    LAMBDA t, s1 : Then(is_proposition(t, s1),
      LAMBDA prop, s2 :
        LET S == unfold_apps_fun(t).name
            args == unfold_apps_args(t)
        IN  IF unfold_apps_fun(t).k # "const" THEN Panics(s2)
            ELSE IF ~ IsOfKind(S, {"induct"}) THEN Panics(s2)
            ELSE IF declars[S].ctors = <<>> \/ Len(args) < declars[S].num_params THEN Panics(s2)
            ELSE Then(apply_params(declars[declars[S].ctors[1]].ty, SubSeq(args, 1, declars[S].num_params), s2),
                   LAMBDA ct, s3 : field_binder(ct, 0, e.idx, [e EXCEPT !.ty_name = S], prop, s3))))

infer_no_cache(e, flag, s) ==
  CASE e.k \in {"local", "unique"} -> Ret(e.binder_type, s)
    [] e.k = "var" -> Panics(s)
    [] e.k = "sort" -> Ret(Sort(e.level + 1), s)
    [] e.k = "nat" -> Ret(Const("Nat"), s)
    [] e.k = "const" -> IF get_declar(e.name) THEN Ret(declars[e.name].ty, s) ELSE Panics(s)
    [] e.k = "app" -> infer_app(e, flag, s)
    [] e.k = "pi" -> infer_pi(e, flag, s)
    [] e.k = "lambda" -> infer_lambda(e, flag, s)
    [] e.k = "let" -> infer_let(e, flag, s)
    [] e.k = "proj" -> infer_proj(e, flag, s)

\* Mutant: one cache for both flags.
KeepTypeOnce(e, t, flag, s) == [s EXCEPT !.infer_cache_check = (e :> t) @@ @]

KeepType(e, t, flag, s) ==
  IF flag = "Check" THEN [s EXCEPT !.infer_cache_check = (e :> t) @@ @]
                    ELSE [s EXCEPT !.infer_cache_no_check = (e :> t) @@ @]

infer_body(e, flag, s) ==
  IF e \in DOMAIN s.infer_cache_check THEN Ret(s.infer_cache_check[e], s)
  ELSE IF flag = "InferOnly" /\ e \in DOMAIN s.infer_cache_no_check THEN Ret(s.infer_cache_no_check[e], s)
  ELSE Then(infer_no_cache(e, flag, s), LAMBDA t, s1 : Ret(t, KeepType(e, t, flag, s1)))

------------------------------------------------------------------------------
\* check_declar_info: the declared type is closed and a type, that of a theorem
\* a proposition.
check_declar_info(d, s) ==
  IF has_fvars(d.ty) THEN Panics(s)
  ELSE Then(ensure_infers_as_sort(d.ty, s),
         LAMBDA l, s1 : Require(d.kind = "thm" => l = 0, l, s1))

\* check_declar of an axiom, or of a declaration with a value, by a new checker.
check_declar_body(d, s0) ==
  Then(check_declar_info(d, s0),
    LAMBDA l, s : IF d.kind = "axiom" THEN Ret(TRUE, s)
                  ELSE Then(infer(d.val, "Check", s), LAMBDA t, s1 : assert_def_eq(t, d.ty, s1)))

Call(op, a, s) ==
  CASE op = "infer" -> infer_body(a[1], a[2], s)
    [] op = "whnf" -> whnf_body(a[1], s)
    [] op = "whnf_no_unfolding" -> whnf_no_unfolding_body(a[1], s)
    [] op = "def_eq" -> def_eq_body(a[1], a[2], s)
    [] op = "infer_then_whnf" -> infer_then_whnf(a[1], a[2], s)
    [] op = "assert_def_eq" -> assert_def_eq(a[1], a[2], s)
    [] op = "ensure_sort" -> ensure("sort", a[1], s)
    [] op = "ensure_infers_as_sort" -> ensure_infers_as_sort(a[1], s)
    [] op = "check_declar_info" -> check_declar_info(a[1], s)
    [] op = "check_declar" -> check_declar_body(a[1], s)

check_declar(d) == Call("check_declar", <<d>>, NewTypeChecker)
==============================================================================
