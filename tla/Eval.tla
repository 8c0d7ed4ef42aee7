-------------------------------- MODULE Eval ---------------------------------
(***************************************************************************)
(* The evaluator (eval.rs): expressions to values, in which bound          *)
(* variables are levels, functions are closures, arguments that are not    *)
(* atoms wait as thunks, and a definition stays folded, with its           *)
(* arguments, until it is asked for.  And the conversion checker (conv.rs) *)
(* that the evaluator calls for K-like reduction: whether two values are   *)
(* definitionally equal.                                                   *)
(*                                                                         *)
(* The operations are those of the code in its order, each given what the  *)
(* earlier ones have left (module Values): an answer can depend on it.     *)
(***************************************************************************)
EXTENDS Values

(***************************************************************************)
(* The operations that call each other all go through Run, which is given  *)
(* the operation and its arguments and is defined at the end.              *)
(***************************************************************************)
RECURSIVE Run(_, _), eval_chain(_, _, _), eval_let(_, _, _), scan_free(_, _), strip_head(_, _),
          apply_fields(_, _, _, _, _, _), telescope(_, _, _, _, _, _)

eval(env, e, s) == Run("eval", <<env, e, s>>)
apply(f, a, s) == Run("apply", <<f, a, s>>)
apply_all(f, args, s) == Run("apply_all", <<f, args, s>>)
apply_spine(v, sp, s) == Run("apply_spine", <<v, sp, s>>)
spine_apps(sp, s) == Run("spine_apps", <<sp, s>>)
value_has_free_bvar(v, s) == Run("free", <<v, s>>)
value_to_bignum_at(v, deep, succs, s) == Run("bignum", <<v, deep, succs, s>>)
do_nat_red_at(name, args, deep, s) == Run("nat_red", <<name, args, deep, s>>)
whnf_head(v, s) == Run("whnf_head", <<v, s>>)
force_from(v, waiting, s) == Run("force_from", <<v, waiting, s>>)
iota_step(v, s) == Run("iota_step", <<v, s>>)
unwind(v, waiting, s) == Run("unwind", <<v, waiting, s>>)
force_all(v, s) == force_from(v, <<>>, s)
value_type(v, s) == Run("value_type", <<v, s>>)
spine_type(ty, head, pre, sp, s) == Run("spine_type", <<ty, head, pre, sp, s>>)
spine_type_with_value(ty, prev, sp, s) == Run("spine_type_with_value", <<ty, prev, sp, s>>)
proj_field_type_with(v, ty, S, i, s) == Run("field_type", <<v, ty, S, i, s>>)
unfold_value_go(v, force, s) == Run("unfold", <<v, force, s>>)
iota_value(v, s) == Run("iota", <<v, s>>)
try_k_reduce(major, rec, s) == Run("k_reduce", <<major, rec, s>>)
try_struct_eta_reduce(major, rec, s) == Run("eta_reduce", <<major, rec, s>>)
fire(head, args, major, s) == Run("fire", <<head, args, major, s>>)
do_proj(S, i, v, s) == Run("proj", <<S, i, v, s>>)
unify(d, x, y, s) == Run("unify", <<d, x, y, s>>)

unfold_value(v, s) == IF s.arena[v].k = "unfold" THEN unfold_value_go(v, FALSE, s) ELSE Gives(v, s)

\* A thunk keeps what it was found to be.
force_thunk(v, s) ==
  LET w == s.arena[v]
      r == eval(w.env, w.expr, s)
  IN  IF w.k # "thunk" THEN Gives(v, s)
      ELSE IF w.forced # Null THEN Gives(w.forced, s)
      ELSE Gives(r.v, [r.s EXCEPT !.arena[v].forced = r.v])

\* The arguments on a spine, forced from the last to the first; a projection
\* among them ends it, with none.
NoArgs == <<Null>>
spine_apps_body(sp, s) ==
  IF sp = <<>> THEN Gives(<<>>, s)
  ELSE IF Last(sp).el = "proj" THEN Gives(NoArgs, s)
  ELSE LET arg == force_thunk(Last(sp).v, s)
           prev == spine_apps(Front(sp), arg.s)
       IN  Gives(IF prev.v = NoArgs THEN NoArgs ELSE Append(prev.v, arg.v), prev.s)

apply_closure(clo, v, s) == eval(<<v>> \o clo.env, clo.body, s)

apply_all_body(f, args, s) ==
  IF args = <<>> THEN Gives(f, s) ELSE LET r == apply(f, args[1], s) IN apply_all(r.v, Tail(args), r.s)

------------------------------------------------------------------------------
(***************************************************************************)
(* Evaluation                                                              *)
(***************************************************************************)
NewCell(n, s) == Alloc(Unfold(n, <<>>, Len(s.cells) + 1), [s EXCEPT !.cells = Append(@, Null)])
eval_const(n, s) ==
  Memo("const_head_value_cache", n,
       IF has_declar_val(n) THEN NewCell(n, s)
       ELSE Alloc(Rigid(HeadOf(IF IsOfKind(n, {"ctor", "rec", "quot", "induct"}) THEN declars[n].kind ELSE "axiom", n),
                        <<>>), s), s)

Atoms == {"var", "sort", "const", "nat", "local", "unique"}
delay(env, e, s) == IF e.k \in Atoms THEN eval(env, e, s) ELSE Alloc(Thunk(env, e), s)

(***************************************************************************)
(* An argument that is itself an application is evaluated first, a chain   *)
(* of them from the inside, and a function that comes twice in a row is    *)
(* evaluated once.  The steps of a chain are not kept.                     *)
(***************************************************************************)
eval_chain(env, e, s) ==
  IF e.k # "app" THEN LET leaf == eval(env, e, s) IN [v |-> leaf.v, s |-> leaf.s, fun |-> NoExpr, f |-> Null]
  ELSE LET inner == eval_chain(env, e.arg, s)
           f == IF e.fun = inner.fun THEN Gives(inner.f, inner.s) ELSE eval(env, e.fun, inner.s)
           r == apply(f.v, inner.v, f.s)
       IN  [v |-> r.v, s |-> r.s, fun |-> e.fun, f |-> f.v]

\* Any other argument waits, unless it is an atom.
eval_app(env, e, s) ==
  LET f == eval(env, e.fun, s)
      a == delay(env, e.arg, f.s)
      chain == eval_chain(env, e, s)
  IN  IF e.arg.k = "app" THEN Gives(chain.v, chain.s) ELSE apply(f.v, a.v, a.s)

\* Only the body of the innermost of nested lets is looked up.
eval_let(env, e, s) ==
  LET val == eval(env, e.val, s)
  IN  IF e.k = "let" THEN eval_let(<<val.v>> \o env, e.body, val.s) ELSE eval(env, e, s)

eval_no_cache(env, e, s) ==
  LET dom == delay(env, e.binder_type, s)
      struct == eval(env, e.structure, s)
  IN  CASE e.k = "var" -> force_thunk(env[e.dbj_idx + 1], s)
        [] e.k = "sort" -> Alloc(VSort(e.level), s)
        [] e.k = "const" -> eval_const(e.name, s)
        [] e.k = "app" -> eval_app(env, e, s)
        [] e.k = "lambda" -> Alloc(Lam(e.binder_type, env, e.body), s)
        [] e.k = "pi" -> Alloc(VPi(dom.v, env, e.body), dom.s)
        [] e.k = "let" -> eval_let(env, e, s)
        [] e.k \in {"local", "unique"} -> Memo("local_v_cache", e, Alloc(Rigid(LocalHead(e), <<>>), s), s)
        [] e.k = "proj" -> do_proj(e.ty_name, e.idx, struct.v, struct.s)
        [] e.k = "nat" -> Alloc(VNat(e.n), s)

\* The value of a closed term is kept, whatever the environment; that of an
\* open one in its environment, from the second time on that it is evaluated.
KeepOpen(env, e, r) ==
  Gives(r.v, IF e \in r.s.open_eval_seen THEN Keep("open_eval_cache", <<env, e>>, r.v, r.s)
             ELSE [r.s EXCEPT !.open_eval_seen = @ \cup {e}])
eval_body(env, e, s) ==
  IF e.k \in Atoms THEN eval_no_cache(env, e, s)
  ELSE IF num_loose_bvars(e) = 0 THEN Memo("closed_eval_cache", e, eval_no_cache(env, e, s), s)
  ELSE IF <<env, e>> \in DOMAIN s.open_eval_cache THEN Gives(s.open_eval_cache[<<env, e>>], s)
  ELSE KeepOpen(env, e, eval_no_cache(env, e, s))

lam_domain(v, s) ==
  LET w == s.arena[v]
      r == eval(w.env, w.binder_type, s)
  IN  IF w.k = "vpi" \/ w.domain # Null THEN Gives(w.domain, s)
      ELSE Gives(r.v, [r.s EXCEPT !.arena[v].domain = r.v])

------------------------------------------------------------------------------
(***************************************************************************)
(* Literals.  Operations on numerals are computed when all arguments are   *)
(* numerals; `deep` says whether an argument may be reduced to find out.   *)
(***************************************************************************)
NoNum == -1
GoOps == {"Nat.div.go", "Nat.modCore.go"}
RedNames == {"Nat.succ"} \cup GoOps \cup BinOps \cup BoolOps

scan_free(sp, s) ==
  IF sp = <<>> THEN Gives(FALSE, s)
  ELSE IF Last(sp).el = "proj" THEN scan_free(Front(sp), s)
  ELSE LET r == value_has_free_bvar(Last(sp).v, s) IN IF r.v THEN r ELSE scan_free(Front(sp), r.s)

free_body(v, s) ==
  LET r == force_thunk(v, s)
      w == r.s.arena[r.v]
  IN  CASE IsRigid(w, {"bvar", "local"}) -> Gives(TRUE, r.s)
        [] w.k \in {"rigid", "unfold"} /\ ~ IsRigid(w, {"bvar", "local"}) -> scan_free(w.spine, r.s)
        [] OTHER -> Gives(FALSE, r.s)

\* A closed value is reduced to see whether it is a numeral.
bignum_via_force(v, s) ==
  LET free == value_has_free_bvar(v, s)
      f == force_all(v, free.s)
      w == f.s.arena[f.v]
  IN  IF free.v THEN Gives(NoNum, free.s)
      ELSE IF w.k = "vnat" THEN Gives(w.n, f.s)
      ELSE IF f.v # v /\ (IsCtor(w, "Nat.zero") \/ IsCtor(w, "Nat.succ")) THEN value_to_bignum_at(f.v, TRUE, 0, f.s)
      ELSE Gives(NoNum, f.s)

\* A folded constant that is known to be a literal is one, deep or not.
bignum_body(v, deep, succs, s) ==
  LET r == force_thunk(v, s)
      w == r.s.arena[r.v]
      cell == r.s.cells[w.cell]
      n == bignum_via_force(r.v, r.s)
      forced == IF deep THEN Gives(IF n.v = NoNum THEN NoNum ELSE n.v + succs, n.s) ELSE Gives(NoNum, r.s)
  IN  CASE w.k = "vnat" -> Gives(w.n + succs, r.s)
        [] IsCtor(w, "Nat.zero") -> Gives(IF w.spine = <<>> THEN succs ELSE NoNum, r.s)
        [] IsCtor(w, "Nat.succ") ->
             IF Len(w.spine) = 1 THEN value_to_bignum_at(w.spine[1].v, deep, succs + 1, r.s) ELSE Gives(NoNum, r.s)
        [] w.k = "unfold" ->
             IF cell = Null THEN forced
             ELSE IF r.s.arena[cell].k = "vnat" THEN Gives(r.s.arena[cell].n + succs, r.s) ELSE forced
        [] IsRigid(w, IotaHeads) -> forced
        [] OTHER -> Gives(NoNum, r.s)

bool_val(b, s) == Alloc(Rigid(HeadOf("ctor", IF b THEN "Bool.true" ELSE "Bool.false"), <<>>), s)

\* do_nat_red_at: Null when some argument is not a numeral.  The divisor comes
\* first among the arguments of GoOps.
nat_red_body(name, args, deep, s) ==
  LET go == name \in GoOps
      arity == CASE name = "Nat.succ" -> 1 [] go -> 5 [] OTHER -> 2
      n1 == value_to_bignum_at(args[1], deep, 0, s)
      n2 == value_to_bignum_at(args[IF go THEN 4 ELSE 2], deep, 0, n1.s)
      op == CASE name = "Nat.div.go" -> "Nat.div" [] name = "Nat.modCore.go" -> "Nat.mod" [] OTHER -> name
      res == IF go THEN do_nat_bin(n2.v, n1.v, op) ELSE do_nat_bin(n1.v, n2.v, op)
  IN  IF Len(args) # arity THEN Gives(Null, s)
      ELSE IF n1.v = NoNum THEN Gives(Null, n1.s)
      ELSE IF name = "Nat.succ" THEN Alloc(VNat(n1.v + 1), n1.s)
      ELSE IF n2.v = NoNum THEN Gives(Null, n2.s)
      ELSE IF op \in BoolOps THEN bool_val(res, n2.s) ELSE Alloc(VNat(res), n2.s)

\* nat_red_defer: counting down a large literal by recursion waits.
nat_red_defer(name, args, s) ==
  /\ name \in {"Nat.add", "Nat.sub", "Nat.mul", "Nat.pow"} /\ Len(args) = 2
  /\ s.arena[args[2]].k = "vnat" /\ s.arena[args[2]].n >= DeferFrom

\* try_fire_rigid: succ of a numeral is a numeral, another is not shared.
try_fire_rigid(w, s) ==
  LET n == value_to_bignum_at(w.spine[1].v, FALSE, 0, s)
  IN  IF Len(w.spine) # 1 THEN Alloc(w, s)
      ELSE IF n.v # NoNum THEN Alloc(VNat(n.v + 1), n.s) ELSE Alloc(w, n.s)

\* Operations on numerals, on all the arguments of a spine.
nat_red_spine(name, sp, deep, s) ==
  LET args == spine_apps(sp, s)
  IN  IF args.v = NoArgs THEN Gives(Null, args.s) ELSE do_nat_red_at(name, args.v, deep, args.s)

apply_body(f, a, s) ==
  LET w == s.arena[f]
      arg == canonicalize_for_spine(a, s)
      red == nat_red_spine(w.name, Append(w.spine, AppElim(a)), FALSE, s)
  IN  CASE w.k = "lam" -> apply_closure(w, a, s)
        [] IsCtor(w, "Nat.succ") -> try_fire_rigid([w EXCEPT !.spine = Append(@, AppElim(a))], s)
        [] w.k = "rigid" /\ ~ IsCtor(w, "Nat.succ") -> spine_snoc_hc(w, AppElim(arg.v), arg.s)
        [] w.k = "unfold" ->
             IF w.name \notin RedNames THEN spine_snoc_hc(w, AppElim(arg.v), arg.s)
             ELSE IF red.v # Null THEN red ELSE spine_snoc_hc(w, AppElim(a), red.s)

nat_lit_to_ctor_val(n, s) ==
  LET zero == Alloc(Rigid(HeadOf("ctor", "Nat.zero"), <<>>), s)
      pred == Alloc(VNat(n - 1), s)
      succ == Alloc(Rigid(HeadOf("ctor", "Nat.succ"), <<>>), pred.s)
  IN  IF n = 0 THEN zero ELSE apply(succ.v, pred.v, succ.s)

------------------------------------------------------------------------------
(***************************************************************************)
(* Projections and unfolding                                               *)
(***************************************************************************)
proj_body(S, i, v, s) ==
  LET r == whnf_head(v, s)
      w == r.s.arena[r.v]
      pos == declars[w.head.name].num_params + i + 1
      ctor == nat_lit_to_ctor_val(w.n, r.s)
      stays == spine_snoc_hc(w, ProjElim(S, i), r.s)
  IN  IF w.k = "vnat" THEN do_proj(S, i, ctor.v, ctor.s)
      ELSE IF ~ IsRigid(w, {"ctor"}) THEN stays
      ELSE IF declars[w.head.name].induct # S \/ Len(w.spine) < pos THEN stays
      ELSE force_thunk(w.spine[pos].v, r.s)

apply_spine_body(v, sp, s) ==
  IF sp = <<>> THEN Gives(v, s)
  ELSE LET r == IF sp[1].el = "app" THEN apply(v, sp[1].v, s) ELSE do_proj(sp[1].ty_name, sp[1].idx, v, s)
       IN  apply_spine(r.v, Tail(sp), r.s)

unfold_const(n, s) == Memo("unfold_const_cache", n, eval(<<>>, declars[n].val, s), s)

\* The value of the constant, kept in the cell that its copies share.
head_value(w, s) ==
  LET r == unfold_const(w.name, s)
  IN  IF s.cells[w.cell] # Null THEN Gives(s.cells[w.cell], s)
      ELSE Gives(r.v, [r.s EXCEPT !.cells[w.cell] = r.v])

\* unfold_value is this without force, unfold_value_demand with it unless a
\* comparison is only being tried.  What cannot be unfolded is returned.
unfold_body(v, force, s) ==
  LET w == s.arena[v]
      red == w.name \in RedNames
      args == IF red THEN spine_apps(w.spine, s) ELSE Gives(NoArgs, s)
      num == IF args.v = NoArgs THEN Gives(Null, args.s) ELSE do_nat_red_at(w.name, args.v, TRUE, args.s)
      hv == head_value(w, num.s)
      body == apply_spine(hv.v, w.spine, hv.s)
      Forced(r) == Gives(r.v, [r.s EXCEPT !.arena[v].forced = r.v])
  IN  IF w.forced # Null THEN Gives(w.forced, s)
      ELSE IF num.v # Null THEN Forced(num)
      ELSE IF args.v # NoArgs /\ ~ force /\ nat_red_defer(w.name, args.v, num.s) THEN Gives(v, num.s)
      ELSE Forced(body)

whnf_head_body(v, s) ==
  LET t == force_thunk(v, s)
      w == t.s.arena[t.v]
      r == IF w.k = "unfold" THEN unfold_value(t.v, t.s) ELSE iota_value(t.v, t.s)
  IN  IF w.k # "unfold" /\ ~ IsRigid(w, IotaHeads) THEN t
      ELSE IF r.v \in {Null, t.v} THEN Gives(t.v, r.s) ELSE whnf_head(r.v, r.s)

------------------------------------------------------------------------------
(***************************************************************************)
(* Types of values                                                         *)
(***************************************************************************)
const_head_type(n, s) == Memo("const_head_type_cache", n, eval(<<>>, declars[n].ty, s), s)

rigid_head_type(h, s) == CASE h.h = "bvar" -> Gives(h.ty, s)
                           [] h.h = "local" -> eval(<<>>, h.e.binder_type, s)
                           [] OTHER -> const_head_type(h.name, s)

\* The body of the function type ty, for an argument v.
instance(ty, v, s) ==
  LET f == force_all(ty, s) IN apply_closure(f.s.arena[f.v], v, f.s)

\* The telescope ty of a constructor, for the parameters and then for the
\* fields of the structure v up to the n-th.
telescope(ty, params, S, v, fields, s) ==
  LET f == force_all(ty, s)
      prior == do_proj(S, fields[1], v, f.s)
      param == instance(ty, params[1], s)
      field == apply_closure(f.s.arena[f.v], prior.v, prior.s)
  IN  IF params # <<>> THEN telescope(param.v, Tail(params), S, v, fields, param.s)
      ELSE IF fields # <<>> THEN telescope(field.v, params, S, v, Tail(fields), field.s)
      ELSE f

field_type_body(v, ty, S, i, s) ==
  LET ind == force_all(ty, s)
      args == spine_apps(ind.s.arena[ind.v].spine, ind.s)
      ctor == eval(<<>>, declars[declars[S].ctors[1]].ty, args.s)
      f == telescope(ctor.v, SubSeq(args.v, 1, declars[S].num_params), S, v, [j \in 1 .. i |-> j - 1], ctor.s)
  IN  Gives(f.s.arena[f.v].domain, f.s)

\* The type of the head, of type ty, under the eliminations of sp; those of pre
\* are done.
spine_type_body(ty, head, pre, sp, s) ==
  LET prev == Alloc(Rigid(head, pre), s)
      next == IF sp[1].el = "app" THEN instance(ty, sp[1].v, s)
              ELSE proj_field_type_with(prev.v, ty, sp[1].ty_name, sp[1].idx, prev.s)
  IN  IF sp = <<>> THEN Gives(ty, s) ELSE spine_type(next.v, head, Append(pre, sp[1]), Tail(sp), next.s)

\* The same for a definition, whose prefix is the value prev.
spine_type_with_value_body(ty, prev, sp, s) ==
  LET app == sp[1].el = "app"
      next == IF app THEN instance(ty, sp[1].v, s) ELSE proj_field_type_with(prev, ty, sp[1].ty_name, sp[1].idx, s)
      after == IF app THEN apply(prev, sp[1].v, next.s) ELSE do_proj(sp[1].ty_name, sp[1].idx, prev, next.s)
  IN  IF sp = <<>> THEN Gives(ty, s) ELSE spine_type_with_value(next.v, after.v, Tail(sp), after.s)

\* The head that stands for a definition here is a constant of its own, in
\* whose cell is the type.
unfold_type(w, s) ==
  LET ty == const_head_type(w.name, s)
      new == [ty.s EXCEPT !.cells = Append(@, ty.v)]
      prev == Alloc([Unfold(w.name, <<>>, Len(new.cells)) EXCEPT !.forced = ty.v], new)
  IN  spine_type_with_value(ty.v, prev.v, w.spine, prev.s)

value_type_body(v, s) ==
  LET t == force_thunk(v, s)
      w == t.s.arena[t.v]
      head_ty == rigid_head_type(w.head, t.s)
  IN  CASE w.k = "vsort" -> Alloc(VSort(w.level + 1), t.s)
        [] w.k = "vnat" -> Alloc(Rigid(HeadOf("induct", "Nat"), <<>>), t.s)
        [] w.k = "rigid" -> spine_type(head_ty.v, w.head, <<>>, w.spine, head_ty.s)
        [] w.k = "unfold" -> unfold_type(w, t.s)

------------------------------------------------------------------------------
(***************************************************************************)
(* Recursors and quotients                                                 *)
(***************************************************************************)
\* The arguments of an inductive type, applied, or NoArgs.
unwrap_inductive_app(v, s) ==
  LET w == s.arena[v] IN IF IsRigid(w, {"induct"}) THEN spine_apps(w.spine, s) ELSE Gives(NoArgs, s)

\* The constructor c applied to the fields of `of` from number i on.
apply_fields(c, S, of, i, n, s) ==
  LET proj == do_proj(S, i, of, s)
      r == apply(c, proj.v, proj.s)
  IN  IF i = n THEN Gives(c, s) ELSE apply_fields(r.v, S, of, i + 1, n, r.s)

\* The constructor of the inductive type S applied to the first n of args.
apply_ctor(S, args, n, s) ==
  LET c == Alloc(Rigid(HeadOf("ctor", declars[S].ctors[1]), <<>>), s)
  IN  apply_all(c.v, SubSeq(args, 1, IF n < Len(args) THEN n ELSE Len(args)), c.s)

\* A major premise of structure type is taken apart by its projections.
try_struct_eta_reduce_uncached(major, rec, s) ==
  LET S == get_major_induct(rec)
      ty == value_type(major, s)
      tyf == force_all(ty.v, ty.s)
      args == unwrap_inductive_app(tyf.v, tyf.s)
      c == apply_ctor(S, args.v, rec.num_params, args.s)
  IN  IF args.v = NoArgs THEN Gives(Null, args.s)
      ELSE IF tyf.s.arena[tyf.v].head.name # S THEN Gives(Null, args.s)
      ELSE apply_fields(c.v, S, major, 0, declars[declars[S].ctors[1]].num_fields, c.s)

CanHaveEta(major, s) == s.arena[major].k \in {"rigid", "unfold"}
eta_reduce_body(major, rec, s) ==
  IF ~ CanHaveEta(major, s) \/ ~ can_be_struct(get_major_induct(rec)) THEN Gives(Null, s)
  ELSE Memo("struct_eta_cache", <<major, get_major_induct(rec)>>, try_struct_eta_reduce_uncached(major, rec, s), s)

\* A major premise whose type is that of the only constructor, which has no
\* fields, counts as that constructor, whatever it reduces to.  The types are
\* compared at depth 0, within whatever comparison is going on.
k_reduce_body(major, rec, s) ==
  LET S == get_major_induct(rec)
      ty == value_type(major, s)
      tyf == force_all(ty.v, ty.s)
      args == unwrap_inductive_app(tyf.v, tyf.s)
      sizes == {rec.rules[i].size : i \in {j \in DOMAIN rec.rules : rec.rules[j].ctor = declars[S].ctors[1]}}
      mk == apply_ctor(S, args.v, rec.num_params + (IF sizes = {} THEN 0 ELSE CHOOSE n \in sizes : TRUE), args.s)
      new_ty == value_type(mk.v, mk.s)
      same == unify(0, tyf.v, new_ty.v, new_ty.s)
  IN  IF ~ rec.is_k \/ ~ CanHaveEta(major, s) THEN Gives(Null, s)
      ELSE IF args.v = NoArgs THEN Gives(Null, args.s)
      ELSE IF tyf.s.arena[tyf.v].head.name # S THEN Gives(Null, args.s)
      ELSE Gives(IF same.ok THEN mk.v ELSE Null, same.s)

\* nat_rec_natlit: the recursor of Nat on a literal makes the smaller literal.
nat_rec_natlit(n, head, rec, args, s) ==
  LET cases == rec.num_params + rec.num_motives
      step == force_thunk(args[cases + 2], s)
      pred == Alloc(VNat(n - 1), step.s)
      self == Alloc(Rigid(head, <<>>), pred.s)
      ih == apply_all(self.v, Append(SubSeq(args, 1, major_idx(rec)), pred.v), self.s)
      stepped == apply_all(step.v, <<pred.v, ih.v>>, ih.s)
      r == IF n = 0 THEN Gives(args[cases + 1], step.s) ELSE stepped
  IN  apply_all(r.v, SubSeq(args, major_idx(rec) + 2, Len(args)), r.s)

\* What the major premise counts as: the constructor of a literal, or what
\* makes it a constructor by its type.
as_ctor(major, rec, s) ==
  LET k == try_k_reduce(major, rec, s)
      eta == try_struct_eta_reduce(major, rec, k.s)
  IN  IF s.arena[major].k = "vnat" THEN nat_lit_to_ctor_val(s.arena[major].n, s)
      ELSE IF k.v # Null THEN k
      ELSE IF eta.v # Null THEN eta ELSE Gives(major, eta.s)

\* The last `size` arguments of the constructor: its parameters are skipped.
ctor_fields(cargs, size) == SubSeq(cargs, (Len(cargs) - size) + 1, Len(cargs))

\* The rule for the constructor m, if it is one.
fire_rule(rec, args, m) ==
  LET w == m.s.arena[m.v]
      cargs == spine_apps(w.spine, m.s)
      rules == {i \in 1 .. Len(rec.rules) : rec.rules[i].ctor = w.head.name}
      rule == rec.rules[CHOOSE i \in rules : TRUE]
      val == Memo("rec_rule_cache", rule.val, eval(<<>>, rule.val, cargs.s), cargs.s)
  IN  IF ~ IsRigid(w, {"ctor"}) THEN Gives(Null, m.s)
      ELSE IF cargs.v = NoArgs \/ rules = {} THEN Gives(Null, cargs.s)
      ELSE apply_all(val.v, SubSeq(args, 1, rec.num_params + rec.num_motives + rec.num_minors)
                              \o ctor_fields(cargs.v, rule.size)
                              \o SubSeq(args, major_idx(rec) + 2, Len(args)), val.s)

fire_recursor(head, args, major, s) ==
  LET rec == declars[head.name]
  IN  IF s.arena[major].k = "vnat" /\ get_major_induct(rec) = "Nat"
      THEN nat_rec_natlit(s.arena[major].n, head, rec, args, s)
      ELSE fire_rule(rec, args, as_ctor(major, rec, s))

\* Quot.lift f h (Quot.mk r a) and Quot.ind f (Quot.mk r a) are f a.
MajorPos(n) == CASE n = "Quot.lift" -> 6 [] n = "Quot.ind" -> 5 [] OTHER -> 0
fire_quot(n, args, qmk, s) ==
  LET w == s.arena[qmk]
      qargs == spine_apps(w.spine, s)
      r == apply(args[4], qargs.v[3], qargs.s)
  IN  IF ~ IsRigid(w, {"quot"}) THEN Gives(Null, s)
      ELSE IF w.head.name # "Quot.mk" THEN Gives(Null, s)
      ELSE IF qargs.v = NoArgs \/ Len(w.spine) # 3 THEN Gives(Null, qargs.s)
      ELSE apply_all(r.v, SubSeq(args, MajorPos(n) + 1, Len(args)), r.s)

fire_body(head, args, major, s) ==
  IF head.h = "rec" THEN fire_recursor(head, args, major, s) ELSE fire_quot(head.name, args, major, s)

\* The position of the major premise, 0 when there is none.
major_pos(head) == IF head.h = "rec" THEN major_idx(declars[head.name]) + 1 ELSE MajorPos(head.name)

\* With K-like reduction the major premise need not be reduced.
k_pre_reduce(head, args, s) ==
  LET rec == declars[head.name]
      c == try_k_reduce(args[major_pos(head)], rec, s)
  IN  IF head.h # "rec" THEN Gives(Null, s)
      ELSE IF ~ rec.is_k THEN Gives(Null, s)
      ELSE IF c.v = Null THEN c ELSE fire(head, args, c.v, c.s)

\* What came of an application is kept, that it is stuck too, and answers from
\* then on.
Settled(v, r) ==
  IF r.v = Null THEN Gives(Null, [r.s EXCEPT !.iota_stuck = @ \cup {v}])
  ELSE Gives(r.v, Keep("iota_cache", v, r.v, r.s))

\* do_recursor_iota and do_quot_iota.
do_iota(head, args, s) ==
  LET pos == major_pos(head)
      k == k_pre_reduce(head, args, s)
      major == IF head.h = "rec" THEN whnf_head(args[pos], k.s) ELSE force_all(args[pos], k.s)
  IN  IF pos = 0 \/ Len(args) < pos THEN Gives(Null, s)
      ELSE IF k.v # Null THEN k ELSE fire(head, args, major.v, major.s)

iota_body(v, s) ==
  LET w == s.arena[v]
      args == spine_apps(w.spine, s)
  IN  IF v \in s.iota_stuck THEN Gives(Null, s)
      ELSE IF v \in DOMAIN s.iota_cache THEN Gives(s.iota_cache[v], s)
      ELSE IF args.v = NoArgs THEN Gives(Null, args.s)
      ELSE Settled(v, do_iota(w.head, args.v, args.s))

(***************************************************************************)
(* force_all reduces with a stack of the applications that wait for their  *)
(* major premise.                                                          *)
(***************************************************************************)
strip_head(v, s) ==
  LET w == s.arena[v]
      r == IF w.k = "thunk" THEN force_thunk(v, s) ELSE unfold_value(v, s)
  IN  IF w.k \notin {"thunk", "unfold"} THEN Gives(v, s)
      ELSE IF r.v = v THEN r ELSE strip_head(r.v, r.s)

Went(to, r) == [to |-> to, v |-> r.v, s |-> r.s]
is_iota_reducible(w) == IsRigid(w, {"rec"}) \/ (IsRigid(w, {"quot"}) /\ MajorPos(w.head.name) # 0)

\* Only a major premise that is itself such an application is gone down to.
iota_step_body(v, s) ==
  LET w == s.arena[v]
      args == spine_apps(w.spine, s)
      pos == major_pos(w.head)
      k == k_pre_reduce(w.head, args.v, args.s)
      major == strip_head(args.v[pos], k.s)
      r == Settled(v, IF k.v # Null THEN k ELSE fire(w.head, args.v, major.v, major.s))
  IN  IF ~ is_iota_reducible(w) \/ v \in s.iota_stuck THEN Went("done", Gives(v, s))
      ELSE IF v \in DOMAIN s.iota_cache THEN Went("reduced", Gives(s.iota_cache[v], s))
      ELSE IF args.v = NoArgs \/ Len(w.spine) < pos THEN Went("done", Gives(v, args.s))
      ELSE IF k.v = Null /\ is_iota_reducible(major.s.arena[major.v]) THEN Went("descend", major)
      ELSE IF r.v = Null THEN Went("done", Gives(v, r.s)) ELSE Went("reduced", r)

go_on(v, st, waiting) ==
  CASE st.to = "reduced" -> force_from(st.v, waiting, st.s)
    [] st.to = "descend" -> force_from(st.v, <<v>> \o waiting, st.s)
    [] st.to = "done" -> unwind(st.v, waiting, st.s)
force_from_body(v, waiting, s) ==
  LET h == strip_head(v, s)
  IN  IF IsRigid(h.s.arena[h.v], IotaHeads) THEN go_on(h.v, iota_step(h.v, h.s), waiting)
      ELSE unwind(h.v, waiting, h.s)

fire_value(v, major, s) ==
  LET w == s.arena[v]
      args == spine_apps(w.spine, s)
  IN  fire(w.head, args.v, major, args.s)

\* Mutant: an application that is stuck is given up for its major premise.
UnwindToMajor(cur, waiting, s) ==
  LET r == Settled(waiting[1], fire_value(waiting[1], cur, s))
  IN  IF waiting = <<>> THEN Gives(cur, s)
      ELSE IF r.v = Null THEN unwind(cur, Tail(waiting), r.s) ELSE force_from(r.v, Tail(waiting), r.s)

\* cur is reduced: the application that waited for it fires or is stuck.
unwind_body(cur, waiting, s) ==
  LET r == Settled(waiting[1], fire_value(waiting[1], cur, s))
  IN  IF waiting = <<>> THEN Gives(cur, s)
      ELSE IF r.v = Null THEN unwind(waiting[1], Tail(waiting), r.s) ELSE force_from(r.v, Tail(waiting), r.s)

------------------------------------------------------------------------------
(***************************************************************************)
(* The conversion checker.  It keeps the pairs of addresses found equal    *)
(* and found different across the questions of one declaration.  Arguments *)
(* of two applications of one definition are first only tried,             *)
(* `probe_depth` telling that some unfolding is put off; a pair found      *)
(* different that way is kept apart.                                       *)
(*                                                                         *)
(* All calls in the code set RIGID, whose other half is left out.          *)
(***************************************************************************)
Yes(s) == [ok |-> TRUE, s |-> s]
No(s) == [ok |-> FALSE, s |-> s]
Tells(b, s) == [ok |-> b, s |-> s]
AndThen(r, next(_)) == IF r.ok THEN next(r.s) ELSE r
OrElse(r, next(_)) == IF r.ok THEN r ELSE next(r.s)

RECURSIVE unify_spine(_, _, _, _), result_level(_, _), eta_fields(_, _, _, _, _, _)

level_of_type(ty, s) == Run("level", <<ty, s>>)
try_proof_irrel_at(d, x, y, s) == Run("proof_irrel", <<d, x, y, s>>)
unify_cold(d, x, y, s) == Run("cold", <<d, x, y, s>>)

\* x or y first, in the places they have in the comparison.
Sides(d, swapped, x, y, s) == IF swapped THEN unify(d, y, x, s) ELSE unify(d, x, y, s)

------------------------------------------------------------------------------
(***************************************************************************)
(* The universe of a type                                                  *)
(***************************************************************************)
NoLevel == -1
SortLevel(v, s) == Gives(IF s.arena[v].k = "vsort" THEN s.arena[v].level ELSE NoLevel, s)

\* const_result_level: the sort at the end of the type of a constant, kept when
\* there is one.
result_level(t, s) ==
  LET f == force_all(t, s)
      w == f.s.arena[f.v]
      fresh == mk_bvar_hc(0, w.domain, f.s)
      body == apply_closure(w, fresh.v, fresh.s)
  IN  IF w.k = "vpi" THEN result_level(body.v, body.s) ELSE SortLevel(f.v, f.s)

KeepLevel(n, r) == IF r.v = NoLevel THEN r ELSE Gives(r.v, Keep("const_result_level_cache", n, r.v, r.s))
const_result_level(n, s) ==
  LET ty == const_head_type(n, s)
  IN  IF n \in DOMAIN s.const_result_level_cache THEN Gives(s.const_result_level_cache[n], s)
      ELSE KeepLevel(n, result_level(ty.v, ty.s))

level_of_pi(w, s) ==
  LET dom == level_of_type(w.domain, s)
      fresh == mk_bvar_hc(0, w.domain, dom.s)
      body == apply_closure(w, fresh.v, fresh.s)
      forced == force_all(body.v, body.s)
      cod == level_of_type(forced.v, forced.s)
  IN  IF dom.v = NoLevel THEN dom
      ELSE IF cod.v = NoLevel THEN cod ELSE Gives(imax(dom.v, cod.v), cod.s)

\* The level of the sort that is the type of v.
level_of_its_type(v, s) ==
  LET ty == value_type(v, s)
      f == force_all(ty.v, ty.s)
  IN  SortLevel(f.v, f.s)

OrLevel(r, next(_)) == IF r.v = NoLevel THEN next(r.s) ELSE r
level_body(v, s) ==
  LET t == force_thunk(v, s)
      w == t.s.arena[t.v]
      of_type == level_of_its_type(t.v, t.s)
  IN  CASE w.k = "vsort" -> Gives(w.level + 1, t.s)
        [] w.k = "vpi" -> level_of_pi(w, t.s)
        [] IsRigid(w, {"bvar", "local"}) -> of_type
        [] w.k = "rigid" /\ ~ IsRigid(w, {"bvar", "local"}) ->
             OrLevel(const_result_level(w.head.name, t.s), LAMBDA s1 : level_of_its_type(t.v, s1))
        [] w.k = "unfold" -> OrLevel(of_type, LAMBDA s1 : const_result_level(w.name, s1))
        [] OTHER -> Gives(NoLevel, t.s)

is_prop_type(t, s) == LET l == level_of_type(t, s) IN Tells(l.v = 0, l.s)

------------------------------------------------------------------------------
(***************************************************************************)
(* Proof irrelevance and eta                                               *)
(***************************************************************************)
\* x and y applied to one new variable of the domain of the function among them.
Opened(d, x, y, s) ==
  LET dom == lam_domain(IF s.arena[x].k = "lam" THEN x ELSE y, s)
      fresh == mk_bvar_hc(d, dom.v, dom.s)
      xb == apply(x, fresh.v, fresh.s)
      yb == apply(y, fresh.v, xb.s)
  IN  [x |-> xb.v, y |-> yb.v, s |-> yb.s]

\* Two proofs of equal propositions are equal; functions are compared by their
\* results.
proof_irrel_body(d, x, y, s) ==
  LET kinds == {s.arena[x].k, s.arena[y].k}
      o == Opened(d, x, y, s)
      tx == value_type(x, s)
      px == is_prop_type(tx.v, tx.s)
      ty == value_type(y, px.s)
      py == is_prop_type(ty.v, ty.s)
  IN  IF "lam" \in kinds THEN try_proof_irrel_at(d + 1, o.x, o.y, o.s)
      ELSE IF ~ (kinds \subseteq {"rigid", "unfold"}) THEN No(s)
      ELSE IF ~ px.ok THEN px
      ELSE IF ~ py.ok THEN py ELSE unify(d, tx.v, ty.v, py.s)

is_unit_inductive(n) ==
  /\ IsOfKind(n, {"induct"}) /\ Len(declars[n].ctors) = 1 /\ declars[n].num_indices = 0
  /\ declars[declars[n].ctors[1]].num_fields = 0

\* The fields of x from number i on are the arguments of a constructor.
eta_fields(d, S, x, fields, i, s) ==
  IF i = Len(fields) THEN Yes(s)
  ELSE LET proj == do_proj(S, i, x, s)
       IN  AndThen(unify(d, proj.v, fields[i + 1], proj.s),
                   LAMBDA s1 : eta_fields(d, S, x, fields, i + 1, s1))

try_eta_struct_v(d, S, x, y, s) ==
  LET w == s.arena[y]
      ctor == declars[w.head.name]
      yargs == spine_apps(w.spine, s)
  IN  IF ~ IsRigid(w, {"ctor"}) THEN No(s)
      ELSE IF ctor.induct # S THEN No(s)
      ELSE IF yargs.v = NoArgs \/ Len(w.spine) # ctor.num_params + ctor.num_fields THEN No(yargs.s)
      ELSE eta_fields(d, S, x, ctor_fields(yargs.v, ctor.num_fields), 0, yargs.s)

\* By a type of either side: all elements of a unit type are equal, an element of
\* a structure type is made of its fields.
struct_eta_at(d, ty, x, y, s) ==
  LET f == force_all(ty, s)
      w == f.s.arena[f.v]
  IN  IF ty = Null THEN No(s)
      ELSE IF ~ IsRigid(w, {"induct"}) THEN No(f.s)
      ELSE IF is_unit_inductive(w.head.name) THEN Yes(f.s)
      ELSE IF ~ can_be_struct(w.head.name) THEN No(f.s)
      ELSE OrElse(try_eta_struct_v(d, w.head.name, x, y, f.s),
                  LAMBDA s1 : try_eta_struct_v(d, w.head.name, y, x, s1))

value_type_opt(v, s) == IF s.arena[v].k \in {"vpi", "lam"} THEN Gives(Null, s) ELSE value_type(v, s)

try_struct_eta(d, x, y, s) ==
  LET xt == value_type_opt(x, s)
      yt == value_type_opt(y, xt.s)
  IN  OrElse(struct_eta_at(d, xt.v, x, y, yt.s), LAMBDA s1 : struct_eta_at(d, yt.v, x, y, s1))

\* A function and something that is not one in form are compared by their results.
cold_body(d, x, y, s) ==
  OrElse(try_proof_irrel_at(d, x, y, s),
         LAMBDA s1 : LET o == Opened(d, x, y, s1)
                     IN  IF (s1.arena[x].k = "lam") # (s1.arena[y].k = "lam") THEN unify(d + 1, o.x, o.y, o.s)
                         ELSE try_struct_eta(d, x, y, s1))

------------------------------------------------------------------------------
(***************************************************************************)
(* Unfolding and iota                                                      *)
(***************************************************************************)
spine_probe(d, x, y, s) ==
  LET r == unify_spine(d, s.arena[x].spine, s.arena[y].spine, [s EXCEPT !.probe_depth = @ + 1])
  IN  [r EXCEPT !.s.probe_depth = @ - 1]

unfold_value_demand(v, s) ==
  IF s.arena[v].k = "unfold" THEN unfold_value_go(v, s.probe_depth = 0, s) ELSE Gives(v, s)

unfold_pair(d, t, t2, s) ==
  LET v1 == unfold_value(t, s)
      v2 == unfold_value(t2, v1.s)
      f1 == unfold_value_demand(t, v2.s)
      f2 == unfold_value_demand(t2, f1.s)
  IN  IF v1.v # t \/ v2.v # t2 THEN unify(d, v1.v, v2.v, v2.s)
      ELSE IF f1.v # t \/ f2.v # t2 THEN unify(d, f1.v, f2.v, f2.s)
      ELSE No(f2.s)

\* t is unfolded, t2 only when t cannot be.
unfold_first(d, swapped, t, t2, s) ==
  LET v1 == unfold_value(t, s)
      v2 == unfold_value(t2, v1.s)
      f1 == unfold_value_demand(t, v2.s)
  IN  IF v1.v # t THEN Sides(d, swapped, v1.v, t2, v1.s)
      ELSE IF v2.v # t2 THEN Sides(d, swapped, t, v2.v, v2.s)
      ELSE IF f1.v # t THEN Sides(d, swapped, f1.v, t2, f1.s)
      ELSE No(f1.s)

TriedSpines(heads_match, d, t, t2, s) ==
  OrElse(IF heads_match THEN spine_probe(d, t, t2, s) ELSE No(s),
         LAMBDA s1 : try_proof_irrel_at(d, t, t2, s1))

\* The later definition is unfolded first.
unify_unfolds(d, t, t2, s) ==
  LET n == s.arena[t].name
      n2 == s.arena[t2].name
      lh == unfold_hint(n)
      rh == unfold_hint(n2)
  IN  OrElse(TriedSpines(n = n2, d, t, t2, s),
        LAMBDA s1 : IF n # n2 /\ is_lt(lh, rh) THEN unfold_first(d, TRUE, t2, t, s1)
                    ELSE IF n # n2 /\ is_lt(rh, lh) THEN unfold_first(d, FALSE, t, t2, s1)
                    ELSE unfold_pair(d, t, t2, s1))

\* t is a definition, other is not; swapped when t is on the right.
unify_unfold_other(d, swapped, t, other, s) ==
  LET irrel == IF swapped THEN try_proof_irrel_at(d, other, t, s) ELSE try_proof_irrel_at(d, t, other, s)
      v == unfold_value(t, irrel.s)
      f == unfold_value_demand(t, v.s)
  IN  IF irrel.ok THEN irrel
      ELSE IF v.v # t THEN Sides(d, swapped, v.v, other, v.s)
      ELSE IF f.v # t THEN Sides(d, swapped, f.v, other, f.s) ELSE No(f.s)

iota_or_self(v, s) == LET r == iota_value(v, s) IN Gives(IF r.v = Null THEN v ELSE r.v, r.s)

unify_iota(d, t, t2, s) ==
  LET heads_match == s.arena[t].head = s.arena[t2].head
      tried == TriedSpines(heads_match, d, t, t2, s)
      v1 == iota_or_self(t, tried.s)
      v2 == iota_or_self(t2, v1.s)
  IN  IF tried.ok THEN tried
      ELSE IF v1.v # t \/ v2.v # t2 THEN unify(d, v1.v, v2.v, v2.s)
      ELSE IF heads_match THEN unify_spine(d, v2.s.arena[t].spine, v2.s.arena[t2].spine, v2.s)
      ELSE No(v2.s)

\* t is a recursor or quotient application, other neither that of the same kind
\* nor a definition; swapped when t is on the right.
unify_iota_other(d, swapped, t, other, s) ==
  LET irrel == IF swapped THEN try_proof_irrel_at(d, other, t, s) ELSE try_proof_irrel_at(d, t, other, s)
      v1 == iota_value(t, irrel.s)
      v2 == IF IsRigid(s.arena[other], IotaHeads) THEN iota_value(other, v1.s) ELSE Gives(Null, v1.s)
  IN  IF irrel.ok THEN irrel
      ELSE IF v1.v # Null THEN Sides(d, swapped, v1.v, other, v1.s)
      ELSE IF v2.v # Null THEN unify(d, t, v2.v, v2.s)
      ELSE No(v2.s)

------------------------------------------------------------------------------
(***************************************************************************)
(* Comparison                                                              *)
(***************************************************************************)
unify_spine(d, sx, sy, s) ==
  IF sx = <<>> \/ sy = <<>> THEN Tells(sx = sy, s)
  ELSE AndThen(unify_spine(d, Front(sx), Front(sy), s),
         LAMBDA s1 : LET ea == Last(sx)
                         eb == Last(sy)
                     IN  IF ea.el = "app" /\ eb.el = "app" THEN unify(d, ea.v, eb.v, s1) ELSE Tells(ea = eb, s1))

unify_bodies(d, x, y, dom, s) ==
  LET fresh == mk_bvar_hc(d, dom, s)
      xb == apply_closure(x, fresh.v, fresh.s)
      yb == apply_closure(y, fresh.v, xb.s)
  IN  unify(d + 1, xb.v, yb.v, yb.s)

SameClosure(x, y) == x.env = y.env /\ x.body = y.body
unify_pis(d, x, y, s) ==
  IF SameClosure(x, y) /\ x.domain = y.domain THEN Yes(s)
  ELSE AndThen(unify(d, x.domain, y.domain, s), LAMBDA s1 : unify_bodies(d, x, y, x.domain, s1))
unify_lams(d, t, x, y, s) ==
  LET dom == lam_domain(t, s)
  IN  IF SameClosure(x, y) THEN Yes(s) ELSE unify_bodies(d, x, y, dom.v, dom.s)

SameHead(x, y) == IF "bvar" = x.head.h /\ "bvar" = y.head.h THEN x.head.level = y.head.level
                  ELSE x.head = y.head

unify_direct(d, t, t2, s) ==
  LET x == s.arena[t]
      y == s.arena[t2]
      both(k) == x.k = k /\ y.k = k
      iota(w) == IsRigid(w, IotaHeads)
  IN  CASE both("vsort") -> Tells(x.level = y.level, s)
        [] both("vnat") -> Tells(x.n = y.n, s)
        [] both("rigid") /\ iota(x) /\ iota(y) ->
             IF x.head.h = y.head.h THEN unify_iota(d, t, t2, s) ELSE unify_iota_other(d, FALSE, t, t2, s)
        [] both("rigid") /\ ~ iota(x) /\ ~ iota(y) ->
             IF SameHead(x, y) THEN unify_spine(d, x.spine, y.spine, s) ELSE No(s)
        [] both("vpi") -> unify_pis(d, x, y, s)
        [] both("lam") -> unify_lams(d, t, x, y, s)
        [] both("unfold") -> unify_unfolds(d, t, t2, s)
        [] x.k = "unfold" /\ y.k # "unfold" -> unify_unfold_other(d, FALSE, t, t2, s)
        [] y.k = "unfold" /\ x.k # "unfold" -> unify_unfold_other(d, TRUE, t2, t, s)
        [] iota(x) /\ y.k # "unfold" /\ ~ iota(y) -> unify_iota_other(d, FALSE, t, t2, s)
        [] iota(y) /\ x.k # "unfold" /\ ~ iota(x) -> unify_iota_other(d, TRUE, t2, t, s)
        [] OTHER -> No(s)

may_be_nat(w) == w.k = "vnat" \/ IsCtor(w, "Nat.zero") \/ IsCtor(w, "Nat.succ")
value_is_nat_zero(w) == w = VNat(0) \/ w = Rigid(HeadOf("ctor", "Nat.zero"), <<>>)
value_nat_pred(w, s) ==
  CASE w.k = "vnat" -> IF w.n = 0 THEN Gives(Null, s) ELSE Alloc(VNat(w.n - 1), s)
    [] w.k # "vnat" -> Gives(IF IsCtor(w, "Nat.succ") /\ Len(w.spine) = 1 THEN w.spine[1].v ELSE Null, s)

\* conv_nat comes first: a literal and a constructor are compared as numbers.
unify_no_cache(d, t, t2, s) ==
  LET x == s.arena[t]
      y == s.arena[t2]
      nat == (may_be_nat(x) \/ may_be_nat(y)) /\ ~ (x.k = "vnat" /\ y.k = "vnat")
      px == IF nat THEN value_nat_pred(x, s) ELSE Gives(Null, s)
      py == IF nat THEN value_nat_pred(y, px.s) ELSE px
  IN  IF nat /\ value_is_nat_zero(x) /\ value_is_nat_zero(y) THEN Yes(s)
      ELSE IF px.v # Null /\ py.v # Null THEN unify(d, px.v, py.v, py.s)
      ELSE OrElse(unify_direct(d, t, t2, py.s), LAMBDA s1 : unify_cold(d, t, t2, s1))

is_cacheable(w) == w.k \in {"vpi", "lam", "unfold"} \/ IsRigid(w, IotaHeads)

\* Mutant: a pair found different is kept as such, even by an attempt.
RememberAsFinal(r, key, neg_eligible) ==
  CASE r.ok -> [r EXCEPT !.s.conv_cache = @ \cup {key}]
    [] ~ r.ok /\ neg_eligible -> [r EXCEPT !.s.conv_cache_neg = @ \cup {key}]
    [] OTHER -> r

\* What is kept of an answer.
Remember(r, key, neg_eligible) ==
  CASE r.ok -> [r EXCEPT !.s.conv_cache = @ \cup {key}]
    [] ~ r.ok /\ neg_eligible ->
         IF r.s.probe_depth = 0 THEN [r EXCEPT !.s.conv_cache_neg = @ \cup {key}]
                                ELSE [r EXCEPT !.s.conv_cache_neg_probe = @ \cup {key}]
    [] OTHER -> r

\* Mutant: a failed attempt answers every later question.
KnownDifferentAlways(key, s) == key \in s.conv_cache_neg \cup s.conv_cache_neg_probe

KnownDifferent(key, s) ==
  key \in s.conv_cache_neg \/ (s.probe_depth > 0 /\ key \in s.conv_cache_neg_probe)

unify_general(d, t, t2, s) ==
  LET key == {t, t2}
      kinds == {s.arena[t].k, s.arena[t2].k}
      neg_eligible == "lam" \notin kinds
  IN  IF ~ is_cacheable(s.arena[t]) /\ ~ is_cacheable(s.arena[t2]) THEN unify_no_cache(d, t, t2, s)
      ELSE IF key \in s.conv_cache THEN Yes(s)
      ELSE IF neg_eligible /\ KnownDifferent(key, s) THEN No(s)
      ELSE Remember(unify_no_cache(d, t, t2, s), key, neg_eligible)

\* Two applications of one variable to one argument are compared by it.
OneApp(w) == Len(w.spine) = 1 /\ w.spine[1].el = "app"
unify_body(d, x, y, s) ==
  LET tx == force_thunk(x, s)
      ty == force_thunk(y, tx.s)
      wx == ty.s.arena[tx.v]
      wy == ty.s.arena[ty.v]
      one_app == IsRigid(wx, {"bvar"}) /\ OneApp(wx) /\ IsRigid(wy, {"bvar"}) /\ OneApp(wy)
  IN  IF tx.v = ty.v THEN Yes(ty.s)
      ELSE IF one_app /\ SameHead(wx, wy) THEN unify(d, wx.spine[1].v, wy.spine[1].v, ty.s)
      ELSE unify_general(d, tx.v, ty.v, ty.s)

\* def_eq_core on two expressions.
def_eq_core_body(x, y, s) ==
  LET vx == eval(<<>>, x, s)
      vy == eval(<<>>, y, vx.s)
  IN  OrElse(try_proof_irrel_at(0, vx.v, vy.v, vy.s), LAMBDA s1 : unify(0, vx.v, vy.v, s1))

Run(op, x) ==
  CASE op = "eval" -> eval_body(x[1], x[2], x[3])
    [] op = "apply" -> apply_body(x[1], x[2], x[3])
    [] op = "spine_apps" -> spine_apps_body(x[1], x[2])
    [] op = "apply_all" -> apply_all_body(x[1], x[2], x[3])
    [] op = "apply_spine" -> apply_spine_body(x[1], x[2], x[3])
    [] op = "spine_type" -> spine_type_body(x[1], x[2], x[3], x[4], x[5])
    [] op = "spine_type_with_value" -> spine_type_with_value_body(x[1], x[2], x[3], x[4])
    [] op = "free" -> free_body(x[1], x[2])
    [] op = "bignum" -> bignum_body(x[1], x[2], x[3], x[4])
    [] op = "proj" -> proj_body(x[1], x[2], x[3], x[4])
    [] op = "unfold" -> unfold_body(x[1], x[2], x[3])
    [] op = "whnf_head" -> whnf_head_body(x[1], x[2])
    [] op = "force_from" -> force_from_body(x[1], x[2], x[3])
    [] op = "iota_step" -> iota_step_body(x[1], x[2])
    [] op = "unwind" -> unwind_body(x[1], x[2], x[3])
    [] op = "nat_red" -> nat_red_body(x[1], x[2], x[3], x[4])
    [] op = "field_type" -> field_type_body(x[1], x[2], x[3], x[4], x[5])
    [] op = "k_reduce" -> k_reduce_body(x[1], x[2], x[3])
    [] op = "eta_reduce" -> eta_reduce_body(x[1], x[2], x[3])
    [] op = "value_type" -> value_type_body(x[1], x[2])
    [] op = "fire" -> fire_body(x[1], x[2], x[3], x[4])
    [] op = "iota" -> iota_body(x[1], x[2])
    [] op = "level" -> level_body(x[1], x[2])
    [] op = "unify" -> unify_body(x[1], x[2], x[3], x[4])
    [] op = "proof_irrel" -> proof_irrel_body(x[1], x[2], x[3], x[4])
    [] op = "cold" -> cold_body(x[1], x[2], x[3], x[4])
    [] op = "def_eq" -> def_eq_core_body(x[1], x[2], x[3])

def_eq_core(x, y, s) == Run("def_eq", <<x, y, s>>)
==============================================================================
