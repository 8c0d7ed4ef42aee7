------------------------------ MODULE Inductive ------------------------------
(***************************************************************************)
(* Checking a list of declarations that belong together: a block of        *)
(* inductive types (inductive.rs) with their constructors and recursors,   *)
(* as it was submitted; or the quotient constants (module Quot).           *)
(*                                                                         *)
(* An inductive type is checked in phases, each by a checker of its own,   *)
(* over the declared environment and an extension with what the phases     *)
(* before it constructed: types, constructors, recursors.  Constructors    *)
(* and recursors are checked for their types only; that they are what the  *)
(* type calls for is the last phase of the check of the type.              *)
(*                                                                         *)
(* Occurrences of the block inside a parameter of another inductive type   *)
(* (List Tree) are replaced by an application of a specialised copy of     *)
(* that type, which becomes a member of the block, and are put back before *)
(* the comparison with what was declared.                                  *)
(*                                                                         *)
(* Left out: universe parameters, names of binders, and that an identical  *)
(* declared recursor fails an assertion (those names included).            *)
(***************************************************************************)
EXTENDS Quot, TypeTheory, FiniteSetsExt

CONSTANTS
  Environments,  \* the declarations before a block, by a name for them all
  Blocks         \* the blocks: that name (`before`), the declarations in order,
                 \* each with its name (`decls`), and those that are called for
                 \* by what they belong to, as they should be (`refs`)

VARIABLES
  block,    \* the block that is checked
  at,       \* the position of the declaration that is checked
  phase,    \* the phase its check is in
  ctx,      \* what the context, the checker and the check of the block keep
  failed    \* the declarations that were rejected, with the phase

vars == <<declars, block, at, phase, ctx, failed>>

Phases == <<"check_info", "specialize_nested", "check_inductive_specs", "check_ctors",
            "mk_recursors", "compare">>

Named(seq) == FoldLeft(LAMBDA f, x : f @@ (x.name :> x.d), <<>>, seq)
\* EnvLimit::ByIndex for an inductive type, ByName for any other declaration.
declared(b, i) ==
  Environments[b.before] @@
    Named(IF i > Len(b.decls) \/ b.decls[i].d.kind = "induct" THEN b.decls ELSE SubSeq(b.decls, 1, i - 1))
get_old_declar(n) == n \in DOMAIN declared(block, at)
old_declar(n) == declared(block, at)[n]

\* The numeral that stands for the universe parameter of a large eliminating
\* recursor.
LargeLevel == 1
rec_name(n) == n \o ".rec"
append_index_after(n, i) == n \o "_" \o ToString(i)
replace_pfx(n, outgoing, incoming) == incoming \o SubSeq(n, Len(outgoing) + 1, Len(n))

(***************************************************************************)
(* The checker and what the check of a block keeps are one record s, which *)
(* is handed on as in module Infer; s.st is the state of the check.  The   *)
(* operations go through Do, defined at the end.                           *)
(***************************************************************************)
RECURSIVE Do(_, _, _), get_local_params(_, _, _, _), specialize_types(_, _), replace_all_nested(_, _, _),
          spec_telescope(_, _, _, _, _), check_positivity1(_, _), check_ctor_fields(_, _),
          large_elim_test_aux(_, _, _, _), is_rec_argument(_, _), handle_rec_args_aux(_, _, _),
          ctor_args(_, _, _, _), restore_replace(_, _, _), open_locals(_, _, _, _)

InductiveCheckState ==
  [types |-> <<>>, local_params |-> <<>>, local_indices |-> <<>>, ind_consts |-> <<>>, block_codom |-> 0,
   nested |-> <<>>, next_ngen_idx |-> 1, elim_level |-> 0, k_target |-> FALSE,
   majors |-> <<>>, motives |-> <<>>, minors |-> <<>>, recursors |-> <<>>]
NewCtx == [st |-> InductiveCheckState] @@ NewTypeChecker
reduce(e, s) == Do("whnf", <<e>>, s)

\* mk_unique for the binder of e, and the body with it in place.
unique(e, s) == Unique(s.unique_counter, e.binder_type)
under(e, s) == inst(e.body, <<unique(e, s)>>)
used(s) == [s EXCEPT !.unique_counter = @ + 1]
mk_unique(t, s) == Ret(Unique(s.unique_counter, t), used(s))

\* f of every element in order.
Each(seq, s, f(_, _)) ==
  FoldLeft(LAMBDA r, x : Then(r, LAMBDA vs, s1 : Then(f(x, s1), LAMBDA v, s2 : Ret(Append(vs, v), s2))),
           Ret(<<>>, s), seq)

\* e with its parts replaced, in order.
EachPart(e, s, f(_, _)) ==
  CASE e.k = "app" -> Then(f(e.fun, s), LAMBDA g, s1 : Then(f(e.arg, s1), LAMBDA a, s2 : Ret(App(g, a), s2)))
    [] e.k \in {"pi", "lambda"} ->
         Then(f(e.binder_type, s), LAMBDA t, s1 : Then(f(e.body, s1),
           LAMBDA b, s2 : Ret([e EXCEPT !.binder_type = t, !.body = b], s2)))
    [] e.k = "let" ->
         Then(f(e.binder_type, s), LAMBDA t, s1 : Then(f(e.val, s1), LAMBDA v, s2 : Then(f(e.body, s2),
           LAMBDA b, s3 : Ret(Let(t, v, b), s3))))
    [] e.k = "proj" -> Then(f(e.structure, s), LAMBDA x, s1 : Ret(Proj(e.ty_name, e.idx, x), s1))
    [] OTHER -> Ret(e, s)

NumParams(s) == Len(s.st.local_params)
Names(s) == {s.st.types[i].name : i \in DOMAIN s.st.types}
is_nested(s) == s.st.nested # <<>>
AllCtors(s) == FlattenSeq([i \in DOMAIN s.st.types |-> s.st.types[i].ctors])
FlatMinors(s) == FlattenSeq(s.st.minors)

------------------------------------------------------------------------------
(***************************************************************************)
(* The types and constructors as declared, and nested occurrences.         *)
(***************************************************************************)
header_of_ty(n) == [name |-> n, ty |-> declars[n].ty,
                    ctors |-> [i \in DOMAIN declars[n].ctors |-> [name |-> declars[n].ctors[i],
                                                                 ty |-> declars[declars[n].ctors[i]].ty]]]

collect_unmodified_mutuals(d, s) ==
  IF \E i \in DOMAIN d.all : ~ IsOfKind(d.all[i], {"induct"}) THEN Panics(s)
  ELSE IF \E i \in DOMAIN d.all : \E c \in Range(declars[d.all[i]].ctors) : ~ IsOfKind(c, {"ctor"}) THEN Panics(s)
  ELSE Ret([i \in DOMAIN d.all |-> header_of_ty(d.all[i])], s)

check_info(d, s) ==
  Then(Do("check_declar_info", <<d>>, s), LAMBDA l, s1 : Then(collect_unmodified_mutuals(d, s1),
    LAMBDA tys, s2 : Ret(TRUE, [s2 EXCEPT !.st.types = tys])))

get_local_params(e, n, locals, s) ==
  IF n = 0 THEN Ret([locals |-> locals, body |-> e], s)
  ELSE IF e.k # "pi" THEN Panics(s)
  ELSE Then(reduce(under(e, s), used(s)),
         LAMBDA w, s1 : get_local_params(w, n - 1, Append(locals, unique(e, s)), s1))

\* The names and the number are those of a type that occurs in this block inside
\* a parameter of the inductive type at the head of e.
is_nested_ind_app(e, s) ==
  LET f == unfold_apps_fun(e)
      args == unfold_apps_args(e)
  IN  /\ e.k = "app" /\ f.k = "const"
      /\ IsOfKind(f.name, {"induct"})
      /\ Len(args) >= declars[f.name].num_params
      /\ \E i \in 1 .. declars[f.name].num_params : find_const(args[i], Names(s))

\* The first index from the counter on that gives a name not yet declared.
mk_unique_name(base, s) ==
  CHOOSE i \in s.st.next_ngen_idx .. s.st.next_ngen_idx + Cardinality(DOMAIN declars) :
    /\ ~ get_old_declar(append_index_after(base, i))
    /\ \A j \in s.st.next_ngen_idx .. i - 1 : get_old_declar(append_index_after(base, j))

inst_forall_params(t, args) == inst(BodyUnder(t, Len(args)), args)

\* A copy of the type n for the arguments ps, with the parameters of the block.
add_specialized(n, ps, outgoing, s) ==
  LET i == mk_unique_name("_nested." \o n, s)
      aux == append_index_after("_nested." \o n, i)
      close(t) == abstr_pis(outgoing, inst_forall_params(t, ps))
      ctors == declars[n].ctors
  IN  [s EXCEPT
        !.st.next_ngen_idx = i + 1,
        !.st.nested = Append(@, [name |-> aux,
                                 e |-> replace_params(foldl_apps(Const(n), ps), s.st.local_params, outgoing)]),
        !.st.types = Append(@, [name |-> aux, ty |-> close(declars[n].ty),
                                ctors |-> [j \in DOMAIN ctors |-> [name |-> replace_pfx(ctors[j], n, aux),
                                                                   ty |-> close(declars[ctors[j]].ty)]]])]

\* e with a specialised type in place of its head and parameters, if it is a
\* nested occurrence; outgoing are the parameters of the constructor it is in.
replace_if_nested(e, outgoing, s) ==
  LET f == unfold_apps_fun(e)
      args == unfold_apps_args(e)
      ps == SubSeq(args, 1, declars[f.name].num_params)
      i_params == replace_params(foldl_apps(f, ps), s.st.local_params, outgoing)
      known == {i \in DOMAIN s.st.nested : s.st.nested[i].e = i_params}
      aux_app(n) == foldl_apps(Const(n), outgoing \o SubSeq(args, Len(ps) + 1, Len(args)))
      s1 == FoldLeft(LAMBDA s0, n : add_specialized(n, ps, outgoing, s0), s, declars[f.name].all)
      new == Len(s.st.nested) + SelectInSeq(declars[f.name].all, LAMBDA n : n = f.name)
  IN  IF ~ is_nested_ind_app(e, s) THEN Ret(NoExpr, s)
      ELSE IF \E i \in DOMAIN ps : num_loose_bvars(ps[i]) # 0 THEN Panics(s)
      ELSE IF known # {} THEN Ret(aux_app(s.st.nested[Min(known)].name), s)
      ELSE Ret(aux_app(s1.st.nested[new].name), s1)

replace_all_nested(e, outgoing, s) ==
  Then(replace_if_nested(e, outgoing, s),
    LAMBDA r, s1 : IF r # NoExpr THEN Ret(r, s1)
                   ELSE EachPart(e, s1, LAMBDA x, s2 : replace_all_nested(x, outgoing, s2)))

\* One type after the other, those that are added on the way included.
specialize_types(i, s) ==
  IF i > Len(s.st.types) THEN Ret(TRUE, s)
  ELSE Then(Each(s.st.types[i].ctors, s,
              LAMBDA c, s1 : Then(get_local_params(c.ty, NumParams(s), <<>>, s1),
                LAMBDA o, s2 : Then(replace_all_nested(o.body, o.locals, s2),
                  LAMBDA t, s3 : Require(~ has_fvars(abstr_pis(o.locals, t)),
                                         [c EXCEPT !.ty = abstr_pis(o.locals, t)], s3)))),
         LAMBDA ctors, s4 : specialize_types(i + 1, [s4 EXCEPT !.st.types[i].ctors = ctors]))

\* nested_to_unspecialized_ty_nofvars
nofvars(n, s) == abstr(s.st.nested[SelectInSeq(s.st.nested, LAMBDA x : x.name = n)].e, s.st.local_params)
Specialized(s) == {s.st.nested[i].name : i \in DOMAIN s.st.nested}

specialize_nested(d, s) ==
  Then(get_local_params(s.st.types[1].ty, d.num_params, <<>>, s),
    LAMBDA o, s1 : Then(specialize_types(1, [s1 EXCEPT !.st.local_params = o.locals]),
      LAMBDA ok, s2 : Require(\A i \in DOMAIN s2.st.types : ~ has_fvars(s2.st.types[i].ty), TRUE, s2)))

------------------------------------------------------------------------------
(***************************************************************************)
(* The types: parameters, indices and a common universe.                   *)
(***************************************************************************)
spec_telescope(e, first, i, indices, s) ==
  IF e.k # "pi" THEN Ret([codom |-> e, indices |-> indices], s)
  ELSE IF i <= NumParams(s)
  THEN LET p == s.st.local_params[i]
       IN  Then(IF first THEN Do("assert_def_eq", <<e.binder_type, p.binder_type>>, clear_tc(s)) ELSE Ret(TRUE, s),
             LAMBDA ok, s1 : Then(reduce(inst(e.body, <<p>>), s1),
               LAMBDA w, s2 : spec_telescope(w, first, i + 1, indices, s2)))
  ELSE Then(reduce(under(e, s), used(s)),
         LAMBDA w, s1 : spec_telescope(w, first, i + 1, Append(indices, unique(e, s)), s1))

\* check_inductive_spec_0th and check_inductive_specs_mutual1.
check_inductive_spec(t, s) ==
  LET first == s.st.ind_consts = <<>>
  IN  Then(reduce(t.ty, clear_tc(s)),
        LAMBDA w, s1 : Then(spec_telescope(w, first, 1, <<>>, s1),
          LAMBDA o, s2 : Then(Do("ensure_sort", <<o.codom>>, s2),
            LAMBDA u, s3 : Require(first \/ u.level = s3.st.block_codom, TRUE,
              [s3 EXCEPT !.st.block_codom = IF first THEN u.level ELSE @,
                         !.st.local_indices = Append(@, o.indices), !.st.ind_consts = Append(@, t.name)]))))

check_inductive_specs(s) == Each(s.st.types, s, check_inductive_spec)

mk_ind_tys_env_ext(s) ==
  Named([i \in DOMAIN s.st.types |->
           [name |-> s.st.types[i].name,
            d |-> [kind |-> "induct", ty |-> s.st.types[i].ty, num_params |-> NumParams(s),
                   num_indices |-> Len(s.st.local_indices[i]), is_recursive |-> FALSE,
                   ctors |-> [j \in DOMAIN s.st.types[i].ctors |-> s.st.types[i].ctors[j].name],
                   all |-> [j \in DOMAIN s.st.types |-> s.st.types[j].name]]]])

mk_ctors_env_ext(s) ==
  Named(FlattenSeq([i \in DOMAIN s.st.types |->
          [j \in DOMAIN s.st.types[i].ctors |->
             LET c == s.st.types[i].ctors[j]
             IN  [name |-> c.name,
                  d |-> [kind |-> "ctor", ty |-> c.ty, induct |-> s.st.types[i].name, num_params |-> NumParams(s),
                         num_fields |-> pi_telescope_size(c.ty) - NumParams(s)]]]]))
  @@ mk_ind_tys_env_ext(s)

------------------------------------------------------------------------------
(***************************************************************************)
(* The constructors: fields that are not too large and only hold the block *)
(* in positive places, and a result in the type.                           *)
(***************************************************************************)
has_ind_occ(e, s) == find_const(e, Range(s.st.ind_consts))

is_valid_ind_app(i, e, s) ==
  LET args == unfold_apps_args(e)
  IN  /\ IsConst(unfold_apps_fun(e), s.st.ind_consts[i])
      /\ Len(args) = NumParams(s) + Len(s.st.local_indices[i])
      /\ \A j \in NumParams(s) + 1 .. Len(args) : ~ has_ind_occ(args[j], s)
      /\ SubSeq(args, 1, NumParams(s)) = s.st.local_params

\* The position of the type that e is a valid application of, or 0.
which_valid_ind_app(e, s) ==
  LET valid == {i \in DOMAIN s.st.ind_consts : is_valid_ind_app(i, e, s)}
  IN  IF valid = {} THEN 0 ELSE Min(valid)

\* get_i_indices: that position, and the indices e is applied to.
get_i_indices(e, s) ==
  Require(which_valid_ind_app(e, s) # 0,
          [pos |-> which_valid_ind_app(e, s),
           indices |-> SubSeq(unfold_apps_args(e), NumParams(s) + 1, Len(unfold_apps_args(e)))], s)

\* Mutant: the domain of a function is not looked into.
check_positivity_codomain(e, s) ==
  Then(reduce(e, s),
    LAMBDA w, s1 : IF ~ has_ind_occ(w, s1) THEN Ret(TRUE, s1)
                   ELSE IF w.k = "pi" THEN check_positivity1(under(w, s1), used(s1))
                   ELSE Require(which_valid_ind_app(w, s1) # 0, TRUE, s1))

check_positivity1(e, s) ==
  Then(reduce(e, s),
    LAMBDA w, s1 : IF ~ has_ind_occ(w, s1) THEN Ret(TRUE, s1)
                   ELSE IF w.k # "pi" THEN Require(which_valid_ind_app(w, s1) # 0, TRUE, s1)
                   ELSE IF has_ind_occ(w.binder_type, s1) THEN Panics(s1)
                   ELSE check_positivity1(under(w, s1), used(s1)))

check_ctor_fields(e, s) ==
  IF e.k # "pi" THEN Ret(e, s)
  ELSE Then(Do("ensure_infers_as_sort", <<e.binder_type>>, s),
         LAMBDA l, s1 :
           IF s1.st.block_codom # 0 /\ l > s1.st.block_codom THEN Panics(s1)
           ELSE Then(check_positivity1(e.binder_type, s1),
                  LAMBDA ok, s2 : check_ctor_fields(under(e, s2), used(s2))))

\* The parameters of a constructor's type replaced by those of the block.
strip_params(t, s, checked) ==
  FoldLeft(LAMBDA r, p :
             Then(r, LAMBDA e, s1 :
               IF e.k # "pi" THEN Panics(s1)
               ELSE Then(IF checked THEN Do("assert_def_eq", <<e.binder_type, p.binder_type>>, s1) ELSE Ret(TRUE, s1),
                      LAMBDA ok, s2 : Ret(inst(e.body, <<p>>), s2))),
           Ret(t, clear_tc(s)), s.st.local_params)

check_ctor(i, c, s) ==
  Then(strip_params(c.ty, s, TRUE), LAMBDA e, s1 : Then(check_ctor_fields(e, s1),
    LAMBDA res, s2 : Require(is_valid_ind_app(i, res, s2), TRUE, s2)))

check_ctors(s) ==
  Each([i \in DOMAIN s.st.types |-> i], s,
       LAMBDA i, s1 : Each(s1.st.types[i].ctors, s1, LAMBDA c, s2 : check_ctor(i, c, s2)))

------------------------------------------------------------------------------
(***************************************************************************)
(* What the recursors may eliminate into.                                  *)
(***************************************************************************)
\* Whether all fields that are not proofs are arguments of the result.
large_elim_test_aux(e, rem_params, non_prop, s) ==
  IF e.k # "pi" THEN Ret(non_prop \subseteq Range(unfold_apps_args(e)), s)
  ELSE IF rem_params # 0 THEN large_elim_test_aux(under(e, s), rem_params - 1, non_prop, used(s))
  ELSE Then(Do("ensure_infers_as_sort", <<e.binder_type>>, used(s)),
         LAMBDA l, s1 : large_elim_test_aux(under(e, s), 0, non_prop \cup (IF l = 0 THEN {} ELSE {unique(e, s)}), s1))

\* Mutant: one constructor is enough.
large_elim_one_ctor(s) == Ret(s.st.block_codom # 0 \/ (Len(s.st.types) = 1 /\ Len(AllCtors(s)) <= 1), s)

large_elim_test(s) ==
  IF s.st.block_codom # 0 THEN Ret(TRUE, s)
  ELSE IF Len(s.st.types) # 1 \/ Len(AllCtors(s)) > 1 THEN Ret(FALSE, s)
  ELSE IF AllCtors(s) = <<>> THEN Ret(TRUE, s)
  ELSE large_elim_test_aux(AllCtors(s)[1].ty, NumParams(s), {}, clear_tc(s))

mk_elim_level(s) ==
  Then(large_elim_test(s), LAMBDA large, s1 : Ret(TRUE, [s1 EXCEPT !.st.elim_level = IF large THEN LargeLevel ELSE 0]))

init_k_target(s) ==
  [s EXCEPT !.st.k_target = /\ s.st.block_codom = 0 /\ Len(s.st.types) = 1 /\ Len(AllCtors(s)) = 1
                            /\ pi_telescope_size(AllCtors(s)[1].ty) = NumParams(s)]

------------------------------------------------------------------------------
(***************************************************************************)
(* The recursors.                                                          *)
(***************************************************************************)
Positions(s) == [i \in DOMAIN s.st.types |-> i]

mk_majors(s) ==
  Then(Each(Positions(s), s,
         LAMBDA i, s1 : mk_unique(foldl_apps(Const(s.st.ind_consts[i]), s.st.local_params \o s.st.local_indices[i]), s1)),
    LAMBDA ms, s2 : Ret(TRUE, [s2 EXCEPT !.st.majors = ms]))

mk_motive_dep(i, s) ==
  mk_unique(abstr_pis(s.st.local_indices[i], abstr_pi(s.st.majors[i], Sort(s.st.elim_level))), s)

mk_motives(s) == Then(Each(Positions(s), s, mk_motive_dep), LAMBDA ms, s1 : Ret(TRUE, [s1 EXCEPT !.st.motives = ms]))

\* The position of the type that e is, or is a function to; or 0.
is_rec_argument(e, s) ==
  Then(reduce(e, s), LAMBDA w, s1 : IF w.k = "pi" THEN is_rec_argument(under(w, s1), used(s1))
                                                  ELSE Ret(which_valid_ind_app(w, s1), s1))

\* sep_nonrec_rec_ctor_args: the result of a constructor, its fields, and
\* those among them that are recursive.
ctor_args(e, all, recs, s) ==
  IF e.k # "pi" THEN Ret([res |-> e, all |-> all, recs |-> recs], s)
  ELSE Then(is_rec_argument(e.binder_type, used(s)),
         LAMBDA pos, s1 : ctor_args(under(e, s), Append(all, unique(e, s)),
                                    IF pos # 0 THEN Append(recs, unique(e, s)) ELSE recs, s1))
sep_nonrec_rec_ctor_args(c, s) == Then(strip_params(c.ty, s, FALSE), LAMBDA e, s1 : ctor_args(e, <<>>, <<>>, s1))

handle_rec_args_aux(e, xs, s) ==
  IF e.k # "pi" THEN Ret([ty |-> e, xs |-> xs], s)
  ELSE Then(reduce(under(e, s), used(s)), LAMBDA w, s1 : handle_rec_args_aux(w, Append(xs, unique(e, s)), s1))

\* A recursive argument: what it is a function of (xs), and the type and
\* indices it is a function to.
rec_argument(x, s) ==
  Then(Do("infer_then_whnf", <<x, "InferOnly">>, clear_tc(s)), LAMBDA t, s1 : Then(handle_rec_args_aux(t, <<>>, s1),
    LAMBDA o, s2 : Then(get_i_indices(o.ty, s2), LAMBDA ind, s3 : Ret(ind @@ [xs |-> o.xs], s3))))

\* handle_rec_args_minor: the inductive hypotheses.
induction_hypothesis(x, s) ==
  Then(rec_argument(x, s),
    LAMBDA o, s1 : mk_unique(abstr_pis(o.xs, App(foldl_apps(s1.st.motives[o.pos], o.indices), foldl_apps(x, o.xs))), s1))

\* Mutant: no hypothesis for a recursive argument.
mk_minor_no_hypotheses(c, s) ==
  Then(sep_nonrec_rec_ctor_args(c, s), LAMBDA a, s1 : Then(get_i_indices(a.res, s1),
    LAMBDA ind, s2 : mk_unique(abstr_pis(a.all,
      App(foldl_apps(s2.st.motives[ind.pos], ind.indices), foldl_apps(Const(c.name), s2.st.local_params \o a.all))), s2)))

mk_minor(c, s) ==
  Then(sep_nonrec_rec_ctor_args(c, s), LAMBDA a, s1 : Then(get_i_indices(a.res, s1),
    LAMBDA ind, s2 : Then(Each(a.recs, s2, induction_hypothesis),
      LAMBDA v, s3 : mk_unique(abstr_pis(a.all \o v,
        App(foldl_apps(s3.st.motives[ind.pos], ind.indices), foldl_apps(Const(c.name), s3.st.local_params \o a.all))), s3))))

mk_minors(s) ==
  Then(Each(s.st.types, s, LAMBDA t, s1 : Each(t.ctors, s1, mk_minor)),
    LAMBDA ms, s2 : Ret(TRUE, [s2 EXCEPT !.st.minors = ms]))

\* handle_rec_ctor_args_rec_rule: the recursor of the type of x, applied to it.
rec_call(x, s) ==
  Then(rec_argument(x, s),
    LAMBDA o, s1 :
      Ret(abstr_lambda_telescope(o.xs,
            App(foldl_apps(Const(rec_name(s1.st.types[o.pos].name)),
                           s1.st.local_params \o s1.st.motives \o FlatMinors(s1) \o o.indices),
                foldl_apps(x, o.xs))), s1))

mk_rec_rule1(c, minor, s) ==
  Then(sep_nonrec_rec_ctor_args(c, s), LAMBDA a, s1 : Then(Each(a.recs, s1, rec_call),
    LAMBDA calls, s2 :
      Ret([ctor |-> c.name, size |-> pi_telescope_size(c.ty) - NumParams(s2),
           val |-> abstr_lambda_telescope(s2.st.local_params \o s2.st.motives \o FlatMinors(s2) \o a.all,
                                          foldl_apps(minor, a.all \o calls))], s2)))

mk_rec_rules(s) ==
  Each(Positions(s), s, LAMBDA i, s1 :
    Each([j \in DOMAIN s.st.types[i].ctors |-> j], s1, LAMBDA j, s2 :
      mk_rec_rule1(s.st.types[i].ctors[j], s.st.minors[i][j], s2)))

mk_recursor_aux(i, rules, s) ==
  [name |-> rec_name(s.st.types[i].name),
   d |-> [kind |-> "rec",
          ty |-> abstr_pis(s.st.local_params \o s.st.motives \o FlatMinors(s) \o s.st.local_indices[i] \o <<s.st.majors[i]>>,
                           App(foldl_apps(s.st.motives[i], s.st.local_indices[i]), s.st.majors[i])),
          num_params |-> NumParams(s), num_indices |-> Len(s.st.local_indices[i]),
          num_motives |-> Len(s.st.motives), num_minors |-> Len(FlatMinors(s)),
          rules |-> rules, is_k |-> s.st.k_target]]

mk_recursors(s) ==
  Then(mk_elim_level(s), LAMBDA ok1, s1 : Then(mk_majors(init_k_target(s1)), LAMBDA ok2, s2 :
    Then(mk_motives(s2), LAMBDA ok3, s3 : Then(mk_minors(s3), LAMBDA ok4, s4 : Then(mk_rec_rules(s4),
      LAMBDA rules, s5 :
        Ret(TRUE, [s5 EXCEPT !.st.recursors = [i \in DOMAIN s5.st.types |-> mk_recursor_aux(i, rules[i], s5)]]))))))

------------------------------------------------------------------------------
(***************************************************************************)
(* The comparison with what was declared.                                  *)
(***************************************************************************)
same(x, y, s) == Do("assert_def_eq", <<x, y>>, clear_tc(s))

\* A declared recursor against rec; the sizes of rules are compared unless the
\* block is nested.
same_recursor(old, rec, s) ==
  Then(same(old.ty, rec.ty, s),
    LAMBDA ok, s1 :
      IF Len(old.rules) # Len(rec.rules) THEN Panics(s1)
      ELSE Each([i \in DOMAIN rec.rules |-> i], s1,
             LAMBDA i, s2 :
               IF old.rules[i].ctor # rec.rules[i].ctor \/ (~ is_nested(s2) /\ old.rules[i].size # rec.rules[i].size)
               THEN Panics(s2) ELSE same(old.rules[i].val, rec.rules[i].val, s2)))

is_old(n, kind) == get_old_declar(n) /\ old_declar(n).kind = kind

\* assert_nonnested_tys_def_eq, _ctors_def_eq and _recursors_def_eq.
assert_nonnested(s) ==
  Then(Each(s.st.types, s, LAMBDA t, s1 : same(old_declar(t.name).ty, t.ty, s1)),
    LAMBDA ok1, s2 : Then(Each(AllCtors(s2), s2, LAMBDA c, s3 : same(old_declar(c.name).ty, c.ty, s3)),
      LAMBDA ok2, s4 : Each(s4.st.recursors, s4,
        LAMBDA r, s5 : IF is_old(r.name, "rec") THEN same_recursor(old_declar(r.name), r.d, s5) ELSE Panics(s5))))

\* mk_specialized_rec_to_unspecialized_map: the i-th specialised type's recursor
\* is the main type's with number i.
num_base(s) == Len(s.st.types) - Len(s.st.nested)
unspecialized_rec_name(n, s) ==
  LET i == SelectInSeq(s.st.nested, LAMBDA x : rec_name(x.name) = n)
  IN  IF i = 0 THEN n ELSE append_index_after(rec_name(s.st.types[1].name), i)

\* The constructor c of a specialised type as one of the type it is a copy of.
restore_ctor_name(c, s) ==
  replace_pfx(c, declars[c].induct, unfold_apps_fun(nofvars(declars[c].induct, s)).name)

\* What e stands for outside of the block, if its head is a specialised name.
replace_f(e, locals, s) ==
  LET f == unfold_apps_fun(e)
      rest == SubSeq(unfold_apps_args(e), NumParams(s) + 1, Len(unfold_apps_args(e)))
      nested(n) == inst(nofvars(n, s), locals)
  IN  IF f.k # "const" THEN NoExpr
      ELSE IF e.k = "const" /\ unspecialized_rec_name(f.name, s) # f.name THEN Const(unspecialized_rec_name(f.name, s))
      ELSE IF f.name \in Specialized(s) THEN foldl_apps(nested(f.name), rest)
      ELSE IF ~ IsOfKind(f.name, {"ctor"}) THEN NoExpr
      ELSE IF declars[f.name].induct \notin Specialized(s) THEN NoExpr
      ELSE foldl_apps(Const(restore_ctor_name(f.name, s)), unfold_apps_args(nested(declars[f.name].induct)) \o rest)

restore_replace(e, locals, s) ==
  IF replace_f(e, locals, s) # NoExpr THEN Ret(replace_f(e, locals, s), s)
  ELSE EachPart(e, s, LAMBDA x, s1 : restore_replace(x, locals, s1))

\* The first binders of e, functions or function types, opened.
open_locals(e, n, locals, s) ==
  IF n = 0 THEN Ret([locals |-> locals, body |-> e], s)
  ELSE IF e.k \notin {"pi", "lambda"} THEN Panics(s)
  ELSE open_locals(under(e, s), n - 1, Append(locals, unique(e, s)), used(s))

restore_e(e, s) ==
  Then(open_locals(e, NumParams(s), <<>>, s), LAMBDA o, s1 : Then(restore_replace(o.body, o.locals, s1),
    LAMBDA x, s2 : Ret(IF e.k = "pi" THEN abstr_pis(o.locals, x) ELSE abstr_lambda_telescope(o.locals, x), s2)))

restore_rule(rule, specialized, s) ==
  Then(restore_e(rule.val, s), LAMBDA v, s1 :
    Ret([rule EXCEPT !.val = v, !.ctor = IF specialized THEN restore_ctor_name(@, s1) ELSE @], s1))

restore_recursor1(r, s) ==
  Then(restore_e(r.d.ty, s), LAMBDA t, s1 :
    Then(Each(r.d.rules, s1, LAMBDA rule, s2 : restore_rule(rule, unspecialized_rec_name(r.name, s2) # r.name, s2)),
      LAMBDA rules, s3 : Ret([r.d EXCEPT !.ty = t, !.rules = rules], s3)))

\* A recursor that was not declared is not asked for.
check_restored_recursor1(r, s) ==
  Then(restore_recursor1(r, s),
    LAMBDA rec, s1 : IF is_old(unspecialized_rec_name(r.name, s1), "rec")
                     THEN same_recursor(old_declar(unspecialized_rec_name(r.name, s1)), rec, s1) ELSE Ret(TRUE, s1))

check_restored_ctor1(c, s) ==
  Then(restore_e(c.ty, s), LAMBDA t, s1 : same(old_declar(c.name).ty, t, s1))

restore_and_check(s) ==
  Then(Each(SubSeq(s.st.types, 1, num_base(s)), s,
         LAMBDA t, s1 : Then(same(old_declar(t.name).ty, t.ty, s1),
           LAMBDA ok1, s2 : Each(t.ctors, s2, check_restored_ctor1))),
    LAMBDA ok2, s3 : Each(s3.st.recursors, s3, check_restored_recursor1))

compare(s) == IF is_nested(s) THEN restore_and_check(s) ELSE assert_nonnested(s)

\* The quotient constants: each comparison is made by a checker of its own.
assert_quot(n, d, s) ==
  Each(check_quot(n, s.unique_counter), [s EXCEPT !.unique_counter = @ + quot_vars(n)],
       LAMBDA g, s1 : IF g.form
                      THEN Do("assert_def_eq", <<IF g.name = n THEN d.ty ELSE declars[g.name].ty, g.type>>, new_checker(s1))
                      ELSE Panics(s1))

------------------------------------------------------------------------------
Do(op, a, s) ==
  CASE op = "check_info" -> check_info(a[1], s)
    [] op = "specialize_nested" -> specialize_nested(a[1], s)
    [] op = "check_inductive_specs" -> check_inductive_specs(s)
    [] op = "check_ctors" -> check_ctors(s)
    [] op = "mk_recursors" -> mk_recursors(s)
    [] op = "compare" -> compare(s)
    [] op = "check_quot" -> assert_quot(a[1], a[2], s)
    [] OTHER -> Call(op, a, s)

\* The environment that the phase after p sees.
extended(p, s) ==
  CASE p \in {"check_info", "specialize_nested"} -> declars
    [] p = "check_inductive_specs" -> mk_ind_tys_env_ext(s) @@ declared(block, at)
    [] p = "check_ctors" -> mk_ctors_env_ext(s) @@ declared(block, at)
    [] p = "mk_recursors" -> Named(s.st.recursors) @@ mk_ctors_env_ext(s) @@ declared(block, at)

Init ==
  /\ block \in Blocks /\ at = 1 /\ declars = declared(block, 1)
  /\ phase = Phases[1] /\ ctx = NewCtx /\ failed = <<>>

\* The check of this declaration has ended, the next one has a context of its own.
Advance(ok) ==
  /\ at' = at + 1 /\ declars' = declared(block, at + 1)
  /\ phase' = Phases[1] /\ ctx' = NewCtx
  /\ failed' = IF ok THEN failed ELSE (block.decls[at].name :> phase) @@ failed

Current == block.decls[at].d

\* One phase of the check of an inductive type.
Phase(i) ==
  /\ at <= Len(block.decls) /\ phase = Phases[i]
  /\ Current.kind = "induct"
  /\ \E r \in {Do(phase, <<Current>>, ctx)} :
       IF r.ok /\ i < Len(Phases)
       THEN /\ phase' = Phases[i + 1] /\ ctx' = new_checker(r.s) /\ declars' = extended(phase, r.s)
            /\ UNCHANGED <<at, failed>>
       ELSE Advance(r.ok)
  /\ UNCHANGED block

\* A constructor or a recursor, and what it belongs to must have been declared;
\* or a quotient constant.
CheckOther ==
  /\ at <= Len(block.decls) /\ Current.kind # "induct"
  /\ LET of == CASE Current.kind = "ctor" -> {Current.induct}
               [] Current.kind = "rec" -> Range(Current.all)
               [] Current.kind = "quot" -> {}
         all == declared(block, Len(block.decls) + 1)
         check == IF Current.kind = "quot" THEN <<"check_quot", <<block.decls[at].name, Current>>>>
                  ELSE <<"check_declar_info", <<Current>>>>
     IN  Advance(Do(check[1], check[2], ctx).ok /\ of \subseteq DOMAIN all)
  /\ UNCHANGED block

Next == (\E i \in DOMAIN Phases : Phase(i)) \/ CheckOther
Spec == Init /\ [][Next]_vars

------------------------------------------------------------------------------
(***************************************************************************)
(* What a good block is, in terms of module TypeTheory.  All terms are     *)
(* closed: binders are opened with variables that the check does not use.  *)
(* The notions refer to each other through Assess.                         *)
(***************************************************************************)
RECURSIVE Assess(_, _), Fields(_, _)
NormalForm(e) == Assess("Whnf", <<e>>)
Type0(e) == Assess("TypeOf", <<e>>)
HasType(e) == Assess("Typed", <<e>>)
SameTypes(A, B) == Assess("EqualTypes", <<A, B>>)
Same(x, y, A) == Assess("Canon", <<x, A>>) = Assess("Canon", <<y, A>>)
Level(A) == NormalForm(Type0(A)).level
IsAType(A) == HasType(A) /\ NormalForm(Type0(A)).k = "sort"
Telescope(t, id) == Assess("telescope", <<t, id>>)
Positive(t, seen) == Assess("positive", <<t, seen>>)

\* The binders of a type and its end, up to reduction; and those in sight.
TelescopeRule(t, id) ==
  LET w == NormalForm(t)
      x == Unique(id, w.binder_type)
      r == Telescope(Put(w.body, 0, x), id + 1)
  IN  IF w.k = "pi" THEN [xs |-> <<x>> \o r.xs, end |-> r.end] ELSE [xs |-> <<>>, end |-> w]
Fields(e, id) ==
  LET x == Unique(id, e.binder_type)
      r == Fields(Put(e.body, 0, x), id + 1)
  IN  IF e.k = "pi" THEN [xs |-> <<x>> \o r.xs, end |-> r.end] ELSE [xs |-> <<>>, end |-> e]

\* e, a telescope in sight, with args in place of its binders.
With(e, args) == FoldLeft(LAMBDA t, x : Put(t.body, 0, x), e, args)
ArgsTo(e, n) == SubSeq(unfold_apps_args(e), 1, n)
ArgsFrom(e, n) == SubSeq(unfold_apps_args(e), n + 1, Len(unfold_apps_args(e)))

TypeNames == {block.decls[i].name : i \in {j \in DOMAIN block.decls : block.decls[j].d.kind = "induct"}}
First == SelectSeq(block.decls, LAMBDA x : x.d.kind = "induct")[1].d
Params == SubSeq(Telescope(First.ty, 1000).xs, 1, First.num_params)
Universe == Telescope(First.ty, 1000).end.level
Occurs(e) == find_const(e, TypeNames)

\* An application of one of names to the parameters, and to indices without
\* occurrences of the block.
Applied(e, names) ==
  LET f == unfold_apps_fun(e)
  IN  /\ f.k = "const" /\ f.name \in names /\ ArgsTo(e, Len(Params)) = Params
      /\ ~ \E x \in Range(ArgsFrom(e, Len(Params))) : Occurs(x)

\* A type with the parameters that the container w has.
Copy(n, w) == foldl_apps(Const(n), ArgsTo(w, declars[n].num_params))

\* The block occurs in t only as a result, or in the parameters of another
\* inductive type that has them in such places only.  `seen` are occurrences of
\* the second kind that t is in.
PositiveRule(t, seen) ==
  LET w == NormalForm(t)
      D == unfold_apps_fun(w).name
      np == declars[D].num_params
      all == Range(declars[D].all)
  IN  CASE ~ Occurs(w) -> TRUE
        [] Occurs(w) /\ w.k = "pi" ->
             ~ Occurs(w.binder_type) /\ Positive(Put(w.body, 0, Unique(3000, w.binder_type)), seen)
        [] Occurs(w) /\ w.k # "pi" ->
             \/ Applied(w, TypeNames)
             \/ /\ unfold_apps_fun(w).k = "const" /\ D \notin TypeNames /\ IsOfKind(D, {"induct"})
                /\ Level(w) = Universe
                /\ ~ \E x \in Range(ArgsFrom(w, np)) : Occurs(x)
                /\ ~ \E x \in Range(ArgsTo(w, np)) : has_fvars(abstr(x, Params))
                /\ \/ Copy(D, w) \in seen
                   \/ \A n \in all : \A c \in Range(declars[n].ctors) :
                        \A x \in Range(Fields(With(declars[c].ty, ArgsTo(w, np)), 4000).xs) :
                          Positive(x.binder_type, seen \cup {Copy(m, w) : m \in all})

\* All types have the parameters of the first, and their elements its universe.
GoodType(d) ==
  LET tele == Telescope(d.ty, 1000)
  IN  /\ IsAType(d.ty)
      /\ tele.end.k = "sort" /\ Len(tele.xs) >= Len(Params)
      /\ tele.end.level = Universe
      /\ \A i \in DOMAIN Params : SameTypes(tele.xs[i].binder_type, Params[i].binder_type)

GoodCtor(I, c) ==
  LET t == declars[c].ty
      np == Len(Params)
      fields == Fields(With(t, Params), 2000)
  IN  /\ IsAType(t)
      /\ pi_telescope_size(t) >= np
      /\ \A i \in 1 .. np : SameTypes(With(t, SubSeq(Params, 1, i - 1)).binder_type, Params[i].binder_type)
      /\ \A x \in Range(fields.xs) : Universe = 0 \/ Level(x.binder_type) <= Universe
      /\ \A x \in Range(fields.xs) : Positive(x.binder_type, {})
      /\ Applied(fields.end, {I})

WellFormed ==
  /\ \A n \in TypeNames : GoodType(declars[n])
  /\ \A n \in TypeNames : \A c \in Range(declars[n].ctors) : IsOfKind(c, {"ctor"}) /\ GoodCtor(n, c)

\* The declaration n is what is called for: a recursor by its type, a quotient
\* constant by the kernel, and equality by Quot.lift.
SameTerm(x, y) == HasType(x) /\ HasType(y) /\ SameTypes(Type0(x), Type0(y)) /\ Same(x, y, Type0(y))
SameRules(rules, refs) ==
  /\ Len(rules) = Len(refs)
  /\ \A i \in DOMAIN refs : /\ rules[i].ctor = refs[i].ctor /\ rules[i].size = refs[i].size
                            /\ SameTerm(rules[i].val, refs[i].val)
IsCalledFor(n) ==
  LET d == declars[n]
      ref == block.refs[n]
  IN  /\ IsOfKind(n, {ref.kind}) /\ SameTerm(d.ty, ref.ty)
      /\ ref.kind = "rec" => SameRules(d.rules, ref.rules)
      /\ ref.kind = "induct" => d.num_params = ref.num_params /\ d.ctors = ref.ctors

\* A rule takes the recursor, applied to a constructor application, to a term of
\* the same type.
RuleKeepsType(rec, rule) ==
  LET n == rec.num_params + rec.num_motives + rec.num_minors
      tele == Fields(rec.ty, 1000)
      xs == SubSeq(tele.xs, 1, n)
      np == declars[rule.ctor].num_params
      ps == ArgsTo(tele.xs[major_idx(rec) + 1].binder_type, np)
      fields == Fields(With(declars[rule.ctor].ty, ps), 2000)
      major == foldl_apps(Const(rule.ctor), ps \o fields.xs)
      reduct == foldl_apps(rule.val, xs \o fields.xs)
  IN  /\ Len(fields.xs) = rule.size
      /\ HasType(reduct)
      /\ SameTypes(Type0(reduct), With(rec.ty, xs \o ArgsFrom(fields.end, np) \o <<major>>))

\* It has a type, a rule for each constructor, and these keep types.
Computes(rec) ==
  /\ IsAType(rec.ty)
  /\ [i \in DOMAIN rec.rules |-> rec.rules[i].ctor] = declars[get_major_induct(rec)].ctors
  /\ \A i \in DOMAIN rec.rules : RuleKeepsType(rec, rec.rules[i])

\* Quot.lift or Quot.ind, applied to Quot.mk A r a, goes to the function applied
\* to a, which has the same type.
QuotKeepsType(n) ==
  LET xs == Fields(declars[n].ty, 1000).xs
      x == Unique(5000, xs[1])
      major == foldl_apps(Const("Quot.mk"), <<xs[1], xs[2], x>>)
      reduct == App(xs[4], x)
  IN  /\ HasType(major) /\ HasType(reduct)
      /\ SameTypes(Type0(reduct), With(declars[n].ty, SubSeq(xs, 1, Len(xs) - 1) \o <<major>>))

CtorsHaveTypes == \A n \in TypeNames : \A c \in Range(declars[n].ctors) : IsAType(declars[c].ty)

\* All fields of the constructor c are proofs or arguments of its result.
Determined(c) ==
  LET fields == Fields(With(declars[c].ty, Params), 2000)
  IN  \A x \in Range(fields.xs) :
        \/ Level(x.binder_type) = 0
        \/ \E arg \in Range(unfold_apps_args(fields.end)) :
             SameTypes(Type0(arg), x.binder_type) /\ Same(arg, x, x.binder_type)

Assess(what, x) ==
  CASE what = "telescope" -> TelescopeRule(x[1], x[2])
    [] what = "positive" -> PositiveRule(x[1], x[2])
    [] what = "well formed" -> WellFormed
    [] what = "called for" -> IsCalledFor(x[1])
    [] what = "constructors have types" -> CtorsHaveTypes
    [] what = "computes" -> Computes(x[1])
    [] what = "quotient computes" -> QuotKeepsType(x[1])
    [] what = "determined" -> Determined(x[1])
    [] OTHER -> Judge(what, <<>>, x)

------------------------------------------------------------------------------
Done == at > Len(block.decls)
Good == Assess("well formed", <<>>)

\* A block is accepted exactly when it is well formed and its recursors are
\* those it should have; one that comes without recursors only fails where
\* they are looked for.  The quotient constants are accepted exactly when they
\* and equality have the types they should have.  (check_inductive_declar of
\* every type, check_declar_info of every member, nested and mutual blocks
\* included, check_quot and check_eq.)
AcceptsWellFormed ==
  Done =>
    IF DOMAIN block.refs # {}
    THEN failed = <<>> <=> (Good /\ \A n \in DOMAIN block.refs : Assess("called for", <<n>>))
    ELSE (\A n \in DOMAIN failed : failed[n] = "compare") <=> Good

\* The recursors that are constructed for a block, if its constructors have types
\* (which is for the check of each of them to tell), have a type, one rule for
\* each constructor and rules that keep types; and so have the declared ones of
\* an accepted block.  What Quot.lift and Quot.ind reduce to keeps its type if
\* they are accepted.  (mk_motives, mk_minors, mk_rec_rules, mk_recursors,
\* restore_and_check for the names of nested types, check_quot.)
RecursorsCompute ==
  /\ phase = "compare" /\ Assess("constructors have types", <<>>) =>
       \A i \in DOMAIN ctx.st.recursors : Assess("computes", <<ctx.st.recursors[i].d>>)
  /\ Done /\ failed = <<>> =>
       \A n \in DOMAIN block.refs :
         /\ declars[n].kind = "rec" => Assess("computes", <<declars[n]>>)
         /\ n \in {"Quot.lift", "Quot.ind"} => Assess("quotient computes", <<n>>)

\* A proposition is only eliminated into types if what its proof holds can be
\* told from the type, so that equal proofs cannot be told apart; one whose
\* recursor looks at the type alone has no fields.  (large_elim_test,
\* init_k_target.)
EliminationSound ==
  phase = "compare" /\ ctx.st.block_codom = 0 =>
    LET ctors == AllCtors(ctx)
    IN  /\ ctx.st.elim_level # 0 =>
             /\ Len(ctx.st.types) = 1 /\ Len(ctors) <= 1
             /\ \A i \in DOMAIN ctors : Assess("determined", <<ctors[i].name>>)
        /\ ctx.st.k_target => pi_telescope_size(ctors[1].ty) = First.num_params
==============================================================================
