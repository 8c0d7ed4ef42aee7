----------------------------- MODULE TypeTheory ------------------------------
(***************************************************************************)
(* What the kernel's algorithms are about, independent of how they work:   *)
(* typing and definitional equality of terms.  A context G is the sequence *)
(* of the types of the bound variables, innermost first; a free variable   *)
(* is a constant of the type it carries.                                   *)
(*                                                                         *)
(* Equality is decided through a canonical form that follows the type: all *)
(* proofs of a proposition are one, a function is its body, an element of  *)
(* a structure type is its fields, and anything else is reduced to its     *)
(* head and compared by its arguments.                                     *)
(*                                                                         *)
(* Nothing here models code: there are no caches, no laziness, no order of *)
(* unfolding and no free variables to manage.                              *)
(***************************************************************************)
EXTENDS Declars

RECURSIVE Shift(_, _, _), Put(_, _, _), Judge(_, _, _)

\* The notions below refer to each other, through Judge at the end.
Whnf(G, e) == Judge("Whnf", G, <<e>>)
TypeOf(G, e) == Judge("TypeOf", G, <<e>>)
Typed(G, e) == Judge("Typed", G, <<e>>)
Step(G, c, args) == Judge("Step", G, <<c, args>>)
Canon(G, e, T) == Judge("Canon", G, <<e, T>>)
CanonNeutral(G, e) == Judge("CanonNeutral", G, <<e>>)
EqualTypes(G, A, B) == Judge("EqualTypes", G, <<A, B>>)
UnderParams(G, t, args, n) == Judge("UnderParams", G, <<t, args, n>>)
FieldType(G, S, s, i) == Judge("FieldType", G, <<S, s, i>>)

Parts(e, f(_, _)) ==
  CASE e.k = "app" -> App(f(e.fun, 0), f(e.arg, 0))
    [] e.k \in {"pi", "lambda"} -> [e EXCEPT !.binder_type = f(@, 0), !.body = f(@, 1)]
    [] e.k = "let" -> Let(f(e.binder_type, 0), f(e.val, 0), f(e.body, 1))
    [] e.k = "proj" -> Proj(e.ty_name, e.idx, f(e.structure, 0))
    [] OTHER -> e

\* d more binders around e, the innermost c of whose variables are its own.
Shift(e, d, c) ==
  IF e.k = "var" THEN IF e.dbj_idx >= c THEN Var(e.dbj_idx + d) ELSE e
  ELSE Parts(e, LAMBDA x, u : Shift(x, d, c + u))

\* e with a in place of variable i, whose binder goes.
Put(e, i, a) ==
  IF e.k = "var"
  THEN IF e.dbj_idx = i THEN Shift(a, i, 0)
       ELSE IF e.dbj_idx > i THEN Var(e.dbj_idx - 1) ELSE e
  ELSE Parts(e, LAMBDA x, u : Put(x, i + u, a))

\* The fields of constructor applications, literals being numerals.
AsCtor(e) == IF e.k # "nat" THEN e
             ELSE IF e.n = 0 THEN Const("Nat.zero") ELSE App(Const("Nat.succ"), NatLit(e.n - 1))
CtorOf(e) == LET f == unfold_apps_fun(e)
             IN  IF f.k = "const" /\ IsOfKind(f.name, {"ctor"}) THEN f.name ELSE ""
RuleOf(rec, ctor) == CHOOSE i \in 1 .. Len(rec.rules) : rec.rules[i].ctor = ctor

\* A major premise whose type is that of the only constructor is as good as it.
KCtor(G, rec, m) ==
  LET T == Whnf(G, TypeOf(G, m))
  IN  foldl_apps(Const(declars[get_major_induct(rec)].ctors[1]), SubSeq(unfold_apps_args(T), 1, rec.num_params))
KReduces(G, rec, m) == rec.is_k /\ EqualTypes(G, TypeOf(G, m), TypeOf(G, KCtor(G, rec, m)))

\* One constructor, no indices, and no field that holds the type again,
\* whatever was declared of it.
Struct(n) ==
  LET c == declars[declars[n].ctors[1]]
  IN  can_be_struct(n) /\ ~ \E i \in 1 .. c.num_fields :
                              find_const(get_nth_pi_binder(c.ty, c.num_params + i - 1), Range(declars[n].all))

Stuck == NoExpr
\* One step of a constant c applied to args, or Stuck.
StepRule(G, c, args) ==
  CASE has_declar_val(c) -> foldl_apps(declars[c].val, args)
    [] IsOfKind(c, {"rec"}) /\ Len(args) > major_idx(declars[c]) ->
         LET rec == declars[c]
             S == get_major_induct(rec)
             m == args[major_idx(rec) + 1]
             major == IF KReduces(G, rec, m) THEN KCtor(G, rec, m) ELSE AsCtor(Whnf(G, m))
             ctor == IF Struct(S) THEN declars[S].ctors[1] ELSE CtorOf(major)
             rule == rec.rules[RuleOf(rec, ctor)]
             fields == IF CtorOf(major) # "" THEN unfold_apps_args(major)
                       ELSE [i \in 1 .. rule.size |-> Proj(S, i - 1, major)]
         IN  IF ctor = "" THEN Stuck
             ELSE foldl_apps(rule.val,
                    SubSeq(args, 1, rec.num_params + rec.num_motives + rec.num_minors)
                      \o SubSeq(fields, (Len(fields) - rule.size) + 1, Len(fields))
                      \o SubSeq(args, major_idx(rec) + 2, Len(args)))
    [] c = "Quot.lift" /\ Len(args) > 5 ->
         LET q == Whnf(G, args[6])
         IN  IF ~ IsConst(unfold_apps_fun(q), "Quot.mk") THEN Stuck
             ELSE foldl_apps(App(args[4], unfold_apps_args(q)[3]), SubSeq(args, 7, Len(args)))
    [] OTHER -> Stuck

\* Weak head normal form.
WhnfRule(G, e) ==
  LET f == unfold_apps_fun(e)
      args == unfold_apps_args(e)
      s == AsCtor(Whnf(G, f.structure))
      field == unfold_apps_args(s)[declars[CtorOf(s)].num_params + f.idx + 1]
      next == Step(G, f.name, args)
  IN  CASE f.k = "lambda" /\ args # <<>> -> Whnf(G, foldl_apps(Put(f.body, 0, args[1]), Tail(args)))
        [] f.k = "let" -> Whnf(G, foldl_apps(Put(f.body, 0, f.val), args))
        [] f.k = "proj" -> IF CtorOf(s) = "" THEN foldl_apps(Proj(f.ty_name, f.idx, s), args)
                                             ELSE Whnf(G, foldl_apps(field, args))
        [] f.k = "const" -> IF next = Stuck THEN e ELSE Whnf(G, next)
        [] OTHER -> e

\* A telescope with args in place of its first binders.
UnderParamsRule(G, t, args, n) ==
  IF n = 0 THEN Whnf(G, t) ELSE Put(UnderParams(G, t, args, n - 1).body, 0, args[n])

\* The type of field i of s, an element of the structure type S.
FieldTypeRule(G, S, s, i) ==
  LET ctor == declars[unfold_apps_fun(S).name].ctors[1]
      np == declars[ctor].num_params
      known == unfold_apps_args(S) \o [j \in 1 .. i |-> Proj(unfold_apps_fun(S).name, j - 1, s)]
  IN  Whnf(G, UnderParams(G, declars[ctor].ty, known, np + i)).binder_type

\* The type of a term that has one.
TypeOfRule(G, e) ==
  CASE e.k = "sort" -> Sort(e.level + 1)
    [] e.k = "const" -> declars[e.name].ty
    [] e.k = "nat" -> Const("Nat")
    [] e.k \in {"local", "unique"} -> e.binder_type
    [] e.k = "var" -> Shift(G[e.dbj_idx + 1], e.dbj_idx + 1, 0)
    [] e.k = "app" -> Put(Whnf(G, TypeOf(G, e.fun)).body, 0, e.arg)
    [] e.k = "lambda" -> Pi(e.binder_type, TypeOf(<<e.binder_type>> \o G, e.body))
    [] e.k = "pi" -> Sort(imax(Whnf(G, TypeOf(G, e.binder_type)).level,
                               Whnf(<<e.binder_type>> \o G, TypeOf(<<e.binder_type>> \o G, e.body)).level))
    [] e.k = "let" -> TypeOf(G, Put(e.body, 0, e.val))
    [] e.k = "proj" -> FieldType(G, Whnf(G, TypeOf(G, e.structure)), e.structure, e.idx)

SortOf(G, T) == Whnf(G, TypeOf(G, T)).level
IsStruct(T) == LET f == unfold_apps_fun(T) IN f.k = "const" /\ Struct(f.name)

\* The canonical form of e : T in context G.
CanonRule(G, e, T) ==
  LET t == Whnf(G, T)
      w == AsCtor(Whnf(G, e))
  IN  CASE SortOf(G, t) = 0 -> <<"proof">>
        [] SortOf(G, t) # 0 /\ t.k = "pi" ->
             <<"fun", Canon(<<t.binder_type>> \o G, App(Shift(e, 1, 0), Var(0)), t.body)>>
        [] SortOf(G, t) # 0 /\ IsStruct(t) ->
             <<"mk", [i \in 1 .. declars[declars[unfold_apps_fun(t).name].ctors[1]].num_fields |->
                        Canon(G, Proj(unfold_apps_fun(t).name, i - 1, e), FieldType(G, t, e, i - 1))]>>
        [] OTHER ->
             CASE w.k = "sort" -> <<"sort", w.level>>
               [] w.k = "pi" -> <<"pi", Canon(G, w.binder_type, TypeOf(G, w.binder_type)),
                                  Canon(<<w.binder_type>> \o G, w.body,
                                        TypeOf(<<w.binder_type>> \o G, w.body))>>
               [] OTHER -> CanonNeutral(G, w)

CanonNeutralRule(G, e) ==
  CASE e.k = "app" -> <<"app", CanonNeutral(G, e.fun),
                        Canon(G, e.arg, Whnf(G, TypeOf(G, e.fun)).binder_type)>>
    [] e.k = "proj" -> <<"proj", e.idx, CanonNeutral(G, e.structure)>>
    [] e.k = "const" -> <<"const", e.name>>
    [] e.k = "var" -> <<"var", e.dbj_idx>>
    [] e.k \in {"local", "unique"} -> <<"free", e>>

Equal(G, a, b, T) == Canon(G, a, T) = Canon(G, b, T)
EqualTypesRule(G, A, B) == SortOf(G, A) = SortOf(G, B) /\ Equal(G, A, B, Sort(SortOf(G, A)))

\* Whether e has a type.  A let is typed as the code does it, by its body with
\* the value in place; the fields of a proof can only be taken if they are
\* proofs, and so must be those that they depend on.
IsType(G, T) == Typed(G, T) /\ Whnf(G, TypeOf(G, T)).k = "sort"
TypedRule(G, e) ==
  CASE e.k \in {"sort", "nat", "local", "unique"} -> TRUE
    [] e.k = "const" -> e.name \in DOMAIN declars
    [] e.k = "var" -> e.dbj_idx < Len(G)
    [] e.k = "app" -> /\ Typed(G, e.fun) /\ Typed(G, e.arg)
                      /\ LET F == Whnf(G, TypeOf(G, e.fun))
                         IN  F.k = "pi" /\ EqualTypes(G, F.binder_type, TypeOf(G, e.arg))
    [] e.k = "lambda" -> IsType(G, e.binder_type) /\ Typed(<<e.binder_type>> \o G, e.body)
    [] e.k = "pi" -> IsType(G, e.binder_type) /\ IsType(<<e.binder_type>> \o G, e.body)
    [] e.k = "let" -> /\ IsType(G, e.binder_type) /\ Typed(G, e.val)
                      /\ EqualTypes(G, TypeOf(G, e.val), e.binder_type)
                      /\ Typed(G, Put(e.body, 0, e.val))
    [] e.k = "proj" ->
         /\ Typed(G, e.structure)
         /\ LET S == Whnf(G, TypeOf(G, e.structure))
            IN  /\ IsStruct(S) /\ unfold_apps_fun(S).name = e.ty_name
                /\ e.idx < declars[declars[e.ty_name].ctors[1]].num_fields
                /\ SortOf(G, S) = 0 => SortOf(G, FieldType(G, S, e.structure, e.idx)) = 0

Judge(what, G, x) ==
  CASE what = "Whnf" -> WhnfRule(G, x[1])
    [] what = "TypeOf" -> TypeOfRule(G, x[1])
    [] what = "Step" -> StepRule(G, x[1], x[2])
    [] what = "Canon" -> CanonRule(G, x[1], x[2])
    [] what = "CanonNeutral" -> CanonNeutralRule(G, x[1])
    [] what = "EqualTypes" -> EqualTypesRule(G, x[1], x[2])
    [] what = "UnderParams" -> UnderParamsRule(G, x[1], x[2], x[3])
    [] what = "FieldType" -> FieldTypeRule(G, x[1], x[2], x[3])
    [] what = "Typed" -> TypedRule(G, x[1])
==============================================================================
