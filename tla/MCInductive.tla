----------------------------- MODULE MCInductive -----------------------------
(***************************************************************************)
(* Blocks for module Inductive.  The first kind is made of a type and one  *)
(* constructor in all combinations of a few fields and results, and has no *)
(* recursors; the second is written out with the recursors it should have, *)
(* right and wrong.  And the quotient constants, on top of several notions *)
(* of equality.                                                            *)
(***************************************************************************)
EXTENDS Inductive, MCEnv

D(n, d) == [name |-> n, d |-> d]
ListOf(a) == Fn("List", a)
Id(a) == Fn("Id", a)
MCContainers ==
  MCEnvironment @@
  ("List" :> Induct("List", Arrow(Type, Type), 1, TRUE, <<"List.nil", "List.cons">>)) @@
  ("List.nil" :> Ctor(Pi(Type, ListOf(Var(0))), "List", 1, 0)) @@
  ("List.cons" :> Ctor(Pi(Type, Pi(Var(0), Pi(ListOf(Var(1)), ListOf(Var(2))))), "List", 1, 2)) @@
  ("Sink" :> Induct("Sink", Arrow(Type, Type), 1, FALSE, <<"Sink.mk">>)) @@
  ("Sink.mk" :> Ctor(Pi(Type, Pi(Arrow(Var(0), N), Fn("Sink", Var(1)))), "Sink", 1, 1)) @@
  ("Id" :> Def(Arrow(Type, Type), Lambda(Type, Var(0)), 1))

Type2 == Sort(2)
Ind(all, ty, np, ni, ctors) ==
  [kind |-> "induct", ty |-> ty, num_params |-> np, num_indices |-> ni, is_recursive |-> TRUE, all |-> all, ctors |-> ctors]
Block(decls, refs) == [before |-> "numbers", decls |-> decls, refs |-> refs]

------------------------------------------------------------------------------
(* Generated blocks: T : U with mk : fields -> T, and T : Nat -> U with      *)
(* mk : (n : Nat) -> field -> T i.                                           *)
T == Const("T")
FieldsOf(U) ==
  {T, N, Const("P"), Arrow(N, T), Arrow(T, N)}
    \cup IF U = Prop THEN {Arrow(Const("P"), T)} ELSE {Type, Id(T), ListOf(T), Fn("Sink", T), Arrow(Arrow(T, N), N)}
Plain(U, fields) ==
  Block(<<D("T", Ind(<<"T">>, U, 0, 0, <<"mk">>)),
          D("mk", Ctor(FoldRight(Arrow, fields, T), "T", 0, Len(fields)))>>, <<>>)
Tn(i) == App(T, i)
Indexed(U, fields, i) ==
  Block(<<D("T", Ind(<<"T">>, Arrow(N, U), 0, 1, <<"mk">>)),
          D("mk", Ctor(Pi(N, FoldRight(Arrow, fields, Tn(i))), "T", 0, 1 + Len(fields)))>>, <<>>)
Generated ==
  UNION {{Plain(U, fields) : fields \in SeqOf(FieldsOf(U), 2)} : U \in {Prop, Type}}
    \cup {Indexed(U, fields, i) : U \in {Prop, Type},
                                  fields \in SeqOf({Tn(NatLit(0)), N, Const("P")}, 1), i \in {NatLit(0), Const("a")}}
    \cup {Block(<<D("T", Ind(<<"T">>, Arrow(N, U), 0, 1, <<"mk">>)),
                  D("mk", Ctor(Pi(N, Pi(f, Tn(i))), "T", 0, 2))>>, <<>>) :
            U \in {Prop, Type}, f \in {Tn(Var(0)), N, Const("P"), Fn("Vec", Var(0))}, i \in {Var(0), Var(1), NatLit(0)}}

------------------------------------------------------------------------------
(* Blocks with recursors.                                                    *)
U0(i, t) == Unique(2000 + i, t)
Pis(xs, e) == abstr_pis(xs, e)
Lams(xs, e) == abstr_lambda_telescope(xs, e)
Ap(f, xs) == foldl_apps(f, xs)
R(all, ty, np, ni, nmot, nmin, k, rules) ==
  [kind |-> "rec", ty |-> ty, num_params |-> np, num_indices |-> ni, num_motives |-> nmot, num_minors |-> nmin,
   is_k |-> k, all |-> all, rules |-> rules]
\* A block, its recursors as they should be, and as they are declared instead.
WithRecursors(decls, recs, changed) ==
  Block(decls \o [i \in DOMAIN recs |-> D(recs[i].name, (changed @@ Named(recs))[recs[i].name])], Named(recs))
Right == <<>>

\* Tree: leaf and node l r.
Tree == Const("Tree")
TreeDecls == <<D("Tree", Ind(<<"Tree">>, Type, 0, 0, <<"leaf", "node">>)), D("leaf", Ctor(Tree, "Tree", 0, 0)),
               D("node", Ctor(Arrow(Tree, Arrow(Tree, Tree)), "Tree", 0, 2))>>
TreeRec(U, calls(_, _)) ==
  LET m == U0(0, Arrow(Tree, U))
      l == U0(1, Tree)
      r == U0(2, Tree)
      hl == U0(3, App(m, l))
      hr == U0(4, App(m, r))
      z == U0(5, App(m, Const("leaf")))
      s == U0(6, Pis(<<l, r, hl, hr>>, App(m, A2(Const("node"), l, r))))
      t == U0(7, Tree)
      rec(x) == Ap(Const("Tree.rec"), <<m, z, s, x>>)
  IN  R(<<"Tree">>, Pis(<<m, z, s, t>>, App(m, t)), 0, 0, 1, 2, FALSE,
        <<Rule("leaf", 0, Lams(<<m, z, s>>, z)),
          Rule("node", 2, Lams(<<m, z, s, l, r>>, Ap(s, <<l, r>> \o calls(rec(l), rec(r)))))>>)
TreeRecursor == TreeRec(Type, LAMBDA x, y : <<x, y>>)
Trees ==
  {WithRecursors(TreeDecls, <<D("Tree.rec", TreeRecursor)>>, changed) :
     changed \in {Right, "Tree.rec" :> TreeRec(Type, LAMBDA x, y : <<x, x>>),
                  "Tree.rec" :> TreeRec(Type, LAMBDA x, y : <<y, x>>),
                  "Tree.rec" :> TreeRec(Prop, LAMBDA x, y : <<x, y>>),
                  "Tree.rec" :> [TreeRecursor EXCEPT !.rules[2].size = 1],
                  "Tree.rec" :> [TreeRecursor EXCEPT !.rules = <<@[2], @[1]>>],
                  "Tree.rec" :> [TreeRecursor EXCEPT !.rules = <<@[1]>>]}}

\* Vec A n, with a parameter and an index.
Vc(A, n) == A2(Const("V"), A, n)
VecDecls ==
  LET A == U0(0, Type)
      n == U0(1, N)
  IN  <<D("V", Ind(<<"V">>, Arrow(Type, Arrow(N, Type)), 1, 1, <<"vnil", "vcons">>)),
        D("vnil", Ctor(Pis(<<A>>, Vc(A, NatLit(0))), "V", 1, 0)),
        D("vcons", Ctor(Pis(<<A, n, U0(2, A), U0(3, Vc(A, n))>>, Vc(A, Fn("Nat.succ", n))), "V", 1, 3))>>
VecRec(index(_)) ==
  LET A == U0(0, Type)
      n == U0(1, N)
      x == U0(2, A)
      v == U0(3, Vc(A, n))
      m == U0(4, Pis(<<n, v>>, Type))
      z == U0(5, A2(m, NatLit(0), Fn("vnil", A)))
      s == U0(6, Pis(<<n, x, v, U0(7, A2(m, n, v))>>,
                     A2(m, Fn("Nat.succ", n), Ap(Const("vcons"), <<A, n, x, v>>))))
  IN  R(<<"V">>, Pis(<<A, m, z, s, n, v>>, A2(m, n, v)), 1, 1, 1, 2, FALSE,
        <<Rule("vnil", 0, Lams(<<A, m, z, s>>, z)),
          Rule("vcons", 3, Lams(<<A, m, z, s, n, x, v>>,
                                Ap(s, <<n, x, v, Ap(Const("V.rec"), <<A, m, z, s, index(n), v>>)>>)))>>)
Vecs == {WithRecursors(VecDecls, <<D("V.rec", VecRec(LAMBDA n : n))>>, changed) :
           changed \in {Right, "V.rec" :> VecRec(LAMBDA n : Fn("Nat.succ", n))}}

\* Even and odd numbers, two propositions that refer to each other.
Ev(n) == Fn("Ev", n)
Od(n) == Fn("Od", n)
EvOdDecls(odd_params) ==
  LET n == U0(0, N)
      next(from, to) == Pis(<<n, U0(1, from)>>, Fn(to, Fn("Nat.succ", n)))
  IN  <<D("Ev", Ind(<<"Ev", "Od">>, Arrow(N, Prop), 0, 1, <<"ev0", "evs">>)),
        D("Od", Ind(<<"Ev", "Od">>, Arrow(N, Prop), odd_params, 1 - odd_params, <<"ods">>)),
        D("ev0", Ctor(Ev(NatLit(0)), "Ev", 0, 0)), D("evs", Ctor(next(Od(n), "Ev"), "Ev", 0, 2)),
        D("ods", Ctor(next(Ev(n), "Od"), "Od", odd_params, 2 - odd_params))>>
EvOdRecs(U) ==
  LET n == U0(0, N)
      e == U0(1, Ev(n))
      o == U0(2, Od(n))
      me == U0(3, Pis(<<n, e>>, U))
      mo == U0(4, Pis(<<n, o>>, U))
      z == U0(5, A2(me, NatLit(0), Const("ev0")))
      s == U0(6, Pis(<<n, o, U0(7, A2(mo, n, o))>>, A2(me, Fn("Nat.succ", n), A2(Const("evs"), n, o))))
      t == U0(8, Pis(<<n, e, U0(9, A2(me, n, e))>>, A2(mo, Fn("Nat.succ", n), A2(Const("ods"), n, e))))
      pre == <<me, mo, z, s, t>>
      all == <<"Ev", "Od">>
  IN  <<D("Ev.rec", R(all, Pis(pre \o <<n, e>>, A2(me, n, e)), 0, 1, 2, 3, FALSE,
             <<Rule("ev0", 0, Lams(pre, z)),
               Rule("evs", 2, Lams(pre \o <<n, o>>, A3(s, n, o, Ap(Const("Od.rec"), pre \o <<n, o>>))))>>)),
        D("Od.rec", R(all, Pis(pre \o <<n, o>>, A2(mo, n, o)), 0, 1, 2, 3, FALSE,
             <<Rule("ods", 2, Lams(pre \o <<n, e>>, A3(t, n, e, Ap(Const("Ev.rec"), pre \o <<n, e>>))))>>))>>
EvOds == {WithRecursors(EvOdDecls(0), EvOdRecs(Prop), changed) : changed \in {Right, Named(EvOdRecs(Type))}}

\* Two alternatives, which a proof does not tell; and the same as a type.
OrDecls(U) == <<D("Or", Ind(<<"Or">>, U, 0, 0, <<"inl", "inr">>)),
                D("inl", Ctor(Arrow(Const("P"), Const("Or")), "Or", 0, 1)),
                D("inr", Ctor(Arrow(Const("Q"), Const("Or")), "Or", 0, 1))>>
OrRec(U) ==
  LET m == U0(0, Arrow(Const("Or"), U))
      x == U0(1, Const("P"))
      y == U0(2, Const("Q"))
      l == U0(3, Pis(<<x>>, App(m, Fn("inl", x))))
      r == U0(4, Pis(<<y>>, App(m, Fn("inr", y))))
      t == U0(5, Const("Or"))
  IN  R(<<"Or">>, Pis(<<m, l, r, t>>, App(m, t)), 0, 0, 1, 2, FALSE,
        <<Rule("inl", 1, Lams(<<m, l, r, x>>, App(l, x))), Rule("inr", 1, Lams(<<m, l, r, y>>, App(r, y)))>>)
Ors == {WithRecursors(OrDecls(Prop), <<D("Or.rec", OrRec(Prop))>>, Right),
        WithRecursors(OrDecls(Prop), <<D("Or.rec", OrRec(Prop))>>, "Or.rec" :> OrRec(Type)),
        WithRecursors(OrDecls(Type), <<D("Or.rec", OrRec(Type))>>, Right)}

\* Rose trees: node A (List (Rose A)), with a second recursor for the list.
Rose(A) == Fn("Rose", A)
RoseDecls ==
  LET A == U0(0, Type)
  IN  <<D("Rose", Ind(<<"Rose">>, Arrow(Type, Type), 1, 0, <<"rnode">>)),
        D("rnode", Ctor(Pis(<<A, U0(1, A), U0(2, ListOf(Rose(A)))>>, Rose(A)), "Rose", 1, 2))>>
RoseRecs(list_rec) ==
  LET A == U0(0, Type)
      x == U0(1, A)
      t == U0(2, Rose(A))
      ts == U0(3, ListOf(Rose(A)))
      m == U0(4, Pis(<<t>>, Type))
      ml == U0(5, Pis(<<ts>>, Type))
      node == U0(6, Pis(<<x, ts, U0(7, App(ml, ts))>>, App(m, A3(Const("rnode"), A, x, ts))))
      nil == U0(8, App(ml, Fn("List.nil", Rose(A))))
      cons == U0(9, Pis(<<t, ts, U0(10, App(m, t)), U0(11, App(ml, ts))>>, App(ml, A3(Const("List.cons"), Rose(A), t, ts))))
      pre == <<A, m, ml, node, nil, cons>>
      rec(n, e) == Ap(Const(n), pre \o <<e>>)
  IN  <<D("Rose.rec", R(<<"Rose">>, Pis(pre \o <<t>>, App(m, t)), 1, 0, 2, 3, FALSE,
             <<Rule("rnode", 2, Lams(pre \o <<x, ts>>, A3(node, x, ts, rec(list_rec, ts))))>>)),
        D("Rose.rec_1", R(<<"Rose">>, Pis(pre \o <<ts>>, App(ml, ts)), 1, 0, 2, 3, FALSE,
             <<Rule("List.nil", 0, Lams(pre, nil)),
               Rule("List.cons", 2, Lams(pre \o <<t, ts>>, Ap(cons, <<t, ts, rec("Rose.rec", t), rec(list_rec, ts)>>)))>>))>>
Roses == {WithRecursors(RoseDecls, RoseRecs("Rose.rec_1"), changed) :
            changed \in {Right, "Rose.rec_1" :> [RoseRecs("Rose.rec_1")[2].d EXCEPT !.rules[1].ctor = "rnode"]}}

\* Types and constructors that are wrong in other places.
Single(ty, np, ni, ctors) ==
  Block(<<D("T", Ind(<<"T">>, ty, np, ni, [i \in DOMAIN ctors |-> ctors[i].name]))>> \o ctors, <<>>)
Mk(t, np, nf) == D("mk", Ctor(t, "T", np, nf))
Pair2(ty1, ty2, c) ==
  Block(<<D("T", Ind(<<"T", "S">>, ty1, 0, 0, <<"mk">>)), D("S", Ind(<<"T", "S">>, ty2, 0, 0, <<>>)),
          D("mk", Ctor(c, "T", 0, pi_telescope_size(c)))>>, <<>>)
Others ==
  { Single(Type, 0, 0, <<>>), Single(Prop, 0, 0, <<>>), Single(N, 0, 0, <<>>), Single(Type, 0, 0, <<Mk(N, 0, 0)>>),
    Single(Arrow(Type, Type), 1, 0, <<Mk(Pi(Type, Tn(N)), 1, 0)>>),
    Single(Arrow(Type, Type), 1, 0, <<Mk(Pi(Type, Tn(Var(0))), 1, 0)>>),
    Single(Arrow(Type, Type), 1, 0, <<Mk(Pi(N, Tn(N)), 1, 0)>>),
    Single(Arrow(Type, Type), 1, 0, <<Mk(Tn(N), 1, 0)>>),
    Single(Arrow(Type, Type), 0, 1, <<Mk(Pi(Type, Tn(Var(0))), 0, 1)>>),
    Single(Arrow(Type, Type2), 0, 1, <<Mk(Pi(Type, Tn(Var(0))), 0, 1)>>),
    Single(Arrow(Type, Type2), 0, 1, <<Mk(Pi(Type, Arrow(Tn(Var(0)), Tn(N))), 0, 2)>>),
    Single(Arrow(Const("NatFn"), Prop), 1, 0, <<Mk(Pi(Arrow(N, N), Tn(Var(0))), 1, 0)>>),
    Pair2(Type, Type, Arrow(Const("S"), T)), Pair2(Type, Prop, T), Pair2(Prop, Prop, T),
    Pair2(Type, Type, Arrow(ListOf(Const("S")), Arrow(ListOf(T), T))), Pair2(Type, Type, Arrow(Arrow(Const("S"), N), T)),
    Block(SubSeq(TreeDecls, 1, 2), <<>>) }

------------------------------------------------------------------------------
(* The quotient constants.                                                   *)
QuotA(A, r) == A2(Const("Quot"), A, r)
RelTy(A) == Arrow(A, Arrow(A, Prop))
\* Their types, given what a relation is, what Quot.lift asks of a function and
\* what Quot.ind asks for.
QuotTypes(rel(_), resp(_, _, _, _), ind(_, _, _)) ==
  LET A == U0(0, Type)
      r == U0(1, rel(A))
      x == U0(2, A)
      B == U0(3, Type)
      fun == U0(4, Arrow(A, B))
      C == U0(5, Arrow(QuotA(A, r), Prop))
      q == U0(6, QuotA(A, r))
  IN  ("Quot" :> Quotient(Pis(<<A, r>>, Type))) @@
      ("Quot.mk" :> Quotient(Pis(<<A, r, x>>, QuotA(A, r)))) @@
      ("Quot.lift" :> Quotient(Pis(<<A, r, B, fun, U0(7, resp(A, r, B, fun)), q>>, B))) @@
      ("Quot.ind" :> Quotient(Pis(<<A, r, C, U0(7, ind(A, r, C)), q>>, App(C, q))))
Resp(A, r, B, fun) ==
  LET x == U0(8, A)
      y == U0(9, A)
  IN  Pis(<<x, y, U0(10, A2(r, x, y))>>, EqOf(B, App(fun, x), App(fun, y)))
RespAll(A, r, B, fun) ==
  LET x == U0(8, A)
      y == U0(9, A)
  IN  Pis(<<x, y>>, EqOf(B, App(fun, x), App(fun, y)))
RespSelf(A, r, B, fun) ==
  LET x == U0(8, A)
      y == U0(9, A)
  IN  Pis(<<x, y, U0(10, A2(r, x, y))>>, EqOf(B, App(fun, x), App(fun, x)))
OnMk(A, r, C) == Pis(<<U0(8, A)>>, App(C, A3(Const("Quot.mk"), A, r, U0(8, A))))
OnAll(A, r, C) == Pis(<<U0(8, QuotA(A, r))>>, App(C, U0(8, QuotA(A, r))))
RightTypes == QuotTypes(RelTy, Resp, OnMk)

QuotNames == <<"Quot", "Quot.mk", "Quot.lift", "Quot.ind">>
Quots(before, types) ==
  [before |-> before, decls |-> [i \in DOMAIN QuotNames |-> D(QuotNames[i], types[QuotNames[i]])],
   refs |-> [n \in {"Eq", "Eq.refl"} |-> Equality[n]] @@ RightTypes]
QuotBlocks ==
  {Quots("no quotients", t) :
     t \in {RightTypes, QuotTypes(LAMBDA A : Fn("RelOf", A), Resp, OnMk), QuotTypes(LAMBDA A : Arrow(A, Prop), Resp, OnMk),
            QuotTypes(RelTy, RespAll, OnMk), QuotTypes(RelTy, RespSelf, OnMk), QuotTypes(RelTy, Resp, OnAll),
            [RightTypes EXCEPT !["Quot.mk"].ty = Pi(Type, Pi(Rel, Pi(Var(1), Var(2))))],
            [RightTypes EXCEPT !["Quot"].ty = Arrow(Type, Type)]}}
    \cup {Quots(b, RightTypes) : b \in {"one parameter", "two constructors", "all equal", "no equality"}}

Without(env, names) == [n \in DOMAIN env \ names |-> env[n]]
NoQuotients ==
  Without(MCContainers, Range(QuotNames) \cup {"qq", "resp", "Resp"}) @@
  ("RelOf" :> Def(Arrow(Type, Type), Lambda(Type, Rel), 1))
\* Other notions of equality.
WithEqualities(env) ==
  ("no quotients" :> env) @@
  ("one parameter" :> [env EXCEPT !["Eq"].num_params = 1]) @@
  ("two constructors" :> ("Eq.also" :> env["Eq.refl"]) @@ [env EXCEPT !["Eq"].ctors = <<"Eq.refl", "Eq.also">>]) @@
  ("all equal" :> [env EXCEPT !["Eq.refl"].ty = Pi(Type, Pi(Var(0), Pi(Var(1), EqOf(Var(2), Var(1), Var(0)))))]) @@
  ("no equality" :> Without(env, {"Eq", "Eq.refl", "Eq.rec", "eqaa", "eqab"}))
MCEnvironments == ("numbers" :> MCContainers) @@ WithEqualities(NoQuotients)

MCBlocks == Generated \cup Trees \cup Vecs \cup EvOds \cup Ors \cup Roses \cup Others \cup QuotBlocks
==============================================================================
