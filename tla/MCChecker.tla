------------------------------ MODULE MCChecker ------------------------------
(***************************************************************************)
(* Requests for the type checker: terms of every form, right and wrong in  *)
(* each place that is checked, and declarations made of them.              *)
(***************************************************************************)
EXTENDS Checker, MCEnv

a == Const("a")
b == Const("b")
p == Const("p")
f(x) == Fn("f", x)
add(x, y) == A2(Const("Nat.add"), x, y)
double(x) == Fn("double", x)
fst(e) == Proj("Pair", 0, e)
snd(e) == Proj("Pair", 1, e)
SumOf(e) == App(A3(Const("Pair.rec"), N, Lambda(PairOf(N), N), Lambda(N, Lambda(N, add(Var(1), Var(0))))), e)
QMk(e) == A3(Const("Quot.mk"), N, Const("r"), e)
QLift(e) == App(App(App(A3(Const("Quot.lift"), N, Const("r"), N), Const("f")), Const("resp")), e)
PolyId == Lambda(Type, Lambda(Var(0), Var(0)))
Outer == Lambda(N, NatRec(Var(0), Lambda(N, Lambda(N, f(Var(2)))), a))
Deep == Lambda(N, App(Lambda(Arrow(N, N), App(Var(0), Var(1))), Lambda(N, add(Var(0), Var(1)))))
\* A dependent function that is made and used below another binder.
VecFn == Pi(N, Fn("Vec", Var(0)))
Dependent == Lambda(N, App(Lambda(VecFn, App(Var(0), Var(1))), Lambda(N, Fn("vec", Var(0)))))
Second == Lambda(N, Lambda(N, Lambda(Fn("Vec", Var(0)), Var(0))))
SecondTy == Pi(N, Pi(N, Pi(Fn("Vec", Var(0)), Fn("Vec", Var(1)))))

Numbers ==
  { add(NatLit(1), NatLit(2)), double(a), double(NatLit(2)), SumOf(p), SumOf(MkPair(a, b)), QLift(QMk(a)), fst(MkPair(a, b)), snd(p),
    Let(N, NatLit(1), Fn("Nat.succ", Var(0))), A2(PolyId, N, a), Fn("h", a), Fn("k3", Const("w3")),
    Fn("pf", Const("t")), A2(Const("Nat.ble"), a, NatLit(1)), A2(Const("Nat.mul"), NatLit(2), NatLit(2)), A2(Const("Nat.ble"), NatLit(2), NatLit(1)) }
Functions ==
  { PolyId, Outer, Deep, Dependent, Lambda(N, Lambda(Fn("Vec", Var(0)), Var(0))), Lambda(N, Lambda(N, f(Var(1)))),
    Lambda(PairOf(N), fst(Var(0))), Lambda(Const("P"), Fn("pf", Var(0))), Const("Quot.lift") }
Types ==
  { Pi(Type, Pi(Var(0), Var(1))), Arrow(N, Prop), Pi(N, Fn("Vec", Fn("Nat.succ", Var(0)))), Const("NatFn"),
    A2(Lambda(Type, Lambda(N, Var(1))), Const("One"), a), Proj("Ex", 1, Const("ex")) }
Wrong ==
  { f(Const("h1")), App(a, b), Lambda(a, Var(0)), Pi(a, N), Lambda(N, App(Var(0), Var(0))), Let(N, Const("h1"), a),
    Let(a, a, a), Proj("Pair", 2, p), Proj("Ex", 0, Const("ex")), Fn("pf", Const("h3")), Const("zz"),
    A2(PolyId, N, Const("h1")), Lambda(N, Fn("k3", Var(0))), Proj("Nat", 0, a), A1(Const("Nat.succ"), Const("u")) }
MCTerms == Numbers \cup Functions \cup Types \cup Wrong

\* Some are compared after a term that one of them contains was taken on trust.
MCPairs ==
  { <<double(a), Fn("twice", a)>>, <<Fn("twice", a), add(a, a)>>, <<add(a, a), add(a, b)>>,
    <<Const("h1"), Const("t")>>, <<Const("h1"), Const("h3")>>, <<SumOf(p), add(fst(p), snd(p))>>,
    <<Fn("k3", Const("w3")), a>>, <<Proj("Ex", 1, Const("ex")), Const("h1")>>,
    <<f(Const("h1")), f(Const("h2"))>>, <<A2(PolyId, N, Const("h1")), a>>, <<Deep, Const("f")>>,
    <<Lambda(N, add(Var(0), Var(0))), Const("double")>>, <<p, MkPair(fst(p), snd(p))>> }

MCCandidates ==
  { Axiom(Pi(N, Fn("Vec", Var(0)))), Axiom(a), Axiom(Fn("Vec", Const("h1"))), Axiom(Unique(0, Prop)),
    Def(Fn("Vec", NatLit(3)), Const("w3"), 0), Def(Fn("Vec", add(NatLit(2), NatLit(1))), Const("w3"), 0),
    Def(Fn("Vec", NatLit(2)), Const("w3"), 0), Def(Const("NatFn"), Outer, 0), Def(VecFn, Dependent, 0),
    Def(SecondTy, Second, 0), Def(Arrow(N, N), Deep, 0),
    Def(N, Lambda(N, Var(0)), 0), Def(N, f(Const("h1")), 0), Def(a, a, 0), Thm(Const("P"), Const("h2")),
    Thm(Const("P"), Const("h3")), Thm(N, a), Thm(Proj("Ex", 1, Const("ex")), Const("h1")),
    [kind |-> "opaque", ty |-> N, val |-> Const("zz")] }

x0 == Local(0, N)
x1 == Local(1, Fn("Vec", x0))
y0 == Unique(0, N)
InstWalk(e, substs) == [kind |-> "inst", e |-> e, substs |-> substs]
AbstrWalk(e, locals, start) == [kind |-> "abstr_levels", e |-> e, locals |-> locals, start_pos |-> start]
MCWalks ==
  { InstWalk(add(Var(0), Lambda(N, add(Var(1), Var(0)))), <<a>>), InstWalk(add(Var(0), Lambda(N, add(Var(1), Var(0)))), <<b>>),
    InstWalk(add(Var(0), Var(1)), <<a, b>>), InstWalk(add(Var(0), Var(1)), <<b, a>>),
    InstWalk(Pi(Var(0), Pi(Var(2), add(Var(1), Var(3)))), <<x0, a>>),
    AbstrWalk(add(x0, y0), <<x0>>, 0), AbstrWalk(Lambda(N, add(x0, Local(1, N))), <<x0, Local(1, N)>>, 0),
    AbstrWalk(Lambda(N, add(x0, Local(1, N))), <<Local(1, N)>>, 1), AbstrWalk(A2(Const("k3"), x0, x1), <<x0, x1>>, 0),
    AbstrWalk(A2(Const("k3"), x0, x1), <<x1>>, 1), AbstrWalk(add(x0, Lambda(N, add(x0, Var(0)))), <<x0>>, 0) }

MCFirst ==
  {<<"equal", q[1], q[2]>> : q \in MCPairs} \cup {<<"declar", d>> : d \in MCCandidates}
    \cup {<<"check", e>> : e \in {Outer, Deep, SumOf(p)}} \cup {<<"whnf", e>> : e \in {double(a), Const("NatFn")}}
==============================================================================
