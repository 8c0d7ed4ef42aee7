------------------------------- MODULE MCConv --------------------------------
(***************************************************************************)
(* Questions for the conversion checker: each way to be equal, by          *)
(* computing, by the form of the type, after an attempt that failed, and   *)
(* for most of them a pair that is different.                              *)
(***************************************************************************)
EXTENDS Conv, MCEnv

add(x, y) == A2(Const("Nat.add"), x, y)
succ(x) == Fn("Nat.succ", x)
double(x) == Fn("double", x)
f(x) == Fn("f", x)
a == Const("a")
b == Const("b")
p == Const("p")
Two == NatLit(2)

\* The second is what the first is, found out only when counting down is forced.
Put2 == add(a, Two)
Put1 == succ(add(a, NatLit(1)))
Countdown(s, e) == NatRec(e, s, f(b))
Step1 == Lambda(N, Lambda(N, f(Var(0))))
Step2 == Lambda(N, Lambda(N, App(Lambda(N, f(Var(0))), Var(0))))
fst(e) == Proj("Pair", 0, e)
snd(e) == Proj("Pair", 1, e)
SumOf(e) == App(A3(Const("Pair.rec"), N, Lambda(PairOf(N), N), Lambda(N, Lambda(N, add(Var(1), Var(0))))), e)
QMk(e) == A3(Const("Quot.mk"), N, Const("r"), e)
QLift(e) == App(App(App(A3(Const("Quot.lift"), N, Const("r"), N), Const("f")), Const("resp")), e)

NumberQuestions ==
  { <<Put2, Put1>>, <<double(Put2), double(Put1)>>, <<double(Put2), double(succ(Put1))>>,
    <<f(Put2), f(Put1)>>, <<double(a), Fn("twice", a)>>, <<double(a), add(a, a)>>, <<double(a), add(a, b)>>,
    <<add(NatLit(1), Two), NatLit(3)>>, <<Put2, add(a, NatLit(1))>>, <<f(a), Fn("g", a)>>,
    <<succ(a), NatLit(3)>>, <<succ(Const("three")), NatLit(4)>>, <<f(Const("three")), f(NatLit(3))>>,
    <<double(succ(Const("three"))), double(NatLit(4))>>, <<succ(succ(a)), Put2>>, <<double(NatLit(1)), Two>>, <<double(Two), Two>>,
    <<succ(Const("Nat.zero")), NatLit(1)>>, <<Let(N, NatLit(1), succ(Var(0))), Two>>,
    <<Fn("pf", Const("h1")), Fn("pf", Const("h2"))>>, <<Fn("pf", Const("t")), Fn("pf", Const("h2"))>>,
    <<Countdown(Step1, a), Countdown(Step2, a)>>, <<Countdown(Step1, a), Countdown(Step1, b)>>,
    <<NatRec(a, Step1, Countdown(Step1, b)), NatRec(a, Step2, Countdown(Step2, b))>>,
    <<NatRec(a, Step1, NatRec(Const("Nat.zero"), Lambda(N, Lambda(N, succ(Var(0)))), NatLit(1))), f(a)>>,
    <<SumOf(p), add(fst(p), snd(p))>>, <<SumOf(MkPair(a, Two)), Put1>>, <<fst(p), snd(p)>>,
    <<fst(MkPair(a, b)), Fn("id", a)>>,
    <<QLift(QMk(a)), f(a)>>, <<QLift(QMk(a)), f(b)>>, <<QLift(Const("qq")), QLift(QMk(a))>> }

OtherQuestions ==
  { <<Lambda(N, f(Var(0))), Const("f")>>, <<Const("f"), Const("g")>>, <<Lambda(N, double(Var(0))), Const("twice")>>,
    <<Lambda(N, Var(0)), Const("id")>>, <<Lambda(N, NatLit(0)), Const("id")>>,
    <<p, MkPair(fst(p), snd(p))>>, <<p, MkPair(snd(p), fst(p))>>, <<p, Const("q")>>,
    <<MkPair(double(Put2), a), MkPair(double(Put1), a)>>,
    <<Const("u"), Const("v")>>, <<Const("u"), Const("One.mk")>>, <<Const("h1"), Const("h2")>>,
    <<Const("t"), Const("h2")>>, <<Sort(0), Sort(0)>>, <<Sort(1), Sort(2)>>,
    <<Pi(Prop, Var(0)), Pi(Prop, Const("P"))>>, <<Arrow(N, Prop), Arrow(N, Prop)>>,
    <<Lambda(N, QMk(Var(0))), A2(Const("Quot.mk"), N, Const("r"))>> }

\* x, moved along a proof of Eq T p q with motive the constant type N; and along
\* one that is bound around it.
Up(e) == Shift(e, 1, 0)
Cast(T, y, z, e, proof) ==
  A2(App(A3(Const("Eq.rec"), T, y, Lambda(T, Lambda(EqOf(Up(T), Up(y), Var(0)), N))), e), z, proof)
Along(T, y, z, e) == Lambda(EqOf(T, y, z), Cast(Up(T), Up(y), Up(z), Up(e), Var(0)))
Still(T, y, z, e) == Lambda(EqOf(T, y, z), Up(e))

\* The proof is not looked at.  The types that are compared for it are under
\* binders, or hold functions, or a sum whose unfolding is put off.
PutCast == Cast(N, Put2, Put1, b, Const("eqput"))
EqualityQuestions ==
  { <<PutCast, b>>, <<double(PutCast), double(b)>>, <<double(PutCast), double(a)>>, <<f(PutCast), f(b)>>,
    <<Cast(N, a, a, b, Const("eqaa")), b>>, <<Cast(N, a, b, b, Const("eqab")), b>>,
    <<f(Cast(N, a, b, b, Const("eqab"))), f(Cast(N, a, b, b, Const("eqab")))>>,
    <<Along(N, a, a, b), Still(N, a, a, b)>>, <<Along(N, a, b, b), Still(N, a, b, b)>>,
    <<Along(N, Put2, Put1, b), Still(N, Put2, Put1, b)>>,
    <<Along(Arrow(N, N), Const("f"), Lambda(N, f(Var(0))), b), Still(Arrow(N, N), Const("f"), Lambda(N, f(Var(0))), b)>>,
    <<Lambda(N, Along(N, Var(0), Fn("id", Var(0)), b)), Lambda(N, Still(N, Var(0), Fn("id", Var(0)), b))>> }

\* A variable that is bound outside stands in a function that the types hold.
BinderQuestions ==
  { <<Lambda(N, Along(Arrow(N, N), Lambda(N, Var(0)), Lambda(N, Var(1)), b)),
      Lambda(N, Still(Arrow(N, N), Lambda(N, Var(0)), Lambda(N, Var(1)), b))>> }

MCPutOff == {<<double(Put2), double(Put1)>>, <<MkPair(double(Put2), a), MkPair(double(Put1), a)>>,
             <<double(PutCast), double(b)>>}
MCCasts == {<<PutCast, b>>, <<f(PutCast), f(b)>>}
\* Those that leave failed attempts behind, and some that leave successes.
MCFirst == MCPutOff \cup EqualityQuestions \cup
  { <<double(Put2), double(succ(Put1))>>, <<f(Put2), f(Put1)>>, <<double(a), Fn("twice", a)>>,
    <<Countdown(Step1, a), Countdown(Step1, b)>>, <<SumOf(p), add(fst(p), snd(p))>>, <<Const("h1"), Const("h2")>> }
MCQuestions == NumberQuestions \cup OtherQuestions \cup EqualityQuestions
==============================================================================
