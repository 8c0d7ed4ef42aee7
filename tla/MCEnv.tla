-------------------------------- MODULE MCEnv --------------------------------
(***************************************************************************)
(* A small environment for the runs: the natural numbers with their        *)
(* recursor and three definitions, a structure with a parameter, a unit    *)
(* type, a structure that is a proposition, quotients, and axioms.         *)
(***************************************************************************)
EXTENDS Terms

N == Const("Nat")
A1(f, a) == App(f, a)
A2(f, a, b) == App(App(f, a), b)
A3(f, a, b, c) == App(A2(f, a, b), c)
Arrow(a, b) == Pi(a, b)   \* for closed b
Fn(n, a) == App(Const(n), a)
Type == Sort(1)
Prop == Sort(0)

Induct(n, ty, np, rec, ctors) == [kind |-> "induct", ty |-> ty, num_params |-> np, num_indices |-> 0,
                                  is_recursive |-> rec, all |-> <<n>>, ctors |-> ctors]
Ctor(ty, ind, np, nf) == [kind |-> "ctor", ty |-> ty, induct |-> ind, num_params |-> np, num_fields |-> nf]
Rec(ty, np, nmin, rules) == [kind |-> "rec", ty |-> ty, num_params |-> np, num_indices |-> 0,
                             num_motives |-> 1, num_minors |-> nmin, rules |-> rules, is_k |-> FALSE]
Rule(ctor, size, val) == [ctor |-> ctor, size |-> size, val |-> val]
Def(ty, val, hint) == [kind |-> "def", ty |-> ty, val |-> val, hint |-> hint]
Thm(ty, val) == [kind |-> "thm", ty |-> ty, val |-> val]
Axiom(ty) == [kind |-> "axiom", ty |-> ty]
Quotient(ty) == [kind |-> "quot", ty |-> ty]

\* Nat.rec : (m : Nat -> Type) -> m zero -> ((n : Nat) -> m n -> m (succ n)) -> (t : Nat) -> m t
Motive == Arrow(N, Type)
Minor == Pi(N, Pi(App(Var(2), Var(0)), App(Var(3), Fn("Nat.succ", Var(1)))))
NatRecTy == Pi(Motive, Pi(App(Var(0), Const("Nat.zero")), Pi(Minor, Pi(N, App(Var(3), Var(0))))))
UnderMotive(e) == Lambda(Motive, Lambda(App(Var(0), Const("Nat.zero")), Lambda(Minor, e)))
NatRecZero == UnderMotive(Var(1))
NatRecSucc == UnderMotive(Lambda(N, A2(Var(1), Var(0),
                App(A3(Const("Nat.rec"), Var(3), Var(2), Var(1)), Var(0)))))
NatRec(z, s, t) == App(A3(Const("Nat.rec"), Lambda(N, N), z, s), t)

\* Pair (A : Type) : Type, with Pair.mk : A -> Nat -> Pair A
PairOf(a) == Fn("Pair", a)
PairRecTy == Pi(Type, Pi(Arrow(PairOf(Var(0)), Type),
               Pi(Pi(Var(1), Pi(N, App(Var(2), A3(Const("Pair.mk"), Var(3), Var(1), Var(0))))),
                  Pi(PairOf(Var(2)), App(Var(2), Var(0))))))
PairRecMk == Lambda(Type, Lambda(Arrow(PairOf(Var(0)), Type),
               Lambda(Pi(Var(1), Pi(N, App(Var(2), A3(Const("Pair.mk"), Var(3), Var(1), Var(0))))),
                 Lambda(Var(2), Lambda(N, A2(Var(2), Var(1), Var(0)))))))
MkPair(a, b) == A3(Const("Pair.mk"), N, a, b)

\* Operations on numbers.
BinTy == Arrow(N, Arrow(N, N))
Bin(e) == Lambda(N, Lambda(N, e))
Pred(e) == NatRec(Const("Nat.zero"), Lambda(N, Lambda(N, Var(1))), e)
Bools(z, s, t) == App(A3(Const("Nat.rec"), Lambda(N, Const("Bool")), z, s), t)
Tru == Const("Bool.true")
Fls == Const("Bool.false")
IsZero(e) == Bools(Tru, Lambda(N, Lambda(Const("Bool"), Fls)), e)
Arithmetic ==
  ("Nat.add" :> Def(BinTy, Bin(NatRec(Var(1), Bin(Fn("Nat.succ", Var(0))), Var(0))), 1)) @@
  ("Nat.sub" :> Def(BinTy, Bin(NatRec(Var(1), Bin(Pred(Var(0))), Var(0))), 1)) @@
  ("Nat.mul" :> Def(BinTy, Bin(NatRec(Const("Nat.zero"), Bin(A2(Const("Nat.add"), Var(0), Var(3))), Var(0))), 2)) @@
  ("Nat.pow" :> Def(BinTy, Bin(NatRec(NatLit(1), Bin(A2(Const("Nat.mul"), Var(0), Var(3))), Var(0))), 3)) @@
  ("Nat.ble" :> Def(Arrow(N, Arrow(N, Const("Bool"))), Bin(IsZero(A2(Const("Nat.sub"), Var(1), Var(0)))), 2)) @@
  ("Nat.beq" :> Def(Arrow(N, Arrow(N, Const("Bool"))),
                    Bin(IsZero(A2(Const("Nat.add"), A2(Const("Nat.sub"), Var(1), Var(0)),
                                                    A2(Const("Nat.sub"), Var(0), Var(1))))), 2)) @@
  \* The values of these are not looked into: what they stand for is an axiom.
  [n \in {"Nat.div", "Nat.mod", "Nat.gcd", "Nat.land", "Nat.lor", "Nat.xor", "Nat.shiftLeft", "Nat.shiftRight"} |->
     Def(BinTy, Const("impl"), 1)]

\* Equality: Eq (A : Type) (a : A) : A -> Prop, with Eq.refl : Eq A a a and a
\* recursor that reduces on any proof of Eq A a a.
EqOf(A, x, y) == A3(Const("Eq"), A, x, y)
Refl(A, x) == A2(Const("Eq.refl"), A, x)
EqMotive == Pi(Var(1), Arrow(EqOf(Var(2), Var(1), Var(0)), Type))
EqRecTy == Pi(Type, Pi(Var(0), Pi(EqMotive, Pi(A2(Var(0), Var(1), Refl(Var(2), Var(1))),
             Pi(Var(3), Pi(EqOf(Var(4), Var(3), Var(0)), A2(Var(3), Var(1), Var(0))))))))
EqRecRefl == Lambda(Type, Lambda(Var(0), Lambda(EqMotive, Lambda(A2(Var(0), Var(1), Refl(Var(2), Var(1))), Var(0)))))
Equality ==
  ("Eq" :> [Induct("Eq", Pi(Type, Pi(Var(0), Pi(Var(1), Prop))), 2, FALSE, <<"Eq.refl">>) EXCEPT !.num_indices = 1]) @@
  ("Eq.refl" :> Ctor(Pi(Type, Pi(Var(0), EqOf(Var(1), Var(0), Var(0)))), "Eq", 2, 0)) @@
  ("Eq.rec" :> [Rec(EqRecTy, 2, 1, <<Rule("Eq.refl", 0, EqRecRefl)>>) EXCEPT !.num_indices = 1, !.is_k = TRUE])

QuotTy == Pi(Type, Pi(Arrow(Var(0), Arrow(Var(1), Prop)), Type))
Rel == Arrow(Var(0), Arrow(Var(1), Prop))
MkTy == Pi(Type, Pi(Rel, Pi(Var(1), A2(Const("Quot"), Var(2), Var(1)))))
LiftTy == Pi(Type, Pi(Rel, Pi(Type, Pi(Arrow(Var(2), Var(1)), Pi(A3(Const("Resp"), Var(3), Var(1), Var(0)),
            Pi(A2(Const("Quot"), Var(4), Var(3)), Var(3)))))))

MCEnvironment ==
  ("Nat" :> Induct("Nat", Type, 0, TRUE, <<"Nat.zero", "Nat.succ">>)) @@
  ("Nat.zero" :> Ctor(N, "Nat", 0, 0)) @@
  ("Nat.succ" :> Ctor(Arrow(N, N), "Nat", 0, 1)) @@
  ("Nat.rec" :> Rec(NatRecTy, 0, 2, <<Rule("Nat.zero", 0, NatRecZero), Rule("Nat.succ", 1, NatRecSucc)>>)) @@
  Equality @@ Arithmetic @@ ("impl" :> Axiom(BinTy)) @@
  ("double" :> Def(Arrow(N, N), Lambda(N, A2(Const("Nat.add"), Var(0), Var(0))), 2)) @@
  ("twice" :> Def(Arrow(N, N), Lambda(N, A2(Const("Nat.add"), Var(0), Var(0))), 2)) @@
  ("id" :> Def(Arrow(N, N), Lambda(N, Var(0)), 1000)) @@
  ("Bool" :> Induct("Bool", Type, 0, FALSE, <<"Bool.false", "Bool.true">>)) @@
  ("Bool.false" :> Ctor(Const("Bool"), "Bool", 0, 0)) @@
  ("Bool.true" :> Ctor(Const("Bool"), "Bool", 0, 0)) @@
  ("Pair" :> Induct("Pair", Arrow(Type, Type), 1, FALSE, <<"Pair.mk">>)) @@
  ("Pair.mk" :> Ctor(Pi(Type, Pi(Var(0), Pi(N, PairOf(Var(2))))), "Pair", 1, 2)) @@
  ("Pair.rec" :> Rec(PairRecTy, 1, 1, <<Rule("Pair.mk", 2, PairRecMk)>>)) @@
  ("One" :> Induct("One", Type, 0, FALSE, <<"One.mk">>)) @@
  ("One.mk" :> Ctor(Const("One"), "One", 0, 0)) @@
  ("Ex" :> Induct("Ex", Prop, 0, FALSE, <<"Ex.mk">>)) @@
  ("Ex.mk" :> Ctor(Arrow(N, Arrow(Const("P"), Const("Ex"))), "Ex", 0, 2)) @@
  ("Quot" :> Quotient(QuotTy)) @@ ("Quot.mk" :> Quotient(MkTy)) @@ ("Quot.lift" :> Quotient(LiftTy)) @@
  ("Resp" :> Axiom(Pi(Type, Pi(Type, Pi(Pi(Var(1), Var(1)), Prop))))) @@
  ("r" :> Axiom(Arrow(N, Arrow(N, Prop)))) @@ ("qq" :> Axiom(A2(Const("Quot"), N, Const("r")))) @@
  ("resp" :> Axiom(A3(Const("Resp"), N, N, Const("f")))) @@
  ("P" :> Axiom(Prop)) @@ ("h1" :> Axiom(Const("P"))) @@ ("h2" :> Axiom(Const("P"))) @@
  ("t" :> Thm(Const("P"), Const("h1"))) @@
  ("pf" :> Axiom(Arrow(Const("P"), N))) @@
  ("f" :> Axiom(Arrow(N, N))) @@ ("g" :> Axiom(Arrow(N, N))) @@
  ("a" :> Axiom(N)) @@ ("b" :> Axiom(N)) @@
  ("p" :> Axiom(PairOf(N))) @@ ("q" :> Axiom(PairOf(N))) @@
  ("Vec" :> Axiom(Arrow(N, Type))) @@ ("w3" :> Axiom(Fn("Vec", NatLit(3)))) @@
  ("k3" :> Axiom(Arrow(Fn("Vec", A2(Const("Nat.add"), NatLit(1), NatLit(2))), N))) @@
  ("vec" :> Axiom(Pi(N, Fn("Vec", Var(0))))) @@
  ("NatFn" :> Def(Type, Arrow(N, N), 1)) @@ ("h" :> Axiom(Const("NatFn"))) @@
  ("Q" :> Axiom(Prop)) @@ ("h3" :> Axiom(Const("Q"))) @@
  ("u" :> Axiom(Const("One"))) @@ ("v" :> Axiom(Const("One"))) @@
  ("ex" :> Axiom(Const("Ex"))) @@
  ("three" :> Def(N, NatLit(3), 1)) @@
  ("eqaa" :> Axiom(EqOf(N, Const("a"), Const("a")))) @@ ("eqab" :> Axiom(EqOf(N, Const("a"), Const("b")))) @@
  ("eqput" :> Axiom(EqOf(N, A2(Const("Nat.add"), Const("a"), NatLit(2)),
                            Fn("Nat.succ", A2(Const("Nat.add"), Const("a"), NatLit(1))))))
==============================================================================
