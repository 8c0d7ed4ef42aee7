-------------------------------- MODULE Quot ---------------------------------
(***************************************************************************)
(* Checking the quotient constants (quot.rs): each must have, up to        *)
(* definitional equality, the type that the reductions of the kernel are   *)
(* made for; and Quot.lift, which mentions equality, needs the inductive   *)
(* type Eq to be the usual one.                                            *)
(*                                                                         *)
(* Both universe parameters are the numeral UnivLevel.  That the names     *)
(* Quot and Quot.mk have been interned is in module Extract.               *)
(***************************************************************************)
EXTENDS Infer

UnivLevel == 1

\* A new checker in the same context.
new_checker(s) == [clear_tc(s) EXCEPT !.conv = Fresh]
\* The type of a constant is to be the one expected of it, if the constant is of
\* the form that the code needs it to have.
Goal(n, form, type) == [name |-> n, form |-> form, type |-> type]

\* arrow! and pi_telescope!: with binders that are not free variables, and with
\* ones that are.
arrow(doms, body) == FoldRight(Pi, doms, body)
pi_telescope(locals, body) == abstr_pis(locals, body)

\* Eq : (alpha : Sort u) -> alpha -> alpha -> Prop, with the one constructor
\* refl : (alpha : Sort u) -> (a : alpha) -> Eq alpha a a
check_eq(counter) ==
  LET alpha == Unique(counter, Sort(UnivLevel))
      alpha1 == Unique(counter + 1, Sort(UnivLevel))
      a == Unique(counter + 2, alpha1)
      is_eq == IsOfKind("Eq", {"induct"}) /\ declars["Eq"].num_params = 2
      is_refl == is_eq /\ declars["Eq"].ctors = <<"Eq.refl">> /\ IsOfKind("Eq.refl", {"ctor"})
  IN  <<Goal("Eq", is_eq, pi_telescope(<<alpha>>, arrow(<<alpha, alpha>>, Sort(0)))),
        Goal("Eq.refl", is_refl, pi_telescope(<<alpha1, a>>, foldl_apps(Const("Eq"), <<alpha1, a, a>>)))>>

\* What is to hold, in order.
check_quot(n, counter) ==
  LET fresh(i, t) == Unique(counter + i, t)
      A == fresh(0, Sort(UnivLevel))
      B == fresh(1, Sort(UnivLevel))
      r == fresh(2, arrow(<<A, A>>, Sort(0)))
      f == fresh(3, arrow(<<A>>, B))
      a == fresh(4, A)
      b == fresh(5, A)
      quot_A_r == foldl_apps(Const("Quot"), <<A, r>>)
      eq_app == foldl_apps(Const("Eq"), <<B, App(f, a), App(f, b)>>)
      lift_inner == pi_telescope(<<a, b>>, arrow(<<foldl_apps(r, <<a, b>>)>>, eq_app))
      B_local == fresh(6, arrow(<<quot_A_r>>, Sort(0)))
      q_local == fresh(7, quot_A_r)
      on_mk == pi_telescope(<<a>>, App(B_local, foldl_apps(Const("Quot.mk"), <<A, r, a>>)))
      on_all == pi_telescope(<<q_local>>, App(B_local, q_local))
      same(type) == <<Goal(n, TRUE, type)>>
  IN  CASE n = "Quot" -> same(pi_telescope(<<A, r>>, Sort(UnivLevel)))
        [] n = "Quot.mk" -> same(pi_telescope(<<A, r>>, arrow(<<A>>, quot_A_r)))
        [] n = "Quot.lift" ->
             check_eq(counter + 6) \o same(pi_telescope(<<A, r, B, f>>, arrow(<<lift_inner, quot_A_r>>, B)))
        [] n = "Quot.ind" -> same(pi_telescope(<<A, r, B_local>>, arrow(<<on_mk>>, on_all)))
        [] OTHER -> <<Goal(n, FALSE, Sort(0))>>

\* The variables that check_quot makes.
quot_vars(n) == CASE n = "Quot.lift" -> 9 [] n = "Quot.ind" -> 8 [] OTHER -> 6
==============================================================================
