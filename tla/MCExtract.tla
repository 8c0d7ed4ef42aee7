------------------------------ MODULE MCExtract ------------------------------
(***************************************************************************)
(* Environments for Extract: three constants with every dependency graph   *)
(* between them, a missing name and an unsafe constant among their         *)
(* dependencies; a mutual block and a definition around it; two blocks     *)
(* that may build on each other; and the quotient constants with the       *)
(* equality type they build on.                                            *)
(***************************************************************************)
EXTENDS Extract

Entry(kind, uses) ==
  [kind |-> kind, uses |-> uses, rhs |-> {}, unsafe |-> FALSE, fine |-> TRUE,
   all |-> {}, ctors |-> {}, induct |-> "none"]
Def(uses) == Entry("def", uses)
Induct(all, ctors, uses) == [Entry("induct", uses) EXCEPT !.all = all, !.ctors = ctors]
Ctor(t, uses) == [Entry("ctor", uses) EXCEPT !.induct = t]
Rec(all, uses, rhs) == [Entry("rec", uses) EXCEPT !.all = all, !.rhs = rhs]

------------------------------------------------------------------------------
\* Definitions: d is not in the environment, c may be unsafe, b may be faulty.
DefEnvs ==
  {[a |-> Def(ua), b |-> [Def(ub) EXCEPT !.fine = fb], c |-> [Def(uc) EXCEPT !.unsafe = xc]] :
     ua \in SUBSET {"a", "b", "c"}, ub \in SUBSET {"c", "d"}, uc \in SUBSET {"a", "b"},
     fb \in BOOLEAN, xc \in BOOLEAN}

\* The types T and S of one block, with a constructor and a recursor of T, and
\* a definition that the block may use and that may use the block.
BlockEnvs ==
  {("T" :> Induct({"T", "S"}, {"T.mk"}, ut)) @@ ("S" :> Induct({"T", "S"}, {}, {}))
     @@ ("T.mk" :> [Ctor("T", {"T"} \cup uk) EXCEPT !.fine = fk])
     @@ ("T.rec" :> Rec({"T", "S"}, {"T", "T.mk"}, {"T.rec"}))
     @@ ("a" :> Def(ua)) :
     ut \in {{}, {"a"}}, uk \in {{}, {"S"}, {"a"}}, fk \in BOOLEAN,
     ua \in {{}, {"S"}, {"T.rec"}}}

\* Two blocks of two constants, either of which may build on the other, and
\* both: a cycle that Lean does not produce.
TwoBlockEnvs ==
  {("T" :> Induct({"T"}, {"T.mk"}, {})) @@ ("T.mk" :> Ctor("T", {"T"} \cup ut))
     @@ ("U" :> Induct({"U"}, {"U.mk"}, uu)) @@ ("U.mk" :> Ctor("U", {"U"}))
     @@ ("a" :> Def({"T.mk"})) :
     ut \in {{}, {"U"}, {"U.mk"}}, uu \in {{}, {"T"}, {"a"}}}

\* A constructor whose type is not in the environment.
OrphanEnvs == {("T.mk" :> Ctor("T", {"T"})) @@ ("a" :> Def({"T.mk"}))}

QuotEnvs ==
  {("Quot" :> Entry("quot", {})) @@ ("Quot.mk" :> Entry("quot", {"Quot"}))
     @@ ("Quot.lift" :> Entry("quot", {"Quot", "Eq"}))
     @@ ("Quot.ind" :> Entry("quot", {"Quot", "Quot.mk"}))
     @@ ("Eq" :> Induct({"Eq"}, {"Eq.refl"}, {})) @@ ("Eq.refl" :> Ctor("Eq", {"Eq"}))}

\* Quot.mk without the type it belongs to.
LoneQuotEnvs == {("Quot.mk" :> Entry("quot", {"Quot"}))}

MCEnvs == LoneQuotEnvs \cup DefEnvs \cup BlockEnvs \cup TwoBlockEnvs \cup OrphanEnvs \cup QuotEnvs
MCName == {"d"} \cup UNION {DOMAIN e : e \in MCEnvs}
MCSelections == {<<>>, <<"b">>, <<"d", "c">>, <<"T.mk">>, <<"a", "T">>, <<"Quot.ind">>, <<"Quot.lift", "Quot.mk">>}

OnlyQuot == {<<"Quot">>, <<"Quot.lift">>}
==============================================================================
