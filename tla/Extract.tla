------------------------------- MODULE Extract -------------------------------
(***************************************************************************)
(* The driver, from the constants of a loaded Lean environment to the exit *)
(* code: group them into units, order the units (TopoOrder), submit them   *)
(* to the kernel's Builder, check every declaration on its own, report.    *)
(*                                                                         *)
(* What type theory says about a constant is abstracted to one bit, `fine`;*)
(* what is modelled is which constants a check can see.  The kernel keeps  *)
(* one shared table of all declarations and gives each check a prefix of   *)
(* it, so the order of submission decides whether a constant is found.     *)
(***************************************************************************)
EXTENDS Naturals, Sequences, FiniteSets, SequencesExt

CONSTANTS
  Name,        \* names of constants
  Envs,        \* model bound: the environments that are loaded
  Selections   \* model bound: the values of --const, a list of names

Kinds == {"def", "induct", "ctor", "rec", "quot"}

\* What the types that check_quot expects mention.
QuotUses(n) ==
  CASE n = "Quot" -> {}
    [] n = "Quot.mk" -> {"Quot"}
    [] n = "Quot.lift" -> {"Quot", "Eq"}
    [] n = "Quot.ind" -> {"Quot", "Quot.mk"}

\* check_quot and, for Quot.lift, check_eq compare with fixed types.
QuotAsExpected(e, n) ==
  /\ n \in {"Quot", "Quot.mk", "Quot.lift", "Quot.ind"} /\ e[n].uses = QuotUses(n)
  /\ n = "Quot.lift" /\ "Eq" \in DOMAIN e => e["Eq"].kind = "induct" /\ "Eq.refl" \in e["Eq"].ctors

\* An environment is finite, only recursors have rules, and a quotient constant
\* that is fine has the type it is compared with.
ASSUME EnvAssumption ==
  \A e \in Envs :
    /\ IsFiniteSet(DOMAIN e)
    /\ \A n \in DOMAIN e : /\ e[n].kind \in Kinds
                           /\ e[n].kind # "rec" => e[n].rhs = {}
                           /\ e[n].kind = "quot" /\ e[n].fine => QuotAsExpected(e, n)
ASSUME SelectionAssumption == Selections \subseteq Seq(Name)

VARIABLES
  env,                \* the constants of the environment, by name
  selected,           \* --const
  unitDeps, roots, root, state, stack, order,   \* the search of topo_order
  phase,              \* "order", "emit", "check" or "report"
  emitted,            \* units of `order` submitted so far
  declars,            \* ExportFile::declars, in insertion order
  mutual_block_sizes, \* for each inductive: start and size of its block
  outcome,            \* what check_declar did with each declaration
  failures            \* CheckReport::failures, names only

search == <<unitDeps, roots, root, state, stack, order>>
request == <<env, selected>>
builder == <<declars, mutual_block_sizes>>
vars == <<request, search, phase, emitted, builder, outcome, failures>>

------------------------------------------------------------------------------
(***************************************************************************)
(* Units                                                                   *)
(***************************************************************************)
\* gather_consts: unsafe and partial constants are dropped.
MetasIn(e) == {n \in DOMAIN e : ~ e[n].unsafe}
Metas == MetasIn(env)

\* lc_ci_deps: the constants in the type and the value, and for a recursor in
\* the right-hand sides of its rules.
DepsOf(n) == env[n].uses \cup env[n].rhs

\* assign_units: a mutual block is one unit, known by the names of its types;
\* any other constant is a unit of its own.
Block(all) == [is_block |-> TRUE, key |-> all]
Singleton(n) == [is_block |-> FALSE, key |-> {n}]
UnitIn(e, n) ==
  CASE e[n].kind \in {"induct", "rec"} -> Block(e[n].all)
    [] e[n].kind = "ctor" -> Block(IF e[n].induct \in MetasIn(e) THEN e[e[n].induct].all
                                                                 ELSE {e[n].induct})
    [] OTHER -> Singleton(n)
AnyUnit == UNION {{UnitIn(e, n) : n \in MetasIn(e)} : e \in Envs}

UnitOf(n) == UnitIn(env, n)
Units == {UnitOf(n) : n \in Metas}
Members(u) == {n \in Metas : UnitOf(n) = u}
OfKind(u, k) == {n \in Members(u) : env[n].kind = k}

\* Mutant: the edges of the constructors are forgotten.
DepUnitsOfTypes(u) ==
  {UnitOf(d) : d \in Metas \cap UNION {DepsOf(n) : n \in Members(u) \ OfKind(u, "ctor")}} \ {u}

\* Edges to constants that are not there, and inside a unit, are left out.
DepUnits(u) ==
  {UnitOf(d) : d \in Metas \cap UNION {DepsOf(n) : n \in Members(u)}} \ {u}

\* The entries of s at the positions in I, in order.
Keep(s, I) ==
  [k \in 1 .. Cardinality(I) |-> s[CHOOSE i \in I : Cardinality({j \in I : j <= i}) = k]]

KnownOf(names) == Keep(names, {i \in 1 .. Len(names) : names[i] \in Metas})
UnitsOf(names) == [i \in 1 .. Len(names) |-> UnitOf(names[i])]

\* Mutant: a selection of which nothing is known counts as no selection.
RootsOfKnown == IF KnownOf(selected) = <<>> THEN SetToSeq(Units) ELSE UnitsOf(KnownOf(selected))

\* Names that --const gets wrong are left out too.
Roots == IF selected = <<>> THEN SetToSeq(Units) ELSE UnitsOf(KnownOf(selected))

Dfs == INSTANCE TopoOrder
         WITH Unit <- AnyUnit, DepLists <- Seq(AnyUnit), RootLists <- Seq(AnyUnit)

------------------------------------------------------------------------------
(***************************************************************************)
(* What the check of a declaration looks up                                *)
(***************************************************************************)
Prefix(k) == {declars[j] : j \in 1 .. k}
Declared == Prefix(Len(declars))

\* The names interned in the export store, for all that a check asks of it:
\* every submitted constant and every name its terms and lists mention.
Interned == Declared \cup UNION {DepsOf(n) \cup env[n].all \cup env[n].ctors : n \in Declared}

\* Mutant: every declaration sees the whole table.
UsesVisibleAnywhere(i) == env[declars[i]].uses \subseteq Declared

\* check_quot unwraps two entries of the name cache, whichever of the four
\* constants it checks, and compares the type with the one it expects; for
\* Quot.lift it looks at the equality type first (check_eq).  That is all when
\* the two types are the same term.  When they are not, def_eq tries proof
\* irrelevance first, and infers both types with what is visible: these lookups
\* are left out, so that the model passes what the code may not.
QuotReady(i) ==
  /\ {"Quot", "Quot.mk"} \subseteq Interned
  /\ declars[i] = "Quot.lift" => {"Eq", "Eq.refl"} \subseteq Prefix(i - 1)

\* EnvLimit::ByName shows what precedes the declaration itself (in a check of
\* an inductive type, EnvLimit::ByIndex what precedes the end of its block).
UsesVisible(i) == env[declars[i]].uses \subseteq Prefix(i - 1)

\* check_inductive_declar: the type itself, and in the later phases all types
\* and constructors of the block, whichever of its types is checked.
check_inductive_declar(i) ==
  LET block == mutual_block_sizes[declars[i]]
      seen == Prefix(block[1] + block[2])
      all == env[declars[i]].all
      ctors == UNION {env[t].ctors : t \in all}
  IN  /\ all \cup ctors \subseteq seen
      /\ \A n \in {declars[i]} \cup all \cup ctors : env[n].uses \subseteq seen

check_declar(i) ==
  LET c == env[declars[i]]
  IN  /\ c.fine
      /\ CASE c.kind = "def" -> UsesVisible(i)
           [] c.kind = "ctor" -> UsesVisible(i) /\ c.induct \in Declared
           [] c.kind = "rec" -> UsesVisible(i) /\ c.all \subseteq Declared
           [] c.kind = "induct" -> check_inductive_declar(i)
           [] c.kind = "quot" -> QuotReady(i)

------------------------------------------------------------------------------
Init ==
  /\ env \in Envs /\ selected \in Selections
  /\ unitDeps = [u \in AnyUnit |-> IF u \in Units THEN SetToSeq(DepUnits(u)) ELSE <<>>]
  /\ roots = Roots
  /\ Dfs!Start
  /\ phase = "order" /\ emitted = 0
  /\ declars = <<>> /\ mutual_block_sizes = <<>>
  /\ outcome = <<>> /\ failures = <<>>

Order ==
  /\ phase = "order"
  /\ \/ Dfs!Next /\ phase' = phase
     \/ Dfs!Done /\ phase' = "emit" /\ UNCHANGED search
  /\ UNCHANGED <<request, emitted, builder, outcome, failures>>

Unit == order[emitted + 1]
Submitting == phase = "emit" /\ emitted < Len(order)

\* emit_singleton and the Builder operation it calls.
EmitSingleton ==
  /\ Submitting /\ ~ Unit.is_block
  /\ declars' = Append(declars, CHOOSE n \in Members(Unit) : TRUE)
  /\ emitted' = emitted + 1
  /\ UNCHANGED <<request, search, phase, mutual_block_sizes, outcome, failures>>

\* mutual_block_sizes with an entry for each of the types.
With(types, place) ==
  [n \in types \cup DOMAIN mutual_block_sizes |->
     IF n \in types THEN place ELSE mutual_block_sizes[n]]

\* Mutant: the block starts where the count of units says.
AddBlockAtUnit(inds, ctors, recs) ==
  LET block == inds \o ctors \o recs
  IN  /\ declars' = declars \o block
      /\ mutual_block_sizes' = With(ToSet(inds), <<emitted, Len(block)>>)

\* Builder::add_inductive_block: the types, then all their constructors, then
\* all recursors.
add_inductive_block(inds, ctors, recs) ==
  LET block == inds \o ctors \o recs
  IN  /\ declars' = declars \o block
      /\ mutual_block_sizes' = With(ToSet(inds), <<Len(declars), Len(block)>>)

\* emit_block.
EmitBlock ==
  /\ Submitting /\ Unit.is_block
  /\ add_inductive_block(SetToSeq(OfKind(Unit, "induct")), SetToSeq(OfKind(Unit, "ctor")),
                         SetToSeq(OfKind(Unit, "rec")))
  /\ emitted' = emitted + 1
  /\ UNCHANGED <<request, search, phase, outcome, failures>>

\* Builder::finish.
Finish ==
  /\ phase = "emit" /\ emitted = Len(order)
  /\ phase' = "check"
  /\ outcome' = [i \in 1 .. Len(declars) |-> "todo"]
  /\ UNCHANGED <<request, search, emitted, builder, failures>>

\* check_all: a thread of the pool takes any declaration that is left, and
\* catch_unwind turns a panic of its check into a failure of that declaration.
Check(i) ==
  /\ phase = "check" /\ outcome[i] = "todo"
  /\ outcome' = [outcome EXCEPT ![i] = IF check_declar(i) THEN "passed" ELSE "failed"]
  /\ UNCHANGED <<request, search, phase, emitted, builder, failures>>

\* Mutant: a report is made only of a run without failures.
ReportIfPassed ==
  /\ phase = "check" /\ \A i \in 1 .. Len(declars) : outcome[i] = "passed"
  /\ phase' = "report"
  /\ UNCHANGED <<request, search, emitted, builder, outcome, failures>>

\* The failures are collected in declaration order.
Report ==
  /\ phase = "check" /\ \A i \in 1 .. Len(declars) : outcome[i] # "todo"
  /\ phase' = "report"
  /\ failures' = Keep(declars, {i \in 1 .. Len(declars) : outcome[i] = "failed"})
  /\ UNCHANGED <<request, search, emitted, builder, outcome>>

Next ==
  \/ Order \/ EmitSingleton \/ EmitBlock \/ Finish
  \/ \E i \in 1 .. Len(declars) : Check(i)
  \/ Report

Spec == Init /\ [][Next]_vars

\* One thread drives the phases; the pool takes up every declaration, and a
\* check always ends.
FairSpec == Spec /\ WF_vars(Next)
------------------------------------------------------------------------------
(***************************************************************************)
(* Properties                                                              *)
(***************************************************************************)
Submitted == phase \in {"check", "report"}

\* The constants that the request asks for, and what they need in turn.
Asked == IF selected = <<>> THEN Metas ELSE ToSet(selected) \cap Metas
Mates(n) == Members(UnitOf(n))
Mentioned == DOMAIN env \cup UNION {DepsOf(n) : n \in DOMAIN env}
Required(next(_)) ==
  {n \in Mentioned : \A S \in SUBSET Mentioned :
     Asked \subseteq S /\ (\A m \in S \cap Metas : next(m) \subseteq S) => n \in S}

\* The table submitted to the kernel holds each constant that is asked for or
\* needed once, with its whole block, and no other.
SubmitsWhatIsNeeded ==
  Submitted =>
    /\ \A i, j \in 1 .. Len(declars) : declars[i] = declars[j] => i = j
    /\ Declared = Metas \cap Required(LAMBDA m : DepsOf(m) \cup Mates(m))

\* A block lies in one piece where mutual_block_sizes says, its types before
\* its constructors and these before its recursors.
Rank == [induct |-> 1, ctor |-> 2, rec |-> 3]
BlocksInPlace ==
  /\ DOMAIN mutual_block_sizes = {n \in Declared : env[n].kind = "induct"}
  /\ \A n \in DOMAIN mutual_block_sizes :
       LET first == mutual_block_sizes[n][1] + 1
           last == mutual_block_sizes[n][1] + mutual_block_sizes[n][2]
       IN  /\ {declars[i] : i \in first .. last} = Members(UnitOf(n))
           /\ \A i, j \in first .. last :
                i < j => Rank[env[declars[i]].kind] <= Rank[env[declars[j]].kind]

\* A run without failures has checked everything that the constants asked for
\* use, directly or through others: each is there, is fine, and comes before
\* what uses it or belongs to the same block.  No cycle passes.  (check_quot
\* compares types without looking up the constants in them; Lean adds the
\* quotient constants together.)
QuotTogether ==
  (\E n \in Metas : env[n].kind = "quot") => {"Quot", "Quot.mk"} \subseteq {n \in Metas : env[n].kind = "quot"}
Place(n) == CHOOSE i \in 1 .. Len(declars) : declars[i] = n
PassMeansChecked ==
  phase = "report" /\ failures = <<>> /\ QuotTogether =>
    \A n \in Required(LAMBDA m : env[m].uses) :
      /\ n \in Declared /\ env[n].fine
      /\ \A m \in env[n].uses :
           Place(m) < Place(n) \/ (UnitOf(m) = UnitOf(n) /\ UnitOf(n).is_block)

\* An environment as Lean produces it: closed, without cycles, and with blocks
\* whose parts agree and were added types first, recursors last.
BlocksAgree ==
  \A n \in Metas :
    /\ env[n].kind \in {"induct", "rec"} =>
         \A t \in env[n].all : env[t].kind = "induct" /\ env[t].all = env[n].all
    /\ env[n].kind = "induct" => \A c \in env[n].ctors : env[c].kind = "ctor" /\ env[c].induct = n
    /\ env[n].kind = "ctor" => env[env[n].induct].kind = "induct"
    /\ env[n].kind \in {"ctor", "rec"} =>
         \A m \in env[n].uses : UnitOf(m) = UnitOf(n) => Rank[env[m].kind] < Rank[env[n].kind]
WellFormed ==
  /\ \A n \in Metas : /\ DepsOf(n) \cup env[n].all \cup env[n].ctors \subseteq Metas
                      /\ env[n].kind = "ctor" => env[n].induct \in Metas
                      /\ n \notin env[n].uses
  /\ BlocksAgree
  /\ Dfs!Acyclic

Faulty == Keep(declars, {i \in 1 .. Len(declars) : ~ env[declars[i]].fine})

\* On a well-formed environment the failures are the faulty constants, all of
\* them and only they, in declaration order: a faulty constant neither hides
\* another nor makes the constants that use it fail.
QuotComplete == "Quot" \in Interned => "Quot.mk" \in Interned
BlameIsExact == phase = "report" /\ WellFormed /\ QuotComplete => failures = Faulty

\* The same for every selection, as main.rs describes --const.
SelectionIsEnough == phase = "report" /\ WellFormed => failures = Faulty

\* The driver comes to its report.
Ends == <>(phase = "report")
==============================================================================
