# A verification model of lean-kernel-checker

TLA+ modules, TLC runs and TLAPS proofs for lean-kernel-checker, a type checker
for Lean 4 environments written in Rust. Paths below are relative to the
repository: the driver is `src/src`, the Lean side of the foreign-function
interface `src/glue`, the type-checking kernel (a fork of nanoda) is
`src/sokonanoda`.

## 1. The system

A run (`src/src/main.rs`) loads `.olean` files into the embedded Lean runtime
and hands the environment to `check_environment` (`src/src/extract.rs`):

    Lean environment
      -> gather_consts   constants, unsafe and partial ones dropped
      -> assign_units    a mutual inductive block is one unit, any other constant its own
      -> topo_order      dependencies before dependents, from all units or from --const
      -> emit_*          walk the Lean objects, intern names, levels and terms in the
                         kernel's Builder, add the declarations
      -> Builder::finish the frozen ExportFile
      -> check_all       every declaration on a rayon pool, each under catch_unwind
      -> CheckReport     exit 0 if and only if no declaration failed

The kernel rejects a declaration by panicking. Checks share one read-only
`ExportFile`; each has a `TcCtx` of its own with all its caches.

### Inventory

| Component | State | Operations | What makes it correct |
|---|---|---|---|
| Driver pipeline (`extract.rs`, `main.rs`) | constants, units, order, walker memos, report | `gather_consts`, `assign_units`, `topo_order`, `emit_*`, `check_all` | what is asked for and what it needs is submitted, once, and nothing else; a pass means all of it was checked; a failure is reported under the name that is at fault |
| FFI layer (`ffi.rs`, `Glue.lean`, `nat_bytes.c`) | reference counts of Lean objects | `LeanObj::from_owned`, clone, drop, accessors | no object is used after its last reference is gone; counts balance |
| Term store (`util.rs`, `builder.rs`, `name.rs`) | export tables; tables of each context | `Builder::name_str`, `expr_*`; `alloc_name`, `alloc_expr`, `mk_*`, `read_*` | in one context equal terms have equal pointers, and a pointer keeps its meaning |
| Equality cache (`union_find.rs`) | parents, ranks | `union`, `check_uf_eq`, `clear` | answers equal exactly the equivalence that the unions generate |
| Environment (`env.rs`) | declarations in order, temporary extensions | `get_declar`, `EnvLimit::ByName`, `ByIndex` | a check sees what precedes its declaration (its block), and no more |
| Kernel entry point (`tc.rs` `check_all_declars`) | a counter, worker threads | draw, check, join | accepts only if everything passed; ends; leaves no thread behind |
| Type inference (`tc.rs`) | infer, whnf caches; union-find | `infer`, `whnf`, `def_eq` | a type inferred without checking is never taken for a checked one |
| Conversion (`conv.rs`) | positive and negative caches, probe depth | `unify_*` | a failed speculative comparison never answers a full one |
| Evaluator (`eval.rs`, `value.rs`) | values at addresses, cells of what they were forced to, tables by address, stuck marks | `eval`, `force`, `quote`, literal arithmetic | evaluation preserves meaning; literal arithmetic agrees with the definitions |
| Expressions (`expr.rs`) | caches keyed by term and offset | `inst`, `abstr`, `abstr_levels`, `subst` | abstraction and instantiation are inverse; a cache serves one call |
| Levels (`level.rs`) | none | `simplify`, `leq`, `eq_antisymm`, `subst_level` | `leq` agrees with the meaning of levels and is total |
| Inductive types (`inductive.rs`) | phases with temporary environments | `check_inductive_declar` | each phase looks constants up in the right environment |
| Quotients (`quot.rs`) | none | `check_quot`, `check_eq` | the four constants have the expected types |
| Printers, build scripts | | | no influence on the verdict |

### What is hard here

* **Pointers.** Comparison, the caches and the hash maps use pointers in place
  of terms. Everything depends on a two-tier store that looks in different
  places in different orders for names and for expressions, and on a shortcut
  (`is_expr_local_only`) that skips a lookup.
* **Order as visibility.** The kernel has no list of dependencies: a constant is
  seen if it precedes. The order of submission, the recorded place of blocks and
  the cutoff of the environment together decide what passes.
* **Threads and panics.** A panic is the normal way to reject. The kernel's
  own parallel entry point loses a worker at each; the driver isolates it.
* **Structures changed while they are walked**: path compression, the explicit
  stack of the depth-first search.
* **Caches** whose key leaves out part of what the entry depends on (offset
  caches, address keys, probe depth).

* **Free variables and binders.** Bound variables are counted from the inside
  in terms, from the outside in open terms and values, and unique in the check of
  inductive types; a comparison below a binder must know how many are open.
* **Laziness.** Values stay folded until they are asked for, and counting down a
  large literal is put off; a comparison may fail only because something was not
  yet unfolded.

`PROJECT.json` lists each of these hazards at its line, with the property that
covers it or the reason why none does.

## 2. The modules

| Module | Models | Role |
|---|---|---|
| `EqCache` | what `def_eq` expects of its cache | abstract specification |
| `UnionFind` | `union_find.rs` | implements `EqCache` |
| `Interner` | what checking code expects of the term store | abstract specification |
| `HashCons` | `LeanDag`, `Builder`, `TcCtx` allocation | implements `Interner`, twice per context |
| `Schedule` | what the driver expects of the order of units | abstract specification |
| `TopoOrder` | `topo_order` | implements `Schedule` |
| `Verdict` | what checking an environment promises | abstract specification |
| `CheckDeclars` | `check_all_declars`, parallel and serial | implements `Verdict` |
| `Extract` | `check_environment` from constants to report, with an instance of `TopoOrder` for the search | composes driver, builder, environment |
| `Levels` | `level.rs`: simplification, substitution, comparison | pure algorithm against the values of levels |
| `Expr` | `expr.rs`, `util.rs`: expressions; one step of instantiation and of the two abstractions, with their caches | used by `Terms` and `ExprProofs` |
| `Terms` | the recursion of these steps; telescopes and applications | used by the modules below |
| `Declars` | `env.rs`: lookups by kind, values, unfolding hints | used by the modules below |
| `NatOps` | the operations on literals of `util.rs` and `eval.rs` | used by `Eval` |
| `TypeTheory` | typing and definitional equality, declaratively | what `Conv`, `Checker` and `Inductive` are measured against |
| `Values` | `value.rs`, `TcCache` of `util.rs`, the `mk_*_hc` of `eval.rs`: values, their addresses, what a checker keeps | used by `Eval` |
| `Eval` | `eval.rs`, `conv.rs` | the evaluator and the conversion checker, which call each other |
| `Conv` | one checker's questions to `unify` and its three caches | state machine over `Eval` |
| `Infer` | `tc.rs`: `infer`, `whnf`, `def_eq`, `check_declar_info` and the caches | used by `Checker` and `Inductive` |
| `Checker` | one `TypeChecker` asked for types, reductions, comparisons; declarations; substitution | state machine over `Infer` |
| `Inductive` | `inductive.rs`, all phases, with the temporary environments of `env.rs` | state machine over `Infer` |
| `Quot` | `quot.rs`: the expected types of the quotient constants and of equality | used by `Inductive` |
| `MCEnv` | | a small environment that the three instances share |
| `MC*` | | instances for TLC |
| `SetLemmas` | | facts about numbers, finite sets and sequences that the proofs share |
| `UnionFindProofs`, `HashConsProofs`, `TopoOrderProofs`, `CheckDeclarsProofs`, `ExtractProofs`, `LevelsProofs`, `ExprProofs` | | theorems about the module of that name |

**UnionFind.** `call` is the operation in progress; `cur` and `walk` are the
frames of the recursion of `find_parent_idx`. `Start` is the entry of `union` or
`check_uf_eq` with both `get_or_push`; `Climb` is one recursive call,
`Compress` one return of it, which rewrites one parent; `FindSecond` turns to
the second argument; `Union` (with `LinkRoots`) and `CheckUfEq` end the call. So
each half-compressed forest is a state. An index and its element are one thing,
since `IndexMap` assigns an index once; `clear` empties the map. `cls` is a
history variable: the equivalence that the `union` calls generate.

**HashCons.** A pointer is a pair of a store and an index (in the code: bit 31
and the rest of a `u32`). `names` is the model of the tables that look in the
export store first (names, levels, level lists, strings, numerals: same order of
lookups, with a seeded entry as names and levels have), `exprs` of the table
that looks in the local store first. Terms are constants, applications and free
variables: one leaf with a name pointer, one node with children, and one node
that only a context makes, which are the three cases that `is_expr_local_only`
tells apart. `NameOf(c)` and `TermOf(c)` follow the pointers in a node to the end
and give the whole name or expression, as functions of the pointers of a context.
Build operations need the builder, so they end with `Finish`;
contexts open and close in any order and interleave. `out` is a history variable
with the last allocation, which the refinement of `Interner` is stated with.

**TopoOrder.** One action per iteration: `SkipRoot`, `StartRoot`, `SkipChild`
(visited or a back edge), `Descend`, `Leave`. `state`, `stack` and `order` are
the variables of the code; `root` is the position of the outer loop; positions
count from 1.

**CheckDeclars.** The calling thread spawns (`Spawn`, or `SpawnFails` when the
operating system refuses), joins in order, and unwinds at the first panic;
workers draw (`FetchTask`, one `fetch_add`), and `Pass` or `Panic`. `bad` is the
set of declarations whose check panics. The serial checker is the instance with
one worker. The driver does not use this entry point (it has `check_all` in
`Extract`), embedders of the kernel do.

**Extract.** `env` maps names to constants, with what the code looks at: kind,
the constants in type and value (`uses`) and in the rules of a recursor
(`rhs`), `all`, `ctors`, `induct`, unsafety. Whether type theory accepts a
constant, given that it finds all that it uses, is the bit `fine`. A unit is a
block, known by the names of its types (`Block`), or a constant of its own
(`Singleton`); a constructor belongs to the block of its type, and forms a block
alone with the name of the type when that is not in the environment. `Order` is
the search, `EmitSingleton` and `EmitBlock` the submission with the Builder
operation that each calls, `Finish` freezes, `Check(i)` is one closure of the
`par_iter`, in any order, `Report` collects in declaration order.
`check_declar` is what a check asks of the table: a prefix for `ByName`, the end
of the block for an inductive type, the whole export tables for the name cache
of the quotient check (`QuotReady`). That check asks more in the code than here:
when the two types it compares are not the same term, `def_eq` tries proof
irrelevance first, which infers both of them (`tc.rs:211`, `tc.rs:922`) and looks
their constants up in the prefix. Leaving this out only lets the model pass more,
and `PassMeansChecked` holds all the same. `EnvAssumption` says what the environments have in common, of any
number and size: they are finite, only recursors have rules, and a quotient
constant that is `fine` mentions what the type it is compared with mentions. No hash map is iterated on this path; the
order of the members of a set where the code keeps list order (units, members of
a block) is one fixed order.

**Levels.** The functions of `level.rs` under their names, on levels as terms
(pointers are equal exactly if terms are, by `HashCons`). They call each other,
and no argument gets smaller in all of these calls; what certainly ends them is
that the stack of the thread is finite (`CHECK_STACK`, `extract.rs:419`). The
model has it the same way: `Call[d]` is the record of what the functions return
when `d` more calls fit on the stack, `Call[0]` overflows, and an operation
`f(at, ...)` is the body of one call, `at` being what it calls. So there is
recursion on a number only, and it can be proved about. `Height` stands for the
memory that levels fit into. A test answers "yes", "no", or a failure: "panic",
so that reaching the last arm of `leq_core` is visible, or "overflow"; an
operation that makes a level has the failure in place of the level. Either ends
the check, if not the process, so that no caller goes on with it. The calls are the
actions; `Value` is the reference definition. `simplify_cache` is left out: it
stores results of a function of the key alone.

**Expr, Terms, Declars, NatOps.** Expressions are records with the fields of the
`Expr` variants; a pointer and its expression are one thing, by `HashCons`.
Universe levels are numbers here (their symbols are in `Levels`), constants have
no universe arguments, and binder names and styles are left out. Each walk of
`expr.rs` is a step in `Expr` (`InstStep`, `AbstrStep`, `AbstrLevelsStep`), which
returns early, looks into the cache, goes into the parts (`Rebuild`) and fills the
cache (`Cached`), as the function body does, and takes what it calls for the parts
as an operator. `Terms` passes each step to itself, as `RECURSIVE` operators that
TLC evaluates; `ExprProofs` does so with functions on all expressions. A binder
type inside a free variable is not walked, by the code or here. `InstCall` and
`AbstrLevelsCall` begin with clearing the cache, as the code does. `declars` is what a checker can see, constant while it lives:
the environment cut off by `EnvLimit`, under a temporary extension.

**TypeTheory.** The declarative side: `Whnf`, `TypeOf`, `Typed`, and equality
through a canonical form that is directed by the type (all proofs of a
proposition are one, functions are their bodies, elements of structures their
fields). It has no caches, no laziness, no free-variable numbering and no order
of unfolding, and it shares no definition with the algorithms but the data types
of `Expr`, `Terms` and `Declars`. Its notions are mutually recursive through one
dispatcher, `Judge`; so are the operations of `Eval` (`Run`), `Infer` (`Call`)
and `Inductive` (`Do`).

**Values.** A value is an address in the arena of the checker, and what stands
there is a record: a rigid head with a spine, a definition that is folded, with its
spine, a closure, a thunk. A place is written again only to set a cell that was
empty: what a thunk or a folded definition was forced to, the domain of a closure,
the value that copies of a constant share. Two addresses may hold the same, and the
caches tell them apart, as the code's do by pointers; the tables `mk_*_hc` and
`canonicalize_for_spine` give one address to what they have seen before. Spines and
environments are lists, since `env_hc` and `spine_hc` share them by content. `Fresh`
is `TcCache` when new. `Cleared` is what `clear` leaves: the arena, the values of
closed terms (`closed_eval_cache`), those of free variables, and `probe_depth`.

**Eval and Conv.** Every operation takes the state of the checker and returns a
result with the state after it, so that what is kept is used when the code would
use it. `eval` with its caches of closed and of repeated open terms, application,
`force_all` with its explicit stack of waiting applications, `whnf_head`,
recursors, `Quot.lift` and `Quot.ind`, projections, K-like reduction, structure
eta, literal arithmetic, and the types of values; then `unify` with its three
caches, the probe depth, proof irrelevance, the eta rules and the lazy unfolding by
hints. A recursor application that reduced is in `iota_cache`, one that did not in
`iota_stuck`, by address. K-like reduction compares types within whatever comparison
is going on: at the depth of no binders, but with the caches and the probe depth as
they are. Arms of `unify` that mirror each other are one definition with the sides
exchanged. `DeferFrom` stands for the bound of 8 bits above which a literal is not
counted down before it is forced. `Conv` is a checker with its caches: `Ask` a
question, `Reduce` an operation on literals, `clear`.

**Infer and Checker.** Every operation takes what the checker keeps (`s`) and
returns a value with what is then kept, or panics. Both inference caches, both
reduction caches, the classes of the union-find (as `EqCache` has them), the
caches of the conversion checker, and the two counters of free variables are part
of `s`. Everything that asserts in the code panics here, the checks that
`InferOnly` leaves out are under the same condition. `Checker` makes requests of
one checker in turn (`Check`, `Compare`, `Reduce`, `clear`), checks declarations
with a checker of their own (`CheckDeclar`), and walks terms with the caches of
substitution that earlier walks left (`Inst`, `AbstrLevels`).

**Inductive.** A block is a list of declarations. One action per phase of
`check_inductive_declar` of each type in it (`Phase`): the declared types and
constructors, the specialisation of nested occurrences, the types, the
constructors (universes and positivity), the recursors with their rules, and the
comparison with what was declared, for nested blocks after putting the nested
types back. `CheckOther` is the check of a constructor, a recursor or a quotient
constant (`assert_quot`; module `Quot` says what each quotient constant has to
be). Each phase
has a new checker; the context, with its counters, lives as long as the check of
one declaration, and `declars` is the environment with the extension that the
phase sees. A large eliminating recursor eliminates into the one universe
`LargeLevel`, in place of a universe parameter. Things of the code that the
model makes visible:

* `InferOnly` is asked of declared recursor rules, which nothing has checked
  before; what protects the check is that they are compared with rules that the
  kernel constructed itself.
* Only types and rules of recursors are compared; the counts and `is_k` of a
  recursor, and `num_params` and `is_recursive` of a type, are used as submitted.
  In a nested block a recursor that is missing is not missed.
* The parameter types of the second and later types of a mutual block are not
  compared with those of the first; a difference is found with the constructors
  or recursors.
* A nested occurrence must be in sight, not behind a definition. The constructed
  environment has `is_recursive` false for all types.

## 3. The runs

| Run | Instance | States | Properties |
|---|---|---|---|
| `union_find` | 4 elements, calls without bound | 39,556 | `Forest`, `ForestIsPartition`, `RankBound`, `ImplementsEqCache`, `CallReturns` |
| `hash_cons` | 1 context, 2 name components, tables of 2 | 17,679 | `NoShadow`, `PointerEqualityIsTermEquality`, `ImplementsInterner` |
| `hash_cons_shared` | 2 contexts, export tables of 2, local of 1 | 5,191 | `SharedAcrossContexts` |
| `topo_order` | all graphs on 4 units, up to 2 edges out of each, 3 root lists | 84,603 | `DependenciesFirst`, `Complete`, `ImplementsSchedule`, `Terminates` |
| `check_declars` | 3 workers, 4 declarations, any of them bad | 5,636 | `EachInOnePlace`, `OthersAreChecked`, `NothingLeftRunning`, `ImplementsVerdict`, `Ends` |
| `levels` | 1,179 levels of two parameters, compared with 24, tested and substituted in; 302 levels of one parameter, compared pairwise | 184,919 | `TypeOK`, `LeqSound`, `TestsExact`, `SubstitutionKeepsMeaning` |
| `extract` | 560 environments of 1 to 6 constants, the quotient constants among them, 7 selections | 38,578 | `SubmitsWhatIsNeeded`, `BlocksInPlace`, `PassMeansChecked`, `BlameIsExact`, `Ends` |
| `extract_only_quot` | the quotient constants, `--const Quot` and `--const Quot.lift` | violated | `SelectionIsEnough` |
| `conv` | 62 pairs of terms, first or after one of 20; all literal operations on 0 to 3 | 4,988 | `AnswersRight`, `ArithmeticRight`, `NegativesAreFinal`, `ForceAgrees` |
| `conv_binders` | one pair of terms whose cast is below a binder | violated | `AnswersRight` |
| `checker` | 46 terms, 13 pairs, 19 declarations, 11 walks; two requests to a checker | 3,824 | `ChecksTyping`, `ComparesRight`, `ReducesRight`, `AcceptsGood`, `NothingLeftOpen`, `WalksRight` |
| `inductive` | 224 blocks, and quotient constants in 12 ways | 1,733 | `AcceptsWellFormed`, `RecursorsCompute`, `EliminationSound` |

What they show, beyond the wording of each property in its module:

* `union_find`: at no point of a compression does following parents give
  anything but the classes built so far. Four elements are what two rank-1
  classes need to meet, so that rank 2, a path of two links and a compression
  that changes something occur.
* `hash_cons`: comparing pointers is comparing whole terms, names included, for
  every export store the builder can leave behind. A table of two entries holds
  a leaf and a node over it, so the child of a local node can be in either
  store. Two contexts (`hash_cons_shared`) have one pointer for a term of the
  environment. `Cap` and `LocalCap` bound the tables (2^31 in the code).
* `topo_order`: cycles, diamonds and units shared between roots occur; on
  cyclic graphs a dependency is missing only if it needs the unit itself.
* `check_declars`: every interleaving of three workers, with any subset of
  declarations bad: panics of one, two or all workers, with a thread refused at
  any point. When all workers have panicked some declarations are never checked;
  the verdict is still a rejection.
* `levels`: every level with operations two deep. That covers each arm of
  `leq_core`, both nestings of `imax` and `max` on both sides, and the case
  split on a parameter that occurs on both sides. Parameters take values up to
  4, more than the constants that such levels can build. Levels may be nested five
  deep and calls twenty; four and ten are enough, and `TestsExact` also says that
  no call of the run overflows. `leq` is sound, and it
  is not complete: it misses `p + 1 <= max 1 (imax (p + 1) p)`, which rejects
  and never accepts wrongly. `TestsExact` says where it is exact.
* `extract`: dependencies that are missing (`d`) or unsafe (`c`), a faulty
  constant (`b`, `T.mk`), cycles and self-references, a mutual block whose
  constructor and a definition depend on each other in both directions, a
  constructor without its type, two blocks that build on each other; selections with a wrong name, with a constant
  inside a block, with several names. `PassMeansChecked` is the driver's
  soundness: it covers environments of any shape, but for one that has some of
  the quotient constants without `Quot` and `Quot.mk` (`LoneQuotEnvs` shows why:
  `Quot.mk` by itself passes, although `Quot` is not there; Lean adds the four
  together). `BlameIsExact` is its completeness on environments that are closed
  and without cycles, and whose blocks agree in themselves, as Lean produces
  them.
* `extract_only_quot` is a disagreement of code and documentation. `main.rs:29`
  describes `--const` as a restriction to "these constants and their transitive
  dependencies". `check_quot` unwraps the name-cache entry of `Quot.mk`
  (`quot.rs:138`) whichever quotient constant it checks, and the cache knows only
  names that were interned while the selected closure was built. `Quot.mk` is
  not a dependency of `Quot` or of `Quot.lift`, so selecting one of these alone
  reports the valid constant `Quot` as failed.

* `conv`: every form of conversion (computing with recursors, literals,
  quotients and projections; eta for functions, structures and units; proof
  irrelevance; K-like reduction; definitions unfolded on one side, on the other, on
  neither), with for most of them a pair that is different. Each is asked of a new
  checker and after each of 20 questions that leave failed attempts, or marks, in
  the caches, with or without a `clear` between. Two questions are enough for a
  cache to mislead. `AnswersRight` compares with `TypeTheory`. It is exact but for
  two sets of pairs, in both of which equal terms are found different; nothing is
  accepted wrongly, and outside of these pairs nothing is missed.
  - `PutOff`: a recursion on a sum with a large literal, met below an application,
    stays undecided even by the full comparison. The third of these pairs is
    `double(cast) =?= double(b)`, where `cast` is `b` moved along an axiom
    `a + 2 = succ (a + 1)` (2 is a large literal here). While the arguments of
    `double` are only tried (`spine_probe`), the comparison of types for the K-like
    reduction of `cast` puts the unfolding of the sum off too, and fails; `cast` is
    marked stuck (`eval.rs:927`, `eval.rs:1087`), the mark is consulted by the full
    comparison that follows (`eval.rs:894`, `eval.rs:1068`), and the answer is no.
  - `Casts`: pairs with `cast` itself. A new checker finds `cast` and `b` equal, and
    one that has marked `cast` before does not. The exemption holds only in states
    that have such a mark (`MarkedTooSoon`): one that a new checker would not have
    made for the same value.
  `NegativesAreFinal` bounds what a failed attempt can do: each pair in the cache of
  full comparisons is found different by a comparison that starts with none of the
  negative results, and only with the marks.
* `conv_binders` is a disagreement of code and documentation. `union_find.rs:1`
  calls what the checker finds equal definitional equalities, and comparisons
  below binders start at the number of open binders (`conv_types_at`,
  `conv.rs:37`). `try_k_reduce` (`eval.rs:1304`) compares two types with
  `conv_types`, which starts at none, although the types may have open variables
  in them (`tc.rs:787`). A binder inside the types is then opened as the variable
  that is bound outermost: below `fun y`, the types `(fun x => x) = (fun x => y)`
  and `(fun x => x) = (fun x => x)` are taken for one, and a cast along a proof of
  the first is found equal to what is cast. The run `conv` has the K-like
  reductions where this cannot happen.
* `checker`: terms of every form, right and wrong in each place that the code
  checks. `ChecksTyping` and `ComparesRight` are exact both ways on the terms of
  the run, whatever the first request left in the caches: a term taken on trust
  and then checked, a term that contains one found equal, before and after
  `clear`. `infer_proj` asks neither that the type has one constructor only nor
  that the name in the projection is that of the type; the terms that reach the
  kernel have both right.
* `inductive`: a type with one constructor of up to two fields or with an index
  in all combinations of fields that are recursive, nested (`List`), a function
  from or to the type, too large, behind a definition, or below an inductive type that holds its
  parameter in a bad place; and written-out blocks with their recursors, right and
  wrong: binary trees, vectors (a parameter and an index), even and odd (mutual),
  a disjunction, rose trees (nested, with two recursors), and types wrong in
  parameters, universes or results. Of the 224, 19 are accepted, 103 are well
  formed and fail only where recursors are looked for, since they come without,
  and about 90 are rejected in an earlier phase. The reference says nothing of the
  phases: a good block by type theory, and for each written-out block the
  recursors it should have. `RecursorsCompute` is about constructors that have
  types, which is for the check of each constructor to find out. The quotient
  constants come right (also through a definition), wrong in one of the four, and
  with an equality that has one parameter, two constructors, a constructor for
  any two elements, or is missing; `Quot.lift` is then the one that is rejected.

`CHECK_DEADLOCK FALSE` is set where the system stops: the search has finished,
the checker has its verdict, the report is made, the one call on levels has
returned, a checker has been asked as often as the bound says or has panicked, the
last declaration of the block is checked. The union-find and the store always
accept another call.

**Fairness.** `UnionFind`: weak fairness of the steps inside a call, which runs
on its thread to its return; none for starting calls. `TopoOrder` and `Extract`:
weak fairness of the next step; one thread drives them, and rayon runs every
item of the iterator. `CheckDeclars`: weak fairness of each thread, which the
operating system schedules, where a check that has started ends. That a single
check ends is assumed; the kernel has no timeout.

Every property of a passing run has a mutant of the code (an operator that says
"Mutant" in the modules) under which TLC finds it violated.

`TypeOK` of `union_find`, `hash_cons`, `topo_order` and `check_declars`,
`AnswerRight`, `Stable` and `StateTellsPlace` are proved (below) and have no run
of their own.

## 4. The proofs

TLAPS proves the following for every value of the constants: any set of
elements, any graph and list of roots, any number of threads and declarations,
any sets of contexts and name components, any environments and selections, levels
of any depth on a stack of any size, expressions of any depth. Every safety property
of the runs on the first six components is among them, but for the part of
`TestsExact` that is about the bounds of its run. The theorems of `ExprProofs` are
about the steps that `Terms` and the runs on it are made of.

| Theorem | Module | States |
|---|---|---|
| `UnionFindType`, `UnionFindForest`, `UnionFindAnswer` | `UnionFindProofs` | `TypeOK`, `Forest`, `AnswerRight` |
| `UnionFindShape`, `UnionFindRank` | `UnionFindProofs` | `Shape`, `RankBound` |
| `UnionFindPartition` | `UnionFindProofs` | `ForestIsPartition` |
| `UnionFindImplementsEqCache` | `UnionFindProofs` | `ImplementsEqCache` |
| `UnionFindShallow` | `UnionFindProofs` | `Shallow`: `find_parent_idx` recurses at most log2 of the class deep |
| `HashConsType`, `HashConsInv`, `HashConsNoShadow`, `HashConsCanonical`, `HashConsReadsBack`, `HashConsStable` | `HashConsProofs` | `TypeOK`, `NoShadow`, `Canonical`, `ReadsBack`, `Stable` |
| `HashConsImplementsInterner` | `HashConsProofs` | `ImplementsInterner` |
| `HashConsChildrenFirst` | `HashConsProofs` | `ChildrenFirst` |
| `HashConsPointerEquality`, `HashConsShared` | `HashConsProofs` | `PointerEqualityIsTermEquality`, `SharedAcrossContexts` |
| `HashConsWholeTermsStable` | `HashConsProofs` | `WholeTermsStable` |
| `TopoOrderType`, `TopoOrderState`, `TopoOrderDependenciesFirst`, `TopoOrderComplete` | `TopoOrderProofs` | `TypeOK`, `StateTellsPlace`, `DependenciesFirst`, `Complete` |
| `TopoOrderImplementsSchedule` | `TopoOrderProofs` | `ImplementsSchedule` |
| `CheckDeclarsType`, `CheckDeclarsOnce`, `CheckDeclarsScope`, `CheckDeclarsOthers` | `CheckDeclarsProofs` | `TypeOK`, `EachInOnePlace`, `NothingLeftRunning`, `OthersAreChecked` |
| `CheckDeclarsImplementsVerdict` | `CheckDeclarsProofs` | `ImplementsVerdict` |
| `CheckDeclarsVerdict` | `CheckDeclarsProofs` | `VerdictRight`: accepted only with nothing bad and everything checked, rejected only with something bad |
| `ExtractInvariant` | `ExtractProofs` | `EInv` |
| `ExtractBlocks`, `ExtractSubmits`, `ExtractPasses`, `ExtractBlames` | `ExtractProofs` | `BlocksInPlace`, `SubmitsWhatIsNeeded`, `PassMeansChecked`, `BlameIsExact` |
| `ExtractSearches`, `ExtractImplementsSchedule` | `ExtractProofs` | the search inside the driver is a behaviour of `TopoOrder`, and so implements `Schedule` |
| `UnionFindShrinks`, `TopoOrderShrinks`, `CheckDeclarsShrinks`, `ExtractShrinks` | each in its module | each step takes something for good from finitely much there is to do (for UnionFind: each step of a call) |
| `LevelsTotal`, `LevelsLeqSound`, `LevelsSubstitution` | `LevelsProofs` | `TypeOK`, `LeqSound`, `SubstitutionKeepsMeaning` |
| `LevelsZeroTests` | `LevelsProofs` | `ZeroTestsExact`, the first part of `TestsExact` |
| `LevelsLeqDecides` | `LevelsProofs` | `LeqDecides`: without `imax`, "yes" exactly if below for all natural numbers, the second part of `TestsExact` |
| `PanicsUnreachable` | `ExprProofs` | counts and flags keep the walks from the branches that panic, and from a variable bound below |
| `InstWalks`, `AbstrWalks`, `AbstrLevelsWalks` | `ExprProofs` | with any right cache a walk returns the substitution without cache and early return, and leaves a right cache |
| `InstOfAbstr`, `AbstrOfInst` | `ExprProofs` | `inst` undoes `abstr`; `abstr` undoes `inst` with distinct new variables |
| `AbstrLevelsOfInst`, `InstOfAbstrLevels` | `ExprProofs` | the same for `abstr_levels` and the levels opened last |
| `InstOfInst`, `ReplaceParams` | `ExprProofs` | instantiating in parts is instantiating at once; `replace_params` replaces all at once |
| `InstBounds`, `AbstrBounds`, `AbstrLevelsBounds` | `ExprProofs` | indices stay natural; loose bound and free variables of the results |

Assumptions are those on the constants only: `CapAssumption`, `ListAssumption`,
`SizeAssumption`, `EnvAssumption`, `SelectionAssumption`, `BoundAssumption`,
`QueryAssumption`. TLC evaluates each of
them in a run. `ExprProofs` has two sets as constants, of names and of identifiers,
and assumes nothing of them.

* **UnionFind.** That a root is alone in its class (`OneRoot`) is not inductive
  by itself: linking needs roots that are still roots after the second climb
  compressed the path of the first, and compression needs the elements of the
  recursion stack to be below the root in rank, so that pointing them to it
  keeps `RankClimbs`. `WalkOK` carries both. `RootsDecide` then gives that
  comparing the two roots decides the relation, and each step maps to a step of
  `EqCache` or leaves its variables alone.
  `RankBound` is about sizes of classes: a root of rank r has at least 2^r
  elements in its class. It rests on `Shape`, which adds that every class has a
  root and is finite and that ranks have a bound. Linking roots of one rank adds
  the sizes of two classes that are disjoint because `OneRoot` held; a
  compression touches neither roots nor ranks. `ForestIsPartition` follows the
  parents by recursion (`RootOf`): the function that gives each element the root
  of its class solves that recursion, so `RootOf` exists, and an element of
  greatest rank for which it went wrong would have a parent of greater rank.
  `Shallow` adds to `WalkOK` that ranks grow along the recursion stack
  (`WalkClimbs`), so that the rank of the root is at least the depth, and
  `RankBound` turns the rank into a size. No property of a run states it.
* **HashCons.** `Canonical` needs `NoDuplicate` inside a table and `NoShadow`
  between the tables; `NoShadow` needs that a node which `is_expr_local_only`
  exempts from the lookup cannot be in the export store, which is the type
  invariant of that store (`ExportOK`: its nodes point into it). Stability is
  that tables only grow at the end.
  For whole terms, `ChildrenFirst` says that a node is stored after the nodes it
  is made of; `Place` puts the entries of the export store before those of a
  context, so that every pointer in a node leads to a smaller place. The
  recursion of `NameOf` and `TermOf` then has a solution (`NameOfEquation`,
  `TermOfEquation`: solutions up to each place exist, by the least place where
  none does). Two pointers with one term have the same kind of node, over parts
  with one term each; at the least place where the pointers differed the parts
  have one pointer each, so the nodes are the same, and `Canonical`, or between
  two contexts `NoShadow`, gives that the pointers are (`OneTermOnePointer`).
  The same induction gives `WholeTermsStable` from `Stable`.
* **TopoOrder.** `Chain`: each stack entry is the dependency that the entry
  below last turned to. `Scanned`: dependencies before a position have been
  visited. `Settled`: dependencies of a finished unit are finished, or were on
  the stack below it, so that they need it. `Wanted`: nothing that the roots do
  not need is touched. `Tried`: roots before the position are visited. On an
  acyclic graph the second case of `Settled` contradicts `Chain`.
* **CheckDeclars.** `EachInOnePlace` makes the accepted set and the claimed
  indices a partition of what the counter has passed. `CallerInv` says that the
  caller has passed a handle only if that worker has exited, and a worker exits
  only when the counter is past the end (`WorkerInv`); so with all handles
  joined, every declaration is accepted. For `OthersAreChecked` one worker that
  has not panicked is enough: it left when the counter was past the end, and what
  is claimed and not accepted is claimed by a worker that panicked at it.
  `VerdictRight` is what a caller may conclude, and follows from `Verdict` alone.
* **Extract.** `EInv` has, for each phase, what it hands to the next. `Graph`:
  the edges and roots are those of the environment and the selection. The
  invariant of `TopoOrder` (as `P!Inv`, for the instance; its steps are the
  steps of `Order`, and the lemmas of `TopoOrderProofs` are cited, not proved
  again). `Progress`: submission begins when the search is done. `Table`: the
  declarations are the members of the units submitted so far, each once, units
  in the order of the search. `Placed`: `BlocksInPlace`, inside the table.
  `Outcomes`: a mark is what the check of that declaration gives on the final
  table. Then `Complete` of the search, carried from units to their members
  (the closure under dependencies and block mates of the constants asked for is
  the union of the units needed), is `SubmitsWhatIsNeeded`. `PassMeansChecked`
  goes along the uses of what was asked for: each check looked its uses up in
  the prefix it saw, and `Placed` turns the end of a block into its members; the
  quotient check asks for less here than in the code, and there `EnvAssumption` says
  which the uses are, and `Settled` that they come earlier. `BlameIsExact` is the converse:
  on an acyclic graph `DependenciesFirst` puts every use outside a unit earlier,
  and `Placed` with `BlocksAgree` every use inside a block. The driver takes the
  steps of `TopoOrder` in `Order` and leaves its variables alone in every other
  action (`ExtractSearches`); with `TopoOrderImplementsSchedule` it implements
  `Schedule`.
* **Levels.** First the definitions: `LevelTo`, `Meaning`, `Call` and `NoIMax` are
  recursive, and that their recursions have solutions is a lemma each
  (`LevelToEquation`, `MeaningEquation`, `CallEquation`, `NoIMaxEquation`).
  `LevelInduction` goes from the parts of levels to levels. What the functions
  promise is said of the record `at`; the promises pass from `Call[d]` to
  `Call[d + 1]` (`FrameRight`, `FrameTotal`, `FrameExact`, `FrameComplete`) and are
  empty for `Call[0]`, so they hold for `Thread` (`ThreadRight`).
  `CallRight`: a result denotes what it should, and "yes" is true for all values
  of the parameters. The case split of `leq_imax_by_cases` is right because each
  value of the parameter is 0 or a successor; the two arms that distribute
  `imax`, by `IMaxDistributes`.
  `CallTotal`: on the right of each `imax` of a simplified level is a parameter, a
  `max` or an `imax`, in each part of it (`Simple`). That is what `leq_core` needs
  to find an arm; substitution loses it, and each substitution is followed by
  simplification.
  `CallExact`: a level that is rejected as 0 is not 0 for some values. For the
  rejected comparison of 1 with a level all parameters are 0, and `ZeroStays` moves
  between values that have the same zeros, which also brings the values down to 0
  and 1.
  `CallComplete` is the converse of soundness without `imax`. That each side of a
  max on the right fails for some values is not enough, since they may be different
  values. What is carried is that 0 fails when all parameters are 0, and a parameter
  when it is large and the others are 0 (`Fails`): then both sides fail at once
  (`MaxFails`). With `imax` this is false, as the example above shows.

* **Expr.** Expressions are the least set with the leaves that is closed under the
  constructors (`TermTo`, by depth). `TermInduction` goes from the parts of an
  expression to it, and `TermRecursion` says that a function given by its values at
  the parts exists; so `NumLooseBvars`, `HasFreeVars`, and the three walks (`InstAux`,
  `AbstrAux`, `AbstrAuxLevels`), which are functions of the expression, the number of
  binders crossed and the cache, satisfy the equations that choose them.
  A walk is described by where it returns early, its cache key, where it stops and
  what it returns there. `WalkRight` is about all three: if no two calls share a key,
  and returning early is right, then every call keeps every entry of the cache right,
  the entries of the parts being made before the one of the whole. What is right is
  said by a substitution without cache (`Everywhere`). That it changes nothing where
  the walk returns early needs more than the expression at hand: closed below n
  binders, and without free variables, are passed on to the parts with n counted up
  (`Class`), and `MapIdentity` is the induction on that.
  `MapCompose` does for two substitutions in turn what `MapIdentity` does for one:
  they are a third if they are at the nodes without parts. There the four inverse
  theorems, `InstOfInst` and `ReplaceParams` are arithmetic on indices: with `Len(s)`
  locals, the last of which is the innermost, below n binders the local at p is the
  variable `Len(s) - p + n`, and with the counter at `start_pos + Len(s)` the level
  `start_pos + p - 1` is the same variable. That the hypotheses are those of the
  callers can be read off `tc.rs`: the levels opened are the next ones, and the
  counter stands behind them. `AbstrLevelsOfInst` is not true when an expression
  already has one of these levels, nor `AbstrOfInst` when a local occurs in it or
  twice in the list; `InstOfAbstr` needs only that the expression is closed.
  Indices are integers, since `fvar_to_bvar` subtracts without a check; the three
  `Bounds` theorems say when they are natural, for which the counter has to be above
  every level in the expression. Their width of 16 bits is not modelled.

* **What is left only shrinks.** That no run is infinite is a safety property once
  it is said which finite sets shrink, and that one of them does at each step. For
  a call of the union-find structure they are the pushed elements of greater rank
  than the point reached, and those with the recursion stack, for each of the two
  climbs (`WalkClimbs` keeps an element from being on the stack twice). For the
  search, the roots not tried and, of each unit the roots need, the dependencies
  not yet turned to and the leaving of the unit; that a unit is on the stack once
  is in `StateTellsPlace`, and with cycles or without makes no difference. For
  `check_all_declars`, the indices not drawn, the declarations not accepted, the
  threads not started, not ended and not joined, and the verdict. For the driver,
  the phases ahead, what its search has left, the units not submitted and the
  constants without an outcome: an environment is finite, and the roots need no
  unit outside it. What these theorems leave of `CallReturns`, `Terminates` and
  `Ends` is that a system which has not finished can take a step, and takes it.

A proof by induction is a proof that the set of counterexamples, or of their
ranks or places, has no least element (`LeastNat` of `SetLemmas`): the library's
induction theorems take an operator as parameter, which the provers here cannot
instantiate.

Only model-checked: liveness (`CallReturns`, `Terminates`, both `Ends`), for
which a system that has not finished must have a step that is `ENABLED`, and a fair
scheduler take it; how much stack and memory a comparison of `Levels`
takes, which depends on the levels; and the properties of `Conv`, `Checker` and
`Inductive`, whose operations and reference definitions are mutually recursive
operators, which the prover does not take. `WalksRight` of `Checker` is among these,
since it is about the operators of `Terms`; `InstWalks`, `AbstrLevelsWalks` and
`InstOfAbstrLevels` say the same, for all expressions, of the functions made from the
same steps, but the prover cannot take that step from an operator to a function.

## 5. What is not modelled

* Universe parameters of declarations in `Eval`, `Conv`, `Infer` and `Inductive`
  (levels are numbers there, and `subst_expr_levels` is left out); the checks of
  lists of parameters in `level.rs`.
* String literals, in terms, values and conversion.
* In the evaluator `canon_cache` and `fvar_cache`, which return what computing
  again would, and the identity of spines and environments across `clear`: here
  they are lists, so that one from before is recognised when it has the same
  content.
* `strong_reduce`, which nothing calls.
* The walk over Lean objects (names, levels, terms, literals) and its memo
  tables; reference counts; printing of names, which are distinct values here.
* What type theory says of a constant is the bit `fine` in `Extract` and the set
  `bad` in `CheckDeclars`: the driver and the threads are checked for any answer,
  the answers themselves are the subject of `Checker` and `Inductive`.
* Hashing and the `FxIndexSet` internals; `IndexSet` is modelled by its
  documented behaviour.
* Notations, printers, command line, progress bar, build scripts.
* Stack overflow and memory exhaustion, but for `Levels`; that evaluation and
  specialisation end.

## 6. Plan

1. Lemmas about `can_be_struct`, the unfolding hints and the operations on
   literals, after moving them out of modules with recursive operators.
2. `foldl_apps`, `abstr_pis` and `abstr_lambda_telescope` as functions on lists,
   with what `ExprProofs` has for one binder carried to telescopes.
3. `LeanObjects`: reference counts and the walker's memo by address.
