------------------------------- MODULE Declars -------------------------------
(***************************************************************************)
(* The declarations that a type checker can see (env.rs), by name.  A      *)
(* declaration is a record with its kind, its type `ty` and what its kind  *)
(* needs: `val` and `hint` of a definition, the counts of an inductive     *)
(* type, a constructor and a recursor, the rules of a recursor.  Universe  *)
(* parameters are left out.                                                *)
(***************************************************************************)
EXTENDS Terms

VARIABLE
  declars     \* the visible environment (ExportFile::declars, EnvLimit and the
              \* temporary extension of env.rs)

CONSTANT
  DeferFrom   \* model bound: literals of this size or more are not counted
              \* down before it is asked for (eval.rs: those above 8 bits)

Kinds == {"axiom", "opaque", "def", "thm", "induct", "ctor", "rec", "quot"}
ASSUME DeferFromAssumption == DeferFrom \in Nat

get_declar(n) == n \in DOMAIN declars
IsOfKind(n, kinds) == n \in DOMAIN declars /\ declars[n].kind \in kinds

\* get_declar_val: only definitions and theorems have a value that is used.
has_declar_val(n) == IsOfKind(n, {"def", "thm"})

\* unfold_hint: all but definitions count as opaque.  A hint is a number, or
\* one of these two.
Opaque == -1
Abbrev == 1000
unfold_hint(n) == IF IsOfKind(n, {"def"}) THEN declars[n].hint ELSE Opaque
is_lt(l, r) == r # Opaque /\ l # Abbrev /\ l < r

major_idx(rec) == rec.num_params + rec.num_motives + rec.num_minors + rec.num_indices
get_major_induct(rec) == unfold_apps_fun(get_nth_pi_binder(rec.ty, major_idx(rec))).name

can_be_struct(n) ==
  /\ IsOfKind(n, {"induct"})
  /\ ~ declars[n].is_recursive /\ Len(declars[n].ctors) = 1 /\ declars[n].num_indices = 0
==============================================================================
