------------------------------- MODULE Values --------------------------------
(***************************************************************************)
(* Where the values of the evaluator live (value.rs, eval.rs, the part of  *)
(* TcCache in util.rs that holds them).  A value is an address: what it is *)
(* stands in the arena, where a place once given is only written to set a  *)
(* cell that was empty.  Values that agree in what they hold may have two  *)
(* addresses; the tables that share them (mk_*_hc, canonicalize_for_spine) *)
(* give the arguments of an application one address each.                  *)
(*                                                                         *)
(* Every operation takes what the checker keeps, s, and returns a result   *)
(* and what is then kept.  Environments and spines are the lists of what   *)
(* they hold: env_hc and spine_hc make them so.  canon_cache and           *)
(* fvar_cache, which return what computing again would, are left out, and  *)
(* so are string literals.                                                 *)
(***************************************************************************)
EXTENDS Declars, NatOps, FiniteSets, TLC

Null == 0     \* no value: an empty cell, or nothing found

\* Heads of rigid values and the eliminations on a spine.
BVar(l, ty)  == [h |-> "bvar", level |-> l, ty |-> ty]
LocalHead(e) == [h |-> "local", e |-> e]
HeadOf(kind, n) == [h |-> kind, name |-> n]
AppElim(v)     == [el |-> "app", v |-> v]
ProjElim(S, i) == [el |-> "proj", ty_name |-> S, idx |-> i]

\* What stands at an address.  `cell` is the number of the cell that the copies
\* of a constant share; `forced` and `domain` are cells of their own.
Rigid(h, sp) == [k |-> "rigid", head |-> h, spine |-> sp]
Unfold(n, sp, cell) == [k |-> "unfold", name |-> n, spine |-> sp, cell |-> cell, forced |-> Null]
Lam(t, env, b) == [k |-> "lam", binder_type |-> t, env |-> env, body |-> b, domain |-> Null]
VPi(dom, env, b) == [k |-> "vpi", domain |-> dom, env |-> env, body |-> b]
VSort(l) == [k |-> "vsort", level |-> l]
VNat(n) == [k |-> "vnat", n |-> n]
Thunk(env, e) == [k |-> "thunk", env |-> env, expr |-> e, forced |-> Null]

IsRigid(w, kinds) == w.k = "rigid" /\ w.head.h \in kinds
IsCtor(w, n) == IsRigid(w, {"ctor"}) /\ w.head.name = n
IotaHeads == {"rec", "quot"}

------------------------------------------------------------------------------
(***************************************************************************)
(* What a checker keeps: a table is a function from the keys it has.       *)
(***************************************************************************)
Empty == <<>>
Fresh ==
  [arena |-> <<>>, cells |-> <<>>,
   bvar_hc |-> Empty, rigid_hc |-> Empty, unfold_hc |-> Empty, lam_hc |-> Empty, pi_hc |-> Empty, content_hc |-> Empty,
   local_v_cache |-> Empty, closed_eval_cache |-> Empty, open_eval_cache |-> Empty, open_eval_seen |-> {},
   const_head_value_cache |-> Empty, const_head_type_cache |-> Empty, const_result_level_cache |-> Empty,
   unfold_const_cache |-> Empty, rec_rule_cache |-> Empty, struct_eta_cache |-> Empty,
   iota_cache |-> Empty, iota_stuck |-> {},
   conv_cache |-> {}, conv_cache_neg |-> {}, conv_cache_neg_probe |-> {}, probe_depth |-> 0]

\* TcCache::clear empties the tables.  It leaves the values of closed terms and
\* probe_depth; those of free variables belong to the checker.
Cleared(s) == [Fresh EXCEPT !.arena = s.arena, !.cells = s.cells, !.local_v_cache = s.local_v_cache,
                            !.closed_eval_cache = s.closed_eval_cache, !.probe_depth = s.probe_depth]

Gives(v, s) == [v |-> v, s |-> s]
Keep(table, key, v, s) == [s EXCEPT ![table] = (key :> v) @@ @]

\* What a table has for a key, or r, which it then has.
Memo(table, key, r, s) ==
  IF key \in DOMAIN s[table] THEN Gives(s[table][key], s) ELSE Gives(r.v, Keep(table, key, r.v, r.s))

Alloc(w, s) == Gives(Len(s.arena) + 1, [s EXCEPT !.arena = Append(@, w)])

\* mk_rigid_hc, mk_unfold_hc, mk_lam_hc, mk_pi_hc: one address for all that
\* hold the same but for cells of their own.
Bare(w) == CASE w.k = "lam" -> [w EXCEPT !.domain = Null]
             [] w.k \in {"unfold", "thunk"} -> [w EXCEPT !.forced = Null]
             [] OTHER -> w
TableOf(w) == CASE w.k = "rigid" -> "rigid_hc" [] w.k = "unfold" -> "unfold_hc"
                [] w.k = "lam" -> "lam_hc" [] w.k = "vpi" -> "pi_hc"
Share(w, s) == Memo(TableOf(w), Bare(w), Alloc(Bare(w), s), s)

mk_bvar_hc(level, ty, s) == Memo("bvar_hc", <<level, ty>>, Alloc(Rigid(BVar(level, ty), <<>>), s), s)

(***************************************************************************)
(* An argument is replaced by the address that its like has.  A thunk      *)
(* stays what it is.                                                       *)
(***************************************************************************)
RECURSIVE canonicalize_for_spine(_, _), canon_spine(_, _)

canon_spine(sp, s) ==
  IF sp = <<>> THEN Gives(<<>>, s)
  ELSE LET prev == canon_spine(Front(sp), s)
           arg == canonicalize_for_spine(Last(sp).v, prev.s)
       IN  IF Last(sp).el = "app" THEN Gives(Append(prev.v, AppElim(arg.v)), arg.s)
           ELSE Gives(Append(prev.v, Last(sp)), prev.s)

canonicalize_for_spine(v, s) ==
  LET w == s.arena[v]
      sp == canon_spine(w.spine, s)
  IN  CASE w.k = "thunk" -> Gives(v, s)
        [] w.k \in {"vsort", "vnat"} -> Memo("content_hc", w, Gives(v, s), s)
        [] w.k \in {"lam", "vpi"} -> Share(w, s)
        [] w.k \in {"rigid", "unfold"} -> Share([w EXCEPT !.spine = sp.v], sp.s)

\* w with one more elimination.
spine_snoc_hc(w, elim, s) == Share([w EXCEPT !.spine = Append(@, elim)], s)
==============================================================================
