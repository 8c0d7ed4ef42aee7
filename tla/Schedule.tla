------------------------------ MODULE Schedule -------------------------------
(***************************************************************************)
(* What the driver expects of the order in which it submits declaration    *)
(* units to the kernel: each unit once, none that the request does not     *)
(* need, and each after its dependencies.  A dependency may be missing     *)
(* only if it needs the unit itself, that is, if the two lie on a cycle.   *)
(***************************************************************************)
EXTENDS Naturals, Sequences

CONSTANT Unit          \* declaration units

VARIABLES deps,        \* deps[u]: the units that u depends on
          wanted,      \* the units asked for
          order        \* the units submitted so far

Submitted == {order[i] : i \in 1 .. Len(order)}

Closed(S) == \A u \in S : deps[u] \subseteq S

\* v is among W or a transitive dependency of a unit of W.
Needs(W, v) == \A S \in SUBSET Unit : W \subseteq S /\ Closed(S) => v \in S

Init == order = <<>> /\ deps \in [Unit -> SUBSET Unit] /\ wanted \in SUBSET Unit

Submit(u) ==
  /\ u \notin Submitted
  /\ Needs(wanted, u)
  /\ \A v \in deps[u] : v \in Submitted \/ Needs({v}, u)
  /\ order' = Append(order, u)
  /\ UNCHANGED <<deps, wanted>>

Next == \E u \in Unit : Submit(u)

Spec == Init /\ [][Next]_<<deps, wanted, order>>
==============================================================================
