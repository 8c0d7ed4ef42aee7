------------------------------- MODULE EqCache -------------------------------
(***************************************************************************)
(* What the type checker expects of its definitional-equality cache        *)
(* (`TcCache::eq_cache`, used by `TypeChecker::def_eq`): an equivalence    *)
(* relation `rel` on expression pointers that starts as equality, grows    *)
(* only by the pairs `union` is given and what equivalence forces from     *)
(* them, and is what `check_uf_eq` answers from.                           *)
(***************************************************************************)
CONSTANT Elem          \* expression pointers

VARIABLES rel,         \* the pairs known to be equal
          answer       \* the last check: the two elements and the verdict

Identity == {p \in Elem \X Elem : p[1] = p[2]}

NoAnswer == [kind |-> "none"]
Answer(x, y, v) == [kind |-> "answer", x |-> x, y |-> y, eq |-> v]

\* The least equivalence above the equivalence r that relates x and y.
Join(r, x, y) ==
    {p \in Elem \X Elem :
        \/ p \in r
        \/ <<p[1], x>> \in r /\ <<y, p[2]>> \in r
        \/ <<p[1], y>> \in r /\ <<x, p[2]>> \in r}

Init == rel = Identity /\ answer = NoAnswer

Union(x, y) == rel' = Join(rel, x, y) /\ answer' = NoAnswer

Check(x, y) == rel' = rel /\ answer' = Answer(x, y, <<x, y>> \in rel)

Clear == rel' = Identity /\ answer' = NoAnswer

\* A call that has started and not yet returned has no answer.
Begin == rel' = rel /\ answer' = NoAnswer

Next == \/ \E x, y \in Elem : Union(x, y) \/ Check(x, y)
        \/ Clear
        \/ Begin

Spec == Init /\ [][Next]_<<rel, answer>>
==============================================================================
