------------------------------ MODULE MCLevels -------------------------------
(***************************************************************************)
(* Levels over two parameters: all of those with at most three operations  *)
(* of which none is deeper than two, compared with all of those with one;  *)
(* and all of the former over one parameter with each other.               *)
(***************************************************************************)
EXTENDS Levels

Over(L) == L \cup {Succ(l) : l \in L} \cup {Max(l, r) : l \in L, r \in L}
             \cup {IMax(l, r) : l \in L, r \in L}

MCParam == {"p", "q"}
MCLeaf == {Zero, Var("p"), Var("q")}
One == Over(MCLeaf)
MCDeep == Over(One)
DeepInP == Over(Over({Zero, Var("p")}))
MCPairs == (MCDeep \X One) \cup (One \X MCDeep) \cup (DeepInP \X DeepInP)
==============================================================================
