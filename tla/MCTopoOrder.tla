---------------------------- MODULE MCTopoOrder ------------------------------
(***************************************************************************)
(* TopoOrder on all graphs of four units with at most two dependencies     *)
(* each (self-loops excepted, cycles and diamonds included), searched from *)
(* all units and from selections, one of them with a unit named twice.     *)
(***************************************************************************)
EXTENDS TopoOrder

MCUnit == 1 .. 4
MCDepLists == {<<>>} \cup {<<u>> : u \in MCUnit}
                     \cup {p \in MCUnit \X MCUnit : p[1] < p[2]}
MCRootLists == {<<1, 2, 3, 4>>, <<3, 1>>, <<2, 2>>}
==============================================================================
