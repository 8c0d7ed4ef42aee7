------------------------------ MODULE UnionFind ------------------------------
(***************************************************************************)
(* The union-find structure of union_find.rs.  A call pushes its two       *)
(* elements, climbs to the root of the first and compresses the path on    *)
(* the way back, does the same for the second, and then links the two      *)
(* roots (`union`) or compares them (`check_uf_eq`).  Each level of the    *)
(* recursion of `find_parent_idx` is a step of its own, so that every      *)
(* intermediate shape of the forest is a state.                            *)
(*                                                                         *)
(* An index of the source's IndexMap and the element stored there are one  *)
(* thing here: the map assigns an index once and never removes an entry.   *)
(* An element not yet pushed has the node its push would give it.          *)
(***************************************************************************)
EXTENDS Naturals, Sequences, FiniteSets

CONSTANT Elem

VARIABLES
  known,    \* elements in node_map
  parent,   \* parent[e]: the element at UFNode::parent
  rank,     \* rank[e]: UFNode::rank
  call,     \* the operation in progress, or Idle
  cur,      \* where the climb stands
  walk,     \* recursion stack: elements whose parent is to be set to the root
  root,     \* the root found for the first argument
  answer,   \* what the last finished check_uf_eq returned
  cls       \* history: cls[e] names the class `union` calls have put e in

node == <<known, parent, rank>>
vars == <<node, call, cur, walk, root, answer, cls>>

EC == INSTANCE EqCache WITH
        rel <- {p \in Elem \X Elem : cls[p[1]] = cls[p[2]]}

Idle == [op |-> "idle"]
Op(op, x, y, arg) == [op |-> op, x |-> x, y |-> y, arg |-> arg]
Calls == [op : {"union", "check"}, x : Elem, y : Elem, arg : {1, 2}]

\* The element whose root the call is looking for.
Target == IF call.arg = 1 THEN call.x ELSE call.y

IsRoot(e) == parent[e] = e

------------------------------------------------------------------------------
Init ==
  /\ known = {}
  /\ parent = [e \in Elem |-> e]
  /\ rank = [e \in Elem |-> 0]
  /\ call = Idle
  /\ cur \in Elem /\ root = cur
  /\ walk = <<>>
  /\ answer = EC!NoAnswer
  /\ cls = [e \in Elem |-> e]

\* union(x, y) or check_uf_eq(x, y) is entered: get_or_push on both elements,
\* then find_parent_idx on the first.
Start(op, x, y) ==
  /\ call = Idle
  /\ known' = known \cup {x, y}
  /\ call' = Op(op, x, y, 1)
  /\ cur' = x
  /\ answer' = EC!NoAnswer
  /\ UNCHANGED <<parent, rank, walk, root, cls>>

\* find_parent_idx recurses on the parent.
Climb ==
  /\ call # Idle
  /\ ~ IsRoot(cur)
  /\ walk' = Append(walk, cur)
  /\ cur' = parent[cur]
  /\ UNCHANGED <<node, call, root, answer, cls>>

\* Mutant: the same level of the recursion returns again and again.
CompressKeepsWalk ==
  /\ call # Idle /\ IsRoot(cur) /\ walk # <<>>
  /\ parent' = [parent EXCEPT ![walk[Len(walk)]] = cur]
  /\ UNCHANGED <<known, rank, walk, call, cur, root, answer, cls>>

\* A level of find_parent_idx returns: its element's parent becomes the root.
Compress ==
  /\ call # Idle
  /\ IsRoot(cur)
  /\ walk # <<>>
  /\ parent' = [parent EXCEPT ![walk[Len(walk)]] = cur]
  /\ walk' = SubSeq(walk, 1, Len(walk) - 1)
  /\ UNCHANGED <<known, rank, call, cur, root, answer, cls>>

AtRoot(arg) == call # Idle /\ call.arg = arg /\ IsRoot(cur) /\ walk = <<>>

\* The root of the first argument is known: find_parent_idx on the second.
FindSecond ==
  /\ AtRoot(1)
  /\ root' = cur
  /\ call' = [call EXCEPT !.arg = 2]
  /\ cur' = call.y
  /\ UNCHANGED <<node, walk, answer, cls>>

\* Mutants: the first root always goes under the second; the rank of the
\* winner always grows; roots of the same rank are not linked.
LinkRootsAnyRank(xr, yr) ==
  IF xr = yr THEN UNCHANGED <<parent, rank>>
  ELSE /\ parent' = [parent EXCEPT ![xr] = yr]
       /\ rank' = IF rank[xr] = rank[yr] THEN [rank EXCEPT ![yr] = @ + 1] ELSE rank

LinkRootsAlwaysRaises(xr, yr) ==
  IF xr = yr THEN UNCHANGED <<parent, rank>>
  ELSE /\ parent' = IF rank[yr] < rank[xr] THEN [parent EXCEPT ![yr] = xr]
                                           ELSE [parent EXCEPT ![xr] = yr]
       /\ rank' = [rank EXCEPT ![IF rank[yr] < rank[xr] THEN xr ELSE yr] = @ + 1]

LinkRootsUnlessLevel(xr, yr) ==
  IF xr = yr \/ rank[xr] = rank[yr] THEN UNCHANGED <<parent, rank>>
  ELSE /\ parent' = IF rank[yr] < rank[xr] THEN [parent EXCEPT ![yr] = xr]
                                           ELSE [parent EXCEPT ![xr] = yr]
       /\ rank' = rank

\* link_roots(xr, yr): the root of lower rank goes under the other, x's under
\* y's when they are level, and then y's rank grows.
LinkRoots(xr, yr) ==
  IF xr = yr THEN UNCHANGED <<parent, rank>>
  ELSE /\ parent' = IF rank[yr] < rank[xr] THEN [parent EXCEPT ![yr] = xr]
                                           ELSE [parent EXCEPT ![xr] = yr]
       /\ rank' = IF rank[xr] = rank[yr] THEN [rank EXCEPT ![yr] = @ + 1] ELSE rank

\* Mutant: the argument is linked and not its root.
UnionOfArgument ==
  /\ AtRoot(2) /\ call.op = "union"
  /\ LinkRoots(call.x, cur)
  /\ cls' = [e \in Elem |-> IF cls[e] = cls[call.x] THEN cls[call.y] ELSE cls[e]]
  /\ call' = Idle
  /\ UNCHANGED <<known, cur, walk, root, answer>>

Union ==
  /\ AtRoot(2) /\ call.op = "union"
  /\ LinkRoots(root, cur)
  /\ cls' = [e \in Elem |-> IF cls[e] = cls[call.x] THEN cls[call.y] ELSE cls[e]]
  /\ call' = Idle
  /\ UNCHANGED <<known, cur, walk, root, answer>>

CheckUfEq ==
  /\ AtRoot(2) /\ call.op = "check"
  /\ answer' = EC!Answer(call.x, call.y, root = cur)
  /\ call' = Idle
  /\ UNCHANGED <<node, cur, walk, root, cls>>

\* TcCache::clear empties the map between two calls.
Clear ==
  /\ call = Idle
  /\ known' = {}
  /\ parent' = [e \in Elem |-> e]
  /\ rank' = [e \in Elem |-> 0]
  /\ cls' = [e \in Elem |-> e]
  /\ answer' = EC!NoAnswer
  /\ UNCHANGED <<call, cur, walk, root>>

Resume == Climb \/ Compress \/ FindSecond \/ Union \/ CheckUfEq

Next ==
  \/ \E op \in {"union", "check"}, x, y \in Elem : Start(op, x, y)
  \/ Resume
  \/ Clear

\* A call runs on the thread that made it and is never abandoned half way.
Spec == Init /\ [][Next]_vars /\ WF_vars(Resume)
------------------------------------------------------------------------------
(***************************************************************************)
(* Properties                                                              *)
(***************************************************************************)
TypeOK ==
  /\ known \in SUBSET Elem
  /\ parent \in [Elem -> Elem]
  /\ rank \in [Elem -> Nat]
  /\ call \in Calls \cup {Idle}
  /\ cur \in Elem /\ root \in Elem
  /\ walk \in Seq(Elem)
  /\ cls \in [Elem -> Elem]

\* The forest never leaves a class: a parent is in its child's class.
SameClass == \A e \in Elem : cls[parent[e]] = cls[e]

\* Two roots are never in one class: if they were, check_uf_eq would answer
\* "not known to be equal" for a pair that was united.
OneRoot == \A e, f \in Elem : IsRoot(e) /\ IsRoot(f) /\ cls[e] = cls[f] => e = f

\* Rank grows along every parent link, so the forest has no cycle and
\* find_parent_idx returns.
RankClimbs == \A e \in Elem : ~ IsRoot(e) => rank[e] < rank[parent[e]]

\* The stack of a climb in progress: pushed elements, not roots, of the class
\* looked for, all below the point reached.
WalkOK ==
  /\ call = Idle => walk = <<>>
  /\ call # Idle =>
       /\ cls[cur] = cls[Target]
       /\ \A i \in 1 .. Len(walk) :
            /\ ~ IsRoot(walk[i])
            /\ cls[walk[i]] = cls[cur]
            /\ rank[walk[i]] < rank[cur]
       /\ call.arg = 2 => IsRoot(root) /\ cls[root] = cls[call.x]

\* The unwraps of find_parent_idx and link_roots never fail: every element
\* that a link or a call in progress points to has been pushed.
Pushed ==
  /\ \A e \in Elem : ~ IsRoot(e) => e \in known /\ parent[e] \in known
  /\ call # Idle => /\ call.x \in known /\ call.y \in known /\ cur \in known
                    /\ call.arg = 2 => root \in known

Forest == SameClass /\ OneRoot /\ RankClimbs /\ WalkOK /\ Pushed

\* check_uf_eq answers TRUE exactly for the pairs that the union calls since
\* the last clear force to be equal (and a call in progress has no answer).
AnswerRight ==
  /\ call # Idle => answer = EC!NoAnswer
  /\ answer.kind = "answer" => (answer.eq <=> cls[answer.x] = cls[answer.y])

\* The relation read off the forest itself, by following parents, is the one
\* the union calls built, at every step of a climb or a compression.
RootOf[e \in Elem] == IF IsRoot(e) THEN e ELSE RootOf[parent[e]]

ForestIsPartition ==
  \A e, f \in Elem : RootOf[e] = RootOf[f] <=> cls[e] = cls[f]

ClassOf(e) == {f \in Elem : cls[f] = cls[e]}

\* Union by rank: a root of rank k stands on a class of at least 2^k elements,
\* so a climb is at most log2 of the class long.
RankBound == \A e \in Elem : IsRoot(e) => Cardinality(ClassOf(e)) >= 2 ^ rank[e]

\* The implementation of the cache is the cache def_eq relies on.
ImplementsEqCache == EC!Spec

\* Every call returns.
CallReturns == call # Idle ~> call = Idle
==============================================================================
