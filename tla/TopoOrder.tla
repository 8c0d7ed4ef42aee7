------------------------------ MODULE TopoOrder ------------------------------
(***************************************************************************)
(* The driver's post-order depth-first search over declaration units       *)
(* (`topo_order` of extract.rs), one action per iteration of its loops.    *)
(* The search keeps an explicit stack, so that a deep environment cannot   *)
(* exhaust the thread's, and skips the back edges of a cycle.              *)
(***************************************************************************)
EXTENDS Naturals, Sequences

CONSTANTS
  Unit,      \* declaration units: single constants and mutual blocks
  DepLists,  \* model bound: the dependency lists a unit may have
  RootLists  \* model bound: the lists of roots that are tried

ASSUME ListAssumption == DepLists \subseteq Seq(Unit) /\ RootLists \subseteq Seq(Unit)

VARIABLES
  unitDeps,  \* unitDeps[u]: the units that u's members mention
  roots,     \* units of the selected constants, or all units
  root,      \* position of the next root to try
  state,     \* per unit: 0 unvisited, 1 on the stack, 2 done
  stack,     \* pairs of a unit and the position of its next dependency
  order      \* the result

vars == <<unitDeps, roots, root, state, stack, order>>
graph == <<unitDeps, roots>>

RangeOf(s) == {s[i] : i \in 1 .. Len(s)}
Deps == [u \in Unit |-> RangeOf(unitDeps[u])]

------------------------------------------------------------------------------
\* A dependency list never names the unit itself or a unit twice.
IsDepList(u, d) == /\ \A i \in 1 .. Len(d) : d[i] # u
                   /\ \A i, j \in 1 .. Len(d) : d[i] = d[j] => i = j

Start == root = 1 /\ state = [u \in Unit |-> 0] /\ stack = <<>> /\ order = <<>>

Init == /\ unitDeps \in [Unit -> DepLists]
        /\ \A u \in Unit : IsDepList(u, unitDeps[u])
        /\ roots \in RootLists
        /\ Start

Top == stack[Len(stack)]
Pop(s) == SubSeq(s, 1, Len(s) - 1)

\* Mutant: `break` in place of `continue`.
SkipRootBreaks == /\ stack = <<>> /\ root <= Len(roots) /\ state[roots[root]] # 0
                  /\ root' = Len(roots) + 1
                  /\ UNCHANGED <<graph, state, stack, order>>

\* for &root in &roots: a root that was visited before is skipped.
SkipRoot == /\ stack = <<>> /\ root <= Len(roots) /\ state[roots[root]] # 0
            /\ root' = root + 1
            /\ UNCHANGED <<graph, state, stack, order>>

StartRoot == /\ stack = <<>> /\ root <= Len(roots) /\ state[roots[root]] = 0
             /\ stack' = <<<<roots[root], 1>>>>
             /\ state' = [state EXCEPT ![roots[root]] = 1]
             /\ root' = root + 1
             /\ UNCHANGED <<graph, order>>

\* The dependency the unit on top of the stack turns to, and the stack with
\* its position moved on.
HasChild == stack # <<>> /\ Top[2] <= Len(unitDeps[Top[1]])
Child == unitDeps[Top[1]][Top[2]]
Advanced == [stack EXCEPT ![Len(stack)] = <<Top[1], Top[2] + 1>>]

\* Mutant: the position does not move past a visited dependency.
SkipChildStays == HasChild /\ state[Child] # 0 /\ UNCHANGED vars

\* A dependency that is done, or on the stack (a back edge), is skipped.
SkipChild == /\ HasChild /\ state[Child] # 0
             /\ stack' = Advanced
             /\ UNCHANGED <<graph, root, state, order>>

Descend == /\ HasChild /\ state[Child] = 0
           /\ stack' = Append(Advanced, <<Child, 1>>)
           /\ state' = [state EXCEPT ![Child] = 1]
           /\ UNCHANGED <<graph, root, order>>

\* Mutants: the last dependency is never turned to; the mark of a finished unit
\* is taken back.
LeaveEarly == /\ stack # <<>> /\ Top[2] >= Len(unitDeps[Top[1]])
              /\ state' = [state EXCEPT ![Top[1]] = 2]
              /\ order' = Append(order, Top[1])
              /\ stack' = Pop(stack)
              /\ UNCHANGED <<graph, root>>

LeaveUnmarked == /\ stack # <<>> /\ Top[2] > Len(unitDeps[Top[1]])
                 /\ state' = [state EXCEPT ![Top[1]] = 0]
                 /\ order' = Append(order, Top[1])
                 /\ stack' = Pop(stack)
                 /\ UNCHANGED <<graph, root>>

\* All dependencies tried: the unit is done and next in the order.
Leave == /\ stack # <<>> /\ Top[2] > Len(unitDeps[Top[1]])
         /\ state' = [state EXCEPT ![Top[1]] = 2]
         /\ order' = Append(order, Top[1])
         /\ stack' = Pop(stack)
         /\ UNCHANGED <<graph, root>>

Next == SkipRoot \/ StartRoot \/ SkipChild \/ Descend \/ Leave

\* topo_order runs on one thread and is never interrupted.
Spec == Init /\ [][Next]_vars
FairSpec == Spec /\ WF_vars(Next)

Done == root > Len(roots) /\ stack = <<>>
------------------------------------------------------------------------------
(***************************************************************************)
(* Properties                                                              *)
(***************************************************************************)
TypeOK ==
  /\ unitDeps \in [Unit -> Seq(Unit)] /\ roots \in Seq(Unit)
  /\ root \in Nat \ {0} /\ root <= Len(roots) + 1
  /\ state \in [Unit -> 0 .. 2]
  /\ stack \in Seq(Unit \X (Nat \ {0}))
  /\ \A i \in 1 .. Len(stack) : stack[i][2] <= Len(unitDeps[stack[i][1]]) + 1
  /\ order \in Seq(Unit)

Sched == INSTANCE Schedule WITH deps <- Deps, wanted <- RangeOf(roots)

\* The visit state says where a unit is: on the stack, once, or in the order,
\* once, and never in both.
StateTellsPlace ==
  /\ \A u \in Unit : state[u] = 1 <=> \E i \in 1 .. Len(stack) : stack[i][1] = u
  /\ \A u \in Unit : state[u] = 2 <=> u \in RangeOf(order)
  /\ \A i, j \in 1 .. Len(stack) : stack[i][1] = stack[j][1] => i = j
  /\ \A i, j \in 1 .. Len(order) : order[i] = order[j] => i = j

\* If no two units need each other, every dependency of a submitted unit was
\* submitted before it.
Acyclic == \A u \in Unit : \A v \in Deps[u] : ~ Sched!Needs({v}, u)
DependenciesFirst ==
  Acyclic => \A i \in 1 .. Len(order) : \A v \in Deps[order[i]] :
               \E j \in 1 .. (i - 1) : order[j] = v

\* The finished order holds the roots and all their transitive dependencies,
\* and nothing else, whatever cycles there are.
Complete == Done => \A u \in Unit : u \in RangeOf(order) <=> Sched!Needs(RangeOf(roots), u)

\* The search implements Schedule.
ImplementsSchedule == Sched!Spec

\* The search ends on every graph.
Terminates == <>Done
==============================================================================
