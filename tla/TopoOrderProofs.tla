-------------------------- MODULE TopoOrderProofs ----------------------------
(***************************************************************************)
(* Theorems about the driver's depth-first search, for any set of units    *)
(* and any graph: it implements Schedule, dependencies come first when     *)
(* there is no cycle, and the finished order is exactly what the roots     *)
(* need.                                                                   *)
(***************************************************************************)
EXTENDS TopoOrder, FiniteSetTheorems, SequenceTheorems, TLAPS

\* The strengthening.  A unit on the stack needs every unit above it; the
\* dependencies a unit has turned to were visited; a unit in the order had
\* each dependency submitted before it or needed by that dependency; every
\* unit visited is one that the roots need; and the roots tried were visited.
Chain == \A i, j \in 1 .. Len(stack) :
           i <= j => Sched!Needs({stack[i][1]}, stack[j][1])

Scanned == \A i \in 1 .. Len(stack) : \A k \in 1 .. stack[i][2] - 1 :
             state[unitDeps[stack[i][1]][k]] # 0

Settled == \A i \in 1 .. Len(order) : \A v \in Deps[order[i]] :
             /\ state[v] # 0
             /\ \/ \E j \in 1 .. (i - 1) : order[j] = v
                \/ Sched!Needs({v}, order[i])

Wanted == \A u \in Unit : state[u] # 0 => Sched!Needs(RangeOf(roots), u)

Tried == \A i \in 1 .. root - 1 : state[roots[i]] # 0

Inv == TypeOK /\ StateTellsPlace /\ Chain /\ Scanned /\ Settled /\ Wanted /\ Tried

------------------------------------------------------------------------------
\* A unit is among the units it needs, and so are their dependencies.
LEMMA NeedsRoot ==
  ASSUME NEW W \in SUBSET Unit, NEW u \in W
  PROVE  Sched!Needs(W, u)
BY DEF Sched!Needs

\* What needs a unit needs the dependencies of that unit.
LEMMA NeedsDep ==
  ASSUME NEW W \in SUBSET Unit, NEW u \in Unit, NEW v \in Deps[u], Sched!Needs(W, u)
  PROVE  Sched!Needs(W, v)
BY DEF Sched!Needs, Sched!Closed

\* Needing is transitive.
LEMMA NeedsTrans ==
  ASSUME NEW W \in SUBSET Unit, NEW u, NEW v, Sched!Needs(W, u), Sched!Needs({u}, v)
  PROVE  Sched!Needs(W, v)
BY DEF Sched!Needs, Sched!Closed

\* A step that leaves the graph alone leaves alone what needs what.
LEMMA NeedsFrame ==
  ASSUME UNCHANGED unitDeps
  PROVE  /\ Deps' = Deps
         /\ \A W, v : Sched!Needs(W, v)' <=> Sched!Needs(W, v)
<1>1. Deps' = Deps
  BY DEF Deps, RangeOf
<1>2. QED
  BY <1>1 DEF Sched!Needs, Sched!Closed

\* What the dependencies of a unit are.
LEMMA DepsAreListed ==
  ASSUME TypeOK, NEW u \in Unit
  PROVE  /\ Len(unitDeps[u]) \in Nat
         /\ Deps[u] = {unitDeps[u][k] : k \in 1 .. Len(unitDeps[u])}
         /\ Deps[u] \subseteq Unit
         /\ \A k \in 1 .. Len(unitDeps[u]) : unitDeps[u][k] \in Deps[u] /\ unitDeps[u][k] \in Unit
<1>1. unitDeps[u] \in Seq(Unit)
  BY DEF TypeOK
<1>2. Len(unitDeps[u]) \in Nat
  BY <1>1, LenProperties
<1>3. \A k \in 1 .. Len(unitDeps[u]) : unitDeps[u][k] \in Unit
  BY <1>1, ElementOfSeq
<1>4. QED
  BY <1>2, <1>3 DEF Deps, RangeOf

\* The roots, the order's entries and the dependencies are units.
LEMMA AllUnits ==
  ASSUME TypeOK
  PROVE  /\ Len(order) \in Nat /\ Len(roots) \in Nat
         /\ \A i \in 1 .. Len(order) : order[i] \in Unit /\ Deps[order[i]] \subseteq Unit
         /\ \A i \in 1 .. Len(roots) : roots[i] \in Unit
         /\ RangeOf(roots) \in SUBSET Unit
<1>1. Len(order) \in Nat /\ Len(roots) \in Nat
  BY LenProperties DEF TypeOK
<1>2. \A i \in 1 .. Len(order) : order[i] \in Unit
  BY ElementOfSeq DEF TypeOK
<1>3. \A i \in 1 .. Len(roots) : roots[i] \in Unit
  BY ElementOfSeq DEF TypeOK
<1>4. QED
  BY <1>1, <1>2, <1>3, DepsAreListed DEF RangeOf

\* The entries of the stack, and the one on top.
LEMMA StackEntries ==
  ASSUME TypeOK
  PROVE  /\ Len(stack) \in Nat
         /\ \A i \in 1 .. Len(stack) :
              /\ stack[i][1] \in Unit /\ stack[i][2] \in Nat \ {0}
              /\ stack[i] = <<stack[i][1], stack[i][2]>>
         /\ stack # <<>> => Len(stack) # 0
         /\ stack = <<>> => Len(stack) = 0
<1>1. stack \in Seq(Unit \X (Nat \ {0}))
  BY DEF TypeOK
<1>2. Len(stack) \in Nat /\ (stack # <<>> => Len(stack) # 0)
  BY <1>1, LenProperties, EmptySeq
<1>3. \A i \in 1 .. Len(stack) : stack[i] \in Unit \X (Nat \ {0})
  BY <1>1, ElementOfSeq
<1>4. stack = <<>> => Len(stack) = 0
  BY EmptySeq
<1>5. QED
  BY <1>2, <1>3, <1>4

\* What the unit on top turns to, and the stack with its position moved on.
LEMMA AdvanceEffect ==
  ASSUME TypeOK, HasChild
  PROVE  /\ Len(stack) \in Nat \ {0}
         /\ Top[1] \in Unit /\ Top[2] \in 1 .. Len(unitDeps[Top[1]])
         /\ Child \in Unit /\ Child \in Deps[Top[1]]
         /\ Advanced \in Seq(Unit \X (Nat \ {0}))
         /\ Len(Advanced) = Len(stack)
         /\ \A i \in 1 .. Len(stack) :
              Advanced[i] = IF i = Len(stack) THEN <<Top[1], Top[2] + 1>> ELSE stack[i]
         /\ \A i \in 1 .. Len(stack) :
              /\ Advanced[i][1] = stack[i][1]
              /\ Advanced[i][2] <= Len(unitDeps[Advanced[i][1]]) + 1
<1> DEFINE n == Len(stack)
           e == <<Top[1], Top[2] + 1>>
<1>1. n \in Nat \ {0} /\ n \in 1 .. n
  BY StackEntries DEF HasChild
<1>2. Top[1] \in Unit /\ Top[2] \in Nat \ {0} /\ Top = stack[n]
  BY <1>1, StackEntries DEF Top
<1>3. Top[2] \in 1 .. Len(unitDeps[Top[1]])
  BY <1>2, DepsAreListed DEF HasChild
<1>4. Child \in Unit /\ Child \in Deps[Top[1]]
  BY <1>2, <1>3, DepsAreListed DEF Child
<1>5. stack \in Seq(Unit \X (Nat \ {0})) /\ e \in Unit \X (Nat \ {0})
  BY <1>2 DEF TypeOK
<1>6. /\ [stack EXCEPT ![n] = e] \in Seq(Unit \X (Nat \ {0}))
      /\ Len([stack EXCEPT ![n] = e]) = n
      /\ \A i \in 1 .. n : [stack EXCEPT ![n] = e][i] = IF i = n THEN e ELSE stack[i]
  BY <1>1, <1>5, ExceptSeq
<1>7. Advanced = [stack EXCEPT ![n] = e]
  BY DEF Advanced
<1>8. \A i \in 1 .. n : Advanced[i][1] = stack[i][1]
  BY <1>2, <1>6, <1>7
<1>9. \A i \in 1 .. n : Advanced[i][2] <= Len(unitDeps[Advanced[i][1]]) + 1
  <2> SUFFICES ASSUME NEW i \in 1 .. n
               PROVE  Advanced[i][2] <= Len(unitDeps[Advanced[i][1]]) + 1
    OBVIOUS
  <2>1. CASE i = n
    <3>1. Advanced[i] = e /\ Len(unitDeps[Top[1]]) \in Nat
      BY <1>2, <1>6, <1>7, <2>1, DepsAreListed
    <3>2. Advanced[i][2] = Top[2] + 1 /\ Advanced[i][1] = Top[1]
      BY <3>1
    <3>3. QED
      BY <1>3, <3>1, <3>2
  <2>2. CASE i # n
    <3>1. Advanced[i] = stack[i]
      BY <1>6, <1>7, <2>2
    <3>2. QED
      BY <3>1 DEF TypeOK
  <2>3. QED
    BY <2>1, <2>2
<1>10. QED
  BY <1>1, <1>2, <1>3, <1>4, <1>6, <1>7, <1>8, <1>9

\* Popping the stack leaves the entries below the top where they are.
LEMMA PopEffect ==
  ASSUME TypeOK, stack # <<>>
  PROVE  /\ Pop(stack) \in Seq(Unit \X (Nat \ {0}))
         /\ Len(Pop(stack)) = Len(stack) - 1
         /\ \A i \in 1 .. Len(stack) - 1 : Pop(stack)[i] = stack[i]
         /\ Len(stack) \in Nat \ {0} /\ Top = stack[Len(stack)]
         /\ Top[1] \in Unit /\ Top[2] \in Nat \ {0}
<1> DEFINE n == Len(stack)
<1>1. n \in Nat \ {0} /\ n \in 1 .. n
  BY StackEntries
<1>2. \A i \in 1 .. n - 1 : stack[i] \in Unit \X (Nat \ {0})
  BY <1>1, ElementOfSeq DEF TypeOK
<1>3. 1 \in Int /\ n - 1 \in Int
  BY <1>1
<1>4. /\ SubSeq(stack, 1, n - 1) \in Seq(Unit \X (Nat \ {0}))
      /\ Len(SubSeq(stack, 1, n - 1)) = IF 1 <= n - 1 THEN (n - 1) - 1 + 1 ELSE 0
      /\ \A i \in 1 .. (n - 1) - 1 + 1 : SubSeq(stack, 1, n - 1)[i] = stack[1 + i - 1]
  BY <1>2, <1>3, SubSeqProperties
<1>5. Pop(stack) = SubSeq(stack, 1, n - 1) /\ Top = stack[n]
  BY DEF Pop, Top
<1>6. \A i \in 1 .. n - 1 : i \in 1 .. (n - 1) - 1 + 1 /\ 1 + i - 1 = i
  BY <1>1
<1> HIDE DEF n
<1>7. Len(Pop(stack)) = n - 1 /\ \A i \in 1 .. n - 1 : Pop(stack)[i] = stack[i]
  BY <1>1, <1>4, <1>5, <1>6
<1>8. Top[1] \in Unit /\ Top[2] \in Nat \ {0}
  BY <1>1, <1>5, StackEntries DEF n
<1>9. QED
  BY <1>1, <1>4, <1>5, <1>7, <1>8 DEF n

\* The position moves past a dependency that is visited now.
LEMMA AdvanceScanned ==
  ASSUME Inv, HasChild, NEW st,
         \A u \in Unit : state[u] # 0 => st[u] # 0, st[Child] # 0
  PROVE  \A i \in 1 .. Len(stack) : \A k \in 1 .. Advanced[i][2] - 1 :
           st[unitDeps[Advanced[i][1]][k]] # 0
<1> DEFINE n == Len(stack)
<1>1. /\ n \in Nat \ {0} /\ n \in 1 .. n
      /\ Top[1] \in Unit /\ Top[2] \in 1 .. Len(unitDeps[Top[1]])
      /\ \A i \in 1 .. n : Advanced[i] = IF i = n THEN <<Top[1], Top[2] + 1>> ELSE stack[i]
  <2>1. TypeOK
    BY DEF Inv
  <2>2. /\ n \in Nat \ {0} /\ Top[1] \in Unit /\ Top[2] \in 1 .. Len(unitDeps[Top[1]])
        /\ \A i \in 1 .. n : Advanced[i] = IF i = n THEN <<Top[1], Top[2] + 1>> ELSE stack[i]
    BY <2>1, AdvanceEffect
  <2>3. QED
    BY <2>2
<1>2. Top = stack[n] /\ Child = unitDeps[Top[1]][Top[2]]
  BY DEF Top, Child
<1>3. ASSUME NEW i \in 1 .. n, NEW k \in 1 .. stack[i][2] - 1
      PROVE  st[unitDeps[stack[i][1]][k]] # 0
  <2>1. stack[i][1] \in Unit /\ stack[i][2] \in Nat \ {0}
    BY StackEntries DEF Inv
  <2>2. k \in 1 .. Len(unitDeps[stack[i][1]])
    <3>1. Len(unitDeps[stack[i][1]]) \in Nat
      BY <2>1, DepsAreListed DEF Inv
    <3>2. stack[i][2] <= Len(unitDeps[stack[i][1]]) + 1
      BY DEF Inv, TypeOK
    <3>3. QED
      BY <2>1, <3>1, <3>2
  <2>3. unitDeps[stack[i][1]][k] \in Unit
    BY <2>1, <2>2, DepsAreListed DEF Inv
  <2>4. QED
    BY <2>3 DEF Inv, Scanned
<1> HIDE DEF n
<1> SUFFICES ASSUME NEW i \in 1 .. n, NEW k \in 1 .. Advanced[i][2] - 1
             PROVE  st[unitDeps[Advanced[i][1]][k]] # 0
  BY DEF n
<1>4. CASE i = n
  <2>1. Advanced[i] = <<Top[1], Top[2] + 1>>
    BY <1>1, <1>4
  <2>2. Advanced[i][1] = Top[1] /\ Advanced[i][2] = Top[2] + 1
    BY <2>1
  <2>3. k \in 1 .. Top[2] - 1 \/ k = Top[2]
    BY <1>1, <2>2
  <2>4. CASE k \in 1 .. Top[2] - 1
    BY <1>1, <1>2, <1>3, <2>2, <2>4
  <2>5. CASE k = Top[2]
    BY <1>2, <2>2, <2>5
  <2>6. QED
    BY <2>3, <2>4, <2>5
<1>5. CASE i # n
  <2>1. Advanced[i] = stack[i]
    BY <1>1, <1>5
  <2>2. QED
    BY <1>3, <2>1
<1>6. QED
  BY <1>4, <1>5

\* Marking one unit keeps the marks in range.
LEMMA MarkType ==
  ASSUME NEW f \in [Unit -> 0 .. 2], NEW u, NEW mark \in 0 .. 2
  PROVE  [f EXCEPT ![u] = mark] \in [Unit -> 0 .. 2]
OBVIOUS

------------------------------------------------------------------------------
(***************************************************************************)
(* The invariant is inductive                                              *)
(***************************************************************************)
\* The initial state: nothing visited.
LEMMA InitInv == Init => Inv
<1> SUFFICES ASSUME Init PROVE Inv
  OBVIOUS
<1>1. unitDeps \in [Unit -> Seq(Unit)] /\ roots \in Seq(Unit)
  BY ListAssumption DEF Init
<1>2. Len(roots) \in Nat
  BY <1>1, LenProperties
<1>3. stack = <<>> /\ Len(stack) = 0 /\ order = <<>> /\ Len(order) = 0
  BY EmptySeq DEF Init, Start
<1>4. TypeOK
  BY <1>1, <1>2, <1>3, EmptySeq DEF Init, Start, TypeOK
<1>5. StateTellsPlace /\ Chain /\ Scanned /\ Settled /\ Wanted /\ Tried
  BY <1>3 DEF Init, Start, StateTellsPlace, RangeOf, Chain, Scanned, Settled, Wanted, Tried
<1>6. QED
  BY <1>4, <1>5 DEF Inv

\* A root that was visited is passed over.
LEMMA SkipRootKeepsInv == Inv /\ SkipRoot => Inv'
<1> SUFFICES ASSUME Inv, SkipRoot PROVE Inv'
  OBVIOUS
<1>1. /\ UNCHANGED <<unitDeps, roots, state, stack, order>>
      /\ root' = root + 1 /\ root <= Len(roots) /\ state[roots[root]] # 0
  BY DEF SkipRoot, graph
<1>2. Deps' = Deps /\ \A W, v : Sched!Needs(W, v)' <=> Sched!Needs(W, v)
  BY <1>1, NeedsFrame
<1>3. Len(roots) \in Nat /\ root \in Nat \ {0}
  BY LenProperties DEF Inv, TypeOK
<1>4. TypeOK'
  BY <1>1, <1>3 DEF Inv, TypeOK
<1>5. StateTellsPlace' /\ Scanned'
  BY <1>1 DEF Inv, StateTellsPlace, Scanned, RangeOf
<1>6. Chain' /\ Settled' /\ Wanted'
  BY <1>1, <1>2 DEF Inv, Chain, Settled, Wanted, RangeOf
<1>7. Tried'
  BY <1>1, <1>3 DEF Inv, Tried
<1>8. QED
  BY <1>4, <1>5, <1>6, <1>7 DEF Inv

\* An unvisited root becomes the bottom of the stack.
LEMMA StartRootKeepsInv == Inv /\ StartRoot => Inv'
<1> SUFFICES ASSUME Inv, StartRoot PROVE Inv'
  OBVIOUS
<1> DEFINE r == roots[root]
<1>1. /\ UNCHANGED <<unitDeps, roots, order>> /\ stack = <<>> /\ stack' = <<<<r, 1>>>>
      /\ root' = root + 1 /\ root <= Len(roots) /\ state[r] = 0
      /\ state' = [state EXCEPT ![r] = 1]
  BY DEF StartRoot, graph
<1>2. Deps' = Deps /\ \A W, v : Sched!Needs(W, v)' <=> Sched!Needs(W, v)
  BY <1>1, NeedsFrame
<1>3. Len(roots) \in Nat /\ root \in Nat \ {0} /\ root \in 1 .. Len(roots)
  BY <1>1, LenProperties DEF Inv, TypeOK
<1>4. r \in Unit /\ r \in RangeOf(roots)
  BY <1>3, ElementOfSeq DEF Inv, TypeOK, RangeOf
<1>5. /\ stack' \in Seq(Unit \X (Nat \ {0})) /\ Len(stack') = 1
      /\ stack'[1] = <<r, 1>> /\ stack'[1][1] = r /\ stack'[1][2] = 1
  BY <1>1, <1>4
<1>6. state \in [Unit -> 0 .. 2] /\ state' \in [Unit -> 0 .. 2]
  BY <1>1 DEF Inv, TypeOK
<1>7. state'[r] = 1 /\ \A u \in Unit : u # r => state'[u] = state[u]
  BY <1>1, <1>4, <1>6
<1>8. \A u \in Unit : state[u] # 1
  BY <1>1, StackEntries DEF Inv, StateTellsPlace
<1>9. TypeOK'
  <2>1. \A i \in 1 .. Len(stack') : stack'[i][2] <= Len(unitDeps'[stack'[i][1]]) + 1
    BY <1>1, <1>4, <1>5, DepsAreListed DEF Inv
  <2>2. QED
    BY <1>1, <1>3, <1>5, <1>6, <2>1 DEF Inv, TypeOK
<1>10. StateTellsPlace'
  <2>1. \A u \in Unit : state'[u] = 1 <=> u = r
    BY <1>7, <1>8
  <2>2. \A u \in Unit : state'[u] = 2 <=> state[u] = 2
    BY <1>1, <1>7
  <2>3. QED
    BY <1>1, <1>5, <2>1, <2>2 DEF Inv, StateTellsPlace, RangeOf
<1>11. Chain'
  BY <1>2, <1>4, <1>5, NeedsRoot DEF Chain
<1>12. Scanned'
  BY <1>5 DEF Scanned
<1>13. Settled'
  <2> SUFFICES ASSUME NEW i \in 1 .. Len(order), NEW v \in Deps[order[i]]
               PROVE  /\ state'[v] # 0
                      /\ (\E j \in 1 .. (i - 1) : order[j] = v) \/ Sched!Needs({v}, order[i])
    BY <1>1, <1>2 DEF Settled
  <2>1. /\ state[v] # 0
        /\ (\E j \in 1 .. (i - 1) : order[j] = v) \/ Sched!Needs({v}, order[i])
    BY DEF Inv, Settled
  <2>2. v \in Unit
    BY AllUnits DEF Inv
  <2>3. QED
    BY <1>6, <1>7, <2>1, <2>2
<1>14. Wanted'
  <2>1. Sched!Needs(RangeOf(roots), r)
    BY <1>4, NeedsRoot, AllUnits DEF Inv
  <2>2. QED
    BY <1>1, <1>2, <1>7, <2>1 DEF Inv, Wanted, RangeOf
<1>15. Tried'
  <2>1. \A i \in 1 .. root : state'[roots[i]] # 0
    <3>1. \A i \in 1 .. root : roots[i] \in Unit
      BY <1>3, ElementOfSeq DEF Inv, TypeOK
    <3>2. QED
      BY <1>3, <1>7, <3>1 DEF Inv, Tried
  <2>2. QED
    BY <1>1, <1>3, <2>1 DEF Tried
<1>16. QED
  BY <1>9, <1>10, <1>11, <1>12, <1>13, <1>14, <1>15 DEF Inv

\* A dependency that was visited is passed over.
LEMMA SkipChildKeepsInv == Inv /\ SkipChild => Inv'
<1> SUFFICES ASSUME Inv, SkipChild PROVE Inv'
  OBVIOUS
<1> DEFINE n == Len(stack)
<1>1. /\ UNCHANGED <<unitDeps, roots, root, state, order>>
      /\ HasChild /\ state[Child] # 0 /\ stack' = Advanced
  BY DEF SkipChild, graph
<1>2. Deps' = Deps /\ \A W, v : Sched!Needs(W, v)' <=> Sched!Needs(W, v)
  BY <1>1, NeedsFrame
<1>3. /\ stack' \in Seq(Unit \X (Nat \ {0})) /\ Len(stack') = n
      /\ \A i \in 1 .. n : /\ stack'[i][1] = stack[i][1]
                           /\ stack'[i][2] <= Len(unitDeps[stack'[i][1]]) + 1
  BY <1>1, AdvanceEffect DEF Inv
<1>4. \A i \in 1 .. n : \A k \in 1 .. stack'[i][2] - 1 : state[unitDeps[stack'[i][1]][k]] # 0
  BY <1>1, AdvanceScanned
<1>5. TypeOK'
  BY <1>1, <1>3 DEF Inv, TypeOK
<1>6. StateTellsPlace'
  <2>1. \A u \in Unit : (\E i \in 1 .. n : stack'[i][1] = u) <=> \E i \in 1 .. n : stack[i][1] = u
    BY <1>3
  <2>2. \A i, j \in 1 .. n : stack'[i][1] = stack'[j][1] => stack[i][1] = stack[j][1]
    BY <1>3
  <2>3. QED
    BY <1>1, <1>3, <2>1, <2>2 DEF Inv, StateTellsPlace, RangeOf
<1>7. Chain'
  BY <1>2, <1>3 DEF Inv, Chain
<1>8. Scanned'
  BY <1>1, <1>3, <1>4 DEF Scanned
<1>9. Settled' /\ Wanted' /\ Tried'
  BY <1>1, <1>2 DEF Inv, Settled, Wanted, Tried, RangeOf
<1>10. QED
  BY <1>5, <1>6, <1>7, <1>8, <1>9 DEF Inv

\* An unvisited dependency goes on top of the stack.
LEMMA DescendKeepsInv == Inv /\ Descend => Inv'
<1> SUFFICES ASSUME Inv, Descend PROVE Inv'
  OBVIOUS
<1> DEFINE n == Len(stack)
           c == Child
<1>1. /\ UNCHANGED <<unitDeps, roots, root, order>>
      /\ HasChild /\ state[c] = 0 /\ stack' = Append(Advanced, <<c, 1>>)
      /\ state' = [state EXCEPT ![c] = 1]
  BY DEF Descend, graph
<1>2. Deps' = Deps /\ \A W, v : Sched!Needs(W, v)' <=> Sched!Needs(W, v)
  BY <1>1, NeedsFrame
<1>3. /\ n \in Nat \ {0}
      /\ Top[1] \in Unit /\ Top[2] \in 1 .. Len(unitDeps[Top[1]])
      /\ c \in Unit /\ c \in Deps[Top[1]]
      /\ Advanced \in Seq(Unit \X (Nat \ {0})) /\ Len(Advanced) = n
      /\ \A i \in 1 .. n : /\ Advanced[i][1] = stack[i][1]
                           /\ Advanced[i][2] <= Len(unitDeps[Advanced[i][1]]) + 1
  BY <1>1, AdvanceEffect DEF Inv
<1>4. /\ stack' \in Seq(Unit \X (Nat \ {0})) /\ Len(stack') = n + 1
      /\ \A i \in 1 .. n : stack'[i] = Advanced[i] /\ stack'[i][1] = stack[i][1]
      /\ stack'[n + 1] = <<c, 1>> /\ stack'[n + 1][1] = c /\ stack'[n + 1][2] = 1
  <2>1. <<c, 1>> \in Unit \X (Nat \ {0})
    BY <1>3
  <2>2. /\ stack' \in Seq(Unit \X (Nat \ {0})) /\ Len(stack') = Len(Advanced) + 1
        /\ \A i \in 1 .. Len(Advanced) : stack'[i] = Advanced[i]
        /\ stack'[Len(Advanced) + 1] = <<c, 1>>
    BY <1>1, <1>3, <2>1, AppendProperties
  <2>3. QED
    BY <1>3, <2>2
<1>5. state \in [Unit -> 0 .. 2] /\ state' \in [Unit -> 0 .. 2]
  <2>1. state \in [Unit -> 0 .. 2]
    BY DEF Inv, TypeOK
  <2>2. state' = [state EXCEPT ![c] = 1] /\ 1 \in 0 .. 2
    BY <1>1
  <2>3. QED
    BY <2>1, <2>2, MarkType
<1>6. state'[c] = 1 /\ \A u \in Unit : u # c => state'[u] = state[u]
  BY <1>1, <1>3, <1>5
<1>7. \A u \in Unit : state[u] # 0 => state'[u] # 0
  BY <1>6
<1>8. \A i \in 1 .. n : stack[i][1] \in Unit
  BY StackEntries DEF Inv
<1>16. n \in 1 .. n /\ \A i \in 1 .. n + 1 : i \in 1 .. n \/ i = n + 1
  BY <1>3
<1>17. /\ \A i \in 1 .. n : stack'[i][1] = stack[i][1]
       /\ stack'[n + 1][1] = c /\ n + 1 \in 1 .. n + 1
       /\ \A i \in 1 .. n : i \in 1 .. n + 1 /\ i # n + 1
  BY <1>3, <1>4
<1>18. Top = stack[n]
  BY DEF Top
<1>9. TypeOK'
  <2>1. \A i \in 1 .. n + 1 : stack'[i][2] <= Len(unitDeps[stack'[i][1]]) + 1
    <3>1. Len(unitDeps[c]) \in Nat
      BY <1>3, DepsAreListed DEF Inv
    <3>2. stack'[n + 1][2] <= Len(unitDeps[stack'[n + 1][1]]) + 1
      BY <1>4, <3>1
    <3>3. \A i \in 1 .. n : stack'[i][2] <= Len(unitDeps[stack'[i][1]]) + 1
      BY <1>3, <1>4
    <3>4. QED
      BY <1>16, <3>2, <3>3
  <2>2. QED
    BY <1>1, <1>4, <1>5, <2>1 DEF Inv, TypeOK
<1>10. StateTellsPlace'
  <2>1. \A i \in 1 .. n : stack'[i][1] # c
    <3>1. state[c] # 1
      BY <1>1
    <3>2. \A i \in 1 .. n : stack[i][1] # c
      BY <1>3, <3>1 DEF Inv, StateTellsPlace
    <3>3. QED
      BY <1>17, <3>2
  <2>2. \A u \in Unit : state'[u] = 1 <=> \E i \in 1 .. n + 1 : stack'[i][1] = u
    <3>1. state'[c] = 1 /\ \E i \in 1 .. n + 1 : stack'[i][1] = c
      BY <1>6, <1>17
    <3>2. ASSUME NEW u \in Unit, u # c
          PROVE  state'[u] = 1 <=> \E i \in 1 .. n + 1 : stack'[i][1] = u
      <4>1. state[u] = 1 <=> \E i \in 1 .. n : stack[i][1] = u
        BY DEF Inv, StateTellsPlace
      <4>2. QED
        BY <1>6, <1>16, <1>17, <3>2, <4>1
    <3>3. QED
      BY <3>1, <3>2
  <2>3. \A u \in Unit : state'[u] = 2 <=> state[u] = 2
    BY <1>1, <1>6
  <2>4. \A i, j \in 1 .. n + 1 : stack'[i][1] = stack'[j][1] => i = j
    <3>1. \A i, j \in 1 .. n : stack[i][1] = stack[j][1] => i = j
      BY DEF Inv, StateTellsPlace
    <3>2. QED
      BY <1>16, <1>17, <2>1, <3>1
  <2>5. QED
    BY <1>1, <1>4, <2>2, <2>3, <2>4 DEF Inv, StateTellsPlace, RangeOf
<1>11. Chain'
  <2>1. \A i \in 1 .. n : Sched!Needs({stack[i][1]}, c)
    <3>1. \A i \in 1 .. n : Sched!Needs({stack[i][1]}, Top[1])
      <4>1. \A i, j \in 1 .. n : i <= j => Sched!Needs({stack[i][1]}, stack[j][1])
        BY DEF Inv, Chain
      <4>2. \A i \in 1 .. n : i <= n
        BY <1>3
      <4>3. QED
        BY <1>16, <1>18, <4>1, <4>2
    <3>2. QED
      <4> SUFFICES ASSUME NEW i \in 1 .. n PROVE Sched!Needs({stack[i][1]}, c)
        OBVIOUS
      <4>1. {stack[i][1]} \in SUBSET Unit /\ Sched!Needs({stack[i][1]}, Top[1])
        BY <1>8, <3>1
      <4>2. QED
        BY <1>3, <4>1, NeedsDep
  <2>2. Sched!Needs({c}, c)
    BY <1>3, NeedsRoot
  <2>3. \A i, j \in 1 .. n + 1 : i <= j => Sched!Needs({stack'[i][1]}, stack'[j][1])
    <3>1. \A i, j \in 1 .. n : i <= j => Sched!Needs({stack[i][1]}, stack[j][1])
      BY DEF Inv, Chain
    <3> SUFFICES ASSUME NEW i \in 1 .. n + 1, NEW j \in 1 .. n + 1, i <= j
                 PROVE  Sched!Needs({stack'[i][1]}, stack'[j][1])
      OBVIOUS
    <3>2. CASE i \in 1 .. n /\ j \in 1 .. n
      BY <1>17, <3>1, <3>2
    <3>3. CASE i \in 1 .. n /\ j = n + 1
      BY <1>17, <2>1, <3>3
    <3>4. CASE i = n + 1
      <4>1. j = n + 1
        BY <1>3, <3>4
      <4>2. QED
        BY <1>17, <2>2, <3>4, <4>1
    <3>5. QED
      BY <1>16, <3>2, <3>3, <3>4
  <2>4. QED
    BY <1>2, <1>4, <2>3 DEF Chain
<1>12. Scanned'
  <2>1. \A i \in 1 .. n : \A k \in 1 .. Advanced[i][2] - 1 :
          state'[unitDeps[Advanced[i][1]][k]] # 0
    <3>1. HasChild /\ state'[Child] # 0
      BY <1>1, <1>6
    <3>2. QED
      BY <1>7, <3>1, AdvanceScanned
  <2>2. \A i \in 1 .. n : \A k \in 1 .. stack'[i][2] - 1 :
          state'[unitDeps[stack'[i][1]][k]] # 0
    <3>1. \A i \in 1 .. n : stack'[i] = Advanced[i]
      BY <1>4
    <3>2. QED
      BY <2>1, <3>1
  <2>3. \A k \in 1 .. stack'[n + 1][2] - 1 : FALSE
    BY <1>4
  <2>4. QED
    BY <1>1, <1>4, <1>16, <2>2, <2>3 DEF Scanned
<1>13. Settled'
  <2> SUFFICES ASSUME NEW i \in 1 .. Len(order), NEW v \in Deps[order[i]]
               PROVE  /\ state'[v] # 0
                      /\ (\E j \in 1 .. (i - 1) : order[j] = v) \/ Sched!Needs({v}, order[i])
    BY <1>1, <1>2 DEF Settled
  <2>1. /\ state[v] # 0
        /\ (\E j \in 1 .. (i - 1) : order[j] = v) \/ Sched!Needs({v}, order[i])
    BY DEF Inv, Settled
  <2>2. v \in Unit
    BY AllUnits DEF Inv
  <2>3. QED
    BY <1>7, <2>1, <2>2
<1>14. Wanted'
  <2>1. Sched!Needs(RangeOf(roots), c)
    <3>1. state[Top[1]] # 0
      BY <1>3 DEF Inv, StateTellsPlace, Top
    <3>2. Sched!Needs(RangeOf(roots), Top[1])
      BY <1>3, <3>1 DEF Inv, Wanted
    <3>3. QED
      BY <1>3, <3>2, NeedsDep, AllUnits DEF Inv
  <2>2. QED
    BY <1>1, <1>2, <1>6, <2>1 DEF Inv, Wanted, RangeOf
<1>15. Tried'
  <2>1. \A i \in 1 .. root - 1 : roots[i] \in Unit
    BY AllUnits DEF Inv, TypeOK
  <2>2. QED
    BY <1>1, <1>7, <2>1 DEF Inv, Tried
<1>19. QED
  BY <1>9, <1>10, <1>11, <1>12, <1>13, <1>14, <1>15 DEF Inv

\* The unit on top is done: all its dependencies were visited, so each is in
\* the order or is the unit itself or below it on the stack, and needs it.
LEMMA LeaveKeepsInv == Inv /\ Leave => Inv'
<1> SUFFICES ASSUME Inv, Leave PROVE Inv'
  OBVIOUS
<1> DEFINE n == Len(stack)
           u == Top[1]
           m == Len(order)
<1>1. /\ UNCHANGED <<unitDeps, roots, root>>
      /\ stack # <<>> /\ Top[2] > Len(unitDeps[u])
      /\ state' = [state EXCEPT ![u] = 2]
      /\ order' = Append(order, u)
      /\ stack' = Pop(stack)
  BY DEF Leave, graph
<1>2. Deps' = Deps /\ \A W, v : Sched!Needs(W, v)' <=> Sched!Needs(W, v)
  BY <1>1, NeedsFrame
<1>3. /\ stack' \in Seq(Unit \X (Nat \ {0})) /\ Len(stack') = n - 1
      /\ \A i \in 1 .. n - 1 : stack'[i] = stack[i]
      /\ n \in Nat \ {0} /\ Top = stack[n] /\ u \in Unit /\ Top[2] \in Nat \ {0}
  BY <1>1, PopEffect DEF Inv
<1>4. order' \in Seq(Unit) /\ m \in Nat /\ Len(order') = m + 1
      /\ (\A i \in 1 .. m : order'[i] = order[i]) /\ order'[m + 1] = u
  <2>1. order \in Seq(Unit) /\ m \in Nat
    BY AllUnits DEF Inv, TypeOK
  <2>2. QED
    BY <1>1, <1>3, <2>1, AppendProperties
<1>5. state \in [Unit -> 0 .. 2] /\ state' \in [Unit -> 0 .. 2]
  <2>1. state \in [Unit -> 0 .. 2]
    BY DEF Inv, TypeOK
  <2>2. state' = [state EXCEPT ![u] = 2] /\ 2 \in 0 .. 2
    BY <1>1
  <2>3. QED
    BY <2>1, <2>2, MarkType
<1>6. state'[u] = 2 /\ \A v \in Unit : v # u => state'[v] = state[v]
  BY <1>1, <1>3, <1>5
<1>7. \A v \in Unit : state[v] # 0 => state'[v] # 0
  BY <1>6
<1>8. /\ \A i \in 1 .. n : i \in 1 .. n - 1 \/ i = n
      /\ n \in 1 .. n /\ \A i \in 1 .. n - 1 : i \in 1 .. n /\ i # n
      /\ \A i \in 1 .. m + 1 : i \in 1 .. m \/ i = m + 1
      /\ m + 1 \in 1 .. m + 1 /\ \A i \in 1 .. m : i \in 1 .. m + 1
  <2>1. n \in Nat \ {0} /\ m \in Nat
    BY <1>3, <1>4
  <2> HIDE DEF n, u, m
  <2>2. /\ \A i \in 1 .. n : i \in 1 .. n - 1 \/ i = n
        /\ n \in 1 .. n /\ \A i \in 1 .. n - 1 : i \in 1 .. n /\ i # n
    BY <2>1
  <2>3. /\ \A i \in 1 .. m + 1 : i \in 1 .. m \/ i = m + 1
        /\ m + 1 \in 1 .. m + 1 /\ \A i \in 1 .. m : i \in 1 .. m + 1
    BY <2>1
  <2>4. QED
    BY <2>2, <2>3
<1>9. state[u] = 1 /\ \A i \in 1 .. n - 1 : stack[i][1] # u
  BY <1>3, <1>8 DEF Inv, StateTellsPlace
<1>10. \A i \in 1 .. m : order[i] \in Unit /\ order[i] # u
  BY <1>9, AllUnits DEF Inv, StateTellsPlace, RangeOf
<1> HIDE DEF n, u, m
<1>11. TypeOK'
  <2>1. \A i \in 1 .. n - 1 : stack'[i][2] <= Len(unitDeps[stack'[i][1]]) + 1
    BY <1>3, <1>8 DEF Inv, TypeOK, n
  <2>2. QED
    BY <1>1, <1>3, <1>4, <1>5, <2>1 DEF Inv, TypeOK
<1>12. StateTellsPlace'
  <2>1. \A v \in Unit : state'[v] = 1 <=> \E i \in 1 .. n - 1 : stack'[i][1] = v
    <3> SUFFICES ASSUME NEW v \in Unit
                 PROVE  state'[v] = 1 <=> \E i \in 1 .. n - 1 : stack'[i][1] = v
      OBVIOUS
    <3>1. state[v] = 1 <=> \E i \in 1 .. n : stack[i][1] = v
      BY DEF Inv, StateTellsPlace, n
    <3>2. (\E i \in 1 .. n - 1 : stack'[i][1] = v) <=> \E i \in 1 .. n - 1 : stack[i][1] = v
      BY <1>3
    <3>3. stack[n][1] = u
      BY <1>3 DEF u
    <3>4. CASE v = u
      BY <1>6, <1>9, <3>2, <3>4
    <3>5. CASE v # u
      BY <1>6, <1>8, <3>1, <3>2, <3>3, <3>5
    <3>6. QED
      BY <3>4, <3>5
  <2>2. \A v \in Unit : state'[v] = 2 <=> \E i \in 1 .. m + 1 : order'[i] = v
    <3> SUFFICES ASSUME NEW v \in Unit
                 PROVE  state'[v] = 2 <=> \E i \in 1 .. m + 1 : order'[i] = v
      OBVIOUS
    <3>1. state[v] = 2 <=> \E i \in 1 .. m : order[i] = v
      BY DEF Inv, StateTellsPlace, RangeOf, m
    <3>2. CASE v = u
      BY <1>4, <1>6, <1>8, <3>2
    <3>3. CASE v # u
      BY <1>4, <1>6, <1>8, <3>1, <3>3
    <3>4. QED
      BY <3>2, <3>3
  <2>3. \A i, j \in 1 .. n - 1 : stack'[i][1] = stack'[j][1] => i = j
    <3>1. \A i, j \in 1 .. n : stack[i][1] = stack[j][1] => i = j
      BY DEF Inv, StateTellsPlace, n
    <3>2. QED
      BY <1>3, <1>8, <3>1
  <2>4. \A i, j \in 1 .. m + 1 : order'[i] = order'[j] => i = j
    <3>1. \A i, j \in 1 .. m : order[i] = order[j] => i = j
      BY DEF Inv, StateTellsPlace, m
    <3>2. QED
      BY <1>4, <1>8, <1>10, <3>1
  <2>5. QED
    BY <1>3, <1>4, <2>1, <2>2, <2>3, <2>4 DEF StateTellsPlace, RangeOf
<1>13. Chain'
  <2>1. \A i, j \in 1 .. n - 1 : i <= j => Sched!Needs({stack[i][1]}, stack[j][1])
    BY <1>8 DEF Inv, Chain, n
  <2>2. QED
    <3>1. \A i, j \in 1 .. n - 1 : i <= j => Sched!Needs({stack'[i][1]}, stack'[j][1])
      BY <1>3, <2>1
    <3>2. QED
      BY <1>2, <1>3, <3>1 DEF Chain
<1>14. Scanned'
  <2> SUFFICES ASSUME NEW i \in 1 .. n - 1, NEW k \in 1 .. stack[i][2] - 1
               PROVE  state'[unitDeps[stack[i][1]][k]] # 0
    <3>1. Len(stack') = n - 1 /\ unitDeps' = unitDeps
      BY <1>1, <1>3
    <3>2. \A i \in 1 .. n - 1 : stack'[i] = stack[i]
      BY <1>3
    <3>3. QED
      BY <3>1, <3>2 DEF Scanned
  <2>1. i \in 1 .. Len(stack)
    BY <1>8 DEF n
  <2>2. stack[i][1] \in Unit /\ stack[i][2] \in Nat \ {0}
    BY <2>1, StackEntries DEF Inv
  <2>3. k \in 1 .. Len(unitDeps[stack[i][1]])
    <3>1. Len(unitDeps[stack[i][1]]) \in Nat
      BY <2>2, DepsAreListed DEF Inv
    <3>2. stack[i][2] <= Len(unitDeps[stack[i][1]]) + 1
      BY <2>1 DEF Inv, TypeOK
    <3>3. QED
      BY <2>2, <3>1, <3>2
  <2>4. unitDeps[stack[i][1]][k] \in Unit
    BY <2>2, <2>3, DepsAreListed DEF Inv
  <2>5. QED
    BY <1>7, <2>1, <2>4 DEF Inv, Scanned
<1>15. Settled'
  <2>1. ASSUME NEW v \in Deps[u]
        PROVE  /\ state'[v] # 0
               /\ (\E j \in 1 .. m : order[j] = v) \/ Sched!Needs({v}, u)
    <3>1. PICK k \in 1 .. Len(unitDeps[u]) : unitDeps[u][k] = v
      <4>1. u \in Unit /\ TypeOK
        BY <1>3 DEF Inv
      <4>2. Deps[u] = {unitDeps[u][k] : k \in 1 .. Len(unitDeps[u])}
        BY <4>1, DepsAreListed
      <4>3. QED
        BY <2>1, <4>2
    <3>2. v \in Unit /\ Len(unitDeps[u]) \in Nat
      BY <1>3, <2>1, DepsAreListed DEF Inv
    <3>3. k \in 1 .. stack[n][2] - 1 /\ stack[n][1] = u
      BY <1>1, <1>3, <3>2 DEF u
    <3>4. state[v] # 0
      BY <1>8, <3>1, <3>3 DEF Inv, Scanned, n
    <3>5. CASE state[v] = 2
      BY <1>7, <3>2, <3>4, <3>5 DEF Inv, StateTellsPlace, RangeOf, m
    <3>6. CASE state[v] = 1
      <4>1. PICK i \in 1 .. n : stack[i][1] = v
        BY <3>2, <3>6 DEF Inv, StateTellsPlace, n
      <4>2. i <= n
        BY <1>3
      <4>3. Sched!Needs({v}, u)
        BY <1>8, <3>3, <4>1, <4>2 DEF Inv, Chain, n
      <4>4. QED
        BY <1>7, <3>2, <3>4, <4>3
    <3>7. QED
      BY <1>5, <3>2, <3>4, <3>5, <3>6
  <2>2. ASSUME NEW i \in 1 .. m, NEW v \in Deps[order[i]]
        PROVE  /\ state'[v] # 0
               /\ (\E j \in 1 .. i - 1 : order[j] = v) \/ Sched!Needs({v}, order[i])
    BY <1>7, AllUnits DEF Inv, Settled, m
  <2>3. ASSUME NEW i \in 1 .. m + 1, NEW v \in Deps[order'[i]]
        PROVE  /\ state'[v] # 0
               /\ (\E j \in 1 .. i - 1 : order'[j] = v) \/ Sched!Needs({v}, order'[i])
    <3>1. CASE i \in 1 .. m
      <4>1. order'[i] = order[i] /\ \A j \in 1 .. i - 1 : order'[j] = order[j]
        BY <1>4, <3>1
      <4>2. QED
        BY <2>2, <3>1, <4>1
    <3>2. CASE i = m + 1
      <4>1. order'[i] = u /\ i - 1 = m /\ \A j \in 1 .. m : order'[j] = order[j]
        BY <1>4, <3>2
      <4>2. QED
        BY <2>1, <4>1
    <3>3. QED
      BY <1>8, <3>1, <3>2
  <2>4. QED
    BY <1>2, <1>4, <2>3 DEF Settled
<1>16. Wanted'
  <2>1. Sched!Needs(RangeOf(roots), u)
    BY <1>3, <1>9 DEF Inv, Wanted
  <2>2. QED
    BY <1>1, <1>2, <1>6, <2>1 DEF Inv, Wanted, RangeOf
<1>17. Tried'
  <2>1. \A i \in 1 .. root - 1 : roots[i] \in Unit
    BY AllUnits DEF Inv, TypeOK
  <2>2. QED
    BY <1>1, <1>7, <2>1 DEF Inv, Tried
<1>18. QED
  BY <1>11, <1>12, <1>13, <1>14, <1>15, <1>16, <1>17 DEF Inv

\* Every step keeps the invariant.
LEMMA StepKeepsInv == Inv /\ [Next]_vars => Inv'
<1> SUFFICES ASSUME Inv, [Next]_vars PROVE Inv'
  OBVIOUS
<1>1. CASE SkipRoot
  BY <1>1, SkipRootKeepsInv
<1>2. CASE StartRoot
  BY <1>2, StartRootKeepsInv
<1>3. CASE SkipChild
  BY <1>3, SkipChildKeepsInv
<1>4. CASE Descend
  BY <1>4, DescendKeepsInv
<1>5. CASE Leave
  BY <1>5, LeaveKeepsInv
<1>6. CASE UNCHANGED vars
  <2>1. UNCHANGED <<unitDeps, roots, root, state, stack, order>>
    BY <1>6 DEF vars
  <2>2. Deps' = Deps /\ \A W, v : Sched!Needs(W, v)' <=> Sched!Needs(W, v)
    BY <2>1, NeedsFrame
  <2>3. TypeOK' /\ StateTellsPlace' /\ Scanned' /\ Tried'
    <3>1. TypeOK'
      BY <2>1 DEF Inv, TypeOK
    <3>2. StateTellsPlace'
      BY <2>1 DEF Inv, StateTellsPlace, RangeOf
    <3>3. Scanned' /\ Tried'
      BY <2>1 DEF Inv, Scanned, Tried
    <3>4. QED
      BY <3>1, <3>2, <3>3
  <2>4. Chain' /\ Settled' /\ Wanted'
    BY <2>1, <2>2 DEF Inv, Chain, Settled, Wanted, RangeOf
  <2>5. QED
    BY <2>3, <2>4 DEF Inv
<1>7. QED
  BY <1>1, <1>2, <1>3, <1>4, <1>5, <1>6 DEF Next

\* The inductive invariant holds in every reachable state of topo_order.
LEMMA AlwaysInv == Spec => []Inv
BY InitInv, StepKeepsInv, PTL DEF Spec

------------------------------------------------------------------------------
(***************************************************************************)
(* Results                                                                 *)
(***************************************************************************)
\* The variables of topo_order keep their types.
THEOREM TopoOrderType == Spec => []TypeOK
<1>1. Inv => TypeOK
  BY DEF Inv
<1>2. QED
  BY <1>1, AlwaysInv, PTL

\* The visit marks of topo_order tell where a unit is: once on the stack, once
\* in the order, never in both.
THEOREM TopoOrderState == Spec => []StateTellsPlace
<1>1. Inv => StateTellsPlace
  BY DEF Inv
<1>2. QED
  BY <1>1, AlwaysInv, PTL

\* Only a cycle through a unit lets it precede one of its dependencies.
LEMMA InvDependenciesFirst == Inv => DependenciesFirst
<1> SUFFICES ASSUME Inv, Acyclic, NEW i \in 1 .. Len(order), NEW v \in Deps[order[i]]
             PROVE  \E j \in 1 .. (i - 1) : order[j] = v
  BY DEF DependenciesFirst
<1>1. order[i] \in Unit
  BY AllUnits DEF Inv
<1>2. ~ Sched!Needs({v}, order[i])
  BY <1>1 DEF Acyclic
<1>3. QED
  BY <1>2 DEF Inv, Settled

\* On a graph without cycles, topo_order puts every dependency before its
\* dependents.
THEOREM TopoOrderDependenciesFirst == Spec => []DependenciesFirst
BY InvDependenciesFirst, AlwaysInv, PTL

\* When the search is over, the order holds the units the roots need: it is
\* closed, and no unit was visited that is not needed.
LEMMA InvComplete == Inv => Complete
<1> SUFFICES ASSUME Inv, Done, NEW u \in Unit
             PROVE  u \in RangeOf(order) <=> Sched!Needs(RangeOf(roots), u)
  BY DEF Complete
<1>1. stack = <<>> /\ root > Len(roots) /\ Len(stack) = 0
  BY StackEntries DEF Done, Inv
<1>2. \A v \in Unit : state[v] # 0 <=> v \in RangeOf(order)
  <2> SUFFICES ASSUME NEW v \in Unit
               PROVE  state[v] # 0 <=> v \in RangeOf(order)
    OBVIOUS
  <2>1. state[v] # 1
    BY <1>1 DEF Inv, StateTellsPlace
  <2>2. state[v] = 0 \/ state[v] = 1 \/ state[v] = 2
    BY DEF Inv, TypeOK
  <2>3. state[v] = 2 <=> v \in RangeOf(order)
    BY DEF Inv, StateTellsPlace
  <2>4. QED
    BY <2>1, <2>2, <2>3
<1>3. RangeOf(order) \in SUBSET Unit
  BY AllUnits DEF Inv, RangeOf
<1>4. RangeOf(roots) \subseteq RangeOf(order)
  <2>1. root \in Nat \ {0} /\ Len(roots) \in Nat /\ root <= Len(roots) + 1
    BY AllUnits DEF Inv, TypeOK
  <2>2. \A i \in 1 .. Len(roots) : state[roots[i]] # 0
    BY <1>1, <2>1 DEF Inv, Tried
  <2>3. \A i \in 1 .. Len(roots) : roots[i] \in Unit
    BY AllUnits DEF Inv
  <2>4. QED
    BY <1>2, <2>2, <2>3 DEF RangeOf
<1>5. Sched!Closed(RangeOf(order))
  <2>1. ASSUME NEW v \in RangeOf(order), NEW w \in Deps[v]
        PROVE  w \in RangeOf(order)
    <3>1. PICK i \in 1 .. Len(order) : order[i] = v
      BY DEF RangeOf
    <3>2. w \in Deps[order[i]]
      BY <2>1, <3>1
    <3>3. state[w] # 0
      BY <3>2 DEF Inv, Settled
    <3>4. w \in Unit
      BY <3>2, AllUnits DEF Inv
    <3>5. QED
      BY <1>2, <3>3, <3>4
  <2>2. QED
    BY <2>1 DEF Sched!Closed
<1>6. Sched!Needs(RangeOf(roots), u) => u \in RangeOf(order)
  BY <1>3, <1>4, <1>5 DEF Sched!Needs
<1>7. u \in RangeOf(order) => Sched!Needs(RangeOf(roots), u)
  BY <1>2 DEF Inv, Wanted
<1>8. QED
  BY <1>6, <1>7

\* When topo_order returns, its result holds exactly what the roots need: the
\* roots and their transitive dependencies, also on a graph with cycles.
THEOREM TopoOrderComplete == Spec => []Complete
BY InvComplete, AlwaysInv, PTL

\* Leaving a unit submits it, and no other step submits anything.
LEMMA LeaveSubmits ==
  ASSUME Inv, Inv', Leave
  PROVE  Sched!Submit(Top[1])
<1> DEFINE u == Top[1]
           m == Len(order)
<1>1. /\ UNCHANGED <<unitDeps, roots>> /\ stack # <<>>
      /\ state' = [state EXCEPT ![u] = 2] /\ order' = Append(order, u)
  BY DEF Leave, graph
<1>2. Len(stack) \in Nat \ {0} /\ u = stack[Len(stack)][1] /\ u \in Unit
  BY <1>1, PopEffect DEF Inv
<1>3. state[u] = 1
  BY <1>2 DEF Inv, StateTellsPlace
<1>4. Sched!Submitted = RangeOf(order)
  BY DEF Sched!Submitted, RangeOf
<1>5. u \notin Sched!Submitted
  BY <1>2, <1>3, <1>4 DEF Inv, StateTellsPlace
<1>6. Sched!Needs(RangeOf(roots), u)
  BY <1>2, <1>3 DEF Inv, Wanted
<1>7. Deps' = Deps /\ RangeOf(roots)' = RangeOf(roots)
      /\ \A W, v : Sched!Needs(W, v)' <=> Sched!Needs(W, v)
  BY <1>1, NeedsFrame DEF RangeOf
<1>8. m \in Nat /\ Len(order') = m + 1 /\ order'[m + 1] = u
      /\ \A i \in 1 .. m : order'[i] = order[i]
  BY <1>1, <1>2, AppendProperties, AllUnits DEF Inv, TypeOK
<1>9. \A v \in Deps[u] : v \in Sched!Submitted \/ Sched!Needs({v}, u)
  <2> SUFFICES ASSUME NEW v \in Deps[u]
               PROVE  v \in RangeOf(order) \/ Sched!Needs({v}, u)
    BY <1>4
  <2>1. PICK k : k = m + 1
    OBVIOUS
  <2>2. k \in 1 .. Len(order') /\ order'[k] = u /\ k - 1 = m
    BY <1>8, <2>1
  <2>3. v \in Deps[order[k]]'
    BY <1>7, <2>2
  <2>4. (\E j \in 1 .. (k - 1) : order'[j] = v) \/ Sched!Needs({v}, order[k])'
    BY <2>2, <2>3 DEF Inv, Settled
  <2>5. Sched!Needs({v}, order[k])' => Sched!Needs({v}, u)
    BY <1>7, <2>2
  <2>6. (\E j \in 1 .. (k - 1) : order'[j] = v) => v \in RangeOf(order)
    BY <1>8, <2>2 DEF RangeOf
  <2>7. QED
    BY <2>4, <2>5, <2>6
<1>10. QED
  BY <1>1, <1>5, <1>6, <1>7, <1>9 DEF Sched!Submit

\* topo_order implements Schedule: it submits each unit that the roots need
\* once, and a dependency is missing only where the graph has a cycle.
THEOREM TopoOrderImplementsSchedule == Spec => ImplementsSchedule
<1>1. Init => Sched!Init
  <2> SUFFICES ASSUME Init PROVE Sched!Init
    OBVIOUS
  <2>1. TypeOK /\ order = <<>>
    BY InitInv DEF Inv, Init, Start
  <2>2. Deps \in [Unit -> SUBSET Unit]
    BY <2>1, DepsAreListed DEF Deps
  <2>3. QED
    BY <2>1, <2>2, AllUnits DEF Sched!Init
<1>2. Inv /\ Inv' /\ [Next]_vars => [Sched!Next]_<<Deps, RangeOf(roots), order>>
  <2> SUFFICES ASSUME Inv, Inv', [Next]_vars
               PROVE  Sched!Next \/ UNCHANGED <<Deps, RangeOf(roots), order>>
    OBVIOUS
  <2>1. ASSUME UNCHANGED <<unitDeps, roots, order>>
        PROVE  UNCHANGED <<Deps, RangeOf(roots), order>>
    BY <2>1, NeedsFrame DEF RangeOf
  <2>2. CASE Leave
    <3>1. Top[1] \in Unit
      BY <2>2, PopEffect DEF Leave, Inv
    <3>2. QED
      BY <2>2, <3>1, LeaveSubmits DEF Sched!Next
  <2>3. CASE SkipRoot \/ StartRoot \/ SkipChild \/ Descend \/ UNCHANGED vars
    <3>1. UNCHANGED <<unitDeps, roots, order>>
      BY <2>3 DEF SkipRoot, StartRoot, SkipChild, Descend, vars, graph
    <3>2. QED
      BY <2>1, <3>1
  <2>4. QED
    BY <2>2, <2>3 DEF Next
<1>3. QED
  BY <1>1, <1>2, AlwaysInv, PTL DEF Spec, ImplementsSchedule, Sched!Spec

------------------------------------------------------------------------------
(***************************************************************************)
(* The search ends: what it has left to do only shrinks                    *)
(***************************************************************************)
\* The roots that have not been tried, the units that the roots need, and what is
\* pending of each of those: its dependencies, by position, and after the last of
\* them leaving the unit.
RootsLeft == root .. Len(roots)

Needed == {u \in Unit : Sched!Needs(RangeOf(roots), u)}

IsPending(u, k) ==
  /\ k \in 1 .. Len(unitDeps[u]) + 1
  /\ \/ state[u] = 0
     \/ \E i \in 1 .. Len(stack) : stack[i][1] = u /\ stack[i][2] <= k
Pending == {e \in Needed \X Nat : IsPending(e[1], e[2])}

\* Nothing is taken up again, and each step settles a root or something pending.
Shrinks ==
  /\ RootsLeft' \subseteq RootsLeft /\ Pending' \subseteq Pending
  /\ RootsLeft' # RootsLeft \/ Pending' # Pending

\* What the roots need does not change, and it is all that is ever pending.
LEMMA NeededFrame ==
  ASSUME Inv, UNCHANGED <<unitDeps, roots>>
  PROVE  /\ Needed' = Needed /\ Needed \subseteq Unit
         /\ \A u \in Unit : state[u] # 0 => u \in Needed
<1>1. \A W, v : Sched!Needs(W, v)' <=> Sched!Needs(W, v)
  BY NeedsFrame
<1>2. RangeOf(roots)' = RangeOf(roots)
  BY DEF RangeOf
<1>3. Needed' = Needed
  BY <1>1, <1>2 DEF Needed
<1>4. QED
  BY <1>3 DEF Needed, Inv, Wanted

\* A step of the outer loop settles a root.
LEMMA RootStepShrinks ==
  ASSUME Inv, SkipRoot \/ StartRoot
  PROVE  Shrinks
<1>1. /\ UNCHANGED <<unitDeps, roots>> /\ root' = root + 1 /\ root <= Len(roots)
      /\ root \in Nat \ {0} /\ Len(roots) \in Nat
  BY AllUnits DEF SkipRoot, StartRoot, graph, Inv, TypeOK
<1>2. RootsLeft' \subseteq RootsLeft /\ root \in RootsLeft /\ root \notin RootsLeft'
  BY <1>1 DEF RootsLeft
<1>3. ASSUME NEW u \in Unit, NEW k \in Nat, IsPending(u, k)' PROVE IsPending(u, k)
  <2>1. CASE SkipRoot
    BY <1>1, <1>3, <2>1 DEF SkipRoot, IsPending
  <2>2. CASE StartRoot
    <3> DEFINE r == roots[root]
    <3>1. r \in Unit /\ state \in [Unit -> 0 .. 2]
      BY <1>1, AllUnits DEF Inv, TypeOK
    <3>2. /\ state[r] = 0 /\ state' = [state EXCEPT ![r] = 1] /\ stack' = <<<<r, 1>>>>
      BY <2>2 DEF StartRoot
    <3>3. Len(stack') = 1 /\ stack'[1][1] = r
      BY <3>2
    <3>4. CASE u = r
      BY <1>1, <1>3, <3>2, <3>4 DEF IsPending
    <3>5. CASE u # r
      <4>1. state'[u] = 0
        BY <1>3, <3>3, <3>5 DEF IsPending
      <4>2. state[u] = 0
        BY <3>1, <3>2, <3>5, <4>1
      <4>3. QED
        BY <1>1, <1>3, <4>2 DEF IsPending
    <3>6. QED
      BY <3>4, <3>5
  <2>3. QED
    BY <2>1, <2>2
<1>4. Pending' \subseteq Pending
  BY <1>1, <1>3, NeededFrame DEF Pending
<1>5. QED
  BY <1>2, <1>4 DEF Shrinks

\* Turning to a dependency settles it: it stays settled, since the unit is on the
\* stack only once.
LEMMA ChildStepShrinks ==
  ASSUME Inv, SkipChild \/ Descend
  PROVE  Shrinks
<1> DEFINE n == Len(stack)
           t == Top[1]
           p == Top[2]
<1>1. /\ UNCHANGED <<unitDeps, roots, root>> /\ HasChild
  BY DEF SkipChild, Descend, graph
<1>2. /\ n \in Nat \ {0} /\ n \in 1 .. n
      /\ t \in Unit /\ p \in 1 .. Len(unitDeps[t]) /\ Child \in Unit
      /\ Advanced \in Seq(Unit \X (Nat \ {0})) /\ Len(Advanced) = n
      /\ \A i \in 1 .. n : Advanced[i] = IF i = n THEN <<t, p + 1>> ELSE stack[i]
      /\ \A i \in 1 .. n : Advanced[i][1] = stack[i][1]
  BY <1>1, AdvanceEffect DEF Inv
<1>3. t = stack[n][1] /\ p = stack[n][2]
  BY DEF Top
<1>4. \A i \in 1 .. n : stack[i][1] = t => i = n
  BY <1>2, <1>3 DEF Inv, StateTellsPlace
<1>5. state \in [Unit -> 0 .. 2] /\ Len(unitDeps[t]) \in Nat
  BY <1>2, DepsAreListed DEF Inv, TypeOK
<1>6. state[t] = 1
  BY <1>2, <1>3 DEF Inv, StateTellsPlace
<1>7. \A i \in 1 .. n : stack[i][2] \in Nat
  BY StackEntries DEF Inv
<1> HIDE DEF n, t, p
<1> DEFINE On(u, k) == \E i \in 1 .. Len(stack) : stack[i][1] = u /\ stack[i][2] <= k
<1>8. Advanced[n][2] = p + 1 /\ \A i \in 1 .. n : i # n => Advanced[i] = stack[i]
  BY <1>2
<1>9. ASSUME NEW u, NEW k \in Nat, NEW i \in 1 .. n, Advanced[i][1] = u, Advanced[i][2] <= k
      PROVE  On(u, k) /\ ~ (u = t /\ k = p)
  <2>0. i \in 1 .. Len(stack)
    BY DEF n
  <2>1. stack[i][1] = u
    BY <1>2, <1>9
  <2>2. CASE i = n
    <3>1. p + 1 <= k /\ p \in Nat
      BY <1>2, <1>5, <1>8, <1>9, <2>2
    <3>2. stack[i][2] <= k /\ k # p
      BY <1>3, <2>2, <3>1 DEF n, p
    <3>3. QED
      BY <2>0, <2>1, <3>2
  <2>3. CASE i # n
    BY <1>4, <1>8, <1>9, <2>0, <2>1, <2>3
  <2>4. QED
    BY <2>2, <2>3
<1> HIDE DEF On
<1>10. IsPending(t, p)
  <2>1. p \in 1 .. Len(unitDeps[t]) + 1 /\ p <= p
    BY <1>2, <1>5
  <2>2. QED
    BY <1>2, <1>3, <2>1 DEF IsPending, n
<1>11. ASSUME NEW u \in Unit, NEW k \in Nat, IsPending(u, k)'
       PROVE  IsPending(u, k) /\ ~ (u = t /\ k = p)
  <2>1. k \in 1 .. Len(unitDeps[u]) + 1
    BY <1>1, <1>11 DEF IsPending
  <2>2. CASE SkipChild
    <3>1. state' = state /\ stack' = Advanced
      BY <2>2 DEF SkipChild
    <3>2. CASE state[u] = 0
      BY <1>6, <2>1, <3>2 DEF IsPending
    <3>3. ASSUME NEW i \in 1 .. n, Advanced[i][1] = u, Advanced[i][2] <= k
          PROVE  IsPending(u, k) /\ ~ (u = t /\ k = p)
      <4>1. On(u, k) /\ ~ (u = t /\ k = p)
        BY <1>9, <3>3
      <4>2. QED
        BY <2>1, <4>1 DEF IsPending, On
    <3>4. QED
      BY <1>2, <1>11, <3>1, <3>2, <3>3 DEF IsPending
  <2>3. CASE Descend
    <3>1. /\ state[Child] = 0 /\ state' = [state EXCEPT ![Child] = 1]
          /\ stack' = Append(Advanced, <<Child, 1>>)
      BY <2>3 DEF Descend
    <3>2. /\ Len(stack') = n + 1 /\ stack'[n + 1] = <<Child, 1>>
          /\ \A i \in 1 .. n : stack'[i] = Advanced[i]
      <4>1. <<Child, 1>> \in Unit \X (Nat \ {0})
        BY <1>2
      <4>2. QED
        BY <1>2, <3>1, <4>1, AppendProperties
    <3>3. CASE u = Child
      BY <1>6, <2>1, <3>1, <3>3 DEF IsPending
    <3>4. CASE u # Child /\ state[u] = 0
      BY <1>6, <2>1, <3>4 DEF IsPending
    <3>5. CASE u # Child /\ state[u] # 0
      <4>1. state'[u] # 0
        BY <1>5, <3>1, <3>5
      <4>2. PICK i \in 1 .. n + 1 : stack'[i][1] = u /\ stack'[i][2] <= k
        BY <1>11, <3>2, <4>1 DEF IsPending
      <4>3. i \in 1 .. n
        BY <1>2, <3>2, <3>5, <4>2
      <4>4. QED
        <5>1. Advanced[i][1] = u /\ Advanced[i][2] <= k
          BY <3>2, <4>2, <4>3
        <5>2. On(u, k) /\ ~ (u = t /\ k = p)
          BY <1>9, <4>3, <5>1
        <5>3. QED
          BY <2>1, <5>2 DEF IsPending, On
    <3>6. QED
      BY <3>3, <3>4, <3>5
  <2>4. QED
    BY <2>2, <2>3
<1>12. Pending' \subseteq Pending /\ <<t, p>> \in Pending /\ <<t, p>> \notin Pending'
  <2>1. <<t, p>> \in Needed \X Nat
    BY <1>1, <1>2, <1>5, <1>6, NeededFrame
  <2>2. QED
    BY <1>1, <1>10, <1>11, <2>1, NeededFrame DEF Pending
<1>13. QED
  BY <1>1, <1>12 DEF Shrinks, RootsLeft

\* Leaving settles the unit.
LEMMA LeaveShrinks ==
  ASSUME Inv, Leave
  PROVE  Shrinks
<1> DEFINE n == Len(stack)
           t == Top[1]
           p == Len(unitDeps[t]) + 1
<1>1. /\ UNCHANGED <<unitDeps, roots, root>> /\ stack # <<>> /\ Top[2] > Len(unitDeps[t])
      /\ state' = [state EXCEPT ![t] = 2] /\ stack' = Pop(stack)
  BY DEF Leave, graph
<1>2. /\ Len(Pop(stack)) = n - 1 /\ \A i \in 1 .. n - 1 : Pop(stack)[i] = stack[i]
      /\ n \in Nat \ {0} /\ n \in 1 .. n /\ t \in Unit /\ Top[2] \in Nat
      /\ Top = stack[n]
  BY <1>1, PopEffect DEF Inv
<1>3. state \in [Unit -> 0 .. 2] /\ Len(unitDeps[t]) \in Nat /\ stack[n][2] <= p
  BY <1>2, DepsAreListed DEF Inv, TypeOK
<1>4. state[t] = 1 /\ state'[t] = 2
  BY <1>1, <1>2, <1>3 DEF Inv, StateTellsPlace
<1>5. \A i \in 1 .. n : stack[i][1] = t => i = n
  BY <1>2 DEF Inv, StateTellsPlace
<1> HIDE DEF t
<1>6. IsPending(t, p) /\ <<t, p>> \in Needed \X Nat
  BY <1>1, <1>2, <1>3, <1>4, NeededFrame DEF IsPending, t
<1>7. ASSUME NEW u \in Unit, NEW k \in Nat, IsPending(u, k)'
      PROVE  IsPending(u, k) /\ u # t
  <2>1. k \in 1 .. Len(unitDeps[u]) + 1
    BY <1>1, <1>7 DEF IsPending
  <2>2. CASE state'[u] = 0
    <3>1. u # t /\ state[u] = 0
      BY <1>1, <1>3, <1>4, <2>2
    <3>2. QED
      BY <2>1, <3>1 DEF IsPending
  <2>3. CASE state'[u] # 0
    <3>1. PICK i \in 1 .. n - 1 : stack[i][1] = u /\ stack[i][2] <= k
      BY <1>1, <1>2, <1>7, <2>3 DEF IsPending
    <3>2. i \in 1 .. n /\ i # n
      BY <1>2
    <3>3. QED
      BY <1>5, <2>1, <3>1, <3>2 DEF IsPending
  <2>4. QED
    BY <2>2, <2>3
<1>8. Pending' \subseteq Pending /\ <<t, p>> \in Pending /\ <<t, p>> \notin Pending'
  BY <1>1, <1>6, <1>7, NeededFrame DEF Pending
<1>9. QED
  BY <1>1, <1>8 DEF Shrinks, RootsLeft

\* Of finitely many units finitely much is pending.
LEMMA PendingFinite ==
  ASSUME Inv, IsFiniteSet(Needed)
  PROVE  IsFiniteSet(RootsLeft) /\ IsFiniteSet(Pending)
<1> DEFINE Row(u) == {u} \X (1 .. Len(unitDeps[u]) + 1)
           Rows == {Row(u) : u \in Needed}
           f == [u \in Needed |-> Row(u)]
<1>1. IsFiniteSet(RootsLeft)
  BY AllUnits, FS_Interval DEF RootsLeft, Inv, TypeOK
<1>2. \A u \in Needed : IsFiniteSet(Row(u))
  <2>1. \A u \in Needed : IsFiniteSet(1 .. Len(unitDeps[u]) + 1)
    <3>1. ASSUME NEW u \in Needed PROVE Len(unitDeps[u]) + 1 \in Nat
      <4>1. TypeOK /\ Needed \subseteq Unit
        BY DEF Inv, Needed
      <4>2. Len(unitDeps[u]) \in Nat
        BY <4>1, DepsAreListed
      <4>3. QED
        BY <4>2
    <3>2. QED
      BY <3>1, FS_Interval
  <2>2. QED
    BY <2>1, FS_Singleton, FS_Product
<1> HIDE DEF Row
<1>3. IsFiniteSet(Rows)
  <2>1. f \in Surjection(Needed, Rows)
    BY DEF Surjection
  <2>2. QED
    BY <2>1, FS_Surjection
<1>4. IsFiniteSet(UNION Rows)
  BY <1>2, <1>3, FS_UNION
<1>5. Pending \subseteq UNION Rows
  <2>1. ASSUME NEW u \in Needed, NEW k \in Nat, IsPending(u, k) PROVE <<u, k>> \in UNION Rows
    BY <2>1 DEF IsPending, Row
  <2>2. QED
    BY <2>1 DEF Pending
<1>6. QED
  BY <1>1, <1>4, <1>5, FS_Subset

\* Every step of the search settles something.
LEMMA StepShrinks == Inv /\ Next => Shrinks
BY RootStepShrinks, ChildStepShrinks, LeaveShrinks DEF Next

\* topo_order ends, on every graph, with cycles or without: each iteration of its
\* loops settles something for good, a root, a dependency or a unit, and where the
\* roots need finitely many units finitely much is there to be settled.
THEOREM TopoOrderShrinks ==
  Spec => /\ [][Shrinks]_vars
          /\ [](IsFiniteSet(Needed) => IsFiniteSet(RootsLeft) /\ IsFiniteSet(Pending))
<1>1. Inv /\ [Next]_vars => [Shrinks]_vars
  BY StepShrinks
<1>2. Inv => (IsFiniteSet(Needed) => IsFiniteSet(RootsLeft) /\ IsFiniteSet(Pending))
  BY PendingFinite
<1>3. QED
  BY <1>1, <1>2, AlwaysInv, PTL DEF Spec
==============================================================================
