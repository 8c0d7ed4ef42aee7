-------------------------- MODULE UnionFindProofs ---------------------------
(***************************************************************************)
(* Theorems about the union-find structure for any set of elements: the    *)
(* forest is always the partition the union calls built, a check answers   *)
(* from it, the structure implements the abstract cache EqCache, and every *)
(* call returns and recurses no deeper than log2 of a class.               *)
(***************************************************************************)
EXTENDS UnionFind, SetLemmas

\* Popping the recursion stack leaves the other entries where they are.
LEMMA PopStack ==
  ASSUME NEW S, NEW s \in Seq(S), s # <<>>
  PROVE  /\ SubSeq(s, 1, Len(s) - 1) \in Seq(S)
         /\ Len(SubSeq(s, 1, Len(s) - 1)) = Len(s) - 1
         /\ \A i \in 1 .. Len(s) - 1 : SubSeq(s, 1, Len(s) - 1)[i] = s[i]
         /\ Len(s) \in 1 .. Len(s)
         /\ s[Len(s)] \in S
<1>1. Len(s) \in Nat /\ Len(s) # 0
  BY EmptySeq
<1>2. \A i \in 1 .. Len(s) : s[i] \in S
  BY ElementOfSeq
<1> DEFINE n == Len(s)
           t == SubSeq(s, 1, n - 1)
<1>3. t \in Seq(S) /\ Len(t) = n - 1 /\ \A i \in 1 .. n - 1 : t[i] = s[i]
  <2>1. 1 \in Int /\ n - 1 \in Int /\ \A i \in 1 .. n - 1 : s[i] \in S
    BY <1>1, <1>2
  <2>2. /\ t \in Seq(S)
        /\ Len(t) = IF 1 <= n - 1 THEN (n - 1) - 1 + 1 ELSE 0
        /\ \A i \in 1 .. (n - 1) - 1 + 1 : t[i] = s[1 + i - 1]
    BY <2>1, SubSeqProperties
  <2>3. n \in Nat \ {0}
    BY <1>1
  <2> HIDE DEF n, t
  <2>4. \A i \in 1 .. n - 1 : i \in 1 .. (n - 1) - 1 + 1 /\ 1 + i - 1 = i
    BY <2>3
  <2>5. QED
    BY <2>2, <2>3, <2>4
<1>4. QED
  BY <1>1, <1>2, <1>3

\* The variables keep their types.
THEOREM UnionFindType == Spec => []TypeOK
<1>1. Init => TypeOK
  BY DEF Init, TypeOK, Idle
<1>2. TypeOK /\ [Next]_vars => TypeOK'
  <2> SUFFICES ASSUME TypeOK, [Next]_vars PROVE TypeOK'
    OBVIOUS
  <2> USE DEF TypeOK
  <2>1. ASSUME NEW op \in {"union", "check"}, NEW x \in Elem, NEW y \in Elem,
               Start(op, x, y)
        PROVE TypeOK'
    BY <2>1 DEF Start, Calls, Op
  <2>2. CASE Climb
    BY <2>2 DEF Climb, node
  <2>3. CASE Compress
    <3>1. walk' \in Seq(Elem)
      BY <2>3, PopStack DEF Compress
    <3>2. QED
      BY <2>3, <3>1 DEF Compress
  <2>4. CASE FindSecond
    <3>1. call \in Calls
      BY <2>4 DEF FindSecond, AtRoot
    <3>2. call' \in Calls
      BY <2>4, <3>1 DEF FindSecond, Calls
    <3>3. QED
      BY <2>4, <3>1, <3>2 DEF FindSecond, Calls, node
  <2>5. CASE Union
    <3>1. call \in Calls
      BY <2>5 DEF Union, AtRoot
    <3>2. parent' \in [Elem -> Elem] /\ rank' \in [Elem -> Nat]
      BY <2>5 DEF Union, LinkRoots
    <3>3. cls' \in [Elem -> Elem]
      BY <2>5, <3>1 DEF Union, Calls
    <3>4. QED
      BY <2>5, <3>2, <3>3 DEF Union
  <2>6. CASE CheckUfEq
    BY <2>6 DEF CheckUfEq, node
  <2>7. CASE Clear
    BY <2>7 DEF Clear
  <2>8. CASE UNCHANGED vars
    BY <2>8 DEF vars, node
  <2>9. QED
    <3> HIDE DEF TypeOK
    <3> QED
      BY <2>1, <2>2, <2>3, <2>4, <2>5, <2>6, <2>7, <2>8 DEF Next, Resume
<1>3. QED
  BY <1>1, <1>2, PTL DEF Spec

\* What a completed climb has established: the element reached is the root of
\* the class that was looked for.
LEMMA AtRootClass ==
  ASSUME TypeOK, WalkOK, NEW arg \in {1, 2}, AtRoot(arg)
  PROVE  /\ call \in Calls /\ IsRoot(cur)
         /\ cls[cur] = IF arg = 1 THEN cls[call.x] ELSE cls[call.y]
         /\ arg = 2 => IsRoot(root) /\ cls[root] = cls[call.x]
BY DEF TypeOK, WalkOK, AtRoot, Target

\* Entering a call pushes its elements and starts a climb at the first.
LEMMA StartForest ==
  ASSUME TypeOK, Forest, NEW op \in {"union", "check"}, NEW x \in Elem, NEW y \in Elem,
         Start(op, x, y)
  PROVE  Forest'
<1> USE DEF Start, Forest, IsRoot
<1>1. SameClass' /\ OneRoot' /\ RankClimbs'
  BY DEF SameClass, OneRoot, RankClimbs
<1>2. call' = Op(op, x, y, 1) /\ cur' = x /\ cls' = cls /\ walk' = walk
  OBVIOUS
<1>3. WalkOK'
  <2>1. walk = <<>>
    BY DEF WalkOK
  <2>2. QED
    BY <1>2, <2>1 DEF WalkOK, Target, Op, Idle
<1>4. Pushed'
  BY DEF Pushed, Op, Idle
<1>5. QED
  BY <1>1, <1>3, <1>4

\* One level down: the element left is below the one reached.
LEMMA ClimbForest ==
  ASSUME TypeOK, Forest, Climb
  PROVE  Forest'
<1> USE DEF Climb, Forest, IsRoot, node
<1>1. SameClass' /\ OneRoot' /\ RankClimbs'
  BY DEF SameClass, OneRoot, RankClimbs
<1>2. /\ call \in Calls /\ call' = call /\ root' = root /\ cls' = cls /\ rank' = rank
      /\ parent' = parent /\ parent[cur] # cur
      /\ walk' = Append(walk, cur) /\ cur' = parent[cur]
  BY DEF TypeOK
<1>3. cls[parent[cur]] = cls[cur] /\ rank[cur] < rank[parent[cur]]
  BY <1>2 DEF SameClass, RankClimbs, TypeOK
<1>4. \A i \in 1 .. Len(walk') :
        /\ ~ IsRoot(walk'[i])
        /\ cls[walk'[i]] = cls[cur']
        /\ rank[walk'[i]] < rank[cur']
  <2> SUFFICES ASSUME NEW i \in 1 .. Len(walk')
               PROVE  /\ ~ IsRoot(walk'[i])
                      /\ cls[walk'[i]] = cls[cur']
                      /\ rank[walk'[i]] < rank[cur']
    OBVIOUS
  <2>1. CASE i = Len(walk) + 1
    BY <1>2, <1>3, <2>1 DEF TypeOK
  <2>2. CASE i \in 1 .. Len(walk)
    <3>1. walk'[i] = walk[i] /\ walk[i] \in Elem
      BY <1>2, <2>2 DEF TypeOK
    <3>2. /\ ~ IsRoot(walk[i]) /\ cls[walk[i]] = cls[cur] /\ rank[walk[i]] < rank[cur]
      BY <2>2 DEF WalkOK
    <3>3. rank[walk[i]] \in Nat /\ rank[cur] \in Nat /\ rank[parent[cur]] \in Nat
      BY <3>1 DEF TypeOK
    <3>4. QED
      BY <1>2, <1>3, <3>1, <3>2, <3>3
  <2>3. QED
    BY <1>2, <2>1, <2>2 DEF TypeOK
<1>5. WalkOK'
  BY <1>2, <1>3, <1>4 DEF WalkOK, Target, IsRoot, TypeOK
<1>6. Pushed'
  BY DEF Pushed, TypeOK
<1>7. QED
  BY <1>1, <1>5, <1>6

\* One level back up: the element on top of the stack is hung under the root.
LEMMA CompressForest ==
  ASSUME TypeOK, Forest, Compress
  PROVE  Forest'
<1> DEFINE top == walk[Len(walk)]
<1>1. /\ walk \in Seq(Elem) /\ walk # <<>>
      /\ Len(walk) \in 1 .. Len(walk) /\ top \in Elem
  BY PopStack DEF TypeOK, Compress
<1>2. ~ IsRoot(top) /\ cls[top] = cls[cur] /\ rank[top] < rank[cur]
  BY <1>1 DEF Compress, Forest, WalkOK
<1>3. top # cur /\ IsRoot(cur) /\ call # Idle
  BY <1>2 DEF Compress
<1>4. /\ parent' = [parent EXCEPT ![top] = cur]
      /\ UNCHANGED <<known, rank, call, cur, root, cls>>
  BY DEF Compress
<1> HIDE DEF top
<1>5. SameClass'
  BY <1>1, <1>2, <1>4 DEF SameClass, Forest, TypeOK
<1>6. OneRoot'
  BY <1>1, <1>2, <1>3, <1>4 DEF OneRoot, IsRoot, Forest, TypeOK
<1>7. RankClimbs'
  BY <1>1, <1>2, <1>3, <1>4 DEF RankClimbs, IsRoot, Forest, TypeOK
<1>8. WalkOK'
  <2>1. /\ Len(walk') = Len(walk) - 1
        /\ \A i \in 1 .. Len(walk') : i \in 1 .. Len(walk) /\ walk'[i] = walk[i]
    BY <1>1, PopStack DEF Compress
  <2>2. \A i \in 1 .. Len(walk') :
          /\ parent'[walk'[i]] # walk'[i]
          /\ cls[walk'[i]] = cls[cur]
          /\ rank[walk'[i]] < rank[cur]
    <3> SUFFICES ASSUME NEW i \in 1 .. Len(walk), walk[i] \in Elem
                 PROVE  /\ parent'[walk[i]] # walk[i]
                        /\ cls[walk[i]] = cls[cur]
                        /\ rank[walk[i]] < rank[cur]
      BY <1>1, <2>1, ElementOfSeq
    <3>1. ~ IsRoot(walk[i]) /\ cls[walk[i]] = cls[cur] /\ rank[walk[i]] < rank[cur]
      BY <1>3 DEF WalkOK, Forest
    <3>2. QED
      BY <1>1, <1>3, <1>4, <3>1 DEF IsRoot, TypeOK
  <2>3. call.arg = 2 => IsRoot(root)'
    BY <1>2, <1>3, <1>4 DEF WalkOK, Forest, IsRoot, TypeOK
  <2>4. cls[cur] = cls[Target] /\ (call.arg = 2 => cls[root] = cls[call.x])
    BY <1>3 DEF WalkOK, Forest
  <2>5. Target' = Target
    BY <1>4 DEF Target
  <2>6. QED
    BY <1>3, <1>4, <2>2, <2>3, <2>4, <2>5 DEF WalkOK, IsRoot
<1>9. Pushed'
  BY <1>1, <1>2, <1>3, <1>4 DEF Pushed, IsRoot, Forest, TypeOK
<1>10. QED
  BY <1>5, <1>6, <1>7, <1>8, <1>9 DEF Forest

\* The first root is set aside and the second climb starts.
LEMMA FindSecondForest ==
  ASSUME TypeOK, Forest, FindSecond
  PROVE  Forest'
<1> USE DEF FindSecond, Forest, node
<1>1. /\ call \in Calls /\ IsRoot(cur) /\ cls[cur] = cls[call.x] /\ walk = <<>>
  BY AtRootClass DEF AtRoot
<1>2. SameClass' /\ OneRoot' /\ RankClimbs'
  BY DEF SameClass, OneRoot, RankClimbs, IsRoot
<1>3. call' = [op |-> call.op, x |-> call.x, y |-> call.y, arg |-> 2]
  BY <1>1 DEF Calls
<1>4. WalkOK'
  BY <1>1, <1>3 DEF WalkOK, Target, IsRoot, AtRoot
<1>5. Pushed'
  BY <1>1, <1>3 DEF Pushed, IsRoot, AtRoot
<1>6. QED
  BY <1>2, <1>4, <1>5

\* Linking two roots keeps the forest: the classes below them become one
\* class with one root, and rank still grows along the new link.
LEMMA UnionForest ==
  ASSUME TypeOK, Forest, Union
  PROVE  Forest'
<1>1. /\ call \in Calls /\ call # Idle /\ call.arg = 2
      /\ IsRoot(cur) /\ cls[cur] = cls[call.y]
      /\ IsRoot(root) /\ cls[root] = cls[call.x]
  BY AtRootClass DEF Union, Forest, AtRoot
<1>2. /\ LinkRoots(root, cur)
      /\ known' = known /\ call' = Idle /\ walk' = <<>>
      /\ cls' = [e \in Elem |-> IF cls[e] = cls[root] THEN cls[cur] ELSE cls[e]]
  BY <1>1 DEF Union, AtRoot
<1>3. root \in known /\ cur \in known /\ root \in Elem /\ cur \in Elem
  BY <1>1 DEF Forest, Pushed, TypeOK
<1>4. WalkOK'
  BY <1>2 DEF WalkOK
<1>5. CASE root = cur
  <2>1. UNCHANGED <<parent, rank, cls>>
    BY <1>2, <1>5 DEF LinkRoots, TypeOK
  <2>2. QED
    BY <1>2, <1>4, <2>1
       DEF Forest, SameClass, OneRoot, RankClimbs, Pushed, IsRoot
<1>6. ASSUME NEW lo \in Elem, NEW hi \in Elem, lo # hi, 
             (lo = root /\ hi = cur) \/ (lo = cur /\ hi = root),
             parent' = [parent EXCEPT ![lo] = hi],
             rank' \in [Elem -> Nat], rank'[lo] = rank[lo], rank'[lo] < rank'[hi],
             \A e \in Elem : e # hi => rank'[e] = rank[e],
             rank[hi] <= rank'[hi]
      PROVE Forest'
  <2>1. IsRoot(lo) /\ IsRoot(hi) /\ cls'[lo] = cls'[hi]
    BY <1>1, <1>2, <1>3, <1>6
  <2>2. SameClass'
    BY <1>2, <1>6, <2>1 DEF SameClass, Forest, TypeOK, IsRoot
  <2>3. OneRoot'
    <3> SUFFICES ASSUME NEW e \in Elem, NEW f \in Elem,
                        parent'[e] = e, parent'[f] = f, cls'[e] = cls'[f]
                 PROVE  e = f
      BY DEF OneRoot, IsRoot
    <3>1. e # lo /\ f # lo
      BY <1>6 DEF TypeOK
    <3>2. IsRoot(e) /\ IsRoot(f)
      BY <1>6, <3>1 DEF IsRoot, TypeOK
    <3>3. cls[e] # cls[lo] /\ cls[f] # cls[lo]
      BY <2>1, <3>1, <3>2 DEF OneRoot, Forest
    <3>4. \A g \in Elem : cls[g] # cls[lo] =>
            cls'[g] = IF cls[g] = cls[hi] THEN cls'[hi] ELSE cls[g]
      BY <1>2, <1>3, <1>6 DEF TypeOK
    <3>5. QED
      <4>1. cls[hi] # cls[lo]
        BY <1>6, <2>1 DEF OneRoot, Forest
      <4>2. cls'[hi] = cls[cur]
        BY <1>2, <1>6 DEF TypeOK
      <4>3. cls[e] = cls[f]
        BY <1>2, <1>6, <3>3, <3>4, <4>1, <4>2 DEF TypeOK
      <4>4. QED
        BY <3>2, <4>3 DEF OneRoot, Forest
  <2>4. RankClimbs'
    <3> SUFFICES ASSUME NEW e \in Elem, parent'[e] # e
                 PROVE  rank'[e] < rank'[parent'[e]]
      BY DEF RankClimbs, IsRoot
    <3>1. CASE e = lo
      BY <1>6, <3>1 DEF TypeOK
    <3>2. CASE e # lo
      <4>1. parent'[e] = parent[e] /\ parent[e] \in Elem /\ e # hi
        BY <1>6, <2>1, <3>2 DEF TypeOK, IsRoot
      <4>2. rank[e] < rank[parent[e]] /\ rank'[e] = rank[e]
        BY <1>6, <4>1 DEF RankClimbs, Forest, IsRoot
      <4>3. rank[parent[e]] <= rank'[parent[e]]
        <5>1. rank[parent[e]] \in Nat
          BY <4>1 DEF TypeOK
        <5>2. CASE parent[e] = hi
          BY <1>6, <5>2
        <5>3. CASE parent[e] # hi
          BY <1>6, <4>1, <5>1, <5>3
        <5>4. QED
          BY <5>2, <5>3
      <4>4. rank[e] \in Nat /\ rank[parent[e]] \in Nat /\ rank'[parent[e]] \in Nat
        BY <1>6, <4>1 DEF TypeOK
      <4>5. QED
        BY <4>1, <4>2, <4>3, <4>4
    <3>3. QED
      BY <3>1, <3>2
  <2>5. Pushed'
    <3>1. lo \in known /\ hi \in known
      BY <1>3, <1>6
    <3>2. \A e \in Elem : parent'[e] # e => e \in known /\ parent'[e] \in known
      BY <1>6, <3>1 DEF Pushed, Forest, TypeOK, IsRoot
    <3>3. QED
      BY <1>2, <3>2 DEF Pushed, IsRoot
  <2>6. QED
    BY <1>4, <2>2, <2>3, <2>4, <2>5 DEF Forest
<1>7. CASE root # cur /\ rank[cur] < rank[root]
  <2>1. /\ parent' = [parent EXCEPT ![cur] = root]
        /\ rank' = rank
    BY <1>2, <1>7 DEF LinkRoots, TypeOK
  <2>2. /\ rank[root] \in Nat /\ rank[cur] \in Nat /\ rank' \in [Elem -> Nat]
        /\ rank'[cur] = rank[cur] /\ rank'[cur] < rank'[root]
        /\ rank[root] <= rank'[root]
        /\ \A e \in Elem : e # root => rank'[e] = rank[e]
    BY <1>3, <1>7, <2>1 DEF TypeOK
  <2>3. QED
    BY <1>3, <1>6, <1>7, <2>1, <2>2
<1>8. CASE root # cur /\ rank[root] < rank[cur]
  <2>1. /\ parent' = [parent EXCEPT ![root] = cur]
        /\ rank' = rank
    BY <1>2, <1>8 DEF LinkRoots, TypeOK
  <2>2. /\ rank[root] \in Nat /\ rank[cur] \in Nat /\ rank' \in [Elem -> Nat]
        /\ rank'[root] = rank[root] /\ rank'[root] < rank'[cur]
        /\ rank[cur] <= rank'[cur]
        /\ \A e \in Elem : e # cur => rank'[e] = rank[e]
    BY <1>3, <1>8, <2>1 DEF TypeOK
  <2>3. QED
    BY <1>3, <1>6, <1>8, <2>1, <2>2
<1>9. CASE root # cur /\ rank[root] = rank[cur]
  <2>1. /\ parent' = [parent EXCEPT ![root] = cur]
        /\ rank' = [rank EXCEPT ![cur] = @ + 1]
    BY <1>2, <1>9 DEF LinkRoots, TypeOK
  <2>2. /\ rank[root] \in Nat /\ rank[cur] \in Nat /\ rank' \in [Elem -> Nat]
        /\ rank'[root] = rank[root] /\ rank'[root] < rank'[cur]
        /\ rank[cur] <= rank'[cur]
        /\ \A e \in Elem : e # cur => rank'[e] = rank[e]
    BY <1>3, <1>9, <2>1 DEF TypeOK
  <2>3. QED
    BY <1>3, <1>6, <1>9, <2>1, <2>2
<1>10. QED
  BY <1>3, <1>5, <1>7, <1>8, <1>9 DEF TypeOK

\* The forest is the partition the union calls built, at every step of every
\* climb, compression and link; rank grows towards the root, so it is acyclic.
THEOREM UnionFindForest == Spec => []Forest
<1>1. Init => Forest
  BY DEF Init, Forest, SameClass, OneRoot, RankClimbs, WalkOK, Pushed, IsRoot
<1>2. TypeOK /\ Forest /\ [Next]_vars => Forest'
  <2> SUFFICES ASSUME TypeOK, Forest, [Next]_vars PROVE Forest'
    OBVIOUS
  <2>1. CASE CheckUfEq
    BY <2>1 DEF CheckUfEq, AtRoot, Forest, SameClass, OneRoot, RankClimbs, WalkOK, Pushed,
                IsRoot, node
  <2>2. CASE Clear
    BY <2>2 DEF Clear, Forest, SameClass, OneRoot, RankClimbs, WalkOK, Pushed, IsRoot
  <2>3. CASE UNCHANGED vars
    BY <2>3 DEF vars, node, Forest, SameClass, OneRoot, RankClimbs, WalkOK, Pushed,
                IsRoot, Target
  <2>4. QED
    BY <2>1, <2>2, <2>3, StartForest, ClimbForest, CompressForest, FindSecondForest,
       UnionForest DEF Next, Resume
<1>3. QED
  BY <1>1, <1>2, UnionFindType, PTL DEF Spec

\* When both climbs are over, comparing the two roots compares the classes.
LEMMA RootsDecide ==
  ASSUME TypeOK, Forest, AtRoot(2)
  PROVE  /\ call \in Calls /\ call.x \in Elem /\ call.y \in Elem
         /\ root = cur <=> cls[call.x] = cls[call.y]
<1>1. /\ call \in Calls /\ IsRoot(cur) /\ cls[cur] = cls[call.y]
      /\ IsRoot(root) /\ cls[root] = cls[call.x]
  BY AtRootClass DEF Forest
<1>2. QED
  BY <1>1 DEF Forest, OneRoot, TypeOK, Calls

\* check_uf_eq answers from the equivalence closure of the union calls.
THEOREM UnionFindAnswer == Spec => []AnswerRight
<1> USE DEF AnswerRight, EC!NoAnswer, EC!Answer
<1>1. Init => AnswerRight
  BY DEF Init
<1>2. TypeOK /\ Forest /\ AnswerRight /\ [Next]_vars => AnswerRight'
  <2> SUFFICES ASSUME TypeOK, Forest, AnswerRight, [Next]_vars PROVE AnswerRight'
    OBVIOUS
  <2>1. ASSUME NEW op \in {"union", "check"}, NEW x \in Elem, NEW y \in Elem,
               Start(op, x, y)
        PROVE AnswerRight'
    BY <2>1 DEF Start
  <2>2. CASE Climb \/ Compress \/ FindSecond
    BY <2>2 DEF Climb, Compress, FindSecond, AtRoot, node
  <2>3. CASE Union
    BY <2>3 DEF Union, AtRoot
  <2>4. CASE CheckUfEq
    BY <2>4, RootsDecide DEF CheckUfEq, node
  <2>5. CASE Clear
    BY <2>5 DEF Clear
  <2>6. CASE UNCHANGED vars
    BY <2>6 DEF vars, node
  <2> HIDE DEF AnswerRight
  <2>7. QED
    BY <2>1, <2>2, <2>3, <2>4, <2>5, <2>6 DEF Next, Resume
<1>3. QED
  BY <1>1, <1>2, UnionFindType, UnionFindForest, PTL DEF Spec

\* The abstract relation, read off the history of union calls.
Rel == {p \in Elem \X Elem : cls[p[1]] = cls[p[2]]}

\* The union-find structure implements the cache def_eq relies on: its steps
\* are the cache's operations, one per call, and stutters inside a call.
THEOREM UnionFindImplementsEqCache == Spec => ImplementsEqCache
<1>1. Init => EC!Init
  BY DEF Init, EC!Init, EC!Identity
<1>2. TypeOK /\ Forest /\ AnswerRight /\ [Next]_vars => [EC!Next]_<<Rel, answer>>
  <2> SUFFICES ASSUME TypeOK, Forest, AnswerRight, [Next]_vars
               PROVE [EC!Next]_<<Rel, answer>>
    OBVIOUS
  <2>1. ASSUME NEW op \in {"union", "check"}, NEW x \in Elem, NEW y \in Elem,
               Start(op, x, y)
        PROVE EC!Begin
    BY <2>1 DEF Start, EC!Begin
  <2>2. CASE Climb \/ Compress \/ FindSecond
    BY <2>2 DEF Climb, Compress, FindSecond, node, Rel
  <2>3. CASE Union
    <3>1. call \in Calls /\ call.x \in Elem /\ call.y \in Elem
      BY <2>3, RootsDecide DEF Union
    <3>2. answer = EC!NoAnswer /\ answer' = answer
      BY <2>3 DEF Union, AtRoot, AnswerRight
    <3>3. cls' = [e \in Elem |-> IF cls[e] = cls[call.x] THEN cls[call.y] ELSE cls[e]]
      BY <2>3 DEF Union
    <3>4. Rel' = EC!Join(Rel, call.x, call.y)
      BY <3>1, <3>3 DEF EC!Join, Rel
    <3>5. QED
      BY <3>1, <3>2, <3>4, Zenon DEF EC!Next, EC!Union, Rel
  <2>4. CASE CheckUfEq
    <3>1. /\ call.x \in Elem /\ call.y \in Elem
          /\ root = cur <=> <<call.x, call.y>> \in Rel
      BY <2>4, RootsDecide DEF CheckUfEq, Rel
    <3>2. answer' = EC!Answer(call.x, call.y, <<call.x, call.y>> \in Rel)
      BY <2>4, <3>1 DEF CheckUfEq, EC!Answer
    <3>3. QED
      BY <2>4, <3>1, <3>2, Zenon DEF EC!Next, EC!Check, CheckUfEq, Rel
  <2>5. CASE Clear
    BY <2>5 DEF Clear, EC!Next, EC!Clear, EC!Identity
  <2>6. CASE UNCHANGED vars
    BY <2>6 DEF vars, Rel
  <2>7. QED
    BY <2>1, <2>2, <2>3, <2>4, <2>5, <2>6 DEF Next, Resume, EC!Next
<1>3. QED
  BY <1>1, <1>2, UnionFindType, UnionFindForest, UnionFindAnswer, PTL
     DEF Spec, ImplementsEqCache, EC!Spec, Rel
------------------------------------------------------------------------------
(***************************************************************************)
(* The relation read off the parent pointers, and union by rank            *)
(***************************************************************************)
\* Every class has a root, ranks are bounded, and classes are finite, whatever
\* the set of elements is.
HasRoot == \A e \in Elem : \E r \in Elem : IsRoot(r) /\ cls[r] = cls[e]
RanksBounded == \E b \in Nat : \A e \in Elem : rank[e] <= b
ClassesFinite == \A e \in Elem : IsFiniteSet(ClassOf(e))
Shape == HasRoot /\ RanksBounded /\ ClassesFinite /\ RankBound

\* What `union` does to the forest: nothing, if the roots are one; or one root
\* goes under the other, whose rank grows if they were level.
LEMMA UnionEffect ==
  ASSUME TypeOK, Forest, Union
  PROVE  \/ UNCHANGED <<parent, rank, cls>>
         \/ \E lo, hi \in Elem :
              /\ IsRoot(lo) /\ IsRoot(hi) /\ cls[lo] # cls[hi]
              /\ parent' = [parent EXCEPT ![lo] = hi]
              /\ \E c \in {cls[lo], cls[hi]} :
                   cls' = [e \in Elem |-> IF cls[e] \in {cls[lo], cls[hi]} THEN c ELSE cls[e]]
              /\ \/ rank[lo] < rank[hi] /\ rank' = rank
                 \/ rank[lo] = rank[hi] /\ rank' = [rank EXCEPT ![hi] = @ + 1]
<1>1. /\ call \in Calls /\ root \in Elem /\ cur \in Elem
      /\ IsRoot(cur) /\ cls[cur] = cls[call.y]
      /\ IsRoot(root) /\ cls[root] = cls[call.x]
  BY AtRootClass DEF Union, Forest, TypeOK
<1>2. /\ LinkRoots(root, cur)
      /\ cls' = [e \in Elem |-> IF cls[e] = cls[root] THEN cls[cur] ELSE cls[e]]
  BY <1>1 DEF Union
<1>3. CASE root = cur
  <2>1. cls' = [e \in Elem |-> cls[e]]
    BY <1>2, <1>3
  <2>2. QED
    BY <1>2, <1>3, <2>1 DEF LinkRoots, TypeOK
<1>4. CASE root # cur
  <2>1. cls[root] # cls[cur]
    BY <1>1, <1>4 DEF Forest, OneRoot
  <2>2. cls' = [e \in Elem |-> IF cls[e] \in {cls[root], cls[cur]} THEN cls[cur] ELSE cls[e]]
    BY <1>2
  <2>3. rank[root] \in Nat /\ rank[cur] \in Nat
    BY <1>1 DEF TypeOK
  <2>4. CASE rank[cur] < rank[root]
    <3>1. parent' = [parent EXCEPT ![cur] = root] /\ rank' = rank
      BY <1>2, <1>4, <2>3, <2>4 DEF LinkRoots
    <3>2. cls' = [e \in Elem |-> IF cls[e] \in {cls[cur], cls[root]} THEN cls[cur] ELSE cls[e]]
      BY <2>2
    <3>3. QED
      BY <1>1, <2>1, <2>4, <3>1, <3>2
  <2>5. CASE ~ (rank[cur] < rank[root])
    <3>1. /\ parent' = [parent EXCEPT ![root] = cur]
          /\ \/ rank[root] < rank[cur] /\ rank' = rank
             \/ rank[root] = rank[cur] /\ rank' = [rank EXCEPT ![cur] = @ + 1]
      BY <1>2, <1>4, <2>3, <2>5 DEF LinkRoots
    <3>2. QED
      BY <1>1, <2>1, <2>2, <3>1
  <2>6. QED
    BY <2>4, <2>5
<1>5. QED
  BY <1>3, <1>4

\* Joining two classes adds their sizes, so the rank of the new root is still
\* covered.
LEMMA LinkShape ==
  ASSUME TypeOK, Forest, Shape, TypeOK',
         NEW lo \in Elem, NEW hi \in Elem, IsRoot(lo), IsRoot(hi), cls[lo] # cls[hi],
         parent' = [parent EXCEPT ![lo] = hi],
         NEW c \in {cls[lo], cls[hi]},
         cls' = [e \in Elem |-> IF cls[e] \in {cls[lo], cls[hi]} THEN c ELSE cls[e]],
         \/ rank[lo] < rank[hi] /\ rank' = rank
         \/ rank[lo] = rank[hi] /\ rank' = [rank EXCEPT ![hi] = @ + 1]
  PROVE  Shape'
<1> DEFINE L == ClassOf(lo)
           H == ClassOf(hi)
<1>1. \A e \in Elem :
        /\ cls[e] \in {cls[lo], cls[hi]} => cls'[e] = c /\ ClassOf(e)' = L \cup H
        /\ cls[e] \notin {cls[lo], cls[hi]} => cls'[e] = cls[e] /\ ClassOf(e)' = ClassOf(e)
  <2> SUFFICES ASSUME NEW e \in Elem
               PROVE  /\ cls[e] \in {cls[lo], cls[hi]} =>
                           cls'[e] = c /\ ClassOf(e)' = L \cup H
                      /\ cls[e] \notin {cls[lo], cls[hi]} =>
                           cls'[e] = cls[e] /\ ClassOf(e)' = ClassOf(e)
    OBVIOUS
  <2>1. /\ cls' = [g \in Elem |-> IF cls[g] \in {cls[lo], cls[hi]} THEN c ELSE cls[g]]
        /\ c = cls[lo] \/ c = cls[hi]
    OBVIOUS
  <2>2. CASE cls[e] \in {cls[lo], cls[hi]}
    <3>1. cls'[e] = c /\ \A g \in Elem : cls'[g] = c <=> cls[g] \in {cls[lo], cls[hi]}
      BY <2>1, <2>2
    <3>2. ClassOf(e)' = L \cup H
      BY <3>1 DEF ClassOf
    <3>3. QED
      BY <2>2, <3>1, <3>2
  <2>3. CASE cls[e] \notin {cls[lo], cls[hi]}
    <3>1. cls'[e] = cls[e] /\ \A g \in Elem : cls'[g] = cls[e] <=> cls[g] = cls[e]
      BY <2>1, <2>3
    <3>2. ClassOf(e)' = ClassOf(e)
      BY <3>1 DEF ClassOf
    <3>3. QED
      BY <2>3, <3>1, <3>2
  <2>4. QED
    BY <2>2, <2>3
<1>2. /\ parent'[hi] = hi /\ parent'[lo] = hi /\ lo # hi
      /\ \A e \in Elem : e # lo => parent'[e] = parent[e]
  BY DEF TypeOK, IsRoot
<1>3. HasRoot'
  <2> SUFFICES ASSUME NEW e \in Elem
               PROVE  \E r \in Elem : parent'[r] = r /\ cls'[r] = cls'[e]
    BY DEF HasRoot, IsRoot
  <2>1. CASE cls[e] \in {cls[lo], cls[hi]}
    BY <1>1, <1>2, <2>1
  <2>2. CASE cls[e] \notin {cls[lo], cls[hi]}
    <3>1. PICK r \in Elem : IsRoot(r) /\ cls[r] = cls[e]
      BY DEF Shape, HasRoot
    <3>2. QED
      BY <1>1, <1>2, <2>2, <3>1 DEF IsRoot
  <2>3. QED
    BY <2>1, <2>2
<1>4. RanksBounded'
  <2>1. PICK b \in Nat : \A e \in Elem : rank[e] <= b
    BY DEF Shape, RanksBounded
  <2>2. ASSUME NEW e \in Elem PROVE rank'[e] <= b + 1
    <3>1. rank[e] \in Nat /\ rank[e] <= b
      BY <2>1 DEF TypeOK
    <3>2. rank' = rank \/ rank' = [rank EXCEPT ![hi] = @ + 1]
      OBVIOUS
    <3>3. rank \in [Elem -> Nat]
      BY DEF TypeOK
    <3>4. rank'[e] = rank[e] \/ rank'[e] = rank[e] + 1
      BY <3>2, <3>3
    <3>5. QED
      BY <3>1, <3>4
  <2>3. b + 1 \in Nat
    OBVIOUS
  <2>4. QED
    BY <2>2, <2>3 DEF RanksBounded
<1>5. /\ IsFiniteSet(L) /\ IsFiniteSet(H) /\ L \cap H = {}
      /\ IsFiniteSet(L \cup H) /\ Cardinality(L \cup H) = Cardinality(L) + Cardinality(H)
  <2>1. IsFiniteSet(L) /\ IsFiniteSet(H) /\ L \cap H = {}
    BY DEF Shape, ClassesFinite, ClassOf
  <2> HIDE DEF L, H
  <2>2. /\ IsFiniteSet(L \cup H)
        /\ Cardinality(L \cup H) = Cardinality(L) + Cardinality(H) - Cardinality(L \cap H)
    BY <2>1, FS_Union
  <2>3. Cardinality(L \cap H) = 0 /\ Cardinality(L) \in Nat /\ Cardinality(H) \in Nat
    BY <2>1, FS_EmptySet, FS_CardinalityType
  <2>4. QED
    BY <2>1, <2>2, <2>3
<1>6. ClassesFinite'
  <2> SUFFICES ASSUME NEW e \in Elem PROVE IsFiniteSet(ClassOf(e)')
    BY DEF ClassesFinite
  <2>1. IsFiniteSet(ClassOf(e))
    BY DEF Shape, ClassesFinite
  <2> HIDE DEF L, H
  <2>2. QED
    BY <1>1, <1>5, <2>1
<1>7. RankBound'
  <2> SUFFICES ASSUME NEW e \in Elem, parent'[e] = e
               PROVE  Cardinality(ClassOf(e)') >= 2 ^ rank'[e]
    BY DEF RankBound, IsRoot
  <2>1. e # lo /\ IsRoot(e)
    BY <1>2 DEF IsRoot
  <2>2. CASE e # hi
    <3>1. cls[e] \notin {cls[lo], cls[hi]} /\ rank'[e] = rank[e]
      BY <2>1, <2>2 DEF Forest, OneRoot, TypeOK
    <3>2. QED
      BY <1>1, <2>1, <3>1 DEF Shape, RankBound
  <2>3. CASE e = hi
    <3>1. ClassOf(e)' = L \cup H
      BY <1>1, <2>3
    <3>2. Cardinality(L) >= 2 ^ rank[lo] /\ Cardinality(H) >= 2 ^ rank[hi]
      BY DEF Shape, RankBound
    <3>3. rank[lo] \in Nat /\ rank[hi] \in Nat
      BY DEF TypeOK
    <3>4. 2 ^ rank[lo] \in Nat /\ 2 ^ rank[hi] \in Nat
      BY <3>3, PowersOfTwo
    <3>5. Cardinality(L) \in Nat /\ Cardinality(H) \in Nat
      BY <1>5, FS_CardinalityType
    <3>6. \/ rank'[e] = rank[hi]
          \/ rank[lo] = rank[hi] /\ rank'[e] = rank[hi] + 1
      <4>1. rank \in [Elem -> Nat]
        BY DEF TypeOK
      <4>2. QED
        BY <2>3, <4>1
    <3>7. 2 ^ (rank[hi] + 1) = 2 * 2 ^ rank[hi]
      <4>1. \A k \in Nat : 2 ^ (k + 1) = 2 * 2 ^ k
        BY PowersOfTwo
      <4> HIDE DEF L, H
      <4>2. QED
        BY <3>3, <4>1, Zenon
    <3> HIDE DEF L, H
    <3>8. Cardinality(L) + Cardinality(H) >= 2 ^ rank'[e]
      <4>1. CASE rank'[e] = rank[hi]
        BY <3>2, <3>4, <3>5, <4>1
      <4>2. CASE rank[lo] = rank[hi] /\ rank'[e] = rank[hi] + 1
        BY <3>2, <3>4, <3>5, <3>7, <4>2
      <4>3. QED
        BY <3>6, <4>1, <4>2
    <3>9. QED
      BY <1>5, <3>1, <3>8
  <2>4. QED
    BY <2>2, <2>3
<1>8. QED
  BY <1>3, <1>4, <1>6, <1>7 DEF Shape

\* A step that changes neither roots nor ranks nor classes keeps the shape.
LEMMA SameRootsShape ==
  ASSUME Shape, UNCHANGED <<rank, cls>>,
         \A e \in Elem : parent'[e] = e <=> parent[e] = e
  PROVE  Shape'
<1>1. \A e \in Elem : ClassOf(e)' = ClassOf(e)
  BY DEF ClassOf
<1>2. HasRoot' /\ RanksBounded'
  BY DEF Shape, HasRoot, RanksBounded, IsRoot
<1>3. ClassesFinite'
  BY <1>1 DEF Shape, ClassesFinite
<1>4. RankBound'
  BY <1>1 DEF Shape, RankBound, IsRoot
<1>5. QED
  BY <1>2, <1>3, <1>4 DEF Shape

\* The forest the cache starts from, and returns to when it is cleared.
Fresh == parent = [e \in Elem |-> e] /\ rank = [e \in Elem |-> 0] /\ cls = [e \in Elem |-> e]
LEMMA FreshShape == Fresh => Shape
<1> SUFFICES ASSUME Fresh PROVE Shape
  OBVIOUS
<1> USE DEF Fresh
<1>1. \A e \in Elem : ClassOf(e) = {e}
  BY DEF ClassOf
<1>2. \A e \in Elem : IsFiniteSet({e}) /\ Cardinality({e}) = 1
  BY FS_Singleton
<1>3. 2 ^ 0 = 1
  BY PowersOfTwo
<1>4. HasRoot /\ RanksBounded
  BY DEF HasRoot, RanksBounded, IsRoot
<1>5. ClassesFinite
  BY <1>1, <1>2 DEF ClassesFinite
<1>6. RankBound
  <2> SUFFICES ASSUME NEW e \in Elem PROVE Cardinality(ClassOf(e)) >= 2 ^ rank[e]
    BY DEF RankBound
  <2>1. rank[e] = 0 /\ Cardinality(ClassOf(e)) = 1
    BY <1>1, <1>2
  <2>2. QED
    BY <1>3, <2>1
<1>7. QED
  BY <1>4, <1>5, <1>6 DEF Shape

\* Every class keeps a root, bounded ranks and enough elements for its rank.
THEOREM UnionFindShape == Spec => []Shape
<1>1. Init => Shape
  BY FreshShape DEF Init, Fresh
<1>2. Fresh' => Shape'
  BY FreshShape, PTL
<1>3. TypeOK /\ TypeOK' /\ Forest /\ Shape /\ [Next]_vars => Shape'
  <2> SUFFICES ASSUME TypeOK, TypeOK', Forest, Shape, [Next]_vars PROVE Shape'
    OBVIOUS
  <2>1. ASSUME NEW op \in {"union", "check"}, NEW x \in Elem, NEW y \in Elem,
               Start(op, x, y)
        PROVE Shape'
    BY <2>1, SameRootsShape DEF Start
  <2>2. CASE Climb \/ FindSecond \/ CheckUfEq \/ UNCHANGED vars
    BY <2>2, SameRootsShape DEF Climb, FindSecond, CheckUfEq, vars, node
  <2>3. CASE Compress
    <3>1. /\ walk[Len(walk)] \in Elem /\ ~ IsRoot(walk[Len(walk)]) /\ IsRoot(cur)
      BY <2>3, PopStack DEF Compress, TypeOK, Forest, WalkOK
    <3>2. parent' = [parent EXCEPT ![walk[Len(walk)]] = cur] /\ UNCHANGED <<rank, cls>>
      BY <2>3 DEF Compress
    <3>3. \A e \in Elem : parent'[e] = e <=> parent[e] = e
      BY <3>1, <3>2 DEF TypeOK, IsRoot
    <3>4. QED
      BY <3>2, <3>3, SameRootsShape
  <2>4. CASE Union
    BY <2>4, UnionEffect, LinkShape, SameRootsShape
  <2>5. CASE Clear
    BY <1>2, <2>5 DEF Clear, Fresh
  <2>6. QED
    BY <2>1, <2>2, <2>3, <2>4, <2>5 DEF Next, Resume
<1>4. QED
  BY <1>1, <1>3, UnionFindType, UnionFindForest, PTL DEF Spec

\* Union by rank keeps the climbs logarithmic.
THEOREM UnionFindRank == Spec => []RankBound
<1>1. Shape => RankBound
  BY DEF Shape
<1>2. QED
  BY <1>1, UnionFindShape, PTL

\* Following the parents from an element ends at the root of its class.
LEMMA RootOfClass ==
  ASSUME TypeOK, Forest, Shape
  PROVE  \A e \in Elem : RootOf[e] \in Elem /\ IsRoot(RootOf[e]) /\ cls[RootOf[e]] = cls[e]
<1> DEFINE Eqn(f) == f = [e \in Elem |-> IF IsRoot(e) THEN e ELSE f[parent[e]]]
           IsClassRoot(e, r) == r \in Elem /\ IsRoot(r) /\ cls[r] = cls[e]
           g == [e \in Elem |-> CHOOSE r \in Elem : IsRoot(r) /\ cls[r] = cls[e]]
<1>1. \A e \in Elem : IsClassRoot(e, g[e])
  BY DEF Shape, HasRoot
<1>2. \A e, r, s : IsClassRoot(e, r) /\ IsClassRoot(e, s) => r = s
  BY DEF Forest, OneRoot
<1>3. Eqn(g)
  <2> SUFFICES ASSUME NEW e \in Elem PROVE g[e] = IF IsRoot(e) THEN e ELSE g[parent[e]]
    OBVIOUS
  <2>1. CASE IsRoot(e)
    <3>1. IsClassRoot(e, e)
      BY <2>1
    <3>2. QED
      BY <1>1, <1>2, <2>1, <3>1
  <2>2. CASE ~ IsRoot(e)
    <3>1. parent[e] \in Elem /\ cls[parent[e]] = cls[e]
      BY DEF TypeOK, Forest, SameClass
    <3>2. IsClassRoot(e, g[parent[e]])
      BY <1>1, <3>1
    <3>3. QED
      BY <1>1, <1>2, <2>2, <3>2
  <2>3. QED
    BY <2>1, <2>2
<1> HIDE DEF g
<1>4. Eqn(RootOf)
  <2>1. RootOf = CHOOSE f : Eqn(f)
    BY DEF RootOf
  <2> HIDE DEF Eqn
  <2>2. QED
    BY <1>3, <2>1, Zenon
<1>5. \A e \in Elem : RootOf[e] = IF IsRoot(e) THEN e ELSE RootOf[parent[e]]
  BY <1>4
<1> HIDE DEF Eqn
<1>6. PICK b \in Nat : \A e \in Elem : rank[e] <= b
  BY DEF Shape, RanksBounded
<1> DEFINE Bad == {e \in Elem : ~ IsClassRoot(e, RootOf[e])}
           T == {b - rank[e] : e \in Bad}
<1>7. T \in SUBSET Nat
  BY <1>6 DEF TypeOK
<1>8. Bad = {}
  <2> SUFFICES ASSUME Bad # {} PROVE FALSE
    OBVIOUS
  <2>1. \E t \in T : \A u \in T : t <= u
    <3>1. T # {}
      OBVIOUS
    <3> HIDE DEF T
    <3>2. QED
      BY <1>7, <3>1, LeastNat
  <2>2. PICK e \in Bad : \A f \in Bad : b - rank[e] <= b - rank[f]
    BY <2>1
  <2>3. CASE IsRoot(e)
    BY <1>5, <2>3
  <2>4. CASE ~ IsRoot(e)
    <3>1. RootOf[e] = RootOf[parent[e]]
      BY <1>5, <2>4
    <3>2. parent[e] \in Elem /\ cls[parent[e]] = cls[e]
      BY DEF TypeOK, Forest, SameClass
    <3>3. parent[e] \in Bad
      BY <3>1, <3>2
    <3>4. rank[e] < rank[parent[e]]
      BY <2>4 DEF Forest, RankClimbs
    <3>5. rank[e] \in Nat /\ rank[parent[e]] \in Nat
      BY <3>2 DEF TypeOK
    <3>6. QED
      BY <2>2, <3>3, <3>4, <3>5
  <2>5. QED
    BY <2>3, <2>4
<1>9. QED
  BY <1>8

\* Reading the relation off the parent pointers gives the partition the union
\* calls built, at every step of a climb, a compression or a link.
THEOREM UnionFindPartition == Spec => []ForestIsPartition
<1>1. TypeOK /\ Forest /\ Shape => ForestIsPartition
  <2> SUFFICES ASSUME TypeOK, Forest, Shape, NEW e \in Elem, NEW f \in Elem
               PROVE  RootOf[e] = RootOf[f] <=> cls[e] = cls[f]
    BY DEF ForestIsPartition
  <2>1. /\ RootOf[e] \in Elem /\ IsRoot(RootOf[e]) /\ cls[RootOf[e]] = cls[e]
        /\ RootOf[f] \in Elem /\ IsRoot(RootOf[f]) /\ cls[RootOf[f]] = cls[f]
    BY RootOfClass
  <2>2. QED
    BY <2>1 DEF Forest, OneRoot
<1>2. QED
  BY <1>1, UnionFindType, UnionFindForest, UnionFindShape, PTL
------------------------------------------------------------------------------
(***************************************************************************)
(* Every call returns, and its recursion is shallow                        *)
(***************************************************************************)
\* The rank grows along the recursion stack and up to the point reached, and with
\* it the rank is at least the depth.  The map is finite.
WalkClimbs ==
  /\ \A i, j \in 1 .. Len(walk) : i < j => rank[walk[i]] < rank[walk[j]]
  /\ \A i \in 1 .. Len(walk) : i <= rank[walk[i]] + 1

WalkInv == TypeOK /\ Forest /\ WalkClimbs /\ IsFiniteSet(known)

\* Between two climbs there is no stack.
LEMMA NoWalk ==
  ASSUME walk' = <<>>
  PROVE  WalkClimbs'
<1>1. Len(walk') = 0 /\ 1 .. 0 = {}
  BY EmptySeq
<1>2. QED
  BY <1>1 DEF WalkClimbs

\* What a step of the climb puts on the stack, and what a return takes off it.
LEMMA ClimbEffect ==
  ASSUME TypeOK, Forest, Climb
  PROVE  /\ Len(walk) \in Nat /\ Len(walk') = Len(walk) + 1 /\ walk'[Len(walk) + 1] = cur
         /\ \A i \in 1 .. Len(walk) : /\ walk'[i] = walk[i] /\ walk[i] \in Elem
                                      /\ rank[walk[i]] \in Nat /\ rank[walk[i]] < rank[cur]
         /\ UNCHANGED <<known, parent, rank, call>> /\ cur \in Elem /\ cur' = parent[cur]
         /\ cur' \in Elem /\ rank[cur] \in Nat /\ rank[cur'] \in Nat /\ rank[cur] < rank[cur']
         /\ call \in Calls /\ cur' \in known
<1>1. /\ call # Idle /\ ~ IsRoot(cur) /\ walk' = Append(walk, cur) /\ cur' = parent[cur]
      /\ UNCHANGED <<known, parent, rank, call>>
  BY DEF Climb, node
<1>2. /\ walk \in Seq(Elem) /\ cur \in Elem /\ parent[cur] \in Elem /\ call \in Calls
      /\ \A e \in Elem : rank[e] \in Nat
  BY <1>1 DEF TypeOK
<1>3. /\ Len(walk) \in Nat /\ Len(walk') = Len(walk) + 1 /\ walk'[Len(walk) + 1] = cur
      /\ \A i \in 1 .. Len(walk) : walk'[i] = walk[i]
  BY <1>1, <1>2, AppendProperties, LenProperties
<1>4. rank[cur] < rank[parent[cur]] /\ parent[cur] \in known
  BY <1>1, <1>2 DEF Forest, RankClimbs, Pushed
<1>5. \A i \in 1 .. Len(walk) : walk[i] \in Elem /\ rank[walk[i]] < rank[cur]
  BY <1>1, <1>2, ElementOfSeq DEF Forest, WalkOK
<1>6. QED
  BY <1>1, <1>2, <1>3, <1>4, <1>5

LEMMA CompressEffect ==
  ASSUME TypeOK, Forest, Compress
  PROVE  /\ Len(walk) \in Nat \ {0} /\ Len(walk) \in 1 .. Len(walk) /\ Len(walk') = Len(walk) - 1
         /\ \A i \in 1 .. Len(walk) - 1 : walk'[i] = walk[i]
         /\ \A i \in 1 .. Len(walk) :
              /\ walk[i] \in Elem /\ walk[i] \in known /\ walk[i] # cur
              /\ rank[walk[i]] \in Nat /\ rank[walk[i]] < rank[cur]
         /\ UNCHANGED <<known, rank, call, cur>> /\ call \in Calls /\ rank[cur] \in Nat
<1>1. /\ call # Idle /\ IsRoot(cur) /\ walk # <<>> /\ walk' = SubSeq(walk, 1, Len(walk) - 1)
      /\ UNCHANGED <<known, rank, call, cur>>
  BY DEF Compress
<1>2. /\ walk \in Seq(Elem) /\ cur \in Elem /\ call \in Calls
      /\ \A e \in Elem : rank[e] \in Nat
  BY <1>1 DEF TypeOK
<1>3. /\ Len(walk) \in 1 .. Len(walk) /\ Len(walk') = Len(walk) - 1
      /\ \A i \in 1 .. Len(walk) - 1 : walk'[i] = walk[i]
  BY <1>1, <1>2, PopStack
<1>4. Len(walk) \in Nat \ {0}
  BY <1>1, <1>2, EmptySeq, LenProperties
<1>5. \A i \in 1 .. Len(walk) : walk[i] \in Elem /\ rank[walk[i]] < rank[cur] /\ ~ IsRoot(walk[i])
  BY <1>1, <1>2, ElementOfSeq DEF Forest, WalkOK
<1>6. \A i \in 1 .. Len(walk) : walk[i] \in known
  BY <1>5 DEF Forest, Pushed
<1>7. QED
  BY <1>1, <1>2, <1>3, <1>4, <1>5, <1>6

\* A climb stacks elements of growing rank.
LEMMA ClimbKeepsClimbing ==
  ASSUME TypeOK, Forest, WalkClimbs, Climb
  PROVE  WalkClimbs'
<1> DEFINE n == Len(walk)
<1>0. n \in Nat /\ Len(walk') = n + 1 /\ walk'[n + 1] = cur /\ rank' = rank /\ rank[cur] \in Nat
  BY ClimbEffect
<1>1. \A i \in 1 .. n : /\ walk'[i] = walk[i]
                        /\ rank[walk[i]] \in Nat /\ rank[walk[i]] < rank[cur]
  BY ClimbEffect
<1>2. n <= rank[cur]
  <2>1. CASE n = 0
    BY <1>0, <2>1
  <2>2. CASE n # 0
    <3>1. n \in 1 .. n
      BY <1>0, <2>2
    <3>2. n <= rank[walk[n]] + 1 /\ rank[walk[n]] < rank[cur] /\ rank[walk[n]] \in Nat
      BY <1>1, <3>1 DEF WalkClimbs
    <3>3. QED
      BY <1>0, <3>2
  <2>3. QED
    BY <2>1, <2>2
<1> HIDE DEF n
<1>3. \A i \in 1 .. n + 1 : i \in 1 .. n \/ i = n + 1
  BY <1>0
<1>4. ASSUME NEW i \in 1 .. n + 1 PROVE i <= rank'[walk'[i]] + 1
  <2>1. CASE i \in 1 .. n
    BY <1>0, <1>1, <2>1 DEF WalkClimbs, n
  <2>2. CASE i = n + 1
    BY <1>0, <1>2, <2>2
  <2>3. QED
    BY <1>3, <2>1, <2>2
<1>5. ASSUME NEW i \in 1 .. n + 1, NEW j \in 1 .. n + 1, i < j
      PROVE  rank'[walk'[i]] < rank'[walk'[j]]
  <2>1. i \in 1 .. n
    BY <1>0, <1>5
  <2>2. CASE j \in 1 .. n
    BY <1>0, <1>1, <1>5, <2>1, <2>2 DEF WalkClimbs, n
  <2>3. CASE j = n + 1
    BY <1>0, <1>1, <2>1, <2>3
  <2>4. QED
    BY <1>3, <2>2, <2>3
<1>6. QED
  BY <1>0, <1>4, <1>5 DEF WalkClimbs

\* A return leaves the rest of the stack.
LEMMA ReturnKeepsClimbing ==
  ASSUME TypeOK, Forest, WalkClimbs, Compress
  PROVE  WalkClimbs'
<1> DEFINE n == Len(walk)
<1>1. /\ n \in Nat /\ Len(walk') = n - 1 /\ rank' = rank
      /\ \A i \in 1 .. n - 1 : walk'[i] = walk[i]
  BY CompressEffect
<1>2. /\ \A i, j \in 1 .. n : i < j => rank[walk[i]] < rank[walk[j]]
      /\ \A i \in 1 .. n : i <= rank[walk[i]] + 1
  BY DEF WalkClimbs
<1> HIDE DEF n
<1>3. \A i \in 1 .. n - 1 : i \in 1 .. n
  BY <1>1
<1>4. /\ \A i, j \in 1 .. n - 1 : i < j => rank'[walk'[i]] < rank'[walk'[j]]
      /\ \A i \in 1 .. n - 1 : i <= rank'[walk'[i]] + 1
  BY <1>1, <1>2, <1>3
<1>5. QED
  BY <1>1, <1>4 DEF WalkClimbs

\* The ranks grow along the stack in every state, and the map is finite.
THEOREM UnionFindWalk == Spec => []WalkInv
<1>1. Init => WalkClimbs /\ IsFiniteSet(known)
  <2>1. ASSUME Init PROVE WalkClimbs /\ IsFiniteSet(known)
    <3>1. walk = <<>> /\ known = {}
      BY <2>1 DEF Init
    <3>2. Len(walk) = 0 /\ 1 .. 0 = {}
      BY <3>1, EmptySeq
    <3>3. QED
      BY <3>1, <3>2, FS_EmptySet DEF WalkClimbs
  <2>2. QED
    BY <2>1
<1>2. WalkInv /\ [Next]_vars => WalkClimbs' /\ IsFiniteSet(known)'
  <2> SUFFICES ASSUME WalkInv, [Next]_vars PROVE WalkClimbs' /\ IsFiniteSet(known')
    OBVIOUS
  <2>0. TypeOK /\ Forest /\ WalkClimbs /\ IsFiniteSet(known)
    BY DEF WalkInv
  <2>1. ASSUME NEW op \in {"union", "check"}, NEW x \in Elem, NEW y \in Elem,
               Start(op, x, y)
        PROVE WalkClimbs' /\ IsFiniteSet(known')
    <3>1. walk = <<>> /\ walk' = walk /\ known' = known \cup {x, y}
      BY <2>0, <2>1 DEF Start, Forest, WalkOK
    <3>2. IsFiniteSet({x}) /\ IsFiniteSet({y}) /\ {x, y} = {x} \cup {y}
      BY FS_Singleton
    <3>3. IsFiniteSet(known')
      BY <2>0, <3>1, <3>2, FS_Union
    <3>4. QED
      BY <3>1, <3>3, NoWalk
  <2>2. CASE Climb
    BY <2>0, <2>2, ClimbKeepsClimbing, ClimbEffect
  <2>3. CASE Compress
    BY <2>0, <2>3, ReturnKeepsClimbing, CompressEffect
  <2>4. CASE FindSecond \/ Union \/ CheckUfEq
    <3>1. walk' = <<>> /\ known' = known
      BY <2>4 DEF FindSecond, Union, CheckUfEq, AtRoot, node
    <3>2. QED
      BY <2>0, <3>1, NoWalk
  <2>5. CASE Clear
    <3>1. walk' = <<>> /\ known' = {}
      BY <2>0, <2>5 DEF Clear, Forest, WalkOK
    <3>2. QED
      BY <3>1, NoWalk, FS_EmptySet
  <2>6. CASE UNCHANGED vars
    BY <2>0, <2>6 DEF vars, node, WalkClimbs
  <2>7. QED
    BY <2>1, <2>2, <2>3, <2>4, <2>5, <2>6 DEF Next, Resume
<1>3. QED
  <2>1. Spec => [](WalkClimbs /\ IsFiniteSet(known))
    BY <1>1, <1>2, UnionFindType, UnionFindForest, PTL DEF Spec, WalkInv
  <2>2. QED
    BY <2>1, UnionFindType, UnionFindForest, PTL DEF WalkInv

\* A greater exponent gives no smaller power of two.
LEMMA PowersGrow ==
  ASSUME NEW m \in Nat, NEW n \in Nat, m <= n
  PROVE  2 ^ m <= 2 ^ n
<1> DEFINE Bad == {k \in Nat : m <= k /\ ~ (2 ^ m <= 2 ^ k)}
<1> SUFFICES ASSUME Bad # {} PROVE FALSE
  OBVIOUS
<1>1. PICK k \in Bad : \A j \in Bad : k <= j
  BY LeastNat
<1>2. \A j \in Nat : 2 ^ j \in Nat
  BY PowersOfTwo
<1>3. k \in Nat /\ m <= k /\ k # m /\ ~ (2 ^ m <= 2 ^ k)
  BY <1>2
<1>4. k - 1 \in Nat /\ m <= k - 1 /\ (k - 1) + 1 = k
  BY <1>3
<1>5. 2 ^ m <= 2 ^ (k - 1)
  BY <1>1, <1>4
<1>6. 2 ^ k = 2 * 2 ^ (k - 1)
  BY <1>4, PowersOfTwo
<1>7. QED
  BY <1>2, <1>3, <1>4, <1>5, <1>6

\* find_parent_idx recurses at most log2 of the class deep: when a climb has come
\* to the root, as many elements as 2 to the power of the depth are in its class.
Shallow ==
  call # Idle /\ IsRoot(cur) =>
    Len(walk) <= rank[cur] /\ 2 ^ Len(walk) <= Cardinality(ClassOf(cur))

THEOREM UnionFindShallow == Spec => []Shallow
<1>1. ASSUME WalkInv, Shape PROVE Shallow
  <2> DEFINE n == Len(walk)
  <2> SUFFICES ASSUME call # Idle, IsRoot(cur)
               PROVE  n <= rank[cur] /\ 2 ^ n <= Cardinality(ClassOf(cur))
    BY DEF Shallow
  <2>1. /\ cur \in Elem /\ n \in Nat /\ \A e \in Elem : rank[e] \in Nat
        /\ \A i \in 1 .. n : walk[i] \in Elem
    BY <1>1, LenProperties, ElementOfSeq DEF WalkInv, TypeOK
  <2>2. n <= rank[cur]
    <3>1. CASE n = 0
      BY <2>1, <3>1
    <3>2. CASE n # 0
      <4>1. n \in 1 .. n
        BY <2>1, <3>2
      <4>2. n <= rank[walk[n]] + 1 /\ rank[walk[n]] < rank[cur]
        BY <1>1, <4>1 DEF WalkInv, WalkClimbs, Forest, WalkOK
      <4>3. QED
        BY <2>1, <4>1, <4>2
    <3>3. QED
      BY <3>1, <3>2
  <2>3. 2 ^ n <= 2 ^ rank[cur] /\ 2 ^ n \in Nat /\ 2 ^ rank[cur] \in Nat
    BY <2>1, <2>2, PowersGrow, PowersOfTwo
  <2>4. 2 ^ rank[cur] <= Cardinality(ClassOf(cur)) /\ Cardinality(ClassOf(cur)) \in Nat
    <3>1. IsFiniteSet(ClassOf(cur))
      BY <1>1, <2>1 DEF Shape, ClassesFinite
    <3>2. Cardinality(ClassOf(cur)) \in Nat
      BY <3>1, FS_CardinalityType
    <3>3. QED
      BY <1>1, <2>1, <2>3, <3>2 DEF Shape, RankBound
  <2>5. QED
    BY <2>2, <2>3, <2>4
<1>2. QED
  BY <1>1, UnionFindWalk, UnionFindShape, PTL

\* The elements that a climb of the call, to the root of its first or second
\* argument, can still go up to, and those it can still come back to.  Before a
\* climb both may be any element of the map, after it there is none.
Phase(arg, rest) ==
  IF call = Idle \/ call.arg > arg THEN {} ELSE IF call.arg < arg THEN known ELSE rest
GoingUp(arg) == Phase(arg, {e \in known : rank[cur] < rank[e]})
ComingBack(arg) ==
  Phase(arg, {e \in known : e = cur \/ rank[cur] < rank[e] \/ \E i \in 1 .. Len(walk) : walk[i] = e})

CallLeft == <<GoingUp(1), ComingBack(1), GoingUp(2), ComingBack(2)>>
Shrinks == (\A i \in 1 .. 4 : CallLeft'[i] \subseteq CallLeft[i]) /\ CallLeft' # CallLeft

\* It is enough to show that each part shrinks and one of them differs.
LEMMA Parts ==
  ASSUME /\ GoingUp(1)' \subseteq GoingUp(1) /\ ComingBack(1)' \subseteq ComingBack(1)
         /\ GoingUp(2)' \subseteq GoingUp(2) /\ ComingBack(2)' \subseteq ComingBack(2),
         \/ GoingUp(1)' # GoingUp(1) \/ ComingBack(1)' # ComingBack(1)
         \/ GoingUp(2)' # GoingUp(2) \/ ComingBack(2)' # ComingBack(2)
  PROVE  Shrinks
BY DEF Shrinks, CallLeft

\* A step up and a step back, in whichever climb of the call.
LEMMA ClimbStepShrinks ==
  ASSUME WalkInv, Climb \/ Compress
  PROVE  Shrinks
<1> DEFINE up == {e \in known : rank[cur] < rank[e]}
           back == {e \in known : \/ e = cur \/ rank[cur] < rank[e]
                                  \/ \E i \in 1 .. Len(walk) : walk[i] = e}
<1>1. TypeOK /\ Forest /\ WalkClimbs
  BY DEF WalkInv
<1>2. /\ call' = call /\ known' = known /\ rank' = rank /\ call # Idle /\ call \in Calls
      /\ known \subseteq Elem /\ \A e \in Elem : rank[e] \in Nat
  BY <1>1, ClimbEffect, CompressEffect DEF Climb, Compress, TypeOK
<1>3. call.arg \in {1, 2}
  BY <1>2 DEF Calls
<1>4. up' \subseteq up /\ back' \subseteq back /\ (up' # up \/ back' # back)
  <2>1. CASE Climb
    <3>1. /\ rank[cur] < rank[cur'] /\ cur' \in known /\ cur \in Elem /\ cur' \in Elem
          /\ Len(walk) \in Nat /\ Len(walk') = Len(walk) + 1 /\ walk'[Len(walk) + 1] = cur
          /\ \A i \in 1 .. Len(walk) : walk'[i] = walk[i]
      BY <1>1, <2>1, ClimbEffect
    <3>2. \A e \in known : rank[cur'] < rank[e] => rank[cur] < rank[e]
      BY <1>2, <3>1
    <3>3. up' \subseteq up /\ cur' \in up /\ cur' \notin up'
      BY <1>2, <3>1, <3>2
    <3>4. \A i \in 1 .. Len(walk') : i \in 1 .. Len(walk) \/ i = Len(walk) + 1
      BY <3>1
    <3>5. \A i \in 1 .. Len(walk') : walk'[i] = cur \/ \E k \in 1 .. Len(walk) : walk[k] = walk'[i]
      BY <3>1, <3>4
    <3>6. back' \subseteq back
      BY <1>2, <3>1, <3>2, <3>5
    <3>7. QED
      BY <3>3, <3>6
  <2>2. CASE Compress
    <3> DEFINE n == Len(walk)
    <3>1. /\ n \in Nat \ {0} /\ n \in 1 .. n /\ Len(walk') = n - 1 /\ cur' = cur
          /\ \A i \in 1 .. n - 1 : walk'[i] = walk[i]
      BY <1>1, <2>2, CompressEffect
    <3>2. /\ walk[n] \in known /\ walk[n] # cur /\ rank[walk[n]] < rank[cur]
          /\ \A i \in 1 .. n : rank[walk[i]] \in Nat
          /\ rank[cur] \in Nat
      BY <1>1, <2>2, <3>1, CompressEffect
    <3> HIDE DEF n
    <3>3. \A i \in 1 .. n - 1 : i \in 1 .. n /\ i < n
      BY <3>1
    <3>4. \A i \in 1 .. n - 1 : walk[i] # walk[n]
      <4>1. \A i \in 1 .. n - 1 : rank[walk[i]] < rank[walk[n]]
        BY <1>1, <3>1, <3>3 DEF WalkClimbs, n
      <4>2. QED
        BY <3>1, <3>2, <3>3, <4>1
    <3>5. walk[n] \in back
      BY <3>1, <3>2 DEF n
    <3>6. walk[n] \notin back'
      BY <1>2, <3>1, <3>2, <3>4
    <3>7. up' \subseteq up /\ back' \subseteq back
      BY <1>2, <3>1, <3>3 DEF n
    <3>8. QED
      BY <3>5, <3>6, <3>7
  <2>3. QED
    BY <2>1, <2>2
<1>5. \A a \in {1, 2} : /\ GoingUp(a) = Phase(a, up) /\ ComingBack(a) = Phase(a, back)
                        /\ GoingUp(a)' = Phase(a, up') /\ ComingBack(a)' = Phase(a, back')
  BY <1>2 DEF GoingUp, ComingBack, Phase
<1> HIDE DEF up, back
<1>6. \A a \in {1, 2} : /\ GoingUp(a)' \subseteq GoingUp(a) /\ ComingBack(a)' \subseteq ComingBack(a)
                        /\ a = call.arg => \/ GoingUp(a)' # GoingUp(a)
                                           \/ ComingBack(a)' # ComingBack(a)
  BY <1>2, <1>3, <1>4, <1>5 DEF Phase
<1>7. QED
  BY <1>3, <1>6, Parts

\* At the root of the first argument the second climb begins, and at that of the
\* second the call ends.
LEMMA RootFoundShrinks ==
  ASSUME WalkInv, FindSecond \/ Union \/ CheckUfEq
  PROVE  Shrinks
<1>1. /\ call # Idle /\ call \in Calls /\ call.arg \in {1, 2} /\ known' = known /\ cur \in known
  <2>1. call # Idle /\ call \in Calls /\ known' = known
    BY DEF FindSecond, Union, CheckUfEq, AtRoot, WalkInv, TypeOK, node
  <2>2. QED
    BY <2>1 DEF Calls, WalkInv, Forest, Pushed
<1>2. \A a \in {1, 2} : GoingUp(a) \subseteq known /\ ComingBack(a) \subseteq known
  BY DEF GoingUp, ComingBack, Phase
<1>3. cur \in ComingBack(call.arg)
  BY <1>1 DEF ComingBack, Phase
<1>4. CASE FindSecond
  <2>1. call.arg = 1 /\ call' = [call EXCEPT !.arg = 2]
    BY <1>4 DEF FindSecond, AtRoot
  <2>2. call'.arg = 2
    BY <1>1, <2>1 DEF Calls
  <2>3. GoingUp(2) = known /\ ComingBack(2) = known
    BY <1>1, <2>1 DEF GoingUp, ComingBack, Phase
  <2>4. GoingUp(2)' \subseteq known /\ ComingBack(2)' \subseteq known
    BY <1>1 DEF GoingUp, ComingBack, Phase
  <2>5. GoingUp(1)' = {} /\ ComingBack(1)' = {}
    BY <2>2 DEF GoingUp, ComingBack, Phase
  <2>6. QED
    BY <1>3, <2>1, <2>3, <2>4, <2>5, Parts
<1>5. CASE Union \/ CheckUfEq
  <2>1. call.arg = 2 /\ call' = Idle
    BY <1>5 DEF Union, CheckUfEq, AtRoot
  <2>2. GoingUp(1)' = {} /\ ComingBack(1)' = {} /\ GoingUp(2)' = {} /\ ComingBack(2)' = {}
    BY <2>1 DEF GoingUp, ComingBack, Phase
  <2>3. QED
    BY <1>3, <2>1, <2>2, Parts
<1>6. QED
  BY <1>4, <1>5

\* Every call returns: each step of a call takes something for good from the
\* finitely much that the call can still go up to or come back to.
THEOREM UnionFindShrinks ==
  Spec => [][call # Idle => Shrinks]_vars /\ [](\A i \in 1 .. 4 : IsFiniteSet(CallLeft[i]))
<1>1. WalkInv /\ [Next]_vars => [call # Idle => Shrinks]_vars
  <2> SUFFICES ASSUME WalkInv, Next, call # Idle PROVE Shrinks
    OBVIOUS
  <2>1. Resume
    BY DEF Next, Start, Clear
  <2>2. QED
    BY <2>1, ClimbStepShrinks, RootFoundShrinks DEF Resume
<1>2. WalkInv => \A i \in 1 .. 4 : IsFiniteSet(CallLeft[i])
  <2> SUFFICES ASSUME WalkInv PROVE \A i \in 1 .. 4 : IsFiniteSet(CallLeft[i])
    OBVIOUS
  <2>1. \A a \in {1, 2} : GoingUp(a) \subseteq known /\ ComingBack(a) \subseteq known
    BY DEF GoingUp, ComingBack, Phase
  <2>2. \A a \in {1, 2} : IsFiniteSet(GoingUp(a)) /\ IsFiniteSet(ComingBack(a))
    BY <2>1, FS_Subset DEF WalkInv
  <2>3. QED
    BY <2>2 DEF CallLeft
<1>3. QED
  BY <1>1, <1>2, UnionFindWalk, PTL DEF Spec
==============================================================================
