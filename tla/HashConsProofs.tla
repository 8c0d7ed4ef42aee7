--------------------------- MODULE HashConsProofs ----------------------------
(***************************************************************************)
(* Theorems about the term store for any contexts, names and table sizes:  *)
(* a node of the environment is never stored twice, so that in a context   *)
(* two pointers are equal exactly when their nodes are; a pointer keeps    *)
(* its meaning; every context implements the abstract Interner; and the    *)
(* same holds of the whole terms that pointers stand for.                  *)
(***************************************************************************)
EXTENDS HashCons, SequenceTheorems, SetLemmas, TLAPS

------------------------------------------------------------------------------
(***************************************************************************)
(* Tables                                                                  *)
(***************************************************************************)
\* get_index_of returns the index of the node.
LEMMA IndexOfFinds ==
  ASSUME NEW n, NEW t, InTable(n, t)
  PROVE  IndexOf(n, t) \in 1 .. Len(t) /\ t[IndexOf(n, t)] = n
BY DEF InTable, IndexOf

\* Inserting a node keeps every entry at its index, adds at most that node at
\* the end, and does not store a node a second time.
LEMMA InsertKeeps ==
  ASSUME NEW S, NEW t \in Seq(S), NEW n \in S
  PROVE  /\ Insert(n, t) \in Seq(S)
         /\ Len(t) <= Len(Insert(n, t))
         /\ \A i \in 1 .. Len(t) : Insert(n, t)[i] = t[i]
         /\ \A i \in 1 .. Len(Insert(n, t)) : i \in 1 .. Len(t) \/ Insert(n, t)[i] = n
         /\ InTable(n, Insert(n, t))
         /\ Distinct(t) => Distinct(Insert(n, t))
         /\ InTable(n, t) => Insert(n, t) = t
<1>1. CASE InTable(n, t)
  BY <1>1 DEF Insert
<1>2. CASE ~ InTable(n, t)
  <2>1. Insert(n, t) = Append(t, n)
    BY <1>2 DEF Insert
  <2>2. /\ Append(t, n) \in Seq(S)
        /\ Len(Append(t, n)) = Len(t) + 1
        /\ \A i \in 1 .. Len(t) : Append(t, n)[i] = t[i]
        /\ Append(t, n)[Len(t) + 1] = n
        /\ Len(t) \in Nat
    OBVIOUS
  <2>3. InTable(n, Append(t, n))
    BY <2>2 DEF InTable
  <2>4. Distinct(t) => Distinct(Append(t, n))
    BY <1>2, <2>2 DEF Distinct, InTable
  <2>5. QED
    BY <1>2, <2>1, <2>2, <2>3, <2>4
<1>3. QED
  BY <1>1, <1>2

------------------------------------------------------------------------------
(***************************************************************************)
(* Nodes                                                                   *)
(***************************************************************************)
\* More pointers make more nodes.
LEMMA MoreNodes ==
  ASSUME NEW P, NEW Q, NEW E, NEW F, P \subseteq Q, E \subseteq F
  PROVE  /\ NameNodes(P) \subseteq NameNodes(Q)
         /\ TermNodes(P, E) \subseteq TermNodes(Q, F)
         /\ TermNodes(P, E) \subseteq ExprNodes(Q, F)
         /\ ExprNodes(P, E) \subseteq ExprNodes(Q, F)
BY DEF NameNodes, TermNodes, ExprNodes

\* What is_expr_local_only finds cannot be a node of the export store.
LEMMA LocalOnlyNotExported ==
  ASSUME NEW i, NEW j, NEW e \in TermNodes({"ExportFile"} \X (1 .. i), {"ExportFile"} \X (1 .. j))
  PROVE  ~ IsExprLocalOnly(e)
<1>1. \A p \in {"ExportFile"} \X (1 .. i) : ~ IsTc(p)
  BY DEF IsTc
<1>2. \A p \in {"ExportFile"} \X (1 .. j) : ~ IsTc(p)
  BY DEF IsTc
<1>3. CASE \E p \in {"ExportFile"} \X (1 .. i) : e = Const(p)
  BY <1>1, <1>3 DEF Const, IsExprLocalOnly
<1>4. CASE \E f \in {"ExportFile"} \X (1 .. j), a \in {"ExportFile"} \X (1 .. j) : e = App(f, a)
  BY <1>2, <1>4 DEF App, IsExprLocalOnly
<1>5. QED
  BY <1>3, <1>4 DEF TermNodes

\* The pointers in use are pointers the model has.
LEMMA PtrsInUse ==
  ASSUME TypeOK, NEW c \in live
  PROVE  /\ NamePtrs(c) \subseteq Ptrs /\ ExprPtrs(c) \subseteq Ptrs
         /\ NameNodes(NamePtrs(c)) \subseteq AllNames
         /\ ExprNodes(NamePtrs(c), ExprPtrs(c)) \subseteq AllExprs
<1>1. /\ Len(names) \in 1 .. Cap /\ Len(exprs) \in Nat /\ Len(exprs) <= Cap
      /\ Len(localNames[c]) \in 1 .. LocalCap
      /\ Len(localExprs[c]) \in Nat /\ Len(localExprs[c]) <= LocalCap
      /\ Cap \in Nat /\ LocalCap \in Nat
  BY CapAssumption, LenProperties DEF TypeOK, ExportOK, StoreOK
<1>2. NamePtrs(c) \subseteq Ptrs /\ ExprPtrs(c) \subseteq Ptrs
  BY <1>1 DEF NamePtrs, ExprPtrs, Ptrs, ExportPtr, TcPtr
<1>3. QED
  BY <1>2, MoreNodes DEF AllNames, AllExprs

\* What a pointer in use reads as is a node.
LEMMA ReadInAll ==
  ASSUME TypeOK, NEW c \in live
  PROVE  /\ \A p \in NamePtrs(c) : ReadName(c, p) \in AllNames
         /\ \A p \in ExprPtrs(c) : ReadExpr(c, p) \in AllExprs
<1>1. /\ {"ExportFile"} \X (1 .. Len(names)) \subseteq Ptrs
      /\ {"ExportFile"} \X (1 .. Len(exprs)) \subseteq Ptrs
  BY PtrsInUse DEF NamePtrs, ExprPtrs
<1>2. /\ names \in Seq(AllNames) /\ exprs \in Seq(AllExprs)
      /\ localNames[c] \in Seq(AllNames) /\ localExprs[c] \in Seq(AllExprs)
  <2> DEFINE P == {"ExportFile"} \X (1 .. Len(names))
             E == {"ExportFile"} \X (1 .. Len(exprs))
  <2>1. names \in Seq(NameNodes(P)) /\ exprs \in Seq(TermNodes(P, E))
    BY DEF TypeOK, ExportOK
  <2>2. P \subseteq Ptrs /\ E \subseteq Ptrs
    BY <1>1
  <2> HIDE DEF P, E
  <2>3. NameNodes(P) \subseteq AllNames /\ TermNodes(P, E) \subseteq AllExprs
    BY <2>2, MoreNodes DEF AllNames, AllExprs
  <2>4. names \in Seq(AllNames) /\ exprs \in Seq(AllExprs)
    BY <2>1, <2>3, SeqMonotonic
  <2>5. QED
    BY <2>4 DEF TypeOK
<1>3. /\ \A i \in 1 .. Len(names) : names[i] \in AllNames
      /\ \A i \in 1 .. Len(exprs) : exprs[i] \in AllExprs
      /\ \A i \in 1 .. Len(localNames[c]) : localNames[c][i] \in AllNames
      /\ \A i \in 1 .. Len(localExprs[c]) : localExprs[c][i] \in AllExprs
      /\ Len(localNames[c]) \in Nat
  <2> HIDE DEF AllNames, AllExprs
  <2>1. \A i \in 1 .. Len(names) : names[i] \in AllNames
    BY <1>2, ElementOfSeq
  <2>2. \A i \in 1 .. Len(exprs) : exprs[i] \in AllExprs
    BY <1>2, ElementOfSeq
  <2>3. \A i \in 1 .. Len(localNames[c]) : localNames[c][i] \in AllNames
    BY <1>2, ElementOfSeq
  <2>4. \A i \in 1 .. Len(localExprs[c]) : localExprs[c][i] \in AllExprs
    BY <1>2, ElementOfSeq
  <2>5. Len(localNames[c]) \in Nat
    BY <1>2, LenProperties
  <2>6. QED
    BY <2>1, <2>2, <2>3, <2>4, <2>5
<1>4. QED
  <2>1. \A i \in 2 .. Len(localNames[c]) : localNames[c][i] \in AllNames
    BY <1>3
  <2> HIDE DEF AllNames, AllExprs
  <2>2. ASSUME NEW p \in NamePtrs(c) PROVE ReadName(c, p) \in AllNames
    <3>1. CASE IsTc(p)
      BY <2>1, <3>1 DEF NamePtrs, ReadName, IsTc
    <3>2. CASE ~ IsTc(p)
      BY <1>3, <3>2 DEF NamePtrs, ReadName, IsTc
    <3>3. QED
      BY <3>1, <3>2
  <2>3. ASSUME NEW p \in ExprPtrs(c) PROVE ReadExpr(c, p) \in AllExprs
    <3>1. CASE IsTc(p)
      BY <1>3, <3>1 DEF ExprPtrs, ReadExpr, IsTc
    <3>2. CASE ~ IsTc(p)
      BY <1>3, <3>2 DEF ExprPtrs, ReadExpr, IsTc
    <3>3. QED
      BY <3>1, <3>2
  <2>4. QED
    BY <2>2, <2>3

\* The program starts with well-typed stores.
LEMMA HashConsInitType ==
  ASSUME Init
  PROVE  TypeOK
<1>1. ExportOK
  <2>1. names = <<Anon>> /\ exprs = <<>>
    BY DEF Init
  <2>2. Anon \in NameNodes({"ExportFile"} \X (1 .. 1))
    BY DEF NameNodes
  <2>3. <<Anon>> \in Seq(NameNodes({"ExportFile"} \X (1 .. 1))) /\ Len(<<Anon>>) = 1
    BY <2>2
  <2>4. <<>> \in Seq(TermNodes({"ExportFile"} \X (1 .. 1), {"ExportFile"} \X (1 .. 0))) /\ Len(<<>>) = 0
    BY EmptySeq
  <2>5. QED
    BY <2>1, <2>3, <2>4, CapAssumption DEF ExportOK
<1>2. <<>> \in Seq(AllNames) /\ <<>> \in Seq(AllExprs)
  BY EmptySeq
<1>3. QED
  BY <1>1, <1>2 DEF Init, TypeOK, Outs

\* The stores keep their types.
THEOREM HashConsType == Spec => []TypeOK
<1>1. Init => TypeOK
  BY HashConsInitType
<1>2. TypeOK /\ [Next]_vars => TypeOK'
  <2> SUFFICES ASSUME TypeOK, [Next]_vars PROVE TypeOK'
    OBVIOUS
  <2>1. CASE UNCHANGED vars
    BY <2>1 DEF vars, export, TypeOK, ExportOK, StoreOK, NamePtrs, ExprPtrs
  <2>2. ASSUME NEW i \in 1 .. Len(names), NEW a \in Atom, BuildName(Ptr("ExportFile", i), a)
        PROVE  TypeOK'
    <3> DEFINE P == {"ExportFile"} \X (1 .. Len(names))
               Q == {"ExportFile"} \X (1 .. Len(names'))
               E == {"ExportFile"} \X (1 .. Len(exprs))
               n == Str(Ptr("ExportFile", i), a)
    <3>1. live = {}
      BY <2>2 DEF BuildName, TypeOK
    <3>2. n \in NameNodes(P)
      BY DEF NameNodes, Ptr
    <3>3. names' \in Seq(NameNodes(P)) /\ Len(names) <= Len(names')
      BY <2>2, <3>2, InsertKeeps DEF BuildName, TypeOK, ExportOK
    <3>4. P \subseteq Q /\ Len(names') \in 1 .. Cap
      BY <2>2, <3>3, CapAssumption, LenProperties DEF BuildName, TypeOK, ExportOK
    <3>5. names' \in Seq(NameNodes(Q)) /\ exprs \in Seq(TermNodes(Q, E))
      <4>1. exprs \in Seq(TermNodes(P, E))
        BY DEF TypeOK, ExportOK
      <4> HIDE DEF P, Q, E, n
      <4>2. NameNodes(P) \subseteq NameNodes(Q) /\ TermNodes(P, E) \subseteq TermNodes(Q, E)
        BY <3>4, MoreNodes
      <4>3. QED
        BY <3>3, <4>1, <4>2, SeqMonotonic
    <3>6. ExportOK'
      BY <2>2, <3>4, <3>5 DEF BuildName, TypeOK, ExportOK
    <3>7. QED
      BY <2>2, <3>1, <3>6 DEF BuildName, Unopened, TypeOK
  <2>3. ASSUME NEW e \in TermNodes({"ExportFile"} \X (1 .. Len(names)),
                                    {"ExportFile"} \X (1 .. Len(exprs))), BuildExpr(e)
        PROVE  TypeOK'
    <3> DEFINE P == {"ExportFile"} \X (1 .. Len(names))
               E == {"ExportFile"} \X (1 .. Len(exprs))
               F == {"ExportFile"} \X (1 .. Len(exprs'))
    <3>1. live = {}
      BY <2>3 DEF BuildExpr, TypeOK
    <3>2. exprs' \in Seq(TermNodes(P, E)) /\ Len(exprs) <= Len(exprs')
      BY <2>3, InsertKeeps DEF BuildExpr, TypeOK, ExportOK
    <3>3. E \subseteq F
      BY <3>2, LenProperties DEF TypeOK, ExportOK
    <3>4. exprs' \in Seq(TermNodes(P, F))
      BY <3>2, <3>3, MoreNodes, SeqMonotonic
    <3>5. ExportOK'
      BY <2>3, <3>4 DEF BuildExpr, TypeOK, ExportOK
    <3>6. QED
      BY <2>3, <3>1, <3>5 DEF BuildExpr, Unopened, TypeOK
  <2>4. CASE Finish
    BY <2>4 DEF Finish, Unopened, TypeOK, ExportOK, StoreOK, NamePtrs, ExprPtrs
  <2>5. ASSUME NEW c \in Ctx, Open(c) PROVE TypeOK'
    <3>1. /\ live' = live \cup {c} /\ out[c] = NoOut /\ c \notin live
          /\ localNames'[c] = <<Anon>> /\ localExprs'[c] = <<>>
          /\ \A d \in Ctx \ {c} : localNames'[d] = localNames[d] /\ localExprs'[d] = localExprs[d]
          /\ UNCHANGED <<phase, names, exprs, out>>
      BY <2>5 DEF Open, export, TypeOK
    <3>2. StoreOK(c)'
      <4>1. Anon \in NameNodes(NamePtrs(c)')
        BY DEF NameNodes
      <4>2. <<Anon>> \in Seq(NameNodes(NamePtrs(c)')) /\ Len(<<Anon>>) = 1
        BY <4>1
      <4>3. <<>> \in Seq(ExprNodes(NamePtrs(c)', ExprPtrs(c)')) /\ Len(<<>>) = 0
        BY EmptySeq
      <4>4. QED
        BY <3>1, <4>2, <4>3, CapAssumption DEF StoreOK
    <3>3. \A d \in live : StoreOK(d)'
      BY <3>1 DEF TypeOK, StoreOK, NamePtrs, ExprPtrs
    <3>4. <<Anon>> \in Seq(AllNames) /\ <<>> \in Seq(AllExprs)
      BY EmptySeq DEF AllNames, NameNodes
    <3>5. ExportOK'
      BY <3>1 DEF TypeOK, ExportOK
    <3>6. QED
      BY <2>5, <3>1, <3>2, <3>3, <3>4, <3>5 DEF Open, TypeOK
  <2>6. ASSUME NEW c \in Ctx, Close(c) PROVE TypeOK'
    <3>1. /\ live' = live \ {c}
          /\ localNames'[c] = <<>> /\ localExprs'[c] = <<>> /\ out'[c] = NoOut
          /\ \A d \in Ctx \ {c} : /\ localNames'[d] = localNames[d]
                                  /\ localExprs'[d] = localExprs[d] /\ out'[d] = out[d]
          /\ UNCHANGED <<phase, names, exprs>>
      BY <2>6 DEF Close, export, TypeOK
    <3>2. \A d \in live' : StoreOK(d)'
      BY <3>1 DEF TypeOK, StoreOK, NamePtrs, ExprPtrs
    <3>3. <<>> \in Seq(AllNames) /\ <<>> \in Seq(AllExprs) /\ NoOut \in Outs
      BY EmptySeq DEF Outs
    <3>4. ExportOK'
      BY <3>1 DEF TypeOK, ExportOK
    <3>5. QED
      BY <2>6, <3>1, <3>2, <3>3, <3>4 DEF Close, TypeOK
  <2>7. ASSUME NEW c \in Ctx, NEW n \in NameNodes(NamePtrs(c)), AllocName(c, n)
        PROVE  TypeOK'
    <3> DEFINE t == localNames[c]
               u == localNames'[c]
               o == out'[c]
    <3>1. c \in live /\ UNCHANGED <<phase, names, exprs, live, localExprs>>
      BY <2>7 DEF AllocName, export
    <3>2. /\ t \in Seq(NameNodes(NamePtrs(c))) /\ t \in Seq(AllNames) /\ n \in AllNames
          /\ Len(t) \in 1 .. LocalCap
      BY <3>1, PtrsInUse DEF TypeOK, StoreOK
    <3>3. /\ u \in Seq(NameNodes(NamePtrs(c))) /\ u \in Seq(AllNames)
          /\ Len(u) \in 1 .. LocalCap /\ Len(t) <= Len(u)
          /\ o \in Outs
      <4>1. CASE InTable(n, names)
        <5>1. localNames' = localNames /\ o = Out("name", n, Ptr("ExportFile", IndexOf(n, names)))
          BY <2>7, <4>1 DEF AllocName, TypeOK
        <5>2. IndexOf(n, names) \in 1 .. Cap
          BY <4>1, IndexOfFinds, CapAssumption DEF TypeOK, ExportOK
        <5>3. o \in Outs
          BY <3>2, <5>1, <5>2 DEF Outs, Out, Ptr, Ptrs, ExportPtr
        <5>4. QED
          BY <3>2, <5>1, <5>3, CapAssumption
      <4>2. CASE ~ InTable(n, names)
        <5>1. /\ u = Insert(n, t) /\ Len(u) <= LocalCap
              /\ o = Out("name", n, Ptr("TcCtx", IndexOf(n, u)))
          BY <2>7, <4>2 DEF AllocName, TypeOK
        <5>2. u \in Seq(NameNodes(NamePtrs(c))) /\ Len(t) <= Len(u) /\ InTable(n, u)
          BY <3>2, <5>1, InsertKeeps
        <5>3. u \in Seq(AllNames)
          BY <3>2, <5>1, InsertKeeps
        <5>4. Len(u) \in 1 .. LocalCap
          BY <3>2, <5>1, <5>2, CapAssumption, LenProperties
        <5>5. IndexOf(n, u) \in 1 .. LocalCap
          BY <5>2, <5>4, IndexOfFinds, CapAssumption
        <5>6. o \in Outs
          BY <3>2, <5>1, <5>5 DEF Outs, Out, Ptr, Ptrs, TcPtr
        <5>7. QED
          BY <5>2, <5>3, <5>4, <5>6
      <4>3. QED
        BY <4>1, <4>2
    <3>4. /\ localNames' = [localNames EXCEPT ![c] = u]
          /\ out' = [out EXCEPT ![c] = o]
      BY <2>7 DEF AllocName, TypeOK
    <3>5. NamePtrs(c) \subseteq NamePtrs(c)' /\ ExprPtrs(c)' = ExprPtrs(c)
      BY <3>1, <3>2, <3>3, CapAssumption DEF NamePtrs, ExprPtrs
    <3>6. StoreOK(c)'
      <4>1. /\ u \in Seq(NameNodes(NamePtrs(c)'))
            /\ localExprs[c] \in Seq(ExprNodes(NamePtrs(c)', ExprPtrs(c)'))
        <5>1. /\ NameNodes(NamePtrs(c)) \subseteq NameNodes(NamePtrs(c)')
              /\ ExprNodes(NamePtrs(c), ExprPtrs(c)) \subseteq ExprNodes(NamePtrs(c)', ExprPtrs(c)')
          <6>1. ExprPtrs(c) \subseteq ExprPtrs(c)'
            BY <3>5
          <6>2. QED
            BY <3>5, <6>1, MoreNodes
        <5>2. localExprs[c] \in Seq(ExprNodes(NamePtrs(c), ExprPtrs(c)))
          BY <3>1 DEF TypeOK, StoreOK
        <5>3. QED
          BY <3>3, <5>1, <5>2, SeqMonotonic
      <4>2. QED
        BY <3>1, <3>3, <4>1 DEF TypeOK, StoreOK
    <3>7. \A d \in live \ {c} : StoreOK(d)'
      BY <3>1, <3>4 DEF TypeOK, StoreOK, NamePtrs, ExprPtrs
    <3>8. ExportOK'
      BY <3>1 DEF TypeOK, ExportOK
    <3> HIDE DEF t, u, o
    <3>9. QED
      BY <3>1, <3>3, <3>4, <3>6, <3>7, <3>8 DEF TypeOK
  <2>8. ASSUME NEW c \in Ctx, NEW e \in ExprNodes(NamePtrs(c), ExprPtrs(c)), AllocExpr(c, e)
        PROVE  TypeOK'
    <3> DEFINE t == localExprs[c]
               u == localExprs'[c]
               o == out'[c]
    <3>1. c \in live /\ UNCHANGED <<phase, names, exprs, live, localNames>>
      BY <2>8 DEF AllocExpr, export
    <3>2. /\ t \in Seq(ExprNodes(NamePtrs(c), ExprPtrs(c))) /\ t \in Seq(AllExprs) /\ e \in AllExprs
          /\ Len(t) <= LocalCap /\ Len(t) \in Nat
      BY <3>1, PtrsInUse DEF TypeOK, StoreOK
    <3>3. /\ u \in Seq(ExprNodes(NamePtrs(c), ExprPtrs(c))) /\ u \in Seq(AllExprs)
          /\ Len(u) <= LocalCap /\ Len(u) \in Nat /\ Len(t) <= Len(u)
          /\ o \in Outs
      <4>1. CASE (~ InTable(e, t) /\ ~ IsExprLocalOnly(e) /\ InTable(e, exprs))
        <5>1. localExprs' = localExprs /\ o = Out("expr", e, Ptr("ExportFile", IndexOf(e, exprs)))
          BY <2>8, <4>1 DEF AllocExpr, TypeOK
        <5>2. IndexOf(e, exprs) \in 1 .. Cap
          BY <4>1, IndexOfFinds, CapAssumption DEF TypeOK, ExportOK
        <5>3. o \in Outs
          BY <3>2, <5>1, <5>2 DEF Outs, Out, Ptr, Ptrs, ExportPtr
        <5>4. QED
          BY <3>2, <5>1, <5>3, CapAssumption
      <4>2. CASE ~ (~ InTable(e, t) /\ ~ IsExprLocalOnly(e) /\ InTable(e, exprs))
        <5>1. /\ u = Insert(e, t) /\ Len(u) <= LocalCap
              /\ o = Out("expr", e, Ptr("TcCtx", IndexOf(e, u)))
          BY <2>8, <4>2 DEF AllocExpr, TypeOK
        <5>2. u \in Seq(ExprNodes(NamePtrs(c), ExprPtrs(c))) /\ Len(t) <= Len(u) /\ InTable(e, u)
          BY <3>2, <5>1, InsertKeeps
        <5>3. u \in Seq(AllExprs)
          BY <3>2, <5>1, InsertKeeps
        <5>4. Len(u) <= LocalCap /\ Len(u) \in Nat
          BY <3>2, <5>1, <5>2, CapAssumption, LenProperties
        <5>5. IndexOf(e, u) \in 1 .. LocalCap
          BY <5>2, <5>4, IndexOfFinds, CapAssumption
        <5>6. o \in Outs
          BY <3>2, <5>1, <5>5 DEF Outs, Out, Ptr, Ptrs, TcPtr
        <5>7. QED
          BY <5>2, <5>3, <5>4, <5>6
      <4>3. QED
        BY <4>1, <4>2
    <3>4. /\ localExprs' = [localExprs EXCEPT ![c] = u]
          /\ out' = [out EXCEPT ![c] = o]
      BY <2>8 DEF AllocExpr, TypeOK
    <3>5. NamePtrs(c)' = NamePtrs(c) /\ ExprPtrs(c) \subseteq ExprPtrs(c)'
      BY <3>1, <3>2, <3>3, CapAssumption DEF NamePtrs, ExprPtrs
    <3>6. StoreOK(c)'
      <4>1. u \in Seq(ExprNodes(NamePtrs(c)', ExprPtrs(c)'))
        BY <3>3, <3>5, MoreNodes, SeqMonotonic
      <4>2. QED
        BY <3>1, <3>3, <3>5, <4>1 DEF TypeOK, StoreOK
    <3>7. \A d \in live \ {c} : StoreOK(d)'
      BY <3>1, <3>4 DEF TypeOK, StoreOK, NamePtrs, ExprPtrs
    <3>8. ExportOK'
      BY <3>1 DEF TypeOK, ExportOK
    <3> HIDE DEF t, u, o
    <3>9. QED
      BY <3>1, <3>3, <3>4, <3>6, <3>7, <3>8 DEF TypeOK
  <2> HIDE DEF TypeOK
  <2>9. QED
    BY <2>1, <2>2, <2>3, <2>4, <2>5, <2>6, <2>7, <2>8 DEF Next, Build, Check
<1>3. QED
  BY <1>1, <1>2, PTL DEF Spec

------------------------------------------------------------------------------
(***************************************************************************)
(* The invariant                                                           *)
(***************************************************************************)
Inv == NoShadow /\ NoDuplicate /\ Seeded /\ ReadsBack

\* While the environment is built there is no context to disturb.
LEMMA BuildKeepsInv ==
  ASSUME TypeOK, Inv, Build
  PROVE  Inv'
<1>1. live = {} /\ live' = {} /\ UNCHANGED <<localNames, localExprs, out>>
  BY DEF Build, BuildName, BuildExpr, Finish, Unopened, TypeOK
<1>2. NoShadow' /\ ReadsBack'
  BY <1>1 DEF NoShadow, ReadsBack
<1>3. /\ names \in Seq(AllNames) /\ exprs \in Seq(AllExprs) /\ Len(names) \in Nat \ {0}
      /\ NameNodes({"ExportFile"} \X (1 .. Len(names))) \subseteq AllNames
      /\ TermNodes({"ExportFile"} \X (1 .. Len(names)), {"ExportFile"} \X (1 .. Len(exprs))) \subseteq AllExprs
  <2> DEFINE P == {"ExportFile"} \X (1 .. Len(names))
             E == {"ExportFile"} \X (1 .. Len(exprs))
  <2>1. P \subseteq Ptrs /\ E \subseteq Ptrs
    BY CapAssumption, LenProperties DEF TypeOK, ExportOK, Ptrs, ExportPtr
  <2>2. names \in Seq(NameNodes(P)) /\ exprs \in Seq(TermNodes(P, E)) /\ Len(names) \in 1 .. Cap
    BY DEF TypeOK, ExportOK
  <2> HIDE DEF P, E
  <2>3. NameNodes(P) \subseteq AllNames /\ TermNodes(P, E) \subseteq AllExprs
    BY <2>1, MoreNodes DEF AllNames, AllExprs
  <2>4. names \in Seq(AllNames) /\ exprs \in Seq(AllExprs)
    BY <2>2, <2>3, SeqMonotonic
  <2>5. Len(names) \in Nat \ {0}
    BY <2>2, CapAssumption
  <2>6. QED
    BY <2>3, <2>4, <2>5 DEF P, E
<1>4. Distinct(names)' /\ Distinct(exprs)' /\ names'[1] = Anon
  <2>1. CASE Finish
    BY <2>1 DEF Finish, Inv, NoDuplicate, Seeded, Distinct
  <2>2. ASSUME NEW i \in 1 .. Len(names), NEW a \in Atom, BuildName(Ptr("ExportFile", i), a)
        PROVE  Distinct(names)' /\ Distinct(exprs)' /\ names'[1] = Anon
    <3> DEFINE n == Str(Ptr("ExportFile", i), a)
    <3>1. n \in AllNames /\ names \in Seq(AllNames)
      BY <1>3 DEF NameNodes, Ptr
    <3> HIDE DEF n
    <3>2. /\ Distinct(names) => Distinct(Insert(n, names))
          /\ \A j \in 1 .. Len(names) : Insert(n, names)[j] = names[j]
      BY <3>1, InsertKeeps
    <3>3. 1 \in 1 .. Len(names)
      BY <1>3
    <3>4. names' = Insert(n, names) /\ exprs' = exprs
      BY <2>2 DEF BuildName, n
    <3>5. Distinct(names') /\ names'[1] = Anon /\ Distinct(exprs')
      BY <3>2, <3>3, <3>4 DEF Inv, NoDuplicate, Seeded
    <3>6. QED
      BY <3>5 DEF Distinct
  <2>3. ASSUME NEW e \in TermNodes({"ExportFile"} \X (1 .. Len(names)),
                                    {"ExportFile"} \X (1 .. Len(exprs))), BuildExpr(e)
        PROVE  Distinct(names)' /\ Distinct(exprs)' /\ names'[1] = Anon
    <3>1. e \in AllExprs
      BY <1>3
    <3>2. Distinct(exprs) => Distinct(Insert(e, exprs))
      BY <1>3, <3>1, InsertKeeps
    <3>3. exprs' = Insert(e, exprs) /\ names' = names
      BY <2>3 DEF BuildExpr
    <3>4. Distinct(names') /\ names'[1] = Anon /\ Distinct(exprs')
      BY <3>2, <3>3 DEF Inv, NoDuplicate, Seeded
    <3>5. QED
      BY <3>4 DEF Distinct
  <2>4. QED
    BY <2>1, <2>2, <2>3 DEF Build
<1>5. QED
  BY <1>1, <1>2, <1>4 DEF Inv, NoDuplicate, Seeded, Distinct

\* A context starts empty but for the seed, and leaves nothing behind.
LEMMA OpenCloseKeepInv ==
  ASSUME TypeOK, Inv, NEW c \in Ctx, Open(c) \/ Close(c)
  PROVE  Inv'
<1> USE DEF TypeOK
<1>1. CASE Open(c)
  <2>1. /\ live' = live \cup {c} /\ out[c] = NoOut
        /\ localNames'[c] = <<Anon>> /\ localExprs'[c] = <<>>
        /\ \A d \in Ctx \ {c} : localNames'[d] = localNames[d] /\ localExprs'[d] = localExprs[d]
        /\ UNCHANGED <<names, exprs, out>>
    BY <1>1 DEF Open, export
  <2>2. Len(<<Anon>>) = 1 /\ Len(<<>>) = 0 /\ <<Anon>>[1] = Anon
    OBVIOUS
  <2>3. NoShadow'
    BY <2>1, <2>2 DEF Inv, NoShadow, InTable
  <2>4. NoDuplicate'
    <3>1. Distinct(localNames'[c]) /\ Distinct(localExprs'[c])
      BY <2>1, <2>2 DEF Distinct
    <3>2. \A d \in Ctx \ {c} : Distinct(localNames'[d]) /\ Distinct(localExprs'[d])
      BY <2>1 DEF Inv, NoDuplicate
    <3>3. Distinct(names') /\ Distinct(exprs')
      BY <2>1 DEF Inv, NoDuplicate
    <3> QED
      BY <3>1, <3>2, <3>3, Zenon DEF NoDuplicate
  <2>5. Seeded'
    BY <2>1, <2>2 DEF Inv, Seeded
  <2>6. ReadsBack'
    BY <2>1 DEF Inv, ReadsBack, NamePtrs, ExprPtrs, ReadName, ReadExpr, NoOut
  <2>7. QED
    BY <2>3, <2>4, <2>5, <2>6 DEF Inv
<1>2. CASE Close(c)
  <2>1. /\ live' = live \ {c}
        /\ localNames'[c] = <<>> /\ localExprs'[c] = <<>>
        /\ \A d \in Ctx \ {c} : /\ localNames'[d] = localNames[d]
                                /\ localExprs'[d] = localExprs[d] /\ out'[d] = out[d]
        /\ UNCHANGED <<names, exprs>>
    BY <1>2 DEF Close, export
  <2>2. Len(<<>>) = 0
    OBVIOUS
  <2>3. NoShadow'
    BY <2>1 DEF Inv, NoShadow, InTable
  <2>4. NoDuplicate'
    <3>1. Distinct(localNames'[c]) /\ Distinct(localExprs'[c])
      BY <2>1, <2>2 DEF Distinct
    <3>2. \A d \in Ctx \ {c} : Distinct(localNames'[d]) /\ Distinct(localExprs'[d])
      BY <2>1 DEF Inv, NoDuplicate
    <3>3. Distinct(names') /\ Distinct(exprs')
      BY <2>1 DEF Inv, NoDuplicate
    <3> QED
      BY <3>1, <3>2, <3>3, Zenon DEF NoDuplicate
  <2>5. Seeded'
    BY <2>1 DEF Inv, Seeded
  <2>6. ReadsBack'
    BY <2>1 DEF Inv, ReadsBack, NamePtrs, ExprPtrs, ReadName, ReadExpr
  <2>7. QED
    BY <2>3, <2>4, <2>5, <2>6 DEF Inv
<1>3. QED
  BY <1>1, <1>2

\* What alloc_name does: it returns a pointer in use that reads as the node, no
\* other pointer comes into use, and the pointers in use keep their meaning.
LEMMA AllocNameEffect ==
  ASSUME TypeOK, Inv, NEW c \in Ctx, NEW n \in NameNodes(NamePtrs(c)), AllocName(c, n)
  PROVE  /\ c \in live /\ UNCHANGED <<phase, names, exprs, live, localExprs>>
         /\ \A d \in Ctx \ {c} : localNames'[d] = localNames[d] /\ out'[d] = out[d]
         /\ \E p \in NamePtrs(c)' :
              /\ out'[c] = Out("name", n, p) /\ ReadName(c, p)' = n
              /\ NamePtrs(c)' = NamePtrs(c) \cup {p}
         /\ \A p \in NamePtrs(c) : ReadName(c, p)' = ReadName(c, p)
         /\ \A i \in 2 .. Len(localNames'[c]) : ~ InTable(localNames'[c][i], names)
         /\ Distinct(localNames'[c]) /\ localNames'[c][1] = Anon
<1> DEFINE t == localNames[c]
           u == localNames'[c]
<1>1. c \in live /\ UNCHANGED <<phase, names, exprs, live, localExprs>>
  BY DEF AllocName, export
<1>2. \A d \in Ctx \ {c} : localNames'[d] = localNames[d] /\ out'[d] = out[d]
  BY DEF AllocName, TypeOK
<1>3. /\ t \in Seq(AllNames) /\ n \in AllNames /\ Len(t) \in 1 .. LocalCap
      /\ Distinct(t) /\ t[1] = Anon /\ names[1] = Anon /\ Len(names) \in 1 .. Cap
      /\ \A i \in 2 .. Len(t) : ~ InTable(t[i], names)
  BY <1>1, PtrsInUse DEF TypeOK, ExportOK, StoreOK, Inv, Seeded, NoDuplicate, NoShadow
<1>4. CASE InTable(n, names)
  <2> DEFINE p == Ptr("ExportFile", IndexOf(n, names))
  <2>1. u = t /\ out'[c] = Out("name", n, p)
    BY <1>4 DEF AllocName, TypeOK
  <2>2. IndexOf(n, names) \in 1 .. Len(names) /\ names[IndexOf(n, names)] = n
    BY <1>4, IndexOfFinds
  <2>3. NamePtrs(c)' = NamePtrs(c) /\ \A q \in NamePtrs(c) : ReadName(c, q)' = ReadName(c, q)
    BY <1>1, <2>1 DEF NamePtrs, ReadName
  <2>4. p \in NamePtrs(c)' /\ ReadName(c, p)' = n
    BY <1>1, <2>2 DEF NamePtrs, ReadName, Ptr, IsTc
  <2>5. QED
    BY <1>1, <1>2, <1>3, <2>1, <2>3, <2>4
<1>5. CASE ~ InTable(n, names)
  <2>1. u = Insert(n, t) /\ out'[c] = Out("name", n, Ptr("TcCtx", IndexOf(n, u)))
    BY <1>5 DEF AllocName, TypeOK
  <2> HIDE DEF t, u
  <2>2. /\ Len(t) <= Len(u) /\ Distinct(u) /\ InTable(n, u)
        /\ \A i \in 1 .. Len(t) : u[i] = t[i]
        /\ \A i \in 1 .. Len(u) : i \in 1 .. Len(t) \/ u[i] = n
        /\ Len(t) \in Nat /\ Len(u) \in Nat
    <3>1. u \in Seq(AllNames)
      BY <1>3, <2>1, InsertKeeps
    <3>2. Len(t) \in Nat /\ Len(u) \in Nat
      BY <1>3, <3>1, LenProperties
    <3>3. /\ Len(t) <= Len(Insert(n, t)) /\ Distinct(Insert(n, t)) /\ InTable(n, Insert(n, t))
          /\ \A i \in 1 .. Len(t) : Insert(n, t)[i] = t[i]
          /\ \A i \in 1 .. Len(Insert(n, t)) : i \in 1 .. Len(t) \/ Insert(n, t)[i] = n
      <4>1. t \in Seq(AllNames) /\ n \in AllNames /\ Distinct(t)
        BY <1>3
      <4>2. QED
        BY <4>1, InsertKeeps
    <3>4. QED
      BY <2>1, <3>2, <3>3
  <2>3. IndexOf(n, u) \in 1 .. Len(u) /\ u[IndexOf(n, u)] = n
    BY <2>2, IndexOfFinds
  <2>4. 1 \in 1 .. Len(t) /\ 1 \in 1 .. Len(names) /\ u[1] = Anon
    BY <1>3, <2>2, CapAssumption
  <2>5. n # Anon
    BY <1>3, <1>5, <2>4 DEF InTable
  <2>6. PICK k \in 2 .. Len(u) : k = IndexOf(n, u) /\ u[k] = n
    BY <2>2, <2>3, <2>4, <2>5
  <2> DEFINE p == Ptr("TcCtx", k)
  <2>7. \A i \in 1 .. Len(u) : i \in 1 .. Len(t) \/ i = k
    BY <2>2, <2>6 DEF Distinct
  <2>8. \A i \in 2 .. Len(u) : ~ InTable(u[i], names)
    <3> SUFFICES ASSUME NEW i \in 2 .. Len(u) PROVE ~ InTable(u[i], names)
      OBVIOUS
    <3>1. i \in 1 .. Len(u)
      BY <2>2
    <3>2. CASE i \in 1 .. Len(t)
      <4>1. i \in 2 .. Len(t) /\ u[i] = t[i]
        BY <2>2, <3>2
      <4>2. QED
        BY <1>3, <4>1
    <3>3. CASE u[i] = n
      BY <1>5, <3>3
    <3>4. QED
      BY <2>2, <3>1, <3>2, <3>3
  <2>9. NamePtrs(c)' = NamePtrs(c) \cup {p}
    <3>1. 2 .. Len(u) = (2 .. Len(t)) \cup {k}
      BY <2>2, <2>6, <2>7
    <3>2. {"TcCtx"} \X (2 .. Len(u)) = ({"TcCtx"} \X (2 .. Len(t))) \cup {p}
      BY <3>1 DEF Ptr
    <3>3. QED
      BY <1>1, <3>2 DEF NamePtrs, t, u
  <2>10. ReadName(c, p)' = n
    BY <2>6 DEF ReadName, Ptr, IsTc, u
  <2>11. \A q \in NamePtrs(c) : ReadName(c, q)' = ReadName(c, q)
    <3> SUFFICES ASSUME NEW q \in NamePtrs(c) PROVE ReadName(c, q)' = ReadName(c, q)
      OBVIOUS
    <3>1. CASE ~ IsTc(q)
      BY <1>1, <3>1 DEF ReadName, IsTc
    <3>2. CASE IsTc(q)
      <4>1. q[2] \in 1 .. Len(t)
        BY <2>2, <3>2 DEF NamePtrs, IsTc, t
      <4>2. u[q[2]] = t[q[2]]
        BY <2>2, <4>1
      <4>3. QED
        BY <3>2, <4>2 DEF ReadName, IsTc, t, u
    <3>3. QED
      BY <3>1, <3>2
  <2>12. p \in NamePtrs(c)' /\ out'[c] = Out("name", n, p)
    BY <2>1, <2>6, <2>9
  <2> HIDE DEF p
  <2>13. QED
    BY <1>1, <1>2, <2>2, <2>4, <2>8, <2>9, <2>10, <2>11, <2>12 DEF u
<1>6. QED
  BY <1>4, <1>5

\* What alloc_expr does, likewise.  The lookup order matters here: a node the
\* context has not stored may be in the export store unless it is local-only.
LEMMA AllocExprEffect ==
  ASSUME TypeOK, Inv, NEW c \in Ctx, NEW e \in ExprNodes(NamePtrs(c), ExprPtrs(c)), AllocExpr(c, e)
  PROVE  /\ c \in live /\ UNCHANGED <<phase, names, exprs, live, localNames>>
         /\ \A d \in Ctx \ {c} : localExprs'[d] = localExprs[d] /\ out'[d] = out[d]
         /\ \E p \in ExprPtrs(c)' :
              /\ out'[c] = Out("expr", e, p) /\ ReadExpr(c, p)' = e
              /\ ExprPtrs(c)' = ExprPtrs(c) \cup {p}
         /\ \A p \in ExprPtrs(c) : ReadExpr(c, p)' = ReadExpr(c, p)
         /\ \A i \in 1 .. Len(localExprs'[c]) : ~ InTable(localExprs'[c][i], exprs)
         /\ Distinct(localExprs'[c])
<1> DEFINE t == localExprs[c]
           u == localExprs'[c]
           exported == ~ InTable(e, t) /\ ~ IsExprLocalOnly(e) /\ InTable(e, exprs)
<1>1. c \in live /\ UNCHANGED <<phase, names, exprs, live, localNames>>
  BY DEF AllocExpr, export
<1>2. \A d \in Ctx \ {c} : localExprs'[d] = localExprs[d] /\ out'[d] = out[d]
  BY DEF AllocExpr, TypeOK
<1>3. /\ t \in Seq(AllExprs) /\ e \in AllExprs /\ Distinct(t)
      /\ \A i \in 1 .. Len(t) : ~ InTable(t[i], exprs)
  BY <1>1, PtrsInUse DEF TypeOK, ExportOK, StoreOK, Inv, NoDuplicate, NoShadow
<1>4. CASE exported
  <2> DEFINE p == Ptr("ExportFile", IndexOf(e, exprs))
  <2>1. u = t /\ out'[c] = Out("expr", e, p)
    BY <1>4 DEF AllocExpr, TypeOK
  <2>2. IndexOf(e, exprs) \in 1 .. Len(exprs) /\ exprs[IndexOf(e, exprs)] = e
    BY <1>4, IndexOfFinds
  <2>3. ExprPtrs(c)' = ExprPtrs(c) /\ \A q \in ExprPtrs(c) : ReadExpr(c, q)' = ReadExpr(c, q)
    BY <1>1, <2>1 DEF ExprPtrs, ReadExpr
  <2>4. p \in ExprPtrs(c)' /\ ReadExpr(c, p)' = e
    BY <1>1, <2>2 DEF ExprPtrs, ReadExpr, Ptr, IsTc
  <2>5. QED
    BY <1>1, <1>2, <1>3, <2>1, <2>3, <2>4
<1>5. CASE ~ exported
  <2>1. u = Insert(e, t) /\ out'[c] = Out("expr", e, Ptr("TcCtx", IndexOf(e, u)))
    BY <1>5 DEF AllocExpr, TypeOK
  <2>2. InTable(e, t) \/ ~ InTable(e, exprs)
    <3>1. CASE IsExprLocalOnly(e)
      <4>1. exprs \in Seq(TermNodes({"ExportFile"} \X (1 .. Len(names)), {"ExportFile"} \X (1 .. Len(exprs))))
        BY DEF TypeOK, ExportOK
      <4>2. SUFFICES ASSUME NEW i \in 1 .. Len(exprs), exprs[i] = e PROVE FALSE
        BY DEF InTable
      <4>3. e \in TermNodes({"ExportFile"} \X (1 .. Len(names)), {"ExportFile"} \X (1 .. Len(exprs)))
        BY <4>1, <4>2, ElementOfSeq
      <4>4. QED
        BY <3>1, <4>3, LocalOnlyNotExported
    <3>2. CASE ~ IsExprLocalOnly(e)
      BY <1>5, <3>2
    <3>3. QED
      BY <3>1, <3>2
  <2> HIDE DEF t, u, exported
  <2>3. /\ Len(t) <= Len(u) /\ Distinct(u) /\ InTable(e, u)
        /\ \A i \in 1 .. Len(t) : u[i] = t[i]
        /\ \A i \in 1 .. Len(u) : i \in 1 .. Len(t) \/ u[i] = e
        /\ InTable(e, t) => u = t
        /\ Len(t) \in Nat /\ Len(u) \in Nat
    <3>1. u \in Seq(AllExprs)
      BY <1>3, <2>1, InsertKeeps
    <3>2. Len(t) \in Nat /\ Len(u) \in Nat
      BY <1>3, <3>1, LenProperties
    <3>3. /\ Len(t) <= Len(Insert(e, t)) /\ Distinct(Insert(e, t)) /\ InTable(e, Insert(e, t))
          /\ \A i \in 1 .. Len(t) : Insert(e, t)[i] = t[i]
          /\ \A i \in 1 .. Len(Insert(e, t)) : i \in 1 .. Len(t) \/ Insert(e, t)[i] = e
          /\ InTable(e, t) => Insert(e, t) = t
      BY <1>3, InsertKeeps
    <3>4. QED
      BY <2>1, <3>2, <3>3
  <2>4. PICK k \in 1 .. Len(u) : k = IndexOf(e, u) /\ u[k] = e
    BY <2>3, IndexOfFinds
  <2> DEFINE p == Ptr("TcCtx", k)
  <2>5. \A i \in 1 .. Len(u) : i \in 1 .. Len(t) \/ i = k
    BY <2>3, <2>4 DEF Distinct
  <2>6. \A i \in 1 .. Len(u) : ~ InTable(u[i], exprs)
    <3>1. CASE InTable(e, t)
      BY <1>3, <2>3, <3>1
    <3>2. CASE ~ InTable(e, exprs)
      BY <1>3, <2>3, <3>2
    <3>3. QED
      BY <2>2, <3>1, <3>2
  <2>7. ExprPtrs(c)' = ExprPtrs(c) \cup {p}
    <3>1. 1 .. Len(u) = (1 .. Len(t)) \cup {k}
      BY <2>3, <2>4, <2>5
    <3>2. {"TcCtx"} \X (1 .. Len(u)) = ({"TcCtx"} \X (1 .. Len(t))) \cup {p}
      BY <3>1 DEF Ptr
    <3>3. QED
      BY <1>1, <3>2 DEF ExprPtrs, t, u
  <2>8. ReadExpr(c, p)' = e
    BY <2>4 DEF ReadExpr, Ptr, IsTc, u
  <2>9. \A q \in ExprPtrs(c) : ReadExpr(c, q)' = ReadExpr(c, q)
    <3> SUFFICES ASSUME NEW q \in ExprPtrs(c) PROVE ReadExpr(c, q)' = ReadExpr(c, q)
      OBVIOUS
    <3>1. CASE ~ IsTc(q)
      BY <1>1, <3>1 DEF ReadExpr, IsTc
    <3>2. CASE IsTc(q)
      <4>1. q[2] \in 1 .. Len(t)
        BY <2>3, <3>2 DEF ExprPtrs, IsTc, t
      <4>2. u[q[2]] = t[q[2]]
        BY <2>3, <4>1
      <4>3. QED
        BY <3>2, <4>2 DEF ReadExpr, IsTc, t, u
    <3>3. QED
      BY <3>1, <3>2
  <2>10. p \in ExprPtrs(c)' /\ out'[c] = Out("expr", e, p)
    BY <2>1, <2>4, <2>7
  <2> HIDE DEF p
  <2>11. QED
    BY <1>1, <1>2, <2>3, <2>6, <2>7, <2>8, <2>9, <2>10 DEF u
<1>6. QED
  BY <1>4, <1>5

\* Every step keeps the invariant.
LEMMA InvStep ==
  ASSUME TypeOK, Inv, [Next]_vars
  PROVE  Inv'
<1>1. CASE UNCHANGED vars
  BY <1>1 DEF vars, export, Inv, NoShadow, NoDuplicate, Seeded, ReadsBack,
              NamePtrs, ExprPtrs, ReadName, ReadExpr, InTable, Distinct
<1>2. CASE Build
  BY <1>2, BuildKeepsInv
<1>3. ASSUME NEW c \in Ctx, Open(c) \/ Close(c) PROVE Inv'
  BY <1>3, OpenCloseKeepInv
<1>4. ASSUME NEW c \in Ctx, NEW n \in NameNodes(NamePtrs(c)), AllocName(c, n) PROVE Inv'
  <2>1. /\ c \in live /\ UNCHANGED <<phase, names, exprs, live, localExprs>>
        /\ \A d \in Ctx \ {c} : localNames'[d] = localNames[d] /\ out'[d] = out[d]
        /\ \E p \in NamePtrs(c)' :
             /\ out'[c] = Out("name", n, p) /\ ReadName(c, p)' = n
             /\ NamePtrs(c)' = NamePtrs(c) \cup {p}
        /\ \A i \in 2 .. Len(localNames'[c]) : ~ InTable(localNames'[c][i], names)
        /\ Distinct(localNames'[c]) /\ localNames'[c][1] = Anon
    BY <1>4, AllocNameEffect
  <2>0. live \subseteq Ctx
    BY DEF TypeOK
  <2>2. NoShadow'
    BY <2>0, <2>1 DEF Inv, NoShadow, InTable
  <2>3. NoDuplicate'
    BY <2>1 DEF Inv, NoDuplicate, Distinct
  <2>4. Seeded'
    BY <2>0, <2>1 DEF Inv, Seeded
  <2>5. ReadsBack'
    <3>1. \A d \in live \ {c} : /\ NamePtrs(d)' = NamePtrs(d) /\ ExprPtrs(d)' = ExprPtrs(d)
                               /\ \A p : ReadName(d, p)' = ReadName(d, p) /\ ReadExpr(d, p)' = ReadExpr(d, p)
      BY <2>1 DEF TypeOK, NamePtrs, ExprPtrs, ReadName, ReadExpr
    <3>2. PICK p \in NamePtrs(c)' : out'[c] = Out("name", n, p) /\ ReadName(c, p)' = n
      BY <2>1
    <3>3. out'[c].kind = "name" /\ out'[c].node = n /\ out'[c].ptr = p
      BY <3>2 DEF Out
    <3>4. out'[c].kind # "expr"
      BY <3>3
    <3>5. \A d \in live \ {c} : out'[d] = out[d]
      BY <2>0, <2>1
    <3>6. QED
      BY <2>1, <3>1, <3>2, <3>3, <3>4, <3>5 DEF Inv, ReadsBack
  <2>6. QED
    BY <2>2, <2>3, <2>4, <2>5 DEF Inv
<1>5. ASSUME NEW c \in Ctx, NEW e \in ExprNodes(NamePtrs(c), ExprPtrs(c)), AllocExpr(c, e) PROVE Inv'
  <2>1. /\ c \in live /\ UNCHANGED <<phase, names, exprs, live, localNames>>
        /\ \A d \in Ctx \ {c} : localExprs'[d] = localExprs[d] /\ out'[d] = out[d]
        /\ \E p \in ExprPtrs(c)' :
             /\ out'[c] = Out("expr", e, p) /\ ReadExpr(c, p)' = e
             /\ ExprPtrs(c)' = ExprPtrs(c) \cup {p}
        /\ \A i \in 1 .. Len(localExprs'[c]) : ~ InTable(localExprs'[c][i], exprs)
        /\ Distinct(localExprs'[c])
    BY <1>5, AllocExprEffect
  <2>0. live \subseteq Ctx
    BY DEF TypeOK
  <2>2. NoShadow'
    BY <2>0, <2>1 DEF Inv, NoShadow, InTable
  <2>3. NoDuplicate'
    BY <2>1 DEF Inv, NoDuplicate, Distinct
  <2>4. Seeded'
    BY <2>0, <2>1 DEF Inv, Seeded
  <2>5. ReadsBack'
    <3>1. \A d \in live \ {c} : /\ NamePtrs(d)' = NamePtrs(d) /\ ExprPtrs(d)' = ExprPtrs(d)
                               /\ \A p : ReadName(d, p)' = ReadName(d, p) /\ ReadExpr(d, p)' = ReadExpr(d, p)
      BY <2>1 DEF TypeOK, NamePtrs, ExprPtrs, ReadName, ReadExpr
    <3>2. PICK p \in ExprPtrs(c)' : out'[c] = Out("expr", e, p) /\ ReadExpr(c, p)' = e
      BY <2>1
    <3>3. out'[c].kind = "expr" /\ out'[c].node = e /\ out'[c].ptr = p
      BY <3>2 DEF Out
    <3>4. out'[c].kind # "name"
      BY <3>3
    <3>5. \A d \in live \ {c} : out'[d] = out[d]
      BY <2>0, <2>1
    <3>6. QED
      BY <2>1, <3>1, <3>2, <3>3, <3>4, <3>5 DEF Inv, ReadsBack
  <2>6. QED
    BY <2>2, <2>3, <2>4, <2>5 DEF Inv
<1>6. QED
  BY <1>1, <1>2, <1>3, <1>4, <1>5 DEF Next, Check

\* The stores never hold a node twice, neither in one table nor in two tables
\* that one context reads.
THEOREM HashConsInv == Spec => [](TypeOK /\ Inv)
<1>1. Init => TypeOK /\ Inv
  <2> SUFFICES ASSUME Init PROVE Inv
    BY HashConsInitType
  <2>1. names = <<Anon>> /\ exprs = <<>> /\ live = {}
        /\ \A c \in Ctx : localNames[c] = <<>> /\ localExprs[c] = <<>>
    BY DEF Init
  <2>2. Distinct(<<Anon>>) /\ Distinct(<<>>) /\ <<Anon>>[1] = Anon
    BY DEF Distinct
  <2>3. QED
    BY <2>1, <2>2 DEF Inv, NoShadow, NoDuplicate, Seeded, ReadsBack
<1>2. TypeOK /\ Inv /\ [Next]_vars => Inv'
  BY InvStep
<1>3. QED
  BY <1>1, <1>2, HashConsType, PTL DEF Spec

\* No term of the environment is stored a second time in a context.
THEOREM HashConsNoShadow == Spec => []NoShadow
<1>1. Inv => NoShadow
  BY DEF Inv
<1>2. QED
  BY <1>1, HashConsInv, PTL

\* Two pointers in use that read as the same node are the same pointer.
LEMMA InvCanonical ==
  ASSUME TypeOK, Inv
  PROVE  Canonical
<1> SUFFICES ASSUME NEW c \in live
             PROVE  /\ \A p, q \in NamePtrs(c) : ReadName(c, p) = ReadName(c, q) => p = q
                    /\ \A p, q \in ExprPtrs(c) : ReadExpr(c, p) = ReadExpr(c, q) => p = q
  BY DEF Canonical
<1>1. /\ Distinct(names) /\ Distinct(exprs) /\ Distinct(localNames[c]) /\ Distinct(localExprs[c])
      /\ \A i \in 2 .. Len(localNames[c]) : ~ InTable(localNames[c][i], names)
      /\ \A i \in 1 .. Len(localExprs[c]) : ~ InTable(localExprs[c][i], exprs)
      /\ Len(localNames[c]) \in Nat
  BY LenProperties DEF Inv, NoDuplicate, NoShadow, TypeOK, StoreOK
<1>2. ASSUME NEW p \in NamePtrs(c), NEW q \in NamePtrs(c), ReadName(c, p) = ReadName(c, q) PROVE p = q
  <2>1. /\ ~ IsTc(p) => p[2] \in 1 .. Len(names) /\ p = <<"ExportFile", p[2]>> /\ ReadName(c, p) = names[p[2]]
        /\ IsTc(p) => p[2] \in 2 .. Len(localNames[c]) /\ p = <<"TcCtx", p[2]>> /\ ReadName(c, p) = localNames[c][p[2]]
    BY DEF NamePtrs, ReadName, IsTc
  <2>2. /\ ~ IsTc(q) => q[2] \in 1 .. Len(names) /\ q = <<"ExportFile", q[2]>> /\ ReadName(c, q) = names[q[2]]
        /\ IsTc(q) => q[2] \in 2 .. Len(localNames[c]) /\ q = <<"TcCtx", q[2]>> /\ ReadName(c, q) = localNames[c][q[2]]
    BY DEF NamePtrs, ReadName, IsTc
  <2>3. \A i \in 2 .. Len(localNames[c]) : i \in 1 .. Len(localNames[c])
    BY <1>1
  <2>4. IsTc(p) <=> IsTc(q)
    BY <1>1, <1>2, <2>1, <2>2 DEF InTable
  <2>5. p[2] = q[2]
    BY <1>1, <1>2, <2>1, <2>2, <2>3, <2>4 DEF Distinct
  <2>6. QED
    BY <2>1, <2>2, <2>4, <2>5
<1>3. ASSUME NEW p \in ExprPtrs(c), NEW q \in ExprPtrs(c), ReadExpr(c, p) = ReadExpr(c, q) PROVE p = q
  <2>1. /\ ~ IsTc(p) => p[2] \in 1 .. Len(exprs) /\ p = <<"ExportFile", p[2]>> /\ ReadExpr(c, p) = exprs[p[2]]
        /\ IsTc(p) => p[2] \in 1 .. Len(localExprs[c]) /\ p = <<"TcCtx", p[2]>> /\ ReadExpr(c, p) = localExprs[c][p[2]]
    BY DEF ExprPtrs, ReadExpr, IsTc
  <2>2. /\ ~ IsTc(q) => q[2] \in 1 .. Len(exprs) /\ q = <<"ExportFile", q[2]>> /\ ReadExpr(c, q) = exprs[q[2]]
        /\ IsTc(q) => q[2] \in 1 .. Len(localExprs[c]) /\ q = <<"TcCtx", q[2]>> /\ ReadExpr(c, q) = localExprs[c][q[2]]
    BY DEF ExprPtrs, ReadExpr, IsTc
  <2>3. IsTc(p) <=> IsTc(q)
    BY <1>1, <1>3, <2>1, <2>2 DEF InTable
  <2>4. p[2] = q[2]
    BY <1>1, <1>3, <2>1, <2>2, <2>3 DEF Distinct
  <2>5. QED
    BY <2>1, <2>2, <2>3, <2>4
<1>4. QED
  BY <1>2, <1>3

\* Within a context two pointers in use read as the same node only if they are
\* the same pointer, so that comparing pointers compares terms.
THEOREM HashConsCanonical == Spec => []Canonical
<1>1. TypeOK /\ Inv => Canonical
  BY InvCanonical
<1>2. QED
  BY <1>1, HashConsInv, PTL

\* An allocation gives back a pointer that reads as the node asked for.
THEOREM HashConsReadsBack == Spec => []ReadsBack
<1>1. Inv => ReadsBack
  BY DEF Inv
<1>2. QED
  BY <1>1, HashConsInv, PTL

------------------------------------------------------------------------------
(***************************************************************************)
(* Pointers keep their meaning                                             *)
(***************************************************************************)
\* A step that changes neither the export store nor the tables of d changes
\* nothing d can see.
LEMMA ElsewhereNothing ==
  ASSUME NEW d, UNCHANGED <<names, exprs>>,
         localNames'[d] = localNames[d], localExprs'[d] = localExprs[d]
  PROVE  /\ NamePtrs(d)' = NamePtrs(d) /\ ExprPtrs(d)' = ExprPtrs(d)
         /\ \A p : ReadName(d, p)' = ReadName(d, p) /\ ReadExpr(d, p)' = ReadExpr(d, p)
BY DEF NamePtrs, ExprPtrs, ReadName, ReadExpr

Kept(c) ==
  /\ \A p \in NamePtrs(c) : p \in NamePtrs(c)' /\ ReadName(c, p)' = ReadName(c, p)
  /\ \A p \in ExprPtrs(c) : p \in ExprPtrs(c)' /\ ReadExpr(c, p)' = ReadExpr(c, p)

\* While a context lives, a step of any kind, in it or elsewhere, leaves every
\* pointer in use in it and what that pointer reads as.
LEMMA StableStep ==
  ASSUME TypeOK, Inv, [Next]_vars, NEW c \in live, c \in live'
  PROVE  Kept(c)
<1>0. live \subseteq Ctx
  BY DEF TypeOK
<1>1. CASE UNCHANGED vars
  <2>1. UNCHANGED <<names, exprs, localNames, localExprs>>
    BY <1>1 DEF vars, export
  <2>2. QED
    BY <2>1, ElsewhereNothing DEF Kept
<1>2. CASE Build
  BY <1>2 DEF Build, BuildName, BuildExpr, Finish, Unopened, TypeOK, Kept,
              NamePtrs, ExprPtrs, ReadName, ReadExpr
<1>3. ASSUME NEW d \in Ctx, Open(d) \/ Close(d) PROVE Kept(c)
  <2>1. /\ UNCHANGED <<names, exprs>> /\ c # d
        /\ localNames'[c] = localNames[c] /\ localExprs'[c] = localExprs[c]
    BY <1>0, <1>3 DEF Open, Close, export, TypeOK
  <2>2. QED
    BY <2>1, ElsewhereNothing DEF Kept
<1>4. ASSUME NEW d \in Ctx, NEW n \in NameNodes(NamePtrs(d)), AllocName(d, n) PROVE Kept(c)
  <2>1. CASE c = d
    <3>1. UNCHANGED <<names, exprs, localExprs>>
      BY <1>4 DEF AllocName, export
    <3>2. /\ \E p \in NamePtrs(c)' : NamePtrs(c)' = NamePtrs(c) \cup {p}
          /\ \A p \in NamePtrs(c) : ReadName(c, p)' = ReadName(c, p)
      BY <1>4, <2>1, AllocNameEffect
    <3>3. ExprPtrs(c)' = ExprPtrs(c) /\ \A p : ReadExpr(c, p)' = ReadExpr(c, p)
      BY <3>1 DEF ExprPtrs, ReadExpr
    <3>4. QED
      BY <3>2, <3>3 DEF Kept
  <2>2. CASE c # d
    <3>1. /\ UNCHANGED <<names, exprs, localExprs>>
          /\ localNames'[c] = localNames[c]
      BY <1>0, <1>4, <2>2 DEF AllocName, export, TypeOK
    <3>2. QED
      BY <3>1, ElsewhereNothing DEF Kept
  <2>3. QED
    BY <2>1, <2>2
<1>5. ASSUME NEW d \in Ctx, NEW e \in ExprNodes(NamePtrs(d), ExprPtrs(d)), AllocExpr(d, e) PROVE Kept(c)
  <2>1. CASE c = d
    <3>1. UNCHANGED <<names, exprs, localNames>>
      BY <1>5 DEF AllocExpr, export
    <3>2. /\ \E p \in ExprPtrs(c)' : ExprPtrs(c)' = ExprPtrs(c) \cup {p}
          /\ \A p \in ExprPtrs(c) : ReadExpr(c, p)' = ReadExpr(c, p)
      BY <1>5, <2>1, AllocExprEffect
    <3>3. NamePtrs(c)' = NamePtrs(c) /\ \A p : ReadName(c, p)' = ReadName(c, p)
      BY <3>1 DEF NamePtrs, ReadName
    <3>4. QED
      BY <3>2, <3>3 DEF Kept
  <2>2. CASE c # d
    <3>1. /\ UNCHANGED <<names, exprs, localNames>>
          /\ localExprs'[c] = localExprs[c]
      BY <1>0, <1>5, <2>2 DEF AllocExpr, export, TypeOK
    <3>2. QED
      BY <3>1, ElsewhereNothing DEF Kept
  <2>3. QED
    BY <2>1, <2>2
<1>6. QED
  BY <1>1, <1>2, <1>3, <1>4, <1>5 DEF Next, Check

\* No allocation, in this context or in another one, and no opening or closing
\* of other contexts, changes what a pointer in use reads as.
THEOREM HashConsStable == Spec => Stable
<1>1. TypeOK /\ Inv /\ [Next]_vars => \A c \in live : c \in live' => Kept(c)
  BY StableStep
<1>2. TypeOK /\ Inv /\ [Next]_vars
        => [\A c \in live :
              c \in live' =>
                /\ \A p \in NamePtrs(c) : p \in NamePtrs(c)' /\ ReadName(c, p)' = ReadName(c, p)
                /\ \A p \in ExprPtrs(c) : p \in ExprPtrs(c)' /\ ReadExpr(c, p)' = ReadExpr(c, p)]_vars
  BY <1>1 DEF Kept
<1>3. QED
  BY <1>2, HashConsInv, PTL DEF Spec, Stable

------------------------------------------------------------------------------
(***************************************************************************)
(* Every context implements an interner of names and one of expressions    *)
(***************************************************************************)
\* What the interface shows of a context is a one-to-one binding of nodes to
\* pointers.
BindingOK(c) == /\ NameInterner(c)!OneToOne(NameBinding(c))
                /\ ExprInterner(c)!OneToOne(ExprBinding(c))
                /\ NameBinding(c) \in SUBSET (AllNames \X Ptrs)
                /\ ExprBinding(c) \in SUBSET (AllExprs \X Ptrs)
BindingsOK == \A c \in Ctx : BindingOK(c)

\* What a context presents as its interface is one-to-one in every reachable
\* state.
LEMMA InvBindings ==
  ASSUME TypeOK, Inv
  PROVE  BindingsOK
<1> SUFFICES ASSUME NEW c \in Ctx PROVE BindingOK(c)
  BY DEF BindingsOK
<1>1. CASE c \in live
  <2>1. /\ \A p, q \in NamePtrs(c) : ReadName(c, p) = ReadName(c, q) => p = q
        /\ \A p, q \in ExprPtrs(c) : ReadExpr(c, p) = ReadExpr(c, q) => p = q
    BY <1>1, InvCanonical DEF Canonical
  <2>2. /\ NamePtrs(c) \subseteq Ptrs /\ ExprPtrs(c) \subseteq Ptrs
        /\ NameNodes(NamePtrs(c)) \subseteq AllNames
        /\ ExprNodes(NamePtrs(c), ExprPtrs(c)) \subseteq AllExprs
    BY <1>1, PtrsInUse
  <2>3. \A p \in NamePtrs(c) : ReadName(c, p) \in AllNames
    BY <1>1, <2>2, ReadInAll
  <2>4. \A p \in ExprPtrs(c) : ReadExpr(c, p) \in AllExprs
    BY <1>1, <2>2, ReadInAll
  <2>5. /\ NameBinding(c) = {<<ReadName(c, p), p>> : p \in NamePtrs(c)}
        /\ ExprBinding(c) = {<<ReadExpr(c, p), p>> : p \in ExprPtrs(c)}
    BY <1>1 DEF NameBinding, ExprBinding
  <2>6. /\ NameInterner(c)!OneToOne(NameBinding(c))
        /\ NameBinding(c) \in SUBSET (AllNames \X Ptrs)
    BY <2>1, <2>2, <2>3, <2>5 DEF NameInterner!OneToOne
  <2>7. /\ ExprInterner(c)!OneToOne(ExprBinding(c))
        /\ ExprBinding(c) \in SUBSET (AllExprs \X Ptrs)
    BY <2>1, <2>2, <2>4, <2>5 DEF ExprInterner!OneToOne
  <2>8. QED
    BY <2>6, <2>7 DEF BindingOK
<1>2. CASE c \notin live
  <2>1. NameBinding(c) = {} /\ ExprBinding(c) = {}
    BY <1>2 DEF NameBinding, ExprBinding
  <2>2. QED
    BY <2>1 DEF BindingOK, NameInterner!OneToOne, ExprInterner!OneToOne
<1>3. QED
  BY <1>1, <1>2

\* The steps of the other contexts, and of the builder, are stuttering steps.
LEMMA ElsewhereViews ==
  ASSUME NEW c, UNCHANGED <<names, exprs>>, (c \in live)' = (c \in live),
         localNames'[c] = localNames[c], localExprs'[c] = localExprs[c], out'[c] = out[c]
  PROVE  UNCHANGED <<NameView(c), ExprView(c)>>
BY ElsewhereNothing DEF NameView, ExprView, NameBinding, ExprBinding, LastOut

\* alloc_name is an allocation of the interner of names, and the interner of
\* expressions forgets its last answer.
LEMMA AllocNameRefines ==
  ASSUME TypeOK, Inv, BindingsOK', NEW c \in Ctx,
         NEW n \in NameNodes(NamePtrs(c)), AllocName(c, n)
  PROVE  NameInterner(c)!Next /\ ExprInterner(c)!Next
<1>1. /\ c \in live /\ UNCHANGED <<phase, names, exprs, live, localExprs>>
      /\ \A q \in NamePtrs(c) : ReadName(c, q)' = ReadName(c, q)
  BY AllocNameEffect
<1>2. PICK p \in NamePtrs(c)' : /\ out'[c] = Out("name", n, p) /\ ReadName(c, p)' = n
                               /\ NamePtrs(c)' = NamePtrs(c) \cup {p}
  BY AllocNameEffect
<1>3. NameBinding(c)' = NameBinding(c) \cup {<<n, p>>}
  BY <1>1, <1>2 DEF NameBinding
<1>4. /\ NameInterner(c)!OneToOne(NameBinding(c)')
      /\ NameBinding(c)' \in SUBSET (AllNames \X Ptrs)
  BY DEF BindingsOK, BindingOK, NameInterner!OneToOne
<1>5. n \in AllNames /\ p \in Ptrs
  <2>1. <<n, p>> \in AllNames \X Ptrs
    BY <1>3, <1>4
  <2>2. QED
    BY <2>1
<1>6. LastOut(c, "name")' = NameInterner(c)!Out(n, p)
  BY <1>2 DEF LastOut, Out, NameInterner!Out
<1>7. NameInterner(c)!Alloc(n, p)
  BY <1>1, <1>3, <1>4, <1>6 DEF NameInterner!Alloc
<1>8. LastOut(c, "expr")' = ExprInterner(c)!NoOut
  BY <1>2 DEF LastOut, Out, NoOut, ExprInterner!NoOut
<1>9. ExprBinding(c)' = ExprBinding(c)
  BY <1>1 DEF ExprBinding, ExprPtrs, ReadExpr
<1>10. ExprInterner(c)!Forget
  BY <1>1, <1>8, <1>9 DEF ExprInterner!Forget
<1>11. QED
  BY <1>5, <1>7, <1>10 DEF NameInterner!Next, ExprInterner!Next

\* alloc_expr is an allocation of the interner of expressions, and that of
\* names forgets its last answer.
LEMMA AllocExprRefines ==
  ASSUME TypeOK, Inv, BindingsOK', NEW c \in Ctx,
         NEW e \in ExprNodes(NamePtrs(c), ExprPtrs(c)), AllocExpr(c, e)
  PROVE  NameInterner(c)!Next /\ ExprInterner(c)!Next
<1>1. /\ c \in live /\ UNCHANGED <<phase, names, exprs, live, localNames>>
      /\ \A q \in ExprPtrs(c) : ReadExpr(c, q)' = ReadExpr(c, q)
  BY AllocExprEffect
<1>2. PICK p \in ExprPtrs(c)' : /\ out'[c] = Out("expr", e, p) /\ ReadExpr(c, p)' = e
                               /\ ExprPtrs(c)' = ExprPtrs(c) \cup {p}
  BY AllocExprEffect
<1>3. ExprBinding(c)' = ExprBinding(c) \cup {<<e, p>>}
  BY <1>1, <1>2 DEF ExprBinding
<1>4. /\ ExprInterner(c)!OneToOne(ExprBinding(c)')
      /\ ExprBinding(c)' \in SUBSET (AllExprs \X Ptrs)
  BY DEF BindingsOK, BindingOK, ExprInterner!OneToOne
<1>5. e \in AllExprs /\ p \in Ptrs
  <2>1. <<e, p>> \in AllExprs \X Ptrs
    BY <1>3, <1>4
  <2>2. QED
    BY <2>1
<1>6. LastOut(c, "expr")' = ExprInterner(c)!Out(e, p)
  BY <1>2 DEF LastOut, Out, ExprInterner!Out
<1>7. ExprInterner(c)!Alloc(e, p)
  BY <1>1, <1>3, <1>4, <1>6 DEF ExprInterner!Alloc
<1>8. LastOut(c, "name")' = NameInterner(c)!NoOut
  BY <1>2 DEF LastOut, Out, NoOut, NameInterner!NoOut
<1>9. NameBinding(c)' = NameBinding(c)
  BY <1>1 DEF NameBinding, NamePtrs, ReadName
<1>10. NameInterner(c)!Forget
  BY <1>1, <1>8, <1>9 DEF NameInterner!Forget
<1>11. QED
  BY <1>5, <1>7, <1>10 DEF NameInterner!Next, ExprInterner!Next

\* Opening and closing a context open and close both of its interners.
LEMMA OpenCloseRefine ==
  ASSUME TypeOK, Inv, BindingsOK', NEW c \in Ctx, Open(c) \/ Close(c)
  PROVE  NameInterner(c)!Next /\ ExprInterner(c)!Next
<1>1. /\ NameInterner(c)!OneToOne(NameBinding(c)')
      /\ ExprInterner(c)!OneToOne(ExprBinding(c)')
      /\ NameBinding(c)' \in SUBSET (AllNames \X Ptrs)
      /\ ExprBinding(c)' \in SUBSET (AllExprs \X Ptrs)
  BY DEF BindingsOK, BindingOK, NameInterner!OneToOne, ExprInterner!OneToOne
<1>2. out'[c] = NoOut
  BY DEF TypeOK, Open, Close
<1>3. /\ LastOut(c, "name")' = NameInterner(c)!NoOut
      /\ LastOut(c, "expr")' = ExprInterner(c)!NoOut
  BY <1>2 DEF LastOut, NoOut, NameInterner!NoOut, ExprInterner!NoOut
<1>4. CASE Open(c)
  <2>1. c \notin live /\ c \in live'
    BY <1>4 DEF Open
  <2>2. NameInterner(c)!Open /\ ExprInterner(c)!Open
    BY <1>1, <1>3, <2>1 DEF NameInterner!Open, ExprInterner!Open
  <2>3. QED
    BY <2>2 DEF NameInterner!Next, ExprInterner!Next
<1>5. CASE Close(c)
  <2>1. c \in live /\ c \notin live'
    BY <1>5 DEF Close
  <2>2. NameBinding(c)' = {} /\ ExprBinding(c)' = {}
    BY <2>1 DEF NameBinding, ExprBinding
  <2>3. NameInterner(c)!Close /\ ExprInterner(c)!Close
    BY <1>3, <2>1, <2>2 DEF NameInterner!Close, ExprInterner!Close
  <2>4. QED
    BY <2>3 DEF NameInterner!Next, ExprInterner!Next
<1>6. QED
  BY <1>4, <1>5

\* Every step of the store is a step or a stutter of both interners of every
\* context.
LEMMA StepRefines ==
  ASSUME TypeOK, Inv, BindingsOK', [Next]_vars, NEW c \in Ctx
  PROVE  InternerStep(c)
<1>1. CASE UNCHANGED vars
  <2>1. UNCHANGED <<names, exprs, live, localNames, localExprs, out>>
    BY <1>1 DEF vars, export
  <2>2. QED
    BY <2>1, ElsewhereViews DEF InternerStep
<1>2. CASE Build
  <2>1. /\ live = {} /\ live' = {} /\ UNCHANGED <<out>>
    BY <1>2 DEF Build, BuildName, BuildExpr, Finish, Unopened, TypeOK
  <2>2. UNCHANGED <<NameView(c), ExprView(c)>>
    BY <2>1 DEF NameView, ExprView, NameBinding, ExprBinding, LastOut
  <2>3. QED
    BY <2>2 DEF InternerStep
<1>3. ASSUME NEW d \in Ctx, Check(d) PROVE InternerStep(c)
  <2>1. CASE c # d
    <3> DEFINE Same == /\ UNCHANGED <<names, exprs>> /\ (c \in live' <=> c \in live)
                       /\ localNames'[c] = localNames[c] /\ localExprs'[c] = localExprs[c]
                       /\ out'[c] = out[c]
    <3>1. Same
      <4>1. CASE Open(d)
        BY <2>1, <4>1 DEF Open, export, TypeOK
      <4>2. CASE Close(d)
        BY <2>1, <4>2 DEF Close, export, TypeOK
      <4>3. ASSUME NEW n \in NameNodes(NamePtrs(d)), AllocName(d, n)
            PROVE  Same
        BY <2>1, <4>3 DEF AllocName, export, TypeOK
      <4>4. ASSUME NEW e \in ExprNodes(NamePtrs(d), ExprPtrs(d)), AllocExpr(d, e)
            PROVE  Same
        BY <2>1, <4>4 DEF AllocExpr, export, TypeOK
      <4> HIDE DEF Same
      <4>5. QED
        BY <1>3, <4>1, <4>2, <4>3, <4>4 DEF Check
    <3>2. (c \in live)' = (c \in live)
      BY <3>1
    <3>3. UNCHANGED <<NameView(c), ExprView(c)>>
      BY <3>1, <3>2, ElsewhereViews
    <3>4. QED
      BY <3>3 DEF InternerStep
  <2>2. CASE c = d
    <3>1. CASE Open(c) \/ Close(c)
      BY <3>1, OpenCloseRefine DEF InternerStep
    <3>2. ASSUME NEW n \in NameNodes(NamePtrs(c)), AllocName(c, n)
          PROVE  InternerStep(c)
      BY <3>2, AllocNameRefines DEF InternerStep
    <3>3. ASSUME NEW e \in ExprNodes(NamePtrs(c), ExprPtrs(c)), AllocExpr(c, e)
          PROVE  InternerStep(c)
      BY <3>3, AllocExprRefines DEF InternerStep
    <3>4. QED
      BY <1>3, <2>2, <3>1, <3>2, <3>3 DEF Check
  <2>3. QED
    BY <2>1, <2>2
<1>4. QED
  BY <1>1, <1>2, <1>3 DEF Next

\* Every context implements an Interner of names and an Interner of expressions.
THEOREM HashConsImplementsInterner == Spec => ImplementsInterner
<1>1. Init => \A c \in Ctx : InternerInit(c)
  <2> SUFFICES ASSUME Init, NEW c \in Ctx PROVE InternerInit(c)
    OBVIOUS
  <2>1. (c \in live) = FALSE /\ out[c] = NoOut
    BY DEF Init
  <2>2. NameBinding(c) = {} /\ ExprBinding(c) = {}
    BY <2>1 DEF NameBinding, ExprBinding
  <2>3. LastOut(c, "name") = NameInterner(c)!NoOut /\ LastOut(c, "expr") = ExprInterner(c)!NoOut
    BY <2>1 DEF LastOut, NoOut, NameInterner!NoOut, ExprInterner!NoOut
  <2>4. QED
    BY <2>1, <2>2, <2>3 DEF InternerInit, NameInterner!Init, ExprInterner!Init
<1>2. TypeOK /\ Inv => BindingsOK
  BY InvBindings
<1>3. TypeOK /\ Inv /\ BindingsOK' /\ [Next]_vars => [\A c \in Ctx : InternerStep(c)]_vars
  BY StepRefines
<1>4. QED
  BY <1>1, <1>2, <1>3, HashConsInv, PTL DEF Spec, ImplementsInterner

------------------------------------------------------------------------------
(***************************************************************************)
(* Whole terms.  Above, equal nodes have equal pointers; here the pointers *)
(* in a node are followed to the end.  Nodes are stored after the nodes    *)
(* they are made of, so this ends, and a proof about whole terms is an     *)
(* induction on the place of a node.                                       *)
(***************************************************************************)
(***************************************************************************)
(* Nodes are stored after the nodes they are made of                       *)
(***************************************************************************)
\* Storing a name whose prefix is in the table keeps the table in order.
LEMMA InsertNameBefore ==
  ASSUME NEW S, NEW t \in Seq(S), NEW n \in S, NEW store,
         NamesBefore(store, t),
         (n.node = "str" /\ n.pfx[1] = store) => n.pfx[2] \in 1 .. Len(t)
  PROVE  NamesBefore(store, Insert(n, t))
<1> DEFINE u == Insert(n, t)
<1>1. /\ Len(u) \in Nat /\ Len(t) \in Nat
      /\ \A i \in 1 .. Len(t) : u[i] = t[i]
      /\ \A i \in 1 .. Len(u) : i \in 1 .. Len(t) \/ u[i] = n
  BY InsertKeeps, LenProperties
<1> HIDE DEF u
<1>2. SUFFICES ASSUME NEW i \in 1 .. Len(u), u[i].node = "str", u[i].pfx[1] = store
               PROVE  u[i].pfx[2] < i
  BY DEF NamesBefore, u
<1>3. CASE i \in 1 .. Len(t)
  BY <1>1, <1>2, <1>3 DEF NamesBefore
<1>4. CASE i \notin 1 .. Len(t)
  BY <1>1, <1>2, <1>4
<1>5. QED
  BY <1>3, <1>4

\* The same for an application whose parts are in the table.
LEMMA InsertTermBefore ==
  ASSUME NEW S, NEW t \in Seq(S), NEW e \in S, NEW store,
         TermsBefore(store, t),
         e.node = "app" => /\ e.fun[1] = store => e.fun[2] \in 1 .. Len(t)
                           /\ e.arg[1] = store => e.arg[2] \in 1 .. Len(t)
  PROVE  TermsBefore(store, Insert(e, t))
<1> DEFINE u == Insert(e, t)
<1>1. /\ Len(u) \in Nat /\ Len(t) \in Nat
      /\ \A i \in 1 .. Len(t) : u[i] = t[i]
      /\ \A i \in 1 .. Len(u) : i \in 1 .. Len(t) \/ u[i] = e
  BY InsertKeeps, LenProperties
<1> HIDE DEF u
<1>2. SUFFICES ASSUME NEW i \in 1 .. Len(u), u[i].node = "app"
               PROVE  /\ u[i].fun[1] = store => u[i].fun[2] < i
                      /\ u[i].arg[1] = store => u[i].arg[2] < i
  BY DEF TermsBefore, u
<1>3. CASE i \in 1 .. Len(t)
  BY <1>1, <1>2, <1>3 DEF TermsBefore
<1>4. CASE i \notin 1 .. Len(t)
  BY <1>1, <1>2, <1>4
<1>5. QED
  BY <1>3, <1>4

\* Every step keeps the order of every table.
LEMMA ChildrenFirstStep ==
  ASSUME TypeOK, ChildrenFirst, [Next]_vars
  PROVE  ChildrenFirst'
<1> DEFINE L(c, t, u) == NamesBefore("TcCtx", t) /\ TermsBefore("TcCtx", u)
<1>0. \A c \in Ctx : L(c, localNames[c], localExprs[c])
  BY DEF ChildrenFirst
<1>1. CASE UNCHANGED vars
  BY <1>1 DEF vars, export, ChildrenFirst, NamesBefore, TermsBefore
<1>2. ASSUME NEW i \in 1 .. Len(names), NEW a \in Atom, BuildName(Ptr("ExportFile", i), a)
      PROVE  ChildrenFirst'
  <2> DEFINE n == Str(Ptr("ExportFile", i), a)
             P == {"ExportFile"} \X (1 .. Len(names))
  <2>1. names \in Seq(NameNodes(P)) /\ n \in NameNodes(P)
    BY DEF TypeOK, ExportOK, NameNodes, Ptr
  <2>2. NamesBefore("ExportFile", Insert(n, names))
    <3>1. n.pfx[2] \in 1 .. Len(names)
      BY DEF Str, Ptr
    <3> HIDE DEF n, P
    <3>2. QED
      BY <2>1, <3>1, InsertNameBefore DEF ChildrenFirst
  <2>3. names' = Insert(n, names) /\ UNCHANGED <<exprs, localNames, localExprs>>
    BY <1>2 DEF BuildName, Unopened
  <2> HIDE DEF n
  <2>4. NamesBefore("ExportFile", names')
    BY <2>2, <2>3
  <2>5. QED
    BY <2>3, <2>4 DEF ChildrenFirst, NamesBefore, TermsBefore
<1>3. ASSUME NEW e \in TermNodes({"ExportFile"} \X (1 .. Len(names)),
                                  {"ExportFile"} \X (1 .. Len(exprs))), BuildExpr(e)
      PROVE  ChildrenFirst'
  <2> DEFINE S == TermNodes({"ExportFile"} \X (1 .. Len(names)), {"ExportFile"} \X (1 .. Len(exprs)))
  <2>1. exprs \in Seq(S)
    BY DEF TypeOK, ExportOK
  <2>2. e.node = "app" => e.fun[2] \in 1 .. Len(exprs) /\ e.arg[2] \in 1 .. Len(exprs)
    BY DEF TermNodes, Const, App
  <2>3. TermsBefore("ExportFile", Insert(e, exprs))
    <3> HIDE DEF S
    <3>1. e \in S
      BY DEF S
    <3>2. QED
      BY <2>1, <2>2, <3>1, InsertTermBefore DEF ChildrenFirst
  <2>4. exprs' = Insert(e, exprs) /\ UNCHANGED <<names, localNames, localExprs>>
    BY <1>3 DEF BuildExpr, Unopened
  <2>5. TermsBefore("ExportFile", exprs')
    BY <2>3, <2>4
  <2>6. QED
    BY <2>4, <2>5 DEF ChildrenFirst, NamesBefore, TermsBefore
<1>4. CASE Finish
  BY <1>4 DEF Finish, Unopened, ChildrenFirst, NamesBefore, TermsBefore
<1>5. ASSUME NEW c \in Ctx, Check(c) PROVE ChildrenFirst'
  <2>1. UNCHANGED <<names, exprs>>
    BY <1>5 DEF Check, Open, Close, AllocName, AllocExpr, export
  <2>2. \A d \in Ctx \ {c} : localNames'[d] = localNames[d] /\ localExprs'[d] = localExprs[d]
    BY <1>5 DEF Check, Open, Close, AllocName, AllocExpr, export, TypeOK
  <2>3. NamesBefore("TcCtx", localNames'[c]) /\ TermsBefore("TcCtx", localExprs'[c])
    <3>1. CASE Open(c)
      <4>1. localNames'[c] = <<Anon>> /\ localExprs'[c] = <<>>
        BY <3>1 DEF Open, TypeOK
      <4>2. QED
        BY <4>1 DEF NamesBefore, TermsBefore, Anon
    <3>2. CASE Close(c)
      <4>1. localNames'[c] = <<>> /\ localExprs'[c] = <<>>
        BY <3>2 DEF Close, TypeOK
      <4>2. QED
        BY <4>1 DEF NamesBefore, TermsBefore
    <3>3. ASSUME NEW n \in NameNodes(NamePtrs(c)), AllocName(c, n)
          PROVE  NamesBefore("TcCtx", localNames'[c]) /\ TermsBefore("TcCtx", localExprs'[c])
      <4>1. localNames[c] \in Seq(NameNodes(NamePtrs(c))) /\ localExprs' = localExprs
        BY <3>3 DEF AllocName, TypeOK, StoreOK
      <4>2. n.node = "str" /\ n.pfx[1] = "TcCtx" => n.pfx[2] \in 1 .. Len(localNames[c])
        BY DEF NameNodes, Anon, Str, NamePtrs
      <4>3. NamesBefore("TcCtx", Insert(n, localNames[c]))
        BY <1>0, <4>1, <4>2, InsertNameBefore
      <4>4. localNames'[c] = localNames[c] \/ localNames'[c] = Insert(n, localNames[c])
        BY <3>3 DEF AllocName, TypeOK
      <4>5. QED
        BY <1>0, <4>1, <4>3, <4>4
    <3>4. ASSUME NEW e \in ExprNodes(NamePtrs(c), ExprPtrs(c)), AllocExpr(c, e)
          PROVE  NamesBefore("TcCtx", localNames'[c]) /\ TermsBefore("TcCtx", localExprs'[c])
      <4>1. localExprs[c] \in Seq(ExprNodes(NamePtrs(c), ExprPtrs(c))) /\ localNames' = localNames
        BY <3>4 DEF AllocExpr, TypeOK, StoreOK
      <4>2. e.node = "app" =>
              /\ e.fun[1] = "TcCtx" => e.fun[2] \in 1 .. Len(localExprs[c])
              /\ e.arg[1] = "TcCtx" => e.arg[2] \in 1 .. Len(localExprs[c])
        <5>1. \A q \in ExprPtrs(c) : q[1] = "TcCtx" => q[2] \in 1 .. Len(localExprs[c])
          <6>1. Len(localExprs[c]) \in Nat
            BY <4>1, LenProperties
          <6>2. QED
            BY <6>1 DEF ExprPtrs
        <5>2. e.node = "app" => e.fun \in ExprPtrs(c) /\ e.arg \in ExprPtrs(c)
          BY DEF ExprNodes, TermNodes, Const, App, Local
        <5>3. QED
          BY <5>1, <5>2
      <4>3. TermsBefore("TcCtx", Insert(e, localExprs[c]))
        BY <1>0, <4>1, <4>2, InsertTermBefore
      <4>4. localExprs'[c] = localExprs[c] \/ localExprs'[c] = Insert(e, localExprs[c])
        BY <3>4 DEF AllocExpr, TypeOK
      <4>5. QED
        BY <1>0, <4>1, <4>3, <4>4
    <3>5. QED
      BY <1>5, <3>1, <3>2, <3>3, <3>4 DEF Check
  <2>4. \A d \in Ctx : NamesBefore("TcCtx", localNames'[d]) /\ TermsBefore("TcCtx", localExprs'[d])
    BY <1>0, <2>2, <2>3
  <2>5. NamesBefore("ExportFile", names') /\ TermsBefore("ExportFile", exprs')
    BY <2>1 DEF ChildrenFirst
  <2>6. QED
    BY <2>4, <2>5 DEF ChildrenFirst, NamesBefore, TermsBefore
<1>6. QED
  BY <1>1, <1>2, <1>3, <1>4, <1>5 DEF Next, Build

\* In every reachable state each node of each table points to earlier entries
\* only: the terms of the checker are finite, and without cycles.
THEOREM HashConsChildrenFirst == Spec => []ChildrenFirst
<1>1. Init => ChildrenFirst
  <2> SUFFICES ASSUME Init PROVE ChildrenFirst
    OBVIOUS
  <2>1. names = <<Anon>> /\ exprs = <<>> /\ \A c \in Ctx : localNames[c] = <<>> /\ localExprs[c] = <<>>
    BY DEF Init
  <2>2. QED
    BY <2>1 DEF ChildrenFirst, NamesBefore, TermsBefore, Anon
<1>2. TypeOK /\ ChildrenFirst /\ [Next]_vars => ChildrenFirst'
  BY ChildrenFirstStep
<1>3. QED
  BY <1>1, <1>2, HashConsType, PTL DEF Spec

------------------------------------------------------------------------------
(***************************************************************************)
(* Following pointers                                                      *)
(***************************************************************************)
\* The place of a pointer: the export store comes before every context.
Place(p) == IF IsTc(p) THEN Cap + p[2] ELSE p[2]

\* What a pointer to a name, or to an expression, can read as.
NameForm(c, p) ==
  \/ ReadName(c, p) = Anon
  \/ \E q \in NamePtrs(c), a \in Atom : ReadName(c, p) = Str(q, a) /\ Place(q) < Place(p)
TermForm(c, p) ==
  \/ \E q \in NamePtrs(c) : ReadExpr(c, p) = Const(q)
  \/ \E f, a \in ExprPtrs(c) :
       ReadExpr(c, p) = App(f, a) /\ Place(f) < Place(p) /\ Place(a) < Place(p)
  \/ \E k \in FVar : ReadExpr(c, p) = Local(k)

\* Places are numbers below the sum of the bounds, and tell pointers apart.
LEMMA PlacesBounded ==
  ASSUME TypeOK, NEW c \in live
  PROVE  /\ Cap \in Nat /\ LocalCap \in Nat
         /\ \A p \in NamePtrs(c) : Place(p) \in 1 .. Cap + LocalCap
         /\ \A p \in ExprPtrs(c) : Place(p) \in 1 .. Cap + LocalCap
<1>1. Cap \in Nat \ {0} /\ LocalCap \in Nat \ {0}
  BY CapAssumption
<1>2. \A p \in Ptrs : Place(p) \in 1 .. Cap + LocalCap
  BY <1>1 DEF Ptrs, ExportPtr, TcPtr, Place, IsTc
<1>3. NamePtrs(c) \subseteq Ptrs /\ ExprPtrs(c) \subseteq Ptrs
  BY PtrsInUse
<1>4. QED
  BY <1>1, <1>2, <1>3

\* A pointer to a name reads as the anonymous name, or as a component after a
\* prefix that the context can read too and that was stored before.
LEMMA NamesReadEarlier ==
  ASSUME TypeOK, ChildrenFirst, NEW c \in live, NEW p \in NamePtrs(c)
  PROVE  NameForm(c, p)
<1> DEFINE X == {"ExportFile"} \X (1 .. Len(names))
<1>0. c \in Ctx /\ Cap \in Nat /\ X \subseteq NamePtrs(c)
  BY CapAssumption DEF TypeOK, NamePtrs
<1>1. CASE ~ IsTc(p)
  <2>1. p[2] \in 1 .. Len(names) /\ ReadName(c, p) = names[p[2]] /\ Place(p) = p[2]
    BY <1>1 DEF NamePtrs, IsTc, ReadName, Place
  <2>2. names[p[2]] \in NameNodes(X)
    BY <2>1 DEF TypeOK, ExportOK
  <2>3. CASE ReadName(c, p) = Anon
    BY <2>3 DEF NameForm
  <2>4. ASSUME NEW q \in X, NEW a \in Atom, ReadName(c, p) = Str(q, a)
        PROVE  NameForm(c, p)
    <3>1. ReadName(c, p).node = "str" /\ ReadName(c, p).pfx = q
      BY <2>4 DEF Str
    <3>2. q[2] < p[2] /\ Place(q) = q[2]
      BY <2>1, <3>1 DEF ChildrenFirst, NamesBefore, Place, IsTc
    <3>3. QED
      BY <1>0, <2>1, <2>4, <3>2 DEF NameForm
  <2>5. QED
    BY <2>1, <2>2, <2>3, <2>4 DEF NameNodes
<1>2. CASE IsTc(p)
  <2>1. /\ p[2] \in 2 .. Len(localNames[c]) /\ p[2] \in 1 .. Len(localNames[c])
        /\ ReadName(c, p) = localNames[c][p[2]] /\ Place(p) = Cap + p[2]
    BY <1>2 DEF NamePtrs, IsTc, ReadName, Place
  <2>2. localNames[c][p[2]] \in NameNodes(NamePtrs(c))
    BY <2>1 DEF TypeOK, StoreOK
  <2>3. CASE ReadName(c, p) = Anon
    BY <2>3 DEF NameForm
  <2>4. ASSUME NEW q \in NamePtrs(c), NEW a \in Atom, ReadName(c, p) = Str(q, a)
        PROVE  NameForm(c, p)
    <3>1. ReadName(c, p).node = "str" /\ ReadName(c, p).pfx = q
      BY <2>4 DEF Str
    <3>2. CASE q \in X
      <4>1. Place(q) = q[2] /\ q[2] \in 1 .. Len(names) /\ Len(names) \in 1 .. Cap
        BY <3>2 DEF Place, IsTc, TypeOK, ExportOK
      <4>2. Place(q) < Place(p)
        BY <1>0, <2>1, <4>1
      <4>3. QED
        BY <2>4, <4>2 DEF NameForm
    <3>3. CASE q \notin X
      <4>1. q[1] = "TcCtx" /\ q[2] \in 2 .. Len(localNames[c]) /\ Place(q) = Cap + q[2]
        BY <3>3 DEF NamePtrs, Place, IsTc
      <4>2. q[2] < p[2]
        BY <1>0, <2>1, <3>1, <4>1 DEF ChildrenFirst, NamesBefore
      <4>3. Place(q) < Place(p)
        BY <1>0, <2>1, <4>1, <4>2
      <4>4. QED
        BY <2>4, <4>3 DEF NameForm
    <3>4. QED
      BY <3>2, <3>3
  <2>5. QED
    BY <2>1, <2>2, <2>3, <2>4 DEF NameNodes
<1>3. QED
  BY <1>1, <1>2

\* A child of a node in the export store is in the export store, and before it;
\* a child of a context's node is in the export store or before it.
LEMMA ChildBefore ==
  ASSUME TypeOK, NEW c \in live, NEW p \in ExprPtrs(c), NEW q \in ExprPtrs(c),
         ~ IsTc(p) => ~ IsTc(q),
         p[1] = q[1] => q[2] < p[2]
  PROVE  Place(q) < Place(p)
<1>1. /\ Cap \in Nat /\ Len(exprs) \in Nat /\ Len(exprs) <= Cap
      /\ Len(localExprs[c]) \in Nat
  BY CapAssumption, LenProperties DEF TypeOK, ExportOK, StoreOK
<1>2. \A r \in ExprPtrs(c) :
        \/ r[1] = "ExportFile" /\ r[2] \in 1 .. Len(exprs) /\ Place(r) = r[2]
        \/ r[1] = "TcCtx" /\ r[2] \in 1 .. Len(localExprs[c]) /\ Place(r) = Cap + r[2]
  BY <1>1 DEF ExprPtrs, Place, IsTc
<1>3. CASE p[1] = q[1]
  BY <1>1, <1>2, <1>3
<1>4. CASE p[1] # q[1]
  BY <1>1, <1>2, <1>4 DEF IsTc
<1>5. QED
  BY <1>3, <1>4

\* A pointer to an expression reads as a constant, a free variable, or an
\* application whose parts the context can read too and that were stored before.
LEMMA TermsReadEarlier ==
  ASSUME TypeOK, ChildrenFirst, NEW c \in live, NEW p \in ExprPtrs(c)
  PROVE  TermForm(c, p)
<1> DEFINE X == {"ExportFile"} \X (1 .. Len(names))
           Y == {"ExportFile"} \X (1 .. Len(exprs))
<1>0. c \in Ctx /\ X \subseteq NamePtrs(c) /\ Y \subseteq ExprPtrs(c)
  BY DEF TypeOK, NamePtrs, ExprPtrs
<1>1. CASE ~ IsTc(p)
  <2>1. p[1] = "ExportFile" /\ p[2] \in 1 .. Len(exprs) /\ ReadExpr(c, p) = exprs[p[2]]
    BY <1>1 DEF ExprPtrs, IsTc, ReadExpr
  <2>2. exprs[p[2]] \in TermNodes(X, Y)
    BY <2>1 DEF TypeOK, ExportOK
  <2>3. ASSUME NEW q \in X, ReadExpr(c, p) = Const(q) PROVE TermForm(c, p)
    BY <1>0, <2>3 DEF TermForm
  <2>4. ASSUME NEW f \in Y, NEW a \in Y, ReadExpr(c, p) = App(f, a) PROVE TermForm(c, p)
    <3>1. /\ ReadExpr(c, p).node = "app"
          /\ ReadExpr(c, p).fun = f /\ ReadExpr(c, p).arg = a
      BY <2>4 DEF App
    <3>2. f[2] < p[2] /\ a[2] < p[2] /\ ~ IsTc(f) /\ ~ IsTc(a)
      BY <2>1, <3>1 DEF ChildrenFirst, TermsBefore, IsTc
    <3>3. f \in ExprPtrs(c) /\ a \in ExprPtrs(c)
      BY <1>0
    <3>4. Place(f) < Place(p) /\ Place(a) < Place(p)
      BY <3>2, <3>3, ChildBefore
    <3>5. QED
      BY <2>4, <3>3, <3>4 DEF TermForm
  <2>5. QED
    BY <2>1, <2>2, <2>3, <2>4 DEF TermNodes
<1>2. CASE IsTc(p)
  <2>1. p[1] = "TcCtx" /\ p[2] \in 1 .. Len(localExprs[c]) /\ ReadExpr(c, p) = localExprs[c][p[2]]
    BY <1>2 DEF ExprPtrs, IsTc, ReadExpr
  <2>2. localExprs[c][p[2]] \in ExprNodes(NamePtrs(c), ExprPtrs(c))
    BY <2>1 DEF TypeOK, StoreOK
  <2>3. ASSUME NEW q \in NamePtrs(c), ReadExpr(c, p) = Const(q) PROVE TermForm(c, p)
    BY <2>3 DEF TermForm
  <2>4. ASSUME NEW f \in ExprPtrs(c), NEW a \in ExprPtrs(c), ReadExpr(c, p) = App(f, a)
        PROVE  TermForm(c, p)
    <3>1. /\ ReadExpr(c, p).node = "app"
          /\ ReadExpr(c, p).fun = f /\ ReadExpr(c, p).arg = a
      BY <2>4 DEF App
    <3>2. (f[1] = "TcCtx" => f[2] < p[2]) /\ (a[1] = "TcCtx" => a[2] < p[2])
      BY <1>0, <2>1, <3>1 DEF ChildrenFirst, TermsBefore
    <3>3. Place(f) < Place(p) /\ Place(a) < Place(p)
      BY <1>2, <2>1, <3>2, ChildBefore
    <3>4. QED
      BY <2>4, <3>3 DEF TermForm
  <2>5. ASSUME NEW k \in FVar, ReadExpr(c, p) = Local(k) PROVE TermForm(c, p)
    BY <2>5 DEF TermForm
  <2>6. QED
    BY <2>1, <2>2, <2>3, <2>4, <2>5 DEF ExprNodes, TermNodes
<1>3. QED
  BY <1>1, <1>2

\* Following the prefixes of a name comes to an end: the recursion that reads
\* whole names has a solution, and NameOf is one.
LEMMA NameOfEquation ==
  ASSUME TypeOK, ChildrenFirst, NEW c \in live
  PROVE  NameOf(c) = [p \in NamePtrs(c) |-> WholeName(ReadName(c, p), NameOf(c))]
<1> DEFINE D == NamePtrs(c)
           Whole(p, f) == WholeName(ReadName(c, p), f)
           Below(k, f) == f = [p \in D |-> IF Place(p) < k THEN Whole(p, f) ELSE Anon]
           Bad == {k \in Nat : ~ \E f : Below(k, f)}
<1>1. /\ Cap \in Nat /\ LocalCap \in Nat
      /\ \A p \in D : Place(p) \in 1 .. Cap + LocalCap
  BY PlacesBounded
<1>2. ASSUME NEW k \in Nat, NEW p \in D, NEW f, NEW g, Place(p) <= k,
             \A q \in D : Place(q) < k => f[q] = g[q]
      PROVE  Whole(p, f) = Whole(p, g)
  <2>1. NameForm(c, p)
    BY NamesReadEarlier
  <2>2. CASE ReadName(c, p) = Anon
    BY <2>2 DEF WholeName, Anon
  <2>3. ASSUME NEW q \in D, NEW a \in Atom, ReadName(c, p) = Str(q, a), Place(q) < Place(p)
        PROVE  Whole(p, f) = Whole(p, g)
    <3>1. f[q] = g[q]
      BY <1>1, <1>2, <2>3
    <3>2. QED
      BY <2>3, <3>1 DEF WholeName, Str
  <2>4. QED
    BY <2>1, <2>2, <2>3 DEF NameForm
<1>3. Bad = {}
  <2> SUFFICES ASSUME Bad # {} PROVE FALSE
    OBVIOUS
  <2>1. \E k \in Bad : \A l \in Bad : k <= l
    <3>1. Bad \in SUBSET Nat
      OBVIOUS
    <3> HIDE DEF Bad
    <3>2. QED
      BY <3>1, LeastNat
  <2>2. PICK k \in Bad : \A l \in Bad : k <= l
    BY <2>1
  <2>3. k # 0
    <3>1. Below(0, [p \in D |-> Anon])
      <4>1. \A p \in D : ~ (Place(p) < 0)
        BY <1>1
      <4> HIDE DEF D, Whole
      <4>2. QED
        BY <4>1
    <3> HIDE DEF Below
    <3>2. QED
      BY <3>1
  <2>4. k - 1 \in Nat /\ k - 1 \notin Bad
    BY <2>2, <2>3
  <2>5. PICK f : Below(k - 1, f)
    <3> HIDE DEF Below
    <3>1. QED
      BY <2>4
  <2> DEFINE g == [p \in D |-> IF Place(p) < k THEN Whole(p, f) ELSE Anon]
  <2> HIDE DEF D, Whole
  <2>6. \A q \in D : Place(q) < k - 1 => f[q] = g[q]
    <3> SUFFICES ASSUME NEW q \in D, Place(q) < k - 1 PROVE f[q] = g[q]
      OBVIOUS
    <3>1. f[q] = Whole(q, f)
      BY <2>5
    <3>2. Place(q) < k
      BY <1>1, <2>4
    <3>3. QED
      BY <3>1, <3>2
  <2> HIDE DEF g
  <2>7. ASSUME NEW p \in D, Place(p) < k PROVE Whole(p, f) = Whole(p, g)
    <3>1. Place(p) <= k - 1
      BY <1>1, <2>4, <2>7
    <3>2. QED
      BY <1>2, <2>4, <2>6, <3>1
  <2>8. Below(k, g)
    BY <2>7 DEF g
  <2>9. QED
    <3> HIDE DEF Below
    <3>1. QED
      BY <2>2, <2>8
<1>4. \E f : f = [p \in D |-> Whole(p, f)]
  <2> DEFINE k == Cap + LocalCap + 1
  <2>1. k \in Nat /\ \A p \in D : Place(p) < k
    BY <1>1
  <2>2. PICK f : Below(k, f)
    <3> HIDE DEF Below, k
    <3>1. QED
      BY <1>3, <2>1
  <2> HIDE DEF D, Whole, k
  <2>3. f = [p \in D |-> Whole(p, f)]
    BY <2>1, <2>2
  <2>4. QED
    BY <2>3
<1>5. NameOf(c) = CHOOSE f : f = [p \in D |-> Whole(p, f)]
  BY DEF NameOf
<1> HIDE DEF Bad, Below
<1>6. QED
  BY <1>4, <1>5

\* The same for the parts of an expression.
LEMMA TermOfEquation ==
  ASSUME TypeOK, ChildrenFirst, NEW c \in live
  PROVE  TermOf(c) = [p \in ExprPtrs(c) |-> WholeTerm(ReadExpr(c, p), NameOf(c), TermOf(c))]
<1> DEFINE D == ExprPtrs(c)
           Whole(p, f) == WholeTerm(ReadExpr(c, p), NameOf(c), f)
           Below(k, f) == f = [p \in D |-> IF Place(p) < k THEN Whole(p, f) ELSE Anon]
           Bad == {k \in Nat : ~ \E f : Below(k, f)}
<1>1. /\ Cap \in Nat /\ LocalCap \in Nat
      /\ \A p \in D : Place(p) \in 1 .. Cap + LocalCap
  BY PlacesBounded
<1>2. ASSUME NEW k \in Nat, NEW p \in D, NEW f, NEW g, Place(p) <= k,
             \A q \in D : Place(q) < k => f[q] = g[q]
      PROVE  Whole(p, f) = Whole(p, g)
  <2>1. TermForm(c, p)
    BY TermsReadEarlier
  <2>2. ASSUME NEW q \in NamePtrs(c), ReadExpr(c, p) = Const(q)
        PROVE  Whole(p, f) = Whole(p, g)
    BY <2>2 DEF WholeTerm, Const
  <2>3. ASSUME NEW x \in D, NEW y \in D, ReadExpr(c, p) = App(x, y),
               Place(x) < Place(p), Place(y) < Place(p)
        PROVE  Whole(p, f) = Whole(p, g)
    <3>1. f[x] = g[x] /\ f[y] = g[y]
      BY <1>1, <1>2, <2>3
    <3>2. QED
      BY <2>3, <3>1 DEF WholeTerm, App
  <2>4. ASSUME NEW k0 \in FVar, ReadExpr(c, p) = Local(k0)
        PROVE  Whole(p, f) = Whole(p, g)
    BY <2>4 DEF WholeTerm, Local
  <2>5. QED
    BY <2>1, <2>2, <2>3, <2>4 DEF TermForm
<1>3. Bad = {}
  <2> SUFFICES ASSUME Bad # {} PROVE FALSE
    OBVIOUS
  <2>1. \E k \in Bad : \A l \in Bad : k <= l
    <3>1. Bad \in SUBSET Nat
      OBVIOUS
    <3> HIDE DEF Bad
    <3>2. QED
      BY <3>1, LeastNat
  <2>2. PICK k \in Bad : \A l \in Bad : k <= l
    BY <2>1
  <2>3. k # 0
    <3>1. Below(0, [p \in D |-> Anon])
      <4>1. \A p \in D : ~ (Place(p) < 0)
        BY <1>1
      <4> HIDE DEF D, Whole
      <4>2. QED
        BY <4>1
    <3> HIDE DEF Below
    <3>2. QED
      BY <3>1
  <2>4. k - 1 \in Nat /\ k - 1 \notin Bad
    BY <2>2, <2>3
  <2>5. PICK f : Below(k - 1, f)
    <3> HIDE DEF Below
    <3>1. QED
      BY <2>4
  <2> DEFINE g == [p \in D |-> IF Place(p) < k THEN Whole(p, f) ELSE Anon]
  <2> HIDE DEF D, Whole
  <2>6. \A q \in D : Place(q) < k - 1 => f[q] = g[q]
    <3> SUFFICES ASSUME NEW q \in D, Place(q) < k - 1 PROVE f[q] = g[q]
      OBVIOUS
    <3>1. f[q] = Whole(q, f)
      BY <2>5
    <3>2. Place(q) < k
      BY <1>1, <2>4
    <3>3. QED
      BY <3>1, <3>2
  <2> HIDE DEF g
  <2>7. ASSUME NEW p \in D, Place(p) < k PROVE Whole(p, f) = Whole(p, g)
    <3>1. Place(p) <= k - 1
      BY <1>1, <2>4, <2>7
    <3>2. QED
      BY <1>2, <2>4, <2>6, <3>1
  <2>8. Below(k, g)
    BY <2>7 DEF g
  <2>9. QED
    <3> HIDE DEF Below
    <3>1. QED
      BY <2>2, <2>8
<1>4. \E f : f = [p \in D |-> Whole(p, f)]
  <2> DEFINE k == Cap + LocalCap + 1
  <2>1. k \in Nat /\ \A p \in D : Place(p) < k
    BY <1>1
  <2>2. PICK f : Below(k, f)
    <3> HIDE DEF Below, k
    <3>1. QED
      BY <1>3, <2>1
  <2> HIDE DEF D, Whole, k
  <2>3. f = [p \in D |-> Whole(p, f)]
    BY <2>1, <2>2
  <2>4. QED
    BY <2>3
<1>5. TermOf(c) = CHOOSE f : f = [p \in D |-> Whole(p, f)]
  BY DEF TermOf
<1> HIDE DEF Bad, Below
<1>6. QED
  BY <1>4, <1>5

------------------------------------------------------------------------------
(***************************************************************************)
(* Equal terms have equal pointers                                         *)
(***************************************************************************)
\* A node that two pointers read as, in one context or one of them in the
\* environment, has one pointer: a context does not store what is there already.
LEMMA OneNodeOnePointer ==
  ASSUME TypeOK, Inv, NEW c \in live, NEW d \in live
  PROVE  /\ \A p \in NamePtrs(c), q \in NamePtrs(d) :
              ((c = d \/ ~ IsTc(p)) /\ ReadName(c, p) = ReadName(d, q)) => p = q
         /\ \A p \in ExprPtrs(c), q \in ExprPtrs(d) :
              ((c = d \/ ~ IsTc(p)) /\ ReadExpr(c, p) = ReadExpr(d, q)) => p = q
<1>1. Canonical
  BY InvCanonical
<1>2. ASSUME NEW p \in NamePtrs(c), NEW q \in NamePtrs(d),
             ~ IsTc(p), ReadName(c, p) = ReadName(d, q)
      PROVE  p = q
  <2>1. p[1] = "ExportFile" /\ p[2] \in 1 .. Len(names) /\ names[p[2]] = ReadName(d, q)
    BY <1>2 DEF NamePtrs, IsTc, ReadName
  <2>2. CASE IsTc(q)
    <3>1. q[2] \in 2 .. Len(localNames[d]) /\ ReadName(d, q) = localNames[d][q[2]]
      BY <2>2 DEF NamePtrs, IsTc, ReadName
    <3>2. QED
      BY <2>1, <3>1 DEF Inv, NoShadow, InTable
  <2>3. CASE ~ IsTc(q)
    <3>1. q[1] = "ExportFile" /\ q[2] \in 1 .. Len(names) /\ ReadName(d, q) = names[q[2]]
      BY <2>3 DEF NamePtrs, IsTc, ReadName
    <3>2. p[2] = q[2]
      BY <2>1, <3>1 DEF Inv, NoDuplicate, Distinct
    <3>3. QED
      BY <2>1, <3>1, <3>2 DEF NamePtrs
  <2>4. QED
    BY <2>2, <2>3
<1>3. ASSUME NEW p \in ExprPtrs(c), NEW q \in ExprPtrs(d),
             ~ IsTc(p), ReadExpr(c, p) = ReadExpr(d, q)
      PROVE  p = q
  <2>1. p[1] = "ExportFile" /\ p[2] \in 1 .. Len(exprs) /\ exprs[p[2]] = ReadExpr(d, q)
    BY <1>3 DEF ExprPtrs, IsTc, ReadExpr
  <2>2. CASE IsTc(q)
    <3>1. q[2] \in 1 .. Len(localExprs[d]) /\ ReadExpr(d, q) = localExprs[d][q[2]]
      BY <2>2 DEF ExprPtrs, IsTc, ReadExpr
    <3>2. QED
      BY <2>1, <3>1 DEF Inv, NoShadow, InTable
  <2>3. CASE ~ IsTc(q)
    <3>1. q[1] = "ExportFile" /\ q[2] \in 1 .. Len(exprs) /\ ReadExpr(d, q) = exprs[q[2]]
      BY <2>3 DEF ExprPtrs, IsTc, ReadExpr
    <3>2. p[2] = q[2]
      BY <2>1, <3>1 DEF Inv, NoDuplicate, Distinct
    <3>3. QED
      BY <2>1, <3>1, <3>2 DEF ExprPtrs
  <2>4. QED
    BY <2>2, <2>3
<1>4. QED
  BY <1>1, <1>2, <1>3 DEF Canonical

\* What is stored before an entry of the environment is in the environment.
LEMMA EarlierIsExport ==
  ASSUME TypeOK, NEW p, NEW q, Place(q) < Place(p), ~ IsTc(p),
         \/ \E c \in live : p \in NamePtrs(c) /\ q \in NamePtrs(c)
         \/ \E c \in live : p \in ExprPtrs(c) /\ q \in ExprPtrs(c)
  PROVE  ~ IsTc(q)
<1>1. p \in Ptrs /\ q \in Ptrs
  BY PtrsInUse
<1>2. Cap \in Nat /\ LocalCap \in Nat
  BY CapAssumption
<1>3. QED
  BY <1>1, <1>2 DEF Ptrs, ExportPtr, TcPtr, Place, IsTc

\* Two pointers that stand for one whole name are the same pointer, if they are
\* of one context or the first is of the environment.
LEMMA OneNameOnePointer ==
  ASSUME TypeOK, Inv, ChildrenFirst, NEW c \in live, NEW d \in live,
         NEW r \in NamePtrs(c), NEW s \in NamePtrs(d),
         c = d \/ ~ IsTc(r), NameOf(c)[r] = NameOf(d)[s]
  PROVE  r = s
<1> DEFINE Bad == {p \in NamePtrs(c) :
                     /\ c = d \/ ~ IsTc(p)
                     /\ \E q \in NamePtrs(d) : NameOf(c)[p] = NameOf(d)[q] /\ p # q}
           T == {Place(p) : p \in Bad}
<1>1. \A p \in NamePtrs(c) : NameOf(c)[p] = WholeName(ReadName(c, p), NameOf(c))
  BY NameOfEquation
<1>2. \A p \in NamePtrs(d) : NameOf(d)[p] = WholeName(ReadName(d, p), NameOf(d))
  BY NameOfEquation
<1>3. SUFFICES ASSUME Bad # {} PROVE FALSE
  OBVIOUS
<1>4. PICK p \in Bad : \A x \in Bad : Place(p) <= Place(x)
  <2>1. T \in SUBSET Nat /\ T # {}
    <3>1. \A x \in NamePtrs(c) : Place(x) \in Nat
      BY PlacesBounded
    <3>2. QED
      BY <1>3, <3>1
  <2> HIDE DEF T
  <2>2. \E t \in T : \A u \in T : t <= u
    BY <2>1, LeastNat
  <2>3. QED
    BY <2>2 DEF T
<1>5. p \in NamePtrs(c) /\ (c = d \/ ~ IsTc(p))
  BY <1>4
<1>6. PICK q \in NamePtrs(d) : NameOf(c)[p] = NameOf(d)[q] /\ p # q
  BY <1>4
<1>7. WholeName(ReadName(c, p), NameOf(c)) = WholeName(ReadName(d, q), NameOf(d))
  BY <1>1, <1>2, <1>5, <1>6
<1>8. ReadName(c, p) # ReadName(d, q)
  BY <1>5, <1>6, OneNodeOnePointer
<1>9. NameForm(c, p) /\ NameForm(d, q)
  BY <1>5, <1>6, NamesReadEarlier
<1>10. \A x : WholeName(Anon, x) = Anon
  BY DEF WholeName, Anon
<1>11. \A f, y, a : WholeName(Str(y, a), f) = Str(f[y], a)
  BY DEF WholeName, Str
<1>12. \A y, a : Str(y, a) # Anon
  <2>1. \A y, a : Str(y, a).node = "str"
    BY DEF Str
  <2>2. Anon.node = "anon"
    BY DEF Anon
  <2>3. QED
    BY <2>1, <2>2
<1>13. \A y, a, z, b : Str(y, a) = Str(z, b) => y = z /\ a = b
  <2>1. \A y, a : Str(y, a).pfx = y /\ Str(y, a).sfx = a
    BY DEF Str
  <2>2. ASSUME NEW y, NEW a, NEW z, NEW b, Str(y, a) = Str(z, b) PROVE y = z /\ a = b
    <3>1. Str(y, a).pfx = Str(z, b).pfx /\ Str(y, a).sfx = Str(z, b).sfx
      BY <2>2
    <3>2. QED
      BY <2>1, <3>1
  <2>3. QED
    BY <2>2
<1> HIDE DEF Bad
<1>14. CASE ReadName(c, p) = Anon
  BY <1>7, <1>8, <1>9, <1>10, <1>11, <1>12, <1>14 DEF NameForm
<1>15. ASSUME NEW x \in NamePtrs(c), NEW a \in Atom,
              ReadName(c, p) = Str(x, a), Place(x) < Place(p)
       PROVE  FALSE
  <2>1. PICK y \in NamePtrs(d), b \in Atom : ReadName(d, q) = Str(y, b)
    BY <1>7, <1>9, <1>10, <1>11, <1>12, <1>15 DEF NameForm
  <2>2. NameOf(c)[x] = NameOf(d)[y] /\ a = b
    BY <1>7, <1>11, <1>13, <1>15, <2>1
  <2>3. c = d \/ ~ IsTc(x)
    BY <1>5, <1>15, EarlierIsExport
  <2>4. x \notin Bad
    <3>1. Place(x) \in Nat /\ Place(p) \in Nat
      BY <1>5, PlacesBounded
    <3>2. ~ (Place(p) <= Place(x))
      BY <1>15, <3>1
    <3>3. QED
      BY <1>4, <3>2
  <2>5. x = y
    BY <2>2, <2>3, <2>4 DEF Bad
  <2>6. QED
    BY <1>8, <1>15, <2>1, <2>2, <2>5
<1>16. QED
  BY <1>9, <1>14, <1>15 DEF NameForm

\* The same for expressions.
LEMMA OneTermOnePointer ==
  ASSUME TypeOK, Inv, ChildrenFirst, NEW c \in live, NEW d \in live,
         NEW r \in ExprPtrs(c), NEW s \in ExprPtrs(d),
         c = d \/ ~ IsTc(r), TermOf(c)[r] = TermOf(d)[s]
  PROVE  r = s
<1> DEFINE Bad == {p \in ExprPtrs(c) :
                     /\ c = d \/ ~ IsTc(p)
                     /\ \E q \in ExprPtrs(d) : TermOf(c)[p] = TermOf(d)[q] /\ p # q}
           T == {Place(p) : p \in Bad}
           Whole(e, m) == WholeTerm(e, NameOf(m), TermOf(m))
<1>1. \A p \in ExprPtrs(c) : TermOf(c)[p] = Whole(ReadExpr(c, p), c)
  BY TermOfEquation
<1>2. \A p \in ExprPtrs(d) : TermOf(d)[p] = Whole(ReadExpr(d, p), d)
  BY TermOfEquation
<1>3. SUFFICES ASSUME Bad # {} PROVE FALSE
  OBVIOUS
<1>4. PICK p \in Bad : \A x \in Bad : Place(p) <= Place(x)
  <2>1. T \in SUBSET Nat /\ T # {}
    <3>1. \A x \in ExprPtrs(c) : Place(x) \in Nat
      BY PlacesBounded
    <3>2. QED
      BY <1>3, <3>1
  <2> HIDE DEF T
  <2>2. \E t \in T : \A u \in T : t <= u
    BY <2>1, LeastNat
  <2>3. QED
    BY <2>2 DEF T
<1>5. p \in ExprPtrs(c) /\ (c = d \/ ~ IsTc(p))
  BY <1>4
<1>6. PICK q \in ExprPtrs(d) : TermOf(c)[p] = TermOf(d)[q] /\ p # q
  BY <1>4
<1>7. Whole(ReadExpr(c, p), c) = Whole(ReadExpr(d, q), d)
  BY <1>1, <1>2, <1>5, <1>6
<1>8. ReadExpr(c, p) # ReadExpr(d, q)
  BY <1>5, <1>6, OneNodeOnePointer
<1>9. TermForm(c, p) /\ TermForm(d, q)
  BY <1>5, <1>6, TermsReadEarlier
<1>10. \A m, n : Whole(Const(n), m) = Const(NameOf(m)[n])
  BY DEF WholeTerm, Const
<1>11. \A m, f, a : Whole(App(f, a), m) = App(TermOf(m)[f], TermOf(m)[a])
  BY DEF WholeTerm, App
<1>12. \A m, k : Whole(Local(k), m) = Local(k)
  BY DEF WholeTerm, Local
<1>13. \A n, f, a, k : /\ Const(n).node = "const" /\ Const(n).name = n
                       /\ App(f, a).node = "app" /\ App(f, a).fun = f /\ App(f, a).arg = a
                       /\ Local(k).node = "local"
  BY DEF Const, App, Local
<1>14. \A x \in ExprPtrs(c), y \in ExprPtrs(d) :
         (Place(x) < Place(p) /\ TermOf(c)[x] = TermOf(d)[y]) => x = y
  <2> SUFFICES ASSUME NEW x \in ExprPtrs(c), NEW y \in ExprPtrs(d),
                      Place(x) < Place(p), TermOf(c)[x] = TermOf(d)[y]
               PROVE  x = y
    OBVIOUS
  <2>1. c = d \/ ~ IsTc(x)
    BY <1>5, EarlierIsExport
  <2>2. x \notin Bad
    <3>1. Place(x) \in Nat /\ Place(p) \in Nat
      BY <1>5, PlacesBounded
    <3> HIDE DEF Bad
    <3>2. ~ (Place(p) <= Place(x))
      BY <3>1
    <3>3. QED
      BY <1>4, <3>2
  <2>3. QED
    BY <2>1, <2>2
<1> HIDE DEF Bad, Whole
<1>15. ASSUME NEW n \in NamePtrs(c), ReadExpr(c, p) = Const(n) PROVE FALSE
  <2>1. Const(NameOf(c)[n]) = Whole(ReadExpr(d, q), d)
    BY <1>7, <1>10, <1>15
  <2>2. PICK m \in NamePtrs(d) : ReadExpr(d, q) = Const(m)
    BY <1>9, <1>11, <1>12, <1>13, <2>1 DEF TermForm
  <2>3. NameOf(c)[n] = NameOf(d)[m]
    BY <1>10, <1>13, <2>1, <2>2
  <2>4. c = d \/ ~ IsTc(n)
    <3>1. CASE ~ IsTc(p)
      <4>1. ReadExpr(c, p) \in TermNodes({"ExportFile"} \X (1 .. Len(names)),
                                         {"ExportFile"} \X (1 .. Len(exprs)))
        <5>1. p[2] \in 1 .. Len(exprs) /\ ReadExpr(c, p) = exprs[p[2]]
          BY <1>5, <3>1 DEF ExprPtrs, IsTc, ReadExpr
        <5>2. QED
          BY <5>1 DEF TypeOK, ExportOK
      <4>2. ~ IsExprLocalOnly(ReadExpr(c, p))
        BY <4>1, LocalOnlyNotExported
      <4>3. QED
        BY <1>13, <1>15, <4>2 DEF IsExprLocalOnly
    <3>2. QED
      BY <1>5, <3>1
  <2>5. n = m
    BY <2>3, <2>4, OneNameOnePointer
  <2>6. QED
    BY <1>8, <1>15, <2>2, <2>5
<1>16. ASSUME NEW f \in ExprPtrs(c), NEW a \in ExprPtrs(c), ReadExpr(c, p) = App(f, a),
              Place(f) < Place(p), Place(a) < Place(p)
       PROVE  FALSE
  <2>1. App(TermOf(c)[f], TermOf(c)[a]) = Whole(ReadExpr(d, q), d)
    BY <1>7, <1>11, <1>16
  <2>2. PICK g \in ExprPtrs(d), b \in ExprPtrs(d) : ReadExpr(d, q) = App(g, b)
    BY <1>9, <1>10, <1>12, <1>13, <2>1 DEF TermForm
  <2>3. TermOf(c)[f] = TermOf(d)[g] /\ TermOf(c)[a] = TermOf(d)[b]
    BY <1>11, <1>13, <2>1, <2>2
  <2>4. f = g /\ a = b
    BY <1>14, <1>16, <2>3
  <2>5. QED
    BY <1>8, <1>16, <2>2, <2>4
<1>17. ASSUME NEW k \in FVar, ReadExpr(c, p) = Local(k) PROVE FALSE
  <2>1. Local(k) = Whole(ReadExpr(d, q), d)
    BY <1>7, <1>12, <1>17
  <2>2. PICK l \in FVar : ReadExpr(d, q) = Local(l)
    BY <1>9, <1>10, <1>11, <1>13, <2>1 DEF TermForm
  <2>3. QED
    BY <1>8, <1>12, <1>17, <2>1, <2>2
<1>18. QED
  BY <1>9, <1>15, <1>16, <1>17 DEF TermForm

\* Comparing two pointers of a context is comparing the whole names, and the
\* whole expressions, that they stand for.
THEOREM HashConsPointerEquality == Spec => []PointerEqualityIsTermEquality
<1>1. TypeOK /\ Inv /\ ChildrenFirst => PointerEqualityIsTermEquality
  BY OneNameOnePointer, OneTermOnePointer DEF PointerEqualityIsTermEquality
<1>2. QED
  BY <1>1, HashConsInv, HashConsChildrenFirst, PTL

\* A term of the environment has one pointer in all contexts: what one context
\* found out about it by its pointer is about the same term in another.
THEOREM HashConsShared == Spec => []SharedAcrossContexts
<1>1. TypeOK /\ Inv /\ ChildrenFirst => SharedAcrossContexts
  BY OneTermOnePointer DEF SharedAcrossContexts
<1>2. QED
  BY <1>1, HashConsInv, HashConsChildrenFirst, PTL

------------------------------------------------------------------------------
(***************************************************************************)
(* A pointer keeps its whole term                                          *)
(***************************************************************************)
NameEquation(c) == NameOf(c) = [p \in NamePtrs(c) |-> WholeName(ReadName(c, p), NameOf(c))]
TermEquation(c) == TermOf(c) = [p \in ExprPtrs(c) |-> WholeTerm(ReadExpr(c, p), NameOf(c), TermOf(c))]
Equations == \A c \in live : NameEquation(c) /\ TermEquation(c)

\* The equations hold in every state with the invariant, the next one included.
LEMMA EquationsHold == TypeOK /\ ChildrenFirst => Equations
BY NameOfEquation, TermOfEquation DEF Equations, NameEquation, TermEquation

\* The same in the next state.
LEMMA EquationsHoldNext == (TypeOK /\ ChildrenFirst => Equations)'
BY EquationsHold, PTL

\* As long as a context lives, a pointer of it stands for the same whole name or
\* expression, whatever is stored meanwhile, here or in other contexts: what is
\* cached by a pointer stays an answer about the same term.
WholeTermsStable ==
  [][\A c \in live :
       c \in live' =>
         /\ \A p \in NamePtrs(c) : NameOf(c)'[p] = NameOf(c)[p]
         /\ \A p \in ExprPtrs(c) : TermOf(c)'[p] = TermOf(c)[p]]_vars

\* One step leaves the whole names and expressions of a context that goes on.
LEMMA WholeTermsStep ==
  ASSUME TypeOK, TypeOK', Inv, ChildrenFirst, ChildrenFirst', [Next]_vars,
         NEW c \in live, c \in live'
  PROVE  /\ \A p \in NamePtrs(c) : NameOf(c)'[p] = NameOf(c)[p]
         /\ \A p \in ExprPtrs(c) : TermOf(c)'[p] = TermOf(c)[p]
<1>1. Kept(c)
  BY StableStep
<1>2. NameEquation(c) /\ TermEquation(c) /\ NameEquation(c)' /\ TermEquation(c)'
  BY EquationsHold, EquationsHoldNext DEF Equations
<1>3. \A p \in NamePtrs(c) : NameOf(c)'[p] = NameOf(c)[p]
  <2> DEFINE Bad == {p \in NamePtrs(c) : NameOf(c)'[p] # NameOf(c)[p]}
             T == {Place(p) : p \in Bad}
  <2>1. ASSUME NEW p \in NamePtrs(c)
        PROVE  /\ NameOf(c)[p] = WholeName(ReadName(c, p), NameOf(c))
               /\ NameOf(c)'[p] = WholeName(ReadName(c, p), NameOf(c)')
    <3>1. p \in NamePtrs(c)' /\ ReadName(c, p)' = ReadName(c, p)
      BY <1>1 DEF Kept
    <3>2. NameOf(c)' = [x \in NamePtrs(c)' |-> WholeName(ReadName(c, x)', NameOf(c)')]
      BY <1>2 DEF NameEquation, WholeName
    <3>3. NameOf(c) = [x \in NamePtrs(c) |-> WholeName(ReadName(c, x), NameOf(c))]
      BY <1>2 DEF NameEquation
    <3>4. NameOf(c)'[p] = WholeName(ReadName(c, p)', NameOf(c)')
      BY <3>1, <3>2
    <3>5. NameOf(c)[p] = WholeName(ReadName(c, p), NameOf(c))
      BY <3>3
    <3>6. QED
      BY <3>1, <3>4, <3>5
  <2>2. SUFFICES ASSUME Bad # {} PROVE FALSE
    OBVIOUS
  <2>3. T \in SUBSET Nat /\ T # {}
    <3>1. \A x \in NamePtrs(c) : Place(x) \in Nat
      BY PlacesBounded
    <3>2. QED
      BY <2>2, <3>1
  <2>4. \E t \in T : \A u \in T : t <= u
    <3> HIDE DEF T
    <3>1. QED
      BY <2>3, LeastNat
  <2>5. PICK p \in Bad : \A x \in Bad : Place(p) <= Place(x)
    BY <2>4
  <2>6. ASSUME NEW x \in NamePtrs(c), Place(x) < Place(p) PROVE NameOf(c)'[x] = NameOf(c)[x]
    <3>1. Place(x) \in Nat /\ Place(p) \in Nat
      BY PlacesBounded
    <3>2. ~ (Place(p) <= Place(x))
      BY <2>6, <3>1
    <3>3. QED
      BY <2>5, <3>2
  <2>7. NameForm(c, p)
    BY NamesReadEarlier
  <2>8. NameOf(c)'[p] = NameOf(c)[p]
    <3>1. CASE ReadName(c, p) = Anon
      BY <2>1, <3>1 DEF WholeName, Anon
    <3>2. ASSUME NEW q \in NamePtrs(c), NEW a \in Atom,
                 ReadName(c, p) = Str(q, a), Place(q) < Place(p)
          PROVE  NameOf(c)'[p] = NameOf(c)[p]
      <4>1. NameOf(c)'[q] = NameOf(c)[q]
        BY <2>6, <3>2
      <4>2. \A f : WholeName(Str(q, a), f) = Str(f[q], a)
        BY DEF WholeName, Str
      <4>3. /\ NameOf(c)[p] = WholeName(Str(q, a), NameOf(c))
            /\ NameOf(c)'[p] = WholeName(Str(q, a), NameOf(c)')
        BY <2>1, <3>2
      <4>4. QED
        BY <4>1, <4>2, <4>3
    <3>3. QED
      BY <2>7, <3>1, <3>2 DEF NameForm
  <2>9. QED
    BY <2>8
<1>4. \A p \in ExprPtrs(c) : TermOf(c)'[p] = TermOf(c)[p]
  <2> DEFINE Bad == {p \in ExprPtrs(c) : TermOf(c)'[p] # TermOf(c)[p]}
             T == {Place(p) : p \in Bad}
  <2>1. ASSUME NEW p \in ExprPtrs(c)
        PROVE  /\ TermOf(c)[p] = WholeTerm(ReadExpr(c, p), NameOf(c), TermOf(c))
               /\ TermOf(c)'[p] = WholeTerm(ReadExpr(c, p), NameOf(c)', TermOf(c)')
    <3>1. p \in ExprPtrs(c)' /\ ReadExpr(c, p)' = ReadExpr(c, p)
      BY <1>1 DEF Kept
    <3>2. TermOf(c)' = [x \in ExprPtrs(c)' |-> WholeTerm(ReadExpr(c, x)', NameOf(c)', TermOf(c)')]
      BY <1>2 DEF TermEquation, WholeTerm
    <3>3. TermOf(c) = [x \in ExprPtrs(c) |-> WholeTerm(ReadExpr(c, x), NameOf(c), TermOf(c))]
      BY <1>2 DEF TermEquation
    <3>4. TermOf(c)'[p] = WholeTerm(ReadExpr(c, p)', NameOf(c)', TermOf(c)')
      BY <3>1, <3>2
    <3>5. TermOf(c)[p] = WholeTerm(ReadExpr(c, p), NameOf(c), TermOf(c))
      BY <3>3
    <3>6. QED
      BY <3>1, <3>4, <3>5
  <2>2. SUFFICES ASSUME Bad # {} PROVE FALSE
    OBVIOUS
  <2>3. T \in SUBSET Nat /\ T # {}
    <3>1. \A x \in ExprPtrs(c) : Place(x) \in Nat
      BY PlacesBounded
    <3>2. QED
      BY <2>2, <3>1
  <2>4. \E t \in T : \A u \in T : t <= u
    <3> HIDE DEF T
    <3>1. QED
      BY <2>3, LeastNat
  <2>5. PICK p \in Bad : \A x \in Bad : Place(p) <= Place(x)
    BY <2>4
  <2>6. ASSUME NEW x \in ExprPtrs(c), Place(x) < Place(p) PROVE TermOf(c)'[x] = TermOf(c)[x]
    <3>1. Place(x) \in Nat /\ Place(p) \in Nat
      BY PlacesBounded
    <3>2. ~ (Place(p) <= Place(x))
      BY <2>6, <3>1
    <3>3. QED
      BY <2>5, <3>2
  <2>7. TermForm(c, p)
    BY TermsReadEarlier
  <2>8. TermOf(c)'[p] = TermOf(c)[p]
    <3>1. ASSUME NEW n \in NamePtrs(c), ReadExpr(c, p) = Const(n)
          PROVE  TermOf(c)'[p] = TermOf(c)[p]
      <4>1. NameOf(c)'[n] = NameOf(c)[n]
        BY <1>3
      <4>2. \A g, h : WholeTerm(Const(n), g, h) = Const(g[n])
        BY DEF WholeTerm, Const
      <4>3. /\ TermOf(c)[p] = WholeTerm(Const(n), NameOf(c), TermOf(c))
            /\ TermOf(c)'[p] = WholeTerm(Const(n), NameOf(c)', TermOf(c)')
        BY <2>1, <3>1
      <4>4. QED
        BY <4>1, <4>2, <4>3
    <3>2. ASSUME NEW f \in ExprPtrs(c), NEW a \in ExprPtrs(c), ReadExpr(c, p) = App(f, a),
                 Place(f) < Place(p), Place(a) < Place(p)
          PROVE  TermOf(c)'[p] = TermOf(c)[p]
      <4>1. TermOf(c)'[f] = TermOf(c)[f] /\ TermOf(c)'[a] = TermOf(c)[a]
        BY <2>6, <3>2
      <4>2. \A g, h : WholeTerm(App(f, a), g, h) = App(h[f], h[a])
        BY DEF WholeTerm, App
      <4>3. /\ TermOf(c)[p] = WholeTerm(App(f, a), NameOf(c), TermOf(c))
            /\ TermOf(c)'[p] = WholeTerm(App(f, a), NameOf(c)', TermOf(c)')
        BY <2>1, <3>2
      <4>4. QED
        BY <4>1, <4>2, <4>3
    <3>3. ASSUME NEW k \in FVar, ReadExpr(c, p) = Local(k)
          PROVE  TermOf(c)'[p] = TermOf(c)[p]
      BY <2>1, <3>3 DEF WholeTerm, Local
    <3>4. QED
      BY <2>7, <3>1, <3>2, <3>3 DEF TermForm
  <2>9. QED
    BY <2>8
<1>5. QED
  BY <1>3, <1>4

\* Whole terms keep their pointers, and pointers their whole terms.
THEOREM HashConsWholeTermsStable == Spec => WholeTermsStable
<1>1. TypeOK /\ TypeOK' /\ Inv /\ ChildrenFirst /\ ChildrenFirst' /\ [Next]_vars
        => [\A c \in live :
              c \in live' =>
                /\ \A p \in NamePtrs(c) : NameOf(c)'[p] = NameOf(c)[p]
                /\ \A p \in ExprPtrs(c) : TermOf(c)'[p] = TermOf(c)[p]]_vars
  BY WholeTermsStep
<1>2. QED
  BY <1>1, HashConsInv, HashConsChildrenFirst, PTL DEF Spec, WholeTermsStable
==============================================================================
