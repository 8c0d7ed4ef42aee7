------------------------------ MODULE HashCons -------------------------------
(***************************************************************************)
(* The two-tier hash-consed term store.  While the environment is being    *)
(* built, one `Builder` interns names and expressions into the export      *)
(* store.  Afterwards that store is frozen and shared, and every checking  *)
(* context (TcCtx) adds a store of its own for the terms that checking     *)
(* creates.  A pointer names the store (bit 31 of the source's Ptr) and    *)
(* the index in it.                                                        *)
(*                                                                         *)
(* `names` stands for all tables that are looked up in the export store    *)
(* first (names, levels, level lists, strings, bignums; like names and     *)
(* levels it is seeded with its nullary entry), `exprs` for the expression *)
(* table, which looks in the local store first.                            *)
(***************************************************************************)
EXTENDS Naturals, Sequences

CONSTANTS
  Ctx,     \* checking contexts
  Atom,    \* name components
  FVar,    \* identities of free variables
  Cap,     \* model bound on the entries of an export table (31 bits in the source)
  LocalCap \* model bound on the entries of a context's table

ASSUME CapAssumption == Cap \in Nat \ {0} /\ LocalCap \in Nat \ {0}

VARIABLES
  phase,       \* "build" until Builder::finish, then "check"
  names,       \* ExportFile::dag.names
  exprs,       \* ExportFile::dag.exprs
  live,        \* contexts that exist
  localNames,  \* localNames[c]: TcCtx::dag.names
  localExprs,  \* localExprs[c]: TcCtx::dag.exprs
  out          \* out[c]: history, what the last allocation in c returned

export == <<phase, names, exprs>>
vars == <<export, live, localNames, localExprs, out>>

------------------------------------------------------------------------------
(***************************************************************************)
(* Pointers and nodes                                                      *)
(***************************************************************************)
Ptr(store, i) == <<store, i>>
ExportPtr == {"ExportFile"} \X (1 .. Cap)
TcPtr == {"TcCtx"} \X (1 .. LocalCap)
Ptrs == ExportPtr \cup TcPtr

IsTc(p) == p[1] = "TcCtx"

Anon == [node |-> "anon"]
Str(p, a) == [node |-> "str", pfx |-> p, sfx |-> a]
Const(p) == [node |-> "const", name |-> p]
App(f, a) == [node |-> "app", fun |-> f, arg |-> a]
Local(k) == [node |-> "local", id |-> k]

\* The nodes that can be made from given name and expression pointers.  Only
\* a context makes free variables: the Builder has no operation for them.
NameNodes(P) == {Anon} \cup {Str(p, a) : p \in P, a \in Atom}
TermNodes(P, E) == {Const(p) : p \in P} \cup {App(f, a) : f \in E, a \in E}
ExprNodes(P, E) == TermNodes(P, E) \cup {Local(k) : k \in FVar}

InTable(n, t) == \E i \in 1 .. Len(t) : t[i] = n
IndexOf(n, t) == CHOOSE i \in 1 .. Len(t) : t[i] = n

\* IndexSet::insert_full: the table afterwards and the index of the node in it.
Insert(n, t) == IF InTable(n, t) THEN t ELSE Append(t, n)

\* The pointers in use in c: every export entry, and every local entry except
\* the Anon that LeanDag::new seeds, which no allocation returns.
NamePtrs(c) == ({"ExportFile"} \X (1 .. Len(names)))
                 \cup ({"TcCtx"} \X (2 .. Len(localNames[c])))
ExprPtrs(c) == ({"ExportFile"} \X (1 .. Len(exprs)))
                 \cup ({"TcCtx"} \X (1 .. Len(localExprs[c])))

ReadName(c, p) == IF IsTc(p) THEN localNames[c][p[2]] ELSE names[p[2]]
ReadExpr(c, p) == IF IsTc(p) THEN localExprs[c][p[2]] ELSE exprs[p[2]]

\* Mutant: a constant counts as a node that only a context can hold.
IsExprLocalOnlyConst(e) ==
  \/ e.node \in {"local", "const"}
  \/ e.node = "app" /\ (IsTc(e.fun) \/ IsTc(e.arg))

\* is_expr_local_only: no such node can be in the export store, because a
\* child is in the context's own store or the node is a free variable.
IsExprLocalOnly(e) ==
  \/ e.node = "local"
  \/ e.node = "const" /\ IsTc(e.name)
  \/ e.node = "app" /\ (IsTc(e.fun) \/ IsTc(e.arg))

------------------------------------------------------------------------------
AllNames == NameNodes(Ptrs)
AllExprs == ExprNodes(Ptrs, Ptrs)

\* The interface, for the names and for the expressions of context c.
NoOut == [kind |-> "none"]
Out(k, n, p) == [kind |-> k, node |-> n, ptr |-> p]

NameBinding(c) == IF c \in live THEN {<<ReadName(c, p), p>> : p \in NamePtrs(c)} ELSE {}
ExprBinding(c) == IF c \in live THEN {<<ReadExpr(c, p), p>> : p \in ExprPtrs(c)} ELSE {}

\* The last allocation in c, if it was one of kind k.
LastOut(c, k) == IF out[c].kind = k THEN Out("out", out[c].node, out[c].ptr) ELSE NoOut

NameInterner(c) == INSTANCE Interner WITH
  Node <- AllNames, Pointer <- Ptrs, live <- c \in live,
  binding <- NameBinding(c), out <- LastOut(c, "name")

ExprInterner(c) == INSTANCE Interner WITH
  Node <- AllExprs, Pointer <- Ptrs, live <- c \in live,
  binding <- ExprBinding(c), out <- LastOut(c, "expr")

------------------------------------------------------------------------------
Init ==
  /\ phase = "build"
  /\ names = <<Anon>>        \* LeanDag::new
  /\ exprs = <<>>
  /\ live = {}
  /\ localNames = [c \in Ctx |-> <<>>]
  /\ localExprs = [c \in Ctx |-> <<>>]
  /\ out = [c \in Ctx |-> NoOut]

Unopened == UNCHANGED <<live, localNames, localExprs, out>>

\* Builder::name_str and the other interning operations of that kind.
BuildName(p, a) ==
  /\ phase = "build"
  /\ names' = Insert(Str(p, a), names) /\ Len(names') <= Cap
  /\ UNCHANGED <<phase, exprs>> /\ Unopened

\* Builder::push_expr.
BuildExpr(e) ==
  /\ phase = "build"
  /\ exprs' = Insert(e, exprs) /\ Len(exprs') <= Cap
  /\ UNCHANGED <<phase, names>> /\ Unopened

\* Builder::finish consumes the builder: the export store is read-only from
\* here on.
Finish ==
  /\ phase = "build" /\ phase' = "check"
  /\ UNCHANGED <<names, exprs>> /\ Unopened

\* ExportFile::with_ctx, with_tc, ...: a context gets a fresh LeanDag ...
Open(c) ==
  /\ phase = "check" /\ c \notin live
  /\ live' = live \cup {c}
  /\ localNames' = [localNames EXCEPT ![c] = <<Anon>>]
  /\ localExprs' = [localExprs EXCEPT ![c] = <<>>]
  /\ UNCHANGED <<export, out>>

\* ... and drops it with everything in it when the declaration is checked.
Close(c) ==
  /\ c \in live
  /\ live' = live \ {c}
  /\ localNames' = [localNames EXCEPT ![c] = <<>>]
  /\ localExprs' = [localExprs EXCEPT ![c] = <<>>]
  /\ out' = [out EXCEPT ![c] = NoOut]
  /\ UNCHANGED export

\* alloc_name: the export store first, then get-or-insert in the local one.
AllocName(c, n) ==
  /\ c \in live
  /\ \/ /\ InTable(n, names)
        /\ out' = [out EXCEPT ![c] = Out("name", n, Ptr("ExportFile", IndexOf(n, names)))]
        /\ UNCHANGED localNames
     \/ /\ ~ InTable(n, names)
        /\ localNames' = [localNames EXCEPT ![c] = Insert(n, @)]
        /\ Len(localNames'[c]) <= LocalCap
        /\ out' = [out EXCEPT ![c] =
                     Out("name", n, Ptr("TcCtx", IndexOf(n, localNames'[c])))]
  /\ UNCHANGED <<export, live, localExprs>>

\* Mutants: the export store is never looked up; a node is stored again each
\* time; the pointer to an export entry is tagged as local.
AllocExprLocal(c, e) ==
  /\ c \in live
  /\ localExprs' = [localExprs EXCEPT ![c] = Insert(e, @)]
  /\ Len(localExprs'[c]) <= LocalCap
  /\ out' = [out EXCEPT ![c] = Out("expr", e, Ptr("TcCtx", IndexOf(e, localExprs'[c])))]
  /\ UNCHANGED <<export, live, localNames>>

AllocExprAppends(c, e) ==
  /\ c \in live
  /\ localExprs' = [localExprs EXCEPT ![c] = Append(@, e)]
  /\ Len(localExprs'[c]) <= LocalCap
  /\ out' = [out EXCEPT ![c] = Out("expr", e, Ptr("TcCtx", Len(localExprs'[c])))]
  /\ UNCHANGED <<export, live, localNames>>

AllocExprWrongStore(c, e) ==
  /\ c \in live
  /\ ~ IsExprLocalOnly(e) /\ InTable(e, exprs)
  /\ out' = [out EXCEPT ![c] = Out("expr", e, Ptr("TcCtx", IndexOf(e, exprs)))]
  /\ UNCHANGED <<export, live, localNames, localExprs>>

\* alloc_expr: the local store first; a node absent from it is looked up in
\* the export store unless it cannot be there, and only then inserted.
AllocExpr(c, e) ==
  /\ c \in live
  /\ \/ /\ ~ InTable(e, localExprs[c]) /\ ~ IsExprLocalOnly(e) /\ InTable(e, exprs)
        /\ out' = [out EXCEPT ![c] = Out("expr", e, Ptr("ExportFile", IndexOf(e, exprs)))]
        /\ UNCHANGED localExprs
     \/ /\ \/ InTable(e, localExprs[c])
           \/ IsExprLocalOnly(e)
           \/ ~ InTable(e, exprs)
        /\ localExprs' = [localExprs EXCEPT ![c] = Insert(e, @)]
        /\ Len(localExprs'[c]) <= LocalCap
        /\ out' = [out EXCEPT ![c] =
                     Out("expr", e, Ptr("TcCtx", IndexOf(e, localExprs'[c])))]
  /\ UNCHANGED <<export, live, localNames>>

Build ==
  \/ \E i \in 1 .. Len(names), a \in Atom : BuildName(Ptr("ExportFile", i), a)
  \/ \E e \in TermNodes({"ExportFile"} \X (1 .. Len(names)),
                        {"ExportFile"} \X (1 .. Len(exprs))) : BuildExpr(e)
  \/ Finish

Check(c) ==
  \/ Open(c)
  \/ Close(c)
  \/ \E n \in NameNodes(NamePtrs(c)) : AllocName(c, n)
  \/ \E e \in ExprNodes(NamePtrs(c), ExprPtrs(c)) : AllocExpr(c, e)

Next == Build \/ \E c \in Ctx : Check(c)

Spec == Init /\ [][Next]_vars
------------------------------------------------------------------------------
(***************************************************************************)
(* Properties                                                              *)
(***************************************************************************)
\* Every node is built from pointers that are valid where it is stored: an
\* export node points into the export store only, a context's node into the
\* export store or its own.  A context that does not exist stores nothing.
ExportOK ==
  /\ names \in Seq(NameNodes({"ExportFile"} \X (1 .. Len(names))))
  /\ exprs \in Seq(TermNodes({"ExportFile"} \X (1 .. Len(names)),
                             {"ExportFile"} \X (1 .. Len(exprs))))
  /\ Len(names) \in 1 .. Cap /\ Len(exprs) <= Cap

StoreOK(c) ==
  /\ localNames[c] \in Seq(NameNodes(NamePtrs(c)))
  /\ localExprs[c] \in Seq(ExprNodes(NamePtrs(c), ExprPtrs(c)))
  /\ Len(localNames[c]) \in 1 .. LocalCap /\ Len(localExprs[c]) <= LocalCap

Outs == {NoOut} \cup [kind : {"name"}, node : AllNames, ptr : Ptrs]
                \cup [kind : {"expr"}, node : AllExprs, ptr : Ptrs]

TypeOK ==
  /\ phase \in {"build", "check"} /\ ExportOK
  /\ live \in SUBSET Ctx /\ (live # {} => phase = "check")
  /\ localNames \in [Ctx -> Seq(AllNames)] /\ localExprs \in [Ctx -> Seq(AllExprs)]
  /\ out \in [Ctx -> Outs]
  /\ \A c \in live : StoreOK(c)
  /\ \A c \in Ctx \ live : localNames[c] = <<>> /\ localExprs[c] = <<>> /\ out[c] = NoOut

Distinct(t) == \A i, j \in 1 .. Len(t) : t[i] = t[j] => i = j

\* A term the export store holds is never stored a second time in a context
\* (but for the seeded Anon): all contexts have the same pointer for it.
NoShadow ==
  \A c \in live :
    /\ \A i \in 2 .. Len(localNames[c]) : ~ InTable(localNames[c][i], names)
    /\ \A i \in 1 .. Len(localExprs[c]) : ~ InTable(localExprs[c][i], exprs)

(***************************************************************************)
(* The whole name and the whole term that a pointer stands for, with every *)
(* pointer in them followed to the end.                                    *)
(***************************************************************************)
WholeName(n, whole) ==
  IF n.node = "str" THEN Str(whole[n.pfx], n.sfx) ELSE n

NameOf(c) == LET whole[p \in NamePtrs(c)] == WholeName(ReadName(c, p), whole)
             IN  whole

WholeTerm(e, name, whole) ==
  CASE e.node = "const" -> Const(name[e.name])
    [] e.node = "app"   -> App(whole[e.fun], whole[e.arg])
    [] e.node = "local" -> e

TermOf(c) == LET whole[p \in ExprPtrs(c)] == WholeTerm(ReadExpr(c, p), NameOf(c), whole)
             IN  whole

\* Comparing pointers is comparing terms, however deep the terms are.
PointerEqualityIsTermEquality ==
  \A c \in live :
    /\ \A p, q \in NamePtrs(c) : NameOf(c)[p] = NameOf(c)[q] => p = q
    /\ \A p, q \in ExprPtrs(c) : TermOf(c)[p] = TermOf(c)[q] => p = q

\* Two contexts that hold a term of the environment hold it by one pointer.
SharedAcrossContexts ==
  \A c, d \in live : \A p \in ExprPtrs(c), q \in ExprPtrs(d) :
    (~ IsTc(p) /\ TermOf(c)[p] = TermOf(d)[q]) => p = q

\* No table holds a node twice.
NoDuplicate ==
  /\ Distinct(names) /\ Distinct(exprs)
  /\ \A c \in Ctx : Distinct(localNames[c]) /\ Distinct(localExprs[c])

\* Both stores start with the anonymous name.
Seeded == names[1] = Anon /\ \A c \in live : localNames[c][1] = Anon

\* A node is stored after the nodes it is made of: a pointer into its own store
\* is to an earlier entry, so following pointers comes to an end.
NamesBefore(store, t) ==
  \A i \in 1 .. Len(t) :
    (t[i].node = "str" /\ t[i].pfx[1] = store) => t[i].pfx[2] < i
TermsBefore(store, t) ==
  \A i \in 1 .. Len(t) : t[i].node = "app" =>
    /\ t[i].fun[1] = store => t[i].fun[2] < i
    /\ t[i].arg[1] = store => t[i].arg[2] < i
ChildrenFirst ==
  /\ NamesBefore("ExportFile", names) /\ TermsBefore("ExportFile", exprs)
  /\ \A c \in Ctx : NamesBefore("TcCtx", localNames[c]) /\ TermsBefore("TcCtx", localExprs[c])

\* Two pointers in use in one context read as the same node only if they are
\* the same pointer.
Canonical ==
  \A c \in live :
    /\ \A p, q \in NamePtrs(c) : ReadName(c, p) = ReadName(c, q) => p = q
    /\ \A p, q \in ExprPtrs(c) : ReadExpr(c, p) = ReadExpr(c, q) => p = q

\* What an allocation returned reads back as the node that was asked for, by
\* a pointer in use.
ReadsBack ==
  \A c \in live :
    LET o == out[c]
    IN  /\ o.kind = "name" => o.ptr \in NamePtrs(c) /\ ReadName(c, o.ptr) = o.node
        /\ o.kind = "expr" => o.ptr \in ExprPtrs(c) /\ ReadExpr(c, o.ptr) = o.node

\* Pointers keep their meaning: whatever the other contexts do, a pointer in
\* use in a context reads as the same node after every step of its life.
Stable ==
  [][\A c \in live :
       c \in live' =>
         /\ \A p \in NamePtrs(c) : p \in NamePtrs(c)' /\ ReadName(c, p)' = ReadName(c, p)
         /\ \A p \in ExprPtrs(c) : p \in ExprPtrs(c)' /\ ReadExpr(c, p)' = ReadExpr(c, p)]_vars

\* Each context implements an Interner of names and one of expressions: this
\* is NameInterner(c)!Spec /\ ExprInterner(c)!Spec, in the form TLC can check.
NameView(c) == <<c \in live, NameBinding(c), LastOut(c, "name")>>
ExprView(c) == <<c \in live, ExprBinding(c), LastOut(c, "expr")>>
InternerInit(c) == NameInterner(c)!Init /\ ExprInterner(c)!Init
InternerStep(c) == /\ [NameInterner(c)!Next]_(NameView(c))
                   /\ [ExprInterner(c)!Next]_(ExprView(c))
ImplementsInterner ==
  (\A c \in Ctx : InternerInit(c)) /\ [][\A c \in Ctx : InternerStep(c)]_vars
==============================================================================
