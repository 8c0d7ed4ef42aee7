------------------------------ MODULE Interner -------------------------------
(***************************************************************************)
(* What code running in one checking context may rely on: a name or an     *)
(* expression has one pointer, a pointer stands for one of them, and a     *)
(* pointer never changes its meaning while the context lives.  Everything  *)
(* that compares or caches by pointer (def_eq, the inference, reduction    *)
(* and conversion caches, HashMap keys) rests on this.                     *)
(***************************************************************************)
CONSTANTS Node, Pointer

VARIABLES live,    \* the context exists
          binding, \* <<node, pointer>> pairs in use in the context
          out      \* the last allocation: the node asked for, the pointer returned

NoOut == [kind |-> "none"]
Out(n, p) == [kind |-> "out", node |-> n, ptr |-> p]

OneToOne(b) == \A s, t \in b : s[1] = t[1] <=> s[2] = t[2]

Init == live = FALSE /\ binding = {} /\ out = NoOut

\* A context starts with the pointers of the environment it checks.
Open == /\ ~ live /\ live'
        /\ binding' \in SUBSET (Node \X Pointer) /\ OneToOne(binding')
        /\ out' = NoOut

\* A node that has a pointer gets it back, another one gets an unused pointer.
Alloc(n, p) ==
  /\ live /\ live'
  /\ out' = Out(n, p)
  /\ binding' = binding \cup {<<n, p>>}
  /\ OneToOne(binding')

Close == live /\ ~ live' /\ binding' = {} /\ out' = NoOut

\* The answer has been consumed.
Forget == live /\ out' = NoOut /\ UNCHANGED <<live, binding>>

Next == Open \/ Close \/ Forget \/ \E n \in Node, p \in Pointer : Alloc(n, p)

Spec == Init /\ [][Next]_<<live, binding, out>>
==============================================================================
