-------------------------------- MODULE Conv ---------------------------------
(***************************************************************************)
(* One checker's conversion questions (module Eval), one after another,   *)
(* with the caches that one question leaves to the next.                   *)
(***************************************************************************)
EXTENDS Eval, TypeTheory

CONSTANTS
  Environment,   \* what the checker sees, the same throughout
  Questions,     \* pairs of expressions of one type
  First,         \* model bound: those of them that are asked first
  PutOff,        \* those of them that may be left undecided because counting
                 \* down a large literal was put off, see AnswersRight
  Casts,         \* those that may be so once a cast in them has been marked stuck
  MaxAsked,      \* model bound: the questions asked of one checker
  MaxOperand     \* model bound: the literals operations are tried on

ASSUME QuestionsAssumption == \A q \in Questions : Len(q) = 2
ASSUME BoundsAssumption == MaxAsked \in Nat /\ MaxOperand \in Nat

VARIABLES
  tc_cache,   \* the part of TcCache that this module keeps
  asked,      \* how many questions were asked
  last        \* the last thing asked, and its answer

vars == <<declars, tc_cache, asked, last>>

------------------------------------------------------------------------------
(***************************************************************************)
(* The checker of one declaration is asked one question after another.     *)
(***************************************************************************)
Idle == [kind |-> "idle"]

Init == declars = Environment /\ tc_cache = Fresh /\ asked = 0 /\ last = Idle

Ask(x, y) ==
  /\ asked < MaxAsked /\ last.kind # "reduce"
  /\ asked = 0 => <<x, y>> \in First
  /\ LET r == def_eq_core(x, y, tc_cache)
     IN  tc_cache' = r.s /\ last' = [kind |-> "equal", x |-> x, y |-> y, ok |-> r.ok]
  /\ asked' = asked + 1 /\ UNCHANGED declars

\* An operation on literals is asked of a new checker, and nothing after it.
ForceOf(r) == force_all(r.v, r.s)
ValueOf(r) == r.s.arena[r.v]
forced(e, s) == ForceOf(eval(<<>>, e, s))
Reduce(op, x, y) ==
  /\ asked = 0 /\ last = Idle
  /\ last' = [kind |-> "reduce", op |-> op, x |-> x, y |-> y,
               v |-> ValueOf(forced(App(App(Const(op), NatLit(x)), NatLit(y)), tc_cache))]
  /\ UNCHANGED <<declars, tc_cache, asked>>

clear ==
  /\ tc_cache' = Cleared(tc_cache)
  /\ last' = Idle
  /\ UNCHANGED <<declars, asked>>

Next ==
  \/ \E q \in Questions : Ask(q[1], q[2])
  \/ \E op \in BinOps \cup BoolOps, x, y \in 0 .. MaxOperand : Reduce(op, x, y)
  \/ clear

Spec == Init /\ [][Next]_vars

\* A level that no value of a question has.
AboveAll == 100
quote(w) == IF w.k = "vnat" THEN NatLit(w.n) ELSE Const(w.head.name)

------------------------------------------------------------------------------
\* The same values with nothing kept about them.
Forgotten(s) ==
  [Cleared(s) EXCEPT !.arena = [v \in DOMAIN s.arena |-> Bare(s.arena[v])], !.cells = [c \in DOMAIN s.cells |-> Null],
                     !.closed_eval_cache = Empty, !.probe_depth = 0]

\* Some application is marked stuck that reduces when nothing is kept.
MarkedTooSoon(s) == \E v \in s.iota_stuck : iota_value(v, Forgotten(s)).v # Null

\* Two terms are found equal only when they are, whatever was asked before, and
\* always when they are; except for the pairs of PutOff.  In those a recursion
\* on a sum with a large literal is met while arguments are only being tried,
\* and is not looked into: below an application that is the end of it, and in
\* the type of a proof that a cast goes along, the cast is then marked stuck.
\* That mark stays, for the questions after it that hold the cast.
Same(x, y) == Equal(<<>>, x, y, TypeOf(<<>>, x))
AnswersRight ==
  last.kind = "equal" =>
    /\ last.ok => Same(last.x, last.y)
    /\ Same(last.x, last.y) =>
         \/ last.ok \/ <<last.x, last.y>> \in PutOff
         \/ <<last.x, last.y>> \in Casts /\ MarkedTooSoon(tc_cache)

\* Operations on literals agree with the definitions they stand for, by
\* unfolding where the environment has them and else by what defines them.
ByUnfolding == {"Nat.add", "Nat.sub", "Nat.mul", "Nat.pow", "Nat.beq", "Nat.ble"}
Bit(n, i) == (n \div (2 ^ i)) % 2
Divides(d, n) == \E m \in 0 .. n : n = d * m
Defined(op, x, y, n) ==
  CASE op = "Nat.div" -> IF y = 0 THEN n = 0 ELSE n * y <= x /\ x < (n + 1) * y
    [] op = "Nat.mod" -> IF y = 0 THEN n = x ELSE n < y /\ Divides(y, x - n)
    [] op = "Nat.gcd" -> /\ Divides(n, x) /\ Divides(n, y)
                         /\ \A d \in 0 .. x + y : Divides(d, x) /\ Divides(d, y) => Divides(d, n)
    [] op = "Nat.land" -> \A i \in 0 .. 4 : Bit(n, i) = Bit(x, i) * Bit(y, i)
    [] op = "Nat.lor" -> \A i \in 0 .. 4 : Bit(n, i) = Larger(Bit(x, i), Bit(y, i))
    [] op = "Nat.xor" -> \A i \in 0 .. 4 : Bit(n, i) = (Bit(x, i) + Bit(y, i)) % 2
    [] op = "Nat.shiftLeft" -> \A i \in 0 .. 7 : Bit(n, i) = IF i < y THEN 0 ELSE Bit(x, i - y)
    [] op = "Nat.shiftRight" -> \A i \in 0 .. 4 : Bit(n, i) = Bit(x, i + y)

ArithmeticRight ==
  last.kind = "reduce" =>
    IF last.op \in ByUnfolding
    THEN Same(foldl_apps(Const(last.op), <<NatLit(last.x), NatLit(last.y)>>), quote(last.v))
    ELSE Defined(last.op, last.x, last.y, last.v.n)

\* What is kept as different for good is found different by a checker that
\* keeps nothing but the applications marked stuck: an attempt that put off an
\* unfolding has settled no later comparison, unless by such a mark.
MarksOnly(s) == [Forgotten(s) EXCEPT !.iota_stuck = s.iota_stuck]
NegativesAreFinal ==
  \A key \in tc_cache.conv_cache_neg :
    LET x == CHOOSE v \in key : TRUE
    IN  \A y \in key \ {x} : ~ unify(AboveAll, x, y, MarksOnly(tc_cache)).ok

\* A value as far as it is worked out, without the addresses.
RECURSIVE Content(_, _)
Contents(vs, s) == [i \in DOMAIN vs |-> Content(vs[i], s)]
Content(v, s) ==
  LET w == s.arena[v]
      head == IF w.head.h = "bvar" THEN BVar(w.head.level, Null) ELSE w.head
      spine == [i \in DOMAIN w.spine |-> IF w.spine[i].el = "app" THEN AppElim(Content(w.spine[i].v, s)) ELSE w.spine[i]]
  IN  CASE w.k = "rigid" -> Rigid(head, spine)
        [] w.k = "unfold" -> Unfold(w.name, spine, Null)
        [] w.k = "lam" -> Lam(w.binder_type, Contents(w.env, s), w.body)
        [] w.k = "vpi" -> VPi(Content(w.domain, s), Contents(w.env, s), w.body)
        [] w.k = "thunk" -> Thunk(Contents(w.env, s), w.expr)
        [] OTHER -> w

\* The reduction with a stack of waiting applications ends where the one with
\* recursion does, for both sides of a question, from where the question left.
WhnfOf(r) == whnf_head(r.v, r.s)
recursed(e, s) == WhnfOf(eval(<<>>, e, s))
ContentOf(r) == Content(r.v, r.s)
ForceAgrees ==
  last.kind = "equal" =>
    \A e \in {last.x, last.y}, s \in {Fresh, tc_cache} : ContentOf(forced(e, s)) = ContentOf(recursed(e, s))
==============================================================================
