------------------------------- MODULE NatOps --------------------------------
(***************************************************************************)
(* The arithmetic on literals that the kernel does in place of unfolding   *)
(* (util.rs, the table of operations in tc.rs and eval.rs).                *)
(***************************************************************************)
EXTENDS Integers, Sequences, Bitwise

\* Mutant: division by zero keeps the dividend.
nat_div_keeps(x, y) == IF y = 0 THEN x ELSE x \div y

nat_sub(x, y) == IF y > x THEN 0 ELSE x - y
nat_div(x, y) == IF y = 0 THEN 0 ELSE x \div y
nat_mod(x, y) == IF y = 0 THEN x ELSE x % y
nat_shl(x, y) == x * (2 ^ y)
nat_shr(x, y) == x \div (2 ^ y)
nat_land(x, y) == x & y
nat_lor(x, y) == x | y
nat_xor(x, y) == x ^^ y

Gcd[x \in Nat, y \in Nat] == IF y = 0 THEN x ELSE Gcd[y, x % y]
nat_gcd(x, y) == Gcd[x, y]

\* The operations by the name of the constant they stand for.
BinOps == {"Nat.add", "Nat.sub", "Nat.mul", "Nat.pow", "Nat.mod", "Nat.div", "Nat.gcd",
           "Nat.land", "Nat.lor", "Nat.xor", "Nat.shiftLeft", "Nat.shiftRight"}
BoolOps == {"Nat.beq", "Nat.ble"}

\* do_nat_bin: the value of the literal, or of the boolean.
do_nat_bin(x, y, op) ==
  CASE op = "Nat.add" -> x + y
    [] op = "Nat.sub" -> nat_sub(x, y)
    [] op = "Nat.mul" -> x * y
    [] op = "Nat.pow" -> IF y = 0 THEN 1 ELSE x ^ y
    [] op = "Nat.div" -> nat_div(x, y)
    [] op = "Nat.mod" -> nat_mod(x, y)
    [] op = "Nat.gcd" -> nat_gcd(x, y)
    [] op = "Nat.land" -> nat_land(x, y)
    [] op = "Nat.lor" -> nat_lor(x, y)
    [] op = "Nat.xor" -> nat_xor(x, y)
    [] op = "Nat.shiftLeft" -> nat_shl(x, y)
    [] op = "Nat.shiftRight" -> nat_shr(x, y)
    [] op = "Nat.beq" -> x = y
    [] op = "Nat.ble" -> x <= y
==============================================================================
