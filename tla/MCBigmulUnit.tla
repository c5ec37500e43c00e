----------------------------- MODULE MCBigmulUnit -----------------------------
(* Values for the constants of BigmulUnit.  Operands A and B share the low  *)
(* end of memory; the result goes behind them or over B.                      *)
EXTENDS BigmulUnit

(* Every pair of operands whose digits are zero or as large as they can be. *)
ExtremeOperands ==
  {[x \in Addr |-> IF x < 2 * Limbs THEN f[x] ELSE 0] :
     f \in [0 .. 2 * Limbs - 1 -> {0, Base - 1}]}

(* The largest operands: every carry there is. *)
LargestOperands == {[x \in Addr |-> IF x < 2 * Limbs THEN Base - 1 ELSE 0]}

OperandAddrs == {0, Limbs}
BehindOperands == {2 * Limbs}
OverSecondOperand == {Limbs}
OneStore == {<<0, 1>>}
===============================================================================
