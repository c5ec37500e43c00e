------------------------------- MODULE MCRvssVm -------------------------------
(* Small programs for RvssVm.  With one limb per operand, LDBM takes two load *)
(* cycles, BIGMUL one multiply cycle and two write cycles.                    *)
EXTENDS RvssVm

Addi(r, k)   == [op |-> "addi", rd |-> r, imm |-> k]
Sd(r, a)     == [op |-> "sd", rs |-> r, addr |-> a]
Jal(t)       == [op |-> "jal", to |-> t]
Csr(d, r)    == [op |-> "csrrw", rd |-> d, rs |-> r]
Ldbm         == [op |-> "ldbm", a |-> 0, b |-> Limbs]
LdbmSwapped  == [op |-> "ldbm", a |-> Limbs, b |-> 0]
Bigmul(n)    == [op |-> "bigmul", r |-> 2 * Limbs, n |-> n]

(* The operands 1 and 2 (one limb), the result area zero. *)
Operands == [x \in 0 .. MemSize - 1 |-> IF x < Limbs THEN 1 ELSE IF x < 2 * Limbs THEN 2 ELSE 0]

PlainPrograms == {
  <<Addi("x1", 1), Sd("x1", 2), Addi("x1", 1)>>,
  <<Addi("x1", 2), Sd("x1", 0), Jal(0)>>,
  <<Addi("x1", 1), Addi("x1", 3), Sd("x1", 2), Sd("x2", 2)>> }

LoadPrograms == {
  <<Ldbm, LdbmSwapped>>,
  <<Addi("x1", 3), Sd("x1", 0), Ldbm, Jal(0)>>,
  <<Ldbm, Addi("x1", 3), Sd("x1", 1), LdbmSwapped>> }

(* The programs whose every step Undo can revert. *)
RecordedPrograms == PlainPrograms \cup LoadPrograms

(* Two multiplications of two limbs, which a run and a step can share, and *)
(* one of a single limb behind them: stops and undos may leave a diagonal   *)
(* that the next one never ends at.                                         *)
TwoSizes == {<<Bigmul(2), Bigmul(2), Bigmul(1)>>}

AllPrograms == {<<Bigmul(2), Bigmul(2), Bigmul(1), Csr("x1", "x1")>>}

(* A multiplication that has run out of the diagonals goes on forever: the *)
(* exploration follows it for two of them.                                 *)
DiagonalBound == s_diag <= 2 * Limbs
===============================================================================
