------------------------------ MODULE MCDatapath ------------------------------
(* One instruction of every kind with operands at the boundaries of a word  *)
(* and of a register, and pairs of instructions of different formats.       *)
EXTENDS Datapath

R(op)          == [op |-> op, rd |-> 26, rs1 |-> First, rs2 |-> Second]
I(op, imm)     == [op |-> op, rd |-> 26, rs1 |-> First, imm |-> imm]
St(op, imm)    == [op |-> op, rs1 |-> First, rs2 |-> Second, imm |-> imm]
U(op, imm)     == [op |-> op, rd |-> 26, imm |-> imm]

Boundaries == {0, 1, 127, 128, 256, 32767, 32768, 65535, 4}

Imm12  == {-2048, -1, 0, 1365, 2047}
Shifts == {0, 7, 8, 15, 31}
Imm20  == {0, 1, 699050, 1048575}

RPrograms == {<<R(op)>> : op \in DOMAIN RType}
IPrograms == {<<I(op, imm)>> : op \in DOMAIN I1Type \ {"jalr"}, imm \in Imm12}
ShiftPrograms == {<<I(op, imm)>> : op \in DOMAIN I2Type, imm \in Shifts}
StorePrograms == {<<St(op, imm)>> : op \in DOMAIN SType, imm \in {-1, 2, 32, 1365}}
BranchPrograms == {<<St(op, imm)>> : op \in DOMAIN BType, imm \in {-4096, 8, 1364, 4092}}
UPrograms == {<<U(op, imm)>> : op \in DOMAIN UType, imm \in Imm20}
JumpPrograms == {<<U("jal", imm)>> : imm \in {-1048576, 4, 699048, 1048572}}
                \cup {<<I("jalr", imm)>> : imm \in {-2048, 2044}}

(* Registers 9 and 26 have both even and odd bits; the second is no         *)
(* multiple of 4, as in the pairs below, or is register 24.                 *)
Zero == [op |-> "addi", rd |-> 0, rs1 |-> First, imm |-> 5]
Given(op, rs1, rs2) == [op |-> op, rd |-> 0, rs1 |-> rs1, rs2 |-> rs2, imm |-> 0]

Steps == {R("sub"), R("divw"), I("lb", 0), St("sh", 1), St("blt", 8), I("slti", 3), U("auipc", 5),
          U("lui", 9), U("jal", 4), Zero, Given("ldbm", 26, 24), Given("bigmul", 26, 24)}

PairPrograms == {<<s, t>> : s \in Steps, t \in Steps}

AllPrograms == RPrograms \cup IPrograms \cup ShiftPrograms \cup StorePrograms \cup BranchPrograms
               \cup UPrograms \cup JumpPrograms \cup PairPrograms

Pairs == Boundaries \X Boundaries

StartBytes == [a \in 0 .. MemorySize - 1 |-> (3 * a + a \div 4) % 4]

WordPrograms == {<<R(op)>> : op \in {"addw", "subw", "mulw"}}
===============================================================================
