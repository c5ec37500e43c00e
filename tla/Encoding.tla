------------------------------- MODULE Encoding -------------------------------
(***************************************************************************)
(* Machine code: how generate*TypeMachineCode spreads an instruction over  *)
(* 32 bits, and how ImmGenerator and the stages read them back.  A word is *)
(* the record of its fields, named after the R format:                     *)
(*     f7 31..25, rs2 24..20, rs1 19..15, f3 14..12, rd 11..7, op 6..0     *)
(***************************************************************************)
EXTENDS Integers

Code(op, f3, f7) == [op |-> op, f3 |-> f3, f7 |-> f7]

(* The encoding maps of instructions.cpp; op, f3 and f7 in decimal. *)
RType ==
  [add |-> Code(51, 0, 0), sub |-> Code(51, 0, 32), sll |-> Code(51, 1, 0), slt |-> Code(51, 2, 0),
   sltu |-> Code(51, 3, 0), xor |-> Code(51, 4, 0), srl |-> Code(51, 5, 0),
   sra |-> Code(51, 5, 32), or |-> Code(51, 6, 0), and |-> Code(51, 7, 0),
   mul |-> Code(51, 0, 1), mulh |-> Code(51, 1, 1), mulhsu |-> Code(51, 2, 1),
   mulhu |-> Code(51, 3, 1), div |-> Code(51, 4, 1), divu |-> Code(51, 5, 1),
   rem |-> Code(51, 6, 1), remu |-> Code(51, 7, 1),
   addw |-> Code(59, 0, 0), subw |-> Code(59, 0, 32), sllw |-> Code(59, 1, 0),
   srlw |-> Code(59, 5, 0), sraw |-> Code(59, 5, 32), mulw |-> Code(59, 0, 1),
   divw |-> Code(59, 4, 1), divuw |-> Code(59, 5, 1), remw |-> Code(59, 6, 1),
   remuw |-> Code(59, 7, 1), ldbm |-> Code(42, 0, 0)]

I1Type ==
  [addi |-> Code(19, 0, 0), slti |-> Code(19, 2, 0), sltiu |-> Code(19, 3, 0),
   xori |-> Code(19, 4, 0), ori |-> Code(19, 6, 0), andi |-> Code(19, 7, 0),
   addiw |-> Code(27, 0, 0), jalr |-> Code(103, 0, 0),
   lb |-> Code(3, 0, 0), lh |-> Code(3, 1, 0), lw |-> Code(3, 2, 0), ld |-> Code(3, 3, 0),
   lbu |-> Code(3, 4, 0), lhu |-> Code(3, 5, 0), lwu |-> Code(3, 6, 0)]

(* f7 is twice the funct6 of the map. *)
I2Type ==
  [slli |-> Code(19, 1, 0), srli |-> Code(19, 5, 0), srai |-> Code(19, 5, 32),
   slliw |-> Code(27, 1, 0), srliw |-> Code(27, 5, 0), sraiw |-> Code(27, 5, 32)]

SType ==
  [sb |-> Code(35, 0, 0), sh |-> Code(35, 1, 0), sw |-> Code(35, 2, 0), sd |-> Code(35, 3, 0),
   bigmul |-> Code(63, 0, 0)]

BType ==
  [beq |-> Code(99, 0, 0), bne |-> Code(99, 1, 0), blt |-> Code(99, 4, 0),
   bge |-> Code(99, 5, 0), bltu |-> Code(99, 6, 0), bgeu |-> Code(99, 7, 0)]

UType == [lui |-> Code(55, 0, 0), auipc |-> Code(23, 0, 0)]

JType == [jal |-> Code(111, 0, 0)]

Fields(f7, rs2, rs1, f3, rd, op) ==
  [f7 |-> f7, rs2 |-> rs2, rs1 |-> rs1, f3 |-> f3, rd |-> rd, op |-> op]

(* The bits of n from the one worth `unit', as many as `size' has values. *)
Bits(n, unit, size) == (n \div unit) % size

EncodeR(c, rd, rs1, rs2) == Fields(c.f7, rs2, rs1, c.f3, rd, c.op)

EncodeI1(c, rd, rs1, imm) == Fields(Bits(imm, 32, 128), Bits(imm, 1, 32), rs1, c.f3, rd, c.op)

(* The upper bits of a shift amount of 32 or more fall into f7. *)
EncodeI2(c, rd, rs1, imm) == Fields(c.f7 + imm \div 32, Bits(imm, 1, 32), rs1, c.f3, rd, c.op)

EncodeS(c, rs1, rs2, imm) == Fields(Bits(imm, 32, 128), rs2, rs1, c.f3, Bits(imm, 1, 32), c.op)

(* Bit 11 is left out of the place that bit 0 has in the S format. *)
EncodeBLikeS(c, rs1, rs2, imm) ==
  Fields(Bits(imm, 4096, 2) * 64 + Bits(imm, 32, 64), rs2, rs1, c.f3, Bits(imm, 1, 32), c.op)

EncodeB(c, rs1, rs2, imm) ==
  Fields(Bits(imm, 4096, 2) * 64 + Bits(imm, 32, 64), rs2, rs1, c.f3,
         Bits(imm, 2, 16) * 2 + Bits(imm, 2048, 2), c.op)

EncodeU(c, rd, imm) ==
  Fields(Bits(imm, 8192, 128), Bits(imm, 256, 32), Bits(imm, 8, 32), Bits(imm, 1, 8), rd, c.op)

EncodeJ(c, rd, imm) ==
  Fields(Bits(imm, 1048576, 2) * 64 + Bits(imm, 32, 64),
         Bits(imm, 2, 16) * 2 + Bits(imm, 2048, 2),
         Bits(imm, 32768, 32), Bits(imm, 4096, 8), rd, c.op)

generateMachineCode(u) ==
  CASE u.op \in DOMAIN RType  -> EncodeR(RType[u.op], u.rd, u.rs1, u.rs2)
    [] u.op \in DOMAIN I1Type -> EncodeI1(I1Type[u.op], u.rd, u.rs1, u.imm)
    [] u.op \in DOMAIN I2Type -> EncodeI2(I2Type[u.op], u.rd, u.rs1, u.imm)
    [] u.op \in DOMAIN SType  -> EncodeS(SType[u.op], u.rs1, u.rs2, u.imm)
    [] u.op \in DOMAIN BType  -> EncodeB(BType[u.op], u.rs1, u.rs2, u.imm)
    [] u.op \in DOMAIN UType  -> EncodeU(UType[u.op], u.rd, u.imm)
    [] u.op \in DOMAIN JType  -> EncodeJ(JType[u.op], u.rd, u.imm)

-------------------------------------------------------------------------------
(* `half' is the weight of the sign bit. *)
sign_extend(n, half) == IF n < half THEN n ELSE n - 2 * half

ImmI(w) == sign_extend(w.f7 * 32 + w.rs2, 2048)

ImmS(w) == sign_extend(w.f7 * 32 + w.rd, 2048)

ImmB(w) ==
  sign_extend(2 * (w.rd \div 2 + Bits(w.f7, 1, 64) * 16 + Bits(w.rd, 1, 2) * 1024
                   + Bits(w.f7, 64, 2) * 2048), 4096)

ImmU(w) == w.f7 * 8192 + w.rs2 * 256 + w.rs1 * 8 + w.f3

ImmJ(w) ==
  sign_extend(2 * (w.rs2 \div 2 + Bits(w.f7, 1, 64) * 16 + Bits(w.rs2, 1, 2) * 1024
                   + (w.rs1 * 8 + w.f3) * 2048 + Bits(w.f7, 64, 2) * 524288), 1048576)

(* No case for addiw and its like (op 27) nor for bigmul: zero. *)
ImmGenerator(w) ==
  CASE w.op \in {19, 3, 103} -> ImmI(w)
    [] w.op = 35             -> ImmS(w)
    [] w.op = 99             -> ImmB(w)
    [] w.op \in {55, 23}     -> ImmU(w)
    [] w.op = 111            -> ImmJ(w)
    [] OTHER                 -> 0
===============================================================================
