------------------------------- MODULE Datapath -------------------------------
(***************************************************************************)
(* The five stages of RVSSVM for the base integer instructions and M: the  *)
(* machine code of a program goes through Fetch, Decode, Execute,          *)
(* WriteMemory and WriteBack, whose registers keep their values from one   *)
(* instruction to the next.  The cycles of ldbm and bigmul behind Decode   *)
(* are in RvssVm.                                                          *)
(***************************************************************************)
EXTENDS Alu, Encoding, Sequences

CONSTANTS
  Programs,      \* the programs to run, as sequences of assembler instructions
  Operands,      \* pairs of values for the registers First and Second
  First, Second, \* the registers that are not zero at the start
  MemorySize,    \* bytes, of XLEN / 8 bits
  Bytes          \* the contents of the memory at the start

ByteBits == XLEN \div 8

Number == 0 .. Power[XLEN] - 1

Registers == 0 .. 31

(* What the parser accepts. *)
Between(low, high) == {i \in Int : low <= i /\ i < high}
Signed12 == Between(-2048, 2048)
Signed13 == Between(-4096, 4096)
Signed21 == Between(-1048576, 1048576)

Accepted(u) ==
  \/ u.op \in DOMAIN RType /\ {u.rd, u.rs1, u.rs2} \subseteq Registers
  \/ u.op \in DOMAIN I1Type /\ {u.rd, u.rs1} \subseteq Registers /\ u.imm \in Signed12
  \/ u.op \in DOMAIN I2Type /\ {u.rd, u.rs1} \subseteq Registers /\ u.imm \in 0 .. 31
  \/ u.op \in DOMAIN SType /\ {u.rs1, u.rs2} \subseteq Registers /\ u.imm \in Signed12
  \/ /\ u.op \in DOMAIN BType /\ {u.rs1, u.rs2} \subseteq Registers
     /\ u.imm \in Signed13 /\ u.imm % 4 = 0
  \/ u.op \in DOMAIN UType /\ u.rd \in Registers /\ u.imm \in Int
  \/ /\ u.op \in DOMAIN JType /\ u.rd \in Registers
     /\ u.imm \in Signed21 /\ u.imm % 2 = 0

ASSUME DatapathAssumption ==
  /\ \A p \in Programs : Len(p) \in Nat /\ \A i \in 1 .. Len(p) : Accepted(p[i])
  /\ \A p \in Operands : p[1] \in Number /\ p[2] \in Number
  /\ {First, Second} \subseteq Registers \ {0}
  /\ MemorySize \in Nat /\ Bytes \in [0 .. MemorySize - 1 -> 0 .. Power[ByteBits] - 1]

VARIABLES
  program, stage, \* what Run does next, "killed" after a trap or an exception
  program_counter_, current_instruction_,
  registers_, memory,
  control_unit_,  \* the signals that are set
  execution_result_, memory_result_, next_pc_, branch_flag_,
  bigmul_unit,    \* the addresses and the size it was given
  start           \* history: registers, memory and pc at the last Fetch

stageRegisters == <<execution_result_, memory_result_, next_pc_, branch_flag_>>
vars == <<program, stage, program_counter_, current_instruction_, registers_, memory,
          control_unit_, stageRegisters, bigmul_unit, start>>

w == current_instruction_

(* Values of the stages that are numbers of the machine. *)
ReadGpr(r) == IF r = 0 THEN 0 ELSE registers_[r]

(* Register 0 is written like any other. *)
WriteGprZero(r, v) == [registers_ EXCEPT ![r] = v]

WriteGpr(r, v) == IF r = 0 THEN registers_ ELSE [registers_ EXCEPT ![r] = v]

Running == program_counter_ < 4 * Len(program)

(* The programs of the model jump to whole instructions or out of the text. *)
Fetch ==
  /\ stage = "fetch" /\ Running /\ program_counter_ % 4 = 0
  /\ current_instruction_' = generateMachineCode(program[program_counter_ \div 4 + 1])
  /\ program_counter_' = Wrap(program_counter_ + 4)
  /\ stage' = "decode"
  /\ start' = [registers |-> registers_, memory |-> memory, pc |-> program_counter_,
               bases |-> bigmul_unit]
  /\ UNCHANGED <<program, registers_, memory, control_unit_, stageRegisters, bigmul_unit>>

SetControlSignals(op) ==
  CASE op = 51         -> {"reg_write"}
    [] op = 3          -> {"alu_src", "reg_write", "mem_read"}
    [] op = 35         -> {"alu_src", "mem_write"}
    [] op = 99         -> {"branch"}
    [] op \in {19, 55, 23} -> {"alu_src", "reg_write"}
    [] op = 111        -> {"reg_write", "branch"}
    [] op = 103        -> {"alu_src", "reg_write", "branch"}
    [] op = 42         -> {"mem_read", "ldbm_start"}
    [] op = 63         -> {"bigmul_start"}
    [] OTHER           -> {}

(* The register numbers of ldbm and bigmul are read with a mask of seven    *)
(* bits; ReadGpr throws beyond 31.                                          *)
WideRs1 == w.rs1 + 32 * Bits(w.rs2, 1, 4)
WideRs2 == w.rs2 + 32 * Bits(w.f7, 1, 4)

Decode ==
  /\ stage = "decode"
  /\ control_unit_' = SetControlSignals(w.op)
  /\ \/ /\ w.op \notin {42, 63}
        /\ stage' = "execute" /\ UNCHANGED bigmul_unit
     \/ /\ w.op \in {42, 63} /\ (WideRs1 > 31 \/ WideRs2 > 31)
        /\ stage' = "killed" /\ UNCHANGED bigmul_unit
     \/ /\ w.op = 42 /\ WideRs1 <= 31 /\ WideRs2 <= 31
        /\ bigmul_unit' = [bigmul_unit EXCEPT !.A = ReadGpr(WideRs1), !.B = ReadGpr(WideRs2)]
        /\ stage' = "unit"
     \/ /\ w.op = 63 /\ WideRs1 <= 31 /\ WideRs2 <= 31
        /\ bigmul_unit' =
             [bigmul_unit EXCEPT !.res = ReadGpr(WideRs1),
                !.size = IF ReadGpr(WideRs2) \in 1 .. 511 THEN ReadGpr(WideRs2) ELSE @]
        /\ stage' = "unit"
  /\ UNCHANGED <<program, program_counter_, current_instruction_, registers_, memory,
                 stageRegisters, start>>

(* GetAluSignal: by opcode, then funct3, then funct7. *)
Funct7(plain, alternate, m) ==
  CASE w.f7 = 0 -> plain [] w.f7 = 32 -> alternate [] w.f7 = 1 -> m [] OTHER -> "kNone"

RSignal ==
  CASE w.f3 = 0 -> Funct7("kAdd", "kSub", "kMul")
    [] w.f3 = 1 -> Funct7("kSll", "kNone", "kMulh")
    [] w.f3 = 2 -> Funct7("kSlt", "kNone", "kMulhsu")
    [] w.f3 = 3 -> Funct7("kSltu", "kNone", "kMulhu")
    [] w.f3 = 4 -> Funct7("kXor", "kNone", "kDiv")
    [] w.f3 = 5 -> Funct7("kSrl", "kSra", "kDivu")
    [] w.f3 = 6 -> Funct7("kOr", "kNone", "kRem")
    [] w.f3 = 7 -> Funct7("kAnd", "kNone", "kRemu")

ISignal ==
  CASE w.f3 = 0 -> "kAdd"
    [] w.f3 = 1 -> "kSll"
    [] w.f3 = 2 -> "kSlt"
    [] w.f3 = 3 -> "kSltu"
    [] w.f3 = 4 -> "kXor"
    [] w.f3 = 5 -> Funct7("kSrl", "kSra", "kNone")
    [] w.f3 = 6 -> "kOr"
    [] w.f3 = 7 -> "kAnd"

BSignal ==
  CASE w.f3 \in {0, 1} -> "kSub" [] w.f3 \in {4, 5} -> "kSlt" [] OTHER -> "kSltu"

WordISignal ==
  CASE w.f3 = 0 -> "kAddw"
    [] w.f3 = 1 -> "kSllw"
    [] w.f3 = 5 -> Funct7("kSrlw", "kSraw", "kNone")

WordSignal ==
  CASE w.f3 = 0 -> Funct7("kAddw", "kSubw", "kMulw")
    [] w.f3 = 1 -> "kSllw"
    [] w.f3 = 4 -> Funct7("kNone", "kNone", "kDivw")
    [] w.f3 = 5 -> Funct7("kSrlw", "kSraw", "kDivuw")
    [] w.f3 = 6 -> Funct7("kNone", "kNone", "kRemw")
    [] w.f3 = 7 -> Funct7("kNone", "kNone", "kRemuw")

GetAluSignal ==
  CASE w.op = 51 -> RSignal
    [] w.op = 19 -> ISignal
    [] w.op = 99 -> BSignal
    [] w.op = 27 -> WordISignal
    [] w.op = 59 -> WordSignal
    [] OTHER     -> "kAdd"

Signal(s) == s \in control_unit_

(* The flag of a branch from what the ALU made of its operands. *)
BranchFlag(result) ==
  CASE w.f3 \in {0, 5, 7} -> result = 0
    [] w.f3 = 1           -> result # 0
    [] w.f3 \in {4, 6}    -> result = 1

(* imm << 12 in 32 bits, signed, extended to 64 *)
ShiftedImm == Wrap(sign_extend(ImmGenerator(w), 524288) * 4096)

Execute ==
  LET imm    == ImmGenerator(w)
      here   == program_counter_ - 4
      second == IF Signal("alu_src") THEN Wrap(imm) ELSE ReadGpr(w.rs2)
      result == execute(GetAluSignal, ReadGpr(w.rs1), second)
  IN
  /\ stage = "execute"
  /\ \/ /\ result = Crash
        /\ stage' = "killed"
        /\ UNCHANGED <<program_counter_, stageRegisters>>
     \/ /\ result # Crash
        /\ stage' = "memory"
        /\ execution_result_' = IF w.op = 23 THEN Wrap(here + ShiftedImm) ELSE result
        /\ next_pc_' = IF w.op \in {111, 103} THEN program_counter_ ELSE next_pc_
        /\ branch_flag_' = IF w.op = 99 THEN BranchFlag(result) ELSE branch_flag_
        /\ program_counter_' =
             CASE w.op = 103                -> result
               [] w.op = 111                -> Wrap(here + imm)
               [] w.op = 99 /\ branch_flag_' -> Wrap(here + imm)
               [] OTHER                     -> program_counter_
        /\ UNCHANGED memory_result_
  /\ UNCHANGED <<program, current_instruction_, registers_, memory, control_unit_, bigmul_unit,
                 start>>

Reaches(n) == execution_result_ + n <= MemorySize

ReadMemory(n) ==
  SumUpTo([i \in 0 .. n - 1 |-> memory[execution_result_ + i] * Power[ByteBits * i]], n)

Width == CASE w.f3 \in {0, 4} -> 1 [] w.f3 \in {1, 5} -> 2 [] w.f3 \in {2, 6} -> 4 [] OTHER -> 8

(* The casts of lb, lh and lw extend the sign, those of lbu, lhu and lwu not. *)
Loaded == IF w.f3 \in {4, 5, 6} THEN ReadMemory(Width)
          ELSE Wrap(SignOf(ReadMemory(Width), Width * ByteBits))

WriteMemory ==
  /\ stage = "memory"
  /\ \/ /\ Signal("mem_read") /\ Reaches(Width)
        /\ memory_result_' = Loaded
        /\ stage' = "writeback" /\ UNCHANGED memory
     \/ /\ Signal("mem_write") /\ Reaches(Width)
        /\ memory' = [i \in DOMAIN memory |->
                        IF i \in execution_result_ .. execution_result_ + Width - 1
                        THEN (ReadGpr(w.rs2) \div Power[ByteBits * (i - execution_result_)]) % Power[ByteBits]
                        ELSE memory[i]]
        /\ stage' = "writeback" /\ UNCHANGED memory_result_
     \/ /\ Signal("mem_read") \/ Signal("mem_write")
        /\ ~Reaches(Width)
        /\ stage' = "killed" /\ UNCHANGED <<memory, memory_result_>>
     \/ /\ ~Signal("mem_read") /\ ~Signal("mem_write")
        /\ stage' = "writeback" /\ UNCHANGED <<memory, memory_result_>>
  /\ UNCHANGED <<program, program_counter_, current_instruction_, registers_, control_unit_,
                 execution_result_, next_pc_, branch_flag_, bigmul_unit, start>>

WriteBack ==
  /\ stage = "writeback"
  /\ registers_' =
       CASE ~Signal("reg_write")           -> registers_
         [] Signal("reg_write") /\ w.op \in {51, 19, 23} -> WriteGpr(w.rd, execution_result_)
         [] Signal("reg_write") /\ w.op = 3              -> WriteGpr(w.rd, memory_result_)
         [] Signal("reg_write") /\ w.op \in {103, 111}   -> WriteGpr(w.rd, next_pc_)
         [] Signal("reg_write") /\ w.op = 55             -> WriteGpr(w.rd, ShiftedImm)
  /\ stage' = "fetch"
  /\ UNCHANGED <<program, program_counter_, current_instruction_, memory, control_unit_,
                 stageRegisters, bigmul_unit, start>>

Init ==
  /\ program \in Programs
  /\ stage = "fetch" /\ program_counter_ = 0
  /\ current_instruction_ = Fields(0, 0, 0, 0, 0, 0)
  /\ \E p \in Operands :
       registers_ = [r \in Registers |-> IF r = First THEN p[1] ELSE IF r = Second THEN p[2] ELSE 0]
  /\ memory = Bytes
  /\ control_unit_ = {}
  /\ execution_result_ = 0 /\ memory_result_ = 0 /\ next_pc_ = 0 /\ branch_flag_ = FALSE
  /\ bigmul_unit = [A |-> 0, B |-> 0, res |-> 0, size |-> 64]
  /\ start = [registers |-> registers_, memory |-> memory, pc |-> 0, bases |-> bigmul_unit]

Next == Fetch \/ Decode \/ Execute \/ WriteMemory \/ WriteBack

Spec == Init /\ [][Next]_vars
-------------------------------------------------------------------------------
(* Every register holds a number of XLEN bits, register 0 zero, and every   *)
(* field of an instruction fits its bits (WriteGpr, generate*MachineCode).  *)
TypeOK ==
  /\ stage \in {"fetch", "decode", "execute", "memory", "writeback", "killed", "unit"}
  /\ registers_ \in [Registers -> Number] /\ registers_[0] = 0
  /\ memory \in [0 .. MemorySize - 1 -> 0 .. Power[ByteBits] - 1]
  /\ {program_counter_, execution_result_, memory_result_, next_pc_} \subseteq Number
  /\ w \in [f7 : 0 .. 127, rs2 : 0 .. 31, rs1 : 0 .. 31, f3 : 0 .. 7, rd : 0 .. 31, op : 0 .. 127]

(* The instruction that is being executed *)
Current == program[start.pc \div 4 + 1]

(* ImmGenerator reads back the immediate the assembler encoded, sign and    *)
(* all, but for the formats it does not know: the word instructions and     *)
(* bigmul.  lui and auipc take it modulo 2^20.                              *)
ImmediateSurvives ==
  stage = "execute" /\ Current.op \notin {"addiw", "slliw", "srliw", "sraiw"} =>
    CASE Current.op \in DOMAIN UType -> ImmGenerator(w) = Current.imm % 1048576
      [] Current.op = "srai"         -> ImmGenerator(w) = 1024 + Current.imm
      [] Current.op \in DOMAIN RType -> ImmGenerator(w) = 0
      [] OTHER                       -> ImmGenerator(w) = Current.imm

(* Between two instructions the machine is what it is, inside one what it   *)
(* was at the Fetch.                                                        *)
Retired == stage = "fetch"

Machine == INSTANCE Rv64 WITH
  x <- IF Retired THEN registers_ ELSE start.registers,
  pc <- IF Retired THEN program_counter_ ELSE start.pc,
  mem <- IF Retired THEN memory ELSE start.memory,
  outcome <- IF stage = "killed" THEN "crash" ELSE IF stage = "unit" THEN "unit" ELSE "running",
  bases <- bigmul_unit

(* The five stages together do to registers, memory and pc what one step of *)
(* the architecture does, whatever the earlier instructions left in the     *)
(* registers of the stages, with no departure but those that Rv64 lists.    *)
ImplementsRv64 == Machine!SpecIsa

(* A word instruction leaves its result in its register, as every other     *)
(* instruction of the architecture the assembler accepts.                   *)
WordsWritten ==
  stage = "fetch" /\ start.pc < program_counter_ /\ Current.op \in Machine!WordOps
    /\ Current.rd # 0
  => registers_[Current.rd] =
       Machine!Isa(Current.op, start.registers[Current.rs1], start.registers[Current.rs2])
===============================================================================
