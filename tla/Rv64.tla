--------------------------------- MODULE Rv64 ---------------------------------
(***************************************************************************)
(* What the simulator promises of a program of RV64IM instructions: each   *)
(* instruction takes effect as a whole and as the architecture says, but   *)
(* for the departures, which are all listed in Simulated, Held and Named.  *)
(***************************************************************************)
EXTENDS Alu, Sequences

CONSTANT MemorySize   \* bytes, of XLEN / 8 bits

VARIABLES
  program,   \* the instructions, four bytes each from address 0
  x, pc, mem,
  outcome,   \* "running", "crash", or "unit" once the coprocessor has taken over
  bases      \* the addresses and the size it was given

isaVars == <<program, x, pc, mem, outcome, bases>>

ByteBits == XLEN \div 8

(* The value of an operation on a and b, after the manual. *)
Isa(op, a, b) ==
  CASE op \in {"add", "addi"}   -> Wrap(a + b)
    [] op = "sub"               -> Wrap(a - b)
    [] op \in {"and", "andi"}   -> And(a, b)
    [] op \in {"or", "ori"}     -> Wrap(a + b - (And(a, b)))
    [] op \in {"xor", "xori"}   -> Wrap(a + b - 2 * (And(a, b)))
    [] op \in {"sll", "slli"}   -> Wrap(a * Power[b % XLEN])
    [] op \in {"srl", "srli"}   -> a \div Power[b % XLEN]
    [] op \in {"sra", "srai"}   -> Wrap(S(a) \div Power[b % XLEN])
    [] op \in {"slt", "slti"}   -> Flag(S(a) < S(b))
    [] op \in {"sltu", "sltiu"} -> Flag(a < b)
    [] op = "mul"               -> Wrap(S(a) * S(b))
    [] op = "mulh"              -> Wrap((S(a) * S(b)) \div Power[XLEN])
    [] op = "mulhsu"            -> Wrap((S(a) * S(b)) \div Power[XLEN] + Flag(S(b) < 0) * a)
    [] op = "mulhu"             -> Wrap((S(a) * S(b)) \div Power[XLEN] + Flag(S(a) < 0) * b
                                                                  + Flag(S(b) < 0) * a)
    [] op = "div"               -> IF b = 0 THEN Power[XLEN] - 1 ELSE Wrap(Quotient(S(a), S(b)))
    [] op = "divu"              -> IF b = 0 THEN Power[XLEN] - 1 ELSE a \div b
    [] op = "rem"               -> IF b = 0 THEN a ELSE Wrap(Remainder(S(a), S(b)))
    [] op = "remu"              -> IF b = 0 THEN a ELSE a % b
    [] op \in {"addw", "addiw"} -> FromWord(a + b)
    [] op = "subw"              -> FromWord(a - b)
    [] op \in {"sllw", "slliw"} -> FromWord(a * Power[b % (XLEN \div 2)])
    [] op \in {"srlw", "srliw"} -> FromWord(Word(a) \div Power[b % (XLEN \div 2)])
    [] op \in {"sraw", "sraiw"} -> Wrap(SWord(a) \div Power[b % (XLEN \div 2)])
    [] op = "mulw"              -> FromWord(SWord(a) * SWord(b))
    [] op = "divw"              -> IF Word(b) = 0 THEN Power[XLEN] - 1
                                   ELSE FromWord(Quotient(SWord(a), SWord(b)))
    [] op = "divuw"             -> IF Word(b) = 0 THEN Power[XLEN] - 1 ELSE FromWord(Word(a) \div Word(b))
    [] op = "remw"              -> IF Word(b) = 0 THEN FromWord(a)
                                   ELSE FromWord(Remainder(SWord(a), SWord(b)))
    [] op = "remuw"             -> IF Word(b) = 0 THEN FromWord(a) ELSE FromWord(Word(a) % Word(b))

RegisterOps  == {"add", "sub", "and", "or", "xor", "sll", "srl", "sra", "slt", "sltu",
                 "mul", "mulh", "mulhsu", "mulhu", "div", "divu", "rem", "remu"}
ImmediateOps == {"addi", "andi", "ori", "xori", "slti", "sltiu", "slli", "srli", "srai"}
WordOps      == {"addw", "subw", "sllw", "srlw", "sraw", "mulw", "divw", "divuw", "remw", "remuw"}
WordImmOps   == {"addiw", "slliw", "srliw", "sraiw"}

(* Departures of values: a quotient or remainder by zero is zero, and the   *)
(* least number divided by -1 is the greatest.                              *)
Simulated(op, a, b) ==
  IF op \in {"div", "divu", "rem", "remu"} /\ b = 0 THEN 0
  ELSE IF op = "div" /\ S(a) = Min /\ S(b) = -1 THEN Power[XLEN - 1] - 1
  ELSE Isa(op, a, b)

(* Departures that end the process: the remainder of the least number by    *)
(* -1, and the word operations that divide by a word of zero in a register  *)
(* that is not zero.                                                        *)
Traps(op, a, b) ==
  \/ op = "rem" /\ S(a) = Min /\ S(b) = -1
  \/ op \in {"divuw", "remw", "remuw"} /\ b # 0 /\ Word(b) = 0
  \/ op = "remw" /\ SWord(a) = -Power[XLEN \div 2 - 1] /\ SWord(b) = -1

Set(r, v) == IF r = 0 THEN x ELSE [x EXCEPT ![r] = v]

Next4 == pc' = Wrap(pc + 4)

Arithmetic(u) ==
  LET a == x[u.rs1]
      b == IF u.op \in RegisterOps THEN x[u.rs2] ELSE Wrap(u.imm)
  IN  /\ u.op \in RegisterOps \cup ImmediateOps
      /\ ~Traps(u.op, a, b)
      /\ x' = Set(u.rd, Simulated(u.op, a, b)) /\ Next4
      /\ UNCHANGED <<program, mem, outcome, bases>>

(* Departure: a word operation leaves its register as it was. *)
Held(u) ==
  /\ u.op \in WordOps \cup WordImmOps
  /\ u.op \in WordOps => ~Traps(u.op, x[u.rs1], x[u.rs2])
  /\ Next4
  /\ UNCHANGED <<program, x, mem, outcome, bases>>

Trap(u) ==
  /\ u.op \in RegisterOps \cup WordOps /\ Traps(u.op, x[u.rs1], x[u.rs2])
  /\ outcome' = "crash"
  /\ UNCHANGED <<program, x, pc, mem, bases>>

Taken(op, a, b) ==
  CASE op = "beq"  -> a = b
    [] op = "bne"  -> a # b
    [] op = "blt"  -> S(a) < S(b)
    [] op = "bge"  -> S(a) >= S(b)
    [] op = "bltu" -> a < b
    [] op = "bgeu" -> a >= b

Branch(u) ==
  /\ u.op \in {"beq", "bne", "blt", "bge", "bltu", "bgeu"}
  /\ pc' = Wrap(pc + (IF Taken(u.op, x[u.rs1], x[u.rs2]) THEN u.imm ELSE 4))
  /\ UNCHANGED <<program, x, mem, outcome, bases>>

(* Departure: jalr keeps an odd target odd. *)
Jump(u) ==
  /\ u.op \in {"jal", "jalr"}
  /\ x' = Set(u.rd, Wrap(pc + 4))
  /\ pc' = Wrap(u.imm + (IF u.op = "jal" THEN pc ELSE x[u.rs1]))
  /\ UNCHANGED <<program, mem, outcome, bases>>

(* The upper 20 bits of a signed number of 32 bits *)
UpperImm(imm) ==
  LET upper == imm % 1048576 IN Wrap((IF upper < 524288 THEN upper ELSE upper - 1048576) * 4096)

Upper(u) ==
  /\ u.op \in {"lui", "auipc"}
  /\ x' = Set(u.rd, Wrap(UpperImm(u.imm) + (IF u.op = "auipc" THEN pc ELSE 0))) /\ Next4
  /\ UNCHANGED <<program, mem, outcome, bases>>

LoadBytes  == [lb |-> 1, lbu |-> 1, lh |-> 2, lhu |-> 2, lw |-> 4, lwu |-> 4, ld |-> 8]
StoreBytes == [sb |-> 1, sh |-> 2, sw |-> 4, sd |-> 8]
Unsigned   == {"lbu", "lhu", "lwu"}

Inside(a, n) == a + n <= MemorySize

Little(a, n) == SumUpTo([i \in 0 .. n - 1 |-> mem[a + i] * Power[ByteBits * i]], n)

Load(u) ==
  LET a == Wrap(x[u.rs1] + u.imm) IN
  /\ u.op \in DOMAIN LoadBytes /\ Inside(a, LoadBytes[u.op])
  /\ LET n == LoadBytes[u.op]
         v == Little(a, n)
     IN  x' = Set(u.rd, IF u.op \in Unsigned THEN v ELSE Wrap(SignOf(v, n * ByteBits)))
  /\ Next4
  /\ UNCHANGED <<program, mem, outcome, bases>>

Store(u) ==
  LET a == Wrap(x[u.rs1] + u.imm) IN
  /\ u.op \in DOMAIN StoreBytes /\ Inside(a, StoreBytes[u.op])
  /\ mem' = [i \in DOMAIN mem |->
               IF a <= i /\ i < a + StoreBytes[u.op]
               THEN (x[u.rs2] \div Power[ByteBits * (i - a)]) % Power[ByteBits] ELSE mem[i]]
  /\ Next4
  /\ UNCHANGED <<program, x, outcome, bases>>

(* An address outside the memory ends the process. *)
Outside(u) ==
  LET a == Wrap(x[u.rs1] + u.imm) IN
  /\ \/ u.op \in DOMAIN LoadBytes /\ ~Inside(a, LoadBytes[u.op])
     \/ u.op \in DOMAIN StoreBytes /\ ~Inside(a, StoreBytes[u.op])
  /\ outcome' = "crash"
  /\ UNCHANGED <<program, x, pc, mem, bases>>

(* ldbm and bigmul hand the values of the named registers to the unit, or,  *)
(* the departure, end the process: rs2 must be a multiple of 4, and so must *)
(* the part of bigmul's immediate above its low five bits.                  *)
Named(u) == u.rs2 % 4 = 0 /\ (u.op = "bigmul" => (u.imm \div 32) % 4 = 0)

Coprocessor(u) ==
  /\ u.op \in {"ldbm", "bigmul"}
  /\ \/ /\ Named(u)
        /\ outcome' = "unit"
        /\ bases' = IF u.op = "ldbm" THEN [bases EXCEPT !.A = x[u.rs1], !.B = x[u.rs2]]
                    ELSE [bases EXCEPT !.res = x[u.rs1],
                                       !.size = IF x[u.rs2] \in 1 .. 511 THEN x[u.rs2] ELSE @]
     \/ /\ ~Named(u)
        /\ outcome' = "crash"
        /\ UNCHANGED bases
  /\ UNCHANGED <<program, x, pc, mem>>

Step ==
  /\ outcome = "running" /\ pc % 4 = 0 /\ pc < 4 * Len(program)
  /\ LET u == program[pc \div 4 + 1]
     IN  \/ Arithmetic(u) \/ Held(u) \/ Trap(u) \/ Branch(u) \/ Jump(u) \/ Upper(u)
         \/ Load(u) \/ Store(u) \/ Outside(u) \/ Coprocessor(u)

InitIsa ==
  /\ x[0] = 0 /\ pc = 0 /\ outcome = "running"

SpecIsa == InitIsa /\ [][Step]_isaVars
===============================================================================
