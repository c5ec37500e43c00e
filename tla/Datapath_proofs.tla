---------------------------- MODULE Datapath_proofs ----------------------------
(***************************************************************************)
(* The five stages implement the architecture, for every program of the    *)
(* instructions that the parser accepts, every width of the registers and  *)
(* every content of registers and memory.  First the machine code, then    *)
(* the powers of two and the ALU, then the invariant that ties what each   *)
(* stage leaves for the next to the machine at the Fetch, and the          *)
(* refinement.                                                             *)
(***************************************************************************)
EXTENDS Datapath, WellFoundedInduction, TLAPS

-------------------------------------------------------------------------------
(* A twelve-bit immediate put together again from its two fields. *)
Joined12(imm) == sign_extend(Bits(imm, 32, 128) * 32 + Bits(imm, 1, 32), 2048)

(* The part of a signed number below 32 and the seven bits above it give    *)
(* the number back, its sign from the twelfth bit.                          *)
LEMMA TwelveBits ==
  ASSUME NEW imm \in Signed12
  PROVE  Joined12(imm) = imm
  <1>0. imm \in -2048 .. 2047
    BY DEF Signed12, Between
  <1>1. imm = 32 * (imm \div 32) + (imm % 32) /\ imm % 32 \in 0 .. 31
    BY <1>0, SMTT(30)
  <1>2. imm \div 32 \in -64 .. 63
    BY <1>0, <1>1, SMTT(30)
  <1>3. CASE imm >= 0
    <2>1. (imm \div 32) % 128 = imm \div 32
      BY <1>0, <1>2, <1>3, SMTT(30)
    <2>. QED
      BY <1>0, <1>1, <1>2, <1>3, <2>1, SMTT(30) DEF Joined12, Bits, sign_extend
  <1>4. CASE imm < 0
    <2>1. (imm \div 32) % 128 = imm \div 32 + 128
      BY <1>0, <1>1, <1>2, <1>4, SMTT(30)
    <2>. QED
      BY <1>0, <1>1, <1>2, <1>4, <2>1, SMTT(30) DEF Joined12, Bits, sign_extend
  <1>. QED
    BY <1>0, <1>3, <1>4, SMTT(30)

(* The immediate of a load, jalr or immediate operation keeps its value and *)
(* its sign (generateI1TypeMachineCode, ImmGenerator).                      *)
THEOREM ImmIExact ==
  ASSUME NEW c, NEW rd, NEW rs1, NEW imm \in Signed12
  PROVE  ImmI(EncodeI1(c, rd, rs1, imm)) = imm
  <1>1. /\ EncodeI1(c, rd, rs1, imm).f7 = Bits(imm, 32, 128)
        /\ EncodeI1(c, rd, rs1, imm).rs2 = Bits(imm, 1, 32)
    BY DEF EncodeI1, Fields
  <1>2. Joined12(imm) = imm
    BY TwelveBits, Zenon
  <1>. QED
    BY <1>1, <1>2, SMTT(30) DEF ImmI, Joined12

(* The offset of a store, split around its second register, keeps its value *)
(* (generateSTypeMachineCode, ImmGenerator).                                *)
THEOREM ImmSExact ==
  ASSUME NEW c, NEW rs1, NEW rs2, NEW imm \in Signed12
  PROVE  ImmS(EncodeS(c, rs1, rs2, imm)) = imm
  <1>1. /\ EncodeS(c, rs1, rs2, imm).f7 = Bits(imm, 32, 128)
        /\ EncodeS(c, rs1, rs2, imm).rd = Bits(imm, 1, 32)
    BY DEF EncodeS, Fields
  <1>2. Joined12(imm) = imm
    BY TwelveBits, Zenon
  <1>. QED
    BY <1>1, <1>2, SMTT(30) DEF ImmS, Joined12

(* The four parts of a branch offset, bit 11 apart, come back in their      *)
(* places (generateBTypeMachineCode, ImmGenerator).                         *)
THEOREM ImmBExact ==
  ASSUME NEW c, NEW rs1, NEW rs2, NEW imm \in Signed13, imm % 2 = 0
  PROVE  ImmB(EncodeB(c, rs1, rs2, imm)) = imm
  <1> USE DEF Signed13, Between
  <1> DEFINE low  == (imm \div 2) % 16
             mid  == (imm \div 32) % 64
             b11  == (imm \div 2048) % 2
             sign == (imm \div 4096) % 2
  <1>1. low \in 0 .. 15 /\ mid \in 0 .. 63 /\ b11 \in 0 .. 1 /\ sign \in 0 .. 1
    BY SMTT(30)
  <1>2. 2 * low + 32 * mid + 2048 * b11 + 4096 * sign = IF imm < 0 THEN imm + 8192 ELSE imm
    <2>1. imm = 2 * (imm \div 2)
      BY SMTT(30)
    <2>2. imm \div 2 = 16 * (imm \div 32) + low
      BY SMTT(30), <2>1
    <2>3. imm \div 32 = 64 * (imm \div 2048) + mid
      BY SMTT(30)
    <2>4. imm \div 2048 = 2 * (imm \div 4096) + b11
      BY SMTT(30)
    <2>5. imm \div 4096 = IF imm < 0 THEN -1 ELSE 0
      BY SMTT(30)
    <2>6. sign = IF imm < 0 THEN 1 ELSE 0
      BY SMTT(30), <2>5
    <2>. QED
      BY SMTT(30), <2>1, <2>2, <2>3, <2>4, <2>5, <2>6
  <1>3. /\ (low * 2 + b11) \div 2 = low /\ (low * 2 + b11) % 2 = b11
        /\ (sign * 64 + mid) % 64 = mid /\ (sign * 64 + mid) \div 64 = sign
    BY SMTT(30), <1>1
  <1>4. sign_extend(2 * (low + mid * 16 + b11 * 1024 + sign * 2048), 4096) = imm
    <2> HIDE DEF low, mid, b11, sign
    <2>. QED
      BY SMTT(30), <1>1, <1>2 DEF sign_extend
  <1>5. /\ Bits(low * 2 + b11, 1, 2) = b11
        /\ Bits(sign * 64 + mid, 1, 64) = mid /\ Bits(sign * 64 + mid, 64, 2) = sign
    <2> HIDE DEF low, mid, b11, sign
    <2>. QED
      BY SMTT(30), <1>1, <1>3 DEF Bits
  <1>. QED
    BY SMTT(30), <1>3, <1>4, <1>5 DEF ImmB, EncodeB, Fields, Bits

(* The twenty bits of lui and auipc are taken modulo 2^20, so that the      *)
(* signed upper parts of la and of li come back as that many                *)
(* (generateUTypeMachineCode, ImmGenerator).                                *)
THEOREM ImmUExact ==
  ASSUME NEW c, NEW rd, NEW imm \in Int
  PROVE  ImmU(EncodeU(c, rd, imm)) = imm % 1048576
  <1>1. imm = 8 * (imm \div 8) + (imm % 8)
    BY SMTT(30)
  <1>2. imm \div 8 = 32 * (imm \div 256) + ((imm \div 8) % 32)
    BY SMTT(30)
  <1>3. imm \div 256 = 32 * (imm \div 8192) + ((imm \div 256) % 32)
    BY SMTT(30)
  <1>4. imm \div 8192 = 128 * (imm \div 1048576) + ((imm \div 8192) % 128)
    BY SMTT(30)
  <1>5. imm = 1048576 * (imm \div 1048576) + (imm % 1048576)
    BY SMTT(30)
  <1>. QED
    BY SMTT(30), <1>1, <1>2, <1>3, <1>4, <1>5 DEF ImmU, EncodeU, Fields, Bits

(* The parts of a jump offset, bits 11 and 12 to 19 out of order, come back *)
(* in their places (generateJTypeMachineCode, ImmGenerator).                *)
THEOREM ImmJExact ==
  ASSUME NEW c, NEW rd, NEW imm \in Int, -1048576 <= imm, imm < 1048576, imm % 2 = 0
  PROVE  ImmJ(EncodeJ(c, rd, imm)) = imm
  <1> DEFINE low  == (imm \div 2) % 16
             mid  == (imm \div 32) % 64
             b11  == (imm \div 2048) % 2
             b12  == (imm \div 4096) % 8
             b15  == (imm \div 32768) % 32
             sign == (imm \div 1048576) % 2
  <1>1. /\ low \in 0 .. 15 /\ mid \in 0 .. 63 /\ b11 \in 0 .. 1
        /\ b12 \in 0 .. 7 /\ b15 \in 0 .. 31 /\ sign \in 0 .. 1
    BY SMTT(30)
  <1>2. 2 * low + 32 * mid + 2048 * b11 + 4096 * b12 + 32768 * b15 + 1048576 * sign
          = IF imm < 0 THEN imm + 2097152 ELSE imm
    <2>1. imm = 2 * (imm \div 2)
      BY SMTT(30)
    <2>2. imm \div 2 = 16 * (imm \div 32) + low
      BY SMTT(30)
    <2>3. imm \div 32 = 64 * (imm \div 2048) + mid
      BY SMTT(30)
    <2>4. imm \div 2048 = 2 * (imm \div 4096) + b11
      BY SMTT(30)
    <2>5. imm \div 4096 = 8 * (imm \div 32768) + b12
      BY SMTT(30)
    <2>6. imm \div 32768 = 32 * (imm \div 1048576) + b15
      BY SMTT(30)
    <2>7. imm \div 1048576 = IF imm < 0 THEN -1 ELSE 0
      BY SMTT(30)
    <2>8. sign = IF imm < 0 THEN 1 ELSE 0
      BY SMTT(30), <2>7
    <2>. QED
      BY SMTT(30), <2>1, <2>2, <2>3, <2>4, <2>5, <2>6, <2>7, <2>8
  <1>3. /\ (low * 2 + b11) \div 2 = low
        /\ Bits(low * 2 + b11, 1, 2) = b11
        /\ Bits(sign * 64 + mid, 1, 64) = mid
        /\ Bits(sign * 64 + mid, 64, 2) = sign
    <2> HIDE DEF low, mid, b11, sign
    <2>. QED
      BY SMTT(30), <1>1 DEF Bits
  <1>4. sign_extend(2 * (low + mid * 16 + b11 * 1024 + (b15 * 8 + b12) * 2048 + sign * 524288),
                    1048576) = imm
    <2> HIDE DEF low, mid, b11, b12, b15, sign
    <2>. QED
      BY SMTT(30), <1>1, <1>2 DEF sign_extend
  <1>5. EncodeJ(c, rd, imm) = Fields(sign * 64 + mid, low * 2 + b11, b15, b12, rd, c.op)
    BY SMTT(30) DEF EncodeJ, Bits
  <1>6. ImmJ(EncodeJ(c, rd, imm))
          = sign_extend(2 * (low + mid * 16 + b11 * 1024 + (b15 * 8 + b12) * 2048
                             + sign * 524288), 1048576)
    <2> HIDE DEF low, mid, b11, b12, b15, sign
    <2>. QED
      BY SMTT(30), <1>3, <1>5 DEF ImmJ, Fields
  <1>. QED
    BY SMTT(30), <1>4, <1>6

-------------------------------------------------------------------------------
(* A set of numbers with 0 and all successors is that of all numbers. *)
LEMMA NatSet ==
  ASSUME NEW N \in SUBSET Nat, 0 \in N, \A n \in N : n + 1 \in N
  PROVE  N = Nat
<1> DEFINE Less == OpToRel(<, Nat)
           T    == Nat \ N
<1>1. SUFFICES ASSUME T # {} PROVE FALSE
  OBVIOUS
<1>2. IsWellFoundedOn(Less, Nat)
  BY NatLessThanWellFounded
<1>3. PICK k \in T : \A l \in T : <<l, k>> \notin Less
  <2> HIDE DEF Less, T
  <2>1. T \subseteq Nat /\ T # {}
    BY <1>1 DEF T
  <2> QED
    BY <1>2, <2>1, WFMin, Zenon
<1>4. k - 1 \in Nat /\ k - 1 \notin N
  <2>1. k \in Nat /\ k \notin N
    BY <1>3
  <2>2. k # 0
    BY <2>1
  <2>3. k - 1 \in Nat /\ (k - 1) + 1 = k
    BY <2>1, <2>2
  <2> QED
    BY <2>1, <2>3
<1>5. <<k - 1, k>> \in Less
  BY <1>3, <1>4 DEF OpToRel
<1> QED
  BY <1>3, <1>4, <1>5

(* The recursion of SumUpTo has a solution, which is its prefix sums. *)
Prefixes(s, g, n) ==
  /\ s \in [0 .. n -> Int] /\ s[0] = 0
  /\ \A i \in 0 .. n - 1 : s[i + 1] = s[i] + g[i]

LEMMA SumSolved ==
  ASSUME NEW n \in Nat, NEW g, \A i \in 0 .. n - 1 : g[i] \in Int
  PROVE  \E s : Prefixes(s, g, n) /\ SumUpTo(g, n) = s[n]
<1> DEFINE Solves(s, m) == s = [i \in 0 .. m |-> IF i = 0 THEN 0 ELSE s[i - 1] + g[i - 1]]
           N == {m \in Nat : \E s : Solves(s, m)}
<1>1. 0 \in N
  <2> DEFINE s == [i \in 0 .. 0 |-> 0]
  <2>1. Solves(s, 0)
    OBVIOUS
  <2> HIDE DEF s
  <2> QED
    BY <2>1
<1>2. ASSUME NEW m \in N PROVE m + 1 \in N
  <2>1. m \in Nat
    OBVIOUS
  <2>2. PICK s : Solves(s, m)
    OBVIOUS
  <2> DEFINE t == [i \in 0 .. m + 1 |-> IF i = m + 1 THEN s[m] + g[m] ELSE s[i]]
  <2>3. ASSUME NEW i \in 0 .. m + 1 PROVE t[i] = IF i = 0 THEN 0 ELSE t[i - 1] + g[i - 1]
    <3>1. CASE i = m + 1
      BY <2>1, <3>1
    <3>2. CASE i = 0
      BY <2>1, <2>2, <3>2
    <3>3. CASE i # 0 /\ i # m + 1
      <4>1. i \in 0 .. m /\ i - 1 \in 0 .. m /\ i - 1 # m + 1
        BY <2>1, <3>3
      <4>2. s[i] = s[i - 1] + g[i - 1]
        BY <2>2, <3>3, <4>1
      <4>3. t[i] = s[i] /\ t[i - 1] = s[i - 1]
        BY <2>1, <4>1
      <4> QED
        BY <3>3, <4>2, <4>3
    <3> QED
      BY <3>1, <3>2, <3>3
  <2>4. Solves(t, m + 1)
    <3>1. t = [i \in 0 .. m + 1 |-> t[i]]
      OBVIOUS
    <3> HIDE DEF t
    <3> QED
      BY <2>3, <3>1
  <2> HIDE DEF t
  <2> QED
    BY <2>1, <2>4
<1> HIDE DEF N
<1>3. n \in N
  <2>1. N \in SUBSET Nat
    BY DEF N
  <2> QED
    BY <1>1, <1>2, <2>1, NatSet
<1> DEFINE sum == CHOOSE s : Solves(s, n)
<1>4. Solves(sum, n)
  <2>1. \E s : Solves(s, n)
    BY <1>3 DEF N
  <2> QED
    BY <2>1, Zenon
<1>5. SumUpTo(g, n) = sum[n]
  BY Zenon DEF SumUpTo
<1> HIDE DEF sum
<1>6. sum[0] = 0 /\ \A i \in 0 .. n - 1 : sum[i + 1] = sum[i] + g[i]
  <2>1. \A i \in 0 .. n : sum[i] = IF i = 0 THEN 0 ELSE sum[i - 1] + g[i - 1]
    BY <1>4
  <2>2. ASSUME NEW i \in 0 .. n - 1 PROVE sum[i + 1] = sum[i] + g[i]
    <3>1. i + 1 \in 0 .. n /\ i + 1 # 0 /\ (i + 1) - 1 = i
      OBVIOUS
    <3> QED
      BY <2>1, <3>1
  <2> QED
    BY <2>1, <2>2
<1>7. sum \in [0 .. n -> Int]
  <2> DEFINE M == {m \in Nat : m <= n => sum[m] \in Int}
  <2>1. 0 \in M
    BY <1>6
  <2>2. ASSUME NEW m \in M PROVE m + 1 \in M
    <3> SUFFICES ASSUME m + 1 <= n PROVE sum[m + 1] \in Int
      OBVIOUS
    <3>1. m \in 0 .. n - 1 /\ sum[m] \in Int
      OBVIOUS
    <3> QED
      BY <1>6, <3>1
  <2>3. M = Nat
    <3>1. M \in SUBSET Nat
      OBVIOUS
    <3> HIDE DEF M
    <3> QED
      BY <2>1, <2>2, <3>1, NatSet
  <2>4. \A m \in 0 .. n : sum[m] \in Int
    BY <2>3
  <2> QED
    BY <1>4, <2>4
<1> QED
  BY <1>5, <1>6, <1>7 DEF Prefixes

(* Powers of two. *)
LEMMA PowerIs ==
  /\ Power[0] = 1
  /\ \A i \in 0 .. XLEN - 1 : Power[i + 1] = 2 * Power[i]
  /\ \A i \in 0 .. XLEN : Power[i] \in Nat \ {0}
<1> DEFINE Solves(p, m) == p = [i \in 0 .. m |-> IF i = 0 THEN 1 ELSE 2 * p[i - 1]]
           N == {m \in Nat : \E p : Solves(p, m)}
<1>0. XLEN \in Nat
  BY WidthAssumption
<1>1. 0 \in N
  <2> DEFINE p == [i \in 0 .. 0 |-> 1]
  <2>1. Solves(p, 0)
    OBVIOUS
  <2> HIDE DEF p
  <2> QED
    BY <2>1
<1>2. ASSUME NEW m \in N PROVE m + 1 \in N
  <2>1. m \in Nat
    OBVIOUS
  <2>2. PICK p : Solves(p, m)
    OBVIOUS
  <2> DEFINE t == [i \in 0 .. m + 1 |-> IF i = m + 1 THEN 2 * p[m] ELSE p[i]]
  <2>3. ASSUME NEW i \in 0 .. m + 1 PROVE t[i] = IF i = 0 THEN 1 ELSE 2 * t[i - 1]
    <3>1. CASE i = m + 1
      BY <2>1, <3>1
    <3>2. CASE i = 0
      BY <2>1, <2>2, <3>2
    <3>3. CASE i # 0 /\ i # m + 1
      <4>1. i \in 0 .. m /\ i - 1 \in 0 .. m /\ i - 1 # m + 1
        BY <2>1, <3>3
      <4>2. p[i] = 2 * p[i - 1]
        BY <2>2, <3>3, <4>1
      <4>3. t[i] = p[i] /\ t[i - 1] = p[i - 1]
        BY <2>1, <4>1
      <4> QED
        BY <3>3, <4>2, <4>3
    <3> QED
      BY <3>1, <3>2, <3>3
  <2>4. Solves(t, m + 1)
    <3>1. t = [i \in 0 .. m + 1 |-> t[i]]
      OBVIOUS
    <3> HIDE DEF t
    <3> QED
      BY <2>3, <3>1
  <2> HIDE DEF t
  <2> QED
    BY <2>1, <2>4
<1> HIDE DEF N
<1>3. XLEN \in N
  <2>1. N \in SUBSET Nat
    BY DEF N
  <2> QED
    BY <1>0, <1>1, <1>2, <2>1, NatSet
<1>4. Solves(Power, XLEN)
  <2>1. \E p : Solves(p, XLEN)
    BY <1>3 DEF N
  <2> QED
    BY <2>1, Zenon DEF Power
<1>5. Power[0] = 1 /\ \A i \in 0 .. XLEN - 1 : Power[i + 1] = 2 * Power[i]
  <2>1. \A i \in 0 .. XLEN : Power[i] = IF i = 0 THEN 1 ELSE 2 * Power[i - 1]
    BY <1>4
  <2>2. ASSUME NEW i \in 0 .. XLEN - 1 PROVE Power[i + 1] = 2 * Power[i]
    <3>1. i + 1 \in 0 .. XLEN /\ i + 1 # 0 /\ (i + 1) - 1 = i
      BY <1>0
    <3> QED
      BY <2>1, <3>1
  <2> QED
    BY <1>0, <2>1, <2>2
<1>6. \A i \in 0 .. XLEN : Power[i] \in Nat \ {0}
  <2> DEFINE M == {m \in Nat : m <= XLEN => Power[m] \in Nat \ {0}}
  <2>1. 0 \in M
    BY <1>5
  <2>2. ASSUME NEW m \in M PROVE m + 1 \in M
    <3> SUFFICES ASSUME m + 1 <= XLEN PROVE Power[m + 1] \in Nat \ {0}
      OBVIOUS
    <3>1. m \in 0 .. XLEN - 1 /\ Power[m] \in Nat \ {0}
      BY <1>0
    <3> QED
      BY <1>5, <3>1
  <2>3. M = Nat
    <3>1. M \in SUBSET Nat
      OBVIOUS
    <3> HIDE DEF M
    <3> QED
      BY <2>1, <2>2, <3>1, NatSet
  <2> QED
    BY <1>0, <2>3
<1> QED
  BY <1>5, <1>6

(* Exponents add. *)
LEMMA PowerAdd ==
  ASSUME NEW i \in Nat, NEW j \in Nat, i + j <= XLEN
  PROVE  Power[i + j] = Power[i] * Power[j]
<1> DEFINE M == {m \in Nat : i + m <= XLEN => Power[i + m] = Power[i] * Power[m]}
<1>0. XLEN \in Nat
  BY WidthAssumption
<1>1. 0 \in M
  <2>1. i \in 0 .. XLEN /\ i + 0 = i
    BY <1>0
  <2>2. Power[i] \in Nat /\ Power[0] = 1
    BY <2>1, PowerIs
  <2> QED
    BY <2>1, <2>2
<1>2. ASSUME NEW m \in M PROVE m + 1 \in M
  <2> SUFFICES ASSUME i + (m + 1) <= XLEN PROVE Power[i + (m + 1)] = Power[i] * Power[m + 1]
    OBVIOUS
  <2>1. m \in Nat /\ Power[i + m] = Power[i] * Power[m]
    BY <1>0
  <2>2. /\ i + m \in 0 .. XLEN - 1 /\ m \in 0 .. XLEN - 1 /\ i \in 0 .. XLEN
        /\ (i + m) + 1 = i + (m + 1)
    BY <1>0, <2>1
  <2>3. Power[i + (m + 1)] = 2 * Power[i + m] /\ Power[m + 1] = 2 * Power[m]
    <3>1. Power[(i + m) + 1] = 2 * Power[i + m] /\ Power[m + 1] = 2 * Power[m]
      BY <2>2, PowerIs
    <3> QED
      BY <2>2, <3>1
  <2>4. Power[i] \in Nat /\ Power[m] \in Nat
    BY <1>0, <2>2, PowerIs
  <2>5. 2 * (Power[i] * Power[m]) = Power[i] * (2 * Power[m])
    <3> DEFINE p == Power[i]
               q == Power[m]
    <3>1. p \in Nat /\ q \in Nat
      BY <2>4
    <3> HIDE DEF p, q
    <3>2. 2 * (p * q) = p * (2 * q)
      BY <3>1
    <3> QED
      BY <3>2 DEF p, q
  <2> QED
    BY <2>1, <2>3, <2>5
<1>3. M = Nat
  <2>1. M \in SUBSET Nat
    OBVIOUS
  <2> HIDE DEF M
  <2> QED
    BY <1>1, <1>2, <2>1, NatSet
<1> QED
  BY <1>3

(* The powers that the formats of the instructions are about. *)
LEMMA PowerValues ==
  /\ Power[4] = 16 /\ Power[5] = 32 /\ Power[6] = 64 /\ Power[8] = 256
  /\ Power[12] = 4096 /\ Power[16] = 65536
  /\ XLEN \in Nat /\ XLEN >= 16
<1>0. XLEN \in Nat /\ XLEN >= 16
  BY WidthAssumption
<1>1. \A i \in 0 .. 15 : Power[i + 1] = 2 * Power[i]
  BY <1>0, PowerIs
<1>2. Power[1] = 2 /\ Power[2] = 4 /\ Power[3] = 8 /\ Power[4] = 16
  <2>1. /\ Power[0 + 1] = 2 * Power[0] /\ Power[1 + 1] = 2 * Power[1]
        /\ Power[2 + 1] = 2 * Power[2] /\ Power[3 + 1] = 2 * Power[3]
    BY <1>1
  <2> QED
    BY <2>1, PowerIs
<1>3. Power[4 + 4] = Power[4] * Power[4] /\ Power[8 + 8] = Power[8] * Power[8]
      /\ Power[8 + 4] = Power[8] * Power[4]
  BY <1>0, PowerAdd
<1>4. Power[4 + 1] = 2 * Power[4] /\ Power[5 + 1] = 2 * Power[5]
  BY <1>1
<1> QED
  BY <1>0, <1>2, <1>3, <1>4

(* A larger exponent, a larger power. *)
LEMMA PowerGrows ==
  ASSUME NEW i \in Nat, NEW j \in Nat, i <= j, j <= XLEN
  PROVE  Power[i] <= Power[j]
<1>0. XLEN \in Nat
  BY WidthAssumption
<1>1. j - i \in Nat /\ i + (j - i) = j /\ i \in 0 .. XLEN /\ j - i \in 0 .. XLEN
  BY <1>0
<1> DEFINE p == Power[i]
           q == Power[j - i]
<1>2. Power[j] = p * q
  BY <1>1, PowerAdd
<1>3. p \in Nat \ {0} /\ q \in Nat \ {0}
  BY <1>1, PowerIs
<1> HIDE DEF p, q
<1>4. p <= p * q
  BY <1>3
<1> QED
  BY <1>2, <1>4 DEF p

(* Division and remainder are had back from a product and a rest. *)
LEMMA DivMod ==
  ASSUME NEW q \in Int, NEW b \in Nat \ {0}, NEW r \in 0 .. b - 1
  PROVE  (b * q + r) \div b = q /\ (b * q + r) % b = r
OBVIOUS

LEMMA Euclid ==
  ASSUME NEW n \in Int, NEW b \in Nat \ {0}
  PROVE  /\ n \div b \in Int /\ n % b \in 0 .. b - 1
         /\ n = b * (n \div b) + (n % b)
         /\ b * (n \div b) \in Int
OBVIOUS

(* Multiples of the divisor. *)
LEMMA ModMultiple ==
  ASSUME NEW n \in Int, NEW k \in Int, NEW b \in Nat \ {0}
  PROVE  /\ b * k \in Int
         /\ (n + b * k) % b = n % b
         /\ (n + b * k) \div b = n \div b + k
<1> DEFINE q == n \div b
           r == n % b
<1>1. q \in Int /\ r \in 0 .. b - 1 /\ n = b * q + r
  BY Euclid
<1> HIDE DEF q, r
<1>2. n + b * k = b * (q + k) + r /\ q + k \in Int /\ b * k \in Int
  BY <1>1
<1>3. (b * (q + k) + r) \div b = q + k /\ (b * (q + k) + r) % b = r
  BY <1>1, <1>2, DivMod
<1> QED
  BY <1>2, <1>3 DEF q, r

(* Remainders taken early or late. *)
LEMMA ModSum ==
  ASSUME NEW m \in Int, NEW n \in Int, NEW b \in Nat \ {0}
  PROVE  (m + (n % b)) % b = (m + n) % b /\ ((m % b) + n) % b = (m + n) % b
<1>1. ASSUME NEW i \in Int, NEW j \in Int PROVE (i + (j % b)) % b = (i + j) % b
  <2> DEFINE q == j \div b
             r == j % b
  <2>1. q \in Int /\ r \in 0 .. b - 1 /\ j = b * q + r /\ b * q \in Int
    BY <1>1, Euclid
  <2> HIDE DEF q, r
  <2>2. i + j = (i + r) + b * q /\ i + r \in Int
    BY <1>1, <2>1
  <2>3. ((i + r) + b * q) % b = (i + r) % b
    BY <2>1, <2>2, ModMultiple
  <2> QED
    BY <2>2, <2>3 DEF r
<1>2. m + n = n + m /\ (m % b) + n = n + (m % b)
  BY Euclid
<1> QED
  BY <1>1, <1>2

(* Numbers below the divisor. *)
LEMMA SmallMod ==
  ASSUME NEW b \in Nat \ {0}, NEW n \in 0 .. b - 1
  PROVE  n % b = n /\ n \div b = 0
<1>1. n = b * 0 + n
  OBVIOUS
<1> QED
  BY <1>1, DivMod

(* A quotient is no larger than what is divided. *)
LEMMA DivLess ==
  ASSUME NEW n \in Nat, NEW b \in Nat \ {0}
  PROVE  n \div b \in 0 .. n
<1> DEFINE q == n \div b
           r == n % b
<1>1. q \in Int /\ r \in 0 .. b - 1 /\ n = b * q + r
  BY Euclid
<1> HIDE DEF q, r
<1>2. q >= 0
  <2> SUFFICES ASSUME q <= -1 PROVE FALSE
    BY <1>1
  <2>1. b * q <= -b
    BY <1>1
  <2> QED
    BY <1>1, <2>1
<1>3. q <= b * q
  BY <1>1, <1>2
<1> QED
  BY <1>1, <1>2, <1>3 DEF q

(* What fits below a multiple has a quotient below the factor. *)
LEMMA DivBelow ==
  ASSUME NEW n \in Nat, NEW b \in Nat \ {0}, NEW c \in Nat, n < b * c
  PROVE  n \div b \in 0 .. c - 1
<1> DEFINE q == n \div b
           r == n % b
<1>1. q \in Int /\ r \in 0 .. b - 1 /\ n = b * q + r /\ q \in 0 .. n
  <2>1. q \in Int /\ r \in 0 .. b - 1 /\ n = b * q + r
    BY Euclid
  <2>2. n \div b \in 0 .. n
    BY DivLess
  <2> QED
    BY <2>1, <2>2
<1> HIDE DEF q, r
<1>2. q < c
  <2> SUFFICES ASSUME q >= c PROVE FALSE
    BY <1>1
  <2>1. b * q >= b * c
    BY <1>1
  <2> QED
    BY <1>1, <2>1
<1> QED
  BY <1>1, <1>2 DEF q

(* Two divisions in a row. *)
LEMMA DivDiv ==
  ASSUME NEW n \in Int, NEW b \in Nat \ {0}, NEW c \in Nat \ {0}
  PROVE  (n \div b) \div c = n \div (b * c)
<1> DEFINE q == n \div b
           r == n % b
           p == q \div c
           s == q % c
<1>1. q \in Int /\ r \in 0 .. b - 1 /\ n = b * q + r
  BY Euclid
<1>2. p \in Int /\ s \in 0 .. c - 1 /\ q = c * p + s
  <2> HIDE DEF q
  <2> QED
    BY <1>1, Euclid
<1> HIDE DEF q, r, p, s
<1>3. b * q = b * (c * p + s)
  BY <1>2
<1>4. b * (c * p + s) = (b * c) * p + b * s
  BY <1>2
<1>5. n = (b * c) * p + (b * s + r)
  <2>1. /\ b * s \in Int /\ (b * c) * p \in Int
    BY <1>2
  <2> QED
    BY <1>1, <1>3, <1>4, <2>1
<1>6. b * c \in Nat \ {0} /\ b * s + r \in 0 .. b * c - 1
  <2>1. b * s <= b * (c - 1) /\ b * (c - 1) = b * c - b /\ b * s \in Nat /\ b * c \in Nat
    BY <1>2
  <2>2. b * c > 0
    OBVIOUS
  <2> QED
    BY <1>1, <2>1, <2>2
<1>7. n \div (b * c) = p
  BY <1>2, <1>5, <1>6, DivMod
<1> QED
  BY <1>7 DEF p, q

(* One more bit of a remainder. *)
LEMMA BitNext ==
  ASSUME NEW n \in Nat, NEW b \in Nat \ {0}
  PROVE  n % (2 * b) = (n % b) + (IF (n \div b) % 2 = 1 THEN b ELSE 0)
<1> DEFINE q == n \div b
           r == n % b
           p == q \div 2
           d == q % 2
<1>1. q \in Int /\ r \in 0 .. b - 1 /\ n = b * q + r
  BY Euclid
<1>2. p \in Int /\ d \in 0 .. 1 /\ q = 2 * p + d
  <2> HIDE DEF q
  <2> QED
    BY <1>1, Euclid
<1> HIDE DEF q, r, p, d
<1>3. n = (2 * b) * p + (b * d + r)
  <2>1. b * q = b * (2 * p + d)
    BY <1>2
  <2>2. b * (2 * p + d) = (2 * b) * p + b * d
    BY <1>2
  <2>3. (2 * b) * p \in Int /\ b * d \in Int
    BY <1>2
  <2> QED
    BY <1>1, <2>1, <2>2, <2>3
<1>4. b * d = (IF d = 1 THEN b ELSE 0)
  BY <1>2
<1>5. 2 * b \in Nat \ {0} /\ b * d + r \in 0 .. 2 * b - 1
  BY <1>1, <1>4
<1>6. n % (2 * b) = b * d + r
  BY <1>2, <1>3, <1>5, DivMod
<1>7. b * d + r = r + (IF d = 1 THEN b ELSE 0)
  BY <1>1, <1>4
<1> QED
  BY <1>6, <1>7 DEF r, d, q

-------------------------------------------------------------------------------
(* The width of the registers, and numbers with a sign. *)

Half == Power[XLEN - 1]
Root == Power[XLEN \div 2]

LEMMA Widths ==
  /\ Power[XLEN] \in Nat /\ Half \in Nat /\ Root \in Nat
  /\ Power[XLEN] = 2 * Half /\ Power[XLEN] = Root * Root
  /\ Half >= 32768 /\ Root >= 256
  /\ XLEN \in Nat /\ XLEN >= 16 /\ XLEN \div 2 \in 0 .. XLEN /\ 2 * (XLEN \div 2) = XLEN
  /\ Power[XLEN \div 2 - 1] \in Nat \ {0} /\ Root = 2 * Power[XLEN \div 2 - 1]
<1>1. /\ XLEN \in Nat /\ XLEN >= 16 /\ XLEN \div 2 \in 0 .. XLEN /\ XLEN \div 2 >= 8
      /\ XLEN \div 2 + XLEN \div 2 = XLEN
      /\ XLEN - 1 \in 0 .. XLEN - 1 /\ (XLEN - 1) + 1 = XLEN
      /\ XLEN \div 2 - 1 \in 0 .. XLEN - 1 /\ (XLEN \div 2 - 1) + 1 = XLEN \div 2
  BY WidthAssumption
<1>2. Power[XLEN] = 2 * Half
  <2>1. Power[(XLEN - 1) + 1] = 2 * Power[XLEN - 1]
    BY <1>1, PowerIs
  <2> QED
    BY <1>1, <2>1 DEF Half
<1>3. Power[XLEN] = Root * Root
  <2>1. Power[XLEN \div 2 + XLEN \div 2] = Power[XLEN \div 2] * Power[XLEN \div 2]
    BY <1>1, PowerAdd
  <2> QED
    BY <1>1, <2>1 DEF Root
<1>4. Root = 2 * Power[XLEN \div 2 - 1]
  <2>1. Power[(XLEN \div 2 - 1) + 1] = 2 * Power[XLEN \div 2 - 1]
    BY <1>1, PowerIs
  <2> QED
    BY <1>1, <2>1 DEF Root
<1>5. Power[XLEN] \in Nat /\ Half \in Nat /\ Root \in Nat /\ Power[XLEN \div 2 - 1] \in Nat \ {0}
  BY <1>1, PowerIs DEF Half, Root
<1>6. Power[XLEN] >= 65536 /\ Root >= 256
  <2>1. Power[16] <= Power[XLEN] /\ Power[8] <= Power[XLEN \div 2]
    BY <1>1, PowerGrows
  <2> QED
    BY <2>1, PowerValues DEF Root
<1> QED
  BY <1>1, <1>2, <1>3, <1>4, <1>5, <1>6

(* A remainder is a number of the machine. *)
LEMMA WrapIs ==
  ASSUME NEW n \in Int
  PROVE  /\ Wrap(n) \in Number /\ (n \in Number => Wrap(n) = n)
         /\ \A k \in Int : Wrap(n + Power[XLEN] * k) = Wrap(n)
<1> DEFINE b == Power[XLEN]
<1>1. b \in Nat \ {0}
  BY Widths
<1>2. n % b \in 0 .. b - 1
  <2> HIDE DEF b
  <2> QED
    BY <1>1, Euclid
<1>3. n \in 0 .. b - 1 => n % b = n
  <2> HIDE DEF b
  <2> QED
    BY <1>1, SmallMod
<1>4. \A k \in Int : (n + b * k) % b = n % b
  <2> HIDE DEF b
  <2> QED
    BY <1>1, ModMultiple
<1> QED
  BY <1>2, <1>3, <1>4 DEF Wrap, Number

LEMMA WrapSum ==
  ASSUME NEW m \in Int, NEW n \in Int
  PROVE  Wrap(m + Wrap(n)) = Wrap(m + n) /\ Wrap(Wrap(m) + n) = Wrap(m + n)
<1> DEFINE b == Power[XLEN]
<1>1. b \in Nat \ {0}
  BY Widths
<1>2. (m + (n % b)) % b = (m + n) % b /\ ((m % b) + n) % b = (m + n) % b
  <2> HIDE DEF b
  <2> QED
    BY <1>1, ModSum
<1> QED
  BY <1>2 DEF Wrap

(* Read with a sign, a number changes by nothing or by the number of values. *)
LEMMA SignedIs ==
  ASSUME NEW a \in Number
  PROVE  /\ a \in Nat
         /\ S(a) = (IF a < Half THEN a ELSE a - Power[XLEN])
         /\ S(a) \in -Half .. Half - 1
         /\ Wrap(S(a)) = a
         /\ S(a) = 0 <=> a = 0
<1> DEFINE b == Power[XLEN]
<1>1. b \in Nat \ {0} /\ b = 2 * Half /\ Half \in Nat /\ Half > 0
  BY Widths
<1>2. a \in 0 .. b - 1
  BY DEF Number
<1>3. S(a) = (IF a % b < Half THEN a % b ELSE (a % b) - b)
  BY DEF S, SignOf, Half
<1>4. a % b = a
  <2> HIDE DEF b
  <2> QED
    BY <1>1, <1>2, SmallMod
<1>5. S(a) = (IF a < Half THEN a ELSE a - b)
  BY <1>3, <1>4
<1>6. Wrap(S(a)) = a
  <2>1. Wrap(a) = a /\ Wrap(a + b * (-1)) = Wrap(a)
    BY <1>2, WrapIs DEF Number
  <2>2. a + b * (-1) = a - b
    <3> HIDE DEF b
    <3> QED
      BY <1>1, <1>2
  <2> QED
    BY <1>5, <2>1, <2>2
<1> HIDE DEF b
<1>7. S(a) \in -Half .. Half - 1 /\ (S(a) = 0 <=> a = 0) /\ a \in Nat
  BY <1>1, <1>2, <1>5
<1> QED
  BY <1>5, <1>6, <1>7 DEF b

(* The same for words. *)
LEMMA WordIs ==
  ASSUME NEW n \in Int
  PROVE  /\ Word(n) \in 0 .. Root - 1 /\ Word(n) \in Number
         /\ SWord(n) \in Int /\ (SWord(n) = 0 <=> Word(n) = 0)
         /\ FromWord(n) \in Number
<1>1. Root \in Nat \ {0} /\ Power[XLEN] = Root * Root /\ Root = 2 * Power[XLEN \div 2 - 1]
      /\ Power[XLEN \div 2 - 1] \in Nat \ {0}
  BY Widths
<1>2. Word(n) \in 0 .. Root - 1
  <2>1. n % Root \in 0 .. Root - 1
    BY <1>1, Euclid
  <2> QED
    BY <2>1 DEF Word, Root
<1>3. Root <= Root * Root
  BY <1>1
<1>4. Word(n) \in Number
  BY <1>1, <1>2, <1>3 DEF Number
<1>5. SWord(n) = (IF Word(n) < Power[XLEN \div 2 - 1] THEN Word(n) ELSE Word(n) - Root)
  BY DEF SWord, SignOf, Word, Root
<1>6. SWord(n) \in Int /\ (SWord(n) = 0 <=> Word(n) = 0)
  BY <1>1, <1>2, <1>5
<1>7. FromWord(n) \in Number
  BY <1>6, WrapIs DEF FromWord
<1> QED
  BY <1>2, <1>4, <1>6, <1>7

-------------------------------------------------------------------------------
(* The operations on bits. *)

Bits2(pairs, a, b) ==
  [i \in 0 .. XLEN - 1 |-> IF <<Bit(a, i), Bit(b, i)>> \in pairs THEN Power[i] ELSE 0]

LEMMA BitSums ==
  ASSUME NEW pairs, NEW a, NEW b
  PROVE  \E s : Prefixes(s, Bits2(pairs, a, b), XLEN) /\ BitByBit(pairs, a, b) = s[XLEN]
<1> DEFINE g == Bits2(pairs, a, b)
<1>1. XLEN \in Nat
  BY WidthAssumption
<1>2. \A i \in 0 .. XLEN - 1 : g[i] \in Int
  BY <1>1, PowerIs DEF Bits2
<1>3. BitByBit(pairs, a, b) = SumUpTo(g, XLEN)
  BY DEF BitByBit, Bits2
<1> HIDE DEF g
<1>4. PICK s : Prefixes(s, g, XLEN) /\ SumUpTo(g, XLEN) = s[XLEN]
  BY <1>1, <1>2, SumSolved
<1> QED
  BY <1>3, <1>4 DEF g

(* What they give is a number of the machine. *)
LEMMA BitByBitIs ==
  ASSUME NEW pairs, NEW a, NEW b
  PROVE  BitByBit(pairs, a, b) \in Number
<1>0. XLEN \in Nat
  BY WidthAssumption
<1>1. PICK s : Prefixes(s, Bits2(pairs, a, b), XLEN) /\ BitByBit(pairs, a, b) = s[XLEN]
  BY BitSums
<1> DEFINE M == {m \in Nat : m <= XLEN => s[m] \in 0 .. Power[m] - 1}
<1>2. 0 \in M
  BY <1>1, PowerIs DEF Prefixes
<1>3. ASSUME NEW m \in M PROVE m + 1 \in M
  <2> SUFFICES ASSUME m + 1 <= XLEN PROVE s[m + 1] \in 0 .. Power[m + 1] - 1
    OBVIOUS
  <2>1. m \in 0 .. XLEN - 1 /\ m \in 0 .. XLEN /\ s[m] \in 0 .. Power[m] - 1
    BY <1>0
  <2>2. s[m + 1] = s[m] + Bits2(pairs, a, b)[m]
    BY <1>1, <2>1 DEF Prefixes
  <2>3. Bits2(pairs, a, b)[m] = Power[m] \/ Bits2(pairs, a, b)[m] = 0
    BY <2>1 DEF Bits2
  <2>4. Power[m] \in Nat \ {0} /\ Power[m + 1] = 2 * Power[m]
    BY <2>1, PowerIs
  <2> QED
    BY <2>1, <2>2, <2>3, <2>4
<1>4. M = Nat
  <2>1. M \in SUBSET Nat
    OBVIOUS
  <2> HIDE DEF M
  <2> QED
    BY <1>2, <1>3, <2>1, NatSet
<1> QED
  BY <1>0, <1>1, <1>4 DEF Number

(* One more bit of a number. *)
LEMMA BitAdds ==
  ASSUME NEW a \in Nat, NEW m \in 0 .. XLEN - 1
  PROVE  /\ Bit(a, m) \in {0, 1} /\ a % Power[m] \in Nat
         /\ a % Power[m + 1] = (a % Power[m]) + (IF Bit(a, m) = 1 THEN Power[m] ELSE 0)
<1> DEFINE p == Power[m]
<1>1. p \in Nat \ {0} /\ Power[m + 1] = 2 * p
  BY WidthAssumption, PowerIs
<1> HIDE DEF p
<1>2. a % (2 * p) = (a % p) + (IF (a \div p) % 2 = 1 THEN p ELSE 0)
  BY <1>1, BitNext
<1>3. a % p \in Nat /\ a \div p \in Int
  BY <1>1, Euclid
<1>4. (a \div p) % 2 \in {0, 1}
  <2> DEFINE q == a \div p
  <2>1. q \in Int
    BY <1>3
  <2> HIDE DEF q
  <2>2. q % 2 \in {0, 1}
    BY <2>1
  <2> QED
    BY <2>2 DEF q
<1> QED
  BY <1>1, <1>2, <1>3, <1>4 DEF Bit, p

(* A number is the sum of its bits, so that what | and ^ give can be had    *)
(* from + and &.                                                            *)
LEMMA OrXorIs ==
  ASSUME NEW a \in Number, NEW b \in Number
  PROVE  Or(a, b) = a + b - And(a, b) /\ Xor(a, b) = a + b - 2 * And(a, b)
<1>0. XLEN \in Nat /\ a \in Nat /\ b \in Nat /\ Power[XLEN] \in Nat \ {0}
  BY Widths, WidthAssumption DEF Number
<1> DEFINE both   == {<<1, 1>>}
           either == {<<0, 1>>, <<1, 0>>, <<1, 1>>}
           one    == {<<0, 1>>, <<1, 0>>}
<1>1. PICK s : Prefixes(s, Bits2(both, a, b), XLEN) /\ BitByBit(both, a, b) = s[XLEN]
  BY BitSums
<1>2. PICK t : Prefixes(t, Bits2(either, a, b), XLEN) /\ BitByBit(either, a, b) = t[XLEN]
  BY BitSums
<1>3. PICK v : Prefixes(v, Bits2(one, a, b), XLEN) /\ BitByBit(one, a, b) = v[XLEN]
  BY BitSums
<1> DEFINE low(m) == (a % Power[m]) + (b % Power[m])
           M == {m \in Nat : m <= XLEN => t[m] + s[m] = low(m) /\ v[m] + 2 * s[m] = low(m)}
<1>4. 0 \in M
  <2>1. s[0] = 0 /\ t[0] = 0 /\ v[0] = 0
    BY <1>1, <1>2, <1>3 DEF Prefixes
  <2>2. a % 1 = 0 /\ b % 1 = 0 /\ Power[0] = 1
    BY <1>0, PowerIs
  <2> QED
    BY <2>1, <2>2
<1>5. ASSUME NEW m \in M PROVE m + 1 \in M
  <2> SUFFICES ASSUME m + 1 <= XLEN
               PROVE  t[m + 1] + s[m + 1] = low(m + 1) /\ v[m + 1] + 2 * s[m + 1] = low(m + 1)
    OBVIOUS
  <2>1. m \in 0 .. XLEN - 1 /\ m \in 0 .. XLEN /\ t[m] + s[m] = low(m) /\ v[m] + 2 * s[m] = low(m)
    BY <1>0
  <2> DEFINE p == Power[m]
             c == Bit(a, m)
             d == Bit(b, m)
  <2>2. /\ s[m + 1] = s[m] + (IF c = 1 /\ d = 1 THEN p ELSE 0)
        /\ t[m + 1] = t[m] + (IF c = 1 \/ d = 1 THEN p ELSE 0)
        /\ v[m + 1] = v[m] + (IF c = d THEN 0 ELSE p)
    <3>1. /\ s[m + 1] = s[m] + Bits2(both, a, b)[m]
          /\ t[m + 1] = t[m] + Bits2(either, a, b)[m]
          /\ v[m + 1] = v[m] + Bits2(one, a, b)[m]
      BY <1>1, <1>2, <1>3, <2>1 DEF Prefixes
    <3>2. c \in {0, 1} /\ d \in {0, 1}
      BY <1>0, <2>1, BitAdds
    <3>3. /\ Bits2(both, a, b)[m] = (IF <<c, d>> \in both THEN p ELSE 0)
          /\ Bits2(either, a, b)[m] = (IF <<c, d>> \in either THEN p ELSE 0)
          /\ Bits2(one, a, b)[m] = (IF <<c, d>> \in one THEN p ELSE 0)
      BY <2>1 DEF Bits2
    <3> HIDE DEF p, c, d
    <3>4. /\ <<c, d>> \in both <=> c = 1 /\ d = 1
          /\ <<c, d>> \in either <=> c = 1 \/ d = 1
          /\ <<c, d>> \in one <=> c # d
      BY <3>2
    <3> QED
      BY <3>1, <3>3, <3>4
  <2>3. low(m + 1) = low(m) + (IF c = 1 THEN p ELSE 0) + (IF d = 1 THEN p ELSE 0)
    <3>1. /\ a % Power[m + 1] = (a % Power[m]) + (IF c = 1 THEN p ELSE 0)
          /\ b % Power[m + 1] = (b % Power[m]) + (IF d = 1 THEN p ELSE 0)
          /\ a % Power[m] \in Nat /\ b % Power[m] \in Nat
      BY <1>0, <2>1, BitAdds
    <3>2. p \in Nat
      BY <2>1, PowerIs
    <3> HIDE DEF p, c, d
    <3> QED
      BY <3>1, <3>2
  <2>4. /\ p \in Nat /\ s[m] \in Int /\ t[m] \in Int /\ v[m] \in Int
        /\ c \in {0, 1} /\ d \in {0, 1} /\ low(m) \in Int
    <3>1. p \in Nat /\ c \in {0, 1} /\ d \in {0, 1} /\ a % Power[m] \in Nat /\ b % Power[m] \in Nat
      BY <1>0, <2>1, BitAdds, PowerIs
    <3>2. s[m] \in Int /\ t[m] \in Int /\ v[m] \in Int
      BY <1>1, <1>2, <1>3, <2>1 DEF Prefixes
    <3> QED
      BY <3>1, <3>2
  <2> HIDE DEF p, c, d, low
  <2> QED
    BY <2>1, <2>2, <2>3, <2>4
<1>6. M = Nat
  <2>1. M \in SUBSET Nat
    OBVIOUS
  <2> HIDE DEF M
  <2> QED
    BY <1>4, <1>5, <2>1, NatSet
<1>7. t[XLEN] + s[XLEN] = low(XLEN) /\ v[XLEN] + 2 * s[XLEN] = low(XLEN)
  BY <1>0, <1>6
<1>8. low(XLEN) = a + b
  <2>1. a % Power[XLEN] = a /\ b % Power[XLEN] = b
    BY <1>0, SmallMod DEF Number
  <2> QED
    BY <2>1
<1>9. s[XLEN] \in Int /\ t[XLEN] \in Int /\ v[XLEN] \in Int
  BY <1>0, <1>1, <1>2, <1>3 DEF Prefixes
<1>10. And(a, b) = s[XLEN] /\ Or(a, b) = t[XLEN] /\ Xor(a, b) = v[XLEN]
  BY <1>1, <1>2, <1>3 DEF And, Or, Xor
<1> HIDE DEF low
<1> QED
  BY <1>0, <1>7, <1>8, <1>9, <1>10

-------------------------------------------------------------------------------
(* The architecture counts with the same operators as the ALU. *)
LEMMA SameArithmetic ==
  /\ Machine!Power = Power /\ Machine!Min = Min /\ Machine!ByteBits = ByteBits
  /\ \A n : /\ Machine!Wrap(n) = Wrap(n) /\ Machine!S(n) = S(n) /\ Machine!Word(n) = Word(n)
            /\ Machine!SWord(n) = SWord(n) /\ Machine!Flag(n) = Flag(n)
  /\ \A n, bits : Machine!SignOf(n, bits) = SignOf(n, bits)
  /\ \A a, b : /\ Machine!Quotient(a, b) = Quotient(a, b)
               /\ Machine!Remainder(a, b) = Remainder(a, b)
               /\ Machine!And(a, b) = And(a, b)
  /\ \A g, n : Machine!SumUpTo(g, n) = SumUpTo(g, n)
<1>1. Machine!Power = Power
  BY DEF Machine!Power, Power
<1>2. Machine!Min = Min /\ Machine!ByteBits = ByteBits
  BY <1>1 DEF Machine!Min, Min, Machine!ByteBits, ByteBits
<1>3. \A n, bits : Machine!SignOf(n, bits) = SignOf(n, bits)
  BY <1>1 DEF Machine!SignOf, SignOf
<1>4. \A n : /\ Machine!Wrap(n) = Wrap(n) /\ Machine!S(n) = S(n) /\ Machine!Word(n) = Word(n)
             /\ Machine!SWord(n) = SWord(n) /\ Machine!Flag(n) = Flag(n)
  BY <1>1, <1>3 DEF Machine!Wrap, Wrap, Machine!S, S, Machine!Word, Word, Machine!SWord, SWord,
    Machine!Flag, Flag
<1>5. \A a, b : /\ Machine!Quotient(a, b) = Quotient(a, b)
                /\ Machine!Remainder(a, b) = Remainder(a, b)
  BY DEF Machine!Quotient, Quotient, Machine!Remainder, Remainder, Machine!Abs, Abs
<1>6. \A g, n : Machine!SumUpTo(g, n) = SumUpTo(g, n)
  BY DEF Machine!SumUpTo, SumUpTo
<1>7. \A a, b : Machine!And(a, b) = And(a, b)
  BY <1>1, <1>6 DEF Machine!And, And, Machine!BitByBit, BitByBit, Machine!Bit, Bit
<1> QED
  BY <1>1, <1>2, <1>3, <1>4, <1>5, <1>6, <1>7

-------------------------------------------------------------------------------
(* The ALU gives what the architecture says, but for the departures. *)

(* Division as C has it is total but for zero. *)
LEMMA QuotientIs ==
  ASSUME NEW a \in Int, NEW b \in Int, b # 0
  PROVE  Quotient(a, b) \in Int /\ Remainder(a, b) \in Int
<1>1. Abs(a) \in Int /\ Abs(b) \in Nat \ {0}
  BY DEF Abs
<1> DEFINE c == Abs(a)
           d == Abs(b)
<1>2. c \div d \in Int
  <2>1. c \in Int /\ d \in Nat \ {0}
    BY <1>1
  <2> HIDE DEF c, d
  <2> QED
    BY <2>1, Euclid
<1>3. Quotient(a, b) \in Int
  BY <1>2 DEF Quotient
<1>4. b * Quotient(a, b) \in Int
  BY <1>3
<1> QED
  BY <1>3, <1>4 DEF Remainder

(* Shift amounts stay within the width. *)
LEMMA AmountIs ==
  ASSUME NEW b \in Nat
  PROVE  /\ Power[Amount(b)] \in Nat \ {0} /\ Amount(b) \in 0 .. XLEN
         /\ Power[WordAmount(b)] \in Nat \ {0} /\ WordAmount(b) \in 0 .. XLEN
<1> DEFINE h == XLEN \div 2
<1>1. XLEN \in Nat /\ XLEN > 0 /\ h \in 0 .. XLEN /\ h > 0
  BY WidthAssumption
<1>2. b % XLEN \in 0 .. XLEN
  BY <1>1
<1>3. b % h \in 0 .. XLEN
  <2> HIDE DEF h
  <2> QED
    BY <1>1, Euclid
<1> QED
  BY <1>2, <1>3, PowerIs DEF Amount, WordAmount

(* The upper half of a product, from halves of a factor. *)
LEMMA HighProductIs ==
  ASSUME NEW a \in Number, NEW b \in Number
  PROVE  /\ HighProduct(a, b) = (a * b) \div Power[XLEN]
         /\ HighProduct(a, b) \in Number
<1> DEFINE m == Power[XLEN]
           h == Root
           q == a \div h
           r == a % h
<1>1. h \in Nat \ {0} /\ m = h * h /\ m \in Nat \ {0}
  BY Widths
<1>2. a \in 0 .. m - 1 /\ b \in 0 .. m - 1
  BY DEF Number
<1> HIDE DEF m, h
<1>3. q \in Int /\ r \in 0 .. h - 1 /\ a = h * q + r
  BY <1>1, <1>2, Euclid
<1>4. HighProduct(a, b) = (q * b + (r * b) \div h) \div h
  BY DEF HighProduct, h, Root
<1> HIDE DEF q, r
<1>5. a * b = r * b + h * (q * b) /\ r * b \in Int /\ q * b \in Int
  <2>1. a * b = (h * q + r) * b
    BY <1>3
  <2>2. (h * q + r) * b = r * b + h * (q * b) /\ r * b \in Int /\ q * b \in Int
    BY <1>1, <1>2, <1>3
  <2> QED
    BY <2>1, <2>2
<1>6. (a * b) \div h = q * b + (r * b) \div h
  <2> DEFINE s == r * b
             t == q * b
  <2>1. s \in Int /\ t \in Int /\ a * b = s + h * t
    BY <1>5
  <2> HIDE DEF s, t
  <2>2. (s + h * t) \div h = s \div h + t
    BY <1>1, <2>1, ModMultiple
  <2>3. s \div h \in Int
    BY <1>1, <2>1, Euclid
  <2>4. (s + h * t) \div h = t + s \div h
    BY <2>1, <2>2, <2>3
  <2> QED
    BY <2>1, <2>4 DEF s, t
<1>7. HighProduct(a, b) = (a * b) \div m
  <2> DEFINE n == a * b
  <2>1. n \in Int
    BY <1>2
  <2> HIDE DEF n
  <2>2. (n \div h) \div h = n \div (h * h)
    BY <1>1, <2>1, DivDiv
  <2> QED
    BY <1>1, <1>4, <1>6, <2>2 DEF n
<1>8. (a * b) \div m \in 0 .. m - 1
  <2> DEFINE n == a * b
  <2>1. n \in Nat /\ n < m * m
    BY <1>1, <1>2
  <2> HIDE DEF n
  <2>2. n \div m \in 0 .. m - 1
    BY <1>1, <2>1, DivBelow
  <2> QED
    BY <2>2 DEF n
<1> QED
  BY <1>7, <1>8 DEF m, Number

(* The ALU gives a number of the machine, or traps in one of four operations. *)
LEMMA AluTyped ==
  ASSUME NEW op, NEW a \in Number, NEW b \in Number
  PROVE  /\ execute(op, a, b) \in Number \/ execute(op, a, b) = Crash
         /\ op \notin {"kDivuw", "kRem", "kRemw", "kRemuw"} => execute(op, a, b) \in Number
<1>0. /\ a \in Nat /\ b \in Nat /\ S(a) \in Int /\ S(b) \in Int
      /\ SWord(a) \in Int /\ SWord(b) \in Int
      /\ Word(a) \in 0 .. Root - 1 /\ Word(b) \in 0 .. Root - 1
  BY SignedIs, WordIs
<1>1. /\ \A n \in Int : Wrap(n) \in Number
      /\ \A n \in Int : FromWord(n) \in Number
  BY WrapIs, WordIs
<1>2. 0 \in Number /\ 1 \in Number /\ Power[XLEN - 1] - 1 \in Number
  BY Widths DEF Number, Half
<1>3. \A n \in 0 .. a : n \in Number
  BY <1>0, Widths DEF Number
<1>4. \A n \in 0 .. Root - 1 : n \in Number
  <2>1. Root \in Nat /\ Root <= Root * Root
    BY Widths
  <2> QED
    BY <2>1, Widths DEF Number
<1>5. \A n \in Int : Flag(n) \in Number
  BY <1>2 DEF Flag
<1>6. /\ Power[Amount(b)] \in Nat \ {0} /\ Power[WordAmount(b)] \in Nat \ {0}
  BY <1>0, AmountIs
<1> DEFINE Sure(n) == n \in Number
           Fits(n) == n \in Number \/ n = Crash
<1>7. Sure(Wrap(a + b)) /\ Sure(Wrap(a - b)) /\ Sure(FromWord(a + b)) /\ Sure(FromWord(a - b))
      /\ Sure(Wrap(S(a) * S(b))) /\ Sure(FromWord(SWord(a) * SWord(b)))
  BY <1>0, <1>1
<1>8. Sure(Wrap((S(a) * S(b)) \div Power[XLEN])) /\ Sure(Wrap((S(a) * b) \div Power[XLEN]))
  <2>1. ASSUME NEW n \in Int PROVE n \div Power[XLEN] \in Int
    BY Widths, Euclid
  <2>2. S(a) * S(b) \in Int /\ S(a) * b \in Int
    BY <1>0
  <2> QED
    BY <1>1, <2>1, <2>2
<1>9. Sure(HighProduct(a, b)) /\ Sure(And(a, b)) /\ Sure(Or(a, b)) /\ Sure(Xor(a, b))
  BY HighProductIs, BitByBitIs DEF And, Or, Xor
<1>10. Sure(Div(a, b)) /\ Sure(Divw(a, b))
  BY <1>0, <1>1, <1>2, QuotientIs DEF Div, Divw
<1>11. Sure(IF b = 0 THEN 0 ELSE a \div b) /\ Sure(IF b = 0 THEN 0 ELSE a % b)
  <2>1. ASSUME b # 0 PROVE a \div b \in 0 .. a /\ a % b \in 0 .. b - 1
    <3>1. b \in Nat \ {0} /\ a \in Int
      BY <1>0, <2>1
    <3> QED
      BY <1>0, <3>1, DivLess, Euclid
  <2>2. \A n \in 0 .. b - 1 : n \in Number
    BY <1>0, Widths DEF Number
  <2> QED
    BY <1>2, <1>3, <2>1, <2>2
<1>12. Fits(Divuw(a, b)) /\ Fits(Remuw(a, b))
  <2> DEFINE c == Word(a)
             d == Word(b)
  <2>1. c \in 0 .. Root - 1 /\ d \in 0 .. Root - 1 /\ Root \in Nat
    BY <1>0, Widths
  <2> HIDE DEF c, d
  <2>2. d # 0 => c \div d \in 0 .. Root - 1 /\ c % d \in 0 .. Root - 1
    <3> SUFFICES ASSUME d # 0 PROVE c \div d \in 0 .. Root - 1 /\ c % d \in 0 .. Root - 1
      OBVIOUS
    <3>1. c \in Nat /\ d \in Nat \ {0}
      BY <2>1
    <3>2. c \div d \in 0 .. c /\ c % d \in 0 .. d - 1
      BY <3>1, DivLess, Euclid
    <3> QED
      BY <2>1, <3>2
  <2> QED
    BY <1>2, <1>4, <2>2 DEF Divuw, Remuw, c, d
<1>13. Fits(Rem(a, b)) /\ Fits(Remw(a, b))
  <2>1. b # 0 => S(b) # 0
    BY SignedIs
  <2> QED
    BY <1>0, <1>1, <1>2, <2>1, QuotientIs DEF Rem, Remw
<1>14. /\ Sure(Wrap(a * Power[Amount(b)])) /\ Sure(FromWord(Word(a) * Power[WordAmount(b)]))
  <2>1. a * Power[Amount(b)] \in Int /\ Word(a) * Power[WordAmount(b)] \in Int
    BY <1>0, <1>6
  <2> QED
    BY <1>1, <2>1
<1>15. /\ Sure(a \div Power[Amount(b)]) /\ Sure(FromWord(Word(a) \div Power[WordAmount(b)]))
       /\ Sure(Wrap(S(a) \div Power[Amount(b)])) /\ Sure(Wrap(SWord(a) \div Power[WordAmount(b)]))
  <2>1. a \div Power[Amount(b)] \in 0 .. a
    BY <1>0, <1>6, DivLess
  <2>2. ASSUME NEW n \in Int
        PROVE  n \div Power[Amount(b)] \in Int /\ n \div Power[WordAmount(b)] \in Int
    BY <1>6, Euclid
  <2>3. Word(a) \in Int
    BY <1>0
  <2> QED
    BY <1>0, <1>1, <1>3, <2>1, <2>2, <2>3
<1>16. Sure(Flag(S(a) < S(b))) /\ Sure(Flag(a < b)) /\ Sure(0)
  BY <1>2 DEF Flag
<1> HIDE DEF Sure, Fits
<1>17. op \notin {"kDivuw", "kRem", "kRemw", "kRemuw"} => Sure(execute(op, a, b))
  BY <1>7, <1>8, <1>9, <1>10, <1>11, <1>14, <1>15, <1>16 DEF execute
<1>18. op \in {"kDivuw", "kRem", "kRemw", "kRemuw"} => Fits(execute(op, a, b))
  BY <1>12, <1>13 DEF execute
<1> QED
  BY <1>17, <1>18 DEF Sure, Fits

(* A remainder traps where the architecture lists it. *)
LEMMA RemTraps ==
  ASSUME NEW a \in Number, NEW b \in Number, Rem(a, b) = Crash
  PROVE  S(a) = Min /\ S(b) = -1
<1>1. S(a) \in Int /\ S(b) \in Int /\ (b # 0 => S(b) # 0)
  BY SignedIs
<1>2. b # 0 => Remainder(S(a), S(b)) \in Int
  BY <1>1, QuotientIs
<1>3. \A n \in Int : Wrap(n) # -1
  BY WrapIs, Widths DEF Number
<1> QED
  BY <1>2, <1>3 DEF Rem, Crash

-------------------------------------------------------------------------------
(* The ALU's operation for each instruction whose result is written. *)
SignalOf ==
  [add |-> "kAdd", sub |-> "kSub", sll |-> "kSll", slt |-> "kSlt",
   sltu |-> "kSltu", xor |-> "kXor", srl |-> "kSrl", sra |-> "kSra",
   or |-> "kOr", and |-> "kAnd", mul |-> "kMul", mulh |-> "kMulh",
   mulhsu |-> "kMulhsu", mulhu |-> "kMulhu", div |-> "kDiv", divu |-> "kDivu",
   rem |-> "kRem", remu |-> "kRemu", addi |-> "kAdd", slti |-> "kSlt",
   sltiu |-> "kSltu", xori |-> "kXor", ori |-> "kOr", andi |-> "kAnd",
   slli |-> "kSll", srli |-> "kSrl", srai |-> "kSra"]

(* | and ^ as the architecture has them. *)
LEMMA OrXorAgree ==
  ASSUME NEW a \in Number, NEW b \in Number
  PROVE  /\ Or(a, b) = Wrap(a + b - And(a, b))
         /\ Xor(a, b) = Wrap(a + b - 2 * And(a, b))
<1>1. Or(a, b) \in Number /\ Xor(a, b) \in Number /\ And(a, b) \in Number
  BY BitByBitIs DEF Or, Xor, And
<1>2. Wrap(Or(a, b)) = Or(a, b) /\ Wrap(Xor(a, b)) = Xor(a, b)
  BY <1>1, WrapIs DEF Number
<1> QED
  BY <1>2, OrXorIs

(* The sign of a number is worth as many as there are numbers. *)
LEMMA SignWorth ==
  ASSUME NEW a \in Number
  PROVE  /\ Flag(S(a) < 0) \in {0, 1}
         /\ S(a) = a - Power[XLEN] * Flag(S(a) < 0)
<1>1. /\ a \in Nat /\ a < Power[XLEN] /\ Power[XLEN] \in Nat /\ Half \in Nat
      /\ S(a) = (IF a < Half THEN a ELSE a - Power[XLEN])
  BY SignedIs, Widths DEF Number
<1> QED
  BY <1>1 DEF Flag

(* Signed and unsigned upper halves of a product, from the signed one. *)
LEMMA MulAgree ==
  ASSUME NEW a \in Number, NEW b \in Number
  PROVE  LET high == (S(a) * S(b)) \div Power[XLEN]
             ga   == Flag(S(a) < 0)
             gb   == Flag(S(b) < 0)
         IN  /\ Wrap((S(a) * b) \div Power[XLEN]) = Wrap(high + gb * a)
             /\ HighProduct(a, b) = Wrap(high + ga * b + gb * a)
<1> DEFINE m  == Power[XLEN]
           u  == S(a)
           v  == S(b)
           ga == Flag(S(a) < 0)
           gb == Flag(S(b) < 0)
           high == (u * v) \div m
<1>1. /\ m \in Nat \ {0} /\ a \in Nat /\ b \in Nat /\ u \in Int /\ v \in Int
      /\ ga \in {0, 1} /\ gb \in {0, 1} /\ u = a - m * ga /\ v = b - m * gb
  BY SignWorth, SignedIs, Widths
<1>2. \A n, k \in Int : Wrap(n + m * k) = Wrap(n)
  BY WrapIs
<1>3. HighProduct(a, b) = (a * b) \div m /\ HighProduct(a, b) \in Number
  BY HighProductIs
<1>4. \A n \in Number : Wrap(n) = n
  BY WrapIs DEF Number
<1> HIDE DEF m, u, v, ga, gb
<1>5. u * v \in Int /\ high \in Int
  <2> DEFINE n == u * v
  <2>1. n \in Int
    BY <1>1
  <2> HIDE DEF n
  <2>2. n \div m \in Int
    BY <1>1, <2>1, Euclid
  <2> QED
    BY <2>1, <2>2 DEF n
<1>6. Wrap((u * b) \div m) = Wrap(high + gb * a)
  <2>1. u * b = u * v + m * (gb * u) /\ gb * u \in Int
    BY <1>1
  <2>2. (u * b) \div m = high + gb * u
    <3> DEFINE n == u * v
               k == gb * u
    <3>1. n \in Int /\ k \in Int /\ u * b = n + m * k
      BY <1>5, <2>1
    <3> HIDE DEF n, k
    <3>2. (n + m * k) \div m = n \div m + k
      BY <1>1, <3>1, ModMultiple
    <3> QED
      BY <3>1, <3>2 DEF n, k
  <2>3. gb * a = gb * u + m * (gb * ga)
    BY <1>1
  <2>4. high + gb * a = (high + gb * u) + m * (gb * ga) /\ high + gb * u \in Int /\ gb * ga \in Int
    <3>1. gb * u \in Int /\ gb * ga \in Int /\ m * (gb * ga) \in Int
      BY <1>1
    <3> HIDE DEF high
    <3> QED
      BY <1>5, <2>3, <3>1
  <2> HIDE DEF high
  <2>5. Wrap((high + gb * u) + m * (gb * ga)) = Wrap(high + gb * u)
    BY <1>2, <2>4
  <2> QED
    BY <2>2, <2>4, <2>5
<1>7. HighProduct(a, b) = Wrap(high + ga * b + gb * a)
  <2>1. a * b = u * v + m * (ga * b + gb * a - m * (ga * gb))
    <3>1. a = u + m * ga /\ b = v + m * gb
      BY <1>1
    <3>2. u * v = a * b - m * (ga * b) - m * (gb * a) + m * (m * (ga * gb))
      <4>1. (a - m * ga) * (b - m * gb) = a * b - m * (ga * b) - m * (gb * a) + m * (m * (ga * gb))
        BY <1>1
      <4> QED
        BY <1>1, <4>1
    <3>3. m * (ga * b + gb * a - m * (ga * gb)) = m * (ga * b) + m * (gb * a) - m * (m * (ga * gb))
      BY <1>1
    <3>4. /\ m * (ga * b) \in Int /\ m * (gb * a) \in Int /\ m * (m * (ga * gb)) \in Int
          /\ a * b \in Int
      BY <1>1
    <3> QED
      BY <1>5, <3>2, <3>3, <3>4
  <2> DEFINE n == u * v
             k == ga * b + gb * a - m * (ga * gb)
  <2>2. k \in Int
    BY <1>1
  <2>3. (a * b) \div m = high + k
    <3>1. n \in Int /\ a * b = n + m * k
      BY <1>5, <2>1
    <3> HIDE DEF n, k
    <3>2. (n + m * k) \div m = n \div m + k
      BY <1>1, <2>2, <3>1, ModMultiple
    <3> QED
      BY <3>1, <3>2 DEF n
  <2>4. high + ga * b + gb * a = (high + k) + m * (ga * gb) /\ ga * gb \in Int /\ high + k \in Int
    <3>1. ga * b \in Int /\ gb * a \in Int /\ ga * gb \in Int /\ m * (ga * gb) \in Int
      BY <1>1
    <3> HIDE DEF high
    <3> QED
      BY <1>5, <3>1
  <2> HIDE DEF high, k
  <2>5. Wrap((high + k) + m * (ga * gb)) = Wrap(high + k)
    BY <1>2, <2>4
  <2>6. Wrap(HighProduct(a, b)) = HighProduct(a, b)
    BY <1>3, <1>4
  <2> QED
    BY <1>3, <2>3, <2>4, <2>5, <2>6
<1> QED
  BY <1>6, <1>7 DEF m, u, v, ga, gb

(* What the architecture makes of operands on which it does not trap, the   *)
(* ALU makes of them, and it traps where the architecture lists it.         *)
THEOREM AluAgrees ==
  ASSUME NEW op \in Machine!RegisterOps \cup Machine!ImmediateOps,
         NEW a \in Number, NEW b \in Number
  PROVE  IF Machine!Traps(op, a, b) THEN execute(SignalOf[op], a, b) = Crash
         ELSE execute(SignalOf[op], a, b) = Machine!Simulated(op, a, b)
<1> DEFINE Agree == IF Machine!Traps(op, a, b) THEN execute(SignalOf[op], a, b) = Crash
                    ELSE execute(SignalOf[op], a, b) = Machine!Simulated(op, a, b)
<1>1. /\ Or(a, b) = Wrap(a + b - And(a, b)) /\ Xor(a, b) = Wrap(a + b - 2 * And(a, b))
  BY OrXorAgree
<1>2. LET high == (S(a) * S(b)) \div Power[XLEN]
      IN  /\ Wrap((S(a) * b) \div Power[XLEN]) = Wrap(high + Flag(S(b) < 0) * a)
          /\ HighProduct(a, b) = Wrap(high + Flag(S(a) < 0) * b + Flag(S(b) < 0) * a)
  BY MulAgree
<1>3. S(b) = 0 <=> b = 0
  BY SignedIs
<1>4. CASE op \in {"add", "addi"}
  <2>1. SignalOf[op] = "kAdd"
    BY <1>4 DEF SignalOf
  <2> QED
    BY <1>4, <2>1, SameArithmetic
    DEF execute, Machine!Simulated, Machine!Isa, Machine!Traps
<1>5. CASE op = "sub"
  <2>1. SignalOf[op] = "kSub"
    BY <1>5 DEF SignalOf
  <2> QED
    BY <1>5, <2>1, SameArithmetic
    DEF execute, Machine!Simulated, Machine!Isa, Machine!Traps
<1>6. CASE op \in {"and", "andi"}
  <2>1. SignalOf[op] = "kAnd"
    BY <1>6 DEF SignalOf
  <2> QED
    BY <1>6, <2>1, SameArithmetic
    DEF execute, Machine!Simulated, Machine!Isa, Machine!Traps
<1>7. CASE op \in {"or", "ori"}
  <2>1. SignalOf[op] = "kOr"
    BY <1>7 DEF SignalOf
  <2> QED
    BY <1>7, <2>1, <1>1, SameArithmetic
    DEF execute, Machine!Simulated, Machine!Isa, Machine!Traps
<1>8. CASE op \in {"xor", "xori"}
  <2>1. SignalOf[op] = "kXor"
    BY <1>8 DEF SignalOf
  <2> QED
    BY <1>8, <2>1, <1>1, SameArithmetic
    DEF execute, Machine!Simulated, Machine!Isa, Machine!Traps
<1>9. CASE op \in {"sll", "slli"}
  <2>1. SignalOf[op] = "kSll"
    BY <1>9 DEF SignalOf
  <2> QED
    BY <1>9, <2>1, SameArithmetic
    DEF execute, Machine!Simulated, Machine!Isa, Machine!Traps, Amount
<1>10. CASE op \in {"srl", "srli"}
  <2>1. SignalOf[op] = "kSrl"
    BY <1>10 DEF SignalOf
  <2> QED
    BY <1>10, <2>1, SameArithmetic
    DEF execute, Machine!Simulated, Machine!Isa, Machine!Traps, Amount
<1>11. CASE op \in {"sra", "srai"}
  <2>1. SignalOf[op] = "kSra"
    BY <1>11 DEF SignalOf
  <2> QED
    BY <1>11, <2>1, SameArithmetic
    DEF execute, Machine!Simulated, Machine!Isa, Machine!Traps, Amount
<1>12. CASE op \in {"slt", "slti"}
  <2>1. SignalOf[op] = "kSlt"
    BY <1>12 DEF SignalOf
  <2> QED
    BY <1>12, <2>1, SameArithmetic
    DEF execute, Machine!Simulated, Machine!Isa, Machine!Traps
<1>13. CASE op \in {"sltu", "sltiu"}
  <2>1. SignalOf[op] = "kSltu"
    BY <1>13 DEF SignalOf
  <2> QED
    BY <1>13, <2>1, SameArithmetic
    DEF execute, Machine!Simulated, Machine!Isa, Machine!Traps
<1>14. CASE op = "mul"
  <2>1. SignalOf[op] = "kMul"
    BY <1>14 DEF SignalOf
  <2> QED
    BY <1>14, <2>1, SameArithmetic
    DEF execute, Machine!Simulated, Machine!Isa, Machine!Traps
<1>15. CASE op = "mulh"
  <2>1. SignalOf[op] = "kMulh"
    BY <1>15 DEF SignalOf
  <2> QED
    BY <1>15, <2>1, SameArithmetic
    DEF execute, Machine!Simulated, Machine!Isa, Machine!Traps
<1>16. CASE op = "mulhsu"
  <2>1. SignalOf[op] = "kMulhsu"
    BY <1>16 DEF SignalOf
  <2> QED
    BY <1>16, <2>1, <1>2, SameArithmetic
    DEF execute, Machine!Simulated, Machine!Isa, Machine!Traps
<1>17. CASE op = "mulhu"
  <2>1. SignalOf[op] = "kMulhu"
    BY <1>17 DEF SignalOf
  <2> QED
    BY <1>17, <2>1, <1>2, SameArithmetic
    DEF execute, Machine!Simulated, Machine!Isa, Machine!Traps
<1>18. CASE op = "div"
  <2>1. SignalOf[op] = "kDiv"
    BY <1>18 DEF SignalOf
  <2> QED
    BY <1>18, <2>1, <1>3, SameArithmetic
    DEF execute, Machine!Simulated, Machine!Isa, Machine!Traps, Div
<1>19. CASE op = "divu"
  <2>1. SignalOf[op] = "kDivu"
    BY <1>19 DEF SignalOf
  <2> QED
    BY <1>19, <2>1, SameArithmetic
    DEF execute, Machine!Simulated, Machine!Isa, Machine!Traps
<1>20. CASE op = "rem"
  <2>1. SignalOf[op] = "kRem"
    BY <1>20 DEF SignalOf
  <2> QED
    BY <1>20, <2>1, <1>3, SameArithmetic
    DEF execute, Machine!Simulated, Machine!Isa, Machine!Traps, Rem
<1>21. CASE op = "remu"
  <2>1. SignalOf[op] = "kRemu"
    BY <1>21 DEF SignalOf
  <2> QED
    BY <1>21, <2>1, SameArithmetic
    DEF execute, Machine!Simulated, Machine!Isa, Machine!Traps
<1> QED
  BY <1>4, <1>5, <1>6, <1>7, <1>8, <1>9, <1>10, <1>11, <1>12, <1>13,
    <1>14, <1>15, <1>16, <1>17, <1>18, <1>19, <1>20, <1>21
  DEF Machine!RegisterOps, Machine!ImmediateOps

-------------------------------------------------------------------------------
(* Machine code: what the stages read in the word of an instruction. *)

(* The formats of the instructions have no name in common. *)
Apart(r, i, k, s, b, v, j) ==
  /\ r \cap i = {} /\ r \cap k = {} /\ r \cap s = {} /\ r \cap b = {}
  /\ r \cap v = {} /\ r \cap j = {}
  /\ i \cap k = {} /\ i \cap s = {} /\ i \cap b = {} /\ i \cap v = {} /\ i \cap j = {}
  /\ k \cap s = {} /\ k \cap b = {} /\ k \cap v = {} /\ k \cap j = {}
  /\ s \cap b = {} /\ s \cap v = {} /\ s \cap j = {}
  /\ b \cap v = {} /\ b \cap j = {} /\ v \cap j = {}

LEMMA Mnemonics ==
  Apart(DOMAIN RType, DOMAIN I1Type, DOMAIN I2Type, DOMAIN SType, DOMAIN BType, DOMAIN UType,
        DOMAIN JType)
<1> DEFINE r == DOMAIN RType
           i == DOMAIN I1Type
           k == DOMAIN I2Type
           s == DOMAIN SType
           b == DOMAIN BType
           v == DOMAIN UType
           j == DOMAIN JType
<1>1. /\ r \cap i = {} /\ r \cap k = {} /\ r \cap s = {} /\ r \cap b = {}
      /\ r \cap v = {} /\ r \cap j = {}
  BY DEF RType, I1Type, I2Type, SType, BType, UType, JType
<1>2. /\ i \cap k = {} /\ i \cap s = {} /\ i \cap b = {} /\ i \cap v = {} /\ i \cap j = {}
  BY DEF I1Type, I2Type, SType, BType, UType, JType
<1>3. /\ k \cap s = {} /\ k \cap b = {} /\ k \cap v = {} /\ k \cap j = {}
      /\ s \cap b = {} /\ s \cap v = {} /\ s \cap j = {}
      /\ b \cap v = {} /\ b \cap j = {} /\ v \cap j = {}
  BY DEF I2Type, SType, BType, UType, JType
<1> HIDE DEF r, i, k, s, b, v, j
<1>4. Apart(r, i, k, s, b, v, j)
  BY <1>1, <1>2, <1>3 DEF Apart
<1> QED
  BY <1>4 DEF r, i, k, s, b, v, j

(* Each format has its encoder. *)
LEMMA Formats ==
  ASSUME NEW u
  PROVE  /\ u.op \in DOMAIN RType =>
              generateMachineCode(u) = EncodeR(RType[u.op], u.rd, u.rs1, u.rs2)
         /\ u.op \in DOMAIN I1Type =>
              generateMachineCode(u) = EncodeI1(I1Type[u.op], u.rd, u.rs1, u.imm)
         /\ u.op \in DOMAIN I2Type =>
              generateMachineCode(u) = EncodeI2(I2Type[u.op], u.rd, u.rs1, u.imm)
         /\ u.op \in DOMAIN SType =>
              generateMachineCode(u) = EncodeS(SType[u.op], u.rs1, u.rs2, u.imm)
         /\ u.op \in DOMAIN BType =>
              generateMachineCode(u) = EncodeB(BType[u.op], u.rs1, u.rs2, u.imm)
         /\ u.op \in DOMAIN UType => generateMachineCode(u) = EncodeU(UType[u.op], u.rd, u.imm)
         /\ u.op \in DOMAIN JType => generateMachineCode(u) = EncodeJ(JType[u.op], u.rd, u.imm)
<1> DEFINE r == DOMAIN RType
           i == DOMAIN I1Type
           k == DOMAIN I2Type
           s == DOMAIN SType
           b == DOMAIN BType
           v == DOMAIN UType
           j == DOMAIN JType
<1>1. Apart(r, i, k, s, b, v, j)
  BY Mnemonics
<1> QED
  BY <1>1 DEF Apart, generateMachineCode

(* What the parser accepts for each format. *)
LEMMA AcceptedIs ==
  ASSUME NEW u, Accepted(u)
  PROVE  /\ u.op \in DOMAIN RType => {u.rd, u.rs1, u.rs2} \subseteq Registers
         /\ u.op \in DOMAIN I1Type =>
              {u.rd, u.rs1} \subseteq Registers /\ u.imm \in Signed12
         /\ u.op \in DOMAIN I2Type => {u.rd, u.rs1} \subseteq Registers /\ u.imm \in 0 .. 31
         /\ u.op \in DOMAIN SType =>
              {u.rs1, u.rs2} \subseteq Registers /\ u.imm \in Signed12
         /\ u.op \in DOMAIN BType =>
              {u.rs1, u.rs2} \subseteq Registers /\ u.imm \in Signed13 /\ u.imm % 4 = 0
         /\ u.op \in DOMAIN UType => u.rd \in Registers /\ u.imm \in Int
         /\ u.op \in DOMAIN JType =>
              u.rd \in Registers /\ u.imm \in Signed21 /\ u.imm % 2 = 0
<1> DEFINE r == DOMAIN RType
           i == DOMAIN I1Type
           k == DOMAIN I2Type
           s == DOMAIN SType
           b == DOMAIN BType
           v == DOMAIN UType
           j == DOMAIN JType
<1>1. Apart(r, i, k, s, b, v, j)
  BY Mnemonics
<1>2. \/ u.op \in r /\ {u.rd, u.rs1, u.rs2} \subseteq Registers
      \/ u.op \in i /\ {u.rd, u.rs1} \subseteq Registers /\ u.imm \in Signed12
      \/ u.op \in k /\ {u.rd, u.rs1} \subseteq Registers /\ u.imm \in 0 .. 31
      \/ u.op \in s /\ {u.rs1, u.rs2} \subseteq Registers /\ u.imm \in Signed12
      \/ /\ u.op \in b /\ {u.rs1, u.rs2} \subseteq Registers
         /\ u.imm \in Signed13 /\ u.imm % 4 = 0
      \/ u.op \in v /\ u.rd \in Registers /\ u.imm \in Int
      \/ u.op \in j /\ u.rd \in Registers /\ u.imm \in Signed21 /\ u.imm % 2 = 0
  BY Zenon DEF Accepted
<1> HIDE DEF r, i, k, s, b, v, j
<1>3. /\ u.op \in r => {u.rd, u.rs1, u.rs2} \subseteq Registers
      /\ u.op \in i => {u.rd, u.rs1} \subseteq Registers /\ u.imm \in Signed12
      /\ u.op \in k => {u.rd, u.rs1} \subseteq Registers /\ u.imm \in 0 .. 31
      /\ u.op \in s => {u.rs1, u.rs2} \subseteq Registers /\ u.imm \in Signed12
      /\ u.op \in b =>
           {u.rs1, u.rs2} \subseteq Registers /\ u.imm \in Signed13 /\ u.imm % 4 = 0
      /\ u.op \in v => u.rd \in Registers /\ u.imm \in Int
      /\ u.op \in j => u.rd \in Registers /\ u.imm \in Signed21 /\ u.imm % 2 = 0
  BY <1>1, <1>2 DEF Apart
<1> QED
  BY <1>3 DEF r, i, k, s, b, v, j

(* The R format. *)
LEMMA RWords ==
  ASSUME NEW u, u.op \in Machine!RegisterOps, w = generateMachineCode(u)
  PROVE  /\ u.op \in DOMAIN RType
         /\ w.op = 51 /\ w.rd = u.rd /\ w.rs1 = u.rs1 /\ w.rs2 = u.rs2
         /\ GetAluSignal = SignalOf[u.op]
<1>1. u.op \in DOMAIN RType
  BY DEF Machine!RegisterOps, RType
<1>2. w = EncodeR(RType[u.op], u.rd, u.rs1, u.rs2)
  BY <1>1, Formats
<1>3. /\ w.rd = u.rd /\ w.rs1 = u.rs1 /\ w.rs2 = u.rs2
      /\ w.op = RType[u.op].op /\ w.f3 = RType[u.op].f3 /\ w.f7 = RType[u.op].f7
  BY <1>2 DEF EncodeR, Fields
<1>4. w.op = 51 /\ GetAluSignal = SignalOf[u.op]
  BY <1>3, SMTT(30)
  DEF RType, Code, Machine!RegisterOps, GetAluSignal, RSignal, Funct7, SignalOf
<1> QED
  BY <1>1, <1>3, <1>4

(* The I format: an immediate of twelve bits. *)
LEMMA I1Words ==
  ASSUME NEW u, u.op \in DOMAIN I1Type, Accepted(u), w = generateMachineCode(u)
  PROVE  /\ w.rd = u.rd /\ w.rs1 = u.rs1 /\ ImmI(w) = u.imm
         /\ w.op = I1Type[u.op].op /\ w.f3 = I1Type[u.op].f3
         /\ {u.rd, u.rs1} \subseteq Registers /\ u.imm \in Signed12
<1>1. {u.rd, u.rs1} \subseteq Registers /\ u.imm \in Signed12
  BY AcceptedIs
<1>2. w = EncodeI1(I1Type[u.op], u.rd, u.rs1, u.imm)
  BY Formats
<1>3. ImmI(w) = u.imm
  BY <1>1, <1>2, ImmIExact
<1> QED
  BY <1>1, <1>2, <1>3 DEF EncodeI1, Fields

(* A shift has its amount in the place of rs2, and srai a bit above it. *)
LEMMA I2Words ==
  ASSUME NEW u, u.op \in DOMAIN I2Type, Accepted(u), w = generateMachineCode(u)
  PROVE  /\ w.rd = u.rd /\ w.rs1 = u.rs1 /\ w.rs2 = u.imm
         /\ w.op = I2Type[u.op].op /\ w.f3 = I2Type[u.op].f3 /\ w.f7 = I2Type[u.op].f7
         /\ {u.rd, u.rs1} \subseteq Registers /\ u.imm \in 0 .. 31
<1>1. {u.rd, u.rs1} \subseteq Registers /\ u.imm \in 0 .. 31
  BY AcceptedIs
<1>2. w = EncodeI2(I2Type[u.op], u.rd, u.rs1, u.imm)
  BY Formats
<1>3. u.imm \div 32 = 0 /\ Bits(u.imm, 1, 32) = u.imm
  BY <1>1 DEF Bits
<1>4. I2Type[u.op].f7 \in {0, 32}
  BY DEF I2Type, Code
<1> QED
  BY <1>1, <1>2, <1>3, <1>4 DEF EncodeI2, Fields

(* An immediate operation is a signal to the ALU and its second operand. *)
LEMMA IWords ==
  ASSUME NEW u, u.op \in Machine!ImmediateOps, Accepted(u), w = generateMachineCode(u)
  PROVE  /\ w.op = 19 /\ w.rd = u.rd /\ w.rs1 = u.rs1
         /\ {u.rd, u.rs1} \subseteq Registers /\ u.imm \in Signed12
         /\ GetAluSignal = SignalOf[u.op]
         /\ ImmGenerator(w) = (IF u.op = "srai" THEN 1024 + u.imm ELSE u.imm)
         /\ u.op = "srai" => u.imm \in 0 .. 31
<1>1. u.op \in Machine!ImmediateOps \ {"slli", "srli", "srai"} \/ u.op \in {"slli", "srli", "srai"}
  OBVIOUS
<1>2. CASE u.op \in Machine!ImmediateOps \ {"slli", "srli", "srai"}
  <2>1. u.op \in DOMAIN I1Type /\ u.op # "srai"
    BY <1>2 DEF I1Type, Machine!ImmediateOps
  <2>2. /\ w.rd = u.rd /\ w.rs1 = u.rs1 /\ ImmI(w) = u.imm
        /\ w.op = I1Type[u.op].op /\ w.f3 = I1Type[u.op].f3
        /\ {u.rd, u.rs1} \subseteq Registers /\ u.imm \in Signed12
    BY <2>1, I1Words
  <2>3. w.op = 19 /\ GetAluSignal = SignalOf[u.op]
    BY <1>2, <2>2, SMTT(30)
    DEF I1Type, Code, Machine!ImmediateOps, GetAluSignal, ISignal, Funct7, SignalOf
  <2>4. ImmGenerator(w) = u.imm
    BY <2>2, <2>3 DEF ImmGenerator
  <2> QED
    BY <2>1, <2>2, <2>3, <2>4
<1>3. CASE u.op \in {"slli", "srli", "srai"}
  <2>1. u.op \in DOMAIN I2Type
    BY <1>3 DEF I2Type
  <2>2. /\ w.rd = u.rd /\ w.rs1 = u.rs1 /\ w.rs2 = u.imm
        /\ w.op = I2Type[u.op].op /\ w.f3 = I2Type[u.op].f3 /\ w.f7 = I2Type[u.op].f7
        /\ {u.rd, u.rs1} \subseteq Registers /\ u.imm \in 0 .. 31
    BY <2>1, I2Words
  <2>3. /\ w.op = 19 /\ GetAluSignal = SignalOf[u.op]
        /\ w.f7 = (IF u.op = "srai" THEN 32 ELSE 0)
    BY <1>3, <2>2, SMTT(30) DEF I2Type, Code, GetAluSignal, ISignal, Funct7, SignalOf
  <2>4. ImmGenerator(w) = (IF u.op = "srai" THEN 1024 + u.imm ELSE u.imm)
    BY <2>2, <2>3 DEF ImmGenerator, ImmI, sign_extend
  <2> QED
    BY <2>2, <2>3, <2>4 DEF Signed12, Between
<1> QED
  BY <1>1, <1>2, <1>3

(* A load: its width and what it does with the sign are in f3. *)
LEMMA LoadWords ==
  ASSUME NEW u, u.op \in DOMAIN Machine!LoadBytes, Accepted(u), w = generateMachineCode(u)
  PROVE  /\ w.op = 3 /\ w.rd = u.rd /\ w.rs1 = u.rs1
         /\ {u.rd, u.rs1} \subseteq Registers /\ u.imm \in Signed12
         /\ GetAluSignal = "kAdd" /\ ImmGenerator(w) = u.imm
         /\ Width = Machine!LoadBytes[u.op] /\ Width \in {1, 2, 4, 8}
         /\ w.f3 \in {4, 5, 6} <=> u.op \in Machine!Unsigned
<1>1. u.op \in DOMAIN I1Type
  BY DEF I1Type, Machine!LoadBytes
<1>2. /\ w.rd = u.rd /\ w.rs1 = u.rs1 /\ ImmI(w) = u.imm
      /\ w.op = I1Type[u.op].op /\ w.f3 = I1Type[u.op].f3
      /\ {u.rd, u.rs1} \subseteq Registers /\ u.imm \in Signed12
  BY <1>1, I1Words
<1>3. /\ w.op = 3 /\ Width = Machine!LoadBytes[u.op] /\ Width \in {1, 2, 4, 8}
      /\ w.f3 \in {4, 5, 6} <=> u.op \in Machine!Unsigned
  BY <1>2, SMTT(30) DEF I1Type, Code, Machine!LoadBytes, Width, Machine!Unsigned
<1> QED
  BY <1>2, <1>3 DEF GetAluSignal, ImmGenerator

LEMMA JalrWords ==
  ASSUME NEW u, u.op = "jalr", Accepted(u), w = generateMachineCode(u)
  PROVE  /\ w.op = 103 /\ w.rd = u.rd /\ w.rs1 = u.rs1
         /\ {u.rd, u.rs1} \subseteq Registers /\ u.imm \in Signed12
         /\ GetAluSignal = "kAdd" /\ ImmGenerator(w) = u.imm
<1>1. u.op \in DOMAIN I1Type /\ I1Type[u.op].op = 103
  BY DEF I1Type, Code
<1>2. /\ w.rd = u.rd /\ w.rs1 = u.rs1 /\ ImmI(w) = u.imm
      /\ w.op = I1Type[u.op].op
      /\ {u.rd, u.rs1} \subseteq Registers /\ u.imm \in Signed12
  BY <1>1, I1Words
<1> QED
  BY <1>1, <1>2 DEF GetAluSignal, ImmGenerator

(* The immediate operations on words, whose results are not written. *)
LEMMA WordImmWords ==
  ASSUME NEW u, u.op \in Machine!WordImmOps, Accepted(u), w = generateMachineCode(u)
  PROVE  /\ w.op = 27 /\ w.rd = u.rd /\ w.rs1 = u.rs1 /\ {u.rd, u.rs1} \subseteq Registers
         /\ GetAluSignal \in {"kAddw", "kSllw", "kSrlw", "kSraw"}
<1>1. CASE u.op = "addiw"
  <2>1. u.op \in DOMAIN I1Type /\ I1Type[u.op].op = 27 /\ I1Type[u.op].f3 = 0
    BY <1>1 DEF I1Type, Code
  <2>2. /\ w.rd = u.rd /\ w.rs1 = u.rs1 /\ w.op = 27 /\ w.f3 = 0
        /\ {u.rd, u.rs1} \subseteq Registers
    BY <2>1, I1Words
  <2> QED
    BY <2>2 DEF GetAluSignal, WordISignal
<1>2. CASE u.op \in {"slliw", "srliw", "sraiw"}
  <2>1. u.op \in DOMAIN I2Type
    BY <1>2 DEF I2Type
  <2>2. /\ w.rd = u.rd /\ w.rs1 = u.rs1 /\ {u.rd, u.rs1} \subseteq Registers
        /\ w.op = I2Type[u.op].op /\ w.f3 = I2Type[u.op].f3 /\ w.f7 = I2Type[u.op].f7
    BY <2>1, I2Words
  <2>3. w.op = 27 /\ GetAluSignal \in {"kAddw", "kSllw", "kSrlw", "kSraw"}
    BY <1>2, <2>2, SMTT(30) DEF I2Type, Code, GetAluSignal, WordISignal, Funct7
  <2> QED
    BY <2>2, <2>3
<1> QED
  BY <1>1, <1>2 DEF Machine!WordImmOps

LEMMA StoreWords ==
  ASSUME NEW u, u.op \in DOMAIN Machine!StoreBytes, Accepted(u), w = generateMachineCode(u)
  PROVE  /\ w.op = 35 /\ w.rs1 = u.rs1 /\ w.rs2 = u.rs2
         /\ {u.rs1, u.rs2} \subseteq Registers /\ u.imm \in Signed12
         /\ GetAluSignal = "kAdd" /\ ImmGenerator(w) = u.imm
         /\ Width = Machine!StoreBytes[u.op] /\ Width \in {1, 2, 4, 8}
<1>1. u.op \in DOMAIN SType
  BY DEF SType, Machine!StoreBytes
<1>2. {u.rs1, u.rs2} \subseteq Registers /\ u.imm \in Signed12
  BY <1>1, AcceptedIs
<1>3. w = EncodeS(SType[u.op], u.rs1, u.rs2, u.imm)
  BY <1>1, Formats
<1>4. ImmS(w) = u.imm
  BY <1>2, <1>3, ImmSExact
<1>5. /\ w.rs1 = u.rs1 /\ w.rs2 = u.rs2 /\ w.op = SType[u.op].op /\ w.f3 = SType[u.op].f3
  BY <1>3 DEF EncodeS, Fields
<1>6. w.op = 35 /\ Width = Machine!StoreBytes[u.op] /\ Width \in {1, 2, 4, 8}
  BY <1>5, SMTT(30) DEF SType, Code, Machine!StoreBytes, Width
<1> QED
  BY <1>2, <1>4, <1>5, <1>6 DEF GetAluSignal, ImmGenerator

BranchOps == {"beq", "bne", "blt", "bge", "bltu", "bgeu"}

(* A branch: the flag the code makes of the ALU's result is the condition.  *)
LEMMA BranchWords ==
  ASSUME NEW u, u.op \in BranchOps, Accepted(u), w = generateMachineCode(u)
  PROVE  /\ w.op = 99 /\ w.rs1 = u.rs1 /\ w.rs2 = u.rs2
         /\ {u.rs1, u.rs2} \subseteq Registers /\ u.imm \in Signed13
         /\ ImmGenerator(w) = u.imm
         /\ \A a, b \in Number :
              /\ execute(GetAluSignal, a, b) # Crash
              /\ BranchFlag(execute(GetAluSignal, a, b)) = Machine!Taken(u.op, a, b)
<1>1. u.op \in DOMAIN BType
  BY DEF BType, BranchOps
<1>2. {u.rs1, u.rs2} \subseteq Registers /\ u.imm \in Signed13 /\ u.imm % 4 = 0
  BY <1>1, AcceptedIs
<1>3. w = EncodeB(BType[u.op], u.rs1, u.rs2, u.imm)
  BY <1>1, Formats
<1>4. ImmB(w) = u.imm
  <2>1. u.imm % 2 = 0
    BY <1>2, SMT DEF Signed13, Between
  <2> QED
    BY <1>2, <1>3, <2>1, ImmBExact
<1>5. /\ w.rs1 = u.rs1 /\ w.rs2 = u.rs2 /\ w.op = BType[u.op].op /\ w.f3 = BType[u.op].f3
  BY <1>3 DEF EncodeB, Fields
<1>6. /\ w.op = 99
      /\ u.op = "beq" => w.f3 = 0 /\ GetAluSignal = "kSub"
      /\ u.op = "bne" => w.f3 = 1 /\ GetAluSignal = "kSub"
      /\ u.op = "blt" => w.f3 = 4 /\ GetAluSignal = "kSlt"
      /\ u.op = "bge" => w.f3 = 5 /\ GetAluSignal = "kSlt"
      /\ u.op = "bltu" => w.f3 = 6 /\ GetAluSignal = "kSltu"
      /\ u.op = "bgeu" => w.f3 = 7 /\ GetAluSignal = "kSltu"
  BY <1>5, SMTT(30) DEF BType, Code, BranchOps, GetAluSignal, BSignal
<1>7. ASSUME NEW a \in Number, NEW b \in Number
      PROVE  /\ execute(GetAluSignal, a, b) # Crash
             /\ BranchFlag(execute(GetAluSignal, a, b)) = Machine!Taken(u.op, a, b)
  <2>1. /\ execute("kSub", a, b) = Wrap(a - b)
        /\ execute("kSlt", a, b) = Flag(S(a) < S(b))
        /\ execute("kSltu", a, b) = Flag(a < b)
    BY DEF execute
  <2>2. a \in Nat /\ b \in Nat /\ S(a) \in Int /\ S(b) \in Int
    BY SignedIs, Widths
  <2>3. Wrap(a - b) \in Nat /\ (Wrap(a - b) = 0 <=> a = b)
    <3> DEFINE m == Power[XLEN]
    <3>1. m \in Nat \ {0} /\ a < m /\ b < m
      BY <2>2, Widths DEF Number
    <3>2. Wrap(a - b) = (IF a >= b THEN a - b ELSE (a - b) + m)
      <4>1. a - b \in Int
        BY <2>2
      <4>2. CASE a >= b
        <5>1. a - b \in Number
          BY <2>2, <3>1, <4>2 DEF Number
        <5> QED
          BY <4>1, <4>2, <5>1, WrapIs
      <4>3. CASE a < b
        <5>1. (a - b) + m \in Number /\ (a - b) + m \in Int
          BY <2>2, <3>1, <4>3 DEF Number
        <5>2. Wrap((a - b) + m * 1) = Wrap(a - b)
          BY <4>1, WrapIs
        <5>3. Wrap((a - b) + m) = (a - b) + m
          BY <5>1, WrapIs
        <5>4. m * 1 = m
          BY <3>1
        <5> QED
          BY <2>2, <4>3, <5>2, <5>3, <5>4
      <4> QED
        BY <2>2, <4>2, <4>3
    <3> HIDE DEF m
    <3> QED
      BY <2>2, <3>1, <3>2
  <2>4. Flag(S(a) < S(b)) \in Nat /\ Flag(a < b) \in Nat
    BY DEF Flag
  <2>5. execute(GetAluSignal, a, b) # Crash
    BY <1>6, <2>1, <2>3, <2>4 DEF BranchOps, Crash
  <2>6. CASE u.op \in {"beq", "bne"}
    BY <1>6, <2>1, <2>3, <2>5, <2>6 DEF BranchFlag, Machine!Taken
  <2>7. CASE u.op \in {"blt", "bge", "bltu", "bgeu"}
    <3>1. Machine!S(a) = S(a) /\ Machine!S(b) = S(b)
      BY SameArithmetic
    <3> QED
      BY <1>6, <2>1, <2>2, <2>5, <2>7, <3>1 DEF BranchFlag, Machine!Taken, Flag
  <2> QED
    BY <2>6, <2>7 DEF BranchOps
<1> QED
  BY <1>2, <1>4, <1>5, <1>6, <1>7 DEF ImmGenerator

LEMMA UpperWords ==
  ASSUME NEW u, u.op \in {"lui", "auipc"}, Accepted(u), w = generateMachineCode(u)
  PROVE  /\ w.op = (IF u.op = "lui" THEN 55 ELSE 23) /\ w.rd = u.rd /\ u.rd \in Registers
         /\ u.imm \in Int /\ GetAluSignal = "kAdd" /\ ImmGenerator(w) = u.imm % 1048576
         /\ w.rs1 \in Registers
<1>1. u.op \in DOMAIN UType /\ UType[u.op].op = (IF u.op = "lui" THEN 55 ELSE 23)
  BY DEF UType, Code
<1>2. u.rd \in Registers /\ u.imm \in Int
  BY <1>1, AcceptedIs
<1>3. w = EncodeU(UType[u.op], u.rd, u.imm)
  BY <1>1, Formats
<1>4. ImmU(w) = u.imm % 1048576
  BY <1>2, <1>3, ImmUExact
<1>5. w.rd = u.rd /\ w.op = UType[u.op].op /\ w.rs1 = Bits(u.imm, 8, 32)
  BY <1>3 DEF EncodeU, Fields
<1>6. Bits(u.imm, 8, 32) \in Registers
  BY <1>2 DEF Bits, Registers
<1> QED
  BY <1>1, <1>2, <1>4, <1>5, <1>6 DEF GetAluSignal, ImmGenerator

LEMMA JalWords ==
  ASSUME NEW u, u.op = "jal", Accepted(u), w = generateMachineCode(u)
  PROVE  /\ w.op = 111 /\ w.rd = u.rd /\ u.rd \in Registers
         /\ u.imm \in Signed21 /\ GetAluSignal = "kAdd" /\ ImmGenerator(w) = u.imm
         /\ w.rs1 \in Registers /\ w.rs2 \in Registers
<1>1. u.op \in DOMAIN JType /\ JType[u.op].op = 111
  BY DEF JType, Code
<1>2. u.rd \in Registers /\ u.imm \in Signed21 /\ u.imm % 2 = 0
  BY <1>1, AcceptedIs
<1>3. w = EncodeJ(JType[u.op], u.rd, u.imm)
  BY <1>1, Formats
<1>4. ImmJ(w) = u.imm
  <2> DEFINE imm == u.imm
             c   == JType[u.op]
  <2>1. imm \in Int /\ -1048576 <= imm /\ imm < 1048576 /\ imm % 2 = 0
    BY <1>2, SMT DEF Signed21, Between
  <2> HIDE DEF imm, c
  <2>2. ImmJ(EncodeJ(c, u.rd, imm)) = imm
    BY <2>1, ImmJExact, SMT
  <2> QED
    BY <1>3, <2>2 DEF imm, c
<1>5. /\ w.rd = u.rd /\ w.op = JType[u.op].op /\ w.rs1 = Bits(u.imm, 32768, 32)
      /\ w.rs2 = Bits(u.imm, 2, 16) * 2 + Bits(u.imm, 2048, 2)
  BY <1>3 DEF EncodeJ, Fields
<1>6. Bits(u.imm, 32768, 32) \in Registers
      /\ Bits(u.imm, 2, 16) * 2 + Bits(u.imm, 2048, 2) \in Registers
  <2> DEFINE imm == u.imm
  <2>1. imm \in Int
    BY <1>2, SMT DEF Signed21, Between
  <2> HIDE DEF imm
  <2>2. Bits(imm, 32768, 32) \in Registers
        /\ Bits(imm, 2, 16) * 2 + Bits(imm, 2048, 2) \in Registers
    BY <2>1, SMTT(30) DEF Bits, Registers
  <2> QED
    BY <2>2 DEF imm
<1> QED
  BY <1>1, <1>2, <1>4, <1>5, <1>6 DEF GetAluSignal, ImmGenerator

(* The R format in general. *)
LEMMA RFields ==
  ASSUME NEW u, u.op \in DOMAIN RType, Accepted(u), w = generateMachineCode(u)
  PROVE  /\ w.rd = u.rd /\ w.rs1 = u.rs1 /\ w.rs2 = u.rs2
         /\ w.op = RType[u.op].op /\ w.f3 = RType[u.op].f3 /\ w.f7 = RType[u.op].f7
         /\ {u.rd, u.rs1, u.rs2} \subseteq Registers
<1>1. w = EncodeR(RType[u.op], u.rd, u.rs1, u.rs2)
  BY Formats
<1>2. {u.rd, u.rs1, u.rs2} \subseteq Registers
  BY AcceptedIs
<1> QED
  BY <1>1, <1>2 DEF EncodeR, Fields

(* The operations on words: they trap when the architecture's departures    *)
(* say so.                                                                  *)
LEMMA WordWords ==
  ASSUME NEW u, u.op \in Machine!WordOps, Accepted(u), w = generateMachineCode(u)
  PROVE  /\ w.op = 59 /\ w.rs1 = u.rs1 /\ w.rs2 = u.rs2
         /\ {u.rs1, u.rs2} \subseteq Registers
         /\ \A a, b \in Number : execute(GetAluSignal, a, b) = Crash <=> Machine!Traps(u.op, a, b)
<1>1. u.op \in DOMAIN RType
  BY DEF RType, Machine!WordOps
<1>2. /\ w.rs1 = u.rs1 /\ w.rs2 = u.rs2
      /\ w.op = RType[u.op].op /\ w.f3 = RType[u.op].f3 /\ w.f7 = RType[u.op].f7
      /\ {u.rs1, u.rs2} \subseteq Registers
  BY <1>1, RFields
<1>3. /\ w.op = 59
      /\ u.op \in {"addw", "subw", "sllw", "srlw", "sraw", "mulw", "divw"} =>
           GetAluSignal \in {"kAddw", "kSubw", "kSllw", "kSrlw", "kSraw", "kMulw", "kDivw"}
      /\ u.op = "divuw" => GetAluSignal = "kDivuw"
      /\ u.op = "remw" => GetAluSignal = "kRemw"
      /\ u.op = "remuw" => GetAluSignal = "kRemuw"
  <2>1. /\ w.op = 59
        /\ u.op = "addw" => w.f3 = 0 /\ w.f7 = 0
        /\ u.op = "subw" => w.f3 = 0 /\ w.f7 = 32
        /\ u.op = "sllw" => w.f3 = 1 /\ w.f7 = 0
        /\ u.op = "srlw" => w.f3 = 5 /\ w.f7 = 0
        /\ u.op = "sraw" => w.f3 = 5 /\ w.f7 = 32
        /\ u.op = "mulw" => w.f3 = 0 /\ w.f7 = 1
        /\ u.op = "divw" => w.f3 = 4 /\ w.f7 = 1
        /\ u.op = "divuw" => w.f3 = 5 /\ w.f7 = 1
        /\ u.op = "remw" => w.f3 = 6 /\ w.f7 = 1
        /\ u.op = "remuw" => w.f3 = 7 /\ w.f7 = 1
    BY <1>2, SMTT(30) DEF RType, Code, Machine!WordOps
  <2>2. GetAluSignal = WordSignal
    BY <2>1 DEF GetAluSignal
  <2> QED
    BY <2>1, <2>2, SMTT(30) DEF WordSignal, Funct7
<1>4. ASSUME NEW a \in Number, NEW b \in Number
      PROVE  execute(GetAluSignal, a, b) = Crash <=> Machine!Traps(u.op, a, b)
  <2>1. /\ Machine!Word(b) = Word(b) /\ Machine!SWord(a) = SWord(a) /\ Machine!SWord(b) = SWord(b)
        /\ Machine!Power = Power
    BY SameArithmetic
  <2>2. \A n \in Number : n # Crash
    BY DEF Number, Crash
  <2>3. /\ a \in Nat /\ b \in Nat /\ S(a) \in Int /\ S(b) \in Int
        /\ SWord(a) \in Int /\ SWord(b) \in Int /\ (SWord(b) = 0 <=> Word(b) = 0)
        /\ Word(a) \in 0 .. Root - 1 /\ Word(b) \in 0 .. Root - 1
    BY SignedIs, WordIs
  <2>4. CASE u.op \in {"addw", "subw", "sllw", "srlw", "sraw", "mulw", "divw"}
    <3>1. execute(GetAluSignal, a, b) # Crash
      <4> DEFINE p == Power[WordAmount(b)]
      <4>1. p \in Nat \ {0}
        BY <2>3, AmountIs
      <4>2. /\ a + b \in Int /\ a - b \in Int /\ SWord(a) * SWord(b) \in Int
        BY <2>3
      <4>3. Word(a) * p \in Int /\ Word(a) \div p \in Int /\ SWord(a) \div p \in Int
        <5> DEFINE c == Word(a)
                   d == SWord(a)
        <5>1. c \in Int /\ d \in Int
          BY <2>3, Widths
        <5> HIDE DEF c, d, p
        <5>2. c * p \in Int /\ c \div p \in Int /\ d \div p \in Int
          BY <4>1, <5>1, Euclid
        <5> QED
          BY <5>2 DEF c, d
      <4>4. Divw(a, b) \in Number
        <5>1. CASE SWord(b) = 0
          BY <5>1, Widths DEF Divw, Number
        <5>2. CASE SWord(b) # 0
          <6>1. Quotient(SWord(a), SWord(b)) \in Int
            BY <2>3, <5>2, QuotientIs
          <6>2. FromWord(Quotient(SWord(a), SWord(b))) \in Number
            BY <6>1, WordIs
          <6> QED
            BY <5>2, <6>2 DEF Divw
        <5> QED
          BY <5>1, <5>2
      <4>5. /\ FromWord(a + b) \in Number /\ FromWord(a - b) \in Number
            /\ FromWord(SWord(a) * SWord(b)) \in Number
            /\ FromWord(Word(a) * p) \in Number /\ FromWord(Word(a) \div p) \in Number
            /\ Wrap(SWord(a) \div p) \in Number
        BY <4>2, <4>3, WordIs, WrapIs
      <4>6. /\ execute("kAddw", a, b) # Crash /\ execute("kSubw", a, b) # Crash
            /\ execute("kSllw", a, b) # Crash /\ execute("kSrlw", a, b) # Crash
            /\ execute("kSraw", a, b) # Crash /\ execute("kMulw", a, b) # Crash
            /\ execute("kDivw", a, b) # Crash
        BY <2>2, <4>4, <4>5 DEF execute
      <4> QED
        BY <1>3, <2>4, <4>6
    <3> QED
      BY <2>4, <3>1 DEF Machine!Traps
  <2>5. CASE u.op = "divuw"
    <3>1. Word(b) # 0 => Word(a) \div Word(b) # Crash
      <4> DEFINE c == Word(a)
                 d == Word(b)
      <4>1. c \in Nat /\ d \in Nat
        BY <2>3, Widths
      <4> HIDE DEF c, d
      <4>2. d # 0 => c \div d \in 0 .. c
        BY <4>1, DivLess
      <4> QED
        BY <4>1, <4>2 DEF c, d, Crash
    <3> QED
      BY <1>3, <2>1, <2>5, <3>1 DEF execute, Divuw, Machine!Traps, Crash
  <2>6. CASE u.op = "remuw"
    <3>1. Word(b) # 0 => Word(a) % Word(b) # Crash
      <4> DEFINE c == Word(a)
                 d == Word(b)
      <4>1. c \in Nat /\ d \in Nat
        BY <2>3, Widths
      <4> HIDE DEF c, d
      <4>2. d # 0 => c % d \in 0 .. d - 1
        BY <4>1, Euclid
      <4> QED
        BY <4>1, <4>2 DEF c, d, Crash
    <3> QED
      BY <1>3, <2>1, <2>6, <3>1 DEF execute, Remuw, Machine!Traps, Crash
  <2>7. CASE u.op = "remw"
    <3>1. SWord(b) # 0 => FromWord(Remainder(SWord(a), SWord(b))) # Crash
      BY <2>2, <2>3, QuotientIs, WordIs
    <3>2. b = 0 => SWord(b) # -1
      <4>1. Root \in Nat \ {0} /\ Root > 0
        BY Widths
      <4>2. 0 % Root = 0
        BY <4>1, SmallMod
      <4>3. b = 0 => Word(b) = 0
        BY <4>2 DEF Word, Root
      <4> QED
        BY <2>3, <4>3
    <3> QED
      BY <1>3, <2>1, <2>3, <2>7, <3>1, <3>2 DEF execute, Remw, Machine!Traps, Crash
  <2> QED
    BY <2>4, <2>5, <2>6, <2>7 DEF Machine!WordOps
<1> QED
  BY <1>2, <1>3, <1>4

(* ldbm and bigmul: the seven-bit masks read two bits of the next field     *)
(* along, and so beyond the registers unless these bits are zero.           *)
LEMMA CoprocessorWords ==
  ASSUME NEW u, u.op \in {"ldbm", "bigmul"}, Accepted(u), w = generateMachineCode(u)
  PROVE  /\ w.op = (IF u.op = "ldbm" THEN 42 ELSE 63)
         /\ {u.rs1, u.rs2} \subseteq Registers
         /\ IF Machine!Named(u) THEN WideRs1 = u.rs1 /\ WideRs2 = u.rs2
            ELSE WideRs1 > 31 \/ WideRs2 > 31
<1>1. CASE u.op = "ldbm"
  <2>1. u.op \in DOMAIN RType /\ RType[u.op].op = 42 /\ RType[u.op].f7 = 0
    BY <1>1 DEF RType, Code
  <2>2. /\ w.rs1 = u.rs1 /\ w.rs2 = u.rs2 /\ w.op = 42 /\ w.f7 = 0
        /\ {u.rs1, u.rs2} \subseteq Registers
    BY <2>1, RFields
  <2> DEFINE r == u.rs1
             q == u.rs2
  <2>3. r \in 0 .. 31 /\ q \in 0 .. 31
    BY <2>2 DEF Registers
  <2>4. WideRs1 = r + 32 * ((q \div 1) % 4) /\ WideRs2 = q + 32 * ((0 \div 1) % 4)
    BY <2>2 DEF WideRs1, WideRs2, Bits
  <2>5. Machine!Named(u) <=> q % 4 = 0
    BY <1>1 DEF Machine!Named
  <2> HIDE DEF r, q
  <2>6. IF q % 4 = 0 THEN WideRs1 = r /\ WideRs2 = q ELSE WideRs1 > 31
    BY <2>3, <2>4
  <2> QED
    BY <1>1, <2>2, <2>5, <2>6 DEF r, q
<1>2. CASE u.op = "bigmul"
  <2>1. u.op \in DOMAIN SType /\ SType[u.op].op = 63
    BY <1>2 DEF SType, Code
  <2>2. {u.rs1, u.rs2} \subseteq Registers /\ u.imm \in Signed12
    BY <2>1, AcceptedIs
  <2>3. w = EncodeS(SType[u.op], u.rs1, u.rs2, u.imm)
    BY <2>1, Formats
  <2>4. w.rs1 = u.rs1 /\ w.rs2 = u.rs2 /\ w.op = 63 /\ w.f7 = (u.imm \div 32) % 128
    BY <2>1, <2>3 DEF EncodeS, Fields, Bits
  <2> DEFINE r == u.rs1
             q == u.rs2
             i == u.imm \div 32
  <2>5. r \in 0 .. 31 /\ q \in 0 .. 31 /\ i \in Int
    BY <2>2 DEF Registers, Signed12, Between
  <2>6. WideRs1 = r + 32 * ((q \div 1) % 4) /\ WideRs2 = q + 32 * (((i % 128) \div 1) % 4)
    BY <2>4 DEF WideRs1, WideRs2, Bits
  <2>7. Machine!Named(u) <=> q % 4 = 0 /\ i % 4 = 0
    BY <1>2 DEF Machine!Named
  <2> HIDE DEF r, q, i
  <2>8. (i % 128) % 4 = i % 4
    BY <2>5
  <2>9. IF q % 4 = 0 /\ i % 4 = 0 THEN WideRs1 = r /\ WideRs2 = q ELSE WideRs1 > 31 \/ WideRs2 > 31
    BY <2>5, <2>6, <2>8
  <2> QED
    BY <1>2, <2>2, <2>4, <2>7, <2>9 DEF r, q
<1> QED
  BY <1>1, <1>2

-------------------------------------------------------------------------------
(* Every instruction the parser accepts is of one of these kinds. *)
LEMMA Kinds ==
  ASSUME NEW u, Accepted(u)
  PROVE  \/ u.op \in Machine!RegisterOps \/ u.op \in Machine!ImmediateOps
         \/ u.op \in Machine!WordOps \/ u.op \in Machine!WordImmOps
         \/ u.op \in DOMAIN Machine!LoadBytes \/ u.op \in DOMAIN Machine!StoreBytes
         \/ u.op \in BranchOps \/ u.op \in {"lui", "auipc"} \/ u.op \in {"ldbm", "bigmul"}
         \/ u.op = "jal" \/ u.op = "jalr"
<1>1. \/ u.op \in DOMAIN RType \/ u.op \in DOMAIN I1Type \/ u.op \in DOMAIN I2Type
      \/ u.op \in DOMAIN SType \/ u.op \in DOMAIN BType \/ u.op \in DOMAIN UType
      \/ u.op \in DOMAIN JType
  BY Zenon DEF Accepted
<1>2. u.op \in DOMAIN RType =>
        u.op \in Machine!RegisterOps \/ u.op \in Machine!WordOps \/ u.op = "ldbm"
  BY DEF RType, Machine!RegisterOps, Machine!WordOps
<1>3. u.op \in DOMAIN I1Type =>
        \/ u.op \in Machine!ImmediateOps \/ u.op \in Machine!WordImmOps
        \/ u.op \in DOMAIN Machine!LoadBytes \/ u.op = "jalr"
  BY DEF I1Type, Machine!ImmediateOps, Machine!WordImmOps, Machine!LoadBytes
<1>4. u.op \in DOMAIN I2Type => u.op \in Machine!ImmediateOps \/ u.op \in Machine!WordImmOps
  BY DEF I2Type, Machine!ImmediateOps, Machine!WordImmOps
<1>5. u.op \in DOMAIN SType => u.op \in DOMAIN Machine!StoreBytes \/ u.op = "bigmul"
  BY DEF SType, Machine!StoreBytes
<1>6. /\ u.op \in DOMAIN BType => u.op \in BranchOps
      /\ u.op \in DOMAIN UType => u.op \in {"lui", "auipc"}
      /\ u.op \in DOMAIN JType => u.op = "jal"
  BY DEF BType, UType, JType, BranchOps
<1> QED
  BY <1>1, <1>2, <1>3, <1>4, <1>5, <1>6, Zenon

WordFields ==
  [f7 : 0 .. 127, rs2 : 0 .. 31, rs1 : 0 .. 31, f3 : 0 .. 7, rd : 0 .. 31, op : 0 .. 127]

(* Every field of an instruction fits its bits. *)
LEMMA CodeFits ==
  ASSUME NEW u, Accepted(u)
  PROVE  generateMachineCode(u) \in WordFields
<1> DEFINE g   == generateMachineCode(u)
           imm == u.imm
<1>1. CASE u.op \in DOMAIN RType
  <2> DEFINE c   == RType[u.op]
             f7  == c.f7
             rs2 == u.rs2
             rs1 == u.rs1
             f3  == c.f3
             rd  == u.rd
  <2>1. u.rd \in 0 .. 31 /\ u.rs1 \in 0 .. 31 /\ u.rs2 \in 0 .. 31
    BY <1>1, AcceptedIs, SMT DEF Registers
  <2>2. c.f7 \in {0, 1, 32} /\ c.f3 \in 0 .. 7 /\ c.op \in 0 .. 127
    BY <1>1, SMTT(30) DEF RType, Code
  <2>3. g = Fields(f7, rs2, rs1, f3, rd, c.op)
    BY <1>1, Formats DEF EncodeR
  <2> HIDE DEF imm, c
  <2>4. f7 \in 0 .. 127
    BY <2>1, <2>2, SMT DEF Bits
  <2>5. rs2 \in 0 .. 31
    BY <2>1, <2>2, SMT DEF Bits
  <2>6. rs1 \in 0 .. 31
    BY <2>1, <2>2, SMT DEF Bits
  <2>7. f3 \in 0 .. 7
    BY <2>1, <2>2, SMT DEF Bits
  <2>8. rd \in 0 .. 31
    BY <2>1, <2>2, SMT DEF Bits
  <2> HIDE DEF g, f7, rs2, rs1, f3, rd
  <2>9. g \in WordFields
    BY <2>2, <2>3, <2>4, <2>5, <2>6, <2>7, <2>8 DEF Fields, WordFields
  <2> QED
    BY <2>9 DEF g
<1>2. CASE u.op \in DOMAIN I1Type
  <2> DEFINE c   == I1Type[u.op]
             f7  == Bits(imm, 32, 128)
             rs2 == Bits(imm, 1, 32)
             rs1 == u.rs1
             f3  == c.f3
             rd  == u.rd
  <2>1. u.rd \in 0 .. 31 /\ u.rs1 \in 0 .. 31 /\ imm \in Int
    BY <1>2, AcceptedIs, SMT DEF Registers, Between, Signed12
  <2>2. c.f3 \in 0 .. 7 /\ c.op \in 0 .. 127
    BY <1>2, SMTT(30) DEF I1Type, Code
  <2>3. g = Fields(f7, rs2, rs1, f3, rd, c.op)
    BY <1>2, Formats DEF EncodeI1
  <2> HIDE DEF imm, c
  <2>4. f7 \in 0 .. 127
    BY <2>1, <2>2, SMT DEF Bits
  <2>5. rs2 \in 0 .. 31
    BY <2>1, <2>2, SMT DEF Bits
  <2>6. rs1 \in 0 .. 31
    BY <2>1, <2>2, SMT DEF Bits
  <2>7. f3 \in 0 .. 7
    BY <2>1, <2>2, SMT DEF Bits
  <2>8. rd \in 0 .. 31
    BY <2>1, <2>2, SMT DEF Bits
  <2> HIDE DEF g, f7, rs2, rs1, f3, rd
  <2>9. g \in WordFields
    BY <2>2, <2>3, <2>4, <2>5, <2>6, <2>7, <2>8 DEF Fields, WordFields
  <2> QED
    BY <2>9 DEF g
<1>3. CASE u.op \in DOMAIN I2Type
  <2> DEFINE c   == I2Type[u.op]
             f7  == c.f7 + imm \div 32
             rs2 == Bits(imm, 1, 32)
             rs1 == u.rs1
             f3  == c.f3
             rd  == u.rd
  <2>1. u.rd \in 0 .. 31 /\ u.rs1 \in 0 .. 31 /\ imm \in Int /\ imm \in 0 .. 31
    BY <1>3, AcceptedIs, SMT DEF Registers
  <2>2. c.f7 \in {0, 32} /\ c.f3 \in 0 .. 7 /\ c.op \in 0 .. 127
    BY <1>3, SMTT(30) DEF I2Type, Code
  <2>3. g = Fields(f7, rs2, rs1, f3, rd, c.op)
    BY <1>3, Formats DEF EncodeI2
  <2> HIDE DEF imm, c
  <2>4. f7 \in 0 .. 127
    BY <2>1, <2>2, SMT DEF Bits
  <2>5. rs2 \in 0 .. 31
    BY <2>1, <2>2, SMT DEF Bits
  <2>6. rs1 \in 0 .. 31
    BY <2>1, <2>2, SMT DEF Bits
  <2>7. f3 \in 0 .. 7
    BY <2>1, <2>2, SMT DEF Bits
  <2>8. rd \in 0 .. 31
    BY <2>1, <2>2, SMT DEF Bits
  <2> HIDE DEF g, f7, rs2, rs1, f3, rd
  <2>9. g \in WordFields
    BY <2>2, <2>3, <2>4, <2>5, <2>6, <2>7, <2>8 DEF Fields, WordFields
  <2> QED
    BY <2>9 DEF g
<1>4. CASE u.op \in DOMAIN SType
  <2> DEFINE c   == SType[u.op]
             f7  == Bits(imm, 32, 128)
             rs2 == u.rs2
             rs1 == u.rs1
             f3  == c.f3
             rd  == Bits(imm, 1, 32)
  <2>1. u.rs1 \in 0 .. 31 /\ u.rs2 \in 0 .. 31 /\ imm \in Int
    BY <1>4, AcceptedIs, SMT DEF Registers, Between, Signed12
  <2>2. c.f3 \in 0 .. 7 /\ c.op \in 0 .. 127
    BY <1>4, SMTT(30) DEF SType, Code
  <2>3. g = Fields(f7, rs2, rs1, f3, rd, c.op)
    BY <1>4, Formats DEF EncodeS
  <2> HIDE DEF imm, c
  <2>4. f7 \in 0 .. 127
    BY <2>1, <2>2, SMT DEF Bits
  <2>5. rs2 \in 0 .. 31
    BY <2>1, <2>2, SMT DEF Bits
  <2>6. rs1 \in 0 .. 31
    BY <2>1, <2>2, SMT DEF Bits
  <2>7. f3 \in 0 .. 7
    BY <2>1, <2>2, SMT DEF Bits
  <2>8. rd \in 0 .. 31
    BY <2>1, <2>2, SMT DEF Bits
  <2> HIDE DEF g, f7, rs2, rs1, f3, rd
  <2>9. g \in WordFields
    BY <2>2, <2>3, <2>4, <2>5, <2>6, <2>7, <2>8 DEF Fields, WordFields
  <2> QED
    BY <2>9 DEF g
<1>5. CASE u.op \in DOMAIN BType
  <2> DEFINE c   == BType[u.op]
             f7  == Bits(imm, 4096, 2) * 64 + Bits(imm, 32, 64)
             rs2 == u.rs2
             rs1 == u.rs1
             f3  == c.f3
             rd  == Bits(imm, 2, 16) * 2 + Bits(imm, 2048, 2)
  <2>1. u.rs1 \in 0 .. 31 /\ u.rs2 \in 0 .. 31 /\ imm \in Int
    BY <1>5, AcceptedIs, SMT DEF Registers, Between, Signed13
  <2>2. c.f3 \in 0 .. 7 /\ c.op \in 0 .. 127
    BY <1>5, SMTT(30) DEF BType, Code
  <2>3. g = Fields(f7, rs2, rs1, f3, rd, c.op)
    BY <1>5, Formats DEF EncodeB
  <2> HIDE DEF imm, c
  <2>4. f7 \in 0 .. 127
    BY <2>1, <2>2, SMT DEF Bits
  <2>5. rs2 \in 0 .. 31
    BY <2>1, <2>2, SMT DEF Bits
  <2>6. rs1 \in 0 .. 31
    BY <2>1, <2>2, SMT DEF Bits
  <2>7. f3 \in 0 .. 7
    BY <2>1, <2>2, SMT DEF Bits
  <2>8. rd \in 0 .. 31
    BY <2>1, <2>2, SMT DEF Bits
  <2> HIDE DEF g, f7, rs2, rs1, f3, rd
  <2>9. g \in WordFields
    BY <2>2, <2>3, <2>4, <2>5, <2>6, <2>7, <2>8 DEF Fields, WordFields
  <2> QED
    BY <2>9 DEF g
<1>6. CASE u.op \in DOMAIN UType
  <2> DEFINE c   == UType[u.op]
             f7  == Bits(imm, 8192, 128)
             rs2 == Bits(imm, 256, 32)
             rs1 == Bits(imm, 8, 32)
             f3  == Bits(imm, 1, 8)
             rd  == u.rd
  <2>1. u.rd \in 0 .. 31 /\ imm \in Int
    BY <1>6, AcceptedIs, SMT DEF Registers
  <2>2. c.f3 \in 0 .. 7 /\ c.op \in 0 .. 127
    BY <1>6, SMTT(30) DEF UType, Code
  <2>3. g = Fields(f7, rs2, rs1, f3, rd, c.op)
    BY <1>6, Formats DEF EncodeU
  <2> HIDE DEF imm, c
  <2>4. f7 \in 0 .. 127
    BY <2>1, <2>2, SMT DEF Bits
  <2>5. rs2 \in 0 .. 31
    BY <2>1, <2>2, SMT DEF Bits
  <2>6. rs1 \in 0 .. 31
    BY <2>1, <2>2, SMT DEF Bits
  <2>7. f3 \in 0 .. 7
    BY <2>1, <2>2, SMT DEF Bits
  <2>8. rd \in 0 .. 31
    BY <2>1, <2>2, SMT DEF Bits
  <2> HIDE DEF g, f7, rs2, rs1, f3, rd
  <2>9. g \in WordFields
    BY <2>2, <2>3, <2>4, <2>5, <2>6, <2>7, <2>8 DEF Fields, WordFields
  <2> QED
    BY <2>9 DEF g
<1>7. CASE u.op \in DOMAIN JType
  <2> DEFINE c   == JType[u.op]
             f7  == Bits(imm, 1048576, 2) * 64 + Bits(imm, 32, 64)
             rs2 == Bits(imm, 2, 16) * 2 + Bits(imm, 2048, 2)
             rs1 == Bits(imm, 32768, 32)
             f3  == Bits(imm, 4096, 8)
             rd  == u.rd
  <2>1. u.rd \in 0 .. 31 /\ imm \in Int
    BY <1>7, AcceptedIs, SMT DEF Registers, Between, Signed21
  <2>2. c.f3 \in 0 .. 7 /\ c.op \in 0 .. 127
    BY <1>7, SMTT(30) DEF JType, Code
  <2>3. g = Fields(f7, rs2, rs1, f3, rd, c.op)
    BY <1>7, Formats DEF EncodeJ
  <2> HIDE DEF imm, c
  <2>4. f7 \in 0 .. 127
    BY <2>1, <2>2, SMT DEF Bits
  <2>5. rs2 \in 0 .. 31
    BY <2>1, <2>2, SMT DEF Bits
  <2>6. rs1 \in 0 .. 31
    BY <2>1, <2>2, SMT DEF Bits
  <2>7. f3 \in 0 .. 7
    BY <2>1, <2>2, SMT DEF Bits
  <2>8. rd \in 0 .. 31
    BY <2>1, <2>2, SMT DEF Bits
  <2> HIDE DEF g, f7, rs2, rs1, f3, rd
  <2>9. g \in WordFields
    BY <2>2, <2>3, <2>4, <2>5, <2>6, <2>7, <2>8 DEF Fields, WordFields
  <2> QED
    BY <2>9 DEF g
<1>8. \/ u.op \in DOMAIN RType \/ u.op \in DOMAIN I1Type \/ u.op \in DOMAIN I2Type
      \/ u.op \in DOMAIN SType \/ u.op \in DOMAIN BType \/ u.op \in DOMAIN UType
      \/ u.op \in DOMAIN JType
  BY Zenon DEF Accepted
<1> QED
  BY <1>1, <1>2, <1>3, <1>4, <1>5, <1>6, <1>7, <1>8, Zenon

-------------------------------------------------------------------------------
(* Loads: bytes one above the other. *)

LEMMA BytesFit ==
  ASSUME NEW g, NEW n \in {1, 2, 4, 8},
         \A i \in 0 .. n - 1 : \E d \in 0 .. Power[ByteBits] - 1 : g[i] = d * Power[ByteBits * i]
  PROVE  SumUpTo(g, n) \in 0 .. Power[ByteBits * n] - 1
<1>1. /\ XLEN \in Nat /\ ByteBits \in Nat \ {0} /\ 8 * ByteBits = XLEN
  BY WidthAssumption DEF ByteBits
<1>2. \A m \in 0 .. n : /\ ByteBits * m \in 0 .. XLEN /\ Power[ByteBits * m] \in Nat \ {0}
  <2> SUFFICES ASSUME NEW m \in 0 .. n PROVE ByteBits * m \in 0 .. XLEN
    BY PowerIs
  <2> DEFINE b == ByteBits
  <2>1. b \in Nat \ {0} /\ 8 * b = XLEN /\ m \in 0 .. 8
    BY <1>1
  <2> HIDE DEF b
  <2>2. b * m >= 0 /\ b * m <= 8 * b /\ b * m \in Int
    BY <2>1
  <2> QED
    BY <1>1, <2>1, <2>2 DEF b
<1>3. \A m \in 0 .. n - 1 : Power[ByteBits * (m + 1)] = Power[ByteBits * m] * Power[ByteBits]
  <2> SUFFICES ASSUME NEW m \in 0 .. n - 1
               PROVE  Power[ByteBits * (m + 1)] = Power[ByteBits * m] * Power[ByteBits]
    OBVIOUS
  <2>1. m + 1 \in 0 .. n /\ m \in 0 .. n
    OBVIOUS
  <2> DEFINE k == ByteBits * m
             l == ByteBits * (m + 1)
  <2>2. k \in Nat /\ l \in 0 .. XLEN
    BY <1>2, <2>1
  <2>3. l = k + ByteBits
    BY <1>1, <2>1
  <2> HIDE DEF k, l
  <2>4. Power[k + ByteBits] = Power[k] * Power[ByteBits]
    BY <1>1, <2>2, <2>3, PowerAdd
  <2> QED
    BY <2>3, <2>4 DEF k, l
<1>4. Power[ByteBits] \in Nat \ {0}
  BY <1>1, PowerIs
<1>5. PICK s : Prefixes(s, g, n) /\ SumUpTo(g, n) = s[n]
  <2>1. \A i \in 0 .. n - 1 : g[i] \in Int
    <3> SUFFICES ASSUME NEW i \in 0 .. n - 1 PROVE g[i] \in Int
      OBVIOUS
    <3>1. PICK d \in 0 .. Power[ByteBits] - 1 : g[i] = d * Power[ByteBits * i]
      OBVIOUS
    <3> DEFINE p == Power[ByteBits * i]
    <3>2. p \in Nat
      BY <1>2
    <3> HIDE DEF p
    <3>3. d * p \in Int
      BY <1>4, <3>2
    <3> QED
      BY <3>1, <3>3 DEF p
  <2>2. n \in Nat
    OBVIOUS
  <2> QED
    BY <2>1, <2>2, SumSolved
<1> DEFINE M == {m \in Nat : m <= n => s[m] \in 0 .. Power[ByteBits * m] - 1}
<1>6. 0 \in M
  <2>1. ByteBits * 0 = 0
    BY <1>1
  <2> QED
    BY <1>5, <2>1, PowerIs DEF Prefixes
<1>7. ASSUME NEW m \in M PROVE m + 1 \in M
  <2> SUFFICES ASSUME m + 1 <= n PROVE s[m + 1] \in 0 .. Power[ByteBits * (m + 1)] - 1
    OBVIOUS
  <2>1. m \in 0 .. n - 1 /\ m \in 0 .. n /\ s[m] \in 0 .. Power[ByteBits * m] - 1
    OBVIOUS
  <2>2. s[m + 1] = s[m] + g[m]
    BY <1>5, <2>1 DEF Prefixes
  <2>3. PICK d \in 0 .. Power[ByteBits] - 1 : g[m] = d * Power[ByteBits * m]
    BY <2>1
  <2> DEFINE p == Power[ByteBits * m]
             q == Power[ByteBits]
             a == s[m]
  <2>4. p \in Nat \ {0} /\ q \in Nat \ {0} /\ Power[ByteBits * (m + 1)] = p * q
    BY <1>2, <1>3, <1>4, <2>1
  <2>5. d \in 0 .. q - 1 /\ a \in 0 .. p - 1 /\ s[m + 1] = a + d * p
    BY <2>1, <2>2, <2>3
  <2> HIDE DEF p, q, a
  <2>6. a + d * p \in 0 .. p * q - 1
    <3>1. d * p >= 0 /\ d * p \in Int
      BY <2>4, <2>5
    <3>2. d * p <= (q - 1) * p
      <4>1. d <= q - 1 /\ d \in Int /\ q - 1 \in Int /\ p \in Nat
        BY <2>4, <2>5
      <4> QED
        BY <4>1
    <3>3. (q - 1) * p = p * q - p /\ p * q \in Int
      BY <2>4
    <3> QED
      BY <2>4, <2>5, <3>1, <3>2, <3>3
  <2> QED
    BY <2>4, <2>5, <2>6
<1>8. M = Nat
  <2>1. M \in SUBSET Nat
    OBVIOUS
  <2> HIDE DEF M
  <2> QED
    BY <1>6, <1>7, <2>1, NatSet
<1>9. n \in M
  BY <1>8
<1> QED
  BY <1>5, <1>9

(* What a load reads inside the memory is a number of the machine. *)
LEMMA LoadedFits ==
  ASSUME memory \in [0 .. MemorySize - 1 -> 0 .. Power[ByteBits] - 1],
         execution_result_ \in Number, Reaches(Width)
  PROVE  Loaded \in Number
<1>1. Width \in {1, 2, 4, 8} /\ MemorySize \in Nat
  BY DatapathAssumption DEF Width
<1> DEFINE n == Width
           g == [i \in 0 .. n - 1 |-> memory[execution_result_ + i] * Power[ByteBits * i]]
<1>2. execution_result_ \in Nat /\ execution_result_ + n <= MemorySize
  BY Widths DEF Number, Reaches
<1>3. \A i \in 0 .. n - 1 : \E d \in 0 .. Power[ByteBits] - 1 : g[i] = d * Power[ByteBits * i]
  <2> SUFFICES ASSUME NEW i \in 0 .. n - 1
               PROVE  \E d \in 0 .. Power[ByteBits] - 1 : g[i] = d * Power[ByteBits * i]
    OBVIOUS
  <2>1. execution_result_ + i \in 0 .. MemorySize - 1
    BY <1>1, <1>2
  <2>2. memory[execution_result_ + i] \in 0 .. Power[ByteBits] - 1
    BY <2>1
  <2> QED
    BY <2>2
<1>4. ReadMemory(n) = SumUpTo(g, n)
  BY DEF ReadMemory
<1>5. ReadMemory(n) \in 0 .. Power[ByteBits * n] - 1
  <2> HIDE DEF g, n
  <2>1. n \in {1, 2, 4, 8}
    BY <1>1 DEF n
  <2> QED
    BY <1>3, <1>4, <2>1, BytesFit
<1>6. /\ XLEN \in Nat /\ ByteBits \in Nat \ {0} /\ 8 * ByteBits = XLEN
  BY WidthAssumption DEF ByteBits
<1>7. ByteBits * n \in 0 .. XLEN /\ ByteBits * n = n * ByteBits
  BY <1>1, <1>6
<1>8. Power[ByteBits * n] \in Nat \ {0} /\ Power[ByteBits * n] <= Power[XLEN]
  BY <1>6, <1>7, PowerIs, PowerGrows
<1>9. ReadMemory(n) \in Number /\ ReadMemory(n) \in Nat
  BY <1>5, <1>8, Widths DEF Number
<1>10. Wrap(SignOf(ReadMemory(n), n * ByteBits)) \in Number
  <2> DEFINE v == ReadMemory(n)
             b == Power[n * ByteBits]
  <2>1. v \in Int /\ b \in Nat \ {0}
    BY <1>7, <1>8, <1>9
  <2>2. SignOf(v, n * ByteBits) = v % b \/ SignOf(v, n * ByteBits) = (v % b) - b
    BY DEF SignOf
  <2> HIDE DEF v, b
  <2>3. v % b \in Int /\ (v % b) - b \in Int
    BY <2>1, Euclid
  <2>4. SignOf(v, n * ByteBits) \in Int
    BY <2>2, <2>3
  <2>5. Wrap(SignOf(v, n * ByteBits)) \in Number
    BY <2>4, WrapIs
  <2> QED
    BY <2>5 DEF v
<1> QED
  BY <1>9, <1>10 DEF Loaded

-------------------------------------------------------------------------------
(* The inductive invariant: from the Fetch of an instruction to its         *)
(* WriteBack, what every stage left for the next is a function of the       *)
(* instruction and of the machine at the Fetch, and of nothing older.       *)

Operand1 == start.registers[w.rs1]
Operand2 == IF w.op \in {3, 35, 19, 55, 23, 103} THEN Wrap(ImmGenerator(w))
            ELSE start.registers[w.rs2]
Result   == execute(GetAluSignal, Operand1, Operand2)

Located ==
  stage # "fetch" =>
    /\ start.pc \in Number /\ start.pc % 4 = 0 /\ start.pc \div 4 + 1 \in 1 .. Len(program)
    /\ w = generateMachineCode(Current)
    /\ registers_ = start.registers

Decoded ==
  stage \in {"execute", "memory", "writeback"} =>
    control_unit_ = SetControlSignals(w.op) /\ w.op \notin {42, 63}

Counted == stage \in {"decode", "execute"} => program_counter_ = Wrap(start.pc + 4)

Executed ==
  stage \in {"memory", "writeback"} =>
    /\ Result # Crash
    /\ execution_result_ = (IF w.op = 23 THEN Wrap(start.pc + ShiftedImm) ELSE Result)
    /\ w.op \in {103, 111} => next_pc_ = Wrap(start.pc + 4)
    /\ program_counter_ =
         CASE w.op = 103                       -> Result
           [] w.op = 111                       -> Wrap(start.pc + ImmGenerator(w))
           [] w.op = 99 /\ BranchFlag(Result)  -> Wrap(start.pc + ImmGenerator(w))
           [] OTHER                            -> Wrap(start.pc + 4)

Stored(m) ==
  [i \in DOMAIN m |->
     IF i \in execution_result_ .. execution_result_ + Width - 1
     THEN (start.registers[w.rs2] \div Power[ByteBits * (i - execution_result_)]) % Power[ByteBits]
     ELSE m[i]]

Accessed ==
  /\ stage \notin {"fetch", "writeback"} => memory = start.memory
  /\ stage = "writeback" =>
       /\ w.op \in {3, 35} => Reaches(Width)
       /\ w.op = 3 => memory_result_ = Loaded
       /\ memory = IF w.op = 35 THEN Stored(start.memory) ELSE start.memory

DInv ==
  TypeOK /\ program \in Programs /\ Located /\ Decoded /\ Counted /\ Executed /\ Accessed

(* The instruction in the stages is one that the parser accepts. *)
LEMMA CurrentAccepted ==
  ASSUME program \in Programs, Located, stage # "fetch"
  PROVE  Accepted(Current)
<1>1. start.pc \div 4 + 1 \in 1 .. Len(program)
  BY DEF Located
<1>2. \A i \in 1 .. Len(program) : Accepted(program[i])
  BY DatapathAssumption, Zenon
<1> QED
  BY <1>1, <1>2, Zenon DEF Current

LEMMA FieldTypes ==
  ASSUME w \in WordFields
  PROVE  /\ w.rs1 \in Registers /\ w.rs2 \in Registers /\ w.rd \in Registers
         /\ ImmGenerator(w) \in Int
<1>1. w.rs1 \in Registers /\ w.rs2 \in Registers /\ w.rd \in Registers
  BY DEF WordFields, Registers
<1> DEFINE f7  == w.f7
           rs2 == w.rs2
           rs1 == w.rs1
           f3  == w.f3
           rd  == w.rd
<1>2. f7 \in Int /\ rs2 \in Int /\ rs1 \in Int /\ f3 \in Int /\ rd \in Int
  BY DEF WordFields
<1> DEFINE i == f7 * 32 + rs2
           s == f7 * 32 + rd
           v == f7 * 8192 + rs2 * 256 + rs1 * 8 + f3
           b == 2 * (rd \div 2 + Bits(f7, 1, 64) * 16 + Bits(rd, 1, 2) * 1024
                     + Bits(f7, 64, 2) * 2048)
           j == 2 * (rs2 \div 2 + Bits(f7, 1, 64) * 16 + Bits(rs2, 1, 2) * 1024
                     + (rs1 * 8 + f3) * 2048 + Bits(f7, 64, 2) * 524288)
<1>3. /\ ImmI(w) = sign_extend(i, 2048) /\ ImmS(w) = sign_extend(s, 2048) /\ ImmU(w) = v
      /\ ImmB(w) = sign_extend(b, 4096) /\ ImmJ(w) = sign_extend(j, 1048576)
  BY SMT DEF ImmI, ImmS, ImmU, ImmB, ImmJ
<1> HIDE DEF f7, rs2, rs1, f3, rd
<1>4. i \in Int /\ s \in Int /\ v \in Int
  BY <1>2, SMT
<1>5. \A n \in Int :
        /\ Bits(n, 1, 64) \in Int /\ Bits(n, 64, 2) \in Int /\ Bits(n, 1, 2) \in Int
        /\ n \div 2 \in Int
  BY SMT DEF Bits
<1>6. /\ rd \div 2 \in Int /\ rs2 \div 2 \in Int /\ Bits(f7, 1, 64) \in Int
      /\ Bits(rd, 1, 2) \in Int /\ Bits(rs2, 1, 2) \in Int /\ Bits(f7, 64, 2) \in Int
  BY <1>2, <1>5
<1>7. b \in Int /\ j \in Int
  BY <1>2, <1>6, SMT
<1> HIDE DEF i, s, v, b, j
<1>8. ImmI(w) \in Int /\ ImmS(w) \in Int /\ ImmU(w) \in Int /\ ImmB(w) \in Int /\ ImmJ(w) \in Int
  BY <1>3, <1>4, <1>7, SMT DEF sign_extend
<1>9. ImmGenerator(w) \in {ImmI(w), ImmS(w), ImmB(w), ImmU(w), ImmJ(w), 0}
  BY DEF ImmGenerator
<1> QED
  BY <1>1, <1>8, <1>9

LEMMA ShiftedImmIs ==
  ASSUME w \in WordFields
  PROVE  ShiftedImm \in Number
<1>1. ImmGenerator(w) \in Int
  BY FieldTypes
<1>2. sign_extend(ImmGenerator(w), 524288) * 4096 \in Int
  BY <1>1, SMT DEF sign_extend
<1> QED
  BY <1>2, WrapIs DEF ShiftedImm

(* Register 0 reads as it is held. *)
LEMMA Reads ==
  ASSUME TypeOK, NEW r \in Registers
  PROVE  ReadGpr(r) = registers_[r] /\ ReadGpr(r) \in Number
BY DEF TypeOK, ReadGpr

LEMMA OperandsTyped ==
  ASSUME TypeOK, registers_ = start.registers
  PROVE  /\ Operand1 \in Number /\ Operand2 \in Number
         /\ Result \in Number \/ Result = Crash
         /\ ReadGpr(w.rs1) = Operand1 /\ ReadGpr(w.rs2) = start.registers[w.rs2]
<1>1. w \in WordFields /\ start.registers \in [Registers -> Number]
  BY DEF TypeOK, WordFields
<1>2. /\ w.rs1 \in Registers /\ w.rs2 \in Registers /\ ImmGenerator(w) \in Int
  BY <1>1, FieldTypes
<1>3. Operand1 \in Number /\ Operand2 \in Number
  BY <1>1, <1>2, WrapIs DEF Operand1, Operand2
<1>4. Result \in Number \/ Result = Crash
  BY <1>3, AluTyped DEF Result
<1> QED
  BY <1>2, <1>3, <1>4, Reads DEF Operand1

(* The value that Execute hands to the ALU. *)
LEMMA AluSource ==
  ASSUME control_unit_ = SetControlSignals(w.op)
  PROVE  /\ Signal("alu_src") <=> w.op \in {3, 35, 19, 55, 23, 103}
         /\ Signal("reg_write") <=> w.op \in {51, 3, 19, 55, 23, 111, 103}
         /\ Signal("mem_write") <=> w.op = 35
         /\ Signal("mem_read") <=> w.op \in {3, 42}
BY DEF Signal, SetControlSignals

(* The pc of the instruction itself, from the one that Fetch counted up. *)
LEMMA Relative ==
  ASSUME NEW p \in Int, NEW n \in Int
  PROVE  Wrap((Wrap(p + 4) - 4) + n) = Wrap(p + n)
<1>1. Wrap(p + 4) \in Int
  BY WrapIs, Widths DEF Number
<1>2. (Wrap(p + 4) - 4) + n = Wrap(p + 4) + (n - 4)
  BY <1>1
<1>3. Wrap(Wrap(p + 4) + (n - 4)) = Wrap((p + 4) + (n - 4))
  BY WrapSum
<1>4. (p + 4) + (n - 4) = p + n
  OBVIOUS
<1> QED
  BY <1>2, <1>3, <1>4

-------------------------------------------------------------------------------
(* The invariant is inductive. *)

LEMMA DInvInit ==
  ASSUME Init
  PROVE  DInv
<1>1. 0 \in Number
  BY Widths DEF Number
<1>2. registers_ \in [Registers -> Number] /\ registers_[0] = 0
  <2>1. PICK p \in Operands :
          registers_ = [r \in Registers |-> IF r = First THEN p[1] ELSE IF r = Second THEN p[2] ELSE 0]
    BY DEF Init
  <2>2. p[1] \in Number /\ p[2] \in Number /\ First # 0 /\ Second # 0
    BY DatapathAssumption
  <2>3. 0 \in Registers
    BY DEF Registers
  <2> QED
    BY <1>1, <2>1, <2>2, <2>3
<1>3. Fields(0, 0, 0, 0, 0, 0) \in WordFields
  BY DEF Fields, WordFields
<1>4. TypeOK
  BY <1>1, <1>2, <1>3, DatapathAssumption DEF Init, TypeOK, WordFields, w
<1> QED
  BY <1>4 DEF Init, DInv, Located, Decoded, Counted, Executed, Accessed

LEMMA FetchInv ==
  ASSUME DInv, Fetch
  PROVE  DInv'
<1> DEFINE i == program_counter_ \div 4 + 1
           u == program[i]
<1>1. program_counter_ \in Nat /\ program_counter_ \in Number /\ Len(program) \in Nat
  BY Widths, DatapathAssumption DEF DInv, TypeOK, Number
<1>2. i \in 1 .. Len(program)
  BY <1>1 DEF Fetch, Running
<1>3. Accepted(u)
  <2> HIDE DEF i
  <2>1. \A j \in 1 .. Len(program) : Accepted(program[j])
    BY DatapathAssumption, Zenon DEF DInv
  <2> QED
    BY <1>2, <2>1, Zenon
<1>4. w' = generateMachineCode(u)
  BY DEF Fetch, w
<1>5. w' \in WordFields
  BY <1>3, <1>4, CodeFits
<1>6. Wrap(program_counter_ + 4) \in Number
  BY <1>1, WrapIs
<1>7. TypeOK'
  BY <1>5, <1>6 DEF DInv, TypeOK, Fetch, stageRegisters, WordFields
<1>8. /\ start' = [registers |-> registers_, memory |-> memory, pc |-> program_counter_,
                   bases |-> bigmul_unit]
      /\ program' = program /\ registers_' = registers_ /\ memory' = memory /\ stage' = "decode"
      /\ program_counter_' = Wrap(program_counter_ + 4)
  BY DEF Fetch
<1>9. Located'
  <2>1. Current' = u
    BY <1>8 DEF Current
  <2> HIDE DEF u
  <2>2. start'.pc = program_counter_ /\ start'.registers = registers_
    BY <1>8
  <2>3. program_counter_ % 4 = 0
    BY DEF Fetch
  <2> QED
    BY <1>1, <1>2, <1>4, <1>8, <2>1, <2>2, <2>3 DEF Located
<1>10. Counted' /\ Accessed'
  BY <1>8 DEF Counted, Accessed
<1>11. Decoded' /\ Executed'
  BY <1>8 DEF Decoded, Executed
<1>12. program' \in Programs
  BY <1>8 DEF DInv
<1> QED
  BY <1>7, <1>9, <1>10, <1>11, <1>12 DEF DInv

LEMMA DecodeInv ==
  ASSUME DInv, Decode
  PROVE  DInv'
<1>1. /\ program' = program /\ program_counter_' = program_counter_ /\ w' = w
      /\ registers_' = registers_ /\ memory' = memory /\ start' = start
      /\ execution_result_' = execution_result_ /\ memory_result_' = memory_result_
      /\ next_pc_' = next_pc_ /\ branch_flag_' = branch_flag_
      /\ control_unit_' = SetControlSignals(w.op)
      /\ stage = "decode"
  BY DEF Decode, stageRegisters, w
<1>2. stage' \in {"execute", "killed", "unit"} /\ (stage' = "execute" => w.op \notin {42, 63})
  BY DEF Decode
<1>3. TypeOK'
  BY <1>1, <1>2 DEF DInv, TypeOK
<1>4. Current' = Current
  BY <1>1 DEF Current
<1>5. Located'
  BY <1>1, <1>4 DEF DInv, Located
<1>6. Decoded' /\ Counted' /\ Accessed'
  BY <1>1, <1>2 DEF DInv, Decoded, Counted, Accessed
<1>7. Executed'
  BY <1>2 DEF Executed
<1> QED
  BY <1>1, <1>3, <1>5, <1>6, <1>7 DEF DInv

(* What Execute does, in terms of the machine at the Fetch. *)
LEMMA ExecuteStep ==
  ASSUME DInv, Execute
  PROVE  /\ program' = program /\ w' = w /\ registers_' = registers_ /\ memory' = memory
         /\ control_unit_' = control_unit_ /\ bigmul_unit' = bigmul_unit /\ start' = start
         /\ stage = "execute" /\ memory_result_' = memory_result_
         /\ \/ /\ Result = Crash /\ stage' = "killed"
               /\ UNCHANGED <<program_counter_, stageRegisters>>
            \/ /\ Result # Crash /\ stage' = "memory"
               /\ execution_result_' = (IF w.op = 23 THEN Wrap(start.pc + ShiftedImm) ELSE Result)
               /\ next_pc_' = (IF w.op \in {111, 103} THEN Wrap(start.pc + 4) ELSE next_pc_)
               /\ program_counter_' =
                    CASE w.op = 103                       -> Result
                      [] w.op = 111                       -> Wrap(start.pc + ImmGenerator(w))
                      [] w.op = 99 /\ BranchFlag(Result)  -> Wrap(start.pc + ImmGenerator(w))
                      [] OTHER                            -> Wrap(start.pc + 4)
<1> DEFINE imm    == ImmGenerator(w)
           here   == program_counter_ - 4
           second == IF Signal("alu_src") THEN Wrap(imm) ELSE ReadGpr(w.rs2)
           result == execute(GetAluSignal, ReadGpr(w.rs1), second)
<1>1. stage = "execute" /\ TypeOK /\ registers_ = start.registers
      /\ control_unit_ = SetControlSignals(w.op) /\ program_counter_ = Wrap(start.pc + 4)
      /\ start.pc \in Number
  BY DEF DInv, Execute, Located, Decoded, Counted
<1>2. /\ ReadGpr(w.rs1) = Operand1 /\ second = Operand2
  <2>1. ReadGpr(w.rs1) = Operand1 /\ ReadGpr(w.rs2) = start.registers[w.rs2]
    BY <1>1, OperandsTyped
  <2>2. Signal("alu_src") <=> w.op \in {3, 35, 19, 55, 23, 103}
    BY <1>1, AluSource
  <2> QED
    BY <2>1, <2>2 DEF Operand2
<1>3. result = Result
  BY <1>2 DEF Result
<1>4. Wrap(here + ShiftedImm) = Wrap(start.pc + ShiftedImm) /\ Wrap(here + imm) = Wrap(start.pc + imm)
  <2>1. w \in WordFields
    BY <1>1 DEF TypeOK, WordFields
  <2>2. start.pc \in Int /\ ShiftedImm \in Int /\ ImmGenerator(w) \in Int
    BY <1>1, <2>1, FieldTypes, ShiftedImmIs, Widths DEF Number
  <2> QED
    BY <1>1, <2>2, Relative
<1> DEFINE branch == BranchFlag(result)
<1>5. /\ stage = "execute"
      /\ \/ /\ result = Crash
            /\ stage' = "killed"
            /\ UNCHANGED <<program_counter_, stageRegisters>>
         \/ /\ result # Crash
            /\ stage' = "memory"
            /\ execution_result_' = IF w.op = 23 THEN Wrap(here + ShiftedImm) ELSE result
            /\ next_pc_' = IF w.op \in {111, 103} THEN program_counter_ ELSE next_pc_
            /\ branch_flag_' = IF w.op = 99 THEN branch ELSE branch_flag_
            /\ program_counter_' =
                 CASE w.op = 103                -> result
                   [] w.op = 111                -> Wrap(here + imm)
                   [] w.op = 99 /\ branch_flag_' -> Wrap(here + imm)
                   [] OTHER                     -> program_counter_
            /\ UNCHANGED memory_result_
      /\ UNCHANGED <<program, current_instruction_, registers_, memory, control_unit_, bigmul_unit,
                     start>>
  BY Zenon DEF Execute
<1> HIDE DEF imm, here, second, result
<1>6. /\ program' = program /\ w' = w /\ registers_' = registers_ /\ memory' = memory
      /\ control_unit_' = control_unit_ /\ bigmul_unit' = bigmul_unit /\ start' = start
      /\ stage = "execute" /\ memory_result_' = memory_result_
  BY <1>5 DEF w, stageRegisters
<1>7. CASE result = Crash
  BY <1>3, <1>5, <1>6, <1>7
<1>8. CASE result # Crash
  <2>1. /\ stage' = "memory"
        /\ execution_result_' = IF w.op = 23 THEN Wrap(here + ShiftedImm) ELSE result
        /\ next_pc_' = IF w.op \in {111, 103} THEN program_counter_ ELSE next_pc_
        /\ branch_flag_' = IF w.op = 99 THEN branch ELSE branch_flag_
        /\ program_counter_' =
             CASE w.op = 103                -> result
               [] w.op = 111                -> Wrap(here + imm)
               [] w.op = 99 /\ branch_flag_' -> Wrap(here + imm)
               [] OTHER                     -> program_counter_
    BY <1>5, <1>8
  <2>2. program_counter_' =
          CASE w.op = 103                       -> Result
            [] w.op = 111                       -> Wrap(start.pc + ImmGenerator(w))
            [] w.op = 99 /\ BranchFlag(Result)  -> Wrap(start.pc + ImmGenerator(w))
            [] OTHER                            -> Wrap(start.pc + 4)
    <3>1. w.op = 99 => branch_flag_' = BranchFlag(Result)
      BY <1>3, <2>1
    <3>2. Wrap(here + imm) = Wrap(start.pc + ImmGenerator(w))
      BY <1>4 DEF imm
    <3>3. CASE w.op = 103
      BY <1>3, <2>1, <3>3
    <3>4. CASE w.op = 111
      BY <2>1, <3>2, <3>4
    <3>5. CASE w.op = 99
      BY <1>1, <2>1, <3>1, <3>2, <3>5
    <3>6. CASE w.op \notin {99, 103, 111}
      BY <1>1, <2>1, <3>6
    <3> QED
      BY <3>3, <3>4, <3>5, <3>6
  <2> QED
    BY <1>1, <1>3, <1>4, <1>6, <1>8, <2>1, <2>2
<1> QED
  BY <1>7, <1>8

(* What is read in the instruction stays, as long as the instruction does.  *)
LEMMA SignalFrame ==
  ASSUME w' = w
  PROVE  GetAluSignal' = GetAluSignal
<1>1. \A s, t, m : Funct7(s, t, m)' = Funct7(s, t, m)
  BY DEF Funct7
<1>2. RSignal' = RSignal
  BY DEF RSignal, Funct7
<1>3. ISignal' = ISignal /\ BSignal' = BSignal
  BY DEF ISignal, BSignal, Funct7
<1>4. WordISignal' = WordISignal
  BY DEF WordISignal, Funct7
<1>5. WordSignal' = WordSignal
  BY DEF WordSignal, Funct7
<1> QED
  BY <1>2, <1>3, <1>4, <1>5 DEF GetAluSignal

LEMMA ExecuteFrame ==
  ASSUME w' = w, start' = start
  PROVE  /\ Result' = Result /\ ShiftedImm' = ShiftedImm /\ BranchFlag(Result)' = BranchFlag(Result)
<1>1. Operand1' = Operand1 /\ Operand2' = Operand2
  BY DEF Operand1, Operand2
<1>2. Result' = Result
  BY <1>1, SignalFrame DEF Result
<1> QED
  BY <1>2 DEF BranchFlag, ShiftedImm

LEMMA LoadFrame ==
  ASSUME w' = w, memory' = memory, execution_result_' = execution_result_
  PROVE  Loaded' = Loaded
<1>1. Width' = Width
  BY DEF Width
<1>2. ReadMemory(Width)' = ReadMemory(Width)
  BY <1>1 DEF ReadMemory
<1> QED
  BY <1>1, <1>2 DEF Loaded

LEMMA ExecuteInv ==
  ASSUME DInv, Execute
  PROVE  DInv'
<1>1. /\ program' = program /\ w' = w /\ registers_' = registers_ /\ memory' = memory
      /\ control_unit_' = control_unit_ /\ start' = start
      /\ stage = "execute" /\ memory_result_' = memory_result_
  BY ExecuteStep
<1>2. /\ TypeOK /\ Located /\ Decoded /\ Accessed /\ program \in Programs
      /\ registers_ = start.registers /\ memory = start.memory /\ start.pc \in Number
  BY <1>1 DEF DInv, Located, Accessed
<1>3. w \in WordFields
  BY <1>2 DEF TypeOK, WordFields
<1>4. Current' = Current
  BY <1>1 DEF Current
<1>5. Result' = Result /\ ShiftedImm' = ShiftedImm /\ BranchFlag(Result)' = BranchFlag(Result)
  BY <1>1, ExecuteFrame
<1>6. CASE stage' = "killed"
  <2>1. UNCHANGED <<program_counter_, stageRegisters>>
    BY <1>6, ExecuteStep
  <2>2. TypeOK'
    BY <1>1, <1>2, <1>6, <2>1 DEF TypeOK, stageRegisters
  <2>3. Located'
    BY <1>1, <1>2, <1>4 DEF Located
  <2>4. Decoded' /\ Counted' /\ Accessed' /\ Executed'
    BY <1>1, <1>2, <1>6 DEF Decoded, Counted, Accessed, Executed
  <2> QED
    BY <1>1, <1>2, <2>2, <2>3, <2>4 DEF DInv
<1>7. CASE stage' = "memory"
  <2>1. /\ Result # Crash
        /\ execution_result_' = (IF w.op = 23 THEN Wrap(start.pc + ShiftedImm) ELSE Result)
        /\ next_pc_' = (IF w.op \in {111, 103} THEN Wrap(start.pc + 4) ELSE next_pc_)
        /\ program_counter_' =
             CASE w.op = 103                       -> Result
               [] w.op = 111                       -> Wrap(start.pc + ImmGenerator(w))
               [] w.op = 99 /\ BranchFlag(Result)  -> Wrap(start.pc + ImmGenerator(w))
               [] OTHER                            -> Wrap(start.pc + 4)
    BY <1>7, ExecuteStep
  <2>2. /\ Wrap(start.pc + ShiftedImm) \in Number /\ Wrap(start.pc + 4) \in Number
        /\ Wrap(start.pc + ImmGenerator(w)) \in Number /\ Result \in Number
    <3>1. start.pc \in Int /\ ShiftedImm \in Int /\ ImmGenerator(w) \in Int
      BY <1>2, <1>3, ShiftedImmIs, FieldTypes, Widths DEF Number
    <3>2. /\ start.pc + ShiftedImm \in Int /\ start.pc + 4 \in Int
          /\ start.pc + ImmGenerator(w) \in Int
      BY <3>1
    <3> QED
      BY <1>2, <2>1, <3>2, WrapIs, OperandsTyped
  <2>3. program_counter_' \in Number /\ execution_result_' \in Number /\ next_pc_' \in Number
    <3>1. next_pc_ \in Number
      BY <1>2 DEF TypeOK
    <3>2. execution_result_' \in Number /\ next_pc_' \in Number
      BY <2>1, <2>2, <3>1
    <3>3. program_counter_' \in {Result, Wrap(start.pc + ImmGenerator(w)), Wrap(start.pc + 4)}
      BY <2>1
    <3> QED
      BY <2>2, <3>2, <3>3
  <2>4. TypeOK'
    BY <1>1, <1>2, <1>7, <2>3 DEF TypeOK
  <2>5. Located'
    BY <1>1, <1>2, <1>4 DEF Located
  <2>6. Decoded'
    BY <1>1, <1>2 DEF Decoded
  <2>7. Counted' /\ Accessed'
    BY <1>1, <1>2, <1>7 DEF Counted, Accessed
  <2>8. Executed'
    <3> DEFINE b == BranchFlag(Result)
               r == Result
               s == ShiftedImm
    <3>1. /\ r' = r /\ s' = s /\ b' = b
      BY <1>5
    <3>2. Executed' <=>
            (stage' \in {"memory", "writeback"} =>
               /\ r' # Crash
               /\ execution_result_' = (IF w'.op = 23 THEN Wrap(start'.pc + s') ELSE r')
               /\ w'.op \in {103, 111} => next_pc_' = Wrap(start'.pc + 4)
               /\ program_counter_' =
                    CASE w'.op = 103      -> r'
                      [] w'.op = 111      -> Wrap(start'.pc + ImmGenerator(w'))
                      [] w'.op = 99 /\ b'  -> Wrap(start'.pc + ImmGenerator(w'))
                      [] OTHER           -> Wrap(start'.pc + 4))
      BY Zenon DEF Executed
    <3>3. program_counter_' =
            CASE w'.op = 103      -> r'
              [] w'.op = 111      -> Wrap(start'.pc + ImmGenerator(w'))
              [] w'.op = 99 /\ b'  -> Wrap(start'.pc + ImmGenerator(w'))
              [] OTHER           -> Wrap(start'.pc + 4)
      BY <1>1, <2>1, <3>1
    <3> QED
      BY <1>1, <2>1, <3>1, <3>2, <3>3
  <2> QED
    BY <1>1, <1>2, <2>4, <2>5, <2>6, <2>7, <2>8 DEF DInv
<1> QED
  BY <1>6, <1>7, ExecuteStep

(* What WriteMemory does: a load, a store, nothing, or the end. *)
LEMMA WriteMemoryStep ==
  ASSUME DInv, WriteMemory
  PROVE  /\ program' = program /\ w' = w /\ registers_' = registers_
         /\ control_unit_' = control_unit_ /\ bigmul_unit' = bigmul_unit /\ start' = start
         /\ program_counter_' = program_counter_ /\ execution_result_' = execution_result_
         /\ next_pc_' = next_pc_ /\ stage = "memory"
         /\ \/ /\ w.op = 3 /\ Reaches(Width) /\ stage' = "writeback"
               /\ memory_result_' = Loaded /\ memory' = start.memory
            \/ /\ w.op = 35 /\ Reaches(Width) /\ stage' = "writeback"
               /\ memory_result_' = memory_result_ /\ memory' = Stored(start.memory)
            \/ /\ w.op \in {3, 35} /\ ~Reaches(Width) /\ stage' = "killed"
               /\ memory_result_' = memory_result_ /\ memory' = memory
            \/ /\ w.op \notin {3, 35} /\ stage' = "writeback"
               /\ memory_result_' = memory_result_ /\ memory' = start.memory
<1>1. /\ stage = "memory" /\ TypeOK /\ registers_ = start.registers /\ memory = start.memory
      /\ control_unit_ = SetControlSignals(w.op) /\ w.op # 42
  BY DEF DInv, WriteMemory, Located, Decoded, Accessed
<1>2. (Signal("mem_read") <=> w.op = 3) /\ (Signal("mem_write") <=> w.op = 35)
  BY <1>1, AluSource
<1>3. ReadGpr(w.rs2) = start.registers[w.rs2]
  BY <1>1, OperandsTyped
<1> DEFINE stored ==
             [i \in DOMAIN memory |->
                IF i \in execution_result_ .. execution_result_ + Width - 1
                THEN (ReadGpr(w.rs2) \div Power[ByteBits * (i - execution_result_)]) % Power[ByteBits]
                ELSE memory[i]]
<1>4. stored = Stored(start.memory)
  BY <1>1, <1>3 DEF Stored
<1>5. \/ /\ Signal("mem_read") /\ Reaches(Width)
         /\ memory_result_' = Loaded
         /\ stage' = "writeback" /\ UNCHANGED memory
      \/ /\ Signal("mem_write") /\ Reaches(Width)
         /\ memory' = stored
         /\ stage' = "writeback" /\ UNCHANGED memory_result_
      \/ /\ Signal("mem_read") \/ Signal("mem_write")
         /\ ~Reaches(Width)
         /\ stage' = "killed" /\ UNCHANGED <<memory, memory_result_>>
      \/ /\ ~Signal("mem_read") /\ ~Signal("mem_write")
         /\ stage' = "writeback" /\ UNCHANGED <<memory, memory_result_>>
  BY Zenon DEF WriteMemory
<1> HIDE DEF stored
<1>6. /\ program' = program /\ w' = w /\ registers_' = registers_
      /\ control_unit_' = control_unit_ /\ bigmul_unit' = bigmul_unit /\ start' = start
      /\ program_counter_' = program_counter_ /\ execution_result_' = execution_result_
      /\ next_pc_' = next_pc_
  BY DEF WriteMemory, w
<1> QED
  BY <1>1, <1>2, <1>4, <1>5, <1>6

LEMMA StoredFits ==
  ASSUME DInv, stage = "memory"
  PROVE  Stored(start.memory) \in [0 .. MemorySize - 1 -> 0 .. Power[ByteBits] - 1]
<1>1. /\ TypeOK /\ memory = start.memory /\ registers_ = start.registers
  BY DEF DInv, Accessed, Located
<1>2. start.memory \in [0 .. MemorySize - 1 -> 0 .. Power[ByteBits] - 1]
  BY <1>1 DEF TypeOK
<1>3. w.rs2 \in Registers
  BY <1>1, FieldTypes DEF TypeOK, WordFields
<1>4. start.registers[w.rs2] \in Nat
  BY <1>1, <1>3, Widths DEF TypeOK, Number
<1> DEFINE n == Width
           a == execution_result_
           v == start.registers[w.rs2]
           q == Power[ByteBits]
<1>5. /\ XLEN \in Nat /\ ByteBits \in Nat \ {0} /\ 8 * ByteBits = XLEN /\ n \in {1, 2, 4, 8}
      /\ a \in Nat
  <2>1. XLEN \in Nat /\ ByteBits \in Nat \ {0} /\ 8 * ByteBits = XLEN
    BY WidthAssumption DEF ByteBits
  <2>2. n \in {1, 2, 4, 8}
    BY DEF Width
  <2>3. a \in Nat
    BY <1>1, Widths DEF TypeOK, Number
  <2> QED
    BY <2>1, <2>2, <2>3
<1>6. q \in Nat \ {0}
  BY <1>5, PowerIs
<1>7. ASSUME NEW i \in DOMAIN start.memory
      PROVE  Stored(start.memory)[i] \in 0 .. q - 1
  <2>1. i \in Int
    <3>1. i \in 0 .. MemorySize - 1 /\ MemorySize \in Nat
      BY <1>2, DatapathAssumption
    <3> QED
      BY <3>1
  <2>2. CASE i \in a .. a + n - 1
    <3> DEFINE p == Power[ByteBits * (i - a)]
    <3>1. ByteBits * (i - a) \in 0 .. XLEN
      <4> DEFINE b == ByteBits
                 k == i - a
      <4> HIDE DEF n
      <4>1. b \in Nat /\ 8 * b = XLEN /\ k \in 0 .. 8
        BY <1>5, <2>1, <2>2
      <4> HIDE DEF b, k
      <4>2. b * k >= 0 /\ b * k <= 8 * b /\ b * k \in Int
        BY <4>1
      <4> QED
        BY <1>5, <4>1, <4>2 DEF b, k
    <3>2. p \in Nat \ {0}
      BY <3>1, PowerIs
    <3>3. (v \div p) % q \in 0 .. q - 1
      <4> HIDE DEF v, p, q
      <4>1. v \in Int
        BY <1>4 DEF v
      <4>2. v \div p \in Int
        BY <3>2, <4>1, Euclid
      <4> QED
        BY <1>6, <4>2, Euclid
    <3>4. Stored(start.memory)[i] = (v \div p) % q
      BY <2>2 DEF Stored
    <3> QED
      BY <3>3, <3>4
  <2>3. CASE i \notin a .. a + n - 1
    BY <1>2, <2>3 DEF Stored
  <2> QED
    BY <2>2, <2>3
<1>8. DOMAIN Stored(start.memory) = 0 .. MemorySize - 1
  BY <1>2 DEF Stored
<1>9. Stored(start.memory) = [i \in DOMAIN start.memory |-> Stored(start.memory)[i]]
  BY DEF Stored
<1> QED
  BY <1>2, <1>7, <1>9

LEMMA WriteMemoryInv ==
  ASSUME DInv, WriteMemory
  PROVE  DInv'
<1>1. /\ program' = program /\ w' = w /\ registers_' = registers_
      /\ control_unit_' = control_unit_ /\ start' = start
      /\ program_counter_' = program_counter_ /\ execution_result_' = execution_result_
      /\ next_pc_' = next_pc_ /\ stage = "memory"
  BY WriteMemoryStep
<1>2. /\ TypeOK /\ Located /\ Decoded /\ Executed /\ program \in Programs
      /\ registers_ = start.registers /\ memory = start.memory
  BY <1>1 DEF DInv, Located, Accessed
<1>3. Current' = Current
  BY <1>1 DEF Current
<1>4. Result' = Result /\ ShiftedImm' = ShiftedImm /\ BranchFlag(Result)' = BranchFlag(Result)
  BY <1>1, ExecuteFrame
<1>5. Reaches(Width)' = Reaches(Width)
  BY <1>1 DEF Reaches, Width
<1>6. Stored(start.memory)' = Stored(start.memory)
  BY <1>1 DEF Stored, Width
<1>7. stage' \in {"writeback", "killed"}
  BY WriteMemoryStep
<1>8. /\ memory' \in [0 .. MemorySize - 1 -> 0 .. Power[ByteBits] - 1]
      /\ memory_result_' \in Number
  <2>1. /\ memory \in [0 .. MemorySize - 1 -> 0 .. Power[ByteBits] - 1]
        /\ memory_result_ \in Number /\ execution_result_ \in Number
    BY <1>2 DEF TypeOK
  <2>2. Reaches(Width) => Loaded \in Number
    BY <2>1, LoadedFits
  <2>3. Stored(start.memory) \in [0 .. MemorySize - 1 -> 0 .. Power[ByteBits] - 1]
    BY <1>1, StoredFits
  <2> QED
    BY <1>2, <2>1, <2>2, <2>3, WriteMemoryStep
<1>9. TypeOK'
  BY <1>1, <1>2, <1>7, <1>8 DEF TypeOK
<1>10. Located'
  BY <1>1, <1>2, <1>3 DEF Located
<1>11. Decoded' /\ Counted'
  BY <1>1, <1>2, <1>7 DEF Decoded, Counted
<1>12. Executed'
  <2> DEFINE b == BranchFlag(Result)
             r == Result
             s == ShiftedImm
  <2>1. r' = r /\ s' = s /\ b' = b
    BY <1>4
  <2>2. /\ r # Crash
        /\ execution_result_ = (IF w.op = 23 THEN Wrap(start.pc + s) ELSE r)
        /\ w.op \in {103, 111} => next_pc_ = Wrap(start.pc + 4)
        /\ program_counter_ =
             CASE w.op = 103      -> r
               [] w.op = 111      -> Wrap(start.pc + ImmGenerator(w))
               [] w.op = 99 /\ b  -> Wrap(start.pc + ImmGenerator(w))
               [] OTHER           -> Wrap(start.pc + 4)
    BY <1>1, <1>2, Zenon DEF Executed
  <2>3. Executed' <=>
          (stage' \in {"memory", "writeback"} =>
             /\ r' # Crash
             /\ execution_result_' = (IF w'.op = 23 THEN Wrap(start'.pc + s') ELSE r')
             /\ w'.op \in {103, 111} => next_pc_' = Wrap(start'.pc + 4)
             /\ program_counter_' =
                  CASE w'.op = 103      -> r'
                    [] w'.op = 111      -> Wrap(start'.pc + ImmGenerator(w'))
                    [] w'.op = 99 /\ b' -> Wrap(start'.pc + ImmGenerator(w'))
                    [] OTHER            -> Wrap(start'.pc + 4))
    BY Zenon DEF Executed
  <2>4. program_counter_' =
          CASE w'.op = 103      -> r'
            [] w'.op = 111      -> Wrap(start'.pc + ImmGenerator(w'))
            [] w'.op = 99 /\ b' -> Wrap(start'.pc + ImmGenerator(w'))
            [] OTHER            -> Wrap(start'.pc + 4)
    BY <1>1, <2>1, <2>2
  <2> QED
    BY <1>1, <2>1, <2>2, <2>3, <2>4
<1>13. Accessed'
  <2>1. CASE stage' = "killed"
    BY <1>1, <1>2, <2>1, WriteMemoryStep DEF Accessed
  <2>2. CASE stage' = "writeback"
    <3>1. w.op \in {3, 35} => Reaches(Width)
      BY <2>2, WriteMemoryStep
    <3>2. w.op = 3 => memory_result_' = Loaded'
      <4> SUFFICES ASSUME w.op = 3 PROVE memory_result_' = Loaded'
        OBVIOUS
      <4>1. memory_result_' = Loaded /\ memory' = start.memory
        BY <2>2, WriteMemoryStep
      <4>2. Loaded' = Loaded
        BY <1>1, <1>2, <4>1, LoadFrame
      <4> QED
        BY <4>1, <4>2
    <3>3. memory' = IF w.op = 35 THEN Stored(start.memory) ELSE start.memory
      BY <2>2, WriteMemoryStep
    <3> QED
      BY <1>1, <1>5, <1>6, <2>2, <3>1, <3>2, <3>3 DEF Accessed
  <2> QED
    BY <1>7, <2>1, <2>2
<1> QED
  BY <1>1, <1>2, <1>9, <1>10, <1>11, <1>12, <1>13 DEF DInv

LEMMA WriteBackInv ==
  ASSUME DInv, WriteBack
  PROVE  DInv'
<1>1. /\ program' = program /\ w' = w /\ memory' = memory /\ start' = start
      /\ program_counter_' = program_counter_ /\ execution_result_' = execution_result_
      /\ memory_result_' = memory_result_ /\ next_pc_' = next_pc_
      /\ stage = "writeback" /\ stage' = "fetch"
  BY DEF WriteBack, stageRegisters, w
<1>2. /\ TypeOK /\ program \in Programs /\ control_unit_ = SetControlSignals(w.op)
  BY <1>1 DEF DInv, Decoded
<1>3. \A v \in Number : WriteGpr(w.rd, v) \in [Registers -> Number] /\ WriteGpr(w.rd, v)[0] = 0
  <2>1. w.rd \in Registers
    BY <1>2, FieldTypes DEF TypeOK, WordFields
  <2> QED
    BY <1>2, <2>1 DEF WriteGpr, TypeOK
<1>4. ShiftedImm \in Number /\ execution_result_ \in Number /\ memory_result_ \in Number
      /\ next_pc_ \in Number
  BY <1>2, ShiftedImmIs DEF TypeOK, WordFields
<1>5. registers_' \in {registers_, WriteGpr(w.rd, execution_result_), WriteGpr(w.rd, memory_result_),
                       WriteGpr(w.rd, next_pc_), WriteGpr(w.rd, ShiftedImm)}
  <2>1. Signal("reg_write") => w.op \in {51, 3, 19, 55, 23, 111, 103}
    BY <1>2, AluSource
  <2> QED
    BY <2>1 DEF WriteBack
<1>6. registers_' \in [Registers -> Number] /\ registers_'[0] = 0
  BY <1>2, <1>3, <1>4, <1>5 DEF TypeOK
<1>7. TypeOK'
  BY <1>1, <1>2, <1>6 DEF TypeOK
<1>8. Located' /\ Decoded' /\ Counted' /\ Executed' /\ Accessed'
  BY <1>1 DEF Located, Decoded, Counted, Executed, Accessed
<1> QED
  BY <1>1, <1>2, <1>7, <1>8 DEF DInv

LEMMA DInvStutter ==
  ASSUME DInv, UNCHANGED vars
  PROVE  DInv'
<1>1. /\ program' = program /\ stage' = stage /\ program_counter_' = program_counter_ /\ w' = w
      /\ registers_' = registers_ /\ memory' = memory /\ control_unit_' = control_unit_
      /\ execution_result_' = execution_result_ /\ memory_result_' = memory_result_
      /\ next_pc_' = next_pc_ /\ start' = start
  BY DEF vars, stageRegisters, w
<1>2. TypeOK'
  BY <1>1 DEF DInv, TypeOK
<1>3. Located'
  BY <1>1 DEF DInv, Located, Current
<1>4. Decoded' /\ Counted'
  BY <1>1 DEF DInv, Decoded, Counted
<1>5. Executed'
  <2>1. Result' = Result /\ ShiftedImm' = ShiftedImm /\ BranchFlag(Result)' = BranchFlag(Result)
    BY <1>1, ExecuteFrame
  <2>2. Executed
    BY DEF DInv
  <2> QED
    BY <1>1, <2>1, <2>2 DEF Executed
<1>6. Accessed'
  <2>1. Loaded' = Loaded /\ Reaches(Width)' = Reaches(Width)
        /\ Stored(start.memory)' = Stored(start.memory)
    BY <1>1, LoadFrame DEF Reaches, Width, Stored
  <2> QED
    BY <1>1, <2>1 DEF DInv, Accessed
<1> QED
  BY <1>1, <1>2, <1>3, <1>4, <1>5, <1>6 DEF DInv

LEMMA DInvNext ==
  ASSUME DInv, [Next]_vars
  PROVE  DInv'
<1>1. CASE Fetch
  BY <1>1, FetchInv
<1>2. CASE Decode
  BY <1>2, DecodeInv
<1>3. CASE Execute
  BY <1>3, ExecuteInv
<1>4. CASE WriteMemory
  BY <1>4, WriteMemoryInv
<1>5. CASE WriteBack
  BY <1>5, WriteBackInv
<1>6. CASE UNCHANGED vars
  BY <1>6, DInvStutter
<1> QED
  BY <1>1, <1>2, <1>3, <1>4, <1>5, <1>6, Zenon DEF Next

THEOREM Inductive == Spec => []DInv
<1>1. Init => DInv
  BY DInvInit
<1>2. DInv /\ [Next]_vars => DInv'
  BY DInvNext
<1> QED
  BY <1>1, <1>2, PTL DEF Spec

(* In every execution of every program, the registers hold numbers of XLEN  *)
(* bits, register 0 is zero, and every field of an instruction fits its     *)
(* bits: nothing that Execute, WriteMemory or WriteBack compute leaves the  *)
(* width (WriteGpr, execute, generate*MachineCode).                         *)
THEOREM TypeCorrect == Spec => []TypeOK
<1>1. DInv => TypeOK
  BY DEF DInv
<1> QED
  BY <1>1, Inductive, PTL

(* ImmGenerator gives back the immediate of every instruction the parser    *)
(* accepts, whatever its format and sign (ImmediateSurvives).               *)
THEOREM ImmediatesSurvive == Spec => []ImmediateSurvives
<1> DEFINE u == Current
<1>1. ASSUME DInv, stage = "execute", u.op \notin {"addiw", "slliw", "srliw", "sraiw"}
      PROVE  CASE u.op \in DOMAIN UType -> ImmGenerator(w) = u.imm % 1048576
               [] u.op = "srai"         -> ImmGenerator(w) = 1024 + u.imm
               [] u.op \in DOMAIN RType -> ImmGenerator(w) = 0
               [] OTHER                 -> ImmGenerator(w) = u.imm
  <2>1. /\ Accepted(u) /\ w = generateMachineCode(u) /\ w.op \notin {42, 63}
    BY <1>1, CurrentAccepted DEF DInv, Located, Decoded
  <2> HIDE DEF u
  <2>2. Apart(DOMAIN RType, DOMAIN I1Type, DOMAIN I2Type, DOMAIN SType, DOMAIN BType,
              DOMAIN UType, DOMAIN JType)
    BY Mnemonics
  <2> DEFINE r == DOMAIN RType
             v == DOMAIN UType
             Good == CASE u.op \in v      -> ImmGenerator(w) = u.imm % 1048576
                       [] u.op = "srai"   -> ImmGenerator(w) = 1024 + u.imm
                       [] u.op \in r      -> ImmGenerator(w) = 0
                       [] OTHER           -> ImmGenerator(w) = u.imm
  <2>3. "srai" \notin r /\ "srai" \notin v /\ r \cap v = {}
    BY <2>2 DEF RType, UType, Apart
  <2>4. CASE u.op \in Machine!RegisterOps \cup Machine!WordOps
    <3>1. u.op \in r
      BY <2>4 DEF RType, Machine!RegisterOps, Machine!WordOps
    <3>2. w.op \in {51, 59}
      BY <2>1, <2>4, RWords, WordWords
    <3>3. ImmGenerator(w) = 0
      BY <3>2 DEF ImmGenerator
    <3> HIDE DEF r, v
    <3>4. Good
      BY <2>3, <3>1, <3>3, SMT
    <3> QED
      BY <3>4, SMT DEF r, v
  <2>5. CASE u.op \in Machine!ImmediateOps
    <3>1. u.op \notin r /\ u.op \notin v
      BY <2>5 DEF RType, UType, Machine!ImmediateOps
    <3>2. ImmGenerator(w) = (IF u.op = "srai" THEN 1024 + u.imm ELSE u.imm)
      BY <2>1, <2>5, IWords
    <3> HIDE DEF r, v
    <3>3. Good
      BY <3>1, <3>2, SMT
    <3> QED
      BY <3>3, SMT DEF r, v
  <2>6. CASE \/ u.op \in DOMAIN Machine!LoadBytes \/ u.op \in DOMAIN Machine!StoreBytes
             \/ u.op \in BranchOps \/ u.op = "jal" \/ u.op = "jalr"
    <3>1. u.op \notin r /\ u.op \notin v /\ u.op # "srai"
      BY <2>6 DEF RType, UType, Machine!LoadBytes, Machine!StoreBytes, BranchOps
    <3>2. ImmGenerator(w) = u.imm
      BY <2>1, <2>6, LoadWords, StoreWords, BranchWords, JalWords, JalrWords
    <3> HIDE DEF r, v
    <3>3. Good
      BY <3>1, <3>2, SMT
    <3> QED
      BY <3>3, SMT DEF r, v
  <2>7. CASE u.op \in {"lui", "auipc"}
    <3>1. u.op \in v
      BY <2>7 DEF UType
    <3>2. ImmGenerator(w) = u.imm % 1048576
      BY <2>1, <2>7, UpperWords, SMT
    <3> DEFINE m == u.imm % 1048576
               g == ImmGenerator(w)
    <3>3. g = m
      BY <3>2
    <3> HIDE DEF r, v, m, g
    <3>4. (CASE u.op \in v     -> g = m
          [] u.op = "srai"   -> g = 1024 + u.imm
          [] u.op \in r      -> g = 0
          [] OTHER           -> g = u.imm)
      BY <3>1, <3>3, <2>3, SMT
    <3> QED
      BY <3>4, SMT DEF r, v, m, g
  <2>8. u.op \notin {"ldbm", "bigmul"}
    BY <2>1, CoprocessorWords
  <2>9. u.op \notin Machine!WordImmOps
    BY <1>1 DEF Machine!WordImmOps, u
  <2> QED
    BY <2>1, <2>4, <2>5, <2>6, <2>7, <2>8, <2>9, Kinds, SMT
<1> HIDE DEF u
<1>2. DInv => ImmediateSurvives
  BY <1>1, SMT DEF ImmediateSurvives, u
<1> QED
  BY <1>2, Inductive, PTL

-------------------------------------------------------------------------------
(* The refinement: every stage does a step of the architecture, or nothing  *)
(* that the architecture sees.                                              *)

LEMMA RefinedInit ==
  ASSUME Init
  PROVE  Machine!InitIsa
<1>1. stage = "fetch" /\ program_counter_ = 0 /\ registers_[0] = 0
  BY DInvInit DEF Init, DInv, TypeOK
<1> QED
  BY <1>1 DEF Machine!InitIsa, Retired

(* Inside an instruction the architecture stands still. *)
LEMMA Unseen ==
  ASSUME program' = program, bigmul_unit' = bigmul_unit, start' = start,
         {stage, stage'} \subseteq {"decode", "execute", "memory", "writeback"}
  PROVE  UNCHANGED Machine!isaVars
<1>1. /\ ~Retired /\ ~Retired' /\ stage # "killed" /\ stage' # "killed"
      /\ stage # "unit" /\ stage' # "unit"
  BY DEF Retired
<1> QED
  BY <1>1 DEF Machine!isaVars

(* An instruction that ends the process takes effect before WriteBack. *)
LEMMA EndsUnseen ==
  ASSUME program' = program, bigmul_unit' = bigmul_unit, start' = start,
         stage \in {"decode", "execute", "memory"}, stage' = "killed"
  PROVE  /\ (IF stage' = "killed" THEN "crash" ELSE IF stage' = "unit" THEN "unit" ELSE "running")
              = "crash"
         /\ (IF Retired THEN registers_ ELSE start.registers)'
              = (IF Retired THEN registers_ ELSE start.registers)
         /\ (IF Retired THEN program_counter_ ELSE start.pc)'
              = (IF Retired THEN program_counter_ ELSE start.pc)
         /\ (IF Retired THEN memory ELSE start.memory)'
              = (IF Retired THEN memory ELSE start.memory)
BY DEF Retired

(* The instruction in the stages is the one the architecture is at. *)
LEMMA Takes ==
  ASSUME DInv, stage \in {"decode", "execute", "memory", "writeback"},
         \/ Machine!Arithmetic(Current) \/ Machine!Held(Current) \/ Machine!Trap(Current)
         \/ Machine!Branch(Current) \/ Machine!Jump(Current) \/ Machine!Upper(Current)
         \/ Machine!Load(Current) \/ Machine!Store(Current) \/ Machine!Outside(Current)
         \/ Machine!Coprocessor(Current)
  PROVE  Machine!Step
<1>1. ~Retired /\ stage # "killed" /\ stage # "unit"
  BY DEF Retired
<1>2. start.pc \in Nat /\ start.pc % 4 = 0 /\ start.pc \div 4 + 1 \in 1 .. Len(program)
  BY Widths DEF DInv, Located, Number
<1>3. program \in Programs
  BY DEF DInv
<1>4. Len(program) \in Nat
  BY <1>3, DatapathAssumption
<1>5. start.pc < 4 * Len(program)
  BY <1>2, <1>4, SMT
<1> QED
  BY <1>1, <1>2, <1>5 DEF Machine!Step, Current

(* Register r set to v in the registers of the Fetch. *)
Put(r, v) == IF r = 0 THEN start.registers ELSE [start.registers EXCEPT ![r] = v]

LEMMA WriteBackStep ==
  ASSUME DInv, WriteBack
  PROVE  /\ program' = program /\ bigmul_unit' = bigmul_unit /\ start' = start
         /\ program_counter_' = program_counter_
         /\ stage = "writeback" /\ stage' = "fetch" /\ w.op \notin {42, 63}
         /\ memory' = (IF w.op = 35 THEN Stored(start.memory) ELSE start.memory)
         /\ w.op \in {51, 19, 23} => registers_' = Put(w.rd, execution_result_)
         /\ w.op = 3 => Reaches(Width) /\ registers_' = Put(w.rd, Loaded)
         /\ w.op = 35 => Reaches(Width)
         /\ w.op \in {103, 111} => registers_' = Put(w.rd, Wrap(start.pc + 4))
         /\ w.op = 55 => registers_' = Put(w.rd, ShiftedImm)
         /\ w.op \notin {51, 19, 23, 3, 103, 111, 55} => registers_' = start.registers
<1>1. /\ program' = program /\ bigmul_unit' = bigmul_unit /\ start' = start
      /\ program_counter_' = program_counter_ /\ memory' = memory
      /\ stage = "writeback" /\ stage' = "fetch"
  BY DEF WriteBack
<1>2. /\ control_unit_ = SetControlSignals(w.op) /\ w.op \notin {42, 63}
      /\ registers_ = start.registers
      /\ w.op \in {103, 111} => next_pc_ = Wrap(start.pc + 4)
      /\ w.op \in {3, 35} => Reaches(Width)
      /\ w.op = 3 => memory_result_ = Loaded
      /\ memory = IF w.op = 35 THEN Stored(start.memory) ELSE start.memory
  BY <1>1 DEF DInv, Decoded, Located, Executed, Accessed
<1>3. Signal("reg_write") <=> w.op \in {51, 3, 19, 55, 23, 111, 103}
  BY <1>2, AluSource
<1>4. \A v : WriteGpr(w.rd, v) = Put(w.rd, v)
  BY <1>2 DEF WriteGpr, Put
<1>5. /\ w.op \in {51, 19, 23} => registers_' = WriteGpr(w.rd, execution_result_)
      /\ w.op = 3 => registers_' = WriteGpr(w.rd, memory_result_)
      /\ w.op \in {103, 111} => registers_' = WriteGpr(w.rd, next_pc_)
      /\ w.op = 55 => registers_' = WriteGpr(w.rd, ShiftedImm)
      /\ w.op \notin {51, 19, 23, 3, 103, 111, 55} => registers_' = registers_
  BY <1>3 DEF WriteBack
<1> QED
  BY <1>1, <1>2, <1>4, <1>5

(* What the architecture sees of a WriteBack: the registers, the pc and the *)
(* memory change at once.                                                   *)
LEMMA Seen ==
  ASSUME stage = "writeback", stage' = "fetch"
  PROVE  /\ (IF Retired THEN registers_ ELSE start.registers) = start.registers
         /\ (IF Retired THEN registers_ ELSE start.registers)' = registers_'
         /\ (IF Retired THEN program_counter_ ELSE start.pc) = start.pc
         /\ (IF Retired THEN program_counter_ ELSE start.pc)' = program_counter_'
         /\ (IF Retired THEN memory ELSE start.memory) = start.memory
         /\ (IF Retired THEN memory ELSE start.memory)' = memory'
BY DEF Retired

LEMMA InStages ==
  ASSUME DInv, stage \in {"decode", "execute", "memory", "writeback"}
  PROVE  /\ Accepted(Current) /\ w = generateMachineCode(Current) /\ TypeOK
         /\ registers_ = start.registers /\ start.registers \in [Registers -> Number]
         /\ start.pc \in Number
         /\ Operand1 \in Number /\ Operand2 \in Number
<1>1. TypeOK /\ Located /\ program \in Programs
  BY DEF DInv
<1>2. w = generateMachineCode(Current) /\ registers_ = start.registers /\ start.pc \in Number
  BY <1>1 DEF Located
<1>3. Accepted(Current)
  BY <1>1, CurrentAccepted
<1>4. start.registers \in [Registers -> Number]
  BY <1>1, <1>2 DEF TypeOK
<1> QED
  BY <1>1, <1>2, <1>3, <1>4, OperandsTyped

(* The operations with an immediate: srai takes its amount and a bit above  *)
(* the width, which the ALU's mask drops.                                   *)
LEMMA ImmediateResult ==
  ASSUME NEW u, u.op \in Machine!ImmediateOps, Accepted(u), w = generateMachineCode(u),
         Operand1 \in Number
  PROVE  /\ Wrap(u.imm) \in Number
         /\ Result = execute(SignalOf[u.op], Operand1, Wrap(u.imm))
<1>1. /\ w.op = 19 /\ u.imm \in Int /\ GetAluSignal = SignalOf[u.op]
      /\ ImmGenerator(w) = (IF u.op = "srai" THEN 1024 + u.imm ELSE u.imm)
      /\ u.op = "srai" => u.imm \in 0 .. 31
  BY IWords DEF Signed12, Between
<1>2. Operand2 = Wrap(ImmGenerator(w))
  BY <1>1 DEF Operand2
<1>3. CASE u.op # "srai"
  BY <1>1, <1>2, <1>3, WrapIs DEF Result
<1>4. CASE u.op = "srai"
  <2> DEFINE i == u.imm
             a == Operand1
  <2>1. i \in 0 .. 31 /\ i \in Nat
    BY <1>1, <1>4
  <2>2. Operand2 = Wrap(1024 + i) /\ GetAluSignal = "kSra" /\ SignalOf[u.op] = "kSra"
    BY <1>1, <1>2, <1>4 DEF SignalOf
  <2> HIDE DEF i, a
  <2>3. Wrap(i) = i /\ Wrap(1024 + i) = 1024 + i
    <3>1. i \in Number /\ 1024 + i \in Number
      BY <2>1, Widths, SMT DEF Number
    <3> QED
      BY <3>1, <2>1, WrapIs
  <2>4. (1024 + i) % XLEN = i % XLEN
    BY <2>1, WidthAssumption, SMT
  <2>5. execute("kSra", a, 1024 + i) = execute("kSra", a, i)
    BY <2>4 DEF execute, Amount
  <2>6. Wrap(i) \in Number
    BY <2>1, WrapIs
  <2>7. Result = execute("kSra", a, Wrap(1024 + i))
    BY <2>2 DEF Result, a
  <2> QED
    BY <2>2, <2>3, <2>5, <2>6, <2>7 DEF i, a
<1> QED
  BY <1>3, <1>4

LEMMA ArithmeticStep ==
  ASSUME DInv, WriteBack, NEW u, u = Current,
         u.op \in Machine!RegisterOps \cup Machine!ImmediateOps
  PROVE  Machine!Arithmetic(u)
<1>1. stage = "writeback" /\ stage' = "fetch"
  BY WriteBackStep
<1>2. Accepted(u) /\ w = generateMachineCode(u) /\ Operand1 \in Number /\ Operand2 \in Number
  BY <1>1, InStages
<1> DEFINE a == start.registers[u.rs1]
           b == IF u.op \in Machine!RegisterOps THEN start.registers[u.rs2] ELSE Wrap(u.imm)
<1>3. /\ w.op \in {51, 19} /\ w.rd = u.rd /\ Operand1 = a /\ b \in Number
      /\ Result = execute(SignalOf[u.op], a, b)
  <2>1. CASE u.op \in Machine!RegisterOps
    BY <1>2, <2>1, RWords DEF Operand1, Operand2, Result
  <2>2. CASE u.op \in Machine!ImmediateOps
    <3>1. u.op \notin Machine!RegisterOps
      BY <2>2 DEF Machine!RegisterOps, Machine!ImmediateOps
    <3>2. w.op = 19 /\ w.rd = u.rd /\ w.rs1 = u.rs1
      BY <1>2, <2>2, IWords
    <3>3. Operand1 = a
      BY <3>2 DEF Operand1
    <3> QED
      BY <1>2, <2>2, <3>1, <3>2, <3>3, ImmediateResult
  <2> QED
    BY <2>1, <2>2
<1> HIDE DEF a, b
<1>4. /\ Result # Crash /\ execution_result_ = Result /\ program_counter_ = Wrap(start.pc + 4)
  BY <1>1, <1>3 DEF DInv, Executed
<1>5. ~Machine!Traps(u.op, a, b) /\ Result = Machine!Simulated(u.op, a, b)
  BY <1>2, <1>3, <1>4, AluAgrees
<1>6. /\ program' = program /\ bigmul_unit' = bigmul_unit
      /\ program_counter_' = Wrap(start.pc + 4) /\ memory' = start.memory
      /\ registers_' = Put(u.rd, Machine!Simulated(u.op, a, b))
  BY <1>3, <1>4, <1>5, WriteBackStep
<1> QED
  BY <1>1, <1>5, <1>6, Seen, SameArithmetic
  DEF Machine!Arithmetic, Machine!Set, Machine!Next4, Put, a, b

LEMMA HeldStep ==
  ASSUME DInv, WriteBack, NEW u, u = Current, u.op \in Machine!WordOps \cup Machine!WordImmOps
  PROVE  Machine!Held(u)
<1>1. stage = "writeback" /\ stage' = "fetch"
  BY WriteBackStep
<1>2. Accepted(u) /\ w = generateMachineCode(u) /\ Operand1 \in Number /\ Operand2 \in Number
  BY <1>1, InStages
<1>3. w.op \in {59, 27}
  BY <1>2, WordWords, WordImmWords
<1>4. Result # Crash /\ program_counter_ = Wrap(start.pc + 4)
  BY <1>1, <1>3 DEF DInv, Executed
<1>5. ASSUME u.op \in Machine!WordOps
      PROVE  ~Machine!Traps(u.op, start.registers[u.rs1], start.registers[u.rs2])
  <2>1. /\ w.op = 59 /\ w.rs1 = u.rs1 /\ w.rs2 = u.rs2
        /\ \A a, b \in Number : execute(GetAluSignal, a, b) = Crash <=> Machine!Traps(u.op, a, b)
    BY <1>2, <1>5, WordWords
  <2> QED
    BY <1>2, <1>4, <2>1 DEF Result, Operand1, Operand2
<1>6. /\ program' = program /\ bigmul_unit' = bigmul_unit
      /\ program_counter_' = Wrap(start.pc + 4) /\ memory' = start.memory
      /\ registers_' = start.registers
  BY <1>3, <1>4, WriteBackStep
<1> QED
  BY <1>1, <1>5, <1>6, Seen, SameArithmetic DEF Machine!Held, Machine!Next4

LEMMA BranchStep ==
  ASSUME DInv, WriteBack, NEW u, u = Current, u.op \in BranchOps
  PROVE  Machine!Branch(u)
<1>1. stage = "writeback" /\ stage' = "fetch"
  BY WriteBackStep
<1>2. Accepted(u) /\ w = generateMachineCode(u) /\ Operand1 \in Number /\ Operand2 \in Number
  BY <1>1, InStages
<1>3. /\ w.op = 99 /\ w.rs1 = u.rs1 /\ w.rs2 = u.rs2 /\ ImmGenerator(w) = u.imm
      /\ \A a, b \in Number :
           BranchFlag(execute(GetAluSignal, a, b)) = Machine!Taken(u.op, a, b)
  BY <1>2, BranchWords
<1> DEFINE taken == Machine!Taken(u.op, start.registers[u.rs1], start.registers[u.rs2])
<1>4. BranchFlag(Result) = taken
  BY <1>2, <1>3 DEF Result, Operand1, Operand2
<1> HIDE DEF taken
<1>5. program_counter_ = Wrap(start.pc + (IF taken THEN u.imm ELSE 4))
  BY <1>1, <1>3, <1>4 DEF DInv, Executed
<1>6. /\ program' = program /\ bigmul_unit' = bigmul_unit
      /\ program_counter_' = Wrap(start.pc + (IF taken THEN u.imm ELSE 4))
      /\ memory' = start.memory /\ registers_' = start.registers
  BY <1>3, <1>5, WriteBackStep
<1> QED
  BY <1>1, <1>6, Seen, SameArithmetic DEF Machine!Branch, BranchOps, taken

LEMMA JumpStep ==
  ASSUME DInv, WriteBack, NEW u, u = Current, u.op \in {"jal", "jalr"}
  PROVE  Machine!Jump(u)
<1>1. stage = "writeback" /\ stage' = "fetch"
  BY WriteBackStep
<1>2. /\ Accepted(u) /\ w = generateMachineCode(u) /\ Operand1 \in Number /\ start.pc \in Int
  BY <1>1, InStages, Widths DEF Number
<1>3. /\ w.op \in {103, 111} /\ w.rd = u.rd
      /\ program_counter_ = Wrap(u.imm + (IF u.op = "jal" THEN start.pc ELSE start.registers[u.rs1]))
  <2>1. CASE u.op = "jal"
    <3>1. w.op = 111 /\ w.rd = u.rd /\ ImmGenerator(w) = u.imm /\ u.imm \in Int
      BY <1>2, <2>1, JalWords DEF Signed21, Between
    <3>2. program_counter_ = Wrap(start.pc + u.imm)
      BY <1>1, <3>1 DEF DInv, Executed
    <3>3. start.pc + u.imm = u.imm + start.pc
      BY <1>2, <3>1
    <3> QED
      BY <2>1, <3>1, <3>2, <3>3
  <2>2. CASE u.op = "jalr"
    <3>1. /\ w.op = 103 /\ w.rd = u.rd /\ w.rs1 = u.rs1 /\ GetAluSignal = "kAdd"
          /\ ImmGenerator(w) = u.imm /\ u.imm \in Int
      BY <1>2, <2>2, JalrWords DEF Signed12, Between
    <3>2. program_counter_ = Result
      BY <1>1, <3>1 DEF DInv, Executed
    <3>3. Result = Wrap(Operand1 + Wrap(u.imm))
      BY <3>1 DEF Result, Operand2, execute
    <3>4. Operand1 \in Int
      BY <1>2, Widths DEF Number
    <3>5. Wrap(Operand1 + Wrap(u.imm)) = Wrap(Operand1 + u.imm)
      BY <3>1, <3>4, WrapSum
    <3>6. Operand1 + u.imm = u.imm + Operand1
      BY <3>1, <3>4
    <3>7. Operand1 = start.registers[u.rs1]
      BY <3>1 DEF Operand1
    <3> QED
      BY <2>2, <3>1, <3>2, <3>3, <3>5, <3>6, <3>7
  <2> QED
    BY <2>1, <2>2
<1>4. /\ program' = program /\ bigmul_unit' = bigmul_unit
      /\ program_counter_' = Wrap(u.imm + (IF u.op = "jal" THEN start.pc ELSE start.registers[u.rs1]))
      /\ memory' = start.memory /\ registers_' = Put(u.rd, Wrap(start.pc + 4))
  BY <1>3, WriteBackStep
<1> QED
  BY <1>1, <1>4, Seen, SameArithmetic DEF Machine!Jump, Machine!Set, Put

LEMMA UpperStep ==
  ASSUME DInv, WriteBack, NEW u, u = Current, u.op \in {"lui", "auipc"}
  PROVE  Machine!Upper(u)
<1>1. stage = "writeback" /\ stage' = "fetch"
  BY WriteBackStep
<1>2. /\ Accepted(u) /\ w = generateMachineCode(u) /\ start.pc \in Int /\ TypeOK
  BY <1>1, InStages, Widths DEF Number
<1>3. /\ w.op = (IF u.op = "lui" THEN 55 ELSE 23) /\ w.rd = u.rd /\ u.imm \in Int
      /\ ImmGenerator(w) = u.imm % 1048576
  BY <1>2, UpperWords, SMT
<1> DEFINE m == u.imm % 1048576
           n == (IF m < 524288 THEN m ELSE m - 1048576) * 4096
<1>4. m \in Int /\ 0 <= m /\ m < 1048576
  BY <1>3, SMT
<1>5. ImmGenerator(w) = m
  BY <1>3, SMT
<1>6. sign_extend(m, 524288) * 4096 = n
  <2> HIDE DEF m
  <2> QED
    BY <1>4, SMT DEF sign_extend
<1>7. Machine!UpperImm(u.imm) = Machine!Wrap(n)
  BY SMT DEF Machine!UpperImm
<1>8. n \in Int
  <2> HIDE DEF m
  <2> QED
    BY <1>4, SMT
<1> HIDE DEF m, n
<1>9. ShiftedImm = Wrap(n)
  BY <1>5, <1>6, SMT DEF ShiftedImm
<1>10. Machine!UpperImm(u.imm) = ShiftedImm
  BY <1>7, <1>9, SameArithmetic, SMT
<1> DEFINE v == ShiftedImm
<1>11. v \in Number /\ v \in Int
  BY <1>8, <1>9, WrapIs, Widths, SMT DEF Number
<1> HIDE DEF v
<1>12. program_counter_ = Wrap(start.pc + 4)
  BY <1>1, <1>3, SMT DEF DInv, Executed
<1>13. registers_' = Put(u.rd, Wrap(v + (IF u.op = "auipc" THEN start.pc ELSE 0)))
  <2>1. CASE u.op = "lui"
    <3>1. registers_' = Put(u.rd, v)
      BY <1>3, <2>1, WriteBackStep, SMT DEF v
    <3>2. Wrap(v + 0) = v
      BY <1>11, WrapIs, SMT
    <3> QED
      BY <2>1, <3>1, <3>2, SMT
  <2>2. CASE u.op = "auipc"
    <3>1. w.op = 23
      BY <1>3, <2>2, SMT
    <3>2. execution_result_ = Wrap(start.pc + v)
      BY <1>1, <3>1, SMT DEF DInv, Executed, v
    <3>3. start.pc + v = v + start.pc
      BY <1>2, <1>11, SMT
    <3>4. registers_' = Put(u.rd, execution_result_)
      BY <1>3, <3>1, WriteBackStep, SMT
    <3> QED
      BY <2>2, <3>2, <3>3, <3>4, SMT
  <2> QED
    BY <2>1, <2>2
<1>14. /\ program' = program /\ bigmul_unit' = bigmul_unit
       /\ program_counter_' = Wrap(start.pc + 4) /\ memory' = start.memory
  BY <1>3, <1>12, WriteBackStep, SMT
<1>15. Machine!UpperImm(u.imm) = v
  BY <1>10, SMT DEF v
<1> QED
  BY <1>1, <1>13, <1>14, <1>15, Seen, SameArithmetic, SMT
  DEF Machine!Upper, Machine!Set, Machine!Next4, Put

(* The address of a load and of a store. *)
LEMMA Address ==
  ASSUME DInv, stage \in {"memory", "writeback"}, NEW u, u = Current,
         u.op \in DOMAIN Machine!LoadBytes \cup DOMAIN Machine!StoreBytes
  PROVE  /\ execution_result_ = Wrap(start.registers[u.rs1] + u.imm)
         /\ program_counter_ = Wrap(start.pc + 4)
<1>1. Accepted(u) /\ w = generateMachineCode(u) /\ Operand1 \in Number
  BY InStages
<1>2. /\ w.op \in {3, 35} /\ w.rs1 = u.rs1 /\ GetAluSignal = "kAdd"
      /\ ImmGenerator(w) = u.imm /\ u.imm \in Int
  BY <1>1, LoadWords, StoreWords DEF Signed12, Between
<1>3. execution_result_ = Result /\ program_counter_ = Wrap(start.pc + 4)
  BY <1>2 DEF DInv, Executed
<1>4. Result = Wrap(Operand1 + Wrap(u.imm)) /\ Operand1 = start.registers[u.rs1]
  BY <1>2 DEF Result, Operand1, Operand2, execute
<1>5. Operand1 \in Int
  BY <1>1, Widths DEF Number
<1>6. Wrap(Operand1 + Wrap(u.imm)) = Wrap(Operand1 + u.imm)
  BY <1>2, <1>5, WrapSum
<1> QED
  BY <1>3, <1>4, <1>6

LEMMA LoadStep ==
  ASSUME DInv, WriteBack, NEW u, u = Current, u.op \in DOMAIN Machine!LoadBytes
  PROVE  Machine!Load(u)
<1>1. stage = "writeback" /\ stage' = "fetch"
  BY WriteBackStep
<1>2. Accepted(u) /\ w = generateMachineCode(u)
  BY <1>1, InStages
<1> DEFINE a == execution_result_
           n == Machine!LoadBytes[u.op]
           v == SumUpTo([i \in 0 .. n - 1 |-> start.memory[a + i] * Power[ByteBits * i]], n)
<1>3. /\ w.op = 3 /\ w.rd = u.rd /\ Width = n
      /\ w.f3 \in {4, 5, 6} <=> u.op \in Machine!Unsigned
  BY <1>2, LoadWords
<1>4. /\ a = Wrap(start.registers[u.rs1] + u.imm) /\ program_counter_ = Wrap(start.pc + 4)
  BY <1>1, Address
<1>5. memory = start.memory
  BY <1>1, <1>3 DEF DInv, Accessed
<1>6. Loaded = IF u.op \in Machine!Unsigned THEN v ELSE Wrap(SignOf(v, n * ByteBits))
  BY <1>3, <1>5 DEF Loaded, ReadMemory
<1>7. Machine!Little(a, n) = v
  BY <1>1, Seen, SameArithmetic DEF Machine!Little
<1>8. /\ program' = program /\ bigmul_unit' = bigmul_unit
      /\ program_counter_' = Wrap(start.pc + 4) /\ memory' = start.memory
      /\ registers_' = Put(u.rd, Loaded) /\ a + n <= MemorySize
  BY <1>3, <1>4, WriteBackStep DEF Reaches
<1> HIDE DEF a, n, v
<1> QED
  BY <1>1, <1>4, <1>6, <1>7, <1>8, Seen, SameArithmetic
  DEF Machine!Load, Machine!Inside, Machine!Set, Machine!Next4, Put, n

LEMMA StoreStep ==
  ASSUME DInv, WriteBack, NEW u, u = Current, u.op \in DOMAIN Machine!StoreBytes
  PROVE  Machine!Store(u)
<1>1. stage = "writeback" /\ stage' = "fetch"
  BY WriteBackStep
<1>2. Accepted(u) /\ w = generateMachineCode(u) /\ TypeOK
  BY <1>1, InStages
<1> DEFINE a == execution_result_
           n == Machine!StoreBytes[u.op]
           d == start.registers[u.rs2]
<1>3. /\ w.op = 35 /\ w.rs2 = u.rs2 /\ Width = n /\ n \in {1, 2, 4, 8}
  BY <1>2, StoreWords
<1>4. /\ a = Wrap(start.registers[u.rs1] + u.imm) /\ program_counter_ = Wrap(start.pc + 4)
      /\ a \in Int
  <2>1. a = Wrap(start.registers[u.rs1] + u.imm) /\ program_counter_ = Wrap(start.pc + 4)
    BY <1>1, Address
  <2>2. a \in Int
    BY <1>2, Widths DEF TypeOK, Number
  <2> QED
    BY <2>1, <2>2
<1>5. memory = Stored(start.memory)
  BY <1>1, <1>3 DEF DInv, Accessed
<1>6. \A i \in DOMAIN start.memory : i \in Int
  <2>1. DOMAIN memory = DOMAIN start.memory
    BY <1>5 DEF Stored
  <2>2. DOMAIN memory = 0 .. MemorySize - 1
    BY <1>2 DEF TypeOK
  <2> QED
    BY <2>1, <2>2
<1>7. Stored(start.memory) =
        [i \in DOMAIN start.memory |->
           IF a <= i /\ i < a + n THEN (d \div Power[ByteBits * (i - a)]) % Power[ByteBits]
           ELSE start.memory[i]]
  <2>1. \A i \in DOMAIN start.memory : i \in a .. a + Width - 1 <=> a <= i /\ i < a + n
    BY <1>3, <1>4, <1>6
  <2> QED
    BY <1>3, <2>1 DEF Stored
<1>8. /\ program' = program /\ bigmul_unit' = bigmul_unit
      /\ program_counter_' = Wrap(start.pc + 4) /\ memory' = Stored(start.memory)
      /\ registers_' = start.registers /\ a + n <= MemorySize
  BY <1>3, <1>4, WriteBackStep DEF Reaches
<1> HIDE DEF a, n
<1> QED
  BY <1>1, <1>4, <1>7, <1>8, Seen, SameArithmetic
  DEF Machine!Store, Machine!Inside, Machine!Next4, n

(* WriteBack retires the instruction in the stages. *)
LEMMA WriteBackRefines ==
  ASSUME DInv, WriteBack
  PROVE  Machine!Step
<1>1. stage = "writeback" /\ w.op \notin {42, 63}
  BY WriteBackStep
<1>2. Accepted(Current) /\ w = generateMachineCode(Current)
  BY <1>1, InStages
<1>3. Current.op \notin {"ldbm", "bigmul"}
  BY <1>1, <1>2, CoprocessorWords
<1>4. \/ Machine!Arithmetic(Current) \/ Machine!Held(Current) \/ Machine!Branch(Current)
      \/ Machine!Jump(Current) \/ Machine!Upper(Current) \/ Machine!Load(Current)
      \/ Machine!Store(Current)
  <2> DEFINE u == Current
  <2>1. u.op \in Machine!RegisterOps \cup Machine!ImmediateOps => Machine!Arithmetic(u)
    BY ArithmeticStep
  <2>2. u.op \in Machine!WordOps \cup Machine!WordImmOps => Machine!Held(u)
    BY HeldStep
  <2>3. u.op \in BranchOps => Machine!Branch(u)
    BY BranchStep
  <2>4. u.op \in {"jal", "jalr"} => Machine!Jump(u)
    BY JumpStep
  <2>5. u.op \in {"lui", "auipc"} => Machine!Upper(u)
    BY UpperStep
  <2>6. u.op \in DOMAIN Machine!LoadBytes => Machine!Load(u)
    BY LoadStep
  <2>7. u.op \in DOMAIN Machine!StoreBytes => Machine!Store(u)
    BY StoreStep
  <2> HIDE DEF u
  <2>8. Accepted(u) /\ u.op \notin {"ldbm", "bigmul"}
    BY <1>2, <1>3 DEF u
  <2>9. \/ u.op \in Machine!RegisterOps \cup Machine!ImmediateOps
        \/ u.op \in Machine!WordOps \cup Machine!WordImmOps \/ u.op \in BranchOps
        \/ u.op \in {"jal", "jalr"} \/ u.op \in {"lui", "auipc"}
        \/ u.op \in DOMAIN Machine!LoadBytes \/ u.op \in DOMAIN Machine!StoreBytes
    BY <2>8, Kinds
  <2>10. \/ Machine!Arithmetic(u) \/ Machine!Held(u) \/ Machine!Branch(u) \/ Machine!Jump(u)
         \/ Machine!Upper(u) \/ Machine!Load(u) \/ Machine!Store(u)
    BY <2>1, <2>2, <2>3, <2>4, <2>5, <2>6, <2>7, <2>9, Zenon
  <2> QED
    BY <2>10, Zenon DEF u
<1> QED
  BY <1>1, <1>4, Takes

(* The ALU ends the process only where the architecture lists it. *)
LEMMA CrashIsTrap ==
  ASSUME DInv, stage = "execute", NEW u, u = Current, Result = Crash
  PROVE  /\ u.op \in Machine!RegisterOps \cup Machine!WordOps
         /\ Machine!Traps(u.op, start.registers[u.rs1], start.registers[u.rs2])
<1>1. /\ Accepted(u) /\ w = generateMachineCode(u) /\ Operand1 \in Number /\ Operand2 \in Number
      /\ w.op \notin {42, 63}
  BY InStages DEF DInv, Decoded
<1> DEFINE sure == GetAluSignal \notin {"kDivuw", "kRem", "kRemw", "kRemuw"}
<1>2. ~sure
  <2>1. Crash \notin Number
    BY Widths DEF Crash, Number
  <2> QED
    BY <1>1, <2>1, AluTyped DEF Result
<1>3. CASE u.op \in Machine!RegisterOps
  <2>1. /\ GetAluSignal = SignalOf[u.op] /\ w.op = 51 /\ w.rs1 = u.rs1 /\ w.rs2 = u.rs2
    BY <1>1, <1>3, RWords
  <2>2. u.op = "rem"
    BY <1>2, <1>3, <2>1 DEF SignalOf, Machine!RegisterOps
  <2>3. Operand1 = start.registers[u.rs1] /\ Operand2 = start.registers[u.rs2]
    BY <2>1 DEF Operand1, Operand2
  <2>4. Result = Rem(Operand1, Operand2)
    BY <2>1, <2>2 DEF Result, SignalOf, execute
  <2>5. S(Operand1) = Min /\ S(Operand2) = -1
    BY <1>1, <2>4, RemTraps
  <2> QED
    BY <1>3, <2>2, <2>3, <2>5, SameArithmetic DEF Machine!Traps
<1>4. CASE u.op \in Machine!WordOps
  <2>1. /\ w.op = 59 /\ w.rs1 = u.rs1 /\ w.rs2 = u.rs2
        /\ \A a, b \in Number : execute(GetAluSignal, a, b) = Crash <=> Machine!Traps(u.op, a, b)
    BY <1>1, <1>4, WordWords
  <2>2. Operand1 = start.registers[u.rs1] /\ Operand2 = start.registers[u.rs2]
    BY <2>1 DEF Operand1, Operand2
  <2> QED
    BY <1>1, <1>4, <2>1, <2>2 DEF Result
<1>5. CASE u.op \in Machine!ImmediateOps
  <2>1. GetAluSignal = SignalOf[u.op]
    BY <1>1, <1>5, IWords
  <2> QED
    BY <1>2, <1>5, <2>1 DEF SignalOf, Machine!ImmediateOps
<1>6. CASE u.op \in Machine!WordImmOps
  BY <1>1, <1>2, <1>6, WordImmWords
<1>7. CASE \/ u.op \in DOMAIN Machine!LoadBytes \/ u.op \in DOMAIN Machine!StoreBytes
           \/ u.op \in {"lui", "auipc"} \/ u.op = "jal" \/ u.op = "jalr"
  <2>1. GetAluSignal = "kAdd"
    BY <1>1, <1>7, LoadWords, StoreWords, UpperWords, JalWords, JalrWords
  <2> QED
    BY <1>2, <2>1
<1>8. CASE u.op \in BranchOps
  <2>1. \A a, b \in Number : execute(GetAluSignal, a, b) # Crash
    BY <1>1, <1>8, BranchWords
  <2> QED
    BY <1>1, <2>1 DEF Result
<1>9. u.op \notin {"ldbm", "bigmul"}
  BY <1>1, CoprocessorWords
<1> HIDE DEF sure
<1> QED
  BY <1>1, <1>3, <1>4, <1>5, <1>6, <1>7, <1>8, <1>9, Kinds

LEMMA ExecuteRefines ==
  ASSUME DInv, Execute
  PROVE  Machine!Step \/ UNCHANGED Machine!isaVars
<1>1. CASE stage' = "memory"
  BY <1>1, ExecuteStep, Unseen
<1>2. CASE stage' = "killed"
  <2>1. /\ stage = "execute" /\ Result = Crash /\ program' = program
        /\ bigmul_unit' = bigmul_unit /\ start' = start
    BY <1>2, ExecuteStep
  <2> DEFINE u == Current
  <2>2. /\ u.op \in Machine!RegisterOps \cup Machine!WordOps
        /\ Machine!Traps(u.op, start.registers[u.rs1], start.registers[u.rs2])
    BY <2>1, CrashIsTrap
  <2> HIDE DEF u
  <2>3. Machine!Trap(u)
    <3>1. (IF Retired THEN registers_ ELSE start.registers) = start.registers
      BY <2>1 DEF Retired
    <3> QED
      BY <1>2, <2>1, <2>2, <3>1, EndsUnseen DEF Machine!Trap
  <2> QED
    BY <2>1, <2>3, Takes DEF u
<1> QED
  BY <1>1, <1>2, ExecuteStep

LEMMA WriteMemoryRefines ==
  ASSUME DInv, WriteMemory
  PROVE  Machine!Step \/ UNCHANGED Machine!isaVars
<1>1. CASE stage' = "writeback"
  BY <1>1, WriteMemoryStep, Unseen
<1>2. CASE stage' = "killed"
  <2>1. /\ stage = "memory" /\ w.op \in {3, 35} /\ ~Reaches(Width) /\ program' = program
        /\ bigmul_unit' = bigmul_unit /\ start' = start
    BY <1>2, WriteMemoryStep
  <2> DEFINE u == Current
  <2>2. Accepted(u) /\ w = generateMachineCode(u)
    BY <2>1, InStages
  <2>3. u.op \in DOMAIN Machine!LoadBytes \cup DOMAIN Machine!StoreBytes
    <3> HIDE DEF u
    <3>1. u.op \notin Machine!RegisterOps /\ u.op \notin Machine!ImmediateOps
      BY <2>1, <2>2, RWords, IWords
    <3>2. u.op \notin Machine!WordOps /\ u.op \notin Machine!WordImmOps
      BY <2>1, <2>2, WordWords, WordImmWords
    <3>3. u.op \notin BranchOps /\ u.op # "jal" /\ u.op # "jalr"
      BY <2>1, <2>2, BranchWords, JalWords, JalrWords
    <3>4. u.op \notin {"lui", "auipc"} /\ u.op \notin {"ldbm", "bigmul"}
      <4>1. u.op \in {"lui", "auipc"} => w.op \in {55, 23}
        BY <2>2, UpperWords, SMT
      <4>2. u.op \in {"ldbm", "bigmul"} => w.op \in {42, 63}
        BY <2>2, CoprocessorWords
      <4> QED
        BY <2>1, <4>1, <4>2
    <3> QED
      BY <2>2, <3>1, <3>2, <3>3, <3>4, Kinds
  <2>4. execution_result_ = Wrap(start.registers[u.rs1] + u.imm)
    BY <2>1, <2>3, Address
  <2>5. /\ u.op \in DOMAIN Machine!LoadBytes => Width = Machine!LoadBytes[u.op]
        /\ u.op \in DOMAIN Machine!StoreBytes => Width = Machine!StoreBytes[u.op]
    BY <2>2, LoadWords, StoreWords
  <2> HIDE DEF u
  <2>6. Machine!Outside(u)
    <3>1. (IF Retired THEN registers_ ELSE start.registers) = start.registers
      BY <2>1 DEF Retired
    <3>2. \/ /\ u.op \in DOMAIN Machine!LoadBytes
             /\ ~(execution_result_ + Machine!LoadBytes[u.op] <= MemorySize)
          \/ /\ u.op \in DOMAIN Machine!StoreBytes
             /\ ~(execution_result_ + Machine!StoreBytes[u.op] <= MemorySize)
      BY <2>1, <2>3, <2>5 DEF Reaches
    <3> QED
      BY <1>2, <2>1, <2>4, <3>1, <3>2, EndsUnseen, SameArithmetic
      DEF Machine!Outside, Machine!Inside
  <2> QED
    BY <2>1, <2>6, Takes DEF u
<1> QED
  BY <1>1, <1>2, WriteMemoryStep

LEMMA FetchRefines ==
  ASSUME Fetch
  PROVE  UNCHANGED Machine!isaVars
<1>1. /\ stage = "fetch" /\ stage' = "decode" /\ program' = program /\ bigmul_unit' = bigmul_unit
      /\ start'.registers = registers_ /\ start'.memory = memory /\ start'.pc = program_counter_
  BY DEF Fetch
<1> QED
  BY <1>1 DEF Machine!isaVars, Retired

(* Decode hands the values of two registers to the unit, or throws. *)
LEMMA DecodeRefines ==
  ASSUME DInv, Decode
  PROVE  Machine!Step \/ UNCHANGED Machine!isaVars
<1>1. /\ stage = "decode" /\ program' = program /\ start' = start
  BY DEF Decode
<1>2. CASE w.op \notin {42, 63}
  <2>1. stage' = "execute" /\ bigmul_unit' = bigmul_unit
    BY <1>2 DEF Decode
  <2> QED
    BY <1>1, <2>1, Unseen
<1>3. CASE w.op \in {42, 63}
  <2> DEFINE u == Current
  <2>1. Accepted(u) /\ w = generateMachineCode(u) /\ TypeOK /\ registers_ = start.registers
    BY <1>1, InStages
  <2>2. u.op \in {"ldbm", "bigmul"}
    <3> HIDE DEF u
    <3>1. u.op \notin Machine!RegisterOps /\ u.op \notin Machine!ImmediateOps
      BY <1>3, <2>1, RWords, IWords
    <3>2. u.op \notin Machine!WordOps /\ u.op \notin Machine!WordImmOps
      BY <1>3, <2>1, WordWords, WordImmWords
    <3>3. u.op \notin BranchOps /\ u.op # "jal" /\ u.op # "jalr"
      BY <1>3, <2>1, BranchWords, JalWords, JalrWords
    <3>4. u.op \notin DOMAIN Machine!LoadBytes /\ u.op \notin DOMAIN Machine!StoreBytes
      BY <1>3, <2>1, LoadWords, StoreWords
    <3>5. u.op \notin {"lui", "auipc"}
      <4>1. u.op \in {"lui", "auipc"} => w.op \in {55, 23}
        BY <2>1, UpperWords, SMT
      <4> QED
        BY <1>3, <4>1
    <3> QED
      BY <2>1, <3>1, <3>2, <3>3, <3>4, <3>5, Kinds
  <2>3. /\ w.op = (IF u.op = "ldbm" THEN 42 ELSE 63)
        /\ u.rs1 \in Registers /\ u.rs2 \in Registers
        /\ IF Machine!Named(u) THEN WideRs1 = u.rs1 /\ WideRs2 = u.rs2
           ELSE WideRs1 > 31 \/ WideRs2 > 31
    BY <2>1, <2>2, CoprocessorWords
  <2>4. /\ ReadGpr(u.rs1) = start.registers[u.rs1] /\ ReadGpr(u.rs2) = start.registers[u.rs2]
        /\ u.rs1 <= 31 /\ u.rs2 <= 31
    BY <2>1, <2>3, Reads DEF Registers
  <2> HIDE DEF u
  <2> DEFINE a == start.registers[u.rs1]
             b == start.registers[u.rs2]
             taken == IF u.op = "ldbm" THEN [bigmul_unit EXCEPT !.A = a, !.B = b]
                      ELSE [bigmul_unit EXCEPT !.res = a, !.size = IF b \in 1 .. 511 THEN b ELSE @]
  <2>5. CASE Machine!Named(u)
    <3>1. WideRs1 = u.rs1 /\ WideRs2 = u.rs2 /\ ~(WideRs1 > 31 \/ WideRs2 > 31)
      BY <2>3, <2>4, <2>5 DEF Registers
    <3>2. stage' = "unit" /\ bigmul_unit' = taken
      <4>1. CASE u.op = "ldbm"
        <5>1. w.op = 42
          BY <2>3, <4>1
        <5>2. /\ stage' = "unit"
              /\ bigmul_unit' = [bigmul_unit EXCEPT !.A = ReadGpr(WideRs1), !.B = ReadGpr(WideRs2)]
          BY <3>1, <5>1 DEF Decode
        <5> QED
          BY <2>4, <3>1, <4>1, <5>2
      <4>2. CASE u.op = "bigmul"
        <5>1. w.op = 63 /\ u.op # "ldbm"
          BY <2>3, <4>2
        <5>2. /\ stage' = "unit"
              /\ bigmul_unit' =
                   [bigmul_unit EXCEPT !.res = ReadGpr(WideRs1),
                      !.size = IF ReadGpr(WideRs2) \in 1 .. 511 THEN ReadGpr(WideRs2) ELSE @]
          BY <3>1, <5>1 DEF Decode
        <5> QED
          BY <2>4, <3>1, <5>1, <5>2
      <4> QED
        BY <2>2, <4>1, <4>2 DEF u
    <3>3. Machine!Coprocessor(u)
      <4>1. /\ (IF Retired THEN registers_ ELSE start.registers) = start.registers
            /\ ~Retired /\ ~Retired'
        BY <1>1, <3>2 DEF Retired
      <4>2. u.op \in {"ldbm", "bigmul"}
        BY <2>2 DEF u
      <4> QED
        BY <1>1, <2>5, <3>2, <4>1, <4>2 DEF Machine!Coprocessor
    <3> QED
      BY <1>1, <3>3, Takes DEF u
  <2>6. CASE ~Machine!Named(u)
    <3>1. WideRs1 > 31 \/ WideRs2 > 31
      BY <2>3, <2>6
    <3>2. stage' = "killed" /\ bigmul_unit' = bigmul_unit
      <4>1. WideRs1 \in Int /\ WideRs2 \in Int
        <5>1. w.rs1 \in Int /\ w.rs2 \in Int /\ w.f7 \in Int
          <6>1. w \in WordFields
            BY <2>1 DEF TypeOK, WordFields
          <6> QED
            BY <6>1 DEF WordFields
        <5> QED
          BY <5>1 DEF WideRs1, WideRs2, Bits
      <4>2. ~(WideRs1 <= 31 /\ WideRs2 <= 31)
        BY <3>1, <4>1
      <4> QED
        BY <1>3, <4>2 DEF Decode
    <3>3. Machine!Coprocessor(u)
      <4>1. u.op \in {"ldbm", "bigmul"}
        BY <2>2 DEF u
      <4> QED
        BY <1>1, <2>6, <3>2, <4>1, EndsUnseen DEF Machine!Coprocessor
    <3> QED
      BY <1>1, <3>3, Takes DEF u
  <2> QED
    BY <2>5, <2>6
<1> QED
  BY <1>2, <1>3

LEMMA StutterRefines ==
  ASSUME UNCHANGED vars
  PROVE  UNCHANGED Machine!isaVars
<1>1. /\ program' = program /\ stage' = stage /\ program_counter_' = program_counter_
      /\ registers_' = registers_ /\ memory' = memory /\ bigmul_unit' = bigmul_unit
      /\ start' = start
  BY DEF vars
<1> QED
  BY <1>1 DEF Machine!isaVars, Retired

(* For every program of instructions that the parser accepts, every width   *)
(* and every content of registers and memory: the five stages do to         *)
(* registers, memory and pc what one step of the architecture does, with no *)
(* departure but the listed ones, whatever older instructions left in the   *)
(* registers of the stages (Fetch, Decode, Execute, WriteMemory, WriteBack).*)
THEOREM Rv64Implemented == Spec => ImplementsRv64
<1>1. Init => Machine!InitIsa
  BY RefinedInit
<1>2. DInv /\ [Next]_vars => [Machine!Step]_(Machine!isaVars)
  <2> SUFFICES ASSUME DInv, [Next]_vars PROVE Machine!Step \/ UNCHANGED Machine!isaVars
    OBVIOUS
  <2>1. CASE Fetch
    BY <2>1, FetchRefines
  <2>2. CASE Decode
    BY <2>2, DecodeRefines
  <2>3. CASE Execute
    BY <2>3, ExecuteRefines
  <2>4. CASE WriteMemory
    BY <2>4, WriteMemoryRefines
  <2>5. CASE WriteBack
    BY <2>5, WriteBackRefines
  <2>6. CASE UNCHANGED vars
    BY <2>6, StutterRefines
  <2> QED
    BY <2>1, <2>2, <2>3, <2>4, <2>5, <2>6, Zenon DEF Next
<1>3. Spec => Machine!InitIsa /\ [][Machine!Step]_(Machine!isaVars)
  BY <1>1, <1>2, Inductive, PTL DEF Spec
<1> QED
  BY <1>3 DEF ImplementsRv64, Machine!SpecIsa

===============================================================================
