------------------------------ MODULE BigmulUnit ------------------------------
(***************************************************************************)
(* The big-integer coprocessor (src/vm/bigmul_unit.cpp) and the part of    *)
(* the VM that drives it one clock cycle at a time (the custom-instruction *)
(* halves of RVSSVM::Decode and RVSSVM::WriteMemory, and the stall logic   *)
(* of the run loops).                                                      *)
(*                                                                         *)
(* LDBM streams two operands from memory into cacheA and cacheB, MemBatch  *)
(* doublewords per cycle.  BIGMUL multiplies the first size_of_operand     *)
(* limbs of the caches diagonal by diagonal, Batch limb products per cycle *)
(* (singlecycle, the variant executeBigmul calls), and then writes the     *)
(* result to memory, MemBatch doublewords per cycle.                       *)
(*                                                                         *)
(* A memory address stands for one aligned doubleword; Base is 2^64.       *)
(***************************************************************************)
EXTENDS Integers, FiniteSetsExt, Functions

CONSTANTS
  Limbs,          \* doublewords in an operand cache (64)
  Batch,          \* limb products per compute cycle (25)
  MemBatch,       \* doublewords loaded or written per cycle (8)
  SizeLimit,      \* exclusive upper bound on the rs2 value of BIGMUL (512)
  Base,           \* values of a doubleword (2^64)
  MemSize,        \* doublewords of memory in the model
  InitMem,        \* memory contents a program may start with
  LoadAddrs,      \* operand addresses programs pass to LDBM
  ResultAddrs,    \* result addresses programs pass to BIGMUL
  Sizes,          \* rs2 values programs pass to BIGMUL
  Stores,         \* <<address, value>> pairs other instructions store
  Interruptible   \* may a stopped Run be resumed by a loop that skips the stall?

Digit == 0 .. Base - 1
Addr  == 0 .. MemSize - 1
Index == 0 .. Limbs - 1

ASSUME UnitAssumption ==
  /\ Limbs \in Nat \ {0} /\ Batch \in Nat \ {0} /\ MemBatch \in Nat \ {0}
  /\ SizeLimit \in Nat /\ Base \in Nat \ {0, 1} /\ MemSize \in Nat
  /\ 2 * Limbs <= MemSize
  /\ Limbs % MemBatch = 0
  /\ InitMem \subseteq [Addr -> Digit]
  /\ \A a \in LoadAddrs : a \in Nat /\ a + Limbs <= MemSize
  /\ \A r \in ResultAddrs : r \in Nat /\ r + 2 * Limbs <= MemSize
  /\ Sizes \subseteq Nat
  /\ Stores \subseteq Addr \X Digit
  /\ Interruptible \in BOOLEAN

VARIABLES
  start,            \* which of ldbm_start_, bigmul_start_ the control unit raises
  ldbm_done, ldbm_offset, base_addr_A, base_addr_B,
  bigmul_done, bigmul_prog, base_addr_res, size_of_operand,
  write_done, write_offset,
  cacheA, cacheB, resultCache,
  s_diag, i_max, k_iter,   \* the diagonal being summed and the next i on it
  acc,              \* the 192-bit accumulator acc0, acc1, acc2
  mem               \* main memory, one entry per doubleword

load    == <<ldbm_done, ldbm_offset, base_addr_A, base_addr_B, cacheA, cacheB>>
compute == <<bigmul_prog, s_diag, i_max, k_iter, acc, resultCache>>
target  == <<base_addr_res, size_of_operand>>
flags   == <<bigmul_done, write_done, write_offset>>
vars    == <<start, load, compute, target, flags, mem>>

Zero == [a0 |-> 0, a1 |-> 0, a2 |-> 0]
Wide == [a0 : Digit, a1 : Digit, a2 : Digit]

(***************************************************************************)
(* 192-bit accumulator arithmetic, limb by limb with explicit carries.     *)
(***************************************************************************)
AccAddU128LosesCarry(a, lo, hi) ==
  [a0 |-> (a.a0 + lo) % Base,
   a1 |-> (a.a1 + hi) % Base,
   a2 |-> (a.a2 + (a.a1 + hi) \div Base) % Base]

AccAddU128(a, lo, hi) ==
  LET t0 == a.a0 + lo
      t1 == a.a1 + hi + t0 \div Base
  IN  [a0 |-> t0 % Base, a1 |-> t1 % Base, a2 |-> (a.a2 + t1 \div Base) % Base]

AccAddU192(a, b) ==
  [AccAddU128(a, b.a0, b.a1) EXCEPT !.a2 = (@ + b.a2) % Base]

AccShr64(a) == [a0 |-> a.a1, a1 |-> a.a2, a2 |-> 0]

(* The local sum b0, b1, b2 of the products of one batch of a diagonal. *)
AddProduct(sum, p) == AccAddU128(sum, p % Base, p \div Base)

BatchSum(s, I) ==
  FoldSet(LAMBDA i, sum : AddProduct(sum, cacheA[i] * cacheB[s - i]), Zero, I)

(***************************************************************************)
(* LDBM: the load of one batch, with the bases and the offset in force.    *)
(***************************************************************************)
Loaded(cache, from, base) ==
  [i \in Index |-> IF i \in from .. from + MemBatch - 1 THEN mem[base + i] ELSE cache[i]]

LoadBatch(a, b, offset) ==
  /\ \/ /\ offset < Limbs
        /\ cacheA' = Loaded(cacheA, offset, a)
        /\ UNCHANGED cacheB
     \/ /\ Limbs <= offset /\ offset < 2 * Limbs
        /\ cacheB' = Loaded(cacheB, offset - Limbs, b)
        /\ UNCHANGED cacheA
     \/ /\ offset >= 2 * Limbs
        /\ UNCHANGED <<cacheA, cacheB>>
  /\ ldbm_offset' = offset + MemBatch
  /\ ldbm_done' = (ldbm_offset' >= 2 * Limbs)
  /\ base_addr_A' = a
  /\ base_addr_B' = b

(* The first and the last i of the partial products A[i] * B[s - i]. *)
DiagonalStartTooLow(s) == IF s > size_of_operand - 1 THEN s - size_of_operand ELSE 0

DiagonalStart(s) == IF s > size_of_operand - 1 THEN s - (size_of_operand - 1) ELSE 0

DiagonalEnd(s) == IF s < size_of_operand - 1 THEN s ELSE size_of_operand - 1

(* BIGMUL: the write-back of one batch of result doublewords. *)
WriteBatchStaysBusy ==
  LET end == 2 * size_of_operand IN
  /\ write_offset' = IF write_offset < end THEN write_offset + MemBatch ELSE write_offset
  /\ mem' = [x \in Addr |->
               LET i == x - base_addr_res
               IN  IF i \in write_offset .. write_offset + MemBatch - 1 /\ i < end
                   THEN resultCache[i] ELSE mem[x]]
  /\ write_done' = (write_offset' >= end)
  /\ UNCHANGED bigmul_done

WriteBatch ==
  LET end == 2 * size_of_operand IN
  /\ write_offset' = IF write_offset < end THEN write_offset + MemBatch ELSE write_offset
  /\ mem' = [x \in Addr |->
               LET i == x - base_addr_res
               IN  IF i \in write_offset .. write_offset + MemBatch - 1 /\ i < end
                   THEN resultCache[i] ELSE mem[x]]
  /\ write_done'  = (write_offset' >= end)
  /\ bigmul_done' = (write_offset' >= end)

(***************************************************************************)
(* The VM issues an instruction: Fetch, Decode and WriteMemory of one      *)
(* cycle.  The run loops fetch only when the unit does not stall them; a   *)
(* Step or DebugRun after a stopped Run fetches without asking.            *)
(*                                                                         *)
(* Addresses and sizes stand for the registers' contents.  Decode reads the *)
(* register numbers with a 7-bit mask, which gives the register meant only *)
(* if rs2 is a multiple of four (and BIGMUL's immediate below 32); any     *)
(* other instruction ends in an exception before it starts the unit.      *)
(***************************************************************************)
Stalled ==
  \/ start = "ldbm" /\ ~ldbm_done
  \/ start = "bigmul" /\ ~bigmul_done

MayIssue == ~Stalled \/ Interruptible

IssueLdbmKeepsOffset(a, b) ==
  /\ MayIssue
  /\ start' = "ldbm"
  /\ \/ ldbm_done /\ LoadBatch(a, b, ldbm_offset)
     \/ ~ldbm_done /\ LoadBatch(base_addr_A, base_addr_B, ldbm_offset)
  /\ UNCHANGED <<compute, target, flags, mem>>

IssueLdbm(a, b) ==
  /\ MayIssue
  /\ start' = "ldbm"
  /\ \/ (ldbm_done /\ LoadBatch(a, b, 0))
     \/ (~ldbm_done /\ LoadBatch(base_addr_A, base_addr_B, ldbm_offset))
  /\ UNCHANGED <<compute, target, flags, mem>>

(* Decode takes rs2 for the size unless it is zero or out of range. *)
OperandSizeUnchecked(n) == n

OperandSize(n) == IF n # 0 /\ n < SizeLimit THEN n ELSE size_of_operand

IssueBigmul(r, n) ==
  /\ MayIssue
  /\ start' = "bigmul"
  /\ \/ /\ bigmul_done
        /\ size_of_operand' = OperandSize(n)
        /\ base_addr_res' = r
        /\ bigmul_prog' = 0
        /\ bigmul_done' = FALSE
        /\ write_offset' = 0
        /\ write_done' = TRUE
        /\ UNCHANGED <<s_diag, i_max, k_iter, acc, resultCache, mem>>
     \/ /\ ~bigmul_done /\ ~write_done
        /\ WriteBatch
        /\ UNCHANGED <<compute, target>>
     \/ /\ ~bigmul_done /\ write_done
        /\ UNCHANGED <<compute, target, flags, mem>>
  /\ UNCHANGED load

(* Any instruction without a custom opcode, leaving memory as m: both start *)
(* signals drop.                                                            *)
IssueOther(m) ==
  /\ MayIssue
  /\ start' = "none"
  /\ mem' = m
  /\ UNCHANGED <<load, compute, target, flags>>

(***************************************************************************)
(* The stall cycles of the run loops.                                      *)
(***************************************************************************)
LdbmCycle ==
  /\ start = "ldbm" /\ ~ldbm_done
  /\ LoadBatch(base_addr_A, base_addr_B, ldbm_offset)
  /\ UNCHANGED <<start, compute, target, flags, mem>>

(* singlecycle(): at most Batch products of the current diagonal; the end  *)
(* of a diagonal emits one result limb and keeps the rest as the carry.    *)
(* Reading past a cache is undefined: the batch then sums to anything.     *)
ComputeCycle ==
  LET fresh == bigmul_prog = 0                \* start_bigmul() on the first call
      s     == IF fresh THEN 0 ELSE s_diag
      top   == IF fresh THEN 0 ELSE i_max
      k     == IF fresh THEN 0 ELSE k_iter
      I     == {i \in k .. k + Batch - 1 : i <= top}
      last  == 2 * size_of_operand - 2
      inside == \A i \in I : i \in Index /\ s - i \in Index
      sums  == IF inside THEN {BatchSum(s, I)} ELSE Wide
  IN
  /\ start = "bigmul" /\ ~bigmul_done /\ write_done
  /\ \E sum \in sums \cap Wide :
       LET total == AccAddU192(IF fresh THEN Zero ELSE acc, sum) IN
       \/ /\ k + Batch <= top
          /\ acc' = total /\ k_iter' = k + Batch /\ s_diag' = s /\ i_max' = top
          /\ bigmul_prog' = 1
          /\ UNCHANGED <<resultCache, write_done>>
       \/ /\ k + Batch > top /\ s = last
          /\ acc' = AccShr64(total) /\ k_iter' = top + 1 /\ s_diag' = s /\ i_max' = top
          /\ resultCache' = [resultCache EXCEPT ![s] = total.a0, ![s + 1] = total.a1]
          /\ bigmul_prog' = 0
          /\ write_done' = FALSE
       \/ /\ k + Batch > top /\ s # last
          /\ acc' = AccShr64(total)
          /\ resultCache' = [resultCache EXCEPT ![s] = total.a0]
          /\ s_diag' = s + 1
          /\ i_max'  = DiagonalEnd(s + 1)
          /\ k_iter' = DiagonalStart(s + 1)
          /\ bigmul_prog' = 1
          /\ UNCHANGED write_done
  /\ UNCHANGED <<start, load, target, bigmul_done, write_offset, mem>>

WriteCycle ==
  /\ start = "bigmul" /\ ~bigmul_done /\ ~write_done
  /\ WriteBatch
  /\ UNCHANGED <<start, load, compute, target>>

Cycle == LdbmCycle \/ ComputeCycle \/ WriteCycle

(* RVSSVM::Reset: bigmul_unit::reset keeps size_of_operand. *)
Reset ==
  /\ start' = "none"
  /\ ldbm_done' = TRUE /\ ldbm_offset' = 0 /\ base_addr_A' = 0 /\ base_addr_B' = 0
  /\ cacheA' = [i \in Index |-> 0] /\ cacheB' = [i \in Index |-> 0]
  /\ bigmul_done' = TRUE /\ bigmul_prog' = 0 /\ base_addr_res' = 0
  /\ write_done' = TRUE /\ write_offset' = 0
  /\ resultCache' = [i \in 0 .. 2 * Limbs - 1 |-> 0]
  /\ s_diag' = 0 /\ i_max' = 0 /\ k_iter' = 0 /\ acc' = Zero
  /\ mem' = [x \in Addr |-> 0]
  /\ UNCHANGED size_of_operand

(* snapshot() and restore() leave out the operand size and the multiplier's *)
(* own position s_diag, i_max, k_iter, acc.                                 *)
Snapshot ==
  [bigmul_done |-> bigmul_done, ldbm_done |-> ldbm_done, write_done |-> write_done,
   ldbm_offset |-> ldbm_offset, bigmul_prog |-> bigmul_prog, write_offset |-> write_offset,
   base_addr_A |-> base_addr_A, base_addr_B |-> base_addr_B, base_addr_res |-> base_addr_res,
   cacheA |-> cacheA, cacheB |-> cacheB, resultCache |-> resultCache]

Restore(s) ==
  /\ bigmul_done' = s.bigmul_done /\ ldbm_done' = s.ldbm_done /\ write_done' = s.write_done
  /\ ldbm_offset' = s.ldbm_offset /\ bigmul_prog' = s.bigmul_prog
  /\ write_offset' = s.write_offset
  /\ base_addr_A' = s.base_addr_A /\ base_addr_B' = s.base_addr_B
  /\ base_addr_res' = s.base_addr_res
  /\ cacheA' = s.cacheA /\ cacheB' = s.cacheB /\ resultCache' = s.resultCache
  /\ UNCHANGED <<start, size_of_operand, s_diag, i_max, k_iter, acc>>

Init ==
  /\ start = "none"
  /\ ldbm_done = TRUE /\ ldbm_offset = 0 /\ base_addr_A = 0 /\ base_addr_B = 0
  /\ cacheA = [i \in Index |-> 0] /\ cacheB = [i \in Index |-> 0]
  /\ bigmul_done = TRUE /\ bigmul_prog = 0 /\ base_addr_res = 0
  /\ write_done = TRUE /\ write_offset = 0
  /\ resultCache = [i \in 0 .. 2 * Limbs - 1 |-> 0]
  /\ s_diag = 0 /\ i_max = 0 /\ k_iter = 0 /\ acc = Zero
  /\ mem \in InitMem
  /\ size_of_operand = Limbs

Next ==
  \/ \E a, b \in LoadAddrs : IssueLdbm(a, b)
  \/ \E r \in ResultAddrs, n \in Sizes : IssueBigmul(r, n)
  \/ IssueOther(mem)
  \/ \E st \in Stores : IssueOther([mem EXCEPT ![st[1]] = st[2]])
  \/ LdbmCycle
  \/ ComputeCycle
  \/ WriteCycle
  \/ Reset

(* A stalled run loop does nothing but advance the unit. *)
Spec == Init /\ [][Next]_vars /\ WF_vars(Cycle)
-------------------------------------------------------------------------------
(* Every variable has its type while no size exceeds the caches. *)
TypeOK ==
  /\ start \in {"none", "ldbm", "bigmul"}
  /\ ldbm_done \in BOOLEAN /\ bigmul_done \in BOOLEAN /\ write_done \in BOOLEAN
  /\ ldbm_offset \in Nat
  /\ base_addr_A \in Nat /\ base_addr_A + Limbs <= MemSize
  /\ base_addr_B \in Nat /\ base_addr_B + Limbs <= MemSize
  /\ bigmul_prog \in {0, 1}
  /\ base_addr_res \in Nat /\ base_addr_res + 2 * Limbs <= MemSize
  /\ size_of_operand \in 1 .. Limbs
  /\ write_offset \in Nat
  /\ cacheA \in [Index -> Digit] /\ cacheB \in [Index -> Digit]
  /\ resultCache \in [0 .. 2 * Limbs - 1 -> Digit]
  /\ s_diag \in Nat /\ i_max \in Nat /\ k_iter \in Nat
  /\ acc \in Wide
  /\ mem \in [Addr -> Digit]

Computing == bigmul_prog = 1

(* The column of partial products on diagonal s runs over these i. *)
Column(s) == {i \in 0 .. size_of_operand - 1 : s - i \in 0 .. size_of_operand - 1}

(* Every partial product still to be taken reads inside both caches, the   *)
(* diagonal is one of the result, and the loop over k_iter covers exactly  *)
(* the rest of the diagonal's column: nothing read twice, nothing skipped. *)
IndexSafe ==
  Computing =>
    /\ s_diag \in 0 .. 2 * Limbs - 2
    /\ k_iter .. i_max = {i \in Column(s_diag) : i >= k_iter}
    /\ k_iter <= i_max
    /\ i_max < Limbs /\ s_diag - k_iter < Limbs

(* The comment on s_diag: "current diagonal 0..126". *)
DiagonalRange == s_diag \in 0 .. 2 * Limbs - 2

(* What doubleword i of a number counts. *)
Weight[i \in Nat] == IF i = 0 THEN 1 ELSE Base * Weight[i - 1]

Number(f, n) == SumFunction([i \in 0 .. n - 1 |-> f[i] * Weight[i]])

AccValue == acc.a0 + acc.a1 * Weight[1] + acc.a2 * Weight[2]

(* The partial products <<i, j>> of diagonals before s, and of s before k. *)
Taken(s, k) ==
  {p \in (0 .. size_of_operand - 1) \X (0 .. size_of_operand - 1) :
     p[1] + p[2] < s \/ (p[1] + p[2] = s /\ p[1] < k)}

(* Between cycles the emitted limbs and the accumulator together are       *)
(* exactly the sum of all partial products taken so far: no carry is lost  *)
(* between batches or diagonals, and 192 bits never overflow.              *)
CarriesExact ==
  Computing =>
    Number(resultCache, s_diag) + AccValue * Weight[s_diag]
      = SumFunction([p \in Taken(s_diag, k_iter) |->
                       cacheA[p[1]] * cacheB[p[2]] * Weight[p[1] + p[2]]])

(* The unit does what LDBM and BIGMUL promise. *)
Promise == INSTANCE BigMultiply WITH
  busy     <- IF ~Stalled THEN "idle" ELSE IF start = "ldbm" THEN "load" ELSE "mul",
  source   <- <<base_addr_A, base_addr_B>>,
  operands <- IF ldbm_done THEN <<Number(cacheA, Limbs), Number(cacheB, Limbs)>> ELSE <<>>,
  dest     <- base_addr_res,
  size     <- size_of_operand

KeepsPromise == Promise!Spec

(* A run loop that waits for the unit is released. *)
StallEnds == Stalled ~> ~Stalled
===============================================================================
