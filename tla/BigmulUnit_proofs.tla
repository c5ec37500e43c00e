--------------------------- MODULE BigmulUnit_proofs --------------------------
(***************************************************************************)
(* Type correctness and memory safety of the coprocessor, for every number *)
(* of limbs, every batch size and every word size.                         *)
(*                                                                         *)
(* Both need programs whose operand sizes fit the caches.  Decode does not *)
(* ensure that (it accepts rs2 < 512 for caches of 64 doublewords), so it  *)
(* is an assumption of the theorems and not of the module.                 *)
(***************************************************************************)
EXTENDS BigmulUnit, TLAPS

SizesFit == \A n \in Sizes : n < SizeLimit => n <= Limbs

(* Reduction to 64 bits. *)
LEMMA DigitArith ==
  ASSUME NEW x \in Int
  PROVE  x % Base \in Digit
<1>1. Base \in Nat /\ Base > 0
  BY UnitAssumption
<1> QED
  BY <1>1 DEF Digit

(* The accumulator operations stay within three doublewords. *)
LEMMA AccWide ==
  ASSUME NEW a \in Wide, NEW b \in Wide
  PROVE  /\ AccAddU192(a, b) \in Wide
         /\ AccShr64(a) \in Wide
         /\ Zero \in Wide
<1>1. Base \in Nat /\ Base > 0 /\ 0 \in Digit
  BY UnitAssumption DEF Digit
<1>2. /\ a.a0 \in Int /\ a.a1 \in Int /\ a.a2 \in Int
      /\ b.a0 \in Int /\ b.a1 \in Int /\ b.a2 \in Int
  BY <1>1 DEF Wide, Digit
<1> DEFINE t0 == a.a0 + b.a0
           t1 == a.a1 + b.a1 + t0 \div Base
           sum == AccAddU128(a, b.a0, b.a1)
<1>3. t0 \in Int /\ t0 \div Base \in Int
  BY <1>1, <1>2
<1>4. t1 \in Int /\ t1 \div Base \in Int
  BY <1>1, <1>2, <1>3
<1>5. sum = [a0 |-> t0 % Base, a1 |-> t1 % Base, a2 |-> (a.a2 + t1 \div Base) % Base]
  BY DEF AccAddU128
<1>6. t0 % Base \in Digit /\ t1 % Base \in Digit /\ (a.a2 + t1 \div Base) % Base \in Digit
  BY <1>2, <1>3, <1>4, DigitArith
<1> HIDE DEF t0, t1
<1>7. sum \in Wide
  BY <1>5, <1>6 DEF Wide
<1>8. sum.a2 \in Int /\ (sum.a2 + b.a2) % Base \in Digit
  <2>1. sum.a2 \in Digit
    BY <1>7 DEF Wide
  <2>2. sum.a2 \in Int
    BY <1>1, <2>1 DEF Digit
  <2>3. sum.a2 + b.a2 \in Int
    BY <1>2, <2>2
  <2> QED
    BY <2>2, <2>3, DigitArith
<1>9. AccAddU192(a, b) \in Wide
  <2>1. AccAddU192(a, b) = [sum EXCEPT !.a2 = (sum.a2 + b.a2) % Base]
    BY DEF AccAddU192
  <2> QED
    BY <2>1, <1>7, <1>8 DEF Wide
<1>10. AccShr64(a) \in Wide /\ Zero \in Wide
  BY <1>1 DEF AccShr64, Zero, Wide
<1> QED
  BY <1>9, <1>10

-------------------------------------------------------------------------------
(* A load batch reads memory inside it and keeps the caches' types. *)
LEMMA LoadBatchTyped ==
  ASSUME TypeOK,
         NEW a \in Nat, a + Limbs <= MemSize,
         NEW b \in Nat, b + Limbs <= MemSize,
         NEW o \in Nat,
         LoadBatch(a, b, o)
  PROVE  /\ ldbm_done' \in BOOLEAN /\ ldbm_offset' \in Nat
         /\ base_addr_A' = a /\ base_addr_B' = b
         /\ cacheA' \in [Index -> Digit] /\ cacheB' \in [Index -> Digit]
<1>1. Limbs \in Nat /\ MemBatch \in Nat /\ MemSize \in Nat
  BY UnitAssumption
<1>2. ASSUME NEW base \in Nat, base + Limbs <= MemSize, NEW i \in Index
      PROVE  mem[base + i] \in Digit
  <2>1. base + i \in Addr
    BY <1>1, <1>2 DEF Addr, Index
  <2> QED
    BY <2>1 DEF TypeOK
<1>3. ASSUME NEW cache \in [Index -> Digit], NEW from,
             NEW base \in Nat, base + Limbs <= MemSize
      PROVE  Loaded(cache, from, base) \in [Index -> Digit]
  BY <1>2, <1>3 DEF Loaded
<1>4. cacheA' \in [Index -> Digit] /\ cacheB' \in [Index -> Digit]
  BY <1>3 DEF LoadBatch, TypeOK
<1> QED
  BY <1>1, <1>4 DEF LoadBatch

(* A write batch stores result limbs only, and only of the cached result. *)
LEMMA WriteBatchTyped ==
  ASSUME TypeOK, WriteBatch
  PROVE  /\ mem' \in [Addr -> Digit] /\ write_offset' \in Nat
         /\ write_done' \in BOOLEAN /\ bigmul_done' \in BOOLEAN
<1>1. Limbs \in Nat /\ MemBatch \in Nat /\ MemSize \in Nat
  BY UnitAssumption
<1>2. size_of_operand \in Nat /\ size_of_operand <= Limbs /\ write_offset \in Nat
      /\ base_addr_res \in Nat
  BY <1>1 DEF TypeOK
<1>3. ASSUME NEW x \in Addr,
             x - base_addr_res \in write_offset .. write_offset + MemBatch - 1,
             x - base_addr_res < 2 * size_of_operand
      PROVE  resultCache[x - base_addr_res] \in Digit
  <2>1. x - base_addr_res \in 0 .. 2 * Limbs - 1
    BY <1>1, <1>2, <1>3 DEF Addr
  <2> QED
    BY <2>1 DEF TypeOK
<1>4. mem' \in [Addr -> Digit]
  BY <1>3 DEF WriteBatch, TypeOK
<1> QED
  BY <1>1, <1>2, <1>4 DEF WriteBatch

-------------------------------------------------------------------------------
(* Types are kept operation by operation, wherever the multiplier stands on  *)
(* its diagonals: restore() brings back a state without its diagonal.        *)

(* LDBM's first cycle keeps the types. *)
LEMMA IssueLdbmTyped ==
  ASSUME TypeOK,
         NEW a \in Nat, a + Limbs <= MemSize,
         NEW b \in Nat, b + Limbs <= MemSize,
         IssueLdbm(a, b)
  PROVE  TypeOK'
<1>1. PICK p \in {a, base_addr_A}, q \in {b, base_addr_B}, o \in {0, ldbm_offset} :
        LoadBatch(p, q, o)
  BY DEF IssueLdbm
<1>2. p \in Nat /\ p + Limbs <= MemSize /\ q \in Nat /\ q + Limbs <= MemSize /\ o \in Nat
  BY DEF TypeOK
<1>3. /\ ldbm_done' \in BOOLEAN /\ ldbm_offset' \in Nat
      /\ base_addr_A' = p /\ base_addr_B' = q
      /\ cacheA' \in [Index -> Digit] /\ cacheB' \in [Index -> Digit]
  BY <1>1, <1>2, LoadBatchTyped
<1>4. start' = "ldbm" /\ UNCHANGED <<compute, target, flags, mem>>
  BY DEF IssueLdbm
<1> QED
  BY <1>2, <1>3, <1>4 DEF TypeOK, compute, target, flags

(* BIGMUL's issue keeps the types if its size fits the caches. *)
LEMMA IssueBigmulTyped ==
  ASSUME TypeOK,
         NEW r \in Nat, r + 2 * Limbs <= MemSize,
         NEW n \in Nat, n < SizeLimit => n <= Limbs,
         IssueBigmul(r, n)
  PROVE  TypeOK'
<1>1. OperandSize(n) \in 1 .. Limbs
  BY UnitAssumption DEF OperandSize, TypeOK
<1>2. CASE bigmul_done
  <2>1. /\ start' = "bigmul" /\ size_of_operand' = OperandSize(n) /\ base_addr_res' = r
        /\ bigmul_prog' = 0 /\ bigmul_done' = FALSE
        /\ write_offset' = 0 /\ write_done' = TRUE
        /\ UNCHANGED <<s_diag, i_max, k_iter, acc, resultCache, mem>>
        /\ UNCHANGED load
    BY <1>2 DEF IssueBigmul
  <2> QED
    BY <1>1, <2>1 DEF TypeOK, load
<1>3. CASE ~bigmul_done /\ ~write_done
  <2>1. WriteBatch /\ UNCHANGED <<compute, target, load>> /\ start' = "bigmul"
    BY <1>3 DEF IssueBigmul
  <2> QED
    BY <2>1, WriteBatchTyped DEF TypeOK, load, compute, target
<1>4. CASE ~bigmul_done /\ write_done
  <2>1. UNCHANGED <<load, compute, target, flags, mem>> /\ start' = "bigmul"
    BY <1>4 DEF IssueBigmul
  <2> QED
    BY <2>1 DEF TypeOK, load, compute, target, flags
<1> QED
  BY <1>2, <1>3, <1>4 DEF TypeOK

(* Any other instruction keeps the types if what it leaves in memory does. *)
LEMMA IssueOtherTyped ==
  ASSUME TypeOK, NEW m \in [Addr -> Digit], IssueOther(m)
  PROVE  TypeOK'
BY DEF IssueOther, TypeOK, load, compute, target, flags

(* A multiply cycle keeps the types, whatever an undefined read returns. *)
LEMMA ComputeCycleTyped ==
  ASSUME TypeOK, ComputeCycle
  PROVE  TypeOK'
<1> DEFINE fresh == bigmul_prog = 0
           s   == IF fresh THEN 0 ELSE s_diag
           top == IF fresh THEN 0 ELSE i_max
           k   == IF fresh THEN 0 ELSE k_iter
           last == 2 * size_of_operand - 2
<1>1. PICK sum \in Wide :
        LET total == AccAddU192(IF fresh THEN Zero ELSE acc, sum) IN
        \/ /\ k + Batch <= top
           /\ acc' = total /\ k_iter' = k + Batch /\ s_diag' = s /\ i_max' = top
           /\ bigmul_prog' = 1
           /\ UNCHANGED <<resultCache, write_done>>
        \/ /\ k + Batch > top /\ s = last
           /\ acc' = AccShr64(total) /\ k_iter' = top + 1 /\ s_diag' = s /\ i_max' = top
           /\ resultCache' = [resultCache EXCEPT ![s] = total.a0, ![s + 1] = total.a1]
           /\ bigmul_prog' = 0
           /\ write_done' = FALSE
        \/ /\ k + Batch > top /\ s # last
           /\ acc' = AccShr64(total)
           /\ resultCache' = [resultCache EXCEPT ![s] = total.a0]
           /\ s_diag' = s + 1
           /\ i_max'  = DiagonalEnd(s + 1)
           /\ k_iter' = DiagonalStart(s + 1)
           /\ bigmul_prog' = 1
           /\ UNCHANGED write_done
  BY DEF ComputeCycle
<1>2. UNCHANGED <<start, load, target, bigmul_done, write_offset, mem>>
  BY DEF ComputeCycle
<1> DEFINE total == AccAddU192(IF fresh THEN Zero ELSE acc, sum)
<1>3. total \in Wide /\ AccShr64(total) \in Wide
  BY <1>1, AccWide DEF TypeOK
<1>4. total.a0 \in Digit /\ total.a1 \in Digit
  BY <1>3 DEF Wide
<1>5. /\ s \in Nat /\ top \in Nat /\ k \in Nat
      /\ size_of_operand \in Nat /\ 1 <= size_of_operand /\ Batch \in Nat
  BY UnitAssumption DEF TypeOK
<1> HIDE DEF total, s, top, k, last
<1>6. /\ acc' \in Wide
      /\ bigmul_prog' \in {0, 1} /\ write_done' \in BOOLEAN
      /\ resultCache' \in [0 .. 2 * Limbs - 1 -> Digit]
  BY <1>1, <1>3, <1>4 DEF TypeOK, total, s, top, k, last
<1>7. s_diag' \in Nat /\ i_max' \in Nat /\ k_iter' \in Nat
  BY <1>1, <1>5 DEF DiagonalStart, DiagonalEnd, total
<1> QED
  BY <1>2, <1>6, <1>7 DEF TypeOK, load, target

(* The stall cycles keep the types. *)
LEMMA CycleTyped ==
  ASSUME TypeOK, Cycle
  PROVE  TypeOK'
<1>1. CASE LdbmCycle
  <2>1. LoadBatch(base_addr_A, base_addr_B, ldbm_offset)
    BY <1>1 DEF LdbmCycle
  <2>2. /\ base_addr_A \in Nat /\ base_addr_A + Limbs <= MemSize
        /\ base_addr_B \in Nat /\ base_addr_B + Limbs <= MemSize
        /\ ldbm_offset \in Nat
    BY DEF TypeOK
  <2>3. /\ ldbm_done' \in BOOLEAN /\ ldbm_offset' \in Nat
        /\ base_addr_A' = base_addr_A /\ base_addr_B' = base_addr_B
        /\ cacheA' \in [Index -> Digit] /\ cacheB' \in [Index -> Digit]
    BY <2>1, <2>2, LoadBatchTyped
  <2>4. UNCHANGED <<start, compute, target, flags, mem>>
    BY <1>1 DEF LdbmCycle
  <2> QED
    BY <2>3, <2>4 DEF TypeOK, compute, target, flags
<1>2. CASE ComputeCycle
  BY <1>2, ComputeCycleTyped
<1>3. CASE WriteCycle
  <2>1. WriteBatch /\ UNCHANGED <<start, load, compute, target>>
    BY <1>3 DEF WriteCycle
  <2> QED
    BY <2>1, WriteBatchTyped DEF TypeOK, load, compute, target
<1> QED
  BY <1>1, <1>2, <1>3 DEF Cycle

(* Reset keeps the types. *)
LEMMA ResetTyped ==
  ASSUME TypeOK, Reset
  PROVE  TypeOK'
<1>1. Limbs \in Nat \ {0} /\ MemSize \in Nat /\ 2 * Limbs <= MemSize /\ 0 \in Digit
  BY UnitAssumption DEF Digit
<1>2. acc' \in Wide
  BY <1>1 DEF Reset, Zero, Wide
<1>3. /\ cacheA' \in [Index -> Digit] /\ cacheB' \in [Index -> Digit]
      /\ resultCache' \in [0 .. 2 * Limbs - 1 -> Digit] /\ mem' \in [Addr -> Digit]
  BY <1>1 DEF Reset
<1> QED
  BY <1>1, <1>2, <1>3 DEF Reset, TypeOK

(* What snapshot() may return. *)
Snapshots ==
  [bigmul_done : BOOLEAN, ldbm_done : BOOLEAN, write_done : BOOLEAN,
   ldbm_offset : Nat, bigmul_prog : {0, 1}, write_offset : Nat,
   base_addr_A : {a \in Nat : a + Limbs <= MemSize},
   base_addr_B : {b \in Nat : b + Limbs <= MemSize},
   base_addr_res : {r \in Nat : r + 2 * Limbs <= MemSize},
   cacheA : [Index -> Digit], cacheB : [Index -> Digit],
   resultCache : [0 .. 2 * Limbs - 1 -> Digit]]

(* snapshot() returns such a record, and restore() of one keeps the types, *)
(* though it leaves the multiplier's position where it is.                 *)
LEMMA SnapshotTyped == TypeOK => Snapshot \in Snapshots
BY DEF TypeOK, Snapshot, Snapshots

LEMMA RestoreTyped ==
  ASSUME TypeOK, NEW s \in Snapshots, Restore(s), mem' \in [Addr -> Digit]
  PROVE  TypeOK'
<1>1. /\ s.bigmul_done \in BOOLEAN /\ s.ldbm_done \in BOOLEAN /\ s.write_done \in BOOLEAN
      /\ s.ldbm_offset \in Nat /\ s.bigmul_prog \in {0, 1} /\ s.write_offset \in Nat
      /\ s.base_addr_A \in Nat /\ s.base_addr_A + Limbs <= MemSize
      /\ s.base_addr_B \in Nat /\ s.base_addr_B + Limbs <= MemSize
      /\ s.base_addr_res \in Nat /\ s.base_addr_res + 2 * Limbs <= MemSize
      /\ s.cacheA \in [Index -> Digit] /\ s.cacheB \in [Index -> Digit]
      /\ s.resultCache \in [0 .. 2 * Limbs - 1 -> Digit]
  BY DEF Snapshots
<1> QED
  BY <1>1 DEF Restore, TypeOK

-------------------------------------------------------------------------------
(***************************************************************************)
(* The inductive invariant: while the multiplier runs, k_iter stands       *)
(* between the two ends of the column of the current diagonal.             *)
(***************************************************************************)
OnDiagonal ==
  Computing =>
    /\ s_diag <= 2 * size_of_operand - 2
    /\ i_max = DiagonalEnd(s_diag)
    /\ DiagonalStart(s_diag) <= k_iter
    /\ k_iter <= i_max

IInv == TypeOK /\ OnDiagonal

(* The initial state satisfies the invariant. *)
LEMMA InitIInv == Init => IInv
<1> SUFFICES ASSUME Init PROVE IInv
  OBVIOUS
<1>1. /\ Limbs \in Nat \ {0} /\ MemSize \in Nat /\ 2 * Limbs <= MemSize
      /\ 0 \in Digit /\ InitMem \subseteq [Addr -> Digit]
  BY UnitAssumption DEF Digit
<1>2. acc \in Wide
  BY <1>1 DEF Init, Zero, Wide
<1>3. TypeOK
  BY <1>1, <1>2 DEF Init, TypeOK
<1>4. OnDiagonal
  BY DEF Init, OnDiagonal, Computing
<1> QED
  BY <1>3, <1>4 DEF IInv

(* Every step preserves the invariant. *)
LEMMA StepIInv == SizesFit /\ IInv /\ [Next]_vars => IInv'
<1> SUFFICES ASSUME SizesFit, IInv, [Next]_vars PROVE IInv'
  OBVIOUS
<1>0. TypeOK /\ OnDiagonal
  BY DEF IInv
<1>c. /\ Limbs \in Nat \ {0} /\ Batch \in Nat \ {0} /\ MemBatch \in Nat \ {0}
      /\ MemSize \in Nat /\ 2 * Limbs <= MemSize /\ SizeLimit \in Nat /\ 0 \in Digit
  BY UnitAssumption DEF Digit
<1>1. CASE \E a, b \in LoadAddrs : IssueLdbm(a, b)
  <2>1. PICK a \in LoadAddrs, b \in LoadAddrs : IssueLdbm(a, b)
    BY <1>1
  <2>2. a \in Nat /\ a + Limbs <= MemSize /\ b \in Nat /\ b + Limbs <= MemSize
    BY UnitAssumption
  <2>3. TypeOK'
    BY <1>0, <2>1, <2>2, IssueLdbmTyped
  <2>4. OnDiagonal'
    BY <1>0, <2>1 DEF IssueLdbm, OnDiagonal, Computing, DiagonalStart, DiagonalEnd,
                      compute, target, flags
  <2> QED
    BY <2>3, <2>4 DEF IInv
<1>2. CASE \E r \in ResultAddrs, n \in Sizes : IssueBigmul(r, n)
  <2>1. PICK r \in ResultAddrs, n \in Sizes : IssueBigmul(r, n)
    BY <1>2
  <2>2. /\ r \in Nat /\ r + 2 * Limbs <= MemSize
        /\ n \in Nat /\ (n < SizeLimit => n <= Limbs)
    BY UnitAssumption DEF SizesFit
  <2>3. TypeOK'
    BY <1>0, <2>1, <2>2, IssueBigmulTyped
  <2>4. bigmul_prog' = 0 \/ UNCHANGED <<compute, target>>
    BY <2>1 DEF IssueBigmul
  <2>5. OnDiagonal'
    BY <1>0, <2>4 DEF OnDiagonal, Computing, DiagonalStart, DiagonalEnd, compute, target
  <2> QED
    BY <2>3, <2>5 DEF IInv
<1>3. CASE \/ IssueOther(mem)
            \/ \E st \in Stores : IssueOther([mem EXCEPT ![st[1]] = st[2]])
  <2>1. PICK m \in {mem} \cup {[mem EXCEPT ![st[1]] = st[2]] : st \in Stores} : IssueOther(m)
    BY <1>3
  <2>2. m \in [Addr -> Digit]
    <3>1. mem \in [Addr -> Digit] /\ Stores \subseteq Addr \X Digit
      BY <1>0, UnitAssumption DEF TypeOK
    <3>2. ASSUME NEW st \in Stores PROVE [mem EXCEPT ![st[1]] = st[2]] \in [Addr -> Digit]
      <4>1. st[2] \in Digit
        BY <3>1
      <4> QED
        BY <3>1, <4>1
    <3> QED
      BY <3>1, <3>2
  <2>3. TypeOK'
    BY <1>0, <2>1, <2>2, IssueOtherTyped
  <2>4. OnDiagonal'
    BY <1>0, <2>1 DEF IssueOther, OnDiagonal, Computing, DiagonalStart, DiagonalEnd,
                      compute, target
  <2> QED
    BY <2>3, <2>4 DEF IInv
<1>4. CASE LdbmCycle
  <2>1. TypeOK'
    BY <1>0, <1>4, CycleTyped DEF Cycle
  <2>2. OnDiagonal'
    BY <1>0, <1>4 DEF LdbmCycle, OnDiagonal, Computing, DiagonalStart, DiagonalEnd,
                      compute, target
  <2> QED
    BY <2>1, <2>2 DEF IInv
<1>5. CASE ComputeCycle
  <2> DEFINE fresh == bigmul_prog = 0
             s   == IF fresh THEN 0 ELSE s_diag
             top == IF fresh THEN 0 ELSE i_max
             k   == IF fresh THEN 0 ELSE k_iter
             last == 2 * size_of_operand - 2
  <2>1. \/ /\ k + Batch <= top
           /\ k_iter' = k + Batch /\ s_diag' = s /\ i_max' = top
        \/ /\ k + Batch > top /\ s = last
           /\ bigmul_prog' = 0
        \/ /\ k + Batch > top /\ s # last
           /\ s_diag' = s + 1
           /\ i_max'  = DiagonalEnd(s + 1)
           /\ k_iter' = DiagonalStart(s + 1)
    BY <1>5 DEF ComputeCycle
  <2>2. size_of_operand' = size_of_operand
    BY <1>5 DEF ComputeCycle, target
  <2>3. TypeOK'
    BY <1>0, <1>5, CycleTyped DEF Cycle
  <2>4. /\ s \in Nat /\ top \in Nat /\ k \in Nat
        /\ size_of_operand \in Nat /\ 1 <= size_of_operand /\ size_of_operand <= Limbs
        /\ s <= last /\ top = DiagonalEnd(s)
        /\ DiagonalStart(s) <= k /\ k <= top
    BY <1>0, <1>c DEF TypeOK, OnDiagonal, Computing, DiagonalStart, DiagonalEnd
  <2> HIDE DEF s, top, k, last
  <2>5. OnDiagonal'
    <3>1. CASE k + Batch <= top
      BY <1>c, <2>1, <2>2, <2>4, <3>1 DEF OnDiagonal, Computing, DiagonalStart, DiagonalEnd, last
    <3>2. CASE k + Batch > top /\ s = last
      BY <1>c, <2>1, <2>4, <3>2 DEF OnDiagonal, Computing
    <3>3. CASE k + Batch > top /\ s # last
      BY <1>c, <2>1, <2>2, <2>4, <3>3 DEF OnDiagonal, Computing, DiagonalStart, DiagonalEnd, last
    <3> QED
      BY <2>1, <3>1, <3>2, <3>3
  <2> QED
    BY <2>3, <2>5 DEF IInv
<1>6. CASE WriteCycle
  <2>1. TypeOK'
    BY <1>0, <1>6, CycleTyped DEF Cycle
  <2>2. OnDiagonal'
    BY <1>0, <1>6 DEF WriteCycle, OnDiagonal, Computing, DiagonalStart, DiagonalEnd,
                      compute, target
  <2> QED
    BY <2>1, <2>2 DEF IInv
<1>7. CASE Reset
  <2>1. TypeOK'
    BY <1>0, <1>7, ResetTyped
  <2>2. OnDiagonal'
    BY <1>7 DEF Reset, OnDiagonal, Computing
  <2> QED
    BY <2>1, <2>2 DEF IInv
<1>8. CASE UNCHANGED vars
  BY <1>0, <1>8 DEF vars, load, compute, target, flags, IInv, TypeOK, OnDiagonal, Computing,
                    DiagonalStart, DiagonalEnd
<1> QED
  BY <1>1, <1>2, <1>3, <1>4, <1>5, <1>6, <1>7, <1>8 DEF Next

(* The invariant gives the statement the runs check. *)
LEMMA IInvImpliesIndexSafe == IInv => IndexSafe
<1> SUFFICES ASSUME IInv, Computing PROVE IndexSafe
  BY DEF IndexSafe
<1>1. /\ Limbs \in Nat /\ size_of_operand \in Nat
      /\ 1 <= size_of_operand /\ size_of_operand <= Limbs
      /\ s_diag \in Nat /\ i_max \in Nat /\ k_iter \in Nat
  BY UnitAssumption DEF IInv, TypeOK
<1>2. /\ s_diag <= 2 * size_of_operand - 2
      /\ i_max = DiagonalEnd(s_diag)
      /\ DiagonalStart(s_diag) <= k_iter
      /\ k_iter <= i_max
  BY DEF IInv, OnDiagonal
<1>3. ASSUME NEW i
      PROVE  i \in k_iter .. i_max <=> i \in {j \in Column(s_diag) : j >= k_iter}
  BY <1>1, <1>2 DEF Column, DiagonalStart, DiagonalEnd
<1>4. k_iter .. i_max = {i \in Column(s_diag) : i >= k_iter}
  BY <1>3
<1>5. /\ s_diag \in 0 .. 2 * Limbs - 2
      /\ i_max < Limbs /\ s_diag - k_iter < Limbs
  BY <1>1, <1>2 DEF DiagonalStart, DiagonalEnd
<1> QED
  BY <1>2, <1>4, <1>5 DEF IndexSafe

(* The unit's state keeps its types: among others, size_of_operand stays    *)
(* between 1 and the length of a cache, so the write-back, which reads      *)
(* twice that many limbs of resultCache, stays inside it.                   *)
THEOREM TypeCorrect ==
  ASSUME SizesFit
  PROVE  Spec => []TypeOK
<1>1. IInv /\ [Next]_vars => IInv'
  BY SizesFit, StepIInv
<1>2. IInv => TypeOK
  BY DEF IInv
<1> QED
  BY InitIInv, <1>1, <1>2, PTL DEF Spec

(* singlecycle reads only inside cacheA and cacheB, and visits every partial *)
(* product of every diagonal exactly once, even when stopped and resumed.    *)
THEOREM IndexSafety ==
  ASSUME SizesFit
  PROVE  Spec => []IndexSafe
<1>1. IInv /\ [Next]_vars => IInv'
  BY SizesFit, StepIInv
<1> QED
  BY InitIInv, <1>1, IInvImpliesIndexSafe, PTL DEF Spec
===============================================================================
