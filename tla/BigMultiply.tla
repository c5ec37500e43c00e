------------------------------ MODULE BigMultiply -----------------------------
(***************************************************************************)
(* What LDBM and BIGMUL promise a program, with no caches, batches, carries *)
(* or cycles: LDBM captures two numbers from memory; BIGMUL stores the      *)
(* product of their low size limbs at the result address, and until it is  *)
(* finished memory differs from before only by digits of that product.     *)
(***************************************************************************)
EXTENDS Integers, Functions

CONSTANTS Limbs, SizeLimit, Base, MemSize, InitMem, LoadAddrs, ResultAddrs, Sizes, Stores

VARIABLES
  busy,      \* "idle", "load" or "mul"
  source,    \* the operand addresses of the last LDBM
  operands,  \* the two numbers captured, or <<>> while they are being loaded
  dest,      \* the result address of the last BIGMUL
  size,      \* limbs multiplied; survives from one BIGMUL to the next
  mem

vars == <<busy, source, operands, dest, size, mem>>

Addr == 0 .. MemSize - 1

(* What doubleword i of a number counts. *)
Weight[i \in Nat] == IF i = 0 THEN 1 ELSE Base * Weight[i - 1]

(* The little-endian number stored in the Limbs doublewords from a on. *)
Number(a) == SumFunction([i \in 0 .. Limbs - 1 |-> mem[a + i] * Weight[i]])

Product == (operands[1] % Weight[size]) * (operands[2] % Weight[size])

ProductDigit(i) == (Product \div Weight[i]) % Base

InResult(x) == x - dest \in 0 .. 2 * size - 1

StartLoad(a, b) ==
  /\ busy = "idle"
  /\ busy' = "load"
  /\ source' = <<a, b>>
  /\ operands' = <<>>
  /\ UNCHANGED <<dest, size, mem>>

FinishLoad ==
  /\ busy = "load"
  /\ busy' = "idle"
  /\ operands' = <<Number(source[1]), Number(source[2])>>
  /\ UNCHANGED <<source, dest, size, mem>>

StartMul(r, n) ==
  /\ busy = "idle"
  /\ busy' = "mul"
  /\ dest' = r
  /\ size' = IF n \in 1 .. SizeLimit - 1 THEN n ELSE size
  /\ UNCHANGED <<source, operands, mem>>

StoreDigits ==
  /\ busy = "mul"
  /\ \A x \in Addr : mem'[x] # mem[x] => InResult(x) /\ mem'[x] = ProductDigit(x - dest)
  /\ \/ busy' = "mul"
     \/ /\ busy' = "idle"
        /\ \A x \in Addr : InResult(x) => mem'[x] = ProductDigit(x - dest)
  /\ UNCHANGED <<source, operands, dest, size>>

Other ==
  /\ busy = "idle"
  /\ \E st \in Stores : mem' = [mem EXCEPT ![st[1]] = st[2]]
  /\ UNCHANGED <<busy, source, operands, dest, size>>

Reset ==
  /\ busy' = "idle"
  /\ source' = <<0, 0>> /\ operands' = <<0, 0>> /\ dest' = 0
  /\ mem' = [x \in Addr |-> 0]
  /\ UNCHANGED size

Init ==
  /\ busy = "idle" /\ source = <<0, 0>> /\ operands = <<0, 0>> /\ dest = 0
  /\ size = Limbs
  /\ mem \in InitMem

Next ==
  \/ \E a, b \in LoadAddrs : StartLoad(a, b)
  \/ FinishLoad
  \/ \E r \in ResultAddrs, n \in Sizes : StartMul(r, n)
  \/ StoreDigits
  \/ Other
  \/ Reset

Spec == Init /\ [][Next]_vars
===============================================================================
