---------------------------------- MODULE Alu ----------------------------------
(***************************************************************************)
(* Alu::execute on numbers of XLEN bits (64 in the code; a word is half of *)
(* them).  A value is held as a natural below Power[XLEN]; Crash is an operation *)
(* that traps and ends the process.                                        *)
(***************************************************************************)
EXTENDS Integers

CONSTANT XLEN

(* The model's registers are those of the code or narrower. *)
ASSUME WidthAssumption == XLEN \in {16, 32, 64}

Crash == -1   \* no number of XLEN bits

(* 2^i, as a recursive function *)
Power[i \in 0 .. XLEN] == IF i = 0 THEN 1 ELSE 2 * Power[i - 1]

Wrap(n)         == n % Power[XLEN]
SignOf(n, bits) == LET m == n % Power[bits] IN IF m < Power[bits - 1] THEN m ELSE m - Power[bits]
S(n)            == SignOf(n, XLEN)
Word(n)         == n % Power[XLEN \div 2]
SWord(n)        == SignOf(n, XLEN \div 2)

(* static_cast<int32_t>, then to 64 bits *)
FromWord(n) == Wrap(SWord(n))

(* Integer division and remainder of C: towards zero. *)
Abs(n) == IF n < 0 THEN -n ELSE n
Quotient(a, b) ==
  LET q == Abs(a) \div Abs(b) IN IF (a < 0) = (b < 0) THEN q ELSE -q
Remainder(a, b) == a - b * Quotient(a, b)

(* (a * b) >> XLEN without the product of 2 * XLEN bits *)
HighProduct(a, b) ==
  LET h == Power[XLEN \div 2] IN ((a \div h) * b + ((a % h) * b) \div h) \div h

(* g[0] + ... + g[n - 1] *)
SumUpTo(g, n) ==
  LET sum[i \in 0 .. n] == IF i = 0 THEN 0 ELSE sum[i - 1] + g[i - 1]
  IN  sum[n]

(* The bits at which a and b have one of the pairs. *)
Bit(n, i) == (n \div Power[i]) % 2
BitByBit(pairs, a, b) ==
  SumUpTo([i \in 0 .. XLEN - 1 |-> IF <<Bit(a, i), Bit(b, i)>> \in pairs THEN Power[i] ELSE 0],
          XLEN)

And(a, b) == BitByBit({<<1, 1>>}, a, b)
Or(a, b)  == BitByBit({<<0, 1>>, <<1, 0>>, <<1, 1>>}, a, b)
Xor(a, b) == BitByBit({<<0, 1>>, <<1, 0>>}, a, b)

Flag(b) == IF b THEN 1 ELSE 0

Min == -Power[XLEN - 1]

(* The least number divided by -1 is not set apart. *)
DivUnguarded(a, b) == IF b = 0 THEN 0 ELSE Wrap(Quotient(S(a), S(b)))

Div(a, b) ==
  IF S(b) = 0 THEN 0
  ELSE IF S(a) = Min /\ S(b) = -1 THEN Power[XLEN - 1] - 1
  ELSE Wrap(Quotient(S(a), S(b)))

Divw(a, b) ==
  IF SWord(b) = 0 THEN 0
  ELSE FromWord(Quotient(SWord(a), SWord(b)))

(* The test for zero looks at all of b, the division at its low word. *)
Divuw(a, b) ==
  IF b = 0 THEN 0 ELSE IF Word(b) = 0 THEN Crash ELSE Word(a) \div Word(b)

Rem(a, b) ==
  IF b = 0 THEN 0
  ELSE IF S(a) = Min /\ S(b) = -1 THEN Crash
  ELSE Wrap(Remainder(S(a), S(b)))

Remw(a, b) ==
  IF b = 0 THEN 0
  ELSE IF SWord(b) = 0 \/ (SWord(a) = -Power[XLEN \div 2 - 1] /\ SWord(b) = -1) THEN Crash
  ELSE FromWord(Remainder(SWord(a), SWord(b)))

Remuw(a, b) ==
  IF b = 0 THEN 0 ELSE IF Word(b) = 0 THEN Crash ELSE Word(a) % Word(b)

Amount(b)     == b % XLEN
WordAmount(b) == b % (XLEN \div 2)

execute(op, a, b) ==
  CASE op = "kAdd"    -> Wrap(a + b)
    [] op = "kAddw"   -> FromWord(a + b)
    [] op = "kSub"    -> Wrap(a - b)
    [] op = "kSubw"   -> FromWord(a - b)
    [] op = "kMul"    -> Wrap(S(a) * S(b))
    [] op = "kMulh"   -> Wrap((S(a) * S(b)) \div Power[XLEN])
    [] op = "kMulhsu" -> Wrap((S(a) * b) \div Power[XLEN])
    [] op = "kMulhu"  -> HighProduct(a, b)
    [] op = "kMulw"   -> FromWord(SWord(a) * SWord(b))
    [] op = "kDiv"    -> Div(a, b)
    [] op = "kDivw"   -> Divw(a, b)
    [] op = "kDivu"   -> IF b = 0 THEN 0 ELSE a \div b
    [] op = "kDivuw"  -> Divuw(a, b)
    [] op = "kRem"    -> Rem(a, b)
    [] op = "kRemw"   -> Remw(a, b)
    [] op = "kRemu"   -> IF b = 0 THEN 0 ELSE a % b
    [] op = "kRemuw"  -> Remuw(a, b)
    [] op = "kAnd"    -> And(a, b)
    [] op = "kOr"     -> Or(a, b)
    [] op = "kXor"    -> Xor(a, b)
    [] op = "kSll"    -> Wrap(a * Power[Amount(b)])
    [] op = "kSllw"   -> FromWord(Word(a) * Power[WordAmount(b)])
    [] op = "kSrl"    -> a \div Power[Amount(b)]
    [] op = "kSrlw"   -> FromWord(Word(a) \div Power[WordAmount(b)])
    [] op = "kSra"    -> Wrap(S(a) \div Power[Amount(b)])
    [] op = "kSraw"   -> Wrap(SWord(a) \div Power[WordAmount(b)])
    [] op = "kSlt"    -> Flag(S(a) < S(b))
    [] op = "kSltu"   -> Flag(a < b)
    [] OTHER          -> 0
===============================================================================
