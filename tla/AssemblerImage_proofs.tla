------------------------- MODULE AssemblerImage_proofs -------------------------
(***************************************************************************)
(* The image that LoadProgram writes and the line mapping that goes with   *)
(* it, for every file whose tokens are in the order of their lines, whose  *)
(* text ends before the data and whose labels lead: every branch, and      *)
(* every jump to the text, goes to its label, and every line has its       *)
(* instruction.                                                            *)
(***************************************************************************)
EXTENDS Assembler_proofs

-------------------------------------------------------------------------------
(***************************************************************************)
(* The loaded image.  LoadProgram writes the data from DataStart, so that  *)
(* it leaves the text alone where that ends before.                        *)
(***************************************************************************)
IsBuffer(buffer, n) ==
  /\ n \in Nat /\ DOMAIN buffer = 1 .. n
  /\ \A k \in 1 .. n : buffer[k].size \in Nat /\ buffer[k].align \in Nat \ {0}

PlacedAt(buffer, g, k) ==
  IF k = 1 THEN 0 ELSE AlignUp(g[k - 1] + buffer[k - 1].size, buffer[k].align)

(* The recursive definition has a solution, and so Placement is one. *)
LEMMA PlacementIs ==
  ASSUME NEW buffer, NEW n, IsBuffer(buffer, n)
  PROVE  /\ DOMAIN Placement(buffer) = 1 .. n
         /\ \A k \in 1 .. n : Placement(buffer)[k] = PlacedAt(buffer, Placement(buffer), k)
         /\ \A k \in 1 .. n : Placement(buffer)[k] \in Nat
<1> DEFINE Solves(g, m) == g = [k \in 1 .. m |-> PlacedAt(buffer, g, k)]
           N == {m \in Nat : \E g : Solves(g, m)}
           Rec(g) == g = [k \in DOMAIN buffer |-> PlacedAt(buffer, g, k)]
<1>0. n \in Nat /\ DOMAIN buffer = 1 .. n
  BY DEF IsBuffer
<1>1. 0 \in N
  <2> DEFINE g == [k \in 1 .. 0 |-> 0]
  <2>1. Solves(g, 0)
    OBVIOUS
  <2> HIDE DEF g
  <2> QED
    BY <2>1
<1>2. ASSUME NEW m \in N PROVE m + 1 \in N
  <2>1. PICK g : Solves(g, m)
    OBVIOUS
  <2> DEFINE h == [k \in 1 .. m + 1 |-> IF k = m + 1 THEN PlacedAt(buffer, g, k) ELSE g[k]]
  <2>2. m \in Nat
    OBVIOUS
  <2>3. \A k \in 1 .. m + 1 : k # 1 => h[k - 1] = g[k - 1]
    BY <2>2
  <2>4. \A k \in 1 .. m + 1 : PlacedAt(buffer, h, k) = PlacedAt(buffer, g, k)
    BY <2>3 DEF PlacedAt
  <2>5. \A k \in 1 .. m + 1 : h[k] = PlacedAt(buffer, h, k)
    BY <2>1, <2>2, <2>4
  <2>6. Solves(h, m + 1)
    BY <2>5
  <2> HIDE DEF h
  <2> QED
    BY <2>2, <2>6
<1> HIDE DEF N
<1>3. n \in N
  <2>1. N \in SUBSET Nat
    BY DEF N
  <2> QED
    BY <1>0, <1>1, <1>2, <2>1, NatSet
<1>4. \E g : Rec(g)
  <2>1. PICK g : Solves(g, n)
    BY <1>3 DEF N
  <2> QED
    BY <1>0, <2>1
<1>5. Rec(Placement(buffer))
  BY <1>4, Zenon DEF Placement, PlacedAt
<1> DEFINE P == Placement(buffer)
<1> HIDE DEF P
<1>6. P = [k \in 1 .. n |-> PlacedAt(buffer, P, k)]
  BY <1>0, <1>5 DEF P
<1>7. DOMAIN P = 1 .. n /\ \A k \in 1 .. n : P[k] = PlacedAt(buffer, P, k)
  BY <1>6
<1>8. \A k \in 1 .. n : P[k] \in Nat
  <2> DEFINE M == {m \in Nat : \A k \in 1 .. n : k <= m => P[k] \in Nat}
  <2>1. M \in SUBSET Nat /\ 0 \in M
    OBVIOUS
  <2>2. ASSUME NEW m \in M PROVE m + 1 \in M
    <3> SUFFICES ASSUME m + 1 \in 1 .. n PROVE P[m + 1] \in Nat
      OBVIOUS
    <3>1. CASE m = 0
      BY <1>7, <3>1 DEF PlacedAt
    <3>2. CASE m # 0
      <4>1. m \in 1 .. n /\ m + 1 # 1 /\ m + 1 - 1 = m
        BY <1>0, <3>2
      <4>2. P[m] \in Nat /\ buffer[m].size \in Nat /\ buffer[m + 1].align \in Nat \ {0}
        BY <4>1 DEF IsBuffer
      <4>3. P[m] + buffer[m].size \in Nat
        BY <4>2
      <4>4. P[m + 1] = AlignUp(P[m] + buffer[m].size, buffer[m + 1].align)
        BY <1>7, <4>1 DEF PlacedAt
      <4> QED
        BY <4>2, <4>3, <4>4, AlignNat
    <3> QED
      BY <3>1, <3>2
  <2> HIDE DEF M
  <2>3. M = Nat
    BY <2>1, <2>2, NatSet
  <2>4. n \in M
    BY <1>0, <2>3
  <2> QED
    BY <2>4 DEF M
<1> QED
  BY <1>7, <1>8 DEF P

(* The data begins at DataStart or behind it. *)
LEMMA DataAbove ==
  ASSUME NEW buffer, NEW n, IsBuffer(buffer, n), NEW a \in DOMAIN DataBytes(buffer)
  PROVE  a \in Int /\ a >= DataStart
<1> DEFINE P == Placement(buffer)
<1>1. DOMAIN buffer = 1 .. n /\ \A k \in 1 .. n : P[k] \in Nat /\ buffer[k].size \in Nat
  BY PlacementIs DEF IsBuffer
<1>2. DOMAIN DataBytes(buffer) =
        UNION {DataStart + P[k] .. DataStart + P[k] + buffer[k].size - 1 : k \in DOMAIN buffer}
  BY DEF DataBytes
<1> HIDE DEF P
<1>3. PICK k \in 1 .. n : a \in DataStart + P[k] .. DataStart + P[k] + buffer[k].size - 1
  BY <1>1, <1>2
<1>4. DataStart \in Nat
  BY AssemblerAssumption
<1> QED
  BY <1>1, <1>3, <1>4

(* Instruction k is encoded at its address. *)
LEMMA TextAt ==
  ASSUME NEW code, NEW n \in Nat, DOMAIN code = 1 .. n, NEW k \in 0 .. n - 1
  PROVE  4 * k \in DOMAIN TextWords(code) /\ TextWords(code)[4 * k] = Encode(code[k + 1])
<1> DEFINE A == {4 * (j - 1) : j \in DOMAIN code}
<1>1. 4 * k \in A
  <2>1. k + 1 \in DOMAIN code /\ 4 * k = 4 * ((k + 1) - 1)
    OBVIOUS
  <2> QED
    BY <2>1
<1>2. (4 * k) \div 4 = k
  OBVIOUS
<1>3. TextWords(code) = [a \in A |-> Encode(code[a \div 4 + 1])]
  BY DEF TextWords
<1> HIDE DEF A
<1>4. TextWords(code)[4 * k] = Encode(code[(4 * k) \div 4 + 1]) /\ DOMAIN TextWords(code) = A
  BY <1>1, <1>3
<1> QED
  BY <1>1, <1>2, <1>4

(* A buffer of the first pass is one that Placement places. *)
Buffered == IsSeq(data_buffer_) /\ IsBuffer(data_buffer_, Len(data_buffer_))

(* Who changes the data buffer. *)
LEMMA BufferSteps ==
  ASSUME [Next]_vars
  PROVE  UNCHANGED data_buffer_ \/ DataDirective \/ LoadProgram \/ Reject
BY DEF Next, Parse, vars, parser, FirstTop, FirstSkip, FirstEnd, DataEnd, DataLabel,
  DataOther, SecondTop, SecondSkip, SecondEnd, TextEnd, TextLabel, Transfer, LoadAddress, Plain,
  BackPatch, Load, AddBreakpoint, RemoveBreakpoint

(* The empty buffer is one. *)
LEMMA EmptyBuffer == IsSeq(<<>>) /\ IsBuffer(<<>>, Len(<<>>))
<1>1. IsSeq(<<>>) /\ Len(<<>>) = 0 /\ DOMAIN <<>> = 1 .. 0
  BY EmptySeq DEF IsSeq
<1> QED
  BY <1>1 DEF IsBuffer

(* The values of one directive, v of them, behind the m-th of the buffer. *)
Run(buffer, n, m, v, it) ==
  /\ m \in Nat /\ v \in Nat \ {0} /\ m + v <= n
  /\ \A k \in 1 .. v :
       buffer[m + k] = [line |-> it.line, nth |-> k, size |-> it.size, align |-> it.align]

(* What a directive adds to the buffer. *)
LEMMA DirectiveValues ==
  ASSUME PInv, Buffered, DataDirective
  PROVE  LET n == Len(data_buffer_)
             v == Item.values
         IN  /\ n \in Nat /\ v \in Nat /\ Item.size \in Nat /\ Item.align \in Nat \ {0}
             /\ IsSeq(data_buffer_') /\ Len(data_buffer_') = n + v
             /\ IsBuffer(data_buffer_', n + v)
             /\ \A k \in 1 .. n : data_buffer_'[k] = data_buffer_[k]
             /\ v > 0 => Run(data_buffer_', n + v, n, v, Item)
<1> DEFINE values == [k \in 1 .. Item.values |->
                        [line |-> Item.line, nth |-> k, size |-> Item.size, align |-> Item.align]]
           n == Len(data_buffer_)
           v == Item.values
<1>1. Item.size \in Nat /\ Item.align \in Nat \ {0} /\ v \in Nat
  <2>1. Item \in Items /\ Item.kind = "data"
    BY SourceLen DEF DataDirective, AtEnd, Item
  <2> QED
    BY <2>1 DEF Items
<1>2. data_buffer_' = data_buffer_ \o values
  BY DEF DataDirective
<1>3. IsSeq(data_buffer_) /\ IsBuffer(data_buffer_, n) /\ n \in Nat
  BY DEF Buffered, IsBuffer
<1>4. \A k \in 1 .. v : values[k] = [line |-> Item.line, nth |-> k, size |-> Item.size,
                                     align |-> Item.align]
  OBVIOUS
<1>5. IsSeq(values) /\ Len(values) = v
  <2> DEFINE V == {values[k] : k \in 1 .. v}
  <2>1. values \in [1 .. v -> V]
    OBVIOUS
  <2> HIDE DEF values, V
  <2>2. values \in Seq(V) /\ Len(values) = v
    BY <1>1, <2>1, SeqDef, LenProperties
  <2> QED
    BY <2>2 DEF IsSeq
<1> HIDE DEF values, n, v
<1>6. /\ IsSeq(data_buffer_') /\ Len(data_buffer_') = n + v
      /\ \A k \in 1 .. n : data_buffer_'[k] = data_buffer_[k]
      /\ \A k \in 1 .. v : data_buffer_'[n + k] = values[k]
      /\ \A k \in n + 1 .. n + v : data_buffer_'[k] = values[k - n]
  <2> DEFINE s == data_buffer_
  <2>1. /\ IsSeq(s \o values) /\ Len(s \o values) = Len(s) + Len(values)
        /\ \A k \in 1 .. Len(s) : (s \o values)[k] = s[k]
        /\ \A k \in 1 .. Len(values) : (s \o values)[Len(s) + k] = values[k]
        /\ \A k \in Len(s) + 1 .. Len(s) + Len(values) : (s \o values)[k] = values[k - Len(s)]
    <3>1. IsSeq(s) /\ IsSeq(values)
      BY <1>3, <1>5
    <3> HIDE DEF s
    <3> QED
      BY ONLY <3>1, SeqConcat
  <2>2. data_buffer_' = s \o values /\ s = data_buffer_ /\ Len(s) = n /\ Len(values) = v
    BY <1>2, <1>5 DEF n
  <2> QED
    BY <2>1, <2>2, Zenon
<1>7. DOMAIN data_buffer_' = 1 .. n + v /\ n + v \in Nat
  BY <1>1, <1>3, <1>6, SeqLen
<1>8. ASSUME NEW k \in 1 .. n + v
      PROVE  data_buffer_'[k].size \in Nat /\ data_buffer_'[k].align \in Nat \ {0}
  <2>1. CASE k <= n
    <3>1. k \in 1 .. n
      BY <1>1, <1>3, <2>1
    <3> QED
      BY <1>3, <1>6, <3>1 DEF IsBuffer
  <2>2. CASE k > n
    <3>1. k \in n + 1 .. n + v /\ k - n \in 1 .. v
      BY <1>1, <1>3, <2>2
    <3>2. data_buffer_'[k] = values[k - n]
      BY <1>6, <3>1
    <3>3. values[k - n] = [line |-> Item.line, nth |-> k - n, size |-> Item.size,
                           align |-> Item.align]
      BY <1>4, <3>1
    <3> QED
      BY <1>1, <3>2, <3>3
  <2> QED
    BY <1>1, <1>3, <2>1, <2>2
<1>9. v > 0 => Run(data_buffer_', n + v, n, v, Item)
  BY <1>1, <1>3, <1>4, <1>6 DEF Run
<1> QED
  BY <1>1, <1>3, <1>6, <1>7, <1>8, <1>9 DEF IsBuffer, n, v

(* Every step keeps the data buffer one that can be placed. *)
LEMMA StepBuffered ==
  ASSUME PInv, Buffered, [Next]_vars
  PROVE  Buffered'
<1>1. CASE UNCHANGED data_buffer_
  BY <1>1 DEF Buffered
<1>2. CASE DataDirective
  BY <1>2, DirectiveValues DEF Buffered
<1>3. CASE LoadProgram \/ Reject
  <2>1. data_buffer_' = <<>>
    BY <1>3 DEF LoadProgram, Reject, EmptyParser
  <2> QED
    BY <2>1, EmptyBuffer DEF Buffered
<1> QED
  BY <1>1, <1>2, <1>3, BufferSteps

(* The words of a text of n instructions. *)
LEMMA Quarter == ASSUME NEW n \in Nat PROVE (4 * n) \div 4 = n
OBVIOUS

(* The words that LoadProgram writes. *)
LEMMA ImageWords ==
  ASSUME PInv, Buffered, LoadProgram, 4 * Len(intermediate_code_) <= DataStart
  PROVE  /\ program_size_' \div 4 = Len(intermediate_code_)
         /\ \A k \in 0 .. Len(intermediate_code_) - 1 :
              memory'[4 * k] = Encode(intermediate_code_[k + 1])
<1> DEFINE n == Len(intermediate_code_)
<1>0. n \in Nat /\ DOMAIN intermediate_code_ = 1 .. n /\ DataStart \in Nat
  BY SourceLen, SeqLen, AssemblerAssumption
<1>1. program_size_' \div 4 = n
  <2>1. program_size_' = 4 * n
    BY DEF LoadProgram
  <2>2. (4 * n) \div 4 = n
    BY <1>0, Quarter
  <2> QED
    BY <2>1, <2>2
<1>2. ASSUME NEW k \in 0 .. n - 1
      PROVE  memory'[4 * k] = Encode(intermediate_code_[k + 1])
  <2> DEFINE D == DataBytes(data_buffer_)
             T == TextWords(intermediate_code_)
             a == 4 * k
  <2>1. memory' = Over(D, Over(T, memory))
    BY DEF LoadProgram
  <2>2. a \in DOMAIN T /\ T[a] = Encode(intermediate_code_[k + 1])
    BY <1>0, TextAt
  <2>3. a \notin DOMAIN D
    <3>1. \A b \in DOMAIN D : b \in Int /\ b >= DataStart
      BY DataAbove DEF Buffered
    <3>2. a \in Int /\ a < DataStart
      BY <1>0
    <3> HIDE DEF D, a
    <3> QED
      BY <1>0, <3>1, <3>2
  <2> HIDE DEF D, T, a
  <2>4. Over(T, memory)[a] = T[a] /\ a \in DOMAIN Over(T, memory)
    BY <2>2 DEF Over
  <2> DEFINE O == Over(T, memory)
  <2> HIDE DEF O
  <2>5. Over(D, O)[a] = O[a]
    BY <2>3, <2>4 DEF Over, O
  <2> QED
    BY <2>1, <2>2, <2>4, <2>5 DEF O, a
<1> QED
  BY <1>1, <1>2
-------------------------------------------------------------------------------
(***************************************************************************)
(* Lines.                                                                  *)
(***************************************************************************)
LEMMA BelowFinite ==
  ASSUME NEW src, NEW j \in Nat \ {0}
  PROVE  IsFiniteSet(Below(src, j)) /\ Cardinality(Below(src, j)) \in Nat
<1>1. IsFiniteSet(1 .. j - 1)
  BY FS_Interval
<1>2. IsFiniteSet({1, 2})
  <2>1. IsFiniteSet({1}) /\ {1, 2} = {1} \cup {2}
    BY FS_Singleton
  <2> QED
    BY <2>1, FS_AddElement
<1> DEFINE A == 1 .. j - 1
           B == {1, 2}
<1>3. IsFiniteSet(A) /\ IsFiniteSet(B) /\ Below(src, j) \in SUBSET (A \X B)
  BY <1>1, <1>2 DEF Below
<1> HIDE DEF A, B
<1>4. IsFiniteSet(A \X B)
  BY <1>3, FS_Product
<1>5. IsFiniteSet(Below(src, j))
  BY <1>3, <1>4, FS_Subset
<1> QED
  BY <1>5, FS_CardinalityType

(* An item adds its words, and no others. *)
LEMMA BelowGrows ==
  ASSUME NEW src, NEW j \in Nat \ {0}
  PROVE  LET here == Cardinality(Below(src, j))
             next == Cardinality(Below(src, j + 1))
         IN  /\ here <= next
             /\ src[j].kind \in {"branch", "jal", "la", "op"} => here + 1 <= next
             /\ src[j].kind = "la" => here + 2 <= next
<1> DEFINE B == Below(src, j)
           C == Below(src, j + 1)
<1>1. j + 1 \in Nat \ {0} /\ j + 1 - 1 = j
  OBVIOUS
<1>2. /\ IsFiniteSet(B) /\ Cardinality(B) \in Nat
      /\ IsFiniteSet(C) /\ Cardinality(C) \in Nat
  BY <1>1, BelowFinite
<1>3. B \in SUBSET C
  BY <1>1 DEF Below
<1>4. <<j, 1>> \notin B /\ <<j, 2>> \notin B
  BY DEF Below
<1>5. ASSUME src[j].kind \in {"branch", "jal", "la", "op"} PROVE <<j, 1>> \in C
  BY <1>1, <1>5 DEF Below
<1>6. ASSUME src[j].kind = "la" PROVE <<j, 2>> \in C
  BY <1>1, <1>6 DEF Below
<1> HIDE DEF B, C
<1> DEFINE x == <<j, 1>>
           y == <<j, 2>>
<1>7. x # y
  OBVIOUS
<1>8. x \notin B /\ y \notin B
  BY <1>4
<1> HIDE DEF x, y
<1>9. IsFiniteSet(B \cup {x}) /\ Cardinality(B \cup {x}) = Cardinality(B) + 1
  BY <1>2, <1>8, FS_AddElement
<1>10. /\ IsFiniteSet((B \cup {x}) \cup {y})
       /\ Cardinality((B \cup {x}) \cup {y}) = Cardinality(B) + 2
  <2>1. y \notin B \cup {x}
    BY <1>7, <1>8
  <2>2. Cardinality((B \cup {x}) \cup {y}) = Cardinality(B \cup {x}) + 1
        /\ IsFiniteSet((B \cup {x}) \cup {y})
    BY <1>9, <2>1, FS_AddElement
  <2> QED
    BY <1>2, <1>9, <2>2
<1>11. Cardinality(B) <= Cardinality(C)
  BY <1>2, <1>3, FS_Subset
<1>12. ASSUME x \in C PROVE Cardinality(B) + 1 <= Cardinality(C)
  <2>1. B \cup {x} \in SUBSET C
    BY <1>3, <1>12
  <2> QED
    BY <1>2, <1>9, <2>1, FS_Subset
<1>13. ASSUME x \in C, y \in C PROVE Cardinality(B) + 2 <= Cardinality(C)
  <2>1. (B \cup {x}) \cup {y} \in SUBSET C
    BY <1>3, <1>13
  <2> QED
    BY <1>2, <1>10, <2>1, FS_Subset
<1> QED
  BY <1>5, <1>6, <1>11, <1>12, <1>13 DEF B, C, x, y

(* An instruction's line is that of an item already read. *)
Read(i) == i \in 1 .. Len(source) /\ (phase = "second" => i < pos_)

LineInv ==
  /\ \A k \in 1 .. Len(intermediate_code_) :
       \E i \in 1 .. Len(source) :
         Read(i) /\ IsInstruction(source[i]) /\ source[i].line = intermediate_code_[k].line
  /\ \A i, k \in 1 .. Len(intermediate_code_) :
       i <= k => intermediate_code_[i].line <= intermediate_code_[k].line
  /\ Len(intermediate_code_) <=
       Cardinality(Below(source, IF phase = "second" THEN pos_ ELSE Len(source) + 1))

(* How the second pass is entered, walked through and left. *)
LEMMA PhaseSteps ==
  ASSUME PInv, Places, [Next]_vars
  PROVE  /\ phase' = "second" =>
              /\ UNCHANGED source
              /\ \/ phase = "first" /\ UNCHANGED <<intermediate_code_, back_patch_>>
                 \/ phase = "second" /\ (pos_' = pos_ \/ pos_' = pos_ + 1)
         /\ phase' = "patch" =>
              /\ UNCHANGED source
              /\ phase = "patch" \/ (phase = "second" /\ pos_ = Len(source) + 1)
<1>0. pos_ \in Nat /\ Len(source) \in Nat /\ pos_ <= Len(source) + 1
  BY SourceLen DEF Places
<1>1. CASE FirstTop \/ FirstSkip \/ FirstEnd \/ DataEnd \/ DataLabel \/ DataDirective \/ DataOther
  BY <1>1 DEF FirstTop, FirstSkip, FirstEnd, DataEnd, DataLabel, DataDirective, DataOther
<1>2. CASE SecondTop \/ SecondSkip \/ TextEnd \/ TextLabel
  <2>1. /\ phase = "second" /\ phase' = "second" /\ UNCHANGED source
        /\ pos_' = pos_ \/ pos_' = pos_ + 1
    BY <1>2 DEF SecondTop, SecondSkip, TextEnd, TextLabel, InText, Advance, Goto
  <2> QED
    BY <2>1
<1>7. CASE SecondEnd
  <2>1. phase = "second" /\ phase' = "patch" /\ UNCHANGED source /\ pos_ > Len(source)
    BY <1>7 DEF SecondEnd, AtEnd
  <2> QED
    BY <1>0, <2>1
<1>3. CASE Transfer \/ LoadAddress \/ Plain
  BY <1>3 DEF Transfer, LoadAddress, Plain, InText, Advance
<1>4. CASE BackPatch
  BY <1>4 DEF BackPatch
<1>5. CASE LoadProgram \/ Reject
  BY <1>5 DEF LoadProgram, Reject, EmptyParser
<1>6. CASE \/ \E file \in Sources : Load(file)
           \/ \E line \in DOMAIN program_.lines : AddBreakpoint(line) \/ RemoveBreakpoint(line)
           \/ UNCHANGED vars
  BY <1>6 DEF Load, AddBreakpoint, RemoveBreakpoint, vars, parser
<1> QED
  BY <1>1, <1>2, <1>3, <1>4, <1>5, <1>6, <1>7 DEF Next, Parse

(* Without code there is nothing to show. *)
LEMMA NoLines ==
  ASSUME PInv, intermediate_code_ = <<>>
  PROVE  LineInv
<1>1. Len(source) + 1 \in Nat \ {0} /\ pos_ \in Nat \ {0} /\ Len(intermediate_code_) = 0
  BY SourceLen, EmptyLen
<1> DEFINE j == IF phase = "second" THEN pos_ ELSE Len(source) + 1
<1>2. j \in Nat \ {0}
  BY <1>1
<1> HIDE DEF j
<1>3. Cardinality(Below(source, j)) \in Nat
  BY <1>2, BelowFinite
<1> QED
  BY <1>1, <1>3 DEF LineInv, j

(* A step that leaves the code and reads on. *)
LEMMA KeepLines ==
  ASSUME PInv, Places, LineInv, [Next]_vars, UNCHANGED intermediate_code_,
         phase' \in {"second", "patch"}, phase \in {"second", "patch"}
  PROVE  LineInv'
<1>0. pos_ \in Nat \ {0} /\ Len(source) \in Nat /\ Len(intermediate_code_) \in Nat
  BY SourceLen
<1>1. UNCHANGED source
  BY PhaseSteps
<1>2. \A i : Read(i) => Read(i)'
  BY <1>0, <1>1, PhaseSteps DEF Read
<1> DEFINE j == IF phase = "second" THEN pos_ ELSE Len(source) + 1
           m == IF phase' = "second" THEN pos_' ELSE Len(source) + 1
<1>3. j \in Nat \ {0} /\ (m = j \/ m = j + 1)
  BY <1>0, PhaseSteps
<1> HIDE DEF j, m
<1>4. /\ Cardinality(Below(source, j)) <= Cardinality(Below(source, j + 1))
      /\ Cardinality(Below(source, j)) \in Nat /\ Cardinality(Below(source, j + 1)) \in Nat
  BY <1>3, BelowGrows, BelowFinite
<1>5. Len(intermediate_code_) <= Cardinality(Below(source, m))
  <2>1. Len(intermediate_code_) <= Cardinality(Below(source, j))
    BY DEF LineInv, j
  <2> QED
    BY <1>0, <1>3, <1>4, <2>1
<1> QED
  BY <1>1, <1>2, <1>5 DEF LineInv, m

(* The place of the item being read. *)
LEMMA AtItem ==
  ASSUME PInv, ~AtEnd
  PROVE  pos_ \in 1 .. Len(source) /\ Item = source[pos_] /\ Item \in Items
BY SourceLen DEF AtEnd, Item

(* The lines of a file, in the order of its items. *)
LEMMA SourceOrdered ==
  ASSUME Ordered, PInv, NEW i \in 1 .. Len(source), NEW j \in 1 .. Len(source), i <= j
  PROVE  /\ source[i].line <= source[j].line
         /\ source[i].line \in Nat \ {0} /\ source[j].line \in Nat \ {0}
<1>1. DOMAIN source = 1 .. Len(source) /\ source[i] \in Items /\ source[j] \in Items
  BY SourceLen
<1>2. source \in Sources
  <2>1. Len(<<>>) = 0 /\ Len(source) \in Nat /\ i \in Nat
    BY EmptyLen, SourceLen
  <2>2. source # <<>>
    BY <2>1
  <2> QED
    BY <2>2 DEF PInv, Typed
<1>3. source[i].line \in Lines /\ source[j].line \in Lines
  BY <1>1 DEF Items
<1> QED
  BY <1>1, <1>2, <1>3 DEF Ordered, Lines

(* An instruction adds units of its line behind the others. *)
LEMMA EmitLines ==
  ASSUME Ordered, PInv, Places, LineInv, NEW units, Emits(units),
         phase = "second", ~AtEnd, pos_' = pos_ + 1, UNCHANGED <<source, phase>>,
         IsInstruction(Item), Item.kind # "bad"
  PROVE  LineInv'
<1> DEFINE n == Len(intermediate_code_)
           m == Len(units)
           code == intermediate_code_
<1>1. /\ n \in Nat /\ m \in Nat /\ Len(code') = n + m
      /\ \A k \in 1 .. n : code'[k] = code[k]
      /\ \A k \in n + 1 .. n + m : k - n \in 1 .. m /\ code'[k] = units[k - n]
  BY EmitsGrow
<1>2. \A k \in n + 1 .. n + m : code'[k].line = Item.line
  BY <1>1 DEF Emits
<1>3. pos_ \in 1 .. Len(source) /\ Item = source[pos_] /\ pos_ \in Nat \ {0} /\ Len(source) \in Nat
  BY AtItem, SourceLen
<1>4. PICK j \in 1 .. Len(source) : j = pos_ /\ Item = source[j]
  BY <1>3
<1>11. Read(j)'
  BY <1>3, <1>4 DEF Read
<1>10. ASSUME NEW i \in 1 .. Len(source), Read(i) PROVE Read(i)'
  BY <1>3, <1>10 DEF Read
<1>5. \A k \in 1 .. n : code[k].line <= Item.line /\ code[k].line \in Nat /\ Item.line \in Nat
  <2> SUFFICES ASSUME NEW k \in 1 .. n
               PROVE  code[k].line <= Item.line /\ code[k].line \in Nat /\ Item.line \in Nat
    OBVIOUS
  <2>1. PICK i \in 1 .. Len(source) : Read(i) /\ source[i].line = code[k].line
    BY DEF LineInv
  <2>2. i <= pos_
    BY <1>3, <2>1 DEF Read
  <2> QED
    BY <1>3, <2>1, <2>2, SourceOrdered
<1>6. Item.line \in Nat
  BY <1>3, SourceOrdered
<1>7. ASSUME NEW k \in 1 .. n + m
      PROVE  \E i \in 1 .. Len(source) :
               Read(i)' /\ IsInstruction(source[i]) /\ source[i].line = code'[k].line
  <2>1. CASE k <= n
    <3>1. k \in 1 .. n
      BY <1>1, <2>1
    <3>2. PICK i \in 1 .. Len(source) :
            Read(i) /\ IsInstruction(source[i]) /\ source[i].line = code[k].line
      BY <3>1 DEF LineInv
    <3>3. Read(i)'
      BY <1>10, <3>2
    <3> QED
      BY <1>1, <3>1, <3>2, <3>3
  <2>2. CASE k > n
    <3>1. k \in n + 1 .. n + m
      BY <1>1, <2>2
    <3>2. source[j].line = code'[k].line /\ IsInstruction(source[j])
      BY <1>2, <1>4, <3>1
    <3> HIDE DEF code
    <3> QED
      BY <1>11, <3>2
  <2> QED
    BY <1>1, <2>1, <2>2
<1>8. ASSUME NEW i \in 1 .. n + m, NEW k \in 1 .. n + m, i <= k
      PROVE  code'[i].line <= code'[k].line
  <2>1. CASE k <= n
    <3>1. k \in 1 .. n /\ i \in 1 .. n
      BY <1>1, <1>8, <2>1
    <3> QED
      BY <1>1, <1>8, <3>1 DEF LineInv
  <2>2. CASE i > n
    <3>1. i \in n + 1 .. n + m /\ k \in n + 1 .. n + m
      BY <1>1, <1>8, <2>2
    <3> QED
      BY <1>2, <1>6, <3>1
  <2>3. CASE i <= n /\ k > n
    <3>1. i \in 1 .. n /\ k \in n + 1 .. n + m
      BY <1>1, <2>3
    <3> QED
      BY <1>1, <1>2, <1>5, <3>1
  <2> QED
    BY <1>1, <2>1, <2>2, <2>3
<1>9. n + m <= Cardinality(Below(source, pos_ + 1))
  <2> DEFINE here == Cardinality(Below(source, pos_))
             next == Cardinality(Below(source, pos_ + 1))
  <2> SUFFICES n + m <= next
    OBVIOUS
  <2>1. n <= here
    BY DEF LineInv
  <2>2. /\ here \in Nat /\ next \in Nat /\ here + 1 <= next
        /\ Item.kind = "la" => here + 2 <= next
    <3>1. Item.kind \in {"branch", "jal", "la", "op"}
      BY DEF IsInstruction
    <3>2. pos_ \in Nat \ {0} /\ pos_ + 1 \in Nat \ {0}
      BY <1>3
    <3> QED
      BY <1>3, <3>1, <3>2, BelowGrows, BelowFinite
  <2>3. m = 1 \/ (m = 2 /\ Item.kind = "la")
    BY DEF Emits
  <2>4. n \in Nat /\ m \in Nat
    BY <1>1
  <2> HIDE DEF n, m, here, next
  <2>5. CASE m = 1
    BY ONLY <2>1, <2>2, <2>4, <2>5
  <2>6. CASE m = 2 /\ here + 2 <= next
    BY ONLY <2>1, <2>2, <2>4, <2>6
  <2> QED
    BY <2>2, <2>3, <2>5, <2>6
<1> QED
  BY <1>1, <1>7, <1>8, <1>9 DEF LineInv

(* Every step keeps the lines. *)
LEMMA StepLines ==
  ASSUME Ordered, PInv, Places, SymbolsTyped, UnitsTyped, LineInv, [Next]_vars
  PROVE  LineInv'
<1>0. PInv' /\ Places'
  BY StepPInv, StepPlaces
<1>e. ASSUME intermediate_code_' = <<>> PROVE LineInv'
  <2>1. PInv /\ intermediate_code_ = <<>> => LineInv
    BY NoLines
  <2>2. (PInv /\ intermediate_code_ = <<>> => LineInv)'
    BY NoLines, PTL
  <2> QED
    BY <1>0, <1>e, <2>2
<1>1. CASE UNCHANGED intermediate_code_
  <2>1. CASE phase' \in {"idle", "first"}
    <3>1. intermediate_code_' = <<>>
      BY <1>0, <2>1 DEF Places
    <3> QED
      BY <1>e, <3>1
  <2>2. CASE phase' \in {"second", "patch"} /\ phase \in {"second", "patch"}
    BY <1>1, <2>2, KeepLines
  <2>3. CASE phase' \in {"second", "patch"} /\ phase \in {"idle", "first"}
    <3>1. intermediate_code_' = <<>>
      BY <1>1, <2>3 DEF Places
    <3> QED
      BY <1>e, <3>1
  <2> QED
    BY <1>0, <2>1, <2>2, <2>3 DEF Places
<1>2. CASE Transfer \/ LoadAddress \/ Plain
  <2>1. CASE UNCHANGED intermediate_code_
    BY <1>1, <2>1
  <2>2. CASE \E units : Emits(units) /\ Item.kind # "bad"
    <3>1. PICK units : Emits(units)
      BY <2>2
    <3> QED
      BY <1>2, <2>2, <3>1, EmitSteps, EmitLines
  <2> QED
    BY <1>2, <2>1, <2>2, EmitSteps
<1>3. CASE BackPatch
  <2> DEFINE code == intermediate_code_
             n == Len(code)
  <2>1. /\ phase = "patch" /\ UNCHANGED <<source, phase>> /\ Len(code') = n
        /\ n \in Nat /\ Len(source) \in Nat
    BY <1>3, BackPatches, SourceLen
  <2>2. \A k \in 1 .. n : code'[k].line = code[k].line
    BY <1>3, BackPatches
  <2>3. \A i \in 1 .. Len(source) : Read(i)'
    BY <2>1 DEF Read
  <2>4. ASSUME NEW k \in 1 .. n
        PROVE  \E i \in 1 .. Len(source) :
                 Read(i)' /\ IsInstruction(source[i]) /\ source[i].line = code'[k].line
    BY <2>2, <2>3 DEF LineInv
  <2>5. ASSUME NEW i \in 1 .. n, NEW k \in 1 .. n, i <= k
        PROVE  code'[i].line <= code'[k].line
    BY <2>2, <2>5 DEF LineInv
  <2>6. n <= Cardinality(Below(source, Len(source) + 1))
    BY <2>1 DEF LineInv
  <2> QED
    BY <2>1, <2>4, <2>5, <2>6 DEF LineInv
<1>4. CASE LoadProgram \/ Reject
  BY <1>4, <1>e DEF LoadProgram, Reject, EmptyParser
<1> QED
  BY <1>1, <1>2, <1>3, <1>4, CodeSteps

(* The line mapping: a code whose lines do not decrease, and its words. *)
Lined(code, n) ==
  /\ n \in Nat /\ DOMAIN code = 1 .. n
  /\ \A k \in 1 .. n : code[k].line \in Nat \ {0}
  /\ \A i, k \in 1 .. n : i <= k => code[i].line <= code[k].line

EndsBefore(code, n, l) == {k \in 0 .. n - 1 : code[k + 1].line < l}

(* Every line up to an instruction's is one of some instruction. *)
LEMMA LineTaken ==
  ASSUME NEW code, NEW n, Lined(code, n), NEW l \in Nat \ {0},
         NEW k \in 1 .. n, l <= code[k].line
  PROVE  \E j \in 1 .. n : l \in LinesOf(code, j)
<1> DEFINE Taken == \E j \in 1 .. n : l \in LinesOf(code, j)
           M == {m \in Nat : m \in 1 .. n /\ l <= code[m].line => Taken}
<1>0. n \in Nat /\ \A i \in 1 .. n : code[i].line \in Nat
  BY DEF Lined
<1>1. M \in SUBSET Nat /\ 0 \in M
  OBVIOUS
<1>2. ASSUME NEW m \in M PROVE m + 1 \in M
  <2> SUFFICES ASSUME m + 1 \in 1 .. n, l <= code[m + 1].line PROVE Taken
    OBVIOUS
  <2>1. m \in Nat
    OBVIOUS
  <2>2. CASE m = 0
    <3>1. 1 \in 1 .. n /\ l \in LinesOf(code, 1)
      BY <1>0, <2>2 DEF LinesOf
    <3> QED
      BY <3>1
  <2>3. CASE m # 0 /\ l <= code[m].line
    <3>1. m \in 1 .. n
      BY <1>0, <2>1, <2>3
    <3> QED
      BY <2>3, <3>1
  <2>4. CASE m # 0 /\ l > code[m].line
    <3>1. m \in 1 .. n
      BY <1>0, <2>1, <2>4
    <3>2. code[m].line \in Nat /\ code[m + 1].line \in Nat
      BY <1>0, <3>1
    <3>3. m + 1 # 1 /\ m + 1 - 1 = m
      BY <2>1, <2>4
    <3>4. l \in LinesOf(code, m + 1)
      BY <2>4, <3>2, <3>3 DEF LinesOf
    <3> QED
      BY <3>4
  <2>5. l <= code[m].line \/ l > code[m].line \/ m = 0
    <3>1. CASE m # 0
      <4>1. m \in 1 .. n
        BY <1>0, <2>1, <3>1
      <4>2. code[m].line \in Nat
        BY <1>0, <4>1
      <4> QED
        BY <4>2
    <3> QED
      BY <3>1
  <2> HIDE DEF Taken
  <2> QED
    BY <2>2, <2>3, <2>4, <2>5
<1> HIDE DEF M
<1>3. M = Nat
  BY <1>1, <1>2, NatSet
<1>4. k \in M
  BY <1>0, <1>3
<1> QED
  BY <1>4 DEF M

(* A line of instruction j lies behind those before it and no others. *)
LEMMA LineBetween ==
  ASSUME NEW code, NEW n, Lined(code, n), NEW j \in 1 .. n, NEW l \in LinesOf(code, j)
  PROVE  /\ l \in Nat \ {0} /\ l <= code[j].line
         /\ \A k \in 1 .. n : code[k].line < l <=> k < j
<1>0. n \in Nat /\ \A i \in 1 .. n : code[i].line \in Nat \ {0}
  BY DEF Lined
<1>1. l \in Nat \ {0} /\ l <= code[j].line
  <2>1. CASE j = 1
    BY <1>0, <2>1 DEF LinesOf
  <2>2. CASE j # 1
    <3>1. j - 1 \in 1 .. n
      BY <1>0, <2>2
    <3>2. code[j - 1].line \in Nat /\ code[j].line \in Nat
      BY <1>0, <3>1
    <3>3. l \in code[j - 1].line + 1 .. code[j].line
      BY <2>2 DEF LinesOf
    <3> HIDE DEF LinesOf
    <3> QED
      BY <3>2, <3>3
  <2> QED
    BY <2>1, <2>2
<1>2. ASSUME NEW k \in 1 .. n, k < j PROVE code[k].line < l
  <2>1. j # 1 /\ j - 1 \in 1 .. n /\ k <= j - 1
    BY <1>0, <1>2
  <2>2. code[k].line <= code[j - 1].line /\ code[k].line \in Nat /\ code[j - 1].line \in Nat
    BY <1>0, <2>1 DEF Lined
  <2>3. l \in code[j - 1].line + 1 .. code[j].line
    BY <2>1 DEF LinesOf
  <2> QED
    BY <1>0, <2>2, <2>3
<1>3. ASSUME NEW k \in 1 .. n, ~(k < j) PROVE ~(code[k].line < l)
  <2>1. j <= k
    BY <1>3
  <2>2. code[j].line <= code[k].line /\ code[k].line \in Nat /\ code[j].line \in Nat
    BY <1>0, <2>1 DEF Lined
  <2> QED
    BY <1>1, <2>2
<1> QED
  BY <1>1, <1>2, <1>3

(* assemble() maps a line to the first instruction at or behind it. *)
LEMMA LineMapIs ==
  ASSUME NEW code, NEW n, Lined(code, n)
  PROVE  LineMapping(code) =
           [l \in UNION {1 .. code[k + 1].line : k \in 0 .. n - 1} |->
              Cardinality(EndsBefore(code, n, l))]
<1>0. n \in Nat /\ DOMAIN code = 1 .. n /\ \A i \in 1 .. n : code[i].line \in Nat \ {0}
  BY DEF Lined
<1> DEFINE D == UNION {LinesOf(code, k) : k \in 1 .. n}
           E == UNION {1 .. code[k + 1].line : k \in 0 .. n - 1}
           S(l) == {k - 1 : k \in {j \in 1 .. n : l \in LinesOf(code, j)}}
<1>1. ASSUME NEW l \in D PROVE l \in E
  <2>1. PICK j \in 1 .. n : l \in LinesOf(code, j)
    OBVIOUS
  <2>2. l \in Nat \ {0} /\ l <= code[j].line
    BY <2>1, LineBetween
  <2>3. j - 1 \in 0 .. n - 1 /\ j - 1 + 1 = j
    BY <1>0
  <2>4. l \in 1 .. code[j - 1 + 1].line
    BY <1>0, <2>2, <2>3
  <2> QED
    BY <2>3, <2>4
<1>2. ASSUME NEW l \in E PROVE l \in D
  <2>1. PICK k \in 0 .. n - 1 : l \in 1 .. code[k + 1].line
    OBVIOUS
  <2>2. k + 1 \in 1 .. n
    BY <1>0
  <2>3. l \in Nat \ {0} /\ l <= code[k + 1].line
    BY <1>0, <2>1, <2>2
  <2>4. \E j \in 1 .. n : l \in LinesOf(code, j)
    BY <2>2, <2>3, LineTaken
  <2> QED
    BY <2>4
<1>3. ASSUME NEW l \in D PROVE Max(S(l)) = Cardinality(EndsBefore(code, n, l))
  <2>1. PICK j \in 1 .. n : l \in LinesOf(code, j)
    OBVIOUS
  <2>2. l \in Nat \ {0} /\ \A k \in 1 .. n : code[k].line < l <=> k < j
    BY <2>1, LineBetween
  <2>3. ASSUME NEW i \in 1 .. n, l \in LinesOf(code, i) PROVE i = j
    <3>1. l <= code[i].line /\ \A k \in 1 .. n : code[k].line < l <=> k < i
      BY <2>3, LineBetween
    <3>2. ~(i < j) /\ ~(j < i)
      BY <2>2, <3>1
    <3> QED
      BY <3>2
  <2>4. S(l) = {j - 1}
    BY <2>1, <2>3
  <2>5. Max(S(l)) = j - 1
    <3> DEFINE T == S(l)
               m == j - 1
    <3>1. m \in Int /\ T = {m}
      BY <2>4
    <3> HIDE DEF T, m
    <3>2. T \in SUBSET Int /\ m \in T /\ \A y \in T : m >= y
      BY <3>1
    <3>3. Max(T) = m
      BY <3>2, MaxIs
    <3> QED
      BY <3>3 DEF T, m
  <2>6. EndsBefore(code, n, l) = 0 .. j - 2
    <3>1. \A k \in 0 .. n - 1 : k + 1 \in 1 .. n /\ (code[k + 1].line < l <=> k + 1 < j)
      BY <1>0, <2>2
    <3>2. \A k \in 0 .. n - 1 : k + 1 < j <=> k \in 0 .. j - 2
      BY <1>0
    <3>3. \A k \in 0 .. j - 2 : k \in 0 .. n - 1
      BY <1>0
    <3> QED
      BY <3>1, <3>2, <3>3 DEF EndsBefore
  <2>7. Cardinality(0 .. j - 2) = IF 0 > j - 2 THEN 0 ELSE (j - 2) - 0 + 1
    <3>1. 0 \in Int /\ j - 2 \in Int
      BY <1>0
    <3> QED
      BY <3>1, FS_Interval
  <2>8. Cardinality(0 .. j - 2) = j - 1
    BY <2>7
  <2> QED
    BY <2>5, <2>6, <2>8
<1>4. LineMapping(code) = [l \in D |-> Max(S(l))]
  BY <1>0 DEF LineMapping
<1> HIDE DEF D, E, S
<1>5. D = E
  BY <1>1, <1>2
<1>6. LineMapping(code) = [l \in E |-> Cardinality(EndsBefore(code, n, l))]
  BY <1>3, <1>4, <1>5
<1> QED
  BY <1>6 DEF E

(* The code ends before the data. *)
LEMMA CodeFits ==
  ASSUME TextFits, PInv, LineInv, phase = "patch"
  PROVE  4 * Len(intermediate_code_) <= DataStart
<1> DEFINE B == Below(source, Len(source) + 1)
           n == Len(intermediate_code_)
<1>1. n \in Nat /\ Len(source) \in Nat /\ Len(source) + 1 \in Nat \ {0} /\ DataStart \in Nat
  BY SourceLen, AssemblerAssumption
<1>2. n <= Cardinality(B)
  BY DEF LineInv
<1>3. Cardinality(B) \in Nat
  BY <1>1, BelowFinite
<1>4. CASE source \in Sources
  <2>1. 4 * Cardinality(B) <= DataStart
    BY <1>4 DEF TextFits
  <2> HIDE DEF B, n
  <2> QED
    BY <1>1, <1>2, <1>3, <2>1 DEF n
<1>5. CASE source = <<>>
  <2>1. Len(source) = 0
    BY <1>5, EmptyLen
  <2>2. B = {}
    BY <2>1 DEF Below
  <2>3. Cardinality(B) = 0
    BY <2>2, FS_EmptySet
  <2> QED
    BY <1>1, <1>2, <2>3
<1> QED
  BY <1>4, <1>5 DEF PInv, Typed

(* The code has lines to map. *)
LEMMA CodeLined ==
  ASSUME PInv, LineInv
  PROVE  Lined(intermediate_code_, Len(intermediate_code_))
<1>1. Len(intermediate_code_) \in Nat /\ DOMAIN intermediate_code_ = 1 .. Len(intermediate_code_)
  BY SourceLen, SeqLen
<1>2. \A i \in 1 .. Len(source) : source[i].line \in Nat \ {0}
  <2> SUFFICES ASSUME NEW i \in 1 .. Len(source) PROVE source[i].line \in Nat \ {0}
    OBVIOUS
  <2>1. source[i] \in Items
    BY SourceLen
  <2> QED
    BY <2>1 DEF Items, Lines
<1>3. \A k \in 1 .. Len(intermediate_code_) : intermediate_code_[k].line \in Nat \ {0}
  BY <1>2 DEF LineInv
<1> QED
  BY <1>1, <1>3 DEF Lined, LineInv

(* A word keeps the line of its instruction, and counts so. *)
LEMMA ImageLines ==
  ASSUME TextFits, PInv, Buffered, LineInv, LoadProgram
  PROVE  /\ Words' = 0 .. Len(intermediate_code_) - 1
         /\ \A k \in 0 .. Len(intermediate_code_) - 1 :
              memory'[4 * k] = Encode(intermediate_code_[k + 1])
         /\ \A k \in 0 .. Len(intermediate_code_) - 1 :
              memory'[4 * k].line = intermediate_code_[k + 1].line
         /\ \A l : WordsBefore(l)' =
                     Cardinality(EndsBefore(intermediate_code_, Len(intermediate_code_), l))
<1> DEFINE code == intermediate_code_
           n == Len(code)
<1>1. phase = "patch"
  BY DEF LoadProgram, Assembled
<1>2. /\ program_size_' \div 4 = n
      /\ \A k \in 0 .. n - 1 : memory'[4 * k] = Encode(code[k + 1])
  BY <1>1, CodeFits, ImageWords
<1>3. Words' = 0 .. n - 1
  BY <1>2 DEF Words
<1>4. \A k \in 0 .. n - 1 : memory'[4 * k].line = code[k + 1].line
  <2>1. \A u : Encode(u).line = u.line
    BY DEF Encode
  <2> QED
    BY <1>2, <2>1
<1>5. ASSUME NEW l
      PROVE  WordsBefore(l)' = Cardinality(EndsBefore(code, n, l))
  <2>1. WordsBefore(l)' = Cardinality({k \in 0 .. n - 1 : memory'[4 * k].line < l})
    BY <1>3 DEF WordsBefore
  <2>2. {k \in 0 .. n - 1 : memory'[4 * k].line < l} = EndsBefore(code, n, l)
    BY <1>4 DEF EndsBefore
  <2> QED
    BY <2>1, <2>2
<1> QED
  BY <1>2, <1>3, <1>4, <1>5

(* LoadProgram makes the mapping exact. *)
LEMMA LoadLines ==
  ASSUME TextFits, PInv, Buffered, LineInv, LoadProgram
  PROVE  LineMapExact'
<1> DEFINE code == intermediate_code_
           n == Len(code)
<1>1. program_'.lines = LineMapping(code)
  BY DEF LoadProgram
<1>2. LineMapping(code) =
        [l \in UNION {1 .. code[k + 1].line : k \in 0 .. n - 1} |->
           Cardinality(EndsBefore(code, n, l))]
  BY CodeLined, LineMapIs
<1>3. /\ Words' = 0 .. n - 1
      /\ \A k \in 0 .. n - 1 : memory'[4 * k].line = code[k + 1].line
      /\ \A l : WordsBefore(l)' = Cardinality(EndsBefore(code, n, l))
  BY ImageLines
<1>4. UNION {1 .. memory'[4 * k].line : k \in Words'} =
        UNION {1 .. code[k + 1].line : k \in 0 .. n - 1}
  <2>1. {1 .. memory'[4 * k].line : k \in 0 .. n - 1} = {1 .. code[k + 1].line : k \in 0 .. n - 1}
    BY <1>3
  <2> QED
    BY <1>3, <2>1
<1> DEFINE L == UNION {1 .. memory'[4 * k].line : k \in Words'}
<1>5. LineMapExact' <=> program_'.lines = [l \in L |-> WordsBefore(l)']
  BY DEF LineMapExact
<1>6. [l \in L |-> WordsBefore(l)'] = [l \in L |-> Cardinality(EndsBefore(code, n, l))]
  BY <1>3
<1> QED
  BY <1>1, <1>2, <1>4, <1>5, <1>6

(* There is nothing to map at the start. *)
LEMMA InitLines ==
  ASSUME Init
  PROVE  LineInv /\ Buffered /\ LineMapExact
<1>1. PInv /\ intermediate_code_ = <<>>
  BY InitPInv DEF Init
<1>2. LineInv
  BY <1>1, NoLines
<1>3. Buffered
  BY EmptyBuffer DEF Init, Buffered
<1>4. LineMapExact
  <2>1. program_size_ = 0 /\ program_.lines = <<>>
    BY DEF Init
  <2>2. 0 \div 4 - 1 = -1
    OBVIOUS
  <2>3. Words = {}
    BY <2>1, <2>2 DEF Words
  <2>4. UNION {1 .. memory[4 * k].line : k \in Words} = {}
    BY <2>3
  <2>5. [l \in {} |-> WordsBefore(l)] = <<>>
    OBVIOUS
  <2> QED
    BY <2>1, <2>4, <2>5 DEF LineMapExact
<1> QED
  BY <1>2, <1>3, <1>4

(* No other step changes the mapping. *)
LEMMA KeepsMap ==
  ASSUME LineMapExact, [Next]_vars, ~LoadProgram
  PROVE  LineMapExact'
<1>1. UNCHANGED <<program_, memory, program_size_>>
  BY MachineSteps DEF AddBreakpoint, RemoveBreakpoint
<1> QED
  BY <1>1 DEF LineMapExact, WordsBefore, Words

(* Whatever the files whose tokens are in the order of their lines and      *)
(* whose text ends before the data, loaded one after the other: the mapping *)
(* that assemble() leaves has every line up to the last instruction's, and  *)
(* for each the number of the first instruction at or behind it.            *)
THEOREM LineMapOfSource ==
  ASSUME Ordered, TextFits
  PROVE  Spec => []LineMapExact
<1> DEFINE Inv == TInv /\ Buffered /\ LineInv /\ LineMapExact
<1>1. Init => Inv
  BY InitTInv, InitLines
<1>2. Inv /\ [Next]_vars => Inv'
  <2> SUFFICES ASSUME Inv, [Next]_vars PROVE Inv'
    OBVIOUS
  <2>1. PInv /\ Places /\ SymbolsTyped /\ UnitsTyped
    BY DEF TInv
  <2>2. TInv' /\ Buffered' /\ LineInv'
    BY <2>1, StepTInv, StepBuffered, StepLines
  <2>3. LineMapExact'
    BY <2>1, LoadLines, KeepsMap
  <2> QED
    BY <2>2, <2>3
<1>3. Inv => LineMapExact
  OBVIOUS
<1> HIDE DEF Inv
<1> QED
  BY <1>1, <1>2, <1>3, PTL DEF Spec
-------------------------------------------------------------------------------
(***************************************************************************)
(* Labels.                                                                 *)
(***************************************************************************)
(* The section that item j of a file lies in. *)
Under(src, j) ==
  LET before == {i \in 1 .. j - 1 : src[i].kind = "section"}
  IN  IF before = {} THEN "text" ELSE src[Max(before)].name

(* A section lasts to the next one. *)
LEMMA UnderNext ==
  ASSUME NEW src, NEW j \in Nat \ {0}
  PROVE  /\ src[j].kind = "section" => Under(src, j + 1) = src[j].name
         /\ src[j].kind # "section" => Under(src, j + 1) = Under(src, j)
<1> DEFINE B == {i \in 1 .. j - 1 : src[i].kind = "section"}
           C == {i \in 1 .. j : src[i].kind = "section"}
<1>1. Under(src, j + 1) = IF C = {} THEN "text" ELSE src[Max(C)].name
  <2>1. j + 1 - 1 = j
    OBVIOUS
  <2> QED
    BY <2>1 DEF Under
<1>2. Under(src, j) = IF B = {} THEN "text" ELSE src[Max(B)].name
  BY DEF Under
<1>3. ASSUME src[j].kind = "section" PROVE C # {} /\ Max(C) = j
  <2>1. C \in SUBSET Int /\ j \in C /\ \A i \in C : j >= i
    BY <1>3
  <2> HIDE DEF C
  <2> QED
    BY <2>1, MaxIs
<1>4. ASSUME src[j].kind # "section" PROVE B = C
  BY <1>4
<1> HIDE DEF B, C
<1> QED
  BY <1>1, <1>2, <1>3, <1>4

(* A file begins in the text section. *)
LEMMA UnderFirst == ASSUME NEW src PROVE Under(src, 1) = "text"
BY DEF Under

(* The loop of a pass tells the section. *)
Sections ==
  /\ phase = "first" /\ loop = "data" => Under(source, pos_) = "data"
  /\ phase = "second" /\ loop = "text" => Under(source, pos_) = "text"
  /\ phase = "second" /\ loop = "top" /\ ~AtEnd =>
       Item.kind = "section" \/ Under(source, pos_) = "text"

(* Every step keeps the loop true to the section. *)
LEMMA StepSections ==
  ASSUME NoTextLabel, PInv, Places, Sections, [Next]_vars
  PROVE  Sections'
<1>0. pos_ \in Nat \ {0} /\ Len(source) \in Nat
  BY SourceLen
<1>n. /\ Item.kind = "section" => Under(source, pos_ + 1) = Item.name
      /\ Item.kind # "section" => Under(source, pos_ + 1) = Under(source, pos_)
  BY <1>0, UnderNext DEF Item
<1>1. CASE FirstTop
  <2>1. phase' = "first" /\ UNCHANGED source
    BY <1>1 DEF FirstTop
  <2>2. loop' = "data" => pos_' = pos_ + 1 /\ Item.kind = "section" /\ Item.name = "data"
    BY <1>1 DEF FirstTop, Advance, Goto
  <2> QED
    BY <1>n, <2>1, <2>2 DEF Sections
<1>2. CASE FirstSkip \/ DataEnd
  BY <1>2 DEF FirstSkip, DataEnd, Goto, Sections
<1>3. CASE DataLabel \/ DataDirective \/ DataOther
  <2>1. /\ phase = "first" /\ loop = "data" /\ pos_' = pos_ + 1 /\ UNCHANGED <<source, phase, loop>>
        /\ Item.kind # "section"
    BY <1>3 DEF DataLabel, DataDirective, DataOther, Advance, IsInstruction
  <2> QED
    BY <1>n, <2>1 DEF Sections
<1>4. CASE FirstEnd
  <2>1. phase' = "second" /\ loop' = "top" /\ pos_' = 1 /\ UNCHANGED source
    BY <1>4 DEF FirstEnd
  <2> QED
    BY <2>1, UnderFirst DEF Sections
<1>5. CASE SecondTop
  <2>1. phase = "second" /\ phase' = "second" /\ loop = "top" /\ ~AtEnd /\ UNCHANGED source
    BY <1>5 DEF SecondTop
  <2>2. Item.kind = "section" \/ Under(source, pos_) = "text"
    BY <2>1 DEF Sections
  <2>3. \/ loop' = "skip"
        \/ loop' = "text" /\ pos_' = pos_ + 1 /\ Item.kind = "section" /\ Item.name = "text"
        \/ loop' = "text" /\ pos_' = pos_ /\ Item.kind # "section"
        \/ loop' = "top" /\ pos_' = pos_ + 1 /\ Item.kind # "section"
    BY <1>5 DEF SecondTop, Advance, Goto, IsInstruction
  <2> QED
    BY <1>n, <2>1, <2>2, <2>3 DEF Sections
<1>6. CASE SecondSkip
  <2>1. phase' = "second" /\ UNCHANGED source
    BY <1>6 DEF SecondSkip
  <2>2. loop' = "skip" \/ (loop' = "top" /\ pos_' = pos_ /\ (AtEnd \/ Reads({"text"})))
    BY <1>6 DEF SecondSkip, Goto
  <2>3. Reads({"text"}) => Item.kind = "section"
    <3> SUFFICES ASSUME Reads({"text"}), Item.kind = "label" PROVE FALSE
      BY DEF Reads, Named
    <3>1. pos_ \in 1 .. Len(source) /\ Item = source[pos_]
      BY AtItem DEF Reads
    <3>2. DOMAIN source = 1 .. Len(source)
      BY SourceLen
    <3>3. source \in Sources
      <4>1. source # <<>>
        BY <1>0, <3>1, EmptyLen
      <4> QED
        BY <4>1 DEF PInv, Typed
    <3>4. Item.name = "text"
      BY DEF Reads
    <3> QED
      BY <3>1, <3>2, <3>3, <3>4 DEF NoTextLabel
  <2>4. UNCHANGED pos_ => (AtEnd' <=> AtEnd) /\ Item' = Item
    BY <2>1 DEF AtEnd, Item
  <2> QED
    BY <2>1, <2>2, <2>3, <2>4 DEF Sections
<1>7. CASE TextEnd
  <2>1. phase = "second" /\ loop = "text" /\ loop' = "top" /\ UNCHANGED <<source, phase, pos_>>
    BY <1>7 DEF TextEnd, Goto
  <2> QED
    BY <2>1 DEF Sections
<1>8. CASE TextLabel \/ Transfer \/ LoadAddress \/ Plain
  <2>1. /\ phase = "second" /\ loop = "text" /\ pos_' = pos_ + 1
        /\ UNCHANGED <<source, phase, loop>>
        /\ Item.kind # "section"
    BY <1>8 DEF TextLabel, Transfer, LoadAddress, Plain, InText, Advance
  <2> QED
    BY <1>n, <2>1 DEF Sections
<1>9. CASE SecondEnd \/ BackPatch \/ LoadProgram \/ Reject
  <2>1. phase' \in {"patch", "idle"}
    BY <1>9 DEF SecondEnd, BackPatch, LoadProgram, Reject, EmptyParser
  <2> QED
    BY <2>1 DEF Sections
<1>10. CASE \E file \in Sources : Load(file)
  <2>1. phase' = "first" /\ loop' = "top"
    BY <1>10 DEF Load, Places
  <2> QED
    BY <2>1 DEF Sections
<1>11. CASE \/ \E line \in DOMAIN program_.lines : AddBreakpoint(line) \/ RemoveBreakpoint(line)
            \/ UNCHANGED vars
  <2>1. UNCHANGED <<source, phase, loop, pos_>>
    BY <1>11 DEF AddBreakpoint, RemoveBreakpoint, vars, parser
  <2> QED
    BY <2>1 DEF Sections, AtEnd, Item
<1> QED
  BY <1>1, <1>2, <1>3, <1>4, <1>5, <1>6, <1>7, <1>8, <1>9, <1>10, <1>11 DEF Next, Parse

(* What was read stays read until the file is assembled. *)
LEMMA ReadOn ==
  ASSUME PInv, Places, [Next]_vars,
         phase \in {"second", "patch"}, phase' \in {"second", "patch"}
  PROVE  UNCHANGED source /\ \A i \in 1 .. Len(source) : Read(i) => Read(i)'
<1>0. pos_ \in Nat \ {0} /\ Len(source) \in Nat
  BY SourceLen
<1>1. UNCHANGED source
  BY PhaseSteps
<1> QED
  BY <1>0, <1>1, PhaseSteps DEF Read

(* The order of the passes. *)
LEMMA PhaseOn ==
  ASSUME [Next]_vars
  PROVE  /\ phase \in {"second", "patch"} => phase' \in {"second", "patch", "idle"}
         /\ phase' # "first" \/ phase \in {"idle", "first"}
         /\ phase' = "idle" /\ phase # "idle" => intermediate_code_' = <<>>
         /\ UNCHANGED source \/ phase = "idle"
BY DEF Next, Parse, vars, parser, FirstTop, FirstSkip, FirstEnd, DataEnd, DataLabel, DataDirective,
  DataOther, SecondTop, SecondSkip, SecondEnd, TextEnd, TextLabel, InText, Transfer, LoadAddress,
  Plain, BackPatch, LoadProgram, Reject, EmptyParser, Load, AddBreakpoint, RemoveBreakpoint

(* A branch or a jump comes from a text item that was read. *)
Origin(src, i, u) ==
  /\ Under(src, i) = "text"
  /\ src[i].kind = u.op /\ src[i].line = u.line /\ src[i].to = u.label

Origins ==
  \A k \in 1 .. Len(intermediate_code_) :
    intermediate_code_[k].op \in {"branch", "jal"} =>
      \E i \in 1 .. Len(source) : Read(i) /\ Origin(source, i, intermediate_code_[k])

(* Every step keeps the origins. *)
LEMMA StepOrigins ==
  ASSUME PInv, Places, SymbolsTyped, UnitsTyped, Sections, Origins, [Next]_vars
  PROVE  Origins'
<1> DEFINE code == intermediate_code_
           n == Len(code)
<1>0. Places' /\ n \in Nat /\ Len(source) \in Nat
  BY StepPlaces, SourceLen
<1>e. ASSUME code' = <<>> PROVE Origins'
  BY <1>e, EmptyLen DEF Origins
<1>1. CASE UNCHANGED code
  <2>1. CASE phase' \in {"idle", "first"} \/ phase \in {"idle", "first"}
    <3>1. code' = <<>>
      BY <1>0, <1>1, <2>1 DEF Places
    <3> QED
      BY <1>e, <3>1
  <2>2. CASE phase' \in {"second", "patch"} /\ phase \in {"second", "patch"}
    BY <1>1, <2>2, ReadOn DEF Origins, Origin
  <2> QED
    BY <1>0, <2>1, <2>2 DEF Places
<1>2. CASE Transfer \/ LoadAddress \/ Plain
  <2>1. /\ phase = "second" /\ phase' = "second" /\ loop = "text" /\ ~AtEnd
        /\ pos_' = pos_ + 1 /\ UNCHANGED source
    BY <1>2, EmitSteps
  <2>2. CASE UNCHANGED code
    BY <1>1, <2>2
  <2>3. CASE \E units : Emits(units)
    <3>1. PICK units : Emits(units)
      BY <2>3
    <3> DEFINE m == Len(units)
    <3>2. /\ n \in Nat /\ m \in Nat /\ Len(code') = n + m
          /\ \A k \in 1 .. n : code'[k] = code[k]
          /\ \A k \in n + 1 .. n + m : k - n \in 1 .. m /\ code'[k] = units[k - n]
      BY <3>1, EmitsGrow
    <3>3. PICK j \in 1 .. Len(source) : j = pos_ /\ Item = source[j] /\ j \in Nat \ {0}
      BY <2>1, AtItem, SourceLen
    <3>4. Read(j)'
      BY <2>1, <3>3 DEF Read
    <3>6. Under(source, j) = "text"
      BY <2>1, <3>3 DEF Sections
    <3>5. ASSUME NEW k \in 1 .. n + m, code'[k].op \in {"branch", "jal"}
          PROVE  \E i \in 1 .. Len(source) : Read(i)' /\ Origin(source, i, code'[k])
      <4>1. CASE k <= n
        <5>1. k \in 1 .. n /\ code'[k] = code[k]
          BY <3>2, <4>1
        <5>2. PICK i \in 1 .. Len(source) : Read(i) /\ Origin(source, i, code[k])
          BY <3>5, <5>1 DEF Origins
        <5>3. Read(i)'
          BY <2>1, <5>2, ReadOn
        <5>4. Origin(source, i, code'[k])
          BY <2>1, <5>1, <5>2 DEF Origin
        <5> QED
          BY <5>3, <5>4
      <4>2. CASE k > n
        <5>1. k - n \in 1 .. m /\ code'[k] = units[k - n]
          BY <3>2, <4>2
        <5>2. code'[k].op = Item.kind /\ code'[k].line = Item.line /\ code'[k].label = Item.to
          BY <3>1, <3>5, <5>1 DEF Emits
        <5>3. Origin(source, j, code'[k])
          <6>1. source[j].kind = code'[k].op /\ source[j].line = code'[k].line
                /\ source[j].to = code'[k].label
            BY <3>3, <5>2
          <6> QED
            BY <3>6, <6>1 DEF Origin
        <5> HIDE DEF code
        <5> QED
          BY <3>3, <3>4, <5>3
      <4> QED
        BY <3>2, <4>1, <4>2
    <3> QED
      BY <2>1, <3>2, <3>5 DEF Origins
  <2> QED
    BY <1>2, <2>2, <2>3, EmitSteps
<1>3. CASE BackPatch
  <2>1. phase = "patch" /\ UNCHANGED <<source, phase>> /\ Len(code') = n
    BY <1>3, BackPatches
  <2>2. \A k \in 1 .. n :
          code'[k].op = code[k].op /\ code'[k].line = code[k].line /\ code'[k].label = code[k].label
    BY <1>3, BackPatches
  <2>3. \A i \in 1 .. Len(source) : Read(i)'
    BY <2>1 DEF Read
  <2> QED
    BY <2>1, <2>2, <2>3 DEF Origins, Origin
<1>4. CASE LoadProgram \/ Reject
  BY <1>4, <1>e DEF LoadProgram, Reject, EmptyParser
<1> QED
  BY <1>1, <1>2, <1>3, <1>4, CodeSteps

(* Where the symbols come from: a data label lies in a data section; a text *)
(* label was read, and the code it was read behind is that of the lines     *)
(* before its own.                                                          *)
Labels(src, i, name, section) ==
  src[i].kind = "label" /\ src[i].name = name /\ Under(src, i) = section

Splits(m, l) ==
  /\ m \in 0 .. Len(intermediate_code_)
  /\ \A k \in 1 .. Len(intermediate_code_) : k <= m <=> intermediate_code_[k].line < l

InData(name) == \E i \in 1 .. Len(source) : Labels(source, i, name, "data")

InCode(name) ==
  \E i \in 1 .. Len(source), m \in Nat :
    /\ Read(i) /\ Labels(source, i, name, "text")
    /\ Splits(m, source[i].line) /\ symbol_table_[name].address = 4 * m

SymbolsFrom ==
  \A name \in DOMAIN symbol_table_ :
    /\ symbol_table_[name].isData => InData(name)
    /\ ~symbol_table_[name].isData => phase \in {"second", "patch"} /\ InCode(name)

(* Code behind a label that was read does not move it. *)
LEMMA KeepSplits ==
  ASSUME Ordered, PInv, Places, SymbolsTyped, UnitsTyped, [Next]_vars,
         phase \in {"second", "patch"}, phase' \in {"second", "patch"},
         NEW i \in 1 .. Len(source), Read(i), NEW m \in Nat, Splits(m, source[i].line)
  PROVE  Splits(m, source[i].line)'
<1> DEFINE code == intermediate_code_
           n == Len(code)
           l == source[i].line
<1>0. n \in Nat /\ UNCHANGED source
  BY SourceLen, ReadOn
<1>1. m \in 0 .. n /\ \A k \in 1 .. n : k <= m <=> code[k].line < l
  BY DEF Splits
<1>2. CASE UNCHANGED code
  BY <1>0, <1>1, <1>2 DEF Splits
<1>3. CASE Transfer \/ LoadAddress \/ Plain
  <2>1. phase = "second" /\ ~AtEnd
    BY <1>3, EmitSteps
  <2>2. ASSUME NEW units, Emits(units)
        PROVE  Splits(m, source[i].line)'
    <3> DEFINE u == Len(units)
    <3>1. /\ n \in Nat /\ u \in Nat /\ Len(code') = n + u
          /\ \A k \in 1 .. n : code'[k] = code[k]
          /\ \A k \in n + 1 .. n + u : k - n \in 1 .. u /\ code'[k] = units[k - n]
      BY <2>2, EmitsGrow
    <3>2. /\ pos_ \in 1 .. Len(source) /\ Item = source[pos_] /\ Len(source) \in Nat
          /\ pos_ \in Nat /\ i \in Nat
      BY <2>1, AtItem, SourceLen
    <3>3. i < pos_
      BY <2>1 DEF Read
    <3>4. l <= Item.line /\ l \in Nat /\ Item.line \in Nat
      <4>1. i <= pos_
        BY <3>2, <3>3
      <4> QED
        BY <3>2, <4>1, SourceOrdered
    <3>5. \A k \in n + 1 .. n + u : code'[k].line = Item.line
      BY <2>2, <3>1 DEF Emits
    <3>6. ASSUME NEW k \in 1 .. n + u PROVE k <= m <=> code'[k].line < l
      <4>1. CASE k <= n
        <5>1. k \in 1 .. n /\ code'[k] = code[k]
          BY <3>1, <4>1
        <5> QED
          BY <1>1, <5>1
      <4>2. CASE k > n
        <5>1. k \in n + 1 .. n + u
          BY <3>1, <4>2
        <5>2. ~(k <= m)
          BY <1>0, <1>1, <4>2
        <5>3. ~(code'[k].line < l)
          BY <3>4, <3>5, <5>1
        <5> QED
          BY <5>2, <5>3
      <4> QED
        BY <3>1, <4>1, <4>2
    <3>7. m \in 0 .. n + u
      BY <1>0, <1>1, <3>1
    <3> QED
      BY <1>0, <3>1, <3>6, <3>7 DEF Splits
  <2> QED
    BY <1>2, <1>3, <2>2, EmitSteps
<1>4. CASE BackPatch
  <2>1. Len(code') = n /\ \A k \in 1 .. n : code'[k].line = code[k].line
    BY <1>4, BackPatches
  <2> QED
    BY <1>0, <1>1, <2>1 DEF Splits
<1>5. CASE LoadProgram \/ Reject
  <2>1. phase' = "idle"
    BY <1>5 DEF LoadProgram, Reject, EmptyParser
  <2> QED
    BY <2>1
<1> QED
  BY <1>2, <1>3, <1>4, <1>5, CodeSteps

(* A symbol that a step leaves keeps its origin. *)
LEMMA KeepSymbol ==
  ASSUME Ordered, PInv, Places, SymbolsTyped, UnitsTyped, SymbolsFrom, [Next]_vars,
         phase' # "idle", NEW name \in DOMAIN symbol_table_, name \in DOMAIN symbol_table_',
         symbol_table_'[name] = symbol_table_[name]
  PROVE  /\ symbol_table_'[name].isData => InData(name)'
         /\ ~symbol_table_'[name].isData => phase' \in {"second", "patch"} /\ InCode(name)'
<1>1. phase # "idle" /\ UNCHANGED source
  <2>1. DOMAIN <<>> = {}
    OBVIOUS
  <2>2. phase # "idle"
    BY <2>1 DEF Places
  <2> QED
    BY <2>2, PhaseOn
<1>2. ASSUME symbol_table_'[name].isData PROVE InData(name)'
  BY <1>1, <1>2 DEF SymbolsFrom, InData
<1>3. ASSUME ~symbol_table_'[name].isData
      PROVE  phase' \in {"second", "patch"} /\ InCode(name)'
  <2>1. phase \in {"second", "patch"} /\ InCode(name)
    BY <1>3 DEF SymbolsFrom
  <2>2. phase' \in {"second", "patch"}
    BY <2>1, PhaseOn
  <2>3. PICK i \in 1 .. Len(source), m \in Nat :
          /\ Read(i) /\ Labels(source, i, name, "text")
          /\ Splits(m, source[i].line) /\ symbol_table_[name].address = 4 * m
    BY <2>1 DEF InCode
  <2>4. Read(i)' /\ Splits(m, source[i].line)'
    BY <2>1, <2>2, <2>3, ReadOn, KeepSplits
  <2>5. symbol_table_'[name].address = 4 * m
    BY <2>3
  <2>6. InCode(name)'
    BY <1>1, <2>3, <2>4, <2>5 DEF InCode
  <2> QED
    BY <2>2, <2>6
<1> QED
  BY <1>2, <1>3

(* A text label starts behind all the code read so far. *)
LEMMA LabelSplits ==
  ASSUME LabelsLead, PInv, LineInv, phase = "second", ~AtEnd, Item.kind = "label"
  PROVE  Splits(Len(intermediate_code_), Item.line)
<1>0. Len(intermediate_code_) \in Nat /\ Len(source) \in Nat /\ pos_ \in Nat
  BY SourceLen
<1>1. PICK j \in 1 .. Len(source) : j = pos_ /\ Item = source[j] /\ j \in Nat
  BY AtItem, SourceLen
<1>2. source \in Sources /\ DOMAIN source = 1 .. Len(source)
  <2>1. source # <<>>
    BY <1>0, <1>1, EmptyLen
  <2> QED
    BY <2>1, SourceLen DEF PInv, Typed
<1>3. ASSUME NEW k \in 1 .. Len(intermediate_code_)
      PROVE  intermediate_code_[k].line < Item.line
  <2>1. PICK i \in 1 .. Len(source) :
          Read(i) /\ IsInstruction(source[i]) /\ source[i].line = intermediate_code_[k].line
    BY DEF LineInv
  <2>2. i \in 1 .. j - 1
    BY <1>0, <1>1, <2>1 DEF Read
  <2>3. source[i].line < source[j].line
    BY <1>1, <1>2, <2>1, <2>2 DEF LabelsLead
  <2> QED
    BY <1>1, <2>1, <2>3
<1> QED
  BY <1>0, <1>3 DEF Splits

(* Every step keeps the origins of the symbols. *)
LEMMA StepSymbolsFrom ==
  ASSUME Ordered, LabelsLead, PInv, Places, SymbolsTyped, UnitsTyped, LineInv, Sections,
         SymbolsFrom, [Next]_vars
  PROVE  SymbolsFrom'
<1>0. Places' /\ DOMAIN <<>> = {} /\ pos_ \in Nat \ {0} /\ Len(intermediate_code_) \in Nat
  BY StepPlaces, SourceLen
<1>1. CASE phase' = "idle"
  BY <1>0, <1>1 DEF Places, SymbolsFrom
<1>2. CASE phase' # "idle" /\ UNCHANGED symbol_table_
  BY <1>2, KeepSymbol DEF SymbolsFrom
<1>3. CASE DataLabel
  <2>1. /\ phase = "first" /\ loop = "data" /\ ~AtEnd /\ Item.kind = "label" /\ phase' # "idle"
        /\ UNCHANGED source
        /\ symbol_table_' = Bind(symbol_table_, Item.name, Symbol(data_index_', Item.line, TRUE))
    BY <1>3 DEF DataLabel
  <2>2. PICK j \in 1 .. Len(source) : j = pos_ /\ Item = source[j]
    BY <2>1, AtItem
  <2>3. Labels(source, j, Item.name, "data")
    BY <2>1, <2>2 DEF Sections, Labels
  <2> DEFINE it == Item.name
             entry == Symbol(data_index_', Item.line, TRUE)
  <2>4. /\ DOMAIN symbol_table_' = DOMAIN symbol_table_ \cup {it}
        /\ symbol_table_'[it] = entry
        /\ \A n \in DOMAIN symbol_table_ : n # it => symbol_table_'[n] = symbol_table_[n]
    BY <2>1 DEF Bind
  <2>5. entry.isData = TRUE
    BY DEF Symbol
  <2> HIDE DEF entry
  <2>6. ASSUME NEW name \in DOMAIN symbol_table_'
        PROVE  /\ symbol_table_'[name].isData => InData(name)'
               /\ ~symbol_table_'[name].isData => phase' \in {"second", "patch"} /\ InCode(name)'
    <3>1. CASE name = it
      <4>1. InData(name)'
        BY <2>1, <2>3, <3>1 DEF InData
      <4>2. symbol_table_'[name].isData = TRUE
        BY <2>4, <2>5, <3>1
      <4> QED
        BY <4>1, <4>2
    <3>2. CASE name # it
      <4>1. name \in DOMAIN symbol_table_ /\ symbol_table_'[name] = symbol_table_[name]
        BY <2>4, <3>2
      <4> QED
        BY <2>1, <2>6, <4>1, KeepSymbol
    <3> QED
      BY <3>1, <3>2
  <2> QED
    BY <2>6 DEF SymbolsFrom
<1>4. CASE TextLabel
  <2>1. /\ phase = "second" /\ loop = "text" /\ ~AtEnd /\ Item.kind = "label" /\ phase' = "second"
        /\ pos_' = pos_ + 1 /\ UNCHANGED <<source, intermediate_code_>>
    BY <1>4 DEF TextLabel, InText, Advance
  <2>2. CASE UNCHANGED symbol_table_
    BY <1>2, <2>1, <2>2
  <2>3. CASE symbol_table_' =
               Bind(symbol_table_, Item.name, Symbol(4 * Len(intermediate_code_), Item.line, FALSE))
    <3> DEFINE it == Item.name
               m == Len(intermediate_code_)
               entry == Symbol(4 * m, Item.line, FALSE)
    <3>1. /\ DOMAIN symbol_table_' = DOMAIN symbol_table_ \cup {it}
          /\ symbol_table_'[it] = entry
          /\ \A n \in DOMAIN symbol_table_ : n # it => symbol_table_'[n] = symbol_table_[n]
      BY <2>3 DEF Bind
    <3>2. entry.isData = FALSE /\ entry.address = 4 * m
      BY DEF Symbol
    <3>3. PICK j \in 1 .. Len(source) : j = pos_ /\ Item = source[j]
      BY <2>1, AtItem
    <3>4. Labels(source, j, it, "text") /\ Splits(m, source[j].line)
      BY <2>1, <3>3, LabelSplits DEF Sections, Labels
    <3>5. Read(j)'
      BY <1>0, <2>1, <3>3 DEF Read
    <3>6. Splits(m, source[j].line)'
      BY <2>1, <3>4 DEF Splits
    <3> HIDE DEF entry
    <3>7. symbol_table_'[it].address = 4 * m /\ symbol_table_'[it].isData = FALSE
      BY <3>1, <3>2
    <3>8. \E i \in 1 .. Len(source'), k \in Nat :
            /\ Read(i)' /\ Labels(source', i, it, "text")
            /\ Splits(k, source[i].line)' /\ symbol_table_'[it].address = 4 * k
      BY <1>0, <2>1, <3>4, <3>5, <3>6, <3>7
    <3> HIDE DEF it
    <3>9. ASSUME NEW name \in DOMAIN symbol_table_'
          PROVE  /\ symbol_table_'[name].isData => InData(name)'
                 /\ ~symbol_table_'[name].isData => phase' \in {"second", "patch"} /\ InCode(name)'
      <4>1. CASE name = it
        <5>1. InCode(name)'
          BY <3>8, <4>1 DEF InCode
        <5> QED
          BY <2>1, <3>7, <4>1, <5>1
      <4>2. CASE name # it
        <5>1. name \in DOMAIN symbol_table_ /\ symbol_table_'[name] = symbol_table_[name]
          BY <3>1, <4>2
        <5> QED
          BY <2>1, <3>9, <5>1, KeepSymbol
      <4> QED
        BY <4>1, <4>2
    <3> QED
      BY <3>9 DEF SymbolsFrom
  <2> QED
    BY <1>4, <2>2, <2>3 DEF TextLabel
<1>5. CASE LoadProgram \/ Reject \/ DataDirective
  <2>1. phase' = "idle" \/ (phase' # "idle" /\ UNCHANGED symbol_table_)
    BY <1>5 DEF LoadProgram, Reject, EmptyParser, DataDirective
  <2> QED
    BY <1>1, <1>2, <2>1
<1> QED
  BY <1>1, <1>2, <1>3, <1>4, <1>5, SymbolSteps

LabelInv == TInv /\ Buffered /\ LineInv /\ Sections /\ Origins /\ SymbolsFrom /\ Offsets

(* The code before a label is as many words as its address says. *)
LEMMA SplitCount ==
  ASSUME PInv, NEW m \in Nat, NEW l, Splits(m, l)
  PROVE  Cardinality(EndsBefore(intermediate_code_, Len(intermediate_code_), l)) = m
<1> DEFINE n == Len(intermediate_code_)
<1>0. n \in Nat /\ m \in 0 .. n
  BY SourceLen DEF Splits
<1>1. EndsBefore(intermediate_code_, n, l) = 0 .. m - 1
  <2>1. \A k \in 0 .. n - 1 :
          k + 1 \in 1 .. n /\ (intermediate_code_[k + 1].line < l <=> k + 1 <= m)
    BY <1>0 DEF Splits
  <2>2. \A k \in 0 .. n - 1 : k + 1 <= m <=> k \in 0 .. m - 1
    BY <1>0
  <2>3. \A k \in 0 .. m - 1 : k \in 0 .. n - 1
    BY <1>0
  <2> QED
    BY <2>1, <2>2, <2>3 DEF EndsBefore
<1>2. Cardinality(0 .. m - 1) = IF 0 > m - 1 THEN 0 ELSE (m - 1) - 0 + 1
  <2>1. 0 \in Int /\ m - 1 \in Int
    BY <1>0
  <2> QED
    BY <2>1, FS_Interval
<1>3. Cardinality(0 .. m - 1) = m
  BY <1>0, <1>2
<1> QED
  BY <1>1, <1>3

(* A data label is one of its name's, the last one. *)
LEMMA LastOf ==
  ASSUME NEW n \in Nat, NEW S \in SUBSET (1 .. n), S # {}
  PROVE  Max(S) \in S
<1>1. S \in SUBSET (0 .. n)
  OBVIOUS
<1> QED
  BY <1>1, MaxIn

(* LoadProgram writes references that lead to their labels. *)
LEMMA LoadLabels ==
  ASSUME TextFits, LabelInv, LoadProgram
  PROVE  LabelsResolve'
<1> DEFINE code == intermediate_code_
           n == Len(code)
<1>0. /\ n \in Nat /\ DOMAIN code = 1 .. n
      /\ Len(source) \in Nat /\ DOMAIN source = 1 .. Len(source)
      /\ \A u : Encode(u).op = u.op /\ Encode(u).line = u.line
  BY SourceLen, SeqLen DEF LabelInv, TInv, Encode
<1>1. /\ Words' = 0 .. n - 1
      /\ \A k \in 0 .. n - 1 : memory'[4 * k] = Encode(code[k + 1])
      /\ \A l : WordsBefore(l)' = Cardinality(EndsBefore(code, n, l))
  BY ImageLines DEF LabelInv, TInv
<1>2. /\ errors_ = {} /\ Loaded' = source /\ program_'.symbol_table = symbol_table_
  BY DEF LoadProgram, Loaded
<1>3. \A j \in 1 .. Len(source) : SectionOf(j)' = Under(source, j)
  BY <1>2 DEF SectionOf, Under
<1>4. \A name :
        ItemsIn(name)' = {j \in 1 .. Len(source) : source[j].kind # "section"
                                                   /\ Under(source, j) = name}
  BY <1>0, <1>2, <1>3 DEF ItemsIn
<1>5. \A k \in 0 .. n - 1 :
        /\ code[k + 1].patched
        /\ code[k + 1].op \in {"branch", "jal"} =>
             Signed(Encode(code[k + 1])) = code[k + 1].imm - (code[k + 1].imm % 2)
  <2>1. Assembled /\ PInv
    BY DEF LoadProgram, LabelInv, TInv
  <2>2. \A k \in 0 .. n - 1 : k + 1 \in 1 .. Len(code)
    BY <1>0
  <2> QED
    BY <1>2, <2>1, <2>2, EncodedBits
<1> DEFINE Before(l) == Cardinality(EndsBefore(code, n, l))
           LastNamed(name) ==
             Max({j \in ItemsIn("data")' : source[j].kind = "label" /\ source[j].name = name})
<1>d. DataLabels' =
        {j \in ItemsIn("data")' : source[j].kind = "label" /\ j = LastNamed(source[j].name)}
  BY <1>2 DEF DataLabels, LastLabel
<1>w. \A l : Cardinality({x \in Words' : memory'[4 * x].line < l}) = Before(l)
  BY <1>1 DEF WordsBefore
<1> SUFFICES ASSUME NEW k \in 0 .. n - 1, memory'[4 * k].op \in {"branch", "jal"}
             PROVE  \E i \in ItemsIn("text")' :
                      /\ source[i].kind = memory'[4 * k].op /\ source[i].line = memory'[4 * k].line
                      /\ LET target == 4 * k + Signed(memory'[4 * k]) IN
                         \/ \E j \in ItemsIn("text")' :
                              /\ source[j].kind = "label" /\ source[j].name = source[i].to
                              /\ target = 4 * Before(source[j].line)
                         \/ /\ source[i].kind = "jal"
                            /\ \E j \in DataLabels' :
                                 /\ source[j].name = source[i].to
                                 /\ LET address == symbol_table_[source[j].name].address
                                    IN  target = address - (address % 2)
  BY <1>1, <1>2, <1>w DEF LabelsResolve, WordsBefore
<1> DEFINE u == code[k + 1]
           target == 4 * k + Signed(memory'[4 * k])
<1>6. /\ k + 1 \in 1 .. n /\ u.op \in {"branch", "jal"} /\ u.patched
      /\ memory'[4 * k].op = u.op /\ memory'[4 * k].line = u.line
      /\ Signed(memory'[4 * k]) = u.imm - (u.imm % 2)
  BY <1>0, <1>1, <1>5
<1>7. PICK i \in 1 .. Len(source) : Origin(source, i, u)
  BY <1>6 DEF LabelInv, Origins
<1>8. i \in ItemsIn("text")' /\ source[i].kind = u.op /\ source[i].line = u.line
      /\ source[i].to = u.label
  <2>1. source[i].kind # "section"
    BY <1>6, <1>7 DEF Origin
  <2> QED
    BY <1>4, <1>7, <2>1 DEF Origin
<1>9. Served(u, k)
  <2>1. k + 1 - 1 = k
    OBVIOUS
  <2> QED
    BY <1>2, <1>6, <2>1 DEF LabelInv, Offsets
<1>10. u.label \in DOMAIN symbol_table_ /\ symbol_table_[u.label].address \in Nat
  BY <1>9 DEF Served, LabelInv, TInv, SymbolsTyped
<1> DEFINE a == symbol_table_[u.label].address
<1>11. target = a - (a % 2)
  <2>1. a \in Nat /\ k \in Nat /\ u.imm = a - 4 * k
    BY <1>6, <1>9, <1>10 DEF Served, Offset
  <2>2. (a - 4 * k) % 2 = a % 2
    <3> HIDE DEF a
    <3> QED
      BY <2>1
  <2>3. target = 4 * k + (a - 4 * k - (a % 2))
    BY <1>6, <2>1, <2>2
  <2> HIDE DEF a, target
  <2> QED
    BY <2>1, <2>3
<1>12. CASE symbol_table_[u.label].isData
  <2>1. u.op = "jal"
    BY <1>6, <1>9, <1>12 DEF Served
  <2>2. InData(u.label)
    BY <1>10, <1>12 DEF LabelInv, SymbolsFrom
  <2> DEFINE S == {j \in 1 .. Len(source) :
                     /\ source[j].kind # "section" /\ Under(source, j) = "data"
                     /\ source[j].kind = "label" /\ source[j].name = u.label}
  <2>3. S # {}
    BY <2>2 DEF InData, Labels
  <2>4. Max(S) \in S
    BY <1>0, <2>3, LastOf
  <2>5. LastNamed(u.label) = Max(S)
    <3>1. {j \in ItemsIn("data")' : source[j].kind = "label" /\ source[j].name = u.label} = S
      BY <1>4
    <3> QED
      BY <3>1
  <2>6. Max(S) \in DataLabels'
    <3>1. Max(S) \in ItemsIn("data")' /\ source[Max(S)].kind = "label"
      BY <1>4, <2>4
    <3>2. source[Max(S)].name = u.label
      BY <2>4
    <3> HIDE DEF LastNamed, S
    <3> QED
      BY <1>d, <2>5, <3>1, <3>2
  <2>7. source[Max(S)].name = u.label
    BY <2>4
  <2> HIDE DEF S, target
  <2>8. \E j \in DataLabels' :
           /\ source[j].name = source[i].to
           /\ LET address == symbol_table_[source[j].name].address
              IN  target = address - (address % 2)
    BY <1>8, <1>11, <2>6, <2>7
  <2> QED
    BY <1>6, <1>8, <2>1, <2>8 DEF target
<1>13. CASE ~symbol_table_[u.label].isData
  <2>1. InCode(u.label)
    BY <1>10, <1>13 DEF LabelInv, SymbolsFrom
  <2>2. PICK j \in 1 .. Len(source), m \in Nat :
          /\ Labels(source, j, u.label, "text")
          /\ Splits(m, source[j].line) /\ symbol_table_[u.label].address = 4 * m
    BY <2>1 DEF InCode
  <2>3. Before(source[j].line) = m
    BY <2>2, SplitCount DEF LabelInv, TInv
  <2>4. j \in ItemsIn("text")'
    BY <1>4, <2>2 DEF Labels
  <2>0. (4 * m) % 2 = 0 /\ 4 * m \in Int
    OBVIOUS
  <2> HIDE DEF target
  <2>5. target = 4 * m
    BY <1>11, <2>0, <2>2
  <2>6. \E x \in ItemsIn("text")' :
           /\ source[x].kind = "label" /\ source[x].name = source[i].to
           /\ target = 4 * Before(source[x].line)
    BY <1>8, <2>2, <2>3, <2>4, <2>5 DEF Labels
  <2> QED
    BY <1>6, <1>8, <2>6 DEF target
<1> QED
  BY <1>12, <1>13

(* There is no reference at the start. *)
LEMMA InitLabels ==
  ASSUME Init
  PROVE  LabelInv /\ LabelsResolve
<1>1. TInv /\ Buffered /\ LineInv
  BY InitTInv, InitLines
<1>2. /\ phase = "idle" /\ program_size_ = 0
      /\ intermediate_code_ = <<>> /\ symbol_table_ = <<>> /\ DOMAIN <<>> = {} /\ Len(<<>>) = 0
  BY DEF Init
<1>3. Sections /\ Origins /\ SymbolsFrom /\ Offsets
  BY <1>2 DEF Sections, Origins, SymbolsFrom, Offsets
<1>4. LabelsResolve
  <2>1. 0 \div 4 - 1 = -1
    OBVIOUS
  <2>2. Words = {}
    BY <1>2, <2>1 DEF Words
  <2> QED
    BY <2>2 DEF LabelsResolve
<1> QED
  BY <1>1, <1>3, <1>4 DEF LabelInv

(* Every step keeps the invariant. *)
LEMMA StepLabelInv ==
  ASSUME Ordered, NoTextLabel, LabelsLead, LabelInv, [Next]_vars
  PROVE  LabelInv'
<1>1. PInv /\ Places /\ SymbolsTyped /\ UnitsTyped
  BY DEF LabelInv, TInv
<1>2. TInv' /\ Buffered' /\ LineInv'
  BY <1>1, StepTInv, StepBuffered, StepLines DEF LabelInv
<1>3. Sections' /\ Origins' /\ SymbolsFrom' /\ Offsets'
  BY <1>1, StepSections, StepOrigins, StepSymbolsFrom, StepOffsets DEF LabelInv
<1> QED
  BY <1>2, <1>3 DEF LabelInv

(* No other step changes the image. *)
LEMMA KeepsLabels ==
  ASSUME LabelsResolve, [Next]_vars, ~LoadProgram
  PROVE  LabelsResolve'
<1>1. UNCHANGED <<program_, memory, program_size_>>
  BY MachineSteps DEF AddBreakpoint, RemoveBreakpoint
<1>2. Words' = Words /\ Loaded' = Loaded
  BY <1>1 DEF Words, Loaded
<1>3. \A name : ItemsIn(name)' = ItemsIn(name)
  BY <1>2 DEF ItemsIn, SectionOf
<1>4. DataLabels' = DataLabels
  BY <1>2, <1>3 DEF DataLabels, LastLabel
<1> DEFINE Here(i, k) == Loaded[i].kind = memory[4 * k].op /\ Loaded[i].line = memory[4 * k].line
           Target(k) == 4 * k + Signed(memory[4 * k])
           ToText(i, k) ==
             \E j \in ItemsIn("text") :
               /\ Loaded[j].kind = "label" /\ Loaded[j].name = Loaded[i].to
               /\ Target(k) = 4 * Cardinality({x \in Words : memory[4 * x].line < Loaded[j].line})
           ToData(i, k) ==
             /\ Loaded[i].kind = "jal"
             /\ \E j \in DataLabels :
                  /\ Loaded[j].name = Loaded[i].to
                  /\ LET address == program_.symbol_table[Loaded[j].name].address
                     IN  Target(k) = address - (address % 2)
           Resolves(k) ==
             \E i \in ItemsIn("text") : Here(i, k) /\ (ToText(i, k) \/ ToData(i, k))
<1>5. LabelsResolve <=> \A k \in Words : memory[4 * k].op \in {"branch", "jal"} => Resolves(k)
  BY Zenon DEF LabelsResolve, WordsBefore
<1>6. LabelsResolve' <=> \A k \in Words' : memory'[4 * k].op \in {"branch", "jal"} => Resolves(k)'
  BY Zenon DEF LabelsResolve, WordsBefore
<1>7. ASSUME NEW k, NEW i
      PROVE  /\ Here(i, k)' <=> Here(i, k)
             /\ ToText(i, k)' <=> ToText(i, k)
             /\ ToData(i, k)' <=> ToData(i, k)
  <2>1. Target(k)' = Target(k) /\ (Here(i, k)' <=> Here(i, k))
    BY <1>1, <1>2
  <2> HIDE DEF Target
  <2>2. ToText(i, k)' <=> ToText(i, k)
    BY <1>1, <1>2, <1>3, <2>1
  <2>3. ToData(i, k)' <=> ToData(i, k)
    BY <1>1, <1>2, <1>4, <2>1
  <2> QED
    BY <2>1, <2>2, <2>3
<1> HIDE DEF Here, ToText, ToData
<1>8. \A k : Resolves(k)' <=> Resolves(k)
  BY <1>3, <1>7
<1> HIDE DEF Resolves
<1> QED
  BY <1>1, <1>2, <1>5, <1>6, <1>8

(* Whatever such files whose labels lead: every branch, and every jal to a  *)
(* label of the text, goes to the first instruction behind its label in the *)
(* source, be it resolved in the text loop or by the back-patching; a jal   *)
(* to a data label goes to the even offset in the data section at or below  *)
(* the label's (Parser::parse, generateJTypeMachineCode, LoadProgram).      *)
THEOREM LabelsOfSource ==
  ASSUME Ordered, TextFits, NoTextLabel, LabelsLead
  PROVE  Spec => []LabelsResolve
<1> DEFINE Inv == LabelInv /\ LabelsResolve
<1>1. Init => Inv
  BY InitLabels
<1>2. Inv /\ [Next]_vars => Inv'
  BY StepLabelInv, LoadLabels, KeepsLabels
<1>3. Inv => LabelsResolve
  OBVIOUS
<1> HIDE DEF Inv
<1> QED
  BY <1>1, <1>2, <1>3, PTL DEF Spec
-------------------------------------------------------------------------------
(***************************************************************************)
(* Data.  The parser aligns at a label and at each value, LoadProgram at   *)
(* each value only.                                                        *)
(***************************************************************************)
(* A multiple of an alignment. *)
Multiple(x, a) == \E q \in Nat : x = q * a

(* Multiples that differ by less than the alignment are in order. *)
LEMMA MultipleGap ==
  ASSUME NEW a \in Nat \ {0}, NEW p \in Nat, NEW q \in Nat, p * a < q * a + a
  PROVE  p <= q
<1> SUFFICES ASSUME q + 1 <= p PROVE FALSE
  OBVIOUS
<1>1. PICK d \in Nat : p = q + 1 + d
  <2>1. p - (q + 1) \in Nat /\ p = q + 1 + (p - (q + 1))
    OBVIOUS
  <2> QED
    BY <2>1
<1>2. p * a = q * a + a + d * a
  BY <1>1
<1>3. d * a \in Nat /\ q * a \in Nat
  OBVIOUS
<1> QED
  BY <1>2, <1>3

(* Among as many numbers as the alignment there is one multiple. *)
LEMMA MultipleOnce ==
  ASSUME NEW a \in Nat \ {0}, NEW n \in Nat, NEW x, NEW y, Multiple(x, a), Multiple(y, a),
         n <= x, x < n + a, n <= y, y < n + a
  PROVE  x = y
<1>1. PICK p \in Nat : x = p * a
  BY DEF Multiple
<1>2. PICK q \in Nat : y = q * a
  BY DEF Multiple
<1>3. p * a \in Nat /\ q * a \in Nat
  OBVIOUS
<1>4. p * a < q * a + a /\ q * a < p * a + a
  <2> HIDE DEF Multiple
  <2> QED
    BY <1>1, <1>2, <1>3
<1>5. p <= q /\ q <= p
  BY <1>4, MultipleGap
<1>6. p = q
  BY <1>5
<1> QED
  BY <1>1, <1>2, <1>6

(* Quotient and remainder. *)
LEMMA DivMod ==
  ASSUME NEW x \in Nat, NEW a \in Nat \ {0}
  PROVE  \E d \in Nat, r \in 0 .. a - 1 :
           d = x \div a /\ r = x % a /\ d * a \in Nat /\ x = d * a + r
<1>0. x \div a \in Int
  OBVIOUS
<1>1. x % a \in 0 .. a - 1
  OBVIOUS
<1>2. x = a * (x \div a) + (x % a)
  OBVIOUS
<1> DEFINE d == x \div a
           r == x % a
<1>3. d \in Int /\ r \in 0 .. a - 1 /\ x = a * d + r
  BY <1>0, <1>1, <1>2, Zenon
<1> HIDE DEF d, r
<1>4. a * d = d * a
  BY <1>3
<1>5. d \in Nat
  <2> SUFFICES ASSUME d + 1 <= 0 PROVE FALSE
    BY <1>3
  <2>1. PICK e \in Nat : d = -1 - e
    <3>1. -1 - d \in Nat /\ d = -1 - (-1 - d)
      BY <1>3
    <3> QED
      BY <3>1
  <2>2. a * d = -a - a * e /\ a * e \in Nat
    BY <2>1
  <2> QED
    BY <1>3, <2>2
<1>6. d \in Nat /\ r \in 0 .. a - 1 /\ d * a \in Nat /\ x = d * a + r
  BY <1>3, <1>4, <1>5
<1>7. d = x \div a /\ r = x % a
  BY DEF d, r
<1> QED
  BY <1>6, <1>7

(* A number without a remainder is a multiple. *)
LEMMA RemainderOf ==
  ASSUME NEW x \in Nat, NEW a \in Nat \ {0}
  PROVE  x % a = 0 <=> Multiple(x, a)
<1>1. PICK d \in Nat, r \in 0 .. a - 1 : r = x % a /\ d * a \in Nat /\ x = d * a + r
  BY DivMod
<1> DEFINE y == d * a
<1>2. Multiple(y, a) /\ y \in Nat
  BY <1>1 DEF Multiple
<1>3. y <= x /\ x < y + a /\ y < y + a /\ (r = 0 <=> x = y)
  BY <1>1
<1> HIDE DEF y
<1>4. ASSUME Multiple(x, a) PROVE x = y
  BY <1>2, <1>3, <1>4, MultipleOnce
<1> QED
  BY <1>1, <1>2, <1>3, <1>4

(* Multiples add up to one. *)
LEMMA MultipleSum ==
  ASSUME NEW a \in Nat \ {0}, NEW x, NEW y, Multiple(x, a), Multiple(y, a)
  PROVE  Multiple(x + y, a) /\ x \in Nat /\ y \in Nat
<1>1. PICK p \in Nat : x = p * a
  BY DEF Multiple
<1>2. PICK q \in Nat : y = q * a
  BY DEF Multiple
<1>3. x + y = (p + q) * a /\ p + q \in Nat /\ p * a \in Nat /\ q * a \in Nat
  BY <1>1, <1>2
<1> QED
  BY <1>1, <1>2, <1>3 DEF Multiple

(* Rounding up gives the multiple that is nearest from above. *)
LEMMA AlignIs ==
  ASSUME NEW n \in Nat, NEW a \in Nat \ {0}
  PROVE  /\ AlignUp(n, a) \in Nat /\ Multiple(AlignUp(n, a), a)
         /\ n <= AlignUp(n, a) /\ AlignUp(n, a) < n + a
<1>1. n + a - 1 \in Nat
  OBVIOUS
<1>2. PICK d \in Nat, r \in 0 .. a - 1 :
        d = (n + a - 1) \div a /\ d * a \in Nat /\ n + a - 1 = d * a + r
  BY <1>1, DivMod
<1> DEFINE y == d * a
<1>3. AlignUp(n, a) = y
  BY <1>2 DEF AlignUp
<1>4. Multiple(y, a) /\ y \in Nat /\ n + a - 1 = y + r
  BY <1>2 DEF Multiple
<1> HIDE DEF y
<1>5. n <= y /\ y < n + a
  BY <1>4
<1> QED
  BY <1>3, <1>4, <1>5

(* What is aligned is not moved, *)
LEMMA AlignMultiple ==
  ASSUME NEW n \in Nat, NEW a \in Nat \ {0}, Multiple(n, a)
  PROVE  AlignUp(n, a) = n
<1> DEFINE A == AlignUp(n, a)
<1>1. A \in Nat /\ Multiple(A, a) /\ n <= A /\ A < n + a
  BY AlignIs
<1> HIDE DEF A
<1>2. n <= n /\ n < n + a
  OBVIOUS
<1>3. A = n
  BY <1>1, <1>2, MultipleOnce
<1> QED
  BY <1>3 DEF A

(* not by aligning it again, *)
LEMMA AlignTwice ==
  ASSUME NEW n \in Nat, NEW a \in Nat \ {0}
  PROVE  AlignUp(AlignUp(n, a), a) = AlignUp(n, a)
BY AlignIs, AlignMultiple

(* nor is anything by bytes, *)
LEMMA AlignOne ==
  ASSUME NEW n \in Nat
  PROVE  AlignUp(n, 1) = n
<1>1. n = n * 1
  OBVIOUS
<1> QED
  BY <1>1, AlignMultiple DEF Multiple

(* nor is the beginning. *)
LEMMA AlignZero ==
  ASSUME NEW a \in Nat \ {0}
  PROVE  AlignUp(0, a) = 0
<1>1. 0 = 0 * a
  OBVIOUS
<1> QED
  BY <1>1, AlignMultiple DEF Multiple

(* Where the last value of a buffer ends. *)
EndOf(buffer, n) == IF n = 0 THEN 0 ELSE Placement(buffer)[n] + buffer[n].size

(* The values are placed one behind the other. *)
LEMMA PlacedApart ==
  ASSUME NEW buffer, NEW n, IsBuffer(buffer, n)
  PROVE  \A k \in 1 .. n : \A j \in k + 1 .. n :
           Placement(buffer)[k] + buffer[k].size <= Placement(buffer)[j]
<1> DEFINE P == Placement(buffer)
           S(k) == {d \in Nat : \A j \in k + 1 .. n : j <= k + d => P[k] + buffer[k].size <= P[j]}
<1>0. /\ n \in Nat
      /\ \A k \in 1 .. n : P[k] \in Nat /\ buffer[k].size \in Nat /\ buffer[k].align \in Nat \ {0}
      /\ \A k \in 1 .. n : P[k] = PlacedAt(buffer, P, k)
  BY PlacementIs DEF IsBuffer
<1>1. \A k \in 2 .. n : P[k - 1] + buffer[k - 1].size <= P[k]
  <2> SUFFICES ASSUME NEW k \in 2 .. n PROVE P[k - 1] + buffer[k - 1].size <= P[k]
    OBVIOUS
  <2> DEFINE e == P[k - 1] + buffer[k - 1].size
             a == buffer[k].align
  <2>1. e \in Nat /\ a \in Nat \ {0} /\ k \in 1 .. n /\ k # 1
    BY <1>0
  <2>2. P[k] = AlignUp(e, a)
    BY <1>0, <2>1 DEF PlacedAt
  <2> HIDE DEF e, a, P
  <2>3. e <= P[k]
    BY <2>1, <2>2, AlignIs
  <2> QED
    BY <2>3 DEF e
<1> HIDE DEF P
<1>2. ASSUME NEW k \in 1 .. n PROVE S(k) = Nat
  <2>1. S(k) \in SUBSET Nat /\ 0 \in S(k)
    OBVIOUS
  <2>2. ASSUME NEW d \in S(k) PROVE d + 1 \in S(k)
    <3> SUFFICES ASSUME NEW j \in k + 1 .. n, j = k + d + 1 PROVE P[k] + buffer[k].size <= P[j]
      OBVIOUS
    <3>1. CASE d = 0
      <4>1. j \in 2 .. n /\ j - 1 = k
        BY <3>1
      <4> QED
        BY <1>1, <4>1
    <3>2. CASE d # 0
      <4>1. /\ j \in 2 .. n /\ j \in 1 .. n
            /\ j - 1 \in k + 1 .. n /\ j - 1 \in 1 .. n /\ j - 1 <= k + d
        BY <1>0, <3>2
      <4>2. P[k] + buffer[k].size <= P[j - 1]
        BY <4>1
      <4>3. P[j - 1] + buffer[j - 1].size <= P[j]
        BY <1>1, <4>1
      <4>4. P[k] \in Nat /\ P[j - 1] \in Nat /\ P[j] \in Nat
            /\ buffer[k].size \in Nat /\ buffer[j - 1].size \in Nat
        BY <1>0, <4>1
      <4> QED
        BY <4>2, <4>3, <4>4
    <3> QED
      BY <3>1, <3>2
  <2> HIDE DEF S
  <2> QED
    BY <2>1, <2>2, NatSet
<1> SUFFICES ASSUME NEW k \in 1 .. n, NEW j \in k + 1 .. n
             PROVE  P[k] + buffer[k].size <= P[j]
  BY DEF P
<1>3. j - k \in S(k)
  <2>1. j - k \in Nat
    BY <1>0
  <2> QED
    BY <1>2, <2>1
<1> QED
  BY <1>0, <1>3

(* They are aligned, and lie one directly behind the other if their size is *)
(* a multiple of their alignment.                                           *)
LEMMA RunPlaced ==
  ASSUME NEW buffer, NEW n, IsBuffer(buffer, n), NEW m, NEW v, NEW it, Run(buffer, n, m, v, it),
         it.size \in Nat, it.align \in Nat \ {0}, Multiple(it.size, it.align)
  PROVE  /\ Multiple(Placement(buffer)[m + 1], it.align)
         /\ \A k \in 1 .. v :
              Placement(buffer)[m + k] = Placement(buffer)[m + 1] + (k - 1) * it.size
<1> DEFINE P == Placement(buffer)
           s == it.size
           a == it.align
           S == {d \in Nat : d + 1 <= v =>
                   P[m + 1 + d] = P[m + 1] + d * s /\ Multiple(P[m + 1 + d], a)}
<1>0. /\ n \in Nat /\ m \in Nat /\ v \in Nat /\ m + v <= n
      /\ \A k \in 1 .. n : P[k] \in Nat
      /\ \A k \in 1 .. n : P[k] = PlacedAt(buffer, P, k)
      /\ \A k \in 1 .. n : buffer[k].size \in Nat
  BY PlacementIs DEF IsBuffer, Run
<1>1. \A k \in 1 .. v : buffer[m + k].size = s /\ buffer[m + k].align = a
  <2> SUFFICES ASSUME NEW k \in 1 .. v PROVE buffer[m + k].size = s /\ buffer[m + k].align = a
    OBVIOUS
  <2>1. buffer[m + k] = [line |-> it.line, nth |-> k, size |-> s, align |-> a]
    BY DEF Run
  <2> QED
    BY <2>1
<1> HIDE DEF P
<1>t. s \in Nat /\ a \in Nat \ {0} /\ Multiple(s, a)
  OBVIOUS
<1> HIDE DEF s, a
<1>2. 0 \in S
  <2> SUFFICES ASSUME 1 <= v PROVE P[m + 1] = P[m + 1] + 0 * s /\ Multiple(P[m + 1], a)
    BY <1>0
  <2>1. m + 1 \in 1 .. n /\ 1 \in 1 .. v
    BY <1>0
  <2>2. P[m + 1] \in Nat /\ 0 * s = 0
    BY <1>0, <1>t, <2>1
  <2>3. buffer[m + 1].align = a
    BY <1>1, <2>1
  <2>4. Multiple(P[m + 1], a)
    <3>1. CASE m = 0
      <4>1. P[m + 1] = 0
        BY <1>0, <2>1, <3>1 DEF PlacedAt
      <4>2. 0 = 0 * a
        BY <1>t
      <4> QED
        BY <4>1, <4>2 DEF Multiple
    <3>2. CASE m # 0
      <4>1. m \in 1 .. n /\ m + 1 # 1 /\ m + 1 - 1 = m
        BY <1>0, <3>2
      <4>2. P[m + 1] = AlignUp(P[m] + buffer[m].size, a)
        BY <1>0, <2>1, <2>3, <4>1 DEF PlacedAt
      <4>3. P[m] + buffer[m].size \in Nat
        BY <1>0, <4>1
      <4> QED
        BY <1>t, <4>2, <4>3, AlignIs
    <3> QED
      BY <3>1, <3>2
  <2> QED
    BY <2>2, <2>4
<1>3. ASSUME NEW d \in S PROVE d + 1 \in S
  <2> SUFFICES ASSUME d \in Nat, d + 2 <= v
               PROVE  P[m + 2 + d] = P[m + 1] + (d + 1) * s /\ Multiple(P[m + 2 + d], a)
    <3>1. m + 1 + (d + 1) = m + 2 + d /\ (d + 1) + 1 = d + 2
      BY <1>0
    <3> QED
      BY <3>1
  <2>1. /\ m + 1 + d \in 1 .. n /\ m + 2 + d \in 1 .. n /\ m + 1 \in 1 .. n
        /\ m + 2 + d # 1 /\ m + 2 + d - 1 = m + 1 + d
        /\ d + 1 \in 1 .. v /\ d + 2 \in 1 .. v
        /\ m + (d + 1) = m + 1 + d /\ m + (d + 2) = m + 2 + d
    BY <1>0
  <2>2. P[m + 1 + d] = P[m + 1] + d * s /\ Multiple(P[m + 1 + d], a)
    BY <1>0
  <2>3. buffer[m + 1 + d].size = s /\ buffer[m + 2 + d].align = a
    BY <1>1, <2>1
  <2>4. P[m + 2 + d] = AlignUp(P[m + 1 + d] + s, a)
    BY <1>0, <2>1, <2>3 DEF PlacedAt
  <2>5. Multiple(P[m + 1 + d] + s, a) /\ P[m + 1 + d] + s \in Nat
    BY <1>0, <1>t, <2>1, <2>2, MultipleSum
  <2>6. P[m + 2 + d] = P[m + 1 + d] + s
    BY <1>t, <2>4, <2>5, AlignMultiple
  <2>7. (d + 1) * s = d * s + s /\ d * s \in Nat
    BY <1>t
  <2>8. P[m + 1] \in Nat
    BY <1>0, <2>1
  <2> HIDE DEF S
  <2> QED
    BY <1>t, <2>2, <2>5, <2>6, <2>7, <2>8
<1> HIDE DEF S
<1>4. S = Nat
  <2>1. S \in SUBSET Nat
    BY DEF S
  <2> QED
    BY <1>2, <1>3, <2>1, NatSet
<1>5. \A k \in 1 .. v : P[m + k] = P[m + 1] + (k - 1) * s
  <2> SUFFICES ASSUME NEW k \in 1 .. v PROVE P[m + k] = P[m + 1] + (k - 1) * s
    OBVIOUS
  <2>1. k - 1 \in S /\ (k - 1) + 1 <= v /\ m + 1 + (k - 1) = m + k
    BY <1>0, <1>4
  <2> QED
    BY <2>1 DEF S
<1>6. Multiple(P[m + 1], a)
  <2>1. 0 \in S /\ 0 + 1 <= v /\ m + 1 + 0 = m + 1
    BY <1>0, <1>2 DEF Run
  <2> QED
    BY <2>1 DEF S
<1> QED
  BY <1>5, <1>6 DEF P, s, a

(* LoadProgram finds the value of a byte. *)
LEMMA ByteOfValue ==
  ASSUME NEW buffer, NEW n, IsBuffer(buffer, n), NEW k \in 1 .. n, NEW b \in 0 .. buffer[k].size - 1
  PROVE  LET a == DataStart + Placement(buffer)[k] + b
         IN  /\ a \in DOMAIN DataBytes(buffer)
             /\ DataBytes(buffer)[a] = [line |-> buffer[k].line, nth |-> buffer[k].nth, byte |-> b]
<1> DEFINE P == Placement(buffer)
           a == DataStart + P[k] + b
           A == UNION {DataStart + P[j] .. DataStart + P[j] + buffer[j].size - 1 :
                         j \in DOMAIN buffer}
           L(x) == {j \in DOMAIN buffer : DataStart + P[j] <= x}
           V(x) == [line |-> buffer[Max(L(x))].line, nth |-> buffer[Max(L(x))].nth,
                    byte |-> x - DataStart - P[Max(L(x))]]
<1>0. /\ n \in Nat /\ DOMAIN buffer = 1 .. n /\ DataStart \in Nat
      /\ \A j \in 1 .. n : P[j] \in Nat /\ buffer[j].size \in Nat
  BY PlacementIs, AssemblerAssumption DEF IsBuffer
<1>1. \A j \in k + 1 .. n : P[k] + buffer[k].size <= P[j]
  BY PlacedApart
<1>2. DataBytes(buffer) = [x \in A |-> V(x)]
  BY DEF DataBytes
<1> HIDE DEF P
<1>3. a \in DataStart + P[k] .. DataStart + P[k] + buffer[k].size - 1
  BY <1>0
<1>4. a \in A
  BY <1>0, <1>3
<1>5. Max(L(a)) = k
  <2>1. L(a) \in SUBSET Int /\ k \in L(a)
    BY <1>0
  <2>2. ASSUME NEW j \in L(a) PROVE k >= j
    <3>1. j \in 1 .. n /\ DataStart + P[j] <= a /\ P[j] \in Nat
      BY <1>0
    <3>2. j \notin k + 1 .. n
      BY <1>0, <1>1, <3>1
    <3> QED
      BY <1>0, <3>1, <3>2
  <2> HIDE DEF L, a
  <2> QED
    BY <2>1, <2>2, MaxIs
<1>6. a - DataStart - P[k] = b
  BY <1>0
<1> HIDE DEF A, a, L
<1>7. V(a) = [line |-> buffer[k].line, nth |-> buffer[k].nth, byte |-> b]
  BY <1>5, <1>6
<1> HIDE DEF V
<1>8. a \in DOMAIN DataBytes(buffer) /\ DataBytes(buffer)[a] = V(a)
  BY <1>2, <1>4
<1> QED
  BY <1>7, <1>8 DEF a, P

(* The bytes of a directive's values. *)
LEMMA BytesOfRun ==
  ASSUME NEW buffer, NEW n, IsBuffer(buffer, n), NEW m, NEW v, NEW it, Run(buffer, n, m, v, it),
         it.size \in Nat, it.align \in Nat \ {0}, Multiple(it.size, it.align),
         NEW k \in 1 .. v, NEW b \in 0 .. it.size - 1
  PROVE  LET a == DataStart + Placement(buffer)[m + 1] + (k - 1) * it.size + b
         IN  /\ a \in DOMAIN DataBytes(buffer)
             /\ DataBytes(buffer)[a] = [line |-> it.line, nth |-> k, byte |-> b]
<1> DEFINE P == Placement(buffer)
<1>0. n \in Nat /\ m \in Nat /\ v \in Nat /\ m + v <= n /\ DataStart \in Nat
      /\ \A j \in 1 .. n : P[j] \in Nat
  BY PlacementIs, AssemblerAssumption DEF IsBuffer, Run
<1>1. m + k \in 1 .. n /\ m + 1 \in 1 .. n
  BY <1>0
<1>2. buffer[m + k] = [line |-> it.line, nth |-> k, size |-> it.size, align |-> it.align]
  BY DEF Run
<1>3. buffer[m + k].size = it.size /\ buffer[m + k].line = it.line /\ buffer[m + k].nth = k
  BY <1>2
<1>4. P[m + k] = P[m + 1] + (k - 1) * it.size
  BY RunPlaced
<1>5. (k - 1) * it.size \in Nat
  <2>1. k - 1 \in Nat
    BY <1>0
  <2> QED
    BY <2>1
<1> DEFINE j == m + k
           y == DataStart + P[j] + b
<1>6. /\ y \in DOMAIN DataBytes(buffer)
      /\ DataBytes(buffer)[y] = [line |-> buffer[j].line, nth |-> buffer[j].nth, byte |-> b]
  <2>1. j \in 1 .. n /\ b \in 0 .. buffer[j].size - 1
    BY <1>1, <1>3
  <2> HIDE DEF j
  <2> QED
    BY <2>1, ByteOfValue
<1> DEFINE q == (k - 1) * it.size
<1> HIDE DEF P, q
<1>7. y = DataStart + P[m + 1] + q + b
  <2>1. P[m + k] = P[m + 1] + q /\ q \in Nat /\ P[m + 1] \in Nat
    BY <1>0, <1>1, <1>4, <1>5 DEF q
  <2> QED
    BY <1>0, <2>1
<1> HIDE DEF y
<1> QED
  BY <1>3, <1>6, <1>7 DEF P, q

(* Values that follow others do not move them. *)
LEMMA PlacementGrows ==
  ASSUME NEW b, NEW n, IsBuffer(b, n), NEW c, NEW p, IsBuffer(c, p), n <= p,
         \A k \in 1 .. n : c[k] = b[k]
  PROVE  \A k \in 1 .. n : Placement(c)[k] = Placement(b)[k]
<1> DEFINE P == Placement(b)
           Q == Placement(c)
           S == {k \in Nat : k \in 1 .. n => Q[k] = P[k]}
<1>0. /\ n \in Nat /\ p \in Nat
      /\ \A k \in 1 .. n : P[k] = PlacedAt(b, P, k)
      /\ \A k \in 1 .. p : Q[k] = PlacedAt(c, Q, k)
  BY PlacementIs DEF IsBuffer
<1> HIDE DEF P, Q
<1>1. 0 \in S
  OBVIOUS
<1>2. ASSUME NEW k \in S PROVE k + 1 \in S
  <2> SUFFICES ASSUME k \in Nat, k + 1 \in 1 .. n PROVE Q[k + 1] = P[k + 1]
    OBVIOUS
  <2>1. k + 1 \in 1 .. p /\ c[k + 1] = b[k + 1]
    BY <1>0
  <2>2. Q[k + 1] = PlacedAt(c, Q, k + 1) /\ P[k + 1] = PlacedAt(b, P, k + 1)
    BY <1>0, <2>1
  <2>3. CASE k = 0
    <3>1. k + 1 = 1
      BY <2>3
    <3> QED
      BY <2>2, <3>1 DEF PlacedAt
  <2>4. CASE k # 0
    <3>1. k \in 1 .. n /\ k + 1 - 1 = k /\ k + 1 # 1
      BY <1>0, <2>4
    <3>2. Q[k] = P[k] /\ c[k] = b[k]
      BY <3>1
    <3> QED
      BY <2>1, <2>2, <3>1, <3>2 DEF PlacedAt
  <2> QED
    BY <2>3, <2>4
<1> HIDE DEF S
<1>3. S = Nat
  <2>1. S \in SUBSET Nat
    BY DEF S
  <2> QED
    BY <1>1, <1>2, <2>1, NatSet
<1> SUFFICES ASSUME NEW k \in 1 .. n PROVE Q[k] = P[k]
  BY DEF P, Q
<1>4. k \in S
  BY <1>3
<1> QED
  BY <1>4 DEF S

(* The end of a buffer is a number. *)
LEMMA EndNat ==
  ASSUME NEW b, NEW n, IsBuffer(b, n)
  PROVE  EndOf(b, n) \in Nat
<1>1. n \in Nat /\ \A k \in 1 .. n : Placement(b)[k] \in Nat /\ b[k].size \in Nat
  BY PlacementIs DEF IsBuffer
<1> QED
  BY <1>1 DEF EndOf

(* Values behind the end of a buffer begin there, aligned, and end behind   *)
(* as many bytes as they have.                                              *)
LEMMA RunAtEnd ==
  ASSUME NEW b, NEW n, IsBuffer(b, n), NEW c, NEW v, IsBuffer(c, n + v),
         \A k \in 1 .. n : c[k] = b[k],
         NEW it, Run(c, n + v, n, v, it),
         it.size \in Nat, it.align \in Nat \ {0}, Multiple(it.size, it.align)
  PROVE  /\ Placement(c)[n + 1] = AlignUp(EndOf(b, n), it.align)
         /\ EndOf(c, n + v) = AlignUp(EndOf(b, n), it.align) + v * it.size
<1> DEFINE P == Placement(b)
           Q == Placement(c)
           A == AlignUp(EndOf(b, n), it.align)
<1>0. /\ n \in Nat /\ v \in Nat \ {0} /\ n + v \in Nat /\ n <= n + v
      /\ \A k \in 1 .. n : P[k] \in Nat /\ b[k].size \in Nat
      /\ \A k \in 1 .. n + v : Q[k] \in Nat /\ Q[k] = PlacedAt(c, Q, k)
      /\ EndOf(b, n) \in Nat
  <2>1. n \in Nat /\ v \in Nat \ {0}
    BY DEF IsBuffer, Run
  <2>2. \A k \in 1 .. n : P[k] \in Nat /\ b[k].size \in Nat
    BY PlacementIs DEF IsBuffer
  <2>3. \A k \in 1 .. n + v : Q[k] \in Nat /\ Q[k] = PlacedAt(c, Q, k)
    BY PlacementIs
  <2> HIDE DEF P, Q
  <2> QED
    BY <2>1, <2>2, <2>3, EndNat
<1>1. c[n + 1] = [line |-> it.line, nth |-> 1, size |-> it.size, align |-> it.align]
      /\ c[n + v] = [line |-> it.line, nth |-> v, size |-> it.size, align |-> it.align]
  <2>1. 1 \in 1 .. v /\ v \in 1 .. v
    BY <1>0
  <2> QED
    BY <2>1 DEF Run
<1>2. Q[n + 1] = A
  <2>1. n + 1 \in 1 .. n + v
    BY <1>0
  <2>2. CASE n = 0
    <3>1. Q[n + 1] = 0 /\ EndOf(b, n) = 0
      BY <1>0, <2>1, <2>2 DEF PlacedAt, EndOf
    <3> QED
      BY <3>1, AlignZero
  <2>3. CASE n # 0
    <3>1. n \in 1 .. n /\ n + 1 # 1 /\ n + 1 - 1 = n
      BY <1>0, <2>3
    <3>2. Q[n] = P[n] /\ c[n] = b[n]
      BY <1>0, <3>1, PlacementGrows
    <3>3. Q[n + 1] = AlignUp(Q[n] + c[n].size, c[n + 1].align)
      BY <1>0, <2>1, <3>1 DEF PlacedAt
    <3>4. EndOf(b, n) = P[n] + b[n].size
      BY <2>3 DEF EndOf
    <3>5. c[n + 1].align = it.align
      BY <1>1
    <3> QED
      BY <3>2, <3>3, <3>4, <3>5
  <2> QED
    BY <2>2, <2>3
<1>3. Q[n + v] = Q[n + 1] + (v - 1) * it.size
  <2>1. v \in 1 .. v
    BY <1>0
  <2> QED
    BY <2>1, RunPlaced
<1>4. EndOf(c, n + v) = Q[n + v] + it.size
  <2>1. n + v # 0
    BY <1>0
  <2>2. c[n + v].size = it.size
    BY <1>1
  <2> QED
    BY <2>1, <2>2 DEF EndOf
<1>5. v * it.size = (v - 1) * it.size + it.size /\ (v - 1) * it.size \in Nat
  <2>1. v - 1 \in Nat /\ v = (v - 1) + 1
    BY <1>0
  <2> QED
    BY <2>1
<1>6. A \in Nat
  BY <1>0, AlignNat
<1> HIDE DEF Q, A
<1> QED
  <2> DEFINE q == (v - 1) * it.size
             r == v * it.size
  <2> HIDE DEF q, r
  <2>1. r = q + it.size /\ q \in Nat /\ EndOf(c, n + v) = Q[n + v] + it.size
        /\ Q[n + v] = Q[n + 1] + q /\ Q[n + 1] = A
    BY <1>2, <1>3, <1>4, <1>5 DEF q, r
  <2>2. EndOf(c, n + v) = A + r
    BY <1>6, <2>1
  <2> QED
    BY <1>2, <2>2 DEF A, r, Q


(* The first pass has met item i. *)
Met(i) == i \in 1 .. Len(source) /\ (phase = "first" => i < pos_)

(* The next item is the directive of the label i. *)
AtLabel(i) == phase = "first" /\ pos_ = i + 1

IsDataLabel(src, i) == src[i].kind = "label" /\ Under(src, i) = "data"

(* No labelled directive before item j was empty: for such a one the parser *)
(* aligns and LoadProgram does not.                                         *)
Firm(src, j) ==
  \A i \in 1 .. j - 1 : IsDataLabel(src, i) /\ src[i + 1].align > 1 => src[i + 1].values > 0

Parsing == phase # "idle" /\ errors_ = {}

(* The parser starts with nothing. *)
Fresh == phase = "idle" => errors_ = {} /\ data_index_ = 0 /\ data_buffer_ = <<>>

(* What the first pass skips is not data. *)
Skipped ==
  phase = "first" /\ loop # "data" /\ ~AtEnd =>
    \/ Item.kind = "section"
    \/ Under(source, pos_) # "data"
    \/ Item.kind = "label" /\ Item.name \in SectionNames

(* A directive follows each data label, which is in the symbol table. *)
Followed ==
  Parsing =>
    \A j \in 1 .. Len(source) : Met(j) /\ IsDataLabel(source, j) =>
      /\ j < Len(source) /\ source[j + 1].kind = "data"
      /\ AtLabel(j) => loop = "data"
      /\ source[j].name \in DOMAIN symbol_table_

(* The parser counts as LoadProgram will. *)
BufferEnd == EndOf(data_buffer_, Len(data_buffer_))

Counted ==
  phase = "first" /\ errors_ = {} /\ Firm(source, pos_) =>
    data_index_ = IF pos_ > 1 /\ IsDataLabel(source, pos_ - 1)
                  THEN AlignUp(BufferEnd, Item.align)
                  ELSE BufferEnd

(* The last definition of a label met so far has its address in the table,  *)
(* and the values behind it are placed there.                               *)
Latest(j) ==
  /\ IsDataLabel(source, j)
  /\ \A i \in j + 1 .. Len(source) :
       Met(i) /\ IsDataLabel(source, i) => source[i].name # source[j].name

AddressOf(j) == symbol_table_[source[j].name].address

Stored(j) ==
  \E m \in Nat :
    /\ Run(data_buffer_, Len(data_buffer_), m, source[j + 1].values, source[j + 1])
    /\ Placement(data_buffer_)[m + 1] = AddressOf(j)

Addressed ==
  Parsing =>
    \A j \in 1 .. Len(source) :
      Met(j) /\ Latest(j) /\ Firm(source, j) /\ source[j + 1].values > 0 =>
        /\ AtLabel(j) => AddressOf(j) = AlignUp(BufferEnd, source[j + 1].align)
        /\ ~AtLabel(j) => Stored(j)

DataInv == Fresh /\ Skipped /\ Followed /\ Counted /\ Addressed

(* A file has regular values. *)
LEMMA RegularData ==
  ASSUME DataAligned, PInv, NEW j \in 1 .. Len(source), source[j].kind = "data"
  PROVE  /\ source[j].size \in Nat /\ source[j].align \in Nat \ {0} /\ source[j].values \in Nat
         /\ Multiple(source[j].size, source[j].align)
         /\ DataStart % source[j].align = 0
<1>1. source \in Sources /\ j \in DOMAIN source
  <2>1. source # <<>>
    BY EmptyLen
  <2> QED
    BY <2>1, SourceLen DEF PInv, Typed
<1>2. source[j].size \in Nat /\ source[j].align \in Nat \ {0} /\ source[j].values \in Nat
  BY <1>1, SourceTyped
<1>3. source[j].size % source[j].align = 0 /\ DataStart % source[j].align = 0
  BY <1>1 DEF DataAligned
<1> QED
  BY <1>2, <1>3, RemainderOf

(* Every step but those of the data loop keeps the parser from data. *)
LEMMA StepSkipped ==
  ASSUME NoTextLabel, PInv, Places, Skipped, [Next]_vars
  PROVE  Skipped'
<1>0. pos_ \in Nat \ {0} /\ Len(source) \in Nat
  BY SourceLen
<1>n. /\ Item.kind = "section" => Under(source, pos_ + 1) = Item.name
      /\ Item.kind # "section" => Under(source, pos_ + 1) = Under(source, pos_)
  BY <1>0, UnderNext DEF Item
<1>h. UNCHANGED <<source, pos_>> => UNCHANGED <<AtEnd, Item>>
  BY DEF AtEnd, Item
<1>1. CASE FirstTop
  <2>1. phase = "first" /\ loop = "top" /\ ~AtEnd /\ phase' = "first" /\ UNCHANGED source
    BY <1>1 DEF FirstTop
  <2>2. \/ loop' = "data"
        \/ pos_' = pos_ + 1 /\ Item.kind = "section" /\ Item.name = "bss"
        \/ pos_' = pos_ /\ loop' = "skip"
        \/ pos_' = pos_ + 1 /\ Item.kind = "data"
    BY <1>1 DEF FirstTop, Advance, Goto
  <2>3. Item.kind = "data" => Under(source, pos_) # "data"
    BY <2>1 DEF Skipped
  <2>4. CASE pos_' = pos_ /\ loop' = "skip"
    BY <1>h, <2>1, <2>4 DEF Skipped
  <2> QED
    BY <1>n, <2>1, <2>2, <2>3, <2>4 DEF Skipped
<1>2. CASE FirstSkip
  <2>1. phase = "first" /\ loop \in {"skip", "bss"} /\ phase' = "first" /\ UNCHANGED source
    BY <1>2 DEF FirstSkip
  <2>2. \/ pos_' = pos_ /\ loop' = "top"
        \/ /\ ~AtEnd /\ pos_' = pos_ + 1 /\ loop' = loop
           /\ ~Reads(IF loop = "skip" THEN SectionNames \ {"text"} ELSE SectionNames)
    BY <1>2 DEF FirstSkip, Advance, Goto
  <2>3. CASE pos_' = pos_ /\ loop' = "top"
    BY <1>h, <2>1, <2>3 DEF Skipped
  <2>4. CASE /\ ~AtEnd /\ pos_' = pos_ + 1 /\ loop' = loop
             /\ ~Reads(IF loop = "skip" THEN SectionNames \ {"text"} ELSE SectionNames)
    <3>1. PICK j \in 1 .. Len(source) : j = pos_ /\ Item = source[j]
      BY <2>4, AtItem
    <3>2. Item \in Items /\ (Item.kind = "label" => Item.name # "text")
      <4>1. source \in Sources
        <5>1. source # <<>>
          BY <1>0, <3>1, EmptyLen
        <5> QED
          BY <5>1 DEF PInv, Typed
      <4> QED
        BY <3>1, <4>1, SourceLen DEF NoTextLabel
    <3>3. Item.kind = "section" => Item.name = "text"
      <4>1. Item.kind = "section" => Item.name \in {"text", "data", "bss"}
        BY <3>2 DEF Items
      <4> QED
        BY <2>1, <2>4, <4>1 DEF Reads, Named, SectionNames
    <3>4. ~(Item.kind = "label" /\ Item.name \in SectionNames)
      BY <2>1, <2>4, <3>2 DEF Reads, Named, SectionNames
    <3>5. Item.kind = "section" \/ Under(source, pos_) # "data"
      BY <2>1, <2>4, <3>4 DEF Skipped
    <3> QED
      BY <1>n, <2>1, <2>4, <3>3, <3>5 DEF Skipped
  <2> QED
    BY <2>2, <2>3, <2>4
<1>3. CASE DataEnd
  <2>1. /\ AtEnd \/ (Item.kind \in {"section", "label"} /\ Item.name \in SectionNames)
        /\ UNCHANGED <<source, pos_>>
    BY <1>3 DEF DataEnd, Reads, Named, Goto
  <2> QED
    BY <1>h, <2>1 DEF Skipped
<1>4. CASE DataLabel \/ DataDirective \/ DataOther
  BY <1>4 DEF DataLabel, DataDirective, DataOther, Skipped
<1>5. CASE FirstEnd \/ SecondEnd \/ BackPatch \/ LoadProgram \/ Reject \/ SecondTop \/ SecondSkip
           \/ TextEnd \/ TextLabel \/ Transfer \/ LoadAddress \/ Plain
  <2>1. phase' # "first"
    BY <1>5 DEF FirstEnd, SecondEnd, BackPatch, LoadProgram, Reject, EmptyParser, SecondTop,
      SecondSkip, TextEnd, TextLabel, InText, Transfer, LoadAddress, Plain
  <2> QED
    BY <2>1 DEF Skipped
<1>6. CASE \E file \in Sources : Load(file)
  <2>1. pos_' = 1
    BY <1>6 DEF Load, Places
  <2>2. Under(source', 1) = "text"
    BY UnderFirst
  <2> QED
    BY <2>1, <2>2 DEF Skipped
<1>7. CASE \/ \E line \in DOMAIN program_.lines : AddBreakpoint(line) \/ RemoveBreakpoint(line)
           \/ UNCHANGED vars
  <2>1. UNCHANGED <<source, phase, loop, pos_>>
    BY <1>7 DEF AddBreakpoint, RemoveBreakpoint, vars, parser
  <2> QED
    BY <1>h, <2>1 DEF Skipped
<1> QED
  BY <1>1, <1>2, <1>3, <1>4, <1>5, <1>6, <1>7 DEF Next, Parse

(* A step that neither meets a data label nor reads the directive of one. *)
Calm ==
  /\ Parsing
  /\ UNCHANGED <<source, data_buffer_>>
  /\ \A n \in DOMAIN symbol_table_ :
       n \in DOMAIN symbol_table_' /\ symbol_table_'[n] = symbol_table_[n]
  /\ \A j \in 1 .. Len(source) : IsDataLabel(source, j) =>
       /\ Met(j)' <=> Met(j)
       /\ ~AtLabel(j) /\ ~AtLabel(j)'
  /\ phase' = "first" =>
       phase = "first" /\ UNCHANGED data_index_ /\ (pos_' = pos_ \/ pos_' = pos_ + 1)

Begins ==
  /\ phase' = "first" /\ pos_' = 1
  /\ data_index_' = 0 /\ data_buffer_' = <<>>

Still == UNCHANGED <<source, phase, loop, pos_, data_index_, data_buffer_, symbol_table_, errors_>>

(* The label before the next item. *)
LEMMA AtLabelIs ==
  ASSUME PInv, Places, Followed, Parsing, phase = "first",
         NEW j \in 1 .. Len(source), IsDataLabel(source, j), AtLabel(j)
  PROVE  loop = "data" /\ ~AtEnd /\ Item.kind = "data" /\ Item = source[j + 1] /\ pos_ = j + 1
<1>0. pos_ \in Nat \ {0} /\ Len(source) \in Nat
  BY SourceLen
<1>1. pos_ = j + 1 /\ Met(j)
  BY <1>0 DEF AtLabel, Met
<1>2. j < Len(source) /\ source[j + 1].kind = "data" /\ loop = "data"
  BY <1>1 DEF Followed
<1> QED
  BY <1>0, <1>1, <1>2 DEF AtEnd, Item

(* The steps of the first pass that leave the labels alone. *)
LEMMA FirstCalm ==
  ASSUME NoTextLabel, PInv, Places, Sections, Skipped, Followed, errors_' = {},
         FirstTop \/ FirstSkip \/ DataEnd \/ DataOther
  PROVE  Calm
<1>0. pos_ \in Nat \ {0} /\ Len(source) \in Nat
  BY SourceLen
<1>1. /\ phase = "first" /\ phase' = "first" /\ errors_ \subseteq errors_'
      /\ UNCHANGED <<source, data_index_, data_buffer_, symbol_table_>>
      /\ pos_' = pos_ \/ (pos_' = pos_ + 1 /\ ~AtEnd)
  BY DEF FirstTop, FirstSkip, DataEnd, DataOther, Advance, Goto, Error, NoError
<1>2. Parsing
  BY <1>1 DEF Parsing
<1>3. ASSUME pos_' = pos_ + 1 PROVE ~IsDataLabel(source, pos_)
  <2>1. CASE FirstTop
    <3>1. Item.kind # "label"
      BY <1>0, <1>3, <2>1 DEF FirstTop, Advance, Goto
    <3> QED
      BY <3>1 DEF IsDataLabel, Item
  <2>2. CASE FirstSkip
    <3> SUFFICES ASSUME IsDataLabel(source, pos_) PROVE FALSE
      OBVIOUS
    <3>1. PICK j \in 1 .. Len(source) : j = pos_ /\ Item = source[j]
      BY <1>0, <1>1, <1>3, AtItem
    <3>2. Item.kind = "label" /\ Under(source, pos_) = "data"
      BY DEF IsDataLabel, Item
    <3>3. Item.name # "text"
      <4>1. source \in Sources
        <5>1. source # <<>>
          BY <1>0, <3>1, EmptyLen
        <5> QED
          BY <5>1 DEF PInv, Typed
      <4> QED
        BY <3>1, <3>2, <4>1, SourceLen DEF NoTextLabel
    <3>4. /\ loop \in {"skip", "bss"} /\ ~AtEnd
          /\ ~Reads(IF loop = "skip" THEN SectionNames \ {"text"} ELSE SectionNames)
      BY <1>0, <1>1, <1>3, <2>2 DEF FirstSkip, Goto
    <3>5. Item.name \in SectionNames
      BY <1>1, <3>2, <3>4 DEF Skipped
    <3> QED
      BY <3>2, <3>3, <3>4, <3>5 DEF Reads, Named, SectionNames
  <2>3. CASE DataEnd
    BY <1>0, <1>3, <2>3 DEF DataEnd, Goto
  <2>4. CASE DataOther
    BY <2>4 DEF DataOther, IsInstruction, IsDataLabel, Item
  <2> QED
    BY <2>1, <2>2, <2>3, <2>4
<1>4. ASSUME NEW j \in 1 .. Len(source), IsDataLabel(source, j) PROVE ~AtLabel(j)
  <2> SUFFICES ASSUME AtLabel(j) PROVE FALSE
    OBVIOUS
  <2>1. loop = "data" /\ ~AtEnd /\ Item.kind = "data"
    BY <1>1, <1>2, <1>4, AtLabelIs
  <2> QED
    BY <2>1 DEF FirstTop, FirstSkip, DataEnd, DataOther, Reads, Named, IsInstruction
<1>5. ASSUME NEW j \in 1 .. Len(source), IsDataLabel(source, j)
      PROVE  (Met(j)' <=> Met(j)) /\ ~AtLabel(j)'
  <2>1. CASE pos_' = pos_
    BY <1>1, <1>4, <1>5, <2>1 DEF Met, AtLabel
  <2>2. CASE pos_' = pos_ + 1
    <3>1. j # pos_
      BY <1>3, <1>5, <2>2
    <3> QED
      BY <1>0, <1>1, <2>2, <3>1 DEF Met, AtLabel
  <2> QED
    BY <1>1, <2>1, <2>2
<1>6. UNCHANGED data_index_ /\ phase = "first" /\ (pos_' = pos_ \/ pos_' = pos_ + 1)
  BY <1>1
<1> QED
  BY <1>1, <1>2, <1>4, <1>5, <1>6 DEF Calm

(* The end of the first pass. *)
LEMMA EndCalm ==
  ASSUME PInv, Places, Followed, errors_' = {}, FirstEnd
  PROVE  Calm
<1>0. pos_ \in Nat \ {0} /\ Len(source) \in Nat
  BY SourceLen
<1>1. /\ phase = "first" /\ phase' = "second" /\ AtEnd
      /\ UNCHANGED <<source, data_index_, data_buffer_, symbol_table_, errors_>>
  BY DEF FirstEnd
<1>2. Parsing
  BY <1>1 DEF Parsing
<1>3. ASSUME NEW j \in 1 .. Len(source), IsDataLabel(source, j) PROVE ~AtLabel(j)
  BY <1>1, <1>2, <1>3, AtLabelIs
<1>4. \A j \in 1 .. Len(source) : Met(j) /\ Met(j)'
  BY <1>0, <1>1 DEF Met, AtEnd
<1> QED
  BY <1>1, <1>2, <1>3, <1>4 DEF Calm, AtLabel

(* The second pass and the back-patching keep the symbols of the first. *)
LEMMA LaterCalm ==
  ASSUME errors_' = {},
         \/ SecondTop \/ SecondSkip \/ SecondEnd \/ TextEnd \/ TextLabel
         \/ Transfer \/ LoadAddress \/ Plain \/ BackPatch
  PROVE  Calm
<1>1. /\ phase \in {"second", "patch"} /\ phase' \in {"second", "patch"}
      /\ errors_ \subseteq errors_' /\ UNCHANGED <<source, data_buffer_>>
  BY DEF SecondTop, SecondSkip, SecondEnd, TextEnd, TextLabel, InText, Transfer, LoadAddress,
    Plain, BackPatch, Error, NoError
<1>2. \A n \in DOMAIN symbol_table_ :
        n \in DOMAIN symbol_table_' /\ symbol_table_'[n] = symbol_table_[n]
  <2>1. CASE UNCHANGED symbol_table_
    BY <2>1
  <2>2. CASE TextLabel /\ symbol_table_' # symbol_table_
    <3>1. /\ Item.name \notin DOMAIN symbol_table_
          /\ symbol_table_' = Bind(symbol_table_, Item.name,
                                   Symbol(4 * Len(intermediate_code_), Item.line, FALSE))
      BY <2>2 DEF TextLabel
    <3> DEFINE entry == Symbol(4 * Len(intermediate_code_), Item.line, FALSE)
    <3> HIDE DEF entry
    <3>2. symbol_table_' = Bind(symbol_table_, Item.name, entry)
      BY <3>1 DEF entry
    <3> QED
      BY <3>1, <3>2 DEF Bind
  <2> QED
    BY <2>1, <2>2 DEF SecondTop, SecondSkip, SecondEnd, TextEnd, Transfer, LoadAddress,
      Plain, BackPatch
<1>3. \A j \in 1 .. Len(source) : Met(j) /\ Met(j)' /\ ~AtLabel(j) /\ ~AtLabel(j)'
  BY <1>1 DEF Met, AtLabel
<1>4. Parsing
  BY <1>1 DEF Parsing
<1> QED
  BY <1>1, <1>2, <1>3, <1>4 DEF Calm

(* What happens in a file that has no error so far. *)
LEMMA ParseSteps ==
  ASSUME NoTextLabel, PInv, Places, Sections, Fresh, Skipped, Followed, [Next]_vars, Parsing'
  PROVE  Calm \/ Begins \/ DataLabel \/ DataDirective \/ (Parsing /\ Still)
<1>0. errors_' = {} /\ phase' # "idle"
  BY DEF Parsing
<1>1. CASE FirstTop \/ FirstSkip \/ DataEnd \/ DataOther
  BY <1>0, <1>1, FirstCalm
<1>2. CASE FirstEnd
  BY <1>0, <1>2, EndCalm
<1>3. CASE \/ SecondTop \/ SecondSkip \/ SecondEnd \/ TextEnd \/ TextLabel
           \/ Transfer \/ LoadAddress \/ Plain \/ BackPatch
  BY <1>0, <1>3, LaterCalm
<1>4. CASE LoadProgram \/ Reject
  BY <1>0, <1>4 DEF LoadProgram, Reject, EmptyParser
<1>5. CASE \E file \in Sources : Load(file)
  <2>1. phase = "idle" /\ phase' = "first" /\ UNCHANGED <<pos_, data_index_, data_buffer_>>
    BY <1>5 DEF Load
  <2> QED
    BY <2>1 DEF Places, Fresh, Begins
<1>6. CASE \/ \E line \in DOMAIN program_.lines : AddBreakpoint(line) \/ RemoveBreakpoint(line)
           \/ UNCHANGED vars
  <2>1. Still
    BY <1>6 DEF AddBreakpoint, RemoveBreakpoint, vars, parser, Still
  <2> QED
    BY <2>1 DEF Still, Parsing
<1> QED
  BY <1>1, <1>2, <1>3, <1>4, <1>5, <1>6 DEF Next, Parse

(* A label of the data loop. *)
LEMMA LabelMet ==
  ASSUME PInv, Places, Sections, Followed, errors_' = {}, DataLabel
  PROVE  /\ Parsing /\ phase = "first" /\ phase' = "first" /\ loop' = "data"
         /\ UNCHANGED <<source, data_buffer_>>
         /\ pos_' = pos_ + 1 /\ pos_ \in 1 .. Len(source) /\ pos_ < Len(source)
         /\ Item = source[pos_] /\ IsDataLabel(source, pos_)
         /\ source[pos_ + 1].kind = "data"
         /\ data_index_' = AlignUp(data_index_, source[pos_ + 1].align)
         /\ symbol_table_' = Bind(symbol_table_, Item.name, Symbol(data_index_', Item.line, TRUE))
         /\ \A j \in 1 .. Len(source) : IsDataLabel(source, j) => ~AtLabel(j)
<1>1. /\ phase = "first" /\ phase' = "first" /\ loop = "data" /\ loop' = "data" /\ ~AtEnd
      /\ UNCHANGED <<source, data_buffer_>> /\ pos_' = pos_ + 1 /\ Item.kind = "label"
      /\ errors_ \subseteq errors_'
      /\ symbol_table_' = Bind(symbol_table_, Item.name, Symbol(data_index_', Item.line, TRUE))
  BY DEF DataLabel, Advance, NoError, Error
<1>2. /\ pos_ < Len(source) /\ source[pos_ + 1].kind = "data"
      /\ data_index_' = AlignUp(data_index_, source[pos_ + 1].align)
  <2>1. \A ln : errors_' # errors_ \cup {ln}
    OBVIOUS
  <2> QED
    BY <2>1 DEF DataLabel, Error
<1>3. pos_ \in 1 .. Len(source) /\ Item = source[pos_]
  BY <1>1, AtItem
<1>4. IsDataLabel(source, pos_)
  BY <1>1, <1>3 DEF Sections, IsDataLabel
<1>5. Parsing
  BY <1>1 DEF Parsing
<1>6. \A j \in 1 .. Len(source) : IsDataLabel(source, j) => ~AtLabel(j)
  BY <1>1, <1>5, AtLabelIs
<1> QED
  BY <1>1, <1>2, <1>3, <1>4, <1>5, <1>6

(* A directive of the data loop. *)
LEMMA DirectiveMet ==
  ASSUME PInv, errors_' = {}, DataDirective
  PROVE  /\ Parsing /\ phase = "first" /\ phase' = "first"
         /\ UNCHANGED <<source, symbol_table_>>
         /\ pos_' = pos_ + 1 /\ pos_ \in 1 .. Len(source)
         /\ Item = source[pos_] /\ Item.kind = "data" /\ ~IsDataLabel(source, pos_)
         /\ data_index_' = IF Item.values = 0 THEN data_index_
                           ELSE AlignUp(data_index_, Item.align) + Item.values * Item.size
<1>1. /\ phase = "first" /\ phase' = "first" /\ ~AtEnd /\ errors_ = {}
      /\ UNCHANGED <<source, symbol_table_>> /\ pos_' = pos_ + 1 /\ Item.kind = "data"
      /\ data_index_' = IF Item.values = 0 THEN data_index_
                        ELSE AlignUp(data_index_, Item.align) + Item.values * Item.size
  BY DEF DataDirective, Advance
<1>2. pos_ \in 1 .. Len(source) /\ Item = source[pos_]
  BY <1>1, AtItem
<1> QED
  BY <1>1, <1>2 DEF IsDataLabel, Parsing

(* Every step keeps the directives behind their labels. *)
LEMMA StepFollowed ==
  ASSUME NoTextLabel, PInv, Places, Sections, Fresh, Skipped, Followed, [Next]_vars
  PROVE  Followed'
<1> SUFFICES ASSUME Parsing' PROVE Followed'
  BY DEF Followed
<1>0. pos_ \in Nat \ {0} /\ Len(source) \in Nat /\ errors_' = {}
  BY SourceLen DEF Parsing
<1>1. CASE Calm
  BY <1>1 DEF Calm, Followed, IsDataLabel
<1>2. CASE Begins
  BY <1>2 DEF Begins, Followed, Met
<1>3. CASE DataLabel
  <2>1. /\ Parsing /\ phase = "first" /\ phase' = "first" /\ loop' = "data" /\ UNCHANGED source
        /\ pos_' = pos_ + 1 /\ pos_ < Len(source) /\ source[pos_ + 1].kind = "data"
        /\ Item = source[pos_]
        /\ symbol_table_' = Bind(symbol_table_, Item.name, Symbol(data_index_', Item.line, TRUE))
    BY <1>0, <1>3, LabelMet
  <2>2. DOMAIN symbol_table_' = DOMAIN symbol_table_ \cup {Item.name}
    <3> DEFINE entry == Symbol(data_index_', Item.line, TRUE)
    <3>1. symbol_table_' = Bind(symbol_table_, Item.name, entry)
      BY <2>1
    <3> HIDE DEF entry
    <3> QED
      BY <3>1 DEF Bind
  <2>3. ASSUME NEW j \in 1 .. Len(source), Met(j)', IsDataLabel(source, j)
        PROVE  /\ j < Len(source) /\ source[j + 1].kind = "data"
               /\ source[j].name \in DOMAIN symbol_table_'
    <3>1. CASE j = pos_
      BY <2>1, <2>2, <3>1
    <3>2. CASE j # pos_
      <4>1. Met(j)
        BY <1>0, <2>1, <2>3, <3>2 DEF Met
      <4> QED
        BY <2>1, <2>2, <2>3, <4>1 DEF Followed
    <3> QED
      BY <3>1, <3>2
  <2> QED
    BY <2>1, <2>3 DEF Followed, IsDataLabel
<1>4. CASE DataDirective
  <2>1. /\ Parsing /\ phase = "first" /\ phase' = "first" /\ UNCHANGED <<source, symbol_table_>>
        /\ pos_' = pos_ + 1 /\ ~IsDataLabel(source, pos_)
    BY <1>0, <1>4, DirectiveMet
  <2>2. ASSUME NEW j \in 1 .. Len(source), Met(j)', IsDataLabel(source, j)
        PROVE  /\ j < Len(source) /\ source[j + 1].kind = "data" /\ ~AtLabel(j)'
               /\ source[j].name \in DOMAIN symbol_table_'
    <3>1. j # pos_
      BY <2>1, <2>2
    <3>2. Met(j) /\ ~AtLabel(j)'
      BY <1>0, <2>1, <2>2, <3>1 DEF Met, AtLabel
    <3> QED
      BY <2>1, <2>2, <3>2 DEF Followed
  <2> QED
    BY <2>1, <2>2 DEF Followed, IsDataLabel
<1>5. CASE Parsing /\ Still
  BY <1>5 DEF Still, Followed, Met, AtLabel, IsDataLabel, Parsing
<1> QED
  BY <1>1, <1>2, <1>3, <1>4, <1>5, ParseSteps

(* The parser is left as it is found. *)
LEMMA StepFresh ==
  ASSUME Fresh, [Next]_vars
  PROVE  Fresh'
<1>1. CASE LoadProgram \/ Reject
  BY <1>1 DEF LoadProgram, Reject, EmptyParser, Fresh
<1>2. CASE \/ FirstTop \/ FirstSkip \/ FirstEnd \/ DataEnd \/ DataLabel \/ DataDirective
           \/ DataOther \/ SecondTop \/ SecondSkip \/ SecondEnd \/ TextEnd \/ TextLabel
           \/ Transfer \/ LoadAddress \/ Plain \/ BackPatch
           \/ \E file \in Sources : Load(file)
  <2>1. phase' # "idle"
    BY <1>2 DEF FirstTop, FirstSkip, FirstEnd, DataEnd, DataLabel, DataDirective, DataOther,
      SecondTop, SecondSkip, SecondEnd, TextEnd, TextLabel, InText, Transfer, LoadAddress, Plain,
      BackPatch, Load
  <2> QED
    BY <2>1 DEF Fresh
<1>3. CASE \/ \E line \in DOMAIN program_.lines : AddBreakpoint(line) \/ RemoveBreakpoint(line)
           \/ UNCHANGED vars
  <2>1. Still
    BY <1>3 DEF AddBreakpoint, RemoveBreakpoint, vars, parser, Still
  <2> QED
    BY <2>1 DEF Still, Fresh
<1> QED
  BY <1>1, <1>2, <1>3 DEF Next, Parse

(* Fewer labels come before an earlier item. *)
LEMMA FirmBefore ==
  ASSUME NEW src, NEW i \in Nat, NEW j \in Nat, i <= j, Firm(src, j)
  PROVE  Firm(src, i)
BY DEF Firm

(* Every step keeps the parser counting as LoadProgram will. *)
LEMMA StepCounted ==
  ASSUME NoTextLabel, DataAligned, PInv, Places, SymbolsTyped, Buffered, Sections,
         Fresh, Skipped, Followed, Counted, [Next]_vars
  PROVE  Counted'
<1> SUFFICES ASSUME phase' = "first", errors_' = {}, Firm(source', pos_') PROVE Counted'
  BY DEF Counted
<1>0. /\ pos_ \in Nat \ {0} /\ Len(source) \in Nat /\ Parsing'
      /\ BufferEnd \in Nat /\ data_index_ \in Nat
  BY SourceLen, EndNat DEF Parsing, BufferEnd, Buffered, SymbolsTyped
<1>1. CASE Calm
  <2>1. /\ phase = "first" /\ Parsing /\ UNCHANGED <<source, data_buffer_, data_index_>>
        /\ pos_' = pos_ \/ pos_' = pos_ + 1
        /\ \A j \in 1 .. Len(source) : IsDataLabel(source, j) => ~AtLabel(j) /\ ~AtLabel(j)'
    BY <1>1 DEF Calm
  <2>2. Firm(source, pos_)
    BY <1>0, <2>1, FirmBefore
  <2>3. pos_ > 1 => ~IsDataLabel(source, pos_ - 1)
    <3> SUFFICES ASSUME pos_ > 1 PROVE ~IsDataLabel(source, pos_ - 1)
      OBVIOUS
    <3>1. pos_ - 1 \in 1 .. Len(source) /\ pos_ = (pos_ - 1) + 1
      BY <1>0 DEF Places
    <3> QED
      BY <2>1, <3>1 DEF AtLabel
  <2>4. pos_' > 1 => ~IsDataLabel(source, pos_' - 1)
    <3> SUFFICES ASSUME pos_' > 1 PROVE ~IsDataLabel(source, pos_' - 1)
      OBVIOUS
    <3>1. Places'
      BY StepPlaces
    <3>2. pos_' - 1 \in 1 .. Len(source) /\ pos_' = (pos_' - 1) + 1
      BY <1>0, <2>1, <3>1 DEF Places
    <3> QED
      BY <2>1, <3>2 DEF AtLabel
  <2>5. data_index_ = BufferEnd /\ BufferEnd' = BufferEnd
    BY <2>1, <2>2, <2>3 DEF Counted, Parsing, BufferEnd
  <2> QED
    BY <2>1, <2>4, <2>5 DEF Counted, IsDataLabel
<1>2. CASE Begins
  <2>1. pos_' = 1 /\ data_index_' = 0 /\ data_buffer_' = <<>>
    BY <1>2 DEF Begins
  <2>2. BufferEnd' = 0
    BY <2>1, EmptyLen DEF BufferEnd, EndOf
  <2> QED
    BY <2>1, <2>2 DEF Counted
<1>3. CASE DataLabel
  <2>1. /\ Parsing /\ phase = "first" /\ UNCHANGED <<source, data_buffer_>>
        /\ pos_' = pos_ + 1 /\ IsDataLabel(source, pos_) /\ source[pos_ + 1].kind = "data"
        /\ data_index_' = AlignUp(data_index_, source[pos_ + 1].align)
        /\ \A j \in 1 .. Len(source) : IsDataLabel(source, j) => ~AtLabel(j)
        /\ pos_ \in 1 .. Len(source)
    BY <1>0, <1>3, LabelMet
  <2>2. Firm(source, pos_)
    BY <1>0, <2>1, FirmBefore
  <2>3. pos_ > 1 => ~IsDataLabel(source, pos_ - 1)
    <3> SUFFICES ASSUME pos_ > 1 PROVE ~IsDataLabel(source, pos_ - 1)
      OBVIOUS
    <3>1. pos_ - 1 \in 1 .. Len(source) /\ pos_ = (pos_ - 1) + 1
      BY <1>0 DEF Places
    <3> QED
      BY <2>1, <3>1 DEF AtLabel
  <2>4. data_index_ = BufferEnd /\ BufferEnd' = BufferEnd
    BY <2>1, <2>2, <2>3 DEF Counted, Parsing, BufferEnd
  <2>5. pos_' > 1 /\ pos_' - 1 = pos_ /\ Item' = source[pos_ + 1]
    BY <1>0, <2>1 DEF Item
  <2> QED
    BY <2>1, <2>4, <2>5 DEF Counted, IsDataLabel
<1>4. CASE DataDirective
  <2>1. /\ Parsing /\ phase = "first" /\ UNCHANGED source
        /\ pos_' = pos_ + 1 /\ pos_ \in 1 .. Len(source)
        /\ Item = source[pos_] /\ Item.kind = "data" /\ ~IsDataLabel(source, pos_)
        /\ data_index_' = IF Item.values = 0 THEN data_index_
                          ELSE AlignUp(data_index_, Item.align) + Item.values * Item.size
    BY <1>0, <1>4, DirectiveMet
  <2> DEFINE n == Len(data_buffer_)
             v == Item.values
  <2>2. /\ n \in Nat /\ v \in Nat /\ Item.size \in Nat /\ Item.align \in Nat \ {0}
        /\ Len(data_buffer_') = n + v
        /\ IsBuffer(data_buffer_', n + v) /\ IsBuffer(data_buffer_, n)
        /\ \A k \in 1 .. n : data_buffer_'[k] = data_buffer_[k]
        /\ v > 0 => Run(data_buffer_', n + v, n, v, Item)
    BY <1>4, DirectiveValues DEF Buffered
  <2>3. Multiple(Item.size, Item.align)
    BY <2>1, RegularData
  <2>4. Firm(source, pos_)
    BY <1>0, <2>1, FirmBefore
  <2>5. data_index_ = IF pos_ > 1 /\ IsDataLabel(source, pos_ - 1)
                      THEN AlignUp(BufferEnd, Item.align)
                      ELSE BufferEnd
    BY <2>1, <2>4 DEF Counted, Parsing
  <2>6. ~(pos_' > 1 /\ IsDataLabel(source, pos_' - 1))
    <3>1. pos_' - 1 = pos_
      BY <1>0, <2>1
    <3> QED
      BY <2>1, <3>1
  <2>7. data_index_' = BufferEnd'
    <3>1. CASE v = 0
      <4>1. data_buffer_' = data_buffer_
        <5>1. [k \in 1 .. v |-> [line |-> Item.line, nth |-> k, size |-> Item.size,
                                 align |-> Item.align]] = <<>>
          BY <3>1
        <5>2. data_buffer_ \o <<>> = data_buffer_
          BY PatchList DEF Buffered
        <5> QED
          BY <1>4, <5>1, <5>2 DEF DataDirective
      <4>2. BufferEnd' = BufferEnd
        BY <4>1 DEF BufferEnd
      <4>3. data_index_' = data_index_
        BY <2>1, <3>1
      <4>4. CASE pos_ > 1 /\ IsDataLabel(source, pos_ - 1)
        <5>1. pos_ - 1 \in 1 .. pos_' - 1 /\ (pos_ - 1) + 1 = pos_
          BY <1>0, <2>1, <4>4
        <5>2. ~(Item.align > 1)
          BY <2>1, <3>1, <4>4, <5>1 DEF Firm
        <5>3. Item.align = 1
          BY <2>2, <5>2
        <5>4. AlignUp(BufferEnd, Item.align) = BufferEnd
          BY <1>0, <5>3, AlignOne
        <5> QED
          BY <2>5, <4>2, <4>3, <4>4, <5>4
      <4>5. CASE ~(pos_ > 1 /\ IsDataLabel(source, pos_ - 1))
        BY <2>5, <4>2, <4>3, <4>5
      <4> QED
        BY <4>4, <4>5
    <3>2. CASE v > 0
      <4>1. AlignUp(data_index_, Item.align) = AlignUp(BufferEnd, Item.align)
        BY <1>0, <2>2, <2>5, AlignTwice
      <4>2. data_index_' = AlignUp(BufferEnd, Item.align) + v * Item.size
        BY <2>1, <3>2, <4>1
      <4> DEFINE b == data_buffer_
                 c == data_buffer_'
                 it == Item
      <4>3. /\ IsBuffer(b, n) /\ IsBuffer(c, n + v) /\ \A k \in 1 .. n : c[k] = b[k]
            /\ Run(c, n + v, n, v, it)
            /\ it.size \in Nat /\ it.align \in Nat \ {0} /\ Multiple(it.size, it.align)
        BY <2>2, <2>3, <3>2
      <4>4. EndOf(c, n + v) = AlignUp(EndOf(b, n), it.align) + v * it.size
        <5> HIDE DEF b, c, it, n, v
        <5> QED
          BY <4>3, RunAtEnd
      <4>5. BufferEnd = EndOf(b, n) /\ BufferEnd' = EndOf(c, n + v)
        BY <2>2 DEF BufferEnd
      <4> QED
        BY <4>2, <4>4, <4>5
    <3> QED
      BY <2>2, <3>1, <3>2
  <2> QED
    BY <2>1, <2>6, <2>7 DEF Counted, IsDataLabel
<1>5. CASE Parsing /\ Still
  <2>1. UNCHANGED <<source, phase, pos_, data_index_, data_buffer_, errors_>>
    BY <1>5 DEF Still
  <2>2. BufferEnd' = BufferEnd /\ Item' = Item
    BY <2>1 DEF BufferEnd, Item
  <2> QED
    BY <2>1, <2>2 DEF Counted, IsDataLabel
<1> QED
  BY <1>0, <1>1, <1>2, <1>3, <1>4, <1>5, ParseSteps

(* Values that are placed stay so when others follow. *)
LEMMA StaysStored ==
  ASSUME Buffered, NEW n, n = Len(data_buffer_), NEW v \in Nat,
         IsBuffer(data_buffer_', n + v), Len(data_buffer_') = n + v,
         \A k \in 1 .. n : data_buffer_'[k] = data_buffer_[k],
         NEW j, source'[j + 1] = source[j + 1], AddressOf(j)' = AddressOf(j), Stored(j)
  PROVE  Stored(j)'
<1>0. n \in Nat /\ IsBuffer(data_buffer_, n)
  BY DEF Buffered, IsBuffer
<1>1. PICK m \in Nat :
        /\ Run(data_buffer_, n, m, source[j + 1].values, source[j + 1])
        /\ Placement(data_buffer_)[m + 1] = AddressOf(j)
  BY DEF Stored
<1>2. m + source[j + 1].values <= n /\ source[j + 1].values \in Nat \ {0}
  BY <1>1 DEF Run
<1>3. Run(data_buffer_', n + v, m, source[j + 1].values, source[j + 1])
  <2>1. \A k \in 1 .. source[j + 1].values : m + k \in 1 .. n
    BY <1>0, <1>2
  <2>2. m + source[j + 1].values <= n + v
    BY <1>0, <1>2
  <2> QED
    BY <1>1, <2>1, <2>2 DEF Run
<1>4. Placement(data_buffer_')[m + 1] = Placement(data_buffer_)[m + 1]
  <2>1. m + 1 \in 1 .. n /\ n <= n + v
    BY <1>0, <1>2
  <2> DEFINE b == data_buffer_
             c == data_buffer_'
  <2>2. IsBuffer(b, n) /\ IsBuffer(c, n + v) /\ \A k \in 1 .. n : c[k] = b[k]
    BY <1>0
  <2> HIDE DEF b, c
  <2>3. Placement(c)[m + 1] = Placement(b)[m + 1]
    BY <2>1, <2>2, PlacementGrows
  <2> QED
    BY <2>3 DEF b, c
<1> QED
  BY <1>1, <1>3, <1>4 DEF Stored

(* Every step keeps the values where their labels say. *)
LEMMA StepAddressed ==
  ASSUME NoTextLabel, DataAligned, PInv, Places, SymbolsTyped, Buffered, Sections,
         DataInv, [Next]_vars
  PROVE  Addressed'
<1> SUFFICES ASSUME Parsing' PROVE Addressed'
  BY DEF Addressed
<1>0. /\ pos_ \in Nat \ {0} /\ Len(source) \in Nat /\ errors_' = {}
      /\ Fresh /\ Skipped /\ Followed /\ Counted /\ Addressed
      /\ IsBuffer(data_buffer_, Len(data_buffer_)) /\ BufferEnd \in Nat
  BY SourceLen, EndNat DEF Parsing, DataInv, Buffered, BufferEnd
<1>1. CASE Calm
  <2>1. /\ Parsing /\ UNCHANGED <<source, data_buffer_>>
        /\ \A n \in DOMAIN symbol_table_ : symbol_table_'[n] = symbol_table_[n]
        /\ \A j \in 1 .. Len(source) : IsDataLabel(source, j) =>
             (Met(j)' <=> Met(j)) /\ ~AtLabel(j) /\ ~AtLabel(j)'
    BY <1>1 DEF Calm
  <2>2. ASSUME NEW j \in 1 .. Len(source),
               Met(j)', Latest(j)', Firm(source, j), source[j + 1].values > 0
        PROVE  ~AtLabel(j)' /\ Stored(j)'
    <3>1. IsDataLabel(source, j)
      BY <2>1, <2>2 DEF Latest, IsDataLabel
    <3>2. Met(j) /\ ~AtLabel(j) /\ ~AtLabel(j)'
      BY <2>1, <2>2, <3>1
    <3>3. Latest(j)
      BY <2>1, <2>2, <3>1 DEF Latest, IsDataLabel
    <3>4. Stored(j)
      BY <1>0, <2>1, <2>2, <3>2, <3>3 DEF Addressed
    <3>5. AddressOf(j)' = AddressOf(j)
      <4>1. source[j].name \in DOMAIN symbol_table_
        BY <1>0, <2>1, <3>1, <3>2 DEF Followed
      <4> QED
        BY <2>1, <4>1 DEF AddressOf
    <3> QED
      BY <2>1, <3>2, <3>4, <3>5 DEF Stored
  <2> QED
    BY <2>1, <2>2 DEF Addressed, Firm, IsDataLabel
<1>2. CASE Begins
  BY <1>2 DEF Begins, Addressed, Met
<1>3. CASE DataLabel
  <2>1. /\ Parsing /\ phase = "first" /\ phase' = "first"
        /\ UNCHANGED <<source, data_buffer_>>
        /\ pos_' = pos_ + 1 /\ pos_ \in 1 .. Len(source)
        /\ Item = source[pos_] /\ IsDataLabel(source, pos_)
        /\ data_index_' = AlignUp(data_index_, source[pos_ + 1].align)
        /\ \A j \in 1 .. Len(source) : IsDataLabel(source, j) => ~AtLabel(j)
    BY <1>0, <1>3, LabelMet
  <2>2. /\ symbol_table_'[Item.name].address = data_index_'
        /\ \A n \in DOMAIN symbol_table_ :
             n # Item.name => symbol_table_'[n] = symbol_table_[n]
    <3> DEFINE entry == Symbol(data_index_', Item.line, TRUE)
    <3>1. symbol_table_' = Bind(symbol_table_, Item.name, entry)
      BY <1>0, <1>3, LabelMet
    <3>2. entry.address = data_index_'
      BY DEF Symbol
    <3> HIDE DEF entry
    <3> QED
      BY <3>1, <3>2 DEF Bind
  <2>3. BufferEnd' = BufferEnd
    BY <2>1 DEF BufferEnd
  <2>4. ASSUME NEW j \in 1 .. Len(source),
               Met(j)', Latest(j)', Firm(source, j), source[j + 1].values > 0
        PROVE  /\ AtLabel(j)' => AddressOf(j)' = AlignUp(BufferEnd, source[j + 1].align)
               /\ ~AtLabel(j)' => Stored(j)'
    <3>1. IsDataLabel(source, j)
      BY <2>1, <2>4 DEF Latest, IsDataLabel
    <3>2. CASE j = pos_
      <4>1. AtLabel(j)' /\ Firm(source, pos_)
        BY <2>1, <2>4, <3>2 DEF AtLabel
      <4>2. ~(pos_ > 1 /\ IsDataLabel(source, pos_ - 1))
        <5> SUFFICES ASSUME pos_ > 1 PROVE ~IsDataLabel(source, pos_ - 1)
          OBVIOUS
        <5>1. pos_ - 1 \in 1 .. Len(source) /\ pos_ = (pos_ - 1) + 1
          BY <1>0, <2>1
        <5> QED
          BY <2>1, <5>1 DEF AtLabel
      <4>3. data_index_ = BufferEnd
        BY <1>0, <2>1, <4>1, <4>2 DEF Counted, Parsing
      <4>4. AddressOf(j)' = data_index_'
        BY <2>1, <2>2, <3>2 DEF AddressOf
      <4> QED
        BY <2>1, <3>2, <4>1, <4>3, <4>4
    <3>3. CASE j # pos_
      <4>1. Met(j) /\ ~AtLabel(j)' /\ ~AtLabel(j) /\ j < pos_
        BY <1>0, <2>1, <2>4, <3>1, <3>3 DEF Met, AtLabel
      <4>2. source[j].name # Item.name
        <5>1. PICK p \in j + 1 .. Len(source) : p = pos_
          BY <1>0, <2>1, <4>1
        <5>3. Met(p)' /\ IsDataLabel(source, p) /\ Item.name = source[p].name
          BY <1>0, <2>1, <5>1 DEF Met
        <5>2. \A i \in j + 1 .. Len(source) :
                Met(i)' /\ IsDataLabel(source, i) => source[i].name # source[j].name
          BY <2>1, <2>4 DEF Latest, IsDataLabel
        <5> QED
          BY <5>2, <5>3
      <4>3. Latest(j)
        <5>1. \A i \in 1 .. Len(source) : Met(i) => Met(i)'
          BY <1>0, <2>1 DEF Met
        <5> QED
          BY <1>0, <2>1, <2>4, <3>1, <5>1 DEF Latest, IsDataLabel
      <4>4. Stored(j)
        BY <1>0, <2>1, <2>4, <4>1, <4>3 DEF Addressed
      <4>5. AddressOf(j)' = AddressOf(j)
        <5>1. source[j].name \in DOMAIN symbol_table_
          BY <1>0, <2>1, <3>1, <4>1 DEF Followed
        <5> QED
          BY <2>1, <2>2, <4>2, <5>1 DEF AddressOf
      <4> QED
        BY <2>1, <4>1, <4>4, <4>5 DEF Stored
    <3> QED
      BY <3>2, <3>3
  <2> QED
    BY <2>1, <2>3, <2>4 DEF Addressed, Firm, IsDataLabel
<1>4. CASE DataDirective
  <2>1. /\ Parsing /\ phase = "first" /\ phase' = "first" /\ UNCHANGED <<source, symbol_table_>>
        /\ pos_' = pos_ + 1 /\ pos_ \in 1 .. Len(source)
        /\ Item = source[pos_] /\ Item.kind = "data" /\ ~IsDataLabel(source, pos_)
    BY <1>0, <1>4, DirectiveMet
  <2> DEFINE n == Len(data_buffer_)
             v == Item.values
  <2>2. /\ n \in Nat /\ v \in Nat /\ Item.size \in Nat /\ Item.align \in Nat \ {0}
        /\ Len(data_buffer_') = n + v
        /\ IsBuffer(data_buffer_', n + v) /\ IsBuffer(data_buffer_, n)
        /\ \A k \in 1 .. n : data_buffer_'[k] = data_buffer_[k]
        /\ v > 0 => Run(data_buffer_', n + v, n, v, Item)
    BY <1>4, DirectiveValues DEF Buffered
  <2>3. Multiple(Item.size, Item.align)
    BY <2>1, RegularData
  <2>4. ASSUME NEW j \in 1 .. Len(source),
               Met(j)', Latest(j)', Firm(source, j), source[j + 1].values > 0
        PROVE  ~AtLabel(j)' /\ Stored(j)'
    <3>1. IsDataLabel(source, j)
      BY <2>1, <2>4 DEF Latest, IsDataLabel
    <3>2. j # pos_
      BY <2>1, <3>1
    <3>3. Met(j) /\ ~AtLabel(j)' /\ j < pos_
      BY <1>0, <2>1, <2>4, <3>2 DEF Met, AtLabel
    <3>4. Latest(j)
      <4>1. \A i \in 1 .. Len(source) : Met(i) => Met(i)'
        BY <1>0, <2>1 DEF Met
      <4> QED
        BY <1>0, <2>1, <2>4, <3>1, <4>1 DEF Latest, IsDataLabel
    <3>5. AddressOf(j)' = AddressOf(j)
      BY <2>1 DEF AddressOf
    <3>6. CASE AtLabel(j)
      <4>1. pos_ = j + 1 /\ Item = source[j + 1]
        BY <2>1, <3>6 DEF AtLabel
      <4>2. AddressOf(j) = AlignUp(BufferEnd, Item.align)
        BY <1>0, <2>1, <2>4, <3>3, <3>4, <3>6, <4>1 DEF Addressed
      <4> DEFINE b == data_buffer_
                 c == data_buffer_'
                 it == Item
      <4>3. /\ IsBuffer(b, n) /\ IsBuffer(c, n + v) /\ \A k \in 1 .. n : c[k] = b[k]
            /\ Run(c, n + v, n, v, it)
            /\ it.size \in Nat /\ it.align \in Nat \ {0} /\ Multiple(it.size, it.align)
        BY <2>2, <2>3, <2>4, <4>1
      <4>4. Placement(c)[n + 1] = AlignUp(EndOf(b, n), it.align)
        <5> HIDE DEF b, c, it, n, v
        <5> QED
          BY <4>3, RunAtEnd
      <4>5. BufferEnd = EndOf(b, n)
        BY DEF BufferEnd
      <4>6. Placement(data_buffer_')[n + 1] = AddressOf(j)'
        BY <3>5, <4>2, <4>4, <4>5
      <4>7. Run(data_buffer_', Len(data_buffer_'), n, source'[j + 1].values, source'[j + 1])
        BY <2>1, <2>2, <4>1, <4>3
      <4> HIDE DEF n
      <4> QED
        BY <2>2, <3>3, <4>6, <4>7 DEF Stored
    <3>7. CASE ~AtLabel(j)
      <4>1. Stored(j)
        BY <1>0, <2>1, <2>4, <3>3, <3>4, <3>7 DEF Addressed
      <4>2. source'[j + 1] = source[j + 1]
        BY <2>1
      <4> QED
        BY <2>2, <3>3, <3>5, <4>1, <4>2, StaysStored
    <3> QED
      BY <3>6, <3>7
  <2> QED
    BY <2>1, <2>4 DEF Addressed, Firm, IsDataLabel
<1>5. CASE Parsing /\ Still
  <2>1. UNCHANGED <<source, phase, pos_, data_buffer_, symbol_table_, errors_>>
    BY <1>5 DEF Still
  <2>2. BufferEnd' = BufferEnd
    BY <2>1 DEF BufferEnd
  <2> QED
    BY <1>0, <2>1, <2>2 DEF Addressed, Parsing, Firm, IsDataLabel, Latest, Met, AtLabel,
      Stored, AddressOf
<1> QED
  BY <1>0, <1>1, <1>2, <1>3, <1>4, <1>5, ParseSteps

(* Every step keeps the invariant of the data. *)
LEMMA StepDataInv ==
  ASSUME NoTextLabel, DataAligned, PInv, Places, SymbolsTyped, Buffered, Sections,
         DataInv, [Next]_vars
  PROVE  DataInv'
<1>1. Fresh /\ Skipped /\ Followed /\ Counted
  BY DEF DataInv
<1>2. Fresh' /\ Skipped' /\ Followed' /\ Counted'
  BY <1>1, StepFresh, StepSkipped, StepFollowed, StepCounted
<1>3. Addressed'
  BY StepAddressed
<1> QED
  BY <1>2, <1>3 DEF DataInv

DataLabelInv == TInv /\ Buffered /\ Sections /\ DataInv

(* LoadProgram places the values where their labels are. *)
LEMMA LoadData ==
  ASSUME DataAligned, DataLabelInv, LoadProgram
  PROVE  DataAtLabels'
<1>0. /\ phase = "patch" /\ errors_ = {}
      /\ Len(source) \in Nat /\ DOMAIN source = 1 .. Len(source) /\ DataStart \in Nat
      /\ Loaded' = source /\ program_'.symbol_table = symbol_table_
      /\ memory' = Over(DataBytes(data_buffer_), Over(TextWords(intermediate_code_), memory))
  BY SourceLen, AssemblerAssumption DEF LoadProgram, Assembled, Loaded, DataLabelInv, TInv
<1> DEFINE Labelled(name) ==
             {j \in 1 .. Len(source) : IsDataLabel(source, j) /\ source[j].name = name}
<1>1. \A j \in 1 .. Len(source) : SectionOf(j)' = Under(source, j)
  BY <1>0 DEF SectionOf, Under
<1>2. ItemsIn("data")' = {j \in 1 .. Len(source) : source[j].kind # "section"
                                                   /\ Under(source, j) = "data"}
  BY <1>0, <1>1 DEF ItemsIn
<1>3. \A name : LastLabel(name)' = Max(Labelled(name))
  <2> SUFFICES ASSUME NEW name PROVE LastLabel(name)' = Max(Labelled(name))
    OBVIOUS
  <2>1. {j \in ItemsIn("data")' : source[j].kind = "label" /\ source[j].name = name}
          = Labelled(name)
    BY <1>2 DEF IsDataLabel
  <2> QED
    BY <1>0, <2>1 DEF LastLabel
<1> SUFFICES ASSUME NEW j \in DataLabels', Placed(j)'
             PROVE  LET address == DataStart + AddressOf(j)
                        it == source[j + 1]
                    IN  /\ address % it.align = 0
                        /\ \A n \in 1 .. it.values, b \in 0 .. it.size - 1 :
                             LET a == address + (n - 1) * it.size + b
                             IN  /\ a \in DOMAIN memory'
                                 /\ memory'[a] = [line |-> it.line, nth |-> n, byte |-> b]
  BY <1>0 DEF DataAtLabels, AddressOf, ValueOf
<1>4. j \in 1 .. Len(source) /\ IsDataLabel(source, j) /\ j = Max(Labelled(source[j].name))
  BY <1>0, <1>2, <1>3 DEF DataLabels, IsDataLabel
<1>j. j \in 1 .. Len(source) /\ IsDataLabel(source, j)
  BY <1>4
<1>5. Latest(j)
  <2> DEFINE S == Labelled(source[j].name)
  <2>1. S \in SUBSET (0 .. Len(source)) /\ S # {} /\ j = Max(S)
    <3>1. j \in S
      BY <1>j
    <3>2. S \in SUBSET (0 .. Len(source))
      BY <1>0
    <3> QED
      BY <1>4, <3>1, <3>2
  <2>2. \A i \in S : j >= i
    <3> HIDE DEF S
    <3> QED
      BY <1>0, <2>1, MaxIn
  <2>3. \A i \in j + 1 .. Len(source) :
          IsDataLabel(source, i) => source[i].name # source[j].name
    <3> SUFFICES ASSUME NEW i \in j + 1 .. Len(source), IsDataLabel(source, i),
                        source[i].name = source[j].name
                 PROVE  FALSE
      OBVIOUS
    <3>1. i \in 1 .. Len(source) /\ i > j /\ j \in Int
      BY <1>0, <1>j
    <3>2. i \in S
      BY <3>1
    <3> HIDE DEF S
    <3>3. j >= i
      BY <2>2, <3>2
    <3> QED
      BY <3>1, <3>3
  <2> QED
    BY <1>j, <2>3 DEF Latest
<1>6. Parsing /\ Met(j) /\ ~AtLabel(j)
  BY <1>0, <1>j DEF Parsing, Met, AtLabel
<1>7. j < Len(source) /\ source[j + 1].kind = "data"
  BY <1>j, <1>6 DEF Followed, DataLabelInv, DataInv
<1>8. source[j + 1].values > 0 /\ Firm(source, j)
  <2>1. Placed(j)' <=> /\ source[j + 1].values > 0
                       /\ \A i \in ItemsIn("data")' :
                            i < j /\ source[i].kind = "label" /\ source[i + 1].align > 1
                              => source[i + 1].values > 0
    BY <1>0 DEF Placed
  <2>2. \A i \in 1 .. j - 1 : IsDataLabel(source, i) => i \in ItemsIn("data")' /\ i < j
    <3> SUFFICES ASSUME NEW i \in 1 .. j - 1, IsDataLabel(source, i)
                 PROVE  i \in ItemsIn("data")' /\ i < j
      OBVIOUS
    <3>1. i \in 1 .. Len(source) /\ i < j
      BY <1>0, <1>j
    <3> QED
      BY <1>2, <3>1 DEF IsDataLabel
  <2> QED
    BY <2>1, <2>2 DEF Firm, IsDataLabel
<1>9. Stored(j)
  BY <1>j, <1>5, <1>6, <1>8 DEF Addressed, DataLabelInv, DataInv
<1> DEFINE it == source[j + 1]
           n == Len(data_buffer_)
           P == Placement(data_buffer_)
<1>10. PICK m \in Nat : Run(data_buffer_, n, m, it.values, it) /\ P[m + 1] = AddressOf(j)
  BY <1>9 DEF Stored
<1>11. /\ it.size \in Nat /\ it.align \in Nat \ {0} /\ it.values \in Nat
       /\ Multiple(it.size, it.align) /\ DataStart % it.align = 0
  <2>1. j + 1 \in 1 .. Len(source)
    BY <1>0, <1>j, <1>7
  <2> QED
    BY <1>7, <2>1, RegularData DEF DataLabelInv, TInv
<1>12. IsBuffer(data_buffer_, n)
  BY DEF DataLabelInv, Buffered
<1> HIDE DEF it, n, P
<1>13. (DataStart + AddressOf(j)) % it.align = 0
  <2>1. Multiple(P[m + 1], it.align)
    BY <1>10, <1>11, <1>12, RunPlaced DEF P
  <2>2. Multiple(DataStart, it.align)
    BY <1>0, <1>11, RemainderOf
  <2>3. Multiple(DataStart + P[m + 1], it.align) /\ P[m + 1] \in Nat
    BY <1>11, <2>1, <2>2, MultipleSum
  <2>4. DataStart + P[m + 1] \in Nat
    BY <1>0, <2>3
  <2> QED
    BY <1>10, <1>11, <2>3, <2>4, RemainderOf
<1>14. ASSUME NEW k \in 1 .. it.values, NEW b \in 0 .. it.size - 1
       PROVE  LET a == DataStart + AddressOf(j) + (k - 1) * it.size + b
              IN  /\ a \in DOMAIN memory'
                  /\ memory'[a] = [line |-> it.line, nth |-> k, byte |-> b]
  <2> DEFINE a == DataStart + AddressOf(j) + (k - 1) * it.size + b
             D == DataBytes(data_buffer_)
             O == Over(TextWords(intermediate_code_), memory)
  <2>1. a \in DOMAIN D /\ D[a] = [line |-> it.line, nth |-> k, byte |-> b]
    <3>1. a = DataStart + P[m + 1] + (k - 1) * it.size + b
      BY <1>10
    <3>2. LET x == DataStart + Placement(data_buffer_)[m + 1] + (k - 1) * it.size + b
          IN  /\ x \in DOMAIN DataBytes(data_buffer_)
              /\ DataBytes(data_buffer_)[x] = [line |-> it.line, nth |-> k, byte |-> b]
      BY <1>10, <1>11, <1>12, BytesOfRun
    <3> QED
      BY <3>1, <3>2 DEF P
  <2>2. memory' = Over(D, O)
    BY <1>0
  <2> HIDE DEF a, D, O
  <2>3. a \in DOMAIN memory' /\ memory'[a] = D[a]
    BY <2>1, <2>2 DEF Over
  <2> QED
    BY <2>1, <2>3 DEF a
<1> QED
  BY <1>13, <1>14 DEF it

(* There is no label at the start. *)
LEMMA InitData ==
  ASSUME Init
  PROVE  DataLabelInv /\ DataAtLabels
<1>1. TInv /\ Buffered
  BY InitTInv, InitLines
<1>2. phase = "idle" /\ errors_ = {} /\ data_index_ = 0 /\ data_buffer_ = <<>>
  BY DEF Init
<1>3. Sections /\ DataInv
  BY <1>2 DEF Sections, DataInv, Fresh, Skipped, Followed, Counted, Addressed, Parsing
<1>4. DataAtLabels
  <2>1. Loaded = <<>> /\ DOMAIN <<>> = {}
    BY DEF Init, Loaded
  <2>2. DataLabels = {}
    BY <2>1 DEF DataLabels, ItemsIn
  <2> QED
    BY <2>2 DEF DataAtLabels
<1> QED
  BY <1>1, <1>3, <1>4 DEF DataLabelInv

(* No other step changes what the labels name. *)
LEMMA KeepsData ==
  ASSUME DataAtLabels, [Next]_vars, ~LoadProgram
  PROVE  DataAtLabels'
<1>1. UNCHANGED <<program_, memory>>
  BY MachineSteps DEF AddBreakpoint, RemoveBreakpoint
<1>2. Loaded' = Loaded
  BY <1>1 DEF Loaded
<1>3. \A name : ItemsIn(name)' = ItemsIn(name)
  BY <1>2 DEF ItemsIn, SectionOf
<1>4. DataLabels' = DataLabels
  BY <1>2, <1>3 DEF DataLabels, LastLabel
<1>5. \A j : Placed(j)' <=> Placed(j)
  BY <1>2, <1>3 DEF Placed
<1> QED
  BY <1>1, <1>2, <1>4, <1>5 DEF DataAtLabels, ValueOf

(* Whatever such files without a label called text, whose values are        *)
(* multiples of their alignments: the address of a data label is aligned,   *)
(* and each byte of the values behind the label is where the address says,  *)
(* though the parser counts alignments at labels and values and LoadProgram *)
(* counts them again at the values alone (parseDataDirective, align).       *)
THEOREM DataOfSource ==
  ASSUME NoTextLabel, DataAligned
  PROVE  Spec => []DataAtLabels
<1> DEFINE Inv == DataLabelInv /\ DataAtLabels
<1>1. Init => Inv
  BY InitData
<1>2. Inv /\ [Next]_vars => Inv'
  <2> SUFFICES ASSUME Inv, [Next]_vars PROVE Inv'
    OBVIOUS
  <2>1. TInv' /\ Buffered' /\ Sections' /\ DataInv'
    <3>1. PInv /\ Places /\ SymbolsTyped
      BY DEF DataLabelInv, TInv
    <3> QED
      BY <3>1, StepTInv, StepBuffered, StepSections, StepDataInv DEF DataLabelInv
  <2>2. DataAtLabels'
    BY LoadData, KeepsData
  <2> QED
    BY <2>1, <2>2 DEF DataLabelInv
<1>3. Inv => DataAtLabels
  OBVIOUS
<1> HIDE DEF Inv
<1> QED
  BY <1>1, <1>2, <1>3, PTL DEF Spec
-------------------------------------------------------------------------------
(***************************************************************************)
(* The text.  Both passes split a file the same way, and the second turns  *)
(* each instruction of the text into its words.                            *)
(***************************************************************************)
(* The words of the text before item j of a file. *)
TextBelow(src, j) == {w \in Below(src, j) : Under(src, w[1]) = "text"}

(* An item of the text adds its words, and no other item does. *)
LEMMA TextGrows ==
  ASSUME NEW src, NEW j \in Nat \ {0}
  PROVE  LET here == Cardinality(TextBelow(src, j))
             next == Cardinality(TextBelow(src, j + 1))
             kind == src[j].kind
         IN  /\ IsFiniteSet(TextBelow(src, j)) /\ here \in Nat /\ next \in Nat
             /\ TextBelow(src, j) \subseteq TextBelow(src, j + 1)
             /\ kind \in {"branch", "jal", "op"} /\ Under(src, j) = "text" => next = here + 1
             /\ kind = "la" /\ Under(src, j) = "text" => next = here + 2
             /\ kind \notin {"branch", "jal", "la", "op"} \/ Under(src, j) # "text" =>
                  TextBelow(src, j + 1) = TextBelow(src, j)
<1> DEFINE B == TextBelow(src, j)
           C == TextBelow(src, j + 1)
           x == <<j, 1>>
           y == <<j, 2>>
           kinds == {"branch", "jal", "la", "op"}
<1>1. j + 1 \in Nat \ {0} /\ j + 1 - 1 = j
  OBVIOUS
<1>2. B \subseteq Below(src, j) /\ C \subseteq Below(src, j + 1)
  BY DEF TextBelow
<1>3. IsFiniteSet(B) /\ IsFiniteSet(C) /\ Cardinality(B) \in Nat /\ Cardinality(C) \in Nat
  BY <1>1, <1>2, BelowFinite, FS_Subset, FS_CardinalityType
<1>4. \A w : w \in B <=>
        /\ w \in (1 .. j - 1) \X {1, 2} /\ src[w[1]].kind \in kinds
        /\ w[2] = 2 => src[w[1]].kind = "la"
        /\ Under(src, w[1]) = "text"
  BY DEF TextBelow, Below
<1>5. \A w : w \in C <=>
        /\ w \in (1 .. j) \X {1, 2} /\ src[w[1]].kind \in kinds
        /\ w[2] = 2 => src[w[1]].kind = "la"
        /\ Under(src, w[1]) = "text"
  BY <1>1 DEF TextBelow, Below
<1> DEFINE S == IF src[j].kind \notin kinds \/ Under(src, j) # "text" THEN {}
                ELSE IF src[j].kind = "la" THEN {x, y}
                ELSE {x}
<1>6. \A w \in (1 .. j) \X {1, 2} : w \in (1 .. j - 1) \X {1, 2} \/ w = x \/ w = y
  OBVIOUS
<1>7. /\ x \in (1 .. j) \X {1, 2} /\ x \notin (1 .. j - 1) \X {1, 2} /\ x[1] = j /\ x[2] = 1
      /\ y \in (1 .. j) \X {1, 2} /\ y \notin (1 .. j - 1) \X {1, 2} /\ y[1] = j /\ y[2] = 2
      /\ x # y
      /\ \A w \in (1 .. j - 1) \X {1, 2} : w \in (1 .. j) \X {1, 2}
  OBVIOUS
<1> HIDE DEF B, C, x, y, kinds
<1>8. C = B \cup S /\ x \notin B /\ y \notin B
  <2>1. x \notin B /\ y \notin B
    BY <1>4, <1>7
  <2>2. \A w : w \in C <=> w \in B \/ w \in S
    <3> SUFFICES ASSUME NEW w PROVE w \in C <=> w \in B \/ w \in S
      OBVIOUS
    <3>1. w \in B => w \in C
      BY <1>4, <1>5, <1>7
    <3>2. w \in S => w \in C
      <4>1. CASE w = x
        BY <1>5, <1>7, <4>1
      <4>2. CASE w = y
        BY <1>5, <1>7, <4>2
      <4> QED
        BY <4>1, <4>2
    <3>3. w \in C => w \in B \/ w \in S
      <4> SUFFICES ASSUME w \in C, w \notin B PROVE w \in S
        OBVIOUS
      <4>1. w = x \/ w = y
        BY <1>4, <1>5, <1>6
      <4> QED
        BY <1>5, <1>7, <4>1
    <3> QED
      BY <3>1, <3>2, <3>3
  <2> QED
    BY <2>1, <2>2
<1>9. /\ Cardinality(B \cup {x}) = Cardinality(B) + 1 /\ IsFiniteSet(B \cup {x})
      /\ Cardinality((B \cup {x}) \cup {y}) = Cardinality(B) + 2
  <2>1. IsFiniteSet(B \cup {x}) /\ Cardinality(B \cup {x}) = Cardinality(B) + 1
    BY <1>3, <1>8, FS_AddElement
  <2>2. y \notin B \cup {x}
    BY <1>7, <1>8
  <2>3. Cardinality((B \cup {x}) \cup {y}) = Cardinality(B \cup {x}) + 1
    BY <2>1, <2>2, FS_AddElement
  <2> QED
    BY <1>3, <2>1, <2>3
<1>10. ASSUME src[j].kind \in {"branch", "jal", "op"}, Under(src, j) = "text"
       PROVE  Cardinality(C) = Cardinality(B) + 1
  <2>1. C = B \cup {x}
    BY <1>8, <1>10 DEF kinds
  <2> QED
    BY <1>9, <2>1
<1>11. ASSUME src[j].kind = "la", Under(src, j) = "text"
       PROVE  Cardinality(C) = Cardinality(B) + 2
  <2>1. C = (B \cup {x}) \cup {y}
    BY <1>8, <1>11 DEF kinds
  <2> QED
    BY <1>9, <2>1
<1>12. ASSUME src[j].kind \notin kinds \/ Under(src, j) # "text" PROVE C = B
  BY <1>8, <1>12
<1>13. B \subseteq C
  BY <1>8
<1> QED
  BY <1>3, <1>10, <1>11, <1>12, <1>13 DEF B, C, kinds

(* No item comes before the first. *)
LEMMA TextFirst == ASSUME NEW src PROVE TextBelow(src, 1) = {} /\ Cardinality(TextBelow(src, 1)) = 0
<1>1. TextBelow(src, 1) = {}
  BY DEF TextBelow, Below
<1> QED
  BY <1>1, FS_EmptySet

(* Each word of the text has its place in the code. *)
LEMMA TextIndex ==
  ASSUME NEW src, NEW j \in Nat \ {0}, NEW w \in TextBelow(src, j)
  PROVE  LET k == Cardinality(TextBelow(src, w[1])) + w[2]
         IN  /\ w[1] \in 1 .. j - 1 /\ w[2] \in {1, 2}
             /\ k \in 1 .. Cardinality(TextBelow(src, j))
<1> DEFINE i == w[1]
           B == TextBelow(src, i)
           C == TextBelow(src, i + 1)
           D == TextBelow(src, j)
<1>1. /\ i \in 1 .. j - 1 /\ w[2] \in {1, 2} /\ i \in Nat \ {0} /\ i + 1 \in Nat \ {0}
      /\ src[i].kind \in {"branch", "jal", "la", "op"} /\ (w[2] = 2 => src[i].kind = "la")
      /\ Under(src, i) = "text"
  BY DEF TextBelow, Below
<1>2. Cardinality(B) \in Nat /\ Cardinality(B) + w[2] <= Cardinality(C) /\ Cardinality(C) \in Nat
  <2> HIDE DEF i
  <2>1. /\ Cardinality(B) \in Nat /\ Cardinality(C) \in Nat
        /\ src[i].kind \in {"branch", "jal", "op"} => Cardinality(C) = Cardinality(B) + 1
        /\ src[i].kind = "la" => Cardinality(C) = Cardinality(B) + 2
    BY <1>1, TextGrows
  <2> HIDE DEF B, C
  <2> QED
    BY <1>1, <2>1
<1>3. C \subseteq D
  <2>1. \A v \in (1 .. i + 1 - 1) \X {1, 2} : v \in (1 .. j - 1) \X {1, 2}
    BY <1>1
  <2> QED
    BY <2>1 DEF TextBelow, Below
<1>4. IsFiniteSet(D) /\ Cardinality(D) \in Nat
  BY TextGrows
<1>5. Cardinality(C) <= Cardinality(D)
  BY <1>3, <1>4, FS_Subset
<1> HIDE DEF B, C, D
<1>6. Cardinality(B) + w[2] \in 1 .. Cardinality(D)
  BY <1>1, <1>2, <1>4, <1>5
<1> QED
  BY <1>1, <1>6 DEF B, D

(* The units of a la: auipc with the upper part of the distance and addi    *)
(* with the rest, where n units come before them.                           *)
Distance(address, n) == DataStart + address - 4 * n

IsUpper(u, distance) ==
  u.op = "auipc" /\ u.imm = Upper(distance) /\ u.patched = TRUE

IsLower(u, distance) ==
  u.op = "addi" /\ u.imm = distance - Upper(distance) * Page /\ u.patched = TRUE

(* The instruction of an item's nth word. *)
WordOp(kind, nth) == IF kind # "la" THEN kind ELSE IF nth = 1 THEN "auipc" ELSE "addi"

(* A code with units behind it, by its indices. *)
LEMMA Joined ==
  ASSUME NEW s, IsSeq(s), NEW t, IsSeq(t), NEW r, r = s \o t,
         NEW n, n = Len(s), NEW m, m = Len(t)
  PROVE  /\ Len(r) = n + m
         /\ \A k \in 1 .. n : r[k] = s[k]
         /\ \A k \in n + 1 .. n + m : r[k] = t[k - n]
BY SeqConcat

(* What a step of the text loop adds to the code of a file without errors. *)
LEMMA Emitted ==
  ASSUME PInv, SymbolsTyped, Transfer \/ LoadAddress \/ Plain, errors_' = {}
  PROVE  LET n    == Len(intermediate_code_)
             code == intermediate_code_'
         IN  /\ n \in Nat /\ errors_ = {}
             /\ Item.kind \in {"branch", "jal", "la", "op"}
             /\ \A k \in 1 .. n : code[k] = intermediate_code_[k]
             /\ Item.kind # "la" =>
                  /\ Len(code) = n + 1
                  /\ code[n + 1].op = Item.kind /\ code[n + 1].line = Item.line
             /\ Item.kind = "la" =>
                  /\ KnownData(Item.of)
                  /\ Len(code) = n + 2
                  /\ code[n + 1].line = Item.line /\ code[n + 2].line = Item.line
                  /\ IsUpper(code[n + 1], Distance(symbol_table_[Item.of].address, n))
                  /\ IsLower(code[n + 2], Distance(symbol_table_[Item.of].address, n))
<1> DEFINE n == Len(intermediate_code_)
           old == intermediate_code_
           code == intermediate_code_'
<1>0. n \in Nat /\ IsSeq(old)
  BY SourceLen
<1>j. ASSUME NEW t, IsSeq(t), NEW m, m = Len(t), code = old \o t
      PROVE  /\ Len(code) = n + m
             /\ \A k \in 1 .. n : code[k] = old[k]
             /\ \A k \in n + 1 .. n + m : code[k] = t[k - n]
  <2>1. n = Len(old)
    OBVIOUS
  <2> HIDE DEF n, old, code
  <2> QED
    BY <1>0, <1>j, <2>1, Joined
<1>o. ASSUME NEW u, Emit(<<u>>)
      PROVE  /\ Len(code) = n + 1 /\ code[n + 1] = u
             /\ \A k \in 1 .. n : code[k] = old[k]
  <2> DEFINE one == <<u>>
  <2>1. IsSeq(one) /\ Len(one) = 1 /\ one[1] = u
    BY SeqOne
  <2>2. code = old \o one
    BY <1>o DEF Emit
  <2> HIDE DEF one
  <2>3. /\ Len(code) = n + 1
        /\ \A k \in 1 .. n : code[k] = old[k]
        /\ \A k \in n + 1 .. n + 1 : code[k] = one[k - n]
    BY <2>1, <2>2, <1>j
  <2>4. code[n + 1] = one[1]
    <3>1. n + 1 \in n + 1 .. n + 1 /\ n + 1 - n = 1
      BY <1>0
    <3> QED
      BY <2>3, <3>1
  <2> QED
    BY <2>1, <2>3, <2>4
<1>1. CASE Transfer
  <2>1. Item.kind \in {"branch", "jal"} /\ errors_ = {}
    BY <1>1 DEF Transfer, InText, NoError, Error
  <2>2. \E imm, patched : Emit(<<Unit(Item.kind, imm, Item.to, patched)>>)
    BY <1>1 DEF Transfer, Error
  <2>3. PICK imm, patched : Emit(<<Unit(Item.kind, imm, Item.to, patched)>>)
    BY <2>2
  <2> DEFINE u == Unit(Item.kind, imm, Item.to, patched)
  <2>4. u.op = Item.kind /\ u.line = Item.line
    BY DEF Unit
  <2>5. Emit(<<u>>)
    BY <2>3
  <2> HIDE DEF u
  <2>6. Len(code) = n + 1 /\ code[n + 1] = u /\ \A k \in 1 .. n : code[k] = old[k]
    BY <1>o, <2>5
  <2> QED
    BY <1>0, <2>1, <2>4, <2>6
<1>2. CASE LoadAddress
  <2> DEFINE d == Distance(symbol_table_[Item.of].address, n)
             u == Unit("auipc", Upper(d), "", TRUE)
             v == Unit("addi", d - Upper(d) * Page, "", TRUE)
             two == <<u, v>>
  <2>1. Item.kind = "la" /\ errors_ = {} /\ KnownData(Item.of)
    BY <1>2 DEF LoadAddress, InText, NoError, Error
  <2>2. Emit(two)
    BY <1>2, <2>1 DEF LoadAddress, Distance
  <2>3. code = old \o two
    BY <2>2 DEF Emit
  <2>4. IsUpper(u, d) /\ u.line = Item.line /\ IsLower(v, d) /\ v.line = Item.line
    BY DEF Unit, IsUpper, IsLower
  <2> HIDE DEF u, v, d
  <2>5. IsSeq(two) /\ Len(two) = 2 /\ two[1] = u /\ two[2] = v
    BY SeqTwo
  <2> HIDE DEF two
  <2>6. /\ Len(code) = n + 2
        /\ \A k \in 1 .. n : code[k] = old[k]
        /\ \A k \in n + 1 .. n + 2 : code[k] = two[k - n]
    BY <2>3, <2>5, <1>j
  <2>7. code[n + 1] = u /\ code[n + 2] = v
    <3>1. /\ n + 1 \in n + 1 .. n + 2 /\ n + 1 - n = 1
          /\ n + 2 \in n + 1 .. n + 2 /\ n + 2 - n = 2
      BY <1>0
    <3> QED
      BY <2>5, <2>6, <3>1
  <2> QED
    BY <1>0, <2>1, <2>4, <2>6, <2>7 DEF d
<1>3. CASE Plain
  <2> DEFINE u == Unit("op", 0, "", TRUE)
  <2>1. Item.kind = "op" /\ errors_ = {} /\ Emit(<<u>>)
    BY <1>3 DEF Plain, InText, NoError, Error
  <2>4. u.op = Item.kind /\ u.line = Item.line
    BY <2>1 DEF Unit
  <2> HIDE DEF u
  <2>6. Len(code) = n + 1 /\ code[n + 1] = u /\ \A k \in 1 .. n : code[k] = old[k]
    BY <1>o, <2>1
  <2> QED
    BY <1>0, <2>1, <2>4, <2>6
<1> QED
  BY <1>1, <1>2, <1>3

(* What the second pass skips is not text. *)
Passed ==
  phase = "second" /\ loop = "skip" /\ ~AtEnd =>
    Item.kind = "section" \/ Under(source, pos_) # "text"

(* Every step but those of the text loop keeps the parser from text. *)
LEMMA StepPassed ==
  ASSUME PInv, Places, Passed, [Next]_vars
  PROVE  Passed'
<1>0. pos_ \in Nat \ {0}
  BY SourceLen
<1>n. /\ Item.kind = "section" => Under(source, pos_ + 1) = Item.name
      /\ Item.kind # "section" => Under(source, pos_ + 1) = Under(source, pos_)
  BY <1>0, UnderNext DEF Item
<1>h. UNCHANGED <<source, pos_>> => UNCHANGED <<AtEnd, Item>>
  BY DEF AtEnd, Item
<1>1. CASE FirstTop \/ FirstSkip \/ DataEnd \/ DataLabel \/ DataDirective \/ DataOther
  <2>1. phase' # "second"
    BY <1>1 DEF FirstTop, FirstSkip, DataEnd, DataLabel, DataDirective, DataOther
  <2> QED
    BY <2>1 DEF Passed
<1>2. CASE FirstEnd
  <2>1. loop' # "skip"
    BY <1>2 DEF FirstEnd
  <2> QED
    BY <2>1 DEF Passed
<1>3. CASE SecondTop
  <2>1. loop' = "skip" => UNCHANGED <<source, pos_>> /\ Item.kind = "section"
    BY <1>3 DEF SecondTop, Advance, Goto
  <2> QED
    BY <1>h, <2>1 DEF Passed
<1>4. CASE SecondSkip
  <2>1. /\ phase = "second" /\ loop = "skip" /\ UNCHANGED source
        /\ loop' = "skip" => pos_' = pos_ + 1 /\ ~AtEnd /\ ~Reads({"text"})
    BY <1>4 DEF SecondSkip, Advance, Goto
  <2>2. CASE loop' = "skip"
    <3>1. Under(source, pos_ + 1) # "text"
      BY <1>n, <2>1, <2>2 DEF Passed, Reads, Named
    <3> QED
      BY <2>1, <2>2, <3>1 DEF Passed
  <2> QED
    BY <2>2 DEF Passed
<1>5. CASE TextEnd \/ TextLabel \/ Transfer \/ LoadAddress \/ Plain
  <2>1. loop' # "skip"
    BY <1>5 DEF TextEnd, TextLabel, Transfer, LoadAddress, Plain, InText, Goto
  <2> QED
    BY <2>1 DEF Passed
<1>6. CASE SecondEnd \/ BackPatch \/ LoadProgram \/ Reject \/ \E file \in Sources : Load(file)
  <2>1. phase' # "second"
    BY <1>6 DEF SecondEnd, BackPatch, LoadProgram, Reject, EmptyParser, Load
  <2> QED
    BY <2>1 DEF Passed
<1>7. CASE \/ \E line \in DOMAIN program_.lines : AddBreakpoint(line) \/ RemoveBreakpoint(line)
           \/ UNCHANGED vars
  <2>1. UNCHANGED <<source, phase, loop, pos_>>
    BY <1>7 DEF AddBreakpoint, RemoveBreakpoint, vars, parser
  <2> QED
    BY <1>h, <2>1 DEF Passed
<1> QED
  BY <1>1, <1>2, <1>3, <1>4, <1>5, <1>6, <1>7 DEF Next, Parse

(* The words of the text read so far, each at its place in the code. *)
SecondAt == IF phase = "second" THEN pos_ ELSE Len(source) + 1

Stands(w) ==
  LET k == Cardinality(TextBelow(source, w[1])) + w[2] IN
  /\ intermediate_code_[k].line = source[w[1]].line
  /\ intermediate_code_[k].op = WordOp(source[w[1]].kind, w[2])

Transcribed ==
  phase \in {"second", "patch"} /\ errors_ = {} =>
    /\ Len(intermediate_code_) = Cardinality(TextBelow(source, SecondAt))
    /\ \A w \in TextBelow(source, SecondAt) : Stands(w)

(* A step that adds no code reads no text. *)
LEMMA QuietStep ==
  ASSUME NoTextLabel, PInv, Places, SymbolsTyped, Sections, Passed, [Next]_vars,
         phase = "second", phase' = "second", errors_' = {}, UNCHANGED intermediate_code_,
         errors_ \subseteq errors_'
  PROVE  /\ UNCHANGED source
         /\ \/ pos_' = pos_
            \/ /\ pos_' = pos_ + 1
               /\ \/ Item.kind \notin {"branch", "jal", "la", "op"}
                  \/ Under(source, pos_) # "text"
<1>0. pos_ \in Nat \ {0} /\ UNCHANGED source
  BY SourceLen, PhaseSteps
<1>1. CASE SecondTop
  <2>1. \/ pos_' = pos_
        \/ pos_' = pos_ + 1 /\ Item.kind \in {"section", "data"}
    BY <1>1 DEF SecondTop, Advance, Goto
  <2> QED
    BY <1>0, <2>1
<1>2. CASE SecondSkip
  <2>1. \/ pos_' = pos_
        \/ pos_' = pos_ + 1 /\ ~AtEnd /\ loop = "skip"
    BY <1>2 DEF SecondSkip, Advance, Goto
  <2> QED
    BY <1>0, <2>1 DEF Passed
<1>3. CASE TextEnd \/ TextLabel
  <2>1. \/ pos_' = pos_
        \/ pos_' = pos_ + 1 /\ Item.kind = "label"
    BY <1>3 DEF TextEnd, TextLabel, InText, Goto, Advance
  <2> QED
    BY <1>0, <2>1
<1>4. CASE Transfer \/ LoadAddress \/ Plain
  <2>1. LET n == Len(intermediate_code_) IN
        n \in Nat /\ (Len(intermediate_code_') = n + 1 \/ Len(intermediate_code_') = n + 2)
    BY <1>4, Emitted
  <2> QED
    BY <2>1
<1>5. CASE \/ \E line \in DOMAIN program_.lines : AddBreakpoint(line) \/ RemoveBreakpoint(line)
           \/ UNCHANGED vars
  <2>1. UNCHANGED pos_
    BY <1>5 DEF AddBreakpoint, RemoveBreakpoint, vars, parser
  <2> QED
    BY <1>0, <2>1
<1>6. CASE \/ FirstTop \/ FirstSkip \/ FirstEnd \/ DataEnd
           \/ DataLabel \/ DataDirective \/ DataOther
           \/ SecondEnd \/ BackPatch \/ LoadProgram \/ Reject \/ \E file \in Sources : Load(file)
  BY <1>6 DEF FirstTop, FirstSkip, FirstEnd, DataEnd, DataLabel, DataDirective, DataOther,
    SecondEnd, BackPatch, LoadProgram, Reject, EmptyParser, Load
<1> QED
  BY <1>1, <1>2, <1>3, <1>4, <1>5, <1>6 DEF Next, Parse

(* Words that stand in the code stand there when more code follows. *)
LEMMA StaysStanding ==
  ASSUME UNCHANGED source, NEW j \in Nat \ {0}, NEW n \in Nat,
         n = Cardinality(TextBelow(source, j)),
         \A k \in 1 .. n : /\ intermediate_code_'[k].op = intermediate_code_[k].op
                           /\ intermediate_code_'[k].line = intermediate_code_[k].line,
         \A w \in TextBelow(source, j) : Stands(w)
  PROVE  \A w \in TextBelow(source, j) : Stands(w)'
<1> SUFFICES ASSUME NEW w \in TextBelow(source, j) PROVE Stands(w)'
  OBVIOUS
<1> DEFINE k == Cardinality(TextBelow(source, w[1])) + w[2]
<1>1. k \in 1 .. n
  BY TextIndex
<1>2. Cardinality(TextBelow(source', w[1])) + w[2] = k
  OBVIOUS
<1>3. Stands(w)
  OBVIOUS
<1> HIDE DEF k
<1> QED
  BY <1>1, <1>2, <1>3 DEF Stands, k

(* The words of the item being read. *)
LEMMA NewWords ==
  ASSUME NEW src, NEW j \in Nat \ {0}, NEW w \in TextBelow(src, j + 1), w \notin TextBelow(src, j)
  PROVE  w[1] = j /\ (w[2] = 1 \/ (w[2] = 2 /\ src[j].kind = "la"))
<1>1. /\ w \in (1 .. j) \X {1, 2} /\ src[w[1]].kind \in {"branch", "jal", "la", "op"}
      /\ (w[2] = 2 => src[w[1]].kind = "la") /\ Under(src, w[1]) = "text"
  <2>1. j + 1 - 1 = j
    OBVIOUS
  <2> QED
    BY <2>1 DEF TextBelow, Below
<1>2. ASSUME w[1] # j PROVE FALSE
  <2>1. w \in (1 .. j - 1) \X {1, 2}
    BY <1>1, <1>2
  <2> QED
    BY <1>1, <2>1 DEF TextBelow, Below
<1> QED
  BY <1>1, <1>2

(* Every step keeps the words of the text in the code. *)
LEMMA StepTranscribed ==
  ASSUME NoTextLabel, PInv, Places, SymbolsTyped, UnitsTyped, Sections, Passed, Transcribed,
         [Next]_vars
  PROVE  Transcribed'
<1> SUFFICES ASSUME phase' \in {"second", "patch"}, errors_' = {} PROVE Transcribed'
  BY DEF Transcribed
<1> DEFINE code == intermediate_code_
           n == Len(code)
<1>0. pos_ \in Nat \ {0} /\ Len(source) \in Nat /\ n \in Nat /\ Len(source) + 1 \in Nat \ {0}
  BY SourceLen
<1>1. CASE UNCHANGED code /\ errors_ \subseteq errors_'
  <2>1. CASE phase = "first"
    <3>1. FirstEnd
      BY <2>1 DEF Next, Parse, vars, parser, FirstTop, FirstSkip, DataEnd, DataLabel,
        DataDirective, DataOther, SecondTop, SecondSkip, SecondEnd, TextEnd, TextLabel, InText,
        Transfer, LoadAddress, Plain, BackPatch, LoadProgram, Reject, EmptyParser, Assembled, Load,
        AddBreakpoint, RemoveBreakpoint
    <3>2. phase' = "second" /\ pos_' = 1 /\ code' = <<>>
      BY <1>1, <2>1, <3>1 DEF FirstEnd, Places
    <3>3. SecondAt' = 1
      BY <3>2 DEF SecondAt
    <3> QED
      BY <3>2, <3>3, TextFirst, EmptyLen DEF Transcribed
  <2>2. CASE phase = "second" /\ phase' = "second"
    <3>1. /\ UNCHANGED source
          /\ \/ pos_' = pos_
             \/ /\ pos_' = pos_ + 1
                /\ \/ Item.kind \notin {"branch", "jal", "la", "op"}
                   \/ Under(source, pos_) # "text"
      BY <1>1, <2>2, QuietStep
    <3>2. TextBelow(source', SecondAt') = TextBelow(source, SecondAt)
      <4>1. TextBelow(source, pos_') = TextBelow(source, pos_)
        BY <1>0, <3>1, TextGrows DEF Item
      <4> QED
        BY <2>2, <3>1, <4>1 DEF SecondAt
    <3> QED
      BY <1>1, <2>2, <3>1, <3>2 DEF Transcribed, Stands
  <2>3. CASE phase' = "patch" /\ phase # "first"
    <3>1. UNCHANGED source /\ (phase = "patch" \/ (phase = "second" /\ pos_ = Len(source) + 1))
      BY <2>3, PhaseSteps
    <3>2. SecondAt' = SecondAt
      BY <2>3, <3>1 DEF SecondAt
    <3> QED
      BY <1>1, <3>1, <3>2 DEF Transcribed, Stands
  <2>4. phase' = "second" => phase \in {"first", "second"}
    BY PhaseSteps
  <2> QED
    BY <2>1, <2>2, <2>3, <2>4
<1>2. CASE Transfer \/ LoadAddress \/ Plain
  <2>1. /\ phase = "second" /\ phase' = "second" /\ loop = "text" /\ ~AtEnd
        /\ pos_' = pos_ + 1 /\ UNCHANGED source
    BY <1>2, EmitSteps
  <2>2. PICK j \in Nat \ {0} : j = pos_
    BY <1>0
  <2> DEFINE here == Cardinality(TextBelow(source, j))
             next == Cardinality(TextBelow(source, j + 1))
  <2>3. /\ errors_ = {}
        /\ \A k \in 1 .. n : code'[k] = code[k]
        /\ source[j].kind \in {"branch", "jal", "la", "op"}
        /\ source[j].kind # "la" =>
             /\ Len(code') = n + 1
             /\ code'[n + 1].op = source[j].kind /\ code'[n + 1].line = source[j].line
        /\ source[j].kind = "la" =>
             /\ Len(code') = n + 2
             /\ code'[n + 1].line = source[j].line /\ code'[n + 2].line = source[j].line
             /\ code'[n + 1].op = "auipc" /\ code'[n + 2].op = "addi"
    BY <1>2, <2>2, Emitted DEF Item, IsUpper, IsLower
  <2>4. Under(source, j) = "text"
    BY <2>1, <2>2 DEF Sections
  <2>5. n = here /\ \A w \in TextBelow(source, j) : Stands(w)
    BY <2>1, <2>2, <2>3 DEF Transcribed, SecondAt
  <2>6. /\ here \in Nat /\ next \in Nat
        /\ source[j].kind # "la" => next = here + 1
        /\ source[j].kind = "la" => next = here + 2
    <3> HIDE DEF here, next
    <3> QED
      BY <2>3, <2>4, TextGrows DEF here, next
  <2>7. Len(code') = next
    BY <2>3, <2>5, <2>6
  <2>8. ASSUME NEW w \in TextBelow(source, j + 1) PROVE Stands(w)'
    <3>1. CASE w \in TextBelow(source, j)
      <4>1. \A v \in TextBelow(source, j) : Stands(v)'
        <5>1. n \in Nat /\ n = Cardinality(TextBelow(source, j))
          BY <1>0, <2>5
        <5>2. \A k \in 1 .. n : /\ intermediate_code_'[k].op = intermediate_code_[k].op
                                /\ intermediate_code_'[k].line = intermediate_code_[k].line
          BY <2>3
        <5>3. \A v \in TextBelow(source, j) : Stands(v)
          BY <2>5
        <5>4. j \in Nat \ {0} /\ UNCHANGED source
          BY <2>1
        <5> HIDE DEF n, code
        <5> QED
          BY <5>1, <5>2, <5>3, <5>4, StaysStanding
      <4> QED
        BY <3>1, <4>1
    <3>2. CASE w \notin TextBelow(source, j)
      <4>1. w[1] = j /\ (w[2] = 1 \/ (w[2] = 2 /\ source[j].kind = "la"))
        BY <3>2, NewWords
      <4>2. Cardinality(TextBelow(source', w[1])) + w[2] = n + w[2]
        BY <2>1, <2>5, <4>1
      <4>3. /\ code'[n + w[2]].line = source[j].line
            /\ code'[n + w[2]].op = WordOp(source[j].kind, w[2])
        BY <2>3, <4>1 DEF WordOp
      <4> HIDE DEF n
      <4> QED
        BY <2>1, <4>1, <4>2, <4>3 DEF Stands
    <3> QED
      BY <3>1, <3>2
  <2>9. SecondAt' = j + 1
    BY <2>1, <2>2 DEF SecondAt
  <2> QED
    BY <2>1, <2>7, <2>8, <2>9 DEF Transcribed
<1>3. CASE BackPatch
  <2>1. /\ phase = "patch" /\ UNCHANGED <<source, phase>> /\ Len(code') = n
        /\ errors_ \subseteq errors_'
        /\ \A k \in 1 .. n : code'[k].op = code[k].op /\ code'[k].line = code[k].line
    BY <1>3, BackPatches
  <2>2. SecondAt = Len(source) + 1 /\ SecondAt' = Len(source) + 1
    BY <2>1 DEF SecondAt
  <2> DEFINE j == Len(source) + 1
  <2>3. n = Cardinality(TextBelow(source, j)) /\ \A w \in TextBelow(source, j) : Stands(w)
    BY <2>1, <2>2 DEF Transcribed
  <2>4. \A w \in TextBelow(source, j) : Stands(w)'
    <3> HIDE DEF n, j
    <3>1. j \in Nat \ {0} /\ n \in Nat
      BY <1>0 DEF j
    <3>2. \A k \in 1 .. n : /\ intermediate_code_'[k].op = intermediate_code_[k].op
                            /\ intermediate_code_'[k].line = intermediate_code_[k].line
      BY <2>1
    <3> QED
      BY <2>1, <2>3, <3>1, <3>2, StaysStanding
  <2> QED
    BY <2>1, <2>2, <2>3, <2>4 DEF Transcribed
<1>4. CASE LoadProgram \/ Reject
  BY <1>4 DEF LoadProgram, Reject, EmptyParser
<1> QED
  BY <1>1, <1>2, <1>3, <1>4, CodeSteps

TextInv == TInv /\ Buffered /\ Sections /\ Passed /\ Transcribed

(* The code of a file without errors ends before the data. *)
LEMMA TextEnds ==
  ASSUME TextFits, PInv, Transcribed, phase = "patch", errors_ = {}
  PROVE  4 * Len(intermediate_code_) <= DataStart
<1> DEFINE j == Len(source) + 1
           B == Below(source, j)
           T == TextBelow(source, j)
           n == Len(intermediate_code_)
<1>1. n \in Nat /\ Len(source) \in Nat /\ j \in Nat \ {0} /\ DataStart \in Nat
  BY SourceLen, AssemblerAssumption
<1>2. n = Cardinality(T)
  BY DEF Transcribed, SecondAt
<1>3. IsFiniteSet(B) /\ Cardinality(B) \in Nat /\ T \subseteq B
  <2> HIDE DEF j
  <2>1. IsFiniteSet(B) /\ Cardinality(B) \in Nat
    BY <1>1, BelowFinite
  <2> QED
    BY <2>1 DEF TextBelow
<1>4. n <= Cardinality(B)
  BY <1>2, <1>3, FS_Subset
<1>5. CASE source \in Sources
  <2>1. 4 * Cardinality(B) <= DataStart
    BY <1>5 DEF TextFits
  <2> HIDE DEF B, n
  <2> QED
    BY <1>1, <1>3, <1>4, <2>1 DEF n
<1>6. CASE source = <<>>
  <2>1. Cardinality(T) = 0
    BY <1>6, EmptyLen, TextFirst
  <2> QED
    BY <1>1, <1>2, <2>1
<1> QED
  BY <1>5, <1>6 DEF PInv, Typed

(* LoadProgram writes the words of the text. *)
LEMMA LoadText ==
  ASSUME TextFits, TextInv, LoadProgram
  PROVE  TextComplete'
<1> DEFINE code == intermediate_code_
           n == Len(code)
           j == Len(source) + 1
<1>0. /\ PInv /\ phase = "patch" /\ errors_ = {} /\ Loaded' = source
      /\ n \in Nat /\ j \in Nat \ {0}
      /\ program_size_' = 4 * n
      /\ \A u : Encode(u).op = u.op /\ Encode(u).line = u.line
  BY SourceLen DEF LoadProgram, Assembled, Loaded, TextInv, TInv, Encode
<1>1. \A k \in 0 .. n - 1 : memory'[4 * k] = Encode(code[k + 1])
  BY <1>0, TextEnds, ImageWords DEF TextInv
<1>2. n = Cardinality(TextBelow(source, j)) /\ \A w \in TextBelow(source, j) : Stands(w)
  BY <1>0 DEF TextInv, Transcribed, SecondAt
<1>3. \A i : SectionOf(i)' = Under(source, i)
  BY <1>0 DEF SectionOf, Under
<1>4. \A i : TextUpTo(i)' = TextBelow(source, i)
  BY <1>0, <1>3 DEF TextBelow, TextUpTo
<1> SUFFICES /\ program_size_' = 4 * Cardinality(TextBelow(source, j))
             /\ \A w \in TextBelow(source, j) :
                  LET word == memory'[4 * (Cardinality(TextBelow(source, w[1])) + w[2] - 1)]
                  IN  /\ word.line = source[w[1]].line
                      /\ word.op = WordOp(source[w[1]].kind, w[2])
  BY <1>0, <1>4 DEF TextComplete, WordOp
<1>5. ASSUME NEW w \in TextBelow(source, j)
      PROVE  LET word == memory'[4 * (Cardinality(TextBelow(source, w[1])) + w[2] - 1)]
             IN  /\ word.line = source[w[1]].line
                 /\ word.op = WordOp(source[w[1]].kind, w[2])
  <2>1. PICK k \in 1 .. n : k = Cardinality(TextBelow(source, w[1])) + w[2]
    BY <1>0, <1>2, TextIndex
  <2>2. code[k].line = source[w[1]].line /\ code[k].op = WordOp(source[w[1]].kind, w[2])
    BY <1>2, <2>1 DEF Stands
  <2> HIDE DEF n
  <2>3. k - 1 \in 0 .. n - 1 /\ k - 1 + 1 = k
    BY <1>0, <2>1
  <2>4. memory'[4 * (k - 1)] = Encode(code[k])
    BY <1>1, <2>3
  <2> DEFINE word == memory'[4 * (k - 1)]
  <2>5. word.line = source[w[1]].line /\ word.op = WordOp(source[w[1]].kind, w[2])
    BY <1>0, <2>2, <2>4
  <2>6. Cardinality(TextBelow(source, w[1])) + w[2] - 1 = k - 1
    <3>1. w[1] \in Nat \ {0} /\ w[2] \in Nat
      BY <1>0, TextIndex
    <3>2. Cardinality(TextBelow(source, w[1])) \in Nat
      BY <3>1, TextGrows
    <3> QED
      BY <2>1, <3>1, <3>2
  <2> HIDE DEF word
  <2> QED
    BY <2>5, <2>6 DEF word
<1> QED
  BY <1>0, <1>2, <1>5

(* There is no text at the start. *)
LEMMA InitText ==
  ASSUME Init
  PROVE  TextInv /\ TextComplete
<1>1. TInv /\ Buffered
  BY InitTInv, InitLines
<1>2. phase = "idle" /\ program_size_ = 0 /\ Loaded = <<>> /\ Len(Loaded) + 1 = 1
  BY EmptyLen DEF Init, Loaded
<1>3. Sections /\ Passed /\ Transcribed
  BY <1>2 DEF Sections, Passed, Transcribed
<1>4. TextComplete
  <2>1. TextUpTo(Len(Loaded) + 1) = {}
    BY <1>2 DEF TextUpTo, Below
  <2>2. Cardinality({}) = 0
    BY FS_EmptySet
  <2>3. program_size_ = 4 * Cardinality(TextUpTo(Len(Loaded) + 1))
    BY <1>2, <2>1, <2>2
  <2> QED
    BY <2>1, <2>3 DEF TextComplete
<1> QED
  BY <1>1, <1>3, <1>4 DEF TextInv

(* Every step keeps the invariant. *)
LEMMA StepTextInv ==
  ASSUME NoTextLabel, TextInv, [Next]_vars
  PROVE  TextInv'
<1>1. PInv /\ Places /\ SymbolsTyped /\ UnitsTyped
  BY DEF TextInv, TInv
<1>2. TInv' /\ Buffered' /\ Sections'
  BY <1>1, StepTInv, StepBuffered, StepSections DEF TextInv
<1>3. Passed' /\ Transcribed'
  BY <1>1, StepPassed, StepTranscribed DEF TextInv
<1> QED
  BY <1>2, <1>3 DEF TextInv

(* No other step changes the image. *)
LEMMA KeepsText ==
  ASSUME TextComplete, [Next]_vars, ~LoadProgram
  PROVE  TextComplete'
<1>1. UNCHANGED <<program_, memory, program_size_>>
  BY MachineSteps DEF AddBreakpoint, RemoveBreakpoint
<1>2. Loaded' = Loaded
  BY <1>1 DEF Loaded
<1>3. \A j : SectionOf(j)' = SectionOf(j)
  BY <1>2 DEF SectionOf
<1>4. \A j : TextUpTo(j)' = TextUpTo(j)
  BY <1>2, <1>3 DEF TextUpTo
<1> QED
  BY <1>1, <1>2, <1>4 DEF TextComplete

(* Whatever such files without a label called text: the memory holds each   *)
(* instruction of the text sections of the file, in order and nothing else, *)
(* however they lie between its data and bss sections (Parser::parse).      *)
THEOREM TextOfSource ==
  ASSUME TextFits, NoTextLabel
  PROVE  Spec => []TextComplete
<1> DEFINE Inv == TextInv /\ TextComplete
<1>1. Init => Inv
  BY InitText
<1>2. Inv /\ [Next]_vars => Inv'
  BY StepTextInv, LoadText, KeepsText
<1>3. Inv => TextComplete
  OBVIOUS
<1> HIDE DEF Inv
<1> QED
  BY <1>1, <1>2, <1>3, PTL DEF Spec
-------------------------------------------------------------------------------
(***************************************************************************)
(* Addresses.  A la adds two signed parts up to the address of its label.  *)
(***************************************************************************)
(* The bytes of a regular file's items are finite in number, *)
LEMMA RoomsFinite ==
  ASSUME NEW src, NEW j \in Nat \ {0}, \A i \in 1 .. j - 1 : Room(src, i) \in Nat
  PROVE  IsFiniteSet(Rooms(src, j)) /\ Cardinality(Rooms(src, j)) \in Nat
<1> DEFINE I == 1 .. j - 1
           Of(i) == {i} \X (1 .. Room(src, i))
           f == [i \in I |-> Of(i)]
           T == {Of(i) : i \in I}
<1>1. IsFiniteSet(I)
  BY FS_Interval
<1>2. \A i \in I : IsFiniteSet(Of(i))
  <2> SUFFICES ASSUME NEW i \in I PROVE IsFiniteSet(Of(i))
    OBVIOUS
  <2> DEFINE R == 1 .. Room(src, i)
  <2>1. IsFiniteSet(R)
    <3>1. Room(src, i) \in Int /\ 1 \in Int
      OBVIOUS
    <3> QED
      BY <3>1, FS_Interval
  <2>2. IsFiniteSet({i})
    BY FS_Singleton
  <2> HIDE DEF R
  <2>3. IsFiniteSet({i} \X R)
    BY <2>1, <2>2, FS_Product
  <2> QED
    BY <2>3 DEF R
<1> HIDE DEF I, Of
<1>3. f \in Surjection(I, T)
  BY DEF Surjection
<1>4. IsFiniteSet(T)
  BY <1>1, <1>3, FS_Surjection
<1>5. \A S \in T : IsFiniteSet(S)
  BY <1>2
<1>6. IsFiniteSet(UNION T)
  <2> HIDE DEF T
  <2> QED
    BY <1>4, <1>5, FS_UNION
<1>7. Rooms(src, j) = UNION T
  BY DEF Rooms, I, Of
<1> QED
  BY <1>6, <1>7, FS_CardinalityType

(* and each item adds its own. *)
LEMMA RoomsGrow ==
  ASSUME NEW src, NEW j \in Nat \ {0}, \A i \in 1 .. j : Room(src, i) \in Nat
  PROVE  /\ Cardinality(Rooms(src, j)) \in Nat
         /\ Cardinality(Rooms(src, j + 1)) = Cardinality(Rooms(src, j)) + Room(src, j)
<1> DEFINE R == 1 .. Room(src, j)
           J == {j} \X R
           A == Rooms(src, j)
           B == Rooms(src, j + 1)
<1>1. j + 1 - 1 = j /\ j \in 1 .. j /\ Room(src, j) \in Nat /\ 1 .. j - 1 \subseteq 1 .. j
  OBVIOUS
<1>2. IsFiniteSet(A) /\ Cardinality(A) \in Nat
  <2>1. \A i \in 1 .. j - 1 : Room(src, i) \in Nat
    OBVIOUS
  <2> QED
    BY <2>1, RoomsFinite
<1>3. IsFiniteSet(R) /\ Cardinality(R) = Room(src, j)
  <2>1. Room(src, j) \in Int /\ 1 \in Int
    BY <1>1
  <2>2. IsFiniteSet(R) /\ Cardinality(R) = IF 1 > Room(src, j) THEN 0 ELSE Room(src, j) - 1 + 1
    BY <2>1, FS_Interval
  <2> QED
    BY <1>1, <2>2
<1>4. IsFiniteSet({j}) /\ Cardinality({j}) = 1
  BY FS_Singleton
<1>5. IsFiniteSet(J) /\ Cardinality(J) = Room(src, j)
  <2> HIDE DEF R
  <2>1. IsFiniteSet({j} \X R) /\ Cardinality({j} \X R) = Cardinality({j}) * Cardinality(R)
    BY <1>3, <1>4, FS_Product
  <2> QED
    BY <1>1, <1>3, <1>4, <2>1
<1>6. B = A \cup J
  <2>1. \A i : i \in 1 .. j <=> i \in 1 .. j - 1 \/ i = j
    OBVIOUS
  <2> QED
    BY <1>1, <2>1 DEF Rooms
<1>7. A \cap J = {}
  BY DEF Rooms
<1> HIDE DEF A, B, J
<1>8. Cardinality(B) = Cardinality(A) + Cardinality(J) - Cardinality({})
  BY <1>2, <1>5, <1>6, <1>7, FS_Union
<1>9. Cardinality({}) = 0
  BY FS_EmptySet
<1>10. Cardinality(B) = Cardinality(A) + Room(src, j)
  BY <1>1, <1>2, <1>5, <1>8, <1>9
<1> QED
  BY <1>2, <1>10 DEF A, B

(* Nothing comes before the first item. *)
LEMMA RoomsFirst == ASSUME NEW src PROVE Cardinality(Rooms(src, 1)) = 0
<1>1. Rooms(src, 1) = {}
  BY DEF Rooms
<1> QED
  BY <1>1, FS_EmptySet

(* How much an item of the file takes. *)
LEMMA RoomOf ==
  ASSUME PInv, NEW j \in 1 .. Len(source)
  PROVE  /\ Room(source, j) \in Nat
         /\ source[j].kind = "data" =>
              /\ source[j].align \in Nat \ {0} /\ source[j].values \in Nat
              /\ source[j].size \in Nat \ {0}
              /\ Room(source, j) = source[j].align + source[j].values * source[j].size
         /\ source[j].kind = "label" /\ j < Len(source) /\ source[j + 1].kind = "data" =>
              source[j + 1].align \in Nat \ {0} /\ Room(source, j) = source[j + 1].align
<1>1. \A i \in 1 .. Len(source) : source[i].kind = "data" =>
        /\ source[i].align \in Nat \ {0} /\ source[i].values \in Nat /\ source[i].size \in Nat \ {0}
  <2>1. \A it \in Items : it.kind = "data" =>
          it.size \in Nat \ {0} /\ it.align \in Nat \ {0} /\ it.values \in Nat
    BY DEF Items
  <2> QED
    BY <2>1, SourceLen
<1>2. CASE source[j].kind = "data"
  <2>1. Room(source, j) = source[j].align + source[j].values * source[j].size
    BY <1>2 DEF Room
  <2>2. source[j].values * source[j].size \in Nat
    BY <1>1, <1>2
  <2> QED
    BY <1>1, <1>2, <2>1, <2>2
<1>3. CASE source[j].kind = "label" /\ j < Len(source) /\ source[j + 1].kind = "data"
  <2>1. Room(source, j) = source[j + 1].align /\ j + 1 \in 1 .. Len(source)
    BY <1>3, SourceLen DEF Room
  <2> QED
    BY <1>1, <1>3, <2>1
<1>4. CASE source[j].kind # "data"
           /\ ~(source[j].kind = "label" /\ j < Len(source) /\ source[j + 1].kind = "data")
  <2>1. Room(source, j) = 0
    BY <1>4 DEF Room
  <2> QED
    BY <1>4, <2>1
<1> QED
  BY <1>2, <1>3, <1>4

(* Items further on have no less before them. *)
LEMMA RoomsMore ==
  ASSUME PInv, NEW j \in 1 .. Len(source) + 1, NEW i \in 1 .. j
  PROVE  /\ Cardinality(Rooms(source, i)) \in Nat /\ Cardinality(Rooms(source, j)) \in Nat
         /\ Cardinality(Rooms(source, i)) <= Cardinality(Rooms(source, j))
<1> DEFINE A == Rooms(source, i)
           B == Rooms(source, j)
<1>0. Len(source) \in Nat /\ \A m \in 1 .. Len(source) : Room(source, m) \in Nat
  BY SourceLen, RoomOf
<1>1. IsFiniteSet(A) /\ Cardinality(A) \in Nat
  <2>1. i \in Nat \ {0} /\ \A m \in 1 .. i - 1 : Room(source, m) \in Nat
    BY <1>0
  <2> QED
    BY <2>1, RoomsFinite
<1>2. IsFiniteSet(B) /\ Cardinality(B) \in Nat
  <2>1. j \in Nat \ {0} /\ \A m \in 1 .. j - 1 : Room(source, m) \in Nat
    BY <1>0
  <2> QED
    BY <2>1, RoomsFinite
<1>3. A \subseteq B
  <2>1. \A m \in 1 .. i - 1 : m \in 1 .. j - 1
    BY <1>0
  <2> QED
    BY <2>1 DEF Rooms
<1> HIDE DEF A, B
<1>4. Cardinality(A) <= Cardinality(B)
  BY <1>2, <1>3, FS_Subset
<1> QED
  BY <1>1, <1>2, <1>4 DEF A, B

(* The addresses of the data labels are not beyond the items read. *)
FirstAt == IF phase = "first" THEN pos_ ELSE Len(source) + 1

RoomAt == Cardinality(Rooms(source, FirstAt))

Bounded ==
  Parsing =>
    /\ phase = "first" => data_index_ <= RoomAt
    /\ \A name \in DOMAIN symbol_table_ : symbol_table_[name].isData =>
         InData(name) /\ symbol_table_[name].address <= RoomAt

(* A file that is being parsed is read on. *)
LEMMA ReadFurther ==
  ASSUME PInv, Places, [Next]_vars, Parsing', phase # "idle"
  PROVE  /\ Parsing /\ UNCHANGED source
         /\ phase' = "first" => phase = "first"
         /\ FirstAt \in 1 .. Len(source) + 1 /\ FirstAt' \in 1 .. Len(source) + 1
         /\ FirstAt <= FirstAt'
<1>0. pos_ \in Nat \ {0} /\ Len(source) \in Nat /\ pos_ <= Len(source) + 1
  BY SourceLen DEF Places
<1>1. Places' /\ PInv'
  BY StepPlaces, StepPInv
<1>2. UNCHANGED source /\ (phase' = "first" => phase = "first")
  BY PhaseOn
<1>3. pos_' \in Nat \ {0} /\ pos_' <= Len(source) + 1
  BY <1>1, <1>2, SourceLen DEF Places, PInv, Typed
<1>4. errors_ \subseteq errors_'
  <2>1. phase' # "idle"
    BY DEF Parsing
  <2>2. ASSUME LoadProgram \/ Reject PROVE FALSE
    BY <2>1, <2>2 DEF LoadProgram, Reject, EmptyParser
  <2>3. CASE Transfer \/ LoadAddress \/ Plain
    BY <2>3 DEF Transfer, LoadAddress, Plain, Error, NoError
  <2>4. CASE BackPatch
    BY <2>4 DEF BackPatch, Error, NoError
  <2> QED
    BY <2>2, <2>3, <2>4, CodeSteps
<1>5. ASSUME phase = "first", phase' = "first" PROVE pos_ <= pos_'
  <2>1. CASE FirstTop \/ FirstSkip \/ DataEnd \/ DataLabel \/ DataDirective \/ DataOther
    <3>1. pos_' = pos_ \/ pos_' = pos_ + 1
      BY <2>1 DEF FirstTop, FirstSkip, DataEnd, DataLabel, DataDirective, DataOther, Advance, Goto
    <3> QED
      BY <1>0, <3>1
  <2>2. CASE \/ FirstEnd \/ SecondTop \/ SecondSkip \/ SecondEnd \/ TextEnd \/ TextLabel
             \/ Transfer \/ LoadAddress \/ Plain \/ BackPatch \/ LoadProgram \/ Reject
             \/ \E file \in Sources : Load(file)
    BY <1>5, <2>2 DEF FirstEnd, SecondTop, SecondSkip, SecondEnd, TextEnd, TextLabel, InText,
      Transfer, LoadAddress, Plain, BackPatch, LoadProgram, Reject, Assembled, Load
  <2>3. CASE \/ \E line \in DOMAIN program_.lines : AddBreakpoint(line) \/ RemoveBreakpoint(line)
             \/ UNCHANGED vars
    <3>1. pos_' = pos_
      BY <2>3 DEF AddBreakpoint, RemoveBreakpoint, vars, parser
    <3> QED
      BY <1>0, <3>1
  <2> QED
    BY <2>1, <2>2, <2>3 DEF Next, Parse
<1>6. Parsing
  BY <1>4 DEF Parsing
<1> QED
  BY <1>0, <1>2, <1>3, <1>5, <1>6 DEF FirstAt

(* Every step keeps the addresses within the items read. *)
LEMMA StepBounded ==
  ASSUME NoTextLabel, PInv, Places, SymbolsTyped, Sections, Fresh, Skipped, Followed, Bounded,
         [Next]_vars
  PROVE  Bounded'
<1> SUFFICES ASSUME Parsing' PROVE Bounded'
  BY DEF Bounded
<1>0. /\ pos_ \in Nat \ {0} /\ Len(source) \in Nat /\ errors_' = {} /\ phase' # "idle"
      /\ data_index_ \in Nat
  BY SourceLen DEF Parsing, SymbolsTyped
<1>1. CASE phase = "idle"
  <2>1. /\ symbol_table_ = <<>> /\ pos_ = 1 /\ data_index_ = 0
    BY <1>1 DEF Places, Fresh
  <2>2. PICK file \in Sources : Load(file)
    <3>1. ASSUME Parse PROVE FALSE
      BY <1>1, <3>1 DEF Parse, FirstTop, FirstSkip, FirstEnd, DataEnd, DataLabel, DataDirective,
        DataOther, SecondTop, SecondSkip, SecondEnd, TextEnd, TextLabel, InText, Transfer,
        LoadAddress, Plain, BackPatch, LoadProgram, Reject, Assembled
    <3>2. ASSUME NEW line, AddBreakpoint(line) \/ RemoveBreakpoint(line) PROVE FALSE
      BY <1>0, <1>1, <3>2 DEF AddBreakpoint, RemoveBreakpoint, parser
    <3>3. ~UNCHANGED vars
      BY <1>0, <1>1 DEF vars, parser
    <3> QED
      BY <3>1, <3>2, <3>3 DEF Next
  <2>3. phase' = "first" /\ UNCHANGED <<pos_, symbol_table_, data_index_>>
    BY <2>2 DEF Load
  <2>4. FirstAt' = 1
    BY <2>1, <2>3 DEF FirstAt
  <2>5. RoomAt' = 0
    BY <2>4, RoomsFirst DEF RoomAt
  <2>6. DOMAIN symbol_table_' = {}
    BY <2>1, <2>3
  <2> QED
    BY <2>1, <2>3, <2>5, <2>6 DEF Bounded
<1>2. CASE phase # "idle"
  <2>1. /\ Parsing /\ UNCHANGED source /\ (phase' = "first" => phase = "first")
        /\ FirstAt \in 1 .. Len(source) + 1 /\ FirstAt' \in 1 .. Len(source) + 1
        /\ FirstAt <= FirstAt'
    BY <1>2, ReadFurther
  <2>2. RoomAt \in Nat /\ RoomAt' \in Nat /\ RoomAt <= RoomAt'
    <3>1. PICK i, j \in 1 .. Len(source) + 1 : i = FirstAt /\ j = FirstAt' /\ i <= j
      BY <2>1
    <3>2. RoomAt = Cardinality(Rooms(source, i)) /\ RoomAt' = Cardinality(Rooms(source, j))
      BY <2>1, <3>1 DEF RoomAt
    <3>3. i \in 1 .. j
      BY <3>1
    <3> QED
      BY <3>2, <3>3, RoomsMore
  <2>3. /\ phase = "first" => data_index_ <= RoomAt
        /\ \A name \in DOMAIN symbol_table_ : symbol_table_[name].isData =>
             /\ InData(name) /\ symbol_table_[name].address <= RoomAt
             /\ symbol_table_[name].address \in Nat
    BY <2>1 DEF Bounded, SymbolsTyped
  <2>4. \A name : InData(name)' <=> InData(name)
    BY <2>1 DEF InData
  <2>5. CASE UNCHANGED <<data_index_, symbol_table_>>
    <3>1. phase' = "first" => data_index_' <= RoomAt'
      BY <1>0, <2>1, <2>2, <2>3, <2>5
    <3>2. \A name \in DOMAIN symbol_table_ : symbol_table_[name].isData =>
            InData(name)' /\ symbol_table_[name].address <= RoomAt'
      BY <2>2, <2>3, <2>4
    <3> QED
      BY <2>5, <3>1, <3>2 DEF Bounded
  <2>6. CASE TextLabel /\ ~UNCHANGED <<data_index_, symbol_table_>>
    <3> DEFINE entry == Symbol(4 * Len(intermediate_code_), Item.line, FALSE)
    <3>1. /\ UNCHANGED data_index_ /\ phase' = "second"
          /\ symbol_table_' = Bind(symbol_table_, Item.name, entry)
      BY <2>6 DEF TextLabel, InText
    <3>2. entry.isData = FALSE
      BY DEF Symbol
    <3> HIDE DEF entry
    <3>3. ASSUME NEW name \in DOMAIN symbol_table_', symbol_table_'[name].isData
          PROVE  InData(name)' /\ symbol_table_'[name].address <= RoomAt'
      <4>1. name \in DOMAIN symbol_table_ /\ symbol_table_'[name] = symbol_table_[name]
        BY <3>1, <3>2, <3>3 DEF Bind
      <4> QED
        BY <2>2, <2>3, <2>4, <3>3, <4>1
    <3> QED
      BY <3>1, <3>3 DEF Bounded
  <2>7. CASE DataLabel
    <3> DEFINE entry == Symbol(data_index_', Item.line, TRUE)
    <3>1. PICK j \in 1 .. Len(source) : j = pos_
      BY <1>0, <2>7, LabelMet
    <3>2. /\ phase = "first" /\ phase' = "first" /\ pos_' = j + 1 /\ j < Len(source)
          /\ Item = source[j] /\ IsDataLabel(source, j) /\ source[j + 1].kind = "data"
          /\ data_index_' = AlignUp(data_index_, source[j + 1].align)
          /\ symbol_table_' = Bind(symbol_table_, Item.name, entry)
      BY <1>0, <2>7, <3>1, LabelMet
    <3>3. source[j + 1].align \in Nat \ {0} /\ Room(source, j) = source[j + 1].align
      BY <3>2, RoomOf DEF IsDataLabel
    <3>4. RoomAt' = RoomAt + Room(source, j)
      <4>1. FirstAt = j /\ FirstAt' = j + 1
        BY <3>1, <3>2 DEF FirstAt
      <4>2. \A i \in 1 .. j : Room(source, i) \in Nat
        BY <1>0, RoomOf
      <4>3. RoomAt = Cardinality(Rooms(source, j)) /\ RoomAt' = Cardinality(Rooms(source, j + 1))
        BY <2>1, <4>1 DEF RoomAt
      <4> QED
        BY <4>2, <4>3, RoomsGrow
    <3>5. data_index_' \in Nat /\ data_index_' < data_index_ + source[j + 1].align
      BY <1>0, <3>2, <3>3, AlignIs
    <3>6. data_index_' <= RoomAt'
      BY <1>0, <2>2, <2>3, <3>2, <3>3, <3>4, <3>5
    <3>7. entry.address = data_index_'
      BY DEF Symbol
    <3> HIDE DEF entry
    <3>8. ASSUME NEW name \in DOMAIN symbol_table_', symbol_table_'[name].isData
          PROVE  InData(name)' /\ symbol_table_'[name].address <= RoomAt'
      <4>1. CASE name = Item.name
        <5>1. symbol_table_'[name] = entry
          BY <3>2, <3>8, <4>1 DEF Bind
        <5>2. InData(name)
          BY <3>2, <4>1 DEF InData, Labels, IsDataLabel
        <5> QED
          BY <2>4, <3>6, <3>7, <5>1, <5>2
      <4>2. CASE name # Item.name
        <5>1. name \in DOMAIN symbol_table_ /\ symbol_table_'[name] = symbol_table_[name]
          BY <3>2, <3>8, <4>2 DEF Bind
        <5> QED
          BY <2>2, <2>3, <2>4, <3>8, <5>1
      <4> QED
        BY <4>1, <4>2
    <3> QED
      BY <3>6, <3>8 DEF Bounded
  <2>8. CASE DataDirective
    <3>1. PICK j \in 1 .. Len(source) : j = pos_
      BY <1>0, <2>8, DirectiveMet
    <3>2. /\ phase = "first" /\ phase' = "first" /\ pos_' = j + 1 /\ UNCHANGED symbol_table_
          /\ Item = source[j] /\ source[j].kind = "data"
          /\ data_index_' = IF Item.values = 0 THEN data_index_
                            ELSE AlignUp(data_index_, Item.align) + Item.values * Item.size
      BY <1>0, <2>8, <3>1, DirectiveMet
    <3>3. /\ Item.align \in Nat \ {0} /\ Item.values \in Nat /\ Item.size \in Nat \ {0}
          /\ Room(source, j) = Item.align + Item.values * Item.size
      BY <3>2, RoomOf
    <3>4. RoomAt' = RoomAt + Room(source, j)
      <4>1. FirstAt = j /\ FirstAt' = j + 1
        BY <3>1, <3>2 DEF FirstAt
      <4>2. \A i \in 1 .. j : Room(source, i) \in Nat
        BY <1>0, RoomOf
      <4>3. RoomAt = Cardinality(Rooms(source, j)) /\ RoomAt' = Cardinality(Rooms(source, j + 1))
        BY <2>1, <4>1 DEF RoomAt
      <4> QED
        BY <4>2, <4>3, RoomsGrow
    <3>5. data_index_' <= RoomAt'
      <4>1. AlignUp(data_index_, Item.align) \in Nat
            /\ AlignUp(data_index_, Item.align) < data_index_ + Item.align
        BY <1>0, <3>3, AlignIs
      <4>2. PICK bytes \in Nat : bytes = Item.values * Item.size
        BY <3>3
      <4>3. data_index_ <= RoomAt
        BY <2>3, <3>2
      <4>4. data_index_' = data_index_ \/ data_index_' = AlignUp(data_index_, Item.align) + bytes
        BY <3>2, <4>2
      <4>5. RoomAt' = RoomAt + (Item.align + bytes)
        BY <3>3, <3>4, <4>2
      <4> QED
        BY <1>0, <2>2, <3>3, <4>1, <4>3, <4>4, <4>5
    <3>6. \A name \in DOMAIN symbol_table_ : symbol_table_[name].isData =>
            InData(name)' /\ symbol_table_[name].address <= RoomAt'
      BY <2>2, <2>3, <2>4
    <3> QED
      BY <3>2, <3>5, <3>6 DEF Bounded
  <2>9. ~(LoadProgram \/ Reject)
    BY <1>0 DEF LoadProgram, Reject, EmptyParser
  <2> QED
    BY <2>5, <2>6, <2>7, <2>8, <2>9, SymbolSteps
<1> QED
  BY <1>1, <1>2

(* Every auipc is the first unit of a la of the text, whose label had then  *)
(* the address that it has now.                                             *)
Pairs(i, k) ==
  LET distance == Distance(symbol_table_[source[i].of].address, k - 1) IN
  /\ source[i].kind = "la" /\ Under(source, i) = "text"
  /\ source[i].line = intermediate_code_[k].line
  /\ KnownData(source[i].of)
  /\ k + 1 <= Len(intermediate_code_)
  /\ IsUpper(intermediate_code_[k], distance) /\ IsLower(intermediate_code_[k + 1], distance)

Loads ==
  phase \in {"second", "patch"} /\ errors_ = {} =>
    \A k \in 1 .. Len(intermediate_code_) : intermediate_code_[k].op = "auipc" =>
      \E i \in 1 .. Len(source) : Pairs(i, k)

(* Units that stay where they are keep their labels. *)
LEMMA StaysPaired ==
  ASSUME UNCHANGED source,
         \A name \in DOMAIN symbol_table_ :
           name \in DOMAIN symbol_table_' /\ symbol_table_'[name] = symbol_table_[name],
         NEW k, NEW i, Pairs(i, k),
         k + 1 <= Len(intermediate_code_'),
         intermediate_code_'[k] = intermediate_code_[k],
         intermediate_code_'[k + 1] = intermediate_code_[k + 1]
  PROVE  Pairs(i, k)'
BY DEF Pairs, KnownData

(* Every step keeps the units of the addresses. *)
LEMMA StepLoads ==
  ASSUME NoTextLabel, PInv, Places, SymbolsTyped, UnitsTyped, Due, Sections, Fresh, Skipped,
         Followed, Loads, [Next]_vars
  PROVE  Loads'
<1> DEFINE code == intermediate_code_
           n == Len(code)
<1> SUFFICES ASSUME phase' \in {"second", "patch"}, errors_' = {}
             PROVE  \A k \in 1 .. Len(code') : code'[k].op = "auipc" =>
                      \E i \in 1 .. Len(source') : Pairs(i, k)'
  BY DEF Loads
<1>0. n \in Nat /\ Len(source) \in Nat /\ Parsing'
  BY SourceLen DEF Parsing
<1>1. CASE UNCHANGED code
  <2>1. CASE phase \in {"idle", "first"}
    <3>1. code = <<>>
      BY <2>1 DEF Places
    <3> QED
      BY <1>1, <3>1, EmptyLen
  <2>2. CASE phase \in {"second", "patch"}
    <3>1. /\ Parsing /\ UNCHANGED source
          /\ \A name \in DOMAIN symbol_table_ :
               name \in DOMAIN symbol_table_' /\ symbol_table_'[name] = symbol_table_[name]
      <4>1. Calm \/ (Parsing /\ Still)
        <5>1. ~Begins
          BY DEF Begins
        <5>2. ~DataLabel /\ ~DataDirective
          BY <2>2 DEF DataLabel, DataDirective
        <5> QED
          BY <1>0, <5>1, <5>2, ParseSteps
      <4> QED
        BY <4>1 DEF Calm, Still
    <3>2. ASSUME NEW k \in 1 .. n, code[k].op = "auipc"
          PROVE  \E i \in 1 .. Len(source) : Pairs(i, k)'
      <4>1. PICK i \in 1 .. Len(source) : Pairs(i, k)
        BY <2>2, <3>1, <3>2 DEF Loads, Parsing
      <4>2. k + 1 <= Len(code')
        BY <1>1, <4>1 DEF Pairs
      <4> QED
        BY <1>1, <3>1, <4>1, <4>2, StaysPaired
    <3> QED
      BY <1>1, <3>1, <3>2
  <2> QED
    BY <2>1, <2>2 DEF Places
<1>2. CASE Transfer \/ LoadAddress \/ Plain
  <2>1. /\ phase = "second" /\ ~AtEnd /\ loop = "text" /\ UNCHANGED <<source, symbol_table_>>
    BY <1>2, EmitSteps
  <2>2. PICK j \in 1 .. Len(source) : j = pos_ /\ Item = source[j]
    BY <2>1, AtItem
  <2> DEFINE d == Distance(symbol_table_[source[j].of].address, n)
  <2>3. /\ errors_ = {}
        /\ \A k \in 1 .. n : code'[k] = code[k]
        /\ source[j].kind \in {"branch", "jal", "la", "op"}
        /\ source[j].kind # "la" => Len(code') = n + 1 /\ code'[n + 1].op = source[j].kind
        /\ source[j].kind = "la" =>
             /\ KnownData(source[j].of)
             /\ Len(code') = n + 2
             /\ code'[n + 1].line = source[j].line
             /\ IsUpper(code'[n + 1], d) /\ IsLower(code'[n + 2], d)
    BY <1>2, <2>2, Emitted
  <2>4. Under(source, j) = "text"
    BY <2>1, <2>2 DEF Sections
  <2>5. ASSUME NEW k \in 1 .. n, code'[k].op = "auipc"
        PROVE  \E i \in 1 .. Len(source) : Pairs(i, k)'
    <3>1. code'[k] = code[k]
      BY <2>3
    <3>2. PICK i \in 1 .. Len(source) : Pairs(i, k)
      BY <2>1, <2>3, <2>5, <3>1 DEF Loads
    <3>3. k + 1 \in 1 .. n /\ k + 1 <= Len(code')
      BY <1>0, <2>3, <3>2 DEF Pairs
    <3>4. code'[k + 1] = code[k + 1]
      BY <2>3, <3>3
    <3> QED
      BY <2>1, <3>1, <3>2, <3>3, <3>4, StaysPaired
  <2>m. PICK m \in Nat : m = n + 1
    BY <1>0
  <2>6. ASSUME source[j].kind = "la" PROVE Pairs(j, m)'
    <3>1. m - 1 = n /\ m + 1 = n + 2 /\ m + 1 <= Len(code')
      BY <1>0, <2>3, <2>6, <2>m
    <3>2. KnownData(source[j].of)'
      BY <2>1, <2>3, <2>6 DEF KnownData
    <3>3. Distance(symbol_table_'[source[j].of].address, m - 1) = d
      BY <2>1, <3>1
    <3> HIDE DEF n, d
    <3>4. IsUpper(code'[m], d) /\ IsLower(code'[m + 1], d) /\ code'[m].line = source[j].line
      BY <2>3, <2>6, <2>m, <3>1
    <3> QED
      BY <2>1, <2>4, <2>6, <3>1, <3>2, <3>3, <3>4 DEF Pairs
  <2>7. CASE source[j].kind = "la"
    <3> SUFFICES ASSUME NEW k \in 1 .. Len(code'), code'[k].op = "auipc"
                 PROVE  \E i \in 1 .. Len(source) : Pairs(i, k)'
      BY <2>1
    <3>1. k \in 1 .. n \/ k = m \/ k = n + 2
      BY <1>0, <2>3, <2>7, <2>m
    <3>2. code'[n + 2].op = "addi"
      BY <2>3, <2>7 DEF IsLower
    <3>3. k # n + 2
      BY <3>2
    <3>4. k = m => Pairs(j, k)'
      BY <2>6, <2>7
    <3> QED
      BY <2>5, <3>1, <3>3, <3>4
  <2>8. CASE source[j].kind # "la"
    <3> SUFFICES ASSUME NEW k \in 1 .. Len(code'), code'[k].op = "auipc"
                 PROVE  \E i \in 1 .. Len(source) : Pairs(i, k)'
      BY <2>1
    <3>1. k \in 1 .. n \/ k = n + 1
      BY <1>0, <2>3, <2>8
    <3>2. k # n + 1
      BY <2>3, <2>8
    <3> QED
      BY <2>5, <3>1, <3>2
  <2> QED
    BY <2>7, <2>8
<1>3. CASE BackPatch
  <2>1. /\ phase = "patch" /\ pos_ \in 1 .. Len(back_patch_)
        /\ UNCHANGED <<source, symbol_table_>> /\ errors_ = {} /\ Len(code') = n
        /\ \E e : \A m \in 1 .. n :
             code'[m] = IF m = back_patch_[pos_] + 1 THEN e ELSE code[m]
    BY <1>3, BackPatches
  <2>2. PICK h : h = back_patch_[pos_] + 1
    OBVIOUS
  <2>3. \A m \in 1 .. n : m # h => code'[m] = code[m]
    BY <2>1, <2>2
  <2>4. ~code[h].patched
    BY <1>0, <2>1, <2>2 DEF Due
  <2>5. h \in 1 .. n
    BY <1>0, <2>1, <2>2 DEF PInv, Typed
  <2>6. ASSUME NEW k \in 1 .. n, code'[k].op = "auipc"
        PROVE  \E i \in 1 .. Len(source) : Pairs(i, k)'
    <3>1. code'[k].op = code[k].op
      BY <1>3, <2>6, BackPatches
    <3>2. PICK i \in 1 .. Len(source) : Pairs(i, k)
      BY <2>1, <2>6, <3>1 DEF Loads
    <3>3. k + 1 \in 1 .. n
      BY <1>0, <3>2 DEF Pairs
    <3>4. code[k].patched = TRUE /\ code[k + 1].patched = TRUE
      BY <3>2 DEF Pairs, IsUpper, IsLower
    <3>5. code'[k] = code[k] /\ code'[k + 1] = code[k + 1]
      BY <2>3, <2>4, <3>3, <3>4
    <3>6. k + 1 <= Len(code')
      BY <2>1, <3>3
    <3> QED
      BY <2>1, <3>2, <3>5, <3>6, StaysPaired
  <2> QED
    BY <2>1, <2>6
<1>4. CASE LoadProgram \/ Reject
  BY <1>4 DEF LoadProgram, Reject, EmptyParser
<1> QED
  BY <1>1, <1>2, <1>3, <1>4, CodeSteps

(* The halves of an even number. *)
LEMMA Halves ==
  ASSUME NEW m \in Nat \ {0}, m % 2 = 0
  PROVE  m \div 2 \in Nat \ {0} /\ m = 2 * (m \div 2)
OBVIOUS

(* The two immediates of a la add up to the distance: the upper one is not  *)
(* so great that its sign turns, and the lower one is within a half page.   *)
LEMMA PartsOfDistance ==
  ASSUME NEW address \in Nat, NEW n \in Nat, 4 * n <= DataStart,
         DataStart + address + Page \div 2 < (Pages \div 2) * Page,
         NEW u, IsUpper(u, Distance(address, n)), NEW v, IsLower(v, Distance(address, n))
  PROVE  /\ Signed(Encode(u)) \in Int /\ Signed(Encode(v)) \in Int
         /\ 4 * n + Signed(Encode(u)) * Page + Signed(Encode(v)) = DataStart + address
<1> DEFINE h == Page \div 2
           H == Pages \div 2
           d == Distance(address, n)
<1>1. /\ Page \in Nat \ {0} /\ Pages \in Nat \ {0} /\ DataStart \in Nat
      /\ h \in Nat \ {0} /\ Page = 2 * h /\ H \in Nat \ {0} /\ Pages = 2 * H
  BY AssemblerAssumption, Halves
<1>2. d = DataStart + address - 4 * n /\ d \in Nat /\ d + h < H * Page
  <2>1. d = DataStart + address - 4 * n
    BY DEF Distance
  <2>2. PICK top \in Nat : top = H * Page
    BY <1>1
  <2> HIDE DEF d, h, H
  <2>3. DataStart + address + h < top
    BY <2>2 DEF h, H
  <2> QED
    BY <1>1, <2>1, <2>2, <2>3
<1> HIDE DEF h, H, d
<1>3. PICK q \in Nat, r \in 0 .. Page - 1 :
        q = (d + h) \div Page /\ d + h = q * Page + r /\ q * Page \in Nat
  <2>1. d + h \in Nat
    BY <1>1, <1>2
  <2> QED
    BY <1>1, <2>1, DivMod
<1>4. q \in 0 .. H - 1
  <2>1. H - 1 \in Nat /\ (H - 1) * Page + Page = H * Page /\ (H - 1) * Page \in Nat
    BY <1>1
  <2>2. q * Page < (H - 1) * Page + Page
    <3>1. PICK top \in Nat : top = H * Page
      BY <1>1
    <3>2. PICK whole \in Nat : whole = q * Page
      BY <1>3
    <3>3. whole < top
      BY <1>1, <1>2, <1>3, <3>1, <3>2
    <3> QED
      BY <2>1, <3>1, <3>2, <3>3
  <2>3. q <= H - 1
    BY <1>1, <2>1, <2>2, MultipleGap
  <2> QED
    BY <1>1, <2>3
<1>5. Upper(d) = q
  BY <1>3 DEF Upper, h
<1>6. d - Upper(d) * Page = r - h
  <2>1. PICK whole \in Nat : whole = q * Page
    BY <1>3
  <2> QED
    BY <1>1, <1>2, <1>3, <1>5, <2>1
<1>7. Signed(Encode(u)) = q
  <2>1. Encode(u).op = "auipc" /\ Encode(u).imm = q % Pages /\ Modulus("auipc") = Pages
    BY <1>5 DEF IsUpper, Encode, Kept, Modulus, d
  <2>2. LET m == q % (2 * H) IN (IF m < (2 * H) \div 2 THEN m ELSE m - 2 * H) = q
    <3>1. q \in Int /\ -H <= q /\ q < H
      BY <1>1, <1>4
    <3> QED
      BY <1>1, <3>1, SignedExact
  <2> QED
    BY <1>1, <2>1, <2>2 DEF Signed
<1>8. Signed(Encode(v)) = r - h
  <2>1. Encode(v).op = "addi" /\ Encode(v).imm = (r - h) % Page /\ Modulus("addi") = Page
    BY <1>6 DEF IsLower, Encode, Kept, Modulus, d
  <2>2. LET m == (r - h) % (2 * h) IN (IF m < (2 * h) \div 2 THEN m ELSE m - 2 * h) = r - h
    <3>1. r - h \in Int /\ -h <= r - h /\ r - h < h
      BY <1>1, <1>3
    <3> QED
      BY <1>1, <3>1, SignedExact
  <2> QED
    BY <1>1, <2>1, <2>2 DEF Signed
<1>9. 4 * n + q * Page + (r - h) = DataStart + address
  <2>1. PICK whole \in Nat : whole = q * Page
    BY <1>3
  <2>2. d + h = whole + r
    BY <1>3, <2>1
  <2> QED
    BY <1>1, <1>2, <1>3, <2>1, <2>2
<1>10. r - h \in Int
  BY <1>1, <1>3
<1> QED
  BY <1>7, <1>8, <1>9, <1>10

(* The upper immediate has room for the distance to a data label. *)
LEMMA AddressNear ==
  ASSUME DataFits, PInv, SymbolsTyped, Bounded, Parsing, phase = "patch",
         NEW name, KnownData(name)
  PROVE  /\ symbol_table_[name].address \in Nat /\ InData(name)
         /\ DataStart + symbol_table_[name].address + Page \div 2 < (Pages \div 2) * Page
<1> DEFINE j == Len(source) + 1
           address == symbol_table_[name].address
           room == Cardinality(Rooms(source, j))
<1>1. /\ address \in Nat /\ InData(name) /\ address <= room
  BY DEF Bounded, KnownData, RoomAt, FirstAt, SymbolsTyped
<1>2. room \in Nat
  <2>1. Len(source) \in Nat /\ j \in 1 .. Len(source) + 1 /\ 1 \in 1 .. j
    BY SourceLen
  <2> QED
    BY <2>1, RoomsMore
<1>3. source \in Sources
  BY <1>1, EmptyLen DEF InData, PInv, Typed
<1>4. DataStart + room + Page \div 2 < (Pages \div 2) * Page
  BY <1>3 DEF DataFits
<1>5. DataStart \in Nat /\ Page \div 2 \in Nat /\ (Pages \div 2) * Page \in Nat
  <2>1. Page \div 2 \in Nat /\ Pages \div 2 \in Nat /\ Page \in Nat /\ DataStart \in Nat
    BY AssemblerAssumption, Halves
  <2> QED
    BY <2>1
<1> HIDE DEF room, address, j
<1>6. DataStart + address + Page \div 2 < (Pages \div 2) * Page
  <2>1. PICK h \in Nat, top \in Nat : h = Page \div 2 /\ top = (Pages \div 2) * Page
    BY <1>5
  <2> QED
    BY <1>1, <1>2, <1>4, <1>5, <2>1
<1> QED
  BY <1>1, <1>6 DEF address

AddressInv == DataLabelInv /\ Passed /\ Transcribed /\ Bounded /\ Loads

(* The last definition of a name is a data label of the loaded program. *)
LEMMA LastDefined ==
  ASSUME PInv, Loaded' = source, NEW name, InData(name)
  PROVE  \E j \in 1 .. Len(source) :
           /\ j = LastLabel(name)' /\ IsDataLabel(source, j) /\ source[j].name = name
           /\ j \in DataLabels'
<1> DEFINE S == {j \in 1 .. Len(source) : IsDataLabel(source, j) /\ source[j].name = name}
<1>0. Len(source) \in Nat /\ DOMAIN source = 1 .. Len(source)
  BY SourceLen
<1>1. \A j : SectionOf(j)' = Under(source, j)
  BY DEF SectionOf, Under
<1>2. ItemsIn("data")' = {j \in 1 .. Len(source) : source[j].kind # "section"
                                                   /\ Under(source, j) = "data"}
  BY <1>0, <1>1 DEF ItemsIn
<1>3. {j \in ItemsIn("data")' : source[j].kind = "label" /\ source[j].name = name} = S
  BY <1>2 DEF IsDataLabel
<1>m. \A any : LastLabel(any)' =
        Max({j \in ItemsIn("data")' : source[j].kind = "label" /\ source[j].name = any})
  BY DEF LastLabel
<1>4. PICK last : last = Max(S) /\ last = LastLabel(name)'
  BY <1>3, <1>m
<1>5. S # {} /\ S \in SUBSET (1 .. Len(source))
  BY DEF InData, Labels, IsDataLabel
<1>6. last \in S
  <2> HIDE DEF S
  <2> QED
    BY <1>0, <1>4, <1>5, LastOf
<1>7. last \in 1 .. Len(source) /\ IsDataLabel(source, last) /\ source[last].name = name
  BY <1>6
<1> HIDE DEF S
<1>8. last \in DataLabels'
  <2>1. last \in ItemsIn("data")'
    BY <1>2, <1>7 DEF IsDataLabel
  <2>2. \A j : j \in DataLabels' <=>
          /\ j \in ItemsIn("data")' /\ source[j].kind = "label"
          /\ j = Max({i \in ItemsIn("data")' : source[i].kind = "label"
                                              /\ source[i].name = source[j].name})
    BY DEF DataLabels, LastLabel
  <2> QED
    BY <1>3, <1>4, <1>7, <2>1, <2>2 DEF IsDataLabel, S
<1> QED
  BY <1>4, <1>7, <1>8

(* The first byte of the values behind a data label is at its address. *)
LEMMA FirstByte ==
  ASSUME PInv, Followed, Parsing, phase = "patch", Loaded' = source,
         program_'.symbol_table = symbol_table_, DataAtLabels',
         NEW j \in 1 .. Len(source), IsDataLabel(source, j), j \in DataLabels', Placed(j)',
         AddressOf(j) \in Nat
  PROVE  LET a == DataStart + AddressOf(j)
         IN  a \in DOMAIN memory' /\ memory'[a] = ValueOf(j, 1, 0)'
<1> DEFINE it == source[j + 1]
           address == DataStart + AddressOf(j)
<1>1. /\ Len(source) \in Nat /\ j < Len(source) /\ it.kind = "data"
      /\ it.values > 0
  BY SourceLen DEF Followed, Met, Placed
<1>2. it.values \in Nat /\ it.size \in Nat \ {0}
  <2>1. j + 1 \in 1 .. Len(source)
    BY <1>1
  <2> QED
    BY <1>1, <2>1, RoomOf
<1>3. 1 \in 1 .. it.values /\ 0 \in 0 .. it.size - 1
  BY <1>1, <1>2
<1>4. \A n \in 1 .. it.values, b \in 0 .. it.size - 1 :
        LET a == address + (n - 1) * it.size + b
        IN  a \in DOMAIN memory' /\ memory'[a] = ValueOf(j, n, b)'
  BY DEF DataAtLabels, AddressOf
<1>5. LET a == address + (1 - 1) * it.size + 0
      IN  a \in DOMAIN memory' /\ memory'[a] = ValueOf(j, 1, 0)'
  <2> HIDE DEF address, it
  <2> QED
    BY <1>3, <1>4
<1>6. DataStart + AddressOf(j) \in Int
  BY AssemblerAssumption
<1>7. \A x \in Int, n \in Nat : x + (1 - 1) * n + 0 = x
  OBVIOUS
<1>8. address + (1 - 1) * it.size + 0 = address
  BY <1>2, <1>6, <1>7
<1> QED
  BY <1>5, <1>8

(* LoadProgram writes the parts that add up to the labels' addresses. *)
LEMMA LoadAddresses ==
  ASSUME TextFits, DataAligned, DataFits, AddressInv, LoadProgram
  PROVE  AddressesLoaded'
<1> DEFINE code == intermediate_code_
           n == Len(code)
           new == memory'
           Final(name) ==
             Max({j \in 1 .. Len(source) : IsDataLabel(source, j) /\ source[j].name = name})
<1>0. /\ PInv /\ SymbolsTyped /\ Buffered /\ Bounded /\ Loads /\ Followed /\ Transcribed
      /\ phase = "patch" /\ errors_ = {} /\ Parsing
      /\ Loaded' = source /\ program_'.symbol_table = symbol_table_
      /\ n \in Nat /\ DataStart \in Nat
      /\ Len(source) \in Nat /\ DOMAIN source = 1 .. Len(source)
  BY SourceLen, AssemblerAssumption
  DEF LoadProgram, Assembled, Loaded, Parsing, AddressInv, DataLabelInv, TInv, DataInv
<1>1. 4 * n <= DataStart
  BY <1>0, TextEnds
<1>2. /\ program_size_' \div 4 = n
      /\ \A k \in 0 .. n - 1 : new[4 * k] = Encode(code[k + 1])
  BY <1>0, <1>1, ImageWords
<1>3. DataAtLabels'
  BY LoadData DEF AddressInv
<1>4. \A i \in 1 .. Len(source) :
        source[i].kind = "la" /\ Under(source, i) = "text" => i \in ItemsIn("text")'
  <2>1. \A i : SectionOf(i)' = Under(source, i)
    BY <1>0 DEF SectionOf, Under
  <2> QED
    BY <1>0, <2>1 DEF ItemsIn
<1>5. Words' = 0 .. n - 1
  BY <1>2 DEF Words
<1>l. \A name : LastLabel(name)' = Final(name)
  <2>1. ItemsIn("data")' = {j \in 1 .. Len(source) : source[j].kind # "section"
                                                     /\ Under(source, j) = "data"}
    <3>1. \A j : SectionOf(j)' = Under(source, j)
      BY <1>0 DEF SectionOf, Under
    <3> QED
      BY <1>0, <3>1 DEF ItemsIn
  <2> SUFFICES ASSUME NEW name PROVE LastLabel(name)' = Final(name)
    OBVIOUS
  <2>2. {j \in ItemsIn("data")' : source[j].kind = "label" /\ source[j].name = name}
          = {j \in 1 .. Len(source) : IsDataLabel(source, j) /\ source[j].name = name}
    BY <2>1 DEF IsDataLabel
  <2> QED
    BY <1>0, <2>2 DEF LastLabel
<1> DEFINE At(j, a) ==
             a \in DOMAIN new /\ new[a] = [line |-> source[j + 1].line, nth |-> 1, byte |-> 0]
           Sum(k) == 4 * k + Signed(new[4 * k]) * Page + Signed(new[4 * k + 4])
<1>6. ASSUME NEW name, KnownData(name), NEW j, j = Final(name), Placed(j)'
      PROVE  At(j, DataStart + symbol_table_[name].address)
  <2>1. symbol_table_[name].address \in Nat /\ InData(name)
    BY <1>0, <1>6, AddressNear
  <2>2. /\ j \in 1 .. Len(source) /\ IsDataLabel(source, j) /\ source[j].name = name
        /\ j \in DataLabels'
    <3> HIDE DEF Final
    <3> QED
      BY <1>0, <1>l, <1>6, <2>1, LastDefined
  <2>3. AddressOf(j) = symbol_table_[name].address /\ AddressOf(j) \in Nat
    BY <2>1, <2>2 DEF AddressOf
  <2> DEFINE a == DataStart + AddressOf(j)
  <2>4. a \in DOMAIN memory' /\ memory'[a] = ValueOf(j, 1, 0)'
    BY <1>0, <1>3, <1>6, <2>2, <2>3, FirstByte
  <2>5. ValueOf(j, 1, 0)' = [line |-> source[j + 1].line, nth |-> 1, byte |-> 0]
    BY <1>0 DEF ValueOf
  <2> QED
    BY <2>3, <2>4, <2>5
<1>7. ASSUME NEW k \in 0 .. n - 1, new[4 * k].op = "auipc"
      PROVE  \E i \in ItemsIn("text")' :
               /\ source[i].kind = "la" /\ source[i].line = new[4 * k].line
               /\ new[4 * k + 4].op = "addi"
               /\ \A j : j = Final(source[i].of) /\ Placed(j)' => At(j, Sum(k))
  <2> HIDE DEF Final, At
  <2>1. code[k + 1].op = "auipc" /\ code[k + 1].line = new[4 * k].line
        /\ k + 1 \in 1 .. n
    <3>1. new[4 * k] = Encode(code[k + 1])
      BY <1>2
    <3> QED
      BY <1>0, <1>7, <3>1 DEF Encode
  <2>2. PICK i \in 1 .. Len(source) : Pairs(i, k + 1)
    BY <1>0, <2>1 DEF Loads
  <2> DEFINE address == symbol_table_[source[i].of].address
             d == Distance(address, k)
  <2>3. /\ source[i].kind = "la" /\ Under(source, i) = "text"
        /\ source[i].line = code[k + 1].line
        /\ KnownData(source[i].of)
        /\ k + 1 \in 0 .. n - 1
        /\ IsUpper(code[k + 1], d) /\ IsLower(code[k + 1 + 1], d)
    <3>1. k + 1 - 1 = k /\ k \in Nat
      BY <1>0
    <3>2. k + 1 + 1 <= n
      BY <2>2 DEF Pairs
    <3>3. k + 1 \in 0 .. n - 1
      <4> HIDE DEF n
      <4> QED
        BY <1>0, <3>1, <3>2
    <3> QED
      BY <2>2, <3>1, <3>3 DEF Pairs
  <2>4. new[4 * k + 4] = Encode(code[k + 1 + 1]) /\ new[4 * k] = Encode(code[k + 1])
    <3>1. 4 * (k + 1) = 4 * k + 4
      BY <1>0
    <3> QED
      BY <1>2, <2>3, <3>1
  <2>5. /\ address \in Nat
        /\ DataStart + address + Page \div 2 < (Pages \div 2) * Page
    BY <1>0, <2>3, AddressNear
  <2>6. Sum(k) = DataStart + address
    <3>1. k \in Nat /\ 4 * k <= DataStart
      <4> HIDE DEF n
      <4> QED
        BY <1>0, <1>1
    <3>2. 4 * k + Signed(Encode(code[k + 1])) * Page + Signed(Encode(code[k + 1 + 1]))
            = DataStart + address
      <4> HIDE DEF code, address
      <4> QED
        BY <2>3, <2>5, <3>1, PartsOfDistance
    <3> QED
      BY <2>4, <3>2
  <2>7. \A j : j = Final(source[i].of) /\ Placed(j)' => At(j, Sum(k))
    <3> HIDE DEF Sum
    <3> QED
      BY <1>6, <2>3, <2>6
  <2>8. new[4 * k + 4].op = "addi"
    BY <2>3, <2>4 DEF IsLower, Encode
  <2>9. i \in ItemsIn("text")'
    BY <1>4, <2>3
  <2> QED
    BY <2>1, <2>3, <2>7, <2>8, <2>9
<1>8. AddressesLoaded' <=>
        \A k \in Words' : new[4 * k].op = "auipc" =>
          \E i \in ItemsIn("text")' :
            /\ source[i].kind = "la" /\ source[i].line = new[4 * k].line
            /\ new[4 * k + 4].op = "addi"
            /\ \A j : j = Final(source[i].of) /\ Placed(j)' => At(j, Sum(k))
  <2>1. \A j : ValueOf(j, 1, 0)' = [line |-> source[j + 1].line, nth |-> 1, byte |-> 0]
    BY <1>0 DEF ValueOf
  <2> HIDE DEF Final
  <2> QED
    BY <1>0, <1>l, <2>1 DEF AddressesLoaded
<1> HIDE DEF Final, Sum, At
<1> QED
  BY <1>5, <1>7, <1>8

(* There is no address at the start. *)
LEMMA InitAddresses ==
  ASSUME Init
  PROVE  AddressInv /\ AddressesLoaded
<1>1. DataLabelInv /\ Passed /\ Transcribed
  BY InitData, InitText DEF TextInv
<1>2. phase = "idle" /\ program_size_ = 0
  BY DEF Init
<1>3. Bounded /\ Loads
  BY <1>2 DEF Bounded, Parsing, Loads
<1>4. AddressesLoaded
  <2>1. Words = {}
    BY <1>2 DEF Words
  <2> QED
    BY <2>1 DEF AddressesLoaded
<1> QED
  BY <1>1, <1>3, <1>4 DEF AddressInv

(* Every step keeps the invariant. *)
LEMMA StepAddressInv ==
  ASSUME NoTextLabel, DataAligned, AddressInv, [Next]_vars
  PROVE  AddressInv'
<1>1. /\ TInv /\ PInv /\ Places /\ SymbolsTyped /\ UnitsTyped /\ Due /\ Buffered /\ Sections
      /\ DataInv /\ Fresh /\ Skipped /\ Followed /\ Passed /\ Transcribed /\ Bounded /\ Loads
  BY DEF AddressInv, DataLabelInv, TInv, DataInv
<1>2. TInv' /\ Buffered' /\ Sections' /\ DataInv'
  BY <1>1, StepTInv, StepBuffered, StepSections, StepDataInv
<1>3. Passed' /\ Transcribed'
  BY <1>1, StepPassed, StepTranscribed
<1>4. Bounded'
  BY <1>1, StepBounded
<1>5. Loads'
  BY <1>1, StepLoads
<1> QED
  BY <1>2, <1>3, <1>4, <1>5 DEF AddressInv, DataLabelInv

(* No other step changes what the addresses load. *)
LEMMA KeepsAddresses ==
  ASSUME AddressesLoaded, [Next]_vars, ~LoadProgram
  PROVE  AddressesLoaded'
<1>1. UNCHANGED <<program_, memory, program_size_>>
  BY MachineSteps DEF AddBreakpoint, RemoveBreakpoint
<1>2. Loaded' = Loaded /\ Words' = Words
  BY <1>1 DEF Loaded, Words
<1>3. \A name : ItemsIn(name)' = ItemsIn(name)
  BY <1>2 DEF ItemsIn, SectionOf
<1>4. \A name : LastLabel(name)' = LastLabel(name)
  BY <1>2, <1>3 DEF LastLabel
<1>5. \A j : Placed(j)' <=> Placed(j)
  BY <1>2, <1>3 DEF Placed
<1> QED
  BY <1>1, <1>2, <1>3, <1>4, <1>5 DEF AddressesLoaded, ValueOf

(* Whatever such files without a label called text, whose values are        *)
(* multiples of their alignments, whose text ends before the data and whose *)
(* data auipc reaches: the auipc and the addi of a la add up to the address *)
(* of the first value behind its label, though addi's part is signed.       *)
THEOREM AddressesOfSource ==
  ASSUME NoTextLabel, DataAligned, TextFits, DataFits
  PROVE  Spec => []AddressesLoaded
<1> DEFINE Inv == AddressInv /\ AddressesLoaded
<1>1. Init => Inv
  BY InitAddresses
<1>2. Inv /\ [Next]_vars => Inv'
  BY StepAddressInv, LoadAddresses, KeepsAddresses
<1>3. Inv => AddressesLoaded
  OBVIOUS
<1> HIDE DEF Inv
<1> QED
  BY <1>1, <1>2, <1>3, PTL DEF Spec
===============================================================================
