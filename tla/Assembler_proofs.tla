---------------------------- MODULE Assembler_proofs ----------------------------
(***************************************************************************)
(* assemble() never encodes a reference that is unresolved or too far, and *)
(* the parser keeps to its file, its patch list and its types, for every   *)
(* file, every even reach of the immediates and any number of loads.       *)
(***************************************************************************)
EXTENDS Assembler, SequenceTheorems, FiniteSetTheorems, WellFoundedInduction,
        NaturalsInduction, TLAPS

IsSeq(s) == \E S : s \in Seq(S)

(* The fields of a unit of the intermediate code. *)
IsUnit(u) ==
  \E op, imm, label, patched, line :
    u = [op |-> op, imm |-> imm, label |-> label, patched |-> patched, line |-> line]

(***************************************************************************)
(* The inductive invariant.  Files with an error are not encoded, so the   *)
(* last two parts speak of the others only.                                *)
(***************************************************************************)
Typed ==
  /\ source \in Sources \cup {<<>>}
  /\ pos_ \in Nat \ {0}
  /\ data_index_ \in Int
  /\ \A n \in DOMAIN symbol_table_ : symbol_table_[n].address \in Int
  /\ IsSeq(intermediate_code_) /\ IsSeq(back_patch_)
  /\ \A k \in 1 .. Len(intermediate_code_) : IsUnit(intermediate_code_[k])
  /\ \A j \in 1 .. Len(back_patch_) : back_patch_[j] \in 0 .. Len(intermediate_code_) - 1

(* A unit without its offset is named by back_patch_ and still to come. *)
Waiting ==
  errors_ = {} =>
    \A k \in 1 .. Len(intermediate_code_) :
      intermediate_code_[k].patched
        \/ \E j \in 1 .. Len(back_patch_) :
             back_patch_[j] = k - 1 /\ (phase = "patch" => j >= pos_)

(* A unit with its offset is within reach of it. *)
Near(u) == u.op \in {"branch", "jal"} => u.imm \in Int /\ InReach(u.op, u.imm)

Reaching ==
  errors_ = {} =>
    \A k \in 1 .. Len(intermediate_code_) :
      intermediate_code_[k].patched => Near(intermediate_code_[k])

PInv == Typed /\ Waiting /\ Reaching

(* A sequence has a length and these indices. *)
LEMMA SeqLen ==
  ASSUME NEW s, IsSeq(s)
  PROVE  Len(s) \in Nat /\ DOMAIN s = 1 .. Len(s)
<1>1. PICK S : s \in Seq(S)
  BY DEF IsSeq
<1>2. QED
  BY <1>1, LenProperties

(* Appending units to the intermediate code keeps those that were there. *)
LEMMA SeqConcat ==
  ASSUME NEW s, IsSeq(s), NEW t, IsSeq(t)
  PROVE  /\ IsSeq(s \o t) /\ Len(s \o t) = Len(s) + Len(t)
         /\ \A i \in 1 .. Len(s) : (s \o t)[i] = s[i]
         /\ \A i \in 1 .. Len(t) : (s \o t)[Len(s) + i] = t[i]
         /\ \A i \in Len(s) + 1 .. Len(s) + Len(t) : (s \o t)[i] = t[i - Len(s)]
<1>1. PICK S : s \in Seq(S)
  BY DEF IsSeq
<1>2. PICK T : t \in Seq(T)
  BY DEF IsSeq
<1>3. s \in Seq(S \cup T) /\ t \in Seq(S \cup T)
  BY <1>1, <1>2, SeqDef
<1>4. Len(s) \in Nat /\ Len(t) \in Nat
  BY <1>3, LenProperties
<1>5. /\ s \o t \in Seq(S \cup T)
      /\ Len(s \o t) = Len(s) + Len(t)
      /\ \A i \in 1 .. Len(s) + Len(t) :
           (s \o t)[i] = IF i <= Len(s) THEN s[i] ELSE t[i - Len(s)]
  BY <1>3, ConcatProperties
<1>6. IsSeq(s \o t)
  BY <1>5, Zenon DEF IsSeq
<1>7. QED
  BY <1>4, <1>5, <1>6

(* A list of one unit, and one of two (la). *)
LEMMA SeqOne ==
  ASSUME NEW u
  PROVE  /\ IsSeq(<<u>>) /\ Len(<<u>>) = 1 /\ <<u>>[1] = u
         /\ \A k \in 1 .. Len(<<u>>) : k = 1 /\ <<u>>[k] = u
<1>1. <<u>> \in Seq({u}) /\ Len(<<u>>) = 1 /\ <<u>>[1] = u
  OBVIOUS
<1>2. \A k \in 1 .. 1 : k = 1
  OBVIOUS
<1>3. QED
  BY <1>1, <1>2 DEF IsSeq

(* A sequence of two. *)
LEMMA SeqTwo ==
  ASSUME NEW u, NEW v
  PROVE  /\ IsSeq(<<u, v>>)
         /\ \A k \in 1 .. Len(<<u, v>>) : <<u, v>>[k] = u \/ <<u, v>>[k] = v
<1>1. <<u, v>> \in Seq({u, v}) /\ Len(<<u, v>>) = 2 /\ <<u, v>>[1] = u /\ <<u, v>>[2] = v
  OBVIOUS
<1>2. \A k \in 1 .. 2 : k = 1 \/ k = 2
  OBVIOUS
<1>3. QED
  BY <1>1, <1>2 DEF IsSeq

(* Rounding up to an alignment gives a whole number. *)
LEMMA AlignTyped ==
  ASSUME NEW n \in Int, NEW a \in Nat \ {0}
  PROVE  AlignUp(n, a) \in Int
<1>1. (n + a - 1) \div a \in Int
  OBVIOUS
<1>2. QED
  BY <1>1 DEF AlignUp

(* The bytes of a directive are a whole number. *)
LEMMA ProductTyped ==
  ASSUME NEW m \in Nat, NEW n \in Nat
  PROVE  m * n \in Int
OBVIOUS

(* A file is a finite sequence of items, and its directives have sizes and *)
(* alignments.                                                             *)
LEMMA SourceTyped ==
  ASSUME NEW src \in Sources
  PROVE  /\ Len(src) \in Nat /\ DOMAIN src = 1 .. Len(src)
         /\ \A j \in DOMAIN src :
              /\ src[j] \in Items
              /\ src[j].kind = "data" =>
                   src[j].size \in Nat /\ src[j].align \in Nat \ {0} /\ src[j].values \in Nat
<1>1. src \in Seq(Items)
  BY AssemblerAssumption
<1>2. Len(src) \in Nat /\ DOMAIN src = 1 .. Len(src)
  BY <1>1, LenProperties
<1>3. \A j \in DOMAIN src : src[j] \in Items
  BY <1>1, <1>2, ElementOfSeq
<1>4. \A it \in Items : it.kind = "data" =>
        it.size \in Nat /\ it.align \in Nat \ {0} /\ it.values \in Nat
  BY DEF Items
<1> QED
  BY <1>2, <1>3, <1>4

(* The offset of an immediate is read back from its bits: what a number in  *)
(* reach loses modulo twice the reach, the sign of the word restores.       *)
LEMMA SignedExact ==
  ASSUME NEW r \in Nat \ {0}, NEW n \in Int, -r <= n, n < r
  PROVE  LET m == n % (2 * r) IN (IF m < (2 * r) \div 2 THEN m ELSE m - 2 * r) = n
<1>1. (2 * r) \div 2 = r
  OBVIOUS
<1>2. DEFINE m == n % (2 * r)
<1>3. CASE n >= 0
  <2>1. n % (2 * r) = n
    BY <1>3
  <2>2. QED
    BY <1>1, <1>3, <2>1
<1>4. CASE n < 0
  <2>1. n % (2 * r) = n + 2 * r
    BY <1>4
  <2>2. QED
    BY <1>1, <1>4, <2>1
<1>5. QED
  BY <1>3, <1>4
-------------------------------------------------------------------------------
(* The empty parser satisfies the invariant. *)
LEMMA EmptyInv ==
  ASSUME intermediate_code_ = <<>>, back_patch_ = <<>>, symbol_table_ = <<>>,
         data_index_ = 0, pos_ = 1, source \in Sources \cup {<<>>}
  PROVE  PInv
<1>1. IsSeq(<<>>) /\ Len(<<>>) = 0
  BY EmptySeq DEF IsSeq
<1>2. QED
  BY <1>1 DEF PInv, Typed, Waiting, Reaching

(* A step that leaves the intermediate code and its patch list alone and    *)
(* forgets no error; the patch list is entered at its beginning.            *)
LEMMA Quiet ==
  ASSUME PInv,
         UNCHANGED <<intermediate_code_, back_patch_>>,
         errors_ \subseteq errors_',
         source' \in Sources \cup {<<>>},
         pos_' \in Nat \ {0},
         data_index_' \in Int,
         \A n \in DOMAIN symbol_table_' : symbol_table_'[n].address \in Int,
         phase' = "patch" => pos_' = 1 \/ (phase = "patch" /\ pos_' = pos_)
  PROVE  PInv'
<1>1. Typed'
  BY DEF PInv, Typed, IsSeq
<1>2. Waiting'
  <2> SUFFICES ASSUME errors_' = {}, NEW k \in 1 .. Len(intermediate_code_),
                      ~intermediate_code_[k].patched
               PROVE  \E j \in 1 .. Len(back_patch_) :
                        back_patch_[j] = k - 1 /\ (phase' = "patch" => j >= pos_')
    BY DEF Waiting
  <2>1. errors_ = {}
    OBVIOUS
  <2>2. PICK j \in 1 .. Len(back_patch_) :
          back_patch_[j] = k - 1 /\ (phase = "patch" => j >= pos_)
    BY <2>1 DEF PInv, Waiting
  <2>3. Len(back_patch_) \in Nat
    BY SeqLen DEF PInv, Typed
  <2>4. QED
    BY <2>2, <2>3
<1>3. Reaching'
  <2> SUFFICES ASSUME errors_' = {}
               PROVE  \A k \in 1 .. Len(intermediate_code_) :
                        intermediate_code_[k].patched => Near(intermediate_code_[k])
    BY DEF Reaching, Near, InReach, Reach
  <2>1. errors_ = {}
    OBVIOUS
  <2>2. QED
    BY <2>1 DEF PInv, Reaching
<1>4. QED
  BY <1>1, <1>2, <1>3 DEF PInv

(* A step that emits units, each with its offset in reach or entered in the *)
(* patch list.                                                              *)
LEMMA EmitInv ==
  ASSUME PInv, phase = "second",
         NEW units, IsSeq(units), Emit(units),
         \A k \in 1 .. Len(units) : IsUnit(units[k]),
         NEW more, IsSeq(more), back_patch_' = back_patch_ \o more,
         \A j \in 1 .. Len(more) :
           more[j] \in 0 .. Len(intermediate_code_) + Len(units) - 1,
         \A k \in 1 .. Len(units) :
           IF units[k].patched THEN Near(units[k])
           ELSE \E j \in 1 .. Len(more) : more[j] = Len(intermediate_code_) + k - 1,
         pos_' = pos_ + 1,
         UNCHANGED <<source, phase, errors_, data_index_, symbol_table_>>
  PROVE  PInv'
<1> DEFINE code == intermediate_code_
           n    == Len(intermediate_code_)
           bp   == back_patch_
<1>1. /\ IsSeq(code') /\ Len(code') = n + Len(units)
      /\ \A i \in 1 .. n : code'[i] = code[i]
      /\ \A i \in n + 1 .. n + Len(units) : code'[i] = units[i - n]
  BY SeqConcat DEF Emit, PInv, Typed
<1>2. /\ IsSeq(bp') /\ Len(bp') = Len(bp) + Len(more)
      /\ \A i \in 1 .. Len(bp) : bp'[i] = bp[i]
      /\ \A i \in 1 .. Len(more) : bp'[Len(bp) + i] = more[i]
      /\ \A i \in Len(bp) + 1 .. Len(bp) + Len(more) : bp'[i] = more[i - Len(bp)]
  BY SeqConcat DEF PInv, Typed
<1>3. n \in Nat /\ Len(units) \in Nat /\ Len(bp) \in Nat /\ Len(more) \in Nat
  BY SeqLen DEF PInv, Typed
<1>4. Typed'
  <2>1. ASSUME NEW k \in 1 .. Len(code')
        PROVE  IsUnit(code'[k])
    <3>1. CASE k <= n
      BY <1>1, <1>3, <3>1 DEF PInv, Typed
    <3>2. CASE k > n
      <4>1. k - n \in 1 .. Len(units) /\ code'[k] = units[k - n]
        BY <1>1, <1>3, <3>2
      <4>2. QED
        BY <4>1
    <3>3. QED
      BY <1>1, <1>3, <3>1, <3>2
  <2>2. ASSUME NEW j \in 1 .. Len(bp')
        PROVE  bp'[j] \in 0 .. Len(code') - 1
    <3>1. CASE j <= Len(bp)
      <4>1. bp'[j] = bp[j] /\ bp[j] \in 0 .. n - 1
        BY <1>2, <1>3, <3>1 DEF PInv, Typed
      <4>2. QED
        BY <1>1, <1>3, <4>1
    <3>2. CASE j > Len(bp)
      <4>1. j - Len(bp) \in 1 .. Len(more) /\ bp'[j] = more[j - Len(bp)]
        BY <1>2, <1>3, <3>2
      <4>2. more[j - Len(bp)] \in 0 .. n + Len(units) - 1
        BY <4>1
      <4>3. Len(code') = n + Len(units)
        BY <1>1
      <4>4. QED
        BY <4>1, <4>2, <4>3
    <3>3. QED
      BY <1>2, <1>3, <3>1, <3>2
  <2>3. QED
    BY <1>1, <1>2, <2>1, <2>2 DEF PInv, Typed
<1>5. Waiting'
  <2> SUFFICES ASSUME errors_ = {}, NEW k \in 1 .. n + Len(units), ~code'[k].patched
               PROVE  \E j \in 1 .. Len(bp') : bp'[j] = k - 1
    BY <1>1 DEF Waiting
  <2>1. CASE k <= n
    <3>1. PICK j \in 1 .. Len(bp) : bp[j] = k - 1
      BY <1>1, <1>3, <2>1, SMTT(30) DEF PInv, Waiting
    <3>2. QED
      BY <1>2, <1>3, <3>1
  <2>2. CASE k > n
    <3>1. k - n \in 1 .. Len(units) /\ code'[k] = units[k - n]
      BY <1>1, <1>3, <2>2
    <3>2. PICK j \in 1 .. Len(more) : more[j] = n + (k - n) - 1
      BY <3>1
    <3>3. Len(bp) + j \in 1 .. Len(bp') /\ bp'[Len(bp) + j] = k - 1
      BY <1>2, <1>3, <3>2
    <3>4. QED
      BY <3>3
  <2>3. QED
    BY <1>3, <2>1, <2>2
<1>6. Reaching'
  <2> SUFFICES ASSUME errors_ = {}, NEW k \in 1 .. n + Len(units), code'[k].patched
               PROVE  Near(code'[k])
    BY <1>1 DEF Reaching, Near, InReach, Reach
  <2>1. CASE k <= n
    BY <1>1, <1>3, <2>1 DEF PInv, Reaching
  <2>2. CASE k > n
    <3>1. k - n \in 1 .. Len(units) /\ code'[k] = units[k - n]
      BY <1>1, <1>3, <2>2
    <3>2. QED
      BY <3>1
  <2>3. QED
    BY <1>3, <2>1, <2>2
<1>7. QED
  BY <1>4, <1>5, <1>6 DEF PInv
(* What Emit appends to in the patch list: nothing, or one entry. *)
LEMMA PatchList ==
  ASSUME NEW s, IsSeq(s), NEW e
  PROVE  s \o <<>> = s /\ Append(s, e) = s \o <<e>> /\ IsSeq(<<>>) /\ Len(<<>>) = 0
<1>1. PICK S : s \in Seq(S)
  BY DEF IsSeq
<1>2. s \in Seq(S \cup {e})
  BY <1>1, SeqDef
<1>3. QED
  BY <1>1, <1>2, ConcatEmptySeq, AppendIsConcat, EmptySeq DEF IsSeq

(* A data item of the file, also one behind a label. *)
LEMMA DataTyped ==
  ASSUME Typed, NEW j \in Nat \ {0}, j <= Len(source), source[j].kind = "data"
  PROVE  source[j].size \in Nat /\ source[j].align \in Nat \ {0} /\ source[j].values \in Nat
<1>1. source \in Sources
  BY EmptySeq DEF Typed
<1>2. j \in DOMAIN source
  BY <1>1, SourceTyped
<1>3. QED
  BY <1>1, <1>2, SourceTyped

(* Binding a label keeps the addresses whole numbers. *)
LEMMA BindTyped ==
  ASSUME Typed, NEW name, NEW address \in Int, NEW line, NEW isData,
         symbol_table_' = Bind(symbol_table_, name, Symbol(address, line, isData))
  PROVE  \A n \in DOMAIN symbol_table_' : symbol_table_'[n].address \in Int
<1> SUFFICES ASSUME NEW n \in DOMAIN symbol_table_'
             PROVE  symbol_table_'[n].address \in Int
  OBVIOUS
<1>1. n \in DOMAIN symbol_table_ \cup {name}
      /\ symbol_table_'[n] = IF n = name THEN Symbol(address, line, isData) ELSE symbol_table_[n]
  BY DEF Bind
<1>2. QED
  BY <1>1 DEF Symbol, Typed

(* A step that finds an error: nothing of the file will be encoded. *)
LEMMA Failing ==
  ASSUME Typed', errors_' # {}
  PROVE  PInv'
  BY DEF PInv, Waiting, Reaching

(* Emitting units that have their offsets leaves the patch list alone. *)
LEMMA EmitReady ==
  ASSUME PInv, phase = "second",
         NEW units, IsSeq(units), Emit(units),
         \A k \in 1 .. Len(units) :
           IsUnit(units[k]) /\ units[k].patched = TRUE /\ Near(units[k]),
         pos_' = pos_ + 1,
         UNCHANGED <<source, phase, errors_, data_index_, symbol_table_, back_patch_>>
  PROVE  PInv'
<1>1. back_patch_' = back_patch_ \o <<>> /\ IsSeq(<<>>)
  BY PatchList DEF PInv, Typed
<1>2. \A k \in 1 .. Len(units) :
        IF units[k].patched THEN Near(units[k])
        ELSE \E j \in 1 .. Len(<<>>) : <<>>[j] = Len(intermediate_code_) + k - 1
  OBVIOUS
<1> DEFINE none == <<>>
<1>3. back_patch_' = back_patch_ \o none /\ IsSeq(none)
  BY <1>1
<1>4. \A k \in 1 .. Len(units) :
        IF units[k].patched THEN Near(units[k])
        ELSE \E j \in 1 .. Len(none) : none[j] = Len(intermediate_code_) + k - 1
  BY <1>2
<1>5. \A j \in 1 .. Len(none) : none[j] \in 0 .. Len(intermediate_code_) + Len(units) - 1
  OBVIOUS
<1> HIDE DEF none
<1>6. QED
  BY <1>3, <1>4, <1>5, EmitInv

(* The first pass. *)
LEMMA FirstPass ==
  ASSUME PInv,
         FirstTop \/ FirstSkip \/ FirstEnd \/ DataEnd \/ DataLabel \/ DataDirective \/ DataOther
  PROVE  PInv'
<1>0. Typed /\ pos_ + 1 \in Nat \ {0} /\ 1 \in Nat \ {0}
  BY DEF PInv, Typed
<1>t. /\ source \in Sources \cup {<<>>} /\ pos_ \in Nat \ {0} /\ data_index_ \in Int
      /\ \A n \in DOMAIN symbol_table_ : symbol_table_[n].address \in Int
  BY <1>0 DEF Typed
<1>1. CASE FirstTop
  BY <1>1, <1>0, <1>t, Quiet DEF FirstTop, Advance, Goto, Error, NoError
<1>2. CASE FirstSkip
  BY <1>2, <1>0, <1>t, Quiet DEF FirstSkip, Advance, Goto
<1>3. CASE FirstEnd
  BY <1>3, <1>0, <1>t, Quiet DEF FirstEnd
<1>4. CASE DataEnd
  BY <1>4, <1>0, <1>t, Quiet DEF DataEnd, Goto
<1>5. CASE DataLabel
  <2>1. data_index_' \in Int
    <3>1. CASE pos_ < Len(source) /\ source[pos_ + 1].kind = "data"
      <4>1. source \in Sources
        BY <1>t, <3>1, EmptySeq
      <4>2. pos_ + 1 <= Len(source)
        BY <1>t, <3>1, <4>1, SourceTyped
      <4>3. source[pos_ + 1].align \in Nat \ {0}
        BY <1>0, <3>1, <4>2, DataTyped
      <4>4. QED
        BY <1>5, <1>t, <3>1, <4>3, AlignTyped DEF DataLabel
    <3>2. CASE ~(pos_ < Len(source) /\ source[pos_ + 1].kind = "data")
      BY <1>5, <1>t, <3>2 DEF DataLabel
    <3>3. QED
      BY <3>1, <3>2
  <2>2. \A n \in DOMAIN symbol_table_' : symbol_table_'[n].address \in Int
    BY <1>5, <1>0, <2>1, BindTyped DEF DataLabel
  <2>3. QED
    BY <1>5, <1>0, <1>t, <2>1, <2>2, Quiet DEF DataLabel, Advance, Error, NoError
<1>6. CASE DataDirective
  <2>1. source \in Sources
    BY <1>6, <1>t, EmptySeq DEF DataDirective, AtEnd
  <2>2. pos_ <= Len(source)
    BY <1>6, <1>t, <2>1, SourceTyped DEF DataDirective, AtEnd
  <2>3. Item.size \in Nat /\ Item.align \in Nat \ {0} /\ Item.values \in Nat
    BY <1>6, <1>0, <1>t, <2>2, DataTyped DEF DataDirective, Item
  <2>4. AlignUp(data_index_, Item.align) \in Int /\ Item.values * Item.size \in Int
    BY <1>t, <2>3, AlignTyped, ProductTyped
  <2>5. data_index_' \in Int
    BY <1>6, <1>t, <2>4 DEF DataDirective
  <2>6. QED
    BY <1>6, <1>0, <1>t, <2>5, Quiet DEF DataDirective, Advance
<1>7. CASE DataOther
  BY <1>7, <1>0, <1>t, Quiet DEF DataOther, Advance, Error, NoError
<1>8. QED
  BY <1>1, <1>2, <1>3, <1>4, <1>5, <1>6, <1>7
(* The loops of the second pass, and the steps that emit no reference. *)
LEMMA SecondPass ==
  ASSUME PInv,
         SecondTop \/ SecondSkip \/ SecondEnd \/ TextEnd \/ TextLabel
  PROVE  PInv'
<1>0. Typed /\ pos_ + 1 \in Nat \ {0} /\ 1 \in Nat \ {0}
  BY DEF PInv, Typed
<1>t. /\ source \in Sources \cup {<<>>} /\ pos_ \in Nat \ {0} /\ data_index_ \in Int
      /\ \A n \in DOMAIN symbol_table_ : symbol_table_[n].address \in Int
  BY <1>0 DEF Typed
<1>1. CASE SecondTop
  BY <1>1, <1>0, <1>t, Quiet DEF SecondTop, Advance, Goto, Error, NoError
<1>2. CASE SecondSkip
  BY <1>2, <1>0, <1>t, Quiet DEF SecondSkip, Advance, Goto
<1>3. CASE SecondEnd
  BY <1>3, <1>0, <1>t, Quiet DEF SecondEnd
<1>4. CASE TextEnd
  BY <1>4, <1>0, <1>t, Quiet DEF TextEnd, Goto
<1>5. CASE TextLabel
  <2>1. 4 * Len(intermediate_code_) \in Int
    BY <1>0, SeqLen DEF Typed
  <2>2. \A n \in DOMAIN symbol_table_' : symbol_table_'[n].address \in Int
    BY <1>5, <1>0, <1>t, <2>1, BindTyped DEF TextLabel
  <2>3. QED
    BY <1>5, <1>0, <1>t, <2>2, Quiet DEF TextLabel, InText, Advance, Error, NoError
<1>6. QED
  BY <1>1, <1>2, <1>3, <1>4, <1>5

(* A branch or a jump: its offset is known and in reach, or an error, or    *)
(* its index is entered in the patch list.                                  *)
LEMMA TransferInv ==
  ASSUME PInv, Transfer
  PROVE  PInv'
<1> DEFINE here == Len(intermediate_code_)
<1>0. Typed /\ pos_ + 1 \in Nat \ {0}
  BY DEF PInv, Typed
<1>t. /\ source \in Sources \cup {<<>>} /\ pos_ \in Nat \ {0} /\ data_index_ \in Int
      /\ \A n \in DOMAIN symbol_table_ : symbol_table_[n].address \in Int
      /\ IsSeq(intermediate_code_) /\ IsSeq(back_patch_)
  BY <1>0 DEF Typed
<1>h. here \in Nat
  BY <1>t, SeqLen
<1>s. phase = "second" /\ pos_' = pos_ + 1
      /\ UNCHANGED <<source, phase, data_index_, symbol_table_>>
  BY DEF Transfer, InText, Advance
<1>1. CASE KnownText(Item.to) /\ InReach(Item.kind, Offset(Item.to, here))
  <2> DEFINE u == Unit(Item.kind, Offset(Item.to, here), Item.to, TRUE)
  <2>1. Emit(<<u>>) /\ UNCHANGED <<errors_, back_patch_>>
    BY <1>1 DEF Transfer, NoError
  <2>2. Offset(Item.to, here) \in Int
    BY <1>1, <1>t, <1>h DEF KnownText, Offset
  <2>3. IsUnit(u) /\ u.patched = TRUE /\ Near(u)
    BY <1>1, <2>2 DEF Unit, IsUnit, Near
  <2> HIDE DEF u
  <2>4. IsSeq(<<u>>) /\ \A k \in 1 .. Len(<<u>>) : <<u>>[k] = u
    BY SeqOne
  <2>5. QED
    BY <1>s, <2>1, <2>3, <2>4, EmitReady
<1>2. CASE KnownText(Item.to) /\ ~InReach(Item.kind, Offset(Item.to, here))
  BY <1>2, <1>0, <1>t, <1>s, Quiet DEF Transfer, Error
<1>3. CASE ~KnownText(Item.to)
  <2> DEFINE u == Unit(Item.kind, 0, Item.to, FALSE)
  <2>1. Emit(<<u>>) /\ UNCHANGED errors_ /\ back_patch_' = Append(back_patch_, here)
    BY <1>3 DEF Transfer, NoError
  <2>2. IsUnit(u) /\ u.patched = FALSE
    BY DEF Unit, IsUnit
  <2> HIDE DEF u
  <2>3. back_patch_' = back_patch_ \o <<here>>
    BY <2>1, <1>t, PatchList
  <2>4. IsSeq(<<here>>) /\ Len(<<here>>) = 1 /\ <<here>>[1] = here
    BY SeqOne
  <2>5. IsSeq(<<u>>) /\ Len(<<u>>) = 1 /\ \A k \in 1 .. Len(<<u>>) : k = 1 /\ <<u>>[k] = u
    BY SeqOne
  <2> DEFINE units == <<u>>
             more  == <<here>>
  <2>6. IsSeq(units) /\ Emit(units) /\ IsSeq(more) /\ back_patch_' = back_patch_ \o more
    BY <2>1, <2>3, <2>4, <2>5
  <2>7. \A k \in 1 .. Len(units) : IsUnit(units[k]) /\ units[k].patched = FALSE
    BY <2>2, <2>5
  <2>r. \A j \in 1 .. Len(more) : more[j] \in 0 .. here + Len(units) - 1
    BY <1>h, <2>4, <2>5
  <2>8. \A k \in 1 .. Len(units) : \E j \in 1 .. Len(more) : more[j] = here + k - 1
    BY <1>h, <2>4, <2>5
  <2> HIDE DEF units, more
  <2>9. QED
    BY <1>s, <2>1, <2>6, <2>7, <2>r, <2>8, EmitInv
<1>4. QED
  BY <1>1, <1>2, <1>3

(* la is emitted with its offsets or not at all; any other instruction has  *)
(* none.                                                                    *)
LEMMA PlainInv ==
  ASSUME PInv, LoadAddress \/ Plain
  PROVE  PInv'
<1>0. Typed /\ pos_ + 1 \in Nat \ {0}
  BY DEF PInv, Typed
<1>t. /\ source \in Sources \cup {<<>>} /\ pos_ \in Nat \ {0} /\ data_index_ \in Int
      /\ \A n \in DOMAIN symbol_table_ : symbol_table_[n].address \in Int
      /\ IsSeq(back_patch_)
  BY <1>0 DEF Typed
<1>s. phase = "second" /\ pos_' = pos_ + 1
      /\ UNCHANGED <<source, phase, data_index_, symbol_table_, back_patch_>>
  BY DEF LoadAddress, Plain, InText, Advance
<1>1. CASE LoadAddress /\ KnownData(Item.of)
  <2> DEFINE here     == Len(intermediate_code_)
             distance == DataStart + symbol_table_[Item.of].address - 4 * here
             u == Unit("auipc", Upper(distance), "", TRUE)
             v == Unit("addi", distance - Upper(distance) * Page, "", TRUE)
  <2>1. Emit(<<u, v>>) /\ UNCHANGED errors_
    BY <1>1 DEF LoadAddress, NoError
  <2>2. /\ IsUnit(u) /\ u.patched = TRUE /\ Near(u)
        /\ IsUnit(v) /\ v.patched = TRUE /\ Near(v)
    BY DEF Unit, IsUnit, Near
  <2> HIDE DEF u, v
  <2>3. IsSeq(<<u, v>>) /\ \A k \in 1 .. Len(<<u, v>>) : <<u, v>>[k] = u \/ <<u, v>>[k] = v
    BY SeqTwo
  <2>4. QED
    BY <1>s, <2>1, <2>2, <2>3, EmitReady
<1>2. CASE LoadAddress /\ ~KnownData(Item.of)
  BY <1>2, <1>0, <1>t, <1>s, Quiet DEF LoadAddress, Error
<1>3. CASE Plain /\ Item.kind = "op"
  <2> DEFINE u == Unit("op", 0, "", TRUE)
  <2>1. Emit(<<u>>) /\ UNCHANGED errors_
    BY <1>3 DEF Plain, NoError
  <2>2. IsUnit(u) /\ u.patched = TRUE /\ Near(u)
    BY DEF Unit, IsUnit, Near
  <2> HIDE DEF u
  <2>3. IsSeq(<<u>>) /\ \A k \in 1 .. Len(<<u>>) : <<u>>[k] = u
    BY SeqOne
  <2>4. QED
    BY <1>s, <2>1, <2>2, <2>3, EmitReady
<1>4. CASE Plain /\ Item.kind # "op"
  BY <1>4, <1>0, <1>t, <1>s, Quiet DEF Plain, Error
<1>5. QED
  BY <1>1, <1>2, <1>3, <1>4
-------------------------------------------------------------------------------
(* Changing one unit of the code keeps its length and the other units. *)
LEMMA SeqExcept ==
  ASSUME NEW s, IsSeq(s), NEW i \in Int, NEW e
  PROVE  /\ IsSeq([s EXCEPT ![i] = e]) /\ Len([s EXCEPT ![i] = e]) = Len(s)
         /\ \A k \in 1 .. Len(s) : [s EXCEPT ![i] = e][k] = IF k = i THEN e ELSE s[k]
<1>1. PICK S : s \in Seq(S)
  BY DEF IsSeq
<1>2. s \in Seq(S \cup {e}) /\ Len(s) \in Nat /\ DOMAIN s = 1 .. Len(s)
  BY <1>1, SeqDef, LenProperties
<1>3. CASE i \in 1 .. Len(s)
  <2>1. [s EXCEPT ![i] = e] \in Seq(S \cup {e}) /\ Len([s EXCEPT ![i] = e]) = Len(s)
    BY <1>2, <1>3, ExceptSeq
  <2>2. QED
    BY <1>2, <2>1 DEF IsSeq
<1>4. CASE i \notin 1 .. Len(s)
  <2>1. [s EXCEPT ![i] = e] = s
    BY <1>2, <1>4
  <2>2. QED
    BY <1>2, <1>4, <2>1
<1>5. QED
  BY <1>3, <1>4

(* Writing back what was there changes nothing. *)
LEMMA SeqSame ==
  ASSUME NEW s, IsSeq(s), NEW i
  PROVE  s = [s EXCEPT ![i] = s[i]]
<1>1. PICK S : s \in Seq(S)
  BY DEF IsSeq
<1>2. s = [j \in 1 .. Len(s) |-> s[j]]
  BY <1>1, LenProperties
<1>3. QED
  BY <1>2

(* Setting the mark of a unit leaves its operation and its offset. *)
LEMMA UnitMarked ==
  ASSUME NEW u, IsUnit(u), NEW t
  PROVE  /\ IsUnit([u EXCEPT !.patched = t])
         /\ [u EXCEPT !.patched = t].patched = t
         /\ [u EXCEPT !.patched = t].op = u.op
         /\ [u EXCEPT !.patched = t].imm = u.imm
<1>1. PICK op, imm, label, patched, line :
        u = [op |-> op, imm |-> imm, label |-> label, patched |-> patched, line |-> line]
  BY DEF IsUnit
<1> DEFINE e == [op |-> op, imm |-> imm, label |-> label, patched |-> t, line |-> line]
<1>2. [u EXCEPT !.patched = t] = e
  BY <1>1, SMT
<1>3. IsUnit(e)
  BY Zenon DEF IsUnit
<1>4. e.patched = t /\ e.op = op /\ e.imm = imm
  BY SMT
<1>5. u.op = op /\ u.imm = imm
  BY <1>1, SMT
<1> HIDE DEF e
<1>6. QED
  BY <1>2, <1>3, <1>4, <1>5

(* A unit with an offset and the mark, as the back-patching leaves it. *)
Patched(u, i, t) == [u EXCEPT !.imm = i, !.patched = t]

(* Setting the offset and the mark of a unit leaves its operation. *)
LEMMA UnitExcept ==
  ASSUME NEW u, IsUnit(u), NEW i, NEW t
  PROVE  /\ IsUnit(Patched(u, i, t)) /\ Patched(u, i, t).patched = t
         /\ Patched(u, i, t).op = u.op /\ Patched(u, i, t).imm = i
<1>1. PICK op, imm, label, patched, line :
        u = [op |-> op, imm |-> imm, label |-> label, patched |-> patched, line |-> line]
  BY DEF IsUnit
<1> DEFINE v == [op |-> op, imm |-> i, label |-> label, patched |-> patched, line |-> line]
           e == [op |-> op, imm |-> i, label |-> label, patched |-> t, line |-> line]
<1>2. [u EXCEPT !.imm = i] = v
  BY <1>1, SMT
<1>3. [v EXCEPT !.patched = t] = e
  BY SMT
<1>4. [u EXCEPT !.imm = i, !.patched = t] = [[u EXCEPT !.imm = i] EXCEPT !.patched = t]
  OBVIOUS
<1>5. u.op = op
  BY <1>1, SMT
<1>6. IsUnit(e)
  BY Zenon DEF IsUnit
<1>7. e.patched = t /\ e.op = op /\ e.imm = i
  BY SMT
<1> HIDE DEF v
<1>8. Patched(u, i, t) = e
  BY <1>2, <1>3, <1>4, Zenon DEF Patched
<1> HIDE DEF e
<1>9. QED
  BY <1>5, <1>6, <1>7, <1>8

(* The unit that an entry of the patch list is about gets its offset, if    *)
(* that is in reach, and the next entry is the next one due.                *)
LEMMA BackPatchInv ==
  ASSUME PInv, BackPatch
  PROVE  PInv'
<1> DEFINE k    == back_patch_[pos_]
           code == intermediate_code_
           unit == code[k + 1]
<1>0. Typed
  BY DEF PInv
<1>t. /\ source \in Sources \cup {<<>>} /\ pos_ \in Nat \ {0} /\ data_index_ \in Int
      /\ \A n \in DOMAIN symbol_table_ : symbol_table_[n].address \in Int
      /\ IsSeq(code) /\ IsSeq(back_patch_)
      /\ Len(code) \in Nat /\ Len(back_patch_) \in Nat
  BY <1>0, SeqLen DEF Typed
<1>s. phase = "patch" /\ phase' = "patch" /\ pos_ <= Len(back_patch_) /\ pos_' = pos_ + 1
      /\ UNCHANGED <<source, data_index_, symbol_table_, back_patch_>>
  BY DEF BackPatch, Advance
<1>u. /\ k \in 0 .. Len(code) - 1 /\ k + 1 \in 1 .. Len(code)
      /\ \A n \in 1 .. Len(code) : IsUnit(code[n])
      /\ \A j \in 1 .. Len(back_patch_) : back_patch_[j] \in 0 .. Len(code) - 1
  BY <1>0, <1>t, <1>s DEF Typed
<1> HIDE DEF k
(* What the step owes, once the code is known to change at k + 1 only. *)
<1>c. ASSUME NEW e, code' = [code EXCEPT ![k + 1] = e], IsUnit(e),
             errors_ \subseteq errors_',
             errors_' = {} => e.patched = TRUE /\ Near(e)
      PROVE  PInv'
  <2>1. /\ IsSeq(code') /\ Len(code') = Len(code)
        /\ \A n \in 1 .. Len(code) : code'[n] = IF n = k + 1 THEN e ELSE code[n]
    <3>1. k + 1 \in Int /\ IsSeq(code)
      BY <1>t, <1>u
    <3> DEFINE i == k + 1
    <3>2. i \in Int
      BY <3>1
    <3>3. code' = [code EXCEPT ![i] = e]
      BY <1>c
    <3> HIDE DEF i
    <3>4. IsSeq([code EXCEPT ![i] = e])
      BY <3>1, <3>2, SeqExcept
    <3>5. Len([code EXCEPT ![i] = e]) = Len(code)
      BY <3>1, <3>2, SeqExcept
    <3>6. \A n \in 1 .. Len(code) :
            [code EXCEPT ![i] = e][n] = IF n = i THEN e ELSE code[n]
      BY <3>1, <3>2, SeqExcept
    <3>7. /\ IsSeq(code') /\ Len(code') = Len(code)
          /\ \A n \in 1 .. Len(code) : code'[n] = IF n = i THEN e ELSE code[n]
      BY <3>3, <3>4, <3>5, <3>6
    <3>8. QED
      BY <3>7 DEF i
  <2>2. Typed'
    <3>1. \A n \in 1 .. Len(code') : IsUnit(code'[n])
      BY <1>c, <1>u, <2>1
    <3>2. QED
      BY <1>s, <1>t, <1>u, <2>1, <3>1 DEF Typed
  <2>3. Waiting'
    <3> SUFFICES ASSUME errors_' = {}, NEW n \in 1 .. Len(code), ~code'[n].patched
                 PROVE  \E j \in 1 .. Len(back_patch_) : back_patch_[j] = n - 1 /\ j >= pos_'
      BY <1>s, <2>1 DEF Waiting
    <3>1. n # k + 1 /\ errors_ = {} /\ ~code[n].patched
      BY <1>c, <2>1
    <3>2. PICK j \in 1 .. Len(back_patch_) : back_patch_[j] = n - 1 /\ j >= pos_
      BY <1>s, <3>1 DEF PInv, Waiting
    <3>3. j # pos_
      BY <1>u, <3>1, <3>2 DEF k
    <3>4. QED
      BY <1>s, <1>t, <3>2, <3>3
  <2>4. Reaching'
    <3> SUFFICES ASSUME errors_' = {}, NEW n \in 1 .. Len(code), code'[n].patched
                 PROVE  Near(code'[n])
      BY <2>1 DEF Reaching, Near, InReach, Reach
    <3>1. errors_ = {}
      BY <1>c
    <3>2. QED
      BY <1>c, <2>1, <3>1 DEF PInv, Reaching
  <2>5. QED
    BY <2>2, <2>3, <2>4 DEF PInv
<1>1. CASE Patchable(unit, k)
  <2> DEFINE offset == Offset(unit.label, k)
             e      == [unit EXCEPT !.imm = offset, !.patched = TRUE]
  <2>1. errors_' = errors_
        /\ code' = [code EXCEPT ![k + 1].imm = offset, ![k + 1].patched = TRUE]
    BY <1>1 DEF BackPatch, NoError, k
  <2>2. code' = [code EXCEPT ![k + 1] = e]
    BY <2>1, <1>t, <1>u, SeqLen
  <2>3. offset \in Int /\ InReach(unit.op, offset)
    BY <1>1, <1>t, <1>u DEF Patchable, Offset
  <2>4. IsUnit(e) /\ e.patched = TRUE /\ e.op = unit.op /\ e.imm = offset
    <3>1. IsUnit(unit)
      BY <1>u
    <3> DEFINE mark == TRUE
    <3> HIDE DEF unit, offset, mark
    <3>2. /\ IsUnit(Patched(unit, offset, mark)) /\ Patched(unit, offset, mark).patched = mark
          /\ Patched(unit, offset, mark).op = unit.op
          /\ Patched(unit, offset, mark).imm = offset
      BY <3>1, UnitExcept
    <3>3. e = Patched(unit, offset, mark)
      BY Zenon DEF Patched, mark
    <3> HIDE DEF e
    <3>4. QED
      BY <3>2, <3>3 DEF mark
  <2>5. Near(e)
    BY <2>3, <2>4 DEF Near
  <2> HIDE DEF e
  <2>6. QED
    BY <1>c, <2>1, <2>2, <2>4, <2>5
<1>2. CASE ~Patchable(unit, k)
  <2>1. errors_' # {} /\ errors_ \subseteq errors_'
    BY <1>2 DEF BackPatch, Error, k
  <2>2. CASE code' = code
    <3>1. code' = [code EXCEPT ![k + 1] = unit]
      BY <2>2, <1>t, SeqSame
    <3>2. IsUnit(unit)
      BY <1>u
    <3>3. QED
      BY <1>c, <2>1, <3>1, <3>2
  <2>3. CASE code' = [code EXCEPT ![k + 1].patched = TRUE]
    <3> DEFINE e == [unit EXCEPT !.patched = TRUE]
    <3>1. code' = [code EXCEPT ![k + 1] = e]
      BY <2>3
    <3>2. IsUnit(e)
      BY <1>u, UnitMarked
    <3> HIDE DEF e
    <3>3. QED
      BY <1>c, <2>1, <3>1, <3>2
  <2>4. QED
    BY <1>2, <2>2, <2>3 DEF BackPatch, k
<1>3. QED
  BY <1>1, <1>2
-------------------------------------------------------------------------------
(* The parser that assemble() leaves, with a program or with an exception. *)
LEMMA DoneInv ==
  ASSUME PInv, LoadProgram \/ Reject
  PROVE  PInv'
<1>1. /\ intermediate_code_' = <<>> /\ back_patch_' = <<>> /\ symbol_table_' = <<>>
      /\ data_index_' = 0 /\ pos_' = 1 /\ source' = source
  BY DEF LoadProgram, Reject, EmptyParser
<1>2. IsSeq(<<>>) /\ Len(<<>>) = 0
  BY EmptySeq DEF IsSeq
<1>3. source' \in Sources \cup {<<>>}
  BY <1>1 DEF PInv, Typed
<1>4. Typed'
  BY <1>1, <1>2, <1>3 DEF Typed
<1>5. Waiting' /\ Reaching'
  BY <1>1, <1>2 DEF Waiting, Reaching
<1>6. QED
  BY <1>4, <1>5 DEF PInv

(* A new file, or a breakpoint, comes between two files. *)
LEMMA IdleInv ==
  ASSUME PInv,
         \/ \E file \in Sources : Load(file)
         \/ \E line \in DOMAIN program_.lines : AddBreakpoint(line) \/ RemoveBreakpoint(line)
         \/ UNCHANGED vars
  PROVE  PInv'
<1>t. /\ source \in Sources \cup {<<>>} /\ pos_ \in Nat \ {0} /\ data_index_ \in Int
      /\ \A n \in DOMAIN symbol_table_ : symbol_table_[n].address \in Int
  BY DEF PInv, Typed
<1>1. /\ UNCHANGED <<intermediate_code_, back_patch_, errors_, pos_, data_index_, symbol_table_>>
      /\ source' \in Sources \cup {<<>>}
      /\ phase' = phase \/ phase' = "first"
  <2>1. CASE \E file \in Sources : Load(file)
    BY <2>1 DEF Load
  <2>2. CASE \E line \in DOMAIN program_.lines : AddBreakpoint(line) \/ RemoveBreakpoint(line)
    BY <2>2, <1>t DEF AddBreakpoint, RemoveBreakpoint, parser
  <2>3. CASE UNCHANGED vars
    BY <2>3, <1>t DEF vars, parser
  <2>4. QED
    BY <2>1, <2>2, <2>3
<1>2. QED
  BY <1>t, <1>1, Quiet

(* The parser starts empty. *)
LEMMA InitPInv == Init => PInv
BY EmptyInv DEF Init

(* Every step keeps the invariant. *)
LEMMA StepPInv == PInv /\ [Next]_vars => PInv'
<1> SUFFICES ASSUME PInv, [Next]_vars
             PROVE  PInv'
  OBVIOUS
<1>1. CASE FirstTop \/ FirstSkip \/ FirstEnd \/ DataEnd \/ DataLabel \/ DataDirective \/ DataOther
  BY <1>1, FirstPass
<1>2. CASE SecondTop \/ SecondSkip \/ SecondEnd \/ TextEnd \/ TextLabel
  BY <1>2, SecondPass
<1>3. CASE Transfer
  BY <1>3, TransferInv
<1>4. CASE LoadAddress \/ Plain
  BY <1>4, PlainInv
<1>5. CASE BackPatch
  BY <1>5, BackPatchInv
<1>6. CASE LoadProgram \/ Reject
  BY <1>6, DoneInv
<1>7. CASE (\E file \in Sources : Load(file))
             \/ (\E line \in DOMAIN program_.lines : AddBreakpoint(line) \/ RemoveBreakpoint(line))
             \/ UNCHANGED vars
  BY <1>7, IdleInv
<1>8. QED
  BY <1>1, <1>2, <1>3, <1>4, <1>5, <1>6, <1>7 DEF Next, Parse

(* What the invariant says when the last entry of the patch list is done:   *)
(* no unit waits, and each is near enough for the bits it keeps.            *)
LEMMA EncodedBits ==
  ASSUME PInv, Assembled, errors_ = {}, NEW k \in 1 .. Len(intermediate_code_)
  PROVE  LET unit == intermediate_code_[k] IN
         /\ unit.patched
         /\ unit.op \in {"branch", "jal"} => Signed(Encode(unit)) = unit.imm - (unit.imm % 2)
<1> DEFINE u == intermediate_code_[k]
<1>1. Len(back_patch_) \in Nat /\ pos_ \in Nat /\ phase = "patch" /\ pos_ > Len(back_patch_)
  BY SeqLen DEF PInv, Typed, Assembled
<1>2. u.patched
  <2>1. ~ \E j \in 1 .. Len(back_patch_) : j >= pos_
    BY <1>1
  <2>2. QED
    BY <1>1, <2>1 DEF PInv, Waiting
<1>3. ASSUME u.op \in {"branch", "jal"}
      PROVE  Signed(Encode(u)) = u.imm - (u.imm % 2)
  <2> DEFINE r == Reach(u.op)
             i == u.imm
             n == i - (i % 2)
             m == n % (2 * r)
  <2>1. i \in Int /\ -r <= i /\ i < r
    BY <1>1, <1>2, <1>3 DEF PInv, Reaching, Near, InReach
  <2>2. r \in Nat \ {0} /\ r % 2 = 0
    BY AssemblerAssumption DEF Reach
  <2>3. Modulus(u.op) = 2 * r
    BY <1>3 DEF Modulus, Reach
  <2>4. Encode(u).op = u.op /\ Encode(u).imm = m
    BY <1>3, <2>3 DEF Encode, Kept
  <2>5. n \in Int /\ -r <= n /\ n < r
    <3> HIDE DEF r, i
    <3> QED
      BY <2>1, <2>2
  <2>6. (IF m < (2 * r) \div 2 THEN m ELSE m - 2 * r) = n
    <3> HIDE DEF r, n
    <3> QED
      BY <2>2, <2>5, SignedExact
  <2>7. QED
    <3>1. Signed(Encode(u)) = IF m < (2 * r) \div 2 THEN m ELSE m - 2 * r
      BY <2>3, <2>4 DEF Signed
    <3>2. QED
      BY <2>6, <3>1
<1>4. QED
  BY <1>2, <1>3
-------------------------------------------------------------------------------
(* A set of numbers that has 0 and the successor of each of its members has *)
(* them all.                                                                *)
LEMMA NatSet ==
  ASSUME NEW S \in SUBSET Nat, 0 \in S, \A n \in S : n + 1 \in S
  PROVE  S = Nat
<1> DEFINE Less == OpToRel(<, Nat)
           T    == Nat \ S
<1>1. SUFFICES ASSUME T # {} PROVE FALSE
  OBVIOUS
<1>2. IsWellFoundedOn(Less, Nat)
  BY NatLessThanWellFounded
<1>3. PICK x \in T : \A y \in T : <<y, x>> \notin Less
  <2> HIDE DEF Less, T
  <2>1. T \subseteq Nat /\ T # {}
    BY <1>1 DEF T
  <2> QED
    BY <1>2, <2>1, WFMin, Zenon
<1>4. x - 1 \in Nat /\ x - 1 \notin S
  <2>1. x \in Nat /\ x \notin S
    BY <1>3
  <2>2. x # 0
    BY <2>1
  <2>3. x - 1 \in Nat /\ (x - 1) + 1 = x
    BY <2>1, <2>2
  <2> QED
    BY <2>1, <2>3
<1>5. <<x - 1, x>> \in Less
  BY <1>3, <1>4 DEF OpToRel
<1> QED
  BY <1>3, <1>4, <1>5

(* The greatest number of a set that has one. *)
LEMMA MaxIs ==
  ASSUME NEW S \in SUBSET Int, NEW m \in S, \A y \in S : m >= y
  PROVE  Max(S) = m
<1>1. Max(S) \in S /\ \A y \in S : Max(S) >= y
  BY DEF Max
<1>2. Max(S) >= m /\ m >= Max(S) /\ m \in Int /\ Max(S) \in Int
  BY <1>1
<1> QED
  BY <1>2

(* A set of indices that is not empty has a greatest one. *)
LEMMA MaxIn ==
  ASSUME NEW n \in Nat, NEW S \in SUBSET (0 .. n), S # {}
  PROVE  Max(S) \in S /\ \A y \in S : Max(S) >= y
<1> DEFINE Has(T) == \E m \in T : \A y \in T : m >= y
           N == {k \in Nat : \A T \in SUBSET (0 .. k) : T # {} => Has(T)}
<1>1. N \in SUBSET Nat
  OBVIOUS
<1>2. 0 \in N
  <2> SUFFICES ASSUME NEW T \in SUBSET (0 .. 0), T # {} PROVE Has(T)
    OBVIOUS
  <2>1. 0 .. 0 = {0}
    OBVIOUS
  <2>2. T = {0}
    BY <2>1
  <2> QED
    BY <2>2
<1>3. ASSUME NEW k \in N PROVE k + 1 \in N
  <2> SUFFICES ASSUME NEW T \in SUBSET (0 .. k + 1), T # {} PROVE Has(T)
    OBVIOUS
  <2>1. CASE k + 1 \in T
    BY <2>1
  <2>2. CASE k + 1 \notin T
    <3>1. T \in SUBSET (0 .. k)
      BY <2>2
    <3> QED
      BY <3>1
  <2> QED
    BY <2>1, <2>2
<1> HIDE DEF N
<1>4. n \in N
  BY <1>1, <1>2, <1>3, NatSet
<1>5. Has(S)
  BY <1>4 DEF N
<1> QED
  BY <1>5 DEF Max
-------------------------------------------------------------------------------
(***************************************************************************)
(* Types.  What the parser is doing bounds where it is, and the patch list *)
(* names the units that wait, each once.                                   *)
(***************************************************************************)
Places ==
  /\ phase \in {"idle", "first", "second", "patch"}
  /\ loop \in {"top", "data", "bss", "text", "skip"}
  /\ phase \in {"idle", "patch"} => loop = "top"
  /\ pos_ <= Len(source) + 1
  /\ phase = "idle" => pos_ = 1 /\ symbol_table_ = <<>>
  /\ phase \in {"idle", "first"} => intermediate_code_ = <<>> /\ back_patch_ = <<>>
  /\ Len(back_patch_) <= Len(source)
  /\ phase = "second" => Len(back_patch_) < pos_
  /\ phase = "patch" => pos_ <= Len(back_patch_) + 1

(* The length of the file being assembled. *)
LEMMA SourceLen ==
  ASSUME PInv
  PROVE  /\ Len(source) \in Nat /\ DOMAIN source = 1 .. Len(source)
         /\ \A j \in 1 .. Len(source) : source[j] \in Items
         /\ pos_ \in Nat \ {0} /\ pos_ + 1 \in Nat
         /\ Len(back_patch_) \in Nat /\ Len(intermediate_code_) \in Nat
         /\ IsSeq(intermediate_code_) /\ IsSeq(back_patch_)
<1>1. CASE source \in Sources
  BY <1>1, SourceTyped, SeqLen DEF PInv, Typed
<1>2. CASE source = <<>>
  BY <1>2, SeqLen, EmptySeq DEF PInv, Typed
<1> QED
  BY <1>1, <1>2 DEF PInv, Typed

(* Nothing has no length. *)
LEMMA EmptyLen == Len(<<>>) = 0
OBVIOUS

(* An entry makes the patch list longer by one. *)
LEMMA AppendLen ==
  ASSUME NEW s, IsSeq(s), NEW e
  PROVE  IsSeq(Append(s, e)) /\ Len(Append(s, e)) = Len(s) + 1
<1>1. IsSeq(<<e>>) /\ Len(<<e>>) = 1
  BY SeqOne
<1> DEFINE one == <<e>>
<1>2. IsSeq(one) /\ Len(one) = 1
  BY <1>1
<1>3. Append(s, e) = s \o one
  BY PatchList
<1> HIDE DEF one
<1> QED
  BY <1>2, <1>3, SeqConcat

(* Every step keeps the parser in its place. *)
LEMMA StepPlaces ==
  ASSUME PInv, Places, [Next]_vars
  PROVE  Places'
<1>0. /\ Len(source) \in Nat /\ pos_ \in Nat \ {0}
      /\ Len(back_patch_) \in Nat /\ IsSeq(back_patch_)
  BY SourceLen
<1>1. CASE FirstTop
  BY <1>0, <1>1 DEF Places, FirstTop, Advance, Goto, AtEnd
<1>2. CASE FirstSkip
  BY <1>0, <1>2 DEF Places, FirstSkip, Advance, Goto, AtEnd
<1>3. CASE FirstEnd
  BY <1>0, <1>3, EmptyLen DEF Places, FirstEnd
<1>4. CASE DataEnd
  BY <1>0, <1>4 DEF Places, DataEnd, Goto
<1>5. CASE DataLabel
  BY <1>0, <1>5 DEF Places, DataLabel, Advance, AtEnd
<1>6. CASE DataDirective
  BY <1>0, <1>6 DEF Places, DataDirective, Advance, AtEnd
<1>7. CASE DataOther
  BY <1>0, <1>7 DEF Places, DataOther, Advance, AtEnd
<1>8. CASE SecondTop
  BY <1>0, <1>8 DEF Places, SecondTop, Advance, Goto, AtEnd
<1>9. CASE SecondSkip
  BY <1>0, <1>9 DEF Places, SecondSkip, Advance, Goto, AtEnd
<1>10. CASE SecondEnd
  BY <1>0, <1>10 DEF Places, SecondEnd
<1>11. CASE TextEnd
  BY <1>0, <1>11 DEF Places, TextEnd, Goto
<1>12. CASE TextLabel
  BY <1>0, <1>12 DEF Places, TextLabel, InText, Advance, AtEnd
<1>13. CASE Transfer
  <2>1. Len(back_patch_') \in {Len(back_patch_), Len(back_patch_) + 1}
    BY <1>0, <1>13, AppendLen DEF Transfer
  <2> QED
    BY <1>0, <1>13, <2>1 DEF Places, Transfer, InText, Advance, AtEnd
<1>14. CASE LoadAddress
  <2>1. /\ phase = "second" /\ ~AtEnd /\ pos_' = pos_ + 1
        /\ UNCHANGED <<source, phase, loop, back_patch_>>
    BY <1>14 DEF LoadAddress, InText, Advance
  <2> QED
    BY <1>0, <2>1 DEF Places, AtEnd
<1>15. CASE Plain
  <2>1. /\ phase = "second" /\ ~AtEnd /\ pos_' = pos_ + 1
        /\ UNCHANGED <<source, phase, loop, back_patch_>>
    BY <1>15 DEF Plain, InText, Advance
  <2> QED
    BY <1>0, <2>1 DEF Places, AtEnd
<1>16. CASE BackPatch
  BY <1>0, <1>16 DEF Places, BackPatch, Advance
<1>17. CASE LoadProgram \/ Reject
  BY <1>0, <1>17, EmptyLen DEF Places, LoadProgram, Reject, EmptyParser
<1>18. CASE \E file \in Sources : Load(file)
  <2>1. PICK file \in Sources : Load(file)
    BY <1>18
  <2>2. Len(file) \in Nat
    BY SourceTyped
  <2> QED
    BY <1>0, <2>1, <2>2, EmptyLen DEF Places, Load
<1>19. CASE \/ \E line \in DOMAIN program_.lines : AddBreakpoint(line) \/ RemoveBreakpoint(line)
            \/ UNCHANGED vars
  BY <1>0, <1>19 DEF Places, AddBreakpoint, RemoveBreakpoint, parser, vars
<1> QED
  BY <1>1, <1>2, <1>3, <1>4, <1>5, <1>6, <1>7, <1>8, <1>9, <1>10, <1>11, <1>12, <1>13,
     <1>14, <1>15, <1>16, <1>17, <1>18, <1>19 DEF Next, Parse

(***************************************************************************)
(* Which steps change what.                                                *)
(***************************************************************************)
LEMMA CodeSteps ==
  ASSUME [Next]_vars
  PROVE  \/ /\ UNCHANGED <<intermediate_code_, back_patch_>>
            /\ errors_ \subseteq errors_'
            /\ phase = "patch" => phase' = "patch" /\ pos_' = pos_
            /\ phase' = "patch" => pos_' = 1 \/ phase = "patch"
         \/ Transfer \/ LoadAddress \/ Plain \/ BackPatch \/ LoadProgram \/ Reject
<1>1. CASE FirstTop \/ FirstSkip \/ FirstEnd \/ DataEnd \/ DataLabel \/ DataDirective \/ DataOther
  BY <1>1 DEF FirstTop, FirstSkip, FirstEnd, DataEnd, DataLabel, DataDirective, DataOther,
       Error, NoError
<1>2. CASE SecondTop \/ SecondSkip \/ SecondEnd \/ TextEnd \/ TextLabel
  BY <1>2 DEF SecondTop, SecondSkip, SecondEnd, TextEnd, TextLabel, InText, Error, NoError
<1>3. CASE \/ \E file \in Sources : Load(file)
           \/ \E line \in DOMAIN program_.lines : AddBreakpoint(line) \/ RemoveBreakpoint(line)
           \/ UNCHANGED vars
  BY <1>3 DEF Load, AddBreakpoint, RemoveBreakpoint, vars, parser
<1> QED
  BY <1>1, <1>2, <1>3 DEF Next, Parse

(* Who changes the symbol table. *)
LEMMA SymbolSteps ==
  ASSUME [Next]_vars
  PROVE  \/ UNCHANGED <<data_index_, symbol_table_>>
         \/ DataLabel \/ DataDirective \/ TextLabel \/ LoadProgram \/ Reject
BY DEF Next, Parse, vars, parser, FirstTop, FirstSkip, FirstEnd, DataEnd,
  DataOther, SecondTop, SecondSkip, SecondEnd, TextEnd, Transfer, LoadAddress, Plain,
  BackPatch, Load, AddBreakpoint, RemoveBreakpoint

(* Who changes the machine. *)
LEMMA MachineSteps ==
  ASSUME [Next]_vars
  PROVE  \/ UNCHANGED <<program_, memory, program_size_, breakpoints>>
         \/ LoadProgram
         \/ \E line \in DOMAIN program_.lines : AddBreakpoint(line) \/ RemoveBreakpoint(line)
BY DEF Next, Parse, vars, machine, FirstTop, FirstSkip, FirstEnd, DataEnd, DataLabel,
  DataDirective, DataOther, SecondTop, SecondSkip, SecondEnd, TextEnd, TextLabel, Transfer,
  LoadAddress, Plain, BackPatch, Reject, Load

(* The parser begins each file with nothing, and ends it so. *)
LEMMA SourceSteps ==
  ASSUME [Next]_vars
  PROVE  \/ UNCHANGED source
         \/ \E file \in Sources : Load(file)
BY DEF Next, Parse, vars, parser, FirstTop, FirstSkip, FirstEnd, DataEnd, DataLabel,
  DataDirective, DataOther, SecondTop, SecondSkip, SecondEnd, TextEnd, TextLabel, Transfer,
  LoadAddress, Plain, BackPatch, LoadProgram, Reject, AddBreakpoint, RemoveBreakpoint
-------------------------------------------------------------------------------
SymbolsTyped ==
  /\ data_index_ \in Nat
  /\ \A n \in DOMAIN symbol_table_ :
       symbol_table_[n] \in [address : Nat, line_number : Nat, isData : BOOLEAN]

(* Rounding up to an alignment gives a natural number. *)
LEMMA AlignNat ==
  ASSUME NEW n \in Nat, NEW a \in Nat \ {0}
  PROVE  AlignUp(n, a) \in Nat
<1>1. n + a - 1 \in Nat
  OBVIOUS
<1>2. (n + a - 1) \div a \in Nat
  BY <1>1
<1> DEFINE q == (n + a - 1) \div a
<1>3. q \in Nat
  BY <1>2
<1> HIDE DEF q
<1>4. q * a \in Nat
  BY <1>3
<1> QED
  BY <1>4 DEF AlignUp, q

(* A table with one more symbol, or a symbol replaced. *)
LEMMA BindSymbol ==
  ASSUME SymbolsTyped, NEW name, NEW address \in Nat, NEW line \in Nat, NEW isData \in BOOLEAN,
         symbol_table_' = Bind(symbol_table_, name, Symbol(address, line, isData))
  PROVE  \A n \in DOMAIN symbol_table_' :
           symbol_table_'[n] \in [address : Nat, line_number : Nat, isData : BOOLEAN]
<1>1. Symbol(address, line, isData) \in [address : Nat, line_number : Nat, isData : BOOLEAN]
  BY DEF Symbol
<1> DEFINE entry == Symbol(address, line, isData)
<1> HIDE DEF entry
<1>2. \A n \in DOMAIN symbol_table_' :
        /\ n \in DOMAIN symbol_table_ \cup {name}
        /\ symbol_table_'[n] = IF n = name THEN entry ELSE symbol_table_[n]
  BY DEF Bind, entry
<1> QED
  BY <1>1, <1>2 DEF SymbolsTyped, entry

(* Every step keeps the symbols typed. *)
LEMMA StepSymbols ==
  ASSUME PInv, Places, SymbolsTyped, [Next]_vars
  PROVE  SymbolsTyped'
<1>0. /\ Len(source) \in Nat /\ pos_ \in Nat \ {0} /\ pos_ + 1 \in Nat
      /\ \A j \in 1 .. Len(source) : source[j] \in Items
      /\ Len(intermediate_code_) \in Nat
  BY SourceLen
<1>i. ~AtEnd => Item \in Items
  BY <1>0 DEF AtEnd, Item
<1>1. CASE UNCHANGED <<data_index_, symbol_table_>>
  BY <1>1 DEF SymbolsTyped
<1>2. CASE DataLabel
  <2>1. Item.line \in Nat
    BY <1>i, <1>2 DEF DataLabel, Items, Lines
  <2>2. data_index_' \in Nat
    <3>1. CASE pos_ < Len(source) /\ source[pos_ + 1].kind = "data"
      <4>1. source[pos_ + 1].align \in Nat \ {0}
        BY <1>0, <3>1 DEF Items
      <4> QED
        BY <1>2, <3>1, <4>1, AlignNat DEF DataLabel, SymbolsTyped
    <3>2. CASE ~(pos_ < Len(source) /\ source[pos_ + 1].kind = "data")
      BY <1>2, <3>2 DEF DataLabel, SymbolsTyped
    <3> QED
      BY <3>1, <3>2
  <2>3. symbol_table_' = Bind(symbol_table_, Item.name, Symbol(data_index_', Item.line, TRUE))
    BY <1>2 DEF DataLabel
  <2> QED
    BY <2>1, <2>2, <2>3, BindSymbol DEF SymbolsTyped
<1>3. CASE DataDirective
  <2>1. Item.size \in Nat /\ Item.align \in Nat \ {0} /\ Item.values \in Nat
    BY <1>i, <1>3 DEF DataDirective, Items
  <2>2. AlignUp(data_index_, Item.align) \in Nat /\ Item.values * Item.size \in Nat
    BY <2>1, AlignNat DEF SymbolsTyped
  <2>3. data_index_' \in Nat /\ UNCHANGED symbol_table_
    BY <1>3, <2>2 DEF DataDirective, SymbolsTyped
  <2> QED
    BY <2>3 DEF SymbolsTyped
<1>4. CASE TextLabel
  <2>1. Item.line \in Nat
    BY <1>i, <1>4 DEF TextLabel, InText, Items, Lines
  <2>2. UNCHANGED data_index_
    BY <1>4 DEF TextLabel
  <2>3. CASE UNCHANGED symbol_table_
    BY <2>2, <2>3 DEF SymbolsTyped
  <2>4. CASE symbol_table_' = Bind(symbol_table_, Item.name,
                                   Symbol(4 * Len(intermediate_code_), Item.line, FALSE))
    <3>1. 4 * Len(intermediate_code_) \in Nat
      BY <1>0
    <3> QED
      BY <2>1, <2>2, <2>4, <3>1, BindSymbol DEF SymbolsTyped
  <2> QED
    BY <1>4, <2>3, <2>4 DEF TextLabel
<1>5. CASE LoadProgram \/ Reject
  BY <1>5 DEF LoadProgram, Reject, EmptyParser, SymbolsTyped
<1> QED
  BY <1>1, <1>2, <1>3, <1>4, <1>5, SymbolSteps
-------------------------------------------------------------------------------
Ops == {"branch", "jal", "auipc", "addi", "op"}

UnitsTyped == \A k \in 1 .. Len(intermediate_code_) : intermediate_code_[k] \in Units(Ops)

(* An instruction that is emitted: its units have its line; a branch or a   *)
(* jump has its label, and its offset or an entry in the patch list.        *)
Known(u) ==
  /\ u.patched = TRUE
  /\ u.op \in {"branch", "jal"} =>
       KnownText(u.label) /\ u.imm = Offset(u.label, Len(intermediate_code_))

Emits(units) ==
  /\ IsSeq(units) /\ Emit(units)
  /\ Len(units) = 1 \/ (Len(units) = 2 /\ Item.kind = "la")
  /\ \A k \in 1 .. Len(units) :
       /\ units[k] \in Units(Ops) /\ units[k].line = Item.line
       /\ units[k].op \in {"branch", "jal"} =>
            Len(units) = 1 /\ units[k].op = Item.kind /\ units[k].label = Item.to
  /\ \/ /\ UNCHANGED back_patch_
        /\ \A k \in 1 .. Len(units) : Known(units[k])
     \/ /\ back_patch_' = Append(back_patch_, Len(intermediate_code_))
        /\ Len(units) = 1 /\ units[1].patched = FALSE

(* A unit made of typed parts. *)
LEMMA UnitTyped ==
  ASSUME NEW op \in Ops, NEW imm \in Int, NEW label \in STRING \cup {""}, NEW patched \in BOOLEAN,
         Item.line \in Nat
  PROVE  Unit(op, imm, label, patched) \in Units(Ops)
BY DEF Unit, Units

(* One unit, with its offset or with an entry in the patch list. *)
LEMMA EmitsOne ==
  ASSUME NEW u, Emit(<<u>>), u \in Units(Ops), u.line = Item.line,
         u.op \in {"branch", "jal"} => u.op = Item.kind /\ u.label = Item.to,
         \/ UNCHANGED back_patch_ /\ Known(u)
         \/ back_patch_' = Append(back_patch_, Len(intermediate_code_)) /\ u.patched = FALSE
  PROVE  \E units : Emits(units)
<1> DEFINE units == <<u>>
<1>1. /\ IsSeq(units) /\ Len(units) = 1 /\ units[1] = u
      /\ \A k \in 1 .. Len(units) : k = 1 /\ units[k] = u
  BY SeqOne
<1>2. Emit(units)
  OBVIOUS
<1> HIDE DEF units
<1>3. Emits(units)
  BY <1>1, <1>2 DEF Emits
<1> QED
  BY <1>3

(* What the actions that emit have in common. *)
LEMMA EmitSteps ==
  ASSUME PInv, SymbolsTyped, Transfer \/ LoadAddress \/ Plain
  PROVE  /\ phase = "second" /\ loop = "text" /\ ~AtEnd /\ pos_' = pos_ + 1
         /\ UNCHANGED <<source, phase, loop, symbol_table_>>
         /\ Item \in Items /\ IsInstruction(Item)
         /\ \/ /\ UNCHANGED <<intermediate_code_, back_patch_>>
               /\ errors_ \subseteq errors_' /\ errors_' # {}
            \/ UNCHANGED errors_ /\ Item.kind # "bad" /\ \E units : Emits(units)
<1> DEFINE here == Len(intermediate_code_)
<1>0. /\ here \in Nat /\ Len(source) \in Nat /\ pos_ \in Nat \ {0}
      /\ \A j \in 1 .. Len(source) : source[j] \in Items
  BY SourceLen
<1>1. /\ phase = "second" /\ loop = "text" /\ ~AtEnd /\ pos_' = pos_ + 1
      /\ UNCHANGED <<source, phase, loop, symbol_table_>>
  BY DEF Transfer, LoadAddress, Plain, InText, Advance
<1>2. Item \in Items
  BY <1>0, <1>1 DEF AtEnd, Item
<1>3. IsInstruction(Item)
  BY DEF Transfer, LoadAddress, Plain, InText, IsInstruction
<1>4. Item.line \in Nat
  BY <1>2 DEF Items, Lines
<1>5. CASE Transfer
  <2>0. Item.to \in STRING /\ Item.kind \in {"branch", "jal"}
    BY <1>2, <1>5 DEF Transfer, InText, Items
  <2>1. CASE KnownText(Item.to) /\ InReach(Item.kind, Offset(Item.to, here))
    <3> DEFINE u == Unit(Item.kind, Offset(Item.to, here), Item.to, TRUE)
    <3>1. Emit(<<u>>) /\ UNCHANGED <<errors_, back_patch_>>
      BY <1>5, <2>1 DEF Transfer, NoError
    <3>2. symbol_table_[Item.to].address \in Nat
      BY <2>1 DEF KnownText, SymbolsTyped
    <3>3. Offset(Item.to, here) \in Int
      BY <3>2, <1>0 DEF Offset
    <3>4. /\ u \in Units(Ops) /\ u.line = Item.line /\ u.op = Item.kind /\ u.label = Item.to
          /\ u.patched = TRUE /\ u.imm = Offset(Item.to, here)
      BY <2>0, <3>3, <1>4 DEF Unit, Units, Ops
    <3> HIDE DEF u
    <3>5. Known(u)
      BY <2>1, <3>4 DEF Known
    <3> QED
      BY <1>1, <1>2, <1>3, <2>0, <3>1, <3>4, <3>5, EmitsOne
  <2>2. CASE KnownText(Item.to) /\ ~InReach(Item.kind, Offset(Item.to, here))
    BY <1>1, <1>2, <1>3, <1>5, <2>2 DEF Transfer, Error
  <2>3. CASE ~KnownText(Item.to)
    <3> DEFINE u == Unit(Item.kind, 0, Item.to, FALSE)
    <3>1. Emit(<<u>>) /\ UNCHANGED errors_ /\ back_patch_' = Append(back_patch_, here)
      BY <1>5, <2>3 DEF Transfer, NoError
    <3>4. /\ u \in Units(Ops) /\ u.line = Item.line /\ u.op = Item.kind /\ u.label = Item.to
          /\ u.patched = FALSE
      <4>1. Item.kind \in Ops
        BY <2>0 DEF Ops
      <4>2. Item.to \in STRING \cup {""}
        BY <2>0, Zenon
      <4>3. 0 \in Int
        OBVIOUS
      <4>4. FALSE \in BOOLEAN
        OBVIOUS
      <4>5. \A i \in Int, p \in BOOLEAN : Unit(Item.kind, i, Item.to, p) \in Units(Ops)
        BY ONLY <1>4, <4>1, <4>2, UnitTyped
      <4>6. u \in Units(Ops)
        BY <4>3, <4>4, <4>5, Zenon
      <4>7. u.line = Item.line /\ u.op = Item.kind /\ u.label = Item.to /\ u.patched = FALSE
        BY DEF Unit
      <4> QED
        BY <4>6, <4>7
    <3> HIDE DEF u
    <3> QED
      BY <1>1, <1>2, <1>3, <2>0, <3>1, <3>4, EmitsOne
  <2> QED
    BY <2>1, <2>2, <2>3
<1>6. CASE LoadAddress /\ KnownData(Item.of)
  <2> DEFINE distance == DataStart + symbol_table_[Item.of].address - 4 * here
             u == Unit("auipc", Upper(distance), "", TRUE)
             v == Unit("addi", distance - Upper(distance) * Page, "", TRUE)
             units == <<u, v>>
  <2>0. Item.kind = "la"
    BY <1>6 DEF LoadAddress, InText
  <2>1. Emit(<<u, v>>) /\ UNCHANGED <<errors_, back_patch_>>
    BY <1>6 DEF LoadAddress, NoError
  <2>2. symbol_table_[Item.of].address \in Nat
    BY <1>6 DEF KnownData, SymbolsTyped
  <2>3. distance \in Int /\ Page \in Nat \ {0}
    BY <1>0, <2>2, AssemblerAssumption
  <2> HIDE DEF distance
  <2>4. Upper(distance) \in Int
    <3>1. distance + Page \div 2 \in Int
      BY <2>3
    <3> QED
      BY <2>3, <3>1 DEF Upper
  <2>5. distance - Upper(distance) * Page \in Int
    BY <2>3, <2>4
  <2>6. /\ u \in Units(Ops) /\ u.line = Item.line /\ u.op = "auipc" /\ u.patched = TRUE
        /\ v \in Units(Ops) /\ v.line = Item.line /\ v.op = "addi" /\ v.patched = TRUE
    BY <1>4, <2>4, <2>5 DEF Unit, Units, Ops
  <2> HIDE DEF u, v
  <2>7. Known(u) /\ Known(v)
    BY <2>6 DEF Known
  <2>8. Len(<<u, v>>) = 2
    OBVIOUS
  <2>9. IsSeq(units) /\ Len(units) = 2 /\ \A k \in 1 .. Len(units) : units[k] = u \/ units[k] = v
    BY <2>8, SeqTwo
  <2>10. Emit(units)
    BY <2>1
  <2> HIDE DEF units
  <2>11. Emits(units)
    BY <2>0, <2>1, <2>6, <2>7, <2>9, <2>10 DEF Emits
  <2> QED
    BY <1>1, <1>2, <1>3, <2>0, <2>1, <2>11
<1>7. CASE LoadAddress /\ ~KnownData(Item.of)
  BY <1>1, <1>2, <1>3, <1>7 DEF LoadAddress, Error
<1>8. CASE Plain /\ Item.kind = "op"
  <2> DEFINE u == Unit("op", 0, "", TRUE)
  <2>1. Emit(<<u>>) /\ UNCHANGED <<errors_, back_patch_>>
    BY <1>8 DEF Plain, NoError
  <2>2. u \in Units(Ops) /\ u.line = Item.line /\ u.op = "op" /\ u.patched = TRUE
    BY <1>4 DEF Unit, Units, Ops
  <2> HIDE DEF u
  <2>3. Known(u)
    BY <2>2 DEF Known
  <2> QED
    BY <1>1, <1>2, <1>3, <1>8, <2>1, <2>2, <2>3, EmitsOne
<1>9. CASE Plain /\ Item.kind # "op"
  BY <1>1, <1>2, <1>3, <1>9 DEF Plain, Error
<1> QED
  BY <1>5, <1>6, <1>7, <1>8, <1>9

(* What is emitted comes behind the code there was. *)
LEMMA EmitsGrow ==
  ASSUME PInv, NEW units, Emits(units)
  PROVE  LET n == Len(intermediate_code_) IN
         /\ n \in Nat /\ Len(units) \in Nat /\ IsSeq(intermediate_code_')
         /\ Len(intermediate_code_') = n + Len(units)
         /\ \A k \in 1 .. n : intermediate_code_'[k] = intermediate_code_[k]
         /\ \A k \in n + 1 .. n + Len(units) :
              k - n \in 1 .. Len(units) /\ intermediate_code_'[k] = units[k - n]
<1>1. IsSeq(units) /\ intermediate_code_' = intermediate_code_ \o units
  BY DEF Emits, Emit
<1>2. IsSeq(intermediate_code_) /\ Len(intermediate_code_) \in Nat /\ Len(units) \in Nat
  BY <1>1, SeqLen DEF PInv, Typed
<1> QED
  BY <1>1, <1>2, SeqConcat

(* The mark leaves a unit typed. *)
LEMMA MarkTyped ==
  ASSUME NEW u \in Units(Ops)
  PROVE  [u EXCEPT !.patched = TRUE] \in Units(Ops)
BY DEF Units

(* What the back-patching leaves of a unit: the rest of its fields. *)
LEMMA PatchedUnit ==
  ASSUME NEW u \in Units(Ops), NEW i \in Int
  PROVE  /\ Patched(u, i, TRUE) \in Units(Ops)
         /\ Patched(u, i, TRUE).op = u.op /\ Patched(u, i, TRUE).line = u.line
         /\ Patched(u, i, TRUE).label = u.label
         /\ Patched(u, i, TRUE).patched = TRUE /\ Patched(u, i, TRUE).imm = i
BY DEF Units, Patched

(* The mark leaves the rest of a unit. *)
LEMMA MarkedUnit ==
  ASSUME NEW u \in Units(Ops)
  PROVE  /\ [u EXCEPT !.patched = TRUE].op = u.op
         /\ [u EXCEPT !.patched = TRUE].line = u.line
         /\ [u EXCEPT !.patched = TRUE].label = u.label
BY DEF Units

(* Back-patching changes one unit and of it the offset and the mark. *)
LEMMA BackPatches ==
  ASSUME PInv, SymbolsTyped, UnitsTyped, BackPatch
  PROVE  /\ phase = "patch" /\ pos_ \in 1 .. Len(back_patch_) /\ pos_' = pos_ + 1
         /\ UNCHANGED <<source, phase, loop, symbol_table_, back_patch_>>
         /\ errors_ \subseteq errors_'
         /\ IsSeq(intermediate_code_') /\ Len(intermediate_code_') = Len(intermediate_code_)
         /\ \E k \in 0 .. Len(intermediate_code_) - 1, e \in Units(Ops) :
              LET unit == intermediate_code_[k + 1] IN
              /\ k = back_patch_[pos_]
              /\ \A n \in 1 .. Len(intermediate_code_) :
                   intermediate_code_'[n] = IF n = k + 1 THEN e ELSE intermediate_code_[n]
              /\ e.op = unit.op /\ e.line = unit.line /\ e.label = unit.label
              /\ errors_' = {} => /\ Patchable(unit, k) /\ e.patched = TRUE
                                  /\ e.imm = Offset(unit.label, k)
<1> DEFINE k    == back_patch_[pos_]
           code == intermediate_code_
           unit == code[k + 1]
<1>0. /\ pos_ \in Nat \ {0} /\ Len(back_patch_) \in Nat /\ Len(code) \in Nat /\ IsSeq(code)
  BY SourceLen
<1>1. /\ phase = "patch" /\ pos_ \in 1 .. Len(back_patch_) /\ pos_' = pos_ + 1
      /\ UNCHANGED <<source, phase, loop, symbol_table_, back_patch_>>
      /\ errors_ \subseteq errors_'
  BY <1>0 DEF BackPatch, Advance, NoError, Error
<1>2. k \in 0 .. Len(code) - 1 /\ k + 1 \in 1 .. Len(code)
  BY <1>0, <1>1 DEF PInv, Typed
<1>3. unit \in Units(Ops)
  BY <1>2 DEF UnitsTyped
<1> HIDE DEF k
(* It is enough to say what becomes of that unit. *)
<1>c. ASSUME NEW e \in Units(Ops), code' = [code EXCEPT ![k + 1] = e],
             e.op = unit.op /\ e.line = unit.line /\ e.label = unit.label,
             errors_' = {} => /\ Patchable(unit, k) /\ e.patched = TRUE
                             /\ e.imm = Offset(unit.label, k)
      PROVE  /\ IsSeq(code') /\ Len(code') = Len(code)
             /\ \E j \in 0 .. Len(code) - 1, f \in Units(Ops) :
                  /\ j = back_patch_[pos_]
                  /\ \A n \in 1 .. Len(code) : code'[n] = IF n = j + 1 THEN f ELSE code[n]
                  /\ f.op = code[j + 1].op /\ f.line = code[j + 1].line
                  /\ f.label = code[j + 1].label
                  /\ errors_' = {} => /\ Patchable(code[j + 1], j) /\ f.patched = TRUE
                                      /\ f.imm = Offset(code[j + 1].label, j)
  <2> DEFINE i == k + 1
  <2>1. i \in Int
    BY <1>2
  <2>2. code' = [code EXCEPT ![i] = e]
    BY <1>c
  <2> HIDE DEF i
  <2>3. IsSeq([code EXCEPT ![i] = e]) /\ Len([code EXCEPT ![i] = e]) = Len(code)
    BY <1>0, <2>1, SeqExcept
  <2>4. \A n \in 1 .. Len(code) : [code EXCEPT ![i] = e][n] = IF n = i THEN e ELSE code[n]
    BY <1>0, <2>1, SeqExcept
  <2>5. IsSeq(code') /\ Len(code') = Len(code)
    BY <2>2, <2>3
  <2>6. \A n \in 1 .. Len(code) : code'[n] = IF n = k + 1 THEN e ELSE code[n]
    BY <2>2, <2>4 DEF i
  <2>7. k = back_patch_[pos_]
    BY DEF k
  <2> QED
    BY <1>2, <1>c, <2>5, <2>6, <2>7
<1>4. CASE Patchable(unit, k)
  <2> DEFINE offset == Offset(unit.label, k)
             e      == Patched(unit, offset, TRUE)
  <2>1. code' = [code EXCEPT ![k + 1].imm = offset, ![k + 1].patched = TRUE]
    BY <1>4 DEF BackPatch, NoError, k
  <2>2. code' = [code EXCEPT ![k + 1] = [unit EXCEPT !.imm = offset, !.patched = TRUE]]
    BY <2>1, <1>0, <1>2, SeqLen
  <2>3. code' = [code EXCEPT ![k + 1] = e]
    BY <2>2, Zenon DEF Patched
  <2>4. offset \in Int
    BY <1>4, <1>2 DEF Patchable, Offset, SymbolsTyped
  <2> HIDE DEF offset
  <2>5. /\ e \in Units(Ops) /\ e.op = unit.op /\ e.line = unit.line /\ e.label = unit.label
        /\ e.patched = TRUE /\ e.imm = offset
    BY <1>3, <2>4, PatchedUnit
  <2> HIDE DEF e
  <2> QED
    BY <1>1, <1>4, <1>c, <2>3, <2>5 DEF offset
<1>5. CASE ~Patchable(unit, k)
  <2>1. errors_' # {}
    BY <1>5 DEF BackPatch, Error, k
  <2>2. CASE code' = code
    <3>1. code' = [code EXCEPT ![k + 1] = unit]
      BY <2>2, <1>0, SeqSame
    <3> QED
      BY <1>1, <1>3, <1>c, <2>1, <3>1
  <2>3. CASE code' = [code EXCEPT ![k + 1].patched = TRUE]
    <3> DEFINE e == [unit EXCEPT !.patched = TRUE]
    <3>1. code' = [code EXCEPT ![k + 1] = e]
      BY <2>3
    <3>2. e \in Units(Ops) /\ e.op = unit.op /\ e.line = unit.line /\ e.label = unit.label
      BY <1>3, MarkTyped, MarkedUnit
    <3> HIDE DEF e
    <3> QED
      BY <1>1, <1>c, <2>1, <3>1, <3>2
  <2> QED
    BY <1>5, <2>2, <2>3 DEF BackPatch, k
<1> QED
  BY <1>4, <1>5
-------------------------------------------------------------------------------
(* Every step keeps the units typed. *)
LEMMA StepUnits ==
  ASSUME PInv, SymbolsTyped, UnitsTyped, [Next]_vars
  PROVE  UnitsTyped'
<1>1. CASE UNCHANGED <<intermediate_code_, back_patch_>>
  BY <1>1 DEF UnitsTyped
<1>2. CASE Transfer \/ LoadAddress \/ Plain
  <2>1. CASE UNCHANGED <<intermediate_code_, back_patch_>>
    BY <2>1 DEF UnitsTyped
  <2>2. CASE \E units : Emits(units)
    <3>1. PICK units : Emits(units)
      BY <2>2
    <3>2. \A k \in 1 .. Len(units) : units[k] \in Units(Ops)
      BY <3>1 DEF Emits
    <3> DEFINE n == Len(intermediate_code_)
    <3>3. /\ n \in Nat /\ Len(units) \in Nat
          /\ Len(intermediate_code_') = n + Len(units)
          /\ \A k \in 1 .. n : intermediate_code_'[k] = intermediate_code_[k]
          /\ \A k \in n + 1 .. n + Len(units) :
               k - n \in 1 .. Len(units) /\ intermediate_code_'[k] = units[k - n]
      BY <3>1, EmitsGrow
    <3> SUFFICES ASSUME NEW k \in 1 .. n + Len(units)
                 PROVE  intermediate_code_'[k] \in Units(Ops)
      BY <3>3 DEF UnitsTyped
    <3>4. CASE k <= n
      BY <3>3, <3>4 DEF UnitsTyped
    <3>5. CASE k > n
      BY <3>2, <3>3, <3>5
    <3> QED
      BY <3>3, <3>4, <3>5
  <2> QED
    BY <1>2, <2>1, <2>2, EmitSteps
<1>3. CASE BackPatch
  BY <1>3, BackPatches DEF UnitsTyped
<1>4. CASE LoadProgram \/ Reject
  BY <1>4, EmptyLen DEF LoadProgram, Reject, EmptyParser, UnitsTyped
<1> QED
  BY <1>1, <1>2, <1>3, <1>4, CodeSteps

(* The entries of the patch list grow, and those to come name units without *)
(* their offset: no entry is about a unit that another one has served.      *)
Due ==
  /\ \A i, j \in 1 .. Len(back_patch_) : i < j => back_patch_[i] < back_patch_[j]
  /\ errors_ = {} =>
       \A j \in 1 .. Len(back_patch_) :
         (phase = "patch" => j >= pos_) => ~intermediate_code_[back_patch_[j] + 1].patched

(* Where an appended entry is. *)
LEMMA AppendAt ==
  ASSUME NEW s, IsSeq(s), NEW e
  PROVE  /\ Len(s) \in Nat /\ Len(Append(s, e)) = Len(s) + 1
         /\ Append(s, e)[Len(s) + 1] = e
         /\ \A i \in 1 .. Len(s) : Append(s, e)[i] = s[i]
<1>1. PICK S : s \in Seq(S)
  BY DEF IsSeq
<1>2. s \in Seq(S \cup {e}) /\ e \in S \cup {e}
  BY <1>1, SeqDef
<1> QED
  BY <1>2, AppendProperties, LenProperties

(* Every step keeps the patch list in order. *)
LEMMA StepDue ==
  ASSUME PInv, Places, SymbolsTyped, UnitsTyped, Due, [Next]_vars
  PROVE  Due'
<1> DEFINE bp   == back_patch_
           code == intermediate_code_
           n    == Len(code)
<1>0. /\ Len(bp) \in Nat /\ n \in Nat /\ IsSeq(bp) /\ pos_ \in Nat
      /\ \A j \in 1 .. Len(bp) : bp[j] \in 0 .. n - 1
  BY SourceLen DEF PInv, Typed
<1>1. CASE /\ UNCHANGED <<code, bp>>
           /\ errors_ \subseteq errors_'
           /\ phase = "patch" => phase' = "patch" /\ pos_' = pos_
           /\ phase' = "patch" => pos_' = 1 \/ phase = "patch"
  <2> SUFFICES ASSUME errors_' = {}, NEW j \in 1 .. Len(bp), phase' = "patch" => j >= pos_'
               PROVE  ~code[bp[j] + 1].patched
    BY <1>1 DEF Due
  <2>1. errors_ = {} /\ (phase = "patch" => j >= pos_)
    BY <1>0, <1>1
  <2> QED
    BY <2>1 DEF Due
<1>2. CASE Transfer \/ LoadAddress \/ Plain
  <2>0. /\ phase = "second" /\ phase' = "second"
        /\ \/ UNCHANGED <<code, bp>> /\ errors_' # {}
           \/ UNCHANGED errors_ /\ \E units : Emits(units)
    BY <1>2, EmitSteps
  <2>1. CASE UNCHANGED <<code, bp>> /\ errors_' # {}
    BY <2>1 DEF Due
  <2>2. CASE UNCHANGED errors_ /\ \E units : Emits(units)
    <3>1. PICK units : Emits(units)
      BY <2>2
    <3>2. /\ Len(units) \in Nat /\ Len(code') = n + Len(units)
          /\ \A k \in 1 .. n : code'[k] = code[k]
          /\ \A k \in n + 1 .. n + Len(units) : code'[k] = units[k - n]
      BY <3>1, EmitsGrow
    <3>3. ASSUME errors_ = {}, NEW j \in 1 .. Len(bp)
          PROVE  ~code'[bp[j] + 1].patched
      <4>1. bp[j] + 1 \in 1 .. n
        BY <1>0
      <4> QED
        BY <2>0, <3>2, <3>3, <4>1 DEF Due
    <3>4. CASE UNCHANGED bp
      BY <2>0, <2>2, <3>3, <3>4 DEF Due
    <3>5. CASE bp' = Append(bp, n) /\ Len(units) = 1 /\ units[1].patched = FALSE
      <4>1. /\ Len(bp') = Len(bp) + 1 /\ bp'[Len(bp) + 1] = n
            /\ \A i \in 1 .. Len(bp) : bp'[i] = bp[i]
        BY <1>0, <3>5, AppendAt
      <4>2. code'[n + 1] = units[1]
        <5>1. n + 1 \in n + 1 .. n + Len(units) /\ n + 1 - n = 1
          BY <1>0, <3>5
        <5> QED
          BY <3>2, <5>1
      <4>3. ASSUME NEW i \in 1 .. Len(bp) + 1, NEW j \in 1 .. Len(bp) + 1, i < j
            PROVE  bp'[i] < bp'[j]
        <5>1. i \in 1 .. Len(bp) /\ bp'[i] = bp[i]
          BY <1>0, <4>1, <4>3
        <5>2. CASE j \in 1 .. Len(bp)
          <6>1. bp'[j] = bp[j] /\ bp[i] < bp[j]
            BY <4>1, <4>3, <5>1, <5>2 DEF Due
          <6> QED
            BY <5>1, <6>1
        <5>3. CASE j \notin 1 .. Len(bp)
          <6>1. bp'[j] = n
            BY <1>0, <4>1, <5>3
          <6>2. bp[i] \in 0 .. n - 1 /\ n \in Nat
            BY <1>0, <5>1
          <6> QED
            BY <5>1, <6>1, <6>2
        <5> QED
          BY <5>2, <5>3
      <4>4. ASSUME errors_ = {}, NEW j \in 1 .. Len(bp) + 1
            PROVE  ~code'[bp'[j] + 1].patched
        BY <1>0, <3>3, <3>5, <4>1, <4>2, <4>4
      <4> QED
        BY <2>2, <4>1, <4>3, <4>4 DEF Due
    <3> QED
      BY <3>1, <3>4, <3>5 DEF Emits
  <2> QED
    BY <2>0, <2>1, <2>2
<1>3. CASE BackPatch
  <2>1. /\ phase = "patch" /\ pos_ \in 1 .. Len(bp) /\ pos_' = pos_ + 1 /\ UNCHANGED <<phase, bp>>
        /\ errors_ \subseteq errors_'
        /\ \E e : \A m \in 1 .. n : code'[m] = IF m = bp[pos_] + 1 THEN e ELSE code[m]
    BY <1>3, BackPatches
  <2> SUFFICES ASSUME errors_' = {}, NEW j \in 1 .. Len(bp), j >= pos_ + 1
               PROVE  ~code'[bp[j] + 1].patched
    BY <2>1 DEF Due
  <2>2. bp[pos_] < bp[j] /\ bp[j] + 1 \in 1 .. n /\ bp[pos_] \in Nat
    BY <1>0, <2>1 DEF Due
  <2>3. code'[bp[j] + 1] = code[bp[j] + 1]
    <3>1. PICK e : \A m \in 1 .. n : code'[m] = IF m = bp[pos_] + 1 THEN e ELSE code[m]
      BY <2>1
    <3>2. bp[j] + 1 # bp[pos_] + 1
      <4>1. bp[j] \in Int /\ bp[pos_] \in Int /\ bp[pos_] < bp[j]
        BY <1>0, <2>2
      <4> QED
        BY <4>1
    <3> QED
      BY <2>2, <3>1, <3>2
  <2>4. errors_ = {} /\ (phase = "patch" => j >= pos_)
    BY <1>0, <2>1
  <2> QED
    BY <2>3, <2>4 DEF Due
<1>4. CASE LoadProgram \/ Reject
  <2>1. bp' = <<>>
    BY <1>4 DEF LoadProgram, Reject, EmptyParser
  <2> QED
    BY <2>1, EmptyLen DEF Due
<1> QED
  BY <1>1, <1>2, <1>3, <1>4, CodeSteps

(* The lines of the loaded program lead to instructions. *)
MachineTyped ==
  /\ breakpoints \subseteq Nat /\ program_size_ \in Nat
  /\ \A l \in DOMAIN program_.lines : program_.lines[l] \in Nat

(* The line mapping leads to instruction numbers. *)
LEMMA MappingTyped ==
  ASSUME PInv, NEW l \in DOMAIN LineMapping(intermediate_code_)
  PROVE  LineMapping(intermediate_code_)[l] \in Nat
<1> DEFINE code == intermediate_code_
           n    == Len(code)
           S    == {k - 1 : k \in {j \in DOMAIN code : l \in LinesOf(code, j)}}
<1>1. n \in Nat /\ DOMAIN code = 1 .. n
  BY SourceLen, SeqLen
<1>2. LineMapping(code)[l] = Max(S) /\ \E k \in DOMAIN code : l \in LinesOf(code, k)
  BY DEF LineMapping
<1>3. S \in SUBSET (0 .. n) /\ S # {}
  BY <1>1, <1>2
<1> HIDE DEF S
<1>4. Max(S) \in S
  BY <1>1, <1>3, MaxIn
<1>5. \A x \in S : x \in Nat
  BY <1>1, <1>3
<1>6. Max(S) \in Nat
  BY <1>4, <1>5, Zenon
<1> QED
  BY <1>2, <1>6, Zenon

(* Every step keeps the machine typed. *)
LEMMA StepMachine ==
  ASSUME PInv, MachineTyped, [Next]_vars
  PROVE  MachineTyped'
<1>1. CASE UNCHANGED <<program_, memory, program_size_, breakpoints>>
  BY <1>1 DEF MachineTyped
<1>2. CASE LoadProgram
  <2>1. Len(intermediate_code_) \in Nat
    BY SourceLen
  <2>2. /\ program_'.lines = LineMapping(intermediate_code_)
        /\ program_size_' = 4 * Len(intermediate_code_)
        /\ breakpoints' = breakpoints \cup {program_size_'}
    BY <1>2 DEF LoadProgram
  <2>3. program_size_' \in Nat
    BY <2>1, <2>2
  <2> QED
    BY <2>2, <2>3, MappingTyped DEF MachineTyped
<1>3. ASSUME NEW line \in DOMAIN program_.lines, AddBreakpoint(line) \/ RemoveBreakpoint(line)
      PROVE  MachineTyped'
  <2>1. program_.lines[line] \in Nat
    BY DEF MachineTyped
  <2>2. 4 * program_.lines[line] \in Nat
    BY <2>1
  <2> QED
    BY <1>3, <2>2 DEF MachineTyped, AddBreakpoint, RemoveBreakpoint
<1> QED
  BY <1>1, <1>2, <1>3, MachineSteps

TInv == PInv /\ Places /\ SymbolsTyped /\ UnitsTyped /\ Due /\ MachineTyped

(* The invariant holds at the start. *)
LEMMA InitTInv == Init => TInv
<1> SUFFICES ASSUME Init PROVE TInv
  OBVIOUS
<1>1. PInv
  BY InitPInv
<1>2. source = <<>> /\ symbol_table_ = <<>> /\ intermediate_code_ = <<>> /\ back_patch_ = <<>>
  BY DEF Init
<1>3. DOMAIN <<>> = {}
  OBVIOUS
<1>4. Places /\ SymbolsTyped /\ UnitsTyped /\ Due
  BY <1>2, <1>3, EmptyLen DEF Init, Places, SymbolsTyped, UnitsTyped, Due
<1>5. program_.lines = <<>>
  BY DEF Init
<1>6. MachineTyped
  BY <1>3, <1>5 DEF Init, MachineTyped
<1> QED
  BY <1>1, <1>4, <1>6 DEF TInv

(* Every step keeps it. *)
LEMMA StepTInv == TInv /\ [Next]_vars => TInv'
BY StepPInv, StepPlaces, StepSymbols, StepUnits, StepDue, StepMachine DEF TInv

(* It implies the types. *)
LEMMA TInvTypeOK == TInv => TypeOK
<1> SUFFICES ASSUME TInv PROVE TypeOK
  OBVIOUS
<1>1. /\ pos_ \in Nat \ {0} /\ Len(source) \in Nat /\ Len(back_patch_) \in Nat
      /\ DOMAIN intermediate_code_ = 1 .. Len(intermediate_code_)
      /\ DOMAIN back_patch_ = 1 .. Len(back_patch_)
  BY SourceLen, SeqLen DEF TInv
<1>2. /\ source \in Sources \cup {<<>>}
      /\ phase \in {"idle", "first", "second", "patch"}
      /\ loop \in {"top", "data", "bss", "text", "skip"}
      /\ pos_ \in 1 .. Len(source) + 1
  BY <1>1 DEF TInv, PInv, Typed, Places
<1>3. /\ data_index_ \in Nat
      /\ \A n \in DOMAIN symbol_table_ :
           symbol_table_[n] \in [address : Nat, line_number : Nat, isData : BOOLEAN]
      /\ breakpoints \subseteq Nat /\ program_size_ \in Nat
  BY DEF TInv, SymbolsTyped, MachineTyped
<1>4. ASSUME NEW k \in 1 .. Len(intermediate_code_)
      PROVE  /\ intermediate_code_[k] \in Units({"branch", "jal", "auipc", "addi", "op"})
             /\ errors_ = {} =>
                  (~intermediate_code_[k].patched <=>
                     \E j \in DOMAIN back_patch_ :
                       back_patch_[j] = k - 1 /\ (phase = "patch" => j >= pos_))
  <2>1. intermediate_code_[k] \in Units({"branch", "jal", "auipc", "addi", "op"})
    BY DEF TInv, UnitsTyped, Ops
  <2>2. ASSUME errors_ = {}, ~intermediate_code_[k].patched
        PROVE  \E j \in DOMAIN back_patch_ :
                 back_patch_[j] = k - 1 /\ (phase = "patch" => j >= pos_)
    BY <1>1, <2>2 DEF TInv, PInv, Waiting
  <2>3. ASSUME errors_ = {}, NEW j \in DOMAIN back_patch_,
               back_patch_[j] = k - 1, phase = "patch" => j >= pos_
        PROVE  ~intermediate_code_[k].patched
    <3>1. back_patch_[j] + 1 = k
      BY <2>3
    <3> QED
      BY <1>1, <2>3, <3>1 DEF TInv, Due
  <2> QED
    BY <2>1, <2>2, <2>3
<1> QED
  BY <1>1, <1>2, <1>3, <1>4 DEF TypeOK

(* Whatever the files: every variable of the assembler keeps its type, the *)
(* parser never reads behind the file or the patch list, and as long as     *)
(* there is no error the units without an offset are exactly those whose    *)
(* entries of the patch list are still to come (Parser::parse).             *)
THEOREM AssemblerTyped == Spec => []TypeOK
<1>1. Spec => []TInv
  BY InitTInv, StepTInv, PTL DEF Spec
<1> QED
  BY <1>1, TInvTypeOK, PTL
-------------------------------------------------------------------------------
(* A branch or a jump that has its offset has that of its label. *)
Served(u, k) ==
  /\ u.label \in DOMAIN symbol_table_
  /\ u.imm = Offset(u.label, k)
  /\ u.op = "branch" => ~symbol_table_[u.label].isData

Offsets ==
  errors_ = {} =>
    \A k \in 1 .. Len(intermediate_code_) :
      intermediate_code_[k].patched /\ intermediate_code_[k].op \in {"branch", "jal"} =>
        Served(intermediate_code_[k], k - 1)

(* Every step keeps the offsets: no symbol moves once it has served. *)
LEMMA StepOffsets ==
  ASSUME PInv, Places, SymbolsTyped, UnitsTyped, Offsets, [Next]_vars
  PROVE  Offsets'
<1> DEFINE code == intermediate_code_
           n == Len(code)
<1>0. Places' /\ n \in Nat
  BY StepPlaces, SourceLen
<1>e. ASSUME code' = <<>> PROVE Offsets'
  BY <1>e, EmptyLen DEF Offsets
<1>1. CASE UNCHANGED code /\ errors_ \subseteq errors_'
  <2>1. CASE \A name \in DOMAIN symbol_table_ :
               name \in DOMAIN symbol_table_' /\ symbol_table_'[name] = symbol_table_[name]
    <3> SUFFICES ASSUME errors_' = {}, NEW k \in 1 .. n,
                        code[k].patched, code[k].op \in {"branch", "jal"}
                 PROVE  /\ code[k].label \in DOMAIN symbol_table_'
                        /\ code[k].imm = symbol_table_'[code[k].label].address - 4 * (k - 1)
                        /\ code[k].op = "branch" => ~symbol_table_'[code[k].label].isData
      BY <1>1 DEF Offsets, Served, Offset
    <3>1. Served(code[k], k - 1)
      BY <1>1 DEF Offsets
    <3> QED
      BY <2>1, <3>1 DEF Served, Offset
  <2>2. CASE phase' \in {"idle", "first"} \/ phase \in {"idle", "first"}
    <3>1. code' = <<>>
      BY <1>0, <1>1, <2>2 DEF Places
    <3> QED
      BY <1>e, <3>1
  <2>3. CASE TextLabel
    <3>1. CASE UNCHANGED symbol_table_
      BY <2>1, <3>1
    <3>2. CASE /\ Item.name \notin DOMAIN symbol_table_
               /\ symbol_table_' = Bind(symbol_table_, Item.name, Symbol(4 * n, Item.line, FALSE))
      <4> DEFINE t == symbol_table_
                 entry == Symbol(4 * n, Item.line, FALSE)
      <4>1. symbol_table_' = Bind(t, Item.name, entry) /\ Item.name \notin DOMAIN t
        BY <3>2
      <4>2. /\ DOMAIN Bind(t, Item.name, entry) = DOMAIN t \cup {Item.name}
            /\ \A name \in DOMAIN t :
                 name # Item.name => Bind(t, Item.name, entry)[name] = t[name]
        BY DEF Bind
      <4> HIDE DEF entry
      <4>3. \A name \in DOMAIN t : name \in DOMAIN symbol_table_' /\ symbol_table_'[name] = t[name]
        BY <4>1, <4>2
      <4> QED
        BY <2>1, <4>3
    <3> QED
      BY <2>3, <3>1, <3>2 DEF TextLabel
  <2>4. CASE DataLabel
    <3>1. phase = "first"
      BY <2>4 DEF DataLabel
    <3> QED
      BY <2>2, <3>1
  <2>5. CASE UNCHANGED symbol_table_ \/ DataDirective
    BY <2>1, <2>5 DEF DataDirective
  <2>6. CASE LoadProgram \/ Reject
    BY <1>e, <2>6 DEF LoadProgram, Reject, EmptyParser
  <2> QED
    BY <2>3, <2>4, <2>5, <2>6, SymbolSteps
<1>2. CASE Transfer \/ LoadAddress \/ Plain
  <2>1. UNCHANGED symbol_table_
    BY <1>2, EmitSteps
  <2>2. CASE UNCHANGED code /\ errors_ \subseteq errors_'
    BY <1>1, <2>2
  <2>3. ASSUME UNCHANGED errors_, NEW units, Emits(units) PROVE Offsets'
    <3> DEFINE m == Len(units)
    <3>1. /\ n \in Nat /\ m \in Nat /\ Len(code') = n + m
          /\ \A k \in 1 .. n : code'[k] = code[k]
          /\ \A k \in n + 1 .. n + m : k - n \in 1 .. m /\ code'[k] = units[k - n]
      BY <2>3, EmitsGrow
    <3>2. ASSUME errors_' = {}, NEW k \in 1 .. n + m,
                 code'[k].patched, code'[k].op \in {"branch", "jal"}
          PROVE  Served(code'[k], k - 1)
      <4>1. CASE k <= n
        <5>1. k \in 1 .. n /\ code'[k] = code[k] /\ errors_ = {}
          BY <2>3, <3>1, <3>2, <4>1
        <5> QED
          BY <3>2, <5>1 DEF Offsets
      <4>2. CASE k > n
        <5>1. k - n \in 1 .. m /\ code'[k] = units[k - n]
          BY <3>1, <4>2
        <5>2. m = 1
          BY <2>3, <3>2, <5>1 DEF Emits
        <5>3. k = n + 1 /\ k - n = 1 /\ k - 1 = n
          BY <3>1, <5>1, <5>2
        <5>4. Known(units[1])
          BY <2>3, <3>2, <5>1, <5>3 DEF Emits
        <5>5. code'[k] = units[1]
          BY <5>1, <5>3
        <5> QED
          BY <3>2, <5>3, <5>4, <5>5 DEF Known, KnownText, Served
      <4> QED
        BY <3>1, <4>1, <4>2
    <3> QED
      BY <2>1, <3>1, <3>2 DEF Offsets, Served, Offset
  <2> QED
    BY <1>2, <2>2, <2>3, EmitSteps
<1>3. CASE BackPatch
  <2>1. UNCHANGED symbol_table_ /\ Len(code') = n /\ errors_ \subseteq errors_'
    BY <1>3, BackPatches
  <2>2. PICK j \in 0 .. n - 1, e \in Units(Ops) :
          /\ \A k \in 1 .. n : code'[k] = IF k = j + 1 THEN e ELSE code[k]
          /\ e.op = code[j + 1].op /\ e.label = code[j + 1].label
          /\ errors_' = {} => Patchable(code[j + 1], j) /\ e.imm = Offset(code[j + 1].label, j)
    BY <1>3, BackPatches
  <2>3. ASSUME errors_' = {}, NEW k \in 1 .. n,
               code'[k].patched, code'[k].op \in {"branch", "jal"}
        PROVE  Served(code'[k], k - 1)
    <3>1. CASE k = j + 1
      <4>1. code'[k] = e /\ k - 1 = j
        BY <2>2, <3>1
      <4> QED
        BY <2>2, <2>3, <4>1 DEF Served, Patchable, KnownText
    <3>2. CASE k # j + 1
      <4>1. code'[k] = code[k] /\ errors_ = {}
        BY <2>1, <2>2, <2>3, <3>2
      <4> QED
        BY <2>3, <4>1 DEF Offsets
    <3> QED
      BY <3>1, <3>2
  <2> QED
    BY <2>1, <2>3 DEF Offsets, Served, Offset
<1>4. CASE LoadProgram \/ Reject
  BY <1>4, <1>e DEF LoadProgram, Reject, EmptyParser
<1> QED
  BY <1>1, <1>2, <1>3, <1>4, CodeSteps

(* A label of a text section is bound to the address of an instruction. *)
Aligned ==
  \A n \in DOMAIN symbol_table_ :
    ~symbol_table_[n].isData => \E m \in Nat : symbol_table_[n].address = 4 * m

(* Every step keeps the labels of the text so. *)
LEMMA StepAligned ==
  ASSUME Places, Aligned, [Next]_vars
  PROVE  Aligned'
<1>0. Len(intermediate_code_) \in Nat
  BY SourceLen
<1>b. ASSUME NEW name, NEW address, NEW line, NEW isData \in BOOLEAN,
             isData \/ \E m \in Nat : address = 4 * m,
             symbol_table_' = Bind(symbol_table_, name, Symbol(address, line, isData))
      PROVE  Aligned'
  <2> DEFINE entry == Symbol(address, line, isData)
  <2>1. entry.isData = isData /\ entry.address = address
    BY DEF Symbol
  <2> HIDE DEF entry
  <2>2. \A n \in DOMAIN symbol_table_' :
          /\ n \in DOMAIN symbol_table_ \cup {name}
          /\ symbol_table_'[n] = IF n = name THEN entry ELSE symbol_table_[n]
    BY <1>b DEF Bind, entry
  <2> QED
    BY <1>b, <2>1, <2>2 DEF Aligned
<1>1. CASE UNCHANGED symbol_table_ \/ DataDirective
  BY <1>1 DEF Aligned, DataDirective
<1>2. CASE DataLabel
  BY <1>2, <1>b DEF DataLabel
<1>3. CASE TextLabel
  <2>1. CASE UNCHANGED symbol_table_
    BY <1>1, <2>1
  <2>2. CASE symbol_table_' = Bind(symbol_table_, Item.name,
                                   Symbol(4 * Len(intermediate_code_), Item.line, FALSE))
    BY <1>0, <1>b, <2>2
  <2> QED
    BY <1>3, <2>1, <2>2 DEF TextLabel
<1>4. CASE LoadProgram \/ Reject
  BY <1>4 DEF LoadProgram, Reject, EmptyParser, Aligned
<1> QED
  BY <1>1, <1>2, <1>3, <1>4, SymbolSteps

(* Only the offset of a data label can be odd, so what the bits keep is all *)
(* of any other.                                                            *)
LEMMA Encoded ==
  ASSUME PInv, Places, SymbolsTyped, Offsets, Aligned
  PROVE  ReferencesEncoded
<1> SUFFICES ASSUME Assembled, errors_ = {}, NEW k \in 1 .. Len(intermediate_code_)
             PROVE  LET unit == intermediate_code_[k] IN
                    /\ unit.patched
                    /\ unit.op \in {"branch", "jal"} =>
                         Signed(Encode(unit)) =
                           IF KnownData(unit.label) THEN unit.imm - (unit.imm % 2) ELSE unit.imm
  BY SeqLen DEF ReferencesEncoded, PInv, Typed
<1> DEFINE u == intermediate_code_[k]
<1>0. k \in Int
  BY SourceLen
<1>1. /\ u.patched
      /\ u.op \in {"branch", "jal"} => Signed(Encode(u)) = u.imm - (u.imm % 2)
  BY EncodedBits
<1>2. ASSUME u.op \in {"branch", "jal"}, ~KnownData(u.label)
      PROVE  u.imm - (u.imm % 2) = u.imm
  <2>1. u.label \in DOMAIN symbol_table_ /\ u.imm = symbol_table_[u.label].address - 4 * (k - 1)
    BY <1>1, <1>2 DEF Offsets, Served, Offset
  <2>2. PICK m \in Nat : symbol_table_[u.label].address = 4 * m
    BY <1>2, <2>1 DEF Aligned, KnownData
  <2>3. u.imm = 4 * m - 4 * (k - 1)
    BY <2>1, <2>2
  <2> HIDE DEF u
  <2> QED
    BY <1>0, <2>3
<1> QED
  BY <1>1, <1>2

(* Whatever the files, their order and the breakpoints set between them:    *)
(* assemble() and LoadProgram never encode a branch or a jump whose label   *)
(* is not resolved, and the bits of its immediate hold the whole offset of  *)
(* a text label; those of a jal to a data label hold it but for its bit 0   *)
(* (parse_branch, parse_jump, the back-patching of Parser::parse and the    *)
(* generators of the B and J types).                                        *)
THEOREM OffsetsEncoded == Spec => []ReferencesEncoded
<1> DEFINE Inv == TInv /\ Offsets /\ Aligned
<1>1. Init => Inv
  <2> SUFFICES ASSUME Init PROVE Inv
    OBVIOUS
  <2>1. intermediate_code_ = <<>> /\ symbol_table_ = <<>> /\ DOMAIN <<>> = {}
    BY DEF Init
  <2> QED
    BY <2>1, InitTInv, EmptyLen DEF Offsets, Aligned
<1>2. Inv /\ [Next]_vars => Inv'
  BY StepTInv, StepOffsets, StepAligned DEF TInv
<1>3. Inv => ReferencesEncoded
  BY Encoded DEF TInv
<1> QED
  BY <1>1, <1>2, <1>3, PTL DEF Spec
===============================================================================
