----------------------------- MODULE Memory_proofs -----------------------------
(***************************************************************************)
(* Main memory implements one array of bytes, for every size of the        *)
(* address space, of a block and of an access.                             *)
(***************************************************************************)
EXTENDS Memory, TLAPS

(* Two addresses in the same place of the same block are the same address. *)
LEMMA PlaceExact ==
  ASSUME NEW x \in Nat, NEW y \in Nat,
         GetBlockIndex(x) = GetBlockIndex(y), GetBlockOffset(x) = GetBlockOffset(y)
  PROVE  x = y
  <1>1. BlockSize \in Nat \ {0}
    BY MemoryAssumption
  <1>2. \A z \in Nat : z = BlockSize * (z \div BlockSize) + (z % BlockSize)
    BY <1>1, SMT
  <1> QED
    BY <1>2 DEF GetBlockIndex, GetBlockOffset

LEMMA PlaceTyped ==
  ASSUME NEW x \in Nat
  PROVE  GetBlockIndex(x) \in Nat /\ GetBlockOffset(x) \in 0 .. BlockSize - 1
  <1>1. BlockSize \in Nat \ {0}
    BY MemoryAssumption
  <1> QED
    BY <1>1, SMT DEF GetBlockIndex, GetBlockOffset

LEMMA SmallMod ==
  ASSUME NEW w \in Nat, NEW x \in Nat, x < w
  PROVE  x % w = x
  BY SMT

(* The range test before an access is exact: an access that passes it fits,  *)
(* does not wrap and throws at none of its bytes; one that does not fit      *)
(* throws before its first byte.                                             *)
LEMMA RangeExact ==
  ASSUME NEW address \in Address, NEW n \in Widths
  PROVE  /\ InRange(address, n) <=> address + n <= MemorySize
         /\ InRange(address, n) =>
              /\ Reached(address, n) = 0 .. n - 1
              /\ \A i \in 0 .. n - 1 : At(address, i) = address + i
         /\ Throws(address, n) <=> ~InRange(address, n)
  <1>1. /\ Wrap \in Nat /\ MemorySize \in Nat /\ MemorySize < Wrap
        /\ n \in Nat /\ 1 <= n /\ n <= MemorySize /\ address \in Nat
    BY MemoryAssumption DEF Address
  <1>2. (MemorySize - (n - 1)) % Wrap = MemorySize - (n - 1)
    BY <1>1, SmallMod
  <1>3. InRange(address, n) <=> address + n <= MemorySize
    BY <1>1, <1>2 DEF InRange
  <1>4. ASSUME InRange(address, n)
        PROVE  \A i \in 0 .. n - 1 : At(address, i) = address + i /\ At(address, i) < MemorySize
    <2>1. SUFFICES ASSUME NEW i \in 0 .. n - 1
                   PROVE  At(address, i) = address + i /\ At(address, i) < MemorySize
      OBVIOUS
    <2>2. address + i \in Nat /\ address + i < MemorySize
      BY <1>1, <1>3, <1>4
    <2> QED
      BY <1>1, <2>2, SmallMod DEF At
  <1>5. ASSUME InRange(address, n)
        PROVE  Reached(address, n) = 0 .. n - 1
    <2>1. \A i \in 0 .. n - 1 : \A j \in 0 .. i : j \in 0 .. n - 1
      BY <1>1
    <2> QED
      BY <1>4, <1>5, <2>1 DEF Reached
  <1> QED
    BY <1>3, <1>4, <1>5 DEF Throws
-------------------------------------------------------------------------------
(* The bytes an access reaches are in memory, and their places are typed. *)
LEMMA ReachedPlaces ==
  ASSUME NEW address \in Address, NEW n \in Widths, NEW i \in Reached(address, n)
  PROVE  /\ i \in 0 .. n - 1
         /\ At(address, i) \in 0 .. MemorySize - 1
         /\ GetBlockIndex(At(address, i)) \in Nat
  <1>1. /\ Wrap \in Nat \ {0} /\ MemorySize \in Nat /\ n \in Nat /\ address \in Nat
    BY MemoryAssumption DEF Address
  <1>2. i \in 0 .. n - 1 /\ At(address, i) < MemorySize
    BY <1>1 DEF Reached
  <1>3. At(address, i) \in Nat
    BY <1>1, <1>2, SMT DEF At
  <1> QED
    BY <1>1, <1>2, <1>3, PlaceTyped

(* What a store leaves in a block is a block of bytes. *)
LEMMA StoredTyped ==
  ASSUME TypeOK, NEW address \in Address, NEW n \in Widths, NEW value \in Values
  PROVE  LET new == Stored(address, n, value) IN
         /\ DOMAIN new \subseteq Nat
         /\ \A b \in DOMAIN new :
              \E s \in ConfigSizes \cup {BlockSize} : new[b] \in [0 .. s - 1 -> Byte]
  <1> DEFINE new == Stored(address, n, value)
             Old(b) == IF IsBlockPresent(b) THEN blocks[b] ELSE MemoryBlock
  <1>1. DOMAIN new = DOMAIN blocks \cup {GetBlockIndex(At(address, i)) : i \in Reached(address, n)}
    BY DEF Stored
  <1>2. DOMAIN new \subseteq Nat
    BY <1>1, ReachedPlaces DEF TypeOK
  <1>3. ASSUME NEW b \in DOMAIN new
        PROVE  \E s \in ConfigSizes \cup {BlockSize} : new[b] \in [0 .. s - 1 -> Byte]
    <2>1. PICK s \in ConfigSizes \cup {BlockSize} : Old(b) \in [0 .. s - 1 -> Byte]
      BY MemoryAssumption DEF TypeOK, IsBlockPresent, MemoryBlock
    <2>2. ASSUME NEW o, Touches(address, n, b, o) # {}
          PROVE  value[CHOOSE i \in Touches(address, n, b, o) : TRUE] \in Byte
      <3>1. (CHOOSE i \in Touches(address, n, b, o) : TRUE) \in 0 .. n - 1
        BY <2>2, ReachedPlaces DEF Touches
      <3> QED
        BY <3>1, MemoryAssumption
    <2>3. new[b] = [o \in DOMAIN Old(b) |->
                      IF Touches(address, n, b, o) = {} THEN Old(b)[o]
                      ELSE value[CHOOSE i \in Touches(address, n, b, o) : TRUE]]
      BY <1>1 DEF Stored
    <2>4. new[b] \in [0 .. s - 1 -> Byte]
      BY <2>1, <2>2, <2>3
    <2> QED
      BY <2>4
  <1> QED
    BY <1>2, <1>3

(* TypeOK: blocks of bytes, each at least as long as the offsets that       *)
(* GetBlockOffset computes, whatever sizes were configured in between.       *)
THEOREM TypeCorrect == Spec => []TypeOK
  <1>1. Init => TypeOK
    BY DEF Init, TypeOK
  <1>2. TypeOK /\ [Next]_vars => TypeOK'
    <2> SUFFICES ASSUME TypeOK, [Next]_vars
                 PROVE  TypeOK'
      OBVIOUS
    <2>1. ASSUME NEW a \in Address, NEW n \in Widths, Read(a, n)
          PROVE  TypeOK'
      BY <2>1 DEF Read, TypeOK
    <2>2. ASSUME NEW a \in Address, NEW n \in Widths, NEW v \in Values, Write(a, n, v)
          PROVE  TypeOK'
      <3>1. CASE InRange(a, n)
        BY <2>2, <3>1, StoredTyped DEF Write, TypeOK
      <3>2. CASE ~InRange(a, n)
        BY <2>2, <3>2 DEF Write, TypeOK
      <3> QED
        BY <3>1, <3>2
    <2>3. CASE Reset
      BY <2>3 DEF Reset, TypeOK
    <2>4. ASSUME NEW s \in ConfigSizes, SetMemoryBlockSize(s)
          PROVE  TypeOK'
      BY <2>4 DEF SetMemoryBlockSize, TypeOK
    <2>5. CASE UNCHANGED vars
      BY <2>5 DEF vars, TypeOK
    <2> QED
      BY <2>1, <2>2, <2>3, <2>4, <2>5 DEF Next
  <1> QED
    BY <1>1, <1>2, PTL DEF Spec
-------------------------------------------------------------------------------
(* Every offset lies inside its block, present or about to be made. *)
LEMMA OffsetInside ==
  ASSUME TypeOK, NEW x \in Nat
  PROVE  /\ IsBlockPresent(GetBlockIndex(x)) =>
              GetBlockOffset(x) \in DOMAIN blocks[GetBlockIndex(x)]
         /\ GetBlockOffset(x) \in DOMAIN MemoryBlock
         /\ MemoryBlock[GetBlockOffset(x)] = 0
  <1>1. BlockSize \in Nat /\ ConfigSizes \subseteq Nat
    BY MemoryAssumption
  <1>2. \A s \in ConfigSizes \cup {BlockSize} : GetBlockOffset(x) \in 0 .. s - 1
    BY <1>1, PlaceTyped, BlocksFit
  <1> QED
    BY <1>2 DEF TypeOK, IsBlockPresent, MemoryBlock

(* A store changes the bytes of its access and no other. *)
LEMMA StoreEffect ==
  ASSUME TypeOK, NEW a \in Address, NEW n \in Widths, NEW v \in Values,
         InRange(a, n), blocks' = Stored(a, n, v), NEW x \in 0 .. MemorySize - 1
  PROVE  ReadByte(x)' = IF x \in a .. a + n - 1 THEN v[x - a] ELSE ReadByte(x)
  <1> DEFINE b == GetBlockIndex(x)
             o == GetBlockOffset(x)
             Old == IF IsBlockPresent(b) THEN blocks[b] ELSE MemoryBlock
  <1>1. /\ MemorySize \in Nat /\ a \in Nat /\ n \in Nat /\ x \in Nat
        /\ Reached(a, n) = 0 .. n - 1
        /\ \A i \in 0 .. n - 1 : At(a, i) = a + i /\ a + i \in Nat
    BY MemoryAssumption, RangeExact DEF Address
  <1>2. Touches(a, n, b, o) = {i \in 0 .. n - 1 : a + i = x}
    BY <1>1, PlaceExact DEF Touches
  <1>3. ReadByte(x)' = IF b \in DOMAIN blocks' THEN blocks'[b][o] ELSE 0
    BY DEF ReadByte, IsBlockPresent, GetBlockIndex, GetBlockOffset
  <1>4. o \in DOMAIN Old /\ (~IsBlockPresent(b) => Old[o] = 0)
    BY <1>1, OffsetInside
  <1>5. b \in DOMAIN blocks' =>
          blocks'[b][o] = IF Touches(a, n, b, o) = {} THEN Old[o]
                          ELSE v[CHOOSE i \in Touches(a, n, b, o) : TRUE]
    BY <1>4 DEF Stored
  <1>6. CASE x \in a .. a + n - 1
    <2>1. x - a \in 0 .. n - 1 /\ Touches(a, n, b, o) = {x - a}
      BY <1>1, <1>2, <1>6
    <2>2. b = GetBlockIndex(At(a, x - a))
      BY <1>1, <2>1
    <2>3. b \in DOMAIN blocks'
      BY <1>1, <2>1, <2>2 DEF Stored
    <2>4. (CHOOSE i \in Touches(a, n, b, o) : TRUE) = x - a
      BY <2>1
    <2> HIDE DEF b, o, Old
    <2> QED
      BY <1>3, <1>5, <1>6, <2>1, <2>3, <2>4
  <1>7. CASE x \notin a .. a + n - 1
    <2>1. Touches(a, n, b, o) = {}
      BY <1>1, <1>2, <1>7
    <2>2. IsBlockPresent(b) => b \in DOMAIN blocks'
      BY DEF Stored, IsBlockPresent
    <2>3. ReadByte(x) = IF IsBlockPresent(b) THEN blocks[b][o] ELSE 0
      BY DEF ReadByte
    <2>4. Old = IF IsBlockPresent(b) THEN blocks[b] ELSE MemoryBlock
      OBVIOUS
    <2> HIDE DEF b, o, Old
    <2> QED
      BY <1>3, <1>4, <1>5, <1>7, <2>1, <2>2, <2>3, <2>4
  <1> QED
    BY <1>6, <1>7

(* Reading through the blocks is reading the array of bytes. *)
LEMMA ReadExact ==
  ASSUME NEW a \in Address, NEW n \in Widths, ~Throws(a, n)
  PROVE  [i \in 0 .. n - 1 |-> ReadByte(At(a, i))] = [i \in 0 .. n - 1 |-> Bytes[a + i]]
  <1>1. MemorySize \in Nat /\ a \in Nat /\ n \in Nat
    BY MemoryAssumption DEF Address
  <1>2. a + n <= MemorySize /\ \A i \in 0 .. n - 1 : At(a, i) = a + i
    BY RangeExact
  <1>3. \A i \in 0 .. n - 1 : a + i \in 0 .. MemorySize - 1
    BY <1>1, <1>2
  <1> QED
    BY <1>2, <1>3 DEF Bytes
-------------------------------------------------------------------------------
LEMMA WriteImplements ==
  ASSUME TypeOK, NEW a \in Address, NEW n \in Widths, NEW v \in Values, Write(a, n, v)
  PROVE  Flat!Write(a, n, v)
  <1>1. /\ InRange(a, n) <=> Flat!Fits(a, n)
        /\ Throws(a, n) <=> ~InRange(a, n)
    BY RangeExact DEF Flat!Fits
  <1>2. CASE InRange(a, n)
    <2>1. \A x \in 0 .. MemorySize - 1 :
            ReadByte(x)' = IF x \in a .. a + n - 1 THEN v[x - a] ELSE ReadByte(x)
      BY <1>2, StoreEffect DEF Write
    <2>2. Bytes' = [x \in Flat!Store |->
                      IF x \in a .. a + n - 1 THEN v[x - a] ELSE Bytes[x]]
      BY <2>1 DEF Bytes, Flat!Store
    <2>3. Throws(a, n) = FALSE
      BY <1>1, <1>2, Zenon DEF Throws
    <2>4. last' = Flat!Access("write", a, n, FALSE, <<>>)
      BY <2>3 DEF Write, Access, Flat!Access
    <2> QED
      BY <1>1, <1>2, <2>2, <2>4 DEF Flat!Write
  <1>3. CASE ~InRange(a, n)
    <2>1. Bytes' = Bytes
      BY <1>3 DEF Write, Bytes, ReadByte, IsBlockPresent
    <2>2. Throws(a, n) = TRUE
      BY <1>1, <1>3, Zenon DEF Throws
    <2>3. last' = Flat!Access("write", a, n, TRUE, <<>>)
      BY <2>2 DEF Write, Access, Flat!Access
    <2> QED
      BY <1>1, <1>3, <2>1, <2>3 DEF Flat!Write
  <1> QED
    BY <1>2, <1>3

LEMMA ReadImplements ==
  ASSUME NEW a \in Address, NEW n \in Widths, Read(a, n)
  PROVE  Flat!Read(a, n)
  <1>1. Throws(a, n) <=> ~Flat!Fits(a, n)
    BY RangeExact DEF Flat!Fits
  <1> DEFINE Out(threw, value) ==
        [kind |-> "read", address |-> a, bytes |-> n, threw |-> threw, value |-> value]
  <1>2. Bytes' = Bytes
    BY DEF Read, Bytes, ReadByte, IsBlockPresent
  <1>3. CASE Throws(a, n)
    <2>1. Throws(a, n) = (~Flat!Fits(a, n))
      BY <1>1, Zenon DEF Throws, Flat!Fits
    <2>2. last' = Out(~Flat!Fits(a, n), <<>>)
      BY <1>3, <2>1 DEF Read, Access
    <2> QED
      BY <1>1, <1>2, <1>3, <2>2 DEF Flat!Read, Flat!Access
  <1>4. CASE ~Throws(a, n)
    <2>1. Throws(a, n) = (~Flat!Fits(a, n))
      BY <1>1, Zenon DEF Throws, Flat!Fits
    <2>2. last' = Out(~Flat!Fits(a, n), [i \in 0 .. n - 1 |-> Bytes[a + i]])
      BY <1>4, <2>1, ReadExact DEF Read, Access
    <2> HIDE DEF Bytes
    <2> QED
      BY <1>1, <1>2, <1>4, <2>2 DEF Flat!Read, Flat!Access
  <1> QED
    BY <1>3, <1>4

(* KeepsBytes: the blocks with their two block sizes, the range tests on     *)
(* wrapping addresses and the byte-by-byte accesses implement FlatMemory.    *)
THEOREM ImplementsFlat == Spec => KeepsBytes
  <1>1. Init => Flat!Init
    BY DEF Init, Flat!Init, Flat!Store, Bytes, ReadByte, IsBlockPresent, Access, Flat!Access
  <1>2. TypeOK /\ [Next]_vars => [Flat!Next]_<<Bytes, last>>
    <2> SUFFICES ASSUME TypeOK, [Next]_vars
                 PROVE  Flat!Next \/ UNCHANGED <<Bytes, last>>
      OBVIOUS
    <2>1. ASSUME NEW a \in Address, NEW n \in Widths, Read(a, n)
          PROVE  Flat!Next
      BY <2>1, ReadImplements DEF Flat!Next, Flat!Address, Address
    <2>2. ASSUME NEW a \in Address, NEW n \in Widths, NEW v \in Values, Write(a, n, v)
          PROVE  Flat!Next
      BY <2>2, WriteImplements DEF Flat!Next, Flat!Address, Address
    <2>3. CASE Reset
      <3>1. Bytes' = [x \in Flat!Store |-> 0]
        BY <2>3 DEF Reset, Bytes, ReadByte, IsBlockPresent, Flat!Store
      <3> QED
        BY <2>3, <3>1 DEF Reset, Flat!Next, Flat!Clear
    <2>4. ASSUME NEW s \in ConfigSizes, SetMemoryBlockSize(s)
          PROVE  UNCHANGED <<Bytes, last>>
      BY <2>4 DEF SetMemoryBlockSize, Bytes, ReadByte, IsBlockPresent
    <2>5. CASE UNCHANGED vars
      BY <2>5 DEF vars, Bytes, ReadByte, IsBlockPresent
    <2> QED
      BY <2>1, <2>2, <2>3, <2>4, <2>5 DEF Next
  <1> QED
    BY <1>1, <1>2, TypeCorrect, PTL DEF Spec, KeepsBytes, Flat!Spec
===============================================================================
