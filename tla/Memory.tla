-------------------------------- MODULE Memory --------------------------------
(***************************************************************************)
(* Main memory (src/vm/main_memory.cpp and main_memory.h): blocks of bytes *)
(* that come into being with the first write into them.  An access of n    *)
(* bytes is one range test and then n accesses of one byte, each of which  *)
(* has a range test of its own; addresses wrap.                            *)
(*                                                                         *)
(* The number of the block an address is in is computed with block_size_,  *)
(* which is fixed when the memory is constructed.  The bytes of a new      *)
(* block are as many as the configuration says at that moment              *)
(* (modify_config Memory memory_block_size).                               *)
(***************************************************************************)
EXTENDS Integers

CONSTANTS
  Wrap,         \* values of an address (2^64)
  MemorySize,   \* memory_size_ (2^64 - 1), read from the configuration once
  BlockSize,    \* block_size_ (1024), read from the configuration once
  Byte,         \* values of a byte, zero among them (0 .. 255)
  Widths,       \* bytes of one access (1, 2, 4, 8)
  Values,       \* the values that are stored, each the bytes from the lowest up
  ConfigSizes   \* the block sizes the user may configure later

ASSUME MemoryAssumption ==
  /\ Wrap \in Nat /\ MemorySize \in Nat /\ MemorySize < Wrap
  /\ BlockSize \in Nat \ {0}
  /\ 0 \in Byte
  /\ Widths \subseteq Nat \ {0} /\ \A n \in Widths : n <= MemorySize
  /\ \A n \in Widths, v \in Values : \A i \in 0 .. n - 1 : v[i] \in Byte
  /\ ConfigSizes \subseteq Nat

(* A block smaller than block_size_ is written beyond its end. *)
ASSUME BlocksFit == \A s \in ConfigSizes : s >= BlockSize

VARIABLES
  blocks,              \* blocks_: the blocks present, by number
  memory_block_size,   \* the configuration's block size
  last                 \* the last access and its outcome

vars == <<blocks, memory_block_size, last>>

Address == 0 .. Wrap - 1

GetBlockIndexConfigured(address) == address \div memory_block_size

GetBlockIndex(address)  == address \div BlockSize
GetBlockOffset(address) == address % BlockSize

IsBlockPresent(b) == b \in DOMAIN blocks

MemoryBlockTooShort == [o \in 0 .. memory_block_size - 2 |-> 0]

MemoryBlock == [o \in 0 .. memory_block_size - 1 |-> 0]

(* Read of one byte; absent blocks are zero. *)
ReadByte(address) ==
  IF IsBlockPresent(GetBlockIndex(address))
  THEN blocks[GetBlockIndex(address)][GetBlockOffset(address)]
  ELSE 0

Access(kind, address, n, threw, value) ==
  [kind |-> kind, address |-> address, bytes |-> n, threw |-> threw, value |-> value]

(* The range tests: "address >= memory_size_ - (n - 1)" on unsigned numbers *)
(* before an access, "address >= memory_size_" before each of its bytes.    *)
InRangeOneByte(address, n) == address < MemorySize

InRange(address, n) == address < (MemorySize - (n - 1)) % Wrap

At(address, i) == (address + i) % Wrap

(* The bytes of the access that are reached before one of them throws. *)
Reached(address, n) == {i \in 0 .. n - 1 : \A j \in 0 .. i : At(address, j) < MemorySize}

Throws(address, n) == ~InRange(address, n) \/ Reached(address, n) # 0 .. n - 1

Touches(address, n, b, o) ==
  {i \in Reached(address, n) :
     GetBlockIndex(At(address, i)) = b /\ GetBlockOffset(At(address, i)) = o}

(* EnsureBlockExists and the assignment of a byte, for every byte reached. *)
Stored(address, n, value) ==
  [b \in DOMAIN blocks \cup {GetBlockIndex(At(address, i)) : i \in Reached(address, n)} |->
     LET old == IF IsBlockPresent(b) THEN blocks[b] ELSE MemoryBlock
     IN  [o \in DOMAIN old |->
            IF Touches(address, n, b, o) = {} THEN old[o]
            ELSE value[CHOOSE i \in Touches(address, n, b, o) : TRUE]]]

(* WriteByte, WriteHalfWord, WriteWord, WriteDoubleWord; modify_memory      *)
(* catches the exception and memory stays in use.                           *)
Write(address, n, value) ==
  /\ blocks' = IF InRange(address, n) THEN Stored(address, n, value) ELSE blocks
  /\ last' = Access("write", address, n, Throws(address, n), <<>>)
  /\ UNCHANGED memory_block_size

Read(address, n) ==
  /\ last' = Access("read", address, n, Throws(address, n),
               IF Throws(address, n) THEN <<>> ELSE [i \in 0 .. n - 1 |-> ReadByte(At(address, i))])
  /\ UNCHANGED <<blocks, memory_block_size>>

Reset ==
  /\ blocks' = <<>>
  /\ UNCHANGED <<memory_block_size, last>>

SetMemoryBlockSize(size) ==
  /\ memory_block_size' = size
  /\ UNCHANGED <<blocks, last>>

Init ==
  /\ blocks = <<>>
  /\ memory_block_size = BlockSize
  /\ last = Access("none", 0, 0, FALSE, <<>>)

Next ==
  \/ \E a \in Address, n \in Widths : Read(a, n) \/ \E v \in Values : Write(a, n, v)
  \/ Reset
  \/ \E s \in ConfigSizes : SetMemoryBlockSize(s)

Spec == Init /\ [][Next]_vars
-------------------------------------------------------------------------------
(* Blocks hold bytes, and at least as many as offsets reach. *)
TypeOK ==
  /\ DOMAIN blocks \subseteq Nat
  /\ \A b \in DOMAIN blocks :
       \E s \in ConfigSizes \cup {BlockSize} : blocks[b] \in [0 .. s - 1 -> Byte]
  /\ memory_block_size \in ConfigSizes \cup {BlockSize}

Bytes == [x \in 0 .. MemorySize - 1 |-> ReadByte(x)]

(* The blocks implement one array of bytes: what was written is read back   *)
(* at every width and alignment, also across two blocks and after the block *)
(* size was reconfigured, and an access that throws changes nothing.        *)
Flat == INSTANCE FlatMemory WITH bytes <- Bytes

KeepsBytes == Flat!Spec
===============================================================================
