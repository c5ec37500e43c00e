------------------------------ MODULE FlatMemory ------------------------------
(***************************************************************************)
(* What main memory promises: one byte per address, zero until written.    *)
(* An access of n bytes that does not fit below MemorySize fails as a      *)
(* whole.                                                                  *)
(***************************************************************************)
EXTENDS Integers

CONSTANTS
  Wrap,         \* values of an address (2^64)
  MemorySize,   \* memory_size_
  Byte,         \* values of a byte, zero among them (0 .. 255)
  Widths,       \* bytes of one access (1, 2, 4, 8)
  Values        \* the values that are stored, each the bytes from the lowest up

VARIABLES
  bytes,   \* the byte at every address below MemorySize
  last     \* the last access and its outcome

Address == 0 .. Wrap - 1
Store   == 0 .. MemorySize - 1

Fits(address, n) == address + n <= MemorySize

Access(kind, address, n, threw, value) ==
  [kind |-> kind, address |-> address, bytes |-> n, threw |-> threw, value |-> value]

Init ==
  /\ bytes = [x \in Store |-> 0]
  /\ last = Access("none", 0, 0, FALSE, <<>>)

Write(address, n, value) ==
  \/ /\ Fits(address, n)
     /\ bytes' = [x \in Store |->
                    IF x \in address .. address + n - 1 THEN value[x - address]
                                                        ELSE bytes[x]]
     /\ last' = Access("write", address, n, FALSE, <<>>)
  \/ /\ ~Fits(address, n)
     /\ last' = Access("write", address, n, TRUE, <<>>)
     /\ UNCHANGED bytes

Read(address, n) ==
  /\ last' = Access("read", address, n, ~Fits(address, n),
               IF Fits(address, n) THEN [i \in 0 .. n - 1 |-> bytes[address + i]] ELSE <<>>)
  /\ UNCHANGED bytes

Clear ==
  /\ bytes' = [x \in Store |-> 0]
  /\ UNCHANGED last

Next ==
  \/ \E a \in Address, n \in Widths : Read(a, n) \/ \E v \in Values : Write(a, n, v)
  \/ Clear

Spec == Init /\ [][Next]_<<bytes, last>>
===============================================================================
