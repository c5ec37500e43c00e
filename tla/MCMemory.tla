------------------------------- MODULE MCMemory -------------------------------
(* Accesses of one, two and four bytes whose bytes differ from their neighbours. *)
EXTENDS Memory

StoredValues == {[i \in 0 .. 3 |-> (i + k) % 3] : k \in 1 .. 2}
===============================================================================
