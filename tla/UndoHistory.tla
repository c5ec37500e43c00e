------------------------------ MODULE UndoHistory -----------------------------
(***************************************************************************)
(* What undo and redo promise: the machine is always somewhere in a list   *)
(* of states it has been in.  Executing an instruction extends the list    *)
(* and forgets what lay ahead; undo and redo move along it; reset starts a *)
(* new one.                                                                *)
(***************************************************************************)
EXTENDS Sequences, SequencesExt

VARIABLES past, present, future   \* the states undo returns to, here, and redo's

vars == <<past, present, future>>

Execute ==
  /\ past' = Append(past, present)
  /\ future' = <<>>

Undo ==
  /\ past # <<>>
  /\ present' = Last(past)
  /\ past' = Front(past)
  /\ future' = <<present>> \o future

Redo ==
  /\ future # <<>>
  /\ present' = Head(future)
  /\ past' = Append(past, present)
  /\ future' = Tail(future)

Reset ==
  /\ past' = <<>>
  /\ future' = <<>>

Init == past = <<>> /\ future = <<>>

Next == Execute \/ Undo \/ Redo \/ Reset

Spec == Init /\ [][Next]_vars
===============================================================================
