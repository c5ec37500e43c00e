------------------------------ MODULE RvssVmDocs ------------------------------
(***************************************************************************)
(* What COMMANDS.md says of undo, where RvssVm shows that the machine does *)
(* something else.  RvssVm is unchanged; two variables remember the states *)
(* that undo should return to.                                             *)
(***************************************************************************)
EXTENDS RvssVm

VARIABLES
  before,   \* the states before the steps on the undo stack
  stepped   \* has a step been executed since the last load or reset?

ghosts == <<before, stepped>>

Begins == mode # "run" /\ retired' > retired /\ redo' = redo

RememberInit == before = <<>> /\ stepped = FALSE

Loads == \E p \in Programs : LoadProgram(p)

Remember ==
  /\ before' = CASE Begins \/ Redo -> Append(before, State)
                 [] Undo -> Front(before)
                 [] Reset -> <<>>
                 [] OTHER -> before
  /\ stepped' = ((stepped \/ Begins) /\ ~Reset /\ ~Loads)

DocsSpec ==
  /\ Init /\ RememberInit
  /\ [][Next /\ Remember]_<<vars, ghosts>>
  /\ WF_<<vars, ghosts>>(Thread /\ Remember)
-------------------------------------------------------------------------------
Observed(s) == [pc |-> s.pc, regs |-> s.regs, csr |-> s.csr, mem |-> s.mem]

(* COMMANDS.md on undo: "Reverts the last executed step in the loaded file." *)
(* Undo brings the program's state back to what it was before that step; a   *)
(* step of a file that is no longer loaded is not one to revert.             *)
UndoReverts ==
  [][ Undo => stepped /\ Observed(State)' = Observed(Last(before)) ]_<<vars, ghosts>>
===============================================================================
