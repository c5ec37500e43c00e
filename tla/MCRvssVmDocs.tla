----------------------------- MODULE MCRvssVmDocs -----------------------------
(* Programs whose steps undo does not revert, one for each reason. *)
EXTENDS RvssVmDocs, MCRvssVm

MultiplyProgram == {<<Ldbm, Bigmul(1)>>}
CsrProgram      == {<<Addi("x1", 1), Csr("x2", "x1")>>}
AddProgram      == {<<Addi("x1", 1), Addi("x2", 1), Addi("x1", 1)>>}
===============================================================================
