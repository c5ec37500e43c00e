--------------------------------- MODULE RvssVm --------------------------------
(***************************************************************************)
(* The single-stage RISC-V machine (src/vm/rvss/rvss_vm.cpp with the parts *)
(* of vm_base.cpp it inherits): instruction execution, the three run loops *)
(* with the coprocessor stalls, breakpoints, the instruction limit, and    *)
(* undo/redo through recorded deltas.                                      *)
(*                                                                         *)
(* pc counts instructions.  Instructions are records; operand addresses of *)
(* the memory and coprocessor instructions are part of the record instead  *)
(* of register contents.  Every step is one iteration of a loop of the VM  *)
(* thread or one command of the main thread.  run, debug_run, step, undo   *)
(* and redo wait for the VM thread or are dropped while it runs; stop, the *)
(* breakpoints, reset and load fall between two of its iterations.         *)
(***************************************************************************)
EXTENDS Integers, SequencesExt

CONSTANTS
  Limbs, Batch, MemBatch, SizeLimit, Base, MemSize,   \* as in BigmulUnit
  Regs,          \* the general registers programs use
  Programs,      \* the programs that may be loaded: sequences of instructions
  DataSection,   \* memory as LoadProgram leaves it
  Limit,         \* instruction_execution_limit
  Commands,      \* the commands the user may give
  Patient,       \* does the user reset and load only while the machine is idle?
  MaxRetired     \* bound: no command starts beyond this many instructions

(* Instructions whose operands lie inside the model's memory.  BIGMUL's size *)
(* is any number: Decode checks it.                                          *)
Instruction ==
  LET operand == {a \in Nat : a + Limbs <= MemSize}
      result  == {r \in Nat : r + 2 * Limbs <= MemSize}
  IN       [op : {"nop"}]
      \cup [op : {"addi"}, rd : Regs, imm : Int]
      \cup [op : {"csrrw"}, rd : Regs, rs : Regs]
      \cup [op : {"sd"}, rs : Regs, addr : 0 .. MemSize - 1]
      \cup [op : {"jal"}, to : Nat]
      \cup [op : {"ldbm"}, a : operand, b : operand]
      \cup [op : {"bigmul"}, r : result, n : Nat]

ASSUME VmAssumption ==
  /\ Limbs \in Nat \ {0} /\ Batch \in Nat \ {0} /\ MemBatch \in Nat \ {0}
  /\ SizeLimit \in Nat /\ Base \in Nat \ {0, 1} /\ MemSize \in Nat
  /\ 2 * Limbs <= MemSize
  /\ Limbs % MemBatch = 0
  /\ DataSection \in [0 .. MemSize - 1 -> 0 .. Base - 1]
  /\ Programs \subseteq Seq(Instruction)
  /\ Limit \in Nat
  /\ Patient \in BOOLEAN

VARIABLES
  start, ldbm_done, ldbm_offset, base_addr_A, base_addr_B, bigmul_done, bigmul_prog,
  base_addr_res, size_of_operand, write_done, write_offset, cacheA, cacheB, resultCache,
  s_diag, i_max, k_iter, acc, mem

unitVars == <<start, ldbm_done, ldbm_offset, base_addr_A, base_addr_B, bigmul_done,
  bigmul_prog, base_addr_res, size_of_operand, write_done, write_offset, cacheA, cacheB,
  resultCache, s_diag, i_max, k_iter, acc>>

Unit == INSTANCE BigmulUnit WITH
  InitMem <- {DataSection}, LoadAddrs <- {}, ResultAddrs <- {}, Sizes <- {}, Stores <- {},
  Interruptible <- TRUE

VARIABLES
  text,          \* the instruction words in memory
  program_size,
  pc, regs, csr,
  breakpoints,
  mode,          \* what the VM thread executes: "idle", "run", "debug", "step"
  phase,         \* "head" of a loop, or "finish": an issued instruction's stalls
  stop,          \* stop_requested_
  executed,      \* instruction_executed of the current Run or DebugRun
  retired,       \* instructions_retired_: below zero, the unsigned counter has wrapped
  undo, redo,    \* undo_stack_ and redo_stack_, newest last
  delta          \* current_delta_

machine == <<text, program_size, pc, regs, csr>>
control == <<breakpoints, mode, phase, stop, executed>>
history == <<retired, undo, redo, delta>>
vars    == <<unitVars, mem, machine, control, history>>

Nop == [op |-> "nop"]

NoDelta ==
  [old_pc |-> 0, new_pc |-> 0, regs |-> <<>>, mems |-> <<>>, custom |-> 0, unit |-> <<>>]

(***************************************************************************)
(* One instruction: Fetch, Decode, Execute, WriteMemory and WriteBack of   *)
(* one cycle, recording its changes in the delta d.                        *)
(***************************************************************************)
RegChange(r, new) ==
  IF regs[r] = new THEN <<>> ELSE <<[at |-> r, old |-> regs[r], new |-> new]>>

MemChange(a, new) ==
  IF mem[a] = new THEN <<>> ELSE <<[at |-> a, old |-> mem[a], new |-> new]>>

Alu(i, d) ==
  LET new == (regs[i.rd] + i.imm) % Base IN
  /\ i.op = "addi"
  /\ regs' = [regs EXCEPT ![i.rd] = new]
  /\ delta' = [d EXCEPT !.regs = @ \o RegChange(i.rd, new)]
  /\ Unit!IssueOther(mem)
  /\ pc' = pc + 1
  /\ UNCHANGED csr

(* WriteBackCsr: neither register change enters the delta. *)
Csrrw(i, d) ==
  /\ i.op = "csrrw"
  /\ csr' = regs[i.rs]
  /\ regs' = [regs EXCEPT ![i.rd] = csr]
  /\ delta' = d
  /\ Unit!IssueOther(mem)
  /\ pc' = pc + 1

Store(i, d) ==
  /\ i.op = "sd"
  /\ Unit!IssueOther([mem EXCEPT ![i.addr] = regs[i.rs]])
  /\ delta' = [d EXCEPT !.mems = @ \o MemChange(i.addr, regs[i.rs])]
  /\ pc' = pc + 1
  /\ UNCHANGED <<regs, csr>>

Jump(i, d) ==
  /\ i.op = "jal"
  /\ pc' = i.to
  /\ delta' = d
  /\ Unit!IssueOther(mem)
  /\ UNCHANGED <<regs, csr>>

NoOp(i, d) ==
  /\ i.op = "nop"
  /\ pc' = pc + 1
  /\ delta' = d
  /\ Unit!IssueOther(mem)
  /\ UNCHANGED <<regs, csr>>

(* WriteMemory returns from the coprocessor's branches before recording. *)
Custom(i, d) ==
  /\ \/ i.op = "ldbm" /\ Unit!IssueLdbm(i.a, i.b)
     \/ i.op = "bigmul" /\ Unit!IssueBigmul(i.r, i.n)
  /\ pc' = pc + 1
  /\ delta' = d
  /\ UNCHANGED <<regs, csr>>

ExecuteInstruction(d) ==
  LET i == text[pc + 1] IN
  /\ \/ Alu(i, d) \/ Csrrw(i, d) \/ Store(i, d) \/ Jump(i, d) \/ NoOp(i, d) \/ Custom(i, d)
  /\ retired' = retired + 1
  /\ UNCHANGED <<text, program_size>>

(* The delta a step starts from: the preview of the opcode at the pc, and  *)
(* the coprocessor's state (kept for custom ones, the only ones to use it).*)
CustomCode(i) == CASE i.op = "ldbm" -> 1 [] i.op = "bigmul" -> 2 [] OTHER -> 0

Preview ==
  LET code == IF pc < program_size THEN CustomCode(text[pc + 1]) ELSE 0
  IN  [delta EXCEPT !.old_pc = pc, !.custom = code,
                    !.unit = IF code = 0 THEN <<>> ELSE Unit!Snapshot]

(***************************************************************************)
(* Run: the stop flag, the program's end and the limit are tested before   *)
(* every cycle; a stalled cycle advances the coprocessor only.             *)
(***************************************************************************)
Launch(m) ==
  /\ mode = "idle" /\ retired <= MaxRetired
  /\ mode' = m /\ phase' = "head"
  /\ stop' = FALSE
  /\ executed' = 0
  /\ UNCHANGED <<unitVars, mem, machine, breakpoints, history>>

StartRun == "run" \in Commands /\ Launch("run")

LoopContinuesOneMore == ~stop /\ pc < program_size /\ executed <= Limit + 1

LoopContinues == ~stop /\ pc < program_size /\ executed <= Limit

Return ==
  /\ mode' = "idle"
  /\ UNCHANGED <<unitVars, mem, machine, breakpoints, phase, stop, executed, history>>

RunReturn == mode = "run" /\ ~LoopContinues /\ Return

RunStallSkipsMultiply ==
  /\ mode = "run" /\ LoopContinues
  /\ \/ Unit!LdbmCycle
     \/ Unit!WriteCycle
  /\ UNCHANGED <<machine, control, history>>

RunStall ==
  /\ mode = "run" /\ LoopContinues
  /\ Unit!Cycle
  /\ UNCHANGED <<machine, control, history>>

RunInstruction ==
  /\ mode = "run" /\ LoopContinues /\ ~Unit!Stalled
  /\ ExecuteInstruction(delta)
  /\ executed' = executed + 1
  /\ UNCHANGED <<breakpoints, mode, phase, stop, undo, redo>>

(***************************************************************************)
(* DebugRun and Step: the instruction and all its stall cycles, then the   *)
(* delta is pushed.  Neither looks at the stop flag while it finishes.     *)
(***************************************************************************)
StartDebugRun == "debug" \in Commands /\ Launch("debug")

DebugReturn == mode = "debug" /\ phase = "head" /\ ~LoopContinues /\ Return

DebugBreak ==
  /\ mode = "debug" /\ phase = "head" /\ LoopContinues
  /\ pc \in breakpoints
  /\ mode' = "idle"
  /\ delta' = NoDelta
  /\ UNCHANGED <<unitVars, mem, machine, breakpoints, phase, stop, executed, retired, undo, redo>>

DebugInstruction ==
  /\ mode = "debug" /\ phase = "head" /\ LoopContinues
  /\ pc \notin breakpoints
  /\ ExecuteInstruction(Preview)
  /\ phase' = "finish"
  /\ executed' = executed + 1
  /\ UNCHANGED <<breakpoints, mode, stop, undo, redo>>

Step ==
  /\ "step" \in Commands /\ mode = "idle" /\ retired <= MaxRetired
  /\ \/ /\ pc < program_size
        /\ ExecuteInstruction(Preview)
        /\ mode' = "step" /\ phase' = "finish"
        /\ UNCHANGED <<breakpoints, stop, executed, undo, redo>>
     \/ /\ pc >= program_size
        /\ delta' = Preview
        /\ UNCHANGED <<unitVars, mem, machine, control, retired, undo, redo>>

FinishCycle ==
  /\ mode \in {"debug", "step"} /\ phase = "finish"
  /\ Unit!Cycle
  /\ UNCHANGED <<machine, control, history>>

Commit ==
  /\ mode \in {"debug", "step"} /\ phase = "finish" /\ ~Unit!Stalled
  /\ undo' = Append(undo, [delta EXCEPT !.new_pc = pc])
  /\ redo' = <<>>
  /\ delta' = NoDelta
  /\ phase' = "head"
  /\ mode' = IF mode = "step" THEN "idle" ELSE mode
  /\ UNCHANGED <<unitVars, mem, machine, breakpoints, stop, executed, retired>>

RequestStop ==
  /\ "stop" \in Commands /\ mode # "idle" /\ ~stop
  /\ stop' = TRUE
  /\ UNCHANGED <<unitVars, mem, machine, breakpoints, mode, phase, executed, history>>

(***************************************************************************)
(* Undo and Redo: the changes are replayed in the order they were recorded.*)
(***************************************************************************)
WriteOld(f, c) == [f EXCEPT ![c.at] = c.old]
WriteNew(f, c) == [f EXCEPT ![c.at] = c.new]

RestoreNothing(d) == UNCHANGED unitVars

RestoreUnit(d) ==
  IF d.custom # 0 THEN Unit!Restore(d.unit) ELSE UNCHANGED unitVars

Undo ==
  LET last == Last(undo) IN
  /\ "undo" \in Commands /\ mode = "idle" /\ undo # <<>>
  /\ RestoreUnit(last)
  /\ regs' = FoldLeft(WriteOld, regs, last.regs)
  /\ mem' = FoldLeft(WriteOld, mem, last.mems)
  /\ pc' = last.old_pc
  /\ retired' = retired - 1
  /\ undo' = Front(undo)
  /\ redo' = Append(redo, last)
  /\ UNCHANGED <<text, program_size, csr, control, delta>>

RedoKeepsEntry ==
  LET next == Last(redo) IN
  /\ "redo" \in Commands /\ mode = "idle" /\ redo # <<>>
  /\ RestoreUnit(next)
  /\ regs' = FoldLeft(WriteNew, regs, next.regs)
  /\ mem' = FoldLeft(WriteNew, mem, next.mems)
  /\ pc' = next.new_pc
  /\ retired' = retired + 1
  /\ undo' = Append(undo, next)
  /\ UNCHANGED <<text, program_size, csr, control, delta, redo>>

Redo ==
  LET next == Last(redo) IN
  /\ "redo" \in Commands /\ mode = "idle" /\ redo # <<>>
  /\ RestoreUnit(next)
  /\ regs' = FoldLeft(WriteNew, regs, next.regs)
  /\ mem' = FoldLeft(WriteNew, mem, next.mems)
  /\ pc' = next.new_pc
  /\ retired' = retired + 1
  /\ redo' = Front(redo)
  /\ undo' = Append(undo, next)
  /\ UNCHANGED <<text, program_size, csr, control, delta>>

(***************************************************************************)
(* Reset clears memory, the program text included, and keeps program_size, *)
(* the breakpoints and the operand size of the coprocessor.  The command   *)
(* loop does not ask whether the VM thread runs: neither reset nor load    *)
(* has a guard in the code, so only a patient user gives an idle machine.  *)
(***************************************************************************)
ResetKeepsHistory ==
  /\ "reset" \in Commands /\ (Patient => mode = "idle")
  /\ Unit!Reset
  /\ text' = [j \in DOMAIN text |-> Nop]
  /\ pc' = 0 /\ regs' = [r \in Regs |-> 0] /\ csr' = 0
  /\ retired' = 0
  /\ delta' = [delta EXCEPT !.regs = <<>>, !.mems = <<>>, !.old_pc = 0, !.new_pc = 0]
  /\ UNCHANGED <<program_size, control, undo, redo>>

Reset ==
  /\ "reset" \in Commands /\ (Patient => mode = "idle")
  /\ Unit!Reset
  /\ text' = [j \in DOMAIN text |-> Nop]
  /\ pc' = 0 /\ regs' = [r \in Regs |-> 0] /\ csr' = 0
  /\ retired' = 0
  /\ delta' = [delta EXCEPT !.regs = <<>>, !.mems = <<>>, !.old_pc = 0, !.new_pc = 0]
  /\ undo' = <<>> /\ redo' = <<>>
  /\ UNCHANGED <<program_size, control>>

(* The model's memory is the data section, which the loader writes whole.  *)
(* The pc, the registers and the history of the previous program stay; so  *)
(* do words of a longer one behind the new text, which nothing fetches.    *)
LoadProgram(p) ==
  /\ "load" \in Commands /\ (Patient => mode = "idle")
  /\ text' = p /\ program_size' = Len(p)
  /\ mem' = DataSection
  /\ breakpoints' = breakpoints \cup {Len(p)}
  /\ UNCHANGED <<unitVars, pc, regs, csr, mode, phase, stop, executed, history>>

AddBreakpoint(b) ==
  /\ "break" \in Commands /\ b \notin breakpoints
  /\ breakpoints' = breakpoints \cup {b}
  /\ UNCHANGED <<unitVars, mem, machine, mode, phase, stop, executed, history>>

RemoveBreakpoint(b) ==
  /\ "break" \in Commands /\ b \in breakpoints
  /\ breakpoints' = breakpoints \ {b}
  /\ UNCHANGED <<unitVars, mem, machine, mode, phase, stop, executed, history>>

Init ==
  /\ Unit!Init
  /\ text \in Programs
  /\ program_size = Len(text)
  /\ pc = 0 /\ regs = [r \in Regs |-> 0] /\ csr = 0
  /\ breakpoints = {Len(text)}
  /\ mode = "idle" /\ phase = "head" /\ stop = FALSE /\ executed = 0
  /\ retired = 0 /\ undo = <<>> /\ redo = <<>> /\ delta = NoDelta

Thread ==
  \/ RunReturn \/ RunStall \/ RunInstruction
  \/ DebugReturn \/ DebugBreak \/ DebugInstruction
  \/ FinishCycle \/ Commit

Next ==
  \/ Thread
  \/ StartRun \/ StartDebugRun \/ Step \/ RequestStop
  \/ Undo \/ Redo \/ Reset
  \/ \E p \in Programs : LoadProgram(p)
  \/ \E b \in 0 .. program_size - 1 : AddBreakpoint(b) \/ RemoveBreakpoint(b)

(* The VM thread is scheduled whenever it can run; the user need not act. *)
Spec == Init /\ [][Next]_vars /\ WF_vars(Thread)
-------------------------------------------------------------------------------
Digit == 0 .. Base - 1
Change(S) == [at : S, old : Digit, new : Digit]

IsDelta(d) ==
  /\ d.old_pc \in Nat /\ d.new_pc \in Nat
  /\ d.regs \in Seq(Change(Regs))
  /\ d.mems \in Seq(Change(0 .. MemSize - 1))
  /\ d.custom \in 0 .. 2

(* Every variable has its type. *)
TypeOK ==
  /\ Unit!TypeOK
  /\ program_size = Len(text)
  /\ pc \in Nat
  /\ regs \in [Regs -> Digit] /\ csr \in Digit
  /\ breakpoints \subseteq Nat
  /\ mode \in {"idle", "run", "debug", "step"} /\ phase \in {"head", "finish"}
  /\ stop \in BOOLEAN /\ executed \in 0 .. Limit + 1
  /\ retired \in Int
  /\ IsDelta(delta)
  /\ \A k \in DOMAIN undo : IsDelta(undo[k])
  /\ \A k \in DOMAIN redo : IsDelta(redo[k])

(* The entries of the undo stack, and the step whose entry is still to come. *)
Undoable == Len(undo) + (IF phase = "finish" THEN 1 ELSE 0)

(* instructions_retired_ is unsigned and Undo decrements it unchecked.  With *)
(* a patient user every undoable step was counted since the counter was last *)
(* cleared, so undoing all of them never wraps it.  A reset that falls       *)
(* between the count of a step and its entry leaves one entry that the       *)
(* counter does not cover: undoing it wraps, by one and never by more.       *)
RetiredCoversUndo ==
  IF Patient THEN retired >= Undoable ELSE retired + 1 >= Undoable

(* The comment on s_diag: "current diagonal 0..126".  Sizes beyond the caches *)
(* apart, restore() may leave a diagonal that the size in force never reaches. *)
DiagonalRange == Unit!DiagonalRange

(* The state a program can observe. *)
State == [pc |-> pc, regs |-> regs, csr |-> csr, mem |-> mem,
          unit |-> Unit!Snapshot, operand |-> size_of_operand]

Undone(d, s) ==
  [s EXCEPT !.pc   = d.old_pc,
            !.regs = FoldLeft(WriteOld, @, d.regs),
            !.mem  = FoldLeft(WriteOld, @, d.mems),
            !.unit = IF d.custom = 0 THEN @ ELSE d.unit]

Redone(d, s) ==
  [s EXCEPT !.pc   = d.new_pc,
            !.regs = FoldLeft(WriteNew, @, d.regs),
            !.mem  = FoldLeft(WriteNew, @, d.mems),
            !.unit = IF d.custom = 0 THEN @ ELSE d.unit]

(* The states to which undoing deltas leads back from s, the oldest first, *)
(* and the ones redoing them leads on to, the next one first.              *)
Behind(deltas, s) ==
  LET n == Len(deltas)
      back[k \in 0 .. n] == IF k = 0 THEN s ELSE Undone(deltas[n + 1 - k], back[k - 1])
  IN  [k \in 1 .. n |-> back[n + 1 - k]]

Ahead(deltas, s) ==
  LET n == Len(deltas)
      on[k \in 0 .. n] == IF k = 0 THEN s ELSE Redone(deltas[n + 1 - k], on[k - 1])
  IN  [k \in 1 .. n |-> on[k]]

(* While an instruction is being finished the state is still the one before *)
(* it; the past is what the recorded deltas lead back to.                   *)
Present == IF phase = "finish" THEN Undone(delta, State) ELSE State
Past    == Behind(undo, Present)
Future  == Ahead(redo, Present)

(* What Undo and Redo both bring back: all but the coprocessor's registers. *)
Visible(s) == [pc |-> s.pc, regs |-> s.regs, csr |-> s.csr, mem |-> s.mem]
VisibleAll(states) == [k \in DOMAIN states |-> Visible(states[k])]

History == INSTANCE UndoHistory WITH
  past <- VisibleAll(Past), present <- Visible(Present), future <- VisibleAll(Future)

(* Stepping, undoing and redoing walk along one list of states: what Step   *)
(* and DebugRun record is exactly what changed.                             *)
KeepsHistory == History!Spec

(* The registers and the memory that Reset leaves. *)
Cleared == pc = 0 /\ regs = [r \in Regs |-> 0] /\ mem = [x \in 0 .. MemSize - 1 |-> 0]

(* The past holds the coprocessor's registers, too.  Redo apart, which does  *)
(* not bring them back, a step adds the state before it, undo returns to the *)
(* newest entry with the caches an LDBM had replaced, and only Reset, which  *)
(* clears the machine, forgets the past.                                     *)
KeepsPast ==
  [][ \/ Past' = Append(Past, Present)
      \/ Past # <<>> /\ Present' = Last(Past) /\ Past' = Front(Past)
      \/ Past' = <<>> /\ Cleared'
      \/ Redo ]_<<Past, Present>>

(* Whatever the program and wherever it was stopped, reset or undone before, *)
(* a run, a debug run or a step comes back: the limit bounds loops and stalls *)
(* end.  The exception is a multiplication that runs out of the diagonals:   *)
(* restore() keeps s_diag, which may lie beyond the last diagonal of the      *)
(* size in force, the one that ends the multiplication.                       *)
ThreadReturns == mode # "idle" ~> mode = "idle" \/ ~DiagonalRange
===============================================================================
