# A formal model of the RISC-V simulator

The program is a command-driven simulator of a 64-bit RISC-V processor with a
big-integer coprocessor. It assembles a file, executes it on a single-stage
machine, and lets a front end run, step, undo and redo it by writing commands to
its standard input. This directory models the way of a program through it: the
assembler and the loader, the encoding of instructions and the five stages that
execute them, main memory, the coprocessor that works cycle by cycle while the
machine stalls, the run loops with their undo history, and the two threads that
share the machine. TLC checks the models on small instances and TLAPS proves
part of it for all.

## 1. Inventory

| Component (source) | State | Operations | Hard behaviour | Correct when |
|---|---|---|---|---|
| Coprocessor (`src/vm/bigmul_unit.cpp`; custom halves of `RVSSVM::Decode`, `WriteMemory`) | operand and result caches, base addresses, `ldbm_offset`, `write_offset`, three done flags, `size_of_operand`, the diagonal `s_diag`, `i_max`, `k_iter`, a 192-bit accumulator | issue LDBM, issue BIGMUL, load a batch, multiply a batch, write a batch, reset, snapshot, restore | instructions that last many cycles and can be interrupted by a stopped run; carries; the bounds of a diagonal; a size that outlives its instruction | memory ends up holding the product of the captured operands, and nothing else changes |
| Single-stage VM (`src/vm/rvss/rvss_vm.cpp`) | pc, registers, current instruction, stop flag, undo and redo stacks, the delta being recorded, `instructions_retired_` | Run, DebugRun, Step, Undo, Redo, Reset, RequestStop, system calls | three loops that treat stalls, stop, limit and history differently; early returns before a change is recorded | undo and redo walk along the states the machine was in; every loop ends |
| VM base (`src/vm/vm_base.cpp`, `vm_base.h`) | loaded program, `program_size_`, breakpoints, input queue with mutex and condition variable | LoadProgram, AddBreakpoint, RemoveBreakpoint, PushInput, ImmGenerator | load does not clear what belongs to the previous program | a load starts afresh; an input line wakes its reader |
| Command loop (`src/main.cpp`, `command_handler.cpp`) | `vm_thread`, `vm_running` | launch (join the old thread, mark, spawn), stop, undo, redo, load, reset, input, exit | two threads that share the machine with one plain flag and one atomic; a stop request that the new thread erases; a lambda that outlives what it refers to | history commands never touch a running machine; no thread is replaced unjoined; commands come back |
| Main memory (`main_memory.cpp`, `memory_controller.cpp`) | map from block to bytes, the configured block size | byte, half, word and double reads and writes, reset | wrap-around in bounds tests, accesses across blocks, read of an absent block, a block size that changes while blocks exist | reads return what was last written |
| Register file (`registers.cpp`) | general, floating and control registers | read and write by number or name | x0; names against numbers | x0 stays zero; the two name maps agree |
| ALU (`alu.cpp`) | none | integer and floating operations | division by zero, smallest by -1, word results sign-extended | the RISC-V definition of each operation |
| Control unit (`rvss_control_unit.cpp`) | control signals of one instruction | SetControlSignals, GetAluSignal | one decision table over opcode, funct3, funct7 | every instruction gets its own signals; start signals drop with the next instruction |
| Assembler front end (`lexer.cpp`, `parser.cpp`) | tokens, symbol table, data buffer, patch lists | tokenise, parse sections, collect labels, back-patch | forward references, data alignment that the loader repeats | every label resolves to where the loader puts it |
| Code generation (`code_generator.cpp`, `assembler.cpp`) | intermediate code, line mappings | encode immediates and instructions, ELF output | split immediates against `ImmGenerator` | decoding an encoded immediate gives it back |
| Configuration (`config.h`) | limits and sizes | get, modify | zero means "no limit" in the documentation | the limit means what it says |
| Multi-stage VM, cache (`rv5s/`, `cache/`) | – | – | empty or unused | – |
| Verilog multiplier (`verilog/`) | – | – | hardware, not part of the program | – |
| Utilities and dumps (`utils.cpp`) | – | write JSON files | file output and formatting | – |
| Generated documentation (`docs/html`, `docs/latex`) | – | – | pages, search index and scripts that Doxygen writes | – |

Interaction. The main thread reads a command line. For `run`, `run_debug` and
`step` it joins the previous VM thread, if any, sets `vm_running` and spawns a
new one; for every other command it calls the machine itself. The VM thread
executes one of the three loops. Each of its iterations either fetches, decodes,
executes and writes back one instruction or, when the control unit's start
signal is up and the coprocessor's done flag is not, advances the coprocessor
by one cycle. `SYSCALL_READ` puts the VM thread to sleep on the condition
variable of the input queue, which the main thread's `vm_stdin` notifies.

Hazards, each at its line and with the properties that watch it, are listed in
`PROJECT.json`. Those without a property say why. Four further kinds were met that the
models do not reach: `print_memory` and `get_memory_point` read outside any
`try`, as does `load` for a number that does not fit 64 bits
(`main.cpp:281`, `:166`); at the end of standard input the loop prints
"Invalid command." for ever (`main.cpp:139`); input lines that one program did
not read are read by the next (`vm_base.h:103`); and a `data_section_start`
inside the text lets the data overwrite it (`vm_base.cpp:32`).

## 2. Modules

| Module | Content |
|---|---|
| `BigMultiply` | what LDBM and BIGMUL promise a program: no caches, batches or carries |
| `BigmulUnit` | the coprocessor, one action per cycle, and the instructions that start it |
| `MCBigmulUnit` | operands and addresses for TLC |
| `BigmulUnit_proofs` | type correctness and index safety, for all parameters |
| `BigmulProduct_proofs` | the limbs and carries are exact, and the unit implements `BigMultiply`, for every number of limbs and every base |
| `UndoHistory` | what undo and redo promise: a list of states and a position in it |
| `RvssVm` | the machine: instructions, run loops, breakpoints, limit, history, reset and load; contains an instance of `BigmulUnit` |
| `MCRvssVm` | programs for TLC |
| `RvssVmDocs`, `MCRvssVmDocs` | sentences of the documentation that the machine does not keep, with history variables to state them |
| `RvssVm_proofs` | type correctness of the machine, what its retired-instruction counter covers, and that it implements `UndoHistory`, for all recorded programs |
| `FlatMemory` | what main memory promises: a byte per address |
| `Memory`, `MCMemory` | blocks, range tests and accesses of several bytes |
| `Memory_proofs` | the blocks implement the flat memory, for all parameters |
| `Assembler`, `MCAssembler` | the two passes, back-patching, line mapping, `LoadProgram` and breakpoints by line; small files |
| `Assembler_proofs` | no reference is encoded unresolved or out of reach, and type correctness, for all files |
| `AssemblerImage_proofs` | every branch, and every jump to the text, goes to its label in the image, every line to its instruction |
| `Encoding` | machine code of every integer instruction, and `ImmGenerator` |
| `Alu` | the integer operations over `XLEN` bits |
| `Rv64` | what the simulator promises of RV64IM: the architecture, with a list of departures |
| `Datapath`, `MCDatapath` | the five stages of an instruction; programs of one or two instructions |
| `Datapath_proofs` | the stages implement `Rv64`, for all programs, operands and widths; every immediate is read back |
| `CommandLoop` | the main and the VM thread |
| `CommandLoop_proofs` | its safety properties, for all parameters |

### The coprocessor

Variables have the names of the code's; `ldbm_done` is `ldbm_done_`, and
`start` stands for the control unit's two start signals, of which
`SetControlSignals` raises at most one. One memory cell is one aligned
doubleword, `Base` is 2^64, `Limbs` 64, `Batch` 25 products a cycle, `MemBatch`
8 doublewords a cycle. The accumulator's three doublewords are kept apart with
the carries of `acc_add_u128` and `acc_add_u192` written out; each is reduced
modulo `Base` as the C++ type is.

| Action | Code |
|---|---|
| `IssueLdbm`, `IssueBigmul` | the cycle that fetches the instruction: `Decode` starts the unit if its done flag is up, and the same cycle's `WriteMemory` loads the first batch, or writes one if a write-back is in progress |
| `IssueOther` | any other instruction: both start signals drop, an operation in progress keeps its state |
| `LdbmCycle`, `ComputeCycle`, `WriteCycle` | one stall cycle of the loops in Run, DebugRun and Step |
| `Reset` | `bigmul_unit::reset` with the cleared memory; `size_of_operand` survives |
| `Snapshot`, `Restore` | the fields `BigmulState` has; the diagonal's position and the size are not among them |

`Interruptible` says whether instructions may be issued while the unit is
busy. Run never does it; Step and DebugRun fetch without asking, so it happens
after a stopped or limited Run. When an index leaves a cache, which is undefined in C++,
the batch sums to any value.

### The machine

`pc` counts instructions. An instruction is a record; addresses that the code
takes from registers are fields of it, because the properties are about what
changes and what is recorded, not about address arithmetic. There is one kind
for each way state can change: a register (`addi`), a control register
(`csrrw`), memory (`sd`), the pc (`jal`), the coprocessor (`ldbm`, `bigmul`),
and nothing (`nop`, the zero word). Each records into the delta what the code
records, and no more. The link register of `jal` is left out (programs use rd = x0).

`Launch` models the launch of Run and DebugRun with the loop's prologue;
`RunReturn`, `RunStall`, `RunInstruction` are the iterations of Run,
`DebugReturn`, `DebugBreak`, `DebugInstruction`, `FinishCycle`, `Commit` those
of DebugRun, and `Step`, `FinishCycle`, `Commit` make up one Step. `RequestStop`
may come at any time. Run appends to `current_delta_` without clearing it, so
`RunInstruction` does, too. `Undo` and `Redo` are commands of the main thread and
happen while the VM thread is idle, which is a theorem about `CommandLoop`
(`HistoryAlone`). `Reset`, `LoadProgram` and the breakpoint commands have no such guard in
`main.cpp` (`:195`, `:160`) and may come at any time, between any two steps of
the VM thread: also after an instruction was counted and before its delta is on
the undo stack. The constant `Patient` says whether the user waits until the
machine is idle before a reset or a load; where a property or a theorem needs
that, it says so. A step of the model is a stall cycle, the end of a step, or an
instruction from its fetch to the count of `instructions_retired_`. A reset
*inside* one of these runs two threads over the same containers without a lock,
which C++ leaves undefined, and is not modelled; nor are the `modify_` commands.

### The threads

`CommandLoop` reduces an instruction to its effect on control: `plain`, `read`,
`exit`, `throw`, `last`, `break`. `main` and `thread` are the two program
counters. `launch_vm_thread` is four actions (`Launch` with the stop request,
`Join`, `Mark`, `Spawn`), since the VM thread can act between them.
`SYSCALL_READ` tests the queue and goes to sleep in one action because it holds
the mutex; `PushInput` takes the same mutex. A sleeper may wake spuriously.
`vm_running` is a plain `bool` written by both threads. The proof
`FlagExact` shows when each write happens; a compiler that hoisted the read out
of the command loop is not considered, as a call that it cannot see through
(`std::getline`) separates the reads. `Clobbers` says whether the build reuses
the stack frame of a returned `launch_vm_thread`: the thread's lambda holds that
function's parameter by reference, and if the thread starts late the call is
undefined; the model then ends the process.

### Main memory

`Wrap` is 2^64 and `Byte` the values of a byte. A block is a function from its
offsets, made by the first write into it with as many bytes as the configuration
says at that moment; the number of a block and the offset in it go by
`block_size_`, which the constructor took. `Write` and `Read` are one range test
of the whole access and one for each byte, and record their outcome in `last`,
which the refinement compares: a read returns the right bytes, an access fails
exactly if it does not fit, and one that fails changes nothing.

### The assembler

A source is a sequence of items, each with its line: sections, labels, data
directives, and one instruction for each way of referring to a label (`branch`,
`jal`, `la`), one that refers to none (`op`), and one that does not parse
(`bad`). Every turn of a loop of `parse` is a step; `loop` says which loop the
pass is in, since the code's passes skip sections with loops of their own
that look at the text of a token, not at its type. Data is kept as the identity
of the value it came from, so that the image in memory can be compared with the
source. `BranchReach`, `JumpReach`, `Page` and `Pages` are the widths of the
immediates. `Encode` reduces an immediate to its width and drops bit 0 of a
branch's or a jump's (`Kept`), for which the B and J formats have no place. That bit is
zero in the offset of a text label; the back-patching also gives a `jal` the
offset of a data label (`parser.cpp:659`), which can be odd.
`LoadProgram` writes over what the last program left.

| Action | Code |
|---|---|
| `FirstTop`, `FirstSkip`, `FirstEnd` | first pass: the loop over sections, the loops that skip text and bss |
| `DataEnd`, `DataLabel`, `DataDirective`, `DataOther` | `parseDataDirective` |
| `SecondTop`, `SecondSkip`, `SecondEnd` | second pass |
| `TextEnd`, `TextLabel`, `Transfer`, `LoadAddress`, `Plain` | the text loop: a label, a branch or jump, `la`, any other opcode |
| `BackPatch` | one entry of `back_patch_` |
| `LoadProgram`, `Reject` | `assemble` with its line mapping, then `VmBase::LoadProgram`, or the exception |
| `Load`, `AddBreakpoint`, `RemoveBreakpoint` | commands |

### Encoding and the datapath

A machine word is the record of its six R-format fields. The encoders spread the
immediate over the fields that its bits fall into, and `ImmGenerator` joins them.
`Fetch`, `Decode`, `Execute`, `WriteMemory` and `WriteBack` are the stages that
Run calls in this order; they keep `execution_result_`, `memory_result_`,
`next_pc_` and `branch_flag_` from one instruction to the next as the code does.
`Fetch` encodes the instruction of the program, so a run goes through assembler
and machine. It does not read the word from `memory` as the code does: a program
that stores into its own text, or whose text is modified by a command, is outside this module, its run
and its theorems. `ldbm` and `bigmul` end in `stage = "unit"` with the addresses and
the size that `Decode` read; their cycles are in `RvssVm`. An operation that
traps, a register number above 31 and an address outside the memory end in
`"killed"`. `start` is a history variable for the refinement.

`Rv64` is the reference. It is written from the architecture, not from the code,
and then departs where the simulator does, by name: `Simulated` (division by
zero gives zero, the least number by -1 the greatest), `Traps` (remainder of
the least number by -1, and word divisions by a zero word in a nonzero
register, end the process), `Held` (word instructions do not write), `Jump`
(`jalr` keeps an odd target), `Named` (register numbers of `ldbm` and
`bigmul`). Run and proof show that there is no departure beyond these.

`Accepted` is what the parser lets through: three registers, and an immediate
within the range that `i_m_formats.cpp` tests for the format. The upper
immediate of `lui` and `auipc` may be any integer, because the
pseudo-instructions `la` and `li` hand the encoder negative ones. The width
`XLEN` is 64 in the code; the model has 16, 32 and 64 (`WidthAssumption`), so that
TLC can run through a small width. The bitwise operations are sums over the bits in
which the operands agree or differ, and powers of two a recursive function, both of which
TLC evaluates and the provers can reason about.

## 3. Runs

| Run | Checks | Bounds and why they are enough |
|---|---|---|
| `unit_product` | `TypeOK`, `CarriesExact`, `KeepsPromise`, `StallEnds` | three limbs, two products a cycle: the middle diagonal needs two batches, the others one; base 3 is the least in which a product has a high digit; every pattern of zeros and largest digits; the result overlaps the second operand; sizes 0 (keep the old one), 2 and 3 |
| `unit_interrupt` | `IndexSafe` | three limbs, two products a cycle, any instruction at any cycle, sizes kept, smaller and larger than the interrupted ones |
| `vm_history` | `KeepsHistory`, `KeepsPast`, `RetiredCoversUndo` | six programs of two to four instructions, up to six retired; stores over an operand, loops and breakpoints included; a patient user |
| `vm_all` | `TypeOK`, `RetiredCoversUndo`, `ThreadReturns` | two operand sizes, two products and two doublewords a cycle, three retired instructions: what `vm_diagonal` needs is among the behaviours; each run is cut off after one instruction (`Limit` 0) or by a stop, so that the next command finds its multiplication unfinished; stop, reset and load at any time, also while an instruction is being finished; load brings the program back that a reset cleared. Other programs and `redo` are in `vm_history`. The state constraint `DiagonalBound` ends the counting of a diagonal that left its range for good, a state that `ThreadReturns` excludes |
| `vm_undo` | `UndoReverts` (violated) | LDBM, BIGMUL |
| `vm_diagonal` | `DiagonalRange` (violated) | two operand sizes, one product a cycle, three retired instructions: two multiplications, an interrupted run, an undo |
| `memory` | `TypeOK`, `KeepsBytes` | five addresses that wrap, four bytes, blocks of three: an access of four bytes crosses a block and fits in one place only; values whose bytes differ from their neighbours; the block size raised at any time |
| `assembler` | `TypeOK`, `LabelsResolve`, `TextComplete`, `DataAtLabels`, `AddressesLoaded`, `LineMapExact`, `ReferencesEncoded`, `AssemblyEnds` | fifty-five files of up to fourteen items: data before and after text, every alignment after every other, two data sections, empty directives, duplicate and missing labels, branches to both ends of their reach and one beyond, `jal` to data labels at even and odd offsets; two loads after one another |
| `datapath` | `TypeOK`, `ImmediateSurvives`, `ImplementsRv64` | words of 8 and registers of 16 bits; each instruction over every pair of nine boundary values, immediates at both ends of their range; pairs of twelve instructions of all formats |
| `dp_words` | `WordsWritten` (violated) | three word instructions |
| `loop_threads` | `TypeOK`, `FlagTracksThread`, `HistoryAlone`, `LaunchSafe`, `NoLostWakeup`, `MainReturns` | limit 2, two queued lines, every kind of instruction; commands are unbounded |
| `loop_exit` | `ExitEnds` (violated) | the same with one line |

`MaxRetired` bounds how many instructions may have been retired when a command
starts; it bounds the length of histories, not what a loop does. `CommandLoop`
has no bound but the queue's.

What the passing runs show:

- `KeepsPromise`: the cycle-by-cycle unit implements `BigMultiply`. Its steps
  either stutter or store further digits of the exact product of the captured
  operands, and when the stall ends all digits are there, also when the result
  overwrites an operand in memory. The abstract machine has the operand size
  survive from one BIGMUL to the next, as the code has it.
- `CarriesExact`: at every cycle the emitted limbs and the accumulator add up to
  the partial products taken so far.
- `IndexSafe`: what an interrupted multiplication resumes with is still a
  position on the diagonal; every product is taken once.
- `KeepsHistory`: for instructions whose changes are recorded, steps, undos and
  redos walk along one list of states (the refinement computes the list from
  the recorded deltas alone). `KeepsPast` is about the coprocessor's registers,
  which undo brings back.
- `ThreadReturns`: whatever was stopped, interrupted, undone or reset before, a
  loop comes back, with one exception that the property names: a multiplication
  whose diagonal counter is beyond the last diagonal of its size never meets its
  end (`vm_diagonal`). The run has two operand sizes and reaches that state, so the exception is
  needed there, and shows that nothing else keeps a loop from coming back.
- `RetiredCoversUndo`: with a patient user (`vm_history`) every entry of the undo stack is
  covered by the counter that Undo decrements unchecked. With any user (`vm_all`)
  one may not be: a reset between the count of an instruction and the push of its
  delta leaves the counter at zero with an entry on the stack, and undoing it wraps the
  unsigned counter. The run reaches that state; the property says that it is never more than one.
- `HistoryAlone`, `FlagTracksThread`, `LaunchSafe`, `NoLostWakeup`: the two
  threads. `MainReturns`: a stop request that the new thread's `ClearStop`
  erases delays a join until the instruction limit, never for ever, unless the
  program waits for input.
- `KeepsBytes`: blocks that come and go, grow, and are crossed by an access are
  one array of bytes.
- `LabelsResolve`, `TextComplete`, `DataAtLabels`, `AddressesLoaded`: the image
  in memory against the source. The parser computes data addresses in one place
  and the loader in another; both agree but behind a labelled directive without
  values. A `jal` to a data label is patched with the label's offset in its
  section, less its bit 0; `LabelsResolve` names it as its exception.
- `ReferencesEncoded`: whatever is assembled has no unit that waits for its label,
  and no offset is cut off by the width of its field: the bits give back the whole offset of
  a text label, and that of a data label but for bit 0, which the J format
  cannot hold. The reach is tested once in the text loop and again in the back-patching.
- `LineMapExact`: a breakpoint by line is the first instruction at or behind it.
- `AssemblyEnds`: every file but one with a label named `data`, `bss` or
  `section` is assembled or rejected after finitely many steps.
- `ImplementsRv64`, `ImmediateSurvives`: an instruction, from its source text to
  the register it writes, is what the architecture says, with the departures of
  `Rv64`. Pairs matter because the stages' registers outlive an instruction.

Where the code does not do what is said of it (all in `PROJECT.json`, "findings"):

- `vm_undo`: the product of a BIGMUL is not recorded and stays after undo. The
  same property fails for three more reasons, each visible by giving
  `RvssVm_undo.cfg` another program or command: `CsrProgram` (CSR instructions
  record neither register), `AddProgram` with `run` and `Limit = 0` (what a run
  leaves in the delta is undone with the next step), and `load` (the undo stack
  survives it).
- `vm_diagonal`: undo puts back the coprocessor's flags and not its place on the
  diagonal, which then lies beyond the last one of the size in force.
- `dp_words`: `addw` and its like leave their register as it was.
- `loop_exit`: `exit` and `run` never come back while the program waits for
  input.

Further departures that the models have and that no run is spent on: `Decode`
accepts operand sizes up to 511 for caches of 64 limbs (the proofs assume
`SizesFit`); redo of an LDBM restores the snapshot of before the step; a step
after a stopped run finishes the old LDBM in place of the one it fetched; a
coprocessor instruction at the end of a program is not executed by `run`; a limit
of 0 is one instruction, and in general a run executes limit + 1; a block size
configured below the first one is written beyond its end (`BlocksFit`).

### Fairness

`WF(Cycle)` in `BigmulUnit` is the run loop, which advances a stalled unit and
does nothing else. `WF(Thread)` in `RvssVm` is a VM thread that the operating
system schedules. `CommandLoop` assumes it of the VM thread and of the main
thread between reading a command and coming back. No command, input line or
spurious wakeup is ever assumed to happen. Deadlock checking is off in
`CommandLoop` because the process ends there, in `Assembler` because the number
of loads is bounded, and in `Datapath` because its programs end.

`WF(Parse)` in `Assembler`: `load` runs on the main thread, which waits for
nothing while it assembles.

## 4. Proofs

`BigmulUnit_proofs`, from `UnitAssumption` and `SizesFit` (every size that
programs pass and `Decode` accepts fits the caches): `TypeCorrect` and
`IndexSafety`. `IndexSafe` is not inductive: the step to the next diagonal needs
that the end of this one is what the size makes it, and the first cycle needs
the bound on the size. The invariant adds `OnDiagonal`, which ties `s_diag`,
`i_max` and `k_iter` to the size while a multiplication is in progress; it holds
whatever is issued in between, because a BIGMUL that changes the size also
starts the multiplication afresh, which `Decode` does only when the unit is done.
`SizesFit` cannot be dropped: with a size above `Limbs` TLC finds both properties violated. Undo's
`Restore` is not a step of `BigmulUnit`, so the theorems do not speak of it.

`BigmulProduct_proofs`, from `UnitAssumption` and three hypotheses: `SizesFit`;
`LoopsWait`, that a run loop issues nothing while the unit stalls, as all three do unless they
are stopped (with an interrupted stall neither property holds: a product resumed with other operands
is of neither); and `CarryRoom`, that the most a diagonal carries into the next, `Limbs`
times the largest digit, fits two digits. For the code that is 64 (2^64 - 1) < 2^128. `CarriesAreExact`
states `CarriesExact`, `PromiseKept` that the unit implements `BigMultiply`. The argument:

- Sums. `SumFunction` is a recursive CHOOSE of the community modules, so that it adds up
  in any order has to be proved: `SumSolved` (the recursion has a solution), `SumRemove` and what follows from
  them are shown by induction on the finite set, in the form of a least counterexample. Powers of the base are
  the recursive function `Weight`, which is what `CarriesExact` and `BigMultiply` are
  stated with, since the provers know nothing of `Base^i`.
- One cycle. The accumulator has three digits. Before each cycle it holds at most what the last
  diagonal passed on and the products of this one taken so far; `CarryRoom` keeps that below
  `Base^3`, so that no carry out of the middle or upper doubleword is lost
  (`AccAddU192` is then addition). That is where a proof says more than a run: the run reaches
  the largest carries of three limbs in base 3 only.
- Diagonals. The end of a diagonal emits its lowest digit and shifts: emitted limbs and accumulator
  still add up to the products of all diagonals up to it. With the last one, all pairs of limbs
  have been taken, once each, and the sum is the product of the operands
  (`Multiplied`).
- `ProductInv` says so between any two cycles; `OneAtATime` is the bookkeeping it needs: at
  most one of load, computation and write is in progress.
- `UnitInv` adds that the doublewords before `ldbm_offset` are loaded and the digits before
  `write_offset` are written. The addresses written may be those of an operand: the abstract machine
  captures the operands at the start, and nothing reads memory after that.
- Step by step: the first cycle of LDBM maps to `StartLoad`, the last to `FinishLoad`, a
  BIGMUL to `StartMul`, a computing cycle to a stutter, a cycle of the write-back to `StoreDigits`.

Both invariants were checked by TLC, with batches of one and of three doublewords, before they were
proved.

`RvssVm_proofs`, from `VmAssumption` (the sizes of the coprocessor's caches, a
memory that holds both operands, programs of well-formed instructions):
`RetiredCovers`, that the counter covers the undo stack as `RetiredCoversUndo` says for
either user; from it `RetiredNeverWraps`, with the hypothesis `Patient`, that it never
wraps, and `RetiredWrapsByOne`, without it, that it is never further than one
below zero. The invariant `RInv` adds that a step is only being finished
by DebugRun and Step; the instruction being finished is counted and not yet on
the stack. Redo may count above the stack; Reset must clear both, and in the middle of
an instruction leaves the one entry that is still to be pushed.

`VmTypeCorrect`, in the same module, also assumes `SizesFit`. Undo and Redo write
what the recorded deltas say into registers, memory and the coprocessor, so the
types are only inductive together with the types of everything on the two stacks:
each entry's changes name registers and cells and hold digits, and the snapshot
of an LDBM is one of a well-typed coprocessor (`VInv`). The coprocessor's steps are not proved again:
`RvssVm` contains `BigmulUnit`, and the lemmas of `BigmulUnit_proofs`, one for each of its
actions, are used through that instance.

`HistoryKept`, that the machine
implements `UndoHistory`, and `PastKept`, from `Recorded`: no program has a CSR instruction or
a BIGMUL, the user neither runs without recording nor loads over a history, and is
`Patient`. Each of the first exclusions is a case of the finding `vm_undo`, where the property fails;
a reset in the middle of an instruction leaves an entry whose changes it has cleared. The run
`vm_history` has the same ones. The argument:

- The refinement mapping folds deltas over the present state: the past is what undoing
  the undo stack gives, the future what redoing the redo stack gives. Neither
  fold can be computed for an unknown stack, so `ChainExists` proves, by induction on the
  length, that a chain of states exists with one delta between neighbours;
  `BehindIs` and `AheadIs` say that the model's `Behind` and `Ahead` are its states.
- A delta undone and redone need not give back the state: its old values may differ from what
  it overwrites. `Linked` is what makes the history consistent: along the chain, each delta
  redone on the state it leads to by undoing gives back the state before,
  as far as the user sees it. That is not a
  property of a delta but of a stack over the present state, and so the invariant `HInv` is
  `Linked` for both stacks.
- While an instruction is being finished its changes are in force and not yet on the stack.
  `HPlain` says that the delta holds at most one change to a register and one to memory,
  each in force, so that the state before the step can be had back from it.
- Every step either leaves the visible state and both stacks (`Stays`), records a delta and
  clears the redo stack (`Extends`), moves one delta from one stack to the other
  (`MovesBack`, `MovesOn`), or clears both (`Forgets`). `StepMoves` sorts the actions
  into these five, which is all that `MovesKeepLinks` (`HInv` is inductive), `MovesHistory` and
  `MovesPast` need to know of them.

`CommandLoop_proofs`, from `LoopAssumption`: `HistoryAlone`,
`FlagTracksThread`, `LaunchSafe`, `NoLostWakeup` and `TypeOK`. They are proved
together, since each supports the other (`HistoryAlone` follows from the exact
flag, which needs that a thread is spawned only over none), with
`BodyWithinLimit` for the bound on `executed`.

`Memory_proofs`, from `MemoryAssumption` and `BlocksFit` (no configured block
size is below the first): `TypeCorrect`, and `ImplementsFlat`, that `Memory`
implements `FlatMemory`. The argument: the unsigned test
`address < (MemorySize - (n - 1)) % Wrap` is exactly that the access fits
(`RangeExact`), so no byte of an access that passes it wraps or throws; number
and offset of a block determine the address (`PlaceExact`), so a write changes
the bytes it covers and, new blocks being zero, no other (`StoreEffect`). `TypeOK` is
needed for the offset to lie inside its block, and is the invariant by itself.

`Assembler_proofs`, from `AssemblerAssumption` (the widths are positive, the reaches and the
page sizes even, a file is a finite sequence of well-formed items): `OffsetsEncoded`. The
invariant `PInv` says of a file without errors so far that a unit either has its
offset within reach (`Reaching`) or is named by an entry of `back_patch_` that is
still to come (`Waiting`); when the last entry is done, none waits. `Typed`, which
says that `back_patch_` names units of the code, holds for files with errors
too. `SignedExact` is the arithmetic: a number within reach comes back from its bits.
That bit 0 is only lost to a data label needs two more invariants: `Offsets`, a branch
or jump that has its offset has that of its label, and `Aligned`, a text label's
address is a multiple of four.

`AssemblerTyped`, in the same module, has the other direction, that a unit with its offset is named
by no entry to come: no two entries name the same unit, which holds since the
patch list grows strictly (`Due`). `Places` bounds the reading position in each
phase; the patch list is never longer than the part of the file read.

`AssemblerImage_proofs`, from hypotheses about the files, which TLC evaluates
for those of the run (`FilesRegular`) and the lexer and ordinary programs meet; each
theorem names those it needs:

- `Ordered`: tokens come in the order of their lines.
- `TextFits`: the text ends before `DataStart`; LoadProgram writes the data second and
  would overwrite it.
- `NoTextLabel`: a label named `text` inside a data section ends the loop that
  skips it, so that the rest of the section is read as text.
- `LabelsLead`: a label behind an instruction on the same line is behind it in the
  code, which lines cannot tell.
- `DataAligned`: the size of a value is a multiple of its alignment, as every
  directive has it, and so is `DataStart`, which the user configures.
- `DataFits`: from address 0 to the end of the data is less than auipc reaches (2 GiB).

The argument:

- `Placement` is defined by recursion over the data buffer; `PlacementIs` shows that
  the recursion has a solution, for every buffer, so `DataAbove` places all data from `DataStart`
  on and `ImageWords` finds every unit encoded at its address.
- `LineMapOfSource`: the code has no more units than the instructions read so far
  are words, each has the line of one of these, and the lines do not decrease (`LineInv`). For any
  such code `LineMapIs` shows that the ranges that assemble() cuts between
  neighbouring instructions are disjoint, leave no line out, and that the largest
  index of an instruction that has a line is the number of instructions before it.
- `LabelsOfSource`: what a symbol says is true when it is entered and must stay true while the
  code grows and other labels come. `SymbolsFrom` says of a text label that
  exactly the units of the lines before it are the ones its address counts, `Origins` of a
  branch or jump that a text item of its line asked for it, `Offsets` (from
  `Assembler_proofs`) that one with its offset has that of its label. The theorem is about
  branches and jumps to the text; for a `jal` to a data label it says what
  `LabelsResolve` says, the even offset at or below the label's. `Sections` ties the loop a pass is in to the
  section of the source; without it nothing would say that what the second pass
  reads is text.
- `DataOfSource`: `Counted` says that the index the parser counts up is the end of the buffer it
  has filled, as `Placement` will lay it out, once its alignments are undone: right behind a label
  the index is ahead of the buffer by the alignment of the directive to come, and behind a
  labelled directive without values, which leaves it ahead for good, nothing is
  claimed (`Firm`). `Addressed` says of a label's address that the values behind it are a
  run of the buffer which starts there; a label counts from its last definition on (`Latest`).
  `AlignTwice` is why the two counts agree, `RunPlaced` why a run's values follow each other without
  gaps, `PlacedApart` why the byte that `DataBytes` finds at an address is the one placed there.
- `TextOfSource`: `Transcribed` gives each word of the text read so far its place in the code,
  the number of words before it, and says that the code has no more; a `la` has two words, so a
  place is a cardinality (`TextGrows`, `TextIndex`). It needs that what the second pass skips
  is no text (`Passed`): the loop that skips data stops at the next `text` only, which is right
  since no section but that one is text.
- `AddressesOfSource`: `Loads` says that each auipc of the code and the unit behind it are
  the two parts of the distance to the address that its label has, also after all
  symbols are known: the labels of data are complete before the first `la` is read, and the
  back-patching touches only units without an offset (`Due`). `Bounded` keeps every data
  address within the room of the items read (`Rooms`), from which `DataFits` gives that the upper part does
  not turn negative; `PartsOfDistance` is the arithmetic, where the half page that is added before
  the division makes up for the sign of addi's part. That the sum is where the
  values lie is `DataOfSource`.

`Datapath_proofs`, from `DatapathAssumption` (instructions that the parser
accepts, numbers of the machine in registers and memory) and `WidthAssumption`:
`TypeCorrect`, `ImmediatesSurvive` and `Rv64Implemented`. The argument, from the
bottom:

- The immediates (`ImmIExact` and its like, from nothing): for each format `ImmGenerator`
  undoes the encoder. The splitting of a number into bit fields is arithmetic by
  constants; `TwelveBits` is the part that the I and S formats share.
- Powers and sums are defined by recursion; `PowerIs` and `SumSolved` show, by
  well-founded induction on the naturals, that the recursions have a solution, and
  `PowerAdd`, `PowerGrows` that these are powers.
- `AluAgrees`: for every pair of operands the ALU's operation has the value that
  the architecture gives. What needs an argument: the upper half of an unsigned product from
  halves of a factor (`HighProductIs`), the unsigned high products from the
  signed ones, `|` and `^` as `a + b` less the common bits (`OrXorAgree`, a sum over the
  bits), and division towards zero. `AluTyped` and `RemTraps` say which
  operations can trap.
- `RWords`, `IWords`, `LoadWords` and their like: what `Decode`, `GetAluSignal` and
  `ImmGenerator` read in the word of each kind of instruction; `Kinds` says
  that there are no others.
- `DInv` is the inductive invariant. The stages hand on `execution_result_`,
  `memory_result_`, `next_pc_` and the signals, which outlive their instruction, and
  neither `TypeOK` nor the refinement is inductive without knowing what they hold. `DInv` says for
  each stage that what it finds is a function of the instruction being executed and of
  registers, memory and pc at its Fetch (`Located`, `Decoded`, `Counted`, `Executed`,
  `Accessed`), so that nothing of an older instruction can get through. It claims nothing of
  `branch_flag_`, which no stage reads before writing it. TLC checked `DInv` on the programs of the run
  `datapath` before it was proved.
- The refinement mapping shows the architecture the state of the last Fetch until WriteBack has
  retired the instruction. Every stage but the last is then a stutter (`Unseen`) or ends the
  process (`CrashIsTrap`, `WriteMemoryRefines`, `DecodeRefines`); WriteBack is the
  architecture's step, by kind of instruction (`ArithmeticStep` to `StoreStep`).

Only model-checked: everything temporal with fairness (`StallEnds`,
`ThreadReturns`, `MainReturns`, `AssemblyEnds`), which needs ENABLED. Every other
property of a passing run is the statement of a theorem.

## 5. Not modelled

- Floating point, throughout: encoding, operations, registers, rounding. TLC
  has no such arithmetic.
- Loads, branches and printing system calls in `RvssVm`: they write a register or
  nothing and go through the same record as `addi`. What they compute is in
  `Datapath`. The CSR instructions are in `RvssVm` only.
- `cycle_s_`, `output_status_`, dumps and messages.
- Tokens and operand syntax; the pseudo-instructions beyond `la` (`li` among them, which
  loads a negative number for values from 2^31 - 2^11 up, `pseudo_formats.cpp:130`).
- In `Datapath`, stores into the program's own text (`Fetch` reads the program, not memory),
  misaligned jumps into the middle of an instruction, and shift
  amounts of 32 and more, which the assembler does not accept.
- Two accesses of different alignment to the same doubleword: the coprocessor
  uses aligned addresses in the programs modelled.
- The four multiplier variants that `executeBigmul` does not call.
- The empty multi-stage VM and cache, the Verilog files, file output.
- Generated documentation. All `.js` files of the repository, 148 of them, lie
  under `docs/html`: they are Doxygen's search index, menu and page scripts, written
  by a third party or generated from the comments of the C++ sources, and no part
  of the simulator. The program is C++; the map of this project names C++ lines
  only, so a count over the `.js` files alone finds none.

## 6. Plan

Done, in order: coprocessor, machine, threads; memory; assembler and loader;
encoding, ALU and datapath. Each stands alone but for `RvssVm`, which contains
`BigmulUnit`, and `Datapath`, which contains `Encoding` and `Alu`.

Left, in order:

1. The other multiplier variants, each implementing `BigMultiply`.
2. `RvssVm` over the memory of `Memory` in place of one cell per doubleword, with
   accesses of several widths in the delta.
3. CSR instructions and system calls in `Datapath`.
