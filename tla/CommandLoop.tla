------------------------------ MODULE CommandLoop -----------------------------
(***************************************************************************)
(* The two threads of the simulator: the main thread, which reads commands *)
(* (src/main.cpp), and the VM thread it launches for run, run_debug and    *)
(* step.  They share stop_requested_, vm_running, the input queue with its *)
(* condition variable, and the machine itself.                             *)
(*                                                                         *)
(* The machine is reduced to the kinds of instructions the program has:    *)
(* each instruction executed is any of Kinds.  RvssVm models it in full.   *)
(***************************************************************************)
EXTENDS Naturals

CONSTANTS
  Kinds,      \* "plain", "read" (SYSCALL_READ), "exit" (SYSCALL_EXIT), "throw"
              \* (an uncaught exception), "last" (the pc leaves the program),
              \* "break" (a breakpoint, which only DebugRun heeds)
  Limit,      \* instruction_execution_limit
  MaxInput,   \* bound: lines of standard input queued at a time
  Clobbers    \* does the build reuse the frame of a returned launch_vm_thread?

ASSUME LoopAssumption ==
  /\ Kinds \subseteq {"plain", "read", "exit", "throw", "last", "break"}
  /\ Limit \in Nat /\ MaxInput \in Nat
  /\ Clobbers \in BOOLEAN

VARIABLES
  main,            \* where the main thread is; "exited" and "crashed" end the process
  task,            \* the function being launched: "run", "debug" or "step"
  thread,          \* "none": vm_thread is not joinable; else where the VM thread is
  kind,            \* the function it executes
  executed,        \* instruction_executed
  stop_requested,
  vm_running,
  input            \* length of input_queue_

vars == <<main, task, thread, kind, executed, stop_requested, vm_running, input>>

Task == {"run", "debug", "step"}

Alive == main \notin {"exited", "crashed"}

(***************************************************************************)
(* The VM thread.                                                          *)
(***************************************************************************)
(* Run and DebugRun begin with ClearStop(); Step has neither stop nor limit.*)
Begin ==
  /\ thread = "start"
  /\ IF kind = "step"
     THEN thread' = "body" /\ UNCHANGED <<executed, stop_requested>>
     ELSE thread' = "test" /\ executed' = 0 /\ stop_requested' = FALSE
  /\ UNCHANGED <<main, task, kind, vm_running, input>>

(* The thread's lambda holds launch_vm_thread's parameter fn by reference:  *)
(* when the launcher has returned, calling it is undefined.                 *)
BeginDangling ==
  /\ Clobbers
  /\ thread = "start" /\ main # "spawned"
  /\ main' = "crashed"
  /\ UNCHANGED <<task, thread, kind, executed, stop_requested, vm_running, input>>

TestOneMore ==
  /\ thread = "test"
  /\ thread' = IF stop_requested \/ executed > Limit + 1 THEN "ending" ELSE "body"
  /\ UNCHANGED <<main, task, kind, executed, stop_requested, vm_running, input>>

(* The head of the loops in Run and DebugRun. *)
Test ==
  /\ thread = "test"
  /\ thread' = IF stop_requested \/ executed > Limit THEN "ending" ELSE "body"
  /\ UNCHANGED <<main, task, kind, executed, stop_requested, vm_running, input>>

CompleteUncounted ==
  /\ UNCHANGED executed
  /\ thread' = IF kind = "step" THEN "ending" ELSE "test"

Complete ==
  /\ executed' = IF kind = "step" THEN executed ELSE executed + 1
  /\ thread' = IF kind = "step" THEN "ending" ELSE "test"

(* SYSCALL_READ takes a line or, with the mutex held, goes to sleep. *)
Read ==
  \/ /\ input > 0
     /\ input' = input - 1
     /\ Complete
  \/ /\ input = 0
     /\ thread' = "asleep"
     /\ UNCHANGED <<executed, input>>

Instruction ==
  /\ thread = "body"
  /\ \/ "plain" \in Kinds /\ Complete /\ UNCHANGED <<main, input>>
     \/ "read" \in Kinds /\ Read /\ UNCHANGED main
     \/ /\ "last" \in Kinds \/ ("break" \in Kinds /\ kind = "debug")
        /\ thread' = "ending"
        /\ UNCHANGED <<main, executed, input>>
     \/ "exit" \in Kinds /\ main' = "exited" /\ UNCHANGED <<thread, executed, input>>
     \/ "throw" \in Kinds /\ main' = "crashed" /\ UNCHANGED <<thread, executed, input>>
  /\ UNCHANGED <<task, kind, stop_requested, vm_running>>

(* Back from input_cv_.wait's sleep: the predicate is tested again. *)
Wake ==
  /\ thread = "woken"
  /\ Read
  /\ UNCHANGED <<main, task, kind, stop_requested, vm_running>>

SpuriousWakeup ==
  /\ thread = "asleep"
  /\ thread' = "woken"
  /\ UNCHANGED <<main, task, kind, executed, stop_requested, vm_running, input>>

EndKeepsFlag ==
  /\ thread = "ending"
  /\ thread' = "finished"
  /\ UNCHANGED <<main, task, kind, executed, stop_requested, vm_running, input>>

End ==
  /\ thread = "ending"
  /\ vm_running' = FALSE
  /\ thread' = "finished"
  /\ UNCHANGED <<main, task, kind, executed, stop_requested, input>>

(***************************************************************************)
(* The main thread: one command after the other.                           *)
(***************************************************************************)
LaunchUnjoined(k) ==
  /\ main = "read"
  /\ k = "step" => ~vm_running
  /\ task' = k
  /\ stop_requested' = (thread # "none" \/ stop_requested)
  /\ main' = "mark"
  /\ UNCHANGED <<thread, kind, executed, vm_running, input>>

(* launch_vm_thread; step is dropped while vm_running. *)
Launch(k) ==
  /\ main = "read"
  /\ k = "step" => ~vm_running
  /\ task' = k
  /\ \/ thread = "none" /\ main' = "mark" /\ UNCHANGED stop_requested
     \/ thread # "none" /\ main' = "join" /\ stop_requested' = TRUE
  /\ UNCHANGED <<thread, kind, executed, vm_running, input>>

Join ==
  /\ main = "join" /\ thread = "finished"
  /\ thread' = "none"
  /\ main' = "mark"
  /\ UNCHANGED <<task, kind, executed, stop_requested, vm_running, input>>

Mark ==
  /\ main = "mark"
  /\ vm_running' = TRUE
  /\ main' = "spawn"
  /\ UNCHANGED <<task, thread, kind, executed, stop_requested, input>>

(* Assigning to a joinable std::thread terminates the process. *)
Spawn ==
  /\ main = "spawn"
  /\ \/ thread = "none" /\ thread' = "start" /\ kind' = task /\ main' = "spawned"
     \/ thread # "none" /\ main' = "crashed" /\ UNCHANGED <<thread, kind>>
  /\ UNCHANGED <<task, executed, stop_requested, vm_running, input>>

(* launch_vm_thread, undo or redo, or an unguarded command returns. *)
Return ==
  /\ main \in {"spawned", "history", "mutate"}
  /\ main' = "read"
  /\ UNCHANGED <<task, thread, kind, executed, stop_requested, vm_running, input>>

Stop ==
  /\ main = "read"
  /\ stop_requested' = TRUE
  /\ UNCHANGED <<main, task, thread, kind, executed, vm_running, input>>

HistoryUnguarded ==
  /\ main = "read"
  /\ main' = "history"
  /\ UNCHANGED <<task, thread, kind, executed, stop_requested, vm_running, input>>

(* Undo and Redo; both are dropped while vm_running. *)
History ==
  /\ main = "read" /\ ~vm_running
  /\ main' = "history"
  /\ UNCHANGED <<task, thread, kind, executed, stop_requested, vm_running, input>>

(* load, reset, breakpoints, modify_register, modify_memory: no guard. *)
Mutate ==
  /\ main = "read"
  /\ main' = "mutate"
  /\ UNCHANGED <<task, thread, kind, executed, stop_requested, vm_running, input>>

PushInputSilently ==
  /\ main = "read" /\ input < MaxInput
  /\ input' = input + 1
  /\ UNCHANGED <<main, task, thread, kind, executed, stop_requested, vm_running>>

(* vm_stdin: push and notify_one under the mutex. *)
PushInput ==
  /\ main = "read" /\ input < MaxInput
  /\ input' = input + 1
  /\ thread' = IF thread = "asleep" THEN "woken" ELSE thread
  /\ UNCHANGED <<main, task, kind, executed, stop_requested, vm_running>>

Exit ==
  /\ main = "read"
  /\ stop_requested' = TRUE
  /\ main' = IF thread = "none" THEN "exited" ELSE "exiting"
  /\ UNCHANGED <<task, thread, kind, executed, vm_running, input>>

ExitJoin ==
  /\ main = "exiting" /\ thread = "finished"
  /\ thread' = "none"
  /\ main' = "exited"
  /\ UNCHANGED <<task, kind, executed, stop_requested, vm_running, input>>

Init ==
  /\ main = "read" /\ task = "run"
  /\ thread = "none" /\ kind = "run" /\ executed = 0
  /\ stop_requested = FALSE /\ vm_running = FALSE
  /\ input = 0

ThreadStep == Alive /\ (Begin \/ BeginDangling \/ Test \/ Instruction \/ Wake \/ End)

MainStep == Join \/ Mark \/ Spawn \/ Return \/ ExitJoin

Command ==
  \/ \E k \in Task : Launch(k)
  \/ Stop \/ History \/ Mutate \/ PushInput \/ Exit

Next == ThreadStep \/ MainStep \/ Command \/ (Alive /\ SpuriousWakeup)

(* Both threads are scheduled; the user need not type anything, and the     *)
(* operating system need not wake a sleeper without a reason.               *)
Spec == Init /\ [][Next]_vars /\ WF_vars(ThreadStep) /\ WF_vars(MainStep)
-------------------------------------------------------------------------------
Active == {"start", "test", "body", "asleep", "woken", "ending"}

(* Every variable has its type. *)
TypeOK ==
  /\ main \in {"read", "join", "mark", "spawn", "spawned", "history", "mutate",
               "exiting", "exited", "crashed"}
  /\ task \in Task /\ kind \in Task
  /\ thread \in Active \cup {"none", "finished"}
  /\ executed \in 0 .. Limit + 1
  /\ stop_requested \in BOOLEAN /\ vm_running \in BOOLEAN
  /\ input \in 0 .. MaxInput

(* vm_running, a plain bool that both threads write, is true exactly while  *)
(* a launched function has not finished: no late write of an old thread     *)
(* clears it, and no early end leaves it set and step and undo refused.     *)
FlagTracksThread ==
  vm_running <=> thread \in Active \/ (thread = "none" /\ main = "spawn")

(* Undo and Redo, which take no lock, never touch the machine while the VM  *)
(* thread executes instructions.                                            *)
HistoryAlone == main = "history" => thread \notin Active

(* launch_vm_thread never assigns to a thread that is still joinable. *)
LaunchSafe == main \in {"mark", "spawn"} => thread = "none"

(* The VM thread never sleeps in SYSCALL_READ while a line is queued. *)
NoLostWakeup == thread = "asleep" => input = 0

(* Unless the VM thread waits for input, every command comes back to the     *)
(* prompt or ends the process, even when the VM thread's ClearStop wipes out *)
(* the RequestStop that the join relies on: the limit ends that run.         *)
MainReturns ==
  main # "read" ~> main \in {"read", "exited", "crashed"} \/ thread = "asleep"

(* main.cpp on the join at exit: "ensure clean exit". *)
ExitEnds == main = "exiting" ~> main = "exited"
===============================================================================
