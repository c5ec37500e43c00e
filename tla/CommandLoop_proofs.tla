--------------------------- MODULE CommandLoop_proofs -------------------------
(***************************************************************************)
(* The safety of the two threads for every instruction limit, any number   *)
(* of queued lines, every kind of program and either build.                *)
(***************************************************************************)
EXTENDS CommandLoop, TLAPS

(* The limit is tested before every instruction of Run and DebugRun, so an  *)
(* instruction starts with at most Limit before it.                         *)
BodyWithinLimit ==
  thread \in {"body", "asleep", "woken"} /\ kind # "step" => executed <= Limit

IInv ==
  /\ TypeOK
  /\ FlagTracksThread
  /\ HistoryAlone
  /\ LaunchSafe
  /\ NoLostWakeup
  /\ BodyWithinLimit

(* The initial state satisfies the invariant. *)
LEMMA InitIInv == Init => IInv
<1> SUFFICES ASSUME Init PROVE IInv
  OBVIOUS
<1>1. TypeOK /\ BodyWithinLimit
  <2>1. stop_requested \in BOOLEAN /\ vm_running \in BOOLEAN
    BY Zenon DEF Init
  <2>2. /\ main = "read" /\ task = "run" /\ thread = "none" /\ kind = "run"
        /\ executed = 0 /\ input = 0
    BY DEF Init
  <2>3. QED
    BY <2>1, <2>2, LoopAssumption DEF TypeOK, BodyWithinLimit, Active, Task
<1>2. FlagTracksThread
  <2>1. thread \notin Active /\ main # "spawn"
    BY DEF Init, Active
  <2>2. ~vm_running
    BY Zenon DEF Init
  <2>3. QED
    BY <2>1, <2>2, Zenon DEF FlagTracksThread
<1>3. HistoryAlone /\ LaunchSafe /\ NoLostWakeup
  BY DEF Init, HistoryAlone, LaunchSafe, NoLostWakeup
<1>4. QED
  BY <1>1, <1>2, <1>3 DEF IInv

(* The steps of the VM thread preserve the invariant. *)
LEMMA ThreadIInv == IInv /\ ThreadStep => IInv'
<1> SUFFICES ASSUME IInv, ThreadStep PROVE IInv'
  OBVIOUS
<1> USE LoopAssumption DEF IInv, TypeOK, FlagTracksThread, HistoryAlone, LaunchSafe,
        NoLostWakeup, BodyWithinLimit, Active, Task
<1>1. CASE Begin
  <2>1. CASE kind = "step"
    BY <1>1, <2>1 DEF Begin
  <2>2. CASE kind # "step"
    <3>1. /\ thread = "start" /\ thread' = "test"
          /\ executed' = 0
          /\ UNCHANGED <<main, task, kind, vm_running, input>>
      BY <1>1, <2>2 DEF Begin
    <3>2. stop_requested' \in BOOLEAN
      BY <1>1, <2>2, Zenon DEF Begin
    <3>3. QED
      BY <3>1, <3>2
  <2>3. QED
    BY <2>1, <2>2
<1>2. CASE BeginDangling
  BY <1>2 DEF BeginDangling
<1>3. CASE Test
  BY <1>3 DEF Test
<1>4. CASE Instruction
  BY <1>4 DEF Instruction, Read, Complete
<1>5. CASE Wake
  BY <1>5 DEF Wake, Read, Complete
<1>6. CASE End
  BY <1>6 DEF End
<1>7. QED
  BY <1>1, <1>2, <1>3, <1>4, <1>5, <1>6 DEF ThreadStep

(* The steps of the main thread preserve the invariant. *)
LEMMA MainIInv == IInv /\ (MainStep \/ Command) => IInv'
<1> SUFFICES ASSUME IInv, MainStep \/ Command PROVE IInv'
  OBVIOUS
<1> USE LoopAssumption DEF IInv, TypeOK, FlagTracksThread, HistoryAlone, LaunchSafe,
        NoLostWakeup, BodyWithinLimit, Active, Task
<1>1. CASE Join
  BY <1>1 DEF Join
<1>2. CASE Mark
  BY <1>2 DEF Mark
<1>3. CASE Spawn
  BY <1>3 DEF Spawn
<1>4. CASE Return
  BY <1>4 DEF Return
<1>5. CASE ExitJoin
  BY <1>5 DEF ExitJoin
<1>6. ASSUME NEW k \in Task, Launch(k) PROVE IInv'
  BY <1>6 DEF Launch
<1>7. CASE Stop
  BY <1>7 DEF Stop
<1>8. CASE History
  BY <1>8 DEF History
<1>9. CASE Mutate
  BY <1>9 DEF Mutate
<1>10. CASE PushInput
  BY <1>10 DEF PushInput
<1>11. CASE Exit
  BY <1>11 DEF Exit
<1>12. QED
  BY <1>1, <1>2, <1>3, <1>4, <1>5, <1>6, <1>7, <1>8, <1>9, <1>10, <1>11
     DEF MainStep, Command

(* Every step preserves the invariant. *)
LEMMA StepIInv == IInv /\ [Next]_vars => IInv'
<1> SUFFICES ASSUME IInv, [Next]_vars PROVE IInv'
  OBVIOUS
<1>1. CASE ThreadStep
  BY <1>1, ThreadIInv
<1>2. CASE MainStep \/ Command
  BY <1>2, MainIInv
<1>3. CASE SpuriousWakeup
  BY <1>3 DEF SpuriousWakeup, IInv, TypeOK, FlagTracksThread, HistoryAlone, LaunchSafe,
     NoLostWakeup, BodyWithinLimit, Active, Task
<1>4. CASE UNCHANGED vars
  BY <1>4 DEF vars, IInv, TypeOK, FlagTracksThread, HistoryAlone, LaunchSafe,
     NoLostWakeup, BodyWithinLimit, Active, Task
<1>5. QED
  BY <1>1, <1>2, <1>3, <1>4 DEF Next

(* The inductive invariant holds of every behaviour. *)
LEMMA Inductive == Spec => []IInv
  BY InitIInv, StepIInv, PTL DEF Spec

(* Undo and Redo are never executed while the VM thread executes, for any    *)
(* program and any interleaving of commands: the test of vm_running in       *)
(* main.cpp is enough because the flag follows the thread exactly.           *)
THEOREM UndoExclusive == Spec => []HistoryAlone
<1>1. IInv => HistoryAlone
  BY DEF IInv
<1>2. QED
  BY <1>1, Inductive, PTL

(* The flag follows the thread: step and undo are refused exactly while a    *)
(* launched function is on its way.                                          *)
THEOREM FlagExact == Spec => []FlagTracksThread
<1>1. IInv => FlagTracksThread
  BY DEF IInv
<1>2. QED
  BY <1>1, Inductive, PTL

(* Assigning the new thread never terminates the process: the join before    *)
(* it has always happened, whichever commands and ends race.                 *)
THEOREM NeverReplacesThread == Spec => []LaunchSafe
<1>1. IInv => LaunchSafe
  BY DEF IInv
<1>2. QED
  BY <1>1, Inductive, PTL

(* A line sent with vm_stdin is never slept over by SYSCALL_READ.            *)
THEOREM InputWakes == Spec => []NoLostWakeup
<1>1. IInv => NoLostWakeup
  BY DEF IInv
<1>2. QED
  BY <1>1, Inductive, PTL

(* Types hold, in them the bound Limit + 1 on the instructions of one run.   *)
THEOREM LoopTyped == Spec => []TypeOK
<1>1. IInv => TypeOK
  BY DEF IInv
<1>2. QED
  BY <1>1, Inductive, PTL
===============================================================================
