----------------------------- MODULE RvssVm_proofs ----------------------------
(***************************************************************************)
(* The machine's types, for every program whose operands fit the memory    *)
(* and the caches; its unsigned counter instructions_retired_, which Undo  *)
(* decrements without a check; and its history of recorded changes: for    *)
(* every program, every limit and every sequence of commands the module    *)
(* allows, with the hypotheses each theorem states.                        *)
(***************************************************************************)
EXTENDS RvssVm, SequenceTheorems, WellFoundedInduction, NaturalsInduction, TLAPS

IsSeq(s) == \E S : s \in Seq(S)

(* Appending an entry, as undo_stack_.push() does, lengthens by one. *)
LEMMA SeqAppend ==
  ASSUME NEW s, IsSeq(s), NEW e
  PROVE  IsSeq(Append(s, e)) /\ Len(Append(s, e)) = Len(s) + 1 /\ Len(s) \in Nat
<1>1. PICK S : s \in Seq(S)
  BY DEF IsSeq
<1>2. s \in Seq(S \cup {e}) /\ e \in S \cup {e}
  BY <1>1, SeqDef
<1>3. QED
  BY <1>2, AppendProperties, LenProperties DEF IsSeq

(* A prefix of a sequence is one, of that length. *)
LEMMA Prefix ==
  ASSUME NEW S, NEW s, NEW n \in Nat, \A i \in 1 .. n : s[i] \in S
  PROVE  SubSeq(s, 1, n) \in Seq(S) /\ Len(SubSeq(s, 1, n)) = n
<1>1. SubSeq(s, 1, n) = [i \in 1 .. n |-> s[i]]
  BY SMT
<1>2. [i \in 1 .. n |-> s[i]] \in Seq(S)
  BY SeqDef
<1>3. Len([i \in 1 .. n |-> s[i]]) = n
  BY <1>2, LenProperties
<1>4. QED
  BY <1>1, <1>2, <1>3, Zenon

(* Dropping the last entry, as undo_stack_.pop() does, shortens by one. *)
LEMMA SeqFront ==
  ASSUME NEW s, IsSeq(s), s # <<>>
  PROVE  IsSeq(Front(s)) /\ Len(Front(s)) = Len(s) - 1 /\ Len(s) \in Nat \ {0}
<1>1. PICK S : s \in Seq(S)
  BY DEF IsSeq
<1>2. Len(s) \in Nat \ {0}
  BY <1>1, EmptySeq, LenProperties
<1>3. Len(s) - 1 \in Nat /\ \A i \in 1 .. Len(s) - 1 : s[i] \in S
  BY <1>1, <1>2, LenProperties
<1>4. Front(s) \in Seq(S) /\ Len(Front(s)) = Len(s) - 1
  BY <1>3, Prefix, Zenon DEF Front
<1>5. QED
  BY <1>2, <1>4, Zenon DEF IsSeq

(* An instruction is only being finished by the loops that finish them; the  *)
(* rest is the property.                                                     *)
RInv ==
  /\ retired \in Int
  /\ IsSeq(undo)
  /\ phase \in {"head", "finish"}
  /\ phase = "finish" => mode \in {"debug", "step"}
  /\ RetiredCoversUndo

(* The initial state satisfies the invariant. *)
LEMMA InitRInv == Init => RInv
<1> SUFFICES ASSUME Init PROVE RInv
  OBVIOUS
<1>1. undo = <<>> /\ phase = "head" /\ retired = 0
  BY DEF Init
<1>2. <<>> \in Seq({}) /\ Len(<<>>) = 0
  BY EmptySeq
<1>3. QED
  BY <1>1, <1>2 DEF RInv, RetiredCoversUndo, Undoable, IsSeq

(* What the actions that leave counter, stack and phase alone preserve. *)
LEMMA Quiet ==
  ASSUME RInv, UNCHANGED <<retired, undo, phase>>,
         phase = "finish" => mode' \in {"debug", "step"}
  PROVE  RInv'
  BY DEF RInv, RetiredCoversUndo, Undoable, IsSeq

(* The steps of the VM thread preserve the invariant. *)
LEMMA ThreadRInv == RInv /\ Thread => RInv'
<1> SUFFICES ASSUME RInv, Thread PROVE RInv'
  OBVIOUS
<1>1. CASE RunReturn \/ RunStall \/ DebugReturn \/ DebugBreak \/ FinishCycle
  BY <1>1, Quiet DEF RInv, RunReturn, RunStall, DebugReturn, DebugBreak, FinishCycle, Return,
     control, history
<1>2. CASE RunInstruction
  <2>1. retired' = retired + 1 /\ UNCHANGED <<undo, phase, mode>> /\ phase = "head"
    BY <1>2 DEF RunInstruction, ExecuteInstruction, RInv
  <2>2. QED
    BY <2>1, SeqAppend DEF RInv, RetiredCoversUndo, Undoable, IsSeq
<1>3. CASE DebugInstruction
  <2>1. /\ retired' = retired + 1 /\ UNCHANGED <<undo, mode>>
        /\ phase = "head" /\ phase' = "finish" /\ mode = "debug"
    BY <1>3 DEF DebugInstruction, ExecuteInstruction
  <2>2. QED
    BY <2>1, SeqAppend DEF RInv, RetiredCoversUndo, Undoable, IsSeq
<1>4. CASE Commit
  <2>1. /\ undo' = Append(undo, [delta EXCEPT !.new_pc = pc])
        /\ phase = "finish" /\ phase' = "head" /\ UNCHANGED retired
    BY <1>4 DEF Commit
  <2>2. IsSeq(undo') /\ Len(undo') = Len(undo) + 1 /\ Len(undo) \in Nat
    BY <2>1, SeqAppend DEF RInv
  <2>3. QED
    BY <2>1, <2>2 DEF RInv, RetiredCoversUndo, Undoable
<1>5. QED
  BY <1>1, <1>2, <1>3, <1>4 DEF Thread

(* Step, Undo, Redo and Reset preserve the invariant. *)
LEMMA HistoryRInv == RInv /\ (Step \/ Undo \/ Redo \/ Reset) => RInv'
<1> SUFFICES ASSUME RInv, Step \/ Undo \/ Redo \/ Reset PROVE RInv'
  OBVIOUS
<1>1. CASE Step
  <2>1. CASE pc < program_size /\ retired' # retired
    <3>1. /\ retired' = retired + 1 /\ UNCHANGED undo
          /\ mode = "idle" /\ mode' = "step" /\ phase' = "finish"
      BY <1>1, <2>1 DEF Step, ExecuteInstruction
    <3>2. phase = "head"
      BY <3>1 DEF RInv
    <3>3. QED
      BY <3>1, <3>2, SeqAppend DEF RInv, RetiredCoversUndo, Undoable, IsSeq
  <2>2. CASE retired' = retired
    <3>1. UNCHANGED <<retired, undo, phase, mode>>
      BY <1>1, <2>2 DEF Step, ExecuteInstruction, control, RInv
    <3>2. QED
      BY <3>1, Quiet DEF RInv
  <2>3. QED
    BY <1>1, <2>1, <2>2 DEF Step
<1>2. CASE Undo
  <2>1. /\ undo # <<>> /\ undo' = Front(undo) /\ retired' = retired - 1
        /\ mode = "idle" /\ UNCHANGED <<phase, mode>>
    BY <1>2 DEF Undo, control
  <2>2. IsSeq(undo') /\ Len(undo') = Len(undo) - 1 /\ Len(undo) \in Nat
    BY <2>1, SeqFront DEF RInv
  <2>3. QED
    BY <2>1, <2>2 DEF RInv, RetiredCoversUndo, Undoable
<1>3. CASE Redo
  <2>1. /\ undo' = Append(undo, Last(redo)) /\ retired' = retired + 1
        /\ mode = "idle" /\ UNCHANGED <<phase, mode>>
    BY <1>3 DEF Redo, control
  <2>2. IsSeq(undo') /\ Len(undo') = Len(undo) + 1 /\ Len(undo) \in Nat
    BY <2>1, SeqAppend DEF RInv
  <2>3. QED
    BY <2>1, <2>2 DEF RInv, RetiredCoversUndo, Undoable
<1>4. CASE Reset
  <2>1. /\ undo' = <<>> /\ retired' = 0 /\ UNCHANGED <<phase, mode>>
        /\ Patient => mode = "idle"
    BY <1>4 DEF Reset, control
  <2>2. Patient => phase' = "head"
    BY <2>1 DEF RInv
  <2>3. <<>> \in Seq({}) /\ Len(<<>>) = 0
    BY EmptySeq
  <2>4. QED
    BY <2>1, <2>2, <2>3 DEF RInv, RetiredCoversUndo, Undoable, IsSeq
<1>5. QED
  BY <1>1, <1>2, <1>3, <1>4

(* Every step preserves the invariant. *)
LEMMA StepRInv == RInv /\ [Next]_vars => RInv'
<1> SUFFICES ASSUME RInv, [Next]_vars PROVE RInv'
  OBVIOUS
<1>1. CASE Thread
  BY <1>1, ThreadRInv
<1>2. CASE Step \/ Undo \/ Redo \/ Reset
  BY <1>2, HistoryRInv
<1>3. CASE StartRun \/ StartDebugRun
  <2>1. UNCHANGED <<retired, undo>> /\ mode = "idle" /\ phase' = "head"
    BY <1>3 DEF StartRun, StartDebugRun, Launch, history
  <2>2. phase = "head"
    BY <2>1 DEF RInv
  <2>3. QED
    BY <2>1, <2>2, Quiet
<1>4. CASE RequestStop
  BY <1>4, Quiet DEF RequestStop, history, RInv
<1>5. ASSUME NEW p \in Programs, LoadProgram(p) PROVE RInv'
  BY <1>5, Quiet DEF LoadProgram, history, RInv
<1>6. ASSUME NEW b, AddBreakpoint(b) \/ RemoveBreakpoint(b) PROVE RInv'
  BY <1>6, Quiet DEF AddBreakpoint, RemoveBreakpoint, history, RInv
<1>7. CASE UNCHANGED vars
  BY <1>7, Quiet DEF vars, control, history, RInv
<1>8. QED
  BY <1>1, <1>2, <1>3, <1>4, <1>5, <1>6, <1>7 DEF Next

(* What instructions_retired_ keeps of the undo stack, for a patient user   *)
(* and for one who resets a running machine.                                *)
THEOREM RetiredCovers == Spec => []RetiredCoversUndo
<1>1. RInv => RetiredCoversUndo
  BY DEF RInv
<1>2. QED
  BY <1>1, InitRInv, StepRInv, PTL DEF Spec

(* Undo decrements the unsigned counter unchecked.  If every reset is given *)
(* to an idle machine, the counter never wraps; no other command can make it. *)
THEOREM RetiredNeverWraps ==
  ASSUME Patient
  PROVE  Spec => [](RetiredCoversUndo /\ retired \in Nat)
<1>1. RInv => RetiredCoversUndo /\ retired \in Nat
  <2> SUFFICES ASSUME RInv PROVE RetiredCoversUndo /\ retired \in Nat
    OBVIOUS
  <2>1. Len(undo) \in Nat
    BY LenProperties DEF RInv, IsSeq
  <2> QED
    BY <2>1 DEF RInv, RetiredCoversUndo, Undoable
<1>2. QED
  BY <1>1, InitRInv, StepRInv, PTL DEF Spec

(* If resets may fall anywhere, the counter wraps by one at most. *)
THEOREM RetiredWrapsByOne == Spec => [](retired + 1 \in Nat)
<1>1. RInv => retired + 1 \in Nat
  <2> SUFFICES ASSUME RInv PROVE retired + 1 \in Nat
    OBVIOUS
  <2>1. Len(undo) \in Nat
    BY LenProperties DEF RInv, IsSeq
  <2> QED
    BY <2>1 DEF RInv, RetiredCoversUndo, Undoable
<1>2. QED
  BY <1>1, InitRInv, StepRInv, PTL DEF Spec
-------------------------------------------------------------------------------
(* A set of numbers that has 0 and the successor of each of its members has *)
(* them all.                                                                *)
LEMMA NatSet ==
  ASSUME NEW S \in SUBSET Nat, 0 \in S, \A n \in S : n + 1 \in S
  PROVE  S = Nat
<1> DEFINE Less == OpToRel(<, Nat)
           T    == Nat \ S
<1>1. SUFFICES ASSUME T # {} PROVE FALSE
  OBVIOUS
<1>2. IsWellFoundedOn(Less, Nat)
  BY NatLessThanWellFounded
<1>3. PICK x \in T : \A y \in T : <<y, x>> \notin Less
  <2> HIDE DEF Less, T
  <2>1. T \subseteq Nat /\ T # {}
    BY <1>1 DEF T
  <2> QED
    BY <1>2, <2>1, WFMin, Zenon
<1>4. x - 1 \in Nat /\ x - 1 \notin S
  <2>1. x \in Nat /\ x \notin S
    BY <1>3
  <2>2. x # 0
    BY <2>1
  <2>3. x - 1 \in Nat /\ (x - 1) + 1 = x
    BY <2>1, <2>2
  <2> QED
    BY <2>1, <2>3
<1>5. <<x - 1, x>> \in Less
  BY <1>3, <1>4 DEF OpToRel
<1> QED
  BY <1>3, <1>4, <1>5

(* The greatest of some numbers up to k + 1 is k + 1 if it is among them. *)
LEMMA MaxTop ==
  ASSUME NEW k \in Nat, NEW T \in SUBSET (1 .. k + 1), k + 1 \in T
  PROVE  Max(T) = k + 1
<1>1. \A y \in T : k + 1 >= y
  OBVIOUS
<1>2. \A x \in T : (\A y \in T : x >= y) => x = k + 1
  BY <1>1
<1>3. Max(T) \in T /\ \A y \in T : Max(T) >= y
  BY <1>1, Zenon DEF Max
<1> QED
  BY <1>2, <1>3

(* The two ways a change is replayed, the one by Undo and the one by Redo. *)
Write(w, f, c) == IF w = "old" THEN WriteOld(f, c) ELSE WriteNew(f, c)

(* The function by which a fold over s[1], ..., s[n] is defined: its value at *)
(* a set of positions is what replaying these changes of f gives.             *)
Folded(w, f, s, n, g) ==
  g = [T \in SUBSET (1 .. n) |->
         IF T = {} THEN f ELSE Write(w, g[T \ {Max(T)}], s[Max(T)])]

(* There is such a function. *)
LEMMA FoldedExists ==
  ASSUME NEW w, NEW f, NEW s, NEW n \in Nat
  PROVE  \E g : Folded(w, f, s, n, g)
<1> DEFINE S == {k \in Nat : \E g : Folded(w, f, s, k, g)}
<1>1. 0 \in S
  <2> DEFINE g == [T \in SUBSET (1 .. 0) |-> f]
  <2>1. \A T \in SUBSET (1 .. 0) : T = {}
    OBVIOUS
  <2>2. Folded(w, f, s, 0, g)
    BY <2>1 DEF Folded
  <2> QED
    BY <2>2
<1>2. ASSUME NEW k \in S PROVE k + 1 \in S
  <2>1. PICK g : Folded(w, f, s, k, g)
    OBVIOUS
  <2> DEFINE h == [T \in SUBSET (1 .. k + 1) |->
                     IF k + 1 \in T THEN Write(w, g[T \ {k + 1}], s[k + 1]) ELSE g[T]]
  <2>2. ASSUME NEW T \in SUBSET (1 .. k + 1)
        PROVE  h[T] = IF T = {} THEN f ELSE Write(w, h[T \ {Max(T)}], s[Max(T)])
    <3>1. CASE k + 1 \in T
      <4>1. Max(T) = k + 1
        BY <3>1, MaxTop
      <4>2. T \ {k + 1} \in SUBSET (1 .. k + 1)
        OBVIOUS
      <4>3. h[T \ {k + 1}] = g[T \ {k + 1}]
        BY <4>2
      <4>4. h[T] = Write(w, g[T \ {k + 1}], s[k + 1])
        BY <3>1
      <4> HIDE DEF h
      <4> QED
        BY <3>1, <4>1, <4>3, <4>4
    <3>2. CASE k + 1 \notin T
      <4>1. T \in SUBSET (1 .. k)
        BY <3>2
      <4>2. g[T] = IF T = {} THEN f ELSE Write(w, g[T \ {Max(T)}], s[Max(T)])
        BY <2>1, <4>1, Zenon DEF Folded
      <4>3. T \ {Max(T)} \in SUBSET (1 .. k + 1) /\ k + 1 \notin T \ {Max(T)}
        BY <3>2
      <4>4. h[T] = g[T] /\ h[T \ {Max(T)}] = g[T \ {Max(T)}]
        BY <3>2, <4>3
      <4> HIDE DEF h
      <4> QED
        BY <4>2, <4>4
    <3> QED
      BY <3>1, <3>2
  <2>3. Folded(w, f, s, k + 1, h)
    <3>1. h = [T \in SUBSET (1 .. k + 1) |-> h[T]]
      OBVIOUS
    <3> HIDE DEF h
    <3> QED
      BY <2>2, <3>1, Zenon DEF Folded
  <2> QED
    BY <2>3
<1>3. S = Nat
  <2>1. S \in SUBSET Nat /\ \A k \in S : k + 1 \in S
    BY <1>2
  <2> HIDE DEF S
  <2> QED
    BY <1>1, <2>1, NatSet
<1> QED
  BY <1>3

(* What FoldLeft computes. *)
LEMMA FoldIs ==
  ASSUME NEW f, NEW s, NEW n \in Nat, DOMAIN s = 1 .. n
  PROVE  /\ \E g : Folded("old", f, s, n, g) /\ FoldLeft(WriteOld, f, s) = g[1 .. n]
         /\ \E g : Folded("new", f, s, n, g) /\ FoldLeft(WriteNew, f, s) = g[1 .. n]
<1>1. FoldLeft(WriteOld, f, s) = (CHOOSE g : Folded("old", f, s, n, g))[1 .. n]
  BY DEF FoldLeft, MapThenFoldSet, Folded, Write
<1>2. FoldLeft(WriteNew, f, s) = (CHOOSE g : Folded("new", f, s, n, g))[1 .. n]
  BY DEF FoldLeft, MapThenFoldSet, Folded, Write
<1>3. Folded("old", f, s, n, CHOOSE g : Folded("old", f, s, n, g))
  BY FoldedExists, Zenon
<1>4. Folded("new", f, s, n, CHOOSE g : Folded("new", f, s, n, g))
  BY FoldedExists, Zenon
<1> QED
  BY <1>1, <1>2, <1>3, <1>4, Zenon

(* Replaying changes leaves registers or memory with their type. *)
LEMMA FoldTyped ==
  ASSUME NEW S, NEW f \in [S -> Digit], NEW s \in Seq(Change(S))
  PROVE  /\ FoldLeft(WriteOld, f, s) \in [S -> Digit]
         /\ FoldLeft(WriteNew, f, s) \in [S -> Digit]
<1> DEFINE F == [S -> Digit]
           n == Len(s)
<1>1. n \in Nat /\ DOMAIN s = 1 .. n /\ \A k \in 1 .. n : s[k] \in Change(S)
  BY LenProperties
<1>2. ASSUME NEW w, NEW h \in F, NEW c \in Change(S)
      PROVE  Write(w, h, c) \in F
  BY DEF Write, WriteOld, WriteNew, Change
<1> HIDE DEF F, n
<1>3. f \in F
  BY DEF F
<1>4. ASSUME NEW w, NEW g, Folded(w, f, s, n, g)
      PROVE  g[1 .. n] \in F
  <2> DEFINE K == {k \in Nat : k <= n => \A T \in SUBSET (1 .. k) : g[T] \in F}
  <2>1. ASSUME NEW T \in SUBSET (1 .. n)
        PROVE  g[T] = IF T = {} THEN f ELSE Write(w, g[T \ {Max(T)}], s[Max(T)])
    BY <1>4, Zenon DEF Folded
  <2>2. 0 \in K
    <3>1. \A T \in SUBSET (1 .. 0) : T = {} /\ T \in SUBSET (1 .. n)
      BY <1>1
    <3> QED
      BY <1>3, <2>1, <3>1
  <2>3. ASSUME NEW k \in K PROVE k + 1 \in K
    <3>1. SUFFICES ASSUME k + 1 <= n, NEW T \in SUBSET (1 .. k + 1) PROVE g[T] \in F
      OBVIOUS
    <3>2. k \in Nat /\ k <= n /\ \A U \in SUBSET (1 .. k) : g[U] \in F
      BY <1>1, <3>1
    <3>3. T \in SUBSET (1 .. n)
      BY <1>1, <3>1, <3>2
    <3>4. CASE k + 1 \in T
      <4>1. Max(T) = k + 1
        BY <3>2, <3>4, MaxTop
      <4>2. T \ {k + 1} \in SUBSET (1 .. k)
        BY <3>2
      <4>3. g[T \ {k + 1}] \in F
        BY <3>2, <4>2
      <4>4. s[k + 1] \in Change(S)
        BY <1>1, <3>1, <3>2
      <4> QED
        BY <1>2, <2>1, <3>3, <3>4, <4>1, <4>3, <4>4
    <3>5. CASE k + 1 \notin T
      <4>1. T \in SUBSET (1 .. k)
        BY <3>2, <3>5
      <4> QED
        BY <3>2, <4>1
    <3> QED
      BY <3>4, <3>5
  <2>4. K = Nat
    <3>1. K \in SUBSET Nat /\ \A k \in K : k + 1 \in K
      BY <2>3
    <3> HIDE DEF K
    <3> QED
      BY <2>2, <3>1, NatSet
  <2>5. n \in K
    BY <1>1, <2>4
  <2> QED
    BY <1>1, <2>5
<1> QED
  BY <1>1, <1>4, FoldIs DEF F

(* Replaying no change does nothing, replaying one writes it. *)
LEMMA FoldShort ==
  ASSUME NEW f
  PROVE  /\ FoldLeft(WriteOld, f, <<>>) = f /\ FoldLeft(WriteNew, f, <<>>) = f
         /\ \A c : /\ FoldLeft(WriteOld, f, <<c>>) = WriteOld(f, c)
                  /\ FoldLeft(WriteNew, f, <<c>>) = WriteNew(f, c)
<1>1. ASSUME NEW w, NEW g, NEW s, Folded(w, f, s, 0, g) PROVE g[1 .. 0] = f
  <2>1. 1 .. 0 = {} /\ 1 .. 0 \in SUBSET (1 .. 0)
    OBVIOUS
  <2> QED
    BY <1>1, <2>1, Zenon DEF Folded
<1>2. ASSUME NEW w, NEW g, NEW s, Folded(w, f, s, 1, g) PROVE g[1 .. 1] = Write(w, f, s[1])
  <2>1. /\ 1 .. 1 = {1} /\ {1} # {} /\ {1} \in SUBSET (1 .. 1)
        /\ {} \in SUBSET (1 .. 1) /\ {1} \ {1} = {}
    OBVIOUS
  <2>2. Max({1}) = 1
    <3>1. 0 \in Nat /\ {1} \in SUBSET (1 .. 0 + 1) /\ 0 + 1 \in {1} /\ 0 + 1 = 1
      OBVIOUS
    <3> QED
      BY <3>1, MaxTop
  <2>3. g[{}] = f
    BY <1>2, <2>1, Zenon DEF Folded
  <2>4. g[{1}] = Write(w, g[{1} \ {Max({1})}], s[Max({1})])
    BY <1>2, <2>1, Zenon DEF Folded
  <2> QED
    BY <2>1, <2>2, <2>3, <2>4
<1>3. DOMAIN <<>> = 1 .. 0
  OBVIOUS
<1>4. \A c : DOMAIN <<c>> = 1 .. 1 /\ <<c>>[1] = c
  OBVIOUS
<1>5. FoldLeft(WriteOld, f, <<>>) = f /\ FoldLeft(WriteNew, f, <<>>) = f
  BY <1>1, <1>3, FoldIs
<1>6. ASSUME NEW c PROVE /\ FoldLeft(WriteOld, f, <<c>>) = Write("old", f, c)
                        /\ FoldLeft(WriteNew, f, <<c>>) = Write("new", f, c)
  <2> DEFINE s == <<c>>
  <2>0. 1 \in Nat
    OBVIOUS
  <2>1. DOMAIN s = 1 .. 1 /\ s[1] = c
    BY <1>4
  <2> HIDE DEF s
  <2>2. FoldLeft(WriteOld, f, s) = Write("old", f, s[1])
    <3>1. PICK g : Folded("old", f, s, 1, g) /\ FoldLeft(WriteOld, f, s) = g[1 .. 1]
      BY <2>0, <2>1, FoldIs, Zenon
    <3> QED
      BY <1>2, <3>1
  <2>3. FoldLeft(WriteNew, f, s) = Write("new", f, s[1])
    <3>1. PICK g : Folded("new", f, s, 1, g) /\ FoldLeft(WriteNew, f, s) = g[1 .. 1]
      BY <2>0, <2>1, FoldIs, Zenon
    <3> QED
      BY <1>2, <3>1
  <2>4. /\ FoldLeft(WriteOld, f, s) = Write("old", f, c)
        /\ FoldLeft(WriteNew, f, s) = Write("new", f, c)
    BY <2>1, <2>2, <2>3
  <2> QED
    BY <2>4 DEF s
<1> QED
  BY <1>5, <1>6 DEF Write

-------------------------------------------------------------------------------
(* The lemmas about the coprocessor, for the unit inside the machine. *)
UnitProofs == INSTANCE BigmulUnit_proofs WITH
  InitMem <- {DataSection}, LoadAddrs <- {}, ResultAddrs <- {}, Sizes <- {}, Stores <- {},
  Interruptible <- TRUE

Snapshots == UnitProofs!Snapshots

(* The machine's constants are ones the coprocessor's lemmas assume. *)
LEMMA UnitConstants == UnitProofs!UnitAssumption
BY VmAssumption DEF UnitProofs!UnitAssumption, UnitProofs!Addr, UnitProofs!Digit

(* The two instances of the coprocessor are one. *)
LEMMA SameTypes ==
  /\ Unit!TypeOK <=> UnitProofs!TypeOK
  /\ Unit!TypeOK' <=> UnitProofs!TypeOK'
BY DEF Unit!TypeOK, UnitProofs!TypeOK, Unit!Wide, UnitProofs!Wide, Unit!Digit,
  UnitProofs!Digit, Unit!Addr, UnitProofs!Addr, Unit!Index, UnitProofs!Index

(* What one instance does to begin with, the other does. *)
LEMMA SameInit == Unit!Init => UnitProofs!Init
BY DEF Unit!Init, UnitProofs!Init, Unit!Index, UnitProofs!Index, Unit!Zero, UnitProofs!Zero

(* The same for a batch of loads, of writes and of products. *)
LEMMA SameLoadBatch ==
  ASSUME NEW a, NEW b, NEW o, Unit!LoadBatch(a, b, o)
  PROVE  UnitProofs!LoadBatch(a, b, o)
BY DEF Unit!LoadBatch, UnitProofs!LoadBatch, Unit!Loaded, UnitProofs!Loaded, Unit!Index,
  UnitProofs!Index

LEMMA SameWriteBatch == Unit!WriteBatch => UnitProofs!WriteBatch
BY DEF Unit!WriteBatch, UnitProofs!WriteBatch, Unit!Addr, UnitProofs!Addr

LEMMA SameComputeCycle == Unit!ComputeCycle => UnitProofs!ComputeCycle
BY Zenon DEF
  Unit!ComputeCycle, UnitProofs!ComputeCycle, Unit!load, UnitProofs!load,
  Unit!target, UnitProofs!target, Unit!BatchSum, UnitProofs!BatchSum, Unit!FoldSet,
  UnitProofs!FoldSet, Unit!MapThenFoldSet, UnitProofs!MapThenFoldSet,
  Unit!AddProduct, UnitProofs!AddProduct, Unit!AccAddU128, UnitProofs!AccAddU128,
  Unit!AccAddU192, UnitProofs!AccAddU192, Unit!AccShr64, UnitProofs!AccShr64,
  Unit!Zero, UnitProofs!Zero, Unit!Wide, UnitProofs!Wide, Unit!Index,
  UnitProofs!Index, Unit!Digit, UnitProofs!Digit, Unit!DiagonalStart,
  UnitProofs!DiagonalStart, Unit!DiagonalEnd, UnitProofs!DiagonalEnd

(* The same for a stall cycle, the issue of each kind of instruction and reset. *)
LEMMA SameCycle == Unit!Cycle => UnitProofs!Cycle
<1>1. Unit!LdbmCycle => UnitProofs!LdbmCycle
  BY SameLoadBatch DEF Unit!LdbmCycle, UnitProofs!LdbmCycle, Unit!compute, UnitProofs!compute,
    Unit!target, UnitProofs!target, Unit!flags, UnitProofs!flags
<1>2. Unit!WriteCycle => UnitProofs!WriteCycle
  BY SameWriteBatch DEF Unit!WriteCycle, UnitProofs!WriteCycle, Unit!load, UnitProofs!load,
    Unit!compute, UnitProofs!compute, Unit!target, UnitProofs!target
<1> QED
  BY <1>1, <1>2, SameComputeCycle DEF Unit!Cycle, UnitProofs!Cycle

LEMMA SameIssueLdbm ==
  ASSUME NEW a, NEW b, Unit!IssueLdbm(a, b)
  PROVE  UnitProofs!IssueLdbm(a, b)
BY SameLoadBatch DEF Unit!IssueLdbm, UnitProofs!IssueLdbm, UnitProofs!MayIssue, Unit!compute,
  UnitProofs!compute, Unit!target, UnitProofs!target, Unit!flags, UnitProofs!flags

LEMMA SameIssueBigmul ==
  ASSUME NEW r, NEW n, Unit!IssueBigmul(r, n)
  PROVE  UnitProofs!IssueBigmul(r, n)
BY SameWriteBatch DEF Unit!IssueBigmul, UnitProofs!IssueBigmul, UnitProofs!MayIssue,
  Unit!OperandSize, UnitProofs!OperandSize, Unit!compute, UnitProofs!compute,
  Unit!target, UnitProofs!target, Unit!flags, UnitProofs!flags, Unit!load, UnitProofs!load

LEMMA SameIssueOther ==
  ASSUME NEW m, Unit!IssueOther(m)
  PROVE  UnitProofs!IssueOther(m)
BY DEF Unit!IssueOther, UnitProofs!IssueOther, UnitProofs!MayIssue, Unit!compute,
  UnitProofs!compute, Unit!target, UnitProofs!target, Unit!flags, UnitProofs!flags,
  Unit!load, UnitProofs!load

LEMMA SameReset == Unit!Reset => UnitProofs!Reset
BY DEF Unit!Reset, UnitProofs!Reset, Unit!Index, UnitProofs!Index, Unit!Addr, UnitProofs!Addr,
  Unit!Zero, UnitProofs!Zero

(* The unit keeps its types in every way the machine drives it. *)
LEMMA UnitInitTyped == Unit!Init => Unit!TypeOK
BY SameInit, SameTypes, UnitConstants, UnitProofs!InitIInv DEF UnitProofs!IInv

(* Issuing LDBM, BIGMUL or another instruction keeps the coprocessor's types. *)
LEMMA UnitLdbmTyped ==
  ASSUME Unit!TypeOK,
         NEW a \in Nat, a + Limbs <= MemSize,
         NEW b \in Nat, b + Limbs <= MemSize,
         Unit!IssueLdbm(a, b)
  PROVE  Unit!TypeOK'
BY SameIssueLdbm, SameTypes, UnitConstants, UnitProofs!IssueLdbmTyped

LEMMA UnitBigmulTyped ==
  ASSUME Unit!TypeOK,
         NEW r \in Nat, r + 2 * Limbs <= MemSize,
         NEW n \in Nat, n < SizeLimit => n <= Limbs,
         Unit!IssueBigmul(r, n)
  PROVE  Unit!TypeOK'
BY SameIssueBigmul, SameTypes, UnitConstants, UnitProofs!IssueBigmulTyped

LEMMA UnitOtherTyped ==
  ASSUME Unit!TypeOK, NEW m \in [0 .. MemSize - 1 -> Digit], Unit!IssueOther(m)
  PROVE  Unit!TypeOK'
<1>1. m \in [UnitProofs!Addr -> UnitProofs!Digit]
  BY DEF UnitProofs!Addr, UnitProofs!Digit, Digit
<1> QED
  BY <1>1, SameIssueOther, SameTypes, UnitConstants, UnitProofs!IssueOtherTyped

(* So do a stall cycle, reset, and restoring what snapshot() returned. *)
LEMMA UnitCycleTyped ==
  ASSUME Unit!TypeOK, Unit!Cycle
  PROVE  Unit!TypeOK'
BY SameCycle, SameTypes, UnitConstants, UnitProofs!CycleTyped

LEMMA UnitResetTyped ==
  ASSUME Unit!TypeOK, Unit!Reset
  PROVE  Unit!TypeOK'
BY SameReset, SameTypes, UnitConstants, UnitProofs!ResetTyped

LEMMA UnitSnapshotTyped == Unit!TypeOK => Unit!Snapshot \in Snapshots
<1>1. Unit!Snapshot = UnitProofs!Snapshot
  BY DEF Unit!Snapshot, UnitProofs!Snapshot
<1> QED
  BY <1>1, SameTypes, UnitConstants, UnitProofs!SnapshotTyped DEF Snapshots

LEMMA UnitRestoreTyped ==
  ASSUME Unit!TypeOK, NEW s \in Snapshots, Unit!Restore(s),
         mem' \in [0 .. MemSize - 1 -> Digit]
  PROVE  Unit!TypeOK'
<1>1. mem' \in [UnitProofs!Addr -> UnitProofs!Digit]
  BY DEF UnitProofs!Addr, UnitProofs!Digit, Digit
<1>2. UnitProofs!Restore(s) /\ s \in UnitProofs!Snapshots
  BY DEF Unit!Restore, UnitProofs!Restore, Snapshots
<1> QED
  BY <1>1, <1>2, SameTypes, UnitConstants, UnitProofs!RestoreTyped

-------------------------------------------------------------------------------
(* The size BIGMUL passes fits the caches if Decode accepts it. *)
Fits(i) == i.op = "bigmul" /\ i.n < SizeLimit => i.n <= Limbs

(* Decode accepts sizes up to 512 for caches of 64, so this is an assumption. *)
SizesFit == \A p \in Programs : \A k \in DOMAIN p : Fits(p[k])

(* The programs are sequences of such instructions. *)
LEMMA ProgramTyped ==
  ASSUME SizesFit, NEW p \in Programs
  PROVE  p \in Seq({i \in Instruction : Fits(i)}) /\ Len(p) \in Nat
<1>1. p \in Seq(Instruction)
  BY VmAssumption
<1>2. \A k \in 1 .. Len(p) : p[k] \in {i \in Instruction : Fits(i)}
  <2>1. \A k \in 1 .. Len(p) : k \in DOMAIN p /\ p[k] \in Instruction
    BY <1>1, LenProperties
  <2> QED
    BY <2>1 DEF SizesFit
<1> QED
  BY <1>1, <1>2, LenProperties, SeqDef

(* A recorded delta: the state of a custom instruction's unit is in it. *)
Deltas ==
  {d \in [old_pc : Nat, new_pc : Nat,
          regs : Seq(Change(Regs)), mems : Seq(Change(0 .. MemSize - 1)),
          custom : 0 .. 2, unit : {<<>>} \cup Snapshots] :
     d.custom # 0 => d.unit \in Snapshots}

(* The types, the text's instructions included, as an inductive invariant. *)
Typed ==
  /\ Unit!TypeOK
  /\ text \in Seq({i \in Instruction : Fits(i)}) /\ program_size = Len(text)
  /\ pc \in Nat
  /\ regs \in [Regs -> Digit] /\ csr \in Digit
  /\ breakpoints \subseteq Nat
  /\ mode \in {"idle", "run", "debug", "step"}
  /\ stop \in BOOLEAN /\ executed \in 0 .. Limit + 1
  /\ delta \in Deltas /\ undo \in Seq(Deltas) /\ redo \in Seq(Deltas)

VInv == Typed /\ RInv

(* A delta with other changes, or another unit state, is a delta. *)
LEMMA DeltaChanged ==
  ASSUME NEW d \in Deltas
  PROVE  /\ \A r \in Seq(Change(Regs)) : [d EXCEPT !.regs = r] \in Deltas
         /\ \A m \in Seq(Change(0 .. MemSize - 1)) : [d EXCEPT !.mems = m] \in Deltas
         /\ \A p \in Nat : [d EXCEPT !.new_pc = p] \in Deltas
BY DEF Deltas

(* The empty delta. *)
LEMMA NoDeltaTyped == NoDelta \in Deltas
<1>1. \A S : <<>> \in Seq(S)
  BY EmptySeq
<1> QED
  BY <1>1 DEF NoDelta, Deltas

(* Memory's type, taken out of the unit's. *)
LEMMA MemTyped == Unit!TypeOK => mem \in [0 .. MemSize - 1 -> Digit]
BY DEF Unit!TypeOK, Unit!Addr, Unit!Digit, Digit

(* Whatever instruction is executed, the state keeps its type. *)
LEMMA ExecuteTyped ==
  ASSUME Typed, pc < program_size, NEW d \in Deltas, ExecuteInstruction(d)
  PROVE  /\ Unit!TypeOK'
         /\ pc' \in Nat /\ regs' \in [Regs -> Digit] /\ csr' \in Digit
         /\ delta' \in Deltas
<1> DEFINE i == text[pc + 1]
<1>1. i \in Instruction /\ Fits(i)
  <2>1. pc + 1 \in 1 .. Len(text)
    <3>1. Len(text) \in Nat
      BY LenProperties DEF Typed
    <3> QED
      BY <3>1 DEF Typed
  <2> QED
    BY <2>1, ElementOfSeq DEF Typed
<1>2. \/ Alu(i, d) \/ Csrrw(i, d) \/ Store(i, d) \/ Jump(i, d) \/ NoOp(i, d) \/ Custom(i, d)
  BY DEF ExecuteInstruction
<1> HIDE DEF i
<1>3. /\ pc \in Nat /\ regs \in [Regs -> Digit] /\ csr \in Digit /\ Unit!TypeOK
      /\ mem \in [0 .. MemSize - 1 -> Digit]
  BY MemTyped DEF Typed
<1>4. Base \in Nat /\ Base > 0
  BY VmAssumption
<1>5. CASE Alu(i, d)
  <2> DEFINE new == (regs[i.rd] + i.imm) % Base
  <2>1. i.op = "addi" /\ i.rd \in Regs /\ i.imm \in Int
    BY <1>1, <1>5 DEF Alu, Instruction
  <2>2. regs[i.rd] \in Digit /\ new \in Digit
    <3>1. regs[i.rd] \in Digit
      BY <1>3, <2>1
    <3>2. regs[i.rd] + i.imm \in Int
      BY <1>4, <2>1, <3>1 DEF Digit
    <3> QED
      BY <1>4, <3>1, <3>2 DEF Digit
  <2>3. /\ regs' = [regs EXCEPT ![i.rd] = new]
        /\ delta' = [d EXCEPT !.regs = d.regs \o RegChange(i.rd, new)]
        /\ Unit!IssueOther(mem) /\ pc' = pc + 1 /\ csr' = csr
    BY <1>5 DEF Alu
  <2> HIDE DEF new
  <2>4. RegChange(i.rd, new) \in Seq(Change(Regs))
    <3>1. [at |-> i.rd, old |-> regs[i.rd], new |-> new] \in Change(Regs)
      BY <2>1, <2>2 DEF Change
    <3>2. \A c \in Change(Regs) : <<c>> \in Seq(Change(Regs))
      OBVIOUS
    <3>3. <<>> \in Seq(Change(Regs))
      BY EmptySeq
    <3> QED
      BY <3>1, <3>2, <3>3 DEF RegChange
  <2>5. d.regs \o RegChange(i.rd, new) \in Seq(Change(Regs))
    <3>1. d.regs \in Seq(Change(Regs))
      BY DEF Deltas
    <3> QED
      BY <2>4, <3>1, ConcatProperties
  <2>6. delta' \in Deltas
    BY <2>3, <2>5, DeltaChanged
  <2>7. Unit!TypeOK'
    BY <1>3, <2>3, UnitOtherTyped
  <2>8. regs' \in [Regs -> Digit]
    BY <1>3, <2>2, <2>3
  <2> QED
    BY <1>3, <2>3, <2>6, <2>7, <2>8
<1>6. CASE Csrrw(i, d)
  <2>1. i.rd \in Regs /\ i.rs \in Regs
    BY <1>1, <1>6 DEF Csrrw, Instruction
  <2>2. /\ csr' = regs[i.rs] /\ regs' = [regs EXCEPT ![i.rd] = csr]
        /\ delta' = d /\ Unit!IssueOther(mem) /\ pc' = pc + 1
    BY <1>6 DEF Csrrw
  <2>3. Unit!TypeOK'
    BY <1>3, <2>2, UnitOtherTyped
  <2> QED
    BY <1>3, <2>1, <2>2, <2>3
<1>7. CASE Store(i, d)
  <2>1. i.rs \in Regs /\ i.addr \in 0 .. MemSize - 1
    BY <1>1, <1>7 DEF Store, Instruction
  <2>2. /\ Unit!IssueOther([mem EXCEPT ![i.addr] = regs[i.rs]])
        /\ delta' = [d EXCEPT !.mems = d.mems \o MemChange(i.addr, regs[i.rs])]
        /\ pc' = pc + 1 /\ regs' = regs /\ csr' = csr
    BY <1>7 DEF Store
  <2>3. regs[i.rs] \in Digit /\ mem[i.addr] \in Digit
    BY <1>3, <2>1
  <2>4. MemChange(i.addr, regs[i.rs]) \in Seq(Change(0 .. MemSize - 1))
    <3>1. [at |-> i.addr, old |-> mem[i.addr], new |-> regs[i.rs]] \in Change(0 .. MemSize - 1)
      BY <2>1, <2>3 DEF Change
    <3>2. \A c \in Change(0 .. MemSize - 1) : <<c>> \in Seq(Change(0 .. MemSize - 1))
      OBVIOUS
    <3>3. <<>> \in Seq(Change(0 .. MemSize - 1))
      BY EmptySeq
    <3> QED
      BY <3>1, <3>2, <3>3 DEF MemChange
  <2>5. d.mems \o MemChange(i.addr, regs[i.rs]) \in Seq(Change(0 .. MemSize - 1))
    <3>1. d.mems \in Seq(Change(0 .. MemSize - 1))
      BY DEF Deltas
    <3> QED
      BY <2>4, <3>1, ConcatProperties
  <2>6. delta' \in Deltas
    BY <2>2, <2>5, DeltaChanged
  <2>7. [mem EXCEPT ![i.addr] = regs[i.rs]] \in [0 .. MemSize - 1 -> Digit]
    BY <1>3, <2>3
  <2>8. Unit!TypeOK'
    BY <1>3, <2>2, <2>7, UnitOtherTyped
  <2> QED
    BY <1>3, <2>2, <2>6, <2>8
<1>8. CASE Jump(i, d) \/ NoOp(i, d)
  <2>1. pc' \in Nat
    BY <1>1, <1>3, <1>8 DEF Jump, NoOp, Instruction
  <2>2. delta' = d /\ Unit!IssueOther(mem) /\ regs' = regs /\ csr' = csr
    BY <1>8 DEF Jump, NoOp
  <2>3. Unit!TypeOK'
    BY <1>3, <2>2, UnitOtherTyped
  <2> QED
    BY <1>3, <2>1, <2>2, <2>3
<1>9. CASE Custom(i, d)
  <2>1. pc' = pc + 1 /\ delta' = d /\ regs' = regs /\ csr' = csr
    BY <1>9 DEF Custom
  <2>2. CASE i.op = "ldbm" /\ Unit!IssueLdbm(i.a, i.b)
    <3>1. i.a \in Nat /\ i.a + Limbs <= MemSize /\ i.b \in Nat /\ i.b + Limbs <= MemSize
      BY <1>1, <2>2 DEF Instruction
    <3>2. Unit!TypeOK'
      BY <1>3, <2>2, <3>1, UnitLdbmTyped
    <3> QED
      BY <1>3, <2>1, <3>2
  <2>3. CASE i.op = "bigmul" /\ Unit!IssueBigmul(i.r, i.n)
    <3>1. i.r \in Nat /\ i.r + 2 * Limbs <= MemSize /\ i.n \in Nat
      BY <1>1, <2>3 DEF Instruction
    <3>2. i.n < SizeLimit => i.n <= Limbs
      BY <1>1, <2>3 DEF Fits
    <3>3. Unit!TypeOK'
      BY <1>3, <2>3, <3>1, <3>2, UnitBigmulTyped
    <3> QED
      BY <1>3, <2>1, <3>3
  <2> QED
    BY <1>9, <2>2, <2>3 DEF Custom
<1> QED
  BY <1>2, <1>5, <1>6, <1>7, <1>8, <1>9

(* Front and Last of a sequence of S. *)
LEMMA FrontLast ==
  ASSUME NEW S, NEW s \in Seq(S), s # <<>>
  PROVE  Front(s) \in Seq(S) /\ Last(s) \in S
<1>1. Len(s) \in Nat /\ Len(s) # 0 /\ \A k \in 1 .. Len(s) : s[k] \in S
  BY EmptySeq, LenProperties
<1>2. Front(s) \in Seq(S)
  <2>1. Len(s) - 1 \in Nat /\ \A k \in 1 .. Len(s) - 1 : s[k] \in S
    BY <1>1
  <2> QED
    BY <2>1, Prefix, Zenon DEF Front
<1>3. Last(s) \in S
  BY <1>1 DEF Last
<1> QED
  BY <1>2, <1>3

(* The initial state has its types. *)
LEMMA InitTyped == SizesFit /\ Init => Typed
<1> SUFFICES ASSUME SizesFit, Init PROVE Typed
  OBVIOUS
<1>1. Unit!TypeOK
  BY UnitConstants, SameTypes, UnitInitTyped DEF Init
<1>2. text \in Seq({i \in Instruction : Fits(i)}) /\ Len(text) \in Nat
  BY ProgramTyped DEF Init
<1>3. 0 \in Digit
  BY VmAssumption DEF Digit
<1>4. undo \in Seq(Deltas) /\ redo \in Seq(Deltas) /\ delta \in Deltas
  BY EmptySeq, NoDeltaTyped DEF Init
<1>5. regs \in [Regs -> Digit] /\ csr \in Digit /\ pc \in Nat
  BY <1>3 DEF Init
<1>6. /\ program_size = Len(text) /\ breakpoints \subseteq Nat /\ mode = "idle"
      /\ stop = FALSE /\ executed = 0
  BY <1>2 DEF Init
<1>7. executed \in 0 .. Limit + 1
  BY <1>6, VmAssumption
<1> QED
  BY <1>1, <1>2, <1>4, <1>5, <1>6, <1>7 DEF Typed

(* The thread's quiet steps. *)
LEMMA QuietTyped ==
  ASSUME Typed, UNCHANGED <<machine, delta, undo, redo>>, Unit!TypeOK',
         breakpoints' \subseteq Nat,
         mode' \in {"idle", "run", "debug", "step"},
         stop' \in BOOLEAN, executed' \in 0 .. Limit + 1
  PROVE  Typed'
BY DEF Typed, machine

(* A step starts from a delta. *)
LEMMA PreviewTyped == Typed => Preview \in Deltas
<1> SUFFICES ASSUME Typed PROVE Preview \in Deltas
  OBVIOUS
<1> DEFINE code == IF pc < program_size THEN CustomCode(text[pc + 1]) ELSE 0
           unit == IF code = 0 THEN <<>> ELSE Unit!Snapshot
<1>1. code \in 0 .. 2 /\ pc \in Nat /\ delta \in Deltas
  BY DEF CustomCode, Typed
<1>2. code # 0 => unit \in Snapshots
  BY UnitSnapshotTyped DEF Typed
<1>3. unit \in {<<>>} \cup Snapshots
  BY UnitSnapshotTyped DEF Typed
<1>4. Preview = [delta EXCEPT !.old_pc = pc, !.custom = code, !.unit = unit]
  BY DEF Preview
<1> HIDE DEF code, unit
<1> QED
  BY <1>1, <1>2, <1>3, <1>4 DEF Deltas

(* Undo and Redo restore the unit's types. *)
LEMMA RestoreUnitTyped ==
  ASSUME Typed, NEW d \in Deltas, RestoreUnit(d), mem' \in [0 .. MemSize - 1 -> Digit]
  PROVE  Unit!TypeOK'
<1>1. CASE d.custom # 0
  BY <1>1, UnitRestoreTyped DEF RestoreUnit, Deltas, Typed
<1>2. CASE d.custom = 0
  BY <1>2 DEF RestoreUnit, Typed, unitVars, Unit!TypeOK, Unit!Addr, Unit!Digit, Digit,
    Unit!Wide, Unit!Index
<1> QED
  BY <1>1, <1>2

(* Every step keeps the types. *)
LEMMA StepTyped == SizesFit /\ VInv /\ [Next]_vars => Typed'
<1> SUFFICES ASSUME SizesFit, VInv, [Next]_vars PROVE Typed'
  OBVIOUS
<1>0. Typed /\ RInv
  BY DEF VInv
<1>a. Limit \in Nat /\ 0 \in Digit /\ 0 \in 0 .. Limit + 1
  BY VmAssumption DEF Digit
<1>b. UNCHANGED <<unitVars, mem>> => Unit!TypeOK'
  BY <1>0 DEF Typed, unitVars, Unit!TypeOK
<1>1. CASE StartRun \/ StartDebugRun
  <2>1. /\ UNCHANGED <<unitVars, mem, machine, breakpoints, delta, undo, redo>>
        /\ mode' \in {"run", "debug"} /\ stop' = FALSE /\ executed' = 0
    BY <1>1 DEF StartRun, StartDebugRun, Launch, history
  <2> QED
    BY <1>0, <1>a, <1>b, <2>1, QuietTyped DEF Typed
<1>2. CASE RunReturn \/ DebugReturn \/ RequestStop
  <2>1. /\ UNCHANGED <<unitVars, mem, machine, breakpoints, delta, undo, redo, executed>>
        /\ mode' \in {"idle", mode} /\ stop' \in {stop, TRUE}
    BY <1>2 DEF RunReturn, DebugReturn, RequestStop, Return, history
  <2> QED
    BY <1>0, <1>a, <1>b, <2>1, QuietTyped DEF Typed
<1>3. CASE RunStall \/ FinishCycle
  <2>1. /\ Unit!Cycle
        /\ UNCHANGED <<machine, breakpoints, delta, undo, redo, executed, mode, stop>>
    BY <1>3 DEF RunStall, FinishCycle, control, history
  <2>2. Unit!TypeOK'
    BY <1>0, <2>1, UnitCycleTyped DEF Typed
  <2> QED
    BY <1>0, <2>1, <2>2, QuietTyped DEF Typed
<1>4. CASE RunInstruction
  <2>1. /\ ExecuteInstruction(delta) /\ pc < program_size /\ executed <= Limit
        /\ executed' = executed + 1
        /\ UNCHANGED <<text, program_size, breakpoints, mode, stop, undo, redo>>
    BY <1>4 DEF RunInstruction, LoopContinues, ExecuteInstruction
  <2>2. /\ Unit!TypeOK' /\ pc' \in Nat /\ regs' \in [Regs -> Digit] /\ csr' \in Digit
        /\ delta' \in Deltas
    BY <1>0, <2>1, ExecuteTyped DEF Typed
  <2> QED
    BY <1>0, <1>a, <2>1, <2>2 DEF Typed
<1>5. CASE DebugBreak
  <2>1. /\ UNCHANGED <<unitVars, mem, machine, breakpoints, stop, executed, undo, redo>>
        /\ mode' = "idle" /\ delta' = NoDelta
    BY <1>5 DEF DebugBreak
  <2>2. delta' \in Deltas
    BY <2>1, NoDeltaTyped
  <2> QED
    BY <1>0, <1>b, <2>1, <2>2 DEF Typed, machine
<1>6. CASE DebugInstruction
  <2>1. /\ ExecuteInstruction(Preview) /\ pc < program_size /\ executed <= Limit
        /\ executed' = executed + 1
        /\ UNCHANGED <<text, program_size, breakpoints, mode, stop, undo, redo>>
    BY <1>6 DEF DebugInstruction, LoopContinues, ExecuteInstruction
  <2>2. /\ Unit!TypeOK' /\ pc' \in Nat /\ regs' \in [Regs -> Digit] /\ csr' \in Digit
        /\ delta' \in Deltas
    BY <1>0, <2>1, PreviewTyped, ExecuteTyped
  <2> QED
    BY <1>0, <1>a, <2>1, <2>2 DEF Typed
<1>7. CASE Step
  <2>1. CASE /\ pc < program_size /\ ExecuteInstruction(Preview) /\ mode' = "step"
             /\ UNCHANGED <<breakpoints, stop, executed, undo, redo>>
    <3>1. /\ Unit!TypeOK' /\ pc' \in Nat /\ regs' \in [Regs -> Digit] /\ csr' \in Digit
          /\ delta' \in Deltas
      BY <1>0, <2>1, PreviewTyped, ExecuteTyped
    <3>2. UNCHANGED <<text, program_size>>
      BY <2>1 DEF ExecuteInstruction
    <3> QED
      BY <1>0, <2>1, <3>1, <3>2 DEF Typed
  <2>2. CASE /\ delta' = Preview
             /\ UNCHANGED <<unitVars, mem, machine, control, retired, undo, redo>>
    <3>1. delta' \in Deltas
      BY <1>0, <2>2, PreviewTyped
    <3> QED
      BY <1>0, <1>b, <2>2, <3>1 DEF Typed, machine, control
  <2> QED
    BY <1>7, <2>1, <2>2 DEF Step
<1>8. CASE Commit
  <2>1. /\ undo' = Append(undo, [delta EXCEPT !.new_pc = pc])
        /\ redo' = <<>> /\ delta' = NoDelta
        /\ mode' = IF mode = "step" THEN "idle" ELSE mode
        /\ UNCHANGED <<unitVars, mem, machine, breakpoints, stop, executed>>
    BY <1>8 DEF Commit
  <2>2. undo' \in Seq(Deltas)
    <3>1. [delta EXCEPT !.new_pc = pc] \in Deltas /\ undo \in Seq(Deltas)
      BY <1>0, DeltaChanged DEF Typed
    <3> QED
      BY <2>1, <3>1, AppendProperties
  <2>3. redo' \in Seq(Deltas) /\ delta' \in Deltas
    BY <2>1, EmptySeq, NoDeltaTyped
  <2> QED
    BY <1>0, <1>b, <2>1, <2>2, <2>3 DEF Typed, machine
<1>9. CASE Undo
  <2>1. /\ undo # <<>>
        /\ RestoreUnit(Last(undo))
        /\ regs' = FoldLeft(WriteOld, regs, Last(undo).regs)
        /\ mem' = FoldLeft(WriteOld, mem, Last(undo).mems)
        /\ pc' = Last(undo).old_pc
        /\ undo' = Front(undo) /\ redo' = Append(redo, Last(undo))
        /\ UNCHANGED <<text, program_size, csr, control, delta>>
    BY <1>9 DEF Undo
  <2>2. Last(undo) \in Deltas /\ Front(undo) \in Seq(Deltas)
    BY <1>0, <2>1, FrontLast DEF Typed
  <2>3. redo' \in Seq(Deltas)
    BY <1>0, <2>1, <2>2, AppendProperties DEF Typed
  <2>4. /\ Last(undo).regs \in Seq(Change(Regs))
        /\ Last(undo).mems \in Seq(Change(0 .. MemSize - 1))
        /\ Last(undo).old_pc \in Nat
    BY <2>2 DEF Deltas
  <2>5. regs' \in [Regs -> Digit]
    BY <1>0, <2>1, <2>4, FoldTyped DEF Typed
  <2>6. mem' \in [0 .. MemSize - 1 -> Digit]
    BY <1>0, <2>1, <2>4, FoldTyped, MemTyped DEF Typed
  <2>7. Unit!TypeOK'
    BY <1>0, <2>1, <2>2, <2>6, RestoreUnitTyped
  <2> QED
    BY <1>0, <2>1, <2>2, <2>3, <2>4, <2>5, <2>7 DEF Typed, control
<1>10. CASE Redo
  <2>1. /\ redo # <<>>
        /\ RestoreUnit(Last(redo))
        /\ regs' = FoldLeft(WriteNew, regs, Last(redo).regs)
        /\ mem' = FoldLeft(WriteNew, mem, Last(redo).mems)
        /\ pc' = Last(redo).new_pc
        /\ redo' = Front(redo) /\ undo' = Append(undo, Last(redo))
        /\ UNCHANGED <<text, program_size, csr, control, delta>>
    BY <1>10 DEF Redo
  <2>2. Last(redo) \in Deltas /\ Front(redo) \in Seq(Deltas)
    BY <1>0, <2>1, FrontLast DEF Typed
  <2>3. undo' \in Seq(Deltas)
    BY <1>0, <2>1, <2>2, AppendProperties DEF Typed
  <2>4. /\ Last(redo).regs \in Seq(Change(Regs))
        /\ Last(redo).mems \in Seq(Change(0 .. MemSize - 1))
        /\ Last(redo).new_pc \in Nat
    BY <2>2 DEF Deltas
  <2>5. regs' \in [Regs -> Digit]
    BY <1>0, <2>1, <2>4, FoldTyped DEF Typed
  <2>6. mem' \in [0 .. MemSize - 1 -> Digit]
    BY <1>0, <2>1, <2>4, FoldTyped, MemTyped DEF Typed
  <2>7. Unit!TypeOK'
    BY <1>0, <2>1, <2>2, <2>6, RestoreUnitTyped
  <2> QED
    BY <1>0, <2>1, <2>2, <2>3, <2>4, <2>5, <2>7 DEF Typed, control
<1>11. CASE Reset
  <2>1. /\ Unit!Reset
        /\ text' = [j \in DOMAIN text |-> Nop]
        /\ pc' = 0 /\ regs' = [r \in Regs |-> 0] /\ csr' = 0
        /\ delta' = [delta EXCEPT !.regs = <<>>, !.mems = <<>>, !.old_pc = 0, !.new_pc = 0]
        /\ undo' = <<>> /\ redo' = <<>>
        /\ UNCHANGED <<program_size, control>>
    BY <1>11 DEF Reset
  <2>2. Unit!TypeOK'
    BY <1>0, <2>1, UnitResetTyped DEF Typed
  <2>3. delta' \in Deltas
    <3>1. /\ <<>> \in Seq(Change(Regs)) /\ <<>> \in Seq(Change(0 .. MemSize - 1))
          /\ delta \in Deltas
      BY <1>0, EmptySeq DEF Typed
    <3> QED
      BY <2>1, <3>1 DEF Deltas
  <2>4. text' \in Seq({i \in Instruction : Fits(i)}) /\ Len(text') = Len(text)
    <3>1. Nop \in {i \in Instruction : Fits(i)}
      BY DEF Nop, Instruction, Fits
    <3>2. Len(text) \in Nat /\ DOMAIN text = 1 .. Len(text)
      BY <1>0, LenProperties DEF Typed
    <3>3. text' = [j \in 1 .. Len(text) |-> Nop]
      BY <2>1, <3>2
    <3>4. [j \in 1 .. Len(text) |-> Nop] \in Seq({i \in Instruction : Fits(i)})
      BY <3>1, <3>2, SeqDef
    <3> QED
      BY <3>2, <3>3, <3>4, LenProperties
  <2> QED
    BY <1>0, <1>a, <2>1, <2>2, <2>3, <2>4, EmptySeq DEF Typed, control
<1>12. ASSUME NEW p \in Programs, LoadProgram(p)
       PROVE  Typed'
  <2>1. p \in Seq({i \in Instruction : Fits(i)}) /\ Len(p) \in Nat
    BY ProgramTyped
  <2>2. Unit!TypeOK'
    BY <1>0, <1>12, VmAssumption DEF LoadProgram, Typed, unitVars, Unit!TypeOK, Unit!Addr,
      Unit!Digit
  <2> QED
    BY <1>0, <1>12, <2>1, <2>2 DEF LoadProgram, Typed, history
<1>13. ASSUME NEW b \in 0 .. program_size - 1, AddBreakpoint(b) \/ RemoveBreakpoint(b)
       PROVE  Typed'
  <2>1. /\ UNCHANGED <<unitVars, mem, machine, mode, stop, executed, delta, undo, redo>>
        /\ breakpoints' \subseteq breakpoints \cup {b}
    BY <1>13 DEF AddBreakpoint, RemoveBreakpoint, history
  <2>2. b \in Nat
    OBVIOUS
  <2> QED
    BY <1>0, <1>b, <2>1, <2>2, QuietTyped DEF Typed
<1>14. CASE UNCHANGED vars
  BY <1>0, <1>b, <1>14, QuietTyped DEF vars, control, history, Typed
<1> QED
  BY <1>1, <1>2, <1>3, <1>4, <1>5, <1>6, <1>7, <1>8, <1>9, <1>10, <1>11, <1>12, <1>13, <1>14
     DEF Next, Thread

(* The invariant gives the statement the runs check. *)
LEMMA VInvTypes == VInv => TypeOK
<1> SUFFICES ASSUME VInv PROVE TypeOK
  OBVIOUS
<1>1. \A d \in Deltas : IsDelta(d)
  BY DEF Deltas, IsDelta
<1>2. (\A k \in DOMAIN undo : IsDelta(undo[k])) /\ (\A k \in DOMAIN redo : IsDelta(redo[k]))
  BY <1>1, ElementOfSeq, LenProperties DEF VInv, Typed
<1>3. retired \in Int
  BY DEF VInv, RInv
<1> QED
  BY <1>1, <1>2, <1>3 DEF VInv, Typed, RInv, TypeOK

(* The machine's state keeps its types, through stopped runs, undo, redo and  *)
(* reset: the replayed changes, the restored coprocessor and the words fetched *)
(* included.                                                                   *)
THEOREM VmTypeCorrect ==
  ASSUME SizesFit
  PROVE  Spec => []TypeOK
<1>1. Init => VInv
  BY SizesFit, InitTyped, InitRInv DEF VInv
<1>2. VInv /\ [Next]_vars => VInv'
  BY SizesFit, StepTyped, StepRInv DEF VInv
<1> QED
  BY <1>1, <1>2, VInvTypes, PTL DEF Spec

-------------------------------------------------------------------------------
(***************************************************************************)
(* Stepping, undoing and redoing walk along one list of states: for every  *)
(* program whose instructions are all recorded and every sequence of the   *)
(* commands that record, the machine implements the history that undo and  *)
(* redo promise, and undo brings back the coprocessor, too.                *)
(***************************************************************************)

(***************************************************************************)
(* What replaying recorded deltas does: the states behind and ahead of a   *)
(* given one, what an entry pushed on a stack adds to them, and when taking *)
(* a change back and making it again leads back to where it started.       *)
(***************************************************************************)
(* Undo's and Redo's replaying of a delta's changes. *)
Backward(f, changes) == FoldLeft(WriteOld, f, changes)
Forward(f, changes)  == FoldLeft(WriteNew, f, changes)

(* A machine state by its parts, and the changes that undoing and redoing *)
(* make to one.                                                           *)
StateOf(p, r, c, m, u, o) ==
  [pc |-> p, regs |-> r, csr |-> c, mem |-> m, unit |-> u, operand |-> o]

IsState(s) == s = StateOf(s.pc, s.regs, s.csr, s.mem, s.unit, s.operand)

WithPc(s, p)   == [s EXCEPT !.pc = p]
WithRegs(s, r) == [s EXCEPT !.regs = r]
WithMem(s, m)  == [s EXCEPT !.mem = m]
WithUnit(s, u) == [s EXCEPT !.unit = u]
With(s, p, r, m, u) == [s EXCEPT !.pc = p, !.regs = r, !.mem = m, !.unit = u]

(* Changing one part, and the four that a delta has, leaves the others. *)
LEMMA WithOne ==
  ASSUME NEW s, NEW p, NEW r, NEW c, NEW m, NEW u, NEW o, s = StateOf(p, r, c, m, u, o), NEW x
  PROVE  /\ WithPc(s, x)   = StateOf(x, r, c, m, u, o)
         /\ WithRegs(s, x) = StateOf(p, x, c, m, u, o)
         /\ WithMem(s, x)  = StateOf(p, r, c, x, u, o)
         /\ WithUnit(s, x) = StateOf(p, r, c, m, x, o)
BY DEF StateOf, WithPc, WithRegs, WithMem, WithUnit

LEMMA WithAll ==
  ASSUME NEW s, IsState(s), NEW p, NEW r, NEW m, NEW u
  PROVE  With(s, p, r, m, u) = StateOf(p, r, s.csr, m, u, s.operand)
<1>1. With(s, p, r, m, u) = WithUnit(WithMem(WithRegs(WithPc(s, p), r), m), u)
  BY DEF With, WithPc, WithRegs, WithMem, WithUnit
<1>2. PICK c, o, q, v, w, x : /\ s = StateOf(q, v, c, w, x, o)
                              /\ c = s.csr /\ o = s.operand
  BY Zenon DEF IsState
<1>3. WithPc(s, p) = StateOf(p, v, c, w, x, o)
  BY <1>2, WithOne
<1>4. WithRegs(WithPc(s, p), r) = StateOf(p, r, c, w, x, o)
  BY <1>3, WithOne
<1>5. WithMem(WithRegs(WithPc(s, p), r), m) = StateOf(p, r, c, m, x, o)
  BY <1>4, WithOne
<1>6. WithUnit(WithMem(WithRegs(WithPc(s, p), r), m), u) = StateOf(p, r, c, m, u, o)
  BY <1>5, WithOne
<1> QED
  BY <1>1, <1>2, <1>6, Zenon

(* The parts of a state are what it was put together from. *)
LEMMA Parts ==
  ASSUME NEW p, NEW r, NEW c, NEW m, NEW u, NEW o, NEW s, s = StateOf(p, r, c, m, u, o)
  PROVE  /\ s.pc = p /\ s.regs = r /\ s.csr = c /\ s.mem = m /\ s.unit = u
         /\ s.operand = o
         /\ IsState(s)
BY DEF StateOf, IsState

UnitOf(d, u) == IF d.custom = 0 THEN u ELSE d.unit

(* The parts of the state that undoing or redoing a delta leads to. *)
LEMMA MovedIs ==
  ASSUME NEW d, NEW s, IsState(s)
  PROVE  /\ Undone(d, s) = StateOf(d.old_pc, Backward(s.regs, d.regs), s.csr,
                                   Backward(s.mem, d.mems), UnitOf(d, s.unit), s.operand)
         /\ Redone(d, s) = StateOf(d.new_pc, Forward(s.regs, d.regs), s.csr,
                                   Forward(s.mem, d.mems), UnitOf(d, s.unit), s.operand)
<1>1. Undone(d, s) = With(s, d.old_pc, Backward(s.regs, d.regs), Backward(s.mem, d.mems),
                          UnitOf(d, s.unit))
  BY Zenon DEF Undone, With, Backward, UnitOf
<1>2. Redone(d, s) = With(s, d.new_pc, Forward(s.regs, d.regs), Forward(s.mem, d.mems),
                          UnitOf(d, s.unit))
  BY Zenon DEF Redone, With, Forward, UnitOf
<1> QED
  BY <1>1, <1>2, WithAll, Zenon

(* It is a state again. *)
LEMMA MovedState ==
  ASSUME NEW d, NEW s, IsState(s)
  PROVE  IsState(Undone(d, s)) /\ IsState(Redone(d, s))
BY MovedIs, Parts

(* Moving two states that look the same leads to two that look the same. *)
LEMMA MovedVisible ==
  ASSUME NEW d, NEW s, NEW t, IsState(s), IsState(t), Visible(s) = Visible(t)
  PROVE  /\ Visible(Undone(d, s)) = Visible(Undone(d, t))
         /\ Visible(Redone(d, s)) = Visible(Redone(d, t))
<1>1. s.pc = t.pc /\ s.regs = t.regs /\ s.csr = t.csr /\ s.mem = t.mem
  BY DEF Visible
<1>2. \A x, y : /\ x.pc = y.pc /\ x.regs = y.regs /\ x.csr = y.csr /\ x.mem = y.mem
               => Visible(x) = Visible(y)
  BY DEF Visible
<1>3. /\ Undone(d, s).pc = d.old_pc /\ Undone(d, t).pc = d.old_pc
      /\ Undone(d, s).regs = Backward(s.regs, d.regs)
      /\ Undone(d, t).regs = Backward(t.regs, d.regs)
      /\ Undone(d, s).mem = Backward(s.mem, d.mems)
      /\ Undone(d, t).mem = Backward(t.mem, d.mems)
      /\ Undone(d, s).csr = s.csr /\ Undone(d, t).csr = t.csr
  BY MovedIs, Parts
<1>4. /\ Redone(d, s).pc = d.new_pc /\ Redone(d, t).pc = d.new_pc
      /\ Redone(d, s).regs = Forward(s.regs, d.regs)
      /\ Redone(d, t).regs = Forward(t.regs, d.regs)
      /\ Redone(d, s).mem = Forward(s.mem, d.mems)
      /\ Redone(d, t).mem = Forward(t.mem, d.mems)
      /\ Redone(d, s).csr = s.csr /\ Redone(d, t).csr = t.csr
  BY MovedIs, Parts
<1> QED
  BY <1>1, <1>2, <1>3, <1>4, Zenon

Moved(w, d, s) == IF w = "old" THEN Undone(d, s) ELSE Redone(d, s)

IsChain(w, c, deltas, s, m, n) ==
  c = [k \in 0 .. m |-> IF k = 0 THEN s ELSE Moved(w, deltas[n + 1 - k], c[k - 1])]

(* There is such a chain, so its recursive definition defines it. *)
LEMMA ChainExists ==
  ASSUME NEW w, NEW deltas, NEW s, NEW n \in Nat
  PROVE  \E c : IsChain(w, c, deltas, s, n, n)
<1> DEFINE S == {m \in Nat : \E c : IsChain(w, c, deltas, s, m, n)}
<1>1. 0 \in S
  <2> DEFINE c == [k \in 0 .. 0 |-> s]
  <2>1. \A k \in 0 .. 0 : k = 0
    OBVIOUS
  <2>2. IsChain(w, c, deltas, s, 0, n)
    BY <2>1 DEF IsChain
  <2> QED
    BY <2>2
<1>2. ASSUME NEW m \in S PROVE m + 1 \in S
  <2>1. PICK c : IsChain(w, c, deltas, s, m, n)
    OBVIOUS
  <2> DEFINE e == [k \in 0 .. m + 1 |->
                     IF k = m + 1 THEN Moved(w, deltas[n + 1 - k], c[m]) ELSE c[k]]
  <2>2. ASSUME NEW k \in 0 .. m + 1
        PROVE  e[k] = IF k = 0 THEN s ELSE Moved(w, deltas[n + 1 - k], e[k - 1])
    <3>1. CASE k = m + 1
      <4>1. k # 0 /\ k - 1 = m /\ m \in 0 .. m + 1 /\ m # m + 1
        BY <3>1
      <4>2. e[k] = Moved(w, deltas[n + 1 - k], c[m]) /\ e[m] = c[m]
        BY <3>1, <4>1
      <4> HIDE DEF e
      <4> QED
        BY <4>1, <4>2
    <3>2. CASE k # m + 1
      <4>1. k \in 0 .. m /\ e[k] = c[k]
        BY <3>2
      <4>2. k # 0 => k - 1 \in 0 .. m + 1 /\ k - 1 # m + 1
        BY <3>2
      <4>3. k # 0 => e[k - 1] = c[k - 1]
        BY <4>2
      <4>4. c[k] = IF k = 0 THEN s ELSE Moved(w, deltas[n + 1 - k], c[k - 1])
        BY <2>1, <4>1, Zenon DEF IsChain
      <4> HIDE DEF e
      <4> QED
        BY <4>1, <4>3, <4>4
    <3> QED
      BY <3>1, <3>2
  <2>3. IsChain(w, e, deltas, s, m + 1, n)
    <3>1. e = [k \in 0 .. m + 1 |-> e[k]]
      OBVIOUS
    <3> HIDE DEF e
    <3> QED
      BY <2>2, <3>1, Zenon DEF IsChain
  <2> QED
    BY <2>3
<1>3. S = Nat
  <2>1. S \in SUBSET Nat /\ \A m \in S : m + 1 \in S
    BY <1>2
  <2> HIDE DEF S
  <2> QED
    BY <1>1, <2>1, NatSet
<1> QED
  BY <1>3

(* Its first state and the step from each to the next. *)
LEMMA ChainSteps ==
  ASSUME NEW w, NEW c, NEW deltas, NEW s, NEW n \in Nat, IsChain(w, c, deltas, s, n, n)
  PROVE  /\ c[0] = s
         /\ \A k \in 0 .. n - 1 : c[k + 1] = Moved(w, deltas[n - k], c[k])
<1>1. ASSUME NEW k \in 0 .. n
      PROVE  c[k] = IF k = 0 THEN s ELSE Moved(w, deltas[n + 1 - k], c[k - 1])
  BY Zenon DEF IsChain
<1>2. c[0] = s
  BY <1>1
<1>3. ASSUME NEW k \in 0 .. n - 1
      PROVE  c[k + 1] = Moved(w, deltas[n - k], c[k])
  <2>1. k + 1 \in 0 .. n /\ k + 1 # 0 /\ (k + 1) - 1 = k /\ n + 1 - (k + 1) = n - k
    OBVIOUS
  <2>2. c[k + 1] = Moved(w, deltas[n + 1 - (k + 1)], c[(k + 1) - 1])
    BY <1>1, <2>1
  <2> QED
    BY <2>1, <2>2
<1> QED
  BY <1>2, <1>3

(* The past is a chain read backwards, the future one read forwards. *)
LEMMA BehindIs ==
  ASSUME NEW deltas, NEW s, Len(deltas) \in Nat
  PROVE  \E c : /\ IsChain("old", c, deltas, s, Len(deltas), Len(deltas))
                /\ Behind(deltas, s) = [k \in 1 .. Len(deltas) |-> c[Len(deltas) + 1 - k]]
<1> DEFINE n == Len(deltas)
           b == CHOOSE c : IsChain("old", c, deltas, s, n, n)
<1>1. IsChain("old", b, deltas, s, n, n)
  BY ChainExists, Zenon
<1>2. Behind(deltas, s) = [k \in 1 .. n |-> b[n + 1 - k]]
  BY DEF Behind, IsChain, Moved
<1> QED
  BY <1>1, <1>2, Zenon

LEMMA AheadIs ==
  ASSUME NEW deltas, NEW s, Len(deltas) \in Nat
  PROVE  \E c : /\ IsChain("new", c, deltas, s, Len(deltas), Len(deltas))
                /\ Ahead(deltas, s) = [k \in 1 .. Len(deltas) |-> c[k]]
<1> DEFINE n == Len(deltas)
           b == CHOOSE c : IsChain("new", c, deltas, s, n, n)
<1>1. IsChain("new", b, deltas, s, n, n)
  BY ChainExists, Zenon
<1>2. Ahead(deltas, s) = [k \in 1 .. n |-> b[k]]
  BY DEF Ahead, IsChain, Moved
<1> QED
  BY <1>1, <1>2, Zenon

Other(w) == IF w = "old" THEN "new" ELSE "old"

(* The chain of one change more is the chain from where that change leads. *)
LEMMA ChainShift ==
  ASSUME NEW w, NEW S, NEW deltas \in Seq(S), NEW d \in S, NEW s,
         NEW n \in Nat, n = Len(deltas),
         NEW c, IsChain(w, c, Append(deltas, d), s, n + 1, n + 1),
         NEW e, IsChain(w, e, deltas, Moved(w, d, s), n, n)
  PROVE  /\ c[0] = s
         /\ \A k \in 0 .. n : c[k + 1] = e[k]
<1> DEFINE more == Append(deltas, d)
<1>1. /\ c[0] = s
      /\ \A k \in 0 .. (n + 1) - 1 : c[k + 1] = Moved(w, more[(n + 1) - k], c[k])
  <2>1. n + 1 \in Nat
    OBVIOUS
  <2> HIDE DEF more
  <2>2. IsChain(w, c, more, s, n + 1, n + 1)
    BY DEF more
  <2> QED
    BY <2>1, <2>2, ChainSteps
<1>2. /\ e[0] = Moved(w, d, s)
      /\ \A k \in 0 .. n - 1 : e[k + 1] = Moved(w, deltas[n - k], e[k])
  <2>1. n \in Nat /\ IsChain(w, e, deltas, Moved(w, d, s), n, n)
    OBVIOUS
  <2> QED
    BY ONLY <2>1, ChainSteps
<1>3. more[n + 1] = d /\ \A k \in 1 .. n : more[k] = deltas[k]
  BY AppendProperties
<1> HIDE DEF more
<1> DEFINE K == {k \in Nat : k <= n => c[k + 1] = e[k]}
<1>4. 0 \in K
  <2>1. 0 \in 0 .. (n + 1) - 1 /\ (n + 1) - 0 = n + 1 /\ 0 + 1 = 1
    OBVIOUS
  <2>2. c[0 + 1] = Moved(w, more[(n + 1) - 0], c[0])
    BY <1>1, <2>1
  <2>3. c[1] = e[0]
    BY <1>1, <1>2, <1>3, <2>1, <2>2
  <2> QED
    BY <2>3
<1>5. ASSUME NEW k \in K PROVE k + 1 \in K
  <2>1. SUFFICES ASSUME k + 1 <= n PROVE c[(k + 1) + 1] = e[k + 1]
    OBVIOUS
  <2>2. k \in Nat /\ k <= n /\ c[k + 1] = e[k]
    BY <2>1
  <2>3. k + 1 \in 0 .. (n + 1) - 1 /\ k \in 0 .. n - 1 /\ (n + 1) - (k + 1) = n - k
        /\ n - k \in 1 .. n
    BY <2>1, <2>2
  <2> HIDE DEF K
  <2>4. c[(k + 1) + 1] = Moved(w, more[(n + 1) - (k + 1)], c[k + 1])
    BY <1>1, <2>3
  <2>5. e[k + 1] = Moved(w, deltas[n - k], e[k])
    BY <1>2, <2>3
  <2> QED
    BY <1>3, <2>2, <2>3, <2>4, <2>5
<1>6. K = Nat
  <2>1. K \in SUBSET Nat /\ \A k \in K : k + 1 \in K
    BY <1>5
  <2> HIDE DEF K
  <2> QED
    BY <1>4, <2>1, NatSet
<1>7. ASSUME NEW k \in 0 .. n PROVE c[k + 1] = e[k]
  <2>1. k \in K
    BY <1>6
  <2> QED
    BY <2>1
<1> QED
  BY <1>1, <1>7

(* From states that look the same the chains look the same. *)
LEMMA ChainVisible ==
  ASSUME NEW w, NEW deltas, NEW s, NEW t, NEW n \in Nat, NEW c, NEW e,
         IsState(s), IsState(t), Visible(s) = Visible(t),
         IsChain(w, c, deltas, s, n, n), IsChain(w, e, deltas, t, n, n)
  PROVE  \A k \in 0 .. n : IsState(c[k]) /\ IsState(e[k]) /\ Visible(c[k]) = Visible(e[k])
<1> DEFINE Like(x, y) == IsState(x) /\ IsState(y) /\ Visible(x) = Visible(y)
           K == {k \in Nat : k <= n => Like(c[k], e[k])}
<1>1. c[0] = s /\ \A k \in 0 .. n - 1 : c[k + 1] = Moved(w, deltas[n - k], c[k])
  BY ChainSteps
<1>2. e[0] = t /\ \A k \in 0 .. n - 1 : e[k + 1] = Moved(w, deltas[n - k], e[k])
  BY ChainSteps
<1>3. 0 \in K
  BY <1>1, <1>2
<1>4. ASSUME NEW d, NEW x, NEW y, Like(x, y) PROVE Like(Moved(w, d, x), Moved(w, d, y))
  BY <1>4, MovedState, MovedVisible DEF Moved
<1> HIDE DEF Like
<1>5. ASSUME NEW k \in K PROVE k + 1 \in K
  <2>1. SUFFICES ASSUME k + 1 <= n PROVE Like(c[k + 1], e[k + 1])
    OBVIOUS
  <2>2. k \in 0 .. n - 1 /\ Like(c[k], e[k])
    BY <2>1
  <2> QED
    BY <1>1, <1>2, <1>4, <2>2
<1>6. K = Nat
  <2>1. K \in SUBSET Nat /\ \A k \in K : k + 1 \in K
    BY <1>5
  <2> HIDE DEF K
  <2> QED
    BY <1>3, <2>1, NatSet
<1>7. ASSUME NEW k \in 0 .. n PROVE Like(c[k], e[k])
  <2>1. k \in K
    BY <1>6
  <2> QED
    BY <2>1
<1> QED
  BY <1>7 DEF Like

(* Each change of the list, undone where it was redone or redone where it was *)
(* undone, leads back to a state that looks the same.                         *)
Linked(w, deltas, s) ==
  \A c : IsChain(w, c, deltas, s, Len(deltas), Len(deltas)) =>
    \A k \in 0 .. Len(deltas) - 1 :
      Visible(Moved(Other(w), deltas[Len(deltas) - k], c[k + 1])) = Visible(c[k])

(* Without changes nothing is to lead back. *)
LEMMA LinkedEmpty == ASSUME NEW w, NEW s PROVE Linked(w, <<>>, s)
<1>1. Len(<<>>) = 0 /\ 0 .. 0 - 1 = {}
  OBVIOUS
<1> QED
  BY <1>1 DEF Linked

(* A list of one change more is linked if the change is and the rest is, from the *)
(* state that the change leads to.                                                *)
LEMMA LinkedAppend ==
  ASSUME NEW w, NEW S, NEW deltas \in Seq(S), NEW d \in S, NEW s
  PROVE  Linked(w, Append(deltas, d), s) <=>
           /\ Linked(w, deltas, Moved(w, d, s))
           /\ Visible(Moved(Other(w), d, Moved(w, d, s))) = Visible(s)
<1> DEFINE n == Len(deltas)
           more == Append(deltas, d)
<1>1. n \in Nat /\ n + 1 \in Nat /\ Len(more) = n + 1
  BY AppendProperties, LenProperties
<1>2. PICK c : IsChain(w, c, more, s, n + 1, n + 1)
  BY <1>1, ChainExists, Zenon
<1>3. PICK e : IsChain(w, e, deltas, Moved(w, d, s), n, n)
  BY <1>1, ChainExists, Zenon
<1>4. /\ c[0] = s
      /\ \A k \in 0 .. n : c[k + 1] = e[k]
  BY <1>1, <1>2, <1>3, ChainShift
<1>5. e[0] = Moved(w, d, s)
  BY <1>1, <1>3, ChainSteps
<1>6. more[n + 1] = d /\ \A k \in 1 .. n : more[k] = deltas[k]
  BY AppendProperties
<1> HIDE DEF more, n
<1> DEFINE Back(k) == Visible(Moved(Other(w), more[n + 1 - k], c[k + 1])) = Visible(c[k])
           Was(k)  == Visible(Moved(Other(w), deltas[n - k], e[k + 1])) = Visible(e[k])
<1>7. Linked(w, more, s) <=> \A k \in 0 .. n : Back(k)
  <2>1. \A x : IsChain(w, x, more, s, n + 1, n + 1) => x = c
    <3>1. ASSUME NEW x, IsChain(w, x, more, s, n + 1, n + 1)
          PROVE  x = c
      <4>1. /\ x[0] = s
            /\ \A k \in 0 .. n : x[k + 1] = e[k]
        <5>1. /\ deltas \in Seq(S) /\ d \in S /\ n \in Nat /\ n = Len(deltas)
              /\ IsChain(w, x, Append(deltas, d), s, n + 1, n + 1)
              /\ IsChain(w, e, deltas, Moved(w, d, s), n, n)
          BY <1>1, <1>3, <3>1 DEF more, n
        <5> QED
          BY ONLY <5>1, ChainShift
      <4>2. /\ x = [k \in 0 .. n + 1 |-> x[k]]
            /\ c = [k \in 0 .. n + 1 |-> c[k]]
        BY <1>2, <3>1, Zenon DEF IsChain
      <4>3. \A k \in 0 .. n + 1 : x[k] = c[k]
        <5>1. ASSUME NEW k \in 0 .. n + 1 PROVE x[k] = c[k]
          <6>1. CASE k = 0
            BY <1>4, <4>1, <6>1
          <6>2. CASE k # 0
            <7>1. k - 1 \in 0 .. n /\ (k - 1) + 1 = k
              BY <1>1, <6>2
            <7> QED
              BY <1>4, <4>1, <7>1
          <6> QED
            BY <6>1, <6>2
        <5> QED
          BY <5>1
      <4> QED
        BY <4>2, <4>3, Zenon
    <3> QED
      BY <3>1
  <2>2. n + 1 - 1 = n
    BY <1>1
  <2> QED
    BY <1>1, <1>2, <2>1, <2>2 DEF Linked
<1>8. Linked(w, deltas, Moved(w, d, s)) <=> \A k \in 0 .. n - 1 : Was(k)
  <2>1. ASSUME NEW x, IsChain(w, x, deltas, Moved(w, d, s), n, n)
        PROVE  \A k \in 0 .. n : x[k] = e[k]
    <3>1. \A k \in 0 .. n : c[k + 1] = x[k]
      BY <1>1, <1>2, <2>1, ChainShift DEF more, n
    <3> QED
      BY <1>4, <3>1
  <2>2. ASSUME NEW k \in 0 .. n - 1 PROVE k \in 0 .. n /\ k + 1 \in 0 .. n
    BY <1>1
  <2> QED
    BY <1>3, <2>1, <2>2 DEF Linked, n
<1>9. (\A k \in 0 .. n : Back(k)) <=> Back(0) /\ \A k \in 0 .. n - 1 : Back(k + 1)
  <2>1. 0 \in 0 .. n /\ \A k \in 0 .. n - 1 : k + 1 \in 0 .. n
    BY <1>1
  <2>2. ASSUME NEW k \in 0 .. n, k # 0 PROVE k - 1 \in 0 .. n - 1 /\ (k - 1) + 1 = k
    BY <1>1, <2>2
  <2> HIDE DEF Back
  <2> QED
    BY <2>1, <2>2
<1>10. Back(0) <=> Visible(Moved(Other(w), d, Moved(w, d, s))) = Visible(s)
  <2>1. n + 1 - 0 = n + 1 /\ 0 + 1 = 1 /\ c[0 + 1] = e[0]
    BY <1>1, <1>4
  <2> QED
    BY <1>4, <1>5, <1>6, <2>1
<1>11. ASSUME NEW k \in 0 .. n - 1 PROVE Back(k + 1) <=> Was(k)
  <2>1. /\ n + 1 - (k + 1) = n - k /\ n - k \in 1 .. n
        /\ k \in 0 .. n /\ k + 1 \in 0 .. n
    BY <1>1
  <2>2. more[n - k] = deltas[n - k] /\ c[k + 1] = e[k] /\ c[(k + 1) + 1] = e[k + 1]
    BY <1>4, <1>6, <2>1
  <2> QED
    BY <2>1, <2>2
<1> HIDE DEF Back, Was
<1> QED
  BY <1>7, <1>8, <1>9, <1>10, <1>11 DEF more

(* Being linked depends on what can be seen of a state only. *)
LEMMA LinkedVisible ==
  ASSUME NEW w, NEW deltas, NEW s, NEW t, Len(deltas) \in Nat,
         IsState(s), IsState(t), Visible(s) = Visible(t), Linked(w, deltas, s)
  PROVE  Linked(w, deltas, t)
<1> DEFINE n == Len(deltas)
<1>1. PICK c : IsChain(w, c, deltas, s, n, n)
  BY ChainExists, Zenon
<1>2. SUFFICES ASSUME NEW e, IsChain(w, e, deltas, t, n, n), NEW k \in 0 .. n - 1
               PROVE  Visible(Moved(Other(w), deltas[n - k], e[k + 1])) = Visible(e[k])
  BY DEF Linked
<1>3. \A j \in 0 .. n : IsState(c[j]) /\ IsState(e[j]) /\ Visible(c[j]) = Visible(e[j])
  <2>1. /\ n \in Nat /\ IsState(s) /\ IsState(t) /\ Visible(s) = Visible(t)
        /\ IsChain(w, c, deltas, s, n, n) /\ IsChain(w, e, deltas, t, n, n)
    BY <1>1, <1>2
  <2> HIDE DEF n
  <2> QED
    BY ONLY <2>1, ChainVisible
<1>4. k \in 0 .. n /\ k + 1 \in 0 .. n
  OBVIOUS
<1>5. Visible(Moved(Other(w), deltas[n - k], c[k + 1])) = Visible(c[k])
  BY <1>1 DEF Linked
<1>6. Visible(Moved(Other(w), deltas[n - k], c[k + 1]))
        = Visible(Moved(Other(w), deltas[n - k], e[k + 1]))
  BY <1>3, <1>4, MovedVisible DEF Moved
<1> HIDE DEF n
<1> QED
  BY <1>3, <1>4, <1>5, <1>6

(* Some states and their length. *)
LEMMA StatesSeq ==
  ASSUME NEW n \in Nat, NEW b, b = [k \in 1 .. n |-> b[k]]
  PROVE  IsSeq(b) /\ Len(b) = n /\ DOMAIN b = 1 .. n
<1> DEFINE S == {b[k] : k \in 1 .. n}
<1>1. b \in [1 .. n -> S]
  OBVIOUS
<1>2. b \in Seq(S)
  BY <1>1, SeqDef
<1>3. Len(b) = n
  BY <1>1, <1>2, LenProperties
<1> QED
  BY <1>2, <1>3 DEF IsSeq

(* There are as many states behind, or ahead, as there are deltas. *)
LEMMA BehindSeq ==
  ASSUME NEW deltas, NEW s, Len(deltas) \in Nat
  PROVE  /\ IsSeq(Behind(deltas, s)) /\ Len(Behind(deltas, s)) = Len(deltas)
         /\ DOMAIN Behind(deltas, s) = 1 .. Len(deltas)
<1>1. PICK c : Behind(deltas, s) = [k \in 1 .. Len(deltas) |-> c[Len(deltas) + 1 - k]]
  BY BehindIs
<1>2. Behind(deltas, s) = [k \in 1 .. Len(deltas) |-> Behind(deltas, s)[k]]
  BY <1>1
<1> QED
  BY <1>2, StatesSeq

LEMMA AheadSeq ==
  ASSUME NEW deltas, NEW s, Len(deltas) \in Nat
  PROVE  /\ IsSeq(Ahead(deltas, s)) /\ Len(Ahead(deltas, s)) = Len(deltas)
         /\ DOMAIN Ahead(deltas, s) = 1 .. Len(deltas)
<1>1. PICK c : Ahead(deltas, s) = [k \in 1 .. Len(deltas) |-> c[k]]
  BY AheadIs
<1>2. Ahead(deltas, s) = [k \in 1 .. Len(deltas) |-> Ahead(deltas, s)[k]]
  BY <1>1
<1> QED
  BY <1>2, StatesSeq

(* Without deltas there are none. *)
LEMMA NoneBehind == ASSUME NEW s PROVE Behind(<<>>, s) = <<>> /\ Ahead(<<>>, s) = <<>>
<1>1. Len(<<>>) = 0 /\ 0 \in Nat
  OBVIOUS
<1>2. /\ IsSeq(Behind(<<>>, s)) /\ Len(Behind(<<>>, s)) = 0
      /\ IsSeq(Ahead(<<>>, s)) /\ Len(Ahead(<<>>, s)) = 0
  BY <1>1, BehindSeq, AheadSeq
<1>3. \A b : IsSeq(b) /\ Len(b) = 0 => b = <<>>
  BY EmptySeq DEF IsSeq
<1> QED
  BY <1>2, <1>3

(* The state before the newest change comes last in the past. *)
LEMMA BehindAppend ==
  ASSUME NEW S, NEW deltas \in Seq(S), NEW d \in S, NEW s
  PROVE  Behind(Append(deltas, d), s)
           = Append(Behind(deltas, Undone(d, s)), Undone(d, s))
<1> DEFINE n == Len(deltas)
           more == Append(deltas, d)
           t == Undone(d, s)
<1>1. n \in Nat /\ n + 1 \in Nat /\ Len(more) = n + 1
  BY AppendProperties, LenProperties
<1>2. t = Moved("old", d, s)
  BY DEF Moved
<1> HIDE DEF t
<1>3. PICK c : /\ IsChain("old", c, more, s, Len(more), Len(more))
               /\ Behind(more, s) = [k \in 1 .. Len(more) |-> c[Len(more) + 1 - k]]
  <2>1. Len(more) \in Nat
    BY <1>1
  <2> HIDE DEF more
  <2> QED
    BY ONLY <2>1, BehindIs
<1>4. PICK e : /\ IsChain("old", e, deltas, t, n, n)
               /\ Behind(deltas, t) = [k \in 1 .. n |-> e[n + 1 - k]]
  BY <1>1, BehindIs, Zenon
<1>5. /\ \A k \in 0 .. n : c[k + 1] = e[k]
      /\ e[0] = t
  <2>1. /\ deltas \in Seq(S) /\ d \in S /\ n \in Nat /\ n = Len(deltas)
        /\ IsChain("old", c, Append(deltas, d), s, n + 1, n + 1)
        /\ IsChain("old", e, deltas, Moved("old", d, s), n, n)
    BY <1>1, <1>2, <1>3, <1>4
  <2>2. \A k \in 0 .. n : c[k + 1] = e[k]
    BY ONLY <2>1, ChainShift
  <2>3. e[0] = Moved("old", d, s)
    BY ONLY <2>1, ChainSteps
  <2> QED
    BY <1>2, <2>2, <2>3
<1>6. Behind(more, s) = [k \in 1 .. n + 1 |-> c[n + 2 - k]]
  <2>1. (n + 1) + 1 = n + 2
    BY <1>1
  <2> QED
    BY <1>1, <1>3, <2>1
<1> DEFINE b == Behind(deltas, t)
<1>7. IsSeq(b) /\ Len(b) = n
  BY <1>1, BehindSeq
<1> HIDE DEF n, more
<1>8. ASSUME NEW k \in 1 .. n + 1 PROVE c[n + 2 - k] = IF k <= n THEN b[k] ELSE t
  <2>1. n + 1 - k \in 0 .. n /\ n + 2 - k = (n + 1 - k) + 1
    BY <1>1
  <2>2. c[n + 2 - k] = e[n + 1 - k]
    BY <1>5, <2>1
  <2>3. CASE k <= n
    BY <1>1, <1>4, <2>2, <2>3
  <2>4. CASE ~(k <= n)
    <3>1. n + 1 - k = 0
      BY <1>1, <2>4
    <3> QED
      BY <1>5, <2>2, <2>4, <3>1
  <2> QED
    BY <2>3, <2>4
<1> HIDE DEF b
<1>9. Append(b, t) = [k \in 1 .. n + 1 |-> IF k <= n THEN b[k] ELSE t]
  <2>1. PICK T : b \in Seq(T)
    BY <1>7 DEF IsSeq
  <2>2. b \in Seq(T \cup {t}) /\ t \in T \cup {t}
    BY <2>1, SeqDef
  <2>3. /\ Append(b, t) \in Seq(T \cup {t}) /\ Len(Append(b, t)) = n + 1
        /\ \A k \in 1 .. n : Append(b, t)[k] = b[k]
        /\ Append(b, t)[n + 1] = t
    BY <1>7, <2>2, AppendProperties
  <2>4. Append(b, t) = [k \in 1 .. n + 1 |-> Append(b, t)[k]]
    BY <2>3, LenProperties
  <2>5. \A k \in 1 .. n + 1 : Append(b, t)[k] = IF k <= n THEN b[k] ELSE t
    <3>1. ASSUME NEW k \in 1 .. n + 1
          PROVE  (k <= n => k \in 1 .. n) /\ (~(k <= n) => k = n + 1)
      BY <1>1
    <3> QED
      BY <2>3, <3>1
  <2> QED
    BY <2>4, <2>5
<1>10. [k \in 1 .. n + 1 |-> c[n + 2 - k]] = [k \in 1 .. n + 1 |-> IF k <= n THEN b[k] ELSE t]
  BY <1>8
<1> QED
  BY <1>6, <1>9, <1>10, Zenon DEF more, b, t

(* The state after the next change comes first in the future. *)
LEMMA AheadAppend ==
  ASSUME NEW S, NEW deltas \in Seq(S), NEW d \in S, NEW s
  PROVE  Ahead(Append(deltas, d), s) = <<Redone(d, s)>> \o Ahead(deltas, Redone(d, s))
<1> DEFINE n == Len(deltas)
           more == Append(deltas, d)
           t == Redone(d, s)
<1>1. n \in Nat /\ n + 1 \in Nat /\ Len(more) = n + 1
  BY AppendProperties, LenProperties
<1>2. t = Moved("new", d, s)
  BY DEF Moved
<1> HIDE DEF t
<1>3. PICK c : /\ IsChain("new", c, more, s, Len(more), Len(more))
               /\ Ahead(more, s) = [k \in 1 .. Len(more) |-> c[k]]
  BY <1>1, AheadIs, Zenon
<1>4. PICK e : /\ IsChain("new", e, deltas, t, n, n)
               /\ Ahead(deltas, t) = [k \in 1 .. n |-> e[k]]
  BY <1>1, AheadIs, Zenon
<1>5. /\ \A k \in 0 .. n : c[k + 1] = e[k]
      /\ e[0] = t
  <2>1. /\ deltas \in Seq(S) /\ d \in S /\ n \in Nat /\ n = Len(deltas)
        /\ IsChain("new", c, Append(deltas, d), s, n + 1, n + 1)
        /\ IsChain("new", e, deltas, Moved("new", d, s), n, n)
    BY <1>1, <1>2, <1>3, <1>4
  <2>2. \A k \in 0 .. n : c[k + 1] = e[k]
    BY ONLY <2>1, ChainShift
  <2>3. e[0] = Moved("new", d, s)
    BY ONLY <2>1, ChainSteps
  <2> QED
    BY <1>2, <2>2, <2>3
<1> DEFINE b == Ahead(deltas, t)
<1>7. IsSeq(b) /\ Len(b) = n
  BY <1>1, AheadSeq
<1> HIDE DEF n
<1>6. Ahead(more, s) = [k \in 1 .. n + 1 |-> c[k]]
  BY <1>1, <1>3
<1> HIDE DEF more
<1>8. ASSUME NEW k \in 1 .. n + 1 PROVE c[k] = IF k = 1 THEN t ELSE b[k - 1]
  <2>1. k - 1 \in 0 .. n /\ (k - 1) + 1 = k
    BY <1>1
  <2>2. c[k] = e[k - 1]
    BY <1>5, <2>1
  <2>3. CASE k = 1
    BY <1>1, <1>5, <2>2, <2>3
  <2>4. CASE k # 1
    <3>1. k - 1 \in 1 .. n
      BY <1>1, <2>4
    <3> QED
      BY <1>4, <2>2, <2>4, <3>1
  <2> QED
    BY <2>3, <2>4
<1> HIDE DEF b
<1>9. <<t>> \o b = [k \in 1 .. n + 1 |-> IF k = 1 THEN t ELSE b[k - 1]]
  <2>1. PICK T : b \in Seq(T)
    BY <1>7 DEF IsSeq
  <2> QED
    BY <1>1, <1>7, <2>1
<1>10. [k \in 1 .. n + 1 |-> c[k]] = [k \in 1 .. n + 1 |-> IF k = 1 THEN t ELSE b[k - 1]]
  BY <1>8
<1> QED
  BY <1>6, <1>9, <1>10, Zenon DEF more, b, t

(* From states that look the same, the past and the future look the same. *)
LEMMA BehindVisible ==
  ASSUME NEW deltas, NEW s, NEW t, Len(deltas) \in Nat,
         IsState(s), IsState(t), Visible(s) = Visible(t)
  PROVE  VisibleAll(Behind(deltas, s)) = VisibleAll(Behind(deltas, t))
<1> DEFINE n == Len(deltas)
<1>1. PICK c : /\ IsChain("old", c, deltas, s, n, n)
               /\ Behind(deltas, s) = [k \in 1 .. n |-> c[n + 1 - k]]
  BY BehindIs, Zenon
<1>2. PICK e : /\ IsChain("old", e, deltas, t, n, n)
               /\ Behind(deltas, t) = [k \in 1 .. n |-> e[n + 1 - k]]
  BY BehindIs, Zenon
<1>3. \A j \in 0 .. n : Visible(c[j]) = Visible(e[j])
  <2>1. /\ n \in Nat /\ IsState(s) /\ IsState(t) /\ Visible(s) = Visible(t)
        /\ IsChain("old", c, deltas, s, n, n) /\ IsChain("old", e, deltas, t, n, n)
    BY <1>1, <1>2
  <2> HIDE DEF n
  <2> QED
    BY ONLY <2>1, ChainVisible
<1>4. \A k \in 1 .. n : n + 1 - k \in 0 .. n
  OBVIOUS
<1>5. VisibleAll(Behind(deltas, s)) = [k \in 1 .. n |-> Visible(c[n + 1 - k])]
  BY <1>1 DEF VisibleAll
<1>6. VisibleAll(Behind(deltas, t)) = [k \in 1 .. n |-> Visible(e[n + 1 - k])]
  BY <1>2 DEF VisibleAll
<1> HIDE DEF n
<1>7. [k \in 1 .. n |-> Visible(c[n + 1 - k])] = [k \in 1 .. n |-> Visible(e[n + 1 - k])]
  BY <1>3, <1>4
<1> QED
  BY <1>5, <1>6, <1>7

LEMMA AheadVisible ==
  ASSUME NEW deltas, NEW s, NEW t, Len(deltas) \in Nat,
         IsState(s), IsState(t), Visible(s) = Visible(t)
  PROVE  VisibleAll(Ahead(deltas, s)) = VisibleAll(Ahead(deltas, t))
<1> DEFINE n == Len(deltas)
<1>1. PICK c : /\ IsChain("new", c, deltas, s, n, n)
               /\ Ahead(deltas, s) = [k \in 1 .. n |-> c[k]]
  BY AheadIs, Zenon
<1>2. PICK e : /\ IsChain("new", e, deltas, t, n, n)
               /\ Ahead(deltas, t) = [k \in 1 .. n |-> e[k]]
  BY AheadIs, Zenon
<1>3. \A j \in 0 .. n : Visible(c[j]) = Visible(e[j])
  <2>1. /\ n \in Nat /\ IsState(s) /\ IsState(t) /\ Visible(s) = Visible(t)
        /\ IsChain("new", c, deltas, s, n, n) /\ IsChain("new", e, deltas, t, n, n)
    BY <1>1, <1>2
  <2> HIDE DEF n
  <2> QED
    BY ONLY <2>1, ChainVisible
<1>4. \A k \in 1 .. n : k \in 0 .. n
  OBVIOUS
<1>5. VisibleAll(Ahead(deltas, s)) = [k \in 1 .. n |-> Visible(c[k])]
  BY <1>1 DEF VisibleAll
<1>6. VisibleAll(Ahead(deltas, t)) = [k \in 1 .. n |-> Visible(e[k])]
  BY <1>2 DEF VisibleAll
<1> HIDE DEF n
<1>7. [k \in 1 .. n |-> Visible(c[k])] = [k \in 1 .. n |-> Visible(e[k])]
  BY <1>3, <1>4
<1> QED
  BY <1>5, <1>6, <1>7

-------------------------------------------------------------------------------
(* The last entry taken off a sequence and put back. *)
LEMMA FrontAppendLast ==
  ASSUME NEW S, NEW s \in Seq(S), s # <<>>
  PROVE  s = Append(Front(s), Last(s))
<1>1. Len(s) \in Nat /\ Len(s) # 0 /\ DOMAIN s = 1 .. Len(s)
  BY EmptySeq, LenProperties
<1>2. Front(s) \in Seq(S) /\ Last(s) \in S
  BY FrontLast
<1>3. Front(s) = [k \in 1 .. Len(s) - 1 |-> s[k]]
  BY <1>1, SMT DEF Front
<1>4. Last(s) = s[Len(s)]
  BY DEF Last
<1> DEFINE t == Append(Front(s), Last(s))
<1>5. Len(Front(s)) = Len(s) - 1
  BY <1>1, <1>2, <1>3, LenProperties
<1>6. /\ t \in Seq(S) /\ Len(t) = Len(s)
      /\ \A k \in 1 .. Len(s) - 1 : t[k] = Front(s)[k]
      /\ t[Len(s)] = Last(s)
  <2>1. Len(Front(s)) + 1 = Len(s)
    BY <1>1, <1>5
  <2> QED
    BY <1>2, <1>5, <2>1, AppendProperties
<1> HIDE DEF t
<1>7. ASSUME NEW k \in 1 .. Len(s) PROVE t[k] = s[k]
  <2>1. \A n \in Nat : k \in 1 .. n => (k \in 1 .. n - 1) \/ k = n
    OBVIOUS
  <2> QED
    BY <1>1, <1>3, <1>4, <1>6, <2>1
<1>8. t = [k \in 1 .. Len(s) |-> t[k]] /\ s = [k \in 1 .. Len(s) |-> s[k]]
  BY <1>1, <1>6, LenProperties
<1> QED
  BY <1>7, <1>8 DEF t

(* The ends of a sequence. *)
LEMMA AppendEnds ==
  ASSUME NEW b, IsSeq(b), NEW x
  PROVE  /\ Append(b, x) # <<>> /\ Last(Append(b, x)) = x /\ Front(Append(b, x)) = b
<1>1. PICK T : b \in Seq(T)
  BY DEF IsSeq
<1> DEFINE S == T \cup {x}
           n == Len(b)
           a == Append(b, x)
<1>2. b \in Seq(S) /\ x \in S
  BY <1>1, SeqDef
<1> HIDE DEF S
<1>3. n \in Nat /\ DOMAIN b = 1 .. n /\ b = [k \in 1 .. n |-> b[k]]
  BY <1>2, LenProperties
<1>4. /\ Len(a) = n + 1 /\ a[n + 1] = x /\ \A k \in 1 .. n : a[k] = b[k]
  BY <1>2, AppendProperties
<1> HIDE DEF a, n
<1>5. a # <<>>
  BY <1>3, <1>4
<1>6. Last(a) = x
  BY <1>4 DEF Last
<1>7. Front(a) = b
  <2>1. (n + 1) - 1 = n
    BY <1>3
  <2>2. Front(a) = SubSeq(a, 1, n)
    BY <1>4, <2>1 DEF Front
  <2>3. SubSeq(a, 1, n) = [k \in 1 .. n |-> a[k]]
    BY <1>3, SMT
  <2> QED
    BY <1>3, <1>4, <2>2, <2>3
<1> QED
  BY <1>5, <1>6, <1>7 DEF a

LEMMA ConsEnds ==
  ASSUME NEW b, IsSeq(b), NEW x
  PROVE  /\ <<x>> \o b # <<>> /\ Head(<<x>> \o b) = x /\ Tail(<<x>> \o b) = b
<1>1. PICK T : b \in Seq(T)
  BY DEF IsSeq
<1> DEFINE S == T \cup {x}
           n == Len(b)
           a == <<x>> \o b
<1>2. b \in Seq(S) /\ <<x>> \in Seq(S)
  BY <1>1, SeqDef
<1> HIDE DEF S
<1>3. n \in Nat /\ DOMAIN b = 1 .. n /\ b = [k \in 1 .. n |-> b[k]]
  BY <1>2, LenProperties
<1>4. /\ a \in Seq(S) /\ Len(a) = n + 1 /\ a[1] = x /\ \A k \in 1 .. n : a[k + 1] = b[k]
  BY <1>2, <1>3
<1> HIDE DEF a, n
<1>5. a # <<>>
  BY <1>3, <1>4
<1>6. Head(a) = x
  BY <1>4
<1>7. Tail(a) = b
  <2>1. Tail(a) \in Seq(S) /\ Len(Tail(a)) = n /\ \A k \in 1 .. n : Tail(a)[k] = a[k + 1]
    BY <1>3, <1>4, <1>5, HeadTailProperties
  <2>2. Tail(a) = [k \in 1 .. n |-> Tail(a)[k]]
    BY <2>1, LenProperties
  <2> QED
    BY <1>3, <1>4, <2>1, <2>2
<1> QED
  BY <1>5, <1>6, <1>7 DEF a

(* What can be seen of a list of states. *)
LEMMA VisibleSeq ==
  ASSUME NEW b, IsSeq(b), NEW x
  PROVE  /\ IsSeq(VisibleAll(b))
         /\ VisibleAll(Append(b, x)) = Append(VisibleAll(b), Visible(x))
         /\ VisibleAll(<<x>> \o b) = <<Visible(x)>> \o VisibleAll(b)
         /\ VisibleAll(<<>>) = <<>>
<1>1. PICK T : b \in Seq(T)
  BY DEF IsSeq
<1> DEFINE S == T \cup {x}
           V == {Visible(y) : y \in S}
           n == Len(b)
           c == VisibleAll(b)
           a == Append(b, x)
           e == <<x>> \o b
<1>2. b \in Seq(S) /\ x \in S /\ <<x>> \in Seq(S)
  BY <1>1, SeqDef
<1>3. \A y \in S : Visible(y) \in V
  OBVIOUS
<1> HIDE DEF S, V
<1>4. n \in Nat /\ DOMAIN b = 1 .. n /\ \A k \in 1 .. n : b[k] \in S
  BY <1>2, LenProperties
<1>5. c \in Seq(V) /\ Len(c) = n /\ \A k \in 1 .. n : c[k] = Visible(b[k])
  <2>1. c = [k \in 1 .. n |-> Visible(b[k])]
    BY <1>4 DEF VisibleAll
  <2>2. c \in [1 .. n -> V]
    BY <1>3, <1>4, <2>1
  <2>3. c \in Seq(V)
    BY <1>4, <2>2, SeqDef
  <2> HIDE DEF c
  <2> QED
    BY <1>4, <2>1, <2>2, <2>3, LenProperties
<1>6. /\ a \in Seq(S) /\ Len(a) = n + 1 /\ a[n + 1] = x /\ \A k \in 1 .. n : a[k] = b[k]
  BY <1>2, AppendProperties
<1>7. /\ e \in Seq(S) /\ Len(e) = n + 1 /\ e[1] = x /\ \A k \in 1 .. n : e[k + 1] = b[k]
  BY <1>2, <1>4
<1>8. /\ Visible(x) \in V /\ <<Visible(x)>> \in Seq(V)
  BY <1>2, <1>3
<1> DEFINE p == Append(c, Visible(x))
           q == <<Visible(x)>> \o c
<1> HIDE DEF n, c
<1>9. /\ p \in Seq(V) /\ Len(p) = n + 1 /\ p[n + 1] = Visible(x)
      /\ \A k \in 1 .. n : p[k] = c[k]
  BY <1>5, <1>8, AppendProperties
<1>10. /\ q \in Seq(V) /\ Len(q) = n + 1 /\ q[1] = Visible(x)
       /\ \A k \in 1 .. n : q[k + 1] = c[k]
  BY <1>4, <1>5, <1>8
<1> HIDE DEF a, e, p, q
<1>11. VisibleAll(a) = p
  <2>1. VisibleAll(a) = [k \in 1 .. n + 1 |-> Visible(a[k])]
    BY <1>6, LenProperties DEF VisibleAll
  <2>2. p = [k \in 1 .. n + 1 |-> p[k]]
    BY <1>9, LenProperties
  <2>3. ASSUME NEW k \in 1 .. n + 1 PROVE p[k] = Visible(a[k])
    <3>1. k \in 1 .. n \/ k = n + 1
      BY <1>4
    <3> QED
      BY <1>5, <1>6, <1>9, <3>1
  <2> QED
    BY <2>1, <2>2, <2>3
<1>12. VisibleAll(e) = q
  <2>1. VisibleAll(e) = [k \in 1 .. n + 1 |-> Visible(e[k])]
    BY <1>7, LenProperties DEF VisibleAll
  <2>2. q = [k \in 1 .. n + 1 |-> q[k]]
    BY <1>10, LenProperties
  <2>3. ASSUME NEW k \in 1 .. n + 1 PROVE q[k] = Visible(e[k])
    <3>1. k = 1 \/ (k - 1 \in 1 .. n /\ (k - 1) + 1 = k)
      BY <1>4
    <3> QED
      BY <1>5, <1>7, <1>10, <3>1
  <2> QED
    BY <2>1, <2>2, <2>3
<1>13. VisibleAll(<<>>) = <<>>
  BY DEF VisibleAll
<1>14. IsSeq(VisibleAll(b))
  BY <1>5 DEF IsSeq, c
<1> QED
  BY <1>11, <1>12, <1>13, <1>14 DEF a, c, e, p, q
-------------------------------------------------------------------------------
(* Programs whose every instruction is recorded, and commands that neither *)
(* execute without recording nor replace the program: run and load leave   *)
(* the stacks of recorded changes as they are.  Resets are given to an idle *)
(* machine: one that falls into a step is followed by that step's entry.   *)
Recorded ==
  /\ \A p \in Programs : \A k \in DOMAIN p : p[k].op \notin {"csrrw", "bigmul"}
  /\ Commands \cap {"run", "load"} = {}
  /\ Patient

(* At most one change is recorded, and it is in force. *)
AtMostOne(f, changes, S) ==
  \/ changes = <<>>
  \/ \E c \in Change(S) : changes = <<c>> /\ f[c.at] = c.new

(* What the step being executed has recorded so far. *)
HPlain ==
  /\ start \in {"none", "ldbm"}
  /\ mode # "run"
  /\ \A k \in DOMAIN text : text[k].op \notin {"csrrw", "bigmul"}
  /\ phase = "head" => delta.regs = <<>> /\ delta.mems = <<>>
  /\ phase = "finish" => /\ AtMostOne(regs, delta.regs, Regs)
                         /\ AtMostOne(mem, delta.mems, 0 .. MemSize - 1)
                         /\ delta.custom = 0 => start = "none"

HInv == HPlain /\ Linked("old", undo, Present) /\ Linked("new", redo, Present)

(* A change taken back and made again. *)
LEMMA Replayed ==
  ASSUME NEW S, NEW f \in [S -> Digit], NEW changes, AtMostOne(f, changes, S)
  PROVE  Forward(Backward(f, changes), changes) = f
<1>1. CASE changes = <<>>
  BY <1>1, FoldShort DEF Forward, Backward
<1>2. ASSUME NEW c \in Change(S), changes = <<c>>, f[c.at] = c.new
      PROVE  Forward(Backward(f, changes), changes) = f
  <2>1. c.at \in S
    BY DEF Change
  <2>2. Backward(f, changes) = WriteOld(f, c)
    BY <1>2, FoldShort, Zenon DEF Backward
  <2>3. Forward(WriteOld(f, c), changes) = WriteNew(WriteOld(f, c), c)
    BY <1>2, FoldShort, Zenon DEF Forward
  <2>4. WriteNew(WriteOld(f, c), c) = f
    BY <1>2, <2>1 DEF WriteNew, WriteOld
  <2> QED
    BY <2>2, <2>3, <2>4
<1> QED
  BY <1>1, <1>2 DEF AtMostOne

(* A change just made: recorded when it differs, in force, and taken back. *)
Written(f, x, v) == [f EXCEPT ![x] = v]

Noted(f, x, v) == IF f[x] = v THEN <<>> ELSE <<[at |-> x, old |-> f[x], new |-> v]>>

LEMMA ChangeMade ==
  ASSUME NEW S, NEW f \in [S -> Digit], NEW x \in S, NEW v \in Digit
  PROVE  /\ Backward(Written(f, x, v), Noted(f, x, v)) = f
         /\ AtMostOne(Written(f, x, v), Noted(f, x, v), S)
<1> DEFINE g == [f EXCEPT ![x] = v]
           c == [at |-> x, old |-> f[x], new |-> v]
           changes == Noted(f, x, v)
<1>0. Written(f, x, v) = g
  BY DEF Written
<1>1. CASE f[x] = v
  <2>1. changes = <<>> /\ g = f
    BY <1>1 DEF Noted
  <2> QED
    BY <1>0, <2>1, FoldShort DEF Backward, AtMostOne
<1>2. CASE f[x] # v
  <2>1. changes = <<c>>
    BY <1>2 DEF Noted
  <2>2. c \in Change(S) /\ c.at = x /\ c.old = f[x] /\ c.new = v
    BY DEF Change
  <2>3. g[x] = v
    OBVIOUS
  <2>4. \A e : e.at = x /\ e.old = f[x] => WriteOld(g, e) = f
    BY DEF WriteOld
  <2> HIDE DEF c, g, changes
  <2>5. Backward(g, changes) = WriteOld(g, c)
    BY <2>1, FoldShort, Zenon DEF Backward
  <2>6. AtMostOne(g, changes, S)
    BY <2>1, <2>2, <2>3 DEF AtMostOne
  <2>7. Backward(g, changes) = f
    BY <2>2, <2>4, <2>5
  <2> QED
    BY <1>0, <2>6, <2>7 DEF changes
<1> QED
  BY <1>1, <1>2

(* What stays when nothing is recorded. *)
LEMMA NothingMade ==
  ASSUME NEW f, NEW S
  PROVE  Backward(f, <<>>) = f /\ AtMostOne(f, <<>>, S)
BY FoldShort DEF Backward, AtMostOne

(* The state and the next state by their parts. *)
LEMMA StateIs ==
  /\ State = StateOf(pc, regs, csr, mem, Unit!Snapshot, size_of_operand)
  /\ IsState(State)
<1>1. State = StateOf(pc, regs, csr, mem, Unit!Snapshot, size_of_operand)
  BY Zenon DEF State, StateOf
<1> QED
  BY <1>1, Parts

LEMMA StateThen ==
  /\ State' = StateOf(pc', regs', csr', mem', Unit!Snapshot', size_of_operand')
  /\ IsState(State')
<1>1. State' = StateOf(pc', regs', csr', mem', Unit!Snapshot', size_of_operand')
  BY Zenon DEF State, StateOf
<1> QED
  BY <1>1, Parts

(* The present is a state, in the middle of an instruction, too. *)
LEMMA PresentIs == IsState(Present)
BY StateIs, MovedState DEF Present

(* The fields of the delta a step starts from. *)
LEMMA PreviewFields ==
  ASSUME Typed
  PROVE  LET code == IF pc < program_size THEN CustomCode(text[pc + 1]) ELSE 0
         IN  /\ Preview \in Deltas
             /\ Preview.old_pc = pc /\ Preview.regs = delta.regs /\ Preview.mems = delta.mems
             /\ Preview.custom = code
             /\ code # 0 => Preview.unit = Unit!Snapshot
<1> DEFINE code == IF pc < program_size THEN CustomCode(text[pc + 1]) ELSE 0
           u == IF code = 0 THEN <<>> ELSE Unit!Snapshot
<1>1. Preview = [delta EXCEPT !.old_pc = pc, !.custom = code, !.unit = u]
  BY DEF Preview
<1>2. code # 0 => u = Unit!Snapshot
  OBVIOUS
<1>3. delta \in Deltas
  BY DEF Typed
<1> HIDE DEF code, u
<1>4. /\ Preview.old_pc = pc /\ Preview.regs = delta.regs /\ Preview.mems = delta.mems
      /\ Preview.custom = code /\ Preview.unit = u
  BY <1>1, <1>3 DEF Deltas
<1> QED
  BY <1>2, <1>4, PreviewTyped DEF code

(* The coprocessor as other instructions, LDBM and its load cycles leave it. *)
LEMMA OtherKeeps ==
  ASSUME NEW m, Unit!IssueOther(m)
  PROVE  /\ Unit!Snapshot' = Unit!Snapshot /\ size_of_operand' = size_of_operand
         /\ start' = "none" /\ mem' = m
BY DEF Unit!IssueOther, Unit!Snapshot, Unit!load, Unit!compute, Unit!target, Unit!flags

LEMMA LdbmKeeps ==
  ASSUME NEW a, NEW b, Unit!IssueLdbm(a, b)
  PROVE  size_of_operand' = size_of_operand /\ start' = "ldbm" /\ mem' = mem
BY DEF Unit!IssueLdbm, Unit!target

LEMMA LdbmCycleKeeps ==
  ASSUME Unit!Cycle, start # "bigmul"
  PROVE  /\ size_of_operand' = size_of_operand /\ start' = start /\ mem' = mem
         /\ start = "ldbm"
<1>1. Unit!LdbmCycle
  BY DEF Unit!Cycle, Unit!ComputeCycle, Unit!WriteCycle
<1> QED
  BY <1>1 DEF Unit!LdbmCycle, Unit!target

(* Taking back what an instruction has changed leads to the state before it. *)
LEMMA TakenBack ==
  ASSUME delta'.old_pc = pc,
         Backward(regs', delta'.regs) = regs, csr' = csr, Backward(mem', delta'.mems) = mem,
         UnitOf(delta', Unit!Snapshot') = Unit!Snapshot, size_of_operand' = size_of_operand
  PROVE  Undone(delta', State') = State
<1> DEFINE s == State'
<1>1. /\ s.regs = regs' /\ s.csr = csr' /\ s.mem = mem' /\ s.unit = Unit!Snapshot'
      /\ s.operand = size_of_operand' /\ IsState(s)
  BY StateThen, Parts
<1> HIDE DEF s
<1>2. Undone(delta', s) = StateOf(delta'.old_pc, Backward(s.regs, delta'.regs), s.csr,
                                  Backward(s.mem, delta'.mems), UnitOf(delta', s.unit),
                                  s.operand)
  BY <1>1, MovedIs
<1>3. Undone(delta', s) = StateOf(pc, regs, csr, mem, Unit!Snapshot, size_of_operand)
  BY <1>1, <1>2
<1> QED
  BY <1>3, StateIs DEF s

(* What an instruction changes is what it records. *)
LEMMA ExecuteRecords ==
  ASSUME Typed, HPlain, phase = "head", pc < program_size, ExecuteInstruction(Preview)
  PROVE  /\ Undone(delta', State') = State
         /\ AtMostOne(regs', delta'.regs, Regs)
         /\ AtMostOne(mem', delta'.mems, 0 .. MemSize - 1)
         /\ delta'.custom = 0 => start' = "none"
         /\ start' \in {"none", "ldbm"}
<1> DEFINE i == text[pc + 1]
           d == Preview
<1>1. i \in Instruction /\ i.op \notin {"csrrw", "bigmul"}
  <2>1. Len(text) \in Nat
    BY LenProperties DEF Typed
  <2>2. pc + 1 \in DOMAIN text
    BY <2>1, LenProperties DEF Typed
  <2>3. pc + 1 \in 1 .. Len(text)
    BY <2>1 DEF Typed
  <2>4. i \in Instruction
    BY <2>3, ElementOfSeq DEF Typed
  <2> QED
    BY <2>2, <2>4 DEF HPlain
<1>2. /\ d \in Deltas /\ d.old_pc = pc /\ d.regs = <<>> /\ d.mems = <<>>
      /\ d.custom = CustomCode(i)
      /\ CustomCode(i) # 0 => d.unit = Unit!Snapshot
  BY PreviewFields DEF HPlain
<1>3. Alu(i, d) \/ Store(i, d) \/ Jump(i, d) \/ NoOp(i, d) \/ Custom(i, d)
  BY <1>1 DEF ExecuteInstruction, Csrrw
<1>4. regs \in [Regs -> Digit] /\ mem \in [0 .. MemSize - 1 -> Digit]
  BY MemTyped DEF Typed
<1> HIDE DEF i, d
<1>7. CASE Alu(i, d)
  <2> DEFINE new == (regs[i.rd] + i.imm) % Base
             made == RegChange(i.rd, new)
  <2>1. i.op = "addi" /\ i.rd \in Regs /\ i.imm \in Int
    BY <1>1, <1>7 DEF Alu, Instruction
  <2>2. new \in Digit
    <3>1. regs[i.rd] \in Digit /\ Base \in Nat /\ Base > 0
      BY <1>4, <2>1, VmAssumption
    <3>2. regs[i.rd] + i.imm \in Int
      BY <2>1, <3>1 DEF Digit
    <3> QED
      BY <3>1, <3>2 DEF Digit
  <2>3. /\ regs' = [regs EXCEPT ![i.rd] = new]
        /\ delta' = [d EXCEPT !.regs = d.regs \o made]
        /\ Unit!IssueOther(mem) /\ csr' = csr
    BY <1>7 DEF Alu
  <2>4. made = IF regs[i.rd] = new THEN <<>>
               ELSE <<[at |-> i.rd, old |-> regs[i.rd], new |-> new]>>
    BY DEF RegChange
  <2> HIDE DEF new
  <2>5. <<>> \o made = made
    BY <2>4
  <2> HIDE DEF made
  <2>6. /\ delta'.old_pc = pc /\ delta'.regs = made /\ delta'.mems = <<>>
        /\ delta'.custom = CustomCode(i)
    BY <1>2, <2>3, <2>5 DEF Deltas
  <2>7. Backward(regs', made) = regs /\ AtMostOne(regs', made, Regs)
    <3>1. made = Noted(regs, i.rd, new) /\ regs' = Written(regs, i.rd, new)
      BY <2>4, <2>3, Zenon DEF Noted, Written
    <3>2. regs \in [Regs -> Digit] /\ i.rd \in Regs /\ new \in Digit
      BY <1>4, <2>1, <2>2
    <3> QED
      BY <3>1, <3>2, ChangeMade
  <2>8. /\ Unit!Snapshot' = Unit!Snapshot /\ size_of_operand' = size_of_operand
        /\ start' = "none" /\ mem' = mem
    BY <2>3, OtherKeeps
  <2>9. Backward(mem', <<>>) = mem /\ AtMostOne(mem', <<>>, 0 .. MemSize - 1)
    BY <2>8, NothingMade
  <2>10. UnitOf(delta', Unit!Snapshot') = Unit!Snapshot
    BY <2>1, <2>6, <2>8 DEF UnitOf, CustomCode
  <2> QED
    BY <2>3, <2>6, <2>7, <2>8, <2>9, <2>10, TakenBack
<1>8. CASE Store(i, d)
  <2> DEFINE new == regs[i.rs]
             made == MemChange(i.addr, new)
  <2>1. i.op = "sd" /\ i.rs \in Regs /\ i.addr \in 0 .. MemSize - 1
    BY <1>1, <1>8 DEF Store, Instruction
  <2>2. new \in Digit
    BY <1>4, <2>1
  <2>3. /\ Unit!IssueOther([mem EXCEPT ![i.addr] = new])
        /\ delta' = [d EXCEPT !.mems = d.mems \o made]
        /\ regs' = regs /\ csr' = csr
    BY <1>8 DEF Store
  <2>4. made = IF mem[i.addr] = new THEN <<>>
               ELSE <<[at |-> i.addr, old |-> mem[i.addr], new |-> new]>>
    BY DEF MemChange
  <2> HIDE DEF new
  <2>5. <<>> \o made = made
    BY <2>4
  <2> HIDE DEF made
  <2>6. /\ delta'.old_pc = pc /\ delta'.regs = <<>> /\ delta'.mems = made
        /\ delta'.custom = CustomCode(i)
    BY <1>2, <2>3, <2>5 DEF Deltas
  <2>8. /\ Unit!Snapshot' = Unit!Snapshot /\ size_of_operand' = size_of_operand
        /\ start' = "none" /\ mem' = [mem EXCEPT ![i.addr] = new]
    BY <2>3, OtherKeeps
  <2>7. Backward(mem', made) = mem /\ AtMostOne(mem', made, 0 .. MemSize - 1)
    <3>1. made = Noted(mem, i.addr, new) /\ mem' = Written(mem, i.addr, new)
      BY <2>4, <2>8, Zenon DEF Noted, Written
    <3> DEFINE A == 0 .. MemSize - 1
    <3>2. mem \in [A -> Digit] /\ i.addr \in A /\ new \in Digit
      BY <1>4, <2>1, <2>2
    <3> HIDE DEF A
    <3>3. Backward(mem', made) = mem /\ AtMostOne(mem', made, A)
      BY <3>1, <3>2, ChangeMade
    <3> QED
      BY <3>3 DEF A
  <2>9. Backward(regs', <<>>) = regs /\ AtMostOne(regs', <<>>, Regs)
    BY <2>3, NothingMade
  <2>10. UnitOf(delta', Unit!Snapshot') = Unit!Snapshot
    BY <2>1, <2>6, <2>8 DEF UnitOf, CustomCode
  <2> QED
    BY <2>3, <2>6, <2>7, <2>8, <2>9, <2>10, TakenBack
<1>9. CASE Jump(i, d) \/ NoOp(i, d)
  <2>1. i.op \in {"jal", "nop"} /\ delta' = d /\ Unit!IssueOther(mem)
        /\ regs' = regs /\ csr' = csr
    BY <1>9 DEF Jump, NoOp
  <2>2. /\ Unit!Snapshot' = Unit!Snapshot /\ size_of_operand' = size_of_operand
        /\ start' = "none" /\ mem' = mem
    BY <2>1, OtherKeeps
  <2>3. /\ Backward(regs', <<>>) = regs /\ AtMostOne(regs', <<>>, Regs)
        /\ Backward(mem', <<>>) = mem /\ AtMostOne(mem', <<>>, 0 .. MemSize - 1)
    BY <2>1, <2>2, NothingMade
  <2>4. UnitOf(delta', Unit!Snapshot') = Unit!Snapshot
    BY <1>2, <2>1, <2>2 DEF UnitOf, CustomCode
  <2> QED
    BY <1>2, <2>1, <2>2, <2>3, <2>4, TakenBack
<1>10. CASE Custom(i, d)
  <2>1. i.op = "ldbm" /\ Unit!IssueLdbm(i.a, i.b) /\ delta' = d /\ regs' = regs /\ csr' = csr
    BY <1>1, <1>10 DEF Custom
  <2>2. size_of_operand' = size_of_operand /\ start' = "ldbm" /\ mem' = mem
    BY <2>1, LdbmKeeps
  <2>3. /\ Backward(regs', <<>>) = regs /\ AtMostOne(regs', <<>>, Regs)
        /\ Backward(mem', <<>>) = mem /\ AtMostOne(mem', <<>>, 0 .. MemSize - 1)
    BY <2>1, <2>2, NothingMade
  <2>4. d.custom = 1 /\ d.unit = Unit!Snapshot
    BY <1>2, <2>1 DEF CustomCode
  <2>5. UnitOf(delta', Unit!Snapshot') = Unit!Snapshot
    BY <2>1, <2>4 DEF UnitOf
  <2> QED
    BY <1>2, <2>1, <2>2, <2>3, <2>4, <2>5, TakenBack
<1> QED
  BY <1>3, <1>7, <1>8, <1>9, <1>10

(* The ways a step moves along the list of states.  A recorded step leads *)
(* on from the present and back to it; all others leave it, or are one of *)
(* the two moves, or forget the list.                                     *)
Stays ==
  Present' = Present /\ undo' = undo /\ redo' = redo

Extends ==
  \E d \in Deltas : /\ Undone(d, Present') = Present
                    /\ Visible(Redone(d, Present)) = Visible(Present')
                    /\ undo' = Append(undo, d) /\ redo' = <<>>

MovesBack ==
  /\ undo # <<>>
  /\ Present' = Undone(Last(undo), Present)
  /\ undo' = Front(undo) /\ redo' = Append(redo, Last(undo))

MovesOn ==
  /\ redo # <<>>
  /\ Present' = Redone(Last(redo), Present)
  /\ redo' = Front(redo) /\ undo' = Append(undo, Last(redo))
  /\ Redo

Forgets ==
  undo' = <<>> /\ redo' = <<>> /\ Cleared'

Moves == Stays \/ Extends \/ MovesBack \/ MovesOn \/ Forgets

(* Steps that touch neither the machine nor the records. *)
LEMMA IdleStays ==
  ASSUME HPlain, UNCHANGED <<unitVars, mem, text, pc, regs, csr, phase, delta, undo, redo>>,
         mode' # "run"
  PROVE  HPlain' /\ Stays
<1>1. start' = start /\ size_of_operand' = size_of_operand /\ Unit!Snapshot' = Unit!Snapshot
  BY DEF unitVars, Unit!Snapshot
<1>2. HPlain'
  BY <1>1 DEF HPlain
<1>3. State' = State
  BY <1>1, StateIs, StateThen
<1>4. Present' = Present
  BY <1>3 DEF Present
<1> QED
  BY <1>2, <1>4 DEF Stays

(* Issuing an instruction leaves the present: it is not finished yet. *)
LEMMA InstructionStays ==
  ASSUME Typed, HPlain, phase = "head", pc < program_size, ExecuteInstruction(Preview),
         phase' = "finish", mode' # "run", UNCHANGED <<text, undo, redo>>
  PROVE  HPlain' /\ Stays
<1>1. /\ Undone(delta', State') = State
      /\ AtMostOne(regs', delta'.regs, Regs)
      /\ AtMostOne(mem', delta'.mems, 0 .. MemSize - 1)
      /\ delta'.custom = 0 => start' = "none"
      /\ start' \in {"none", "ldbm"}
  BY ExecuteRecords
<1>2. HPlain'
  BY <1>1 DEF HPlain
<1>3. Present' = Present
  BY <1>1 DEF Present
<1> QED
  BY <1>2, <1>3 DEF Stays

(* So do its stall cycles, since only a recorded LDBM has any. *)
LEMMA FinishStays ==
  ASSUME HPlain, FinishCycle
  PROVE  HPlain' /\ Stays
<1>1. /\ phase = "finish" /\ Unit!Cycle
      /\ UNCHANGED <<text, pc, regs, csr, mode, phase, delta, undo, redo>>
  BY DEF FinishCycle, machine, control, history
<1>2. /\ size_of_operand' = size_of_operand /\ start' = start /\ mem' = mem
      /\ start = "ldbm"
  BY <1>1, LdbmCycleKeeps DEF HPlain
<1>3. delta.custom # 0
  BY <1>1, <1>2 DEF HPlain
<1>4. HPlain'
  BY <1>1, <1>2 DEF HPlain
<1>5. Undone(delta, State') = Undone(delta, State)
  <2>1. \A u, v : UnitOf(delta, u) = UnitOf(delta, v)
    BY <1>3 DEF UnitOf
  <2>2. /\ State'.regs = regs /\ State'.csr = csr /\ State'.mem = mem
        /\ State'.operand = size_of_operand /\ IsState(State')
    BY <1>1, <1>2, StateThen, Parts
  <2>3. /\ State.regs = regs /\ State.csr = csr /\ State.mem = mem
        /\ State.operand = size_of_operand /\ IsState(State)
    BY StateIs, Parts
  <2>4. Undone(delta, State') = StateOf(delta.old_pc, Backward(regs, delta.regs), csr,
                                        Backward(mem, delta.mems),
                                        UnitOf(delta, State'.unit), size_of_operand)
    BY <2>2, MovedIs
  <2>5. Undone(delta, State) = StateOf(delta.old_pc, Backward(regs, delta.regs), csr,
                                       Backward(mem, delta.mems),
                                       UnitOf(delta, State.unit), size_of_operand)
    BY <2>3, MovedIs
  <2> QED
    BY <2>1, <2>4, <2>5
<1>6. Present' = Present
  BY <1>1, <1>5 DEF Present
<1> QED
  BY <1>1, <1>4, <1>6 DEF Stays

(* Pushing the delta of a finished instruction extends the past. *)
LEMMA CommitExtends ==
  ASSUME Typed, HPlain, Commit
  PROVE  HPlain' /\ Extends
<1> DEFINE d == [delta EXCEPT !.new_pc = pc]
<1>1. /\ phase = "finish" /\ phase' = "head" /\ mode' # "run"
      /\ undo' = Append(undo, d) /\ redo' = <<>> /\ delta' = NoDelta
      /\ UNCHANGED <<unitVars, mem, text, pc, regs, csr>>
  BY DEF Commit, machine
<1>2. /\ d \in Deltas /\ d.old_pc = delta.old_pc /\ d.new_pc = pc /\ d.regs = delta.regs
      /\ d.mems = delta.mems /\ d.custom = delta.custom /\ d.unit = delta.unit
  <2>1. delta \in Deltas /\ pc \in Nat
    BY DEF Typed
  <2>2. d \in Deltas
    BY <2>1, DeltaChanged
  <2> QED
    BY <2>1, <2>2 DEF Deltas
<1> HIDE DEF d
<1>3. start' = start /\ size_of_operand' = size_of_operand /\ Unit!Snapshot' = Unit!Snapshot
  BY <1>1 DEF unitVars, Unit!Snapshot
<1>4. HPlain'
  BY <1>1, <1>3 DEF HPlain, NoDelta
<1>5. State' = State /\ Present' = State /\ Present = Undone(delta, State)
  BY <1>1, <1>3, StateIs, StateThen DEF Present
<1>6. /\ State.regs = regs /\ State.csr = csr /\ State.mem = mem /\ State.pc = pc
      /\ State.operand = size_of_operand /\ IsState(State)
  BY StateIs, Parts
<1>7. Undone(d, State) = Undone(delta, State)
  <2>1. UnitOf(d, State.unit) = UnitOf(delta, State.unit)
    BY <1>2 DEF UnitOf
  <2>2. /\ Undone(d, State) = StateOf(d.old_pc, Backward(State.regs, d.regs), State.csr,
                               Backward(State.mem, d.mems), UnitOf(d, State.unit),
                               State.operand)
        /\ Undone(delta, State) = StateOf(delta.old_pc, Backward(State.regs, delta.regs),
                               State.csr, Backward(State.mem, delta.mems),
                               UnitOf(delta, State.unit), State.operand)
    BY <1>6, MovedIs, Zenon
  <2> QED
    BY <1>2, <2>1, <2>2, Zenon
<1>8. Visible(Redone(d, Undone(d, State))) = Visible(State)
  <2> DEFINE s == Undone(d, State)
  <2>1. /\ s.regs = Backward(regs, delta.regs) /\ s.csr = csr
        /\ s.mem = Backward(mem, delta.mems) /\ IsState(s)
    <3>1. s = StateOf(d.old_pc, Backward(regs, delta.regs), csr,
                      Backward(mem, delta.mems), UnitOf(d, State.unit), size_of_operand)
      BY <1>2, <1>6, MovedIs
    <3> HIDE DEF s
    <3> QED
      BY <3>1, Parts
  <2> HIDE DEF s
  <2>2. Redone(d, s) = StateOf(pc, Forward(s.regs, delta.regs), s.csr,
                               Forward(s.mem, delta.mems), UnitOf(d, s.unit), s.operand)
    BY <1>2, <2>1, MovedIs
  <2>3. Forward(Backward(regs, delta.regs), delta.regs) = regs
    BY <1>1, Replayed DEF HPlain, Typed
  <2>4. Forward(Backward(mem, delta.mems), delta.mems) = mem
    <3>1. mem \in [0 .. MemSize - 1 -> Digit] /\ AtMostOne(mem, delta.mems, 0 .. MemSize - 1)
      BY <1>1, MemTyped DEF HPlain, Typed
    <3> QED
      BY <3>1, Replayed
  <2>5. Redone(d, s) = StateOf(pc, regs, csr, mem, UnitOf(d, s.unit), s.operand)
    BY <2>1, <2>2, <2>3, <2>4
  <2>6. /\ Redone(d, s).pc = pc /\ Redone(d, s).regs = regs /\ Redone(d, s).csr = csr
        /\ Redone(d, s).mem = mem
    BY <2>5, Parts
  <2> QED
    BY <1>6, <2>6 DEF Visible, s
<1>9. Extends
  <2>1. Undone(d, Present') = Present
    BY <1>5, <1>7
  <2>2. Visible(Redone(d, Present)) = Visible(Present')
    BY <1>5, <1>7, <1>8
  <2> QED
    BY <1>1, <1>2, <2>1, <2>2, Zenon DEF Extends
<1> QED
  BY <1>4, <1>9

(* A thread that is idle has finished its instruction. *)
LEMMA IdleAtHead == RInv /\ mode = "idle" => phase = "head" /\ Present = State
BY DEF RInv, Present

(* Undo and Redo bring back what the delta says of the coprocessor. *)
LEMMA RestoreBrings ==
  ASSUME Typed, NEW d \in Deltas, RestoreUnit(d)
  PROVE  /\ Unit!Snapshot' = UnitOf(d, Unit!Snapshot)
         /\ start' = start /\ size_of_operand' = size_of_operand
<1>1. CASE d.custom = 0
  BY <1>1 DEF RestoreUnit, unitVars, UnitOf, Unit!Snapshot
<1>2. CASE d.custom # 0
  <2>1. Unit!Restore(d.unit) /\ d.unit \in Snapshots
    BY <1>2 DEF RestoreUnit, Deltas
  <2>2. Unit!Snapshot' = d.unit
    BY <2>1 DEF Unit!Restore, Unit!Snapshot, Snapshots, UnitProofs!Snapshots
  <2> QED
    BY <1>2, <2>1, <2>2 DEF UnitOf, Unit!Restore
<1> QED
  BY <1>1, <1>2

(* Undo moves back by the newest delta, Redo on by the one undone last. *)
LEMMA UndoMovesBack ==
  ASSUME Typed, RInv, HPlain, Undo
  PROVE  HPlain' /\ MovesBack
<1> DEFINE d == Last(undo)
<1>1. /\ mode = "idle" /\ undo # <<>> /\ RestoreUnit(d)
      /\ regs' = Backward(regs, d.regs) /\ mem' = Backward(mem, d.mems)
      /\ pc' = d.old_pc /\ csr' = csr
      /\ undo' = Front(undo) /\ redo' = Append(redo, d)
      /\ UNCHANGED <<text, mode, phase, delta>>
  BY DEF Undo, Backward, control
<1>2. d \in Deltas
  BY <1>1, FrontLast DEF Typed
<1>3. phase = "head" /\ phase' = "head" /\ Present = State /\ Present' = State'
  BY <1>1, IdleAtHead DEF Present
<1> HIDE DEF d
<1>4. /\ Unit!Snapshot' = UnitOf(d, Unit!Snapshot)
      /\ start' = start /\ size_of_operand' = size_of_operand
  BY <1>1, <1>2, RestoreBrings
<1>5. HPlain'
  BY <1>1, <1>3, <1>4 DEF HPlain
<1>6. State' = Undone(d, State)
  <2>1. /\ State.regs = regs /\ State.csr = csr /\ State.mem = mem
        /\ State.unit = Unit!Snapshot
        /\ State.operand = size_of_operand /\ IsState(State)
    BY StateIs, Parts
  <2>2. Undone(d, State) = StateOf(d.old_pc, Backward(regs, d.regs), csr,
                                   Backward(mem, d.mems), UnitOf(d, Unit!Snapshot),
                                   size_of_operand)
    BY <2>1, MovedIs
  <2> QED
    BY <1>1, <1>4, <2>2, StateThen
<1> QED
  BY <1>1, <1>3, <1>5, <1>6 DEF MovesBack, d

LEMMA RedoMovesOn ==
  ASSUME Typed, RInv, HPlain, Redo
  PROVE  HPlain' /\ MovesOn
<1> DEFINE d == Last(redo)
<1>1. /\ mode = "idle" /\ redo # <<>> /\ RestoreUnit(d)
      /\ regs' = Forward(regs, d.regs) /\ mem' = Forward(mem, d.mems)
      /\ pc' = d.new_pc /\ csr' = csr
      /\ redo' = Front(redo) /\ undo' = Append(undo, d)
      /\ UNCHANGED <<text, mode, phase, delta>>
  BY DEF Redo, Forward, control
<1>2. d \in Deltas
  BY <1>1, FrontLast DEF Typed
<1>3. phase = "head" /\ phase' = "head" /\ Present = State /\ Present' = State'
  BY <1>1, IdleAtHead DEF Present
<1> HIDE DEF d
<1>4. /\ Unit!Snapshot' = UnitOf(d, Unit!Snapshot)
      /\ start' = start /\ size_of_operand' = size_of_operand
  BY <1>1, <1>2, RestoreBrings
<1>5. HPlain'
  BY <1>1, <1>3, <1>4 DEF HPlain
<1>6. State' = Redone(d, State)
  <2>1. /\ State.regs = regs /\ State.csr = csr /\ State.mem = mem
        /\ State.unit = Unit!Snapshot
        /\ State.operand = size_of_operand /\ IsState(State)
    BY StateIs, Parts
  <2>2. Redone(d, State) = StateOf(d.new_pc, Forward(regs, d.regs), csr,
                                   Forward(mem, d.mems), UnitOf(d, Unit!Snapshot),
                                   size_of_operand)
    BY <2>1, MovedIs
  <2> QED
    BY <1>1, <1>4, <2>2, StateThen
<1> QED
  BY <1>1, <1>3, <1>5, <1>6 DEF MovesOn, d

(* Reset clears the machine and forgets. *)
LEMMA ResetForgets ==
  ASSUME Patient, Typed, RInv, HPlain, Reset
  PROVE  HPlain' /\ Forgets
<1>1. /\ mode = "idle" /\ Unit!Reset
      /\ text' = [j \in DOMAIN text |-> Nop]
      /\ pc' = 0 /\ regs' = [r \in Regs |-> 0]
      /\ delta' = [delta EXCEPT !.regs = <<>>, !.mems = <<>>, !.old_pc = 0, !.new_pc = 0]
      /\ undo' = <<>> /\ redo' = <<>> /\ mode' = mode /\ phase' = phase
  BY DEF Reset, control
<1>2. start' = "none" /\ mem' = [x \in 0 .. MemSize - 1 |-> 0]
  BY <1>1 DEF Unit!Reset, Unit!Addr
<1>3. delta'.regs = <<>> /\ delta'.mems = <<>>
  BY <1>1 DEF Typed, Deltas
<1>4. phase = "head"
  BY <1>1, IdleAtHead
<1>5. \A k \in DOMAIN text' : text'[k].op = "nop"
  BY <1>1 DEF Nop
<1>6. HPlain'
  BY <1>1, <1>2, <1>3, <1>4, <1>5 DEF HPlain
<1> QED
  BY <1>1, <1>2, <1>6 DEF Forgets, Cleared

(* Every step is one of the moves. *)
LEMMA StepMoves ==
  ASSUME Recorded, VInv, HPlain, [Next]_vars
  PROVE  HPlain' /\ Moves
<1>0. Patient /\ Typed /\ RInv /\ "run" \notin Commands /\ "load" \notin Commands
  BY DEF VInv, Recorded
<1>1. CASE StartDebugRun
  <2>1. /\ UNCHANGED <<unitVars, mem, text, pc, regs, csr, delta, undo, redo>>
        /\ mode = "idle" /\ mode' = "debug" /\ phase' = "head"
    BY <1>1 DEF StartDebugRun, Launch, machine, history
  <2>2. phase' = phase
    BY <1>0, <2>1, IdleAtHead
  <2> QED
    BY <2>1, <2>2, IdleStays DEF Moves
<1>2. CASE DebugReturn \/ RequestStop
  <2>1. /\ UNCHANGED <<unitVars, mem, text, pc, regs, csr, phase, delta, undo, redo>>
        /\ mode' \in {mode, "idle"}
    BY <1>2 DEF DebugReturn, RequestStop, Return, machine, history
  <2>2. mode' # "run"
    BY <2>1 DEF HPlain
  <2> QED
    BY <2>1, <2>2, IdleStays DEF Moves
<1>3. CASE \E b \in 0 .. program_size - 1 : AddBreakpoint(b) \/ RemoveBreakpoint(b)
  <2>1. UNCHANGED <<unitVars, mem, text, pc, regs, csr, phase, delta, undo, redo, mode>>
    BY <1>3 DEF AddBreakpoint, RemoveBreakpoint, machine, history
  <2>2. mode' # "run"
    BY <2>1 DEF HPlain
  <2> QED
    BY <2>1, <2>2, IdleStays DEF Moves
<1>4. CASE DebugBreak
  <2>1. /\ UNCHANGED <<unitVars, mem, text, pc, regs, csr, phase, undo, redo>>
        /\ phase = "head" /\ mode' = "idle" /\ delta' = NoDelta
    BY <1>4 DEF DebugBreak, machine
  <2>2. start' = start /\ size_of_operand' = size_of_operand /\ Unit!Snapshot' = Unit!Snapshot
    BY <2>1 DEF unitVars, Unit!Snapshot
  <2>3. HPlain'
    BY <2>1, <2>2 DEF HPlain, NoDelta
  <2>4. State' = State
    BY <2>1, <2>2, StateIs, StateThen
  <2> QED
    BY <2>1, <2>3, <2>4 DEF Moves, Stays, Present
<1>5. CASE DebugInstruction
  <2>1. /\ ExecuteInstruction(Preview) /\ pc < program_size
        /\ mode = "debug" /\ mode' = mode /\ phase = "head" /\ phase' = "finish"
        /\ UNCHANGED <<text, undo, redo>>
    BY <1>5 DEF DebugInstruction, LoopContinues, ExecuteInstruction
  <2> QED
    BY <1>0, <2>1, InstructionStays DEF Moves
<1>6. CASE Step
  <2>1. CASE /\ pc < program_size /\ ExecuteInstruction(Preview)
             /\ mode' = "step" /\ phase' = "finish" /\ UNCHANGED <<undo, redo>>
    <3>1. phase = "head" /\ text' = text
      BY <1>0, <1>6, <2>1, IdleAtHead DEF Step, ExecuteInstruction
    <3> QED
      BY <1>0, <2>1, <3>1, InstructionStays DEF Moves
  <2>2. CASE /\ delta' = Preview
             /\ UNCHANGED <<unitVars, mem, machine, control, undo, redo>>
    <3>1. /\ phase = "head" /\ phase' = "head" /\ mode' = mode
          /\ UNCHANGED <<text, pc, regs, csr>>
      BY <1>0, <1>6, <2>2, IdleAtHead DEF Step, control, machine
    <3>2. start' = start /\ size_of_operand' = size_of_operand /\ Unit!Snapshot' = Unit!Snapshot
      BY <2>2 DEF unitVars, Unit!Snapshot
    <3>3. delta'.regs = <<>> /\ delta'.mems = <<>>
      BY <1>0, <2>2, <3>1, PreviewFields DEF HPlain
    <3>4. HPlain'
      BY <3>1, <3>2, <3>3 DEF HPlain
    <3>5. State' = State
      BY <2>2, <3>1, <3>2, StateIs, StateThen
    <3> QED
      BY <2>2, <3>1, <3>4, <3>5 DEF Moves, Stays, Present
  <2> QED
    BY <1>6, <2>1, <2>2 DEF Step
<1>7. CASE UNCHANGED vars
  <2>1. UNCHANGED <<unitVars, mem, text, pc, regs, csr, phase, delta, undo, redo, mode>>
    BY <1>7 DEF vars, machine, control, history
  <2>2. mode' # "run"
    BY <2>1 DEF HPlain
  <2> QED
    BY <2>1, <2>2, IdleStays DEF Moves
<1>8. CASE FinishCycle
  BY <1>8, FinishStays DEF Moves
<1>9. CASE Commit
  BY <1>0, <1>9, CommitExtends DEF Moves
<1>10. CASE Undo
  BY <1>0, <1>10, UndoMovesBack DEF Moves
<1>11. CASE Redo
  BY <1>0, <1>11, RedoMovesOn DEF Moves
<1>12. CASE Reset
  BY <1>0, <1>12, ResetForgets DEF Moves
<1>13. ~StartRun /\ ~RunReturn /\ ~RunStall /\ ~RunInstruction /\ \A p : ~LoadProgram(p)
  BY <1>0 DEF StartRun, RunReturn, RunStall, RunInstruction, LoadProgram, HPlain
<1> QED
  BY <1>1, <1>2, <1>3, <1>4, <1>5, <1>6, <1>7, <1>8, <1>9, <1>10, <1>11, <1>12, <1>13
  DEF Next, Thread

-------------------------------------------------------------------------------
Links == Linked("old", undo, Present) /\ Linked("new", redo, Present)

(* The moves keep the links. *)
LEMMA MovesKeepLinks ==
  ASSUME Typed, Links, Moves
  PROVE  Links'
<1>1. undo \in Seq(Deltas) /\ redo \in Seq(Deltas)
  BY DEF Typed
<1>2. IsState(Present)
  BY PresentIs
<1>3. CASE Stays
  BY <1>3 DEF Stays, Links
<1>4. ASSUME NEW d \in Deltas, Undone(d, Present') = Present,
             Visible(Redone(d, Present)) = Visible(Present'),
             undo' = Append(undo, d), redo' = <<>>
      PROVE  Links'
  <2> DEFINE s == Present'
  <2>1. /\ Moved("old", d, s) = Present
        /\ Moved(Other("old"), d, Present) = Redone(d, Present)
    BY <1>4 DEF Moved, Other
  <2> HIDE DEF s
  <2>2. Linked("old", Append(undo, d), s)
    BY <1>1, <1>4, <2>1, LinkedAppend DEF Links, s
  <2>3. Linked("new", <<>>, s)
    BY LinkedEmpty
  <2> QED
    BY <1>4, <2>2, <2>3 DEF Links, s
<1>5. CASE MovesBack
  <2> DEFINE d == Last(undo)
             u == Front(undo)
             s == Present
             t == Undone(d, s)
  <2>1. undo # <<>> /\ Present' = t /\ undo' = u /\ redo' = Append(redo, d)
    BY <1>5 DEF MovesBack
  <2>2. undo = Append(u, d) /\ u \in Seq(Deltas) /\ d \in Deltas
    BY <1>1, <2>1, FrontLast, FrontAppendLast
  <2>3. t = Moved("old", d, s) /\ Redone(d, t) = Moved(Other("old"), d, t)
        /\ Redone(d, t) = Moved("new", d, t)
        /\ \A x : Undone(d, x) = Moved(Other("new"), d, x)
    BY DEF Moved, Other
  <2>4. IsState(t) /\ IsState(Redone(d, t))
    BY <1>2, MovedState
  <2> HIDE DEF d, u, t
  <2>5. Linked("old", Append(u, d), s) /\ Linked("new", redo, s)
    BY <2>2 DEF Links
  <2>6. t = Undone(d, s)
    BY DEF t
  <2> HIDE DEF s
  <2>7. Linked("old", u, t) /\ Visible(Redone(d, t)) = Visible(s)
    BY <2>2, <2>3, <2>5, LinkedAppend
  <2>8. Linked("new", redo, Redone(d, t))
    <3>1. Len(redo) \in Nat /\ IsState(s)
      BY <1>1, <1>2, LenProperties DEF s
    <3> QED
      BY <2>4, <2>5, <2>7, <3>1, LinkedVisible
  <2>9. Visible(Undone(d, Redone(d, t))) = Visible(t)
    <3>1. IsState(s)
      BY <1>2 DEF s
    <3> QED
      BY <2>4, <2>6, <2>7, <3>1, MovedVisible
  <2>10. Linked("new", Append(redo, d), t)
    BY <1>1, <2>2, <2>3, <2>8, <2>9, LinkedAppend
  <2> QED
    BY <2>1, <2>7, <2>10 DEF Links
<1>6. CASE MovesOn
  <2> DEFINE d == Last(redo)
             r == Front(redo)
             s == Present
             t == Redone(d, s)
  <2>1. redo # <<>> /\ Present' = t /\ redo' = r /\ undo' = Append(undo, d)
    BY <1>6 DEF MovesOn
  <2>2. redo = Append(r, d) /\ r \in Seq(Deltas) /\ d \in Deltas
    BY <1>1, <2>1, FrontLast, FrontAppendLast
  <2>3. t = Moved("new", d, s) /\ Undone(d, t) = Moved(Other("new"), d, t)
        /\ Undone(d, t) = Moved("old", d, t)
        /\ \A x : Redone(d, x) = Moved(Other("old"), d, x)
    BY DEF Moved, Other
  <2>4. IsState(t) /\ IsState(Undone(d, t))
    BY <1>2, MovedState
  <2> HIDE DEF d, r, t
  <2>5. Linked("new", Append(r, d), s) /\ Linked("old", undo, s)
    BY <2>2 DEF Links
  <2>6. t = Redone(d, s)
    BY DEF t
  <2> HIDE DEF s
  <2>7. Linked("new", r, t) /\ Visible(Undone(d, t)) = Visible(s)
    BY <2>2, <2>3, <2>5, LinkedAppend
  <2>8. Linked("old", undo, Undone(d, t))
    <3>1. Len(undo) \in Nat /\ IsState(s)
      BY <1>1, <1>2, LenProperties DEF s
    <3> QED
      BY <2>4, <2>5, <2>7, <3>1, LinkedVisible
  <2>9. Visible(Redone(d, Undone(d, t))) = Visible(t)
    <3>1. IsState(s)
      BY <1>2 DEF s
    <3> QED
      BY <2>4, <2>6, <2>7, <3>1, MovedVisible
  <2>10. Linked("old", Append(undo, d), t)
    BY <1>1, <2>2, <2>3, <2>8, <2>9, LinkedAppend
  <2> QED
    BY <2>1, <2>7, <2>10 DEF Links
<1>7. CASE Forgets
  <2> DEFINE s == Present'
  <2> HIDE DEF s
  <2>1. Linked("old", <<>>, s) /\ Linked("new", <<>>, s)
    BY LinkedEmpty
  <2> QED
    BY <1>7, <2>1 DEF Forgets, Links, s
<1> QED
  BY <1>3, <1>4, <1>5, <1>6, <1>7 DEF Moves, Extends

(* The lists of states, before and after a move. *)
LEMMA PastThen ==
  /\ Past' = Behind(undo', Present')
  /\ Future' = Ahead(redo', Present')
BY DEF Past, Future

(* Each move is a step of the abstract history. *)
LEMMA MovesHistory ==
  ASSUME Typed, Links, Moves
  PROVE  [History!Next]_(History!vars)
<1> DEFINE s == Present
           t == Present'
<1>1. undo \in Seq(Deltas) /\ redo \in Seq(Deltas) /\ IsState(s)
      /\ Len(undo) \in Nat /\ Len(redo) \in Nat
  BY PresentIs, LenProperties DEF Typed
<1>2. CASE Stays
  BY <1>2, PastThen DEF Stays, Past, Future, History!vars
<1>3. ASSUME NEW d \in Deltas, Undone(d, t) = s, undo' = Append(undo, d), redo' = <<>>
      PROVE  History!Execute
  <2> HIDE DEF t, s
  <2>1. Behind(Append(undo, d), t) = Append(Behind(undo, s), s)
    BY <1>1, <1>3, BehindAppend
  <2>2. VisibleAll(Append(Behind(undo, s), s)) = Append(VisibleAll(Behind(undo, s)), Visible(s))
    BY <1>1, BehindSeq, VisibleSeq
  <2>3. VisibleAll(Past)' = Append(VisibleAll(Past), Visible(Present))
    BY <1>3, <2>1, <2>2, PastThen DEF Past, s, t
  <2>4. VisibleAll(Future)' = <<>>
    <3>1. Ahead(<<>>, t) = <<>>
      BY NoneBehind
    <3>2. VisibleAll(<<>>) = <<>>
      BY DEF VisibleAll
    <3> QED
      BY <1>3, <3>1, <3>2, PastThen DEF t
  <2> QED
    BY <2>3, <2>4 DEF History!Execute
<1>4. CASE MovesBack
  <2> DEFINE d == Last(undo)
             u == Front(undo)
  <2>1. undo # <<>> /\ t = Undone(d, s) /\ undo' = u /\ redo' = Append(redo, d)
    BY <1>4 DEF MovesBack
  <2>2. undo = Append(u, d) /\ u \in Seq(Deltas) /\ d \in Deltas /\ Len(u) \in Nat
    BY <1>1, <2>1, FrontLast, FrontAppendLast, LenProperties
  <2>3. Linked("old", undo, s)
    BY DEF Links
  <2> HIDE DEF d, u, s, t
  <2>4. Visible(Redone(d, t)) = Visible(s)
    <3>1. t = Moved("old", d, s) /\ Redone(d, t) = Moved(Other("old"), d, t)
      BY <2>1 DEF Moved, Other
    <3> QED
      BY <2>2, <2>3, <3>1, LinkedAppend
  <2>5. IsState(t) /\ IsState(Redone(d, t))
    BY <1>1, <2>1, MovedState
  <2>6. VisibleAll(Behind(undo, s)) = Append(VisibleAll(Behind(u, t)), Visible(t))
    <3>1. Behind(undo, s) = Append(Behind(u, t), t)
      BY <2>1, <2>2, BehindAppend
    <3> QED
      BY <2>2, <3>1, BehindSeq, VisibleSeq
  <2>7. IsSeq(VisibleAll(Behind(u, t)))
    BY <2>2, BehindSeq, VisibleSeq
  <2>8. VisibleAll(Ahead(Append(redo, d), t)) = <<Visible(s)>> \o VisibleAll(Ahead(redo, s))
    <3>1. Ahead(Append(redo, d), t) = <<Redone(d, t)>> \o Ahead(redo, Redone(d, t))
      BY <1>1, <2>2, AheadAppend
    <3>2. VisibleAll(Ahead(Append(redo, d), t))
            = <<Visible(Redone(d, t))>> \o VisibleAll(Ahead(redo, Redone(d, t)))
      BY <1>1, <3>1, AheadSeq, VisibleSeq
    <3>3. VisibleAll(Ahead(redo, Redone(d, t))) = VisibleAll(Ahead(redo, s))
      BY <1>1, <2>4, <2>5, AheadVisible
    <3> QED
      BY <2>4, <3>2, <3>3
  <2>9. /\ VisibleAll(Past) = Append(VisibleAll(Past)', Visible(Present)')
        /\ IsSeq(VisibleAll(Past)')
    BY <2>1, <2>6, <2>7, PastThen DEF Past, s, t
  <2>10. VisibleAll(Future)' = <<Visible(Present)>> \o VisibleAll(Future)
    BY <2>1, <2>8, PastThen DEF Future, s, t
  <2>11. History!Undo
    <3> DEFINE b == VisibleAll(Past)'
               x == Visible(Present)'
    <3>1. VisibleAll(Past) = Append(b, x) /\ IsSeq(b)
      BY <2>9
    <3> HIDE DEF b, x
    <3>2. VisibleAll(Past) # <<>> /\ Last(VisibleAll(Past)) = x /\ Front(VisibleAll(Past)) = b
      BY <3>1, AppendEnds
    <3> QED
      BY <2>10, <3>2 DEF History!Undo, History!Last, History!Front, Last, Front, b, x
  <2> QED
    BY <2>11 DEF History!Next
<1>5. CASE MovesOn
  <2> DEFINE d == Last(redo)
             r == Front(redo)
  <2>1. redo # <<>> /\ t = Redone(d, s) /\ redo' = r /\ undo' = Append(undo, d)
    BY <1>5 DEF MovesOn
  <2>2. redo = Append(r, d) /\ r \in Seq(Deltas) /\ d \in Deltas /\ Len(r) \in Nat
    BY <1>1, <2>1, FrontLast, FrontAppendLast, LenProperties
  <2>3. Linked("new", redo, s)
    BY DEF Links
  <2> HIDE DEF d, r, s, t
  <2>4. Visible(Undone(d, t)) = Visible(s)
    <3>1. t = Moved("new", d, s) /\ Undone(d, t) = Moved(Other("new"), d, t)
      BY <2>1 DEF Moved, Other
    <3> QED
      BY <2>2, <2>3, <3>1, LinkedAppend
  <2>5. IsState(t) /\ IsState(Undone(d, t))
    BY <1>1, <2>1, MovedState
  <2>6. VisibleAll(Ahead(redo, s)) = <<Visible(t)>> \o VisibleAll(Ahead(r, t))
    <3>1. Ahead(redo, s) = <<t>> \o Ahead(r, t)
      BY <2>1, <2>2, AheadAppend
    <3> QED
      BY <2>2, <3>1, AheadSeq, VisibleSeq
  <2>7. IsSeq(VisibleAll(Ahead(r, t)))
    BY <2>2, AheadSeq, VisibleSeq
  <2>8. VisibleAll(Behind(Append(undo, d), t)) = Append(VisibleAll(Behind(undo, s)), Visible(s))
    <3>1. Behind(Append(undo, d), t) = Append(Behind(undo, Undone(d, t)), Undone(d, t))
      BY <1>1, <2>2, BehindAppend
    <3>2. VisibleAll(Behind(Append(undo, d), t))
            = Append(VisibleAll(Behind(undo, Undone(d, t))), Visible(Undone(d, t)))
      BY <1>1, <3>1, BehindSeq, VisibleSeq
    <3>3. VisibleAll(Behind(undo, Undone(d, t))) = VisibleAll(Behind(undo, s))
      BY <1>1, <2>4, <2>5, BehindVisible
    <3> QED
      BY <2>4, <3>2, <3>3
  <2>9. /\ VisibleAll(Future) = <<Visible(Present)'>> \o VisibleAll(Future)'
        /\ IsSeq(VisibleAll(Future)')
    BY <2>1, <2>6, <2>7, PastThen DEF Future, s, t
  <2>10. VisibleAll(Past)' = Append(VisibleAll(Past), Visible(Present))
    BY <2>1, <2>8, PastThen DEF Past, s, t
  <2>11. History!Redo
    <3> DEFINE b == VisibleAll(Future)'
               x == Visible(Present)'
    <3>1. VisibleAll(Future) = <<x>> \o b /\ IsSeq(b)
      BY <2>9
    <3> HIDE DEF b, x
    <3>2. /\ VisibleAll(Future) # <<>> /\ Head(VisibleAll(Future)) = x
          /\ Tail(VisibleAll(Future)) = b
      BY <3>1, ConsEnds
    <3> QED
      BY <2>10, <3>2 DEF History!Redo, b, x
  <2> QED
    BY <2>11 DEF History!Next
<1>6. CASE Forgets
  <2> HIDE DEF t, s
  <2>1. Behind(<<>>, t) = <<>> /\ Ahead(<<>>, t) = <<>> /\ VisibleAll(<<>>) = <<>>
    BY NoneBehind DEF VisibleAll
  <2>2. VisibleAll(Past)' = <<>> /\ VisibleAll(Future)' = <<>>
    BY <1>6, <2>1, PastThen DEF Forgets, t
  <2> QED
    BY <2>2 DEF History!Reset, History!Next
<1>7. CASE Extends
  <2>1. History!Execute
    BY <1>3, <1>7 DEF Extends
  <2> QED
    BY <2>1 DEF History!Next
<1> QED
  BY <1>2, <1>4, <1>5, <1>6, <1>7 DEF Moves

(* Each move extends the past, goes back along it, forgets it, or is Redo. *)
LEMMA MovesPast ==
  ASSUME Typed, Links, Moves
  PROVE  \/ Past' = Append(Past, Present)
         \/ Past # <<>> /\ Present' = Last(Past) /\ Past' = Front(Past)
         \/ Past' = <<>> /\ Cleared'
         \/ Redo
         \/ UNCHANGED <<Past, Present>>
<1> DEFINE s == Present
           t == Present'
<1>1. undo \in Seq(Deltas) /\ Len(undo) \in Nat
  BY LenProperties DEF Typed
<1>2. CASE Stays
  BY <1>2, PastThen DEF Stays, Past
<1>3. ASSUME NEW d \in Deltas, Undone(d, t) = s, undo' = Append(undo, d)
      PROVE  Past' = Append(Past, Present)
  <2> HIDE DEF t, s
  <2>1. Behind(Append(undo, d), t) = Append(Behind(undo, s), s)
    BY <1>1, <1>3, BehindAppend
  <2> QED
    BY <1>3, <2>1, PastThen DEF Past, s, t
<1>4. CASE MovesBack
  <2> DEFINE d == Last(undo)
             u == Front(undo)
  <2>1. undo # <<>> /\ t = Undone(d, s) /\ undo' = u
    BY <1>4 DEF MovesBack
  <2>2. undo = Append(u, d) /\ u \in Seq(Deltas) /\ d \in Deltas /\ Len(u) \in Nat
    BY <1>1, <2>1, FrontLast, FrontAppendLast, LenProperties
  <2> HIDE DEF d, u, s, t
  <2>3. Behind(undo, s) = Append(Behind(u, t), t)
    BY <2>1, <2>2, BehindAppend
  <2>4. IsSeq(Behind(u, t))
    BY <2>2, BehindSeq
  <2>5. /\ Behind(undo, s) # <<>> /\ Last(Behind(undo, s)) = t
        /\ Front(Behind(undo, s)) = Behind(u, t)
    BY <2>3, <2>4, AppendEnds
  <2> QED
    BY <2>1, <2>5, PastThen DEF Past, s, t
<1>5. CASE Forgets
  <2> HIDE DEF t
  <2>1. Behind(<<>>, t) = <<>>
    BY NoneBehind
  <2> QED
    BY <1>5, <2>1, PastThen DEF Forgets, t
<1>6. CASE MovesOn
  BY <1>6 DEF MovesOn
<1> QED
  BY <1>2, <1>3, <1>4, <1>5, <1>6 DEF Moves, Extends

(* The invariant holds to begin with, and every step keeps it. *)
LEMMA InitHInv ==
  ASSUME Recorded
  PROVE  Init => VInv /\ HInv
<1> SUFFICES ASSUME Init PROVE VInv /\ HInv
  OBVIOUS
<1>1. SizesFit
  <2>1. \A p \in Programs : \A k \in DOMAIN p : p[k].op # "bigmul"
    BY DEF Recorded
  <2> QED
    BY <2>1 DEF SizesFit, Fits
<1>2. VInv
  BY <1>1, InitTyped, InitRInv DEF VInv
<1>3. HPlain
  <2>1. /\ start = "none" /\ mode = "idle" /\ phase = "head" /\ delta = NoDelta
        /\ text \in Programs
    BY DEF Init, Unit!Init
  <2>2. \A k \in DOMAIN text : text[k].op \notin {"csrrw", "bigmul"}
    BY <2>1 DEF Recorded
  <2> QED
    BY <2>1, <2>2 DEF HPlain, NoDelta
<1>4. Linked("old", undo, Present) /\ Linked("new", redo, Present)
  <2>1. undo = <<>> /\ redo = <<>>
    BY DEF Init
  <2> QED
    BY <2>1, LinkedEmpty
<1> QED
  BY <1>2, <1>3, <1>4 DEF HInv

LEMMA StepHInv ==
  ASSUME Recorded, VInv, HInv, [Next]_vars
  PROVE  VInv' /\ HInv' /\ Moves
<1>1. SizesFit
  <2>1. \A p \in Programs : \A k \in DOMAIN p : p[k].op # "bigmul"
    BY DEF Recorded
  <2> QED
    BY <2>1 DEF SizesFit, Fits
<1>2. VInv'
  BY <1>1, StepTyped, StepRInv DEF VInv
<1>3. HPlain' /\ Moves
  BY StepMoves DEF HInv
<1>4. Links'
  BY <1>3, MovesKeepLinks DEF HInv, VInv, Links
<1> QED
  BY <1>2, <1>3, <1>4 DEF HInv, Links

(* Stepping, undoing and redoing implement the abstract history: for every  *)
(* program without csrrw and BIGMUL, whatever the user's commands, what is  *)
(* recorded of an instruction is all that it changes.                       *)
THEOREM HistoryKept ==
  ASSUME Recorded
  PROVE  Spec => KeepsHistory
<1>1. Init => VInv /\ HInv
  BY Recorded, InitHInv
<1>2. VInv /\ HInv /\ [Next]_vars => VInv' /\ HInv'
  BY Recorded, StepHInv
<1>3. VInv /\ HInv /\ [Next]_vars => [History!Next]_(History!vars)
  <2> SUFFICES ASSUME VInv, HInv, [Next]_vars PROVE [History!Next]_(History!vars)
    OBVIOUS
  <2>1. Typed /\ Links /\ Moves
    BY Recorded, StepHInv DEF VInv, HInv, Links
  <2> QED
    BY <2>1, MovesHistory
<1>4. Init => History!Init
  <2> SUFFICES ASSUME Init PROVE History!Init
    OBVIOUS
  <2>1. undo = <<>> /\ redo = <<>>
    BY DEF Init
  <2> DEFINE s == Present
  <2> HIDE DEF s
  <2>2. Behind(<<>>, s) = <<>> /\ Ahead(<<>>, s) = <<>> /\ VisibleAll(<<>>) = <<>>
    BY NoneBehind DEF VisibleAll
  <2> QED
    BY <2>1, <2>2 DEF History!Init, Past, Future, s
<1> QED
  BY <1>1, <1>2, <1>3, <1>4, PTL DEF Spec, KeepsHistory, History!Spec

(* The coprocessor's registers included, undo returns to the state before the *)
(* step it takes back, and only a reset of the machine forgets the past.      *)
THEOREM PastKept ==
  ASSUME Recorded
  PROVE  Spec => KeepsPast
<1>1. Init => VInv /\ HInv
  BY Recorded, InitHInv
<1>2. VInv /\ HInv /\ [Next]_vars => VInv' /\ HInv'
  BY Recorded, StepHInv
<1>3. VInv /\ HInv /\ [Next]_vars =>
        [ \/ Past' = Append(Past, Present)
          \/ Past # <<>> /\ Present' = Last(Past) /\ Past' = Front(Past)
          \/ Past' = <<>> /\ Cleared'
          \/ Redo ]_<<Past, Present>>
  <2> SUFFICES ASSUME VInv, HInv, [Next]_vars
               PROVE  [ \/ Past' = Append(Past, Present)
                        \/ Past # <<>> /\ Present' = Last(Past) /\ Past' = Front(Past)
                        \/ Past' = <<>> /\ Cleared'
                        \/ Redo ]_<<Past, Present>>
    OBVIOUS
  <2>1. Typed /\ Links /\ Moves
    BY Recorded, StepHInv DEF VInv, HInv, Links
  <2> QED
    BY <2>1, MovesPast, Zenon
<1> QED
  BY <1>1, <1>2, <1>3, PTL DEF Spec, KeepsPast
===============================================================================
