------------------------------- MODULE Assembler -------------------------------
(***************************************************************************)
(* From a source file to the machine's memory: the two passes of           *)
(* Parser::parse, its back-patching, assemble() and LoadProgram.           *)
(*                                                                         *)
(* A source is a sequence of items in the order of their tokens, each with *)
(* its line:                                                               *)
(*   section  .text, .data or .bss       (name)                            *)
(*   label    a label definition         (name)                            *)
(*   data     a data directive           (size, align, and how many values)*)
(*   branch, jal, la, op                 one instruction (to, or of)       *)
(*   bad      an opcode whose operands do not parse                        *)
(* An instruction in the intermediate code keeps its line, its label and   *)
(* its immediate; data is kept as the identity and the size of its values. *)
(***************************************************************************)
EXTENDS Integers, SequencesExt

CONSTANTS
  Sources,        \* the files the user loads
  DataStart,      \* data_section_start
  BranchReach,    \* a branch offset is in -BranchReach .. BranchReach - 1 (4096)
  JumpReach,      \* the same for jal (2^20)
  Page,           \* bytes an addi immediate reaches (2^12)
  Pages,          \* values of the upper immediate of auipc (2^20)
  MaxBreakpoints, \* bound: no breakpoint is added beyond this many
  MaxLoads        \* bound: files loaded one after the other

Lines == Nat \ {0}

Items ==
  [line : Lines, kind : {"section"}, name : {"text", "data", "bss"}]
    \cup [line : Lines, kind : {"label"}, name : STRING]
    \cup [line : Lines, kind : {"data"}, size : Nat \ {0}, align : Nat \ {0}, values : Nat]
    \cup [line : Lines, kind : {"branch", "jal"}, to : STRING]
    \cup [line : Lines, kind : {"la"}, of : STRING]
    \cup [line : Lines, kind : {"op", "bad"}]

ASSUME AssemblerAssumption ==
  /\ DataStart \in Nat
  /\ BranchReach \in Nat \ {0} /\ BranchReach % 2 = 0
  /\ JumpReach \in Nat \ {0} /\ JumpReach % 2 = 0
  /\ Page \in Nat \ {0} /\ Page % 2 = 0
  /\ Pages \in Nat \ {0} /\ Pages % 2 = 0
  /\ Sources \subseteq Seq(Items)

VARIABLES
  source,              \* the file being assembled
  phase,               \* "idle", "first", "second" pass or "patch"
  loop,                \* the loop the pass is in: "top", "data", "bss", "text", "skip"
  pos_,                \* the next item, or the next entry of back_patch_
  data_index_, data_buffer_, symbol_table_,
  intermediate_code_,  \* its units' numbers and lines are the line mapping
  back_patch_,
  errors_,             \* the lines with errors
  program_,            \* what assemble() returned last
  memory, program_size_, breakpoints,
  loads                \* counts the files up to the bound

parser  == <<source, phase, loop, pos_, data_index_, data_buffer_, symbol_table_,
             intermediate_code_, back_patch_, errors_>>
machine == <<program_, memory, program_size_, breakpoints>>
vars    == <<parser, machine, loads>>

SectionNames == {"text", "data", "bss", "section"}

AtEnd == pos_ > Len(source)
Item  == source[pos_]

(* The loops that look for a section compare a token's text, not its type. *)
Named(it) == it.kind \in {"section", "label"}
Reads(names) == ~AtEnd /\ Named(Item) /\ Item.name \in names

IsInstruction(it) == it.kind \in {"branch", "jal", "la", "op", "bad"}

AlignUp(n, a) == ((n + a - 1) \div a) * a

Advance    == pos_' = pos_ + 1
Goto(l)    == loop' = l /\ UNCHANGED pos_
Error(ln)  == errors_' = errors_ \cup {ln}
NoError    == UNCHANGED errors_

(***************************************************************************)
(* First pass: data sections fill the data buffer and the symbol table.    *)
(***************************************************************************)
FirstTop ==
  /\ phase = "first" /\ loop = "top" /\ ~AtEnd
  /\ \/ /\ Item.kind = "section" /\ Item.name \in {"data", "bss"}
        /\ Advance /\ loop' = Item.name
        /\ NoError
     \/ /\ \/ Item.kind = "label" \/ IsInstruction(Item)
           \/ Item.kind = "section" /\ Item.name = "text"
        /\ Goto("skip")
        /\ NoError
     \/ /\ Item.kind = "data"
        /\ Advance /\ UNCHANGED loop
        /\ Error(Item.line)
  /\ UNCHANGED <<source, phase, data_index_, data_buffer_, symbol_table_,
                 intermediate_code_, back_patch_, machine, loads>>

(* Text in the first pass and a .bss section are skipped. *)
FirstSkip ==
  /\ phase = "first" /\ loop \in {"skip", "bss"}
  /\ LET ends == IF loop = "skip" THEN SectionNames \ {"text"} ELSE SectionNames
     IN  \/ (AtEnd \/ Reads(ends)) /\ Goto("top")
         \/ ~AtEnd /\ ~Reads(ends) /\ Advance /\ UNCHANGED loop
  /\ UNCHANGED <<source, phase, data_index_, data_buffer_, symbol_table_,
                 intermediate_code_, back_patch_, errors_, machine, loads>>

DataEnd ==
  /\ phase = "first" /\ loop = "data"
  /\ AtEnd \/ Reads(SectionNames)
  /\ Goto("top")
  /\ UNCHANGED <<source, phase, data_index_, data_buffer_, symbol_table_,
                 intermediate_code_, back_patch_, errors_, machine, loads>>

Bind(table, name, entry) ==
  [n \in DOMAIN table \cup {name} |-> IF n = name THEN entry ELSE table[n]]

Symbol(address, line, isData) == [address |-> address, line_number |-> line, isData |-> isData]

(* A label takes the alignment of the directive behind it. *)
DataLabelUnaligned ==
  /\ phase = "first" /\ loop = "data" /\ ~AtEnd /\ ~Reads(SectionNames)
  /\ Item.kind = "label"
  /\ data_index_' = data_index_
  /\ IF pos_ < Len(source) /\ source[pos_ + 1].kind = "data" THEN NoError ELSE Error(Item.line)
  /\ symbol_table_' = Bind(symbol_table_, Item.name, Symbol(data_index_', Item.line, TRUE))
  /\ Advance
  /\ UNCHANGED <<source, phase, loop, data_buffer_, intermediate_code_, back_patch_, machine, loads>>

DataLabel ==
  /\ phase = "first" /\ loop = "data" /\ ~AtEnd /\ ~Reads(SectionNames)
  /\ Item.kind = "label"
  /\ \/ /\ pos_ < Len(source) /\ source[pos_ + 1].kind = "data"
        /\ data_index_' = AlignUp(data_index_, source[pos_ + 1].align)
        /\ NoError
     \/ /\ ~(pos_ < Len(source) /\ source[pos_ + 1].kind = "data")
        /\ UNCHANGED data_index_
        /\ Error(Item.line)
  /\ symbol_table_' = Bind(symbol_table_, Item.name, Symbol(data_index_', Item.line, TRUE))
  /\ Advance
  /\ UNCHANGED <<source, phase, loop, data_buffer_, intermediate_code_, back_patch_, machine, loads>>

(* A directive aligns once for each of its values; one without values does *)
(* not align, though a label before it did.                                *)
DataDirective ==
  /\ phase = "first" /\ loop = "data" /\ ~AtEnd /\ Item.kind = "data"
  /\ data_buffer_' = data_buffer_ \o
       [k \in 1 .. Item.values |-> [line |-> Item.line, nth |-> k, size |-> Item.size,
                                    align |-> Item.align]]
  /\ data_index_' = IF Item.values = 0 THEN data_index_
                    ELSE AlignUp(data_index_, Item.align) + Item.values * Item.size
  /\ Advance
  /\ UNCHANGED <<source, phase, loop, symbol_table_, intermediate_code_, back_patch_,
                 errors_, machine, loads>>

(* Also: the token that is not a directive is kept. *)
DataOtherStuck ==
  /\ phase = "first" /\ loop = "data" /\ ~AtEnd /\ IsInstruction(Item)
  /\ Error(Item.line)
  /\ UNCHANGED <<source, phase, loop, pos_, data_index_, data_buffer_, symbol_table_,
                 intermediate_code_, back_patch_, machine, loads>>

DataOther ==
  /\ phase = "first" /\ loop = "data" /\ ~AtEnd /\ IsInstruction(Item)
  /\ Error(Item.line)
  /\ Advance
  /\ UNCHANGED <<source, phase, loop, data_index_, data_buffer_, symbol_table_,
                 intermediate_code_, back_patch_, machine, loads>>

FirstEnd ==
  /\ phase = "first" /\ loop = "top" /\ AtEnd
  /\ phase' = "second" /\ pos_' = 1
  /\ UNCHANGED <<source, loop, data_index_, data_buffer_, symbol_table_,
                 intermediate_code_, back_patch_, errors_, machine, loads>>

(***************************************************************************)
(* Second pass: text sections become intermediate code.                    *)
(***************************************************************************)
SecondTop ==
  /\ phase = "second" /\ loop = "top" /\ ~AtEnd
  /\ \/ /\ Item.kind = "section" /\ Item.name \in {"data", "bss"}
        /\ Goto("skip")
        /\ NoError
     \/ /\ Item.kind = "section" /\ Item.name = "text"
        /\ Advance /\ loop' = "text"
        /\ NoError
     \/ /\ Item.kind = "label" \/ IsInstruction(Item)
        /\ Goto("text")
        /\ NoError
     \/ /\ Item.kind = "data"
        /\ Advance /\ UNCHANGED loop
        /\ Error(Item.line)
  /\ UNCHANGED <<source, phase, data_index_, data_buffer_, symbol_table_,
                 intermediate_code_, back_patch_, machine, loads>>

(* The data sections are skipped to the end of the file. *)
SecondSkipAll ==
  /\ phase = "second" /\ loop = "skip"
  /\ \/ AtEnd /\ Goto("top")
     \/ ~AtEnd /\ Advance /\ UNCHANGED loop
  /\ UNCHANGED <<source, phase, data_index_, data_buffer_, symbol_table_,
                 intermediate_code_, back_patch_, errors_, machine, loads>>

SecondSkip ==
  /\ phase = "second" /\ loop = "skip"
  /\ \/ (AtEnd \/ Reads({"text"})) /\ Goto("top")
     \/ ~AtEnd /\ ~Reads({"text"}) /\ Advance /\ UNCHANGED loop
  /\ UNCHANGED <<source, phase, data_index_, data_buffer_, symbol_table_,
                 intermediate_code_, back_patch_, errors_, machine, loads>>

TextEnd ==
  /\ phase = "second" /\ loop = "text"
  /\ ~AtEnd => Item.kind \in {"section", "data"}
  /\ Goto("top")
  /\ UNCHANGED <<source, phase, data_index_, data_buffer_, symbol_table_,
                 intermediate_code_, back_patch_, errors_, machine, loads>>

InText(kinds) == phase = "second" /\ loop = "text" /\ ~AtEnd /\ Item.kind \in kinds

TextLabel ==
  /\ InText({"label"})
  /\ \/ /\ Item.name \in DOMAIN symbol_table_
        /\ Error(Item.line)
        /\ UNCHANGED symbol_table_
     \/ /\ Item.name \notin DOMAIN symbol_table_
        /\ symbol_table_' =
             Bind(symbol_table_, Item.name, Symbol(4 * Len(intermediate_code_), Item.line, FALSE))
        /\ NoError
  /\ Advance
  /\ UNCHANGED <<source, phase, loop, data_index_, data_buffer_, intermediate_code_,
                 back_patch_, machine, loads>>

Unit(op, imm, label, patched) ==
  [op |-> op, imm |-> imm, label |-> label, patched |-> patched, line |-> Item.line]

Emit(units) == intermediate_code_' = intermediate_code_ \o units

Reach(op) == IF op = "branch" THEN BranchReach ELSE JumpReach

(* The end of the reach counts as inside. *)
InReachAtEnd(op, offset) == -Reach(op) <= offset /\ offset <= Reach(op)

InReach(op, offset) == -Reach(op) <= offset /\ offset < Reach(op)

KnownText(label) == label \in DOMAIN symbol_table_ /\ ~symbol_table_[label].isData
KnownData(label) == label \in DOMAIN symbol_table_ /\ symbol_table_[label].isData

(* The unit at index k, counted from 0, lies at 4 * k. *)
Offset(label, k) == symbol_table_[label].address - 4 * k

(* A branch or jump to a text label that is already known gets its offset; *)
(* any other waits for the back-patching.                                  *)
Transfer ==
  LET here == Len(intermediate_code_) IN
  /\ InText({"branch", "jal"})
  /\ \/ /\ KnownText(Item.to) /\ InReach(Item.kind, Offset(Item.to, here))
        /\ Emit(<<Unit(Item.kind, Offset(Item.to, here), Item.to, TRUE)>>)
        /\ NoError /\ UNCHANGED back_patch_
     \/ /\ KnownText(Item.to) /\ ~InReach(Item.kind, Offset(Item.to, here))
        /\ Error(Item.line)
        /\ UNCHANGED <<intermediate_code_, back_patch_>>
     \/ /\ ~KnownText(Item.to)
        /\ Emit(<<Unit(Item.kind, 0, Item.to, FALSE)>>)
        /\ back_patch_' = Append(back_patch_, here)
        /\ NoError
  /\ Advance
  /\ UNCHANGED <<source, phase, loop, data_index_, data_buffer_, symbol_table_, machine, loads>>

(* la and the loads from a data label: auipc with the rounded upper part of *)
(* the distance, addi with the signed rest.                                 *)
UpperRoundedDown(distance) == distance \div Page

Upper(distance) == (distance + Page \div 2) \div Page

LoadAddress ==
  LET here     == Len(intermediate_code_)
      distance == DataStart + symbol_table_[Item.of].address - 4 * here
      hi20     == Upper(distance)
      lo12     == distance - hi20 * Page
  IN
  /\ InText({"la"})
  /\ \/ /\ KnownData(Item.of)
        /\ Emit(<<Unit("auipc", hi20, "", TRUE), Unit("addi", lo12, "", TRUE)>>)
        /\ NoError
     \/ /\ ~KnownData(Item.of)
        /\ Error(Item.line)
        /\ UNCHANGED intermediate_code_
  /\ Advance
  /\ UNCHANGED <<source, phase, loop, data_index_, data_buffer_, symbol_table_,
                 back_patch_, machine, loads>>

Plain ==
  /\ InText({"op", "bad"})
  /\ \/ Item.kind = "op" /\ Emit(<<Unit("op", 0, "", TRUE)>>) /\ NoError
     \/ Item.kind = "bad" /\ Error(Item.line) /\ UNCHANGED intermediate_code_
  /\ Advance
  /\ UNCHANGED <<source, phase, loop, data_index_, data_buffer_, symbol_table_,
                 back_patch_, machine, loads>>

SecondEnd ==
  /\ phase = "second" /\ loop = "top" /\ AtEnd
  /\ phase' = "patch" /\ pos_' = 1
  /\ UNCHANGED <<source, loop, data_index_, data_buffer_, symbol_table_,
                 intermediate_code_, back_patch_, errors_, machine, loads>>

(***************************************************************************)
(* Back-patching: a branch to data is an error, a jump to data is not: its *)
(* offset is the symbol's offset in the data section, taken as one in text.*)
(***************************************************************************)
(* The offset is not compared with the reach. *)
PatchableUnchecked(unit, k) ==
  /\ unit.label \in DOMAIN symbol_table_
  /\ unit.op = "branch" => KnownText(unit.label)

Patchable(unit, k) ==
  /\ unit.label \in DOMAIN symbol_table_
  /\ unit.op = "branch" => KnownText(unit.label)
  /\ InReach(unit.op, Offset(unit.label, k))

(* The offset is set in the copy of the unit only. *)
BackPatchCopy ==
  /\ phase = "patch" /\ pos_ <= Len(back_patch_)
  /\ LET k    == back_patch_[pos_]
         unit == intermediate_code_[k + 1]
     IN  IF Patchable(unit, k) THEN NoError ELSE Error(unit.line)
  /\ Advance
  /\ UNCHANGED <<source, phase, loop, data_index_, data_buffer_, symbol_table_,
                 intermediate_code_, back_patch_, machine, loads>>

BackPatch ==
  /\ phase = "patch" /\ pos_ <= Len(back_patch_)
  /\ LET k    == back_patch_[pos_]
         unit == intermediate_code_[k + 1]
     IN  \/ /\ Patchable(unit, k)
            /\ intermediate_code_' =
                 [intermediate_code_ EXCEPT ![k + 1].imm = Offset(unit.label, k),
                                            ![k + 1].patched = TRUE]
            /\ NoError
         \/ /\ ~Patchable(unit, k)
            /\ Error(unit.line)
            /\ intermediate_code_' =
                 IF unit.op = "branch" /\ KnownData(unit.label)
                 THEN [intermediate_code_ EXCEPT ![k + 1].patched = TRUE]
                 ELSE intermediate_code_
  /\ Advance
  /\ UNCHANGED <<source, phase, loop, data_index_, data_buffer_, symbol_table_,
                 back_patch_, machine, loads>>

(***************************************************************************)
(* assemble(): the machine code, and the instruction of every line.        *)
(***************************************************************************)
Modulus(op) ==
  CASE op = "branch" -> 2 * BranchReach
    [] op = "jal"    -> 2 * JumpReach
    [] op = "auipc"  -> Pages
    [] OTHER         -> Page

(* The immediates of branches and jal have no place for bit 0. *)
Kept(op, imm) == IF op \in {"branch", "jal"} THEN imm - (imm % 2) ELSE imm

Encode(unit) ==
  [op |-> unit.op, line |-> unit.line, imm |-> Kept(unit.op, unit.imm) % Modulus(unit.op)]

(* Instruction k takes the lines behind the previous one's, up to its own. *)
LinesOfOverlapping(code, k) == (IF k = 1 THEN 1 ELSE code[k - 1].line) .. code[k].line

LinesOf(code, k) == (IF k = 1 THEN 1 ELSE code[k - 1].line + 1) .. code[k].line

LineMapping(code) ==
  [l \in UNION {LinesOf(code, k) : k \in DOMAIN code} |->
     Max({k - 1 : k \in {j \in DOMAIN code : l \in LinesOf(code, j)}})]

(***************************************************************************)
(* LoadProgram: text from address 0, data from DataStart with its own      *)
(* alignment of every value; what earlier programs left elsewhere stays.   *)
(***************************************************************************)
Placement(buffer) ==
  LET at[k \in DOMAIN buffer] ==
        IF k = 1 THEN 0 ELSE AlignUp(at[k - 1] + buffer[k - 1].size, buffer[k].align)
  IN  at

DataBytes(buffer) ==
  LET at == Placement(buffer)
  IN  [a \in UNION {DataStart + at[k] .. DataStart + at[k] + buffer[k].size - 1 :
                    k \in DOMAIN buffer} |->
         LET k == Max({j \in DOMAIN buffer : DataStart + at[j] <= a})
         IN  [line |-> buffer[k].line, nth |-> buffer[k].nth, byte |-> a - DataStart - at[k]]]

TextWords(code) == [a \in {4 * (k - 1) : k \in DOMAIN code} |-> Encode(code[a \div 4 + 1])]

Over(new, old) ==
  [a \in DOMAIN new \cup DOMAIN old |-> IF a \in DOMAIN new THEN new[a] ELSE old[a]]

EmptyParser ==
  /\ phase' = "idle" /\ loop' = "top" /\ pos_' = 1
  /\ data_index_' = 0 /\ data_buffer_' = <<>> /\ symbol_table_' = <<>>
  /\ intermediate_code_' = <<>> /\ back_patch_' = <<>> /\ errors_' = {}

Assembled == phase = "patch" /\ pos_ > Len(back_patch_)

LoadProgram ==
  /\ Assembled /\ errors_ = {}
  /\ program_' = [source |-> source, symbol_table |-> symbol_table_,
                  lines |-> LineMapping(intermediate_code_)]
  /\ memory' = Over(DataBytes(data_buffer_), Over(TextWords(intermediate_code_), memory))
  /\ program_size_' = 4 * Len(intermediate_code_)
  /\ breakpoints' = breakpoints \cup {program_size_'}
  /\ EmptyParser
  /\ UNCHANGED <<source, loads>>

(* The exception of assemble() leaves the machine with the last program. *)
Reject ==
  /\ Assembled /\ errors_ # {}
  /\ EmptyParser
  /\ UNCHANGED <<source, machine, loads>>

Load(file) ==
  /\ phase = "idle" /\ loads < MaxLoads
  /\ source' = file
  /\ phase' = "first"
  /\ loads' = loads + 1
  /\ UNCHANGED <<loop, pos_, data_index_, data_buffer_, symbol_table_, intermediate_code_,
                 back_patch_, errors_, machine>>

(* A breakpoint is given by its line and kept as an address. *)
AddBreakpoint(line) ==
  /\ phase = "idle" /\ Cardinality(breakpoints) < MaxBreakpoints
  /\ line \in DOMAIN program_.lines
  /\ 4 * program_.lines[line] \notin breakpoints
  /\ breakpoints' = breakpoints \cup {4 * program_.lines[line]}
  /\ UNCHANGED <<parser, program_, memory, program_size_, loads>>

RemoveBreakpoint(line) ==
  /\ phase = "idle"
  /\ line \in DOMAIN program_.lines
  /\ 4 * program_.lines[line] \in breakpoints
  /\ breakpoints' = breakpoints \ {4 * program_.lines[line]}
  /\ UNCHANGED <<parser, program_, memory, program_size_, loads>>

Init ==
  /\ source = <<>> /\ phase = "idle" /\ loop = "top" /\ pos_ = 1
  /\ data_index_ = 0 /\ data_buffer_ = <<>> /\ symbol_table_ = <<>>
  /\ intermediate_code_ = <<>> /\ back_patch_ = <<>> /\ errors_ = {}
  /\ program_ = [source |-> <<>>, symbol_table |-> <<>>, lines |-> <<>>]
  /\ memory = <<>> /\ program_size_ = 0 /\ breakpoints = {} /\ loads = 0

Parse ==
  \/ FirstTop \/ FirstSkip \/ FirstEnd
  \/ DataEnd \/ DataLabel \/ DataDirective \/ DataOther
  \/ SecondTop \/ SecondSkip \/ SecondEnd
  \/ TextEnd \/ TextLabel \/ Transfer \/ LoadAddress \/ Plain
  \/ BackPatch \/ LoadProgram \/ Reject

Next ==
  \/ Parse
  \/ \E file \in Sources : Load(file)
  \/ \E line \in DOMAIN program_.lines : AddBreakpoint(line) \/ RemoveBreakpoint(line)

(* The main thread assembles without waiting for anything. *)
Spec == Init /\ [][Next]_vars /\ WF_vars(Parse)
-------------------------------------------------------------------------------
(***************************************************************************)
(* What the image owes to the source only if the file allows it: tokens    *)
(* come in the order of their lines; the text ends before DataStart; no    *)
(* label is called text, on which the loop that skips the data sections    *)
(* stops, and none lies behind an instruction on the same line; values are *)
(* multiples of their alignment, and DataStart is; auipc reaches the data. *)
(***************************************************************************)
Ordered ==
  \A src \in Sources : \A i, j \in DOMAIN src : i <= j => src[i].line <= src[j].line

(* The words of the instructions before item j: a la takes two. *)
Below(src, j) ==
  {w \in (1 .. j - 1) \X {1, 2} :
     /\ src[w[1]].kind \in {"branch", "jal", "la", "op"}
     /\ w[2] = 2 => src[w[1]].kind = "la"}

TextFits == \A src \in Sources : 4 * Cardinality(Below(src, Len(src) + 1)) <= DataStart

NoTextLabel ==
  \A src \in Sources : \A j \in DOMAIN src : src[j].kind = "label" => src[j].name # "text"

LabelsLead ==
  \A src \in Sources : \A j \in DOMAIN src :
    src[j].kind = "label" =>
      \A i \in 1 .. j - 1 : IsInstruction(src[i]) => src[i].line < src[j].line

DataAligned ==
  \A src \in Sources : \A j \in DOMAIN src :
    src[j].kind = "data" => src[j].size % src[j].align = 0 /\ DataStart % src[j].align = 0

(* The bytes that the items before j take at most, with their alignment. *)
Room(src, i) ==
  IF src[i].kind = "data" THEN src[i].align + src[i].values * src[i].size
  ELSE IF src[i].kind = "label" /\ i < Len(src) /\ src[i + 1].kind = "data" THEN src[i + 1].align
  ELSE 0

Rooms(src, j) == UNION {{i} \X (1 .. Room(src, i)) : i \in 1 .. j - 1}

DataFits ==
  \A src \in Sources :
    DataStart + Cardinality(Rooms(src, Len(src) + 1)) + Page \div 2 < (Pages \div 2) * Page
-------------------------------------------------------------------------------
(* The label is empty where the instruction refers to none. *)
Units(op) == [op : op, imm : Int, label : STRING \cup {""}, patched : BOOLEAN, line : Nat]

(* Every variable has its type; the units that back_patch_ names are those   *)
(* that wait for their offset.                                               *)
TypeOK ==
  /\ source \in Sources \cup {<<>>}
  /\ phase \in {"idle", "first", "second", "patch"}
  /\ loop \in {"top", "data", "bss", "text", "skip"}
  /\ pos_ \in 1 .. Len(source) + 1
  /\ data_index_ \in Nat
  /\ \A n \in DOMAIN symbol_table_ :
       symbol_table_[n] \in [address : Nat, line_number : Nat, isData : BOOLEAN]
  /\ \A k \in DOMAIN intermediate_code_ :
       /\ intermediate_code_[k] \in Units({"branch", "jal", "auipc", "addi", "op"})
       /\ errors_ = {} =>
            (~intermediate_code_[k].patched <=>
               \E j \in DOMAIN back_patch_ :
                 back_patch_[j] = k - 1 /\ (phase = "patch" => j >= pos_))
  /\ breakpoints \subseteq Nat /\ program_size_ \in Nat

(***************************************************************************)
(* What the loaded image owes to the source it was made from.              *)
(***************************************************************************)
Loaded == program_.source

SectionOf(j) ==
  LET before == {i \in 1 .. j - 1 : Loaded[i].kind = "section"}
  IN  IF before = {} THEN "text" ELSE Loaded[Max(before)].name

ItemsIn(section) == {j \in DOMAIN Loaded : Loaded[j].kind # "section" /\ SectionOf(j) = section}

Words == 0 .. program_size_ \div 4 - 1

WordsBefore(line) == Cardinality({k \in Words : memory[4 * k].line < line})

Signed(word) ==
  LET m == Modulus(word.op) IN IF word.imm < m \div 2 THEN word.imm ELSE word.imm - m

(* assemble() encodes no unit that still waits for its label, and the bits   *)
(* of a branch's or a jump's immediate give back the offset it was given:   *)
(* the reach is tested both in the text loop and in the back-patching, and  *)
(* either finds no error or none of the code is encoded.  Bit 0 is dropped, *)
(* which only the offset of a jal to a data label can have set (parser.cpp  *)
(* lets one pass): its bits give back the even offset below.                *)
ReferencesEncoded ==
  Assembled /\ errors_ = {} =>
    \A k \in DOMAIN intermediate_code_ :
      LET unit == intermediate_code_[k] IN
      /\ unit.patched
      /\ unit.op \in {"branch", "jal"} =>
           Signed(Encode(unit)) =
             IF KnownData(unit.label) THEN unit.imm - (unit.imm % 2) ELSE unit.imm

(* The last definition of a data label counts; an address means something   *)
(* when values follow it and no labelled directive before it was empty:     *)
(* the parser aligned for that one and LoadProgram does not.                *)
LastLabel(name) == Max({j \in ItemsIn("data") : Loaded[j].kind = "label" /\ Loaded[j].name = name})

Placed(j) ==
  /\ Loaded[j + 1].values > 0
  /\ \A i \in ItemsIn("data") :
       i < j /\ Loaded[i].kind = "label" /\ Loaded[i + 1].align > 1 => Loaded[i + 1].values > 0

DataLabels == {j \in ItemsIn("data") : Loaded[j].kind = "label" /\ j = LastLabel(Loaded[j].name)}

ValueOf(j, nth, byte) == [line |-> Loaded[j + 1].line, nth |-> nth, byte |-> byte]

(* Every branch and jump of the loaded program goes to the first instruction *)
(* behind its label in the source, backward and forward references alike;   *)
(* only a jal to a data label, which the back-patching of parser.cpp lets   *)
(* pass, goes to the label's offset in the data section instead, less the   *)
(* bit 0 that generateJTypeMachineCode drops.                               *)
LabelsResolve ==
  \A k \in Words : memory[4 * k].op \in {"branch", "jal"} =>
    \E i \in ItemsIn("text") :
      /\ Loaded[i].kind = memory[4 * k].op /\ Loaded[i].line = memory[4 * k].line
      /\ LET target == 4 * k + Signed(memory[4 * k]) IN
         \/ \E j \in ItemsIn("text") :
              /\ Loaded[j].kind = "label" /\ Loaded[j].name = Loaded[i].to
              /\ target = 4 * WordsBefore(Loaded[j].line)
         \/ /\ Loaded[i].kind = "jal"
            /\ \E j \in DataLabels :
                 /\ Loaded[j].name = Loaded[i].to
                 /\ LET address == program_.symbol_table[Loaded[j].name].address
                    IN  target = address - (address % 2)

(* The image holds each instruction of the text sections and nothing else,  *)
(* in their order, a la as auipc and addi, whatever data and bss sections   *)
(* lie between them: both passes of parse() split the file the same way.    *)
TextUpTo(j) == {w \in Below(Loaded, j) : SectionOf(w[1]) = "text"}

TextComplete ==
  /\ program_size_ = 4 * Cardinality(TextUpTo(Len(Loaded) + 1))
  /\ \A w \in TextUpTo(Len(Loaded) + 1) :
       LET it   == Loaded[w[1]]
           word == memory[4 * (Cardinality(TextUpTo(w[1])) + w[2] - 1)]
       IN  /\ word.line = it.line
           /\ word.op = IF it.kind # "la" THEN it.kind
                        ELSE IF w[2] = 1 THEN "auipc" ELSE "addi"

(* A data label is the address of the first byte of the values behind it:   *)
(* the parser counts the alignment when it meets the label and LoadProgram  *)
(* counts it again when it writes the values (parseDataDirective, align).   *)
DataAtLabels ==
  \A j \in DataLabels : Placed(j) =>
    LET address == DataStart + program_.symbol_table[Loaded[j].name].address IN
    /\ address % Loaded[j + 1].align = 0
    /\ \A n \in 1 .. Loaded[j + 1].values, b \in 0 .. Loaded[j + 1].size - 1 :
         LET a == address + (n - 1) * Loaded[j + 1].size + b
         IN  a \in DOMAIN memory /\ memory[a] = ValueOf(j, n, b)

(* The auipc and addi of a la add up to the address of its label's first    *)
(* value, for every distance, though addi's part is signed (parse_pseudo).  *)
AddressesLoaded ==
  \A k \in Words : memory[4 * k].op = "auipc" =>
    \E i \in ItemsIn("text") :
      /\ Loaded[i].kind = "la" /\ Loaded[i].line = memory[4 * k].line
      /\ memory[4 * k + 4].op = "addi"
      /\ LET j == LastLabel(Loaded[i].of)
             a == 4 * k + Signed(memory[4 * k]) * Page + Signed(memory[4 * k + 4])
         IN  Placed(j) => a \in DOMAIN memory /\ memory[a] = ValueOf(j, 1, 0)

(* Every line up to the last instruction's has a number, the one of the     *)
(* first instruction at or behind it: what a breakpoint by line and the     *)
(* highlighting of the current line rely on (assemble, AddBreakpoint).      *)
LineMapExact ==
  program_.lines =
    [l \in UNION {1 .. memory[4 * k].line : k \in Words} |-> WordsBefore(l)]

(* A load that starts ends, whatever the file: every loop of the two passes *)
(* leaves or consumes a token.  The exception: a label named data, bss or   *)
(* section, on which the loop that looks for a section stops and whose      *)
(* branch in parse() starts that loop again.                                *)
Stalls(src) == \E j \in DOMAIN src : src[j].kind = "label" /\ src[j].name \in SectionNames \ {"text"}

AssemblyEnds == (phase = "first" /\ ~Stalls(source)) ~> phase = "idle"
===============================================================================
