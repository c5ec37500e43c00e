------------------------------ MODULE MCAssembler ------------------------------
(* Small files for Assembler: data sections and text sections in both orders, *)
(* labels on a line of their own or on the line of what they name.            *)
EXTENDS Assembler

Section(n)   == [kind |-> "section", name |-> n]
Label(n)     == [kind |-> "label", name |-> n]
Data(s, v)   == [kind |-> "data", size |-> s, align |-> s, values |-> v]
Branch(l)    == [kind |-> "branch", to |-> l]
Jal(l)       == [kind |-> "jal", to |-> l]
La(l)        == [kind |-> "la", of |-> l]
Op           == [kind |-> "op"]
Bad          == [kind |-> "bad"]

DataSections == {
  <<Label("x"), Data(1, 1), Label("y"), Data(4, 2)>>,
  <<Data(1, 3), Data(2, 2), Label("y"), Data(4, 1), Label("x"), Data(1, 2)>>,
  <<Label("y"), Data(4, 0), Label("x"), Data(2, 1)>>,
  <<Data(1, 1), Label("x"), Data(4, 0), Label("y"), Data(1, 2)>>,
  <<Label("x"), Data(1, 1), Label("x"), Data(2, 1), Label("y"), Data(2, 1)>> }

Texts == {
  <<Branch("a"), Op, Label("a"), Branch("a"), La("y")>>,
  <<Label("a"), La("x"), La("y"), Jal("a"), Op>>,
  <<Label("a"), Op, Op, Branch("a"), Jal("b"), Label("b")>>,
  <<Jal("b"), Op, Op, Op, Label("b"), Op>>,
  <<Op, La("y"), Label("x"), Op>>,
  <<Jal("y"), Op>> }

Rejected == {
  <<Branch("b"), Op, Label("b"), Op>>,
  <<Section("data"), Op, Label("y"), Section("text"), Bad>>,
  <<Data(1, 1), Op>>,
  <<Branch("a"), Op, Op, Label("a")>>,
  <<Label("a"), Op, Op, Op, Branch("a")>>,
  <<Label("a"), Label("a"), La("z"), Data(1, 1)>>,
  <<Section("data"), Label("y"), Data(1, 1), Section("text"), Branch("y"), Jal("c")>> }

Odd == {
  <<Op, Section("bss"), Label("y"), Data(1, 1), Op, Section("data"), Data(2, 1), Section("text"),
    Label("a"), Jal("a")>>,
  <<Section("data"), Label("x"), Data(4, 1), Section("text"), Op, Section("data"), Data(1, 1),
    Section("text"), La("x")>>,
  <<Section("data"), Label("data"), Data(1, 1), Section("text"), Op>>,
  <<Section("data"), Data(1, 1), Label("x"), Data(1, 1), Section("text"), Op, Jal("x")>>,
  <<Section("data"), Data(1, 7), Label("x"), Data(1, 1), Section("text"), Jal("x"), Label("a"), Jal("a")>>,
  <<Op, Label("bss"), Op>> }

(* Each item on a line of its own, or labels before what they name, with a  *)
(* blank first line.                                                         *)
Lay(items, joined) ==
  [i \in DOMAIN items |->
     [line |-> IF joined THEN 2 + Cardinality({j \in 1 .. i - 1 : items[j].kind # "label"}) ELSE i]
     @@ items[i]]

DataFirst == {<<Section("data")>> \o d \o <<Section("text")>> \o t : d \in DataSections, t \in Texts}

TextFirst == {t \o <<Section("data")>> \o d :
                d \in {e \in DataSections : e[1].kind = "data"}, t \in Texts}

SmallFiles == {Lay(f, FALSE) : f \in DataFirst \cup Odd} \cup {Lay(f, TRUE) : f \in TextFirst \cup Rejected}

(* What the theorems of AssemblerImage_proofs assume holds of these files. *)
ASSUME FilesRegular ==
  Ordered /\ TextFits /\ NoTextLabel /\ LabelsLead /\ DataAligned /\ DataFits
===============================================================================
