------------------------------- MODULE MCGui -------------------------------
(***************************************************************************)
(* Instruction memories of four words, and files that give them: two       *)
(* programs that between them display all sixteen digits, one that         *)
(* displays the switches and carries them through dependent instructions,  *)
(* an empty file, and one with an error after its first word.              *)
(***************************************************************************)
EXTENDS Gui, Assembler

MCROMWORDS == 4

Digits0To7 == << Lui(x(1), 4660), Addi(x(1), x(1), 1383), WriteHex(x0, x(1)),
                 ReadSwitches(x0) >>
Digits8ToF == << Lui(x(1), 1043916), Addi(x(1), x(1), -1384), WriteHex(x0, x(1)) >>
Displayed  == << ReadSwitches(x(1)), WriteHex(x(2), x(1)), Addi(x(2), x(1), 1),
                 Add3(x(1), x(2), x(1)) >>

Text(words) ==
  FoldLeft(LAMBDA file, word : Append(file, << Hex(8, word) >>), << >>, words)

(* The empty file is also the program that main() writes without an        *)
(* argument; the first words of the erroneous one are those of no other.   *)
GuiFiles ==
  { << >>, Text(Digits0To7), Text(Digits8ToF), Text(Displayed \o Digits0To7),
    << << Hex(8, Addi(x(1), x0, 1)), blank, comment >>, << Hex(8, {0}), other >> >> }

GuiPrograms  == { Image(4, LoadASCIIHex(f)) : f \in { g \in GuiFiles : Accepts(g) } }
GuiSwitches  == { {}, {0, 17} }

NoMems  == {}
NoHexes == {}

=============================================================================
