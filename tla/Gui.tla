-------------------------------- MODULE Gui --------------------------------
(***************************************************************************)
(* support/gui.go over the simulation: the switches, keys and seven-       *)
(* segment digits of the window, and when the callbacks copy the state of  *)
(* the simulation into them.                                               *)
(*                                                                         *)
(* de2gui is external.  Its state is the KEY and SW of the window; a burst *)
(* of ticks calls OnTick once for each, with final set on the last.  Its   *)
(* digits are numbered from the left, so that SetHEX(7, HEX0) puts the     *)
(* least significant digit to the right.                                   *)
(***************************************************************************)
EXTENDS Simulator, RomFile

CONSTANT Files      \* the files that --load-rom and the dialog may open

Pins == INSTANCE Board

VARIABLES
  phase,            \* main(), until its window is open
  KEY, SWITCHES,    \* the window's key 3 and switches
  panel,            \* the segments of the window's eight digits
  reglabels,        \* the values in the table of registers
  fresh,            \* history: which of the digits and the table show the
                    \* simulation as it is, but for a loaded ROM's reset,
  loaded            \* and the words of the file last opened without an error

window  == <<phase, KEY, SWITCHES, panel, reglabels, fresh, loaded>>
guivars == <<simvars, window>>

Clicked(sw) == Pins!write_io("IO_SW", sw)

(* Words beyond the end of the memory are dropped without a message.       *)
Program(file) == Image(ROMWORDS, LoadASCIIHex(file))

(* The programs are at least those of the files.                           *)
ASSUME GuiAssumption == \A file \in Files : Accepts(file) => Program(file) \in Programs

-----------------------------------------------------------------------------

(* main(), after initialize_simulation: write zeroes or the words of the   *)
(* file named by --load-rom, and reset again.  An error in the file ends   *)
(* the program.                                                            *)
Initialized ==
  /\ phase = "initialize"
  /\ Return
  /\ phase' = "load"
  /\ UNCHANGED <<KEY, SWITCHES, panel, reglabels, fresh, loaded>>

LoadArgument(file) ==
  /\ phase = "load" /\ Accepts(file)
  /\ LoadRom("main", Program(file))
  /\ phase' = "reset"
  /\ loaded' = LoadASCIIHex(file)
  /\ UNCHANGED <<KEY, SWITCHES, panel, reglabels, fresh>>

Panic(file) ==
  /\ phase = "load" /\ ~Accepts(file)
  /\ phase' = "panicked"
  /\ UNCHANGED <<simvars, KEY, SWITCHES, panel, reglabels, fresh, loaded>>

(* The labels of the registers are made from their values.                 *)
OpenWindow ==
  /\ phase = "reset"
  /\ Return
  /\ phase' = "open"
  /\ reglabels' = mem
  /\ fresh' = {"table"}
  /\ UNCHANGED <<KEY, SWITCHES, panel, loaded>>

-----------------------------------------------------------------------------

(* The key or a switch is clicked: the callback writes it to the board.    *)
ClickKEY(key) ==
  /\ phase = "open"
  /\ OnKEY(key)
  /\ KEY' = key
  /\ UNCHANGED <<phase, SWITCHES, panel, reglabels, fresh, loaded>>

ClickSW(switches) ==
  /\ phase = "open"
  /\ OnSW(Clicked(switches))
  /\ SWITCHES' = switches
  /\ UNCHANGED <<phase, KEY, panel, reglabels, fresh, loaded>>

Tick ==
  /\ phase = "open"
  /\ OnTick(KEY, Clicked(SWITCHES))
  /\ UNCHANGED window

ResetButton ==
  /\ phase = "open"
  /\ OnReset
  /\ UNCHANGED window

(* What the dialog leaves as it is.                                        *)
Opens(file) ==
  /\ loaded' = IF Accepts(file) THEN LoadASCIIHex(file) ELSE loaded
  /\ UNCHANGED <<phase, KEY, SWITCHES, panel, reglabels, fresh>>

(* Mutant: the dialog forgets the reset().                                 *)
OpenRomWithoutReset(file) ==
  /\ phase = "open" /\ call = idle
  /\ instruction_mem' = IF Accepts(file) THEN Program(file) ELSE instruction_mem
  /\ UNCHANGED <<pipeline, mem, hexes, inputs, top, cycleno, call, history>>
  /\ Opens(file)

(* The dialog: a file with an error in it changes nothing.                 *)
OpenRom(file) ==
  /\ phase = "open" /\ call = idle
  /\ IF Accepts(file) THEN LoadRom("LoadRom", Program(file)) ELSE UNCHANGED simvars
  /\ Opens(file)

Simulate ==
  /\ SettleEval \/ RiseEval \/ FallEval
  /\ UNCHANGED window

(* SetHEX(7 - k, read_io(HEX k)) for every k.                              *)
SetHEX ==
  panel' = [i \in 0 .. 7 |-> Pins!read_io("IO_HEX", Pins!HEX(hexes)[7 - i])]

(* Mutant: the table is refreshed on every tick but the last.              *)
SetTextTooEarly(final) == reglabels' = IF final THEN reglabels ELSE mem

(* reglabels[i].SetText(read_reg(i)) for every i, unless more ticks follow.*)
SetText(final) == reglabels' = IF final THEN mem ELSE reglabels

(* delay_cycles returns to OnTick, which stops there unless final.         *)
EndTick(final) ==
  /\ call.for = "OnTick"
  /\ Return
  /\ SetText(final)
  /\ IF final THEN SetHEX ELSE UNCHANGED panel
  /\ fresh' = IF final THEN {"digits", "table"} ELSE {}
  /\ UNCHANGED <<phase, KEY, SWITCHES, loaded>>

(* reset() returns to OnReset: SetHEX, ClearKEY and ClearSW.               *)
EndReset ==
  /\ call.for = "OnReset"
  /\ Return
  /\ SetHEX
  /\ KEY' = FALSE
  /\ SWITCHES' = {}
  /\ fresh' = {"digits"}
  /\ UNCHANGED <<phase, reglabels, loaded>>

(* reset() returns to loadRomDialog, which does nothing more.              *)
EndLoad ==
  /\ call.for = "LoadRom"
  /\ Return
  /\ fresh' = fresh \ {"table"}
  /\ UNCHANGED <<phase, KEY, SWITCHES, panel, reglabels, loaded>>

-----------------------------------------------------------------------------

GuiInit ==
  /\ SimInit
  /\ phase = "initialize"
  /\ KEY = FALSE /\ SWITCHES = {}
  /\ panel = [i \in 0 .. 7 |-> {}]
  /\ reglabels = Zeroed
  /\ fresh = {} /\ loaded = << >>

GuiNext ==
  \/ Initialized
  \/ \E file \in Files : LoadArgument(file) \/ Panic(file) \/ OpenRom(file)
  \/ OpenWindow
  \/ \E key \in BOOLEAN : ClickKEY(key)
  \/ \E switches \in Switches : ClickSW(switches)
  \/ Tick
  \/ ResetButton
  \/ Simulate
  \/ \E final \in BOOLEAN : EndTick(final)
  \/ EndReset
  \/ EndLoad

GuiSpec == GuiInit /\ [][GuiNext]_guivars

-----------------------------------------------------------------------------

(* The digits in which each segment, a to g, is lit on a hex display.      *)
LitIn ==
  << {0, 2, 3, 5, 6, 7, 8, 9, 10, 12, 14, 15},
     {0, 1, 2, 3, 4, 7, 8, 9, 10, 13},
     {0, 1, 3, 4, 5, 6, 7, 8, 9, 10, 11, 13},
     {0, 2, 3, 5, 6, 8, 11, 12, 13, 14},
     {0, 2, 6, 8, 10, 11, 12, 13, 14, 15},
     {0, 4, 5, 6, 8, 9, 10, 11, 12, 14, 15},
     {2, 3, 4, 5, 6, 8, 9, 10, 11, 13, 14, 15} >>

(* A digit with these (active-low) segments reads as n.                    *)
ReadsAs(segments, n) == \A g \in 0 .. 6 : g \notin segments <=> n \in LitIn[g + 1]

(***************************************************************************)
(* The window reads, from left to right, as the word the program displays, *)
(* as soon as a tick or a reset has refreshed it, and loading a ROM, which *)
(* runs the clock and refreshes nothing, does not change that.             *)
(***************************************************************************)
PanelShowsDisplay ==
  call = idle /\ "digits" \in fresh =>
    \A k \in 0 .. 7 : ReadsAs(panel[7 - k], Num(Slice(hexes, 4*k + 3, 4*k)))

(***************************************************************************)
(* After the last tick of a burst the table of registers shows, but for    *)
(* x0, what the program has computed since the last reset, two             *)
(* instructions late, whatever was clicked, reset and loaded before.  A    *)
(* reset or a ROM leaves the table as it was until the next tick.          *)
(***************************************************************************)
TableShowsResults ==
  call = idle /\ "table" \in fresh => \A r \in Regs \ {x0} : reglabels[r] = retired[r]

(***************************************************************************)
(* While the window is open and no reset() in progress, the instruction in *)
(* EX is the one that the file last opened without an error has for this   *)
(* cycle since the last reset, or zero where the file has no word.  It is  *)
(* never what was in the pipeline when its memory was overwritten, never   *)
(* what a reset should have flushed, and never from the part of a file     *)
(* before an error.  Of a file longer than the memory, only the words that *)
(* fit are executed, over and over.                                        *)
(***************************************************************************)
ExecutesTheOpenedFile ==
  phase = "open" /\ call.for \notin Resetters =>
    LET addr == (age - 1) % ROMWORDS
    IN  instr_EX =
          IF ~rst /\ age # 0 /\ addr < Len(loaded) THEN loaded[addr + 1] ELSE {}

=============================================================================
