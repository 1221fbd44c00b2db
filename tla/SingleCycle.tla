---------------------------- MODULE SingleCycle ----------------------------
(***************************************************************************)
(* What the pipeline of rtl/cpu.sv promises to a program: instructions     *)
(* take effect one at a time, in the order of their addresses, each seeing *)
(* every register write of those before it and the switches of its own     *)
(* cycle.  There is no pipeline register, no bypass and no register file   *)
(* port here.                                                              *)
(*                                                                         *)
(* What the instructions compute is a parameter: the statement is about    *)
(* the order of their effects, and holds of any instruction set.           *)
(*                                                                         *)
(* One thing of the pipeline shows through, and is part of the promise: a  *)
(* reset may come after an instruction has finished and before its result  *)
(* is in the register memory, and the result is then lost.  `committed' is *)
(* what a reset leaves.                                                    *)
(***************************************************************************)
EXTENDS Integers

CONSTANTS
  ROMWORDS,     \* words of instruction memory (4096 in the source)
  Programs,     \* the contents the instruction memory may be loaded with
  Switches,     \* the values that may be set on the 18 switches
  Word, Regs,   \* the words, and the addresses of registers
  x0,           \* the register that always reads Zero
  Zero,
  Bubble,       \* the word that executes in the cycle after a reset
  rd(_), rs1(_), rs2(_),    \* the registers an instruction names
  regwe(_), hexwe(_),       \* whether it writes rd, whether it displays rs1
  Result(_,_,_,_)           \* its result on given values of rs1, rs2, switches

VARIABLES
  instruction_mem,  \* the program
  pc,               \* the address of the next instruction to fetch
  ir,               \* the instruction that executes in this cycle
  regs,             \* the registers as the program sees them
  committed,        \* the registers as a reset would leave them
  hexes,            \* the word on the eight hex displays
  rst,              \* reset is asserted
  io0               \* the switches

vars == <<instruction_mem, pc, ir, regs, committed, hexes, rst, io0>>

(* The display follows rs1 for as long as a display write is executing.    *)
Display(instr, registers, shown) ==
  IF hexwe(instr) THEN registers[rs1(instr)] ELSE shown

(* The registers after instr: x0 is never written, as it always reads 0.   *)
Execute(instr, registers, switches) ==
  [r \in Regs |->
     IF r = rd(instr) /\ r # x0 /\ regwe(instr)
     THEN Result(instr, registers[rs1(instr)], registers[rs2(instr)], switches)
     ELSE registers[r]]

-----------------------------------------------------------------------------

Init ==
  /\ instruction_mem \in Programs
  /\ pc = 0
  /\ ir = Bubble
  /\ regs \in [Regs -> Word]
  /\ regs[x0] = Zero
  /\ committed = regs
  /\ hexes \in Word
  /\ rst = TRUE
  /\ io0 \in Switches

(* One clock cycle outside reset: execute ir, fetch the next instruction.  *)
Cycle ==
  /\ ~rst
  /\ regs' = Execute(ir, regs, io0)
  /\ committed' = regs
  /\ ir' = instruction_mem[pc]
  /\ pc' = (pc + 1) % ROMWORDS
  /\ hexes' = Display(ir', regs', hexes)
  /\ UNCHANGED <<instruction_mem, rst, io0>>

(* Reset abandons ir and the write that is not committed.                  *)
Reset ==
  /\ ~rst
  /\ rst' = TRUE
  /\ regs' = committed
  /\ ir' = Bubble
  /\ pc' = 0
  /\ io0' \in Switches
  /\ UNCHANGED <<instruction_mem, committed, hexes>>

(* The environment moves the switches, and may release reset.              *)
Drive ==
  /\ io0' \in Switches
  /\ rst' \in {rst, FALSE}
  /\ UNCHANGED <<instruction_mem, pc, ir, regs, committed, hexes>>

Next == Cycle \/ Reset \/ Drive

Spec == Init /\ [][Next]_vars

=============================================================================
