-------------------------------- MODULE Cpu --------------------------------
(***************************************************************************)
(* rtl/cpu.sv with the register file of rtl/regfile32x32.sv: a pipeline of *)
(* three stages, fetch (F), decode and execute (EX) and write back (WB).   *)
(*                                                                         *)
(* The actions are the edges the hardware reacts to: a rising clock edge   *)
(* in and out of reset, and a change of the inputs, among them the rising  *)
(* edge of rst, to which the pipeline registers respond without a clock.   *)
(* Signals of the source that are functions of the registers (decode,      *)
(* control, the ALU, the register file's read ports) are operators here.   *)
(* hexwe_WB is left out: nothing reads it.                                 *)
(***************************************************************************)
EXTENDS Datapath

CONSTANTS
  ROMWORDS,         \* words of instruction memory (4096 in the source)
  Programs,         \* the contents instruction_mem may be loaded with
  Switches,         \* the values that may be set on the 18 switches
  PowerUpMems,      \* what the register memory may hold at power-up
  PowerUpHexes      \* what the display may show at power-up

ASSUME ConstantsAssumption ==
  /\ ROMWORDS \in Nat \ {0}
  /\ Programs \subseteq [0 .. ROMWORDS-1 -> Word]
  /\ Switches \subseteq Vec(18)
  /\ PowerUpMems \subseteq [Regs -> Word]
  /\ PowerUpHexes \subseteq Word

VARIABLES
  instruction_mem,
  PC_F, instr_EX,                                       \* the fetch stage
  regwe_WB, regsel_WB, R_WB, imm_u_WB, io0_WB,          \* EX to WB
  regdest_WB,
  mem,                                                  \* the register memory
  hexes,                                                \* the display latch
  rst, io0                                              \* the inputs

pipeline == <<PC_F, instr_EX, regwe_WB, regsel_WB, R_WB, imm_u_WB, io0_WB, regdest_WB>>
inputs   == <<rst, io0>>
vars     == <<instruction_mem, pipeline, mem, hexes, inputs>>

-----------------------------------------------------------------------------
(* The combinational signals.                                              *)

writedata_WB == writedata(regsel_WB, R_WB, imm_u_WB, io0_WB)

(* Mutant: a read port without the bypass.                                 *)
ReadPortNoBypass(r) == IF r = x0 THEN {} ELSE mem[r]

(***************************************************************************)
(* A read port of the register file: x0 reads 0, a register that is being  *)
(* written back in this cycle reads the value that is being written.       *)
(***************************************************************************)
ReadPort(r) ==
  IF r = x0 THEN {}
  ELSE IF r = regdest_WB /\ regwe_WB THEN writedata_WB
  ELSE mem[r]

A_EX == ReadPort(rs1(instr_EX))
R_EX == AluResult(instr_EX, A_EX, ReadPort(rs2(instr_EX)))

(* Mutant: the always_comb block gives hexes a default and infers no latch.*)
HexLatchDefaultsToZero == hexes' = IF hexwe(instr_EX') THEN A_EX' ELSE {}

(***************************************************************************)
(* hexes is assigned in an always_comb block and only when hexwe_EX, which *)
(* makes it a latch: after any event it shows A_EX while a display write   *)
(* is in EX, and else keeps what it showed.                                *)
(***************************************************************************)
HexLatch == hexes' = IF hexwe(instr_EX') THEN A_EX' ELSE hexes

-----------------------------------------------------------------------------
(* The edges.                                                              *)

(* Mutant: regwe_WB is not reset either.                                   *)
ResetPipelineKeepsWrite ==
  /\ instr_EX' = {} /\ PC_F' = 0
  /\ regsel_WB' = 0 /\ R_WB' = {} /\ imm_u_WB' = {} /\ io0_WB' = {}
  /\ UNCHANGED <<regdest_WB, regwe_WB>>

(* What rst does to the pipeline registers; regdest_WB is not reset.       *)
ResetPipeline ==
  /\ instr_EX' = {}
  /\ PC_F' = 0
  /\ regwe_WB' = FALSE
  /\ regsel_WB' = 0
  /\ R_WB' = {}
  /\ imm_u_WB' = {}
  /\ io0_WB' = {}
  /\ UNCHANGED regdest_WB

(* The register file writes on every clock edge, in reset or not.          *)
RegfileWrite ==
  mem' = IF regwe_WB THEN [mem EXCEPT ![regdest_WB] = writedata_WB] ELSE mem

(* Mutants: a program counter that is not cut to its width; one that stops.*)
FetchNoWrap ==
  /\ instr_EX' = instruction_mem[PC_F % ROMWORDS]
  /\ PC_F' = PC_F + 1
FetchStops ==
  /\ instr_EX' = instruction_mem[PC_F]
  /\ PC_F' = IF PC_F = ROMWORDS - 1 THEN PC_F ELSE PC_F + 1

Fetch ==
  /\ instr_EX' = instruction_mem[PC_F]
  /\ PC_F' = (PC_F + 1) % ROMWORDS

ExecuteStage(switches) ==
  /\ regwe_WB' = regwe(instr_EX)
  /\ regsel_WB' = regsel(instr_EX)
  /\ R_WB' = R_EX
  /\ imm_u_WB' = imm_u(instr_EX)
  /\ io0_WB' = switches
  /\ regdest_WB' = rd(instr_EX)

(* posedge clk with rst low.                                               *)
Advance ==
  /\ ~rst
  /\ Fetch
  /\ ExecuteStage(io0)
  /\ RegfileWrite
  /\ HexLatch
  /\ UNCHANGED <<instruction_mem, inputs>>

(* posedge clk with rst high.                                              *)
ClockInReset ==
  /\ rst
  /\ ResetPipeline
  /\ RegfileWrite
  /\ HexLatch
  /\ UNCHANGED <<instruction_mem, inputs>>

(* Mutant: a synchronous reset, which waits for the next clock edge.       *)
AssertResetSynchronous(switches) ==
  /\ ~rst
  /\ rst' = TRUE
  /\ io0' = switches
  /\ UNCHANGED <<instruction_mem, pipeline, mem>>
  /\ HexLatch

(* posedge rst: the reset is asynchronous.                                 *)
AssertReset(switches) ==
  /\ ~rst
  /\ rst' = TRUE
  /\ io0' = switches
  /\ ResetPipeline
  /\ UNCHANGED <<instruction_mem, mem>>
  /\ HexLatch

(* A change of the inputs without a rising edge of rst.                    *)
DriveInputs(r, switches) ==
  /\ r => rst
  /\ rst' = r
  /\ io0' = switches
  /\ UNCHANGED <<instruction_mem, pipeline, mem>>
  /\ HexLatch

-----------------------------------------------------------------------------

(***************************************************************************)
(* The CPU is observed from its first reset on.  What that reset does not  *)
(* initialise (regdest_WB, the register memory, the display) is arbitrary. *)
(***************************************************************************)
Init ==
  /\ instruction_mem \in Programs
  /\ PC_F = 0
  /\ instr_EX = {}
  /\ regwe_WB = FALSE
  /\ regsel_WB = 0
  /\ R_WB = {}
  /\ imm_u_WB = {}
  /\ io0_WB = {}
  /\ regdest_WB \in Regs
  /\ mem \in PowerUpMems
  /\ hexes \in PowerUpHexes
  /\ rst = TRUE
  /\ io0 \in Switches

Next ==
  \/ Advance
  \/ ClockInReset
  \/ \E switches \in Switches : AssertReset(switches)
  \/ \E r \in BOOLEAN, switches \in Switches : DriveInputs(r, switches)

Spec == Init /\ [][Next]_vars

-----------------------------------------------------------------------------
(* Properties.                                                             *)

(* Every register of the pipeline holds a vector of its declared width.    *)
TypeOK ==
  /\ instruction_mem \in [0 .. ROMWORDS-1 -> Word]
  /\ PC_F \in 0 .. ROMWORDS-1
  /\ instr_EX \in Word
  /\ regwe_WB \in BOOLEAN
  /\ regsel_WB \in {0, 1, 2}
  /\ R_WB \in Word
  /\ imm_u_WB \in Vec(20)
  /\ io0_WB \in Vec(18)
  /\ regdest_WB \in Regs
  /\ mem \in [Regs -> Word]
  /\ hexes \in Word
  /\ rst \in BOOLEAN
  /\ io0 \in Vec(18)

(***************************************************************************)
(* While reset is asserted nothing is in flight: no write back is pending  *)
(* and neither stage holds an instruction.                                 *)
(***************************************************************************)
ResetFlushes ==
  rst => /\ PC_F = 0
         /\ instr_EX = {}
         /\ ~regwe_WB

(***************************************************************************)
(* No instruction of before a reset reaches the register memory during or  *)
(* after it: the register file keeps writing on clock edges in reset, so   *)
(* this holds only because rst clears regwe_WB before the first of them.   *)
(***************************************************************************)
ResetHoldsRegisters == [][rst => UNCHANGED mem]_vars

(***************************************************************************)
(* The refinement: the registers a program sees are those the read ports   *)
(* deliver, bypass included; a reset leaves those of the register memory.  *)
(***************************************************************************)
seen      == [r \in Regs |-> ReadPort(r)]
committed == [r \in Regs |-> IF r = x0 THEN {} ELSE mem[r]]

SC == INSTANCE SingleCycle WITH
        pc <- PC_F, ir <- instr_EX, regs <- seen, Bubble <- {}, Zero <- {}

(* The pipeline implements execution of one instruction at a time.         *)
ImplementsSingleCycle == SC!Spec

=============================================================================
