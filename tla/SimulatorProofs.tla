-------------------------- MODULE SimulatorProofs --------------------------
(***************************************************************************)
(* Theorems about the pipeline of Cpu.tla and about its simulation,        *)
(* Simulator.tla: for every size of the instruction memory, every program, *)
(* every setting of the switches, every content of the register memory at  *)
(* power-up, and every length of a reset.  The first part, up to           *)
(* Refinement, is about the pipeline alone.                                *)
(***************************************************************************)
EXTENDS Simulator, TLAPS


-----------------------------------------------------------------------------
(* Widths: the combinational operators return vectors of their width.      *)

LEMMA SliceType ==
  ASSUME NEW v, NEW hi \in Int, NEW lo \in Int
  PROVE  Slice(v, hi, lo) \in Vec(hi - lo + 1)
  BY DEF Slice, Vec

(* The fields of an instruction, for any word.                             *)
LEMMA FieldTypes ==
  ASSUME NEW instr
  PROVE  /\ rd(instr) \in Regs
         /\ rs1(instr) \in Regs
         /\ rs2(instr) \in Regs
         /\ imm_i(instr) \in Vec(12)
         /\ imm_u(instr) \in Vec(20)
  BY SliceType, 11 - 7 + 1 = 5, 19 - 15 + 1 = 5, 24 - 20 + 1 = 5,
     31 - 20 + 1 = 12, 31 - 12 + 1 = 20
  DEF rd, rs1, rs2, imm_i, imm_u, Regs

LEMMA ControlTypes ==
  ASSUME NEW instr
  PROVE  /\ regwe(instr) \in BOOLEAN
         /\ hexwe(instr) \in BOOLEAN
         /\ regsel(instr) \in {0, 1, 2}
  BY DEF regwe, hexwe, regsel, isCSRRW

(* The word of zeros, which reset puts into EX, is not a display write.    *)
LEMMA BubbleShowsNothing == hexwe({}) = FALSE
  <1>1. 1 \in Lit(7, 115)
    BY DEF Lit, Bits
  <1>2. opcode({}) = {}
    BY DEF opcode, Slice
  <1> QED
    BY <1>1, <1>2 DEF hexwe, isCSRRW, OP_SYSTEM

LEMMA BType ==
  ASSUME NEW instr, NEW readdata2 \in Word
  PROVE  B(instr, readdata2) \in Word
  <1>1. SignExtend(32, 12, imm_i(instr)) \in Word
    BY FieldTypes DEF SignExtend, Vec, Bits, Word
  <1> QED
    BY <1>1 DEF B

(* Whatever the operation code, the ALU returns a word.                    *)
LEMMA AluType ==
  ASSUME NEW a \in Word, NEW b \in Word, NEW op
  PROVE  ALU!R(a, b, op) \in Word
  <1>1. ALU!Add(32, a, b) \in Word /\ ALU!Sub(32, a, b) \in Word
    BY DEF ALU!Add, ALU!Sub, ALU!Bits, Word, Vec, Bits
  <1>2. ALU!Xor(a, b) \in Word
    BY DEF ALU!Xor, Word, Vec
  <1>3. /\ ALU!mulls(a, b) \in Word
        /\ ALU!mulhs(a, b) \in Word
        /\ ALU!mulhu(a, b) \in Word
    BY DEF ALU!mulls, ALU!mulhs, ALU!mulhu, ALU!Slice, ALU!Wide, ALU!Bits, Word, Vec, Bits
  <1>4. \A n : ALU!ShiftLeft(32, a, n) \in Word /\ ALU!ShiftRight(32, a, n) \in Word
    BY DEF ALU!ShiftLeft, ALU!ShiftRight, ALU!Bits, Word, Vec, Bits
  <1>5. ALU!shifted(a, b) \in Word
    BY DEF ALU!shifted, ALU!Bits, Word, Vec, Bits
  <1>6. \A flag : ALU!Flag(flag) \in Word
    BY DEF ALU!Flag, ALU!One, Word, Vec, Bits
  <1>7. a \cap b \in Word /\ a \cup b \in Word
    BY DEF Word, Vec
  <1> QED
    BY <1>1, <1>2, <1>3, <1>4, <1>5, <1>6, <1>7 DEF ALU!R, ALU!Difference

LEMMA WritedataType ==
  ASSUME NEW sel, NEW result \in Word, NEW imm \in Vec(20), NEW switches \in Vec(18)
  PROVE  writedata(sel, result, imm, switches) \in Word
  <1>1. Cat(imm, 12, {}) \in Word
    BY DEF Cat, Vec, Bits, Word
  <1>2. switches \in Word
    BY DEF Vec, Bits, Word
  <1> QED
    BY <1>1, <1>2 DEF writedata

LEMMA ReadPortType ==
  ASSUME TypeOK, NEW r \in Regs
  PROVE  ReadPort(r) \in Word
  <1>1. writedata_WB \in Word
    BY WritedataType DEF TypeOK, writedata_WB
  <1>2. {} \in Word
    BY DEF Word, Vec
  <1> QED
    BY <1>1, <1>2 DEF ReadPort, TypeOK

LEMMA ModuloType ==
  ASSUME NEW n \in Nat \ {0}, NEW i \in Nat
  PROVE  i % n \in 0 .. n-1
  OBVIOUS

-----------------------------------------------------------------------------
(***************************************************************************)
(* Type correctness: no action takes a register of the CPU out of its      *)
(* declared width; in particular the program counter stays an address of   *)
(* the instruction memory, whatever the size of that memory.               *)
(***************************************************************************)
LEMMA InitType == Init => TypeOK
  <1> SUFFICES ASSUME Init PROVE TypeOK
    OBVIOUS
  <1>1. {} \in Word /\ {} \in Vec(20) /\ {} \in Vec(18)
    BY DEF Word, Vec
  <1>2. 0 \in 0 .. ROMWORDS-1
    BY ConstantsAssumption
  <1>3. /\ instruction_mem \in [0 .. ROMWORDS-1 -> Word]
        /\ mem \in [Regs -> Word]
        /\ hexes \in Word
        /\ io0 \in Vec(18)
    BY ConstantsAssumption DEF Init
  <1> QED
    BY <1>1, <1>2, <1>3 DEF Init, TypeOK

(* The display latch takes a word once the rest of the state has its type. *)
LEMMA HexLatchType ==
  ASSUME TypeOK, HexLatch,
         ReadPort(rs1(instr_EX))' \in Word
  PROVE  hexes' \in Word
  BY DEF HexLatch, TypeOK, A_EX

LEMMA NextType == TypeOK /\ [Next]_vars => TypeOK'
  <1> SUFFICES ASSUME TypeOK, [Next]_vars PROVE TypeOK'
    OBVIOUS
  <1> DEFINE Rest == /\ instruction_mem \in [0 .. ROMWORDS-1 -> Word]
                     /\ PC_F \in 0 .. ROMWORDS-1
                     /\ instr_EX \in Word
                     /\ regwe_WB \in BOOLEAN
                     /\ regsel_WB \in {0, 1, 2}
                     /\ R_WB \in Word
                     /\ imm_u_WB \in Vec(20)
                     /\ io0_WB \in Vec(18)
                     /\ regdest_WB \in Regs
                     /\ mem \in [Regs -> Word]
                     /\ rst \in BOOLEAN
                     /\ io0 \in Vec(18)
  <1>1. ASSUME Rest', HexLatch PROVE TypeOK'
    <2>1. writedata_WB' \in Word
      BY <1>1, WritedataType DEF writedata_WB
    <2>2. {} \in Word
      BY DEF Word, Vec
    <2>3. ReadPort(rs1(instr_EX))' \in Word
      <3>1. rs1(instr_EX') \in Regs
        BY FieldTypes
      <3> QED
        BY <1>1, <2>1, <2>2, <3>1 DEF ReadPort
    <2>4. hexes' \in Word
      BY <1>1, <2>3, HexLatchType
    <2> QED
      BY <1>1, <2>4 DEF TypeOK
  <1>2. ASSUME RegfileWrite PROVE mem' \in [Regs -> Word]
    <2>1. writedata_WB \in Word
      BY WritedataType DEF TypeOK, writedata_WB
    <2> QED
      BY <1>2, <2>1 DEF RegfileWrite, TypeOK
  <1>3. ASSUME ResetPipeline
        PROVE  /\ PC_F' \in 0 .. ROMWORDS-1
               /\ instr_EX' \in Word
               /\ regwe_WB' \in BOOLEAN
               /\ regsel_WB' \in {0, 1, 2}
               /\ R_WB' \in Word
               /\ imm_u_WB' \in Vec(20)
               /\ io0_WB' \in Vec(18)
               /\ regdest_WB' \in Regs
    <2>1. {} \in Word /\ {} \in Vec(20) /\ {} \in Vec(18)
      BY DEF Word, Vec
    <2>2. 0 \in 0 .. ROMWORDS-1
      BY ConstantsAssumption
    <2> QED
      BY <1>3, <2>1, <2>2 DEF ResetPipeline, TypeOK
  <1>4. CASE Advance
    <2>1. instr_EX' \in Word
      BY <1>4 DEF Advance, Fetch, TypeOK
    <2>2. PC_F' \in 0 .. ROMWORDS-1
      BY <1>4, ModuloType, ConstantsAssumption DEF Advance, Fetch, TypeOK
    <2>3. R_EX \in Word
      BY ReadPortType, FieldTypes, BType, AluType DEF R_EX, A_EX, AluResult
    <2>4. /\ regwe_WB' \in BOOLEAN
          /\ regsel_WB' \in {0, 1, 2}
          /\ R_WB' \in Word
          /\ imm_u_WB' \in Vec(20)
          /\ io0_WB' \in Vec(18)
          /\ regdest_WB' \in Regs
      BY <1>4, <2>3, FieldTypes, ControlTypes DEF Advance, ExecuteStage, TypeOK
    <2>5. UNCHANGED <<instruction_mem, rst, io0>>
      BY <1>4 DEF Advance, inputs
    <2> QED
      BY <1>4, <2>1, <2>2, <2>4, <2>5, <1>1, <1>2 DEF Advance, TypeOK
  <1>5. CASE ClockInReset
    <2>1. UNCHANGED <<instruction_mem, rst, io0>>
      BY <1>5 DEF ClockInReset, inputs
    <2> QED
      BY <1>5, <2>1, <1>1, <1>2, <1>3 DEF ClockInReset, TypeOK
  <1>6. ASSUME NEW switches \in Switches, AssertReset(switches) PROVE TypeOK'
    BY <1>6, <1>1, <1>3, ConstantsAssumption DEF AssertReset, TypeOK
  <1>7. ASSUME NEW r \in BOOLEAN, NEW switches \in Switches, DriveInputs(r, switches)
        PROVE  TypeOK'
    BY <1>7, <1>1, ConstantsAssumption DEF DriveInputs, TypeOK, pipeline
  <1>8. CASE UNCHANGED vars
    BY <1>8 DEF vars, pipeline, inputs, TypeOK
  <1> QED
    BY <1>4, <1>5, <1>6, <1>7, <1>8 DEF Next

THEOREM TypeCorrect == Spec => []TypeOK
  BY InitType, NextType, PTL DEF Spec

-----------------------------------------------------------------------------
(* Reset.                                                                  *)

LEMMA InitFlushes == Init => ResetFlushes
  BY DEF Init, ResetFlushes

LEMMA NextFlushes == ResetFlushes /\ [Next]_vars => ResetFlushes'
  <1> SUFFICES ASSUME ResetFlushes, [Next]_vars PROVE ResetFlushes'
    OBVIOUS
  <1>1. CASE Advance
    BY <1>1 DEF Advance, inputs, ResetFlushes
  <1>2. CASE ClockInReset
    BY <1>2 DEF ClockInReset, ResetPipeline, ResetFlushes
  <1>3. ASSUME NEW switches \in Switches, AssertReset(switches) PROVE ResetFlushes'
    BY <1>3 DEF AssertReset, ResetPipeline, ResetFlushes
  <1>4. ASSUME NEW r \in BOOLEAN, NEW switches \in Switches, DriveInputs(r, switches)
        PROVE  ResetFlushes'
    BY <1>4 DEF DriveInputs, pipeline, ResetFlushes
  <1>5. CASE UNCHANGED vars
    BY <1>5 DEF vars, pipeline, inputs, ResetFlushes
  <1> QED
    BY <1>1, <1>2, <1>3, <1>4, <1>5 DEF Next

(***************************************************************************)
(* In reset nothing is in flight.  The property is inductive because the   *)
(* reset is asynchronous: the step that raises rst is the one that clears  *)
(* the pipeline, and the clock edges of the reset keep it clear.           *)
(***************************************************************************)
THEOREM ResetFlushesThePipeline == Spec => []ResetFlushes
  BY InitFlushes, NextFlushes, PTL DEF Spec

LEMMA StepHoldsRegisters ==
  ResetFlushes /\ [Next]_vars => [rst => UNCHANGED mem]_vars
  <1> SUFFICES ASSUME ResetFlushes, Next, rst PROVE mem' = mem
    OBVIOUS
  <1>1. ~Advance
    BY DEF Advance
  <1>2. CASE ClockInReset
    BY <1>2 DEF ClockInReset, RegfileWrite, ResetFlushes
  <1>3. ASSUME NEW switches \in Switches, AssertReset(switches) PROVE mem' = mem
    BY <1>3 DEF AssertReset
  <1>4. ASSUME NEW r \in BOOLEAN, NEW switches \in Switches, DriveInputs(r, switches)
        PROVE  mem' = mem
    BY <1>4 DEF DriveInputs
  <1> QED
    BY <1>1, <1>2, <1>3, <1>4 DEF Next

(***************************************************************************)
(* No clock edge of a reset writes the register memory, although the       *)
(* register file itself is not reset and writes on every edge it is told   *)
(* to: by ResetFlushes it is never told to.                                *)
(***************************************************************************)
THEOREM ResetNeverWritesRegisters == Spec => ResetHoldsRegisters
  BY ResetFlushesThePipeline, StepHoldsRegisters, PTL DEF Spec, ResetHoldsRegisters

-----------------------------------------------------------------------------
(***************************************************************************)
(* The pipeline implements the single-cycle machine.  The invariant that   *)
(* the step needs: types, an empty pipeline in reset, and a display that   *)
(* already shows the operand of a display write in EX, so that a change of *)
(* the inputs does not change what is displayed.                           *)
(***************************************************************************)
DisplayShowsOperand == hexwe(instr_EX) => hexes = A_EX

IInv == TypeOK /\ ResetFlushes /\ DisplayShowsOperand

LEMMA LatchShowsOperand == HexLatch => DisplayShowsOperand'
  BY DEF HexLatch, DisplayShowsOperand

LEMMA InitIInv == Init => IInv
  <1>1. Init => DisplayShowsOperand
    BY BubbleShowsNothing DEF Init, DisplayShowsOperand
  <1> QED
    BY <1>1, InitType, InitFlushes DEF IInv

LEMMA NextIInv == IInv /\ [Next]_vars => IInv'
  <1>1. DisplayShowsOperand /\ [Next]_vars => DisplayShowsOperand'
    <2>1. Next => HexLatch
      BY DEF Next, Advance, ClockInReset, AssertReset, DriveInputs
    <2>2. ASSUME DisplayShowsOperand, UNCHANGED vars PROVE DisplayShowsOperand'
      BY <2>2 DEF vars, pipeline, inputs, DisplayShowsOperand, A_EX, ReadPort, writedata_WB
    <2> QED
      BY <2>1, <2>2, LatchShowsOperand
  <1> QED
    BY <1>1, NextType, NextFlushes DEF IInv

THEOREM Invariance == Spec => []IInv
  BY InitIInv, NextIInv, PTL DEF Spec

(* A step between states whose pipeline is empty does not move the mapping.*)
LEMMA FlushedMapping ==
  ASSUME TypeOK, ~regwe_WB
  PROVE  seen = committed
  BY DEF seen, committed, ReadPort

(***************************************************************************)
(* Write back and bypass agree: what the register memory holds after a     *)
(* clock edge is what the read ports delivered before it.                  *)
(***************************************************************************)
LEMMA WriteBackCommits ==
  ASSUME TypeOK, RegfileWrite
  PROVE  committed' = seen
  <1>1. ASSUME NEW r \in Regs, r # x0 PROVE mem'[r] = ReadPort(r)
    BY <1>1 DEF RegfileWrite, ReadPort, TypeOK
  <1>2. ReadPort(x0) = {}
    BY DEF ReadPort
  <1>3. \A r \in Regs : (IF r = x0 THEN {} ELSE mem'[r]) = ReadPort(r)
    BY <1>1, <1>2
  <1> QED
    BY <1>3 DEF committed, seen

(* One clock edge is the execution of the instruction in EX.               *)
LEMMA AdvanceExecutes ==
  ASSUME TypeOK, RegfileWrite, ExecuteStage(io0)
  PROVE  seen' = SC!Execute(instr_EX, seen, io0)
  <1>1. /\ seen[rs1(instr_EX)] = A_EX
        /\ seen[rs2(instr_EX)] = ReadPort(rs2(instr_EX))
    BY FieldTypes DEF seen, A_EX
  <1>2. writedata_WB' = Result(instr_EX, A_EX, ReadPort(rs2(instr_EX)), io0)
    BY DEF writedata_WB, ExecuteStage, R_EX, Result
  <1>3. ASSUME NEW r \in Regs
        PROVE  ReadPort(r)' =
                 IF r = rd(instr_EX) /\ r # x0 /\ regwe(instr_EX)
                 THEN Result(instr_EX, A_EX, ReadPort(rs2(instr_EX)), io0)
                 ELSE seen[r]
    <2>1. CASE r = x0
      BY <2>1 DEF ReadPort, seen
    <2>2. CASE r # x0 /\ r = rd(instr_EX) /\ regwe(instr_EX)
      BY <2>2, <1>2 DEF ReadPort, ExecuteStage
    <2>3. CASE r # x0 /\ ~(r = rd(instr_EX) /\ regwe(instr_EX))
      <3>1. mem'[r] = seen[r]
        BY <2>3, WriteBackCommits DEF committed
      <3> QED
        BY <2>3, <3>1 DEF ReadPort, ExecuteStage
    <2> QED
      BY <2>1, <2>2, <2>3
  <1> QED
    BY <1>1, <1>3 DEF SC!Execute, seen

(***************************************************************************)
(* Every step of the pipeline is a step of the single-cycle machine or     *)
(* leaves its state unchanged.                                             *)
(***************************************************************************)
LEMMA InitRefines == Init => SC!Init
  <1> SUFFICES ASSUME Init PROVE SC!Init
    OBVIOUS
  <1>1. TypeOK
    BY InitType
  <1>2. seen = committed
    BY <1>1, FlushedMapping DEF Init
  <1>3. seen \in [Regs -> Word]
    BY <1>1, ReadPortType DEF seen
  <1>4. seen[x0] = {}
    <2>1. x0 \in Regs
      BY DEF x0, Regs, Vec
    <2> QED
      BY <2>1 DEF seen, ReadPort
  <1> QED
    BY <1>1, <1>2, <1>3, <1>4 DEF Init, SC!Init, TypeOK

LEMMA SeenDependsOn ==
  UNCHANGED <<regwe_WB, regsel_WB, R_WB, imm_u_WB, io0_WB, regdest_WB, mem>>
    => UNCHANGED <<seen, committed>>
  BY DEF seen, committed, ReadPort, writedata_WB

LEMMA NextRefines == IInv /\ IInv' /\ [Next]_vars => [SC!Next]_(SC!vars)
  <1> SUFFICES ASSUME IInv, IInv', [Next]_vars PROVE [SC!Next]_(SC!vars)
    OBVIOUS
  <1> USE DEF IInv
  <1>1. CASE Advance
    <2>1. seen' = SC!Execute(instr_EX, seen, io0) /\ committed' = seen
      BY <1>1, AdvanceExecutes, WriteBackCommits DEF Advance
    <2>2. hexes' = SC!Display(instr_EX', seen', hexes)
      <3>1. rs1(instr_EX') \in Regs
        BY FieldTypes
      <3>2. seen'[rs1(instr_EX')] = A_EX'
        BY <3>1 DEF seen, A_EX
      <3> QED
        BY <1>1, <3>2 DEF Advance, HexLatch, SC!Display
    <2> QED
      BY <1>1, <2>1, <2>2 DEF Advance, Fetch, inputs, SC!Next, SC!Cycle
  <1>2. CASE ClockInReset
    <2>1. UNCHANGED <<seen, committed>>
      <3>1. ~regwe_WB /\ ~regwe_WB'
        BY <1>2 DEF ClockInReset, ResetPipeline, ResetFlushes
      <3>2. mem' = mem
        BY <1>2, <3>1 DEF ClockInReset, RegfileWrite
      <3>3. committed' = committed
        BY <3>2 DEF committed
      <3>4. seen' = committed'
        BY <3>1 DEF seen, committed, ReadPort
      <3> QED
        BY <3>1, <3>3, <3>4, FlushedMapping
    <2>2. hexes' = hexes
      BY <1>2, BubbleShowsNothing DEF ClockInReset, ResetPipeline, HexLatch
    <2> QED
      BY <1>2, <2>1, <2>2
      DEF ClockInReset, ResetPipeline, ResetFlushes, inputs, SC!vars
  <1>3. ASSUME NEW switches \in Switches, AssertReset(switches) PROVE SC!Reset
    <2>1. seen' = committed' /\ committed' = committed
      <3>1. ~regwe_WB' /\ mem' = mem
        BY <1>3 DEF AssertReset, ResetPipeline
      <3> QED
        BY <3>1 DEF seen, committed, ReadPort
    <2>2. hexes' = hexes
      BY <1>3, BubbleShowsNothing DEF AssertReset, ResetPipeline, HexLatch
    <2> QED
      BY <1>3, <2>1, <2>2 DEF AssertReset, ResetPipeline, SC!Reset
  <1>4. ASSUME NEW r \in BOOLEAN, NEW switches \in Switches, DriveInputs(r, switches)
        PROVE  SC!Drive
    <2>1. UNCHANGED <<seen, committed>>
      BY <1>4, SeenDependsOn DEF DriveInputs, pipeline
    <2>2. A_EX' = A_EX /\ instr_EX' = instr_EX
      BY <1>4 DEF DriveInputs, pipeline, A_EX, ReadPort, writedata_WB
    <2>3. hexes' = hexes
      BY <1>4, <2>2 DEF DriveInputs, HexLatch, DisplayShowsOperand
    <2>4. rst' \in {rst, FALSE}
      BY <1>4 DEF DriveInputs, TypeOK
    <2> QED
      BY <1>4, <2>1, <2>3, <2>4 DEF DriveInputs, pipeline, SC!Drive
  <1>5. CASE UNCHANGED vars
    BY <1>5, SeenDependsOn DEF vars, pipeline, inputs, SC!vars
  <1> QED
    BY <1>1, <1>2, <1>3, <1>4, <1>5 DEF Next, SC!Next

(***************************************************************************)
(* The pipeline implements the single-cycle machine: with bypass, write    *)
(* back a cycle late, an asynchronous reset and a latched display, a       *)
(* program sees its instructions take effect one at a time and in order.   *)
(***************************************************************************)
THEOREM Refinement == Spec => ImplementsSingleCycle
  BY Invariance, InitRefines, NextRefines, PTL
  DEF Spec, ImplementsSingleCycle, SC!Spec

-----------------------------------------------------------------------------
(* Arithmetic of the program counter.                                      *)

LEMMA Remainder ==
  ASSUME NEW n \in Nat \ {0}, NEW q \in Nat, NEW r \in 0 .. n-1, NEW m,
         m = (n * q) + r
  PROVE  m % n = r
  OBVIOUS

LEMMA SuccessorModulo ==
  ASSUME NEW n \in Nat \ {0}, NEW k \in Nat
  PROVE  ((k % n) + 1) % n = (k + 1) % n
  <1> DEFINE q == k \div n
             r == k % n
  <1>1. q \in Nat /\ r \in 0 .. n-1 /\ k = (n * q) + r
    OBVIOUS
  <1> HIDE DEF q, r
  <1>2. CASE r + 1 < n
    <2>1. k + 1 = (n * q) + (r + 1) /\ r + 1 \in 0 .. n-1
      BY <1>1, <1>2
    <2>2. (k + 1) % n = r + 1
      BY <2>1, <1>1, Remainder
    <2>3. (r + 1) % n = r + 1
      BY <2>1
    <2> QED
      BY <2>2, <2>3 DEF r
  <1>3. CASE r + 1 = n
    <2> DEFINE p == q + 1
    <2>1. k + 1 = (n * p) + 0 /\ p \in Nat
      BY <1>1, <1>3
    <2>2. 0 \in 0 .. n-1
      OBVIOUS
    <2> HIDE DEF p
    <2>3. (k + 1) % n = 0
      BY <2>1, <2>2, Remainder
    <2>4. (r + 1) % n = 0
      BY <1>3
    <2> QED
      BY <2>3, <2>4 DEF r
  <1> QED
    BY <1>1, <1>2, <1>3

(* The word of zeros executes as nothing.                                  *)
LEMMA BubbleWritesNothing == regwe({}) = FALSE
  <1>1. opcode({}) = {}
    BY DEF opcode, Slice
  <1>2. 0 \in OP_R /\ 0 \in OP_I /\ 0 \in OP_U /\ 0 \in OP_SYSTEM
    BY DEF OP_R, OP_I, OP_U, OP_SYSTEM, Lit, Bits
  <1> QED
    BY <1>1, <1>2 DEF regwe, isCSRRW

-----------------------------------------------------------------------------
(***************************************************************************)
(* The inductive invariant.  delay_cycles leaves the clock low, and from   *)
(* its first eval() on the CPU has seen the inputs; reset() holds KEY[3]   *)
(* and has the CPU in reset after one eval(); the register memory is what  *)
(* was retired, and, except between the beginning of a reset and its first *)
(* clock edge, the pipeline is where the program's execution is.           *)
(***************************************************************************)
Driven ==
  /\ SW \in Switches
  /\ CLOCK_50 <=> call.next = "fall"
  /\ call.cycles = 0 => call.next = "settle"
  /\ call.next # "settle" => rst = KEY3 /\ io0 = SW

InReset ==
  call.for \in Resetters =>
    /\ KEY3
    /\ mem = Zeroed
    /\ call.next # "settle" \/ call.cycles < RESETCYCLES => rst

Synchronized ==
  /\ executed = seen
  /\ PC_F = age % ROMWORDS
  /\ instr_EX = IF age = 0 THEN {} ELSE instruction_mem[(age - 1) % ROMWORDS]

(* The types that matter to the machine, whoever calls delay_cycles and    *)
(* for however long.                                                       *)
Calls == [for : Resetters \cup {"none", "OnTick", "main runs"}, cycles : Nat,
          next : {"settle", "rise", "fall"}]

MachineTypeOK ==
  /\ TypeOK
  /\ KEY3 \in BOOLEAN /\ SW \in Vec(18) /\ CLOCK_50 \in BOOLEAN
  /\ cycleno \in Nat
  /\ call \in Calls
  /\ age \in Nat
  /\ executed \in [Regs -> Word] /\ retired \in [Regs -> Word]

SimIInv ==
  /\ MachineTypeOK
  /\ ResetFlushes
  /\ Driven
  /\ InReset
  /\ retired = committed
  /\ call.cycles = 0 \/ ~KEY3 \/ call.next = "fall" => Synchronized

(* An eval() with the clock low: the inputs change, and at most rst rises. *)
LEMMA LowEval ==
  ASSUME MachineTypeOK, Eval(FALSE)
  PROVE  \/ KEY3 /\ AssertReset(SW)
         \/ (KEY3 => rst) /\ DriveInputs(KEY3, SW)
  <1>1. CASE KEY3 /\ ~rst
    BY <1>1 DEF Eval, AssertReset, MachineTypeOK
  <1>2. CASE ~(KEY3 /\ ~rst)
    BY <1>2 DEF Eval, DriveInputs, MachineTypeOK, TypeOK
  <1> QED
    BY <1>1, <1>2

(* The eval() of a rising clock: the inputs were seen by the one before.   *)
LEMMA RisingEval ==
  ASSUME MachineTypeOK, Driven, call.next = "rise", Eval(TRUE)
  PROVE  IF KEY3 THEN ClockInReset ELSE Advance
  <1>1. ~CLOCK_50 /\ rst = KEY3 /\ io0 = SW
    BY DEF Driven
  <1>2. UNCHANGED inputs
    BY <1>1 DEF Eval, inputs
  <1>3. CASE KEY3
    BY <1>1, <1>2, <1>3 DEF Eval, ClockInReset
  <1>4. CASE ~KEY3
    BY <1>1, <1>2, <1>4 DEF Eval, Advance
  <1> QED
    BY <1>3, <1>4

LEMMA EvalIsNext ==
  ASSUME SimIInv, SettleEval \/ RiseEval \/ FallEval
  PROVE  Next
  <1>1. SW \in Switches /\ KEY3 \in BOOLEAN
    BY DEF SimIInv, Driven, MachineTypeOK
  <1>2. CASE SettleEval \/ FallEval
    BY <1>1, <1>2, LowEval DEF SettleEval, FallEval, SimIInv, Next
  <1>3. CASE RiseEval
    BY <1>3, RisingEval DEF RiseEval, SimIInv, Next
  <1> QED
    BY <1>2, <1>3

-----------------------------------------------------------------------------
(* The initial states, and what every step does to the invariant.          *)

LEMMA ZeroedType == Zeroed \in [Regs -> Word]
  BY DEF Zeroed, Word, Vec

LEMMA SeenType ==
  TypeOK => seen \in [Regs -> Word] /\ committed \in [Regs -> Word]
  <1>1. {} \in Word
    BY DEF Word, Vec
  <1> QED
    BY <1>1, ReadPortType DEF seen, committed, TypeOK

(* Zeroes in the register memory are zeroes to a reset.                    *)
LEMMA ZeroedIsCommitted == mem = Zeroed => committed = Zeroed
  BY DEF committed, Zeroed

LEMMA SimInitIInv == SimInit => SimIInv
  <1> SUFFICES ASSUME SimInit PROVE SimIInv
    OBVIOUS
  <1>1. {} \in Word /\ {} \in Vec(20) /\ {} \in Vec(18) /\ {} \in Regs
    BY DEF Word, Vec, Regs
  <1>2. TypeOK
    <2>1. 0 \in 0 .. ROMWORDS-1 /\ instruction_mem \in [0 .. ROMWORDS-1 -> Word]
      BY ConstantsAssumption DEF SimInit
    <2> QED
      BY <1>1, <2>1, ZeroedType DEF SimInit, TypeOK
  <1>3. call = [for |-> "main", cycles |-> RESETCYCLES, next |-> "settle"]
    BY DEF SimInit, Delay
  <1>4. MachineTypeOK
    <2>1. KEY3 \in BOOLEAN /\ SW \in Vec(18) /\ CLOCK_50 \in BOOLEAN
      BY <1>1 DEF SimInit
    <2>2. call \in Calls
      BY <1>3, SimulatorAssumption DEF Resetters, Calls
    <2>3. /\ cycleno \in Nat /\ age \in Nat
          /\ executed \in [Regs -> Word] /\ retired \in [Regs -> Word]
      BY ZeroedType DEF SimInit
    <2> QED
      BY <1>2, <2>1, <2>2, <2>3 DEF MachineTypeOK
  <1>5. ResetFlushes
    BY DEF SimInit, ResetFlushes
  <1>6. Driven /\ InReset
    <2>1. KEY3 /\ ~CLOCK_50 /\ SW \in Switches /\ mem = Zeroed
      BY SimulatorAssumption DEF SimInit
    <2> QED
      BY <1>3, <2>1, SimulatorAssumption DEF Driven, InReset
  <1>7. retired = committed
    BY ZeroedIsCommitted DEF SimInit
  <1>8. ~(call.cycles = 0 \/ ~KEY3 \/ call.next = "fall")
    BY <1>3, SimulatorAssumption DEF SimInit
  <1> QED
    BY <1>4, <1>5, <1>6, <1>7, <1>8 DEF SimIInv

(* A step that leaves the CPU and the history alone leaves the machine     *)
(* where it is.                                                            *)
LEMMA MachineDependsOn ==
  UNCHANGED <<vars, history>> =>
    /\ UNCHANGED <<seen, committed>>
    /\ Synchronized' <=> Synchronized
    /\ TypeOK' <=> TypeOK
    /\ ResetFlushes' <=> ResetFlushes
  <1> SUFFICES ASSUME UNCHANGED <<vars, history>>
               PROVE  /\ UNCHANGED <<seen, committed>>
                      /\ Synchronized' <=> Synchronized
                      /\ TypeOK' <=> TypeOK
                      /\ ResetFlushes' <=> ResetFlushes
    OBVIOUS
  <1>1. UNCHANGED <<seen, committed>>
    BY SeenDependsOn DEF vars, pipeline
  <1>2. Synchronized' <=> Synchronized
    BY <1>1 DEF Synchronized, vars, pipeline, history
  <1>3. TypeOK' <=> TypeOK
    BY DEF TypeOK, vars, pipeline, inputs
  <1>4. ResetFlushes' <=> ResetFlushes
    BY DEF ResetFlushes, vars, pipeline, inputs
  <1> QED
    BY <1>1, <1>2, <1>3, <1>4

(* A caller writes the inputs, and may call delay_cycles for any time.     *)
LEMMA CallersPreserve ==
  ASSUME SimIInv, call = idle,
         \/ call' = idle
         \/ \E who \in {"OnTick", "main runs"}, n \in Nat : call' = Delay(who, n),
         KEY3' \in BOOLEAN, SW' \in Switches,
         UNCHANGED <<vars, history, CLOCK_50, cycleno>>
  PROVE  SimIInv'
  <1> USE DEF SimIInv
  <1>1. UNCHANGED <<vars, history, CLOCK_50, cycleno>>
    OBVIOUS
  <1>2. /\ call.cycles = 0 /\ call.next = "settle"
        /\ KEY3' \in BOOLEAN /\ SW' \in Switches
    BY DEF idle
  <1>3. /\ call'.next = "settle" /\ call'.for \notin Resetters
        /\ call' \in Calls
    <2>1. idle.next = "settle" /\ idle.for \notin Resetters /\ idle \in Calls
      BY DEF idle, Resetters, Calls
    <2>2. ASSUME NEW who \in {"OnTick", "main runs"}, NEW n \in Nat
          PROVE  /\ Delay(who, n).next = "settle" /\ Delay(who, n).for \notin Resetters
                 /\ Delay(who, n) \in Calls
      BY DEF Delay, Resetters, Calls
    <2> QED
      BY <2>1, <2>2
  <1>4. MachineTypeOK'
    BY <1>1, <1>2, <1>3, MachineDependsOn, ConstantsAssumption DEF MachineTypeOK, history
  <1>5. Driven'
    <2>1. call.next # "fall"
      BY <1>2
    <2>2. CLOCK_50 = FALSE
      BY <2>1 DEF Driven, MachineTypeOK
    <2>3. CLOCK_50' = FALSE
      BY <1>1, <2>2
    <2> QED
      BY <1>2, <1>3, <2>3 DEF Driven
  <1>6. InReset'
    BY <1>3 DEF InReset
  <1>7. Synchronized
    BY <1>2
  <1> QED
    BY <1>1, <1>4, <1>5, <1>6, <1>7, MachineDependsOn DEF history

LEMMA ReturnPreserves ==
  ASSUME SimIInv, Return
  PROVE  SimIInv'
  <1> USE DEF SimIInv
  <1>1. UNCHANGED <<vars, history, SW, CLOCK_50, cycleno>> /\ KEY3' \in BOOLEAN
    BY DEF Return, MachineTypeOK
  <1>2. call.cycles = 0 /\ call' = idle /\ ~CLOCK_50
    BY DEF Return, Driven
  <1>3. MachineTypeOK'
    BY <1>1, <1>2, MachineDependsOn, SimulatorAssumption DEF MachineTypeOK, history, idle, Calls
  <1>4. Driven'
    BY <1>1, <1>2 DEF Driven, idle
  <1>5. InReset'
    BY <1>2 DEF InReset, idle, Resetters
  <1> QED
    BY <1>1, <1>2, <1>3, <1>4, <1>5, MachineDependsOn DEF history

(* A reset begins, with the same program or with another one.              *)
LEMMA BeginResetPreserves ==
  ASSUME SimIInv, NEW caller \in Resetters, BeginReset(caller),
         UNCHANGED <<pipeline, hexes, inputs, SW, CLOCK_50, cycleno>>,
         instruction_mem' \in [0 .. ROMWORDS-1 -> Word]
  PROVE  SimIInv'
  <1> USE DEF SimIInv
  <1>1. call = idle /\ KEY3' = TRUE /\ mem' = Zeroed
    BY DEF BeginReset
  <1>2. call' = [for |-> caller, cycles |-> RESETCYCLES, next |-> "settle"]
    BY DEF BeginReset, Delay
  <1>3. age' = 0 /\ executed' = Zeroed /\ retired' = Zeroed
    BY DEF BeginReset, Restart
  <1>4. TypeOK'
    BY <1>1, ZeroedType DEF TypeOK, MachineTypeOK, pipeline, inputs
  <1>5. MachineTypeOK'
    BY <1>1, <1>2, <1>3, <1>4, ZeroedType, SimulatorAssumption DEF MachineTypeOK, Calls
  <1>6. ResetFlushes'
    BY DEF ResetFlushes, pipeline, inputs
  <1>7. Driven' /\ InReset'
    BY <1>1, <1>2, SimulatorAssumption DEF Driven, InReset, idle
  <1>8. (retired = committed)'
    BY <1>1, <1>3 DEF committed, Zeroed
  <1>9. ~(call.cycles = 0 \/ ~KEY3 \/ call.next = "fall")'
    BY <1>1, <1>2, SimulatorAssumption
  <1> QED
    BY <1>5, <1>6, <1>7, <1>8, <1>9

(* The program is written while none of it has been fetched.               *)
LEMMA WritingPreserves ==
  ASSUME SimIInv, call = idle, age = 0, instruction_mem' \in [0 .. ROMWORDS-1 -> Word],
         UNCHANGED <<pipeline, mem, hexes, inputs, top, cycleno, call, history>>
  PROVE  SimIInv'
  <1> USE DEF SimIInv
  <1>1. UNCHANGED <<seen, committed>>
    BY SeenDependsOn DEF pipeline
  <1>2. MachineTypeOK'
    BY DEF MachineTypeOK, TypeOK, pipeline, inputs, top, history
  <1>3. ResetFlushes' /\ Driven' /\ InReset'
    BY DEF ResetFlushes, Driven, InReset, pipeline, inputs, top
  <1>4. Synchronized => Synchronized'
    BY <1>1 DEF Synchronized, pipeline, history
  <1> QED
    BY <1>1, <1>2, <1>3, <1>4 DEF top, history

-----------------------------------------------------------------------------
(* The three eval()s of a cycle.                                           *)

LEMMA EvalTypes ==
  ASSUME SimIInv, SettleEval \/ RiseEval \/ FallEval
  PROVE  TypeOK' /\ ResetFlushes'
  BY EvalIsNext, NextType, NextFlushes DEF SimIInv, MachineTypeOK

(* An eval() with the clock low changes what is in the pipeline only when  *)
(* it resets the CPU, and the registers never.                             *)
LEMMA LowEvalKeeps ==
  ASSUME SimIInv, Eval(FALSE), TypeOK', ResetFlushes'
  PROVE  /\ CLOCK_50' = FALSE /\ rst' = KEY3 /\ io0' = SW
         /\ UNCHANGED <<mem, committed, instruction_mem, KEY3, SW>>
         /\ rst = KEY3 \/ ~KEY3 => UNCHANGED <<PC_F, instr_EX, seen>>
  <1>1. /\ CLOCK_50' = FALSE /\ rst' = KEY3 /\ io0' = SW
        /\ UNCHANGED <<mem, instruction_mem, KEY3, SW>>
    BY DEF Eval
  <1>2. committed' = committed
    BY <1>1 DEF committed
  <1>3. ASSUME rst = KEY3 \/ ~KEY3 PROVE UNCHANGED <<PC_F, instr_EX, seen>>
    <2>1. UNCHANGED pipeline
      BY <1>3 DEF Eval
    <2> QED
      BY <1>1, <2>1, SeenDependsOn DEF pipeline
  <1> QED
    BY <1>1, <1>2, <1>3

LEMMA SettlePreserves ==
  ASSUME SimIInv, SettleEval
  PROVE  SimIInv'
  <1> USE DEF SimIInv
  <1>1. TypeOK' /\ ResetFlushes'
    BY EvalTypes
  <1>2. /\ CLOCK_50' = FALSE /\ rst' = KEY3 /\ io0' = SW
        /\ UNCHANGED <<mem, committed, instruction_mem, KEY3, SW>>
        /\ rst = KEY3 \/ ~KEY3 => UNCHANGED <<PC_F, instr_EX, seen>>
    BY <1>1, LowEvalKeeps DEF SettleEval
  <1>3. /\ call.cycles > 0
        /\ call' = [call EXCEPT !.next = "rise"]
        /\ UNCHANGED <<cycleno, history>>
    BY DEF SettleEval
  <1>4. /\ call'.cycles = call.cycles /\ call'.for = call.for /\ call'.next = "rise"
        /\ call' \in Calls
    BY <1>3 DEF MachineTypeOK, Calls
  <1>5. MachineTypeOK'
    BY <1>1, <1>2, <1>3, <1>4 DEF MachineTypeOK, history
  <1>6. Driven'
    BY <1>2, <1>3, <1>4 DEF Driven, MachineTypeOK
  <1>7. InReset'
    BY <1>2, <1>4 DEF InReset
  <1>8. ~KEY3 => Synchronized'
    BY <1>2, <1>3 DEF Synchronized, history
  <1> QED
    BY <1>1, <1>2, <1>3, <1>4, <1>5, <1>6, <1>7, <1>8 DEF history, MachineTypeOK

LEMMA FallPreserves ==
  ASSUME SimIInv, FallEval
  PROVE  SimIInv'
  <1> USE DEF SimIInv
  <1>1. TypeOK' /\ ResetFlushes'
    BY EvalTypes
  <1>2. call.next = "fall" /\ rst = KEY3 /\ call.cycles # 0 /\ Synchronized
    BY DEF FallEval, Driven
  <1>3. /\ CLOCK_50' = FALSE /\ rst' = KEY3 /\ io0' = SW
        /\ UNCHANGED <<mem, committed, instruction_mem, KEY3, SW>>
        /\ UNCHANGED <<PC_F, instr_EX, seen>>
    BY <1>1, <1>2, LowEvalKeeps DEF FallEval
  <1>4. /\ call' = [call EXCEPT !.next = "settle", !.cycles = @ - 1]
        /\ cycleno' = cycleno + 1
        /\ UNCHANGED history
    BY DEF FallEval
  <1>5. /\ call'.for = call.for /\ call'.next = "settle"
        /\ call' \in Calls
    <2>1. call.cycles - 1 \in Nat
      <3>1. call.cycles \in Nat
        BY DEF MachineTypeOK, Calls
      <3> QED
        BY <1>2, <3>1
    <2>2. call' = [call EXCEPT !.next = "settle", !.cycles = call.cycles - 1]
      BY <1>4
    <2> QED
      BY <2>1, <2>2 DEF MachineTypeOK, Calls
  <1>6. MachineTypeOK'
    <2>1. cycleno' \in Nat
      BY <1>4 DEF MachineTypeOK
    <2> QED
      BY <1>1, <1>3, <1>4, <1>5, <2>1 DEF MachineTypeOK, history
  <1>7. Driven'
    BY <1>3, <1>5 DEF Driven, MachineTypeOK
  <1>8. InReset'
    BY <1>2, <1>3, <1>5 DEF InReset
  <1>9. Synchronized'
    BY <1>2, <1>3, <1>4 DEF Synchronized, history
  <1> QED
    BY <1>1, <1>3, <1>4, <1>6, <1>7, <1>8, <1>9 DEF history

(* A clock edge in reset writes nothing, and the program starts over with  *)
(* the registers that are in the register memory.                          *)
LEMMA RiseInReset ==
  ASSUME SimIInv, ClockInReset, Restart(retired), TypeOK', ResetFlushes'
  PROVE  UNCHANGED mem /\ retired' = committed' /\ Synchronized'
  <1> USE DEF SimIInv
  <1>1. rst /\ ~regwe_WB
    BY DEF ClockInReset, ResetFlushes
  <1>2. PC_F' = 0 /\ instr_EX' = {} /\ ~regwe_WB'
    BY DEF ClockInReset, ResetPipeline
  <1>3. mem' = mem
    BY <1>1 DEF ClockInReset, RegfileWrite
  <1>4. committed' = committed
    BY <1>3 DEF committed
  <1>5. seen' = committed'
    BY <1>2 DEF seen, committed, ReadPort
  <1>6. age' = 0 /\ executed' = committed /\ retired' = committed
    BY DEF Restart
  <1>7. 0 % ROMWORDS = 0
    BY ConstantsAssumption
  <1> QED
    BY <1>2, <1>3, <1>4, <1>5, <1>6, <1>7 DEF Synchronized

(* A clock edge outside reset executes the instruction that the program    *)
(* has at this cycle.                                                      *)
LEMMA RiseExecutes ==
  ASSUME SimIInv, Synchronized, io0 = SW, Advance, ExecuteOne
  PROVE  retired' = committed' /\ Synchronized'
  <1> USE DEF SimIInv
  <1>1. TypeOK /\ age \in Nat
    BY DEF MachineTypeOK
  <1>2. committed' = seen /\ seen' = SC!Execute(instr_EX, seen, SW)
    BY <1>1, WriteBackCommits, AdvanceExecutes DEF Advance
  <1>3. retired' = committed'
    BY <1>2 DEF Synchronized, ExecuteOne
  <1>4. executed' = seen'
    <2>1. CASE age = 0
      <3>1. seen \in [Regs -> Word]
        BY <1>1, SeenType
      <3>2. seen' = [r \in Regs |-> seen[r]]
        BY <1>2, <2>1, BubbleWritesNothing DEF SC!Execute, Synchronized
      <3> QED
        BY <2>1, <3>1, <3>2 DEF Synchronized, ExecuteOne
    <2>2. CASE age # 0
      BY <1>2, <2>2 DEF Synchronized, ExecuteOne
    <2> QED
      BY <2>1, <2>2
  <1>5. instr_EX' = instruction_mem[age % ROMWORDS]
    BY DEF Advance, Fetch, Synchronized
  <1>6. PC_F' = (age + 1) % ROMWORDS
    BY <1>1, SuccessorModulo, ConstantsAssumption DEF Advance, Fetch, Synchronized
  <1>7. age' = age + 1 /\ age' # 0 /\ age' - 1 = age /\ instruction_mem' = instruction_mem
    BY <1>1 DEF ExecuteOne, Advance
  <1> QED
    BY <1>3, <1>4, <1>5, <1>6, <1>7 DEF Synchronized

LEMMA RisePreserves ==
  ASSUME SimIInv, RiseEval
  PROVE  SimIInv'
  <1> USE DEF SimIInv
  <1>1. TypeOK' /\ ResetFlushes'
    BY EvalTypes
  <1>2. /\ call.next = "rise" /\ rst = KEY3 /\ io0 = SW /\ call.cycles # 0
        /\ KEY3 \in BOOLEAN
    BY DEF RiseEval, Driven, MachineTypeOK
  <1>3. /\ CLOCK_50' = TRUE /\ rst' = KEY3 /\ io0' = SW
        /\ UNCHANGED <<instruction_mem, KEY3, SW, cycleno>>
    BY DEF RiseEval, Eval
  <1>4. /\ call'.for = call.for /\ call'.cycles = call.cycles /\ call'.next = "fall"
        /\ call' \in Calls
    BY DEF RiseEval, MachineTypeOK, Calls
  <1>5. (IF KEY3 THEN ClockInReset ELSE Advance)
        /\ (IF KEY3 THEN Restart(retired) ELSE ExecuteOne)
    BY RisingEval DEF RiseEval
  <1>6. /\ retired' = committed' /\ Synchronized'
        /\ KEY3 => UNCHANGED mem
    <2>1. CASE KEY3
      BY <1>1, <1>5, <2>1, RiseInReset
    <2>2. CASE ~KEY3
      BY <1>2, <1>5, <2>2, RiseExecutes
    <2> QED
      BY <1>2, <2>1, <2>2
  <1>7. MachineTypeOK'
    <2>1. executed' \in [Regs -> Word] /\ retired' \in [Regs -> Word]
      <3>1. (TypeOK => seen \in [Regs -> Word] /\ committed \in [Regs -> Word])'
        BY SeenType, PTL
      <3> QED
        BY <1>1, <1>6, <3>1 DEF Synchronized
    <2>2. age' \in Nat
      BY <1>5 DEF Restart, ExecuteOne, MachineTypeOK
    <2> QED
      BY <1>1, <1>3, <1>4, <2>1, <2>2 DEF MachineTypeOK
  <1>8. Driven'
    BY <1>2, <1>3, <1>4 DEF Driven
  <1>9. InReset'
    BY <1>2, <1>3, <1>4, <1>6 DEF InReset
  <1> QED
    BY <1>1, <1>6, <1>7, <1>8, <1>9

LEMMA SimNextIInv == SimIInv /\ [SimNext]_simvars => SimIInv'
  <1> SUFFICES ASSUME SimIInv, [SimNext]_simvars PROVE SimIInv'
    OBVIOUS
  <1>1. ASSUME NEW key \in BOOLEAN, NEW switches \in Switches, OnTick(key, switches)
        PROVE  SimIInv'
    BY <1>1, CallersPreserve DEF OnTick
  <1>2. ASSUME NEW key \in BOOLEAN, OnKEY(key) PROVE SimIInv'
    BY <1>2, CallersPreserve DEF OnKEY, SimIInv, Driven
  <1>3. ASSUME NEW switches \in Switches, OnSW(switches) PROVE SimIInv'
    BY <1>3, CallersPreserve DEF OnSW, SimIInv, MachineTypeOK
  <1>4. CASE OnReset
    BY <1>4, BeginResetPreserves DEF OnReset, Resetters, SimIInv, MachineTypeOK, TypeOK
  <1>5. ASSUME NEW caller \in {"main", "LoadRom"}, NEW rom \in Programs, LoadRom(caller, rom)
        PROVE  SimIInv'
    BY <1>5, BeginResetPreserves, ConstantsAssumption DEF LoadRom, Resetters
  <1>6. CASE SettleEval
    BY <1>6, SettlePreserves
  <1>7. CASE RiseEval
    BY <1>7, RisePreserves
  <1>8. CASE FallEval
    BY <1>8, FallPreserves
  <1>9. CASE Return
    BY <1>9, ReturnPreserves
  <1>10. CASE UNCHANGED simvars
    BY <1>10, MachineDependsOn
    DEF SimIInv, MachineTypeOK, Driven, InReset, simvars, top, history, vars, inputs
  <1> QED
    BY <1>1, <1>2, <1>3, <1>4, <1>5, <1>6, <1>7, <1>8, <1>9, <1>10 DEF SimNext

LEMMA SimInvariance == SimSpec => []SimIInv
  BY SimInitIInv, SimNextIInv, PTL DEF SimSpec

-----------------------------------------------------------------------------

(* The calls that Simulator makes are no longer than a reset.              *)
CallTypeOK ==
  call \in [for : Resetters \cup {"none", "OnTick"}, cycles : 0 .. RESETCYCLES,
            next : {"settle", "rise", "fall"}]

LEMMA CallNext == SimIInv /\ CallTypeOK /\ [SimNext]_simvars => CallTypeOK'
  <1> SUFFICES ASSUME SimIInv, CallTypeOK, [SimNext]_simvars PROVE CallTypeOK'
    OBVIOUS
  <1>1. CASE UNCHANGED call
    BY <1>1 DEF CallTypeOK
  <1>2. CASE call' \in {idle, Delay("OnTick", 1)}
    BY <1>2, SimulatorAssumption DEF CallTypeOK, idle, Delay
  <1>3. ASSUME NEW caller \in Resetters, BeginReset(caller) PROVE CallTypeOK'
    BY <1>3, SimulatorAssumption DEF CallTypeOK, BeginReset, Delay
  <1>4. CASE SettleEval
    BY <1>4 DEF CallTypeOK, SettleEval
  <1>5. CASE RiseEval
    BY <1>5 DEF CallTypeOK, RiseEval
  <1>6. CASE FallEval
    <2>1. call.next = "fall" /\ call' = [call EXCEPT !.next = "settle", !.cycles = call.cycles - 1]
      BY <1>6 DEF FallEval
    <2>2. call.cycles \in 0 .. RESETCYCLES /\ call.cycles # 0
      BY <2>1 DEF SimIInv, Driven, CallTypeOK
    <2>3. call.cycles - 1 \in 0 .. RESETCYCLES
      BY <2>2, SimulatorAssumption
    <2> QED
      BY <2>1, <2>3 DEF CallTypeOK
  <1> QED
    BY <1>1, <1>2, <1>3, <1>4, <1>5, <1>6
    DEF SimNext, OnTick, OnKEY, OnSW, OnReset, LoadRom, Return, Resetters, simvars

(***************************************************************************)
(* No call of a front end takes the simulated CPU out of its declared      *)
(* widths, and delay_cycles never has more cycles to go than it was given. *)
(***************************************************************************)
THEOREM SimTypeCorrect == SimSpec => []SimTypeOK
  <1>1. SimInit => CallTypeOK
    BY SimulatorAssumption DEF SimInit, Delay, CallTypeOK, Resetters
  <1>2. SimIInv /\ CallTypeOK => SimTypeOK
    BY DEF SimIInv, MachineTypeOK, CallTypeOK, SimTypeOK
  <1> QED
    BY <1>1, <1>2, CallNext, SimInvariance, PTL DEF SimSpec

(***************************************************************************)
(* The registers that a front end dumps between calls are the program's    *)
(* results, two instructions late, whatever calls were made before: keys,  *)
(* switches, ticks, resets and programs in any order.                      *)
(***************************************************************************)
THEOREM RegistersAreRetired == SimSpec => []RegistersArePrefix
  <1>1. SimIInv => RegistersArePrefix
    <2> SUFFICES ASSUME SimIInv, call = idle, NEW r \in Regs \ {x0}
                 PROVE  mem[r] = retired[r]
      BY DEF RegistersArePrefix
    <2> QED
      BY DEF SimIInv, committed
  <1> QED
    BY <1>1, SimInvariance, PTL

(***************************************************************************)
(* A reset() of any length of at least one cycle leaves every register 0   *)
(* and the pipeline empty.                                                 *)
(***************************************************************************)
THEOREM ResetIsComplete == SimSpec => []ResetZeroes
  <1>1. SimIInv => ResetZeroes
    <2> SUFFICES ASSUME SimIInv, call.for \in Resetters, call.cycles = 0
                 PROVE  mem = Zeroed /\ ~regwe_WB /\ PC_F = 0
      BY DEF ResetZeroes
    <2>1. mem = Zeroed /\ rst
      BY SimulatorAssumption DEF SimIInv, InReset
    <2> QED
      BY <2>1 DEF SimIInv, ResetFlushes
  <1> QED
    BY <1>1, SimInvariance, PTL

(***************************************************************************)
(* Every eval() is an edge that the model of the CPU has, so that what is  *)
(* proved of the CPU applies to it between two writes behind its back.     *)
(***************************************************************************)
THEOREM EvalsAreEdges == SimSpec => OneEdgeAtATime
  <1>1. SimIInv /\ [SimNext]_simvars
          => [Next \/ UNCHANGED <<pipeline, hexes, inputs>>]_vars
    <2> SUFFICES ASSUME SimIInv, SimNext
                 PROVE  Next \/ UNCHANGED <<pipeline, hexes, inputs>>
      BY DEF simvars
    <2>1. CASE SettleEval \/ RiseEval \/ FallEval
      BY <2>1, EvalIsNext
    <2>2. CASE ~(SettleEval \/ RiseEval \/ FallEval)
      BY <2>2 DEF SimNext, OnTick, OnKEY, OnSW, OnReset, LoadRom, Return, vars
    <2> QED
      BY <2>1, <2>2
  <1> QED
    BY <1>1, SimInvariance, PTL DEF SimSpec, OneEdgeAtATime

=============================================================================
