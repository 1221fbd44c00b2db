--------------------------- MODULE FrontEndProofs ---------------------------
(***************************************************************************)
(* Theorems about main() of FrontEnd.tla, for any files, numbers of cycles *)
(* and sizes of the instruction memory.  It is no client of Simulator's    *)
(* calls: it writes the program word by word, and runs for any number of   *)
(* cycles at once.  The machine's invariant holds all the same.            *)
(***************************************************************************)
EXTENDS FrontEnd, SimulatorProofs

CliTypeOK ==
  /\ argv \in [file : Files, cycles : NCYCLES]
  /\ romaddr \in 0 .. ROMWORDS
  /\ stage \in {"initialize", "read", "reset", "run", "running", "printed", "undefined"}

(***************************************************************************)
(* The cycles done and the cycles to go are those of the command line; a   *)
(* cycle is counted by its rising edge.                                    *)
(***************************************************************************)
CyclesLeft ==
  /\ call.next = "fall" => age + call.cycles = argv.cycles + 1
  /\ call.next # "fall" => age + call.cycles = argv.cycles

(***************************************************************************)
(* Where main() is tells which call is in progress and how far the program *)
(* has been executed: not at all before delay_cycles.                      *)
(***************************************************************************)
MainIsAt ==
  /\ stage \in {"initialize", "reset"} => call.for = "main" /\ age = 0
  /\ stage \in {"read", "run"} => call = idle /\ age = 0
  /\ stage \in {"run", "running"} => KEY3 = FALSE
  /\ stage = "running" => call.for = "main runs" /\ CyclesLeft
  /\ stage = "printed" => call = idle /\ age = argv.cycles /\ regval = mem
  /\ stage = "undefined" => call = idle

(* Once the reading has stopped, nothing is left of an earlier program.    *)
Erased ==
  stage \in {"reset", "run", "running", "printed"} =>
    \A a \in romaddr .. ROMWORDS - 1 : instruction_mem[a] = {}

CliIInv == SimIInv /\ CliTypeOK /\ MainIsAt /\ Erased

-----------------------------------------------------------------------------

LEMMA CliInitIInv == CliInit => CliIInv
  <1> SUFFICES ASSUME CliInit PROVE CliIInv
    OBVIOUS
  <1>1. SimIInv
    BY SimInitIInv DEF CliInit
  <1>2. CliTypeOK
    BY ConstantsAssumption DEF CliInit, CliTypeOK
  <1>3. MainIsAt /\ Erased
    BY DEF CliInit, SimInit, Delay, MainIsAt, Erased
  <1> QED
    BY <1>1, <1>2, <1>3 DEF CliIInv

(* No call, no eval().                                                     *)
LEMMA IdleDoesNothing ==
  ASSUME SimIInv, call = idle
  PROVE  ~Simulate
  BY DEF Simulate, SettleEval, RiseEval, FallEval, idle

LEMMA SimulatePreserves ==
  ASSUME CliIInv, Simulate
  PROVE  CliIInv'
  <1> USE DEF CliIInv
  <1>1. SimIInv'
    BY SettlePreserves, RisePreserves, FallPreserves DEF Simulate
  <1>2. UNCHANGED <<argv, rest, romaddr, stage, regval, instruction_mem, KEY3>>
    BY DEF Simulate, SettleEval, RiseEval, FallEval, Eval, progress
  <1>3. stage \in {"initialize", "reset", "running"}
    BY IdleDoesNothing DEF CliTypeOK, MainIsAt
  <1>4. call.cycles \in Nat /\ age \in Nat /\ call \in Calls /\ argv.cycles \in Nat
    BY FrontEndAssumption DEF SimIInv, MachineTypeOK, Calls, CliTypeOK
  <1>5. CASE stage \in {"initialize", "reset"}
    <2>1. KEY3 /\ call.for = "main" /\ age = 0
      BY <1>5 DEF MainIsAt, SimIInv, InReset, Resetters
    <2>2. age' = 0
      BY <2>1 DEF Simulate, SettleEval, RiseEval, FallEval, history, Restart
    <2>3. call'.for = "main"
      BY <1>4, <2>1 DEF Simulate, SettleEval, RiseEval, FallEval, Calls
    <2> QED
      BY <1>1, <1>2, <1>5, <2>2, <2>3 DEF CliTypeOK, MainIsAt, Erased
  <1>6. CASE stage = "running"
    <2>1. KEY3 = FALSE /\ call.for = "main runs" /\ CyclesLeft
      BY <1>6 DEF MainIsAt
    <2>2. call'.for = "main runs" /\ CyclesLeft'
      <3>1. CASE SettleEval
        <4>1. call.next = "settle" /\ call' = [call EXCEPT !.next = "rise"] /\ age' = age
          BY <3>1 DEF SettleEval, history
        <4>2. call'.for = call.for /\ call'.cycles = call.cycles /\ call'.next = "rise"
          BY <1>4, <4>1 DEF Calls
        <4>3. age + call.cycles = argv.cycles
          BY <2>1, <4>1 DEF CyclesLeft
        <4>4. age' + call'.cycles = argv'.cycles
          BY <1>2, <4>1, <4>2, <4>3
        <4> QED
          BY <2>1, <4>2, <4>4 DEF CyclesLeft
      <3>2. CASE RiseEval
        <4>1. /\ call.next = "rise" /\ call' = [call EXCEPT !.next = "fall"]
              /\ age' = age + 1
          BY <2>1, <3>2 DEF RiseEval, ExecuteOne
        <4>2. call'.for = call.for /\ call'.cycles = call.cycles /\ call'.next = "fall"
          BY <1>4, <4>1 DEF Calls
        <4>3. age + call.cycles = argv.cycles
          BY <2>1, <4>1 DEF CyclesLeft
        <4>4. age' + call'.cycles = argv'.cycles + 1
          <5>1. PICK c \in Nat, g \in Nat : c = call.cycles /\ g = age
            BY <1>4
          <5>2. g + 1 + c = argv.cycles + 1
            BY <4>3, <5>1
          <5> QED
            BY <1>2, <4>1, <4>2, <5>1, <5>2
        <4> QED
          BY <2>1, <4>2, <4>4 DEF CyclesLeft
      <3>3. CASE FallEval
        <4>1. /\ call.next = "fall" /\ age' = age
              /\ call' = [call EXCEPT !.next = "settle", !.cycles = call.cycles - 1]
          BY <3>3 DEF FallEval, history
        <4>2. /\ call'.for = call.for /\ call'.cycles = call.cycles - 1
              /\ call'.next = "settle"
          BY <1>4, <4>1 DEF Calls
        <4>3. age + call.cycles = argv.cycles + 1
          BY <2>1, <4>1 DEF CyclesLeft
        <4>4. age' + call'.cycles = argv'.cycles
          <5>1. PICK c \in Nat, g \in Nat, n \in Nat :
                  c = call.cycles /\ g = age /\ n = argv.cycles
            BY <1>4
          <5>2. g + (c - 1) = n
            BY <4>3, <5>1
          <5> QED
            BY <1>2, <4>1, <4>2, <5>1, <5>2
        <4> QED
          BY <2>1, <4>2, <4>4 DEF CyclesLeft
      <3> QED
        BY <3>1, <3>2, <3>3 DEF Simulate
    <2> QED
      BY <1>1, <1>2, <1>6, <2>1, <2>2 DEF CliTypeOK, MainIsAt, Erased
  <1> QED
    BY <1>3, <1>5, <1>6

-----------------------------------------------------------------------------
(* The steps of main().                                                    *)

LEMMA ConvertedType == Converted(rest) \in Word
  BY DEF Converted, Slice, Vec, Bits, Word

LEMMA ReadWordPreserves ==
  ASSUME CliIInv, ReadWord
  PROVE  CliIInv'
  <1> USE DEF CliIInv
  <1>1. /\ stage = "read" /\ stage' = "read" /\ call = idle /\ age = 0
        /\ UNCHANGED <<argv, call, age>>
    BY DEF ReadWord, MainIsAt, history
  <1>2. romaddr \in 0 .. ROMWORDS /\ romaddr < ROMWORDS /\ romaddr' = romaddr + 1
    BY DEF ReadWord, CliTypeOK
  <1>3. instruction_mem' \in [0 .. ROMWORDS-1 -> Word]
    BY ConvertedType DEF ReadWord, SimIInv, MachineTypeOK, TypeOK
  <1>4. SimIInv'
    BY <1>1, <1>3, WritingPreserves DEF ReadWord
  <1>5. romaddr' \in 0 .. ROMWORDS
    BY <1>2, ConstantsAssumption
  <1> QED
    BY <1>1, <1>4, <1>5 DEF CliTypeOK, MainIsAt, Erased

LEMMA StopReadingPreserves ==
  ASSUME CliIInv, StopReading
  PROVE  CliIInv'
  <1> USE DEF CliIInv
  <1>1. /\ stage' = "reset" /\ instruction_mem' = Filled /\ BeginReset("main")
        /\ UNCHANGED <<argv, romaddr>>
    BY DEF StopReading
  <1>2. /\ Filled \in [0 .. ROMWORDS-1 -> Word]
        /\ \A a \in romaddr .. ROMWORDS - 1 : Filled[a] = {}
    <2>1. {} \in Word /\ instruction_mem \in [0 .. ROMWORDS-1 -> Word] /\ romaddr \in Nat
      BY DEF Word, Vec, SimIInv, MachineTypeOK, TypeOK, CliTypeOK
    <2> QED
      BY <2>1 DEF Filled
  <1>3. SimIInv'
    <2>1. "main" \in Resetters
      BY DEF Resetters
    <2> QED
      BY <1>1, <1>2, <2>1, BeginResetPreserves DEF StopReading
  <1>4. call'.for = "main" /\ age' = 0
    BY <1>1 DEF BeginReset, Delay, Restart
  <1> QED
    BY <1>1, <1>2, <1>3, <1>4 DEF CliTypeOK, MainIsAt, Erased

LEMMA RunPreserves ==
  ASSUME CliIInv, Run
  PROVE  CliIInv'
  <1> USE DEF CliIInv
  <1>1. /\ stage = "run" /\ stage' = "running" /\ call' = Delay("main runs", argv.cycles)
        /\ UNCHANGED <<vars, top, cycleno, history, argv, romaddr>>
    BY DEF Run
  <1>2. call = idle /\ age = 0 /\ KEY3 = FALSE /\ argv.cycles \in Nat
    BY <1>1, FrontEndAssumption DEF MainIsAt, CliTypeOK
  <1>3. SimIInv'
    <2>1. UNCHANGED <<KEY3, SW, CLOCK_50>> /\ KEY3 \in BOOLEAN /\ SW \in Switches
      BY <1>1 DEF top, SimIInv, MachineTypeOK, Driven
    <2> QED
      BY <1>1, <1>2, <2>1, CallersPreserve
  <1>4. /\ KEY3' = FALSE /\ call'.for = "main runs" /\ age' = 0
        /\ call'.cycles = argv.cycles /\ call'.next = "settle"
    BY <1>1, <1>2 DEF top, history, Delay
  <1>5. CyclesLeft'
    <2>1. PICK n \in Nat : n = argv.cycles
      BY <1>2
    <2>2. argv' = argv /\ age' + call'.cycles = 0 + n
      BY <1>1, <1>4, <2>1
    <2>3. age' + call'.cycles = argv'.cycles
      BY <2>1, <2>2
    <2> QED
      BY <1>4, <2>3 DEF CyclesLeft
  <1>6. UNCHANGED <<instruction_mem, argv, romaddr>>
    BY <1>1 DEF vars
  <1> QED
    BY <1>1, <1>3, <1>4, <1>5, <1>6 DEF CliTypeOK, MainIsAt, Erased

(* reset() and delay_cycles return.                                        *)
LEMMA ReturnsPreserve ==
  ASSUME CliIInv, Initialized \/ ResetReturns \/ PrintRegisters
  PROVE  CliIInv'
  <1> USE DEF CliIInv
  <1>1. Return /\ call' = idle /\ call.cycles = 0
    BY DEF Initialized, ResetReturns, PrintRegisters, Return
  <1>2. SimIInv'
    BY <1>1, ReturnPreserves
  <1>3. UNCHANGED <<argv, romaddr, age, instruction_mem, mem>>
    BY <1>1 DEF Return, vars, history, Initialized, ResetReturns, PrintRegisters
  <1>4. CASE Initialized
    BY <1>1, <1>2, <1>3, <1>4 DEF Initialized, CliTypeOK, MainIsAt, Erased
  <1>5. CASE ResetReturns
    <2>1. KEY3' = FALSE
      BY <1>1, <1>5 DEF ResetReturns, Return, Resetters, MainIsAt
    <2> QED
      BY <1>1, <1>2, <1>3, <1>5, <2>1 DEF ResetReturns, CliTypeOK, MainIsAt, Erased
  <1>6. CASE PrintRegisters
    <2>1. age \in Nat /\ argv.cycles \in Nat
      BY FrontEndAssumption DEF SimIInv, MachineTypeOK, CliTypeOK
    <2>2. call.next # "fall"
      BY <1>1 DEF SimIInv, Driven
    <2>3. age + call.cycles = argv.cycles
      BY <1>6, <2>2 DEF PrintRegisters, MainIsAt, CyclesLeft
    <2>4. age = argv.cycles
      BY <1>1, <2>1, <2>3
    <2> QED
      BY <1>1, <1>2, <1>3, <1>6, <2>4 DEF PrintRegisters, CliTypeOK, MainIsAt, Erased
  <1> QED
    BY <1>4, <1>5, <1>6

LEMMA CliNextIInv == CliIInv /\ [CliNext]_clivars => CliIInv'
  <1> SUFFICES ASSUME CliIInv, [CliNext]_clivars PROVE CliIInv'
    OBVIOUS
  <1>1. CASE WriteOutOfBounds
    <2>1. SimIInv'
      BY <1>1, SimNextIInv DEF WriteOutOfBounds, CliIInv
    <2> QED
      BY <1>1, <2>1 DEF WriteOutOfBounds, CliIInv, simvars, CliTypeOK, MainIsAt, Erased
  <1>2. CASE UNCHANGED clivars
    <2>1. SimIInv'
      BY <1>2, SimNextIInv DEF clivars, CliIInv
    <2> QED
      BY <1>2, <2>1
      DEF clivars, progress, simvars, vars, top, history, CliIInv, CliTypeOK, MainIsAt,
          CyclesLeft, Erased
  <1> QED
    BY <1>1, <1>2, SimulatePreserves, ReadWordPreserves, StopReadingPreserves, RunPreserves,
       ReturnsPreserve
    DEF CliNext

LEMMA CliInvariance == CliSpec => []CliIInv
  BY CliInitIInv, CliNextIInv, PTL DEF CliSpec

-----------------------------------------------------------------------------
(***************************************************************************)
(* Whenever main() of the command line is between calls, and so when it    *)
(* prints them, the registers are the program's results, two instructions  *)
(* late: for every file and every number of cycles.                        *)
(***************************************************************************)
THEOREM CliRegistersAreRetired == CliSpec => []RegistersArePrefix
  <1>1. CliIInv => RegistersArePrefix
    BY DEF CliIInv, SimIInv, RegistersArePrefix, committed
  <1> QED
    BY <1>1, CliInvariance, PTL

(***************************************************************************)
(* What main() prints has been computed by the words of its file alone, in *)
(* exactly the cycles it was asked for.                                    *)
(***************************************************************************)
THEOREM PrintedIsComputed == CliSpec => []PrintsItsProgram
  <1>1. CliIInv => PrintsItsProgram
    <2> SUFFICES ASSUME CliIInv, stage = "printed"
                 PROVE  /\ age = argv.cycles
                        /\ \A r \in Regs \ {x0} : regval[r] = retired[r]
                        /\ \A a \in romaddr .. ROMWORDS - 1 : instruction_mem[a] = {}
      BY DEF PrintsItsProgram
    <2>1. age = argv.cycles /\ regval = mem
      BY DEF CliIInv, MainIsAt
    <2>2. \A r \in Regs \ {x0} : mem[r] = retired[r]
      BY DEF CliIInv, SimIInv, committed
    <2> QED
      BY <2>1, <2>2 DEF CliIInv, Erased
  <1> QED
    BY <1>1, CliInvariance, PTL
-----------------------------------------------------------------------------
(***************************************************************************)
(* After the words of the program come zeroes, which write nothing: from   *)
(* then on, and until the memory has been run through, the instructions    *)
(* executed last have changed nothing.                                     *)
(***************************************************************************)
Settled ==
  stage \in {"run", "running", "printed"} /\ age \in romaddr + 2 .. ROMWORDS + 1 =>
    executed = retired

LEMMA SettledNext ==
  CliIInv /\ CliIInv' /\ Settled /\ [CliNext]_clivars => Settled'
  <1> SUFFICES ASSUME CliIInv, CliIInv', Settled, [CliNext]_clivars,
                      stage' \in {"run", "running", "printed"},
                      age' \in romaddr' + 2 .. ROMWORDS' + 1
               PROVE  executed' = retired'
    BY DEF Settled
  <1> USE DEF CliIInv
  <1>1. ROMWORDS' = ROMWORDS /\ ROMWORDS \in Nat
    BY ConstantsAssumption
  <1>2. CASE UNCHANGED history /\ romaddr' = romaddr
             /\ stage \in {"run", "running", "printed"}
    BY <1>1, <1>2 DEF history, Settled
  <1>3. CASE stage' = "run"
    <2>1. age' = 0
      BY <1>3 DEF MainIsAt
    <2>2. PICK n \in Nat : romaddr' = n
      BY <1>1 DEF CliTypeOK
    <2>3. 0 \notin n + 2 .. ROMWORDS + 1
      BY <1>1, <2>2
    <2> QED
      BY <1>1, <2>1, <2>2, <2>3
  <1>4. CASE Simulate /\ stage = "running"
    <2>1. romaddr' = romaddr /\ KEY3 = FALSE
      BY <1>4 DEF Simulate, progress, MainIsAt
    <2>2. CASE SettleEval \/ FallEval
      BY <1>2, <1>4, <2>1, <2>2 DEF SettleEval, FallEval
    <2>3. CASE RiseEval
      <3>1. ExecuteOne
        BY <2>1, <2>3 DEF RiseEval
      <3>2. age \in Nat /\ romaddr \in Nat /\ executed \in [Regs -> Word]
        BY DEF SimIInv, MachineTypeOK, CliTypeOK
      <3>3. age' = age + 1 /\ retired' = executed
        BY <3>1 DEF ExecuteOne
      <3>4. age # 0 /\ age - 1 \in romaddr .. ROMWORDS - 1
        BY <1>1, <2>1, <3>2, <3>3
      <3>5. (age - 1) % ROMWORDS = age - 1
        BY <1>1, <3>2, <3>4
      <3>6. instruction_mem[(age - 1) % ROMWORDS] = {}
        BY <1>4, <3>4, <3>5 DEF Erased
      <3>7. executed' = SC!Execute({}, executed, SW)
        BY <3>1, <3>4, <3>6 DEF ExecuteOne
      <3>8. SC!Execute({}, executed, SW) = [r \in Regs |-> executed[r]]
        BY BubbleWritesNothing DEF SC!Execute
      <3> QED
        BY <3>2, <3>3, <3>7, <3>8
    <2> QED
      BY <1>4, <2>2, <2>3 DEF Simulate
  <1>5. CASE Simulate /\ stage # "running"
    <2>1. stage' = stage
      BY <1>5 DEF Simulate, progress
    <2>2. call # idle
      BY <1>5, IdleDoesNothing
    <2> QED
      BY <1>3, <1>5, <2>1, <2>2 DEF MainIsAt
  <1>6. CASE Initialized \/ ReadWord \/ WriteOutOfBounds \/ StopReading \/ ResetReturns
    BY <1>3, <1>6 DEF Initialized, ReadWord, WriteOutOfBounds, StopReading, ResetReturns
  <1>7. CASE Run \/ PrintRegisters
    BY <1>2, <1>7 DEF Run, PrintRegisters, Return
  <1>8. CASE UNCHANGED clivars
    BY <1>2, <1>8 DEF clivars, progress, simvars
  <1> QED
    BY <1>4, <1>5, <1>6, <1>7, <1>8 DEF CliNext

(***************************************************************************)
(* Two cycles more than the program has words are enough, whatever the     *)
(* file, the number of cycles and the size of the memory, and so 1024 are  *)
(* for a program of up to 1022 words in a memory of 4096: no instruction's *)
(* result is missing from the registers that are printed.                  *)
(***************************************************************************)
THEOREM PrintedIsFinal ==
  CliSpec => [](stage = "printed" /\ argv.cycles \in romaddr + 2 .. ROMWORDS + 1 =>
                  \A r \in Regs \ {x0} : regval[r] = executed[r])
  <1> DEFINE Final ==
        stage = "printed" /\ argv.cycles \in romaddr + 2 .. ROMWORDS + 1 =>
          \A r \in Regs \ {x0} : regval[r] = executed[r]
  <1>1. CliInit => Settled
    BY DEF CliInit, Settled
  <1>2. CliIInv /\ Settled => Final
    <2> SUFFICES ASSUME CliIInv, Settled, stage = "printed",
                        argv.cycles \in romaddr + 2 .. ROMWORDS + 1
                 PROVE  \A r \in Regs \ {x0} : regval[r] = executed[r]
      OBVIOUS
    <2>1. age = argv.cycles /\ regval = mem
      BY DEF CliIInv, MainIsAt
    <2>2. executed = retired
      BY <2>1 DEF Settled
    <2>3. \A r \in Regs \ {x0} : mem[r] = retired[r]
      BY DEF CliIInv, SimIInv, committed
    <2> QED
      BY <2>1, <2>2, <2>3
  <1> HIDE DEF Final
  <1>3. CliSpec => []Final
    BY <1>1, <1>2, SettledNext, CliInvariance, PTL DEF CliSpec
  <1> QED
    BY <1>3 DEF Final

=============================================================================
