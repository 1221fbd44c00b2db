----------------------------- MODULE GuiProofs -----------------------------
(***************************************************************************)
(* Theorems about the window of Gui.tla, for any files, programs and       *)
(* switches.                                                               *)
(***************************************************************************)
EXTENDS Gui, SimulatorProofs, WordsProofs

-----------------------------------------------------------------------------
(***************************************************************************)
(* The window only makes calls that the simulation has.                    *)
(***************************************************************************)
WindowType == KEY \in BOOLEAN /\ SWITCHES \in Switches

(* The eighteen switches pass write_io as they are.                        *)
LEMMA ClickedKeeps ==
  ASSUME NEW switches \in Switches
  PROVE  Clicked(switches) = switches
  <1>1. switches \subseteq 0 .. 17
    BY ConstantsAssumption DEF Vec, Bits
  <1>2. Pins!io_mask("IO_SW") = 18
    BY DEF Pins!io_mask
  <1>3. Pins!Bits(18) = 0 .. 17
    BY DEF Pins!Bits
  <1> QED
    BY <1>1, <1>2, <1>3 DEF Clicked, Pins!write_io, Pins!writeable

LEMMA WindowInit == GuiInit => WindowType /\ SimInit
  BY SimulatorAssumption DEF GuiInit, WindowType

LEMMA WindowNext == WindowType /\ [GuiNext]_guivars => WindowType'
  <1> SUFFICES ASSUME WindowType, [GuiNext]_guivars PROVE WindowType'
    OBVIOUS
  <1>1. ASSUME NEW key \in BOOLEAN, ClickKEY(key) PROVE WindowType'
    BY <1>1 DEF ClickKEY, WindowType
  <1>2. ASSUME NEW switches \in Switches, ClickSW(switches) PROVE WindowType'
    BY <1>2 DEF ClickSW, WindowType
  <1>3. CASE EndReset
    BY <1>3, SimulatorAssumption DEF EndReset, WindowType
  <1>4. CASE UNCHANGED <<KEY, SWITCHES>>
    BY <1>4 DEF WindowType
  <1> QED
    BY <1>1, <1>2, <1>3, <1>4
    DEF GuiNext, Initialized, LoadArgument, Panic, OpenRom, OpenWindow, Tick,
        Opens, ResetButton, Simulate, EndTick, EndLoad, guivars, window

LEMMA WindowSteps ==
  WindowType /\ [GuiNext]_guivars => [SimNext]_simvars
  <1> SUFFICES ASSUME WindowType, [GuiNext]_guivars
               PROVE  SimNext \/ UNCHANGED simvars
    OBVIOUS
  <1>1. ASSUME NEW file \in Files, LoadArgument(file) \/ Panic(file) \/ OpenRom(file)
        PROVE  SimNext \/ UNCHANGED simvars
    <2>1. CASE LoadArgument(file)
      BY <2>1, GuiAssumption DEF LoadArgument, SimNext
    <2>2. CASE Panic(file)
      BY <2>2 DEF Panic
    <2>3. CASE OpenRom(file)
      BY <2>3, GuiAssumption DEF OpenRom, SimNext
    <2> QED
      BY <1>1, <2>1, <2>2, <2>3
  <1>2. ASSUME NEW key \in BOOLEAN, ClickKEY(key) PROVE SimNext
    BY <1>2 DEF ClickKEY, SimNext
  <1>3. ASSUME NEW switches \in Switches, ClickSW(switches) PROVE SimNext
    BY <1>3, ClickedKeeps DEF ClickSW, SimNext
  <1>4. CASE Tick
    BY <1>4, ClickedKeeps DEF Tick, SimNext, WindowType
  <1>5. CASE ResetButton
    BY <1>5 DEF ResetButton, SimNext
  <1>6. CASE Simulate
    BY <1>6 DEF Simulate, SimNext
  <1>7. CASE \/ Initialized \/ OpenWindow \/ EndReset \/ EndLoad
             \/ \E final \in BOOLEAN : EndTick(final)
    BY <1>7 DEF Initialized, OpenWindow, EndReset, EndLoad, EndTick, SimNext
  <1>8. CASE UNCHANGED guivars
    BY <1>8 DEF guivars
  <1> QED
    BY <1>1, <1>2, <1>3, <1>4, <1>5, <1>6, <1>7, <1>8 DEF GuiNext

(***************************************************************************)
(* The graphical front end implements the simulation: main(), the keys,    *)
(* the switches, ticks, resets and ROMs are calls it may make, in an order *)
(* it may make them, and all that is proved of the simulation holds in it. *)
(***************************************************************************)
THEOREM GuiImplementsSimulator == GuiSpec => SimSpec
  BY WindowInit, WindowNext, WindowSteps, PTL DEF GuiSpec, SimSpec

-----------------------------------------------------------------------------
(***************************************************************************)
(* The inductive invariant of the window.  Before it opens only main()     *)
(* has called, and nothing is known of the table; while a call is in       *)
(* progress, somebody made it.                                             *)
(***************************************************************************)
Called == call.for = "none" => call = idle

MainCalls == phase # "open" => fresh = {} /\ call.for \in {"main", "none"}

GuiIInv ==
  /\ SimIInv
  /\ Called
  /\ MainCalls
  /\ TableShowsResults

LEMMA GuiInitIInv == GuiInit => GuiIInv
  <1> SUFFICES ASSUME GuiInit PROVE GuiIInv
    OBVIOUS
  <1>1. SimIInv
    BY SimInitIInv DEF GuiInit
  <1>2. call.for = "main" /\ fresh = {}
    BY DEF GuiInit, SimInit, Delay
  <1> QED
    BY <1>1, <1>2 DEF GuiIInv, Called, MainCalls, TableShowsResults

(* reset() and delay_cycles go on: the call stays the one it was.          *)
LEMMA SimulateKeepsCall ==
  ASSUME SimIInv, Called, Simulate
  PROVE  call'.for = call.for /\ call.for # "none" /\ call' # idle
  <1>1. call.for # "none"
    <2>1. call.cycles > 0 \/ call.next # "settle"
      BY DEF Simulate, SettleEval, RiseEval, FallEval
    <2>2. ~(idle.cycles > 0) /\ idle.next = "settle"
      BY DEF idle
    <2> QED
      BY <2>1, <2>2 DEF Called
  <1>2. call'.for = call.for
    BY DEF Simulate, SettleEval, RiseEval, FallEval, SimIInv, MachineTypeOK, Calls
  <1> QED
    BY <1>1, <1>2 DEF idle

LEMMA ResetIsACall == ASSUME NEW caller \in Resetters, BeginReset(caller)
                      PROVE  call'.for = caller /\ call' # idle
  BY DEF BeginReset, Delay, idle, Resetters

LEMMA GuiNextIInv == GuiIInv /\ SimIInv' /\ [GuiNext]_guivars => GuiIInv'
  <1> SUFFICES ASSUME GuiIInv, SimIInv', [GuiNext]_guivars
               PROVE  Called' /\ MainCalls' /\ TableShowsResults'
    BY DEF GuiIInv
  <1> USE DEF GuiIInv
  <1>1. CASE Initialized
    BY <1>1 DEF Initialized, Return, Called, MainCalls, TableShowsResults, idle
  <1>2. ASSUME NEW file \in Files, LoadArgument(file)
        PROVE  Called' /\ MainCalls' /\ TableShowsResults'
    <2>1. call'.for = "main" /\ call' # idle
      BY <1>2, ResetIsACall DEF LoadArgument, LoadRom, Resetters
    <2> QED
      BY <1>2, <2>1 DEF LoadArgument, Called, MainCalls, TableShowsResults
  <1>3. ASSUME NEW file \in Files, Panic(file)
        PROVE  Called' /\ MainCalls' /\ TableShowsResults'
    BY <1>3 DEF Panic, simvars, history, Called, MainCalls, TableShowsResults
  <1>4. CASE OpenWindow
    <2>1. \A r \in Regs \ {x0} : mem[r] = retired[r]
      BY DEF SimIInv, committed
    <2>2. reglabels' = mem /\ retired' = retired /\ call' = idle /\ phase' = "open"
      BY <1>4 DEF OpenWindow, Return, history
    <2> QED
      BY <2>1, <2>2 DEF Called, MainCalls, TableShowsResults
  <1>5. CASE \/ \E key \in BOOLEAN : ClickKEY(key)
             \/ \E switches \in Switches : ClickSW(switches)
    BY <1>5 DEF ClickKEY, ClickSW, OnKEY, OnSW, history, Called, MainCalls, TableShowsResults
  <1>6. CASE Tick
    <2>1. call'.for = "OnTick" /\ call' # idle /\ phase' = "open"
      BY <1>6 DEF Tick, OnTick, Delay, idle, window
    <2> QED
      BY <2>1 DEF Called, MainCalls, TableShowsResults
  <1>7. CASE ResetButton
    <2>1. call'.for = "OnReset" /\ call' # idle /\ phase' = "open"
      BY <1>7, ResetIsACall DEF ResetButton, OnReset, Resetters, window
    <2> QED
      BY <2>1 DEF Called, MainCalls, TableShowsResults
  <1>8. ASSUME NEW file \in Files, OpenRom(file)
        PROVE  Called' /\ MainCalls' /\ TableShowsResults'
    <2>1. CASE Accepts(file)
      <3>1. call'.for = "LoadRom" /\ call' # idle /\ phase' = "open"
        BY <1>8, <2>1, ResetIsACall DEF OpenRom, LoadRom, Opens, Resetters
      <3> QED
        BY <3>1 DEF Called, MainCalls, TableShowsResults
    <2>2. CASE ~Accepts(file)
      BY <1>8, <2>2
      DEF OpenRom, Opens, simvars, history, Called, MainCalls, TableShowsResults
    <2> QED
      BY <2>1, <2>2
  <1>9. CASE Simulate
    <2>1. /\ call'.for = call.for /\ call.for # "none" /\ call' # idle
          /\ UNCHANGED window
      BY <1>9, SimulateKeepsCall DEF Simulate
    <2> QED
      BY <2>1 DEF Called, MainCalls, TableShowsResults, window
  <1>10. ASSUME NEW final \in BOOLEAN, EndTick(final)
         PROVE  Called' /\ MainCalls' /\ TableShowsResults'
    <2>1. \A r \in Regs \ {x0} : mem[r] = retired[r]
      BY DEF SimIInv, committed
    <2>2. /\ retired' = retired /\ call' = idle
          /\ phase = "open" /\ phase' = "open"
      BY <1>10 DEF EndTick, Return, history, MainCalls
    <2>3. IF final THEN reglabels' = mem ELSE fresh' = {}
      BY <1>10 DEF EndTick, SetText
    <2> QED
      BY <2>1, <2>2, <2>3 DEF Called, MainCalls, TableShowsResults
  <1>11. CASE EndReset
    BY <1>11 DEF EndReset, Return, Called, MainCalls, TableShowsResults
  <1>12. CASE EndLoad
    BY <1>12 DEF EndLoad, Return, Called, MainCalls, TableShowsResults
  <1>13. CASE UNCHANGED guivars
    BY <1>13 DEF guivars, simvars, history, window, Called, MainCalls, TableShowsResults
  <1> QED
    BY <1>1, <1>2, <1>3, <1>4, <1>5, <1>6, <1>7, <1>8, <1>9, <1>10, <1>11, <1>12, <1>13
    DEF GuiNext

(***************************************************************************)
(* After the last tick of a burst the table of the window shows what the   *)
(* program has computed since the last reset, whatever was clicked, reset  *)
(* and loaded before.                                                      *)
(***************************************************************************)
THEOREM TableIsTrue == GuiSpec => []TableShowsResults
  <1>1. GuiSpec => []SimIInv
    BY GuiImplementsSimulator, SimInvariance, PTL
  <1>2. GuiSpec => []GuiIInv
    BY <1>1, GuiInitIInv, GuiNextIInv, PTL DEF GuiSpec
  <1> QED
    BY <1>2, PTL DEF GuiIInv

-----------------------------------------------------------------------------
(***************************************************************************)
(* The program.  The memory is that of the words opened last, and what is  *)
(* fetched is in step with the cycles since the last reset, which SimIInv  *)
(* does not say of a tick that has been asked to reset and has not yet     *)
(* begun.                                                                  *)
(***************************************************************************)
Loaded == phase \in {"reset", "open"} => instruction_mem = Image(ROMWORDS, loaded)

FetchedInStep ==
  instr_EX = IF age = 0 THEN {} ELSE instruction_mem[(age - 1) % ROMWORDS]

TicksInStep == call.for \notin Resetters /\ call.next = "settle" => FetchedInStep

LEMMA LoadedNext == Loaded /\ [GuiNext]_guivars => Loaded'
  <1> SUFFICES ASSUME Loaded, [GuiNext]_guivars PROVE Loaded'
    OBVIOUS
  <1>1. CASE Initialized
    BY <1>1 DEF Initialized, Loaded
  <1>2. ASSUME NEW file \in Files, LoadArgument(file) PROVE Loaded'
    BY <1>2 DEF LoadArgument, LoadRom, Program, Loaded
  <1>3. ASSUME NEW file \in Files, Panic(file) PROVE Loaded'
    BY <1>3 DEF Panic, Loaded
  <1>4. ASSUME NEW file \in Files, OpenRom(file) PROVE Loaded'
    <2>1. CASE Accepts(file)
      BY <1>4, <2>1 DEF OpenRom, LoadRom, Opens, Program, Loaded
    <2>2. CASE ~Accepts(file)
      BY <1>4, <2>2 DEF OpenRom, Opens, simvars, vars, Loaded
    <2> QED
      BY <2>1, <2>2
  <1>5. CASE OpenWindow
    BY <1>5 DEF OpenWindow, Return, vars, Loaded
  <1>6. CASE UNCHANGED <<phase, instruction_mem, loaded>>
    BY <1>6 DEF Loaded
  <1>7. CASE \/ \E key \in BOOLEAN : ClickKEY(key)
             \/ \E switches \in Switches : ClickSW(switches)
             \/ Tick \/ ResetButton \/ Simulate
             \/ \E final \in BOOLEAN : EndTick(final)
             \/ EndReset \/ EndLoad
    <2>1. UNCHANGED <<phase, instruction_mem, loaded>>
      BY <1>7
      DEF ClickKEY, ClickSW, Tick, ResetButton, Simulate, EndTick, EndReset, EndLoad, OnKEY,
          OnSW, OnTick, OnReset, SettleEval, RiseEval, FallEval, Eval, Return, vars, window
    <2> QED
      BY <2>1, <1>6
  <1>8. CASE UNCHANGED guivars
    BY <1>8, <1>6 DEF guivars, simvars, vars, window
  <1> QED
    BY <1>1, <1>2, <1>3, <1>4, <1>5, <1>7, <1>8 DEF GuiNext

(* Between calls everything is in step, whatever is then written.          *)
LEMMA InStep == SimIInv /\ call.cycles = 0 => FetchedInStep
  BY DEF SimIInv, Synchronized, FetchedInStep

LEMMA TicksInStepNext ==
  SimIInv /\ SimIInv' /\ TicksInStep /\ [SimNext]_simvars => TicksInStep'
  <1> SUFFICES ASSUME SimIInv, SimIInv', TicksInStep, [SimNext]_simvars PROVE TicksInStep'
    OBVIOUS
  <1>1. ASSUME call'.cycles = 0 PROVE TicksInStep'
    <2>1. (SimIInv /\ call.cycles = 0 => FetchedInStep)'
      BY InStep, PTL
    <2> QED
      BY <1>1, <2>1 DEF TicksInStep
  <1>2. ASSUME call' = idle PROVE TicksInStep'
    BY <1>1, <1>2 DEF idle
  <1>3. ASSUME NEW key \in BOOLEAN, NEW switches \in Switches, OnTick(key, switches)
        PROVE  TicksInStep'
    <2>1. FetchedInStep
      BY <1>3, InStep DEF OnTick, idle
    <2>2. UNCHANGED <<instr_EX, instruction_mem, age>>
      BY <1>3 DEF OnTick, vars, pipeline, history
    <2> QED
      BY <2>1, <2>2 DEF TicksInStep, FetchedInStep
  <1>4. CASE \/ \E key \in BOOLEAN : OnKEY(key)
             \/ \E switches \in Switches : OnSW(switches)
             \/ Return
    BY <1>2, <1>4 DEF OnKEY, OnSW, Return
  <1>5. ASSUME NEW caller \in Resetters, BeginReset(caller) PROVE TicksInStep'
    BY <1>5 DEF BeginReset, Delay, TicksInStep
  <1>6. CASE OnReset \/ \E caller \in {"main", "LoadRom"}, rom \in Programs : LoadRom(caller, rom)
    BY <1>5, <1>6 DEF OnReset, LoadRom, Resetters
  <1>7. CASE SettleEval \/ RiseEval
    <2>1. call'.next # "settle"
      BY <1>7 DEF SettleEval, RiseEval, SimIInv, MachineTypeOK, Calls
    <2> QED
      BY <2>1 DEF TicksInStep
  <1>8. CASE FallEval
    <2>1. /\ Synchronized /\ rst = KEY3
          /\ UNCHANGED <<age, instruction_mem>>
      BY <1>8 DEF FallEval, Eval, history, SimIInv, Driven
    <2>2. TypeOK' /\ ResetFlushes'
      BY DEF SimIInv, MachineTypeOK
    <2>3. instr_EX' = instr_EX
      BY <1>8, <2>1, <2>2, LowEvalKeeps DEF FallEval
    <2> QED
      BY <2>1, <2>3 DEF Synchronized, TicksInStep, FetchedInStep
  <1>9. CASE UNCHANGED simvars
    BY <1>9 DEF simvars, vars, pipeline, history, TicksInStep, FetchedInStep
  <1> QED
    BY <1>3, <1>4, <1>6, <1>7, <1>8, <1>9 DEF SimNext

(* In the middle of a call that resets nothing, too.                       *)
LEMMA ExecutesInStep ==
  ASSUME SimIInv, TicksInStep, call.for \notin Resetters
  PROVE  instr_EX = IF rst \/ age = 0 THEN {} ELSE instruction_mem[(age - 1) % ROMWORDS]
  <1>1. CASE rst
    BY <1>1 DEF SimIInv, ResetFlushes
  <1>2. CASE ~rst
    <2>1. FetchedInStep
      <3>1. CASE call.next = "settle"
        BY <3>1 DEF TicksInStep
      <3>2. CASE call.next # "settle"
        <4>1. ~KEY3 \/ call.next = "fall"
          BY <1>2, <3>2 DEF SimIInv, Driven, MachineTypeOK, Calls
        <4> QED
          BY <4>1 DEF SimIInv, Synchronized, FetchedInStep
      <3> QED
        BY <3>1, <3>2
    <2> QED
      BY <1>2, <2>1 DEF FetchedInStep
  <1> QED
    BY <1>1, <1>2

(***************************************************************************)
(* While the window is open and no reset() in progress, every instruction  *)
(* in EX is the word that the file opened last has for this cycle: for any *)
(* files, longer than the memory or with errors in them, and whatever was  *)
(* clicked, reset and loaded before.                                       *)
(***************************************************************************)
THEOREM ExecutesWhatWasOpened == GuiSpec => []ExecutesTheOpenedFile
  <1>1. GuiSpec => []SimIInv
    BY GuiImplementsSimulator, SimInvariance, PTL
  <1>2. GuiSpec => []Loaded
    <2>1. GuiInit => Loaded
      BY DEF GuiInit, Loaded
    <2> QED
      BY <2>1, LoadedNext, PTL DEF GuiSpec
  <1>3. GuiSpec => []TicksInStep
    <2>1. GuiInit => TicksInStep
      BY DEF GuiInit, SimInit, Delay, Resetters, TicksInStep
    <2> QED
      BY <1>1, <2>1, GuiImplementsSimulator, TicksInStepNext, PTL DEF GuiSpec, SimSpec
  <1>4. SimIInv /\ Loaded /\ TicksInStep => ExecutesTheOpenedFile
    <2> SUFFICES ASSUME SimIInv, Loaded, TicksInStep, phase = "open",
                        call.for \notin Resetters
                 PROVE  instr_EX =
                          IF ~rst /\ age # 0 /\ (age - 1) % ROMWORDS < Len(loaded)
                          THEN loaded[((age - 1) % ROMWORDS) + 1] ELSE {}
      BY DEF ExecutesTheOpenedFile
    <2> DEFINE addr == (age - 1) % ROMWORDS
    <2>1. CASE rst \/ age = 0
      BY <2>1, ExecutesInStep
    <2>2. CASE ~(rst \/ age = 0)
      <3>1. instr_EX = instruction_mem[addr]
        BY <2>2, ExecutesInStep
      <3>2. addr \in 0 .. ROMWORDS - 1
        <4>1. age - 1 \in Nat
          BY <2>2 DEF SimIInv, MachineTypeOK
        <4> QED
          BY <4>1, ModuloType, ConstantsAssumption
      <3>3. instruction_mem[addr] = IF addr < Len(loaded) THEN loaded[addr + 1] ELSE {}
        BY <3>2 DEF Loaded, Image
      <3> QED
        BY <2>2, <3>1, <3>3
    <2> QED
      BY <2>1, <2>2
  <1> QED
    BY <1>1, <1>2, <1>3, <1>4, PTL

-----------------------------------------------------------------------------
(***************************************************************************)
(* The digits of the window.                                               *)
(***************************************************************************)

(* The board's operators on words are those of the window's.               *)
LEMMA NumOfPins == ASSUME NEW v PROVE Pins!Num(v) = Num(v)
  BY DEF Pins!Num, Num, Pins!MapThenSumSet, MapThenSumSet, Pins!MapThenFoldSet,
         MapThenFoldSet

LEMMA SliceOfPins ==
  ASSUME NEW v, NEW hi, NEW lo
  PROVE  Pins!Slice(v, hi, lo) = Slice(v, hi, lo)
  BY DEF Pins!Slice, Slice, Pins!Bits, Bits

LEMMA DigitRange == ASSUME NEW v \in Vec(4) PROVE Num(v) \in 0 .. 15
  BY NumOf4Bits DEF Bit

LEMMA LitOfPins == ASSUME NEW w, NEW n PROVE Pins!Lit(w, n) = Lit(w, n)
  BY DEF Pins!Lit, Lit, Pins!Bits, Bits

(* Each pattern of hex.sv lights the segments of its digit.                *)
LEMMA PatternReads ==
  ASSUME NEW n \in 0 .. 15
  PROVE  ReadsAs(Pins!Lit(7, Pins!Patterns[n + 1]), n)
  <1> DEFINE p == Pins!Patterns[n + 1]
  <1>1. p \in Nat
    BY DEF Pins!Patterns
  <1>2. /\ ~IsOdd(p) <=> n \in LitIn[1]
        /\ ~IsOdd(p \div 2) <=> n \in LitIn[2]
        /\ ~IsOdd(p \div 4) <=> n \in LitIn[3]
        /\ ~IsOdd(p \div 8) <=> n \in LitIn[4]
        /\ ~IsOdd(p \div 16) <=> n \in LitIn[5]
        /\ ~IsOdd(p \div 32) <=> n \in LitIn[6]
        /\ ~IsOdd(p \div 64) <=> n \in LitIn[7]
    <2>1. CASE n \in 0 .. 7
      BY <2>1 DEF Pins!Patterns, IsOdd, LitIn
    <2>2. CASE n \in 8 .. 15
      BY <2>2 DEF Pins!Patterns, IsOdd, LitIn
    <2> QED
      BY <2>1, <2>2
  <1> HIDE DEF p
  <1>3. \A g \in 0 .. 6 : g \notin Pins!Lit(7, p) <=> n \in LitIn[g + 1]
    BY <1>1, <1>2, LitOf7Bits, LitOfPins
  <1> QED
    BY <1>3 DEF ReadsAs, p

(* The digits that SetHEX makes of a word.                                 *)
DigitsOf(word) == [i \in 0 .. 7 |-> Pins!read_io("IO_HEX", Pins!HEX(word)[7 - i])]

LEMMA DigitsRead ==
  ASSUME NEW word, NEW k \in 0 .. 7
  PROVE  ReadsAs(DigitsOf(word)[7 - k], Num(Slice(word, 4*k + 3, 4*k)))
  <1> DEFINE v == Slice(word, 4*k + 3, 4*k)
             segments == Pins!Lit(7, Pins!Patterns[Num(v) + 1])
  <1>1. v \in Vec(4)
    BY DEF Slice, Vec, Bits
  <1>2. ReadsAs(segments, Num(v))
    BY <1>1, DigitRange, PatternReads
  <1>3. Pins!HEX(word)[k] = segments
    BY SliceOfPins, NumOfPins DEF Pins!HEX, Pins!hex
  <1>4. segments \cap Pins!Bits(7) = segments
    BY DEF Pins!Lit
  <1>5. Pins!io_mask("IO_HEX") = 7 /\ "IO_HEX" \in Pins!readable
    BY DEF Pins!io_mask, Pins!readable
  <1>6. 7 - k \in 0 .. 7 /\ 7 - (7 - k) = k
    OBVIOUS
  <1>7. DigitsOf(word)[7 - k] = Pins!read_io("IO_HEX", segments)
    BY <1>3, <1>6 DEF DigitsOf
  <1>8. Pins!read_io("IO_HEX", segments) = segments
    BY <1>4, <1>5 DEF Pins!read_io
  <1> QED
    BY <1>2, <1>7, <1>8

(***************************************************************************)
(* The inductive invariant of the digits: nothing has moved the display    *)
(* since they were set, except for a call that is still to set them again; *)
(* loading a ROM, which never does, runs the clock in reset only, and the  *)
(* latch of the display is closed then.                                    *)
(***************************************************************************)
DigitsKept ==
  "digits" \in fresh /\ call.for \in {"none", "LoadRom"} => panel = DigitsOf(hexes)

(* The clock runs in reset: the latch stays closed.                        *)
LEMMA ResetKeepsDisplay ==
  ASSUME SimIInv, ResetFlushes', Simulate, call.for \in Resetters
  PROVE  hexes' = hexes
  <1>1. rst' /\ HexLatch
    BY DEF SimIInv, InReset, Simulate, SettleEval, RiseEval, FallEval, Eval
  <1>2. instr_EX' = {}
    BY <1>1 DEF ResetFlushes
  <1> QED
    BY <1>1, <1>2, BubbleShowsNothing DEF HexLatch

LEMMA DigitsNext ==
  GuiIInv /\ SimIInv' /\ DigitsKept /\ [GuiNext]_guivars => DigitsKept'
  <1> SUFFICES ASSUME GuiIInv, SimIInv', DigitsKept, [GuiNext]_guivars
               PROVE  DigitsKept'
    OBVIOUS
  <1> USE DEF GuiIInv
  <1>1. CASE \/ Initialized \/ OpenWindow
             \/ \E file \in Files : LoadArgument(file) \/ Panic(file)
    <2>1. fresh' \in {{}, {"table"}}
      BY <1>1 DEF Initialized, OpenWindow, LoadArgument, Panic, MainCalls
    <2> QED
      BY <2>1 DEF DigitsKept
  <1>2. CASE \/ \E key \in BOOLEAN : ClickKEY(key)
             \/ \E switches \in Switches : ClickSW(switches)
    BY <1>2 DEF ClickKEY, ClickSW, OnKEY, OnSW, vars, DigitsKept
  <1>3. CASE Tick
    BY <1>3 DEF Tick, OnTick, Delay, DigitsKept
  <1>4. CASE ResetButton
    BY <1>4, ResetIsACall DEF ResetButton, OnReset, Resetters, DigitsKept
  <1>5. ASSUME NEW file \in Files, OpenRom(file) PROVE DigitsKept'
    <2>1. CASE Accepts(file)
      BY <1>5, <2>1 DEF OpenRom, LoadRom, Opens, idle, DigitsKept, DigitsOf
    <2>2. CASE ~Accepts(file)
      BY <1>5, <2>2 DEF OpenRom, Opens, simvars, vars, DigitsKept, DigitsOf
    <2> QED
      BY <2>1, <2>2
  <1>6. CASE Simulate
    <2>1. call'.for = call.for /\ call.for # "none" /\ UNCHANGED window
      BY <1>6, SimulateKeepsCall DEF Simulate
    <2>2. call.for = "LoadRom" => hexes' = hexes
      BY <1>6, ResetKeepsDisplay DEF SimIInv, Resetters
    <2> QED
      BY <2>1, <2>2 DEF window, DigitsKept
  <1>7. ASSUME NEW final \in BOOLEAN, EndTick(final) PROVE DigitsKept'
    <2>1. hexes' = hexes /\ (IF final THEN panel' = DigitsOf(hexes) ELSE fresh' = {})
      BY <1>7 DEF EndTick, Return, vars, SetHEX, DigitsOf
    <2> QED
      BY <2>1 DEF DigitsKept, DigitsOf
  <1>8. CASE EndReset
    <2>1. hexes' = hexes /\ panel' = DigitsOf(hexes)
      BY <1>8 DEF EndReset, Return, vars, SetHEX, DigitsOf
    <2> QED
      BY <2>1 DEF DigitsKept, DigitsOf
  <1>9. CASE EndLoad
    BY <1>9 DEF EndLoad, Return, vars, DigitsKept, DigitsOf
  <1>10. CASE UNCHANGED guivars
    BY <1>10 DEF guivars, simvars, vars, window, DigitsKept, DigitsOf
  <1> QED
    BY <1>1, <1>2, <1>3, <1>4, <1>5, <1>6, <1>7, <1>8, <1>9, <1>10 DEF GuiNext

(***************************************************************************)
(* After a tick or a reset the window reads as the word that the program   *)
(* displays, for every word, and no key, switch or ROM changes that before *)
(* the next tick or reset does.                                            *)
(***************************************************************************)
THEOREM PanelIsTrue == GuiSpec => []PanelShowsDisplay
  <1>1. GuiSpec => []SimIInv
    BY GuiImplementsSimulator, SimInvariance, PTL
  <1>2. GuiInit => DigitsKept
    BY DEF GuiInit, DigitsKept
  <1>3. GuiSpec => []DigitsKept
    BY <1>1, <1>2, GuiInitIInv, GuiNextIInv, DigitsNext, PTL DEF GuiSpec
  <1>4. DigitsKept => PanelShowsDisplay
    <2>1. ASSUME DigitsKept, call = idle, "digits" \in fresh PROVE panel = DigitsOf(hexes)
      BY <2>1 DEF DigitsKept, idle
    <2> QED
      BY <2>1, DigitsRead DEF PanelShowsDisplay
  <1> QED
    BY <1>3, <1>4, PTL

=============================================================================
