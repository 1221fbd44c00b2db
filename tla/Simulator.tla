----------------------------- MODULE Simulator -----------------------------
(***************************************************************************)
(* support/support.cpp and its callers: the CPU as the Verilator simulation*)
(* drives it.  A caller writes the inputs of the top-level module, which   *)
(* take effect at the next eval(), and writes the two memories behind the  *)
(* back of the hardware, which takes effect at once.  delay_cycles makes   *)
(* three eval()s of each clock cycle and reset() makes a call of it; every *)
(* eval() is a step of its own here.                                       *)
(*                                                                         *)
(* The callers are the callbacks of support/gui.go (a key, a switch, a     *)
(* tick, the reset button, loading a ROM), one after another in any order. *)
(* Each starts the simulation in its main(), which loads a program too.    *)
(***************************************************************************)
EXTENDS Cpu

CONSTANTS
  RESETCYCLES,      \* clock cycles in a reset(): 5 in the source
  MaxCycles         \* bound: no call starts after this many cycles

(* The switches are off at first.                                          *)
ASSUME SimulatorAssumption ==
  /\ RESETCYCLES \in Nat \ {0} /\ MaxCycles \in Nat
  /\ {} \in Switches

VARIABLES
  KEY3, SW,         \* top->KEY[3] and top->SW, as last written
  CLOCK_50,         \* top->CLOCK_50 at the last eval()
  cycleno,          \* simulation_state.cycleno
  call,             \* the call of delay_cycles in progress, and on whose behalf
  age,              \* history: clock cycles since the last reset,
  executed, retired \* and the registers the program has produced in them

top     == <<KEY3, SW, CLOCK_50>>
history == <<age, executed, retired>>
simvars == <<vars, top, cycleno, call, history>>

Zeroed == [r \in Regs |-> {}]

(* The callers of reset(), which main() also is.                           *)
Resetters == {"main", "OnReset", "LoadRom"}

idle == [for |-> "none", cycles |-> 0, next |-> "settle"]

(* A call of delay_cycles that starts now.                                 *)
Delay(caller, n) == [for |-> caller, cycles |-> n, next |-> "settle"]

-----------------------------------------------------------------------------

(***************************************************************************)
(* eval() with CLOCK_50 at clk: the CPU sees the inputs as they were last  *)
(* written, and reacts to the rising edges among them.                     *)
(***************************************************************************)
Eval(clk) ==
  LET edge == clk /\ ~CLOCK_50 IN
  /\ CLOCK_50' = clk
  /\ rst' = KEY3
  /\ io0' = SW
  /\ IF KEY3 /\ (edge \/ ~rst) THEN ResetPipeline
     ELSE IF edge THEN Fetch /\ ExecuteStage(SW)
     ELSE UNCHANGED pipeline
  /\ IF edge THEN RegfileWrite ELSE UNCHANGED mem
  /\ HexLatch
  /\ UNCHANGED <<instruction_mem, KEY3, SW>>

(***************************************************************************)
(* What a clock cycle makes of the history: the program is executed one    *)
(* instruction at a time from the registers of the last reset.  The        *)
(* instruction fetched in a cycle is executed in the next one, with the    *)
(* switches of that cycle, and is in the register memory after a third.    *)
(***************************************************************************)
Restart(regs) == age' = 0 /\ executed' = regs /\ retired' = regs

ExecuteOne ==
  /\ age' = age + 1
  /\ retired' = executed
  /\ executed' = IF age = 0 THEN executed
                 ELSE SC!Execute(instruction_mem[(age - 1) % ROMWORDS], executed, SW)

(* write_io outside a tick: the next eval() sees it.                       *)
OnKEY(key) ==
  /\ call = idle
  /\ KEY3' = key
  /\ UNCHANGED <<vars, SW, CLOCK_50, cycleno, call, history>>

OnSW(switches) ==
  /\ call = idle
  /\ SW' = switches
  /\ UNCHANGED <<vars, KEY3, CLOCK_50, cycleno, call, history>>

(* delay_cycles(s, 1) on behalf of a tick, after write_io of SW and KEY.   *)
OnTick(key, switches) ==
  /\ call = idle
  /\ cycleno < MaxCycles
  /\ SW' = switches
  /\ KEY3' = key
  /\ call' = Delay("OnTick", 1)
  /\ UNCHANGED <<vars, CLOCK_50, cycleno, history>>

(* Mutant: the registers keep their values.                                *)
BeginResetKeepsRegisters(caller) ==
  /\ call = idle
  /\ KEY3' = TRUE
  /\ call' = Delay(caller, RESETCYCLES)
  /\ Restart(Zeroed)
  /\ UNCHANGED mem

(* reset() up to its delay_cycles: hold KEY[3], zero every register.       *)
BeginReset(caller) ==
  /\ call = idle
  /\ KEY3' = TRUE
  /\ mem' = Zeroed
  /\ call' = Delay(caller, RESETCYCLES)
  /\ Restart(Zeroed)

OnReset ==
  /\ cycleno < MaxCycles
  /\ BeginReset("OnReset")
  /\ UNCHANGED <<instruction_mem, pipeline, hexes, inputs, SW, CLOCK_50, cycleno>>

(* Overwrite the whole instruction memory, then reset().                   *)
LoadRom(caller, rom) ==
  /\ cycleno < MaxCycles
  /\ instruction_mem' = rom
  /\ BeginReset(caller)
  /\ UNCHANGED <<pipeline, hexes, inputs, SW, CLOCK_50, cycleno>>

(* Mutant: delay_cycles without the eval() that settles the inputs.        *)
SettleEvalSkipped ==
  /\ call.cycles > 0 /\ call.next = "settle"
  /\ call' = [call EXCEPT !.next = "rise"]
  /\ UNCHANGED <<vars, top, cycleno, history>>

(* Mutant: the loop of delay_cycles runs once more.                        *)
SettleEvalOnceMore ==
  /\ call # idle /\ call.cycles >= 0 /\ call.next = "settle"
  /\ Eval(FALSE)
  /\ call' = [call EXCEPT !.next = "rise"]
  /\ UNCHANGED <<cycleno, history>>

(* The three eval()s of a cycle of delay_cycles.                           *)
SettleEval ==
  /\ call.cycles > 0 /\ call.next = "settle"
  /\ Eval(FALSE)
  /\ call' = [call EXCEPT !.next = "rise"]
  /\ UNCHANGED <<cycleno, history>>

RiseEval ==
  /\ call.next = "rise"
  /\ Eval(TRUE)
  /\ IF KEY3 THEN Restart(retired) ELSE ExecuteOne
  /\ call' = [call EXCEPT !.next = "fall"]
  /\ UNCHANGED cycleno

FallEval ==
  /\ call.next = "fall"
  /\ Eval(FALSE)
  /\ cycleno' = cycleno + 1
  /\ call' = [call EXCEPT !.next = "settle", !.cycles = @ - 1]
  /\ UNCHANGED history

(* Mutant: reset() does not release KEY[3].                                *)
ReturnHoldsKey ==
  /\ call # idle /\ call.cycles = 0
  /\ call' = idle
  /\ UNCHANGED <<vars, top, cycleno, history>>

(* delay_cycles returns; reset() then releases KEY[3], without an eval().  *)
Return ==
  /\ call # idle /\ call.cycles = 0
  /\ KEY3' = IF call.for \in Resetters THEN FALSE ELSE KEY3
  /\ call' = idle
  /\ UNCHANGED <<vars, SW, CLOCK_50, cycleno, history>>

-----------------------------------------------------------------------------

(***************************************************************************)
(* initialize_simulation: Verilator powers up with every register 0, and   *)
(* may or may not take the first KEY[3] it sees for a rising edge.         *)
(***************************************************************************)
SimInit ==
  /\ instruction_mem \in Programs
  /\ PC_F = 0 /\ instr_EX = {}
  /\ regwe_WB = FALSE /\ regsel_WB = 0 /\ R_WB = {} /\ imm_u_WB = {} /\ io0_WB = {}
  /\ regdest_WB = {}
  /\ mem = Zeroed
  /\ hexes = {}
  /\ rst \in BOOLEAN /\ io0 = {}
  /\ KEY3 = TRUE /\ SW = {} /\ CLOCK_50 = FALSE
  /\ cycleno = 1
  /\ call = Delay("main", RESETCYCLES)
  /\ age = 0 /\ executed = Zeroed /\ retired = Zeroed

SimNext ==
  \/ \E key \in BOOLEAN, switches \in Switches : OnTick(key, switches)
  \/ \E key \in BOOLEAN : OnKEY(key)
  \/ \E switches \in Switches : OnSW(switches)
  \/ OnReset
  \/ \E caller \in {"main", "LoadRom"}, rom \in Programs : LoadRom(caller, rom)
  \/ SettleEval \/ RiseEval \/ FallEval
  \/ Return

SimSpec == SimInit /\ [][SimNext]_simvars

-----------------------------------------------------------------------------

SimTypeOK ==
  /\ TypeOK
  /\ KEY3 \in BOOLEAN /\ SW \in Vec(18) /\ CLOCK_50 \in BOOLEAN
  /\ cycleno \in Nat
  /\ call \in [for : Resetters \cup {"none", "OnTick"}, cycles : 0 .. RESETCYCLES,
               next : {"settle", "rise", "fall"}]
  /\ age \in Nat
  /\ executed \in [Regs -> Word] /\ retired \in [Regs -> Word]

(***************************************************************************)
(* Between calls the register memory holds, but for x0, what executing the *)
(* program one instruction at a time gives for all cycles since the last   *)
(* reset but two: the register dump of a front end shows the program's     *)
(* results, two instructions late, whatever calls were made before it.  A  *)
(* reset by KEY[3] restarts the program on the registers of that moment, a *)
(* reset() on zeroes.                                                      *)
(***************************************************************************)
RegistersArePrefix ==
  call = idle => \A r \in Regs \ {x0} : mem[r] = retired[r]

(***************************************************************************)
(* When reset() returns, every register is 0, x0's included, and nothing   *)
(* is in flight: a write back that was pending when reset() was called did *)
(* not overwrite the zeroes, although the register file was clocked.       *)
(***************************************************************************)
ResetZeroes ==
  call.for \in Resetters /\ call.cycles = 0 => mem = Zeroed /\ ~regwe_WB /\ PC_F = 0

(***************************************************************************)
(* The CPU sees only single edges: at each eval() either the inputs change *)
(* or the clock rises, never both, because delay_cycles settles the inputs *)
(* with an eval() of its own before it raises the clock.  The remaining    *)
(* steps of the CPU's state are the writes behind its back.                *)
(***************************************************************************)
OneEdgeAtATime == [][Next \/ UNCHANGED <<pipeline, hexes, inputs>>]_vars

(***************************************************************************)
(* tests/_test_randomized.py: "0x is const 0".  Whoever reads register 0   *)
(* through read_reg, as the register tables of all front ends do, sees 0.  *)
(***************************************************************************)
X0IsConstZero == call = idle => mem[x0] = {}

=============================================================================
