# u-architecture in TLA+

A verification project for the three-stage RISC-V CPU of this repository, the
simulator that drives it and the program that runs on it: TLA+ modules,
configurations for TLC, and theorems checked by TLAPS.

## 1. The system

| Part | Code | State | Operations |
|---|---|---|---|
| ALU | `rtl/alu.sv` | none | 14 operations on two words |
| Decoder, control unit | `rtl/decode.sv`, `rtl/control.sv` | none | instruction word to fields and control lines |
| Pipeline | `rtl/cpu.sv` | `PC_F`, `instr_EX`, the `_WB` registers, the latch `hexes`, `instruction_mem` | clock edge, asynchronous reset |
| Register file | `rtl/regfile32x32.sv` | `mem[31:0]` | two read ports with bypass, one clocked write port, no reset |
| Board | `rtl/simtop.sv`, `rtl/hex.sv` | none | wires switches, `KEY[3]` as reset, eight seven-segment digits |
| Support library | `support/support.cpp`, `support.h` | Verilated top, `cycleno`, VCD file | `delay_cycles`, `reset`, `read_io`, `write_io`, access to both memories behind the hardware's back |
| GUI | `support/gui.go` | window, table of registers | `--load-rom`, `OnKEY`, `OnSW`, `OnTick`, `OnReset`, "Load ROM" |
| ROM loaders | `LoadASCIIHex` of `gui.go`, the `fscanf` loop of `cli.cpp` | none | text to words; they accept different texts |
| Command-line front ends | `support/cli.cpp`, `tests/test_frontend.cpp` | none | load a ROM, reset, run, print the registers |
| bin2dec | `bin2dec.asm`, `program.rom` | registers x1 to x7 | switches to decimal on the displays |
| Disassembler | `support/riscv-disas.c` | none | instruction word to mnemonic and operands |
| Test harness | `tests/test_util.py`, `tests/assemble.sh`, `Makefile` | files in `tests/` | assemble, run, compare, tidy up |
| Tests | `tests/test_*.py`, `testbench/` | vectors | data for the above |
| Build | `Makefile`, `config.sh`, `scripts/` | generated headers | |

The front ends own the support library, which owns the Verilated `simtop`.
They write its input pins, which the hardware sees at the next `eval()`, and
they also write the CPU's two memories directly, which the hardware sees at
once. The CPU talks to nobody: it reads the switches and drives the display.

What is hard here:

- *Three instructions in flight.* The second operand read of an instruction
  happens while the result of the one before is being written; the bypass in
  the register file makes this invisible, and must do so for the right register
  in the right cycle, and not for x0.
- *Reset in the middle.* Reset is asynchronous for the pipeline and unknown to
  the register file, which goes on writing on the clock edges of the reset.
- *A latch.* `hexes` is assigned only under a condition in `always_comb`.
- *Two ways into the same state.* `reset()` zeroes registers and "Load ROM"
  replaces instructions under a running pipeline.
- *Order of inputs and edges.* `delay_cycles` evaluates the model three times a
  cycle so that the inputs have settled when the clock rises.
- *No halt.* The program counter wraps at 4096 words and the program runs again
  on the registers it left. bin2dec uses this as its main loop.
- *Two readers of one file format*, of which one refuses an error and the other
  stops at it and says nothing.
- *A window that is copied, not connected.* Digits and table show what the last
  refresh found, and not every callback refreshes everything.
- *A disassembler of tables*: bits of an immediate in eight pieces, 300 rows of
  formats and flags, alternatives that are tried in order.
- *Files that outlive a test*, and an assembler that does not report failure.

`PROJECT.json` lists these as hazards at their lines, with the properties that
would catch each.

## 2. The modules

| Module | Models | Notes |
|---|---|---|
| `Words` | SystemVerilog vectors | a vector is the set of its 1 bits, so that 32 and 64 bits need no integers |
| `WordsProofs` | | lemmas about the operators of `Words`: values, sums, differences, products |
| `Alu` | `alu.sv` | width and shift width are constants; 32 and 5 in the source |
| `Datapath` | `decode.sv`, `control.sv`, multiplexers of `cpu.sv` | functions of the instruction word |
| `SingleCycle` | nothing: it is the promise | one instruction at a time, for any instruction set (it is a parameter) |
| `Cpu` | `cpu.sv`, `regfile32x32.sv` | the pipeline; one action per edge |
| `Board` | `hex.sv`, `simtop.sv`, pin access of the support library | |
| `Simulator` | `support.cpp` and its callers | extends `Cpu`: one step per `eval()` |
| `SimulatorProofs` | | theorems about `Cpu`, and from them about `Simulator` |
| `RomFile` | `LoadASCIIHex`, the `fscanf` loop | a file is lines of tokens: runs of hex digits, blanks, `_`, `#`, anything else |
| `Gui` | `gui.go` | extends `Simulator`, `RomFile`: `main()`, the callbacks, the window and when it is refreshed |
| `GuiProofs` | | `Gui` implements `Simulator`; theorems about the table, the digits and the program |
| `FrontEnd` | `cli.cpp` (and `test_frontend.cpp`, the same) | extends `Simulator`, `RomFile`: `main()` from the file to the printed registers |
| `FrontEndProofs` | | theorems about what the command line prints, on top of `SimulatorProofs` |
| `TestSuite` | `tests/test_*.py` | every test: the text of its program and the registers it expects |
| `Bin2Dec` | the algorithm of `bin2dec.asm` | on integers, one step per digit |
| `Bin2DecProofs` | | theorems about the digits, for every input |
| `Bin2DecCpu` | `program.rom` | the program's words on `Cpu` |
| `Assembler` | RISC-V formats | writes the programs of the configurations |
| `Opcode` | `riscv-disas.c`, `decode_inst_opcode` | word to mnemonic, the 16-bit encodings too |
| `Disasm` | the rest of `riscv-disas.c` | operands, decompression, pseudo-instructions, the fields that are printed |
| `Reassembly` | assembly language and RISC-V formats | the reference `Disasm` is compared with: what a line of text stands for, and the 16-bit encodings that stand for it |
| `AluBench` | | steps `Alu` through its operations: the integer arithmetic each stands for, and the laws between them |
| `AluProofs` | | all of it as theorems |
| `InstrCheck` | | compares `Datapath` with what the disassembler calls a word, and the disassembler with `Reassembly` |
| `InstrProofs` | | theorems about the first of the two comparisons |
| `TestHarness`, `TestHarnessProofs` | `test_util.py`, `assemble.sh` | |

`MC*` modules only give constants their values.

### State and actions of Cpu

The variables carry the source's names; `pipeline` is everything the two
`always_ff` blocks with reset assign, `mem` is the register file's memory,
`hexes` the latch, `rst` and `io0` the inputs. Combinational signals
(`A_EX`, `R_EX`, `writedata_WB`) are operators. The actions are the events the
hardware is sensitive to:

- `Advance`: `posedge clk`, reset low. All three `always_ff` blocks fire.
- `ClockInReset`: `posedge clk`, reset high. The pipeline is reset again, the
  register file writes if `regwe_WB`.
- `AssertReset`: `posedge rst`, no clock.
- `DriveInputs`: the inputs change without a rising edge of reset.

Every action ends with `HexLatch`: after any event the latch shows `A_EX` if a
display write is in EX, and keeps its value if not. `hexwe_WB` is left out
since nothing reads it, `result` since nothing drives it. Values that the code
leaves uninitialised (`regdest_WB`, `mem`, `hexes`) are arbitrary in `Init`.

### Cpu against SingleCycle

`SingleCycle` has a program counter, the executing instruction, the registers
and the display: no pipeline register, bypass or write port. Its registers are
mapped to what the read ports of `Cpu` deliver (`seen`), and its `committed`
to the register memory. `committed` is there because a reset may hit an
instruction that has executed and not yet been written back; the pipeline
promises to lose that write whole and nothing else, and `SingleCycle.Reset`
says so. What instructions compute is a parameter of `SingleCycle` and given
by `Datapath`; whether that is right is the subject of `InstrCheck`.

### Simulator

`Eval(clk)` is one `eval()` of the Verilated model, with the inputs as last
written: it works out which edges there are from the previous values, like the
generated code. `SettleEval`, `RiseEval`, `FallEval` are the three of a cycle;
`OnTick`, `OnReset`, `LoadRom`, `OnKEY`, `OnSW` start the calls, each doing
first what its caller does before `delay_cycles`, and `Return` ends them. The
calls follow one another in any order. `OneEdgeAtATime` is the interface to
`Cpu`: every `eval()` that the library makes is one of the actions of `Cpu`.

Three history variables say what the program has computed: `age` counts the
clock cycles since the last reset, `executed` are the registers of
`SingleCycle` after so many instructions, `retired` those of one instruction
before. They follow the clock (`ExecuteOne` on a rising edge out of reset,
`Restart` otherwise), never the pipeline, so that comparing them with the
register memory says something.

### Gui

`main()` is `Initialized`, `LoadArgument` or `Panic`, `OpenWindow`. Then
`ClickKEY`, `ClickSW`, `Tick`, `ResetButton` and `OpenRom` make the calls of
`Simulator`, `EndTick`, `EndReset` and `EndLoad` are what the callbacks do after
them. de2gui is external: it calls `OnTick` for each tick of a burst with
`final` on the last, and numbers its digits from the left. `fresh` records
which of the digits and the table have been copied since the simulation last
moved; the properties say what is true of them then. `loaded`, a history variable
too, holds the words of the file last opened without an error.

### FrontEnd

`ReadWord` is one round of the `fscanf` loop, `StopReading` its end with the
filling of the memory and the reset, `Run` the call of `delay_cycles`,
`PrintRegisters` the end. A word more than the memory has is written beyond it:
`WriteOutOfBounds` ends the behaviour, since C++ says nothing of what follows.
The loader and the window share `RomFile`, so that what each makes of the same
text can be compared.

## 3. The runs

All runs check for deadlock unless the behaviour is a finite computation
(`Bin2Dec`, the comparisons, `frontend`, whose program ends, and `gui`, where
`main()` may panic and no call starts after `MaxCycles`).

| Run | Question | Bounds |
|---|---|---|
| `cpu` | Does the pipeline keep its types, reset safely and implement `SingleCycle`? | all 343 three-word programs over seven instructions (read switches, write display, dependent arithmetic, writes to x0, no operation), memory of three words so that programs wrap, two settings of the switches |
| `gui` | Whatever is clicked and loaded: are the registers the program's, do the digits and the table show them, is every instruction executed that of the file opened last? | memory of four words; six files: two that show all sixteen digits, one that shows the switches (and is longer than the memory), an empty one, two whose words come with a comment or an error; 20 cycles, resets of five as in the source |
| `frontend` | Do the tests pass, from text to registers? What does the command line load? Does it print what that program computes, and all of it? Does it end? | all 23 tests, all files of up to two lines of ten kinds, one file that is too long; memory of eight words; 3, 8 and 10 cycles |
| `alu_small` | Is every operation the integer operation? | 4-bit operands, all pairs |
| `alu_32` | Do the laws between operations hold at 32 bits? | boundary operands |
| `instr` | Does an instruction do what the disassembler calls it, and does what a probe prints identify it? | the opcodes of register, immediate and system instructions, atomics and OP-FP: every funct3 and funct7; the others: every funct3 and six values of inst[31:25]; chosen register fields and three pairs of operands; of all of them, the words with one or two bits set beside the opcode, so that each bit of an immediate is seen alone; all 49152 16-bit encodings |
| `bin2dec_full` | What does the algorithm show? | all 2^18 inputs |
| `bin2dec_cpu` | What does `program.rom` show on the pipeline, and does it come to show it? | the whole program in 61 words, three settings of the switches, resets and switch changes at any time |
| `harness` | Whose registers does a test compare? | three tests, any outcome of the assembler |
| `bin2dec_five_digits`, `x0_is_zero`, `harness_junk` | violations, see section 6 | |

Why the bounds are enough. The pipeline has three stages, so an instruction
interacts with two neighbours: three-word programs that wrap contain every
sequence of three of the chosen instructions, after themselves and after a
reset. A memory of three or four words instead of 4096 makes the wrap, which is
the only thing the size matters for, happen within the run. The 20 cycles of
`gui` are the two resets of `main()`, then one more reset or load among ticks,
or two in a row, in every order; that nothing new happens later is what the
theorems of section 4 say. The cycles of `frontend` are just enough for the
shortest and for the longest of the programs, and the most that a memory of
eight words takes before a second round shows; that the 1024 cycles of the tests
on 4096 words are enough is the theorem `PrintedIsFinal`. bin2dec needs its 59
words; the rest of the 4096 are zero words, which have no effect, and two of
them remain.

What the properties say beyond the type invariants:

- `ImplementsSingleCycle`, `ResetFlushes`, `ResetHoldsRegisters` (`Cpu`).
- `RegistersArePrefix`: between calls the register memory is exactly the
  program executed for all cycles since the last reset but two, with the
  switches that each cycle saw. This is what the end-to-end tests and the
  register tables rely on, and says that they are two instructions late.
- `ResetZeroes`: after `reset()` every register is 0 although a write back was
  pending when it zeroed them.
- `TableShowsResults`: the table of registers is that same state after the last
  tick of a burst. A reset or a ROM leaves it as it was: the reset button
  clears the digits and not the table.
- `ExecutesTheOpenedFile`: at every moment outside a reset, in the middle of a
  tick too, the instruction in EX is the word that the file opened last has for
  the cycles since the last reset, or zero where it has none. The memory is
  replaced under a running pipeline, so the reset after it has to flush what is
  left of the old program and bring the program counter back; and the words of a
  file before an error must never be run. Of a file longer than the memory, which
  the window takes without a word, only what fits is executed.
- `SuitePasses`: the tests of the repository pass on the model, through the
  loader, both resets, every `eval()`, the pipeline, decoder and ALU.
- `LoadsAsTheWindowDoes`: how far the two readers agree, on files that the
  window refuses as well: up to the first line that it refuses, or that has a
  comment or an underscore in it, the command line loads the same words. After
  that it may stop, without a message, but not keep words of another program.
- `PrintsItsProgram`: what the command line prints was computed by the words it
  read, in exactly the cycles it was given: the program of power-up, the clock
  cycles of the two resets and an off-by-one of `delay_cycles` would all show.
- `PrintsFinalResults`: with two cycles more than the program has words, and no
  second round of the memory, the printed registers are those that executing
  each word once, in turn, leaves.
- `MainEnds`: no text holds up the reading loop.
- `PanelShowsDisplay`: the digits read as the displayed word, also after "Load
  ROM", which clocks the CPU and refreshes nothing.
- `DisplaysWholeConversions`: bin2dec never shows a partial result, whenever it
  is reset or the switches move. `DisplayFollowsSwitches`: it ends up showing
  the switches once they are left alone.
- `TextDeterminesInstruction`: the text of a probe, read as assembly language,
  gives the mnemonic and every operand bit of the word back. The order and the
  constraints of the pseudo-instruction tables, the operands that their formats
  leave out and the scattered immediates all have to be right for that.
- `CompressedTextDeterminesInstruction`: the same of the 16-bit encodings, which
  the disassembler replaces by what they stand for; and what it calls illegal is
  reserved, or a hint, but for `c.andi` with 0.
- `AluMatchesArithmetic`, here at four bits and for 32 a theorem, and at 32
  `SubtractionInvertsAddition`,
  `ComparisonsAgree` (a comparison is the borrow of a subtraction; the signed and
  the unsigned one differ by the sign bits), `ShiftFillsWithTheSign` and
  `ProductLaws` (the high halves of the two products; shifts as products).
- `ExactUpTo14Bits`, `OnlyDecimalDigits`, `ErrorIsBounded`: what is right, and
  how wrong the rest is: never too small, and too large by less than one part
  in 8192.
- `ExecutesItsMnemonic`, `SystemIsCsrrwOnly`: the control unit decodes loosely;
  on words that the disassembler names, and the CPU implements, the effect is
  that of the name. One kind of word is an exception, and stated as one: what the
  disassembler calls a shift by an immediate of 32 or more is executed as `andi`.

**Fairness.** `DisplayFollowsSwitches` assumes weak fairness of fetching out of
reset (`FairSpec`): the clock runs. In the simulator it does as long as the user
lets it tick; on the board always. Nothing is assumed of the switches or of
reset; that they are eventually left alone is the property's premise.
`MainEnds` assumes weak fairness of the whole next-state relation (`CliSpec`):
the process runs on while it can. It is one sequential program, so no weaker
assumption would say anything.

## 4. The proofs

`tlapm` checks every step of the eight modules `*Proofs`. The only assumptions
are on the constants: `ConstantsAssumption` (the memory has at least one word;
programs, switches and power-up contents have their widths),
`SimulatorAssumption` (a reset has at least one cycle; the switches can be off),
`GuiAssumption` (the programs include those of the accepted files),
`FrontEndAssumption` (the cycles are a natural number; a test names one of the files),
`WidthAssumption` (an ALU as wide as its shift amount can count),
`OperandsAssumption` (operands are words), `InputsAssumption` (inputs of bin2dec
have 18 bits) and `HarnessAssumption` (no test is called like the absence of
one). `DottedNames` of `InstrCheck` is of another kind: a closed statement about
strings (no name such as `"fadd." \o "s"` is that of an implemented operation),
which the provers, for which concatenation of strings means nothing, cannot
evaluate. It has no constant in it, and TLC evaluates it in the run `instr`.

| Theorem | Statement |
|---|---|
| `TypeCorrect` | `Spec => []TypeOK` |
| `ResetFlushesThePipeline` | `Spec => []ResetFlushes` |
| `ResetNeverWritesRegisters` | `Spec => ResetHoldsRegisters` |
| `Refinement` | `Spec => ImplementsSingleCycle` |
| `SimTypeCorrect` | `SimSpec => []SimTypeOK` |
| `RegistersAreRetired` | `SimSpec => []RegistersArePrefix` |
| `ResetIsComplete` | `SimSpec => []ResetZeroes` |
| `EvalsAreEdges` | `SimSpec => OneEdgeAtATime` |
| `GuiImplementsSimulator` | `GuiSpec => SimSpec` |
| `TableIsTrue` | `GuiSpec => []TableShowsResults` |
| `ExecutesWhatWasOpened` | `GuiSpec => []ExecutesTheOpenedFile` |
| `PanelIsTrue` | `GuiSpec => []PanelShowsDisplay` |
| `CliRegistersAreRetired` | `CliSpec => []RegistersArePrefix` |
| `PrintedIsComputed` | `CliSpec => []PrintsItsProgram` |
| `PrintedIsFinal` | `CliSpec => [](` printed after `romaddr + 2` to `ROMWORDS + 1` cycles `=>` all that was `executed` is printed `)` |
| `SubtractionInverts` | `Spec => []SubtractionInvertsAddition` |
| `ComparisonsAreBorrows` | `Spec => []ComparisonsAgree` |
| `ShiftsFill` | `SHAMTBITS <= 5` gives `Spec => []ShiftFillsWithTheSign` |
| `Computes` | `SHAMTBITS = 5` gives `Spec => []AluMatchesArithmetic` |
| `ProductsAgree` | `SHAMTBITS = 5` gives `Spec => []ProductLaws` |
| `EveryInstruction` | `Spec => []ExecutesItsMnemonic` |
| `SystemIsOnlyCsrrw` | `Spec => []SystemIsCsrrwOnly` |
| `Conversion` | `Spec => []Inv` of `Bin2DecProofs` |
| `OnlyDigits` | `Spec => []OnlyDecimalDigits` |
| `ExactBelow` | `Spec => []ExactUpTo14Bits` |
| `BoundedError` | `Spec => []ErrorIsBounded` |
| `VerdictsAreAboutTheirProgram` | `Spec => []VerdictIsAboutProgram` |

These hold for the 4096 words of the source, every program, every file and every
setting of the switches, and for runs of any length, where TLC looks at four
words, six files and 20 cycles; those about data hold for every word, where TLC
looks at boundary operands and chosen fields. (`MaxCycles` remains a constant of the model,
but any natural number will do.)

*Types.* Lemmas give the width of each combinational operator (`SliceType`,
`FieldTypes`, `BType`, `AluType`, `WritedataType`); the invariant is inductive.

*Reset.* `ResetFlushes` is inductive by itself: the step that raises `rst`
clears the pipeline, and the clock edges in reset keep it clear. With it, the
register file is never told to write in reset.

*Refinement.* The invariant `IInv` is `TypeOK`, `ResetFlushes` and
`DisplayShowsOperand`: a display write in EX is already shown. The last part is
what makes a change of the inputs a step that does not touch the display. The
two facts at the centre are `WriteBackCommits` (what the memory holds after an
edge is what the read ports delivered before it, which is the correctness of
the bypass) and `AdvanceExecutes` (what the ports deliver after an edge is one
instruction executed on what they delivered before it). `ClockInReset` maps to
a stuttering step, for which the zero word must not be a display write
(`BubbleShowsNothing`). The ALU and the decoder stay folded throughout: the
proof does not depend on what instructions compute.

*Simulator.* `SimIInv` adds to the types and `ResetFlushes` what a caller of the
library never sees: `delay_cycles` leaves the clock low, and from its first
`eval()` on the CPU has seen the inputs (`Driven`); `reset()` holds `KEY[3]`
over a zeroed memory, and after one `eval()` the CPU is in reset, so that the
pending write back is gone before the first clock edge could write it
(`InReset`); the register memory (`committed`) is `retired`; and the pipeline is
where the program is (`Synchronized`): `age` instructions fetched, the last of
them in EX, the registers as its read ports deliver them equal to `executed`.
`Synchronized` fails from the beginning of a reset to its first clock edge,
when the pipeline still holds what the history has forgotten, and only then.
`LowEval` and `RisingEval` say which edges an `eval()` has, `RiseExecutes` is
`AdvanceExecutes` of the pipeline read on the history. There is one lemma for
each of the steps of a call and one for the callers.

*Gui.* Each step of the window is a step of `Simulator` or leaves it alone
(`WindowSteps`), for which the clicked switches must pass `write_io` unchanged
(`ClickedKeeps`). `SimIInv` then holds for the window, and `GuiIInv` adds that a
call in progress has a caller and that before the window opens only `main()`
has called: with these, nobody but `EndTick` and `OpenWindow` ends a call with a
fresh table. For `ExecutesTheOpenedFile`, `Loaded` says that the memory is that
of the words opened last. That fetching is in step with `age` is part of
`Synchronized`, which says nothing of a call that has begun with `KEY[3]` held
and not yet seen an `eval()`; for a tick `TicksInStep` fills this gap (it starts
from a state in which everything is in step, and only writes inputs), a reset is
excluded by the property, and once `rst` is up `ResetFlushes` takes over. For the
digits, `DigitsKept` says that they
are those of the latch unless a call is under way that will set them again.
Loading a ROM clocks the CPU and never sets them, so the proof has to show that
the latch stays closed throughout a reset (`ResetKeepsDisplay`). `PatternReads`
goes through the sixteen patterns of `hex.sv` one by one.

*Command line.* `main()` of `cli.cpp` is not a client of `Simulator`: it writes
the instruction memory word by word, while nothing runs, and calls
`delay_cycles` for as long as it is told. So `SimIInv` carries only the types
that the machine needs (`MachineTypeOK`: any number of cycles, any caller), and
`SimTypeOK`, with the callers and the bound of `SimSpec`, is proved apart from it.
`WritingPreserves` is why the writing is safe: with `age` 0 nothing has been
fetched, and the zero word in EX does not come from the memory. `MainIsAt` says
that this holds all the time before `delay_cycles`, since both resets keep `age`
at 0 and give `KEY[3]` back, and that in `delay_cycles` the cycles done and the
cycles to go are those of the command line; a cycle counts from its rising edge
(`CyclesLeft`), not from the end of the round that takes it off. `Erased` is
what the filling leaves behind. From it comes `Settled`: after the words of the
program, zeroes are executed, which write nothing (`BubbleWritesNothing`), so
that one cycle later the last two instructions are the same to the registers.

*Harness.* The verdict is traced back through the exit status to what the
assembler did to the file (`OutcomeTellsRom`), and to the program it was given
(`AssemblesOwnProgram`).

*Words.* `Num` is a fold over a set, which takes the elements in an order that
`CHOOSE` fixes. The induction theorems of the library cannot be used (they take
an operator as a parameter), so the argument is that of the smallest
counterexample: the subsets of a finite set are well founded under inclusion,
and a smallest set for which the fold is not the recursion, or not the sum in
another order, leads to a smaller one (`NumUnfolds`, `NumAdds`). From these come
the values of fields of one to seven bits. In the same way `BitInduction` is
induction over the bits of a word, for a set of good bits instead of a
predicate: a property of bit 0 that goes from each bit to the next is one of all
bits. With `CarryIn` and `CarryOut`, which turn the carries of `Words`, defined
by what generates and stops them, into a full adder, three identities of two's
complement follow for every width: `AddInvertsSub`, `SubIsAdd`, `SubNegates`.
`LowHalf` compares the column sums of two products and shows that the low half
of a 64-bit product does not depend on the extension of the operands, which is
why `mul` may take the low half of the signed product.

The rest of `WordsProofs` is the values of words of up to 32 bits. `Low(v, n)`
is the value of the n low bits of v; `LowNext` adds a bit to it, `LowSplits`
takes it apart, and `Wraps` says which word an integer wraps to. `SumValueOf`
runs a full adder over the bits, which gives the values of sums, complements
and differences, borrow included (`NumOfAdd`, `NumOfNot`, `NumOfSub`); a shift
divides or multiplies by a power of two (`NumOfShiftRight`, `NumOfShiftLeft`).
For products, `DigitIsByte` shows that a digit of `Mul` is a byte of its operand
and `ColumnProducts` writes the eight columns out. `ProductHalves` resolves the
carries from column to column, so that the two halves of the 64-bit word are
the sums of the columns less a multiple of 2^32, and `UnsignedProduct` collects
the sixteen products of bytes into one. `SignedProduct` compares the columns
with those of the extended operands, whose upper bytes are 255 or 0: the low
half is the same, and the high half loses the other operand once for each
operand that is negative. The prover has no law of 2^n for a variable n, so the
powers are a list up to 2^32 (`PowersOfTwo`): these lemmas end at the width of
the source.

*ALU.* `BorrowsBelow` says what a carry of a subtraction means: there is none
into bit i exactly if, of the lower bits, the highest that differs is a 1 of the
second operand. That makes the comparison of `Words` the borrow of `Sub`;
`Trichotomy` takes the highest bit that differs. The arithmetic shift is a fold
of stages: `StageOfShift` shows that one stage on a shifted word is a shift by
the sum, and a smallest set of stages that is a counterexample does not exist
(`ShiftedIsSigned`). The prover has no law of 2^n for a variable n, so the
amounts are taken from a list: hence the condition `SHAMTBITS <= 5`, which is
the width of the source and every smaller one.

`Computes` is about `SHAMTBITS = 5`, which the assumption of `Alu` makes a width
of 32, and there about every pair of words: TLC compares `R` with integers at 4
bits, since the products of 32 bits do not fit its integers. There is one lemma
for each group of operations (`BitwiseOps`, `SumOps`, `ProductOps`, `ShiftOps`,
`CompareOps`), all of one form: the result is a word, it differs from the
integer by a multiple of 2^32, and so it is what the integer wraps to
(`WordOfInteger`). For the arithmetic shift of a negative number that is
floor(-1-x / 2^n) = -1 - floor(x / 2^n), for `mulhs` that the floor of the signed
product divided by 2^32 is `SignedProduct` read modulo 2^32. `ProductsAgree`
follows without another look at the bits: both sides of each law are words, and
the same integer wraps to both. For the shift right by s that takes
`AmountBack`, that the five low bits of 0 - B are 32 - s.

*Instructions.* `EveryInstruction` is about every word. The proof follows the
disassembler first: `ImplementedHere` shows that the name of an implemented
operation comes from three entries of its table of opcodes and from nowhere else
in `riscv-disas.c`, not from the floating-point, atomic or 16-bit encodings. For
these three, the name fixes funct3 and funct7 (`ROperations`, `IOperations`),
the rows of `control.sv` that match them are disjoint (`RowsAreDisjoint`), and
so the control lines are those of one row (`RControl`, `IControl`). `AluMeans`
says for each row that the ALU computes the meaning of the name, with the lemmas
above for subtraction, arithmetic shift and product; `SameImmediate`,
`SameAmount` and `SameUpperImmediate`, that CPU and disassembler see the same
immediate. A shift by an immediate of 32 or more matches no row, whichever of
the three names it has, and takes the defaults (`WideShiftControl`). For that the
arms of each `CASE` in the reference must not overlap,
which TLC, taking the first that holds, does not notice: `SecondOperand` keeps
the immediate shifts apart from the other immediate operations.

*bin2dec.* One division step is exact arithmetic: `10*q + d = n + n div 2^14`
for the fixed-point quotient q and the digit d that the program makes of n
(`Division`). Of n below 2^14 that is the decimal division. `Inv` says where the
program is: before block b the rest is that of b divisions and the first b
digits are in place. `Accounts` sums the steps, each error weighed by the power
of ten of its digit, and bounds the sum by one part in 8192 of the input.

Only model-checked, and why:

- liveness (`DisplayFollowsSwitches`, `MainEnds`): the prover does not handle
  fairness and `ENABLED`;
- `TextDeterminesInstruction`, `CompressedTextDeterminesInstruction`: they go
  through searches of 300 rows of tables, formats and what is read back from
  them; the run takes every function field, and all of the 16-bit encodings;
- `DisplaysWholeConversions`: 59 words of a program, each of which would have to
  be decoded and executed by the prover. `Inv` and `EveryInstruction` are about
  its two halves, the algorithm and single instructions;
- `SuitePasses`, `PrintsFinalResults`, `LoadsAsTheWindowDoes`: computations on
  particular programs, and folds over the words of a program and the lines of a
  file. What becomes of the words once they are in the memory is
  `PrintedIsComputed`, and that none of their results is missing `PrintedIsFinal`.

## 5. What is abstracted or left out

- Words are sets of bits; nothing else of the datapath is abstracted.
- Verilator's two-state power-up: every register 0 in `SimInit`, and the first
  `eval()` may or may not take the initial `KEY[3]` for a rising edge. `Cpu`
  itself starts from arbitrary memories.
- `Cpu` starts in reset: what the hardware does before its first reset depends
  on uninitialised registers and is not modelled.
- `Spec` of `Cpu` has no step in which a clock edge and a change of inputs
  coincide; `OneEdgeAtATime` shows that the simulator makes none. A switch that
  moves exactly on a clock edge of a real board is outside.
- `$readmemh` loads words 0 to 1023 of `program.rom`; the rest stay unset until
  a front end writes all 4096. The model starts from any program.
- LEDs, which nothing drives; probes, whose list is empty; the VCD trace;
  `delay_us`, `delay_ms`, which nothing calls.

### Not modelled

- Callbacks of the GUI that overlap. Whether de2gui calls them from one
  goroutine is not in the repository; two threads in `eval()` would be a data
  race in generated code that is not there either. The model takes them one
  after another, and every theorem about the window depends on it.
- Files that cannot be opened: the dialogs that say so, and `cli.cpp`, which
  would hand a null pointer to `fscanf`. Text that only `fscanf` takes for a
  number: a sign, a `0x`, more than 16 digits.
- What a file of more words than the memory does to the command line: a write
  out of bounds.
- Of the disassembler: the names of registers and CSRs, the layout of the text,
  and the expansion of 16-bit encodings for rv64 and rv128, which nothing asks
  for.
- `tests/_test_randomized.py`, which `make test` does not run: its choice of
  programs is replaced by the run `instr`, its lists of operations are used there.
- The testbenches and their vectors, which are stimulus for what is modelled and
  have no state of the system; the build scripts, which produce text.

## 6. Disagreements between code and text

- `bin2dec.asm` says that inputs of up to five digits work. Those of up to 14
  bits do; 16384 is shown as 16385 (run `bin2dec_five_digits`).
- `tests/_test_randomized.py` calls register 0 constant. Instructions read 0,
  but its element of the memory is written and shown (run `x0_is_zero`).
- `tests/test_util.py` says that it removes what the last test left. It names
  the wrong file, and the words of the last test stay (run `harness_junk`).
- Seen while modelling, without a run of their own:
  - `support.cpp` says that `reset` runs three cycles, and it runs five.
  - The comment on the word of zeros in `cpu.sv` calls it an ADDI, which it is
    not, though it has no effect either.
  - The Makefile's rule for `tests/test_frontend` links `cli.o`, not
    `test_frontend.cpp`, which does the same.
  - The disassembler prints `ret` for any `jalr x0, offset(ra)` and so hides the
    offset (`rvcc_ret` does not ask for 0, as `rvcc_jr` and `rvcc_jalr` do), a
    greeting for `lui x6, 49`, `inv` for two rounding modes, and "illegal" for
    `c.andi` with 0, a valid instruction (line 570 asks for a nonzero immediate).
    The two text properties name these as their exceptions.
  - The disassembler prints a shift by an immediate of 32 or more for words whose
    inst[26:25] is not zero (`riscv-disas.c:1038-1050` look at inst[31:27] only),
    for instance `slli x1, x2, 33` for 0x02111093. RV32 has no such instruction.
    The control unit compares all seven bits, finds no row and executes AND with
    the immediate (`control.sv:57-60` and the default of `aluop`), writing rd.
    `ExecutesItsMnemonic` names this as its exception.
  - The window drops the words of a file beyond the 4096 of the memory without a
    message (`gui.go:99-108`), where the command line writes them out of bounds.
  - The command line takes a file up to its first comment, underscore or error
    and runs the rest as zeroes, where the window skips the first two and refuses
    the third. `LoadsAsTheWindowDoes` says so exactly.
  - Two tests of `test_add.py` expect 1 in x1: the second can pass on the words
    that the first one left (`RunFrontend` in `TestHarness`).
  - `test_instr_R` of `tests/_test_randomized.py` loads its two operands in runs
    of their own, each of which starts from zeroed registers, and
    `get_expected_value` compares prefixes with longer names, so that its
    branches for `slt`, `sltu` and the multiplications are never taken.
