------------------------------ MODULE FrontEnd ------------------------------
(***************************************************************************)
(* main() of support/cli.cpp, which tests/test_frontend.cpp repeats: start *)
(* the simulation, overwrite the instruction memory with the words of a    *)
(* file, reset, run for a number of cycles and print the registers.        *)
(*                                                                         *)
(* A word that is read beyond the end of the instruction memory is written *)
(* somewhere else in the simulation: nothing is said of what follows.      *)
(***************************************************************************)
EXTENDS Simulator, RomFile

CONSTANTS
  Files,            \* the files argv[1] may name
  NCYCLES,          \* the numbers argv[2] may be
  Suite             \* the calls of run_test: each a file, and the registers
                    \* that are expected after it

ASSUME FrontEndAssumption ==
  /\ NCYCLES \subseteq Nat
  /\ \A k \in DOMAIN Suite : Suite[k].file \in Files

VARIABLES
  argv,             \* the file and the number of cycles
  rest,             \* what romfd has yet to offer
  romaddr,          \* the words read so far
  stage,            \* where main() is
  regval            \* the registers as printed

progress == <<rest, romaddr, stage, regval>>
clivars  == <<simvars, argv, progress>>

-----------------------------------------------------------------------------

CliInit ==
  /\ SimInit
  /\ argv \in [file : Files, cycles : NCYCLES]
  /\ rest = Characters(argv.file)
  /\ romaddr = 0
  /\ stage = "initialize"
  /\ regval = Zeroed

Simulate ==
  /\ SettleEval \/ RiseEval \/ FallEval
  /\ UNCHANGED <<argv, progress>>

(* initialize_simulation returns.                                          *)
Initialized ==
  /\ stage = "initialize"
  /\ Return
  /\ stage' = "read"
  /\ UNCHANGED <<argv, rest, romaddr, regval>>

ReadWord ==
  /\ stage = "read"
  /\ Converts(rest)
  /\ romaddr < ROMWORDS
  /\ instruction_mem' = [instruction_mem EXCEPT ![romaddr] = Converted(rest)]
  /\ romaddr' = romaddr + 1
  /\ rest' = Unread(rest)
  /\ UNCHANGED <<pipeline, mem, hexes, inputs, top, cycleno, call, history>>
  /\ UNCHANGED <<argv, stage, regval>>

WriteOutOfBounds ==
  /\ stage = "read"
  /\ Converts(rest)
  /\ romaddr = ROMWORDS
  /\ stage' = "undefined"
  /\ UNCHANGED <<simvars, argv, rest, romaddr, regval>>

(* Mutant: only the end of the file ends the reading.                      *)
NothingConvertsAtEnd == SkipSpace(rest) = << >>

NothingConverts == ~Converts(rest)

(* Mutant: the words that the file does not give are left as they were.    *)
FilledNot == instruction_mem

(* Zeroes from romaddr on.                                                 *)
Filled ==
  [a \in DOMAIN instruction_mem |-> IF a < romaddr THEN instruction_mem[a] ELSE {}]

(* The end of the file, or text that is not a number, ends the reading.    *)
(* The rest of the memory is filled, and reset() called.                   *)
StopReading ==
  /\ stage = "read"
  /\ NothingConverts
  /\ instruction_mem' = Filled
  /\ BeginReset("main")
  /\ stage' = "reset"
  /\ UNCHANGED <<pipeline, hexes, inputs, SW, CLOCK_50, cycleno>>
  /\ UNCHANGED <<argv, rest, romaddr, regval>>

ResetReturns ==
  /\ stage = "reset"
  /\ Return
  /\ stage' = "run"
  /\ UNCHANGED <<argv, rest, romaddr, regval>>

(* Mutant: a loop that counts from one.                                    *)
RunOneShort ==
  /\ stage = "run"
  /\ call' = Delay("main runs", IF argv.cycles = 0 THEN 0 ELSE argv.cycles - 1)
  /\ stage' = "running"
  /\ UNCHANGED <<vars, top, cycleno, history>>
  /\ UNCHANGED <<argv, rest, romaddr, regval>>

(* delay_cycles(s, atoi(argv[2])), with the switches as they are.          *)
Run ==
  /\ stage = "run"
  /\ call' = Delay("main runs", argv.cycles)
  /\ stage' = "running"
  /\ UNCHANGED <<vars, top, cycleno, history>>
  /\ UNCHANGED <<argv, rest, romaddr, regval>>

PrintRegisters ==
  /\ stage = "running"
  /\ Return
  /\ regval' = mem
  /\ stage' = "printed"
  /\ UNCHANGED <<argv, rest, romaddr>>

CliNext ==
  \/ Simulate
  \/ Initialized
  \/ ReadWord \/ WriteOutOfBounds \/ StopReading
  \/ ResetReturns
  \/ Run
  \/ PrintRegisters

CliSpec == CliInit /\ [][CliNext]_clivars /\ WF_clivars(CliNext)

-----------------------------------------------------------------------------

(* run_test compares the registers that the test names.                    *)
Passes(test) == \A r \in DOMAIN test.expect : regval[r] = test.expect[r]

(* The cycles suffice for a program of so many words, and do not bring the *)
(* results of a second round of it.                                        *)
OneRound(file) ==
  argv.cycles \in Len(LoadASCIIHex(file)) + 2 .. ROMWORDS + 2

(***************************************************************************)
(* Every test of tests/test_*.py passes: from the text of its program's    *)
(* words to the registers printed, through the loader, the two resets, the *)
(* three eval()s of each cycle, the pipeline, the decoder and the ALU.     *)
(***************************************************************************)
SuitePasses ==
  stage = "printed" =>
    \A k \in DOMAIN Suite :
      argv.file = Suite[k].file /\ OneRound(argv.file) => Passes(Suite[k])

Has(file, kind) ==
  \E k \in DOMAIN file : \E i \in DOMAIN file[k] : file[k][i].kind = kind

IsPlain(file) == ~Has(file, "underscore") /\ ~Has(file, "comment")

(* The words have been read, and the memory begins with them.              *)
Begins(words) ==
  /\ Len(words) <= romaddr
  /\ \A k \in DOMAIN words : instruction_mem[k - 1] = words[k]

(***************************************************************************)
(* The command line loads of any file, one that the graphical front end    *)
(* refuses included, at least what the window would load of the lines      *)
(* before the first that it refuses or for which it needs an extension of  *)
(* LoadASCIIHex.  Of a file that the window accepts it may silently load   *)
(* the beginning only, and with an underscore a wrong last word, but no    *)
(* word too many and none in the wrong place; and of no file does it keep  *)
(* a word of an earlier program.                                           *)
(***************************************************************************)
LoadsAsTheWindowDoes ==
  stage \in {"reset", "run", "running", "printed"} =>
    LET words == LoadASCIIHex(argv.file)
        known == IF Has(argv.file, "underscore") THEN romaddr - 1 ELSE romaddr
    IN  /\ \A k \in 0 .. Len(argv.file) :
             LET part == SubSeq(argv.file, 1, k)
             IN  Accepts(part) /\ IsPlain(part) => Begins(LoadASCIIHex(part))
        /\ Accepts(argv.file) => romaddr <= Len(words) /\ Begins(SubSeq(words, 1, known))
        /\ \A a \in romaddr .. ROMWORDS - 1 : instruction_mem[a] = {}

(***************************************************************************)
(* The registers that are printed are those of the program in the file,    *)
(* executed one instruction at a time from zeroes for exactly the cycles   *)
(* of the command line, whatever the power-up program did, and however     *)
(* many cycles the resets took: no word beyond the file's, and no cycle    *)
(* outside delay_cycles, had a part in them.                               *)
(***************************************************************************)
PrintsItsProgram ==
  stage = "printed" =>
    /\ age = argv.cycles
    /\ \A r \in Regs \ {x0} : regval[r] = retired[r]
    /\ \A a \in romaddr .. ROMWORDS - 1 : instruction_mem[a] = {}

(* What each word that was read, executed once and in turn, leaves.        *)
Results ==
  FoldLeft(LAMBDA regs, addr : SC!Execute(instruction_mem[addr], regs, SW), Zeroed,
           [k \in 1 .. romaddr |-> k - 1])

(***************************************************************************)
(* If the cycles of the command line are two more than the words of the    *)
(* program, or more, the registers printed are its final results: the last *)
(* of them has been written back, and until the memory has been run        *)
(* through, no instruction is executed again.  This is what the 1024       *)
(* cycles of the tests rely on.                                            *)
(***************************************************************************)
PrintsFinalResults ==
  stage = "printed" /\ argv.cycles \in romaddr + 2 .. ROMWORDS + 2 =>
    \A r \in Regs \ {x0} : regval[r] = Results[r]

(***************************************************************************)
(* main() comes to its end whatever is in the file: text that is not a     *)
(* number does not hold up the reading.                                    *)
(***************************************************************************)
MainEnds == <>(stage \in {"printed", "undefined"})

=============================================================================
