---------------------------- MODULE TestHarness ----------------------------
(***************************************************************************)
(* tests/test_util.py with tests/assemble.sh: run_test assembles a program,*)
(* runs it on the simulator and compares the registers it leaves.  The     *)
(* test scripts of `make test' call it again and again, in one directory,  *)
(* and each call leaves files there for the next one to find.              *)
(*                                                                         *)
(* The assembler is external.  It may write the program's words; it may    *)
(* print a message with the word "error", to which assemble.sh exits with  *)
(* status 1; or it may end without either, to which assemble.sh, a         *)
(* pipeline into grep, exits with status 0.                                *)
(***************************************************************************)
CONSTANTS
  Tests,            \* the calls of run_test, by their program
  none              \* no file

ASSUME HarnessAssumption == none \notin Tests

VARIABLES
  program,          \* the program of the current call
  temp_prog,        \* tests/.temp_prog.asm: the program in it
  temp_rom,         \* tests/.temp_rom.dat: the program whose words are in it
  outcome,          \* what the assembler did in the current call
  stage,            \* what run_test does next
  verdict           \* what the last call that ended made known

vars == <<program, temp_prog, temp_rom, outcome, stage, verdict>>

Init ==
  /\ program = none
  /\ temp_prog = none
  /\ temp_rom \in Tests \cup {none}     \* the repository ships such a file
  /\ outcome = "assembled"
  /\ stage = "idle"
  /\ verdict = "none"

(* rm -f ./temp_rom.dat ./.temp_prog.asm: the former names no file.        *)
RunTest(p) ==
  /\ stage = "idle"
  /\ program' = p
  /\ temp_prog' = none
  /\ stage' = "write"
  /\ UNCHANGED <<temp_rom, outcome, verdict>>

WriteProgram ==
  /\ stage = "write"
  /\ temp_prog' = program
  /\ stage' = "assemble"
  /\ UNCHANGED <<program, temp_rom, outcome, verdict>>

(* The three outcomes of assemble.sh.                                      *)
Assembled ==
  /\ temp_rom' = temp_prog
  /\ outcome' = "assembled"

ReportedError ==
  /\ outcome' = "error"
  /\ UNCHANGED temp_rom

FailedSilently ==
  /\ outcome' = "silent"
  /\ UNCHANGED temp_rom

Assemble ==
  /\ stage = "assemble"
  /\ Assembled \/ ReportedError \/ FailedSilently
  /\ stage' = "check"
  /\ UNCHANGED <<program, temp_prog, verdict>>

(* The exit status of assemble.sh.                                         *)
returncode == IF outcome = "error" THEN 1 ELSE 0

(* Mutant: the exit status is not looked at.                               *)
AssemblyFailedUnchecked == temp_rom = none

AssemblyFailed == returncode # 0 \/ temp_rom = none

(* exit(1), leaving the files: the next script starts with them.           *)
GiveUp ==
  /\ stage = "check"
  /\ AssemblyFailed
  /\ verdict' = "not assembled"
  /\ stage' = "idle"
  /\ UNCHANGED <<program, temp_prog, temp_rom, outcome>>

(* The front end runs the words it finds.  A test passes on its own words; *)
(* on those of another it may pass too: some expect the same value of the  *)
(* same register (test_add.py, lines 22-34).                           *)
RunFrontend ==
  /\ stage = "check"
  /\ ~AssemblyFailed
  /\ verdict' \in IF temp_rom = program THEN {"passed"} ELSE {"passed", "failed"}
  /\ stage' = "tidy"
  /\ UNCHANGED <<program, temp_prog, temp_rom, outcome>>

(* The front end cannot be run at all: exit(1) again.                      *)
FrontendFailed ==
  /\ stage = "check"
  /\ ~AssemblyFailed
  /\ verdict' = "not run"
  /\ stage' = "idle"
  /\ UNCHANGED <<program, temp_prog, temp_rom, outcome>>

(* The same rm again.                                                      *)
TidyUp ==
  /\ stage = "tidy"
  /\ temp_prog' = none
  /\ stage' = "idle"
  /\ UNCHANGED <<program, temp_rom, outcome, verdict>>

Next ==
  \/ \E p \in Tests : RunTest(p)
  \/ WriteProgram
  \/ Assemble
  \/ GiveUp
  \/ RunFrontend
  \/ FrontendFailed
  \/ TidyUp

Spec == Init /\ [][Next]_vars

-----------------------------------------------------------------------------

(***************************************************************************)
(* The registers that a call compares are those of its own program, and    *)
(* never of one that an earlier call left behind, unless the assembler     *)
(* failed in this very call without saying so.                             *)
(***************************************************************************)
VerdictIsAboutProgram ==
  stage = "tidy" => temp_rom = program \/ outcome = "silent"

(***************************************************************************)
(* test_util.py: "make sure there is no junk left over" from the last test.*)
(***************************************************************************)
NoJunkLeftOver ==
  stage = "assemble" => temp_rom = none

=============================================================================
