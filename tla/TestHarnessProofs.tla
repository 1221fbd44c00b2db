------------------------- MODULE TestHarnessProofs -------------------------
(* What a verdict of TestHarness.tla is about, for every set of tests.     *)
EXTENDS TestHarness, TLAPS

(***************************************************************************)
(* VerdictIsAboutProgram is not inductive: that the words the front end    *)
(* runs are those of the current call goes back to the file the assembler  *)
(* was given, and through its exit status to how it ended.                 *)
(***************************************************************************)
AssemblesOwnProgram == stage = "assemble" => temp_prog = program

OutcomeTellsRom ==
  stage = "check" => /\ outcome \in {"assembled", "error", "silent"}
                     /\ outcome = "assembled" => temp_rom = program

IInv == AssemblesOwnProgram /\ OutcomeTellsRom /\ VerdictIsAboutProgram

LEMMA InitIInv == Init => IInv
  BY DEF Init, IInv, AssemblesOwnProgram, OutcomeTellsRom, VerdictIsAboutProgram

LEMMA NextIInv == IInv /\ [Next]_vars => IInv'
  <1> SUFFICES ASSUME IInv, [Next]_vars PROVE IInv'
    OBVIOUS
  <1> USE DEF IInv, AssemblesOwnProgram, OutcomeTellsRom, VerdictIsAboutProgram
  <1>1. ASSUME NEW p \in Tests, RunTest(p) PROVE IInv'
    BY <1>1 DEF RunTest
  <1>2. CASE WriteProgram
    BY <1>2 DEF WriteProgram
  <1>3. CASE Assemble
    <2>1. /\ temp_prog = program /\ program' = program
          /\ stage' = "check"
      BY <1>3 DEF Assemble
    <2>2. \/ outcome' = "assembled" /\ temp_rom' = temp_prog
          \/ outcome' \in {"error", "silent"}
      BY <1>3 DEF Assemble, Assembled, ReportedError, FailedSilently
    <2> QED
      BY <2>1, <2>2
  <1>4. CASE GiveUp
    BY <1>4 DEF GiveUp
  <1>5. CASE RunFrontend
    <2>1. outcome # "error"
      BY <1>5 DEF RunFrontend, AssemblyFailed, returncode
    <2> QED
      BY <1>5, <2>1 DEF RunFrontend
  <1>6. CASE FrontendFailed
    BY <1>6 DEF FrontendFailed
  <1>7. CASE TidyUp
    BY <1>7 DEF TidyUp
  <1>8. CASE UNCHANGED vars
    BY <1>8 DEF vars
  <1> QED
    BY <1>1, <1>2, <1>3, <1>4, <1>5, <1>6, <1>7, <1>8 DEF Next

(***************************************************************************)
(* Whatever the earlier calls of run_test left in the directory, a call    *)
(* compares the registers of its own program, unless the assembler failed  *)
(* in that call without reporting it.                                      *)
(***************************************************************************)
THEOREM VerdictsAreAboutTheirProgram == Spec => []VerdictIsAboutProgram
  <1>1. IInv => VerdictIsAboutProgram
    BY DEF IInv
  <1> QED
    BY <1>1, InitIInv, NextIInv, PTL DEF Spec

=============================================================================
