----------------------------- MODULE TestSuite -----------------------------
(***************************************************************************)
(* The calls of run_test in tests/test_*.py: the text of the words that    *)
(* the assembler dumps for the program, one of eight digits on each line,  *)
(* and the values expected of some registers.                              *)
(***************************************************************************)
EXTENDS Assembler, RomFile

Dumped(words) == [k \in DOMAIN words |-> << Hex(8, words[k]) >>]

run_test(program, expectregs) == [file |-> Dumped(program), expect |-> expectregs]

W(n) == Lit(30, n)

TestAdd ==
  << run_test(<< Addi(x(1), x0, 1268), Addi(x(2), x0, 1516), Add3(x(1), x(1), x(2)),
                 Addi(x(2), x(1), 10) >>,
              x(1) :> W(2784) @@ x(2) :> W(2794)),
     run_test(<< Addi(x(1), x0, -400), Addi(x(2), x0, 399), Add3(x(1), x(1), x(2)) >>,
              x(1) :> Ones(32)),
     run_test(<< Addi(x(1), x0, -400), Addi(x(2), x0, 399), Add3(x(1), x(1), x(2)),
                 Addi(x(1), x(1), 2) >>,
              x(1) :> One),
     run_test(<< Addi(x(1), x0, -400), Addi(x(2), x0, 401), Add3(x(1), x(1), x(2)) >>,
              x(1) :> One),
     run_test(<< Addi(x(1), x0, 2047), Addi(x(2), x0, 2047), Add3(x(1), x(1), x(2)) >>,
              x(1) :> W(4094)),
     run_test(<< Addi(x(1), x0, 2047), Addi(x(2), x0, 2047), Add3(x(1), x(1), x(2)),
                 Addi(x(1), x(1), -500) >>,
              x(1) :> W(3594)),
     run_test(<< Addi(x(1), x0, -2047), Addi(x(2), x0, -2047), Add3(x(1), x(1), x(2)) >>,
              x(1) :> Word32(65535, 61442)) >>

TestAnd ==
  << run_test(<< Addi(x(1), x0, 871), Addi(x(2), x0, 290), And3(x(3), x(1), x(2)),
                 Andi(x(4), x(3), 0), Andi(x(5), x(1), 273) >>,
              x(3) :> W(290) @@ x(4) :> {} @@ x(5) :> W(257)),
     run_test(<< Addi(x(1), x0, 240), Addi(x(2), x0, 748), Andi(x(10), x(2), 12) >>,
              x(10) :> W(12)),
     run_test(<< Lui(x(1), 1048575), Lui(x(2), 986895), And3(x(4), x(2), x(1)),
                 Addi(x(2), x(2), 567), Andi(x(5), x(2), 1567) >>,
              x(4) :> Word32(61680, 61440) @@ x(5) :> W(535)) >>

TestOr ==
  << run_test(<< Addi(x(1), x0, 1234), Addi(x(2), x0, 2034), Or3(x(3), x(2), x(1)),
                 Ori(x(4), x(2), 1989), Xor3(x(5), x(2), x(1)), Xori(x(6), x(2), 511) >>,
              x(3) :> W(2034) @@ x(4) :> W(2039) @@ x(5) :> W(800) @@ x(6) :> W(1549)),
     run_test(<< Lui(x(1), 1048575), Lui(x(2), 1048575), Or3(x(3), x(2), x(1)),
                 Xor3(x(4), x(2), x(1)), Ori(x(5), x(1), 255), Xori(x(6), x(5), 567) >>,
              x(3) :> Word32(65535, 61440) @@ x(4) :> {} @@ x(5) :> Word32(65535, 61695)
                @@ x(6) :> Word32(65535, 62152)) >>

TestSub ==
  << run_test(<< Addi(x(1), x0, 234), Addi(x(2), x0, 456), Sub3(x(3), x(2), x(1)) >>,
              x(3) :> W(222)),
     run_test(<< Lui(x(1), 1048575), Lui(x(2), 986895), Sub3(x(4), x(1), x(2)) >>,
              x(4) :> W(252641280)),
     run_test(<< Addi(x(1), x0, 456), Addi(x(2), x0, 234), Sub3(x(5), x(2), x(1)) >>,
              x(5) :> Word32(65535, 65314)),
     run_test(<< Addi(x(1), x0, -2047), Addi(x(2), x0, 2047), Sub3(x(6), x(1), x(2)) >>,
              x(6) :> Word32(65535, 61442)) >>

TestShifts ==
  << run_test(<< Addi(x(1), x0, 16), Slli(x(9), x(1), 4), Srli(x(8), x(9), 4),
                 Addi(x(2), x0, 4), Sll3(x(10), x(1), x(2)), Srl3(x(7), x(10), x(2)) >>,
              x(9) :> W(256) @@ x(8) :> W(16) @@ x(10) :> W(256) @@ x(7) :> W(16)),
     run_test(<< Addi(x(1), x0, -1), Slli(x(2), x(1), 4), Addi(x(3), x0, 4),
                 Sra3(x(4), x(2), x(3)), Srai(x(5), x(2), 4) >>,
              x(2) :> Word32(65535, 65520) @@ x(4) :> Ones(32) @@ x(5) :> Ones(32)) >>

TestSlt ==
  << run_test(<< Addi(x(2), x0, 2), Addi(x(2), x0, -1), Slt3(x(3), x(2), x(1)),
                 Slt3(x(4), x(1), x(2)), Sltu(x(5), x(1), x(2)), Sltu(x(6), x(2), x(1)) >>,
              x(3) :> One @@ x(4) :> {} @@ x(5) :> One @@ x(6) :> {}) >>

TestMultiply ==
  << run_test(<< Lui(x(1), 1048575), Addi(x(2), x0, 2), Mul3(x(3), x(1), x(2)),
                 Mulh(x(4), x(1), x(2)) >>,
              x(3) :> Word32(65535, 57344) @@ x(4) :> Ones(32)),
     run_test(<< Lui(x(1), 1048575), Lui(x(2), 139810), Mulhu(x(3), x(1), x(2)) >>,
              x(3) :> Word32(8738, 7645)),
     run_test(<< Lui(x(1), 1048575), Addi(x(2), x0, 2000), Mulhu(x(3), x(1), x(2)) >>,
              x(3) :> W(1999)) >>

TestLui ==
  << run_test(<< Lui(x(1), 1048575), Lui(x(2), 986880), Lui(x(3), 74565) >>,
              x(1) :> Word32(65535, 61440) @@ x(2) :> Word32(61680, 0)
                @@ x(3) :> Word32(4660, 20480)) >>

(* make test runs them all.                                                *)
AllTests ==
  TestAdd \o TestAnd \o TestLui \o TestMultiply \o TestOr \o TestShifts \o TestSlt \o TestSub

=============================================================================
