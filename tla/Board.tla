------------------------------- MODULE Board -------------------------------
(***************************************************************************)
(* The board around the CPU: rtl/hex.sv and the wiring of rtl/simtop.sv    *)
(* from the CPU's hexes to the eight seven-segment outputs, and the access *)
(* to the board's pins that support/support.cpp gives to a front end.      *)
(***************************************************************************)
EXTENDS Datapath, Sequences

(* out, for in = 0 to F: active low, segment g is bit 6.                   *)
Patterns ==
  << 64, 121, 36, 48, 25, 18, 2, 120, 0, 24, 8, 3, 70, 33, 6, 14 >>

hex(in) == Lit(7, Patterns[Num(in) + 1])

(* The outputs HEX0 .. HEX7 of simtop, least significant digit first.      *)
HEX(hexes) == [k \in 0 .. 7 |-> hex(Slice(hexes, 4*k + 3, 4*k))]

-----------------------------------------------------------------------------

(* io_mask, as the width it keeps, and io_direction.                       *)
io_mask(io) ==
  CASE io = "IO_CLOCK_50"            -> 1
    [] io \in {"IO_SW", "IO_LEDR"}   -> 18
    [] io = "IO_KEY"                 -> 4
    [] io = "IO_HEX"                 -> 7
    [] io = "IO_LEDG"                -> 9

readable  == {"IO_KEY", "IO_HEX", "IO_LEDG", "IO_LEDR"}
writeable == {"IO_CLOCK_50", "IO_SW", "IO_KEY"}

(* The value that passes; an access in the other direction ends the program.*)
read_io(io, pin)  == IF io \in readable THEN pin \cap Bits(io_mask(io)) ELSE {"exit"}
write_io(io, val) == IF io \in writeable THEN val \cap Bits(io_mask(io)) ELSE {"exit"}

=============================================================================
