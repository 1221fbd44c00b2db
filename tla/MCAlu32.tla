------------------------------ MODULE MCAlu32 ------------------------------
(* Words of the source's width at the boundaries of the operations.        *)
EXTENDS AluBench

MCOperands ==
  { Word32(0, 0), Word32(0, 1), Word32(65535, 65535),        \* 0, 1, -1
    Word32(32767, 65535), Word32(32768, 0),                  \* the extremes
    Word32(0, 31), Word32(0, 65535), Word32(65535, 65504),   \* shamt 31, 0
    Word32(43690, 43690), Word32(21845, 21845),              \* alternating bits
    Word32(4660, 22136), Word32(57005, 48879) }

=============================================================================
