SPECIFICATION Spec
CONSTANTS
  XLEN = 4
  SHAMTBITS = 2
  Operands <- MCOperands
INVARIANT AluMatchesArithmetic
CHECK_DEADLOCK FALSE
