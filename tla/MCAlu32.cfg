SPECIFICATION Spec
CONSTANTS
  XLEN = 32
  SHAMTBITS = 5
  Operands <- MCOperands
INVARIANTS
  SubtractionInvertsAddition
  ComparisonsAgree
  ShiftFillsWithTheSign
  ProductLaws
CHECK_DEADLOCK FALSE
