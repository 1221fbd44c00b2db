SPECIFICATION Spec
CONSTANT Inputs <- AllSwitches
INVARIANTS
  ExactUpTo14Bits
  OnlyDecimalDigits
  ErrorIsBounded
CHECK_DEADLOCK FALSE
