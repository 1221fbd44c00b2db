SPECIFICATION Spec
CONSTANT Inputs <- FiveDigits
INVARIANT DisplaysDecimal
CHECK_DEADLOCK FALSE
