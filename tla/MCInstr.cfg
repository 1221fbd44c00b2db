SPECIFICATION Spec
CONSTANTS
  ByFunct7 <- MCByFunct7
  OtherOpcodes <- MCOtherOpcodes
  OtherFunct7s <- MCOtherFunct7s
  RdFields <- MCRdFields
  Rs1Fields <- MCRs1Fields
  Rs2Fields <- MCRs2Fields
  OperandPairs <- MCOperandPairs
INVARIANTS
  ExecutesItsMnemonic
  SystemIsCsrrwOnly
  TextDeterminesInstruction
  CompressedTextDeterminesInstruction
CHECK_DEADLOCK FALSE
