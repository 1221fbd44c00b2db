SPECIFICATION CliSpec
CONSTANTS
  ROMWORDS <- MCROMWORDS
  Programs <- MCPowerUp
  Switches <- MCSwitches
  PowerUpMems <- NoMems
  PowerUpHexes <- NoHexes
  RESETCYCLES = 5
  MaxCycles = 0
  Files <- MCFiles
  NCYCLES <- MCNCYCLES
  Suite <- AllTests
INVARIANTS
  SuitePasses
  LoadsAsTheWindowDoes
  RegistersArePrefix
  PrintsItsProgram
  PrintsFinalResults
PROPERTY MainEnds
CHECK_DEADLOCK FALSE
