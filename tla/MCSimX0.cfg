SPECIFICATION SimSpec
CONSTANTS
  ROMWORDS <- MCROMWORDS
  Programs <- SimPrograms
  Switches <- SimSwitches
  PowerUpMems <- NoMems
  PowerUpHexes <- NoHexes
  RESETCYCLES = 5
  MaxCycles = 12
INVARIANT X0IsConstZero
