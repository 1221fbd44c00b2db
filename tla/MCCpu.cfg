SPECIFICATION Spec
CONSTANTS
  ROMWORDS <- MCROMWORDS
  Programs <- AllPrograms
  Switches <- MCSwitches
  PowerUpMems <- MCPowerUpMems
  PowerUpHexes <- MCPowerUpHexes
INVARIANTS
  TypeOK
  ResetFlushes
PROPERTIES
  ResetHoldsRegisters
  ImplementsSingleCycle
