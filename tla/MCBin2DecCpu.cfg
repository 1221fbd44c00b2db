SPECIFICATION FairSpec
CONSTANTS
  ROMWORDS <- MCROMWORDS
  Programs <- MCPrograms
  Switches <- MCSwitches
  PowerUpMems <- MCPowerUpMems
  PowerUpHexes <- MCPowerUpHexes
INVARIANT DisplaysWholeConversions
PROPERTY DisplayFollowsSwitches
