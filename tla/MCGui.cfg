SPECIFICATION GuiSpec
CONSTANTS
  ROMWORDS <- MCROMWORDS
  Programs <- GuiPrograms
  Switches <- GuiSwitches
  PowerUpMems <- NoMems
  PowerUpHexes <- NoHexes
  RESETCYCLES = 5
  MaxCycles = 20
  Files <- GuiFiles
INVARIANTS
  SimTypeOK
  RegistersArePrefix
  ResetZeroes
  PanelShowsDisplay
  TableShowsResults
  ExecutesTheOpenedFile
PROPERTY OneEdgeAtATime
CHECK_DEADLOCK FALSE
