CONSTANTS
  Boot = 1
  MaxTid = 3
  AnyPid = FALSE
SPECIFICATION FairSpec
PROPERTIES
  GuiWakesUp
