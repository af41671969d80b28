SPECIFICATION ScreenSpec
CONSTANTS
  Width = 3
  Height = 1
  Pad = 1
  Shadow = 1
  MaxRects = 2
  Layouts <- MCLayouts
  New <- MCNew
  Spots <- MCSpots
  MenuAt <- MCMenuAt
  SubAt <- MCSubAt
  Dock <- MCDock
  Tip <- MCTip
  Places <- MCPlaces
INVARIANTS
  ScreenTypeOK
  
