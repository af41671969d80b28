CONSTANTS
  KbdSize = 3
  MouseSize = 2
  Shift = "shift"
  Codes <- MCCodes
  Plain <- MCPlain
  Shifted <- MCShifted
  Newline = "nl"
  Erase = "bs"
  Count = 2
  Demo <- MCDemo
  DemoKey = "S"
  MaxInput = 2
  MaxFaults = 1
SPECIFICATION FairSpec
INVARIANTS TypeOK MouseExact 
PROPERTIES Implements KeysTaken
CHECK_DEADLOCK FALSE
