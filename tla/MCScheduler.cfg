CONSTANTS
  Boot = 1
  MaxTid = 4
  AnyPid = FALSE
SPECIFICATION FairSpec
INVARIANTS
  TypeOK QueueAndCpu SchedulableIsLive 
  FreesSafe 

   
