CONSTANTS
  Socks = {0, 1}
  Hosts = {"a", "b"}
  Targets <- MCTargets
  SeqMod = 8
  InitSeq = 7
  Isn <- MCIsn
  Stream <- MCStream
  MaxSegment = 2
  MaxFrame = 1
  MaxSent <- MCSent
  MaxRead = 2
  BufSize = 3
  RingSize = 2
SPECIFICATION Spec
INVARIANTS TypeOK  AcksTaken RingExact
PROPERTY CompleteClose
CHECK_DEADLOCK FALSE
