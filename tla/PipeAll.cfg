SPECIFICATION FairSpec
CONSTANTS
  Threads = {"t1", "t2"}
  MaxMsgs = 4
  MaxPids = 2
  MaxPipe = 5
  MaxRead = 3
INVARIANTS LinesWhole InOrder
PROPERTIES NeverWaits KeepsUp
CHECK_DEADLOCK FALSE
