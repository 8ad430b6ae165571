SPECIFICATION FairSpec
CONSTANTS
  N = 3
  MaxChan = 3
  Environments = {{"multi", "close"}, {"long", "close"}}
INVARIANTS OwnReply InStep
PROPERTIES ReturnsOrSpins DeadNoticed
