SPECIFICATION FairSpec
CONSTANTS
  MaxPids = 3
  Environments = {{"dies", "nofork", "nothread", "file"}, {"display", "file"}}
INVARIANTS TypeOK Known NoOrphan
PROPERTIES YesEnds ExitNoticed
CHECK_DEADLOCK FALSE
