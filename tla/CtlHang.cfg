SPECIFICATION FairSpec
CONSTANTS
  N = 3
  MaxChan = 4
  Environments = {{"multi"}}
PROPERTIES Returns
