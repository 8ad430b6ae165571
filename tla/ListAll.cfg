SPECIFICATION Spec
CONSTANTS
  Sizes = {0, 1, 7}
  MaxEntries = 2
  Environments = {{"all"}, {"nogroup"}, {"cut"}, {"nogroup", "cut", "all"}, {"spaces"}, {"device", "long", "cut"}, {"device", "nogroup", "long"}}
INVARIANTS Listed
CHECK_DEADLOCK FALSE
