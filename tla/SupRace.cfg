SPECIFICATION Spec
CONSTANTS
  MaxPids = 2
  Environments = {{"display"}}
PROPERTIES Survives
CHECK_DEADLOCK FALSE
