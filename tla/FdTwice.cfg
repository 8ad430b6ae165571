SPECIFICATION Spec
CONSTANTS
  Threads = {"t1", "t2"}
  MaxFd = 7
  Environments = {{"refuse"}}
INVARIANTS HandleOfStream
