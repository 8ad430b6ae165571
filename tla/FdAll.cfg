SPECIFICATION Spec
CONSTANTS
  Threads = {"t1", "t2"}
  MaxFd = 6
  Environments = {{"deny", "drop", "long"},
                  {"refuse", "deny", "port", "noaccept"}}
INVARIANTS OwnDescriptors NothingLost
