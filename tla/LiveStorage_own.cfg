SPECIFICATION Spec
CONSTANTS
    j1 = j1
    j2 = j2
    comb = comb
    cam = cam
    Jobs = {j1, j2}
    Dirs = {comb, cam}
    DirOf <- OwnDirs
    Lengths = {1}
    KeepFor = 2
    MaxTime = 3
INVARIANTS DeletableHasVod
  
CHECK_DEADLOCK FALSE
