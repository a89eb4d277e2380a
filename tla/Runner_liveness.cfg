SPECIFICATION FairSpec
CONSTANTS
    Jobs = {j1}
PROPERTIES  DrainedExits
CHECK_DEADLOCK FALSE
