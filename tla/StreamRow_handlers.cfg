SPECIFICATION Spec
CONSTANTS
    Versions = {comb, pres}
    MaxHandlers = 2
    Redeliveries = 1
SYMMETRY VersionSymmetry
INVARIANTS StartKeepsUrl SettledAsVoD
CHECK_DEADLOCK FALSE
