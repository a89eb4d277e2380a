SPECIFICATION Spec
CONSTANTS
    Runners = {r1}
    Calls = {c1, c2}
    COMB = COMB
    CAM = CAM
    hall = hall
    self = self
    Lectures = {hall, self}
    SelfStreams = {self}
    VersionOrder <- TwoVersions
    MaxRequests <- TwiceOnce
    MaxErrors = 1
INVARIANTS TypeOK OneJobEach MissingWasRefused
PROPERTY DueIsRequested
CHECK_DEADLOCK FALSE
