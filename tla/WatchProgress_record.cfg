SPECIFICATION Spec
CONSTANTS
    alice = alice
    bob = bob
    Viewings = {alice, bob}
    Positions = {50, 85}
    Duration = 100
    LastSilence <- Silent
    NoSilence = NoSilence
    Modulus = 1024
    MaxBuffer = 3
    MaxFaults = 1
INVARIANTS ResumesAtLatest
PROPERTIES ImplementsRecord WatchedShows
CHECK_DEADLOCK FALSE
