SPECIFICATION RegistryFairSpec
CONSTANTS
    Runners = {r1}
    Calls = {c1}
    Window = 4
    MaxJobs = 1
    MaxBeats = 2
 
PROPERTY GoneRunnerRetires
CHECK_DEADLOCK FALSE
