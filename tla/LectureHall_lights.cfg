SPECIFICATION HallFairSpec
CONSTANTS
    s1 = s1
    s2 = s2
    comb = comb
    pres = pres
    HallStreams = {s1, s2}
    StreamVersions = {comb, pres}
    Parts <- ThreeParts
  
PROPERTY LightsFollow
CHECK_DEADLOCK FALSE
