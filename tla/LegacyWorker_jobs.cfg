SPECIFICATION Spec
CONSTANTS
    h1 = h1
    h2 = h2
    s1 = s1
    s2 = s2
    u1 = u1
    p1 = p1
    t1 = t1
    Hall = {h1, h2}
    Self = {s1, s2}
    Uploads = {u1}
    Premieres = {p1}
    Thumbnails = {t1}
    Combined = {h1}
    StreamOf <- Streams
    Loads <- Loadings
    RecordingOf <- RecordsAs
    MaxRuns <- TwiceOnce
    MaxErrs = 1
CHECK_DEADLOCK FALSE
INVARIANTS WorkloadExact  
PROPERTY JobsFinish
