SPECIFICATION Spec
CONSTANTS
    tab1 = tab1
    tab2 = tab2
    admin = admin
    Clients = {tab1, tab2}
    Channels = {"live", "runner", "chat"}
    MaxSubscriptions <- Twice
    Users = {admin}
    UserOf <- Tabs
    Admins = {admin}
    MaxFaults = 1
INVARIANTS ViewerCounted LiveKept LeftForgotten
PROPERTY ViewersForgotten
CHECK_DEADLOCK FALSE
