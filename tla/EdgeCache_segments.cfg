SPECIFICATION FairSpec
CONSTANTS
    a = a
    b = b
    Files = {a, b}
    DirOf <- OneDirectory
    Requests = {r1, r2}
INVARIANTS TypeOK ListedIsWhole OnlyCleanupInterferes NothingForgotten
PROPERTIES ServedAsDownloaded Answered Expires
