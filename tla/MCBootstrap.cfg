SPECIFICATION BootSpec
CONSTANTS
    j1 = j1
    j2 = j2
    r1 = r1
    r2 = r2
    None = None
    Jobs <- mcJobs
    Revs <- mcRevs
    Settings <- mcSettings
    Built <- mcBuilt
    Watched = j1
    MaxDeaths = 1
INVARIANTS SharedWhole LostIsDeath
PROPERTIES EveryScriptEnds
