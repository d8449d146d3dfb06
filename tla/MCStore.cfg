SPECIFICATION StoreSpec
CONSTANTS
    j1 = j1
    p1 = p1
    p2 = p2
    loop = loop
    handler = handler
    other = other
    worker = worker
    None = None
    JobIds <- mcJobs
    Providers <- mcProviders
    Loops <- mcLoops
    Handlers <- mcHandlers
    Workers <- mcWorkers
    Versions <- mcVersions
    MaxCalls = 4
    MaxSaves = 1
SYMMETRY mcSymmetry
CHECK_DEADLOCK FALSE
INVARIANTS LogIsTruth
PROPERTIES AppliedInTurn
