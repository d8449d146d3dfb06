CONSTANTS
    f1 = f1
    Followers = {f1}
    Attempts = 2
    Lines = 2
    Width = 3
    ReadChunk = 4
    QueueSize = 2
    MaxCuts = 1
    MaxCrashes = 1
SPECIFICATION FairSpec
CHECK_DEADLOCK FALSE
INVARIANTS LogExact FollowExact
PROPERTIES StreamEnds
