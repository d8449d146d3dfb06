SPECIFICATION Spec
CONSTANTS
    c1 = c1
    c2 = c2
    c3 = c3
    Callers = {c1, c2, c3}
    None = None
    Loads <- SampleLoads
    MaxSessions = 2
    Ttl = 1
    MaxDrops = 2
INVARIANTS Serialized AtMostOnce
PROPERTIES StaysMultiplexed CallsReturn
