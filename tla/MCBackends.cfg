SPECIFICATION Spec
CONSTANTS
    Kinds <- AllKinds
    None = None
    MaxAttempts = 3
    MaxFaults = 2
INVARIANTS ReleasedGone OncePerAttempt VerdictsHold
PROPERTIES ReleaseCompletes
