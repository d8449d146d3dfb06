SPECIFICATION MarketSpec
CONSTANTS
    Sections = {b1, b2}
    Offers = {o1, o2}
    Cheapest = o1
    NoSection = NoSection
    Providers = {"vast", "runpod"}
    ProvisionAttempts = 2
    Retries429 = 1
    MinInterval = 1
    Cooloff = 1
    Polls = 1
    MaxFaults = 1
INVARIANTS NoLeak
PROPERTIES RentsElsewhere Spaced
