CONSTANTS
    a = a
    b = b
    c = c
    Jobs <- MCJobs
    Cost <- MCCost
    Budget = 3
    Cap = 2
SPECIFICATION Spec
INVARIANTS Accounts Ownership
