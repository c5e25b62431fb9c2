SPECIFICATION FairSpec
CONSTANTS
    r1 = r1
    r2 = r2
    q1 = q1
    q2 = q2
    s1 = s1
    a1 = a1
    u1 = u1
    Runners = {r1}
    Retriers = {q1}
    Syncers = {s1}
    Requests = {}
    Users = {}
    Processes = {}
    Operations = {}
    MaxOperations = 0
    TickOutlivesLock = FALSE
    MaxCycles = 1
    MaxLevel = 2
    IndependentFrom = 3
    MaxEntryAttempts = 1
    Lot = 1
    MaxAttempts = 1
    NoOwner = none
PROPERTIES
    NeverStuck
