SPECIFICATION Spec
CONSTANTS
    Accounts = {a1}
    Regions = {r1, r2}
    MaxFailures = 1
    MaxAttempts = 2
    a1 = a1
    r1 = r1
    r2 = r2
    Confs <- MCConfs
INVARIANTS
    RelationsFound
    Rooted
    FinishedAreReplaced
PROPERTY
    CollectEnds
