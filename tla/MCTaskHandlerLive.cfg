SPECIFICATION FairSpec
CONSTANTS
    job = job
    flow = flow
    NoRun = NoRun
    r1 = r1
    r2 = r2
    r3 = r3
    once = once
    Descs = {job, once}
    Runs = {r1, r2, r3}
    Kind <- MCKind
    OnSurpass <- MCOnSurpass
    Steps <- MCSteps
    MaxTriggers = 3
    Faults = {}
PROPERTIES QueuedInvocationServed EveryRunRemoved
