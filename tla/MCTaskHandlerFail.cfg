SPECIFICATION FairSpec
CONSTANTS
    job = job
    flow = flow
    NoRun = NoRun
    r1 = r1
    r2 = r2
    r3 = r3
    once = once
    Descs = {job}
    Runs = {r1, r2}
    Kind <- MCKind
    OnSurpass <- MCOnSurpass
    Steps <- MCSteps
    MaxTriggers = 2
    Faults = {"fail"}
PROPERTIES QueuedInvocationServed
