SPECIFICATION Spec
CONSTANTS
    job = job
    flow = flow
    NoRun = NoRun
    r1 = r1
    r2 = r2
    r3 = r3
    once = once
    Descs = {job, flow}
    Runs = {r1, r2, r3}
    Kind <- MCKind
    OnSurpass <- MCOnSurpass
    Steps <- MCSteps
    MaxTriggers = 3
    Faults = {"crash", "fail", "delete", "refuse"}
INVARIANTS ActiveRunsPersisted RunsHaveTriggers UnregisteredStaysAway
SYMMETRY MCSymmetry
