CONSTANTS
    Confs <- MCConfs
    Workers = {"w1", "w2"}
    MaxFaults = 1
SPECIFICATION Spec
INVARIANT CleanedIsGone
INVARIANT OneRunSuffices
PROPERTY ProtectedStays
PROPERTY MarkedIsRemoved
