SPECIFICATION Spec
CONSTANTS
    root = root
    acc = acc
    acc2 = acc2
    vol1 = vol1
    vol2 = vol2
    b = b
    x = x
    Rest = Rest
    Cleaner = Cleaner
    Nodes = {root, acc, acc2, vol1, vol2}
    Above <- MCAbove
    Stored <- MCStored
    Updates = {x}
    Batches = {}
    Roots <- MCRoots
    Payload <- MCPayload
    MaxFaults = 1
    MaxCalls = 0
INVARIANTS ReplacedAlways
CHECK_DEADLOCK FALSE
