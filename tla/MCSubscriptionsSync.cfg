SPECIFICATION Spec
CONSTANTS
    s1 = s1
    s2 = s2
    e1 = e1
    q1 = q1
    q2 = q2
    c1 = c1
    c2 = c2
    NoSub = NoSub
    Cleaner = Cleaner
    Subs = {s1, s2}
    Events = {e1}
    Reqs = {q1, q2}
    Conns = {c1}
    MaxRequests = 3
    MaxRestarts = 0
INVARIANTS MemoryInSync
