CONSTANTS
    Threads = {t1, t2, t3}
    Listeners = {shutdown, update}
    OneShot = {update}
    Blocking = {shutdown}
    Changing = {update}
    MaxOps = 3
SPECIFICATION Spec
INVARIANT Exclusive
PROPERTY NewReadersWait
PROPERTY OperationsEnd
