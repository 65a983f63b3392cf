CONSTANTS
    Threads = {t1, t2}
    Listeners = {shutdown, update}
    OneShot = {update}
    Blocking = {shutdown}
    Changing = {update}
    MaxOps = 2
SPECIFICATION Spec
INVARIANT OneShotOnce
