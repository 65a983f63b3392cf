SPECIFICATION Spec
CONSTANTS
    collector = collector
    tagger = tagger
    Subs = {collector, tagger}
    Offered <- MCOffered
    Blocking = {collector, tagger}
    N = 2
    Action <- Short
    OnError <- ShortOnError
    Unasked <- MCAsked
    Faults = {}
    MaxCrashes = 1
    MaxChain = 2
PROPERTIES RestartKeepsClock
