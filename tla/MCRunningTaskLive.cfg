SPECIFICATION FairSpec
CONSTANTS
    collector = collector
    tagger = tagger
    Subs = {collector}
    Offered <- MCOffered
    Blocking = {collector}
    N = 3
    Action <- Strict
    OnError <- StrictOnError
    Unasked <- MCAsked
    Faults = {"disconnect", "resubscribe"}
    MaxCrashes = 1
    MaxChain = 2
PROPERTIES RunEnds
CHECK_DEADLOCK FALSE
