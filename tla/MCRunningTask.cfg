SPECIFICATION Spec
CONSTANTS
    collector = collector
    tagger = tagger
    Subs = {collector, tagger}
    Offered <- MCOffered
    Blocking = {collector, tagger}
    N = 4
    Action <- Collect
    OnError <- CollectOnError
    Unasked <- MCUnasked
    Faults = {"disconnect", "fail"}
    MaxCrashes = 1
    MaxChain = 2
INVARIANTS CommandsInOrder ExecutedBeforePassed RowIsCurrent ActionsReachSubscribers
PROPERTIES PassedWithAnswers RunKept
