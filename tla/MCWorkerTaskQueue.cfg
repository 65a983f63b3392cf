SPECIFICATION FairSpec
CONSTANTS
    w1 = w1
    w2 = w2
    t1 = t1
    t2 = t2
    tag = tag
    validate = validate
    Workers = {w1, w2}
    Tasks = {t1, t2}
    Names = {tag, validate}
    Name <- MCName
    Attrs <- MCAttrs
    Performs <- MCPerforms
    Filter <- MCFilter
INVARIANTS NoLostTask AtMatchingWorker HandedOver AttemptsBounded WorkCountCovers
PROPERTIES PromiseKept EveryTaskResolved
