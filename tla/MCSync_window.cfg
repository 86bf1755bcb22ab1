\* One device polls, goes offline and resynchronises while tombstones are reclaimed.
CONSTANTS
    d1 = d1  d2 = d2  t1 = t1  t2 = t2  i1 = i1  i2 = i2  k1 = k1
    Ids = {i1, i2}
    Devices = {d1}
    Workers = {t1}
    Keys = {k1}
    NoRow = NoRow  NoKey = NoKey  NoTx = NoTx  NoDev = NoDev
    Forms <- PlainForms
    Parent <- NoParent
    Services = {"push", "reclaim", "resync"}
    Ages = {0,2}
    Window = 1
    Limit = 1
    MaxBatch = 1
    MaxVersion = 3
    MaxNow = 5
SPECIFICATION FairSpec
INVARIANTS Inv
PROPERTIES EventuallyDelivered
