\* Finding: a reorder brings a deleted object back.
CONSTANTS
    d1 = d1  d2 = d2  t1 = t1  t2 = t2  i1 = i1  i2 = i2  k1 = k1
    Ids = {i1, i2}
    Devices = {d1}
    Workers = {t1,t2}
    Keys = {k1}
    NoRow = NoRow  NoKey = NoKey  NoTx = NoTx  NoDev = NoDev
    Forms <- PlainForms
    Parent <- NoParent
    Services = {"push", "reorder"}
    Ages = {0}
    Window = 1
    Limit = 2
    MaxBatch = 1
    MaxVersion = 4
    MaxNow = 2
SYMMETRY Symmetry
SPECIFICATION Spec
PROPERTIES DeletionIsFinal
