\* Two workers push, write, delete, purge and reorder; one device pulls page by page.
CONSTANTS
    d1 = d1  d2 = d2  t1 = t1  t2 = t2  i1 = i1  i2 = i2  k1 = k1
    Ids = {i1, i2}
    Devices = {d1}
    Workers = {t1,t2}
    Keys = {k1}
    NoRow = NoRow  NoKey = NoKey  NoTx = NoTx  NoDev = NoDev
    Forms <- EitherForms
    Parent <- Below1
    Services = {"push", "web", "reorder", "purge"}
    Ages = {0}
    Window = 1
    Limit = 1
    MaxBatch = 1
    MaxVersion = 4
    MaxNow = 2
SYMMETRY Symmetry
SPECIFICATION Spec
INVARIANTS CursorComplete
PROPERTIES NoSilentOverwrite NoRevival
