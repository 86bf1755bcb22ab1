SPECIFICATION Spec
CONSTANTS
    f1 = f1  f2 = f2
    k1 = k1  k2 = k2  k3 = k3
    t1 = t1  t2 = t2
    u1 = u1  u2 = u2
    NoUser = NoUser  NoFlow = NoFlow  NoToken = NoToken
    Flows = {f1, f2}
    Tokens = {k1, k2, k3}
    Users = {u1}
    Workers = {t1, t2}
    FlowTTL = 1  AccessTTL = 2  RefreshTTL = 1
    Gap = 1  KeepFlows = 0  KeepTokens = 0
    MaxNow = 4
SYMMETRY Symmetry
INVARIANTS Inv
PROPERTIES ImplementsCredential RevocationSticks
CHECK_DEADLOCK FALSE
ACTION_CONSTRAINT AgainWhenRemoved
