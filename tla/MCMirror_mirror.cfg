\* Conversations saved and deleted on two replicas while a machine comes and goes, loses
\* its history, and calls, messages, leases and replicas fail.
SPECIFICATION MirrorSpec
CONSTANTS
  r1 = r1
  r2 = r2
  c1 = c1
  c2 = c2
  Replicas = {r1, r2}
  Convs = {c1, c2}
  MaxLog = 3
  MaxLinks = 3
  PageSize = 1
  NoteBuffer = 1
  HintBuffer = 1
  Budgets <- MCBudgets
  NoReplica = NoReplica
  NoConv = NoConv
INVARIANTS MirrorInv StoredHonest NothingUnsaved
SYMMETRY MCSymmetry
CHECK_DEADLOCK FALSE
