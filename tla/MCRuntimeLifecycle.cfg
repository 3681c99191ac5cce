CONSTANTS
  Tokens = {t1, t2}
  Modules = {m1}
  Jobs = {j1, j2}
  Values = {v1, v2}
  Garbage = Garbage
  Null = Null
SPECIFICATION Spec
SYMMETRY MCSymmetry
INVARIANTS PinsExact CachedAlive TokensDistinct ReleasedBeforeDisposal
PROPERTY EntriesStay
CHECK_DEADLOCK FALSE
