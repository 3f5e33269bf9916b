SPECIFICATION Spec
CONSTANTS
  Threads = {t1, t2}
  Ids = {a}
  Kinds = {syn}
  NativeKinds = {syn}
  MaxProviders = 4
  None = None
  MaxGeneration = 3
  MaxOps = 2
SYMMETRY Symmetry
CHECK_DEADLOCK FALSE
INVARIANT ConflictNamesAnotherProvider
