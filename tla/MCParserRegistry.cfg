SPECIFICATION FairSpec
CONSTANTS
  Threads = {t1, t2}
  Ids = {a}
  Kinds = {syn}
  NativeKinds = {syn}
  MaxProviders = 4
  None = None
  MaxGeneration = 2
  MaxOps = 2
CHECK_DEADLOCK FALSE
INVARIANTS HostCodeUnlocked
PROPERTIES NoLostUpdate ImplementsVersionedRegistry CallsReturn RetiredProvidersReleased
