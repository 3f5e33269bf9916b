SPECIFICATION Spec
CONSTANTS
  Ids = {compiled, host}
  Reserved = {compiled}
  Backends <- MCBackends
  Descriptors <- MCDescriptors
  Hosts = {h1, h2}
  Kernel = Kernel
  ParserDecls = {decl}
  ParserHandles = {p1, p2}
  Batches <- MCBatches
  MaxOperations = 2
  MaxProviders = 2
  MaxProviderGeneration = 2
  MaxParserGeneration = 3
  None = None
CHECK_DEADLOCK FALSE
INVARIANTS KernelResultsNameExecutor
