SPECIFICATION ParseFairSpec
CONSTANTS
  Backends <- MCBackends
  Descriptor <- MCDescriptor
  Profile <- MCProfile
  Constraints <- MCConstraints
  Batches <- MCBatches
  RequestIds = {"r1", "r2", "alien"}
  MaxBatchItems = 2
  MaxInputBytes = 2
  NoId = NoId
CHECK_DEADLOCK FALSE
INVARIANTS LateAnswersDiscarded NoCallbackForInvalidBatch ResultsMatchSelection
PROPERTIES OperationEnds
