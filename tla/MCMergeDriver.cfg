SPECIFICATION Spec
CONSTANTS
  Layouts <- MCLayouts
  Requests <- MCRequests
  MaxAttempts = 2
  MaxEdits = 1
CHECK_DEADLOCK FALSE
INVARIANTS ReportTrusted
PROPERTIES DestinationWrittenLast TruthfulExit InputsSurvive
