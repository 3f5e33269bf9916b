SPECIFICATION Spec
CONSTANTS
  Scopes <- MCScopes
  Fragment = "fragment"
  Profiles = {"semantic-diff", "builtin-diff"}
  Absent = Absent
  NoBlock = NoBlock
  MaxRuns = 4
  MaxEdits = 1
CHECK_DEADLOCK FALSE
INVARIANTS NoDanglingInclude EditsSurvive UndoRestores
PROPERTIES SuccessMeansDone
