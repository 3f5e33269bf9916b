SPECIFICATION Spec
CONSTANTS
  Scopes <- MCIncludeScope
  Fragment = "fragment"
  Profiles = {"semantic-diff", "builtin-diff"}
  Absent = Absent
  NoBlock = NoBlock
  MaxRuns = 3
  MaxEdits = 0
CHECK_DEADLOCK FALSE
INVARIANTS PartialFailureUndoable
