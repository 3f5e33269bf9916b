SPECIFICATION Spec
CONSTANTS
  Atoms = {"t", "k1", "k2", "v", "own", "bad", "edit"}
  TokenKeys = {"k1", "k2"}
  Bad = "bad"
  Unrendered <- MCUnrendered
  Adapters = {"markdown", "ruby", "toml"}
  FamilyOf <- MCFamilyOf
  None = None
  Setups <- MCSetups
  Profiles <- MCProfiles
  PathOrder <- MCPathOrder
  UserEdit = "edit"
  MaxRuns = 3
  MaxEdits = 1
CHECK_DEADLOCK FALSE
INVARIANTS PreviewAgrees ReportMatchesDisk RetryRecovers InspectionPredictsRun EditsLostOnlyWhereReported
