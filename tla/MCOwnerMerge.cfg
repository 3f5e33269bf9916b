SPECIFICATION Spec
CONSTANTS
  Ids = {"a", "b", "c"}
  Prints = {1, 2, 3}
  Words = {"g0", "g1", "g2", "t1", "h2", "new2", "new3", NoNewline}
  NoNewline = NoNewline
  Inputs <- MCInputs
  NoOwner = NoOwner
INVARIANTS CleanAppliesBothTips ConflictsAreExact CleanKeepsReorderings CleanKeepsLayout AddedTextKept
