SPECIFICATION Spec
CONSTANTS
  KeyOrder <- MCKeyOrder
  IdKey <- MCIdKey
  MaxDepth = 2
  Families <- MCFamilies
INVARIANTS
  CleanIsThreeWayMerge
  FailuresExplained
  CommentsLostOnlyInRewrites
  TemplateMergeSettles
  ElementConflictsFound
