CONSTANTS
  k = k  v = v
  Null = Null  None = None
  Column <- TwoColumns
  Nullable <- OnlyV
  Value <- TwoValues
  Predicate <- Partial
  Conditions <- NotInOne
  Additional <- TwoSets
  Limits <- FewLimits
  Tables <- FewTables
  MaxCalls = 3
SPECIFICATION Spec
INVARIANT NotIsHandled
