CONSTANTS
  a = a  b = b  k = k  v = v
  Null = Null  Missing = Missing  None = None
  Ref <- Refs
  Value <- TwoValues
  Row <- AllRows
  Like <- NoLike
  Base = a  Joined2 = b
  Columns = {k, v}
  Optional = {v}
  Tables <- TheTables
  Partners <- ThePartners
  Exprs <- TheExprs
  OfBoth = {"sameKey", "bIsSet"}
  On = "sameKey"
  Wheres = {"vIsOne", "vIsNot", "missing"}
  Selections <- TheSelections
  Narrowers = {"vIsSet", "anyV", "isTwo", "chosen", "bIsSet"}
  Numbers = {1, 2}
  Rank <- KeyRank
  MaxParts = 4
  PageSizes = {2}
SPECIFICATION FairSpec
INVARIANTS IInv AnswersWhatWasAsked EmptyIsRefused NarrowedIsTrue NullsAreExpected
PROPERTIES PaginationSettles
