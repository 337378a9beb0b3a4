CONSTANTS
  k = k  v = v
  Null = Null  Missing = Missing
  Ref <- TwoRefs
  Value <- TwoValues
  Row <- AllRows
  Like <- Likes
  Tests <- ManyTests
  MaxExprs = 4
SPECIFICATION Spec
INVARIANTS SelectsWhatIsAsked IInv
