CONSTANTS
  id = id  a = a  ia = ia  kid = kid  ka = ka  x = x  y = y
  None = None  Failed = Failed
  Column <- TwoColumns
  Index <- ThreeIndexes
  Text <- TwoTexts
  Rendered <- Shown
  Quoted <- CamelCase
  KeptIndex <- Kept
  Configurations <- EveryConfiguration
  Tables <- EveryTable
  Foreign <- NoForeign
  MaxForeign = 0
  MaxUnread = 0
SPECIFICATION Spec
INVARIANTS IInv UpApplies DownUndoes ConstraintsHold OneMigrationIsEnough
PROPERTY OptionsHold
