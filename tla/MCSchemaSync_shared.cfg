CONSTANTS
  id = id  a = a  ia = ia  kid = kid  ka = ka  x = x  y = y
  None = None  Failed = Failed
  Column <- TwoColumns
  Index <- ThreeIndexes
  Text <- TwoTexts
  Rendered <- Shown
  Quoted <- CamelCase
  KeptIndex <- Kept
  Configurations <- PlainConfigurations
  Tables <- PlainTables
  Foreign <- Meddling
  MaxForeign = 1
  MaxUnread = 1
SPECIFICATION FairSpec
INVARIANTS IInv
PROPERTIES OptionsHold UnseenStays Settles
