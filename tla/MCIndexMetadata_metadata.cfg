SPECIFICATION Spec
CONSTANTS
  None = None
  Columns = {"id", "email", "status"}
  PrimaryKey <- ModelPrimaryKey
  Values = {1, 2}
  DefaultName = "users_by_email"
  Declarations <- ModelDeclarations
  PredicateColumns <- ModelPredicates
  IsTrueOf <- ModelIsTrueOf
  Minimums <- ModelMinimums
  MaxKeys = 3
  Contents <- ModelContents
INVARIANT OrderIsOfTheIndex
PROPERTIES UpToDateIsServed DatabaseDriftIsLoud
