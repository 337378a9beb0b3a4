SPECIFICATION Spec
CONSTANTS
  Columns <- ModelColumns
  Key = "id"
  Other = "size"
  Nullable <- ModelNullable
  Arrays = {"marks"}
  Literals = {"open", "marks"}
  Fitting <- ModelFitting
  DefaultsOf <- ModelDefaults
  ComputedFrom <- ModelComputed
  InitialTables <- ModelTables
  Batches <- ModelBatches
  Updates <- ModelUpdates
  Changes <- ModelChanges
  Sets <- ModelSets
  Expressions = {"excluded", "orExcluded", "not", "isOne"}
  Evaluate <- ModelEvaluate
  Wheres <- ModelWheres
  MaxSends = 2
INVARIANTS RefusedForCause IInv
PROPERTIES WritesWhatWasMeant 
CHECK_DEADLOCK FALSE
