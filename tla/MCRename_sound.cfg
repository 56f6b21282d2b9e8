SPECIFICATION Spec
CONSTANTS
  Documents <- MCDocuments
  NewNames = {"x", "y", "users", "ID", "9bad"}
  Invalid = {"9bad"}
  Fold <- MCFold
  Pseudo = {"note", "indexes", "records"}
  MaxRenames = 3
INVARIANTS
  BindingsKept
  MeaningKept
CHECK_DEADLOCK FALSE
