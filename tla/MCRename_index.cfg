SPECIFICATION Spec
CONSTANTS
  Documents <- Indexed
  NewNames = {"x", "y"}
  Invalid = {"9bad"}
  Fold <- MCFold
  Pseudo = {"note", "indexes", "records"}
  MaxRenames = 2
INVARIANTS
  MeaningKept
CHECK_DEADLOCK FALSE
