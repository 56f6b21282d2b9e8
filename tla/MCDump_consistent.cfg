SPECIFICATION Spec
CONSTANTS
  Dialects = {"postgres", "mariadb", "sqlite"}
  Schemas <- ConsistentSchemas
INVARIANTS
  OnlyKnownRefusals
  Loaded
  AllRowsOrNone
CHECK_DEADLOCK FALSE
