SPECIFICATION Spec
CONSTANTS
  Dialects = {"postgres"}
  Migrations <- SerialKey
  MaxInterrupts = 0
INVARIANT CreatedComparesEqual
CHECK_DEADLOCK FALSE
