SPECIFICATION Spec
CONSTANTS
  Dialects = {"postgres", "mariadb", "sqlite"}
  Migrations <- SmallMigrations
  MaxInterrupts = 1
INVARIANTS
  TypeOK
  NoStatementRefused
  Migrated
PROPERTY
  KeepsShared
CHECK_DEADLOCK FALSE
