SPECIFICATION FairSpec
CONSTANTS
  Dialects = {"postgres", "mariadb", "sqlite"}
  Limit = 6
  Wide <- MCWide
  Databases <- SmallDatabases
  MaxNumber = 12
INVARIANTS
  TypeOK
  NoClash
  AllFit
  RoundTrip
PROPERTY Terminates
