CONSTANTS
  Databases <- MCDatabases
  Versions <- MCVersions
  EnumVersions <- MCEnumVersions
  Options <- MCOptions
  Elsewhere <- MCElsewhere
  MaxStatements = 3
  Numerals <- MCNumerals
  Expressions <- MCExpressions
  Spaced <- MCSpaced
  Spellings <- MCSpellings
SPECIFICATION LoadSpec
INVARIANTS TypeOK UntouchedReported NothingInvented ReadsBack SameMeaning PartLoaded
CHECK_DEADLOCK FALSE
