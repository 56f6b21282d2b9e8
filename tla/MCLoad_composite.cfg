CONSTANTS
  Databases <- CompositeDatabases
  Versions <- MCVersions
  EnumVersions <- MCEnumVersions
  Options <- MCOptions
  Elsewhere <- MCElsewhere
  MaxStatements = 0
  Numerals <- MCNumerals
  Expressions <- MCExpressions
  Spaced <- MCSpaced
  Spellings <- MCSpellings
SPECIFICATION LoadSpec
INVARIANT RefsReadBack
CHECK_DEADLOCK FALSE
