CONSTANTS
  Typed <- MCTyped
  Starts <- MCStarts
  Finished <- MCFinished
  MaxTyped = 2
SPECIFICATION Spec
INVARIANTS TypeOK EveryTokenKept InnermostIsPath NewLineKeepsDeclarations WordsOffered
CHECK_DEADLOCK FALSE
