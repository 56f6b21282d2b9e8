CONSTANTS
  Typed <- MCTyped
  Starts <- MCStarts
  Finished <- MCFinished
  MaxTyped = 1
SPECIFICATION Spec
INVARIANT RangesForward
CHECK_DEADLOCK FALSE
