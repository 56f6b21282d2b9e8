SPECIFICATION FairSpec
CONSTANTS
  t1 = t1
  t2 = t2
  NoDoc = NoDoc
  Uris = {u1, u2}
  Texts <- MCTexts
  ChangeLists <- MCChangeLists
  MaxSent = 3
  PipeSize = 2
INVARIANTS
  TypeOK
  DocsFollow
  MadeFromItsText
  OneForOne
  ShownIsCurrent
PROPERTIES
  NothingAfterExit
  ServiceSpec
  EveryRequestAnswered
  CatchesUp
  LoopEnds
CHECK_DEADLOCK FALSE
