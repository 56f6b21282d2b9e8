CONSTANT Texts <- MCTexts
SPECIFICATION Spec
INVARIANTS TypeOK Tiles PlacesAgree TriviaAttached Delimited
CHECK_DEADLOCK FALSE
