CONSTANTS
  Texts <- Keyboard
  Fingers = {1, 2}
  Capacity = 3
  Widths = {1, 3}
  Steps <- MCSteps
  Characters = {a, b}
  MaxText = 3
SPECIFICATION AnySpec
INVARIANTS AnyTypeOK KeysKnown ReleasedWhenAway ButtonKnown ClicksLandWhereAimed TypedMatches
PROPERTIES ModifiersCleared QueueIsOrdered
