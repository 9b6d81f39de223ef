CONSTANTS
  Texts <- Keyboard
  Fingers <- NoFingers
  Capacity = 1
  Widths = {1}
  Steps <- MCSteps
  Characters = {a}
  MaxText = 1
SPECIFICATION AnySpec
INVARIANT ModifiersSynchronised
