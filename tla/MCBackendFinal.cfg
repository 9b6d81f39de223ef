CONSTANTS
  k1 = k1
  Keys <- OneKey
  InputCapacity = 1
  OutputCapacity = 2
  MaxImages = 2
  Refused = {2}
  MaxCommands = 1
SPECIFICATION Spec
INVARIANT FinalNotLost
