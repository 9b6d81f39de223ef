CONSTANTS
  k1 = k1
  Keys <- OneKey
  InputCapacity = 2
  OutputCapacity = 2
  MaxImages = 3
  Refused = {2}
  MaxCommands = 1
SPECIFICATION FairSpec
INVARIANTS TypeOK DatabaseAgrees NewestKept
PROPERTY DisconnectEnds
