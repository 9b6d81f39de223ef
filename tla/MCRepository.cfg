CONSTANTS
  MaxUpdates = 4
  MaxKeys = 3
  i1 = i1  i2 = i2
  Ids <- MCIds
  Names = {host}
  V6 = {v6}
  NoText = none
  d1 = d1  d2 = d2
  Devices <- MCDevices
  MaxEdits = 3
  MaxRevision = 4
  MaxLost = 1
SPECIFICATION AnySpec
SYMMETRY MCSymmetry
INVARIANTS AnyTypeOK AckedSurvives KeyMatchesDevices DiskFirst ReopenKeepsDevice OwnPassword ListIsCurrent EditsSurvive
PROPERTY NoLostUpdate
