CONSTANTS
  Sizes <- MCAllSizes
  Landscape <- MCLandscape
  Profile <- MCProfile
  Unknown = unknown
  MaxChanges = 4
  Zooms = {1, 2, 4}
  Targets <- MCTargets
  Touches = {0, 1, 3, 4, 7}
SPECIFICATION ViewSpec
INVARIANT FollowSettles
