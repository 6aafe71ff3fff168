CONSTANTS
  Lists = {bulk} Fast = {} Workers = {w1, w2} Of <- OneList Holds <- Unmetered
  Slots = 2 Items = 6 MaxCap = 4 MinCap = 1
  MinBackoff = 1 MaxBackoff = 2 Quiet = 1 MaxAttempts = 2 MaxLimits = 3 MaxTime = 3
SYMMETRY Symmetry
SPECIFICATION Spec
INVARIANT BatchWhole
PROPERTY WaveOneStep
