CONSTANT Scenes = {"follows", "down", "settles", "swapped", "reconnects", "shared", "broken", "passed", "repaired"}
\* Repair's own: the scene "passed"
CONSTANTS
  Lacking0 = {1, 3, 4, 5, 6, 7} Head = 8 Boundary = 2 Frontier0 = 3 Width = 2 Unreadable = {5, 6}
  HeaderBatch = 4 MinBatch = 2 MaxAttempts = 2 MaxSweeps = 2 MaxSkipped = 1
  MaxOutages = 5 MaxFaults = 2
SPECIFICATION SceneFairSpec
INVARIANT PassedMeansTried
PROPERTY LeftRightly
PROPERTY HeadsFollowed
PROPERTY Settles
PROPERTY EveryJobServed
