CONSTANT Scenes = {"outage", "failing", "silent"}
CONSTANTS c1 = c1 c2 = c2 n1 = n1 n2 = n2
CHECK_DEADLOCK FALSE
\* Hub's own: the scene "cold"
CONSTANTS
  Clients = {c1, c2} Address <- OneAddress Networks = {n1} Warm = FALSE Behind = FALSE Answers = {}
  SeedHeight = 2 MaxHeight = 3 MaxForks = 1 MaxCommits = 1 MaxAdvance = 2 MaxActions = 0
  MaxOutages = 0 MaxFaults = 1 RingSize = 4 HelloBlocks = 2 QueueSize = 2 MissedPingLimit = 0
  MaxTotal = 2 MaxPerIP = 1
SPECIFICATION SceneFairSpec
PROPERTY FeedSettles
