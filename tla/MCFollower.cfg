CONSTANT Scenes = {"faults", "batches", "recovers", "converges"}
CONSTANTS MaxHeight = 6 MaxReorgs = 2 MaxFaults = 2 SeedTip = 2 HeaderBatchSize = 2 MaxCatchUpBatches = 1
  MaxReorgDepth = 4 Unlimited = {TRUE, FALSE} Outage = FALSE
  Replays = {"ok", "no_state", "unsupported_model", "replay_discontinuity"}
SPECIFICATION FairScenes
INVARIANT HeadStored
PROPERTY GapsClose
PROPERTY ChainRestored
