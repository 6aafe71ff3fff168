CONSTANTS MaxHeight = 4 MaxReorgs = 2 MaxFaults = 1 SeedTip = 2 HeaderBatchSize = 1 MaxCatchUpBatches = 1
  MaxReorgDepth = 4 Unlimited = {TRUE, FALSE} Replays = {"ok", "no_state", "unsupported_model"} Outage = FALSE
SPECIFICATION Spec
INVARIANT TypeOK
INVARIANT NothingLost
INVARIANT Linked
PROPERTY RowsStable
PROPERTY OwedUntilRecovered
