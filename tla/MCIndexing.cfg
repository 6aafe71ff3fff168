CONSTANT Scenes = {"pruned", "rewound", "absent", "forward", "windows", "reorged", "ends", "depths", "forks", "legacy", "reset", "completes", "crosses"}
\* OwnerScan's own: the scene "legacy"
CONSTANTS
  MaxHeight = 4 SeedTip = 1 Acting = {0, 1, 2, 3, 4} Chunk = 2 Margin = 1
  Depths <- OnlyGenesis MaxRecoveryDeferrals = 2 Archive = TRUE LegacyChain = TRUE
  Forks = {0, 2} Overlap = FALSE MaxReorgs = 1 MaxRestarts = 1 MaxEpochs = 0 MaxFaults = 1
SPECIFICATION SceneFairSpec
INVARIANT BucketsExact
INVARIANT ReconstructedOnce
INVARIANT TimelineExact
INVARIANT OriginSound
PROPERTY DepthKept
PROPERTY WalksEnd
