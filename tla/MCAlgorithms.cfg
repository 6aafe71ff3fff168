CONSTANT Scenes = {"words", "pairs", "exp", "full", "nulls", "ranges", "sets", "folded", "floors", "refilled", "legacy", "moved", "genesis", "truncated", "sampled", "forks"}
CHECK_DEADLOCK FALSE
SPECIFICATION Spec
INVARIANT PricesExact
INVARIANT BucketsAgree
INVARIANT NormalizeAgrees
INVARIANT ReplayExact
INVARIANT ReportsExact
PROPERTY PredictionsExact
