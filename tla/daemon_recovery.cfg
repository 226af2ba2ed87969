SPECIFICATION Spec
CONSTANTS
  Apps = {a1}
  Threads = {t1, t2, t3}
  Nobody = Nobody
  RepoPath <- OwnCheckouts
  Specs <- Attempts
  NoSpec = NoSpec
  Pipeline <- TwoStages
  MaxDeploys = 3
  MaxCrashes = 1
  Disconnects = TRUE
  Careful = FALSE
  Kinds = {"button", "hook", "reconcile_api", "boot"}
SYMMETRY Symmetry
INVARIANTS OneWriterPerApp CheckoutExclusive LastGoodIsNewest RunningNotReconciled
\* Ends when the deploys table is full.
CHECK_DEADLOCK FALSE
