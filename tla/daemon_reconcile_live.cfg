SPECIFICATION Spec
CONSTANTS
  Apps = {a1}
  Threads = {t1, t2, t3}
  Nobody = Nobody
  RepoPath <- OwnCheckouts
  Specs <- Attempts
  NoSpec = NoSpec
  Pipeline <- TwoStages
  MaxDeploys = 3
  MaxCrashes = 0
  Disconnects = FALSE
  Careful = FALSE
  Kinds = {"button", "hook", "reconcile_api"}
SYMMETRY Symmetry
INVARIANT OnlyStrandedReconciled
\* Ends when the deploys table is full.
CHECK_DEADLOCK FALSE
