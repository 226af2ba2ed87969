SPECIFICATION Spec
CONSTANTS
  Apps = {a1, a2}
  Threads = {t1, t2, t3}
  Nobody = Nobody
  RepoPath <- OwnCheckouts
  Specs <- Attempts
  NoSpec = NoSpec
  Pipeline <- TwoStages
  MaxDeploys = 3
  MaxCrashes = 1
  Disconnects = TRUE
  Careful = TRUE
  Kinds = {"button", "hook", "boot", "cli", "cli_reconcile"}
SYMMETRY Symmetry
INVARIANT LedgerInv
\* Ends when the deploys table is full.
CHECK_DEADLOCK FALSE
