SPECIFICATION Spec
CONSTANTS
  Apps = {a1}
  Threads = {t1, t2, t3}
  Nobody = Nobody
  RepoPath <- OwnCheckouts
  Specs <- Attempts
  NoSpec = NoSpec
  Pipeline <- TwoStages
  MaxDeploys = 3
  MaxCrashes = 0
  Disconnects = FALSE
  Careful = FALSE
  Kinds = {"cli"}
SYMMETRY Symmetry
INVARIANT OneWriterPerApp
\* Ends when the deploys table is full.
CHECK_DEADLOCK FALSE
