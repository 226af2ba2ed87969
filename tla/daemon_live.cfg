SPECIFICATION FairSpec
CONSTANTS
  Apps = {a1, a2}
  Threads = {t1, t2, t3}
  Nobody = Nobody
  RepoPath <- OwnCheckouts
  Specs <- Attempts
  NoSpec = NoSpec
  Pipeline <- TwoStages
  MaxDeploys = 2
  MaxCrashes = 0
  Disconnects = FALSE
  Careful = FALSE
  Kinds = {"button", "hook"}
PROPERTIES  EveryThreadEnds
\* Ends when the deploys table is full.
CHECK_DEADLOCK FALSE
