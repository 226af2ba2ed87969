SPECIFICATION FairSpec
CONSTANTS
  Apps = {a1}
  v1 = v1
  v2 = v2
  r1 = r1
  r2 = r2
  Specs <- TwoSpecs
  NoSpec = NoSpec
  Versions = {v1, v2}
  Routes = {r1, r2}
  None = None
  Unknown = Unknown
  Unowned = Unowned
  MaxDeploys = 2
  MaxFaults = 2
  MaxCrashes = 2
  StoreFaults = TRUE
  Tearing = TRUE
INVARIANTS LockInv RowLogAgree LogInOrder FilesLastGood
PROPERTIES TerminalIsFinal EveryAttemptEnds
