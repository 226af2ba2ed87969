SPECIFICATION HistorySpec
CONSTANTS
  Apps = {a1}
  v1 = v1
  v2 = v2
  r1 = r1
  r2 = r2
  Specs <- TwoSpecs
  NoSpec = NoSpec
  Versions = {v1, v2}
  Routes = {r1, r2}
  None = None
  Unknown = Unknown
  Unowned = Unowned
  MaxDeploys = 1
  MaxFaults = 0
  MaxCrashes = 1
  StoreFaults = FALSE
  Tearing = FALSE
INVARIANT RollbackKeepsSpec
