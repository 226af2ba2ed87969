SPECIFICATION HostSpec
CONSTANTS
  x1 = x1
  x2 = x2
  daily = daily
  hourly = hourly
  never = never
  Apps <- WebAndApi
  Tasks <- TwoTasks
  Texts = {x1, x2}
  Schedules = {daily, hourly, never}
  Invalid = {never}
  Specs <- TheSpecs
  None = None
  Foreign = Foreign
  MaxRuns = 3
  MaxFaults = 2
  MaxCrashes = 1
  blog = blog
  Blog = Blog
  dots = dots
  s1 = s1
  none = none
  abs = abs
  rel = rel
  Names <- ThreeNames
  SlugOf <- Slugs
  NoSlug = none
  Repos = {abs, rel}
  Relative = {rel}
  Asked <- SomePairs
  Handlers = {h1, h2}
  Clis = {c1}
  Nobody = Nobody
  Apart = TRUE
  MaxDeaths = 1
  MaxMessages = 2
  MaxOutages = 2
  MaxRequests = 1
  SecretNames = {key}
  Commands = {k1, k2, k3}
  MaxUses = 5
  MaxBreaks = 1
  Commits = {g1, g2}
  Deploys = {d1, d2, d3}
  NoCommit = NoCommit
  Orderly = TRUE
SYMMETRY Sym
INVARIANTS HostInv TimersFindable SuccessIsExact SlugsDistinct SnapshotInForce NotStale StartsOnce OneAnswerEach ToolsTellTruth AnswersWereTrue SecretsKept RunsLastGood
PROPERTIES ForeignFilesKept NeighboursKept
\* A part ends when its bounds are used up.
CHECK_DEADLOCK FALSE
