SPECIFICATION EdgesSpec
CONSTANTS
  Deploys = {d1, d2}
  Viewers = {w1}
  Foreign = {d2}
  Capacity = 1
  MaxEvents = 6
  MaxDrops = 2
  Refusals = TRUE
  Budget = 60
  Interval = 2
  Timeout = 5
  Cap = 90
  Tries = 2
  RingCapacity = 1
  MaxRung = 3
  MaxBellDeaths = 1
  Tabs = {t1, t2}
  Backlog = 1
  MaxLines = 3
  MaxMishaps = 2
INVARIANTS  NoGapNoRepeat  CapOnlyIfWedged AttemptsFit 
PROPERTIES StreamsEnd StageEnds BellCatchesUp FollowerCatchesUp FollowersLeave
\* A part ends when its bounds are used up.
CHECK_DEADLOCK FALSE
