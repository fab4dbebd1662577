CONSTANTS
  Sessions = {c1, c2}
  Hosts = {h1, h2}
  MaxDeaths = 1
SPECIFICATION FairSpec
INVARIANTS TypeOK StatusTellsEnd LogTellsEnd StopReachesChild
PROPERTIES FinalStatusRests SessionEnds
CHECK_DEADLOCK FALSE
