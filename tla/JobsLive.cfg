CONSTANTS
  Jobs = {1, 2, 3}
  CreatedAt <- OnePerSecond
  Daemons = {d1}
  WorkerId <- SharedId
  Lease = 3
  Broken = {1}
  Prompt = TRUE
  MaxDeaths = 1
SPECIFICATION FairSpec
PROPERTIES
  EveryJobRuns
  OrphanRecovered
