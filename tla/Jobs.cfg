CONSTANTS
  Jobs = {1, 2}
  CreatedAt <- SameSecond
  Daemons = {d1, d2, d3}
  WorkerId <- TwoIds
  Lease = 2
  Broken = {1}
  Prompt = FALSE
  MaxDeaths = 0
SPECIFICATION Spec
INVARIANTS LeaseExclusive LeaseInRow
PROPERTIES PausedRests RenewedByHolder
