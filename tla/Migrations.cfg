CONSTANTS
  Processes = {p1, p2, p3}
  Old = p3
  Knows <- MixedReleases
  MaxDeaths = 1
SPECIFICATION FairSpec
INVARIANTS OpenedComplete AlwaysOpenable
PROPERTIES EveryProcessOpens
CHECK_DEADLOCK FALSE
