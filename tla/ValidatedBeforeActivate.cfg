CONSTANTS
  Servers = {w, s1}
  Providers = {primary}
  Repos = {}
  MaxProbes = 1
  MaxDeaths = 0
  Wizard = w
  Primary = primary
  MaxEdits = 0
SPECIFICATION SetupSpec
INVARIANTS ValidatedBeforeActivate

CHECK_DEADLOCK FALSE
