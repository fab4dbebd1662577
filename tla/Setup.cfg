CONSTANTS
  Servers = {w, s1}
  Providers = {primary}
  Repos = {}
  MaxProbes = 1
  MaxDeaths = 1
  Wizard = w
  Primary = primary
  MaxEdits = 1
SPECIFICATION SetupSpec
INVARIANTS NotRepeated ProviderTruthful NeverTorn EditsSurvive CompletedKept
CHECK_DEADLOCK FALSE
