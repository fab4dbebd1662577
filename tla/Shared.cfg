CONSTANTS
  Servers = {s1, s2}
  Contents = {c1, c2}
SPECIFICATION Spec
SYMMETRY Symmetry
VIEW CreatedOnly
INVARIANTS
  OneSubmission
  RecordPerChild
  RecordTruthful
  VerdictBacked
CHECK_DEADLOCK FALSE
