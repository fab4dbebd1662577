CONSTANTS
  Servers = {s1, s2}
  Contents = {c1}
SPECIFICATION Spec
INVARIANT NoDuplicateLaunch
CHECK_DEADLOCK FALSE
