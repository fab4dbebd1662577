CONSTANTS
  Servers = {s1, s2}
  Providers = {p1}
  Repos = {r1, r2}
  MaxProbes = 2
  MaxDeaths = 1
SPECIFICATION Spec
INVARIANTS AuditConsistent WorkspaceUnique WorkspaceAudited
PROPERTIES StateMachineKept WorkspaceForActive
CHECK_DEADLOCK FALSE
