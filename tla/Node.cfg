SPECIFICATION Spec
CONSTANTS
  Threads = {t1, t2}
  Paths <- MCPaths
  Config <- MCConfig
  Policies <- MCPolicies
  Tree0 <- MCTree0
  MaxFiles = 4
  MaxCalls = 3
INVARIANTS ProtectedStays ConfigStays
CHECK_DEADLOCK FALSE
