SPECIFICATION Spec
CONSTANT
  MaxServers = 1
INVARIANT
  DaemonRuns
