SPECIFICATION Spec
CONSTANT
  MaxServers = 3
INVARIANTS
  CrashOnlyAfterReload
  SessionComplete
PROPERTY
  ConfigReadUnplugged
