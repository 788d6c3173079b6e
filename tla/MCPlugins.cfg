SPECIFICATION PluginsSpec
CONSTANTS
  Plugin = {"plugin", "auth", "reminder", "join", "nick", "a", "b"}
  Deps <- MCDeps
  HasTimer = {"reminder", "join", "nick"}
  HasInit = {"auth", "join"}
  Configured <- MCConfigured
  Manager = "plugin"
  MaxDep = 4
INVARIANTS
  NothingDangling
  NoneMissed
