SPECIFICATION FairSpec
CONSTANTS
  a = a
  b = b
  c = c
  Plugins = {a, b, c}
  NumSections = 3
  PluginOf <- MCPluginOf
INVARIANTS
  RequirementsLive
  QuietDeinit
  StopsOnce
  ErrorReported
PROPERTY ShutdownCompletes
