CONSTANTS
  Handlers = {h1, h2}
  Templates = {"v1", "v2"}
  Configs <- MCConfigs
  Paths <- MCPaths
  Hosts <- MCHosts
SPECIFICATION Spec
INVARIANT
  OriginServed
CHECK_DEADLOCK FALSE
