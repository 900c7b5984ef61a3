CONSTANTS
  Handlers = {h1, h2}
  Templates = {"v1", "v2"}
  Configs <- MCConfigs
  Paths <- MCPaths
  Hosts <- MCHosts
SPECIFICATION Spec
INVARIANTS
  TypeOK
  ConfigSafe
  MatchMostSpecific
  CodecExact
  QueueHasWorker
PROPERTIES
  CacheSettles
  ShutdownEnds
CHECK_DEADLOCK FALSE
