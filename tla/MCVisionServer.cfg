SPECIFICATION Spec
CONSTANTS
  c1 = c1
  c2 = c2
  p1 = p1
  p2 = p2
  g1 = g1
  Clients <- MCClients
  Pids <- MCPids
  Gpus <- MCGpus
  CliModels <- MCCli
  EnvModels <- MCEnv
  Sizes <- MCSizes
  Calls <- MCCalls
  DefaultBackend = "gpu"
  DefaultGpu = NoGpu
  Threshold = 1
  KeepResident = FALSE
  MaxBatch = 2
  NoPid = NoPid
  NoGpu = NoGpu
  NoThread = NoThread
SYMMETRY Symmetry
INVARIANTS
  TypeOK
  OneWorker
  NothingLeaks
  HandleIsTrue
  RepliesMatch
  InFlightCounts
  EvictsAtRest
PROPERTIES
  BatchOnOneWorker
  ServesTheDevice
