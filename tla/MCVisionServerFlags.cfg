SPECIFICATION Spec
CONSTANTS
  c1 = c1
  c2 = c2
  p1 = p1
  p2 = p2
  g1 = g1
  Clients <- MCClients
  Pids <- OnePid
  Gpus <- NoGpus
  CliModels <- OnlyParts
  EnvModels <- OnlyMatte
  Sizes <- SmallOnly
  Calls <- CallParts
  DefaultBackend = "gpu"
  DefaultGpu = NoGpu
  Threshold = 1
  KeepResident = FALSE
  MaxBatch = 1
  NoPid = NoPid
  NoGpu = NoGpu
  NoThread = NoThread
INVARIANTS
  AcceptedIsConfigured
