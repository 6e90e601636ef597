SPECIFICATION FairSystem
CONSTANTS
  c1 = c1
  p1 = p1
  Clients <- OneClient
  Pids <- OnePid
  Gpus <- NoGpus
  CliModels <- MCCli
  EnvModels <- MCEnv
  Sizes <- MCSizes
  Calls <- MCCalls
  DefaultBackend = "gpu"
  DefaultGpu = NoGpu
  Threshold = 1
  KeepResident = FALSE
  MaxBatch = 2
  NoPid = NoPid
  NoGpu = NoGpu
  NoThread = NoThread
  TokenizerGiven = TRUE
  FileSize <- NativeSizes
  Multiple = 2
  MaxAlloc = 14400
  Resolutions <- OneResolution
  ImageExtents <- OneImage
INVARIANTS
  ErrorsAreEarned
PROPERTIES
  ServerAllows
