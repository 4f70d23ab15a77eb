SPECIFICATION LifecycleSpec
CONSTANTS
  ForgetConfigs <- DelayedOnly
  NoId = NoId
  NoContext = NoContext
  MaxEntered = 2
  MaxMishaps = 0
  MaxChunks = 0
INVARIANT ClientCommandsKept
