SPECIFICATION FairSpec
CONSTANTS
  NumManaged = 2
  Contents = {"a", "b", "bad"}
  Malformed = {"bad"}
  Default = "a"
  Schemas = {h1, h2}
  Shipped = h1
  Update = h2
  Slots = {s1}
  BootSlot = s1
  None = None
  Live = Live
  Payloads <- MCPayloads
  DescChunks = 2
  MaxDesc = 2
  MaxFaults = 2
  MaxJobs = 2
  MaxMoves = 1
  Older <- MCOlder
INVARIANTS
  LiveIsOwn
  AcceptedMeansApplied
  BackupIsOneMoment
  DescriptorIsWhole
PROPERTY PushEnds
CHECK_DEADLOCK FALSE
