SPECIFICATION Spec
CONSTANTS
  Stride = 2
  One = 2
  Ppqn = 4
  BeatsPerBar = 4
  Families = {"straight", "triplet"}
  MaxSpan = 100
  Pages = {0, 1}
  Pots = {1}
  Positions = {0, 2}
  ClearNudge = 2
  Steps = {1}
  Gaps = {3}
  MaxTick = 6
  MaxCalls = 1
  Modes <- MCModes
  Presets <- MCPresets
INVARIANT LockInv
PROPERTIES TakeIsKept PressesMeanOneThing LoopsKeepStep
