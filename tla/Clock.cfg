SPECIFICATION Spec
CONSTANTS
  Wrap = 14
  One = 1
  Ppqn = 1
  BarLengths = {1, 3}
  Bars = {1}
  Cycle = 3
  NotePeriods = {1}
  Rates = {0, 1, 2}
  MaxTickDt = 1
  RingSize = 2
  Indices = 4
  MinPeriod = 1
  MaxPeriod = 2
  LockPulses = 2
  LossFactor = 2
  TicksPerPulse = 2
  AutoStarts = {TRUE}
  Policies = {"Freeze"}
  MaxGap = 2
  MaxCalls = 1
INVARIANT ClockInv
PROPERTIES LossIsReal TickTells
