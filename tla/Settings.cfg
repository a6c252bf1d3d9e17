SPECIFICATION Spec
CHECK_DEADLOCK FALSE
CONSTANTS
  NumSlots = 2
  HoldFrames = 2
  FlashFrames = 1
  HoldPolls = 1
  LightReach = {0, 4}
  ModeReach = {0, 2, 4}
INVARIANT SettingsInv
PROPERTIES NothingTwice NoSettingLeaps
