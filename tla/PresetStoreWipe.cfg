SPECIFICATION WipingSpec
CONSTANTS
  v1 = v1
  v2 = v2
  s1 = s1
  s2 = s2
  Slots = {s1, s2}
  Vals = {v1, v2}
  None = None
  Junk = Junk
  SectorsPerSide = 2
  RecLen <- MCRecLen
  MaxSeq = 2
  Faults = {"wipe"}
INVARIANT DurableAcrossPowerCut
