SPECIFICATION PlayerSpec
CONSTANTS
  Panel = "solo"
  NumBindings = 1
  NumPages = 2
  Kind <- MCKind
  List <- MCList
  Layer <- MCLayer
  Pair <- MCPair
  From <- MCFrom
  Pots = {p1}
  Positions = {0, 1, 2}
  Default = 1
  Callers = {"locks", "presets"}
  None = None
  p1 = p1
INVARIANT EditIsUsed
PROPERTY NoLeap
