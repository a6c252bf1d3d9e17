SPECIFICATION PlayerSpec
CONSTANTS
  Panel = "full"
  NumBindings = 4
  NumPages = 4
  Kind <- MCKind
  List <- MCList
  Layer <- MCLayer
  Pair <- MCPair
  From <- MCFrom
  Pots = {p1}
  Positions = {0}
  Default = 0
  Callers = {"locks", "buttons", "app"}
  None = None
  p1 = p1
INVARIANTS
  LatchFollowsPage
  LayerIsShown
PROPERTIES
  BaseStands
  LingeringEnds
