SPECIFICATION PanelSpec
CHECK_DEADLOCK FALSE
CONSTANTS
  NumBindings = 2
  NumPages = 2
  Kind <- MCKind
  List <- MCList
  Layer <- MCLayer
  Pair <- MCPair
  From <- MCFrom
  Pots = {p1}
  Positions = {0}
  Default = 0
  Callers = {}
  None = None
  p1 = p1
  Declared = {"tapper", "holder"}
  Hw <- MCHw
  On <- MCOn
  Zones <- MCZones
  Tap <- MCTap
  Hold <- MCHold
  HoldPolls = 1
  Unit = 30
  Arcs = {0, 1, 4, 13}
  Values = {0, 4, 7, 15, 16, 23, 30}
  Layouts <- MCLayouts
  Fills <- MCFills
  Selectors <- MCSelectors
  PipDescs <- MCPipDescs
  Fields <- MCFields
  Slots <- MCSlots
  SnapTol = 1
  Spans <- MCSpans
  PipPositions <- MCPositions
  Overlaid = {4}
  MaxOverlays = 1
  MinClipped = 4
  WindowMs = 3
  HoldMs = 2
  Wrap = 8
  MostHits = 1
  Frames = {1, 2}
  Periods = {3, 6, 7, 10}
  Threshold = 6
  OnWindow = 3
  MaxBeats = 32
INVARIANT PanelInv
PROPERTY SpentPressIsInert
