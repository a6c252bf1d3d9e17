SPECIFICATION DeviceSpec
CHECK_DEADLOCK FALSE
CONSTANTS
  Cards = {c1}
  NoCard = NoCard
  Chunks <- Chunks2
  Files <- Files3
  Recording = Recording
  None = None
  Interval = 2
  MaxFaults = 2
  MaxCuts = 1
  Catalogue <- MCCatalogue
  Revisions <- MCRevisions
  WriterCalls <- MCWriterCalls
  MaxWriterCalls = 3
  Room = 600
  RefreshRoom = 590
  KMaxExtensions = 2
  KMaxSeeRefs = 2
  KMaxActions = 1
  KMaxControls = 2
  KMaxSections = 2
  Word = 64
  KMaxFieldIds = 6
  KMaxExtraIds = 5
  KMaxRefs = 9
  KMaxRootButtons = 1
  KMaxJacks = 2
  KMaxRootFragments = 2
  DispRoom = 30
  Names <- MCNames
  Places <- MCPlaces
  BrowseRoom = 5
  KMaxSegment = 3
  KMaxPath = 8
  KMaxLocks = 1
  ListEnd = 99
  MaxChanges = 3
  InitialTree <- MCInitialTree
  Paths <- MCPaths
  Listed <- MCListed
INVARIANTS UploadInv AcknowledgedSurvives
PROPERTIES FinalIsGuarded DirectoriesAreTrue DescriptorIsTrue
