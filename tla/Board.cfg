SPECIFICATION Spec
CONSTANTS
    Full = 4
    MaxBody = 1
    RxRing = 8
    TxRing = 16
    Chunk = 4
    Batch = 3
    FramesPerPoll = 1
    Packets = {2, 5}
    Noise <- MCNoise
    Scripts <- MCScripts
    Replies <- MCReplies
    Kapacity = 2
    LastSequence = 4
    Budget = 3
    Lengths = {0, 1}
    Requests = 2
    KMaxGauges = 1
    MaxTokens = 3
    MaxMessages = 6
    Absent <- MCAbsent
    Channels = {1, 2}
    Lines = {1, 2, 3}
    Latch = 0
    Codes = {1, 2, 3}
    Neutral = 2
    Probes <- MCProbes
    Sweep <- MCSweep
    Targets <- MCTargets
    Crosses = {2, 4}
    MinEnd = 2
    MaxWaits = 2
    Torn = 2
    v1 = v1
    v2 = v2
    s1 = s1
    s2 = s2
    Slots = {s1}
    Vals = {v1, v2}
    None = None
    Junk = Junk
    SectorsPerSide = 2
    RecLen <- MCRecLen
    MaxSeq = 6
    Faults = {"save"}
INVARIANTS
    LinkIsFaithful
    VerifiedWasSent
    HostIsNotMisled
    OutputsAsTold
    FramesAreWhole
    HasValidIsVerified
    DurableAcrossPowerCut
    SequencesDiffer
PROPERTIES
    CalibrationIsSafe
    ShowReturns
    ImplementsRegister
