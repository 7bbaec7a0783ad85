SPECIFICATION PartsSpec
CONSTANTS
    t1 = t1
    t2 = t2
    Threads = {t1, t2}
    i1 = i1
    i2 = i2
    i3 = i3
    Ptrs = {i1, i2, i3}
    NoPtr = NoPtr
    g1 = g1
    g2 = g2
    Devices = {g1, g2}
    a1 = a1
    b1 = b1
    Keys = {a1, b1}
    DeviceOf <- OnDevice
    c1 = c1
    Clients = {c1}
    NoKey = NoKey
    MaxRefs = 2
    ModelKeys = {model}
    AllocKeys = {alloc0}
    Vals = {v1}
    model = model
    alloc0 = alloc0
    v1 = v1
    Absent = Absent
    NoFile = NoFile
    Empty = Empty
    Torn = Torn
    SoloStart = TRUE
    IOErrors = TRUE
    MaxTokens = 3
    NoAlloc = NoAlloc
    TTL = 1
    NumFiles = 1
    m1 = m1
    oddModel = oddModel
    Models = {m1, oddModel}
    NoModel = NoModel
    Headers <- AllHeaders
    Word = 8
    Prefix = 1
    MaxHeader = 2
    Limit = 2
    MaxTime = 2
    MapLimit = 1
    MapTime = 1
    Names = {"a", " a", "b"}
    Trimmed <- Trim
    Digests = {"d", "e"}
    SizeOf <- TrueSizes
    MaxSize = 2
    MaxShards = 2
    MaxLayers = 2
    Block = 3
    Sizes = {0, 2, 3, 7, 8, 9}
    Chunks = {1, 7}
    Records <- SomeRecords
    Later = 3
    Target = 2
SYMMETRY PartsSymmetry
INVARIANT TypeOK
INVARIANT DriverServesUsers
INVARIANT MemoryHasOneOwner
INVARIANT IdleReleasesContexts
INVARIANT PartsTypeOK
INVARIANT AlwaysParses
INVARIANT IndexesAgree
INVARIANT TokensNameAllocations
INVARIANT ManifestEndsWholeBundles
INVARIANT AnsweredTensorIsInFile
INVARIANT GoodHeadersParse
INVARIANT CacheWithinLimit
INVARIANT LintedModelVerifies
INVARIANT VerifiedIsExact
INVARIANT NothingLeaks
INVARIANT AcceptedIsWhole
INVARIANT DirectReadsAreAligned
INVARIANT SweepFreesInOrder
PROPERTY ImplementsRefTable
PROPERTY ImplementsAtomicStore
PROPERTY EvictsTheOldest
