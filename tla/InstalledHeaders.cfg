SPECIFICATION PartSpec
CONSTANTS
    CapacityArgs = {1, 2, 3, 4}
    SegmentSizes = {288, 4112, 4128}
    ElemSize = 8
    MaxBulk = 3
    MaxOffered = 5
    Thread = {t1, t2}
    Block = {b1, b2}
    null = null
    MaxPoolCalls = 4
    AddressBits = 5
    Pointer = 2
    ArenaSizes = {5, 16}
    AllocSizes = {1, 3, 4, 5, 30, 31}
    Alignments = {1, 4, 8}
    MaxBlocks = 3
    SizeBits = 3
    RingSizes = {0, 1, 2, 3, 4, 5}
    MaxBatch = 5
    MaxPushed = 9
    ElementSizes = {1, 3}
    WindowSizes = {1, 2, 3, 4}
    MaxData = 6
    Stream = {s1, s2}
    Sample <- MC_Sample
    NaN = NaN
    WScale = 240
    MaxCount = 5
    MScale = 12
    MaxMoments = 4
    Precision = 4
    Summands <- MC_Summands
    MaxAdded = 4
    Period = 17
    JumpDistance = 4
    LongJumpDistance = 8
    NodeCount = 2
    ThreadCount = 2
    Batches = {1, 3}
    Key = {k1, k2}
    HashValues = {0, 1, 2, 4, 5}
    BitSizes = {2, 3}
    HashCounts = {1, 2}
    MaxAdds = 3
    Bitmap = {x, y}
    Chunk = 4
    ChunkCount = 3
    ArrayLimit = 3
    Points = {0, 2, 7, 8, 11}
    MaxSetOps = 3
    Prices = {0, 1}
    QuietNaN = QuietNaN
    Times <- MC_Times
    IntBits = 2
    RadixBits = 1
    MinRun = 2
    TableSize = 3
    MaxSorts = 2
    Elements = {0, 1, 2}
    MaxLength = 5
    Weights = {0, 1, 2}
    MaxSelects = 2
    Shapes <- MC_Shapes
    Unit = 32
INVARIANTS
    SpscNoSlotShared SpscSlotsMapped PoolConsistent ArenaBlocksApart RingHoldsNewest
    StreamingExact FiguresAgree TransformsExact KahanAccurate StreamsApart BloomNoFalseNegative RoaringFaithful
    SortsAgree OrderStatistics
PROPERTIES
    SpscImplementsQueue CallsReturn GenericImplementsRing
CHECK_DEADLOCK FALSE
