SPECIFICATION FairSpec
CONSTANTS
    MaxBytes = 32
    MaxEdge = 2
    MaxPixels = 2
    MaxPixelFrames = 2
    Lengths = {12, 32}
    Words = {0, 1, 2}
    Bytes = {0, 3, 9}
    TableBits = {0}
    Contents <- MCContents
    MaxDownloads = 2
    MaxTranscodes = 1
    QueueCapacity = 1
    MaxRuns = 2
INVARIANTS FinalIsLast WholeBeforeAck ConvertedIsWhole OneTranscoder AcceptedIsBounded
PROPERTIES HandlingEnds AckArrives
CHECK_DEADLOCK FALSE
