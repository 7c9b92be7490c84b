SPECIFICATION FairTeardownSpec
CONSTANTS
    Client = Client
    Server = Server
    short = short
    long = long
    NoPayload = NoPayload
    Chunk = {short, long}
    ChunkSize <- TwoSizes
    SeqLimit = 3
    MaxRetries = 1
    ISN <- ZeroISN
    WindowSize <- Window2
    MaxChunks <- ClientSends1
    CanLose = TRUE
    CanDuplicate = FALSE
    OwnsSocket <- ClientOwns
    MayClose <- OnlyClient
INVARIANTS
    TeardownTypeOK
    AcknowledgedIsReceived
PROPERTIES
    CloseReturns
CHECK_DEADLOCK FALSE
