SPECIFICATION FairSpec
CONSTANTS
    Client = Client
    Server = Server
    short = short
    long = long
    Chunk = {short, long}
    ChunkSize <- TwoSizes
    NoPayload = NoPayload
    SeqLimit = 100
    MaxRetries = 1
    ISN <- ZeroISN
    WindowSize <- Window2
    MaxChunks <- ClientSends1
    CanLose = TRUE
    CanDuplicate = FALSE
PROPERTIES
    DueIsServed
CHECK_DEADLOCK FALSE
