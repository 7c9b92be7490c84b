SPECIFICATION TeardownSpec
CONSTANTS
    Client = Client
    Server = Server
    short = short
    long = long
    NoPayload = NoPayload
    Chunk = {short}
    ChunkSize <- OneSize
    SeqLimit = 100
    MaxRetries = 1
    ISN <- ZeroISN
    WindowSize <- Window2
    MaxChunks <- ClientSends1
    CanLose = FALSE
    CanDuplicate = FALSE
    OwnsSocket <- ClientOwns
    MayClose <- OnlyClient
PROPERTIES
    RecvGetsAccepted
CHECK_DEADLOCK FALSE
