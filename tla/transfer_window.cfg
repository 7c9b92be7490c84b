SPECIFICATION Spec
CONSTANTS
    Client = Client
    Server = Server
    short = short
    long = long
    Chunk = {short, long}
    ChunkSize <- TwoSizes
    NoPayload = NoPayload
    SeqLimit = 4
    MaxRetries = 1
    ISN <- ZeroISN
    WindowSize <- Window3
    MaxChunks <- ClientSends3
    CanLose = FALSE
    CanDuplicate = FALSE
INVARIANTS
    ExcessIsBounded
    OutOfOrderIsAhead
    IInv
PROPERTIES
    StreamToServer
CHECK_DEADLOCK FALSE
