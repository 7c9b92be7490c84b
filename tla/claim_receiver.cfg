SPECIFICATION Spec
CONSTANTS
    Client = Client
    Server = Server
    short = short
    long = long
    Chunk = {short, long}
    ChunkSize <- TwoSizes
    NoPayload = NoPayload
    SeqLimit = 100
    MaxRetries = 1
    ISN <- ZeroISN
    WindowSize <- Window2
    MaxChunks <- ClientSends2
    CanLose = FALSE
    CanDuplicate = FALSE
INVARIANTS
    ReceiverSurvives
CHECK_DEADLOCK FALSE
