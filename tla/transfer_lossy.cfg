SPECIFICATION Spec
CONSTANTS
    Client = Client
    Server = Server
    short = short
    long = long
    Chunk = {short, long}
    ChunkSize <- TwoSizes
    NoPayload = NoPayload
    SeqLimit = 100
    MaxRetries = 1
    ISN <- ZeroISN
    WindowSize <- Window3
    MaxChunks <- ClientSends2
    CanLose = TRUE
    CanDuplicate = TRUE
INVARIANTS
    TypeOK
    InOrderDelivery
    AcknowledgedIsReceived
    UnreceivedIsKept
    EachSegmentTakenOnce
    ConfirmedButOne
    TimedUntilAcknowledged
CHECK_DEADLOCK FALSE
