SPECIFICATION FairOpeningSpec
CONSTANTS
    Client = Client
    Server = Server
    short = short
    long = long
    Chunk = {short, long}
    ChunkSize <- TwoSizes
    NoPayload = NoPayload
    SeqLimit = 100
    MaxRetries = 1
    ISN <- DifferentISN
    WindowSize <- Window2
    MaxChunks <- ClientSends2
    CanLose = FALSE
    CanDuplicate = FALSE
PROPERTIES
    ImplementsTransfer
    BothOpen
    DeliveredUnlessDropped
    HeardIsServed
    DropIsRepaired
CHECK_DEADLOCK FALSE
