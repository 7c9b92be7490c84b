SPECIFICATION FairTeardownSpec
CONSTANTS
    Client = Client
    Server = Server
    short = short
    long = long
    NoPayload = NoPayload
    Chunk = {short}
    ChunkSize <- OneSize
    SeqLimit = 100
    MaxRetries = 0
    ISN <- ZeroISN
    WindowSize <- Window2
    MaxChunks <- NobodySends
    CanLose = TRUE
    CanDuplicate = FALSE
    OwnsSocket <- ClientOwns
    MayClose <- Peer
INVARIANTS
    FinsAreBounded
    FinConfirmedWithoutData
PROPERTIES
    OwnerReceiverEnds
CHECK_DEADLOCK FALSE
