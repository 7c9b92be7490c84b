SPECIFICATION HandshakeSpec
CONSTANTS
    Client = Client
    Server = Server
    Attempts = 3
    Accepts = 3
    ClientISN <- ClientNumbers
    ServerISN <- ServerNumbers
    CanLose = TRUE
    CanDuplicate = TRUE
    Chunk = {}
    ChunkSize <- NoChunks
    NoPayload = NoPayload
    SeqLimit = 7
PROPERTIES
    EverySynIsAnswered
CHECK_DEADLOCK FALSE
