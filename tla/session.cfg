SPECIFICATION FairSessionSpec
CONSTANTS
    Client = Client
    Server = Server
    empty = empty
    greeting = greeting
    largest = largest
    excessive = excessive
    Message = {empty, greeting, largest, excessive}
    MessageSize <- Sizes
    WindowSize = 4096
    NoValue = NoValue
INVARIANTS
    SessionTypeOK
    SessionsAgree
    FinAfterHandshake
    OnlyRecvRefuses
PROPERTIES
    ProgramsEnd
CHECK_DEADLOCK FALSE
