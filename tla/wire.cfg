SPECIFICATION Spec
CONSTANTS
    MaxLength = 51
    Outgoing <- MCOutgoing
    AddressOf <- MCAddressOf
    Reader <- MCReader
    LocalPort <- MCLocalPort
    RemotePort <- MCRemotePort
    MaxSent = 2
    AlteredBits = {0, 1, 3, 5, 7}
INVARIANTS
    WireTypeOK
    IntactIsDelivered
    AcceptedWasBuilt
    HeaderIsTrue
    HiddenIsRepeated
    NothingShownTwice
    ShownIsTrue
CHECK_DEADLOCK FALSE
