SPECIFICATION FairSpec
CONSTANTS
    PipeSize = 1
    Chunks = 1
    SocketSize = 1
    Events = 1
    MaxIncidents = 2
INVARIANTS
    NothingLeft
PROPERTIES
    ReceiverSettles
    AudioIsHeard
