SPECIFICATION FairSpec
CONSTANTS
    Sessions = {s1, s2}
    Slots = 2
    Sliders = {s1}
    Volumes = {1, 2}
    NoSession = NoSession
    NoVolume = NoVolume
INVARIANTS
    OneStreams
    LatestVolumeIsKept
    EndedIsOver
PROPERTIES
    SessionsEnd
    RecordSettles
    CloseEnds
