SPECIFICATION PartsSpec
CONSTANTS
    Requests = {r1, r2, r3}
    Poller = Poller
    NoProc = NoProc
    Sources = {s1, s2}
    Stream = Stream
    NoURI = NoURI
    Levels <- LevelsTwo
    Ops <- AllOps
    Stopper = r2
    Third = r3
    Elsewhere = s2
INVARIANTS
    CancelledIsSuperseded
    CloseStopsTheCloud
    StopURIStopsItsOwn
PROPERTIES
    CalmPollKeepsState
    LatestCommandWins
    CallsReturn
    PollMirrors
