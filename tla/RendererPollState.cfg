SPECIFICATION Spec
CONSTANTS
    Requests = {r1, r2, r3}
    Poller = Poller
    NoProc = NoProc
    Sources = {s1}
    Stream = Stream
    NoURI = NoURI
    Levels <- LevelsTwo
    Ops <- PollOps
SYMMETRY Symmetry
PROPERTIES
    PollKeepsState
