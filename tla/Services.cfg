SPECIFICATION FairSpec
CONSTANTS
    Tasks = {t1, t2}
    NoTask = NoTask
    Users = {u1}
    NoUser = NoUser
    QRLimit = 1
    MaxTokens = 3
    SIDs = {s1, s2}
    SubLimit = 1
    Renderers = {r1, r2}
    NoRenderer = NoRenderer
    Looks = {look1, look2}
    Commands = {c1}
    Answers = {a1, a2, a3}
    AnswerSlots = 2
    Audio = {x1, x2}
    MaxEntries = 1
    Fetches = {q1, q2}
    StreamSlots = 1
    Handlers = {h1, h2}
    JobSlots = 1
    MaxServices = 2
INVARIANTS
    NoChangeIsMissed
    PromisedIsServed
    StopWaitsForAll
    CastIsServed
PROPERTIES
    LogoutHolds
    CredentialsMoveOn
    ServicesSettle
CHECK_DEADLOCK FALSE
