SPECIFICATION CastsSpec
CONSTANTS
    Audio = {x1}
    MaxEntries = 1
    Fetches = {}
    StreamSlots = 1
    Handlers = {h1, h2}
    JobSlots = 1
    MaxServices = 1
INVARIANTS
    JobsExpireWithReader
CHECK_DEADLOCK FALSE
