SPECIFICATION FairSpec
CONSTANTS
    Alarms = {a1}
    Speakers = {s1}
    Runs = {r1}
    Audios = {x1}
    Settings <- TwoMinutes
    Horizon = 4
    SnoozeFor = 2
    NoAlarm = NoAlarm
    NoRun = NoRun
    NoAudio = NoAudio
    Other = Other
    Ops <- LiveOps
INVARIANTS
    StoppedIsSilent
PROPERTIES
    FiresOnce
    RunsSettle
CHECK_DEADLOCK FALSE
