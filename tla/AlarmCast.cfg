SPECIFICATION Spec
CONSTANTS
    Alarms = {a1}
    Speakers = {s1}
    Runs = {r1}
    Audios = {x1}
    Settings <- MinuteTwo
    Horizon = 2
    SnoozeFor = 2
    NoAlarm = NoAlarm
    NoRun = NoRun
    NoAudio = NoAudio
    Other = Other
    Ops <- CastOps
INVARIANT StopEndsPlayback
CHECK_DEADLOCK FALSE
