SPECIFICATION Spec
CONSTANTS
    Alarms = {a1, a2}
    Speakers = {s1}
    Runs = {r1, r2}
    Audios = {x1, x2}
    Settings <- MinuteTwo
    Horizon = 2
    SnoozeFor = 2
    NoAlarm = NoAlarm
    NoRun = NoRun
    NoAudio = NoAudio
    Other = Other
    Ops <- EditOps
INVARIANTS RingtoneStays SavedHasRingtone RingingIsCurrent OneRingsPerSpeaker
SYMMETRY Symmetry
CHECK_DEADLOCK FALSE
