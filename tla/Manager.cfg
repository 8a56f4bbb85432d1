SPECIFICATION FairSpec
CONSTANTS
    Settings <- AllSettings
    Nothing = Nothing
    Speakers = {1, 2}
    NoSpeaker = 0
    NoHost = 0
    NoTool = 0
    MaxFaults = 1
INVARIANTS
    SavedIsKept
    AirPlayHasRenderer
    OneReceiver
PROPERTIES
    SettingsAreApplied
