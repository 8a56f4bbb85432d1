SPECIFICATION Spec
CONSTANTS
    Settings <- ToolSettings
    Nothing = Nothing
    Speakers = {1, 2}
    NoSpeaker = 0
    NoHost = 0
    NoTool = 0
    MaxFaults = 0
INVARIANT AirUsesTheTool
