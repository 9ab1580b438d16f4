CONSTANTS
    long = long  short = short
    Messages = {long, short}
    Size <- MCSize
    Closing = Closing
    Connect = Connect
    None = None
    Capacity = 2
    Polls = {"edge", "level"}
    Foreign = {short}
    Disables = {"level"}
    Faults = TRUE
    MaxDepth = 2
    Streams <- MCStreams
    MaxStreams = 2
    Window = 2
    Initials <- MCInitials
    FrameMax = 2
    Parts <- MCParts
    MaxParts = 2
    LocalWindow = 2
    Calls = {1, 2}
    Outcomes = {"trying", "up", "refused"}
    AtOnce = FALSE
SPECIFICATION Spec
INVARIANTS ConnectionSafety CompatSafety Http2Safety
PROPERTIES Carried
CHECK_DEADLOCK FALSE
