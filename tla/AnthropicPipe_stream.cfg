SPECIFICATION PipeFairSpec
CONSTANTS
    Chunks <- MCChunks
    CallIDs = {"t1", "t2"}
    NoID = "no id"
    MaxChunks = 3
    Capacity = 1
    Window = 1
INVARIANTS
    BlockDiscipline
    RoundTrip
    ToolsReassemble
    PipeTypeOK
    NothingLost
    DoneEndsBody
PROPERTIES
    PipeEnds
