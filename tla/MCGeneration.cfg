SPECIFICATION Spec
CONSTANTS
    t1 = t1
    t2 = t2
    s1 = s1
    None = None
    Turns <- MCTurns
    Saved <- MCTurns
    Stops <- MCStops
    Droppable <- MCRequests
    SaveResults = {TRUE, FALSE}
    MaxChunks = 2
    MaxRounds = 1
SYMMETRY Symmetry
INVARIANTS
    OneWriter
    StopKeepsWhatItTook
    
    NoOrphan
    OneLive
    LostOnlyByItsOwner
PROPERTIES
    ReplySpec
CHECK_DEADLOCK FALSE
