SPECIFICATION FairSpec
CONSTANTS
    t1 = t1
    t2 = t2
    s1 = s1
    None = None
    Turns <- MCTurns
    Saved <- MCTurns
    Stops <- MCStops
    Droppable = {}
    SaveResults = {TRUE}
    MaxChunks = 1
    MaxRounds = 0
PROPERTIES
    RequestsAreAnswered
    EveryReplyEnds
CHECK_DEADLOCK FALSE
