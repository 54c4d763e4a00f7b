SPECIFICATION Spec
CONSTANTS
    c1 = c1
    c2 = c2
    c3 = c3
    p1 = p1
    p2 = p2
    w1 = w1
    w2 = w2
    w3 = w3
    None = None
    Convs <- MCConvs
    Projects <- MCProjects
    Names = {"a.png"}
    Workers <- MCWorkers
    Starts <- MCStarts
    Keep = 2
    MaxMessages = 6
    MaxEdits = 2
SYMMETRY Symmetry
INVARIANTS SummaryIsOfItsPrefix RunWorksInItsProject ContinuesWhatIsOver AttachmentsHaveTheirBytes
CHECK_DEADLOCK FALSE
