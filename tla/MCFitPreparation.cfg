SPECIFICATION FairSpec
CONSTANTS
    c1 = c1
    c2 = c2
    c3 = c3
    m1 = m1
    None = None
    Callers <- MCCallers
    Models <- MCModels
    Kinds <- MCKinds
INVARIANTS OneSearch NoSearchUnderLoad 
PROPERTY TriggersAreServed
