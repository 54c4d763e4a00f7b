SPECIFICATION Spec
CONSTANTS
    c1 = c1
    c2 = c2
    c3 = c3
    m1 = m1
    m2 = m2
    None = None
    Clients <- MCClients
    Models <- MCModels
    Kinds <- MCKinds
    Droppable <- MCDroppable
    Crashing = TRUE
SYMMETRY Symmetry
INVARIANTS OneServer NeverRelabelled  PreparedIsRunning
PROPERTY NeverUnderWork
