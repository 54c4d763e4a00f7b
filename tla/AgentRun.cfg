\* Two runs of one conversation. The first uses tools and may be stopped from the
\* Sessions row; the second, which only talks, may lose its request before it is registered.
CONSTANTS
    None = None
    Runs = {r1, r2}
    Droppable = {r2}
    Stoppable = {r1}
    Silenceable = {r1}
    Using = {r1}
    RegistrySize = 1
    MaxLate = 2
    MaxCrashes = 1
SPECIFICATION Spec
INVARIANTS
    OverIsRecorded
    RecordsAgree
    AtMostOneToolAfterCancel
PROPERTY RecordSpec
CHECK_DEADLOCK FALSE
