SPECIFICATION Spec
INVARIANTS LoadHolds   ToolsHold
CHECK_DEADLOCK FALSE
