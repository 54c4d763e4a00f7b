\* The handler that asks for a lock it holds, and the one that waits between.
CONSTANTS
    Nobody = Nobody
    Clients = {c1, c2, c3}
    Served = {"session_action", "spawn_agent_run"}
SPECIFICATION LocksSpec
INVARIANT RowActionsEnd
