\* Any three handlers at once, without the one that asks for a lock it holds.
CONSTANTS
    Nobody = Nobody
    Clients = {c1, c2, c3}
    Served = {"chat_sse", "save_reply", "chat_stop", "spawn_agent_run", "start_sidecar",
              "prepare_conversation", "inference_status", "system_status_text", "put_permission_mode",
              "await_approval", "execute_tool", "delete_workspace", "export_conversation", "shut_down"}
SPECIFICATION LocksSpec
SYMMETRY Symmetry
INVARIANT NoDeadlock
