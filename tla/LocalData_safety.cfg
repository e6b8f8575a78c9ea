SPECIFICATION Spec
CONSTANTS
  a = a  b = b  k1 = k1  c1 = c1  c2 = c2  none = none  absent = absent
  User = {a, b}
  Key = {k1}
  Call = {c1, c2}
  None = none
  Absent = absent
  Ops = {"delete_document", "delete_documents", "things_command", "upsert_session", "delete_session", "upsert_message", "delete_messages", "create_version", "create_dataset", "delete_dataset", "add_to_dataset", "save_evals", "notify", "cache_location", "save_actors", "execute_action"}
  Used = {"crdt_documents", "internal_kv", "things_change_log", "things_content_snapshots", "chat_sessions", "chat_messages", "chat_runtime_state", "agent_versions", "eval_datasets", "eval_dataset_sessions", "eval_dataset_runs", "eval_dataset_run_items", "eval_dataset_run_evals", "notifications", "location_cache", "things_actor_meta", "action_invocations"}
  MaxWrites = 2
  MaxSwitches = 2
  MaxFaults = 1
  Page = 1
SYMMETRY DataSymmetry
INVARIANT WipeGoesThrough
INVARIANT OthersRowsAreGone
INVARIANT MessagesHaveSession
INVARIANT NothingBehindCursor
CHECK_DEADLOCK FALSE
