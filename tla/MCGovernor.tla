------------------------------ MODULE MCGovernor ------------------------------
(* Three PIDs, every call may fail. *)
EXTENDS Governor

Everything == {"snapshot", "list", "open", "restore", "limit"}
==============================================================================
