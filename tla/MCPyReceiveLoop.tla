-------------------------- MODULE MCPyReceiveLoop --------------------------
(* Small instances of PyReceiveLoop: two callbacks tell an old one from a    *)
(* new one, two threads one that was given up from a new one, and an FD and  *)
(* a classic adapter whose constants they were.                              *)
EXTENDS PyReceiveLoop
=============================================================================
