---------------------------- MODULE MCReceiveLoop ----------------------------
(* Small instances of ReceiveLoop: two callbacks tell an old one from a new *)
(* one; more add nothing, since at most one is installed at a time.         *)
EXTENDS ReceiveLoop
=============================================================================
