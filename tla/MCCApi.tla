------------------------------ MODULE MCCApi ------------------------------
(* Small instances of CApi: two callbacks tell a registration from another. *)
EXTENDS CApi
=============================================================================
