----------------------------- MODULE MCTerminal -----------------------------
(* Small instances of Terminal: two ids for the filter, two payloads to tell *)
(* a repetition from news, and the payload without bytes, which is like no   *)
(* other.                                                                    *)
EXTENDS Terminal, TLC

Symmetry == Permutations(Ids) \cup Permutations(Payloads \ {Empty})
=============================================================================
