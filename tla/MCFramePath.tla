---------------------------- MODULE MCFramePath ----------------------------
(***************************************************************************)
(* Small instances of FramePath.  Ids are two bits wide, of which a        *)
(* standard id has one.                                                    *)
(***************************************************************************)
EXTENDS FramePath

F(id, extended, fd, brs, size) ==
    [id |-> id, extended |-> extended, fd |-> fd, brs |-> brs, remote |-> FALSE, size |-> size]

\* An FD payload between two lengths, and a classic frame with an id too wide.
MCFrames == {F(3, TRUE, TRUE, TRUE, 9), F(3, FALSE, FALSE, FALSE, 8)}
MCTraffic == {F(1, FALSE, TRUE, FALSE, 64)}

\* The C++ receive() under a mixed load.
MCMixed ==
    [fd_mode : {TRUE}, hw_timestamp : {FALSE}, drop_echo : BOOLEAN, host : {"C++"},
     frames : {MCFrames}, traffic : {MCTraffic}, torn : {FALSE}, max_frames : {3}]

\* With stamps of the adapter: the Python receive(), and the C++ one with reads that
\* end early.
MCTimed ==
    [fd_mode : {TRUE}, hw_timestamp : {TRUE}, drop_echo : BOOLEAN, host : {"Python"},
     frames : {MCFrames}, traffic : {MCTraffic}, torn : {FALSE}, max_frames : {2}]
MCTorn ==
    [fd_mode : {TRUE}, hw_timestamp : {TRUE}, drop_echo : BOOLEAN, host : {"C++"},
     frames : {MCFrames}, traffic : {MCTraffic}, torn : {TRUE}, max_frames : {2}]

\* Every payload of both kinds, and one byte more than either may have, on both
\* kinds of bus, through the C API with the C++ library under it, and in Python.
MCAllFrames == [id : {3}, extended : BOOLEAN, fd : BOOLEAN, brs : BOOLEAN,
                remote : BOOLEAN, size : 0 .. 65]
MCCodec ==
    [fd_mode : BOOLEAN, hw_timestamp : {FALSE}, drop_echo : {FALSE}, host : {"C", "Python"},
     frames : {{f} : f \in MCAllFrames}, traffic : {{}}, torn : {FALSE}, max_frames : {1}]

MCSetups == MCMixed \cup MCTimed \cup MCTorn \cup MCCodec

\* Stamps of the adapter under the mixed load.
MCStamped ==
    [fd_mode : {TRUE}, hw_timestamp : {TRUE}, drop_echo : {FALSE}, host : {"C++"},
     frames : {MCFrames}, traffic : {MCTraffic}, torn : {FALSE}, max_frames : {2}]
=============================================================================
