----------------------------- MODULE MCCanFdBus -----------------------------
(***************************************************************************)
(* Small instances of CanFdBus: adapter a1 speaks CAN FD, reports extended *)
(* constants and has hardware timestamps; a2 has FD and listen-only but    *)
(* answers the legacy constants request only.                              *)
(***************************************************************************)
EXTENDS CanFdBus, TLC

CONSTANTS a1, a2

MCFeature == [a \in Adapters |-> IF a = a1 THEN {"fd", "hw_timestamp"}
                                         ELSE {"fd", "listen_only"}]
MCReportsExt == {a1}
MCNominal == [a \in Adapters |-> {"r500k"}]
MCData == [a \in Adapters |-> {"r2M"}]

Cfg(rate, data, fd, modes) ==
    [bitrate |-> rate, data_bitrate |-> data, fd |-> fd,
     hw_timestamp |-> TRUE, modes |-> modes]

\* Accepted FD, accepted classic, a mode only a2 has (with FD), a nominal and
\* a data rate that no timing exists for.
MCConfigs == { Cfg("r500k", "r2M", TRUE, {}), Cfg("r500k", "r2M", FALSE, {}),
               Cfg("r500k", "r2M", TRUE, {"listen_only"}),
               Cfg("r7", "r2M", TRUE, {}), Cfg("r500k", "r7", TRUE, {}) }

\* For two buses on one adapter: one accepted configuration of each kind.
MCFewConfigs == { Cfg("r500k", "r2M", TRUE, {}), Cfg("r500k", "r2M", FALSE, {}) }

\* Nothing in the code tells one bus object from another.
BusSymmetry == Permutations(Buses)
=============================================================================
