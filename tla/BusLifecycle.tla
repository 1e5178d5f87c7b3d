---------------------------- MODULE BusLifecycle ----------------------------
(***************************************************************************)
(* What the bus objects promise about the adapters they use, without       *)
(* requests, configurations or failures: README "CanFdBus owns an          *)
(* exclusive USB handle".  A bus must own an adapter to be started, it can *)
(* only become closed by giving up what it owns, and an adapter passes     *)
(* from one bus to another only through being free.                        *)
(***************************************************************************)
CONSTANTS Buses, Adapters, None

VARIABLES phase,   \* per bus: "closed", "open" or "started"
          owner    \* per adapter: the bus that owns it, or None

vars == <<phase, owner>>

Init ==
    /\ phase = [b \in Buses |-> "closed"]
    /\ owner = [a \in Adapters |-> None]

Owns(b, a) == owner[a] = b

\* Only a closed bus takes an adapter, and only a free one.
Acquire(b, a) ==
    /\ phase[b] = "closed" /\ owner[a] = None
    /\ phase' = [phase EXCEPT ![b] = "open"]
    /\ owner' = [owner EXCEPT ![a] = b]

\* Only an owner starts its channel.
Start(b) ==
    /\ phase[b] = "open" /\ \E a \in Adapters : Owns(b, a)
    /\ phase' = [phase EXCEPT ![b] = "started"]
    /\ UNCHANGED owner

\* Nothing of a closed bus stays owned.
Release(b) ==
    /\ phase[b] # "closed"
    /\ phase' = [phase EXCEPT ![b] = "closed"]
    /\ owner' = [a \in Adapters |-> IF Owns(b, a) THEN None ELSE owner[a]]

\* An adapter is unplugged; its bus does not notice.
Lose(a) ==
    /\ owner[a] # None
    /\ owner' = [owner EXCEPT ![a] = None]
    /\ UNCHANGED phase

Next ==
    \/ \E b \in Buses, a \in Adapters : Acquire(b, a)
    \/ \E b \in Buses : Start(b) \/ Release(b)
    \/ \E a \in Adapters : Lose(a)

Spec == Init /\ [][Next]_vars
=============================================================================
