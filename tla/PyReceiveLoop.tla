--------------------------- MODULE PyReceiveLoop ---------------------------
(***************************************************************************)
(* The Python CanFdBus (python/src/gsusb_canfd/bus.py): open(), configure()*)
(* and close() against the adapters, start() and stop() against the        *)
(* receive threads.  Unlike the C++ code it opens an open bus again, waits *)
(* for a thread no longer than two seconds and has no lock: one action is  *)
(* what a thread does between two places where the interpreter may switch  *)
(* to another one that matters.                                            *)
(***************************************************************************)
CONSTANTS
    Callbacks,      \* the callbacks passed to start()
    Threads,        \* bound: receive threads that exist at the same time
    Adapters,       \* the adapters around
    FdAdapters,     \* those that advertise CAN FD
    None            \* Python's None

ASSUME PyAssumption ==
    /\ None \notin Callbacks /\ None \notin Threads /\ None \notin Adapters
    /\ FdAdapters \subseteq Adapters

VARIABLES
    main,       \* the application thread: "idle", "starting" or "joining"
    teardown,   \* the stop() in progress was made by close()
    argument,   \* history: the callback of the start() that no stop() has ended yet
    running,    \* self._running
    callback,   \* self._callback
    worker,     \* self._worker
    device,     \* self._device, the adapter behind it
    started,    \* self._started
    is_fd,      \* self.is_fd
    consts,     \* the adapter that feature and nominal_const were read from
    pc,         \* where each receive thread is, "none" before it is created and
                \* after it has ended, in whatever way
    loaded,     \* the callback each receive thread has read and not yet begun
    channel,    \* per adapter, the mode it was told to run in, or "idle"
    stopped,    \* history: since the last stop() that returned, no start()
    abandoned,  \* history: threads that stop() gave up waiting for
    halfway,    \* history: adapters whose last open() raised half-way
    disturbed,  \* history: adapters that open() took over from a started bus or
                \* left to themselves, or whose last MODE request failed
    refused     \* history: of the configure() calls on the started bus, the last to
                \* store a mode raised before it asked the adapter for it

loop    == <<running, callback, worker>>
bus     == <<device, started, is_fd, consts>>
threads == <<pc, loaded>>
caller  == <<main, teardown, argument>>
usb     == <<channel, halfway, disturbed, refused>>
vars    == <<caller, loop, bus, threads, usb, stopped, abandoned>>

TypeOK ==
    /\ main \in {"idle", "starting", "joining"}
    /\ {teardown, running, started, is_fd, stopped, refused} \subseteq BOOLEAN
    /\ {argument, callback} \subseteq Callbacks \cup {None}
    /\ worker \in Threads \cup {None}
    /\ {device, consts} \subseteq Adapters \cup {None}
    /\ pc \in [Threads -> {"none", "check", "receive", "read", "test", "call", "loaded",
                       "calling"}]
    /\ loaded \in [Threads -> Callbacks \cup {None}]
    /\ channel \in [Adapters -> {"idle", "classic", "fd"}]
    /\ abandoned \subseteq Threads /\ halfway \subseteq Adapters /\ disturbed \subseteq Adapters

Init ==
    /\ main = "idle" /\ teardown = FALSE /\ argument = None
    /\ running = FALSE /\ callback = None /\ worker = None
    /\ device = None /\ started = FALSE /\ is_fd = FALSE /\ consts = None
    /\ pc = [t \in Threads |-> "none"]
    /\ loaded = [t \in Threads |-> None]
    /\ channel = [a \in Adapters |-> "idle"] /\ halfway = {} /\ disturbed = {}
    /\ refused = FALSE
    /\ stopped = TRUE /\ abandoned = {}

-----------------------------------------------------------------------------
(***************************************************************************)
(* open() and configure(), by the application thread.  A call that raises  *)
(* before it has stored or sent anything (no device, no FD, no timing, a   *)
(* failed bit timing request) leaves everything as it was.                 *)
(***************************************************************************)
\* _match() has found adapter a, and self._device is replaced; close() is not
\* called for what was there before.
TakesDevice(a) ==
    /\ main = "idle"
    /\ device' = a
    /\ disturbed' = IF started /\ device # a THEN disturbed \cup {device, a} ELSE disturbed
    /\ UNCHANGED <<caller, loop, threads, started, is_fd, channel, refused, stopped, abandoned>>

OpenDone(a) ==
    /\ TakesDevice(a)
    /\ consts' = a
    /\ halfway' = halfway \ {a}

\* No bulk endpoints, or neither capability request is answered.
OpenHalf(a) ==
    /\ TakesDevice(a)
    /\ halfway' = halfway \cup {a}
    /\ UNCHANGED consts

Mode(fd) == IF fd THEN "fd" ELSE "classic"

\* Variant: CAN FD is not asked for, whatever the adapter advertises.
ReachesAnyMode(fd) ==
    /\ main = "idle" /\ device # None /\ consts # None
    /\ is_fd' = fd
    /\ UNCHANGED <<caller, loop, threads, device, consts, halfway, stopped, abandoned>>

\* configure() has sent the timings and stored the mode.
ReachesMode(fd) ==
    /\ main = "idle" /\ device # None /\ consts # None
    /\ fd => consts \in FdAdapters
    /\ is_fd' = fd
    /\ UNCHANGED <<caller, loop, threads, device, consts, halfway, stopped, abandoned>>

\* An optional mode is not supported: the mode is stored, and the adapter, which
\* may be running in another one, is not asked for it.
ConfigureRefused(fd) ==
    /\ ReachesMode(fd)
    /\ refused' = started
    /\ UNCHANGED <<started, channel, disturbed>>

\* The MODE request fails, which the adapter may yet have executed.
ConfigureFails(fd) ==
    /\ ReachesMode(fd)
    /\ channel' \in {channel, [channel EXCEPT ![device] = Mode(fd)]}
    /\ disturbed' = disturbed \cup {device}
    /\ UNCHANGED <<started, refused>>

ConfigureDone(fd) ==
    /\ ReachesMode(fd)
    /\ channel' = [channel EXCEPT ![device] = Mode(fd)]
    /\ disturbed' = disturbed \ {device} /\ refused' = FALSE
    /\ started' = TRUE

-----------------------------------------------------------------------------
(***************************************************************************)
(* start(), stop() and close().                                            *)
(***************************************************************************)
\* start(), refused while a loop is running.  (Bound: a thread is left.)
Start(c) ==
    /\ main = "idle" /\ device # None /\ started /\ ~running
    /\ \E t \in Threads : pc[t] = "none"
    /\ callback' = c /\ argument' = c
    /\ stopped' = FALSE
    /\ main' = "starting"
    /\ UNCHANGED <<teardown, running, worker, bus, threads, usb, abandoned>>

StartThread(t) ==
    /\ main = "starting"
    /\ pc[t] = "none"
    /\ running' = TRUE
    /\ worker' = t
    /\ pc' = [pc EXCEPT ![t] = "check"]
    /\ abandoned' = abandoned \ {t}
    /\ main' = "idle"
    /\ UNCHANGED <<teardown, argument, callback, bus, loaded, usb, stopped>>

\* Variant: the device is let go before anybody asks whether it was started.
ReleasesUnasked ==
    /\ device' = None
    /\ UNCHANGED <<started, is_fd, consts, usb>>

\* close() after its stop(): a started channel is reset, which may fail
\* unnoticed, and the device is let go.
Releases ==
    /\ IF device # None /\ started
       THEN \/ channel' = [channel EXCEPT ![device] = "idle"] /\ disturbed' = disturbed \ {device}
            \/ UNCHANGED channel /\ disturbed' = disturbed \cup {device}
       ELSE UNCHANGED <<channel, disturbed>>
    /\ started' = (started /\ device = None)
    /\ device' = None
    /\ refused' = FALSE
    /\ UNCHANGED <<is_fd, consts, halfway>>

StopForgets(closing) ==
    /\ worker' = None
    /\ main' = "idle" /\ teardown' = FALSE
    /\ stopped' = TRUE /\ argument' = None
    /\ IF closing THEN Releases ELSE UNCHANGED <<bus, usb>>

\* Variant: the callback stays installed.
StopEndsKeepsCallback(closing) == StopForgets(closing) /\ UNCHANGED callback

\* The end of stop(), or of close().
StopEnds(closing) == StopForgets(closing) /\ callback' = None

\* stop(), or close(), without a thread to wait for.
StopNoThread(closing) ==
    /\ main = "idle" /\ worker = None
    /\ running' = FALSE
    /\ StopEnds(closing)
    /\ UNCHANGED <<threads, abandoned>>

\* stop(), or close(), up to join().
StopJoins(closing) ==
    /\ main = "idle" /\ worker # None
    /\ running' = FALSE
    /\ main' = "joining" /\ teardown' = closing
    /\ UNCHANGED <<argument, callback, worker, bus, threads, usb, stopped, abandoned>>

\* Variant: stop() clears the flag and nothing else.
StopOnlyClearsFlag ==
    /\ main = "joining"
    /\ abandoned' = abandoned \cup {worker}
    /\ StopEndsKeepsCallback(teardown)
    /\ UNCHANGED <<running, threads>>

\* join() returns because the thread has ended.
Joined ==
    /\ main = "joining" /\ pc[worker] = "none"
    /\ StopEnds(teardown)
    /\ UNCHANGED <<running, threads, abandoned>>

\* Variant: a join() without a timeout.
JoinForever == Joined

\* Two seconds are over.  A thread ends its read within 0.1 s, so this one is
\* still in its callback.
JoinTimesOut ==
    /\ main = "joining" /\ pc[worker] = "calling"
    /\ abandoned' = abandoned \cup {worker}
    /\ StopEnds(teardown)
    /\ UNCHANGED <<running, threads>>

-----------------------------------------------------------------------------
(***************************************************************************)
(* A receive thread.                                                       *)
(***************************************************************************)
Moves(t, from, to) ==
    /\ pc[t] = from
    /\ pc' = [pc EXCEPT ![t] = to]
    /\ UNCHANGED <<caller, loop, bus, usb, stopped, abandoned>>

Check(t) == Moves(t, "check", IF running THEN "receive" ELSE "none") /\ UNCHANGED loaded

\* receive() raises an ArgumentError without a started device, and the loop ends.
Receive(t) ==
    /\ Moves(t, "receive", IF device # None /\ started THEN "read" ELSE "none")
    /\ UNCHANGED loaded

\* The read returns a frame, times out or fails; a device that was released in
\* the meantime is None, which nothing catches.
ReadFrame(t)   == device # None /\ Moves(t, "read", "test") /\ UNCHANGED loaded
ReadTimeout(t) == device # None /\ Moves(t, "read", "check") /\ UNCHANGED loaded
ReadFails(t)   == Moves(t, "read", "none") /\ UNCHANGED loaded

\* self._callback is compared with None, then read again, and what was read is
\* called; None is not callable.
Test(t) == Moves(t, "test", IF callback = None THEN "check" ELSE "call") /\ UNCHANGED loaded

Load(t) ==
    /\ Moves(t, "call", IF callback = None THEN "none" ELSE "loaded")
    /\ loaded' = [loaded EXCEPT ![t] = callback]

Call(t) ==
    /\ Moves(t, "loaded", "calling")
    /\ loaded' = [loaded EXCEPT ![t] = None]

CallbackReturns(t) == Moves(t, "calling", "check") /\ UNCHANGED loaded

\* An exception of the callback ends the thread, with self._running still set.
CallbackRaises(t) == Moves(t, "calling", "none") /\ UNCHANGED loaded

ThreadStep(t) ==
    \/ Check(t) \/ Receive(t) \/ ReadFrame(t) \/ ReadTimeout(t) \/ ReadFails(t)
    \/ Test(t) \/ Load(t) \/ Call(t)

Next ==
    \/ \E a \in Adapters : OpenDone(a) \/ OpenHalf(a)
    \/ \E fd \in BOOLEAN : ConfigureRefused(fd) \/ ConfigureFails(fd) \/ ConfigureDone(fd)
    \/ \E c \in Callbacks : Start(c)
    \/ \E t \in Threads : StartThread(t)
    \/ \E closing \in BOOLEAN : StopNoThread(closing) \/ StopJoins(closing)
    \/ Joined
    \/ JoinTimesOut
    \/ \E t \in Threads : ThreadStep(t) \/ CallbackReturns(t) \/ CallbackRaises(t)

Spec == Init /\ [][Next]_vars

\* The interpreter runs every thread, a read ends within 0.1 s and a join()
\* within two.  Nothing says that a callback ever returns.
Fairness ==
    /\ WF_vars(Joined \/ JoinTimesOut)
    /\ WF_vars(\E t \in Threads : StartThread(t))
    /\ \A t \in Threads : WF_vars(ThreadStep(t))

FairSpec == Spec /\ Fairness

-----------------------------------------------------------------------------
(***************************************************************************)
(* Properties.                                                             *)
(***************************************************************************)
RunsAsBelieved(a) ==
    /\ channel[a] # "idle" <=> a = device /\ started
    /\ a = device /\ started /\ ~refused => channel[a] = Mode(is_fd)

Alive == {t \in Threads : pc[t] # "none"}

\* README: "the callback mode runs on one internal thread", and frames come
\* "one after another".  There is never a second receive thread.
OneReceiveThread == \A t, u \in Alive : t = u

\* When stop() has returned and had not to give up, no thread is left, none has
\* the callback, and the next start() is not refused.
StopIsComplete ==
    main = "idle" /\ stopped =>
        ~running /\ callback = None /\ worker = None /\ Alive \subseteq abandoned

\* Whatever was opened over what, failed or was repeated: but for adapters that
\* open() took from a started bus without a close(), or whose last MODE request
\* failed, an adapter runs if and only if the bus holds it as started.  It runs in
\* the mode that frames are sized for, unless the last configure() to get as far
\* as the mode was refused: that one has changed the size and not the adapter.
ChannelsAsBelieved == main = "idle" => \A a \in Adapters \ disturbed : RunsAsBelieved(a)

\* CAN FD is only asked of an adapter that advertises it, although the constants
\* outlive close(): unless the open() of that adapter raised half-way.
FdOnlyAsAdvertised ==
    [][\A a \in Adapters : channel[a] # "fd" /\ channel'[a] = "fd" =>
          a \in FdAdapters \cup halfway]_vars

\* Once stop() has returned no thread reads self._callback to call it, not even
\* one that stop() gave up, and none begins a callback, but for a given-up thread
\* that the last start() revived and that had read its callback before the stop():
\* stop() waits for the new thread only.
NothingBeginsAfterStop ==
    [][\A t \in Threads :
          /\ pc[t] # "loaded" /\ pc'[t] = "loaded" => ~stopped /\ loaded'[t] = argument
          /\ pc[t] # "calling" /\ pc'[t] = "calling" =>
                t \in abandoned \/ (~stopped /\ loaded[t] = argument)]_vars

\* stop() and close() return even when a callback never does.
CallsReturn == main # "idle" ~> main = "idle"

-----------------------------------------------------------------------------
(***************************************************************************)
(* The inductive invariant behind the safety properties.                   *)
(***************************************************************************)
\* What each point of the application thread may rely on: self._running, the
\* thread and the callback come and go together.
CallerKnows ==
    /\ main = "idle" => (running <=> ~stopped)
    /\ main # "idle" => ~running /\ ~stopped
    /\ worker # None <=> running \/ main = "joining"
    /\ callback = argument
    /\ stopped <=> argument = None

\* Whoever runs is the thread of this start() or was given up.
ThreadsKnown == Alive \subseteq abandoned \cup {worker}

\* A started bus has a device, and the constants are those of the device unless
\* its open() raised half-way.
DeviceKnown ==
    /\ started => device # None
    /\ device # None => consts = device \/ device \in halfway

\* The callback that the thread of this start() has read is the one it was given,
\* as long as stop() does not give that thread up.
LoadedKnown ==
    \A t \in Threads \ abandoned : pc[t] = "loaded" => ~stopped /\ loaded[t] = argument

\* ChannelsAsBelieved, also while stop() waits and start() starts.
ChannelsKnown == \A a \in Adapters \ disturbed : RunsAsBelieved(a)

PyInv == TypeOK /\ CallerKnows /\ ThreadsKnown /\ LoadedKnown /\ DeviceKnown /\ ChannelsKnown
=============================================================================
