------------------------- MODULE PyReceiveLoop_proof -------------------------
(***************************************************************************)
(* The safety properties of the Python bus for any number of adapters,     *)
(* receive threads and callbacks, by the inductive invariant PyInv.        *)
(***************************************************************************)
EXTENDS PyReceiveLoop, TLAPS

USE DEF loop, bus, threads, caller, usb, vars

\* PyInv holds of a bus that was just constructed.
LEMMA PyInvInit == Init => PyInv
<1> SUFFICES ASSUME Init PROVE PyInv
  OBVIOUS
<1>1. TypeOK
  BY DEF Init, TypeOK
<1>2. CallerKnows /\ ThreadsKnown /\ LoadedKnown
  BY DEF Init, CallerKnows, ThreadsKnown, LoadedKnown, Alive
<1>3. DeviceKnown /\ ChannelsKnown
  BY DEF Init, DeviceKnown, ChannelsKnown, RunsAsBelieved
<1> QED
  BY <1>1, <1>2, <1>3 DEF PyInv

-----------------------------------------------------------------------------
(***************************************************************************)
(* One lemma for each group of actions: what open() and configure(), what  *)
(* start(), stop() and close(), and what a receive thread does to PyInv.   *)
(***************************************************************************)
\* What the application and the threads know of each other, and the type of
\* their variables, is not touched by a step that leaves all of them alone.
LEMMA ThreadsUntouched ==
    ASSUME CallerKnows, ThreadsKnown, LoadedKnown,
           UNCHANGED <<caller, loop, threads, stopped, abandoned>>
    PROVE  CallerKnows' /\ ThreadsKnown' /\ LoadedKnown'
<1>1. CallerKnows'
  BY DEF CallerKnows
<1>2. Alive' = Alive
  BY DEF Alive
<1>3. ThreadsKnown'
  BY <1>2 DEF ThreadsKnown
<1>4. LoadedKnown'
  BY DEF LoadedKnown
<1> QED
  BY <1>1, <1>3, <1>4

\* What is known of the adapters is not touched by a step that leaves the
\* device, the mode and the adapters alone.
LEMMA DeviceUntouched ==
    ASSUME DeviceKnown, ChannelsKnown, UNCHANGED <<bus, usb>>
    PROVE  DeviceKnown' /\ ChannelsKnown'
BY DEF DeviceKnown, ChannelsKnown, RunsAsBelieved

\* open(), whether it succeeds or raises half-way: an adapter that it takes
\* from a started bus goes to the disturbed ones, together with the new one.
LEMMA OpenKeepsPyInv ==
    ASSUME PyInv, NEW a \in Adapters, OpenDone(a) \/ OpenHalf(a)
    PROVE  PyInv'
<1> USE DEF PyInv
<1>1. TakesDevice(a)
  BY DEF OpenDone, OpenHalf
<1>2. TypeOK'
  <2>1. halfway' \subseteq Adapters /\ consts' \in Adapters \cup {None}
    BY DEF OpenDone, OpenHalf, TypeOK
  <2>2. disturbed' \subseteq Adapters
    BY <1>1, PyAssumption DEF TakesDevice, TypeOK, DeviceKnown
  <2> QED
    BY <1>1, <2>1, <2>2 DEF TakesDevice, TypeOK
<1>3. CallerKnows' /\ ThreadsKnown' /\ LoadedKnown'
  BY <1>1, ThreadsUntouched DEF TakesDevice
<1>4. DeviceKnown'
  BY PyAssumption DEF OpenDone, OpenHalf, TakesDevice, DeviceKnown
<1>5. ChannelsKnown'
  BY <1>1, PyAssumption DEF OpenDone, OpenHalf, TakesDevice, ChannelsKnown, RunsAsBelieved
<1> QED
  BY <1>2, <1>3, <1>4, <1>5

\* configure(), whether it succeeds or fails after the mode was stored.
LEMMA ConfigureKeepsPyInv ==
    ASSUME PyInv, NEW fd \in BOOLEAN,
           ConfigureRefused(fd) \/ ConfigureFails(fd) \/ ConfigureDone(fd)
    PROVE  PyInv'
<1> USE DEF PyInv
<1> USE DEF ConfigureRefused, ConfigureFails, ConfigureDone
<1>1. ReachesMode(fd)
  OBVIOUS
<1>2. device \in Adapters
  BY <1>1 DEF ReachesMode, TypeOK
<1>3. Mode(fd) \in {"classic", "fd"}
  BY DEF Mode
<1>4. channel' \in [Adapters -> {"idle", "classic", "fd"}]
  BY <1>2, <1>3 DEF TypeOK
<1>5. TypeOK'
  BY <1>1, <1>2, <1>4 DEF ReachesMode, TypeOK
<1>6. CallerKnows' /\ ThreadsKnown' /\ LoadedKnown'
  BY <1>1, ThreadsUntouched DEF ReachesMode
<1>7. DeviceKnown'
  BY DEF ReachesMode, DeviceKnown
<1>8. CASE ConfigureRefused(fd)
  BY <1>5, <1>6, <1>7, <1>8 DEF ReachesMode, ChannelsKnown, RunsAsBelieved
<1>9. CASE ConfigureFails(fd)
  BY <1>2, <1>5, <1>6, <1>7, <1>9 DEF ReachesMode, ChannelsKnown, RunsAsBelieved, TypeOK
<1>10. CASE ConfigureDone(fd)
  <2>1. ASSUME NEW a \in Adapters \ disturbed'
        PROVE  RunsAsBelieved(a)'
    BY <1>2, <1>3, <1>10, <2>1 DEF ReachesMode, ChannelsKnown, RunsAsBelieved, Mode, TypeOK
  <2> QED
    BY <1>5, <1>6, <1>7, <2>1 DEF ChannelsKnown
<1> QED
  BY <1>8, <1>9, <1>10

\* start(), before and after its thread has begun: the new thread is the worker
\* and no longer one that was given up.
LEMMA StartKeepsPyInv ==
    ASSUME PyInv, (\E c \in Callbacks : Start(c)) \/ (\E t \in Threads : StartThread(t))
    PROVE  PyInv'
<1> USE DEF PyInv
<1>1. Alive \subseteq abandoned
  BY PyAssumption DEF Start, StartThread, CallerKnows, ThreadsKnown, Alive
<1>2. ASSUME NEW c \in Callbacks, Start(c)
      PROVE  PyInv'
  <2>1. TypeOK'
    BY <1>2 DEF Start, TypeOK
  <2>2. CallerKnows'
    BY <1>2, PyAssumption DEF Start, CallerKnows
  <2>3. ThreadsKnown'
    BY <1>2 DEF Start, ThreadsKnown, Alive
  <2>4. LoadedKnown'
    BY <1>1, <1>2 DEF Start, LoadedKnown, Alive
  <2>5. DeviceKnown' /\ ChannelsKnown'
    BY <1>2, DeviceUntouched DEF Start
  <2> QED
    BY <2>1, <2>2, <2>3, <2>4, <2>5
<1>3. ASSUME NEW t \in Threads, StartThread(t)
      PROVE  PyInv'
  <2>1. TypeOK'
    BY <1>3 DEF StartThread, TypeOK
  <2>2. CallerKnows'
    BY <1>3, PyAssumption DEF StartThread, CallerKnows
  <2>3. ThreadsKnown'
    <3>1. Alive' \subseteq Alive \cup {t}
      BY <1>3 DEF StartThread, Alive, TypeOK
    <3> QED
      BY <1>1, <1>3, <3>1 DEF StartThread, ThreadsKnown
  <2>4. LoadedKnown'
    BY <1>1, <1>3 DEF StartThread, LoadedKnown, Alive, TypeOK
  <2>5. DeviceKnown' /\ ChannelsKnown'
    BY <1>3, DeviceUntouched DEF StartThread
  <2> QED
    BY <2>1, <2>2, <2>3, <2>4, <2>5
<1> QED
  BY <1>2, <1>3

\* What the end of stop() and of close() does once everybody who is still
\* alive was given up: the reset of close() may fail, and says so.
LEMMA StopEndsKeepsPyInv ==
    ASSUME PyInv, NEW closing \in BOOLEAN, StopEnds(closing), running' = FALSE,
           UNCHANGED threads,
           abandoned' \subseteq Threads, Alive \subseteq abandoned'
    PROVE  PyInv'
<1> USE DEF PyInv, StopEnds, StopForgets
<1>1. CallerKnows' /\ ThreadsKnown'
  BY DEF CallerKnows, ThreadsKnown, Alive
<1>2. LoadedKnown'
  BY DEF LoadedKnown, Alive
<1>3. CASE closing
  <2>1. Releases
    BY <1>3
  <2>2. channel' \in [Adapters -> {"idle", "classic", "fd"}] /\ disturbed' \subseteq Adapters
    BY <2>1 DEF Releases, TypeOK
  <2>3. ~started'
    BY <2>1 DEF Releases, DeviceKnown
  <2>4. TypeOK'
    <3>1. {device', consts'} \subseteq Adapters \cup {None} /\ halfway' \subseteq Adapters
      BY <2>1 DEF Releases, TypeOK
    <3>2. {teardown', running', started', is_fd', stopped', refused'} \subseteq BOOLEAN
      BY <2>1, <2>3 DEF Releases, TypeOK
    <3> QED
      BY <2>2, <3>1, <3>2 DEF TypeOK
  <2>5. DeviceKnown'
    BY <2>1, <2>3 DEF Releases, DeviceKnown
  <2>6. ChannelsKnown'
    <3>1. ASSUME NEW a \in Adapters \ disturbed'
          PROVE  channel'[a] = "idle"
      BY <2>1, <3>1 DEF Releases, ChannelsKnown, RunsAsBelieved, DeviceKnown, TypeOK
    <3> QED
      BY <2>3, <3>1 DEF ChannelsKnown, RunsAsBelieved
  <2> QED
    BY <1>1, <1>2, <2>4, <2>5, <2>6
<1>4. CASE ~closing
  <2>1. TypeOK'
    <3>1. {teardown', running', started', is_fd', stopped', refused'} \subseteq BOOLEAN
      BY <1>4 DEF TypeOK
    <3> QED
      BY <1>4, <3>1 DEF TypeOK
  <2>2. DeviceKnown' /\ ChannelsKnown'
    BY <1>4, DeviceUntouched
  <2> QED
    BY <1>1, <1>2, <2>1, <2>2
<1> QED
  BY <1>3, <1>4

\* stop() and close(): without a thread, up to join(), and after join() has
\* returned or timed out.
LEMMA StopKeepsPyInv ==
    ASSUME PyInv,
           \/ \E closing \in BOOLEAN : StopNoThread(closing) \/ StopJoins(closing)
           \/ Joined
           \/ JoinTimesOut
    PROVE  PyInv'
<1> USE DEF PyInv
<1>1. ASSUME NEW closing \in BOOLEAN, StopNoThread(closing)
      PROVE  PyInv'
  <2>1. Alive \subseteq abandoned
    BY <1>1, PyAssumption DEF StopNoThread, ThreadsKnown, Alive
  <2> QED
    BY <1>1, <2>1, StopEndsKeepsPyInv DEF StopNoThread, TypeOK
<1>2. ASSUME NEW closing \in BOOLEAN, StopJoins(closing)
      PROVE  PyInv'
  <2>1. TypeOK'
    BY <1>2 DEF StopJoins, TypeOK
  <2>2. CallerKnows'
    BY <1>2 DEF StopJoins, CallerKnows
  <2>3. ThreadsKnown'
    BY <1>2 DEF StopJoins, ThreadsKnown, Alive
  <2>4. LoadedKnown'
    BY <1>2 DEF StopJoins, LoadedKnown
  <2>5. DeviceKnown' /\ ChannelsKnown'
    BY <1>2, DeviceUntouched DEF StopJoins
  <2> QED
    BY <2>1, <2>2, <2>3, <2>4, <2>5
<1>3. CASE Joined
  <2>1. Alive \subseteq abandoned
    BY <1>3 DEF Joined, ThreadsKnown, Alive
  <2>2. running = FALSE /\ teardown \in BOOLEAN
    BY <1>3 DEF Joined, CallerKnows, TypeOK
  <2> QED
    BY <1>3, <2>1, <2>2, StopEndsKeepsPyInv DEF Joined, TypeOK
<1>4. CASE JoinTimesOut
  <2>1. worker \in Threads
    BY <1>4 DEF JoinTimesOut, CallerKnows, TypeOK
  <2>2. Alive \subseteq abandoned' /\ abandoned' \subseteq Threads
    BY <1>4, <2>1 DEF JoinTimesOut, ThreadsKnown, TypeOK
  <2>3. running = FALSE /\ teardown \in BOOLEAN
    BY <1>4 DEF JoinTimesOut, CallerKnows, TypeOK
  <2> QED
    BY <1>4, <2>2, <2>3, StopEndsKeepsPyInv DEF JoinTimesOut
<1> QED
  BY <1>1, <1>2, <1>3, <1>4

\* A step of a receive thread, also of one that was given up: it may end, but
\* no thread comes back to life, and everything else is left alone.
LEMMA ThreadKeepsPyInv ==
    ASSUME PyInv, NEW t \in Threads, ThreadStep(t) \/ CallbackReturns(t) \/ CallbackRaises(t)
    PROVE  PyInv'
<1> USE DEF PyInv
<1> USE DEF ThreadStep, Check, Receive, ReadFrame, ReadTimeout, ReadFails, Test, Load, Call,
            CallbackReturns, CallbackRaises, Moves
<1>1. /\ UNCHANGED <<caller, loop, bus, usb, stopped, abandoned>>
      /\ pc[t] # "none"
  OBVIOUS
<1>2. PICK to \in {"none", "check", "receive", "read", "test", "call", "loaded", "calling"} :
        pc' = [pc EXCEPT ![t] = to]
  OBVIOUS
<1>3. PICK c \in Callbacks \cup {None} : loaded' = [loaded EXCEPT ![t] = c]
  <2>1. loaded = [loaded EXCEPT ![t] = loaded[t]] /\ loaded[t] \in Callbacks \cup {None}
    BY DEF TypeOK
  <2> QED
    BY <2>1 DEF TypeOK
<1>4. TypeOK'
  BY <1>1, <1>2, <1>3 DEF TypeOK
<1>5. CallerKnows'
  BY <1>1 DEF CallerKnows
<1>6. Alive' \subseteq Alive
  BY <1>1, <1>2 DEF Alive, TypeOK
<1>7. ThreadsKnown'
  BY <1>1, <1>6 DEF ThreadsKnown
<1>8. ASSUME t \notin abandoned, pc'[t] = "loaded"
      PROVE  ~stopped /\ loaded'[t] = argument
  <2>1. Load(t) /\ callback # None
    BY <1>8 DEF TypeOK
  <2> QED
    BY <2>1 DEF CallerKnows, TypeOK
<1>9. LoadedKnown'
  BY <1>1, <1>2, <1>3, <1>8 DEF LoadedKnown, TypeOK
<1>10. DeviceKnown' /\ ChannelsKnown'
  BY <1>1, DeviceUntouched
<1> QED
  BY <1>4, <1>5, <1>7, <1>9, <1>10

\* Every step of the application, of a thread and of an adapter keeps PyInv.
LEMMA PyInvNext ==
    ASSUME PyInv, [Next]_vars
    PROVE  PyInv'
<1>1. CASE UNCHANGED vars
  BY <1>1 DEF PyInv, TypeOK, CallerKnows, ThreadsKnown, Alive, LoadedKnown, DeviceKnown,
              ChannelsKnown, RunsAsBelieved
<1> QED
  BY <1>1, OpenKeepsPyInv, ConfigureKeepsPyInv, StartKeepsPyInv, StopKeepsPyInv,
     ThreadKeepsPyInv DEF Next

-----------------------------------------------------------------------------
\* The inductive invariant, for any adapters, threads and callbacks: what each
\* thread may rely on while the others run.
THEOREM PyInvariant == Spec => []PyInv
<1>1. Init => PyInv
  BY PyInvInit
<1>2. PyInv /\ [Next]_vars => PyInv'
  BY PyInvNext
<1> QED
  BY <1>1, <1>2, PTL DEF Spec

\* When stop() has returned, the flag, the callback and the thread are gone, and
\* who is still alive is a thread that stop() gave up.
THEOREM StopLeavesNothing == Spec => []StopIsComplete
<1>1. PyInv => StopIsComplete
  <2> SUFFICES ASSUME PyInv, main = "idle", stopped
               PROVE  ~running /\ callback = None /\ worker = None /\ Alive \subseteq abandoned
    BY DEF StopIsComplete
  <2>1. ~running /\ callback = None /\ worker = None
    BY DEF PyInv, CallerKnows
  <2> QED
    BY <2>1, PyAssumption DEF PyInv, ThreadsKnown, Alive
<1> QED
  BY <1>1, PyInvariant, PTL

\* An adapter that was not disturbed runs if and only if the bus holds it as
\* started, and in the mode that frames are sized for unless the last configure()
\* to get there was refused.
THEOREM ChannelsBelieved == Spec => []ChannelsAsBelieved
<1>1. PyInv => ChannelsAsBelieved
  BY DEF PyInv, ChannelsKnown, ChannelsAsBelieved
<1> QED
  BY <1>1, PyInvariant, PTL

\* After stop() has returned no thread reads the callback to call it, given up or
\* not, and none begins one but a given-up thread that had read it before: then
\* and otherwise the callback is the one that the last start() was given.
THEOREM NothingBegins == Spec => NothingBeginsAfterStop
<1> DEFINE Reads(t)  == pc[t] # "loaded" /\ pc'[t] = "loaded" => ~stopped /\ loaded'[t] = argument
           Begins(t) == pc[t] # "calling" /\ pc'[t] = "calling" =>
                           t \in abandoned \/ (~stopped /\ loaded[t] = argument)
<1>1. PyInv /\ [Next]_vars =>
        [\A t \in Threads :
           /\ pc[t] # "loaded" /\ pc'[t] = "loaded" => ~stopped /\ loaded'[t] = argument
           /\ pc[t] # "calling" /\ pc'[t] = "calling" =>
                 t \in abandoned \/ (~stopped /\ loaded[t] = argument)]_vars
  <2> SUFFICES ASSUME PyInv, Next, NEW t \in Threads
               PROVE  Reads(t) /\ Begins(t)
    OBVIOUS
  <2> USE DEF PyInv, TypeOK
  <2>1. CASE UNCHANGED pc
    BY <2>1
  <2>2. ASSUME NEW u \in Threads, StartThread(u)
        PROVE  Reads(t) /\ Begins(t)
    BY <2>2 DEF StartThread
  <2>3. ASSUME NEW u \in Threads, Load(u)
        PROVE  Reads(t) /\ Begins(t)
    BY <2>3 DEF Load, Moves, CallerKnows
  <2>4. ASSUME NEW u \in Threads, Call(u)
        PROVE  Reads(t) /\ Begins(t)
    BY <2>4 DEF Call, Moves, LoadedKnown
  <2>5. ASSUME NEW u \in Threads,
               \/ Check(u) \/ Receive(u) \/ ReadFrame(u) \/ ReadTimeout(u) \/ ReadFails(u)
               \/ Test(u) \/ CallbackReturns(u) \/ CallbackRaises(u)
        PROVE  Reads(t) /\ Begins(t)
    BY <2>5 DEF Check, Receive, ReadFrame, ReadTimeout, ReadFails, Test, CallbackReturns,
                CallbackRaises, Moves
  <2>6. UNCHANGED pc \/ (\E u \in Threads : StartThread(u) \/ ThreadStep(u) \/
                                            CallbackReturns(u) \/ CallbackRaises(u))
    BY DEF Next, OpenDone, OpenHalf, TakesDevice, ConfigureRefused, ConfigureFails,
           ConfigureDone, ReachesMode, Start, StopNoThread, StopJoins, Joined, JoinTimesOut
  <2> QED
    BY <2>1, <2>2, <2>3, <2>4, <2>5, <2>6 DEF ThreadStep
<1> QED
  BY <1>1, PyInvariant, PTL DEF Spec, NothingBeginsAfterStop

\* CAN FD is only asked of an adapter that advertises it, or whose open() raised
\* half-way so that the constants are those of another one.
THEOREM FdAdvertised == Spec => FdOnlyAsAdvertised
<1> DEFINE Advertised == \A a \in Adapters : channel[a] # "fd" /\ channel'[a] = "fd" =>
                            a \in FdAdapters \cup halfway
<1>1. PyInv /\ [Next]_vars => [Advertised]_vars
  <2> SUFFICES ASSUME PyInv, Next, NEW a \in Adapters, channel[a] # "fd", channel'[a] = "fd"
               PROVE  a \in FdAdapters \cup halfway
    OBVIOUS
  <2> USE DEF PyInv, TypeOK
  <2>1. CASE UNCHANGED channel
    BY <2>1
  <2>2. ASSUME NEW fd \in BOOLEAN, ConfigureFails(fd) \/ ConfigureDone(fd)
        PROVE  a \in FdAdapters \cup halfway
    <3>1. ReachesMode(fd)
      BY <2>2 DEF ConfigureFails, ConfigureDone
    <3>2. a = device /\ Mode(fd) = "fd"
      BY <2>2 DEF ConfigureFails, ConfigureDone
    <3>3. fd
      BY <3>2 DEF Mode
    <3> QED
      BY <3>1, <3>2, <3>3 DEF ReachesMode, DeviceKnown
  <2>3. ASSUME Releases
        PROVE  FALSE
    BY <2>3 DEF Releases
  <2>4. \/ UNCHANGED channel
        \/ \E fd \in BOOLEAN : ConfigureFails(fd) \/ ConfigureDone(fd)
        \/ Releases
    BY DEF Next, OpenDone, OpenHalf, TakesDevice, ConfigureRefused, Start, StartThread,
           StopNoThread, StopJoins, Joined, JoinTimesOut, StopEnds, StopForgets, ThreadStep, Check, Receive, ReadFrame,
           ReadTimeout, ReadFails, Test, Load, Call, CallbackReturns, CallbackRaises, Moves
  <2> QED
    BY <2>1, <2>2, <2>3, <2>4
<1> QED
  BY <1>1, PyInvariant, PTL DEF Spec, FdOnlyAsAdvertised

=============================================================================
