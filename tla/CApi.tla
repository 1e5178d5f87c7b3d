------------------------------- MODULE CApi -------------------------------
(***************************************************************************)
(* canfd_open(), canfd_configure(), canfd_start(), canfd_stop() and        *)
(* canfd_close() of the C API (src/src/c_api.cpp), composed with the       *)
(* receive loop of the bus that the handle owns.  The bus is started with  *)
(* one closure; which callback that closure invokes is looked up in the    *)
(* handle when a frame arrives.                                            *)
(***************************************************************************)
EXTENDS Naturals

CONSTANTS
    Callbacks,  \* C callbacks of the application, each with its own user data
    None        \* the null pointer

ASSUME CApiAssumption == None \notin Callbacks

VARIABLES
    app, argument, teardown, worker, running, joinable, callback, mutex,
    transport, adapter, aborted, stopped, late,     \* of ReceiveLoop
    handle,     \* "none", "live" or "deleted"
    api,        \* where the application is in a call of the C API
    given,      \* the callback of the canfd_start() in progress
    h_callback, \* handle->callback
    h_user,     \* handle->user, named by the callback it was passed with
    lambda,     \* where the closure is on the receive thread
    invoked,    \* the callback that it invokes, and with whose user data
    accepted,   \* history: the callback of the last canfd_start() that succeeded
    crossed     \* history: since then canfd_start() was called on the running loop

loop == <<app, argument, teardown, worker, running, joinable, callback, mutex,
          transport, adapter, aborted, stopped, late>>
slot    == <<h_callback, h_user>>
history == <<accepted, crossed>>
vars    == <<loop, handle, api, given, slot, lambda, invoked, history>>

\* The closure is the only callback the bus ever has.
Bus == INSTANCE ReceiveLoop WITH
          Callbacks <- {"closure"}, None <- "none"

Nobody == [function |-> None, user |-> None]

TypeOK ==
    /\ Bus!TypeOK
    /\ handle \in {"none", "live", "deleted"}
    /\ api \in {"idle", "setUser", "start", "starting", "stopping", "closing"}
    /\ {given, h_callback, h_user, accepted} \subseteq Callbacks \cup {None}
    /\ crossed \in BOOLEAN
    /\ lambda \in {"out", "test", "load", "loadUser", "call"}
    /\ invoked \in [function : Callbacks \cup {None}, user : Callbacks \cup {None}]

Init ==
    /\ Bus!Init
    /\ handle = "none" /\ api = "idle"
    /\ given = None /\ h_callback = None /\ h_user = None
    /\ accepted = None /\ crossed = FALSE
    /\ lambda = "out" /\ invoked = Nobody

-----------------------------------------------------------------------------
(***************************************************************************)
(* The application thread.                                                 *)
(***************************************************************************)
\* canfd_open() succeeds: a new handle.  (A failed one returns none; the handle
\* it leaves behind is a bus that nobody calls, see CanFdBus.)
Open ==
    /\ api = "idle" /\ handle # "live"
    /\ handle' = "live"
    /\ h_callback' = None /\ h_user' = None
    /\ accepted' = None /\ crossed' = FALSE
    /\ UNCHANGED <<loop, api, given, lambda, invoked>>

\* canfd_configure() succeeds: the bus can be started.
Configure ==
    /\ api = "idle" /\ handle = "live"
    /\ Bus!Connect
    /\ UNCHANGED <<handle, api, given, slot, lambda, invoked, history>>

\* canfd_start(): handle->callback is assigned first ...
Start(c) ==
    /\ api = "idle" /\ handle = "live"
    /\ given' = c /\ crossed' = (crossed \/ ~stopped)
    /\ h_callback' = c
    /\ api' = "setUser"
    /\ UNCHANGED <<loop, handle, h_user, lambda, invoked, accepted>>

\* Variant: the user data of the first canfd_start() stays.
StartKeepsUser ==
    /\ api = "setUser"
    /\ h_user' = IF h_user = None THEN given ELSE h_user
    /\ api' = "start"
    /\ UNCHANGED <<loop, handle, given, h_callback, lambda, invoked, history>>

\* ... then handle->user ...
StartSetUser ==
    /\ api = "setUser"
    /\ h_user' = given
    /\ api' = "start"
    /\ UNCHANGED <<loop, handle, given, h_callback, lambda, invoked, history>>

\* ... and then the bus is started with the closure,
StartBus ==
    /\ api = "start"
    /\ Bus!StartClaim("closure")
    /\ accepted' = given /\ crossed' = (worker # "none")
    /\ api' = "starting"
    /\ UNCHANGED <<handle, given, slot, lambda, invoked>>

\* or refuses, because it was never configured or its loop is running:
\* canfd_start() returns an error.
StartRefused ==
    /\ api = "start" /\ (transport = "none" \/ running)
    /\ api' = "idle"
    /\ UNCHANGED <<loop, handle, given, slot, lambda, invoked, history>>

\* Variant: the loop is not asked to end.
StopOnlyWaits ==
    /\ api = "idle" /\ handle = "live"
    /\ app' = IF running THEN "joinClear" ELSE "join"
    /\ teardown' = FALSE
    /\ api' = "stopping"
    /\ UNCHANGED <<argument, worker, running, joinable, callback, mutex, transport, adapter,
                   aborted, stopped, late, handle, given, slot, lambda, invoked, history>>

\* canfd_stop(); canfd_close(), up to its bus.stop().
Stop ==
    /\ api = "idle" /\ handle = "live"
    /\ Bus!StopClearRunning(FALSE)
    /\ api' = "stopping"
    /\ UNCHANGED <<handle, given, slot, lambda, invoked, history>>

Close ==
    /\ api = "idle" /\ handle = "live"
    /\ Bus!StopClearRunning(TRUE)
    /\ api' = "closing"
    /\ UNCHANGED <<handle, given, slot, lambda, invoked, history>>

\* The bus goes on with the method that was called.
BusContinues ==
    /\ api \in {"starting", "stopping", "closing"}
    /\ Bus!AppContinues
    /\ UNCHANGED <<handle, api, given, slot, lambda, invoked, history>>

\* Variant: canfd_close() does not wait for the receive thread.
ReturnsEarly ==
    /\ api \in {"starting", "stopping", "closing"} /\ (app = "idle" \/ (api = "closing" /\ worker # "none"))
    /\ handle' = IF api = "closing" THEN "deleted" ELSE handle
    /\ api' = "idle"
    /\ UNCHANGED <<loop, given, slot, lambda, invoked, history>>

\* The method of the bus has returned; canfd_close() deletes the handle.
ApiReturns ==
    /\ api \in {"starting", "stopping", "closing"} /\ app = "idle"
    /\ handle' = IF api = "closing" THEN "deleted" ELSE handle
    /\ api' = "idle"
    /\ UNCHANGED <<loop, given, slot, lambda, invoked, history>>

-----------------------------------------------------------------------------
(***************************************************************************)
(* The receive thread.                                                     *)
(***************************************************************************)
\* The loop of the bus, up to the closure.
LoopStep ==
    /\ lambda = "out"
    /\ \/ Bus!WorkerCheck \/ Bus!WorkerReceive \/ Bus!ReadFrame \/ Bus!ReadTimeout
       \/ Bus!ReadFails \/ Bus!WorkerLock \/ Bus!WorkerCall
    /\ lambda' = IF worker' = "callback" THEN "test" ELSE "out"
    /\ UNCHANGED <<handle, api, given, slot, invoked, history>>

\* The closure: `if (handle->callback != nullptr)`, then the callback and the
\* user data are read one after the other, without a lock.
Reads(from, to) ==
    /\ lambda = from /\ lambda' = to
    /\ UNCHANGED <<loop, handle, api, given, slot, history>>

ClosureTests    == Reads("test", "load") /\ h_callback # None /\ UNCHANGED invoked
ClosureLoads    == Reads("load", "loadUser") /\ invoked' = [invoked EXCEPT !.function = h_callback]
ClosureLoadUser == Reads("loadUser", "call") /\ invoked' = [invoked EXCEPT !.user = h_user]

\* The C callback returns, or there was none to call.
ClosureReturns ==
    /\ \/ lambda = "call"
       \/ lambda = "test" /\ h_callback = None
    /\ Bus!CallbackReturns
    /\ lambda' = "out" /\ invoked' = Nobody
    /\ UNCHANGED <<handle, api, given, slot, history>>

\* The C callback calls canfd_stop(): stop() cannot join its own thread, the
\* exception is swallowed.
ClosureStops ==
    /\ lambda = "call"
    /\ Bus!CallbackCallsStop
    /\ UNCHANGED <<handle, api, given, slot, lambda, invoked, history>>

Unplug ==
    /\ Bus!Unplug
    /\ UNCHANGED <<handle, api, given, slot, lambda, invoked, history>>

-----------------------------------------------------------------------------
AppStep    == StartSetUser \/ StartBus \/ StartRefused \/ BusContinues \/ ApiReturns
ThreadStep == LoopStep \/ ClosureTests \/ ClosureLoads \/ ClosureLoadUser \/ ClosureReturns

\* After std::terminate nothing of the process runs.
Next ==
    /\ ~aborted
    /\ \/ Open \/ Configure
       \/ \E c \in Callbacks : Start(c)
       \/ Stop \/ Close
       \/ AppStep
       \/ ThreadStep
       \/ ClosureStops
       \/ Unplug

Spec == Init /\ [][Next]_vars

\* Both threads are scheduled, a bulk read ends within 100 ms, a C callback
\* returns.  Nobody has to call, and no frame has to arrive.
FairSpec == Spec /\ WF_vars(~aborted /\ AppStep) /\ WF_vars(~aborted /\ ThreadStep)

-----------------------------------------------------------------------------
(***************************************************************************)
(* Properties.                                                             *)
(***************************************************************************)
\* The closure holds a plain pointer to the handle: canfd_close() never deletes
\* a handle that the receive thread may still use, also when a callback has
\* stopped its own loop before.
HandleOutlivesThread == worker # "none" => handle = "live"

\* A C callback is invoked with the user data it was passed with, by the loop
\* that was started with both, over all stops and restarts and unless somebody
\* calls canfd_start() while there is a receive thread.
CallsAcceptedPair ==
    lambda = "call" /\ ~crossed => invoked = [function |-> accepted, user |-> accepted]

\* std::terminate only ends the process in a canfd_start() that the bus accepted
\* although its receive thread was there: one whose callback had stopped its loop.
DiesOfCrossing == aborted => crossed /\ api = "starting" /\ worker # "none"

\* canfd_start() on a loop whose callback has stopped it, and which lives on:
\* it waits for callback_mutex, which nothing grants it while frames arrive.
WaitsForRevived == app = "start" /\ worker # "none"

\* No other call waits for ever: canfd_start(), canfd_stop() and canfd_close()
\* return, or the process ends.
ApiCallsReturn == api # "idle" ~> api = "idle" \/ aborted \/ WaitsForRevived

\* canfd.h: a callback is "called on the receive thread when the bus was
\* started with canfd_start()".  One whose canfd_start() was refused is not.
RefusedIsNotCalled ==
    lambda = "call" /\ api = "idle" => invoked.function = accepted
-----------------------------------------------------------------------------
(***************************************************************************)
(* The inductive invariant behind the safety properties.                   *)
(***************************************************************************)
\* Where the bus is during each call of the C API, and that the thread is gone
\* when canfd_close() comes to delete the handle.
CallsKnown ==
    /\ api # "idle" => handle = "live"
    /\ api \in {"idle", "setUser", "start"} => app = "idle"
    /\ api = "starting" => app \in {"start", "spawn", "idle"}
    /\ api = "stopping" => app \in {"join", "joinClear", "clear", "idle"}
    /\ api = "closing"  => app \in {"join", "joinClear", "clear", "close", "idle"}
    /\ app \in {"join", "joinClear", "clear"} => teardown = (api = "closing")
    /\ app \in {"clear", "close"} => worker = "none"
    /\ app = "close" => stopped
    /\ app \in {"start", "spawn"} => ~stopped

\* A receive thread has a live handle to use, was not joined, nobody has been
\* told that it is stopped, and no bus was closed under it.
ThreadHasHandle ==
    /\ joinable <=> worker # "none"
    /\ worker # "dangling"
    /\ worker # "none" => handle = "live" /\ ~stopped
    /\ handle # "live" \/ (api = "closing" /\ app = "idle") => stopped

\* From a canfd_start() that the bus accepts on, the handle holds the pair that
\* it was given, until somebody crosses it.
PairInHandle ==
    /\ api \in {"setUser", "start"} => h_callback = given
    /\ api = "start" => h_user = given
    /\ ~stopped /\ ~crossed => h_callback = accepted /\ h_user = accepted

\* What the closure has read so far.
ClosureReads ==
    /\ lambda = "out" <=> worker # "callback"
    /\ lambda \in {"loadUser", "call"} /\ ~crossed => invoked.function = accepted
    /\ lambda = "call" /\ ~crossed => invoked.user = accepted

ApiInv == TypeOK /\ CallsKnown /\ ThreadHasHandle /\ PairInHandle /\ ClosureReads

\* A canfd_start() that the bus accepted with its receive thread there is crossed.
MetThread == app \in {"start", "spawn"} /\ worker # "none" => crossed
=============================================================================
