---------------------------- MODULE ReceiveLoop ----------------------------
(***************************************************************************)
(* start(), stop(), close() and the receive thread of CanFdBus             *)
(* (src/src/device.cpp): one application thread that calls the methods,    *)
(* one worker thread that start() creates, the atomic flag `running`, the  *)
(* std::thread object `worker`, and `callback` under `callback_mutex`.     *)
(* One action is one step between two points where the other thread can    *)
(* run; what an application thread does while it holds callback_mutex is a *)
(* single assignment and so a single step.                                 *)
(***************************************************************************)
EXTENDS Naturals

CONSTANTS
    Callbacks,      \* the callbacks passed to start()
    None            \* "no callback" (an empty std::function)

ASSUME LoopAssumption == None \notin Callbacks

VARIABLES
    app,        \* where the application thread is
    argument,   \* the callback that the start() in progress was given
    teardown,   \* the stop() in progress was made by the destructor
    worker,     \* where the receive thread is, "none" before it is created
    running,    \* impl_->running
    joinable,   \* impl_->worker holds a thread that was not joined
    callback,   \* impl_->callback
    mutex,      \* the thread that holds impl_->callback_mutex, or "none"
    transport,  \* impl_->transport: "open" or "none"
    adapter,    \* "ok", or "gone" after it was unplugged
    aborted,    \* the process is dead: std::terminate, or a crash
    stopped,    \* history: since the last stop() that returned, no start()
    late        \* history: callbacks begun since stop() cleared `running`

appVars  == <<app, argument, teardown>>
flags    == <<running, joinable, callback, mutex>>
device   == <<transport, adapter>>
history  == <<stopped, late>>
vars     == <<appVars, worker, flags, device, aborted, history>>

TypeOK ==
    /\ app \in {"idle", "start", "spawn", "join", "joinClear", "clear", "close"}
    /\ argument \in Callbacks \cup {None}
    /\ teardown \in BOOLEAN
    /\ worker \in {"none", "check", "receive", "reading", "dangling", "lock", "locked",
                   "callback", "exited"}
    /\ running \in BOOLEAN
    /\ joinable \in BOOLEAN
    /\ callback \in Callbacks \cup {None}
    /\ mutex \in {"none", "worker"}
    /\ transport \in {"open", "none"}
    /\ adapter \in {"ok", "gone"}
    /\ aborted \in BOOLEAN
    /\ stopped \in BOOLEAN
    /\ late \in Nat

Init ==
    /\ app = "idle"
    /\ argument = None
    /\ teardown = FALSE
    /\ worker = "none"
    /\ running = FALSE
    /\ joinable = FALSE
    /\ callback = None
    /\ mutex = "none"
    /\ transport = "none"
    /\ adapter = "ok"
    /\ aborted = FALSE
    /\ stopped = TRUE
    /\ late = 0

-----------------------------------------------------------------------------
(***************************************************************************)
(* The application thread.                                                 *)
(***************************************************************************)
\* open() and configure() succeed: the bus can be started.
Connect ==
    /\ app = "idle" /\ transport = "none"
    /\ transport' = "open" /\ adapter' = "ok"
    /\ UNCHANGED <<appVars, worker, flags, aborted, history>>

\* Variant: start() without the test of `running`.
StartAgain(c) ==
    /\ app = "idle" /\ transport = "open"
    /\ running' = TRUE
    /\ argument' = c /\ app' = "start"
    /\ stopped' = FALSE /\ late' = 0
    /\ UNCHANGED <<teardown, worker, joinable, callback, mutex, device, aborted>>

\* start(), up to running.exchange(true).  A second start() is refused here.
StartClaim(c) ==
    /\ app = "idle" /\ transport = "open" /\ ~running
    /\ running' = TRUE
    /\ argument' = c /\ app' = "start"
    /\ stopped' = FALSE /\ late' = 0
    /\ UNCHANGED <<teardown, worker, joinable, callback, mutex, device, aborted>>

\* The callback is replaced under callback_mutex.
StartSetCallback ==
    /\ app = "start" /\ mutex = "none"
    /\ callback' = argument
    /\ app' = "spawn"
    /\ UNCHANGED <<argument, teardown, worker, running, joinable, mutex, device,
                   aborted, history>>

\* The std::thread is assigned; over a joinable one that is std::terminate.
StartSpawn ==
    /\ app = "spawn"
    /\ IF joinable
       THEN aborted' = TRUE /\ UNCHANGED <<worker, joinable, app>>
       ELSE worker' = "check" /\ joinable' = TRUE /\ app' = "idle" /\ UNCHANGED aborted
    /\ UNCHANGED <<argument, teardown, running, callback, mutex, device, history>>

\* Variant: the flag is tested and not cleared.
StopKeepsRunning(destroy) ==
    /\ app = "idle"
    /\ app' = IF running THEN "joinClear" ELSE "join"
    /\ teardown' = destroy
    /\ UNCHANGED <<argument, worker, flags, device, aborted, history>>

\* stop(), up to running.exchange(false); `destroy` when the destructor called.
StopClearRunning(destroy) ==
    /\ app = "idle"
    /\ app' = IF running THEN "joinClear" ELSE "join"
    /\ running' = FALSE
    /\ teardown' = destroy
    /\ UNCHANGED <<argument, worker, joinable, callback, mutex, device, aborted, history>>

\* join(): waits for the receive thread unless there is none.
Joined ==
    /\ joinable => worker = "exited"
    /\ joinable' = FALSE
    /\ worker' = IF joinable THEN "none" ELSE worker

\* Control goes back to the caller, or on to the destructor's close().
StopReturns ==
    /\ app' = IF teardown THEN "close" ELSE "idle"
    /\ stopped' = TRUE

\* stop() when running was false: join and return, the callback is kept.
StopJoin ==
    /\ app = "join"
    /\ Joined
    /\ StopReturns
    /\ UNCHANGED <<argument, teardown, running, callback, mutex, device, aborted, late>>

\* Variant: the callback is cleared without waiting for the thread.
StopJoinNoWait ==
    /\ app = "joinClear"
    /\ app' = "clear"
    /\ UNCHANGED <<argument, teardown, worker, running, joinable, callback, mutex,
                   device, aborted, history>>

StopJoinRunning ==
    /\ app = "joinClear"
    /\ Joined
    /\ app' = "clear"
    /\ UNCHANGED <<argument, teardown, running, callback, mutex, device, aborted, history>>

\* Variant: stop() returns and leaves the callback installed.
StopKeepsCallback ==
    /\ app = "clear" /\ mutex = "none"
    /\ StopReturns
    /\ UNCHANGED <<argument, teardown, worker, running, joinable, callback, mutex,
                   device, aborted, late>>

\* callback = nullptr under callback_mutex.
StopClearCallback ==
    /\ app = "clear" /\ mutex = "none"
    /\ callback' = None
    /\ StopReturns
    /\ UNCHANGED <<argument, teardown, worker, running, joinable, mutex, device,
                   aborted, late>>

\* close(), of the application or of the destructor, whose object is then gone:
\* a new one starts from the same state.  It asks nothing of the receive loop: a
\* thread in a bulk read is left with a transport that does not exist.
Close ==
    /\ app \in {"idle", "close"}
    /\ transport' = "none"
    /\ worker' = IF worker = "reading" THEN "dangling" ELSE worker
    /\ app' = "idle" /\ teardown' = FALSE
    /\ UNCHANGED <<argument, flags, adapter, aborted, history>>

-----------------------------------------------------------------------------
(***************************************************************************)
(* The receive thread.                                                     *)
(***************************************************************************)
\* Variant: the loop drains the adapter before it looks at `running`.
WorkerDrains ==
    /\ worker = "check"
    /\ worker' = "receive"
    /\ UNCHANGED <<appVars, flags, device, aborted, history>>

WorkerCheck ==
    /\ worker = "check"
    /\ worker' = IF running THEN "receive" ELSE "exited"
    /\ UNCHANGED <<appVars, flags, device, aborted, history>>

\* receive() tests the transport; without one it throws and the loop ends.
WorkerReceive ==
    /\ worker = "receive"
    /\ worker' = IF transport = "open" THEN "reading" ELSE "exited"
    /\ UNCHANGED <<appVars, flags, device, aborted, history>>

\* The bulk read returns a whole frame.
ReadFrame ==
    /\ worker = "reading" /\ adapter = "ok"
    /\ worker' = "lock"
    /\ UNCHANGED <<appVars, flags, device, aborted, history>>

\* The bulk read times out after 100 ms: not an error.
ReadTimeout ==
    /\ worker = "reading" /\ adapter = "ok"
    /\ worker' = "check"
    /\ UNCHANGED <<appVars, flags, device, aborted, history>>

\* A transfer error, or a read too short for a header: CanFdError, the loop is
\* left with `running` still true.
ReadFails ==
    /\ worker = "reading"
    /\ worker' = "exited"
    /\ UNCHANGED <<appVars, flags, device, aborted, history>>

\* A bulk read whose transport was destroyed under it is undefined behaviour: it
\* returns anything, or fails, or ends the process, or never returns.
DanglingRead ==
    /\ worker = "dangling"
    /\ \/ worker' \in {"lock", "check", "exited"} /\ UNCHANGED aborted
       \/ aborted' = TRUE /\ UNCHANGED worker
    /\ UNCHANGED <<appVars, flags, device, history>>

WorkerLock ==
    /\ worker = "lock" /\ mutex = "none"
    /\ mutex' = "worker" /\ worker' = "locked"
    /\ UNCHANGED <<appVars, running, joinable, callback, device, aborted, history>>

\* An empty callback is skipped.
WorkerCall ==
    /\ worker = "locked"
    /\ IF callback = None
       THEN worker' = "check" /\ mutex' = "none" /\ UNCHANGED late
       ELSE /\ worker' = "callback" /\ UNCHANGED mutex
            /\ late' = IF running THEN late ELSE late + 1
    /\ UNCHANGED <<appVars, running, joinable, callback, device, aborted, stopped>>

CallbackReturns ==
    /\ worker = "callback"
    /\ worker' = "check" /\ mutex' = "none"
    /\ UNCHANGED <<appVars, running, joinable, callback, device, aborted, history>>

Unplug ==
    /\ transport = "open" /\ adapter = "ok"
    /\ adapter' = "gone"
    /\ UNCHANGED <<appVars, worker, flags, transport, aborted, history>>

-----------------------------------------------------------------------------
AppContinues == StartSetCallback \/ StartSpawn \/ StopJoin \/ StopJoinRunning
                   \/ StopClearCallback \/ (app = "close" /\ Close)

WorkerStep == WorkerCheck \/ WorkerReceive \/ ReadFrame \/ ReadTimeout
                 \/ ReadFails \/ WorkerLock \/ WorkerCall \/ CallbackReturns

\* Nothing of a dead process runs.
Next ==
    /\ ~aborted
    /\ \/ Connect
       \/ \E c \in Callbacks : StartClaim(c)
       \/ \E destroy \in BOOLEAN : StopClearRunning(destroy)
       \/ AppContinues
       \/ Close
       \/ WorkerStep
       \/ DanglingRead
       \/ Unplug

Spec == Init /\ [][Next]_vars

\* Both threads are scheduled: a call that was made goes on, the receive thread
\* goes on, a bulk read ends within its 100 ms timeout and a callback returns.
\* Nothing forces the application to make a call, the adapter to send, or a read
\* on a destroyed transport to end.
Fairness == WF_vars(~aborted /\ AppContinues) /\ WF_vars(~aborted /\ WorkerStep)

FairSpec == Spec /\ Fairness

\* stop() on the receive thread: `running` is cleared, then join() of the own
\* thread throws and stop() ends there.
CallbackCallsStop ==
    /\ ~aborted
    /\ worker = "callback"
    /\ running' = FALSE
    /\ UNCHANGED <<appVars, worker, joinable, callback, mutex, device, aborted, history>>

\* The C API lets a callback stop its own loop and survive: canfd_stop()
\* swallows the exception.
SelfStopSpec == Init /\ [][Next \/ CallbackCallsStop]_vars

-----------------------------------------------------------------------------
(***************************************************************************)
(* Safety.                                                                 *)
(***************************************************************************)

\* No sequence of start(), stop(), close() and adapter failures assigns a new
\* std::thread over one that was not joined, which would end the process; in
\* particular not after the loop died by itself or the bus was closed under it.
\* What may end the process is the read of a transport that close() destroyed.
NeverTerminates == aborted => worker = "dangling"

\* When stop() has returned there is no receive thread, no callback is left
\* and the next start() is not refused, also when the thread had died before.
StopIsComplete ==
    app = "idle" /\ stopped =>
        worker = "none" /\ ~joinable /\ ~running /\ callback = None

\* A callback is only ever invoked between its own start() and the return of
\* the stop() that follows, and it is the one that start() was given.
CallbackOfThisStart ==
    worker = "callback" => ~stopped /\ callback = argument /\ callback # None

\* After stop() has cleared the flag at most one frame that was on its way is
\* still handed to the callback.
OneLateFrame == late <= 1

\* The transport object is destroyed under a bulk read only by an application
\* that itself calls close() on a bus that it started and did not stop: never by
\* the destructor, and never once a stop() has returned, whatever came before.
TransportOutlivesRead ==
    [][worker = "reading" /\ transport' = "none" => app = "idle" /\ ~stopped]_vars

-----------------------------------------------------------------------------
(***************************************************************************)
(* The inductive invariant behind the properties above.                    *)
(***************************************************************************)
\* std::thread and callback belong to the receive thread as long as it exists;
\* the transport only as long as nobody takes it away.
ThreadOwns ==
    /\ joinable <=> worker # "none"
    /\ worker # "none" => callback = argument /\ callback # None /\ ~stopped
    /\ worker = "reading" => transport = "open"

\* What each point of the application thread may rely on.
CallerKnows ==
    /\ app \in {"start", "spawn"} => /\ running /\ ~stopped /\ transport = "open"
                                     /\ worker = "none" /\ argument # None
    /\ app = "spawn" => callback = argument
    /\ app = "idle" => (running <=> ~stopped)
    /\ app \in {"idle", "join"} /\ ~running => worker = "none" /\ callback = None
    /\ app \in {"join", "joinClear", "clear", "close"} => ~running
    /\ app \in {"clear", "close"} => worker = "none"
    /\ app = "close" => stopped /\ callback = None
    /\ app \in {"joinClear", "clear"} => ~stopped

MutexHeld == mutex = "worker" <=> worker \in {"locked", "callback"}

\* Once a late frame was handed over, the thread is on its way out.
LateBound ==
    /\ running => late = 0
    /\ late <= 1
    /\ late = 1 => worker \in {"callback", "check", "exited", "none"}

LoopInv == /\ TypeOK /\ NeverTerminates
           /\ ThreadOwns /\ CallerKnows /\ MutexHeld /\ LateBound

-----------------------------------------------------------------------------
(***************************************************************************)
(* What is left of this when a callback may stop its own loop              *)
(* (SelfStopSpec).  Its stop() clears `running` and joins nothing, so that *)
(* `running` no longer tells whether there is a thread.                    *)
(***************************************************************************)
\* The process ends in two places only: in a start() that finds `running`
\* cleared and the thread not joined, and in a read of a destroyed transport.
DiesInSpawn == aborted => (app = "spawn" /\ joinable) \/ worker = "dangling"

\* A stop() of the application that returned has joined the thread, also one
\* that found `running` cleared by the callback; the callback may be left.
StopEndsThread ==
    app = "idle" /\ stopped => worker = "none" /\ ~joinable /\ ~running

\* A callback is still never begun or inside after that stop() returned.
CallbackBeforeStop == worker = "callback" => ~stopped /\ callback # None

SelfStopInv ==
    /\ TypeOK /\ DiesInSpawn /\ MutexHeld /\ LateBound
    /\ joinable <=> worker # "none"
    /\ worker # "none" => ~stopped /\ callback # None
    /\ worker = "reading" => transport = "open"
    /\ app \in {"start", "spawn"} => transport = "open" /\ ~stopped /\ argument # None
    /\ app = "spawn" => callback # None
    /\ app = "idle" /\ running => ~stopped
    /\ app \in {"join", "joinClear", "clear", "close"} => ~running
    /\ app \in {"clear", "close"} => worker = "none"
    /\ app = "close" => stopped

-----------------------------------------------------------------------------
\* README: start() "keeps reading while frames are available".  The loop would
\* only end because it was stopped or because the adapter is gone.
LoopOnlyEndsOnRequest ==
    worker = "exited" => ~running \/ adapter = "gone" \/ transport = "none"

-----------------------------------------------------------------------------
(***************************************************************************)
(* Liveness.                                                               *)
(***************************************************************************)

\* stop(), the destructor and start() return: nobody waits for ever for the
\* receive thread or for callback_mutex, with or without an adapter, unless the
\* thread is in the read of a transport that close() destroyed under it.
CallsReturn == app # "idle" ~> app = "idle" \/ worker = "dangling"

\* Every frame the loop took from the adapter reaches the callback, also when
\* stop() is called while the frame is on its way.
FrameIsDelivered == worker = "lock" ~> worker = "callback"

=============================================================================
