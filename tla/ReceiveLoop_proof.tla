-------------------------- MODULE ReceiveLoop_proof --------------------------
(***************************************************************************)
(* The safety properties of ReceiveLoop for any set of callbacks: by the   *)
(* inductive invariant LoopInv when no callback calls stop() itself, and   *)
(* what is left of them, by SelfStopInv, when callbacks do.                *)
(***************************************************************************)
EXTENDS ReceiveLoop, TLAPS

USE DEF appVars, flags, device, history, vars

\* LoopInv holds before the first call.
LEMMA LoopInvInit == Init => LoopInv
<1> SUFFICES ASSUME Init PROVE LoopInv
  OBVIOUS
<1>1. TypeOK
  BY DEF Init, TypeOK
<1>2. NeverTerminates /\ ThreadOwns
  BY Zenon DEF Init, NeverTerminates, ThreadOwns
<1>3. CallerKnows
  BY DEF Init, CallerKnows
<1>4. MutexHeld /\ LateBound
  BY DEF Init, MutexHeld, LateBound
<1> QED
  BY <1>1, <1>2, <1>3, <1>4 DEF LoopInv

\* Every step of either thread and of the adapter keeps LoopInv, one step of
\* the proof for each action.
LEMMA LoopInvNext ==
    ASSUME LoopInv, [Next]_vars
    PROVE  LoopInv'
<1> USE DEF LoopInv, TypeOK, NeverTerminates, ThreadOwns, CallerKnows, MutexHeld, LateBound
<1>1. CASE Connect
  BY <1>1 DEF Connect
<1>2. ASSUME NEW c \in Callbacks, StartClaim(c)
      PROVE  LoopInv'
  <2>1. TypeOK'
    BY <1>2 DEF StartClaim
  <2>2. NeverTerminates' /\ ThreadOwns'
    BY <1>2 DEF StartClaim
  <2>3. CallerKnows'
    BY <1>2, LoopAssumption DEF StartClaim
  <2>4. MutexHeld' /\ LateBound'
    BY <1>2 DEF StartClaim
  <2> QED
    BY <2>1, <2>2, <2>3, <2>4
<1>3. CASE StartSetCallback
  BY <1>3 DEF StartSetCallback
<1>4. CASE StartSpawn
  <2>1. TypeOK'
    BY <1>4 DEF StartSpawn
  <2>2. NeverTerminates' /\ ThreadOwns'
    BY <1>4 DEF StartSpawn
  <2>3. CallerKnows'
    BY <1>4 DEF StartSpawn
  <2>4. MutexHeld' /\ LateBound'
    BY <1>4 DEF StartSpawn
  <2> QED
    BY <2>1, <2>2, <2>3, <2>4
<1>5. ASSUME NEW destroy \in BOOLEAN, StopClearRunning(destroy)
      PROVE  LoopInv'
  BY <1>5 DEF StopClearRunning
<1>6. CASE StopJoin
  BY <1>6 DEF StopJoin, Joined, StopReturns
<1>7. CASE StopJoinRunning
  BY <1>7 DEF StopJoinRunning, Joined
<1>8. CASE StopClearCallback
  BY <1>8 DEF StopClearCallback, StopReturns
<1>9. CASE Close
  BY <1>9 DEF Close
<1>10. CASE WorkerCheck
  BY <1>10 DEF WorkerCheck
<1>11. CASE WorkerReceive
  BY <1>11 DEF WorkerReceive
<1>12. CASE ReadFrame \/ ReadTimeout \/ ReadFails
  BY <1>12 DEF ReadFrame, ReadTimeout, ReadFails
<1>13. CASE WorkerLock
  BY <1>13 DEF WorkerLock
<1>14. CASE WorkerCall
  BY <1>14 DEF WorkerCall
<1>15. CASE CallbackReturns
  BY <1>15 DEF CallbackReturns
<1>16. CASE DanglingRead /\ ~aborted
  <2>1. TypeOK' /\ CallerKnows' /\ MutexHeld' /\ LateBound'
    BY <1>16 DEF DanglingRead
  <2>2. NeverTerminates' /\ ThreadOwns'
    BY <1>16 DEF DanglingRead
  <2> QED
    BY <2>1, <2>2
<1>17. CASE Unplug
  BY <1>17 DEF Unplug
<1>18. CASE UNCHANGED vars
  BY <1>18
<1> QED
  BY <1>1, <1>2, <1>3, <1>4, <1>5, <1>6, <1>7, <1>8, <1>9, <1>10, <1>11, <1>12, <1>13,
     <1>14, <1>15, <1>16, <1>17, <1>18
     DEF Next, AppContinues, WorkerStep

\* The inductive invariant, for every set of callbacks: the type invariant and
\* what each point of the two threads may rely on.
THEOREM LoopInvariant == Spec => []LoopInv
<1>1. Init => LoopInv
  BY LoopInvInit
<1>2. LoopInv /\ [Next]_vars => LoopInv'
  BY LoopInvNext
<1> QED
  BY <1>1, <1>2, PTL DEF Spec

\* start() never assigns a thread over one that was not joined.
THEOREM NoTermination == Spec => []NeverTerminates
<1>1. LoopInv => NeverTerminates
  BY DEF LoopInv
<1> QED
  BY <1>1, LoopInvariant, PTL

\* When stop() has returned, thread and callback are gone and start() works.
THEOREM StopCompletes == Spec => []StopIsComplete
<1>1. LoopInv => StopIsComplete
  BY DEF LoopInv, ThreadOwns, CallerKnows, StopIsComplete
<1> QED
  BY <1>1, LoopInvariant, PTL

\* A callback runs only between its own start() and the stop() that follows.
THEOREM CallbackBelongs == Spec => []CallbackOfThisStart
<1>1. LoopInv => CallbackOfThisStart
  BY DEF LoopInv, ThreadOwns, CallbackOfThisStart
<1> QED
  BY <1>1, LoopInvariant, PTL

\* At most one frame is handed over after stop() has cleared the flag.
THEOREM AtMostOneLateFrame == Spec => []OneLateFrame
<1>1. LoopInv => OneLateFrame
  BY DEF LoopInv, LateBound, OneLateFrame
<1> QED
  BY <1>1, LoopInvariant, PTL

\* No step but close() takes a transport away.
LEMMA StepLeavesTransport ==
    ASSUME Next
    PROVE  Close \/ transport' = "open" \/ transport' = transport
<1>1. CASE AppContinues
  BY <1>1 DEF AppContinues, StartSetCallback, StartSpawn, StopJoin, StopJoinRunning,
              StopClearCallback
<1>2. CASE WorkerStep
  BY <1>2 DEF WorkerStep, WorkerCheck, WorkerReceive, ReadFrame, ReadTimeout, ReadFails,
              WorkerLock, WorkerCall, CallbackReturns
<1> QED
  BY <1>1, <1>2 DEF Next, Connect, StartClaim, StopClearRunning, DanglingRead, Unplug

\* A step of Next that destroys the transport under a read is a close() that the
\* application called on a started bus: the destructor's comes after the join.
THEOREM TransportStays == Spec => TransportOutlivesRead
<1>1. LoopInv /\ [Next]_vars =>
         [worker = "reading" /\ transport' = "none" => app = "idle" /\ ~stopped]_vars
  <2> SUFFICES ASSUME LoopInv, Next, worker = "reading", transport' = "none"
               PROVE  app = "idle" /\ ~stopped
    OBVIOUS
  <2>1. ~stopped /\ app # "close" /\ transport = "open"
    BY DEF LoopInv, ThreadOwns, CallerKnows
  <2>2. Close
    BY <2>1, StepLeavesTransport
  <2> QED
    BY <2>1, <2>2 DEF Close
<1> QED
  BY <1>1, LoopInvariant, PTL DEF Spec, TransportOutlivesRead

-----------------------------------------------------------------------------
(***************************************************************************)
(* Callbacks that call stop().                                             *)
(***************************************************************************)
LEMMA SelfStopInit == Init => SelfStopInv
<1> SUFFICES ASSUME Init PROVE SelfStopInv
  OBVIOUS
<1>1. TypeOK
  BY DEF Init, TypeOK
<1>2. DiesInSpawn /\ MutexHeld /\ LateBound
  BY DEF Init, DiesInSpawn, MutexHeld, LateBound
<1> QED
  BY <1>1, <1>2 DEF Init, SelfStopInv

\* The same steps as for LoopInv and one more, stop() inside the callback.
LEMMA SelfStopNext ==
    ASSUME SelfStopInv, [Next \/ CallbackCallsStop]_vars
    PROVE  SelfStopInv'
<1> USE DEF SelfStopInv, TypeOK, DiesInSpawn, MutexHeld, LateBound
<1>1. CASE Connect /\ ~aborted
  BY <1>1 DEF Connect
<1>2. ASSUME NEW c \in Callbacks, StartClaim(c), ~aborted
      PROVE  SelfStopInv'
  <2>1. TypeOK'
    BY <1>2 DEF StartClaim
  <2>2. DiesInSpawn' /\ MutexHeld' /\ LateBound'
    BY <1>2 DEF StartClaim
  <2>3. c # None
    BY LoopAssumption
  <2>4. app' = "start" /\ transport' = "open" /\ ~stopped' /\ argument' # None
    BY <1>2, <2>3 DEF StartClaim
  <2>5. worker' # "none" => callback' # None
    BY <1>2 DEF StartClaim
  <2>6. (joinable <=> worker # "none")'
    BY <1>2 DEF StartClaim
  <2> QED
    BY <2>1, <2>2, <2>4, <2>5, <2>6
<1>3. CASE StartSetCallback /\ ~aborted
  BY <1>3 DEF StartSetCallback
<1>4. CASE StartSpawn /\ ~aborted
  <2>1. CASE joinable
    BY <1>4, <2>1 DEF StartSpawn
  <2>2. CASE ~joinable
    BY <1>4, <2>2 DEF StartSpawn
  <2> QED
    BY <2>1, <2>2
<1>5. ASSUME NEW destroy \in BOOLEAN, StopClearRunning(destroy), ~aborted
      PROVE  SelfStopInv'
  BY <1>5 DEF StopClearRunning
<1>6. CASE StopJoin /\ ~aborted
  BY <1>6 DEF StopJoin, Joined, StopReturns
<1>7. CASE StopJoinRunning /\ ~aborted
  BY <1>7 DEF StopJoinRunning, Joined
<1>8. CASE StopClearCallback /\ ~aborted
  BY <1>8 DEF StopClearCallback, StopReturns
<1>9. CASE Close /\ ~aborted
  BY <1>9 DEF Close
<1>10. CASE WorkerCheck /\ ~aborted
  BY <1>10 DEF WorkerCheck
<1>11. CASE WorkerReceive /\ ~aborted
  BY <1>11 DEF WorkerReceive
<1>12. CASE (ReadFrame \/ ReadTimeout \/ ReadFails) /\ ~aborted
  BY <1>12 DEF ReadFrame, ReadTimeout, ReadFails
<1>13. CASE WorkerLock /\ ~aborted
  BY <1>13 DEF WorkerLock
<1>14. CASE WorkerCall /\ ~aborted
  BY <1>14 DEF WorkerCall
<1>15. CASE CallbackReturns /\ ~aborted
  BY <1>15 DEF CallbackReturns
<1>16. CASE Unplug /\ ~aborted
  BY <1>16 DEF Unplug
<1>17. CASE CallbackCallsStop
  BY <1>17 DEF CallbackCallsStop
<1>18. CASE DanglingRead /\ ~aborted
  <2>1. TypeOK' /\ MutexHeld' /\ LateBound'
    BY <1>18 DEF DanglingRead
  <2>2. DiesInSpawn'
    BY <1>18 DEF DanglingRead
  <2> QED
    BY <1>18, <2>1, <2>2 DEF DanglingRead
<1>19. CASE UNCHANGED vars
  BY <1>19
<1> QED
  BY <1>1, <1>2, <1>3, <1>4, <1>5, <1>6, <1>7, <1>8, <1>9, <1>10, <1>11, <1>12, <1>13,
     <1>14, <1>15, <1>16, <1>17, <1>18, <1>19
     DEF Next, AppContinues, WorkerStep

\* The inductive invariant of a bus whose callbacks may stop their own loop.
THEOREM SelfStopInvariant == SelfStopSpec => []SelfStopInv
<1>1. Init => SelfStopInv
  BY SelfStopInit
<1>2. SelfStopInv /\ [Next \/ CallbackCallsStop]_vars => SelfStopInv'
  BY SelfStopNext
<1> QED
  BY <1>1, <1>2, PTL DEF SelfStopSpec

\* A callback that stops its own loop costs no more than one late frame, and it
\* never lets the destructor take the transport from under a read either.
THEOREM SelfStopKeeps == SelfStopSpec => TransportOutlivesRead /\ []OneLateFrame
<1>1. SelfStopInv => OneLateFrame
  BY DEF SelfStopInv, LateBound, OneLateFrame
<1>2. SelfStopInv /\ [Next \/ CallbackCallsStop]_vars =>
         [worker = "reading" /\ transport' = "none" => app = "idle" /\ ~stopped]_vars
  <2> SUFFICES ASSUME SelfStopInv, Next \/ CallbackCallsStop,
                      worker = "reading", transport' = "none"
               PROVE  app = "idle" /\ ~stopped
    OBVIOUS
  <2>1. ~stopped /\ app # "close" /\ transport = "open"
    BY DEF SelfStopInv
  <2>2. Close
    BY <2>1, StepLeavesTransport DEF CallbackCallsStop
  <2> QED
    BY <2>1, <2>2 DEF Close
<1> QED
  BY <1>1, <1>2, SelfStopInvariant, PTL DEF SelfStopSpec, TransportOutlivesRead

\* Nor does it let a callback outlive the stop() of the application, and the
\* only thing that ends the process is a start() before that stop().
THEOREM SelfStopLimits ==
    SelfStopSpec => [](DiesInSpawn /\ StopEndsThread /\ CallbackBeforeStop)
<1>1. SelfStopInv => DiesInSpawn /\ StopEndsThread /\ CallbackBeforeStop
  BY DEF SelfStopInv, TypeOK, StopEndsThread, CallbackBeforeStop
<1> QED
  BY <1>1, SelfStopInvariant, PTL

=============================================================================
