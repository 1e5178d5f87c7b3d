----------------------------- MODULE CApi_proof -----------------------------
(***************************************************************************)
(* The safety properties of the C API for any set of C callbacks, by the   *)
(* inductive invariant ApiInv.  LoopInv of the receive loop is no help     *)
(* here: a C callback may stop its own loop and live on, after which the   *)
(* next start() finds the thread still there.                              *)
(***************************************************************************)
EXTENDS CApi, TLAPS

USE DEF loop, slot, history, vars
USE DEF Bus!appVars, Bus!flags, Bus!device, Bus!history

\* ApiInv holds before the first canfd_open().
LEMMA ApiInvInit == Init => ApiInv
<1> SUFFICES ASSUME Init PROVE ApiInv
  OBVIOUS
<1>1. Bus!TypeOK
  BY DEF Init, Bus!Init, Bus!TypeOK
<1>2. TypeOK
  BY <1>1 DEF Init, TypeOK, Nobody
<1>3. CallsKnown /\ ThreadHasHandle /\ PairInHandle /\ ClosureReads
  BY DEF Init, Bus!Init, CallsKnown, ThreadHasHandle, PairInHandle, ClosureReads
<1> QED
  BY <1>2, <1>3 DEF ApiInv

-----------------------------------------------------------------------------
(***************************************************************************)
(* The methods of the bus that a call of the C API goes through.           *)
(***************************************************************************)
\* Each step of a method of the bus keeps the types of its state.
LEMMA BusStepType ==
    ASSUME Bus!TypeOK,
           \/ Bus!Connect \/ Bus!StartClaim("closure") \/ Bus!AppContinues \/ Bus!WorkerStep
           \/ Bus!StopClearRunning(FALSE) \/ Bus!StopClearRunning(TRUE)
           \/ Bus!CallbackCallsStop \/ Bus!Unplug
    PROVE  Bus!TypeOK'
<1> USE DEF Bus!TypeOK
<1>1. CASE Bus!Connect \/ Bus!Unplug \/ Bus!CallbackCallsStop
  BY <1>1 DEF Bus!Connect, Bus!Unplug, Bus!CallbackCallsStop
<1>2. CASE Bus!StartClaim("closure")
  BY <1>2 DEF Bus!StartClaim
<1>3. CASE Bus!StopClearRunning(FALSE) \/ Bus!StopClearRunning(TRUE)
  BY <1>3 DEF Bus!StopClearRunning
<1>4. CASE Bus!StartSetCallback \/ Bus!StartSpawn
  BY <1>4 DEF Bus!StartSetCallback, Bus!StartSpawn
<1>5. CASE Bus!StopJoin \/ Bus!StopJoinRunning \/ Bus!StopClearCallback
  BY <1>5 DEF Bus!StopJoin, Bus!StopJoinRunning, Bus!StopClearCallback, Bus!Joined,
              Bus!StopReturns
<1>6. CASE Bus!Close
  BY <1>6 DEF Bus!Close
<1>7. CASE Bus!WorkerCheck \/ Bus!WorkerReceive \/ Bus!ReadFrame \/ Bus!ReadTimeout
             \/ Bus!ReadFails \/ Bus!WorkerLock
  BY <1>7 DEF Bus!WorkerCheck, Bus!WorkerReceive, Bus!ReadFrame, Bus!ReadTimeout,
              Bus!ReadFails, Bus!WorkerLock
<1>8. CASE Bus!WorkerCall \/ Bus!CallbackReturns
  BY <1>8 DEF Bus!WorkerCall, Bus!CallbackReturns
<1> QED
  BY <1>1, <1>2, <1>3, <1>4, <1>5, <1>6, <1>7, <1>8
     DEF Bus!AppContinues, Bus!WorkerStep

\* canfd_open(), canfd_configure() and canfd_start() up to the bus.
LEMMA OpeningKeepsApiInv ==
    ASSUME ApiInv,
           \/ Open \/ Configure \/ (\E c \in Callbacks : Start(c))
           \/ StartSetUser \/ StartBus \/ StartRefused
    PROVE  ApiInv'
<1> USE DEF ApiInv, CallsKnown, ThreadHasHandle, PairInHandle, ClosureReads
<1>1. CASE Open
  <2>1. TypeOK'
    BY <1>1 DEF Open, TypeOK, Bus!TypeOK
  <2> QED
    BY <1>1, <2>1 DEF Open
<1>2. CASE Configure
  <2>1. TypeOK'
    BY <1>2, BusStepType DEF Configure, TypeOK
  <2> QED
    BY <1>2, <2>1 DEF Configure, Bus!Connect
<1>3. ASSUME NEW c \in Callbacks, Start(c)
      PROVE  ApiInv'
  <2>1. TypeOK'
    BY <1>3 DEF Start, TypeOK, Bus!TypeOK
  <2> QED
    BY <1>3, <2>1 DEF Start
<1>4. CASE StartSetUser
  <2>1. TypeOK'
    BY <1>4 DEF StartSetUser, TypeOK, Bus!TypeOK
  <2> QED
    BY <1>4, <2>1 DEF StartSetUser
<1>5. CASE StartBus
  <2>1. TypeOK'
    BY <1>5, BusStepType DEF StartBus, TypeOK
  <2> QED
    BY <1>5, <2>1 DEF StartBus, Bus!StartClaim
<1>6. CASE StartRefused
  <2>1. TypeOK'
    BY <1>6 DEF StartRefused, TypeOK, Bus!TypeOK
  <2> QED
    BY <1>6, <2>1 DEF StartRefused
<1> QED
  BY <1>1, <1>2, <1>3, <1>4, <1>5, <1>6

\* canfd_stop() and canfd_close(), the methods of the bus that they and
\* canfd_start() wait for, and their return: whoever comes to delete the handle
\* has joined the receive thread.
LEMMA CallKeepsApiInv ==
    ASSUME ApiInv, Stop \/ Close \/ BusContinues \/ ApiReturns
    PROVE  ApiInv'
<1> USE DEF ApiInv, CallsKnown, ThreadHasHandle, PairInHandle, ClosureReads
<1>1. CASE Stop
  <2>1. TypeOK'
    BY <1>1, BusStepType DEF Stop, TypeOK
  <2> QED
    BY <1>1, <2>1 DEF Stop, Bus!StopClearRunning
<1>2. CASE Close
  <2>1. TypeOK'
    BY <1>2, BusStepType DEF Close, TypeOK
  <2> QED
    BY <1>2, <2>1 DEF Close, Bus!StopClearRunning
<1>3. CASE BusContinues
  <2>1. TypeOK'
    BY <1>3, BusStepType DEF BusContinues, TypeOK
  <2>2. CASE Bus!StartSetCallback
    BY <1>3, <2>1, <2>2 DEF BusContinues, Bus!StartSetCallback
  <2>3. CASE Bus!StartSpawn
    BY <1>3, <2>1, <2>3 DEF BusContinues, Bus!StartSpawn
  <2>4. CASE Bus!StopJoin
    BY <1>3, <2>1, <2>4 DEF BusContinues, Bus!StopJoin, Bus!Joined, Bus!StopReturns
  <2>5. CASE Bus!StopJoinRunning
    BY <1>3, <2>1, <2>5 DEF BusContinues, Bus!StopJoinRunning, Bus!Joined
  <2>6. CASE Bus!StopClearCallback
    BY <1>3, <2>1, <2>6 DEF BusContinues, Bus!StopClearCallback, Bus!StopReturns
  <2>7. CASE app = "close" /\ Bus!Close
    BY <1>3, <2>1, <2>7 DEF BusContinues, Bus!Close
  <2> QED
    BY <1>3, <2>2, <2>3, <2>4, <2>5, <2>6, <2>7 DEF BusContinues, Bus!AppContinues
<1>4. CASE ApiReturns
  <2>1. TypeOK'
    BY <1>4 DEF ApiReturns, TypeOK, Bus!TypeOK
  <2> QED
    BY <1>4, <2>1 DEF ApiReturns
<1> QED
  BY <1>1, <1>2, <1>3, <1>4

\* The receive thread, in the loop and in the closure, and the adapter.
LEMMA ThreadKeepsApiInv ==
    ASSUME ApiInv, ThreadStep \/ ClosureStops \/ Unplug
    PROVE  ApiInv'
<1> USE DEF ApiInv, CallsKnown, ThreadHasHandle, PairInHandle, ClosureReads
<1>1. CASE LoopStep
  <2>1. Bus!WorkerStep
    BY <1>1 DEF LoopStep, Bus!WorkerStep
  <2>2. TypeOK'
    BY <1>1, <2>1, BusStepType DEF LoopStep, TypeOK
  <2> QED
    BY <1>1, <2>2 DEF LoopStep, Bus!WorkerCheck, Bus!WorkerReceive, Bus!ReadFrame,
       Bus!ReadTimeout, Bus!ReadFails, Bus!WorkerLock, Bus!WorkerCall
<1>2. CASE ClosureTests
  <2>1. TypeOK'
    BY <1>2 DEF ClosureTests, Reads, TypeOK, Bus!TypeOK
  <2> QED
    BY <1>2, <2>1 DEF ClosureTests, Reads
<1>3. CASE ClosureLoads
  <2>1. TypeOK'
    BY <1>3 DEF ClosureLoads, Reads, TypeOK, Bus!TypeOK
  <2>2. invoked'.function = h_callback
    BY <1>3 DEF ClosureLoads, TypeOK
  <2> QED
    BY <1>3, <2>1, <2>2 DEF ClosureLoads, Reads
<1>4. CASE ClosureLoadUser
  <2>1. TypeOK'
    BY <1>4 DEF ClosureLoadUser, Reads, TypeOK, Bus!TypeOK
  <2>2. invoked'.function = invoked.function /\ invoked'.user = h_user
    BY <1>4 DEF ClosureLoadUser, TypeOK
  <2> QED
    BY <1>4, <2>1, <2>2 DEF ClosureLoadUser, Reads
<1>5. CASE ClosureReturns
  <2>1. Bus!WorkerStep
    BY <1>5 DEF ClosureReturns, Bus!WorkerStep
  <2>2. Bus!TypeOK'
    BY <1>5, <2>1, BusStepType DEF TypeOK
  <2>3. TypeOK'
    BY <1>5, <2>2 DEF ClosureReturns, TypeOK, Nobody
  <2> QED
    BY <1>5, <2>3 DEF ClosureReturns, Bus!CallbackReturns
<1>6. CASE ClosureStops
  <2>1. TypeOK'
    BY <1>6, BusStepType DEF ClosureStops, TypeOK
  <2> QED
    BY <1>6, <2>1 DEF ClosureStops, Bus!CallbackCallsStop
<1>7. CASE Unplug
  <2>1. TypeOK'
    BY <1>7, BusStepType DEF Unplug, TypeOK
  <2> QED
    BY <1>7, <2>1 DEF Unplug, Bus!Unplug
<1> QED
  BY <1>1, <1>2, <1>3, <1>4, <1>5, <1>6, <1>7 DEF ThreadStep

\* Every step of the application, of the receive thread and of the adapter
\* keeps ApiInv.
LEMMA ApiInvNext ==
    ASSUME ApiInv, [Next]_vars
    PROVE  ApiInv'
<1>1. CASE UNCHANGED vars
  BY <1>1 DEF ApiInv, TypeOK, Bus!TypeOK, CallsKnown, ThreadHasHandle, PairInHandle,
              ClosureReads
<1> QED
  BY <1>1, OpeningKeepsApiInv, CallKeepsApiInv, ThreadKeepsApiInv DEF Next, AppStep

-----------------------------------------------------------------------------
\* The inductive invariant, for any set of C callbacks: the type invariant,
\* where the bus is during each call, and what handle and closure hold.
THEOREM ApiInvariant == Spec => []ApiInv
<1>1. Init => ApiInv
  BY ApiInvInit
<1>2. ApiInv /\ [Next]_vars => ApiInv'
  BY ApiInvNext
<1> QED
  BY <1>1, <1>2, PTL DEF Spec

\* canfd_close() never deletes a handle that the receive thread may still use,
\* also when a callback has stopped its own loop before, and no order of the
\* calls closes a bus whose thread is in a read.
THEOREM HandleOutlives == Spec => [](HandleOutlivesThread /\ worker # "dangling")
<1>1. ApiInv => HandleOutlivesThread /\ worker # "dangling"
  BY DEF ApiInv, ThreadHasHandle, HandleOutlivesThread
<1> QED
  BY <1>1, ApiInvariant, PTL

\* The closure invokes the callback that the bus was started with, with its own
\* user data, unless canfd_start() is called while there is a receive thread.
THEOREM CallsPair == Spec => []CallsAcceptedPair
<1>1. ApiInv => CallsAcceptedPair
  <2> SUFFICES ASSUME ApiInv, lambda = "call", ~crossed
               PROVE  invoked = [function |-> accepted, user |-> accepted]
    BY DEF CallsAcceptedPair
  <2>1. invoked.function = accepted /\ invoked.user = accepted
    BY DEF ApiInv, ClosureReads
  <2>2. invoked \in [function : Callbacks \cup {None}, user : Callbacks \cup {None}]
    BY DEF ApiInv, TypeOK
  <2> QED
    BY <2>1, <2>2
<1> QED
  BY <1>1, ApiInvariant, PTL

\* The C API drives the bus as ReceiveLoop has its application do, with a callback
\* that may stop its own loop.
THEOREM ApiDrivesLoop == Spec => Bus!SelfStopSpec
<1>1. Init => Bus!Init
  BY DEF Init
<1>2. [Next]_vars => [Bus!Next \/ Bus!CallbackCallsStop]_(Bus!vars)
  <2> SUFFICES ASSUME [Next]_vars
               PROVE  Bus!Next \/ Bus!CallbackCallsStop \/ UNCHANGED Bus!vars
    OBVIOUS
  <2> USE DEF Bus!vars
  <2>1. CASE Next
    <3>1. CASE Open \/ (\E c \in Callbacks : Start(c)) \/ StartSetUser \/ StartRefused
      BY <3>1 DEF Open, Start, StartSetUser, StartRefused
    <3>2. CASE Configure \/ Stop \/ Close \/ Unplug
      BY <2>1, <3>2 DEF Next, Configure, Stop, Close, Unplug, Bus!Next
    <3>3. CASE StartBus \/ BusContinues
      BY <2>1, <3>3 DEF Next, StartBus, BusContinues, Bus!Next
    <3>4. CASE ApiReturns \/ ClosureTests \/ ClosureLoads \/ ClosureLoadUser
      BY <3>4 DEF ApiReturns, ClosureTests, ClosureLoads, ClosureLoadUser, Reads
    <3>5. CASE LoopStep \/ ClosureReturns
      BY <2>1, <3>5 DEF Next, LoopStep, ClosureReturns, Bus!Next, Bus!WorkerStep
    <3>6. CASE ClosureStops
      BY <3>6 DEF ClosureStops
    <3> QED
      BY <2>1, <3>1, <3>2, <3>3, <3>4, <3>5, <3>6 DEF Next, AppStep, ThreadStep
  <2>2. CASE UNCHANGED vars
    BY <2>2
  <2> QED
    BY <2>1, <2>2
<1> QED
  BY <1>1, <1>2, PTL DEF Spec, Bus!SelfStopSpec

\* No C program ends by std::terminate unless it starts a loop that its own
\* callback has stopped.
THEOREM DiesOnlyOfCrossing == Spec => []DiesOfCrossing
<1>1. Init => MetThread /\ DiesOfCrossing
  BY DEF Init, Bus!Init, MetThread, DiesOfCrossing
<1>2. ApiInv /\ MetThread /\ DiesOfCrossing /\ [Next]_vars => (MetThread /\ DiesOfCrossing)'
  <2> SUFFICES ASSUME ApiInv, MetThread, DiesOfCrossing, [Next]_vars
               PROVE  (MetThread /\ DiesOfCrossing)'
    OBVIOUS
  <2> USE DEF MetThread, DiesOfCrossing
  <2>1. CASE Next
    <3>1. CASE Open \/ (\E c \in Callbacks : Start(c)) \/ StartSetUser \/ StartRefused
      BY <2>1, <3>1 DEF Next, Open, Start, StartSetUser, StartRefused, ApiInv, CallsKnown
    <3>2. CASE Configure \/ Stop \/ Close \/ Unplug
      BY <2>1, <3>2 DEF Next, Configure, Stop, Close, Unplug, Bus!Connect, Bus!StopClearRunning,
                        Bus!Unplug
    <3>3. CASE StartBus
      BY <2>1, <3>3 DEF Next, StartBus, Bus!StartClaim
    <3>4. CASE BusContinues
      BY <2>1, <3>4 DEF Next, BusContinues, Bus!AppContinues, Bus!StartSetCallback, Bus!StartSpawn,
                        Bus!StopJoin, Bus!StopJoinRunning, Bus!StopClearCallback, Bus!Joined,
                        Bus!StopReturns, Bus!Close, ApiInv, CallsKnown, ThreadHasHandle
    <3>5. CASE ApiReturns \/ ClosureTests \/ ClosureLoads \/ ClosureLoadUser
      BY <2>1, <3>5 DEF Next, ApiReturns, ClosureTests, ClosureLoads, ClosureLoadUser, Reads
    <3>6. CASE LoopStep
      BY <2>1, <3>6 DEF Next, LoopStep, Bus!WorkerCheck, Bus!WorkerReceive, Bus!ReadFrame,
                        Bus!ReadTimeout, Bus!ReadFails, Bus!WorkerLock, Bus!WorkerCall
    <3>7. CASE ClosureReturns \/ ClosureStops
      BY <2>1, <3>7 DEF Next, ClosureReturns, ClosureStops, Bus!CallbackReturns,
                        Bus!CallbackCallsStop
    <3> QED
      BY <2>1, <3>1, <3>2, <3>3, <3>4, <3>5, <3>6, <3>7 DEF Next, AppStep, ThreadStep
  <2>2. CASE UNCHANGED vars
    BY <2>2
  <2> QED
    BY <2>1, <2>2
<1> QED
  BY <1>1, <1>2, ApiInvariant, PTL DEF Spec
=============================================================================
