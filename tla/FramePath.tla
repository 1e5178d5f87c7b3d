----------------------------- MODULE FramePath -----------------------------
(***************************************************************************)
(* A frame on its way: encodeFrame() in send(), the adapter's loopback and *)
(* the traffic of other nodes, and receive() with its deadline, drop_echo  *)
(* and decodeFrame() (src/src/frame.cpp and device.cpp; protocol.py and    *)
(* bus.py are the same but for the last millisecond of a timeout, and      *)
(* c_api.cpp copies the frame on both ways).                               *)
(* A payload is its length and how many of its bytes were really sent: the *)
(* rest is zero.  Time is counted in half milliseconds.                    *)
(***************************************************************************)
EXTENDS Integers, Sequences

CONSTANTS
    Setups,         \* what a behaviour is about, see Setup
    SffIds, EffIds, \* 2^11 and 2^29: the numbers of standard, extended ids
    Timeouts,       \* timeouts receive() is called with, 0 for "block"
    StampWrap,      \* 2^32 microseconds: where the adapter's clock wraps
    MaxClock        \* bound: the host clock stops there, timeouts do not

DlcToLen == [dlc \in 0 .. 15 |->
    <<0, 1, 2, 3, 4, 5, 6, 7, 8, 12, 16, 20, 24, 32, 48, 64>>[dlc + 1]]

Frame == [id : 0 .. EffIds - 1, extended : BOOLEAN, fd : BOOLEAN, brs : BOOLEAN,
          remote : BOOLEAN, size : Nat]
Own   == "own"
Other == "other"

MaxSize(fd) == IF fd THEN 64 ELSE 8

Encodable(f) == f.size <= MaxSize(f.fd)

\* The bus as configured, the interface that the program uses, and the load.
Setup(s) ==
    /\ s.fd_mode \in BOOLEAN      \* is_fd
    /\ s.hw_timestamp \in BOOLEAN \* the adapter appends a time stamp
    /\ s.drop_echo \in BOOLEAN
    /\ s.host \in {"C++", "C", "Python"}
    /\ s.frames \subseteq Frame   \* frames the program passes to send()
    /\ s.traffic \subseteq {f \in Frame : Encodable(f)}  \* frames of other nodes
    /\ s.torn \in BOOLEAN         \* a read may end between two packets of a frame
    /\ s.torn => s.host # "Python"    \* (what pyusb does then is not modelled)
    /\ s.max_frames \in Nat       \* bound: frames that arrive in a behaviour

ASSUME FrameAssumption ==
    /\ \A s \in Setups : Setup(s)
    /\ SffIds \in Nat \ {0} /\ EffIds \in Nat \ {0} /\ StampWrap \in Nat \ {0}
    /\ Timeouts \subseteq {t \in Nat : t % 2 = 0}
    /\ MaxClock \in Nat

VARIABLES
    setup,      \* the Setup
    clock,      \* the host's monotonic clock since it was first read
    fifo,       \* bulk IN buffers that wait in the adapter
    arrived,    \* history: what was ever put into fifo, with its origin
    got,        \* the frames that receive() returned, with their place in arrived
    call,       \* receive(): "idle", "loop" or "read", and the timeout argument
    rest,       \* time to the deadline of that call
    wait        \* time to the timeout of its bulk read, or Forever

vars == <<setup, clock, fifo, arrived, got, call, rest, wait>>

Forever == -1

\* A frame on the wire, a buffer that holds it, what is remembered of its origin,
\* and what receive() makes of it.
Wire    == [tag : BOOLEAN, id : Nat, extended : BOOLEAN, remote : BOOLEAN, fd : BOOLEAN,
            brs : BOOLEAN, dlc : 0 .. 15, bytes : Nat]
Buffer  == [frame : Wire, stamp : Nat, torn : BOOLEAN, place : Nat]
Arrival == [from : {Own, Other}, echo : BOOLEAN, frame : {f \in Frame : Encodable(f)}]
Result  == [echo : BOOLEAN, id : Nat, extended : BOOLEAN, remote : BOOLEAN, fd : BOOLEAN,
            brs : BOOLEAN, size : Nat, bytes : Nat, timestamp : Nat, place : Nat]

TypeOK ==
    /\ setup \in Setups
    /\ clock \in 0 .. MaxClock
    /\ fifo \in Seq(Buffer) /\ arrived \in Seq(Arrival) /\ got \in Seq(Result)
    /\ call \in [at : {"idle", "loop", "read"}, timeout : Timeouts \cup {0}]
    /\ rest \in Nat /\ wait \in Nat \cup {Forever}

\* No host clock starts at zero, and no adapter's clock with the host's.
HostNow  == 100 + clock
StampNow == (clock + 1) % StampWrap

-----------------------------------------------------------------------------
(***************************************************************************)
(* The codec.                                                              *)
(***************************************************************************)
\* Variant: the table is searched for a longer entry than needed.
LengthToDlcStrict(length, fd) ==
    IF ~fd THEN length
    ELSE CHOOSE dlc \in 0 .. 15 :
            /\ DlcToLen[dlc] > length \/ dlc = 15
            /\ \A d \in 0 .. dlc - 1 : DlcToLen[d] <= length

\* The first table entry that is long enough.
LengthToDlc(length, fd) ==
    IF ~fd THEN length
    ELSE CHOOSE dlc \in 0 .. 15 :
            /\ DlcToLen[dlc] >= length
            /\ \A d \in 0 .. dlc - 1 : DlcToLen[d] < length

DlcToLength(dlc, fd) ==
    IF fd THEN DlcToLen[dlc] ELSE IF dlc > 8 THEN 0 ELSE dlc

\* Variant: every frame carries the echo tag.
EncodeTagged(f, echo) ==
    [tag |-> TRUE, id |-> f.id % (IF f.extended THEN EffIds ELSE SffIds),
     extended |-> f.extended, remote |-> f.remote, fd |-> f.fd, brs |-> f.brs,
     dlc |-> LengthToDlc(f.size, f.fd), bytes |-> f.size]

\* encodeFrame(): `tag` says that echo_id is not 0xFFFFFFFF.
Encode(f, echo) ==
    [tag |-> echo, id |-> f.id % (IF f.extended THEN EffIds ELSE SffIds),
     extended |-> f.extended, remote |-> f.remote, fd |-> f.fd, brs |-> f.brs,
     dlc |-> LengthToDlc(f.size, f.fd), bytes |-> f.size]

\* A hardware time stamp of zero counts as none.
Timestamp(buffer) ==
    IF setup.hw_timestamp /\ buffer.stamp > 0 THEN buffer.stamp ELSE HostNow

Decode(buffer) ==
    LET size == DlcToLength(buffer.frame.dlc, buffer.frame.fd)
    IN [echo |-> buffer.frame.tag, id |-> buffer.frame.id,
        extended |-> buffer.frame.extended, remote |-> buffer.frame.remote,
        fd |-> buffer.frame.fd, brs |-> buffer.frame.brs, size |-> size,
        bytes |-> IF buffer.frame.bytes < size THEN buffer.frame.bytes ELSE size,
        timestamp |-> Timestamp(buffer), place |-> buffer.place]

-----------------------------------------------------------------------------
Init ==
    /\ clock = 0
    /\ fifo = <<>> /\ arrived = <<>> /\ got = <<>>
    /\ call = [at |-> "idle", timeout |-> 0]
    /\ rest = 0 /\ wait = 0
    /\ setup \in Setups

\* The adapter puts a frame into its receive queue.
Queue(frame, origin) ==
    /\ Len(arrived) < setup.max_frames
    /\ fifo' = Append(fifo, [frame |-> frame, stamp |-> StampNow, torn |-> FALSE,
                              place |-> Len(arrived) + 1])
    /\ arrived' = Append(arrived, origin)

\* The Python code drops the bit rate switch on a classic bus, and toBusFrame() of the
\* C API what is longer than any frame.
Outgoing(f) ==
    [f EXCEPT !.brs = @ /\ (setup.host = "Python" => setup.fd_mode),
              !.size = IF setup.host = "C" /\ @ > 64 THEN 64 ELSE @]

\* send() accepts a frame; the adapter transmits it and loops it back with the
\* echo id it was given.  Refused frames change nothing.
Send(f, echo) ==
    /\ call.at = "idle"
    /\ Encodable(Outgoing(f)) /\ (f.fd => setup.fd_mode)
    /\ Queue(Encode(Outgoing(f), echo), [from |-> Own, echo |-> echo, frame |-> Outgoing(f)])
    /\ UNCHANGED <<setup, clock, got, call, rest, wait>>

\* A frame of another node: the adapter marks it with no echo id.
Arrive(f) ==
    /\ f.fd => setup.fd_mode
    /\ Queue(Encode(f, FALSE), [from |-> Other, echo |-> FALSE, frame |-> f])
    /\ UNCHANGED <<setup, clock, got, call, rest, wait>>

\* Time passes.
Tick ==
    /\ clock' = IF clock < MaxClock THEN clock + 1 ELSE clock
    /\ rest' = IF rest > 0 THEN rest - 1 ELSE 0
    /\ wait' = IF wait > 0 THEN wait - 1 ELSE wait
    /\ UNCHANGED <<setup, fifo, arrived, got, call>>

-----------------------------------------------------------------------------
\* receive(timeout) is called.
Receive(timeout) ==
    /\ call.at = "idle"
    /\ call' = [at |-> "loop", timeout |-> timeout]
    /\ rest' = timeout
    /\ UNCHANGED <<setup, clock, fifo, arrived, got, wait>>

\* The C++ code counts whole milliseconds; the Python code reads for at least
\* one as long as anything remains.
RemainingMs == IF setup.host = "Python" /\ rest = 1 THEN 1 ELSE rest \div 2

\* Variant: only an exceeded deadline ends the call.
DeadlineExceeded == call.timeout > 0 /\ RemainingMs < 0
DeadlinePassed == call.timeout > 0 /\ RemainingMs <= 0

\* The deadline is over: no frame.
ReceiveExpires ==
    /\ call.at = "loop" /\ DeadlinePassed
    /\ call' = [call EXCEPT !.at = "idle"]
    /\ UNCHANGED <<setup, clock, fifo, arrived, got, rest, wait>>

\* A bulk read for what remains; libusb takes 0 for "no timeout".
ReceiveReads ==
    /\ call.at = "loop" /\ ~DeadlinePassed
    /\ call' = [call EXCEPT !.at = "read"]
    /\ wait' = IF call.timeout > 0 /\ RemainingMs > 0 THEN 2 * RemainingMs ELSE Forever
    /\ UNCHANGED <<setup, clock, fifo, arrived, got, rest>>

\* Variant: drop_echo drops what came from the adapter's loopback at all.
SkippedOwn(buffer) == setup.drop_echo /\ arrived[buffer.place].from = Own
Skipped(buffer) == setup.drop_echo /\ buffer.frame.tag

\* The read returns the oldest frame; an echo-tagged one goes back to the loop.
ReadFrame ==
    /\ call.at = "read" /\ fifo # <<>> /\ ~Head(fifo).torn
    /\ IF Skipped(Head(fifo))
       THEN call' = [call EXCEPT !.at = "loop"] /\ UNCHANGED got
       ELSE call' = [call EXCEPT !.at = "idle"] /\ got' = Append(got, Decode(Head(fifo)))
    /\ fifo' = Tail(fifo)
    /\ UNCHANGED <<setup, clock, arrived, rest, wait>>

\* The read times out: receive() returns false.
ReadTimesOut ==
    /\ call.at = "read" /\ wait = 0
    /\ call' = [call EXCEPT !.at = "idle"]
    /\ UNCHANGED <<setup, clock, fifo, arrived, got, rest, wait>>

\* The read times out after the first USB packet of a frame of two: the C++ bulkRead()
\* forgets it, receive() returns false, the second packet is left to be read.
ReadTimesOutTorn ==
    /\ setup.torn
    /\ call.at = "read" /\ wait = 0
    /\ fifo # <<>> /\ Head(fifo).frame.fd /\ ~Head(fifo).torn
    /\ fifo' = [fifo EXCEPT ![1].torn = TRUE]
    /\ call' = [call EXCEPT !.at = "idle"]
    /\ UNCHANGED <<setup, clock, arrived, got, rest, wait>>

\* The rest of a torn frame is payload that is decoded as a header: some frame
\* that nobody sent comes out of it, or too few bytes for one.
ReadRemainder ==
    /\ call.at = "read" /\ fifo # <<>> /\ Head(fifo).torn
    /\ \/ got' = Append(got, [Decode(Head(fifo)) EXCEPT !.place = 0])
       \/ UNCHANGED got
    /\ call' = [call EXCEPT !.at = "idle"]
    /\ fifo' = Tail(fifo)
    /\ UNCHANGED <<setup, clock, arrived, rest, wait>>

ReceiveStep == ReceiveExpires \/ ReceiveReads \/ ReadFrame \/ ReadTimesOut
                  \/ ReadTimesOutTorn \/ ReadRemainder

Next ==
    \/ \E f \in setup.frames, echo \in BOOLEAN : Send(f, echo)
    \/ \E f \in setup.traffic : Arrive(f)
    \/ \E timeout \in Timeouts : Receive(timeout)
    \/ ReceiveStep
    \/ Tick

Spec == Init /\ [][Next]_vars

\* A call that was made goes on, and time passes; nobody has to send.
FairSpec == Spec /\ WF_vars(ReceiveStep) /\ WF_vars(Tick)

-----------------------------------------------------------------------------
(***************************************************************************)
(* Properties.                                                             *)
(***************************************************************************)
\* Frames made up by ReadRemainder have no place.
Returned == {r \in {got[i] : i \in DOMAIN got} : r.place # 0}

\* The lengths a frame of either kind can have on the bus.
Lengths(fd) == 0 .. 8 \cup (IF fd THEN {12, 16, 20, 24, 32, 48, 64} ELSE {})

\* A frame r is what f has to come back as: its number within 11 or 29 bits, its
\* flags, all of its bytes, and behind them only as many zeroes as the next length
\* of its kind requires.
Survives(f, r) ==
    /\ r.extended = f.extended /\ r.remote = f.remote /\ r.fd = f.fd /\ r.brs = f.brs
    /\ r.id = f.id % (IF f.extended THEN EffIds ELSE SffIds)
    /\ r.bytes = f.size
    /\ r.size \in Lengths(f.fd) /\ r.size >= f.size
    /\ \A n \in Lengths(f.fd) : n >= f.size => n >= r.size

\* What receive() returns of a frame, after encodeFrame(), the adapter's queue and
\* decodeFrame(), is that frame.
FrameSurvives == \A r \in Returned : Survives(arrived[r.place].frame, r)

\* canfd.h: echo "is the only way to tell this adapter's own transmissions
\* apart", and a send without it "can never produce echo frames".  A returned
\* frame is marked exactly when this host sent it with the tag.
EchoIsOwnAndTagged ==
    \A r \in Returned :
        r.echo <=> arrived[r.place].from = Own /\ arrived[r.place].echo

\* receive() returns the frames in the order of the adapter's queue.  Only
\* echo-tagged ones are missing, and only with drop_echo, unless a read ended
\* inside a frame.
Taken == Len(arrived) - Len(fifo)
InOrderWithoutGaps ==
    /\ \A i, j \in DOMAIN got :
          i < j /\ got[i].place # 0 /\ got[j].place # 0 => got[i].place < got[j].place
    /\ ~setup.torn => \A place \in 1 .. Taken :
          \/ \E r \in Returned : r.place = place
          \/ setup.drop_echo /\ arrived[place].echo

\* However many echoes are dropped on the way, a receive() with a timeout never
\* reads without one, and its reads end with the deadline; the Python code may
\* use up the millisecond that has begun.
ReadsWithinDeadline ==
    call.at = "read" /\ call.timeout > 0 =>
        wait # Forever /\ wait <= rest + (IF setup.host = "Python" THEN 1 ELSE 0)

\* README: "receive() returns every frame the adapter sees".
EveryFrameIsReturned ==
    \A place \in 1 .. Taken :
        setup.drop_echo \/ \E r \in Returned : r.place = place

\* README: CanFrame::timestamp "is always non-zero and non-decreasing".
TimestampsOrdered ==
    /\ \A i \in DOMAIN got : got[i].timestamp > 0
    /\ \A i, j \in DOMAIN got : i < j => got[i].timestamp <= got[j].timestamp

\* receive() with a timeout returns, also while echoes keep being dropped.
ReceiveReturns == call.at # "idle" /\ call.timeout > 0 ~> call.at = "idle"
-----------------------------------------------------------------------------
(***************************************************************************)
(* The inductive invariant behind the safety properties.                   *)
(***************************************************************************)
\* What waits in the adapter are the last arrivals, encoded as they were sent;
\* only this host asks for an echo, and frames are only torn where reads are.
QueueKnown ==
    /\ Len(fifo) <= Len(arrived) /\ Len(arrived) <= setup.max_frames
    /\ \A p \in DOMAIN arrived : arrived[p].echo => arrived[p].from = Own
    /\ \A i \in DOMAIN fifo :
          /\ fifo[i].place = Taken + i
          /\ fifo[i].frame = Encode(arrived[Taken + i].frame, arrived[Taken + i].echo)
          /\ ~setup.torn => ~fifo[i].torn

\* What a returned frame is, where it has a place: the frame that was taken from
\* the queue there, with its mark.
ResultsKnown ==
    \A i \in DOMAIN got : got[i].place # 0 =>
        /\ got[i].place \in 1 .. Taken
        /\ got[i].echo = arrived[got[i].place].echo
        /\ Survives(arrived[got[i].place].frame, got[i])

\* The order of the results, and that nothing is missing between them.
Ordered ==
    \A i, j \in DOMAIN got :
        i < j /\ got[i].place # 0 /\ got[j].place # 0 => got[i].place < got[j].place

Complete ==
    ~setup.torn => \A place \in 1 .. Taken :
        \/ \E i \in DOMAIN got : got[i].place = place
        \/ setup.drop_echo /\ arrived[place].echo

PathInv == TypeOK /\ QueueKnown /\ ResultsKnown /\ Ordered /\ Complete /\ ReadsWithinDeadline
=============================================================================
