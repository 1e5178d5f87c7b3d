--------------------------- MODULE FramePath_proof ---------------------------
(***************************************************************************)
(* The safety properties of the frame path for any frames, traffic, time   *)
(* outs, id widths and clocks, by the inductive invariant PathInv.         *)
(***************************************************************************)
EXTENDS FramePath, SequenceTheorems, TLAPS

USE DEF vars

-----------------------------------------------------------------------------
(***************************************************************************)
(* The codec: what encodeFrame() and decodeFrame() do to any frame.        *)
(***************************************************************************)
\* kDlcToLen, entry by entry.
LEMMA TableOfLengths ==
    /\ DlcToLen[0] = 0   /\ DlcToLen[1] = 1   /\ DlcToLen[2] = 2   /\ DlcToLen[3] = 3
    /\ DlcToLen[4] = 4   /\ DlcToLen[5] = 5   /\ DlcToLen[6] = 6   /\ DlcToLen[7] = 7
    /\ DlcToLen[8] = 8   /\ DlcToLen[9] = 12  /\ DlcToLen[10] = 16 /\ DlcToLen[11] = 20
    /\ DlcToLen[12] = 24 /\ DlcToLen[13] = 32 /\ DlcToLen[14] = 48 /\ DlcToLen[15] = 64
BY DEF DlcToLen

\* The table rises.
LEMMA TableRises ==
    ASSUME NEW d \in 0 .. 15, NEW e \in 0 .. 15, DlcToLen[d] < DlcToLen[e]
    PROVE  d < e
BY TableOfLengths

\* The table holds the lengths that an FD frame can have, and no others.
LEMMA TableIsLengths ==
    /\ \A d \in 0 .. 15 : DlcToLen[d] \in Lengths(TRUE)
    /\ \A n \in Lengths(TRUE) : \E d \in 0 .. 15 : DlcToLen[d] = n
<1>1. ASSUME NEW d \in 0 .. 15
      PROVE  DlcToLen[d] \in Lengths(TRUE)
  BY TableOfLengths DEF Lengths
<1>2. ASSUME NEW n \in 0 .. 8
      PROVE  \E d \in 0 .. 15 : DlcToLen[d] = n
  BY TableOfLengths
<1>3. ASSUME NEW n \in {12, 16, 20, 24, 32, 48, 64}
      PROVE  \E d \in 0 .. 15 : DlcToLen[d] = n
  BY TableOfLengths
<1> QED
  BY <1>1, <1>2, <1>3 DEF Lengths

\* Every length up to 64 has a first table entry that is long enough.
LEMMA FirstEntryExists ==
    ASSUME NEW length \in 0 .. 64
    PROVE  \E dlc \in 0 .. 15 :
              /\ DlcToLen[dlc] >= length
              /\ \A d \in 0 .. dlc - 1 : DlcToLen[d] < length
<1>1. CASE length \in 0 .. 8
  <2>1. DlcToLen[length] = length
    BY <1>1, TableOfLengths
  <2>2. \A d \in 0 .. length - 1 : DlcToLen[d] < length
    BY <1>1, TableOfLengths
  <2> QED
    BY <1>1, <2>1, <2>2
<1>2. CASE length \in 9 .. 12
  <2>1. \A d \in 0 .. 8 : DlcToLen[d] < length
    BY <1>2, TableOfLengths
  <2> QED
    BY <1>2, <2>1, TableOfLengths
<1>3. CASE length \in 13 .. 16
  <2>1. \A d \in 0 .. 9 : DlcToLen[d] < length
    BY <1>3, TableOfLengths
  <2> QED
    BY <1>3, <2>1, TableOfLengths
<1>4. CASE length \in 17 .. 20
  <2>1. \A d \in 0 .. 10 : DlcToLen[d] < length
    BY <1>4, TableOfLengths
  <2> QED
    BY <1>4, <2>1, TableOfLengths
<1>5. CASE length \in 21 .. 24
  <2>1. \A d \in 0 .. 11 : DlcToLen[d] < length
    BY <1>5, TableOfLengths
  <2> QED
    BY <1>5, <2>1, TableOfLengths
<1>6. CASE length \in 25 .. 32
  <2>1. \A d \in 0 .. 12 : DlcToLen[d] < length
    BY <1>6, TableOfLengths
  <2> QED
    BY <1>6, <2>1, TableOfLengths
<1>7. CASE length \in 33 .. 48
  <2>1. \A d \in 0 .. 13 : DlcToLen[d] < length
    BY <1>7, TableOfLengths
  <2> QED
    BY <1>7, <2>1, TableOfLengths
<1>8. CASE length \in 49 .. 64
  <2>1. \A d \in 0 .. 14 : DlcToLen[d] < length
    BY <1>8, TableOfLengths
  <2> QED
    BY <1>8, <2>1, TableOfLengths
<1> QED
  BY <1>1, <1>2, <1>3, <1>4, <1>5, <1>6, <1>7, <1>8

\* length_to_dlc() and dlc_to_length() of a frame that may be sent: the shortest
\* length of its kind that holds the payload.
LEMMA ShortestLength ==
    ASSUME NEW size \in Nat, NEW fd \in BOOLEAN, size <= MaxSize(fd)
    PROVE  LET dlc    == LengthToDlc(size, fd)
               length == DlcToLength(dlc, fd)
           IN  /\ dlc \in 0 .. 15
               /\ length \in Lengths(fd) /\ length >= size
               /\ \A n \in Lengths(fd) : n >= size => n >= length
<1> DEFINE dlc    == LengthToDlc(size, fd)
           length == DlcToLength(dlc, fd)
<1>1. CASE ~fd
  <2>1. dlc = size /\ size \in 0 .. 8
    BY <1>1 DEF LengthToDlc, MaxSize
  <2>2. length = size
    BY <1>1, <2>1 DEF DlcToLength
  <2>3. Lengths(fd) = 0 .. 8
    BY <1>1 DEF Lengths
  <2> HIDE DEF dlc, length
  <2>4. /\ dlc \in 0 .. 15
        /\ length \in Lengths(fd) /\ length >= size
        /\ \A n \in Lengths(fd) : n >= size => n >= length
    BY <2>1, <2>2, <2>3
  <2> QED
    BY <2>4 DEF dlc, length
<1>2. CASE fd
  <2> DEFINE First(d) == /\ DlcToLen[d] >= size
                         /\ \A e \in 0 .. d - 1 : DlcToLen[e] < size
  <2>1. dlc = CHOOSE d \in 0 .. 15 : First(d)
    BY <1>2 DEF LengthToDlc
  <2>2. \E d \in 0 .. 15 : First(d)
    <3>1. size \in 0 .. 64
      BY <1>2 DEF MaxSize
    <3> QED
      BY <3>1, FirstEntryExists
  <2> HIDE DEF dlc
  <2>3. dlc \in 0 .. 15 /\ First(dlc)
    <3> HIDE DEF First
    <3> QED
      BY <2>1, <2>2
  <2>4. length = DlcToLen[dlc]
    BY <1>2 DEF DlcToLength
  <2>5. Lengths(fd) = Lengths(TRUE)
    BY <1>2
  <2> HIDE DEF length
  <2>6. length \in Lengths(fd)
    BY <2>3, <2>4, <2>5, TableIsLengths
  <2>7. ASSUME NEW n \in Lengths(fd), n >= size, n < length
        PROVE  FALSE
    <3>1. PICK d \in 0 .. 15 : DlcToLen[d] = n
      BY <2>5, TableIsLengths
    <3>2. d < dlc
      BY <2>3, <2>4, <2>7, <3>1, TableRises
    <3>3. n < size
      BY <2>3, <3>1, <3>2
    <3> QED
      BY <2>7, <3>1, <3>3, TableOfLengths
  <2>8. \A n \in Lengths(fd) : n \in Nat
    BY DEF Lengths
  <2>9. \A n \in Lengths(fd) : n >= size => n >= length
    BY <2>6, <2>7, <2>8
  <2> QED
    BY <2>3, <2>4, <2>6, <2>9 DEF dlc, length
<1> QED
  BY <1>1, <1>2

\* encodeFrame() and decodeFrame() in types.
LEMMA EncodeType ==
    ASSUME NEW f \in Frame, Encodable(f), NEW echo \in BOOLEAN
    PROVE  Encode(f, echo) \in Wire
<1>1. f.id % (IF f.extended THEN EffIds ELSE SffIds) \in Nat
  BY FrameAssumption DEF Frame
<1>2. LengthToDlc(f.size, f.fd) \in 0 .. 15
  BY ShortestLength DEF Frame, Encodable
<1> QED
  BY <1>1, <1>2 DEF Encode, Wire, Frame

LEMMA DecodeType ==
    ASSUME NEW b \in Buffer, clock \in 0 .. MaxClock
    PROVE  Decode(b) \in Result
<1>1. DlcToLength(b.frame.dlc, b.frame.fd) \in Nat
  BY TableOfLengths DEF DlcToLength, Buffer, Wire
<1>2. Timestamp(b) \in Nat
  BY FrameAssumption DEF Timestamp, HostNow, Buffer
<1> QED
  BY <1>1, <1>2 DEF Decode, Result, Buffer, Wire

\* A frame that was encoded and is decoded survives, with its mark.
LEMMA RoundTrip ==
    ASSUME NEW f \in Frame, Encodable(f), NEW echo \in BOOLEAN,
           NEW b \in Buffer, b.frame = Encode(f, echo)
    PROVE  /\ Survives(f, Decode(b))
           /\ Decode(b).echo = echo /\ Decode(b).place = b.place
<1> DEFINE size == DlcToLength(LengthToDlc(f.size, f.fd), f.fd)
<1>1. /\ size \in Lengths(f.fd) /\ size >= f.size
      /\ \A n \in Lengths(f.fd) : n >= f.size => n >= size
  BY ShortestLength DEF Frame, Encodable
<1>2. size \in Nat
  BY <1>1 DEF Lengths
<1>3. /\ b.frame.dlc = LengthToDlc(f.size, f.fd) /\ b.frame.fd = f.fd
      /\ b.frame.tag = echo /\ b.frame.bytes = f.size
      /\ b.frame.id = f.id % (IF f.extended THEN EffIds ELSE SffIds)
      /\ b.frame.extended = f.extended /\ b.frame.remote = f.remote /\ b.frame.brs = f.brs
  BY DEF Encode
<1>4. /\ Decode(b).size = size
      /\ Decode(b).bytes = IF f.size < size THEN f.size ELSE size
      /\ Decode(b).echo = echo /\ Decode(b).place = b.place
      /\ Decode(b).fd = f.fd /\ Decode(b).extended = f.extended
      /\ Decode(b).remote = f.remote /\ Decode(b).brs = f.brs
      /\ Decode(b).id = f.id % (IF f.extended THEN EffIds ELSE SffIds)
  BY <1>3 DEF Decode
<1> HIDE DEF size
<1>5. Decode(b).bytes = f.size
  BY <1>1, <1>2, <1>4 DEF Frame
<1> QED
  BY <1>1, <1>4, <1>5 DEF Survives

\* What the interface of the program makes of a frame is still a frame.
LEMMA OutgoingType ==
    ASSUME setup \in Setups, NEW f \in setup.frames
    PROVE  f \in Frame /\ Outgoing(f) \in Frame
<1>1. Setup(setup)
  BY FrameAssumption
<1>2. f \in Frame
  BY <1>1 DEF Setup
<1>3. (f.brs /\ (setup.host = "Python" => setup.fd_mode)) \in BOOLEAN
  OBVIOUS
<1>4. (IF setup.host = "C" /\ f.size > 64 THEN 64 ELSE f.size) \in Nat
  BY <1>2 DEF Frame
<1> QED
  BY <1>2, <1>3, <1>4 DEF Outgoing, Frame

-----------------------------------------------------------------------------
(***************************************************************************)
(* Time: a read never outlasts its call.                                   *)
(***************************************************************************)
\* The milliseconds that remain are no more than the half milliseconds do, but
\* for the one that the Python code has begun.
LEMMA RemainingBound ==
    ASSUME rest \in Nat
    PROVE  /\ RemainingMs \in Nat
           /\ 2 * RemainingMs <= rest + (IF setup.host = "Python" THEN 1 ELSE 0)
<1>1. rest \div 2 \in Nat /\ 2 * (rest \div 2) <= rest
  OBVIOUS
<1> QED
  BY <1>1 DEF RemainingMs

-----------------------------------------------------------------------------
(***************************************************************************)
(* The inductive invariant.                                                *)
(***************************************************************************)
\* PathInv holds before the first frame.
LEMMA PathInvInit == Init => PathInv
<1> SUFFICES ASSUME Init PROVE PathInv
  OBVIOUS
<1>1. fifo = <<>> /\ arrived = <<>> /\ got = <<>> /\ setup \in Setups
  BY DEF Init
<1>2. setup.max_frames \in Nat
  BY <1>1, FrameAssumption DEF Setup
<1>3. TypeOK
  BY <1>1, FrameAssumption, EmptySeq DEF Init, TypeOK
<1>4. QueueKnown /\ ResultsKnown /\ Ordered
  BY <1>1, <1>2 DEF QueueKnown, ResultsKnown, Ordered
<1>5. Complete
  BY <1>1 DEF Complete, Taken
<1>6. ReadsWithinDeadline
  BY DEF Init, ReadsWithinDeadline
<1> QED
  BY <1>3, <1>4, <1>5, <1>6 DEF PathInv

\* What is known of the queue and of the results is not touched by a step that
\* moves no frame.
LEMMA FramesUntouched ==
    ASSUME QueueKnown, ResultsKnown, Ordered, Complete, UNCHANGED <<setup, fifo, arrived, got>>
    PROVE  QueueKnown' /\ ResultsKnown' /\ Ordered' /\ Complete'
<1>1. Taken' = Taken
  BY DEF Taken
<1>2. QueueKnown'
  BY <1>1 DEF QueueKnown, Encode
<1>3. ResultsKnown'
  BY <1>1 DEF ResultsKnown, Survives
<1>4. Ordered' /\ Complete'
  BY <1>1 DEF Ordered, Complete
<1> QED
  BY <1>2, <1>3, <1>4

\* A frame is put into the queue, by send() or by another node: nothing that was
\* known of the earlier ones changes.
LEMMA QueueKeepsPathInv ==
    ASSUME PathInv, NEW f \in Frame, Encodable(f), NEW origin \in Arrival,
           origin.frame = f, origin.echo => origin.from = Own,
           Queue(Encode(f, origin.echo), origin), UNCHANGED <<setup, clock, got, call, rest, wait>>
    PROVE  PathInv'
<1> USE DEF PathInv
<1> DEFINE new == [frame |-> Encode(f, origin.echo), stamp |-> StampNow, torn |-> FALSE,
                   place |-> Len(arrived) + 1]
<1>1. fifo \in Seq(Buffer) /\ arrived \in Seq(Arrival) /\ got \in Seq(Result) /\ setup \in Setups
  BY DEF TypeOK
<1>2. setup.max_frames \in Nat
  BY <1>1, FrameAssumption DEF Setup
<1>3. Len(arrived) \in Nat /\ Len(fifo) \in Nat /\ Len(fifo) <= Len(arrived)
  BY <1>1, LenProperties DEF QueueKnown
<1>4. StampNow \in Nat
  BY FrameAssumption DEF StampNow, TypeOK
<1>5. new \in Buffer
  BY <1>3, <1>4, EncodeType DEF Buffer, Arrival
<1>6. fifo' = Append(fifo, new) /\ arrived' = Append(arrived, origin)
  BY DEF Queue
<1> HIDE DEF new
<1>7. /\ fifo' \in Seq(Buffer) /\ Len(fifo') = Len(fifo) + 1
      /\ \A i \in 1 .. Len(fifo) : fifo'[i] = fifo[i]
      /\ fifo'[Len(fifo) + 1] = new
  BY <1>1, <1>5, <1>6, AppendProperties
<1>8. /\ arrived' \in Seq(Arrival) /\ Len(arrived') = Len(arrived) + 1
      /\ \A p \in 1 .. Len(arrived) : arrived'[p] = arrived[p]
      /\ arrived'[Len(arrived) + 1] = origin
  BY <1>1, <1>6, AppendProperties
<1>9. Taken' = Taken /\ Taken \in Nat /\ Taken + Len(fifo) = Len(arrived)
  BY <1>3, <1>7, <1>8 DEF Taken
<1>10. TypeOK'
  BY <1>7, <1>8 DEF TypeOK
<1>11. QueueKnown'
  <2>1. Len(fifo') <= Len(arrived') /\ Len(arrived') <= setup'.max_frames
    BY <1>2, <1>3, <1>7, <1>8 DEF Queue
  <2>2. ASSUME NEW p \in DOMAIN arrived', arrived'[p].echo
        PROVE  arrived'[p].from = Own
    <3>1. p \in 1 .. Len(arrived) + 1
      BY <1>8, LenProperties
    <3> QED
      BY <1>1, <1>3, <1>8, <2>2, <3>1, LenProperties DEF QueueKnown
  <2>3. ASSUME NEW i \in DOMAIN fifo'
        PROVE  /\ fifo'[i].place = Taken' + i
               /\ fifo'[i].frame = Encode(arrived'[Taken' + i].frame, arrived'[Taken' + i].echo)
               /\ ~setup'.torn => ~fifo'[i].torn
    <3>1. i \in 1 .. Len(fifo) + 1
      BY <1>7, LenProperties
    <3>2. CASE i = Len(fifo) + 1
      <4>1. fifo'[i] = new /\ Taken' + i = Len(arrived) + 1 /\ arrived'[Taken' + i] = origin
        BY <1>3, <1>7, <1>8, <1>9, <3>2
      <4> QED
        BY <4>1 DEF new
    <3>3. CASE i \in 1 .. Len(fifo)
      <4>1. i \in DOMAIN fifo /\ fifo'[i] = fifo[i]
        BY <1>1, <1>7, <3>3, LenProperties
      <4>2. arrived'[Taken' + i] = arrived[Taken + i]
        BY <1>3, <1>8, <1>9, <3>3
      <4> QED
        BY <1>9, <4>1, <4>2 DEF QueueKnown
    <3> QED
      BY <1>3, <3>1, <3>2, <3>3
  <2> QED
    BY <2>1, <2>2, <2>3 DEF QueueKnown, Encode
<1>12. ResultsKnown'
  <2>1. ASSUME NEW i \in DOMAIN got, got[i].place # 0
        PROVE  arrived'[got[i].place] = arrived[got[i].place] /\ got[i].place \in 1 .. Taken
    BY <1>3, <1>8, <1>9, <2>1 DEF ResultsKnown
  <2> QED
    BY <1>9, <2>1 DEF ResultsKnown
<1>13. Ordered'
  BY DEF Ordered
<1>14. Complete'
  <2>1. \A p \in 1 .. Taken : arrived'[p] = arrived[p]
    BY <1>3, <1>8, <1>9
  <2> QED
    BY <1>9, <2>1 DEF Complete
<1>15. ReadsWithinDeadline'
  BY DEF ReadsWithinDeadline
<1> QED
  BY <1>10, <1>11, <1>12, <1>13, <1>14, <1>15

\* send() and the frames of other nodes.
LEMMA ArrivalKeepsPathInv ==
    ASSUME PathInv,
           \/ \E f \in setup.frames, echo \in BOOLEAN : Send(f, echo)
           \/ \E f \in setup.traffic : Arrive(f)
    PROVE  PathInv'
<1>1. setup \in Setups
  BY DEF PathInv, TypeOK
<1>2. ASSUME NEW f \in setup.frames, NEW echo \in BOOLEAN, Send(f, echo)
      PROVE  PathInv'
  <2> DEFINE origin == [from |-> Own, echo |-> echo, frame |-> Outgoing(f)]
  <2>1. Outgoing(f) \in Frame /\ Encodable(Outgoing(f))
    BY <1>1, <1>2, OutgoingType DEF Send
  <2>2. /\ origin \in Arrival /\ origin.frame = Outgoing(f) /\ origin.echo = echo
        /\ origin.from = Own
    BY <2>1 DEF Arrival
  <2>3. /\ Queue(Encode(Outgoing(f), origin.echo), origin)
        /\ UNCHANGED <<setup, clock, got, call, rest, wait>>
    BY <1>2 DEF Send
  <2> HIDE DEF origin
  <2> QED
    BY <2>1, <2>2, <2>3, QueueKeepsPathInv
<1>3. ASSUME NEW f \in setup.traffic, Arrive(f)
      PROVE  PathInv'
  <2> DEFINE origin == [from |-> Other, echo |-> FALSE, frame |-> f]
  <2>1. f \in Frame /\ Encodable(f)
    BY <1>1, FrameAssumption DEF Setup
  <2>2. origin \in Arrival /\ origin.frame = f /\ ~origin.echo
    BY <2>1 DEF Arrival
  <2>3. /\ Queue(Encode(f, origin.echo), origin)
        /\ UNCHANGED <<setup, clock, got, call, rest, wait>>
    BY <1>3 DEF Arrive
  <2> HIDE DEF origin
  <2> QED
    BY <2>1, <2>2, <2>3, QueueKeepsPathInv
<1> QED
  BY <1>2, <1>3

\* Time passes and receive() begins, reads or ends without a frame.
LEMMA WaitingKeepsPathInv ==
    ASSUME PathInv,
           \/ Tick \/ (\E timeout \in Timeouts : Receive(timeout))
           \/ ReceiveExpires \/ ReceiveReads \/ ReadTimesOut
    PROVE  PathInv'
<1> USE DEF PathInv
<1>1. UNCHANGED <<setup, fifo, arrived, got>>
  BY DEF Tick, Receive, ReceiveExpires, ReceiveReads, ReadTimesOut
<1>2. QueueKnown' /\ ResultsKnown' /\ Ordered' /\ Complete'
  BY <1>1, FramesUntouched
<1>3. rest \in Nat /\ wait \in Nat \cup {-1} /\ clock \in 0 .. MaxClock /\ MaxClock \in Nat
  BY FrameAssumption DEF TypeOK, Forever
<1>4. call \in [at : {"idle", "loop", "read"}, timeout : Timeouts \cup {0}]
  BY DEF TypeOK
<1>5. \A timeout \in Timeouts \cup {0} : timeout \in Nat
  BY FrameAssumption
<1>6. CASE Tick
  <2>1. clock' \in 0 .. MaxClock /\ rest' \in Nat /\ wait' \in Nat \cup {-1} /\ call' = call
    BY <1>3, <1>6 DEF Tick
  <2>2. TypeOK'
    BY <1>1, <2>1 DEF TypeOK, Forever
  <2>3. ReadsWithinDeadline'
    BY <1>1, <1>3, <1>6 DEF Tick, ReadsWithinDeadline, Forever
  <2> QED
    BY <1>2, <2>2, <2>3
<1>7. ASSUME NEW timeout \in Timeouts, Receive(timeout)
      PROVE  PathInv'
  <2>1. TypeOK'
    BY <1>1, <1>5, <1>7 DEF Receive, TypeOK
  <2>2. ReadsWithinDeadline'
    BY <1>7 DEF Receive, ReadsWithinDeadline
  <2> QED
    BY <1>2, <2>1, <2>2
<1>8. CASE ReceiveExpires \/ ReadTimesOut
  <2>1. call' = [call EXCEPT !.at = "idle"] /\ UNCHANGED <<clock, rest, wait>>
    BY <1>8 DEF ReceiveExpires, ReadTimesOut
  <2>2. TypeOK'
    BY <1>1, <1>4, <2>1 DEF TypeOK
  <2>3. ReadsWithinDeadline'
    BY <1>4, <2>1 DEF ReadsWithinDeadline
  <2> QED
    BY <1>2, <2>2, <2>3
<1>9. CASE ReceiveReads
  <2>1. call' = [call EXCEPT !.at = "read"] /\ UNCHANGED <<clock, rest>>
    BY <1>9 DEF ReceiveReads
  <2>2. /\ RemainingMs \in Nat
        /\ 2 * RemainingMs <= rest + (IF setup.host = "Python" THEN 1 ELSE 0)
    BY <1>3, RemainingBound
  <2>3. wait' = IF call.timeout > 0 /\ RemainingMs > 0 THEN 2 * RemainingMs ELSE -1
    BY <1>9 DEF ReceiveReads, Forever
  <2>4. call.timeout > 0 => RemainingMs > 0
    BY <1>9, <2>2 DEF ReceiveReads, DeadlinePassed
  <2>5. wait' \in Nat \cup {-1}
    BY <2>2, <2>3
  <2>6. TypeOK'
    BY <1>1, <1>4, <2>1, <2>5 DEF TypeOK, Forever
  <2>7. call'.timeout = call.timeout
    BY <1>4, <2>1
  <2>8. ReadsWithinDeadline'
    <3> SUFFICES ASSUME call.timeout > 0
                 PROVE  /\ wait' # -1
                        /\ wait' <= rest + (IF setup.host = "Python" THEN 1 ELSE 0)
      BY <1>1, <2>1, <2>7 DEF ReadsWithinDeadline, Forever
    <3> QED
      BY <2>2, <2>3, <2>4
  <2> QED
    BY <1>2, <2>6, <2>8
<1> QED
  BY <1>6, <1>7, <1>8, <1>9

\* What a read that takes a buffer out of the queue does to what is known of those
\* behind it.
LEMMA TakingKeepsQueue ==
    ASSUME TypeOK, QueueKnown, fifo # <<>>, fifo' = Tail(fifo), UNCHANGED <<setup, arrived>>
    PROVE  /\ fifo' \in Seq(Buffer) /\ QueueKnown'
           /\ Taken \in Nat /\ Taken' = Taken + 1 /\ Taken + 1 \in DOMAIN arrived
           /\ Head(fifo) \in Buffer /\ Head(fifo).place = Taken + 1
           /\ Head(fifo).frame = Encode(arrived[Taken + 1].frame, arrived[Taken + 1].echo)
           /\ ~setup.torn => ~Head(fifo).torn
<1>1. fifo \in Seq(Buffer) /\ arrived \in Seq(Arrival)
  BY DEF TypeOK
<1>2. Len(fifo) \in Nat \ {0} /\ Len(arrived) \in Nat /\ Len(fifo) <= Len(arrived)
  BY <1>1, LenProperties, EmptySeq DEF QueueKnown
<1>3. /\ Head(fifo) \in Buffer /\ fifo' \in Seq(Buffer) /\ Len(fifo') = Len(fifo) - 1
      /\ \A i \in 1 .. Len(fifo') : fifo'[i] = fifo[i + 1]
  BY <1>1, HeadTailProperties
<1>4. Taken \in Nat /\ Taken' = Taken + 1 /\ Taken + Len(fifo) = Len(arrived)
  BY <1>2, <1>3 DEF Taken
<1>5. DOMAIN arrived = 1 .. Len(arrived) /\ DOMAIN fifo = 1 .. Len(fifo)
      /\ DOMAIN fifo' = 1 .. Len(fifo')
  BY <1>1, <1>3, LenProperties
<1>6. Taken + 1 \in DOMAIN arrived
  BY <1>2, <1>4, <1>5
<1>7. Head(fifo) = fifo[1] /\ 1 \in DOMAIN fifo
  BY <1>1, <1>2, <1>5
<1>8. /\ Head(fifo).place = Taken + 1
      /\ Head(fifo).frame = Encode(arrived[Taken + 1].frame, arrived[Taken + 1].echo)
      /\ ~setup.torn => ~Head(fifo).torn
  BY <1>7 DEF QueueKnown
<1>9. QueueKnown'
  <2>1. ASSUME NEW i \in DOMAIN fifo'
        PROVE  /\ fifo'[i].place = Taken' + i
               /\ fifo'[i].frame = Encode(arrived'[Taken' + i].frame, arrived'[Taken' + i].echo)
               /\ ~setup'.torn => ~fifo'[i].torn
    <3>1. i + 1 \in DOMAIN fifo /\ fifo'[i] = fifo[i + 1] /\ Taken' + i = Taken + (i + 1)
      BY <1>2, <1>3, <1>4, <1>5
    <3> QED
      BY <3>1 DEF QueueKnown
  <2>2. Len(fifo') <= Len(arrived')
    BY <1>2, <1>3
  <2> QED
    BY <2>1, <2>2 DEF QueueKnown, Encode
<1> QED
  BY <1>3, <1>4, <1>6, <1>8, <1>9

\* The results after a read that appends one, or none.
LEMMA AppendResult ==
    ASSUME got \in Seq(Result), NEW r \in Result, got' = Append(got, r)
    PROVE  /\ got' \in Seq(Result)
           /\ DOMAIN got = 1 .. Len(got) /\ DOMAIN got' = 1 .. Len(got) + 1
           /\ Len(got) \in Nat /\ got'[Len(got) + 1] = r
           /\ \A i \in 1 .. Len(got) : got'[i] = got[i]
BY AppendProperties, LenProperties

\* A frame that is read and returned comes after all earlier ones; one that is
\* dropped was an echo that this host had asked for.
LEMMA ReadFrameKeepsPathInv ==
    ASSUME PathInv, ReadFrame
    PROVE  PathInv'
<1> USE DEF PathInv
<1> DEFINE b == Head(fifo)
<1>1. fifo # <<>> /\ fifo' = Tail(fifo) /\ UNCHANGED <<setup, clock, arrived, rest, wait>>
  BY DEF ReadFrame
<1>2. /\ fifo' \in Seq(Buffer) /\ QueueKnown'
      /\ Taken \in Nat /\ Taken' = Taken + 1 /\ Taken + 1 \in DOMAIN arrived
      /\ b \in Buffer /\ b.place = Taken + 1
      /\ b.frame = Encode(arrived[Taken + 1].frame, arrived[Taken + 1].echo)
  BY <1>1, TakingKeepsQueue
<1>3. /\ arrived \in Seq(Arrival) /\ got \in Seq(Result) /\ clock \in 0 .. MaxClock
      /\ call \in [at : {"idle", "loop", "read"}, timeout : Timeouts \cup {0}]
  BY DEF TypeOK
<1>4. arrived[Taken + 1] \in Arrival
  BY <1>2, <1>3, LenProperties, ElementOfSeq
<1>5. /\ Decode(b) \in Result /\ Decode(b).place = Taken + 1
      /\ Decode(b).echo = arrived[Taken + 1].echo
      /\ Survives(arrived[Taken + 1].frame, Decode(b))
  BY <1>2, <1>3, <1>4, DecodeType, RoundTrip DEF Arrival
<1>6. b.frame.tag = arrived[Taken + 1].echo
  BY <1>2 DEF Encode
<1> HIDE DEF b
<1>7. call' \in [at : {"idle", "loop", "read"}, timeout : Timeouts \cup {0}] /\ call'.at # "read"
  BY <1>3 DEF ReadFrame
<1>8. ReadsWithinDeadline'
  BY <1>7 DEF ReadsWithinDeadline
<1>9. CASE Skipped(b)
  <2>1. UNCHANGED got
    BY <1>9 DEF ReadFrame, b
  <2>2. TypeOK'
    BY <1>1, <1>2, <1>7, <2>1 DEF TypeOK
  <2>3. ResultsKnown'
    BY <1>1, <1>2, <2>1 DEF ResultsKnown, Survives
  <2>4. Ordered'
    BY <2>1 DEF Ordered
  <2>5. setup.drop_echo /\ arrived[Taken + 1].echo
    BY <1>6, <1>9 DEF Skipped
  <2>6. Complete'
    BY <1>1, <1>2, <2>1, <2>5 DEF Complete
  <2> QED
    BY <1>2, <1>8, <2>2, <2>3, <2>4, <2>6
<1>10. CASE ~Skipped(b)
  <2>1. got' = Append(got, Decode(b))
    BY <1>10 DEF ReadFrame, b
  <2>2. /\ got' \in Seq(Result)
        /\ DOMAIN got = 1 .. Len(got) /\ DOMAIN got' = 1 .. Len(got) + 1
        /\ Len(got) \in Nat /\ got'[Len(got) + 1] = Decode(b)
        /\ \A i \in 1 .. Len(got) : got'[i] = got[i]
    BY <1>3, <1>5, <2>1, AppendResult
  <2>3. TypeOK'
    BY <1>1, <1>2, <1>7, <2>2 DEF TypeOK
  <2>4. \A i \in DOMAIN got' : i \in DOMAIN got \/ i = Len(got) + 1
    BY <2>2
  <2>5. ASSUME NEW i \in DOMAIN got, got[i].place # 0
        PROVE  got[i].place \in 1 .. Taken
    BY <2>5 DEF ResultsKnown
  <2>6. ResultsKnown'
    <3>1. ASSUME NEW i \in DOMAIN got', got'[i].place # 0
          PROVE  /\ got'[i].place \in 1 .. Taken'
                 /\ got'[i].echo = arrived[got'[i].place].echo
                 /\ Survives(arrived[got'[i].place].frame, got'[i])
      <4>1. CASE i \in DOMAIN got
        BY <1>2, <2>2, <3>1, <4>1 DEF ResultsKnown
      <4>2. CASE i = Len(got) + 1
        BY <1>2, <1>5, <2>2, <4>2
      <4> QED
        BY <2>4, <4>1, <4>2
    <3> QED
      BY <1>1, <3>1 DEF ResultsKnown, Survives
  <2>7. Ordered'
    <3>1. ASSUME NEW i \in DOMAIN got', NEW j \in DOMAIN got', i < j,
                 got'[i].place # 0, got'[j].place # 0
          PROVE  got'[i].place < got'[j].place
      <4>1. i \in DOMAIN got /\ got'[i] = got[i]
        BY <2>2, <3>1
      <4>2. got[i].place \in 1 .. Taken
        BY <2>5, <3>1, <4>1
      <4>3. CASE j \in DOMAIN got
        BY <2>2, <3>1, <4>1, <4>3 DEF Ordered
      <4>4. CASE j = Len(got) + 1
        BY <1>2, <1>5, <2>2, <4>1, <4>2, <4>4
      <4> QED
        BY <2>4, <4>3, <4>4
    <3> QED
      BY <3>1 DEF Ordered
  <2>8. Complete'
    <3> SUFFICES ASSUME ~setup.torn, NEW place \in 1 .. Taken + 1
                 PROVE  \/ \E i \in DOMAIN got' : got'[i].place = place
                        \/ setup.drop_echo /\ arrived[place].echo
      BY <1>1, <1>2 DEF Complete
    <3>1. CASE place = Taken + 1
      BY <1>5, <2>2, <3>1
    <3>2. CASE place \in 1 .. Taken
      <4>1. \/ \E i \in DOMAIN got : got[i].place = place
            \/ setup.drop_echo /\ arrived[place].echo
        BY <3>2 DEF Complete
      <4> QED
        BY <2>2, <4>1
    <3> QED
      BY <1>2, <3>1, <3>2
  <2> QED
    BY <1>2, <1>8, <2>3, <2>6, <2>7, <2>8
<1> QED
  BY <1>9, <1>10

\* A read that ends inside a frame tears it and takes nothing.
LEMMA TornKeepsPathInv ==
    ASSUME PathInv, ReadTimesOutTorn
    PROVE  PathInv'
<1> USE DEF PathInv
<1>1. /\ setup.torn /\ fifo # <<>> /\ fifo' = [fifo EXCEPT ![1].torn = TRUE]
      /\ call' = [call EXCEPT !.at = "idle"]
      /\ UNCHANGED <<setup, clock, arrived, got, rest, wait>>
  BY DEF ReadTimesOutTorn
<1>2. fifo \in Seq(Buffer)
  BY DEF TypeOK
<1>3. 1 \in 1 .. Len(fifo)
  BY <1>1, <1>2, EmptySeq
<1>4. fifo[1] \in Buffer
  BY <1>2, <1>3, ElementOfSeq
<1>5. [fifo[1] EXCEPT !.torn = TRUE] \in Buffer
  BY <1>4 DEF Buffer
<1>6. fifo' = [fifo EXCEPT ![1] = [fifo[1] EXCEPT !.torn = TRUE]]
  BY <1>1
<1>7. /\ fifo' \in Seq(Buffer) /\ Len(fifo') = Len(fifo)
      /\ \A i \in 1 .. Len(fifo) :
            fifo'[i] = IF i = 1 THEN [fifo[1] EXCEPT !.torn = TRUE] ELSE fifo[i]
  BY <1>2, <1>3, <1>5, <1>6, ExceptSeq
<1>8. Taken' = Taken
  BY <1>1, <1>7 DEF Taken
<1>9. TypeOK'
  BY <1>1, <1>7 DEF TypeOK
<1>10. QueueKnown'
  <2>1. DOMAIN fifo = 1 .. Len(fifo) /\ DOMAIN fifo' = 1 .. Len(fifo)
    BY <1>2, <1>7, LenProperties
  <2>2. ASSUME NEW i \in DOMAIN fifo
        PROVE  fifo'[i].place = fifo[i].place /\ fifo'[i].frame = fifo[i].frame
    BY <1>4, <1>7, <2>1 DEF Buffer
  <2> QED
    BY <1>1, <1>7, <1>8, <2>1, <2>2 DEF QueueKnown, Encode
<1>11. ResultsKnown' /\ Ordered' /\ Complete'
  BY <1>1, <1>8 DEF ResultsKnown, Survives, Ordered, Complete
<1>12. ReadsWithinDeadline'
  BY <1>1 DEF ReadsWithinDeadline, TypeOK
<1> QED
  BY <1>9, <1>10, <1>11, <1>12

\* The rest of a torn frame, whether something is made up of it or not.
LEMMA RemainderKeepsPathInv ==
    ASSUME PathInv, ReadRemainder
    PROVE  PathInv'
<1> USE DEF PathInv
<1> DEFINE r == [Decode(Head(fifo)) EXCEPT !.place = 0]
<1>1. /\ fifo # <<>> /\ Head(fifo).torn /\ fifo' = Tail(fifo)
      /\ call' = [call EXCEPT !.at = "idle"]
      /\ got' = Append(got, r) \/ UNCHANGED got
      /\ UNCHANGED <<setup, clock, arrived, rest, wait>>
  BY DEF ReadRemainder
<1>2. /\ fifo' \in Seq(Buffer) /\ QueueKnown' /\ Taken \in Nat /\ Taken' = Taken + 1
      /\ Head(fifo) \in Buffer
      /\ setup.torn
  BY <1>1, TakingKeepsQueue
<1>3. got \in Seq(Result) /\ clock \in 0 .. MaxClock
  BY DEF TypeOK
<1>4. r \in Result /\ r.place = 0
  BY <1>2, <1>3, DecodeType DEF Result
<1> HIDE DEF r
<1>5. ReadsWithinDeadline'
  BY <1>1 DEF ReadsWithinDeadline, TypeOK
<1>6. Complete'
  BY <1>1, <1>2 DEF Complete
<1>7. CASE UNCHANGED got
  <2>1. TypeOK'
    BY <1>1, <1>2, <1>7 DEF TypeOK
  <2>2. ResultsKnown' /\ Ordered'
    BY <1>1, <1>2, <1>7 DEF ResultsKnown, Survives, Ordered
  <2> QED
    BY <1>2, <1>5, <1>6, <2>1, <2>2
<1>8. CASE got' = Append(got, r)
  <2>1. /\ got' \in Seq(Result)
        /\ DOMAIN got = 1 .. Len(got) /\ DOMAIN got' = 1 .. Len(got) + 1
        /\ Len(got) \in Nat /\ got'[Len(got) + 1] = r
        /\ \A i \in 1 .. Len(got) : got'[i] = got[i]
    BY <1>3, <1>4, <1>8, AppendResult
  <2>2. \A i \in DOMAIN got' : got'[i].place # 0 => i \in DOMAIN got /\ got'[i] = got[i]
    BY <1>4, <2>1
  <2>3. TypeOK'
    BY <1>1, <1>2, <2>1 DEF TypeOK
  <2>4. ResultsKnown'
    BY <1>1, <1>2, <2>2 DEF ResultsKnown, Survives
  <2>5. Ordered'
    BY <2>2 DEF Ordered
  <2> QED
    BY <1>2, <1>5, <1>6, <2>3, <2>4, <2>5
<1> QED
  BY <1>1, <1>7, <1>8

\* Every step of the program, of the adapter and of the clock keeps PathInv.
LEMMA PathInvNext ==
    ASSUME PathInv, [Next]_vars
    PROVE  PathInv'
<1>1. CASE UNCHANGED vars
  <2>1. TypeOK' /\ ReadsWithinDeadline'
    BY <1>1 DEF PathInv, TypeOK, ReadsWithinDeadline
  <2> QED
    BY <1>1, <2>1, FramesUntouched DEF PathInv
<1> QED
  BY <1>1, ArrivalKeepsPathInv, WaitingKeepsPathInv, ReadFrameKeepsPathInv, TornKeepsPathInv,
     RemainderKeepsPathInv DEF Next, ReceiveStep

-----------------------------------------------------------------------------
\* The inductive invariant: what waits in the adapter, what was returned, in
\* which order, and until when a call reads.
THEOREM PathInvariant == Spec => []PathInv
<1>1. Init => PathInv
  BY PathInvInit
<1>2. PathInv /\ [Next]_vars => PathInv'
  BY PathInvNext
<1> QED
  BY <1>1, <1>2, PTL DEF Spec

\* Any frame that may be sent comes back as it was, padded to the shortest length
\* of its kind that holds its payload.
THEOREM FramesSurvive == Spec => []FrameSurvives
<1>1. PathInv => FrameSurvives
  BY DEF PathInv, ResultsKnown, Returned, FrameSurvives
<1> QED
  BY <1>1, PathInvariant, PTL

\* A returned frame is marked as an echo exactly when this host sent it with the
\* tag.
THEOREM EchoIsOwn == Spec => []EchoIsOwnAndTagged
<1>1. PathInv => EchoIsOwnAndTagged
  <2> SUFFICES ASSUME PathInv, NEW i \in DOMAIN got, got[i].place # 0
               PROVE  got[i].echo <=> arrived[got[i].place].from = Own
                                         /\ arrived[got[i].place].echo
    BY DEF EchoIsOwnAndTagged, Returned
  <2>1. got[i].place \in 1 .. Taken /\ got[i].echo = arrived[got[i].place].echo
    BY DEF PathInv, ResultsKnown
  <2>2. Taken <= Len(arrived) /\ DOMAIN arrived = 1 .. Len(arrived) /\ Taken \in Int
        /\ Len(arrived) \in Nat
    BY LenProperties DEF PathInv, TypeOK, QueueKnown, Taken
  <2>3. got[i].place \in DOMAIN arrived
    BY <2>1, <2>2
  <2> QED
    BY <2>1, <2>3 DEF PathInv, QueueKnown
<1> QED
  BY <1>1, PathInvariant, PTL

\* Frames are returned in the order of the queue, and none is missing but for
\* dropped echoes, unless a read ended inside a frame.
THEOREM InOrder == Spec => []InOrderWithoutGaps
<1>1. PathInv => InOrderWithoutGaps
  <2> SUFFICES ASSUME PathInv PROVE InOrderWithoutGaps
    OBVIOUS
  <2>1. ASSUME ~setup.torn, NEW place \in 1 .. Taken
        PROVE  \/ \E r \in Returned : r.place = place
               \/ setup.drop_echo /\ arrived[place].echo
    <3>1. place # 0
      OBVIOUS
    <3> QED
      BY <2>1, <3>1 DEF PathInv, Complete, Returned
  <2> QED
    BY <2>1 DEF PathInv, Ordered, InOrderWithoutGaps
<1> QED
  BY <1>1, PathInvariant, PTL

\* A receive() with a timeout never reads without one, and its reads end with the
\* deadline, but for the millisecond that the Python code has begun.
THEOREM DeadlineKept == Spec => []ReadsWithinDeadline
<1>1. PathInv => ReadsWithinDeadline
  BY DEF PathInv
<1> QED
  BY <1>1, PathInvariant, PTL

=============================================================================
