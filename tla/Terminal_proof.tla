--------------------------- MODULE Terminal_proof ---------------------------
(***************************************************************************)
(* The safety properties of the interactive terminal for any ids and       *)
(* payloads, by the inductive invariant TerminalInv.                       *)
(***************************************************************************)
EXTENDS Terminal, TLAPS

USE DEF settings, view, signal, main, receiver, history, vars

\* TerminalInv holds when main() has read its options.
LEMMA TerminalInvInit == Init => TerminalInv
<1> SUFFICES ASSUME Init PROVE TerminalInv
  OBVIOUS
<1>1. TypeOK
  <2>1. MainType
    <3>1. after \in 0 .. 2
      BY SMT DEF Init
    <3>2. default_id \in IdKinds /\ stop \in BOOLEAN
      BY Zenon DEF Init, IdKinds
    <3> QED
      BY <3>1, <3>2, Zenon DEF Init, MainType
  <2>2. PrintRxType
    <3>1. late \in 0 .. 2
      BY SMT DEF Init
    <3>2. last \in [Ids -> Payloads \cup {Empty}] /\ shown \in [Ids -> Payloads \cup {None}]
      BY SMT DEF Init, NoPayloads
    <3> QED
      BY <3>1, <3>2, Zenon DEF Init, PrintRxType
  <2> QED
    BY <2>1, <2>2 DEF TypeOK
<1>2. PromptKnown /\ LateKnown /\ DedupKnown
  BY DEF Init, PromptKnown, LateKnown, DedupKnown, OnlyRepetitionsHidden, NoPayloads
<1> QED
  BY <1>1, <1>2 DEF TerminalInv

-----------------------------------------------------------------------------
(***************************************************************************)
(* What an action leaves alone keeps the part of TerminalInv about it.     *)
(***************************************************************************)
\* The type of what printRx() reads and writes, the count of late lines and what
\* dedup remembers are not touched by a step that leaves all of it alone.
LEMMA PrintRxUntouched ==
    ASSUME PrintRxType, LateKnown, DedupKnown, UNCHANGED <<show_echo, view, receiver, history>>
    PROVE  PrintRxType' /\ LateKnown' /\ DedupKnown'
<1>1. PrintRxType'
  BY DEF PrintRxType
<1>2. LateKnown'
  BY DEF LateKnown, Excluded, Filtered
<1>3. DedupKnown'
  BY DEF DedupKnown, OnlyRepetitionsHidden
<1> QED
  BY <1>1, <1>2, <1>3

\* main() between two commands: nothing is obeyed, and no command is waited for
\* after the signal was seen.
LEMMA SessionKeepsTerminalInv ==
    ASSUME TerminalInv, ScanAtStart \/ Choose \/ Prompt \/ Signal \/ Exit
    PROVE  TerminalInv'
<1> USE DEF TerminalInv, TypeOK
<1>1. MainType'
  <2>1. CASE ScanAtStart
    BY <2>1 DEF ScanAtStart, End, MainType
  <2>2. CASE Choose
    BY <2>2 DEF Choose, End, Mode, MainType
  <2>3. CASE Prompt
    BY <2>3 DEF Prompt, End, MainType
  <2>4. CASE Signal
    BY <2>4 DEF Signal, MainType
  <2>5. CASE Exit
    BY <2>5 DEF Exit, MainType
  <2> QED
    BY <2>1, <2>2, <2>3, <2>4, <2>5
<1>2. PromptKnown'
  BY DEF ScanAtStart, Choose, Prompt, Signal, Exit, End, PromptKnown, MainType
<1>3. PrintRxType' /\ LateKnown' /\ DedupKnown'
  BY PrintRxUntouched DEF ScanAtStart, Choose, Prompt, Signal, Exit
<1> QED
  BY <1>1, <1>2, <1>3

\* Whatever line is taken, it is the first one since the signal, and the loop
\* does not wait for another one.
LEMMA TakesKnown ==
    ASSUME TerminalInv, Takes, session' # "prompt", UNCHANGED stop
    PROVE  PromptKnown' /\ after' \in 0 .. 2
<1>1. after \in 0 .. 2
  BY DEF TerminalInv, TypeOK, MainType
<1>2. after = 0
  BY <1>1 DEF TerminalInv, Takes, PromptKnown
<1>3. after' = 0 \/ (after' = 1 /\ stop)
  BY <1>2 DEF Takes
<1> QED
  BY <1>3 DEF PromptKnown

\* A command after which the loop goes on keeps what is known of the prompt.
LEMMA CommandKnown ==
    ASSUME TerminalInv, Command
    PROVE  /\ PromptKnown' /\ after' \in 0 .. 2
           /\ session' = "loop" /\ UNCHANGED <<reason, stop, sent>>
BY TakesKnown DEF Command, Continues

\* Commands that do not touch what printRx() reads.
LEMMA CommandKeepsTerminalInv ==
    ASSUME TerminalInv,
           \/ Nothing \/ ScanAgain \/ Quit \/ OpenDevice
           \/ \E on \in BOOLEAN : SetFd(on) \/ SendDefault(on)
           \/ \E kind \in IdKinds : SetId(kind) \/ \E ext \in BOOLEAN : Send(ext, kind)
    PROVE  TerminalInv'
<1> USE DEF TerminalInv, TypeOK
<1>1. ASSUME NEW named, NEW extended, SendFrame(named, extended)
      PROVE  TerminalInv'
  <2>1. /\ Takes /\ session' \in {"loop", "ended", "crashed"}
        /\ reason' \in {reason, "command", "bus"}
        /\ sent' \in {"none", "as named", "not as named"}
    BY <1>1 DEF SendFrame, End, Continues, MainType
  <2>2. UNCHANGED <<stop, bus, settings, view, receiver, history>>
    BY <1>1 DEF SendFrame
  <2>3. PromptKnown' /\ after' \in 0 .. 2
    BY <2>1, <2>2, TakesKnown
  <2>4. MainType'
    BY <2>1, <2>2, <2>3 DEF MainType
  <2> QED
    BY <2>2, <2>3, <2>4, PrintRxUntouched
<1>2. CASE Nothing
  <2>1. MainType' /\ PromptKnown'
    BY <1>2, CommandKnown DEF Nothing, Continues, MainType, PromptKnown
  <2> QED
    BY <1>2, <2>1, PrintRxUntouched DEF Nothing
<1>3. CASE ScanAgain \/ Quit
  <2>1. /\ Takes /\ session' \in {"loop", "ended"} /\ reason' \in {reason, "quit", "bus"}
        /\ UNCHANGED <<stop, sent, bus, settings, view, receiver, history>>
    BY <1>3 DEF ScanAgain, Quit, Continues, End
  <2>2. PromptKnown' /\ after' \in 0 .. 2
    BY <2>1, TakesKnown
  <2>3. MainType'
    BY <2>1, <2>2 DEF MainType
  <2> QED
    BY <2>1, <2>2, <2>3, PrintRxUntouched
<1>4. CASE OpenDevice
  <2>1. MainType' /\ PromptKnown'
    BY <1>4, CommandKnown DEF OpenDevice, Mode, MainType
  <2> QED
    BY <1>4, <2>1, PrintRxUntouched DEF OpenDevice
<1>5. ASSUME NEW on \in BOOLEAN, SetFd(on)
      PROVE  TerminalInv'
  <2>1. MainType' /\ PromptKnown'
    BY <1>5, CommandKnown DEF SetFd, MainType
  <2> QED
    BY <1>5, <2>1, PrintRxUntouched DEF SetFd
<1>6. ASSUME NEW kind \in IdKinds, SetId(kind)
      PROVE  TerminalInv'
  <2>1. MainType' /\ PromptKnown'
    BY <1>6, CommandKnown DEF SetId, MainType
  <2> QED
    BY <1>6, <2>1, PrintRxUntouched DEF SetId
<1> QED
  BY <1>1, <1>2, <1>3, <1>4, <1>5, <1>6 DEF Send, SendDefault

\* `echo`, `filter` and `dedup`: the count of late lines starts anew with the
\* first two, the remembered payloads with the third.
LEMMA SettingKeepsTerminalInv ==
    ASSUME TerminalInv,
           \/ \E on \in BOOLEAN : SetEcho(on) \/ SetDedup(on)
           \/ \E ids \in SUBSET Ids : SetFilter(ids)
    PROVE  TerminalInv'
<1> USE DEF TerminalInv, TypeOK
<1>1. ASSUME NEW on \in BOOLEAN, SetEcho(on)
      PROVE  TerminalInv'
  <2>1. MainType' /\ PromptKnown'
    BY <1>1, CommandKnown DEF SetEcho, MainType
  <2>2. PrintRxType' /\ LateKnown'
    BY <1>1 DEF SetEcho, LateKnown, PrintRxType
  <2>3. DedupKnown'
    BY <1>1 DEF SetEcho, DedupKnown, OnlyRepetitionsHidden
  <2> QED
    BY <2>1, <2>2, <2>3
<1>2. ASSUME NEW ids \in SUBSET Ids, SetFilter(ids)
      PROVE  TerminalInv'
  <2>1. MainType' /\ PromptKnown'
    BY <1>2, CommandKnown DEF SetFilter, MainType
  <2>2. PrintRxType' /\ LateKnown'
    BY <1>2 DEF SetFilter, LateKnown, PrintRxType
  <2>3. DedupKnown'
    BY <1>2 DEF SetFilter, DedupKnown, OnlyRepetitionsHidden
  <2> QED
    BY <2>1, <2>2, <2>3
<1>3. ASSUME NEW on \in BOOLEAN, SetDedup(on)
      PROVE  TerminalInv'
  <2>1. MainType' /\ PromptKnown'
    BY <1>3, CommandKnown DEF SetDedup, MainType
  <2>2. PrintRxType'
    BY <1>3 DEF SetDedup, NoPayloads, PrintRxType
  <2>3. LateKnown'
    BY <1>3 DEF SetDedup, LateKnown, Excluded, Filtered
  <2>4. DedupKnown'
    BY <1>3 DEF SetDedup, DedupKnown, OnlyRepetitionsHidden, NoPayloads
  <2> QED
    BY <2>1, <2>2, <2>3, <2>4
<1> QED
  BY <1>1, <1>2, <1>3

\* printRx(): each test is made with the settings in force, and the payload that
\* is remembered is that of the line that is about to be printed.
LEMMA PrintRxKeepsTerminalInv ==
    ASSUME TerminalInv, (\E f \in Frame : Receive(f)) \/ TestEcho \/ TestView \/ PrintLine
    PROVE  TerminalInv'
<1> USE DEF TerminalInv, TypeOK
<1>1. ASSUME NEW f \in Frame, Receive(f)
      PROVE  TerminalInv'
  <2>1. MainType' /\ PromptKnown'
    BY <1>1 DEF Receive, MainType, PromptKnown
  <2>3. PrintRxType'
    BY <1>1 DEF Receive, PrintRxType
  <2>2. LateKnown' /\ DedupKnown'
    BY <1>1 DEF Receive, LateKnown, DedupKnown, OnlyRepetitionsHidden
  <2> QED
    BY <2>1, <2>2, <2>3
<1>2. CASE TestEcho
  <2>1. MainType' /\ PromptKnown'
    BY <1>2 DEF TestEcho, MainType, PromptKnown
  <2>3. PrintRxType'
    BY <1>2 DEF TestEcho, PrintRxType
  <2>2. LateKnown' /\ DedupKnown'
    BY <1>2 DEF TestEcho, LateKnown, DedupKnown, OnlyRepetitionsHidden
  <2> QED
    BY <2>1, <2>2, <2>3
<1>3. CASE TestView
  <2>1. frame \in Frame /\ frame.id \in Ids /\ frame.payload \in Payloads
    BY <1>3 DEF TestView, DedupKnown, Frame
  <2>2. hidden' \in Frame \cup {NoFrame}
    BY <1>3, <2>1 DEF TestView
  <2>3. last' \in [Ids -> Payloads \cup {Empty}]
    BY <1>3, <2>1 DEF TestView, PrintRxType
  <2>4. MainType' /\ PromptKnown' /\ PrintRxType'
    <3>1. MainType' /\ PromptKnown'
      BY <1>3 DEF TestView, MainType, PromptKnown
    <3>2. PrintRxType'
      BY <1>3, <2>2, <2>3 DEF TestView, PrintRxType
    <3> QED
      BY <3>1, <3>2
  <2>5. LateKnown'
    BY <1>3 DEF TestView, LateKnown, Excluded, Filtered
  <2>6. ASSUME NEW id \in Ids, last'[id] # Empty
        PROVE  last'[id] = IF rx' = "print" /\ frame'.id = id THEN frame'.payload ELSE shown'[id]
    <3>1. CASE dedup /\ ~Filtered /\ id = frame.id
      <4>1. last'[id] = frame.payload
        BY <1>3, <2>1, <3>1 DEF TestView, PrintRxType
      <4>2. CASE Repeated
        BY <1>3, <2>1, <2>6, <3>1, <4>1, <4>2 DEF TestView, DedupKnown, Repeated
      <4>3. CASE ~Repeated
        BY <1>3, <3>1, <4>1, <4>3 DEF TestView
      <4> QED
        BY <4>2, <4>3
    <3>2. CASE ~dedup
      BY <1>3, <2>6, <3>2 DEF TestView, DedupKnown, NoPayloads
    <3>3. CASE dedup /\ (Filtered \/ id # frame.id)
      <4>1. last'[id] = last[id]
        BY <1>3, <2>1, <3>3 DEF TestView, PrintRxType
      <4>2. ~(rx' = "print" /\ frame'.id = id)
        BY <1>3, <3>3 DEF TestView
      <4> QED
        BY <1>3, <2>6, <4>1, <4>2 DEF TestView, DedupKnown
    <3> QED
      BY <3>1, <3>2, <3>3
  <2>7. OnlyRepetitionsHidden'
    BY <1>3, <2>1 DEF TestView, DedupKnown, OnlyRepetitionsHidden, Repeated
  <2>8. ~dedup' => last' = NoPayloads
    BY <1>3 DEF TestView, DedupKnown
  <2>9. rx' # "idle" => frame' \in Frame /\ hidden' = NoFrame
    BY <1>3, <2>1 DEF TestView
  <2> QED
    BY <2>4, <2>5, <2>6, <2>7, <2>8, <2>9 DEF DedupKnown
<1>4. CASE PrintLine
  <2>1. frame \in Frame /\ frame.id \in Ids /\ frame.payload \in Payloads /\ hidden = NoFrame
    BY <1>4 DEF PrintLine, DedupKnown, Frame
  <2>2. late' \in 0 .. 1
    <3>1. late \in 0 .. 1 /\ (late = 1 => ~Excluded)
      BY <1>4 DEF PrintLine, LateKnown, PrintRxType
    <3>2. late' = IF late < 2 /\ Excluded THEN late + 1 ELSE late
      BY <1>4 DEF PrintLine, Excluded
    <3> QED
      BY <3>1, <3>2
  <2>3. shown' = [shown EXCEPT ![frame.id] = frame.payload]
    BY <1>4 DEF PrintLine
  <2>4. MainType' /\ PromptKnown'
    BY <1>4 DEF PrintLine, MainType, PromptKnown
  <2>5. PrintRxType'
    BY <1>4, <2>1, <2>2, <2>3 DEF PrintLine, PrintRxType
  <2>6. LateKnown'
    BY <1>4, <2>2 DEF PrintLine, LateKnown
  <2>7. DedupKnown'
    BY <1>4, <2>1, <2>3 DEF PrintLine, DedupKnown, OnlyRepetitionsHidden, PrintRxType
  <2> QED
    BY <2>4, <2>5, <2>6, <2>7
<1> QED
  BY <1>1, <1>2, <1>3, <1>4

\* Every step of main(), of a command and of printRx() keeps TerminalInv.
LEMMA TerminalInvNext ==
    ASSUME TerminalInv, [Next]_vars
    PROVE  TerminalInv'
<1>1. CASE UNCHANGED vars
  <2>1. MainType' /\ PromptKnown'
    BY <1>1 DEF TerminalInv, TypeOK, MainType, PromptKnown
  <2> QED
    BY <1>1, <2>1, PrintRxUntouched DEF TerminalInv, TypeOK
<1> QED
  BY <1>1, SessionKeepsTerminalInv, CommandKeepsTerminalInv, SettingKeepsTerminalInv,
     PrintRxKeepsTerminalInv DEF Next

-----------------------------------------------------------------------------
\* The inductive invariant, for any ids and payloads.
THEOREM TerminalInvariant == Spec => []TerminalInv
<1>1. Init => TerminalInv
  BY TerminalInvInit
<1>2. TerminalInv /\ [Next]_vars => TerminalInv'
  BY TerminalInvNext
<1> QED
  BY <1>1, <1>2, PTL DEF Spec

\* After `filter` or `echo` at most one line that it excludes is still printed.
THEOREM AtMostOneLateLine == Spec => []OneLateLine
<1>1. TerminalInv => OneLateLine
  BY DEF TerminalInv, LateKnown, OneLateLine
<1> QED
  BY <1>1, TerminalInvariant, PTL

\* After a SIGINT at most one command is still obeyed.
THEOREM AtMostOneCommand == Spec => []OneCommandAfterSignal
<1>1. TerminalInv => OneCommandAfterSignal
  BY DEF TerminalInv, PromptKnown, OneCommandAfterSignal
<1> QED
  BY <1>1, TerminalInvariant, PTL

\* A frame with bytes that dedup hides is what the last line of its id has shown.
THEOREM HiddenWasShown == Spec => []OnlyRepetitionsHidden
<1>1. TerminalInv => OnlyRepetitionsHidden
  BY DEF TerminalInv, DedupKnown
<1> QED
  BY <1>1, TerminalInvariant, PTL

=============================================================================
