------------------------------ MODULE Terminal ------------------------------
(***************************************************************************)
(* The interactive terminal (src/tools/canfd_term.cpp): main() with the    *)
(* prompt, which owns the bus and the settings, and printRx() on the       *)
(* receive thread, which reads them.  g_view_mutex makes one step of the   *)
(* test of filter and dedup, g_print_mutex one of each line; show_echo has *)
(* no lock.  SIGINT only sets g_stop, which main() reads between two       *)
(* commands, while getline() goes on waiting.                              *)
(***************************************************************************)
EXTENDS Naturals

CONSTANTS
    Ids,        \* arbitration ids
    Payloads,   \* what a frame carries
    Empty,      \* the payload without bytes
    None        \* nothing yet

ASSUME TerminalAssumption == None \notin Payloads \cup {Empty}

VARIABLES
    session,    \* main(): "start", "choosing", "loop" (reads g_stop next), "prompt" (in
                \* getline), "ended" or "crashed"
    reason,     \* history: why it ended: "start", "quit", "signal", "bus" or "command"
    stop,       \* g_stop
    after,      \* history: commands begun after the signal
    bus,        \* state.bus: "none", "fd" or "classic" as it was configured
    config_fd,  \* state.config.fd
    show_echo,  \* state.show_echo
    default_id, \* state.default_id: "standard", "extended" (above 7FF), or "tagged", a
                \* standard number that was given with the prefix ext:
    sent,       \* history: "none", "as named" or "not as named" (as an extended id)
    filter,     \* g_filter, empty for all ids
    dedup,      \* g_dedup
    last,       \* g_last_payload: for ids without an entry a new one is Empty
    rx,         \* printRx(): "idle", "echo", "view" or "print"
    frame,      \* the frame it was called with
    shown,      \* history: the payload of the last line of each id
    hidden,     \* history: the last frame that dedup hid, while rx is "idle"
    late        \* history: lines since a setting changed that it would hide

settings == <<config_fd, show_echo, default_id>>
view     == <<filter, dedup, last>>
signal   == <<stop, after>>
main     == <<session, reason, sent, signal>>
receiver == <<rx, frame>>
history  == <<shown, hidden, late>>
vars     == <<main, bus, settings, view, receiver, history>>

IdKinds == {"standard", "extended", "tagged"}
Frame   == [id : Ids, payload : Payloads, echo : BOOLEAN]
NoFrame == [id |-> None, payload |-> None, echo |-> FALSE]

MainType ==
    /\ session \in {"start", "choosing", "loop", "prompt", "ended", "crashed"}
    /\ reason \in {"none", "start", "quit", "signal", "bus", "command"}
    /\ stop \in BOOLEAN /\ after \in 0 .. 2 /\ default_id \in IdKinds
    /\ sent \in {"none", "as named", "not as named"}
    /\ bus \in {"none", "fd", "classic"}
    /\ config_fd \in BOOLEAN /\ show_echo \in BOOLEAN

PrintRxType ==
    /\ dedup \in BOOLEAN /\ filter \subseteq Ids
    /\ last \in [Ids -> Payloads \cup {Empty}]
    /\ rx \in {"idle", "echo", "view", "print"} /\ frame \in Frame \cup {NoFrame}
    /\ shown \in [Ids -> Payloads \cup {None}]
    /\ hidden \in Frame \cup {NoFrame} /\ late \in 0 .. 2

TypeOK == MainType /\ PrintRxType

Mode == IF config_fd THEN "fd" ELSE "classic"

NoPayloads == [id \in Ids |-> Empty]

\* main() has read its options.
Init ==
    /\ session = "start" /\ reason = "none" /\ stop = FALSE /\ after = 0 /\ sent = "none"
    /\ config_fd \in BOOLEAN /\ show_echo \in BOOLEAN /\ default_id = "standard"
    /\ bus = "none"
    /\ filter = {} /\ dedup = FALSE /\ last = NoPayloads
    /\ rx = "idle" /\ frame = NoFrame
    /\ shown = [id \in Ids |-> None] /\ hidden = NoFrame /\ late = 0

-----------------------------------------------------------------------------
(***************************************************************************)
(* main().                                                                 *)
(***************************************************************************)
End(why) == session' = "ended" /\ reason' = why

\* The scan finds none, or throws what nothing catches; or there is one, --index says
\* which, or the user is asked.
ScanAtStart ==
    /\ session = "start"
    /\ \/ End("start")
       \/ session' = "choosing" /\ UNCHANGED reason
    /\ UNCHANGED <<sent, signal, bus, settings, view, receiver, history>>

\* The adapter is opened, configured and started, or the program ends.
Choose ==
    /\ session = "choosing"
    /\ \/ End("start") /\ UNCHANGED bus
       \/ session' = "loop" /\ bus' = Mode /\ UNCHANGED reason
    /\ UNCHANGED <<sent, signal, settings, view, receiver, history>>

\* Variant: the loop runs for ever.
PromptAlways ==
    /\ session = "loop"
    /\ session' = "prompt" /\ sent' = "none"
    /\ UNCHANGED <<reason, signal, bus, settings, view, receiver, history>>

\* while (!g_stop.load()).
Prompt ==
    /\ session = "loop"
    /\ IF stop THEN End("signal") /\ UNCHANGED sent
               ELSE session' = "prompt" /\ sent' = "none" /\ UNCHANGED reason
    /\ UNCHANGED <<signal, bus, settings, view, receiver, history>>

\* onSignal(): the reads of the program are restarted, its sleep goes on.
Signal ==
    /\ session \in {"start", "choosing", "loop", "prompt"}
    /\ stop' = TRUE
    /\ UNCHANGED <<session, reason, after, sent, bus, settings, view, receiver, history>>

\* A line was typed, and the loop goes on after it.  The count is capped at 2.
Takes     == session = "prompt" /\ after' = IF stop /\ after < 2 THEN after + 1 ELSE after
Continues == session' = "loop" /\ UNCHANGED reason
Command   == Takes /\ Continues /\ UNCHANGED <<stop, sent>>

\* An empty line; help, clear, an unknown command, one with a missing or an illegal
\* argument, `fd`, `dedup` and so on without one, `data`, `brs`; and `wait`, after it.
Nothing ==
    /\ \/ Command
       \/ session = "prompt" /\ Continues /\ UNCHANGED <<sent, signal>>
    /\ UNCHANGED <<bus, settings, view, receiver, history>>

\* `scan` shows a list, or throws.
ScanAgain ==
    /\ Takes /\ (Continues \/ End("bus")) /\ UNCHANGED <<stop, sent>>
    /\ UNCHANGED <<bus, settings, view, receiver, history>>

\* `quit`, or the end of the input.
Quit ==
    /\ Takes /\ End("quit") /\ UNCHANGED <<stop, sent>>
    /\ UNCHANGED <<bus, settings, view, receiver, history>>

\* The end of main(): the bus is stopped, which waits for the receive thread, and
\* closed.
Exit ==
    /\ session = "ended" /\ rx = "idle"
    /\ bus' = "none"
    /\ UNCHANGED <<main, settings, view, receiver, history>>

-----------------------------------------------------------------------------
(***************************************************************************)
(* Commands.                                                               *)
(***************************************************************************)
\* `open <index>`: the bus is stopped and closed; the new one is configured with
\* state.config, or there is none.
OpenDevice ==
    /\ Command /\ rx = "idle"
    /\ bus' \in {Mode, "none"}
    /\ UNCHANGED <<settings, view, receiver, history>>

\* `fd on|off` and `echo on|off` only store the setting.
SetFd(on) ==
    /\ Command
    /\ config_fd' = on
    /\ UNCHANGED <<bus, show_echo, default_id, view, receiver, history>>

SetEcho(on) ==
    /\ Command
    /\ show_echo' = on
    /\ late' = 0
    /\ UNCHANGED <<bus, config_fd, default_id, view, receiver, shown, hidden>>

\* `id <hex>`: only the number is kept.
SetId(kind) ==
    /\ Command
    /\ default_id' = kind
    /\ UNCHANGED <<bus, config_fd, show_echo, view, receiver, history>>

\* `filter <id...>|off`: what is no id is passed over, and no id is all of them.
SetFilter(ids) ==
    /\ Command
    /\ filter' = ids
    /\ late' = 0
    /\ UNCHANGED <<bus, settings, dedup, last, receiver, shown, hidden>>

\* Variant: the remembered payloads are kept.
SetDedupKeeps(on) ==
    /\ Command
    /\ dedup' = on
    /\ UNCHANGED <<bus, settings, filter, last, receiver, history>>

\* `dedup on|off`.
SetDedup(on) ==
    /\ Command
    /\ dedup' = on /\ last' = NoPayloads
    /\ UNCHANGED <<bus, settings, filter, receiver, history>>

\* send() refuses an FD frame on a classic bus and a classic one of more than 8 bytes.
Refused(long) == IF config_fd THEN bus = "classic" ELSE long

\* Without a bus the null unique_ptr is dereferenced; what send() throws, and a failed
\* transfer, end the session.
SendFrame(named, extended) ==
    /\ Takes
    /\ \/ bus = "none" /\ session' = "crashed" /\ UNCHANGED <<reason, sent>>
       \/ bus # "none" /\ \E long \in BOOLEAN :
             \/ Refused(long) /\ End("command") /\ UNCHANGED sent
             \/ ~Refused(long) /\ End("bus") /\ UNCHANGED sent
             \/ ~Refused(long) /\ Continues
                   /\ sent' = IF named => extended THEN "as named" ELSE "not as named"
    /\ UNCHANGED <<stop, bus, settings, view, receiver, history>>

\* `send [ext] <id> <data>`, and `send [ext]` for the default ones.
Send(ext, kind)  == SendFrame(ext \/ kind # "standard", ext \/ kind # "standard")
SendDefault(ext) == SendFrame(ext \/ default_id # "standard", ext \/ default_id = "extended")

-----------------------------------------------------------------------------
(***************************************************************************)
(* printRx().                                                              *)
(***************************************************************************)
Alive == session # "crashed"

\* A frame is received and handed to the callback.
Receive(f) ==
    /\ Alive /\ rx = "idle" /\ bus # "none"
    /\ rx' = "echo" /\ frame' = f /\ hidden' = NoFrame
    /\ UNCHANGED <<main, bus, settings, view, shown, late>>

TestEcho ==
    /\ Alive /\ rx = "echo"
    /\ rx' = IF frame.echo /\ ~show_echo THEN "idle" ELSE "view"
    /\ UNCHANGED <<main, bus, settings, view, frame, history>>

Filtered == filter # {} /\ frame.id \notin filter
Repeated == dedup /\ last[frame.id] = frame.payload

\* Variant: a line is only hidden when both the filter and dedup hide it.
TestViewBoth ==
    /\ Alive /\ rx = "view"
    /\ rx' = IF Filtered /\ Repeated THEN "idle" ELSE "print"
    /\ last' = IF dedup /\ ~Filtered THEN [last EXCEPT ![frame.id] = frame.payload] ELSE last
    /\ hidden' = NoFrame
    /\ UNCHANGED <<main, bus, settings, filter, dedup, frame, shown, late>>

TestView ==
    /\ Alive /\ rx = "view"
    /\ rx' = IF Filtered \/ Repeated THEN "idle" ELSE "print"
    /\ last' = IF dedup /\ ~Filtered THEN [last EXCEPT ![frame.id] = frame.payload] ELSE last
    /\ hidden' = IF ~Filtered /\ Repeated THEN frame ELSE NoFrame
    /\ UNCHANGED <<main, bus, settings, filter, dedup, frame, shown, late>>

\* The line is printed, although a setting may have changed in the meantime.
PrintLine ==
    /\ Alive /\ rx = "print"
    /\ rx' = "idle"
    /\ shown' = [shown EXCEPT ![frame.id] = frame.payload]
    /\ late' = IF late < 2 /\ (Filtered \/ (frame.echo /\ ~show_echo)) THEN late + 1 ELSE late
    /\ UNCHANGED <<main, bus, settings, view, frame, hidden>>

Next ==
    \/ ScanAtStart \/ Choose \/ Prompt \/ Signal \/ Exit
    \/ Nothing \/ ScanAgain \/ Quit \/ OpenDevice
    \/ \E on \in BOOLEAN : SetFd(on) \/ SetEcho(on) \/ SetDedup(on) \/ SendDefault(on)
    \/ \E kind \in IdKinds : SetId(kind) \/ \E ext \in BOOLEAN : Send(ext, kind)
    \/ \E ids \in SUBSET Ids : SetFilter(ids)
    \/ \E f \in Frame : Receive(f)
    \/ TestEcho \/ TestView \/ PrintLine

Spec == Init /\ [][Next]_vars

-----------------------------------------------------------------------------
(***************************************************************************)
(* Properties.                                                             *)
(***************************************************************************)
\* README: `dedup on` is to "hide repeated identical payloads".  What it hides is
\* what the last line of that id has shown, whatever was filtered, echoed, switched
\* off and on in between.  (But for a frame without bytes, which a new entry of the
\* memory equals: the first one of an id is hidden, whatever was shown before.)
OnlyRepetitionsHidden ==
    hidden # NoFrame /\ hidden.payload # Empty => shown[hidden.id] = hidden.payload

\* Without that exception.
HiddenIsRepetition == hidden # NoFrame => shown[hidden.id] = hidden.payload

\* README: `filter` is to "only show these ids".  After `filter` or `echo` at most
\* one line that it excludes is still printed, that of a frame on its way.
OneLateLine == late <= 1

\* A SIGINT asks the session to end (onSignal() sets g_stop for the loop): of what is
\* typed or piped in afterwards at most one command is still obeyed.
OneCommandAfterSignal == after <= 1

\* The help: `fd on|off` is a "CAN FD toggle".  A session only ends because the
\* user asked for it or because the bus failed.
EndsOnRequest == session = "ended" => reason \in {"start", "quit", "signal", "bus"}

\* The help: `send` is to "transmit", also after an `open <index>` that failed.
NeverCrashes == session # "crashed"

\* The help: "ext: prefix also forces extended", the prefix that `id` takes, too.
ExtendedAsNamed == sent # "not as named"
-----------------------------------------------------------------------------
(***************************************************************************)
(* The inductive invariant behind the safety properties.                   *)
(***************************************************************************)
\* Nobody waits for a line who has obeyed one since the signal.
PromptKnown ==
    /\ after <= 1
    /\ after = 1 => stop /\ session # "prompt"

Excluded == Filtered \/ (frame.echo /\ ~show_echo)

\* Once an excluded line was printed, the tests that printRx() has behind it were
\* made with the settings that are still in force.
LateKnown ==
    /\ late <= 1
    /\ late = 1 /\ rx = "view"  => ~(frame.echo /\ ~show_echo)
    /\ late = 1 /\ rx = "print" => ~Excluded

\* A payload that is remembered is what the last line of its id has shown or what
\* the line on its way is about to show.
DedupKnown ==
    /\ rx # "idle" => frame \in Frame /\ hidden = NoFrame
    /\ ~dedup => last = NoPayloads
    /\ \A id \in Ids : last[id] # Empty =>
          last[id] = IF rx = "print" /\ frame.id = id THEN frame.payload ELSE shown[id]
    /\ OnlyRepetitionsHidden

TerminalInv == TypeOK /\ PromptKnown /\ LateKnown /\ DedupKnown
=============================================================================
