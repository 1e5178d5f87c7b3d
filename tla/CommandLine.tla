---------------------------- MODULE CommandLine ----------------------------
(***************************************************************************)
(* One invocation of a command line: `canfd send|monitor` of               *)
(* src/tools/canfd_cli.cpp or `gsusb-canfd send|monitor` of                *)
(* src/python/src/gsusb_canfd/cli.py, from opening the bus to the end of   *)
(* the process, with requests that fail and SIGINT at any moment.  What    *)
(* the bus does inside a call is the subject of CanFdBus and PyReceiveLoop.*)
(* Names begin with CL where Discovery has the same: Tools_proof extends   *)
(* both modules.                                                           *)
(***************************************************************************)
EXTENDS Integers, Sequences

CONSTANTS
    Invocations,    \* how the program is called, see Invocation
    LastSff,        \* 0x7FF: the largest standard id
    LastEff,        \* 0x1FFFFFFF: the largest extended id
    MaxSignals,     \* bound: SIGINTs in a behaviour
    Nothing         \* no number, no frame

\* A word of the command line: the number that all of it spells in hexadecimal, if
\* it does, and what strtoul() makes of its beginning; the "0x" in it, and the
\* hexadecimal digits besides theirs; something that is no digit, no "0x" and no
\* separator.
Word(w) ==
    /\ w.number \in Int \cup {Nothing} /\ w.leading \in Nat
    /\ w.digits \in Nat /\ w.prefixes \in Nat
    /\ w.junk \in BOOLEAN

Invocation(v) ==
    /\ v.python \in BOOLEAN     \* which of the two programs
    /\ v.monitor \in BOOLEAN    \* `monitor`, or `send`
    /\ {v.classic, v.trigger, v.repeat, v.show_echo, v.filter} \subseteq BOOLEAN
    /\ v.count \in Nat
    /\ DOMAIN v.words \in {{}, {1}, {1, 2}}      \* ID [HEXDATA] as they are typed;
    /\ \A i \in DOMAIN v.words : Word(v.words[i])
    /\ v.monitor => DOMAIN v.words = {1, 2}      \* the options of the trigger

ASSUME CommandAssumption ==
    /\ \A v \in Invocations : Invocation(v)
    /\ LastSff \in Nat /\ LastEff \in Nat /\ LastSff < LastEff
    /\ MaxSignals \in Nat /\ Nothing \notin Int

VARIABLES
    invocation,
    at,         \* where the program is; "exit" when the process is gone
    status,     \* what it would exit with: "ok", "error", "interrupted" or "killed"
    started,    \* the bus object's `started`
    channel,    \* the adapter: "idle" or "running"
    armed,      \* the SIGINT handler of the C++ program is installed
    g_stop,     \* what that handler sets
    tagged,     \* a frame was sent with the echo tag
    printed,    \* lines shown, counted only with --count
    sent,       \* history: the frame that send() has accepted
    unsettled,  \* history: a MODE request was reported failed
    struck      \* history: where the program was when SIGINT came, in order

adapter == <<channel, unsettled>>
handler == <<armed, g_stop>>
monitor == <<tagged, printed>>
CLvars  == <<invocation, at, status, started, adapter, handler, monitor, sent, struck>>

Places == {"parse", "open", "configure", "store", "begin", "send", "trigger", "arm", "loop",
           "receive", "show", "close", "exit"}

CLTypeOK ==
    /\ invocation \in Invocations
    /\ at \in Places /\ status \in {"ok", "error", "interrupted", "killed"}
    /\ {started, armed, g_stop, tagged, unsettled} \subseteq BOOLEAN
    /\ channel \in {"idle", "running"}
    /\ printed \in Nat /\ struck \in Seq(Places \ {"exit"}) /\ Len(struck) <= MaxSignals

CLInit ==
    /\ invocation \in Invocations
    /\ at = "parse" /\ status = "ok"
    /\ started = FALSE /\ channel = "idle" /\ unsettled = FALSE
    /\ armed = FALSE /\ g_stop = FALSE
    /\ tagged = FALSE /\ printed = 0
    /\ sent = Nothing /\ struck = <<>>

-----------------------------------------------------------------------------
(***************************************************************************)
(* What is sent.  Of a payload it matters how long it is, and whether it is *)
(* whole: the bytes that the digits spell, no other and none less.          *)
(***************************************************************************)
MaxPayload == 64
NoBytes == [size |-> 0, whole |-> TRUE]

\* What a word spells as data.
Spelled(w) == [size |-> w.digits \div 2, whole |-> TRUE]

\* parseData() keeps the hexadecimal digits, the "0" of "0x" among them, and goes
\* through them in pairs; a digit without a partner is dropped.
ParseData(w) ==
    [size |-> (w.digits + w.prefixes) \div 2,
     whole |-> ~w.junk /\ w.prefixes = 0 /\ w.digits % 2 = 0]

\* Variant: every positional argument is taken for the id.
TakeWordAsId(o, w) == [o EXCEPT !.id = w.leading]

\* A positional argument is the id as long as that is 0, then the data as long as
\* there are none.
TakeWord(o, w) ==
    IF o.id = 0 THEN [o EXCEPT !.id = w.leading]
    ELSE IF o.data.size = 0 THEN [o EXCEPT !.data = ParseData(w)] ELSE o

\* What the words mean: an id, and data if there are any.
Asked ==
    [id |-> invocation.words[1].number,
     data |-> IF 2 \in DOMAIN invocation.words THEN Spelled(invocation.words[2]) ELSE NoBytes]

\* argparse, and --trigger-id and --trigger-data of both programs, tell id from
\* data; `canfd send` goes through the words.
Parsed ==
    LET words == invocation.words
        nothing == [id |-> 0, data |-> NoBytes]
    IN  IF invocation.python THEN Asked
        ELSE IF invocation.monitor
             THEN [id |-> words[1].leading, data |-> ParseData(words[2])]
             ELSE IF words = <<>> THEN nothing
             ELSE LET first == TakeWord(nothing, words[1])
                  IN  IF 2 \in DOMAIN words THEN TakeWord(first, words[2]) ELSE first

\* makeFrame() with its uint8_t size, and the mask that encodeFrame() puts on the id.
Frame(o) ==
    LET extended == o.id > LastSff IN
    [id |-> o.id % ((IF extended THEN LastEff ELSE LastSff) + 1),
     extended |-> extended,
     fd |-> ~invocation.classic,
     size |-> IF invocation.python THEN o.data.size ELSE o.data.size % 256,
     whole |-> o.data.whole /\ o.data.size <= MaxPayload]

\* makeFrame() copies data past the end of `frame.data`.
Overruns == ~invocation.python /\ Parsed.data.size > MaxPayload

\* encodeFrame() takes the frame; after an overrun it may see any size.
Encodable == Overruns \/ Frame(Parsed).size <= IF invocation.classic THEN 8 ELSE MaxPayload

-----------------------------------------------------------------------------
Goes(from, to) == at = from /\ at' = to /\ UNCHANGED <<invocation, struck>>

\* Variant: an exception that leaves run() ends the process at once.
RaisesUncaught(from) == Goes(from, "exit") /\ status' = "error"

\* An error raised outside of _open() closes the bus: by the destructor of the
\* C++ object, by `finally` in Python.  Inside of _open() Python ends as it is.
Raises(from) ==
    /\ Goes(from, IF invocation.python /\ from \in {"open", "configure"} THEN "exit" ELSE "close")
    /\ status' = "error"

\* argparse refuses an id that is no number, and data that are not pairs of digits.
Refused ==
    LET words == invocation.words IN
    /\ invocation.python
    /\ \/ words = <<>>
       \/ words[1].number = Nothing
       \/ 2 \in DOMAIN words /\ (words[2].junk \/ words[2].digits % 2 = 1)

Parses ==
    /\ IF Refused THEN Goes("parse", "exit") /\ status' = "error"
                  ELSE Goes("parse", "open") /\ UNCHANGED status
    /\ UNCHANGED <<started, adapter, handler, monitor, sent>>

Opens ==
    /\ Goes("open", "configure")
    /\ UNCHANGED <<status, started, adapter, handler, monitor, sent>>

\* open() fails, or configure() before its MODE request.
OpenOrTimingFails ==
    /\ Raises("open") \/ Raises("configure")
    /\ UNCHANGED <<started, adapter, handler, monitor, sent>>

\* The MODE request fails at the host; the adapter may have executed it.
ModeFails ==
    /\ Raises("configure")
    /\ channel' \in {channel, "running"} /\ unsettled' = TRUE
    /\ UNCHANGED <<started, handler, monitor, sent>>

ModeAccepted ==
    /\ Goes("configure", "store")
    /\ channel' = "running"
    /\ UNCHANGED <<status, started, unsettled, handler, monitor, sent>>

\* configure() stores `started` and returns; Python enters its `try`.
Stores ==
    /\ Goes("store", "begin")
    /\ started' = TRUE
    /\ UNCHANGED <<status, adapter, handler, monitor, sent>>

\* The bus is described.
Begins ==
    /\ Goes("begin", IF ~invocation.monitor THEN "send"
                     ELSE IF invocation.trigger THEN "trigger" ELSE "arm")
    /\ UNCHANGED <<status, started, adapter, handler, monitor, sent>>

Sends ==
    /\ Goes("send", "close") /\ Encodable
    /\ sent' = Frame(Parsed)
    /\ UNCHANGED <<status, started, adapter, handler, monitor>>

\* The trigger is tagged when its echo is to be shown.
Triggers ==
    /\ Goes("trigger", "arm") /\ Encodable
    /\ sent' = Frame(Parsed) /\ tagged' = invocation.show_echo
    /\ UNCHANGED <<status, started, adapter, handler, printed>>

\* The overrun ends the process where it stands.
Crashes ==
    /\ Overruns
    /\ Goes("send", "exit") \/ Goes("trigger", "exit")
    /\ status' = "killed"
    /\ UNCHANGED <<started, adapter, handler, monitor, sent>>

\* send() or receive() raises.
TransferFails ==
    /\ \/ Raises("send") \/ Raises("trigger") \/ Raises("receive")
       \/ Raises("loop") /\ invocation.python /\ invocation.trigger /\ invocation.repeat
    /\ UNCHANGED <<started, adapter, handler, monitor, sent>>

\* std::signal(); in Python SIGINT has its handler from the start.
Arms ==
    /\ Goes("arm", "loop")
    /\ armed' = ~invocation.python
    /\ UNCHANGED <<status, started, adapter, g_stop, monitor, sent>>

-----------------------------------------------------------------------------
(***************************************************************************)
(* The loop of `monitor`.                                                  *)
(***************************************************************************)
\* Variant: the flag is only looked at after a frame was shown.
LoopOnlyTestsCount ==
    /\ Goes("loop", IF g_stop /\ printed > 0 THEN "close" ELSE "receive")
    /\ UNCHANGED <<status, started, adapter, handler, monitor, sent>>

\* `while (!g_stop)`; Python may first send the trigger again.
LoopTests ==
    /\ Goes("loop", IF g_stop THEN "close" ELSE "receive")
    /\ UNCHANGED <<status, started, adapter, handler, monitor, sent>>

\* A time-out, or a frame that is not to be shown: an echo without --show-echo,
\* in Python an id that --filter does not name.
ReceivesNothing ==
    /\ Goes("receive", "loop")
    /\ UNCHANGED <<status, started, adapter, handler, monitor, sent>>

Hidden(f) ==
    \/ f = "echo" /\ ~invocation.show_echo
    \/ f = "other id" /\ invocation.python /\ invocation.filter

Receives(f) ==
    /\ f = "echo" => tagged
    /\ Goes("receive", IF Hidden(f) THEN "loop" ELSE "show")
    /\ UNCHANGED <<status, started, adapter, handler, monitor, sent>>

Shows ==
    /\ LET lines == printed + 1 IN
       IF invocation.count > 0
       THEN Goes("show", IF lines >= invocation.count THEN "close" ELSE "loop") /\ printed' = lines
       ELSE Goes("show", "loop") /\ UNCHANGED printed
    /\ UNCHANGED <<status, started, adapter, handler, tagged, sent>>

\* close(): a started channel is reset; a failure is swallowed.
Closes ==
    /\ Goes("close", "exit")
    /\ IF started
       THEN \/ channel' = "idle" /\ UNCHANGED unsettled
            \/ UNCHANGED channel /\ unsettled' = TRUE
       ELSE UNCHANGED adapter
    /\ started' = FALSE
    /\ UNCHANGED <<status, handler, monitor, sent>>

-----------------------------------------------------------------------------
\* SIGINT sets the flag of an armed C++ program and kills one that is not.  In
\* Python it raises KeyboardInterrupt: within `try` the bus is closed, and
\* `monitor` ends normally; before it, and within close(), the program ends.
InTry == {"begin", "send", "trigger", "arm", "loop", "receive", "show"}

Interrupted(place, result) ==
    at' = place /\ status' = result /\ UNCHANGED handler

Signal ==
    /\ at # "exit" /\ Len(struck) < MaxSignals
    /\ struck' = Append(struck, at)
    /\ IF invocation.python
       THEN IF at \in InTry
            THEN Interrupted("close", IF invocation.monitor THEN "ok" ELSE "interrupted")
            ELSE Interrupted("exit", "interrupted")
       ELSE IF armed
            THEN g_stop' = TRUE /\ UNCHANGED <<at, status, armed>>
            ELSE Interrupted("exit", "killed")
    /\ UNCHANGED <<invocation, started, adapter, monitor, sent>>

ProgramStep ==
    \/ Parses \/ Opens \/ OpenOrTimingFails \/ ModeFails \/ ModeAccepted \/ Stores
    \/ Begins \/ Sends \/ Triggers \/ Crashes \/ TransferFails \/ Arms
    \/ LoopTests \/ ReceivesNothing \/ Shows \/ Closes
    \/ \E f \in {"frame", "other id", "echo"} : Receives(f)

CLNext == ProgramStep \/ Signal

CLSpec == CLInit /\ [][CLNext]_CLvars

\* The program runs: requests and reads end within their time-outs.
FairSpec == CLSpec /\ WF_CLvars(ProgramStep)

-----------------------------------------------------------------------------
(***************************************************************************)
(* Properties.                                                             *)
(***************************************************************************)
\* Where SIGINT is provided for: the `try` in Python, in C++ the loop of `monitor`.
Guarded ==
    {place \in Places :
        IF invocation.python THEN place \in InTry
        ELSE place \in {"loop", "receive", "show"}}

\* A process that has ended leaves no channel running, whatever failed and
\* however often SIGINT came, unless a MODE request failed, SIGINT struck where
\* nothing provides for it, or the C++ program was given more than 64 bytes.
QuietAtExit ==
    at = "exit" /\ channel = "running" =>
        unsettled \/ Overruns \/ \E i \in DOMAIN struck : struck[i] \notin Guarded

\* Without these exceptions: no way to end leaves the channel running.
AlwaysQuietAtExit == at = "exit" /\ channel = "running" => unsettled

\* The frame that the words ask for, when the id is the id of a CAN frame.
AskedFrame ==
    [id |-> Asked.id, extended |-> Asked.id > LastSff, fd |-> ~invocation.classic,
     size |-> Asked.data.size, whole |-> TRUE]

IsCanId(w) == w.number \in 0 .. LastEff

\* What the C++ program takes as it is meant: an id that strtoul() reads to its
\* end, for `send` not 0, and at most 64 bytes of pairs of digits without "0x".
TakenAsMeant ==
    LET words == invocation.words IN
    /\ words[1].leading = words[1].number
    /\ ~invocation.monitor => words[1].number # 0
    /\ 2 \in DOMAIN words => ParseData(words[2]).whole /\ words[2].digits \div 2 <= MaxPayload

EndedWell ==
    /\ at = "exit" /\ status = "ok" /\ struck = <<>>
    /\ invocation.monitor => invocation.trigger

\* A program that ends successfully and undisturbed has sent the frame that was
\* asked for: the id in the format it needs, and every byte of the data.  The
\* Python program does so for whatever it does not refuse, provided that the id
\* is one (it masks others); the C++ program only for what is TakenAsMeant.
SendsWhatWasAsked ==
    EndedWell /\ invocation.words # <<>> /\ IsCanId(invocation.words[1])
              /\ (invocation.python \/ TakenAsMeant)
    => sent = AskedFrame

\* The usage says "canfd send ... ID [HEXDATA]", and nothing of these exceptions.
AlwaysSendsWhatWasAsked ==
    EndedWell => invocation.words # <<>> /\ sent = AskedFrame

\* Ctrl-C ends the program, wherever it comes and however busy the bus is.
EndsAfterSignal == struck # <<>> ~> at = "exit"
-----------------------------------------------------------------------------
(***************************************************************************)
(* The inductive invariant behind the two safety properties.               *)
(***************************************************************************)
\* Who runs a channel either has still to store that, or has stored it and not
\* yet closed the bus; else one of the exceptions of QuietAtExit.
ChannelKnown ==
    channel = "running" =>
        \/ unsettled \/ Overruns
        \/ \E i \in DOMAIN struck : struck[i] \notin Guarded
        \/ at = "store"
        \/ started /\ at \in InTry \cup {"close"}

\* The loop of the C++ program runs with its handler installed.
HandlerKnown == ~invocation.python /\ at \in {"loop", "receive", "show"} => armed

\* Past the place where it sends, an undisturbed program has sent what it parsed.
SentKnown ==
    /\ at \in {"arm", "loop", "receive", "show", "close", "exit"}
    /\ status = "ok" /\ struck = <<>>
    /\ invocation.monitor => invocation.trigger
    => sent = Frame(Parsed) /\ Encodable

CommandInv == CLTypeOK /\ ChannelKnown /\ HandlerKnown /\ SentKnown
=============================================================================
