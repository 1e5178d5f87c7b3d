------------------------------ MODULE CanFdBus ------------------------------
(***************************************************************************)
(* The CanFdBus object of src/src/device.cpp over the UsbTransport of      *)
(* src/src/usb_transport.cpp: several bus objects of one process, several  *)
(* adapters that are plugged and unplugged, and USB requests of which each *)
(* may fail.  One action is one call of a public method, or one of the     *)
(* ways in which that call can end.  The receive thread is the subject of  *)
(* module ReceiveLoop.                                                     *)
(***************************************************************************)
EXTENDS FiniteSets

CONSTANTS
    Buses,          \* CanFdBus objects of the process
    Adapters,       \* physical gs_usb adapters
    Configs,        \* the BusConfig values the callers pass
    Feature,        \* per adapter, the feature bits it advertises
    ReportsExt,     \* adapters that answer the extended constants request
    NominalRates,   \* per adapter, bit rates a nominal timing exists for
    DataRates,      \* per adapter, bit rates a data timing exists for
    None            \* "no adapter", "no bus", "no value"

\* Optional modes: the configuration field, the feature bit that a device must
\* advertise and the flag of the MODE request share one name here.
Optional == {"listen_only", "loopback", "one_shot"}
Features == Optional \cup {"hw_timestamp", "fd"}
Rates    == UNION {{c.bitrate, c.data_bitrate} : c \in Configs}
Config   == [bitrate : Rates, data_bitrate : Rates, fd : BOOLEAN,
             hw_timestamp : BOOLEAN, modes : SUBSET Optional]

ASSUME BusAssumption ==
    /\ None \notin Buses /\ None \notin Adapters
    /\ None \notin Configs /\ None \notin Rates
    /\ Configs \subseteq Config
    /\ Feature \in [Adapters -> SUBSET Features]
    /\ ReportsExt \subseteq Adapters
    /\ NominalRates \in [Adapters -> SUBSET Rates]
    /\ DataRates \in [Adapters -> SUBSET Rates]

VARIABLES
    transport,  \* impl_->transport: "none" (null), "closed" or "open"
    handle,     \* the adapter that the libusb handle was opened on
    alive,      \* that handle still reaches an attached adapter
    selector,   \* the adapters that impl_->selector matches
    caps,       \* adapter whose constants are cached, and has_data_const
    info,       \* adapter whose device_info is cached
    mode,       \* is_fd and hw_timestamp, as the host believes them
    timing,     \* nominal_timing and data_timing
    started,    \* impl_->started
    plugged,    \* adapters that are attached
    claim,      \* per adapter, the bus that claimed its interface
    dev,        \* per adapter, its timing registers and its channel mode
    opened,     \* history: the last open() that did any work returned
    agreed,     \* history: the configuration that configure() accepted
    unsettled,  \* history: adapters whose last MODE request was reported failed
    result      \* how the last call on each bus ended

usb  == <<transport, handle, alive, claim>>
host == <<caps, info, mode, timing, started>>
vars == <<usb, host, selector, plugged, dev, opened, agreed, unsettled, result>>

NoCaps  == [from |-> None, ext |-> FALSE]
Idle    == [run |-> FALSE, flags |-> {}, nominal |-> None, data |-> None]
Timing  == [nominal : Rates \cup {None}, data : Rates \cup {None}]
Mode    == [fd : BOOLEAN, hw : BOOLEAN]
Channel == [run : BOOLEAN, flags : SUBSET Features,
            nominal : Rates \cup {None}, data : Rates \cup {None}]
Outcome == {"done", "lost", "late"}

TypeOK ==
    /\ transport \in [Buses -> {"none", "closed", "open"}]
    /\ handle \in [Buses -> Adapters \cup {None}]
    /\ alive \in [Buses -> BOOLEAN]
    /\ selector \in [Buses -> SUBSET Adapters]
    /\ caps \in [Buses -> [from : Adapters \cup {None}, ext : BOOLEAN]]
    /\ info \in [Buses -> Adapters \cup {None}]
    /\ mode \in [Buses -> Mode]
    /\ timing \in [Buses -> Timing]
    /\ started \in [Buses -> BOOLEAN]
    /\ plugged \in SUBSET Adapters
    /\ claim \in [Adapters -> Buses \cup {None}]
    /\ dev \in [Adapters -> Channel]
    /\ opened \in [Buses -> BOOLEAN]
    /\ agreed \in [Buses -> Configs \cup {None}]
    /\ unsettled \in SUBSET Adapters
    /\ result \in [Buses -> {"returned", "threw"}]

Init ==
    /\ transport = [b \in Buses |-> "none"]
    /\ handle = [b \in Buses |-> None]
    /\ alive = [b \in Buses |-> FALSE]
    /\ selector = [b \in Buses |-> Adapters]
    /\ caps = [b \in Buses |-> NoCaps]
    /\ info = [b \in Buses |-> None]
    /\ mode = [b \in Buses |-> [fd |-> FALSE, hw |-> TRUE]]
    /\ timing = [b \in Buses |-> [nominal |-> None, data |-> None]]
    /\ started = [b \in Buses |-> FALSE]
    /\ plugged = Adapters
    /\ claim = [a \in Adapters |-> None]
    /\ dev = [a \in Adapters |-> Idle]
    /\ opened = [b \in Buses |-> FALSE]
    /\ agreed = [b \in Buses |-> None]
    /\ unsettled = {}
    /\ result = [b \in Buses |-> "returned"]

IsOpen(b) == transport[b] = "open"

Returns(b) == result' = [result EXCEPT ![b] = "returned"]
Throws(b)  == result' = [result EXCEPT ![b] = "threw"]

-----------------------------------------------------------------------------
(***************************************************************************)
(* open() and open(AdapterInfo).  `sel` is what the selector matches when  *)
(* the body runs: the old selector for open(), one adapter for open(info). *)
(***************************************************************************)

\* A transport that is open already: nothing is read, nothing is compared.
OpenNoop(b, sel) ==
    /\ IsOpen(b)
    /\ selector' = [selector EXCEPT ![b] = sel]
    /\ Returns(b)
    /\ UNCHANGED <<usb, host, plugged, dev, opened, agreed, unsettled>>

\* UsbTransport::open() throws: nothing matches, the index is out of range,
\* libusb_open fails, there is no bulk interface or the claim is refused.
OpenFails(b, sel) ==
    /\ ~IsOpen(b)
    /\ transport' = [transport EXCEPT ![b] = "closed"]
    /\ selector' = [selector EXCEPT ![b] = sel]
    /\ opened' = [opened EXCEPT ![b] = FALSE]
    /\ Throws(b)
    /\ UNCHANGED <<handle, alive, claim, host, plugged, dev, agreed, unsettled>>

\* Variant: a claim that is not exclusive.
ClaimShared(b, a) ==
    /\ ~IsOpen(b)
    /\ transport' = [transport EXCEPT ![b] = "open"]
    /\ handle' = [handle EXCEPT ![b] = a]
    /\ alive' = [alive EXCEPT ![b] = TRUE]
    /\ claim' = [claim EXCEPT ![a] = b]

\* The transport takes the adapter's interface.
Claim(b, a) ==
    /\ ~IsOpen(b)
    /\ claim[a] = None
    /\ transport' = [transport EXCEPT ![b] = "open"]
    /\ handle' = [handle EXCEPT ![b] = a]
    /\ alive' = [alive EXCEPT ![b] = TRUE]
    /\ claim' = [claim EXCEPT ![a] = b]

\* readCapabilities() throws after the transport was opened: the transport
\* stays open and the constants of the previous adapter stay cached.
OpenHalf(b, a, sel) ==
    /\ a \in sel \cap plugged
    /\ Claim(b, a)
    /\ selector' = [selector EXCEPT ![b] = sel]
    /\ opened' = [opened EXCEPT ![b] = FALSE]
    /\ Throws(b)
    /\ UNCHANGED <<host, plugged, dev, agreed, unsettled>>

\* A complete open.  A failed extended request falls back to the legacy one
\* (has_data_const is false then); a failed device-info request is ignored and
\* keeps the cached device_info.
OpenDone(b, a, ext, gotInfo, sel) ==
    /\ a \in sel \cap plugged
    /\ ext => a \in ReportsExt
    /\ Claim(b, a)
    /\ caps' = [caps EXCEPT ![b] = [from |-> a, ext |-> ext]]
    /\ info' = IF gotInfo THEN [info EXCEPT ![b] = a] ELSE info
    /\ selector' = [selector EXCEPT ![b] = sel]
    /\ opened' = [opened EXCEPT ![b] = TRUE]
    /\ Returns(b)
    /\ UNCHANGED <<mode, timing, started, plugged, dev, agreed, unsettled>>

OpenWith(b, sel) ==
    \/ OpenNoop(b, sel)
    \/ OpenFails(b, sel)
    \/ \E a \in Adapters : OpenHalf(b, a, sel)
    \/ \E a \in Adapters, ext, gotInfo \in BOOLEAN :
          OpenDone(b, a, ext, gotInfo, sel)

Open(b)        == OpenWith(b, selector[b])
OpenInfo(b, a) == OpenWith(b, {a})

-----------------------------------------------------------------------------
(***************************************************************************)
(* configure().  A control request is "done", "lost" (not executed) or     *)
(* "late" (executed by the adapter, reported to the host as a timeout);    *)
(* a handle whose adapter was unplugged only loses requests.               *)
(***************************************************************************)
CapFeatures(b) == IF caps[b].from = None THEN {} ELSE Feature[caps[b].from]
CapNominal(b)  == IF caps[b].from = None THEN {} ELSE NominalRates[caps[b].from]
CapData(b)     == IF caps[b].from = None THEN {} ELSE DataRates[caps[b].from]

FdRefused(b, c)      == c.fd /\ "fd" \notin CapFeatures(b)
NominalRefused(b, c) == c.bitrate \notin CapNominal(b)
\* Variant: no has_data_const check, as in configure() of bus.py.
DataRefusedLegacyToo(b, c) == c.fd /\ c.data_bitrate \notin CapData(b)
DataRefused(b, c)    == c.fd /\ (~caps[b].ext \/ c.data_bitrate \notin CapData(b))
ModesRefused(b, c)   == ~(c.modes \subseteq CapFeatures(b))
HwTimestamp(b, c)    == c.hw_timestamp /\ "hw_timestamp" \in CapFeatures(b)

Possible(b, outcome) == alive[b] \/ outcome = "lost"

\* Variant: the timestamp flag is not masked with the feature word.
ModeFlagsUnmasked(b, c) == c.modes \cup (IF c.fd THEN {"fd"} ELSE {})
                                   \cup (IF c.hw_timestamp THEN {"hw_timestamp"} ELSE {})

\* The MODE request's flag word.
ModeFlags(b, c) == c.modes \cup (IF c.fd THEN {"fd"} ELSE {})
                           \cup (IF HwTimestamp(b, c) THEN {"hw_timestamp"} ELSE {})

\* What the adapter of handle[b] becomes when it executes requests: the new
\* nominal register, the new data register.
WithTiming(b, nominal, data) ==
    [dev EXCEPT ![handle[b]].nominal = nominal, ![handle[b]].data = data]

DataAfter(b, c) == IF c.fd THEN c.data_bitrate ELSE dev[handle[b]].data

\* Not open, no FD support, or no nominal timing: thrown before any change.
ConfigureRefused(b, c) ==
    /\ ~IsOpen(b) \/ FdRefused(b, c) \/ NominalRefused(b, c)
    /\ Throws(b)
    /\ UNCHANGED <<usb, host, selector, plugged, dev, opened, agreed, unsettled>>

Reaches(b, c) == IsOpen(b) /\ ~FdRefused(b, c) /\ ~NominalRefused(b, c)

\* The nominal timing is stored, then its request fails.
ConfigureNominalFails(b, c, outcome) ==
    /\ Reaches(b, c)
    /\ outcome # "done" /\ Possible(b, outcome)
    /\ timing' = [timing EXCEPT ![b].nominal = c.bitrate]
    /\ dev' = IF outcome = "late" THEN WithTiming(b, c.bitrate, dev[handle[b]].data) ELSE dev
    /\ agreed' = [agreed EXCEPT ![b] = None]
    /\ Throws(b)
    /\ UNCHANGED <<usb, caps, info, mode, started, selector, plugged, opened, unsettled>>

\* The nominal timing is in the adapter; the data timing does not exist.
ConfigureDataRefused(b, c) ==
    /\ Reaches(b, c) /\ alive[b]
    /\ DataRefused(b, c)
    /\ timing' = [timing EXCEPT ![b].nominal = c.bitrate]
    /\ dev' = WithTiming(b, c.bitrate, dev[handle[b]].data)
    /\ agreed' = [agreed EXCEPT ![b] = None]
    /\ Throws(b)
    /\ UNCHANGED <<usb, caps, info, mode, started, selector, plugged, opened, unsettled>>

\* Both timings are stored; the data request fails.
ConfigureDataFails(b, c, outcome) ==
    /\ Reaches(b, c) /\ alive[b]
    /\ c.fd /\ ~DataRefused(b, c)
    /\ outcome # "done" /\ Possible(b, outcome)
    /\ timing' = [timing EXCEPT ![b] = [nominal |-> c.bitrate, data |-> c.data_bitrate]]
    /\ dev' = WithTiming(b, c.bitrate,
                  IF outcome = "late" THEN c.data_bitrate ELSE dev[handle[b]].data)
    /\ agreed' = [agreed EXCEPT ![b] = None]
    /\ Throws(b)
    /\ UNCHANGED <<usb, caps, info, mode, started, selector, plugged, opened, unsettled>>

\* All timings are in the adapter and the host has taken over its own flags.
HostModeStored(b, c) ==
    /\ Reaches(b, c) /\ alive[b] /\ ~DataRefused(b, c)
    /\ timing' = [timing EXCEPT ![b] =
                     [nominal |-> c.bitrate,
                      data |-> IF c.fd THEN c.data_bitrate ELSE timing[b].data]]
    /\ mode' = [mode EXCEPT ![b] = [fd |-> c.fd, hw |-> HwTimestamp(b, c)]]

\* An optional mode is not supported: thrown after the host flags changed.
ConfigureModeRefused(b, c) ==
    /\ HostModeStored(b, c)
    /\ ModesRefused(b, c)
    /\ dev' = WithTiming(b, c.bitrate, DataAfter(b, c))
    /\ agreed' = [agreed EXCEPT ![b] = None]
    /\ Throws(b)
    /\ UNCHANGED <<usb, caps, info, started, selector, plugged, opened, unsettled>>

Running(b, c) ==
    [dev EXCEPT ![handle[b]] = [run |-> TRUE, flags |-> ModeFlags(b, c),
                                nominal |-> c.bitrate, data |-> DataAfter(b, c)]]

\* The MODE request is reported failed; started keeps its value.
ConfigureModeFails(b, c, outcome) ==
    /\ HostModeStored(b, c)
    /\ ~ModesRefused(b, c)
    /\ outcome # "done" /\ Possible(b, outcome)
    /\ dev' = IF outcome = "late" THEN Running(b, c)
              ELSE WithTiming(b, c.bitrate, DataAfter(b, c))
    /\ agreed' = [agreed EXCEPT ![b] = None]
    /\ unsettled' = unsettled \cup {handle[b]}
    /\ Throws(b)
    /\ UNCHANGED <<usb, caps, info, started, selector, plugged, opened>>

ConfigureDone(b, c) ==
    /\ HostModeStored(b, c)
    /\ ~ModesRefused(b, c)
    /\ dev' = Running(b, c)
    /\ started' = [started EXCEPT ![b] = TRUE]
    /\ agreed' = [agreed EXCEPT ![b] = c]
    /\ unsettled' = unsettled \ {handle[b]}
    /\ Returns(b)
    /\ UNCHANGED <<usb, caps, info, selector, plugged, opened>>

Configure(b) ==
    \E c \in Configs :
        \/ ConfigureRefused(b, c)
        \/ \E outcome \in Outcome : ConfigureNominalFails(b, c, outcome)
        \/ ConfigureDataRefused(b, c)
        \/ \E outcome \in Outcome : ConfigureDataFails(b, c, outcome)
        \/ ConfigureModeRefused(b, c)
        \/ \E outcome \in Outcome : ConfigureModeFails(b, c, outcome)
        \/ ConfigureDone(b, c)

-----------------------------------------------------------------------------
(***************************************************************************)
(* send() and receive().  Both need a transport object and started; only   *)
(* the frame kind matters here, frames are the subject of other modules.   *)
(***************************************************************************)
CanTransfer(b) == transport[b] # "none" /\ started[b]
AcceptsFd(b)   == CanTransfer(b) /\ mode[b].fd

SendDone(b, fd) ==
    /\ CanTransfer(b) /\ alive[b]
    /\ fd => AcceptsFd(b)
    /\ Returns(b)
    /\ UNCHANGED <<usb, host, selector, plugged, dev, opened, agreed, unsettled>>

\* Refused (not started, FD frame on a classic bus) or failed on the way out.
SendThrows(b) ==
    /\ Throws(b)
    /\ UNCHANGED <<usb, host, selector, plugged, dev, opened, agreed, unsettled>>

\* receive() returns a frame or false when the adapter is there, and throws
\* when it is not started, when the adapter is gone or a frame is short.
Receive(b) ==
    /\ \/ CanTransfer(b) /\ alive[b] /\ Returns(b)
       \/ Throws(b)
    /\ UNCHANGED <<usb, host, selector, plugged, dev, opened, agreed, unsettled>>

-----------------------------------------------------------------------------
(***************************************************************************)
(* close(): the channel is reset only when started; a failed reset is      *)
(* swallowed; the interface is released in every case.                     *)
(***************************************************************************)
CloseNoop(b) ==
    /\ transport[b] = "none"
    /\ Returns(b)
    /\ UNCHANGED <<usb, host, selector, plugged, dev, opened, agreed, unsettled>>

Release(b) ==
    /\ transport' = [transport EXCEPT ![b] = "none"]
    /\ handle' = [handle EXCEPT ![b] = None]
    /\ alive' = [alive EXCEPT ![b] = FALSE]
    /\ claim' = [a \in Adapters |-> IF claim[a] = b THEN None ELSE claim[a]]
    /\ opened' = [opened EXCEPT ![b] = FALSE]
    /\ agreed' = [agreed EXCEPT ![b] = None]
    /\ Returns(b)

\* Variant: a close() that never asks whether the channel was started.
CloseWithoutReset(b) ==
    /\ transport[b] # "none"
    /\ Release(b)
    /\ UNCHANGED <<host, selector, plugged, dev, unsettled>>

CloseIdle(b) ==
    /\ transport[b] # "none"
    /\ ~(started[b] /\ IsOpen(b))
    /\ Release(b)
    /\ UNCHANGED <<host, selector, plugged, dev, unsettled>>

CloseStarted(b, outcome) ==
    /\ started[b] /\ IsOpen(b)
    /\ Possible(b, outcome)
    /\ started' = [started EXCEPT ![b] = FALSE]
    /\ dev' = IF outcome = "lost" THEN dev
              ELSE [dev EXCEPT ![handle[b]].run = FALSE]
    /\ unsettled' = IF ~alive[b] THEN unsettled
                    ELSE IF outcome = "done" THEN unsettled \ {handle[b]}
                    ELSE unsettled \cup {handle[b]}
    /\ Release(b)
    /\ UNCHANGED <<caps, info, mode, timing, selector, plugged>>

Close(b) ==
    \/ CloseNoop(b)
    \/ CloseIdle(b)
    \/ \E outcome \in Outcome : CloseStarted(b, outcome)

-----------------------------------------------------------------------------
(***************************************************************************)
(* The USB cable.  A plugged-in adapter starts from power-on state; a      *)
(* handle on it that was open before is dead for good.                     *)
(***************************************************************************)
Unplug(a) ==
    /\ a \in plugged
    /\ plugged' = plugged \ {a}
    /\ claim' = [claim EXCEPT ![a] = None]
    /\ alive' = [b \in Buses |-> alive[b] /\ handle[b] # a]
    /\ dev' = [dev EXCEPT ![a] = Idle]
    /\ unsettled' = unsettled \ {a}
    /\ UNCHANGED <<transport, handle, host, selector, opened, agreed, result>>

Plug(a) ==
    /\ a \in Adapters \ plugged
    /\ plugged' = plugged \cup {a}
    /\ UNCHANGED <<usb, host, selector, dev, opened, agreed, unsettled, result>>

BusStep(b) ==
    \/ Open(b)
    \/ \E a \in Adapters : OpenInfo(b, a)
    \/ Configure(b)
    \/ \E fd \in BOOLEAN : SendDone(b, fd)
    \/ SendThrows(b)
    \/ Receive(b)
    \/ Close(b)

Next ==
    \/ \E b \in Buses : BusStep(b)
    \/ \E a \in Adapters : Unplug(a) \/ Plug(a)

Spec == Init /\ [][Next]_vars

-----------------------------------------------------------------------------
(***************************************************************************)
(* Safety.                                                                 *)
(***************************************************************************)

\* send() and receive() test only that a transport object exists and that
\* started is set, then use the libusb handle.  So a started bus must always
\* hold an open transport, over every sequence of failed opens, failed
\* configures and closes: otherwise they would use a null handle.
StartedIsOpen ==
    \A b \in Buses : started[b] => IsOpen(b) /\ handle[b] # None

\* An adapter's interface is claimed exactly by the one bus whose handle is on
\* it and still alive: it is released by every close, lost by every unplug,
\* and never held by two bus objects or by a bus that has forgotten it.
ExclusiveHandle ==
    /\ \A b \in Buses, a \in Adapters :
          (claim[a] = b) <=> (IsOpen(b) /\ handle[b] = a /\ alive[b])
    /\ \A a \in Adapters : claim[a] # None => a \in plugged

\* Configuration c, adapter state d and the host's own mode m and timing t say
\* the same.
Agree(c, d, m, t) ==
    /\ d.run
    /\ m.fd <=> "fd" \in d.flags
    /\ m.hw <=> "hw_timestamp" \in d.flags
    /\ d.flags \cap Optional = c.modes
    /\ d.nominal = c.bitrate /\ t.nominal = c.bitrate
    /\ m.fd => d.data = c.data_bitrate /\ t.data = c.data_bitrate

\* Configuration c, which put the adapter into state d, stays within what
\* adapter a advertises.
Within(c, d, a) ==
    /\ d.flags \subseteq Feature[a]
    /\ c.bitrate \in NominalRates[a]
    /\ c.fd => a \in ReportsExt /\ c.data_bitrate \in DataRates[a]

\* After a configure() that returned, and until another one throws half-way,
\* the host and the adapter agree: the channel runs with the flags of the
\* accepted configuration, the host's frame format is the adapter's, and the
\* timing registers hold the timings the host reports.
ModeAgreement ==
    \A b \in Buses :
        agreed[b] # None /\ alive[b] =>
            started[b] /\ Agree(agreed[b], dev[handle[b]], mode[b], timing[b])

\* A bus whose open() completed configures its adapter only within what that
\* adapter advertises: optional modes, timestamps, rates, and CAN FD only when
\* the adapter itself reported data timing constants.
WithinCapabilities ==
    \A b \in Buses :
        opened[b] /\ agreed[b] # None /\ alive[b] =>
            Within(agreed[b], dev[handle[b]], handle[b])

\* close() leaves no adapter transmitting on the CAN bus behind the program's
\* back: a channel that still runs without an owner is one whose last MODE
\* request (start or reset) was reported failed.
QuietWhenReleased ==
    \A a \in Adapters : dev[a].run /\ claim[a] = None => a \in unsettled

-----------------------------------------------------------------------------
(***************************************************************************)
(* Refinement: the calls above implement the exclusive ownership of        *)
(* module BusLifecycle.                                                    *)
(***************************************************************************)
Phase == [b \in Buses |-> IF started[b] THEN "started"
                          ELSE IF IsOpen(b) THEN "open" ELSE "closed"]

Lifecycle == INSTANCE BusLifecycle WITH phase <- Phase, owner <- claim

\* Whatever requests fail and in whatever order the methods are called, the
\* isOpen() / isStarted() view of the buses and the interface claims change
\* only as exclusive ownership allows.
ImplementsLifecycle == Lifecycle!Spec

-----------------------------------------------------------------------------
(***************************************************************************)
(* The inductive invariant behind the properties above.                    *)
(***************************************************************************)
\* What a bus remembers of its adapter comes from the adapter it has.
HandleHeld ==
    \A b \in Buses :
        /\ IsOpen(b) <=> handle[b] # None
        /\ alive[b] => IsOpen(b)
        /\ opened[b] => IsOpen(b) /\ caps[b].from = handle[b]
        /\ agreed[b] # None => started[b]

\* has_data_const is only true after an extended reply of that adapter.
CapsRead == \A b \in Buses : caps[b].ext => caps[b].from \in ReportsExt

\* A running channel has an owner that will reset it, or a failed request
\* behind it.
ChannelOwned ==
    \A a \in Adapters :
        dev[a].run => a \in unsettled \/ (claim[a] # None /\ started[claim[a]])

BusInv == /\ TypeOK /\ HandleHeld /\ CapsRead /\ StartedIsOpen
          /\ ExclusiveHandle /\ ModeAgreement /\ WithinCapabilities /\ ChannelOwned

-----------------------------------------------------------------------------
(***************************************************************************)
(* Statements of the repository that the code does not keep.               *)
(***************************************************************************)

\* device.hpp says of open(info): "Open the exact adapter described by `info`".
\* A call that returns should leave the handle on that adapter.
ExactAdapter ==
    [][\A b \in Buses, a \in Adapters :
          OpenInfo(b, a) /\ result'[b] = "returned" => handle'[b] = a]_vars

\* README: "Hardware timestamps are used when the device advertises
\* GS_CAN_FEATURE_HW_TIMESTAMP".  A started host should not expect them from an
\* adapter that does not advertise them.
TimestampsAdvertised ==
    \A b \in Buses :
        started[b] /\ mode[b].hw => "hw_timestamp" \in Feature[handle[b]]

\* send() refuses an FD frame with "cannot send CAN FD frame on a classic CAN
\* bus".  A frame it accepts should reach an adapter that runs in FD mode.
FdFramesNeedFdMode ==
    \A b \in Buses :
        AcceptsFd(b) /\ alive[b] =>
            dev[handle[b]].run /\ "fd" \in dev[handle[b]].flags

\* README: "channelCount() / channel_count() reports how many the device has".
\* The count of an opened device should never be another adapter's.
ChannelCountOfDevice ==
    \A b \in Buses : opened[b] => info[b] \in {None, handle[b]}

=============================================================================
