# Specifications of gsusb-canfd

TLA+ models of gsusb-canfd, a userspace toolkit for gs_usb CAN / CAN FD adapters in
C++17 and Python: what its objects keep, what their methods do, and what may go wrong
between the calls, the threads, the adapter and the cable. The models are checked with
TLC on small instances; every safety and action property of the passing runs is also proved
with TLAPS, for every value of the constants. Liveness stays with TLC.

Paths below are relative to the repository; the C++ library is in `src/`, the Python
package in `python/src/gsusb_canfd/`.

## 1. Inventory

| Part | State it keeps | Operations | What makes it correct |
| --- | --- | --- | --- |
| **CanFdBus** (`src/device.cpp`) | transport, cached capabilities and device info, mode words (`is_fd`, `hw_timestamp`, `drop_echo`), timings, `started` | `open`, `open(info)`, `configure`, `send`, `receive`, `close` | host and adapter agree on the mode after a successful `configure`; nothing is asked of an adapter that it did not advertise; a started bus has a transport; `close` leaves no channel running |
| **Receive thread** (`src/device.cpp`) | `running`, `worker`, `callback`, `callback_mutex` | `start`, `stop`, the loop, the destructor | one thread, no callback after `stop`, at most one late frame, `stop` returns, no `std::terminate` |
| **UsbTransport** (`src/usb_transport.cpp`) | libusb handle, claimed interface, endpoints, selector | `open`, `close`, control and bulk transfers | claims are exclusive and never leak |
| **Discovery** (`src/usb_transport.cpp`, `bus.py`) | the enumeration of the moment | `scanAdapters`, `findDevices`, the heuristics, `open(info)` | the unit that was meant is opened or none; busy adapters stay visible |
| **Bit timing** (`src/bit_timing.cpp`, `protocol.py`) | the best prescaler so far | one search | a legal, closest timing; both languages the same |
| **Frame codec, send/receive** (`src/frame.cpp`, `device.cpp`, `protocol.py`, `bus.py`) | none; the adapter's queue | encode, decode, `send`, `receive` | a frame survives the round trip; echoes are marked; order; deadlines; time stamps |
| **C API** (`src/c_api.cpp`) | a handle with the bus, a callback and its user data | `canfd_open` … `canfd_close` | the handle outlives the thread that points to it; callback and user data belong together |
| **Python CanFdBus** (`bus.py`) | as the C++ object, without locks or atomics | the same | the same, with an `open` that replaces an open device and a `join` that gives up after two seconds |
| **Terminal** (`tools/canfd_term.cpp`) | bus, settings, filter, dedup memory, `g_stop` | the start, the prompt's commands, `printRx`, SIGINT | what is hidden is what the user asked to be hidden; a command does not end the session; a signal does |
| **Command lines** (`tools/canfd_cli.cpp`, `cli.py`) | the options, the bus, `g_stop` | `list`, `send`, `monitor`, SIGINT | what was asked for is sent; no end of the process leaves a channel running; Ctrl-C ends it |
| Examples, error types, build files | nothing that outlives a call | – | not modelled (section 8) |

How they interact: the C API and the tools own a `CanFdBus`; that owns a `UsbTransport`
and the receive thread; the thread calls `receive()` of its own bus and then a closure of
the owner, under `callback_mutex`. The bus and the adapter share the mode, the bit
timings and the queue of received frames, and exchange requests that may fail, or be
executed after the host has given up on them. Several programs share the adapters.

Hard behaviours: requests that fail half-way through `open` and `configure`; time-outs whose
request is executed late; unplugging at any moment; `stop` and `close` against the thread
that is in a read, waits for the mutex or is in a callback; `stop` from the callback itself;
a Python `join` that is given up; a C callback that is replaced while it is used;
enumeration that is out of date, or cannot read a busy device; read time-outs inside a
frame; SIGINT between any two steps of a program; rounding. `PROJECT.json` lists the hazards
line by line with the properties aimed at them.

## 2. Modules

| Module | Models | Proofs | Checked through |
| --- | --- | --- | --- |
| `CanFdBus` | bus objects over transports and adapters | `CanFdBus_proof` | `MCCanFdBus` |
| `BusLifecycle` | abstract: exclusive ownership of adapters | (implemented by `CanFdBus`) | `MCCanFdBus` |
| `ReceiveLoop` | `start`/`stop`/`close` and the C++ receive thread | `ReceiveLoop_proof` | `MCReceiveLoop` |
| `CApi` | the C API, composed with `ReceiveLoop` (`INSTANCE`) | `CApi_proof` | `MCCApi` |
| `BitTimingSearch` | the timing search of both languages | `BitTimingSearch_proof` | `MCBitTimingSearch` |
| `FramePath` | codec, `send`, the adapter's queue, `receive` | `FramePath_proof` | `MCFramePath` |
| `PyReceiveLoop` | the Python bus over its adapters, and its receive threads | `PyReceiveLoop_proof` | `MCPyReceiveLoop` |
| `Discovery` | scanning, selecting and opening adapters | `Tools_proof` | `MCDiscovery` |
| `Terminal` | the session of the interactive terminal and `printRx` | `Terminal_proof` | `MCTerminal` |
| `CommandLine` | one invocation of `canfd` or `gsusb-canfd` | `Tools_proof` | `MCCommandLine` |

Definitions that begin with "Variant:" in their comment are what the code does *not* do:
plausible slips of one definition, used to see that a property would notice them.

**CanFdBus.** One action is one public call, or one way in which it ends, in the order in
which the code stores and sends: `ConfigureNominalFails`, `ConfigureDataRefused`,
`ConfigureDataFails`, `ConfigureModeRefused`, `ConfigureModeFails`, `ConfigureDone` are the
exits of `configure()` from top to bottom. A control request is "done", "lost" or "late"
(executed, but reported as a time-out). `dev` is the adapter's side: timing registers, run
flag, flags of the last MODE request; `caps`, `info`, `mode`, `timing`, `started` are the
fields of `Impl`. `opened`, `agreed`, `unsettled` and `result` are history. Which bit rates
have a timing (`NominalRates`, `DataRates`) is a constant here and the subject of
`BitTimingSearch`. An unplugged handle stays dead.

**ReceiveLoop.** One action is what a thread does between two points where the other can
step in: `running.exchange`, the join, the mutex, the read, the callback. `callback_mutex`
is held by the worker over the callback; the application holds it for one assignment, which
is therefore one step. A destructor is a `stop` that goes on to `close` (`teardown`). An
application may also call `close()` itself, with or without a `stop()` before: the code has
no guard against a running loop, so `Close` has none. If the receive thread is in a bulk
read when that destroys the transport it goes on as "dangling", and `DanglingRead` is what
the undefined behaviour may do: return anything, fail, end the process, or never return
(which is why `loop_lifecycle` does not check for deadlock). A thread that is elsewhere
meets the null transport, and its next read throws. A callback that calls `stop()`, as the C
API makes possible, is the action `CallbackCallsStop` of `SelfStopSpec`; in `Spec` callbacks
return.

**CApi.** `Bus == INSTANCE ReceiveLoop` with the closure as only callback; the C functions
drive its actions, and the closure's three reads of the handle (test, function, user data)
are steps of their own, as nothing synchronises them with `canfd_start()`. A callback may
call `canfd_stop()` (`ClosureStops`): the join of the own thread throws, the exception is
swallowed, and the loop ends at its next check unless a `canfd_start()` comes first. Where
that assigns a thread over a joinable one the process ends (`aborted`). The C API closes a
bus only after it has stopped it, so that no read dangles here. The history variable
`crossed` says that `canfd_start()` has met a living receive thread since the last one that
did not. The conversion of frames between the two interfaces is in `FramePath`.

**BitTimingSearch.** Sample points are thousandths and quotients are kept exact: `Fits`,
`Err` and `Closer` multiply out what the programs divide in doubles. The tolerance of
1e-12 in the comparison is below any difference that two quotients of such numbers have,
so the exact comparison is what the code computes except for rounding noise at an exact
half. The limits are what the adapter reports, any numbers, as nobody checks them. With a
prescaler of 0 Python divides by zero (`DividesByZero`) where C++ goes on to the next one; a
first segment without quanta makes `phase_seg1` wrap in C++ and negative in Python
(`BelowZero`); the jump width is at least one (`AtLeastOne`) even if its limit is 0. Limits
of 2^31 and more, which a cast to `long` may turn negative on some systems, are treated as
the numbers that they are.

**FramePath.** A payload is its length and the number of bytes that were really sent; an id
is a number below `EffIds`, masked by `SffIds` for standard frames. Time is in half
milliseconds, because the C++ code counts whole ones and the Python code reads one more for
the rest. The adapter loops an own frame back with the echo id it was given. With
`torn`, which C++ setups only may have, a read may time out after the first USB packet of an
FD frame: `bulkRead()` forgets what it has read, and what is left is then decoded as a header
and comes out as some frame nobody sent. (What a Python program gets to see of such a read
is pyusb's, and not modelled.) `setup`, chosen in `Init`, is
the configured bus, the interface that the program uses (`host`: C++, C or Python) and the
load of a behaviour. `Outgoing` is what an interface makes of a frame before it is encoded:
`toBusFrame()` cuts it to 64 bytes, Python drops the bit rate switch on a classic bus. The
frames of other nodes are frames that CAN allows (`Encodable`), since their controllers
made them.

**PyReceiveLoop.** The application thread opens, configures and closes: `OpenDone` and
`OpenHalf` replace the device whatever was open, `ConfigureRefused`, `ConfigureFails` and
`ConfigureDone` are the ends of `configure()` behind the point where it has stored the mode,
and `Releases` is what `close()` does after its `stop()`. `consts` is the adapter whose
capabilities the bus holds, which outlive `close()`; `channel` is what each adapter was told
to run in. The histories `halfway` and `disturbed` name the adapters whose `open()` raised
half-way, and those whose last MODE request failed or which an `open()` took over from a
started bus; `refused` says that the last `configure()` to store a mode on the started bus
raised before it asked the adapter for it (`ConfigureRefused`), so that frames are sized for
a mode that the adapter is not in. In the threads one action is what happens between two
points where the interpreter may switch; in particular a thread reads `self._callback`
(`Load`, kept in `loaded`) before it invokes what it has read (`Call`). `self._running` is
shared by all loops ever started, as in the code. `JoinTimesOut` happens only while the
thread is in its callback, since every other step of it ends within its read time-out of 0.1
s. A callback may raise.

**Discovery.** Units have an id (vid and pid together), a serial, hints in their strings
and the alternate settings of their interfaces (class and bulk directions); `Readable` says
whether their strings can be read now, which depends on whether the system opens a device
once (`exclusive`) or often. `HasVendorBulkInterface` is what enumeration looks for,
`HasBulkInterface` what `open` accepts. Bus and address are one key, `port`. The vector that
`findDevices` returns is a set with an order: `Place` is the index of a device in it, the
number of found devices enumerated before it, and an entry of a scan keeps its place. A
selector may filter by id, serial, place and product; of the `product` filters it matters
which a unit's product string contains (`Products`). The C++ tools take `--vid`, `--pid` and
`--index`, the Python command line also `--serial` and `--product`; only the C++ terminal
uses an index into a list that it has shown (`OpenIndex`). The history `complete` says
whether a scan listed the unit that the bus held while it was made: one that only its
strings tell is overlooked where a held device cannot be read.

**Terminal.** `session` is where `main()` is: the first scan, the choice of an adapter,
the loop that reads `g_stop`, `getline()`, and the end, with the `reason` of it. Commands
are atomic; those that change nothing are `Nothing`. The receive thread's `printRx` has its
three steps (echo test, view test under `g_view_mutex`, the line). `SetFd` changes the
stored configuration and not the bus, and `SetId` keeps the number and not the `ext:`, as
the code does. `Signal` is `onSignal()`; it does not end a `getline()`.

**CommandLine.** One behaviour is one process, C++ or Python (`invocation.python`), with
`send` or `monitor` and any options. `at` names the next call; an exception goes to `close`
where a destructor or `finally` closes the bus, and out of the process where nothing does.
`Signal` strikes at any place: it kills a C++ program that has not yet installed its
handler, sets `g_stop` of one that has, and raises KeyboardInterrupt in Python. The
`channel` is what the adapter does, also when the process is gone. Of a word it matters
which number it spells, what `strtoul()` makes of its beginning, how many hexadecimal digits
it has, and whether there is anything else in it (`Word`). `Parsed` is how a program finds
id and data among its words: `TakeWord` and `ParseData` in C++, which take id 0 for "none
yet", drop what is no digit and an odd last one; argparse in Python, which refuses such
words (`Refused`). `Frame` is `makeFrame()` with its 8-bit size and the mask of
`encodeFrame()`. More than 64 bytes overrun the frame of the C++ program (`Overruns`): it
may crash, be refused or send anything.

## 3. Runs and what they show

Runs that pass:

| Run | Shows |
| --- | --- |
| `bus_configure` | one bus, two adapters with different capabilities, five configurations and unplugging. A started bus has an open transport; after a `configure()` that returned, and until one fails, host and adapter agree; nothing beyond the adapter's capabilities is configured after a complete open |
| `bus_exclusive` | two buses, one adapter: exclusive claims that never leak, no channel that runs without an owner unless a MODE request was reported failed, and the refinement `CanFdBus => BusLifecycle` |
| `loop_lifecycle` | the C++ receive thread, with a `close()` at any time: no termination but of a dangling read, complete stops, the right callback, at most one late frame; only the application's own `close()` without a `stop()` takes the transport from a read, never the destructor; and, under fairness, calls that return and frames that are delivered |
| `capi` | the handle outlives the thread, also after a callback stopped its own loop; callback and user data are a pair unless `canfd_start()` met a living thread; calls return, but for a `canfd_start()` on a loop that its callback has stopped, which waits for `callback_mutex` as long as frames keep arriving |
| `bit_timing` | 672 requests, refused, impossible and possible ones, to adapters that report zeros, too: legal results (but for what the zeros do: a wrapped `phase_seg1` for a first segment without quanta, a jump width of 1 for a limit of 0), no closer split, the first of equals, termination with a zero increment. The call ends, so deadlock is not checked |
| `frame_path` | four loads in one run. Three frames, own (tagged or not) and foreign, against the C++ `receive()` with a deadline or without; two frames with hardware stamps against the Python `receive()`, and against the C++ one with reads that tear a frame; every length 0 to 65 of both kinds, with all flags, on both kinds of bus, by way of the C API and of Python. Echo marks, order without gaps, reads within the deadline, frames that survive, `receive()` that returns |
| `py_loop` | the Python bus over an FD and a classic adapter. Whatever was opened over what: but for adapters that were taken over while started, or whose last MODE request failed, exactly the one that the bus holds as started runs, in the mode frames are sized for unless the last `configure()` to get that far was refused; CAN FD is asked of no adapter without it unless its `open()` raised half-way. With callbacks that return, raise or never come back: stops are complete, `stop` returns, and no thread reads the callback afterwards. One callback may yet *begin*: that of a thread that was given up, revived by a `start()`, and had read it before the `stop()`, which waits for the new thread only |
| `discovery` | two adapters with serials, one of them told by its strings only, and a device that is none, two ports, others that take and release them, selectors with and without a filter: a serial pins its unit, "not found" means away or taken, busy adapters are listed, and the index of a list that is still true opens what the list shows, unless the selector filters or the scan overlooked the adapter that the bus held |
| `terminal` | a whole session against `printRx`: dedup hides repetitions only (but for frames without bytes), a changed filter or echo setting lets one line pass at most, and after SIGINT at most one more command is obeyed |
| `command_line` | both programs, `send` and `monitor`, every option, 580 ways to call them: a process that has ended leaves no channel running unless a MODE request failed, SIGINT struck outside of what handles it, or the data overran the frame; a successful one has sent the frame asked for, in Python whenever the id is that of a CAN frame, in C++ for an id other than 0 that `strtoul()` reads to its end and at most 64 bytes of pairs of digits; it ends after SIGINT, whatever arrives |

Runs that find a disagreement between the code and what the repository says of it (the
quotes are in `PROJECT.json`, "findings"):

| Run | Disagreement |
| --- | --- |
| `callback_stop_terminates` | `canfd_stop()` in the callback, then `canfd_start()`: `std::terminate` |
| `frame_stamps` | hardware stamps wrap, zero is replaced by another clock |

The modules state more of what documentation and comments say and the code does not keep.
These have no run of their own; named as the `INVARIANT` (`ExactAdapter`, `PickedIsOpened`:
`PROPERTY`) of `SPECIFICATION Spec` with the constants given, TLC refutes each of them:

| Statement | Constants | What the counterexample shows |
| --- | --- | --- |
| `CanFdBus!ExactAdapter` | as `bus_configure` | `open(info)` on an open bus returns and stays on the other adapter (`device.cpp:161`; `device.hpp:106` "Open the exact adapter described by `info`") |
| `CanFdBus!TimestampsAdvertised` | as `bus_configure` | after a half-failed `open()` the bus is configured with another adapter's features (`device.cpp:165`; README.md:456) |
| `CanFdBus!FdFramesNeedFdMode` | as `bus_configure` | a failed `configure()` leaves the new `is_fd` with the old mode, and `send` accepts FD frames (`device.cpp:225`; the message in line 279) |
| `CanFdBus!ChannelCountOfDevice` | as `bus_configure` | the channel count of the previous adapter survives a failed request (`device.cpp:141`; README.md:449) |
| `ReceiveLoop!LoopOnlyEndsOnRequest` | as `loop_lifecycle` | one short read ends the loop for good, `running` stays set (`device.cpp:339`; README.md:178) |
| `CApi!RefusedIsNotCalled` | as `capi` | a refused `canfd_start()` redirects the running loop (`c_api.cpp:237`; `canfd.h:100`) |
| `PyReceiveLoop!OneReceiveThread` | as `py_loop` | a thread that `stop()` gave up revives at the next `start()`, beside the new one (`bus.py:563`; README.md:464 "one internal thread") |
| `BitTimingSearch!Interchangeable` | as `bit_timing` | halves are rounded differently, e.g. 48 MHz, 1 Mbit/s, 87.5 % (`protocol.py:153`, `bit_timing.cpp:57`; README.md:10-12) |
| `FramePath!EveryFrameIsReturned` | as `frame_path` | a time-out inside a frame loses it (`usb_transport.cpp:381`; README.md:450) |
| `Discovery!ExactUnit` | `Units = {first, second}`, `Attributes <- WithoutSerials` | without serials, another unit in the same place is opened (`device.cpp:192`; README.md:443-444) |
| `Discovery!UnrelatedNotListed` | `Units = {first, other}`, `Attributes <- WithStranger` | a busy device with a vendor bulk interface is listed (`usb_transport.cpp:130`; the comment above it) |
| `Discovery!PickedIsOpened` | `Units = {first, second}`, `Attributes <- TwoVendors`, `Selectors <- ByVendor` | the picker's index is used in the list filtered by `--vid` (`canfd_term.cpp:181`, `213`) |
| `Terminal!HiddenIsRepetition` | as `terminal` | dedup hides a first frame without payload (`canfd_term.cpp:147`; README.md:353) |
| `Terminal!EndsOnRequest` | as `terminal` | `fd on` on a classic bus: the next `send` ends the session (`canfd_term.cpp:305`) |
| `Terminal!NeverCrashes` | as `terminal` | `send` after a failed `open` dereferences null (`canfd_term.cpp:241`) |
| `Terminal!ExtendedAsNamed` | as `terminal` | `id ext:123`, then `send`: a standard frame (`canfd_term.cpp:318`; the help in line 251) |
| `CommandLine!AlwaysSendsWhatWasAsked` | as `command_line` | `canfd send 0 DATA` takes the data for the id, `canfd send 123 ABC` sends one byte, 65 bytes overrun the frame, and in Python the id `-2` is masked (`canfd_cli.cpp:105`, `31`, `121`; the usage in line 55) |
| `CommandLine!AlwaysQuietAtExit` | as `command_line` | SIGINT before the handler, in C++ during all of `send`, and in Python between `_open` and `try` or in `close`, leaves the channel running (`canfd_cli.cpp:176`, `cli.py:126`; a statement of this project) |

## 4. Bounds

- `bus_configure`: the capability bookkeeping concerns one bus and *which* adapter its
  cache is from, so two adapters that differ in every capability suffice. `bus_exclusive`:
  conflicts over a claim need two buses and one adapter; the buses are interchangeable, so
  the run uses symmetry (all its properties are safety). The theorems have no bounds.
- `loop_lifecycle`, `capi`: one application thread, as the code demands; two callbacks, to
  tell an old one from a new one. Behaviours are unbounded.
- `py_loop`: two threads, one that was given up and a new one; two adapters, of which one
  has no FD. `Threads` is a bound: `start()` waits for a free name, and a thread that ended
  frees its own.
- `FramePath`: `max_frames` frames arrive (3 under the mixed load: an echo, a foreign frame
  and one more, enough for reordering and gaps; 2 where reads tear; 1 for each payload),
  `MaxClock` stops the host clock's value but not the deadlines, `StampWrap` is 3 instead of
  2^32, ids have two bits of which a standard id has one.
- `MCRequests`: clocks 48 and 80 MHz, rates that divide them exactly, nearly and not at
  all, limits with and without stride, and with as many zeros as an adapter can report.
  `UintMax` is 65535 in the run, above every number that occurs.
- `Discovery`: two adapters, a device that is none, and two ports, so that units can change
  places; serials are distinct in the passing run, since nothing could tell units with the
  same serial apart. The selectors are without a filter, by id and by product.
- `Terminal`: `late` and `after` saturate at 2, one more than the properties allow. Ids
  and payloads that carry bytes are interchangeable (symmetry; all its properties are
  safety); `Empty` is a third payload.
- `CommandLine`: two signals, so that one can strike while the first is handled; `LastSff`
  is 7 and `LastEff` 31, with ids on all sides of them, 0, and words that are no numbers or
  only begin with one; data of 0 to 3 digits and of 8, 9, 64, 65 and 256 bytes, with and
  without `0x` and other characters; counts are 0 (no end) and 2.

## 5. Fairness

- C++ threads are scheduled, a bulk read ends within its 100 ms, a callback returns
  (`WF` of the application's and of the worker's steps). No fairness on calls: nobody has to
  start, stop or close. None on the adapter: frames need not arrive.
- Python: every thread is scheduled and a `join` ends after two seconds. No callback has to
  return.
- `receive()`: its loop goes on and time passes. With a time-out of zero it may wait for
  ever, which `ReceiveReturns` excludes.
- The command lines: the program runs (`WF` of `ProgramStep`), since reads and requests end
  within their time-outs. Nobody has to press Ctrl-C, and no frame has to arrive or to stop
  arriving.
- The timing search is a loop of one thread.

## 6. What is proved

Every theorem is about the specification of its module without fairness, for all values of
the constants that satisfy the module's named assumption: sets of names do not contain
`None`, limits and capabilities have their types, the set of devices is finite. Further
hypotheses are part of the statements below. Each component has one inductive invariant; a
property of a run is seldom inductive by itself. The invariants are operators of the
modules, so TLC can check them too, as an `INVARIANT` of the run named:

| Invariant | Run | Invariant | Run |
| --- | --- | --- | --- |
| `CanFdBus!BusInv` | `bus_exclusive` | `FramePath!PathInv` | `frame_path` |
| `ReceiveLoop!LoopInv` | `loop_lifecycle` | `Terminal!TerminalInv` | `terminal` |
| `PyReceiveLoop!PyInv` | `py_loop` | `Discovery!DiscoveryInv`, `ListKnown` | `discovery` |
| `CApi!ApiInv`, `MetThread` | `capi` | `CommandLine!CommandInv` | `command_line` |
| `BitTimingSearch!SearchInv`, `AllTried`, `BestAgree` | `bit_timing` | `ReceiveLoop!SelfStopInv` | `callback_stop_terminates`, instead of its invariant |

- **CanFdBus_proof**, for any number of buses, adapters and configurations. That a bus stays
  within the capabilities of its adapter needs that a completed open read them from the
  adapter of the handle (`HandleHeld`), that `has_data_const` came from an adapter with
  extended constants (`CapsRead`), and that a live handle is claimed by its bus only
  (`ExclusiveHandle`), since otherwise another bus could change the mode. `ChannelOwned` says
  that a running channel has a started owner or a failed request behind it and gives
  `QuietWhenReleased`. From `BusInv` follow `StartedNeedsTransport`, `ExclusiveClaims`,
  `HostAndAdapterAgree`, `StaysWithinCapabilities`, `QuietAfterClose`, and
  `BusImplementsLifecycle`: each call maps to one step of `BusLifecycle` or to a stutter. The
  proof has a lemma per way a call ends.
- **ReceiveLoop_proof.** `ThreadOwns` ties the thread object, the callback and the transport
  to the existence of the thread, `CallerKnows` says what each point of the application may
  rely on, `MutexHeld` and `LateBound` give the late frame. All five safety and action
  properties of `loop_lifecycle` follow. `TransportStays` confines what the missing guard of
  `close()` can do: only the application's own `Close` before a `stop()` destroys a
  transport under a read. They are about `Spec`, whose callbacks do not call `stop()`.
  `SelfStopInv` is what is left when they do (`SelfStopSpec`), where `running` no longer
  tells whether there is a thread: there is still at most one late frame, and still only the
  application's own `close()` takes the transport from a read (`SelfStopKeeps`), the
  application's `stop()` still ends the thread, no callback runs after it, and the process
  ends only in a `start()` before that `stop()` (`SelfStopLimits`) - the case that
  `callback_stop_terminates` finds. What is lost is that the callback is the one its
  `start()` gave, and that `stop()` removes it.
- **CApi_proof.** Callbacks may stop their own loop here, so `LoopInv` does not hold and
  `ApiInv` makes do without it: where the bus is in each call of the C API (`CallsKnown`),
  that a thread has a live handle and is joined before the handle is deleted
  (`ThreadHasHandle`), that the handle holds the pair it was given until somebody crosses it
  (`PairInHandle`), and what the closure has read of it (`ClosureReads`). It gives
  `CallsPair` and `HandleOutlives`, which also says that no order of the C calls brings
  about the dangling read of `ReceiveLoop`. `ApiDrivesLoop` is the refinement `CApi =>
  ReceiveLoop!SelfStopSpec`, and `DiesOnlyOfCrossing` bounds the finding of
  `callback_stop_terminates`: the process ends only in a `canfd_start()` that was accepted
  with the receive thread still there.
- **PyReceiveLoop_proof**, for any sets of adapters, threads and callbacks. There is no
  lock, and a thread that was given up runs on with a flag that later loops share.
  `CallerKnows` says when flag and callback are set: a callback is there only between a
  `start()` and the end of the next `stop()`, whoever reads it; `ThreadsKnown` that a living
  thread is the current one or was given up; `LoadedKnown` that what a thread has read is
  the callback of this `start()`, until `stop()` gives the thread up. `DeviceKnown` and
  `ChannelsKnown` relate each adapter to `consts` and `started` over all orders of `open`,
  `configure` and `close`. The theorems are the four safety properties of `py_loop`, two of
  them on steps.
- **BitTimingSearch_proof.** `SearchInv`: the best so far is the first of the closest among
  the prescalers tried; the order of quotients is handled by `CloserComposes`. `LegalTiming`
  adds, for limits of any values, that the segments add up within them, and how far a zero
  among them may lead: to a wrapped `phase_seg1` if the first segment may have no quanta, to
  a jump width of 1 for a limit of 0, and to nothing else. `SearchTriesAll` says that the loop
  skips no prescaler, and `NothingCloser` that none of their splits beats the result: the
  rounded split is the nearest one (`RoundIsNearest`), so that the quantifier over all splits
  needs no search. `SameTiming` is the README's "interchangeable" with its limit: both
  programs return the same timing unless a prescaler that fits meets an exact half or the
  adapter reports a zero for its prescalers or its first segment. (Of the 101 requests of the
  run that have a timing and meet no such zero, 51 meet a half and 7 get different answers.)
- **FramePath_proof**, for any load, ids and clocks. Lemmas about the codec come first: the
  table of lengths, the shortest length that holds a payload, and that `decode` inverts
  `encode` on both kinds of bus. `PathInv` says that what the adapter holds was made by
  `encode` (`QueueKnown`), what was returned is what the codec makes of it (`ResultsKnown`),
  in the order of arrival and without gaps unless a read was torn (`Ordered`, `Complete`).
  All four safety properties follow.
- **Terminal_proof**, for any ids and payloads. `PromptKnown` is about the session,
  `Excluded` and `LateKnown` about the one frame that `printRx` may hold when a setting
  changes, `DedupKnown` about the memory of dedup against what was shown. `HiddenWasShown`
  has no hypothesis: whatever payloads there are, a frame with bytes is only hidden when the
  last line of its id showed them. For a frame without bytes that is not so (section 3).
- **Tools_proof**, which extends `Discovery` and `CommandLine` (hence the names with `CL` in
  the latter): the choice of an adapter, and what an invocation does with it.
  - `DiscoveryInv`: two devices are never in one place, an entry tells no untruth of its unit,
    and the selector stays at the entry that was meant. With `SerialsDiffer` (a serial is given
    once per kind of device) it gives `SerialPins` and `AwayIfNotFound`; `BusyAdaptersListed`
    needs nothing more. `PickerIsRight` has no hypotheses either; it rests on `ListKnown`, that
    a complete list in which nothing has changed has its units in their places, also when the
    bus itself opens or releases one of them. "Complete" is needed: an adapter that only its
    strings tell leaves the list while the bus holds it, and the indices behind it shift.
    `PlacesTell`, that an index belongs to one device, is the only fact about cardinalities.
  - `CommandInv`: who runs a channel will still store or has stored that, or a request
    failed, or SIGINT struck unprovided for, or the data overran the frame (`ChannelKnown`);
    the C++ loop never runs without its handler (`HandlerKnown`), on which the case of
    SIGINT rests; past the place of sending an undisturbed program has sent what it parsed
    (`SentKnown`). `NoChannelLeftRunning` follows, and `SentAsAsked` with `ParsedAsMeant`
    and `FramedAsMeant`: words that are not refused and, in C++, are `TakenAsMeant` survive
    parsing and `makeFrame()`. For any invocations and any number of signals.

## 7. What is only model-checked

Liveness: `CallsReturn` (both loops), `FrameIsDelivered`, `ApiCallsReturn`, `ReceiveReturns`,
`Terminates`, `EndsAfterSignal`. Fairness and `ENABLED` are beyond the prover. The statements
that the code does not keep (section 3) have counterexamples and no proofs; where they hold
but for one cause, a theorem says so (`SameTiming`, `SelfStopLimits`, `DiesOnlyOfCrossing`,
`HiddenWasShown`, `PickerIsRight`, `NoChannelLeftRunning`, `SentAsAsked`).

## 8. What is not modelled

- Moving a `CanFdBus`; `configure()` by the application while the loop runs; a
  C++ callback that throws.
- In the C API the error text, adapter lists and getters; the handle that a failed
  `canfd_open()` leaks is a bus nobody calls, which the behaviours of `CanFdBus` include.
- In Python the values of timings and optional modes: of the timings see
  `BitTimingSearch`; that a legacy reply also sets the data constants is not told apart.
- Error and overflow flags of frames, printing, parsing of options and of the terminal's
  commands, the configuration that is set when a device has none.
- In Python a read that ends inside a frame: what is left of it is decided by pyusb.
- The examples (sequential users of the library), error classes, build files. Firmware and
  USB are an environment, taken from how the code uses them.

## 9. Plan

The order follows the importance of the behaviour. Done: bus and lifecycle, receive thread,
timing, frame path, the Python bus and its threads, C API, discovery, terminal, command
lines, and the proofs of the safety and action properties of all passing runs. Next:

1. Theorems with the exact limits of the statements of section 3 that have none yet: when
   `ExactUnit` does hold for a unit without a serial, and that an unrelated device is listed
   only if it has a vendor bulk interface and could not be opened.
2. A composition of `CanFdBus` with `ReceiveLoop`: `configure()` and moves while the worker
   runs, with the mode words as shared state, and the C++ callback that throws.
