--------------------------- MODULE CanFdBus_proof ---------------------------
(***************************************************************************)
(* Proofs about CanFdBus, for any number of buses, adapters and            *)
(* configurations: BusInv is inductive, the safety properties follow from  *)
(* it, and every step implements a step of BusLifecycle.                   *)
(***************************************************************************)
EXTENDS CanFdBus, TLAPS

USE DEF usb, host, vars

\* Two live buses never share an adapter.
LEMMA LiveHandles ==
    ASSUME BusInv, NEW b \in Buses, NEW x \in Buses, alive[b], alive[x], x # b
    PROVE  handle[x] # handle[b]
  BY BusAssumption DEF BusInv, TypeOK, HandleHeld, ExclusiveHandle

\* A live handle is on an adapter, and its claim is the bus's.
LEMMA LiveHandleClaimed ==
    ASSUME BusInv, NEW b \in Buses, alive[b]
    PROVE  /\ handle[b] \in Adapters /\ claim[handle[b]] = b
           /\ IsOpen(b) /\ handle[b] \in plugged
  BY BusAssumption DEF BusInv, TypeOK, HandleHeld, ExclusiveHandle

\* A step of configure() on a live handle: it rewrites what the host holds for
\* one bus and the channel of its adapter, and it keeps BusInv when what it
\* calls agreed does agree.
LEMMA ConfigureStep ==
    ASSUME BusInv, NEW b \in Buses, alive[b],
           NEW d \in Channel, NEW m \in Mode, NEW t \in Timing,
           NEW s \in BOOLEAN, NEW g \in Configs \cup {None}, NEW u \in SUBSET Adapters,
           dev' = [dev EXCEPT ![handle[b]] = d],
           mode' = [mode EXCEPT ![b] = m],
           timing' = [timing EXCEPT ![b] = t],
           started' = [started EXCEPT ![b] = s],
           agreed' = [agreed EXCEPT ![b] = g],
           unsettled' = u,
           result' \in [Buses -> {"returned", "threw"}],
           UNCHANGED <<usb, caps, info, selector, plugged, opened>>,
           g # None => s /\ Agree(g, d, m, t),
           g # None /\ opened[b] => Within(g, d, handle[b]),
           d.run => s \/ handle[b] \in u,
           unsettled \ {handle[b]} \subseteq u
    PROVE  BusInv'
<1> DEFINE h == handle[b]
<1>1. h \in Adapters /\ claim[h] = b /\ IsOpen(b) /\ h \in plugged /\ h # None
  BY LiveHandleClaimed, BusAssumption
<1>2. TypeOK'
  BY <1>1 DEF BusInv, TypeOK
<1>3. (HandleHeld /\ CapsRead /\ StartedIsOpen)'
  BY <1>1 DEF BusInv, TypeOK, HandleHeld, CapsRead, StartedIsOpen, IsOpen
<1>4. ExclusiveHandle'
  BY DEF BusInv, ExclusiveHandle, IsOpen
<1>5. \A x \in Buses : x # b => /\ agreed'[x] = agreed[x] /\ started'[x] = started[x]
                                /\ mode'[x] = mode[x] /\ timing'[x] = timing[x]
  BY DEF BusInv, TypeOK
<1>6. \A x \in Buses : x # b /\ alive[x] => dev'[handle[x]] = dev[handle[x]]
  <2> SUFFICES ASSUME NEW x \in Buses, x # b, alive[x]
               PROVE  dev'[handle[x]] = dev[handle[x]]
    OBVIOUS
  <2>1. handle[x] # h /\ handle[x] \in Adapters
    BY LiveHandles, LiveHandleClaimed
  <2> QED
    BY <2>1 DEF BusInv, TypeOK
<1>7. /\ agreed'[b] = g /\ started'[b] = s /\ mode'[b] = m /\ timing'[b] = t
      /\ dev'[h] = d
  BY <1>1 DEF BusInv, TypeOK
<1>8. ModeAgreement'
  <2> SUFFICES ASSUME NEW x \in Buses, agreed'[x] # None, alive'[x]
               PROVE  started'[x] /\ Agree(agreed'[x], dev'[handle'[x]], mode'[x], timing'[x])
    BY DEF ModeAgreement, Agree
  <2>1. CASE x = b
    BY <2>1, <1>7
  <2>2. CASE x # b
    BY <2>2, <1>5, <1>6 DEF BusInv, ModeAgreement
  <2> QED
    BY <2>1, <2>2
<1>9. WithinCapabilities'
  <2> SUFFICES ASSUME NEW x \in Buses, opened'[x], agreed'[x] # None, alive'[x]
               PROVE  Within(agreed'[x], dev'[handle'[x]], handle'[x])
    BY DEF WithinCapabilities, Within
  <2>1. CASE x = b
    BY <2>1, <1>7
  <2>2. CASE x # b
    BY <2>2, <1>5, <1>6 DEF BusInv, WithinCapabilities
  <2> QED
    BY <2>1, <2>2
<1>10. ChannelOwned'
  <2> SUFFICES ASSUME NEW a \in Adapters, dev'[a].run, a \notin unsettled'
               PROVE  claim'[a] # None /\ started'[claim'[a]]
    BY DEF ChannelOwned
  <2>1. CASE a = h
    BY <2>1, <1>1, <1>7, BusAssumption
  <2>2. CASE a # h
    <3>1. dev[a].run /\ a \notin unsettled
      BY <2>2, <1>1 DEF BusInv, TypeOK
    <3>2. claim[a] # None /\ started[claim[a]] /\ claim[a] \in Buses
      BY <3>1 DEF BusInv, ChannelOwned, TypeOK
    <3>3. claim[a] # b
      BY <2>2, <3>2 DEF BusInv, ExclusiveHandle
    <3> QED
      BY <3>2, <3>3, <1>5
  <2> QED
    BY <2>1, <2>2
<1> QED
  BY <1>2, <1>3, <1>4, <1>8, <1>9, <1>10 DEF BusInv

\* What configure() computes is well typed, and the MODE flags of a
\* configuration that is not refused stay within the cached capabilities.
LEMMA ConfigureValues ==
    ASSUME BusInv, NEW b \in Buses, NEW c \in Configs, alive[b]
    PROVE  /\ c \in Config /\ c.bitrate \in Rates /\ c.data_bitrate \in Rates
           /\ dev[handle[b]] \in Channel /\ DataAfter(b, c) \in Rates \cup {None}
           /\ ModeFlags(b, c) \in SUBSET Features
           /\ HwTimestamp(b, c) \in BOOLEAN
<1>1. c \in Config /\ c.fd \in BOOLEAN /\ c.hw_timestamp \in BOOLEAN
      /\ c.modes \in SUBSET Optional
  BY BusAssumption DEF Config
<1>2. c.bitrate \in Rates /\ c.data_bitrate \in Rates
  BY DEF Rates
<1>3. dev[handle[b]] \in Channel
  BY LiveHandleClaimed DEF BusInv, TypeOK
<1>4. DataAfter(b, c) \in Rates \cup {None}
  BY <1>2, <1>3 DEF DataAfter, Channel
<1>5. HwTimestamp(b, c) \in BOOLEAN
  BY <1>1 DEF HwTimestamp
<1>6. ModeFlags(b, c) \in SUBSET Features
  BY <1>1 DEF ModeFlags, Features
<1> QED
  BY <1>1, <1>2, <1>3, <1>4, <1>5, <1>6

\* A configure() that throws on a live handle after some of its requests: the
\* agreement is given up, started keeps its value, and the channel only runs
\* if it ran before or if the MODE request is the one that failed.
LEMMA ConfigureAbandoned ==
    ASSUME BusInv, NEW b \in Buses, alive[b],
           NEW d \in Channel, NEW m \in Mode, NEW t \in Timing,
           NEW u \in SUBSET Adapters,
           dev' = [dev EXCEPT ![handle[b]] = d],
           mode' = [mode EXCEPT ![b] = m],
           timing' = [timing EXCEPT ![b] = t],
           agreed' = [agreed EXCEPT ![b] = None],
           unsettled' = u, unsettled \subseteq u,
           Throws(b),
           UNCHANGED <<usb, caps, info, started, selector, plugged, opened>>,
           d.run => dev[handle[b]].run \/ handle[b] \in u
    PROVE  BusInv'
<1>1. started' = [started EXCEPT ![b] = started[b]] /\ started[b] \in BOOLEAN
  BY DEF BusInv, TypeOK
<1>2. result' \in [Buses -> {"returned", "threw"}]
  BY DEF Throws, BusInv, TypeOK
<1>3. handle[b] \in Adapters /\ claim[handle[b]] = b
  BY LiveHandleClaimed
<1>4. d.run => started[b] \/ handle[b] \in u
  BY <1>3 DEF BusInv, ChannelOwned
<1> QED
  BY <1>1, <1>2, <1>4, ConfigureStep

\* The nominal request failed, on a live or on a dead handle.
LEMMA ConfigureNominalFailsInv ==
    ASSUME BusInv, NEW b \in Buses, NEW c \in Configs, NEW outcome \in Outcome,
           ConfigureNominalFails(b, c, outcome)
    PROVE  BusInv'
<1> DEFINE t == [timing[b] EXCEPT !.nominal = c.bitrate]
           d == [dev[handle[b]] EXCEPT !.nominal = c.bitrate]
<1>a. c.bitrate \in Rates
  BY DEF Rates
<1>b. timing[b] \in Timing
  BY DEF BusInv, TypeOK
<1>1. t \in Timing /\ timing' = [timing EXCEPT ![b] = t]
  BY <1>a, <1>b DEF ConfigureNominalFails, BusInv, TypeOK, Timing
<1>2. CASE outcome = "late"
  <2>1. alive[b]
    BY <1>2 DEF ConfigureNominalFails, Possible
  <2>2. handle[b] \in Adapters /\ dev[handle[b]] \in Channel
    BY <2>1, LiveHandleClaimed, ConfigureValues
  <2>3. d \in Channel /\ d.run = dev[handle[b]].run
    BY <2>2, <1>a DEF Channel
  <2>4. dev' = [dev EXCEPT ![handle[b]] = d]
    BY <1>2, <2>2 DEF ConfigureNominalFails, WithTiming, BusInv, TypeOK, Channel
  <2>5. mode' = [mode EXCEPT ![b] = mode[b]] /\ mode[b] \in Mode /\ unsettled \in SUBSET Adapters
    BY DEF ConfigureNominalFails, BusInv, TypeOK
  <2> HIDE DEF t, d
  <2> QED
    BY <1>1, <2>1, <2>3, <2>4, <2>5, ConfigureAbandoned DEF ConfigureNominalFails
<1>3. CASE outcome # "late"
  <2>1. dev' = dev /\ agreed' = [agreed EXCEPT ![b] = None]
    BY <1>3 DEF ConfigureNominalFails
  <2>2. TypeOK'
    BY <1>1, <2>1 DEF ConfigureNominalFails, Throws, BusInv, TypeOK
  <2>3. (HandleHeld /\ CapsRead /\ StartedIsOpen /\ ExclusiveHandle)'
    BY <2>1 DEF ConfigureNominalFails, BusInv, TypeOK, HandleHeld, CapsRead, StartedIsOpen,
                ExclusiveHandle, IsOpen
  <2>4. \A x \in Buses : agreed'[x] # None => x # b /\ agreed'[x] = agreed[x]
                                             /\ timing'[x] = timing[x]
    BY <2>1, <1>1 DEF BusInv, TypeOK
  <2>5. ModeAgreement'
    BY <2>1, <2>4 DEF ConfigureNominalFails, BusInv, ModeAgreement
  <2>6. WithinCapabilities'
    BY <2>1, <2>4 DEF ConfigureNominalFails, BusInv, WithinCapabilities
  <2>7. ChannelOwned'
    BY <2>1 DEF ConfigureNominalFails, BusInv, ChannelOwned
  <2> QED
    BY <2>2, <2>3, <2>5, <2>6, <2>7 DEF BusInv
<1> QED
  BY <1>2, <1>3

\* No data timing exists, or the data request failed.
LEMMA ConfigureDataFailsInv ==
    ASSUME BusInv, NEW b \in Buses, NEW c \in Configs,
           \/ ConfigureDataRefused(b, c)
           \/ \E outcome \in Outcome : ConfigureDataFails(b, c, outcome)
    PROVE  BusInv'
<1>1. alive[b] /\ handle[b] \in Adapters
  BY LiveHandleClaimed DEF ConfigureDataRefused, ConfigureDataFails
<1>2. c.bitrate \in Rates /\ c.data_bitrate \in Rates /\ dev[handle[b]] \in Channel
  BY <1>1, ConfigureValues
<1>3. timing[b] \in Timing
  BY DEF BusInv, TypeOK
<1>4. PICK n \in Rates \cup {None}, r \in Rates \cup {None} :
        /\ dev' = WithTiming(b, c.bitrate, n)
        /\ timing' = [timing EXCEPT ![b] = [nominal |-> c.bitrate, data |-> r]]
  <2>1. CASE ConfigureDataRefused(b, c)
    <3>1. dev[handle[b]].data \in Rates \cup {None} /\ timing[b].data \in Rates \cup {None}
      BY <1>2, <1>3 DEF Timing, Channel
    <3>2. timing' = [timing EXCEPT ![b] = [nominal |-> c.bitrate, data |-> timing[b].data]]
      <4>1. timing' = [timing EXCEPT ![b] = [timing[b] EXCEPT !.nominal = c.bitrate]]
        BY <2>1 DEF ConfigureDataRefused, BusInv, TypeOK
      <4>2. [timing[b] EXCEPT !.nominal = c.bitrate]
              = [nominal |-> c.bitrate, data |-> timing[b].data]
        BY <1>3 DEF Timing
      <4> QED
        BY <4>1, <4>2
    <3>3. dev' = WithTiming(b, c.bitrate, dev[handle[b]].data)
      BY <2>1 DEF ConfigureDataRefused
    <3> QED
      BY <3>1, <3>2, <3>3
  <2>2. CASE \E outcome \in Outcome : ConfigureDataFails(b, c, outcome)
    BY <2>2, <1>2 DEF ConfigureDataFails, Channel
  <2> QED
    BY <2>1, <2>2
<1> DEFINE t == [nominal |-> c.bitrate, data |-> r]
           d == [dev[handle[b]] EXCEPT !.nominal = c.bitrate, !.data = n]
<1>5. t \in Timing /\ d \in Channel /\ d.run = dev[handle[b]].run
  BY <1>2 DEF Timing, Channel
<1>6. dev' = [dev EXCEPT ![handle[b]] = d]
  BY <1>1, <1>2, <1>4 DEF WithTiming, BusInv, TypeOK, Channel
<1>7. mode' = [mode EXCEPT ![b] = mode[b]] /\ mode[b] \in Mode /\ unsettled \in SUBSET Adapters
  BY DEF ConfigureDataRefused, ConfigureDataFails, BusInv, TypeOK
<1>8. /\ agreed' = [agreed EXCEPT ![b] = None] /\ Throws(b) /\ unsettled' = unsettled
      /\ UNCHANGED <<usb, caps, info, started, selector, plugged, opened>>
  BY DEF ConfigureDataRefused, ConfigureDataFails
<1>9. timing' = [timing EXCEPT ![b] = t]
  BY <1>4
<1> HIDE DEF t, d
<1> QED
  BY <1>1, <1>5, <1>6, <1>7, <1>8, <1>9, ConfigureAbandoned

\* What HostModeStored leaves behind, and what the MODE request then does.
LEMMA HostModeValues ==
    ASSUME BusInv, NEW b \in Buses, NEW c \in Configs, HostModeStored(b, c)
    PROVE  /\ alive[b] /\ handle[b] \in Adapters
           /\ \E m \in Mode, t \in Timing :
                 /\ mode' = [mode EXCEPT ![b] = m] /\ timing' = [timing EXCEPT ![b] = t]
                 /\ m = [fd |-> c.fd, hw |-> HwTimestamp(b, c)]
                 /\ t = [nominal |-> c.bitrate,
                         data |-> IF c.fd THEN c.data_bitrate ELSE timing[b].data]
<1>1. alive[b] /\ handle[b] \in Adapters
  BY LiveHandleClaimed DEF HostModeStored
<1>2. c.bitrate \in Rates /\ c.data_bitrate \in Rates /\ c.fd \in BOOLEAN
      /\ HwTimestamp(b, c) \in BOOLEAN
  BY <1>1, ConfigureValues DEF Config
<1>3. timing[b] \in Timing
  BY DEF BusInv, TypeOK
<1> DEFINE m == [fd |-> c.fd, hw |-> HwTimestamp(b, c)]
           t == [nominal |-> c.bitrate,
                 data |-> IF c.fd THEN c.data_bitrate ELSE timing[b].data]
<1>4. m \in Mode /\ t \in Timing
  BY <1>2, <1>3 DEF Mode, Timing
<1>5. mode' = [mode EXCEPT ![b] = m]
  BY DEF HostModeStored
<1>6. timing' = [timing EXCEPT ![b] = t]
  BY DEF HostModeStored
<1> QED
  BY <1>1, <1>4, <1>5, <1>6

\* An optional mode was refused after the host flags had changed.
LEMMA ConfigureModeRefusedInv ==
    ASSUME BusInv, NEW b \in Buses, NEW c \in Configs, ConfigureModeRefused(b, c)
    PROVE  BusInv'
<1>1. alive[b] /\ handle[b] \in Adapters /\ HostModeStored(b, c)
  BY HostModeValues DEF ConfigureModeRefused
<1>2. PICK m \in Mode, t \in Timing :
        mode' = [mode EXCEPT ![b] = m] /\ timing' = [timing EXCEPT ![b] = t]
  BY <1>1, HostModeValues
<1> DEFINE d == [dev[handle[b]] EXCEPT !.nominal = c.bitrate, !.data = DataAfter(b, c)]
<1>3. d \in Channel /\ d.run = dev[handle[b]].run
  BY <1>1, ConfigureValues DEF Channel
<1>4. dev' = [dev EXCEPT ![handle[b]] = d]
  BY <1>1, ConfigureValues DEF ConfigureModeRefused, WithTiming, BusInv, TypeOK, Channel
<1>5. /\ agreed' = [agreed EXCEPT ![b] = None] /\ Throws(b) /\ unsettled' = unsettled
      /\ UNCHANGED <<usb, caps, info, started, selector, plugged, opened>>
      /\ unsettled \in SUBSET Adapters
  BY DEF ConfigureModeRefused, BusInv, TypeOK
<1> HIDE DEF d
<1> QED
  BY <1>1, <1>2, <1>3, <1>4, <1>5, ConfigureAbandoned

\* The MODE request failed, executed or not.
LEMMA ConfigureModeFailsInv ==
    ASSUME BusInv, NEW b \in Buses, NEW c \in Configs, NEW outcome \in Outcome,
           ConfigureModeFails(b, c, outcome)
    PROVE  BusInv'
<1>1. alive[b] /\ handle[b] \in Adapters /\ HostModeStored(b, c)
  BY HostModeValues DEF ConfigureModeFails
<1>2. PICK m \in Mode, t \in Timing :
        mode' = [mode EXCEPT ![b] = m] /\ timing' = [timing EXCEPT ![b] = t]
  BY <1>1, HostModeValues
<1> DEFINE d == IF outcome = "late"
                THEN [run |-> TRUE, flags |-> ModeFlags(b, c),
                      nominal |-> c.bitrate, data |-> DataAfter(b, c)]
                ELSE [dev[handle[b]] EXCEPT !.nominal = c.bitrate, !.data = DataAfter(b, c)]
           u == unsettled \cup {handle[b]}
<1>3. d \in Channel
  BY <1>1, ConfigureValues DEF Channel
<1>4. dev' = [dev EXCEPT ![handle[b]] = d]
  <2>1. CASE outcome = "late"
    BY <2>1 DEF ConfigureModeFails, Running
  <2>2. CASE outcome # "late"
    BY <2>2, <1>1, ConfigureValues
       DEF ConfigureModeFails, WithTiming, BusInv, TypeOK, Channel
  <2> QED
    BY <2>1, <2>2
<1>5. /\ agreed' = [agreed EXCEPT ![b] = None] /\ Throws(b)
      /\ UNCHANGED <<usb, caps, info, started, selector, plugged, opened>>
      /\ unsettled' = u /\ unsettled \subseteq u /\ handle[b] \in u
      /\ u \in SUBSET Adapters
  BY <1>1 DEF ConfigureModeFails, BusInv, TypeOK
<1> HIDE DEF d, u
<1> QED
  BY <1>1, <1>2, <1>3, <1>4, <1>5, ConfigureAbandoned

\* The accepted configuration agrees with the adapter and stays within what it
\* advertises.
LEMMA ConfigureDoneInv ==
    ASSUME BusInv, NEW b \in Buses, NEW c \in Configs, ConfigureDone(b, c)
    PROVE  BusInv'
<1>1. alive[b] /\ handle[b] \in Adapters /\ HostModeStored(b, c)
  BY HostModeValues DEF ConfigureDone
<1>2. PICK m \in Mode, t \in Timing :
        /\ mode' = [mode EXCEPT ![b] = m] /\ timing' = [timing EXCEPT ![b] = t]
        /\ m = [fd |-> c.fd, hw |-> HwTimestamp(b, c)]
        /\ t = [nominal |-> c.bitrate,
                data |-> IF c.fd THEN c.data_bitrate ELSE timing[b].data]
  BY <1>1, HostModeValues
<1> DEFINE d == [run |-> TRUE, flags |-> ModeFlags(b, c),
                 nominal |-> c.bitrate, data |-> DataAfter(b, c)]
           u == unsettled \ {handle[b]}
<1>3. d \in Channel
  BY <1>1, ConfigureValues DEF Channel
<1>4. dev' = [dev EXCEPT ![handle[b]] = d]
  BY DEF ConfigureDone, Running
<1>5. Agree(c, d, m, t)
  <2>1. c.modes \in SUBSET Optional /\ c.fd \in BOOLEAN
    BY <1>1, ConfigureValues DEF Config
  <2>2. "fd" \notin Optional /\ "hw_timestamp" \notin Optional
    BY DEF Optional
  <2>3. /\ "fd" \in ModeFlags(b, c) <=> c.fd
        /\ "hw_timestamp" \in ModeFlags(b, c) <=> HwTimestamp(b, c)
        /\ ModeFlags(b, c) \cap Optional = c.modes
    BY <2>1, <2>2 DEF ModeFlags
  <2> QED
    BY <1>2, <2>1, <2>3 DEF Agree, DataAfter
<1>6. ASSUME opened[b] PROVE Within(c, d, handle[b])
  <2>1. caps[b].from = handle[b] /\ handle[b] # None
    BY <1>1, <1>6, BusAssumption DEF BusInv, HandleHeld
  <2>2. ~FdRefused(b, c) /\ ~NominalRefused(b, c) /\ ~DataRefused(b, c) /\ ~ModesRefused(b, c)
    BY DEF ConfigureDone, HostModeStored, Reaches
  <2>3. c.modes \subseteq Feature[handle[b]] /\ c.bitrate \in NominalRates[handle[b]]
    BY <2>1, <2>2 DEF ModesRefused, NominalRefused, CapFeatures, CapNominal
  <2>4. c.fd => /\ "fd" \in Feature[handle[b]] /\ caps[b].ext
                /\ c.data_bitrate \in DataRates[handle[b]]
    BY <2>1, <2>2 DEF FdRefused, DataRefused, CapFeatures, CapData
  <2>5. HwTimestamp(b, c) => "hw_timestamp" \in Feature[handle[b]]
    BY <2>1 DEF HwTimestamp, CapFeatures
  <2>6. caps[b].ext => handle[b] \in ReportsExt
    BY <2>1 DEF BusInv, CapsRead
  <2> QED
    BY <2>3, <2>4, <2>5, <2>6 DEF Within, ModeFlags
<1>7. /\ started' = [started EXCEPT ![b] = TRUE] /\ agreed' = [agreed EXCEPT ![b] = c]
      /\ unsettled' = u /\ u \in SUBSET Adapters /\ unsettled \ {handle[b]} \subseteq u
      /\ result' \in [Buses -> {"returned", "threw"}]
      /\ UNCHANGED <<usb, caps, info, selector, plugged, opened>>
  BY DEF ConfigureDone, Returns, BusInv, TypeOK
<1> HIDE DEF d, u
<1> QED
  BY <1>1, <1>2, <1>3, <1>4, <1>5, <1>6, <1>7, ConfigureStep

-----------------------------------------------------------------------------
\* Calls that only change the selector and their result keep BusInv.
LEMMA NoEffectInv ==
    ASSUME BusInv,
           selector' \in [Buses -> SUBSET Adapters],
           result' \in [Buses -> {"returned", "threw"}],
           UNCHANGED <<usb, host, plugged, dev, opened, agreed, unsettled>>
    PROVE  BusInv'
<1>1. TypeOK'
  BY DEF BusInv, TypeOK
<1>2. (HandleHeld /\ CapsRead /\ StartedIsOpen /\ ExclusiveHandle)'
  BY DEF BusInv, HandleHeld, CapsRead, StartedIsOpen, ExclusiveHandle, IsOpen
<1>3. (ModeAgreement /\ WithinCapabilities /\ ChannelOwned)'
  BY DEF BusInv, ModeAgreement, WithinCapabilities, ChannelOwned
<1> QED
  BY <1>1, <1>2, <1>3 DEF BusInv

\* A bus that is not open has no agreement, was not started and claims nothing.
LEMMA NotOpen ==
    ASSUME BusInv, NEW b \in Buses, ~IsOpen(b)
    PROVE  /\ ~started[b] /\ agreed[b] = None /\ ~alive[b] /\ ~opened[b]
           /\ \A a \in Adapters : claim[a] # b
  BY DEF BusInv, HandleHeld, StartedIsOpen, ExclusiveHandle

\* open() that found nothing to open.
LEMMA OpenFailsInv ==
    ASSUME BusInv, NEW b \in Buses, NEW sel \in SUBSET Adapters, OpenFails(b, sel)
    PROVE  BusInv'
<1>1. ~IsOpen(b) /\ ~IsOpen(b)' /\ \A x \in Buses : x # b => (IsOpen(x)' <=> IsOpen(x))
  BY DEF OpenFails, BusInv, TypeOK, IsOpen
<1>2. TypeOK'
  BY DEF OpenFails, Throws, BusInv, TypeOK
<1>3. (HandleHeld /\ CapsRead /\ StartedIsOpen /\ ExclusiveHandle)'
  BY <1>1 DEF OpenFails, BusInv, TypeOK, HandleHeld, CapsRead, StartedIsOpen, ExclusiveHandle
<1>4. (ModeAgreement /\ ChannelOwned)'
  BY DEF OpenFails, BusInv, ModeAgreement, ChannelOwned
<1>5. WithinCapabilities'
  BY DEF OpenFails, BusInv, TypeOK, WithinCapabilities
<1> QED
  BY <1>2, <1>3, <1>4, <1>5 DEF BusInv

\* An open() that claims adapter a, complete or not: k and o are the cached
\* capabilities and the history of success that it leaves behind.
LEMMA ClaimInv ==
    ASSUME BusInv, NEW b \in Buses, NEW a \in plugged, Claim(b, a),
           NEW k \in [from : Adapters \cup {None}, ext : BOOLEAN], NEW o \in BOOLEAN,
           caps' = [caps EXCEPT ![b] = k], opened' = [opened EXCEPT ![b] = o],
           k.ext => k.from \in ReportsExt, o => k.from = a,
           info' \in [Buses -> Adapters \cup {None}],
           selector' \in [Buses -> SUBSET Adapters],
           result' \in [Buses -> {"returned", "threw"}],
           UNCHANGED <<mode, timing, started, plugged, dev, agreed, unsettled>>
    PROVE  BusInv'
<1>1. a \in Adapters /\ a # None /\ b # None
  BY BusAssumption DEF BusInv, TypeOK
<1>2. ~started[b] /\ agreed[b] = None /\ \A y \in Adapters : claim[y] # b
  BY NotOpen DEF Claim
<1>3. TypeOK'
  BY <1>1 DEF Claim, BusInv, TypeOK
<1>4. \A x \in Buses : x # b => /\ handle'[x] = handle[x] /\ alive'[x] = alive[x]
                                /\ caps'[x] = caps[x] /\ opened'[x] = opened[x]
                                /\ (IsOpen(x)' <=> IsOpen(x))
  BY <1>1 DEF Claim, BusInv, TypeOK, IsOpen
<1>5. IsOpen(b)' /\ handle'[b] = a /\ alive'[b] /\ caps'[b] = k /\ opened'[b] = o
  BY <1>1 DEF Claim, BusInv, TypeOK, IsOpen
<1>6. claim[a] = None /\ claim'[a] = b /\ \A y \in Adapters : y # a => claim'[y] = claim[y]
  BY <1>1 DEF Claim, BusInv, TypeOK
<1>7. HandleHeld' /\ CapsRead'
  BY <1>1, <1>2, <1>4, <1>5 DEF BusInv, HandleHeld, CapsRead
<1>8. StartedIsOpen'
  BY <1>1, <1>2, <1>4 DEF BusInv, StartedIsOpen
<1>9. ExclusiveHandle'
  <2>1. ASSUME NEW x \in Buses, NEW y \in Adapters
        PROVE  (claim'[y] = x) <=> (IsOpen(x)' /\ handle'[x] = y /\ alive'[x])
    <3>1. CASE x = b
      BY <3>1, <1>2, <1>5, <1>6
    <3>2. CASE x # b /\ y = a
      BY <3>2, <1>4, <1>6, BusAssumption DEF BusInv, ExclusiveHandle
    <3>3. CASE x # b /\ y # a
      BY <3>3, <1>4, <1>6 DEF BusInv, ExclusiveHandle
    <3> QED
      BY <3>1, <3>2, <3>3
  <2>2. \A y \in Adapters : claim'[y] # None => y \in plugged'
    BY <1>6 DEF BusInv, ExclusiveHandle
  <2> QED
    BY <2>1, <2>2 DEF ExclusiveHandle
<1>10. \A x \in Buses : agreed'[x] # None => x # b
  BY <1>2
<1>11. ModeAgreement'
  BY <1>4, <1>10 DEF BusInv, ModeAgreement
<1>12. WithinCapabilities'
  BY <1>4, <1>10 DEF BusInv, WithinCapabilities
<1>13. ChannelOwned'
  BY <1>6 DEF BusInv, ChannelOwned
<1> QED
  BY <1>3, <1>7, <1>8, <1>9, <1>11, <1>12, <1>13 DEF BusInv

\* Every way in which open() or open(info) ends.
LEMMA OpenInv ==
    ASSUME BusInv, NEW b \in Buses, NEW sel \in SUBSET Adapters, OpenWith(b, sel)
    PROVE  BusInv'
<1>1. CASE OpenNoop(b, sel)
  BY <1>1, NoEffectInv DEF OpenNoop, Returns, BusInv, TypeOK
<1>2. CASE OpenFails(b, sel)
  BY <1>2, OpenFailsInv
<1>3. ASSUME NEW a \in Adapters, OpenHalf(b, a, sel)
      PROVE  BusInv'
  <2>1. /\ caps' = [caps EXCEPT ![b] = caps[b]] /\ opened' = [opened EXCEPT ![b] = FALSE]
        /\ caps[b] \in [from : Adapters \cup {None}, ext : BOOLEAN]
        /\ info' \in [Buses -> Adapters \cup {None}]
        /\ selector' \in [Buses -> SUBSET Adapters]
        /\ result' \in [Buses -> {"returned", "threw"}]
    BY <1>3 DEF OpenHalf, Throws, BusInv, TypeOK
  <2>2. a \in plugged /\ Claim(b, a)
        /\ UNCHANGED <<mode, timing, started, plugged, dev, agreed, unsettled>>
    BY <1>3 DEF OpenHalf
  <2>3. caps[b].ext => caps[b].from \in ReportsExt
    BY DEF BusInv, CapsRead
  <2> QED
    BY <2>1, <2>2, <2>3, ClaimInv
<1>4. ASSUME NEW a \in Adapters, NEW ext \in BOOLEAN, NEW gotInfo \in BOOLEAN,
             OpenDone(b, a, ext, gotInfo, sel)
      PROVE  BusInv'
  <2> DEFINE k == [from |-> a, ext |-> ext]
  <2>1. /\ caps' = [caps EXCEPT ![b] = k] /\ opened' = [opened EXCEPT ![b] = TRUE]
        /\ k \in [from : Adapters \cup {None}, ext : BOOLEAN]
        /\ k.ext => k.from \in ReportsExt
        /\ k.from = a
    BY <1>4 DEF OpenDone
  <2>2. /\ info' \in [Buses -> Adapters \cup {None}]
        /\ selector' \in [Buses -> SUBSET Adapters]
        /\ result' \in [Buses -> {"returned", "threw"}]
    BY <1>4 DEF OpenDone, Returns, BusInv, TypeOK
  <2>3. a \in plugged /\ Claim(b, a)
        /\ UNCHANGED <<mode, timing, started, plugged, dev, agreed, unsettled>>
    BY <1>4 DEF OpenDone
  <2> HIDE DEF k
  <2> QED
    BY <2>1, <2>2, <2>3, ClaimInv
<1> QED
  BY <1>1, <1>2, <1>3, <1>4 DEF OpenWith

-----------------------------------------------------------------------------
\* close() that releases the transport: the channel of the claimed adapter is
\* reset or its failed reset is on record, all other channels are left alone.
LEMMA ReleaseInv ==
    ASSUME BusInv, NEW b \in Buses, Release(b), NEW u \in SUBSET Adapters,
           dev' \in [Adapters -> Channel],
           started' \in [Buses -> BOOLEAN], ~started'[b],
           \A x \in Buses : x # b => started'[x] = started[x],
           \A a \in Adapters : claim[a] # b =>
               dev'[a] = dev[a] /\ (a \in unsettled => a \in u),
           \A a \in Adapters : claim[a] = b /\ dev'[a].run => a \in u,
           unsettled' = u,
           UNCHANGED <<caps, info, mode, timing, selector, plugged>>
    PROVE  BusInv'
<1>1. TypeOK'
  BY DEF Release, Returns, BusInv, TypeOK
<1>2. \A x \in Buses : x # b => /\ handle'[x] = handle[x] /\ alive'[x] = alive[x]
                                /\ agreed'[x] = agreed[x] /\ opened'[x] = opened[x]
                                /\ (IsOpen(x)' <=> IsOpen(x))
  BY DEF Release, BusInv, TypeOK, IsOpen
<1>3. ~IsOpen(b)' /\ handle'[b] = None /\ ~alive'[b] /\ ~opened'[b] /\ agreed'[b] = None
  BY DEF Release, BusInv, TypeOK, IsOpen
<1>4. \A a \in Adapters : claim'[a] = IF claim[a] = b THEN None ELSE claim[a]
  BY DEF Release
<1>5. HandleHeld' /\ CapsRead'
  BY <1>2, <1>3 DEF BusInv, HandleHeld, CapsRead
<1>6. StartedIsOpen'
  BY <1>2, <1>3 DEF BusInv, StartedIsOpen
<1>7. ExclusiveHandle'
  <2>1. ASSUME NEW x \in Buses, NEW y \in Adapters
        PROVE  (claim'[y] = x) <=> (IsOpen(x)' /\ handle'[x] = y /\ alive'[x])
    <3>1. CASE x = b
      BY <3>1, <1>3, <1>4, BusAssumption
    <3>2. CASE x # b
      BY <3>2, <1>2, <1>4, BusAssumption DEF BusInv, ExclusiveHandle
    <3> QED
      BY <3>1, <3>2
  <2>2. \A y \in Adapters : claim'[y] # None => y \in plugged'
    BY <1>4 DEF BusInv, ExclusiveHandle
  <2> QED
    BY <2>1, <2>2 DEF ExclusiveHandle
<1>8. ASSUME NEW x \in Buses, alive'[x]
      PROVE  x # b /\ alive[x] /\ dev'[handle[x]] = dev[handle[x]]
  <2>1. x # b /\ alive[x]
    BY <1>2, <1>3, <1>8
  <2>2. handle[x] \in Adapters /\ claim[handle[x]] = x
    BY <2>1, LiveHandleClaimed
  <2> QED
    BY <2>1, <2>2
<1>9. ModeAgreement' /\ WithinCapabilities'
  BY <1>2, <1>8 DEF BusInv, ModeAgreement, WithinCapabilities
<1>10. ChannelOwned'
  <2> SUFFICES ASSUME NEW a \in Adapters, dev'[a].run, a \notin u
               PROVE  claim'[a] # None /\ started'[claim'[a]]
    BY DEF ChannelOwned
  <2>1. claim[a] # b /\ dev[a].run /\ a \notin unsettled
    OBVIOUS
  <2>2. claim[a] # None /\ started[claim[a]] /\ claim[a] \in Buses
    BY <2>1 DEF BusInv, ChannelOwned, TypeOK
  <2> QED
    BY <2>1, <2>2, <1>4
<1> QED
  BY <1>1, <1>5, <1>6, <1>7, <1>9, <1>10 DEF BusInv

\* Every way in which close() ends.
LEMMA CloseInv ==
    ASSUME BusInv, NEW b \in Buses, Close(b)
    PROVE  BusInv'
<1>1. CASE CloseNoop(b)
  BY <1>1, NoEffectInv DEF CloseNoop, Returns, BusInv, TypeOK
<1>2. CASE CloseIdle(b)
  <2>1. ~started[b] /\ started' = started /\ dev' = dev /\ unsettled' = unsettled
    BY <1>2 DEF CloseIdle, BusInv, StartedIsOpen
  <2>2. \A a \in Adapters : claim[a] = b /\ dev[a].run => a \in unsettled
    BY <2>1 DEF BusInv, ChannelOwned
  <2>3. /\ dev \in [Adapters -> Channel] /\ started \in [Buses -> BOOLEAN]
        /\ unsettled \in SUBSET Adapters
    BY DEF BusInv, TypeOK
  <2>4. Release(b) /\ UNCHANGED <<caps, info, mode, timing, selector, plugged>>
    BY <1>2 DEF CloseIdle
  <2> QED
    BY <2>1, <2>2, <2>3, <2>4, ReleaseInv
<1>3. ASSUME NEW outcome \in Outcome, CloseStarted(b, outcome)
      PROVE  BusInv'
  <2>1. Release(b) /\ UNCHANGED <<caps, info, mode, timing, selector, plugged>>
    BY <1>3 DEF CloseStarted
  <2>2. /\ started' \in [Buses -> BOOLEAN] /\ ~started'[b]
        /\ \A x \in Buses : x # b => started'[x] = started[x]
    BY <1>3 DEF CloseStarted, BusInv, TypeOK
  <2>3. CASE ~alive[b]
    <3>1. dev' = dev /\ unsettled' = unsettled
      BY <1>3, <2>3 DEF CloseStarted, Possible
    <3>2. \A a \in Adapters : claim[a] # b
      BY <2>3 DEF BusInv, ExclusiveHandle
    <3>3. dev \in [Adapters -> Channel] /\ unsettled \in SUBSET Adapters
      BY DEF BusInv, TypeOK
    <3> QED
      BY <2>1, <2>2, <3>1, <3>2, <3>3, ReleaseInv
  <2>4. CASE alive[b]
    <3> DEFINE h == handle[b]
               u == IF outcome = "done" THEN unsettled \ {h} ELSE unsettled \cup {h}
    <3>1. h \in Adapters /\ \A a \in Adapters : (claim[a] = b) <=> (a = h)
      BY <2>4, LiveHandleClaimed DEF BusInv, ExclusiveHandle
    <3>2. dev \in [Adapters -> Channel] /\ unsettled \in SUBSET Adapters /\ dev[h] \in Channel
      BY <3>1 DEF BusInv, TypeOK
    <3>3. u \in SUBSET Adapters /\ unsettled' = u
      BY <1>3, <2>4, <3>1, <3>2 DEF CloseStarted
    <3>4. /\ dev' \in [Adapters -> Channel]
          /\ \A a \in Adapters : a # h => dev'[a] = dev[a]
          /\ outcome # "lost" => ~dev'[h].run
      BY <1>3, <3>1, <3>2 DEF CloseStarted, Channel
    <3>5. \A a \in Adapters : claim[a] # b => dev'[a] = dev[a] /\ (a \in unsettled => a \in u)
      BY <3>1, <3>4
    <3>6. \A a \in Adapters : claim[a] = b /\ dev'[a].run => a \in u
      BY <3>1, <3>4
    <3> HIDE DEF u
    <3> QED
      BY <2>1, <2>2, <3>3, <3>4, <3>5, <3>6, ReleaseInv
  <2> QED
    BY <2>3, <2>4
<1> QED
  BY <1>1, <1>2, <1>3 DEF Close

\* Unplugging kills the handles on the adapter and frees its claim.
LEMMA UnplugInv ==
    ASSUME BusInv, NEW a \in Adapters, Unplug(a)
    PROVE  BusInv'
<1>1. \A x \in Buses : alive'[x] <=> alive[x] /\ handle[x] # a
  BY DEF Unplug
<1>2. /\ claim'[a] = None /\ dev'[a] = Idle /\ a \notin unsettled'
      /\ \A y \in Adapters : y # a => /\ claim'[y] = claim[y] /\ dev'[y] = dev[y]
                                      /\ (y \in unsettled' <=> y \in unsettled)
  BY DEF Unplug, BusInv, TypeOK
<1>3. Idle \in Channel /\ ~Idle.run
  BY DEF Idle, Channel
<1>4. TypeOK'
  BY <1>3 DEF Unplug, BusInv, TypeOK
<1>5. (HandleHeld /\ CapsRead /\ StartedIsOpen)'
  BY <1>1 DEF Unplug, BusInv, HandleHeld, CapsRead, StartedIsOpen, IsOpen
<1>6. ExclusiveHandle'
  <2>1. ASSUME NEW x \in Buses, NEW y \in Adapters
        PROVE  (claim'[y] = x) <=> (IsOpen(x)' /\ handle'[x] = y /\ alive'[x])
    <3>1. handle' = handle /\ (IsOpen(x)' <=> IsOpen(x))
      BY DEF Unplug, IsOpen
    <3>2. (claim[y] = x) <=> (IsOpen(x) /\ handle[x] = y /\ alive[x])
      BY DEF BusInv, ExclusiveHandle
    <3>3. alive'[x] <=> alive[x] /\ handle[x] # a
      BY <1>1
    <3>4. CASE y = a
      <4>1. claim'[y] # x
        BY <3>4, <1>2, BusAssumption
      <4>2. ~(handle'[x] = y /\ alive'[x])
        BY <3>1, <3>3, <3>4
      <4> QED
        BY <4>1, <4>2
    <3>5. CASE y # a
      <4>1. claim'[y] = claim[y]
        BY <3>5, <1>2
      <4>2. handle[x] = y => (alive'[x] <=> alive[x])
        BY <3>3, <3>5
      <4> QED
        BY <3>1, <3>2, <4>1, <4>2
    <3> QED
      BY <3>4, <3>5
  <2>2. \A y \in Adapters : claim'[y] # None => y \in plugged'
    BY <1>2 DEF Unplug, BusInv, ExclusiveHandle
  <2> QED
    BY <2>1, <2>2 DEF ExclusiveHandle
<1>7. ASSUME NEW x \in Buses, alive'[x]
      PROVE  alive[x] /\ dev'[handle[x]] = dev[handle[x]]
  BY <1>1, <1>2, <1>7, LiveHandleClaimed
<1>8. ModeAgreement' /\ WithinCapabilities'
  BY <1>7 DEF Unplug, BusInv, ModeAgreement, WithinCapabilities
<1>9. ChannelOwned'
  <2> SUFFICES ASSUME NEW y \in Adapters, dev'[y].run, y \notin unsettled'
               PROVE  claim'[y] # None /\ started'[claim'[y]]
    BY DEF ChannelOwned
  <2>1. y # a /\ dev[y].run /\ y \notin unsettled
    BY <1>2, <1>3
  <2> QED
    BY <2>1, <1>2 DEF Unplug, BusInv, ChannelOwned
<1> QED
  BY <1>4, <1>5, <1>6, <1>8, <1>9 DEF BusInv

\* An adapter that is plugged in changes nothing else.
LEMMA PlugInv ==
    ASSUME BusInv, NEW a \in Adapters, Plug(a)
    PROVE  BusInv'
<1>1. TypeOK'
  BY DEF Plug, BusInv, TypeOK
<1>2. (HandleHeld /\ CapsRead /\ StartedIsOpen /\ ExclusiveHandle)'
  BY DEF Plug, BusInv, HandleHeld, CapsRead, StartedIsOpen, ExclusiveHandle, IsOpen
<1>3. (ModeAgreement /\ WithinCapabilities /\ ChannelOwned)'
  BY DEF Plug, BusInv, ModeAgreement, WithinCapabilities, ChannelOwned
<1> QED
  BY <1>1, <1>2, <1>3 DEF BusInv

-----------------------------------------------------------------------------
\* The initial state satisfies the invariant.
LEMMA BusInvInit == Init => BusInv
<1> SUFFICES ASSUME Init PROVE BusInv
  OBVIOUS
<1>1. TypeOK
  BY DEF Init, TypeOK, NoCaps, Idle, Channel, Mode, Timing
<1>2. HandleHeld /\ CapsRead /\ StartedIsOpen
  BY DEF Init, HandleHeld, CapsRead, StartedIsOpen, NoCaps, IsOpen
<1>3. ExclusiveHandle
  BY BusAssumption DEF Init, ExclusiveHandle, IsOpen
<1>4. ModeAgreement /\ WithinCapabilities /\ ChannelOwned
  BY DEF Init, ModeAgreement, WithinCapabilities, ChannelOwned, Idle
<1> QED
  BY <1>1, <1>2, <1>3, <1>4 DEF BusInv

\* Every call and every change of the cable keeps the invariant.
LEMMA BusInvNext ==
    ASSUME BusInv, [Next]_vars
    PROVE  BusInv'
<1>1. ASSUME NEW b \in Buses, BusStep(b)
      PROVE  BusInv'
  <2>1. CASE Open(b)
    BY <2>1, OpenInv DEF Open, BusInv, TypeOK
  <2>2. ASSUME NEW a \in Adapters, OpenInfo(b, a)
        PROVE  BusInv'
    BY <2>2, OpenInv DEF OpenInfo
  <2>3. ASSUME NEW c \in Configs, ConfigureRefused(b, c)
        PROVE  BusInv'
    BY <2>3, NoEffectInv DEF ConfigureRefused, Throws, BusInv, TypeOK
  <2>4. CASE Configure(b)
    BY <2>3, <2>4, ConfigureNominalFailsInv, ConfigureDataFailsInv, ConfigureModeRefusedInv,
       ConfigureModeFailsInv, ConfigureDoneInv DEF Configure
  <2>5. ASSUME NEW fd \in BOOLEAN, SendDone(b, fd)
        PROVE  BusInv'
    BY <2>5, NoEffectInv DEF SendDone, Returns, BusInv, TypeOK
  <2>6. CASE SendThrows(b) \/ Receive(b)
    BY <2>6, NoEffectInv DEF SendThrows, Receive, Returns, Throws, BusInv, TypeOK
  <2>7. CASE Close(b)
    BY <2>7, CloseInv
  <2> QED
    BY <1>1, <2>1, <2>2, <2>4, <2>5, <2>6, <2>7 DEF BusStep
<1>2. ASSUME NEW a \in Adapters, Unplug(a) \/ Plug(a)
      PROVE  BusInv'
  BY <1>2, UnplugInv, PlugInv
<1>3. CASE UNCHANGED vars
  BY <1>3, NoEffectInv DEF BusInv, TypeOK
<1> QED
  BY <1>1, <1>2, <1>3 DEF Next

\* The inductive invariant: types, and the agreement of host and adapters.
THEOREM BusInvariant == Spec => []BusInv
<1>1. Init => BusInv
  BY BusInvInit
<1>2. BusInv /\ [Next]_vars => BusInv'
  BY BusInvNext
<1> QED
  BY <1>1, <1>2, PTL DEF Spec

\* A started bus always has an open transport: send() and receive() never use
\* a null handle.
THEOREM StartedNeedsTransport == Spec => []StartedIsOpen
<1>1. BusInv => StartedIsOpen
  BY DEF BusInv
<1> QED
  BY <1>1, BusInvariant, PTL

\* Interfaces are claimed exclusively and never leak.
THEOREM ExclusiveClaims == Spec => []ExclusiveHandle
<1>1. BusInv => ExclusiveHandle
  BY DEF BusInv
<1> QED
  BY <1>1, BusInvariant, PTL

\* After a configure() that returned, host and adapter agree.
THEOREM HostAndAdapterAgree == Spec => []ModeAgreement
<1>1. BusInv => ModeAgreement
  BY DEF BusInv
<1> QED
  BY <1>1, BusInvariant, PTL

\* What was configured stays within what the adapter advertises.
THEOREM StaysWithinCapabilities == Spec => []WithinCapabilities
<1>1. BusInv => WithinCapabilities
  BY DEF BusInv
<1> QED
  BY <1>1, BusInvariant, PTL

\* A channel that runs without an owner has a failed MODE request behind it.
THEOREM QuietAfterClose == Spec => []QuietWhenReleased
<1>1. BusInv => QuietWhenReleased
  BY DEF BusInv, ChannelOwned, QuietWhenReleased
<1> QED
  BY <1>1, BusInvariant, PTL

-----------------------------------------------------------------------------
\* The refinement, one lemma for each kind of step: steps that leave isOpen(),
\* isStarted() and the claims alone are stutters of BusLifecycle.
LEMMA StutterStep ==
    ASSUME transport' = transport, started' = started, claim' = claim
    PROVE  UNCHANGED Lifecycle!vars
  BY DEF Lifecycle!vars, Phase, IsOpen

\* Claiming an adapter acquires it.
LEMMA AcquireStep ==
    ASSUME BusInv, NEW b \in Buses, NEW a \in Adapters, Claim(b, a), started' = started
    PROVE  Lifecycle!Acquire(b, a)
<1>1. ~started[b]
  BY NotOpen DEF Claim
<1>2. Phase[b] = "closed"
  BY <1>1 DEF Claim, Phase
<1>3. Phase' = [Phase EXCEPT ![b] = "open"]
  BY <1>1 DEF Claim, Phase, IsOpen, BusInv, TypeOK
<1> QED
  BY <1>2, <1>3 DEF Claim, Lifecycle!Acquire

\* An accepted configuration starts an open bus.
LEMMA StartStep ==
    ASSUME BusInv, NEW b \in Buses, NEW c \in Configs, ConfigureDone(b, c)
    PROVE  Lifecycle!Start(b) \/ UNCHANGED Lifecycle!vars
<1>1. /\ alive[b] /\ started' = [started EXCEPT ![b] = TRUE]
      /\ transport' = transport /\ claim' = claim
  BY DEF ConfigureDone, HostModeStored
<1>2. handle[b] \in Adapters /\ claim[handle[b]] = b /\ IsOpen(b)
  BY <1>1, LiveHandleClaimed
<1>3. CASE started[b]
  <2>1. started' = started
    BY <1>1, <1>3 DEF BusInv, TypeOK
  <2> QED
    BY <1>1, <2>1, StutterStep
<1>4. CASE ~started[b]
  <2>1. Phase[b] = "open" /\ \E a \in Adapters : Lifecycle!Owns(b, a)
    BY <1>2, <1>4 DEF Phase, Lifecycle!Owns
  <2>2. Phase' = [Phase EXCEPT ![b] = "started"]
    BY <1>1, <1>4 DEF Phase, IsOpen, BusInv, TypeOK
  <2> QED
    BY <1>1, <2>1, <2>2 DEF Lifecycle!Start
<1> QED
  BY <1>3, <1>4

\* close() releases, unless the transport never came to be open.
LEMMA ReleaseStep ==
    ASSUME BusInv, NEW b \in Buses,
           CloseIdle(b) \/ \E outcome \in Outcome : CloseStarted(b, outcome)
    PROVE  Lifecycle!Release(b) \/ UNCHANGED Lifecycle!vars
<1>1. Release(b)
  BY DEF CloseIdle, CloseStarted
<1>2. started' = [started EXCEPT ![b] = FALSE]
  BY DEF CloseIdle, CloseStarted, BusInv, TypeOK, StartedIsOpen
<1>3. claim' = [a \in Adapters |-> IF Lifecycle!Owns(b, a) THEN None ELSE claim[a]]
  BY <1>1 DEF Release, Lifecycle!Owns
<1>4. Phase' = [Phase EXCEPT ![b] = "closed"]
  BY <1>1, <1>2 DEF Release, Phase, IsOpen, BusInv, TypeOK
<1>5. CASE IsOpen(b)
  BY <1>3, <1>4, <1>5 DEF Lifecycle!Release, Phase
<1>6. CASE ~IsOpen(b)
  <2>1. ~started[b] /\ \A a \in Adapters : claim[a] # b
    BY <1>6, NotOpen
  <2>2. claim' = claim
    BY <2>1, <1>3 DEF Lifecycle!Owns, BusInv, TypeOK
  <2>3. Phase' = Phase
    BY <2>1, <1>4, <1>6 DEF Phase
  <2> QED
    BY <2>2, <2>3 DEF Lifecycle!vars
<1> QED
  BY <1>5, <1>6

\* Every step of the calls is a step of BusLifecycle or leaves it alone.
LEMMA LifecycleStep ==
    ASSUME BusInv, [Next]_vars
    PROVE  [Lifecycle!Next]_(Lifecycle!vars)
<1>1. ASSUME NEW b \in Buses, NEW sel \in SUBSET Adapters, OpenWith(b, sel)
      PROVE  [Lifecycle!Next]_(Lifecycle!vars)
  <2>1. CASE OpenNoop(b, sel)
    BY <2>1, StutterStep DEF OpenNoop
  <2>2. CASE OpenFails(b, sel)
    BY <2>2 DEF OpenFails, Lifecycle!vars, Phase, IsOpen, BusInv, TypeOK
  <2>3. ASSUME NEW a \in Adapters,
               \/ OpenHalf(b, a, sel)
               \/ \E ext, gotInfo \in BOOLEAN : OpenDone(b, a, ext, gotInfo, sel)
        PROVE  Lifecycle!Next
    <3>1. Claim(b, a) /\ started' = started
      BY <2>3 DEF OpenHalf, OpenDone
    <3> QED
      BY <3>1, AcquireStep DEF Lifecycle!Next
  <2> QED
    BY <1>1, <2>1, <2>2, <2>3 DEF OpenWith
<1>2. ASSUME NEW b \in Buses, Configure(b)
      PROVE  [Lifecycle!Next]_(Lifecycle!vars)
  <2>1. ASSUME NEW c \in Configs, ConfigureDone(b, c)
        PROVE  [Lifecycle!Next]_(Lifecycle!vars)
    BY <2>1, StartStep DEF Lifecycle!Next
  <2>2. ASSUME transport' = transport, started' = started, claim' = claim
        PROVE  [Lifecycle!Next]_(Lifecycle!vars)
    BY <2>2, StutterStep
  <2> QED
    BY <1>2, <2>1, <2>2 DEF Configure, ConfigureRefused, ConfigureNominalFails,
       ConfigureDataRefused, ConfigureDataFails, ConfigureModeRefused, ConfigureModeFails
<1>3. ASSUME NEW b \in Buses, Close(b)
      PROVE  [Lifecycle!Next]_(Lifecycle!vars)
  <2>1. CASE CloseNoop(b)
    BY <2>1, StutterStep DEF CloseNoop
  <2> QED
    BY <1>3, <2>1, ReleaseStep DEF Close, Lifecycle!Next
<1>4. ASSUME NEW a \in Adapters, Unplug(a)
      PROVE  [Lifecycle!Next]_(Lifecycle!vars)
  <2>1. Phase' = Phase /\ claim' = [claim EXCEPT ![a] = None]
    BY <1>4 DEF Unplug, Phase, IsOpen
  <2>2. CASE claim[a] = None
    <3>1. claim' = claim
      BY <2>1, <2>2 DEF BusInv, TypeOK
    <3> QED
      BY <2>1, <3>1 DEF Lifecycle!vars
  <2>3. CASE claim[a] # None
    BY <2>1, <2>3 DEF Lifecycle!Next, Lifecycle!Lose
  <2> QED
    BY <2>2, <2>3
<1>5. ASSUME NEW b \in Buses, BusStep(b)
      PROVE  [Lifecycle!Next]_(Lifecycle!vars)
  <2>1. CASE Open(b)
    BY <2>1, <1>1 DEF Open, BusInv, TypeOK
  <2>2. ASSUME NEW a \in Adapters, OpenInfo(b, a)
        PROVE  [Lifecycle!Next]_(Lifecycle!vars)
    BY <2>2, <1>1 DEF OpenInfo
  <2>3. CASE SendThrows(b) \/ Receive(b) \/ \E fd \in BOOLEAN : SendDone(b, fd)
    BY <2>3, StutterStep DEF SendThrows, Receive, SendDone
  <2> QED
    BY <1>2, <1>3, <1>5, <2>1, <2>2, <2>3 DEF BusStep
<1>6. ASSUME NEW a \in Adapters, Plug(a)
      PROVE  [Lifecycle!Next]_(Lifecycle!vars)
  BY <1>6, StutterStep DEF Plug
<1>7. CASE UNCHANGED vars
  BY <1>7, StutterStep
<1> QED
  BY <1>4, <1>5, <1>6, <1>7 DEF Next

\* The initial states agree.
LEMMA LifecycleInit == Init => Lifecycle!Init
  BY DEF Init, Lifecycle!Init, Phase, IsOpen

\* The bus objects implement exclusive ownership, for any number of buses and
\* adapters and whatever requests fail.
THEOREM BusImplementsLifecycle == Spec => ImplementsLifecycle
<1>1. Init => Lifecycle!Init
  BY LifecycleInit
<1>2. BusInv /\ [Next]_vars => [Lifecycle!Next]_(Lifecycle!vars)
  BY LifecycleStep
<1> QED
  BY <1>1, <1>2, BusInvariant, PTL DEF Spec, ImplementsLifecycle, Lifecycle!Spec
=============================================================================
