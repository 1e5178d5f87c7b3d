---------------------------- MODULE Tools_proof ----------------------------
(***************************************************************************)
(* What the tools rest on, for any devices, invocations and numbers of     *)
(* signals: the adapter that is meant is the one that is opened            *)
(* (Discovery), and an invocation sends what was asked and leaves the      *)
(* adapter quiet (CommandLine).                                            *)
(***************************************************************************)
EXTENDS CommandLine, Discovery, FiniteSetTheorems, TLAPS

USE DEF usb, history, vars, adapter, handler, monitor, CLvars

-----------------------------------------------------------------------------
(***************************************************************************)
(* The selection of an adapter.                                            *)
(***************************************************************************)
\* Opening and closing change no device, and at most one is opened.
LEMMA OpenSelectedEffect ==
    ASSUME NEW sel, OpenSelected(sel)
    PROVE  /\ opened = None /\ selector' = sel /\ UNCHANGED <<usb, scan, fresh, complete>>
           /\ \/ opened' = None
              \/ /\ opened' \in Found(sel, UseHeuristics(sel))
                 /\ Free(opened') /\ HasBulkInterface(opened')
BY DEF OpenSelected

\* A selector keeps its filters when the index of a list is stored in it.
LEMMA IndexStored ==
    ASSUME TypeOK, NEW i
    PROVE  LET sel == [selector EXCEPT !.index = i]
           IN  Selector(sel) /\ sel.index = i /\ (Unfiltered(sel) <=> Unfiltered(selector))
<1>1. PICK a, b, c, d, e : selector = [id |-> a, index |-> b, serial |-> c, product |-> d, port |-> e]
  BY DEF TypeOK, Selector
<1>2. [selector EXCEPT !.index = i] = [id |-> a, index |-> i, serial |-> c, product |-> d, port |-> e]
  BY <1>1
<1>3. \A j : Unfiltered([id |-> a, index |-> j, serial |-> c, product |-> d, port |-> e])
             <=> a = None /\ c = None /\ d = None /\ e = None
  BY DEF Unfiltered, AnyAdapter
<1> QED
  BY <1>1, <1>2, <1>3 DEF Selector

\* What a scan tells of a plugged device is true of it.
LEMMA ScanDescribes ==
    ASSUME NEW u \in Plugged, NEW found
    PROVE  Describes(Info(u, found))
BY DEF Describes, Info, Serial, Plugged

\* Opening keeps the types, for any selector.
LEMMA OpenKeepsTypes ==
    ASSUME TypeOK, NEW sel, Selector(sel), OpenSelected(sel), asked' \in {"selector", "info", "index"}
    PROVE  TypeOK'
<1>1. opened' \in Units \cup {None}
  BY OpenSelectedEffect DEF Found, Plugged
<1>2. result' \in {"none", "ok", "not found", "error"}
  BY DEF OpenSelected
<1> QED
  BY <1>1, <1>2, OpenSelectedEffect DEF TypeOK, Selector

\* DiscoveryInv holds at the start.
LEMMA DiscoveryInvInit == Init => DiscoveryInv
BY DiscoveryAssumption
   DEF Init, DiscoveryInv, TypeOK, PlacesDiffer, SoughtKnown, Plugged

\* So does whatever happens around the program, if no two devices come to one place.
LEMMA AroundKeepsDiscoveryInv ==
    ASSUME DiscoveryInv, NEW newPort \in [Units -> Ports \cup {None}], NEW newBusy \in SUBSET Units,
           Around(newPort, newBusy), PlacesDiffer'
    PROVE  DiscoveryInv'
BY DEF DiscoveryInv, TypeOK, Selector, SoughtKnown, SelectorFor, Describes, Around

\* Every step keeps DiscoveryInv.
LEMMA DiscoveryInvNext == DiscoveryInv /\ [Next]_vars => DiscoveryInv'
<1> SUFFICES ASSUME DiscoveryInv, [Next]_vars PROVE DiscoveryInv'
  OBVIOUS
<1>t. TypeOK /\ PlacesDiffer /\ SoughtKnown /\ \A info \in scan : Describes(info)
  BY DEF DiscoveryInv
<1>1. ASSUME NEW u \in Units, NEW p \in Ports, Plug(u, p)
      PROVE  DiscoveryInv'
  <2> DEFINE newPort == [port EXCEPT ![u] = p]
  <2>1. newPort \in [Units -> Ports \cup {None}] /\ busy \in SUBSET Units
    BY <1>t DEF TypeOK
  <2>2. Around(newPort, busy) /\ \A v \in Units : port[v] # p
    BY <1>1 DEF Plug
  <2>3. PlacesDiffer'
    BY <1>t, <2>1, <2>2 DEF PlacesDiffer, Plugged, Around, TypeOK
  <2> QED
    BY <2>1, <2>2, <2>3, AroundKeepsDiscoveryInv
<1>2. ASSUME NEW u \in Units, Unplug(u)
      PROVE  DiscoveryInv'
  <2> DEFINE newPort == [port EXCEPT ![u] = None]
  <2>1. newPort \in [Units -> Ports \cup {None}] /\ busy \ {u} \in SUBSET Units
    BY <1>t DEF TypeOK
  <2>2. Around(newPort, busy \ {u})
    BY <1>2 DEF Unplug
  <2>3. PlacesDiffer'
    BY <1>t, <2>1, <2>2 DEF PlacesDiffer, Plugged, Around, TypeOK
  <2> QED
    BY <2>1, <2>2, <2>3, AroundKeepsDiscoveryInv
<1>3. ASSUME NEW u \in Units, Grab(u) \/ Drop(u)
      PROVE  DiscoveryInv'
  <2>1. PICK newBusy \in SUBSET Units : Around(port, newBusy)
    BY <1>t, <1>3 DEF TypeOK, Grab, Drop
  <2>2. PlacesDiffer' /\ port \in [Units -> Ports \cup {None}]
    BY <1>t, <2>1 DEF PlacesDiffer, Plugged, Around, TypeOK
  <2> QED
    BY <2>1, <2>2, AroundKeepsDiscoveryInv
<1>4. CASE Scan
  <2> DEFINE found == Found(AnyAdapter, TRUE)
  <2>1. /\ scan' = {Info(u, found) : u \in found} /\ fresh' = TRUE /\ complete' \in BOOLEAN
        /\ UNCHANGED <<exclusive, port, busy, selector, opened, asked, sought, result>>
    BY <1>4 DEF Scan
  <2>2. \A u \in found : Describes(Info(u, found))
    BY ScanDescribes DEF Found
  <2> HIDE DEF found
  <2>3. \A info \in scan' : Describes(info)
    BY <2>1, <2>2
  <2> QED
    BY <1>t, <2>1, <2>3
       DEF DiscoveryInv, TypeOK, Selector, PlacesDiffer, Plugged, SoughtKnown, SelectorFor, Describes
<1>5. CASE Open
  <2>1. OpenSelected(selector) /\ UNCHANGED <<asked, sought>>
    BY <1>5 DEF Open
  <2>2. TypeOK'
    BY <1>t, <2>1, OpenKeepsTypes DEF TypeOK
  <2>3. UNCHANGED <<usb, scan, selector>>
    BY <2>1, OpenSelectedEffect
  <2> QED
    BY <1>t, <2>1, <2>2, <2>3
       DEF DiscoveryInv, PlacesDiffer, Plugged, SoughtKnown, SelectorFor, Describes
<1>6. ASSUME NEW info \in scan, OpenInfo(info)
      PROVE  DiscoveryInv'
  <2>1. OpenSelected(SelectorFor(info)) /\ asked' = "info" /\ sought' = info
    BY <1>6 DEF OpenInfo
  <2>2. Selector(SelectorFor(info))
    BY DEF Selector, SelectorFor
  <2>3. TypeOK'
    BY <1>t, <2>1, <2>2, OpenKeepsTypes
  <2>4. UNCHANGED <<usb, scan>> /\ selector' = SelectorFor(info)
    BY <2>1, OpenSelectedEffect
  <2> QED
    BY <1>t, <2>1, <2>3, <2>4
       DEF DiscoveryInv, PlacesDiffer, Plugged, SoughtKnown, SelectorFor, Describes
<1>7. ASSUME NEW info \in scan, OpenIndex(info)
      PROVE  DiscoveryInv'
  <2> DEFINE sel == [selector EXCEPT !.index = info.place]
  <2>1. OpenSelected(sel) /\ asked' = "index"
    BY <1>7 DEF OpenIndex
  <2>2. Selector(sel)
    BY <1>t, IndexStored
  <2> HIDE DEF sel
  <2>3. TypeOK'
    BY <1>t, <2>1, <2>2, OpenKeepsTypes
  <2>4. UNCHANGED <<usb, scan>>
    BY <2>1, OpenSelectedEffect
  <2> QED
    BY <1>t, <2>1, <2>3, <2>4 DEF DiscoveryInv, PlacesDiffer, Plugged, SoughtKnown, Describes
<1>8. CASE Close \/ UNCHANGED vars
  BY <1>t, <1>8 DEF DiscoveryInv, TypeOK, Selector, PlacesDiffer, Plugged, SoughtKnown,
                    SelectorFor, Describes, Close
<1> QED
  BY <1>1, <1>2, <1>3, <1>4, <1>5, <1>6, <1>7, <1>8 DEF Next

\* The inductive invariant: no two devices are in one place, a scan tells no
\* untruth of its units, and the selector stays at the entry that was meant.
THEOREM DiscoveryInvariant == Spec => []DiscoveryInv
BY DiscoveryInvInit, DiscoveryInvNext, PTL DEF Spec

\* A serial that could be read matches its own unit only.
LEMMA SerialMatchesUnit ==
    ASSUME SerialsDiffer, NEW info, Describes(info), info.serial # None,
           NEW u \in Plugged, Matches(SelectorFor(info), u)
    PROVE  u = info.unit
<1>1. u \in Units /\ info.unit \in Units
  BY DEF Plugged, Describes
<1>2. info.id # None
  BY DiscoveryAssumption DEF Describes, Attribute
<1>3. Attributes[u].id = Attributes[info.unit].id
  BY <1>2 DEF Matches, SelectorFor, Describes
<1>4. Attributes[u].serial = Attributes[info.unit].serial /\ Attributes[u].serial # None
  BY DEF Matches, SelectorFor, Describes, Serial
<1> QED
  BY <1>1, <1>3, <1>4 DEF SerialsDiffer

\* A serial pins its unit: open(info), and each open() after it, opens the unit
\* that the scan described or none.  It takes serials that are given once.
THEOREM SerialPins ==
    ASSUME SerialsDiffer
    PROVE  Spec => []SerialPinsUnit
<1>1. Init => SerialPinsUnit
  BY DEF Init, SerialPinsUnit
<1>2. DiscoveryInv /\ SerialPinsUnit /\ [Next]_vars => SerialPinsUnit'
  <2> SUFFICES ASSUME DiscoveryInv, SerialPinsUnit, [Next]_vars PROVE SerialPinsUnit'
    OBVIOUS
  <2>1. ASSUME NEW info, Describes(info), OpenSelected(SelectorFor(info)), asked' = "info",
               sought' = info
        PROVE  SerialPinsUnit'
    <3> SUFFICES ASSUME opened' # None, info.serial # None PROVE opened' = info.unit
      BY <2>1 DEF SerialPinsUnit
    <3>1. opened' \in Plugged /\ Matches(SelectorFor(info), opened')
      BY <2>1, OpenSelectedEffect DEF Found
    <3> QED
      BY <2>1, <3>1, SerialMatchesUnit
  <2>2. CASE Open
    <3>1. CASE asked = "info"
      <4>1. Describes(sought) /\ selector = SelectorFor(sought)
        BY <3>1 DEF DiscoveryInv, SoughtKnown
      <4>2. OpenSelected(SelectorFor(sought)) /\ asked' = "info" /\ sought' = sought
        BY <2>2, <3>1, <4>1 DEF Open
      <4> QED
        BY <2>1, <4>1, <4>2
    <3>2. CASE asked # "info"
      BY <2>2, <3>2 DEF Open, SerialPinsUnit
    <3> QED
      BY <3>1, <3>2
  <2>3. ASSUME NEW info \in scan, OpenInfo(info)
        PROVE  SerialPinsUnit'
    BY <2>1, <2>3 DEF OpenInfo, DiscoveryInv
  <2>4. ASSUME NEW info \in scan, OpenIndex(info)
        PROVE  SerialPinsUnit'
    BY <2>4 DEF OpenIndex, SerialPinsUnit
  <2>5. CASE Scan \/ Close \/ UNCHANGED vars
    BY <2>5 DEF SerialPinsUnit, Scan, Close
  <2>6. ASSUME NEW u \in Units, Unplug(u) \/ Grab(u) \/ Drop(u) \/ \E p \in Ports : Plug(u, p)
        PROVE  SerialPinsUnit'
    BY <2>6 DEF SerialPinsUnit, Unplug, Grab, Drop, Plug, Around
  <2> QED
    BY <2>2, <2>3, <2>4, <2>5, <2>6 DEF Next
<1> QED
  BY <1>1, <1>2, DiscoveryInvariant, PTL DEF Spec

\* Whoever has an adapter open, a scan lists it.
THEOREM BusyAdaptersListed == Spec => BusyStaysListed
<1>1. DiscoveryInv /\ [Next]_vars =>
          [Scan => \A u \in Plugged : AlwaysListed(u) => \E info \in scan' : info.unit = u]_vars
  <2> SUFFICES ASSUME Scan, NEW u \in Plugged, AlwaysListed(u)
               PROVE  \E info \in scan' : info.unit = u
    OBVIOUS
  <2> DEFINE found == Found(AnyAdapter, TRUE)
  <2>1. Attributes[u].hint \in BOOLEAN \cup {None}
    BY DiscoveryAssumption DEF Attribute, Plugged
  <2>2. LooksLikeGsUsb(u)
    BY <2>1 DEF AlwaysListed, LooksLikeGsUsb, Hint
  <2>3. u \in found
    BY <2>2 DEF Found, Matches, AnyAdapter
  <2>4. Info(u, found) \in scan'
    BY <2>3 DEF Scan
  <2>5. Info(u, found).unit = u
    BY DEF Info
  <2> QED
    BY <2>4, <2>5
<1> QED
  BY <1>1, DiscoveryInvariant, PTL DEF Spec, BusyStaysListed

\* One device that is found alone is at index 0.
LEMMA AloneIsFirst ==
    ASSUME TypeOK, NEW u \in Plugged
    PROVE  Place(u, {u}) = 0
<1>1. port[u] \in Nat
  BY DiscoveryAssumption DEF TypeOK, Plugged
<1>2. {v \in {u} : port[v] < port[u]} = {}
  BY <1>1
<1> QED
  BY <1>2, FS_EmptySet DEF Place

\* "Not found" of an entry with a serial means that its unit is away, taken, or no
\* adapter at all: neither its place nor its index has to be what they were.
THEOREM AwayIfNotFound ==
    ASSUME SerialsDiffer
    PROVE  Spec => NotFoundMeansAway
<1> DEFINE A == \A info \in scan :
                   OpenInfo(info) /\ info.serial # None /\ result' = "not found" =>
                       \/ info.unit \notin Plugged \/ ~Free(info.unit)
                       \/ ~HasBulkInterface(info.unit)
<1>1. DiscoveryInv /\ [Next]_vars => [A]_vars
  <2> SUFFICES ASSUME DiscoveryInv, NEW info \in scan, OpenInfo(info), info.serial # None,
                      info.unit \in Plugged, Free(info.unit), HasBulkInterface(info.unit)
               PROVE  result' # "not found"
    OBVIOUS
  <2> DEFINE sel == SelectorFor(info)
             unit == info.unit
             found == Found(sel, UseHeuristics(sel))
  <2>1. Describes(info)
    BY DEF DiscoveryInv
  <2>2. sel.id # None /\ sel.serial # None /\ sel.index = 0
    BY <2>1, DiscoveryAssumption DEF Describes, Attribute, SelectorFor
  <2>3. Matches(sel, unit)
    BY <2>1 DEF Matches, SelectorFor, Describes, Serial, Readable
  <2>4. found = {unit}
    BY <2>1, <2>2, <2>3, SerialMatchesUnit DEF Found, UseHeuristics
  <2>5. Place(unit, found) = 0
    BY <2>4, AloneIsFirst DEF DiscoveryInv
  <2> HIDE DEF sel, unit, found
  <2>6. /\ opened = None
        /\ \/ \E u \in found :
                 /\ Place(u, found) = sel.index
                 /\ \/ Free(u) /\ HasBulkInterface(u) /\ result' = "ok"
                    \/ Free(u) /\ ~HasBulkInterface(u)
                    \/ ~Free(u)
           \/ \A u \in found : Place(u, found) # sel.index
    BY DEF OpenInfo, OpenSelected, sel, found
  <2> QED
    BY <2>2, <2>4, <2>5, <2>6 DEF unit
<1> QED
  BY <1>1, DiscoveryInvariant, PTL DEF Spec, NotFoundMeansAway
-----------------------------------------------------------------------------
(***************************************************************************)
(* The picker of the terminal.                                             *)
(***************************************************************************)
\* The index of a device tells it from the others that were found.
LEMMA PlacesTell ==
    ASSUME DiscoveryInv, NEW found \in SUBSET Plugged, NEW u \in found, NEW v \in found,
           Place(u, found) = Place(v, found)
    PROVE  u = v
<1>1. \A w \in found : port[w] \in Nat
  BY DiscoveryAssumption DEF DiscoveryInv, TypeOK, Plugged
<1>2. IsFiniteSet(found)
  BY DiscoveryAssumption, FS_Subset DEF Plugged
<1> DEFINE Below(x) == {w \in found : port[w] < port[x]}
<1>3. ASSUME NEW x \in found, NEW y \in found, port[x] < port[y]
      PROVE  Place(x, found) # Place(y, found)
  <2>1. Below(x) \subseteq Below(y) /\ x \in Below(y) /\ x \notin Below(x)
    BY <1>1, <1>3
  <2>2. IsFiniteSet(Below(y))
    BY <1>2, FS_Subset
  <2>3. Cardinality(Below(x)) # Cardinality(Below(y))
    <3> HIDE DEF Below
    <3> QED
      BY <2>1, <2>2, FS_Subset
  <2> QED
    BY <2>3 DEF Place
<1>4. port[u] = port[v]
  BY <1>1, <1>3
<1> QED
  BY <1>4 DEF DiscoveryInv, PlacesDiffer

\* What can be listed is a matter of the devices around.
LEMMA ListableStays ==
    ASSUME UNCHANGED usb
    PROVE  Plugged' = Plugged /\ Listable' = Listable
BY DEF Plugged, Listable, HasVendorBulkInterface, BothWays

\* A scan that does not overlook the device of the bus lists what can be listed.
LEMMA FoundIsListable ==
    ASSUME opened \in Plugged => opened \in Listable /\ opened \in Found(AnyAdapter, TRUE)
    PROVE  Found(AnyAdapter, TRUE) = Listable
<1>1. ASSUME NEW u \in Plugged
      PROVE  Matches(AnyAdapter, u)
  BY DEF Matches, AnyAdapter
<1>2. ASSUME NEW u \in Plugged, u # opened
      PROVE  LooksLikeGsUsb(u) <=> u \in Listable
  BY <1>2 DEF LooksLikeGsUsb, Hint, Readable, Free, Listable
<1>3. Found(AnyAdapter, TRUE) \subseteq Plugged /\ Listable \subseteq Plugged
  BY DEF Found, Listable
<1>4. ASSUME NEW u \in Plugged
      PROVE  u \in Found(AnyAdapter, TRUE) <=> u \in Listable
  BY <1>1, <1>2, <1>4 DEF Found
<1> QED
  BY <1>3, <1>4

\* Without filters, all devices that look like an adapter are found.
LEMMA UnfilteredFindsAll ==
    ASSUME NEW sel, Unfiltered(sel)
    PROVE  Found(sel, UseHeuristics(sel)) = Found(AnyAdapter, TRUE)
BY DEF Unfiltered, AnyAdapter, Found, UseHeuristics, Matches

\* A device that is opened without filters can be listed.
LEMMA OpenedIsListable ==
    ASSUME NEW sel, Unfiltered(sel), NEW u \in Found(sel, UseHeuristics(sel)), Free(u)
    PROVE  u \in Listable \ busy
<1>1. u \in Plugged /\ LooksLikeGsUsb(u)
  BY UnfilteredFindsAll DEF Found
<1> QED
  BY <1>1 DEF LooksLikeGsUsb, Hint, Readable, Free, Listable

\* What happens around the program disturbs no device that the bus holds.
LEMMA AroundKeepsOpened ==
    ASSUME TypeOK, opened \in Plugged => opened \in Listable \ busy, NEW u \in Units,
           Unplug(u) \/ Grab(u) \/ Drop(u) \/ \E p \in Ports : Plug(u, p)
    PROVE  opened' \in Plugged' => opened' \in Listable' \ busy'
<1>1. opened' = opened /\ exclusive' = exclusive
  BY DEF Unplug, Grab, Drop, Plug, Around
<1>2. opened \in Plugged' => opened \in Plugged
  BY DEF Unplug, Grab, Drop, Plug, Around, Plugged, TypeOK
<1>3. opened \in Plugged' /\ opened \notin busy => opened \notin busy'
  BY DEF Unplug, Grab, Drop, Plug, Around, Free
<1> QED
  BY <1>1, <1>2, <1>3 DEF Listable, HasVendorBulkInterface, BothWays

\* Every step keeps ListKnown.
LEMMA ListKnownNext ==
    ASSUME DiscoveryInv, ListKnown, [Next]_vars
    PROVE  ListKnown'
<1> DEFINE OpenedListable == opened \in Plugged => opened \in Listable \ busy
           InPlace == \A info \in scan :
                         info.unit \in Listable /\ info.place = Place(info.unit, Listable)
<1>t. TypeOK /\ None \notin Units
  BY DiscoveryAssumption DEF DiscoveryInv
<1>l. Unfiltered(selector) => OpenedListable /\ (fresh /\ complete => InPlace)
  BY DEF ListKnown
<1> SUFFICES ASSUME Unfiltered(selector')
             PROVE  OpenedListable' /\ (fresh' /\ complete' => InPlace')
  BY DEF ListKnown
<1>1. ASSUME UNCHANGED <<usb, scan>>, InPlace
      PROVE  InPlace'
  BY <1>1, ListableStays DEF Place
<1>2. ASSUME NEW u \in Units, Unplug(u) \/ Grab(u) \/ Drop(u) \/ \E p \in Ports : Plug(u, p)
      PROVE  OpenedListable' /\ fresh' = FALSE
  <2>1. fresh' = FALSE /\ selector' = selector
    BY <1>2 DEF Unplug, Grab, Drop, Plug, Around
  <2> QED
    BY <1>t, <1>l, <1>2, <2>1, AroundKeepsOpened
<1>3. CASE Scan
  <2> DEFINE found == Found(AnyAdapter, TRUE)
  <2>1. /\ scan' = {Info(u, found) : u \in found}
        /\ complete' = (opened \in Plugged => opened \in found)
        /\ UNCHANGED <<usb, selector, opened>>
    BY <1>3 DEF Scan
  <2>2. OpenedListable'
    BY <1>l, <2>1, ListableStays
  <2>3. complete' => found = Listable
    BY <1>l, <2>1, FoundIsListable
  <2> HIDE DEF found
  <2>4. ASSUME found = Listable, NEW info \in scan'
        PROVE  info.unit \in Listable' /\ info.place = Place(info.unit, Listable)'
    <3>1. PICK u \in Listable : info = Info(u, Listable)
      BY <2>1, <2>4
    <3>2. info.unit \in Listable /\ info.place = Place(info.unit, Listable)
      BY <3>1 DEF Info
    <3> QED
      BY <2>1, <3>2, ListableStays DEF Place
  <2> QED
    BY <2>2, <2>3, <2>4
<1>4. ASSUME NEW sel, OpenSelected(sel), Unfiltered(sel), Unfiltered(selector)
      PROVE  OpenedListable' /\ (fresh' /\ complete' => InPlace')
  <2>1. UNCHANGED <<usb, scan, fresh, complete>>
    BY <1>4, OpenSelectedEffect
  <2>2. opened' = None \/ opened' \in Listable \ busy
    BY <1>4, OpenSelectedEffect, OpenedIsListable
  <2>3. OpenedListable'
    BY <1>t, <2>1, <2>2, ListableStays DEF Plugged
  <2> QED
    BY <1>l, <1>1, <1>4, <2>1, <2>3
<1>5. CASE Open
  <2>1. OpenSelected(selector) /\ selector' = selector
    BY <1>5, OpenSelectedEffect DEF Open
  <2> QED
    BY <1>4, <2>1
<1>6. ASSUME NEW info \in scan, OpenInfo(info)
      PROVE  FALSE
  <2>1. selector'.id = info.id
    BY <1>6, OpenSelectedEffect DEF OpenInfo, SelectorFor
  <2>2. selector'.id = None
    BY DEF Unfiltered, AnyAdapter
  <2> QED
    BY <2>1, <2>2, DiscoveryAssumption DEF DiscoveryInv, Describes, Attribute
<1>7. ASSUME NEW info \in scan, OpenIndex(info)
      PROVE  OpenedListable' /\ (fresh' /\ complete' => InPlace')
  <2> DEFINE sel == [selector EXCEPT !.index = info.place]
  <2>1. OpenSelected(sel) /\ selector' = sel
    BY <1>7, OpenSelectedEffect DEF OpenIndex
  <2>2. Unfiltered(selector)
    BY <1>t, <2>1, IndexStored
  <2> HIDE DEF sel
  <2> QED
    BY <1>4, <2>1, <2>2
<1>8. CASE Close \/ UNCHANGED vars
  <2>1. /\ UNCHANGED <<usb, scan, selector, fresh, complete>>
        /\ opened' \in {None, opened}
    BY <1>8 DEF Close
  <2>2. OpenedListable'
    BY <1>t, <1>l, <2>1, ListableStays DEF Plugged
  <2> QED
    BY <1>l, <1>1, <2>1, <2>2
<1> QED
  BY <1>2, <1>3, <1>5, <1>6, <1>7, <1>8 DEF Next

\* The picker opens what its list shows at that index, unless that device cannot be
\* opened: for a list in which nothing has changed, which did not overlook the device
\* that the bus held, and a selector without filters.
THEOREM PickerIsRight == Spec => PickedFromWholeList
<1> DEFINE A == \A info \in scan :
                   fresh /\ complete /\ Unfiltered(selector) /\ OpenIndex(info) =>
                       \/ opened' = info.unit
                       \/ opened' = None /\ ~(Free(info.unit) /\ HasBulkInterface(info.unit))
<1>1. DiscoveryInv /\ ListKnown /\ [Next]_vars => [A]_vars
  <2> SUFFICES ASSUME DiscoveryInv, ListKnown, NEW info \in scan, fresh, complete,
                      Unfiltered(selector), OpenIndex(info)
               PROVE  \/ opened' = info.unit
                      \/ opened' = None /\ ~(Free(info.unit) /\ HasBulkInterface(info.unit))
    OBVIOUS
  <2> DEFINE sel == [selector EXCEPT !.index = info.place]
             found == Found(sel, UseHeuristics(sel))
  <2>1. sel.index = info.place /\ Unfiltered(sel) /\ OpenSelected(sel) /\ opened = None
    BY IndexStored DEF DiscoveryInv, OpenIndex, OpenSelected
  <2>2. found = Listable
    BY <2>1, UnfilteredFindsAll, FoundIsListable, DiscoveryAssumption DEF Plugged
  <2>3. info.unit \in found /\ sel.index = Place(info.unit, found)
    BY <2>1, <2>2 DEF ListKnown
  <2>4. found \in SUBSET Plugged
    BY DEF Found
  <2>5. \/ \E unit \in found :
              /\ Place(unit, found) = sel.index
              /\ \/ opened' = unit
                 \/ opened' = None /\ ~(Free(unit) /\ HasBulkInterface(unit))
        \/ \A unit \in found : Place(unit, found) # sel.index
    BY <2>1 DEF OpenSelected
  <2> HIDE DEF sel, found
  <2>6. \A unit \in found : Place(unit, found) = sel.index => unit = info.unit
    BY <2>3, <2>4, PlacesTell
  <2> QED
    BY <2>3, <2>5, <2>6
<1>2. Init => ListKnown
  BY DiscoveryAssumption DEF Init, ListKnown, Plugged
<1>3. DiscoveryInv /\ ListKnown /\ [Next]_vars => ListKnown'
  BY ListKnownNext
<1> QED
  BY <1>1, <1>2, <1>3, DiscoveryInvariant, PTL DEF Spec, PickedFromWholeList

-----------------------------------------------------------------------------
(***************************************************************************)
(* An invocation of a command line.                                        *)
(***************************************************************************)
\* CommandInv holds when the program starts.
LEMMA CommandInvInit == CLInit => CommandInv
<1> SUFFICES ASSUME CLInit PROVE CommandInv
  OBVIOUS
<1>1. CLTypeOK
  <2>1. struck \in Seq(Places \ {"exit"}) /\ Len(struck) <= MaxSignals
    BY CommandAssumption DEF CLInit
  <2>2. invocation \in Invocations /\ at \in Places
    BY DEF CLInit, Places
  <2> QED
    BY <2>1, <2>2 DEF CLInit, CLTypeOK
<1> QED
  BY <1>1 DEF CLInit, CommandInv, ChannelKnown, HandlerKnown, SentKnown

\* What is made of the words changes no more than they do.
LEMMA WordsStay ==
    ASSUME UNCHANGED invocation
    PROVE  UNCHANGED <<Overruns, Encodable, Frame(Parsed)>>
BY DEF Overruns, Encodable, Frame, Parsed, Asked, TakeWord, ParseData, Spelled

\* A program step is no strike of SIGINT, and forgets none.
LEMMA ProgramNotStruck == ProgramStep => UNCHANGED <<invocation, struck>>
BY DEF ProgramStep, Goes, Raises, Parses, Opens, OpenOrTimingFails, ModeFails, ModeAccepted,
       Stores, Begins, Sends, Triggers, Crashes, TransferFails, Arms, LoopTests, ReceivesNothing, Receives,
       Shows, Closes

\* A program step keeps the types.
LEMMA ProgramKeepsTypes == CLTypeOK /\ ProgramStep => CLTypeOK'
<1> SUFFICES ASSUME CLTypeOK, ProgramStep PROVE CLTypeOK'
  OBVIOUS
<1> USE DEF CLTypeOK, Places, Goes
<1>1. CASE Parses \/ Opens \/ OpenOrTimingFails \/ ModeFails
  BY <1>1 DEF Parses, Opens, OpenOrTimingFails, ModeFails, Raises
<1>2. CASE ModeAccepted \/ Stores \/ Begins
  BY <1>2 DEF ModeAccepted, Stores, Begins
<1>3. CASE Sends
  BY <1>3 DEF Sends
<1>4. CASE Triggers
  BY <1>4, CommandAssumption DEF Triggers, Invocation
<1>5. CASE Crashes \/ TransferFails
  BY <1>5 DEF Crashes, TransferFails, Raises
<1>6. CASE Arms \/ LoopTests \/ ReceivesNothing
  BY <1>6, CommandAssumption DEF Arms, LoopTests, ReceivesNothing, Invocation
<1>7. CASE Shows
  BY <1>7 DEF Shows
<1>8. CASE Closes
  BY <1>8 DEF Closes
<1>9. ASSUME NEW f \in {"frame", "other id", "echo"}, Receives(f)
      PROVE  CLTypeOK'
  BY <1>9 DEF Receives
<1> QED
  BY <1>1, <1>2, <1>3, <1>4, <1>5, <1>6, <1>7, <1>8, <1>9 DEF ProgramStep

\* A program step leaves no channel running that nothing will close.
LEMMA ProgramKeepsChannel == CLTypeOK /\ ChannelKnown /\ ProgramStep => ChannelKnown'
<1> SUFFICES ASSUME CLTypeOK, ChannelKnown, ProgramStep PROVE ChannelKnown'
  OBVIOUS
<1> DEFINE Unprovided == Overruns \/ \E i \in DOMAIN struck : struck[i] \notin Guarded
<1>1. Unprovided' <=> Unprovided
  BY ProgramNotStruck, WordsStay DEF Guarded
<1>0. Overruns => Unprovided
  OBVIOUS
<1> HIDE DEF Unprovided
<1>2. channel = "running" => \/ unsettled \/ Unprovided \/ at = "store"
                             \/ started /\ at \in InTry \cup {"close"}
  BY DEF ChannelKnown, Unprovided
<1> SUFFICES channel' = "running" =>
                 \/ unsettled' \/ Unprovided' \/ at' = "store"
                 \/ started' /\ at' \in InTry \cup {"close"}
  BY DEF ChannelKnown, Unprovided
<1> USE DEF InTry, Goes
<1>3. CASE Parses \/ Opens \/ OpenOrTimingFails \/ ModeFails
  BY <1>1, <1>2, <1>3 DEF Parses, Opens, OpenOrTimingFails, ModeFails, Raises
<1>4. CASE ModeAccepted \/ Stores \/ Begins
  BY <1>1, <1>2, <1>4 DEF ModeAccepted, Stores, Begins
<1>5. CASE Sends \/ Triggers \/ TransferFails
  BY <1>1, <1>2, <1>5 DEF Sends, Triggers, TransferFails, Raises
<1>10. CASE Crashes
  BY <1>0, <1>1, <1>10 DEF Crashes
<1>6. CASE Arms \/ LoopTests \/ ReceivesNothing
  BY <1>1, <1>2, <1>6 DEF Arms, LoopTests, ReceivesNothing
<1>7. CASE Shows
  BY <1>1, <1>2, <1>7 DEF Shows
<1>8. CASE Closes
  BY <1>1, <1>2, <1>8 DEF Closes, CLTypeOK
<1>9. ASSUME NEW f \in {"frame", "other id", "echo"}, Receives(f)
      PROVE  channel' = "running" =>
                 \/ unsettled' \/ Unprovided' \/ at' = "store"
                 \/ started' /\ at' \in InTry \cup {"close"}
  BY <1>1, <1>2, <1>9 DEF Receives
<1> QED
  BY <1>3, <1>4, <1>5, <1>6, <1>7, <1>8, <1>9, <1>10 DEF ProgramStep

\* The C++ program enters its loop by installing the handler, and keeps it.
LEMMA ProgramKeepsHandler == HandlerKnown /\ ProgramStep => HandlerKnown'
BY DEF HandlerKnown, ProgramStep, Goes, Raises, Parses, Crashes, Opens, OpenOrTimingFails, ModeFails,
       ModeAccepted, Stores, Begins, Sends, Triggers, TransferFails, Arms, LoopTests,
       ReceivesNothing, Receives, Shows, Closes

\* A program step passes the place of sending by sending, or by an error.
LEMMA ProgramKeepsSent == SentKnown /\ ProgramStep => SentKnown'
<1> SUFFICES ASSUME SentKnown, ProgramStep PROVE SentKnown'
  OBVIOUS
<1> DEFINE frame == Frame(Parsed)
<1>1. UNCHANGED <<invocation, struck>>
  BY ProgramNotStruck
<1>2. frame' = frame /\ Encodable' = Encodable
  BY <1>1, WordsStay
<1>3. SentKnown <=> (/\ at \in {"arm", "loop", "receive", "show", "close", "exit"}
                     /\ status = "ok" /\ struck = <<>>
                     /\ invocation.monitor => invocation.trigger
                     => sent = frame /\ Encodable)
  BY DEF SentKnown
<1>4. SentKnown' <=> (/\ at' \in {"arm", "loop", "receive", "show", "close", "exit"}
                      /\ status' = "ok" /\ struck = <<>>
                      /\ invocation.monitor => invocation.trigger
                      => sent' = frame /\ Encodable)
  BY <1>1, <1>2 DEF SentKnown
<1>5. Sends \/ Triggers => sent' = frame /\ Encodable
  BY DEF Sends, Triggers
<1> HIDE DEF frame
<1> USE DEF Goes
<1>6. CASE Opens \/ OpenOrTimingFails \/ ModeFails \/ TransferFails
  BY <1>3, <1>4, <1>6 DEF Opens, OpenOrTimingFails, ModeFails, TransferFails, Raises
<1>12. CASE Parses \/ Crashes
  BY <1>3, <1>4, <1>12 DEF Parses, Crashes
<1>7. CASE ModeAccepted \/ Stores \/ Begins
  BY <1>3, <1>4, <1>7 DEF ModeAccepted, Stores, Begins
<1>8. CASE Sends \/ Triggers
  BY <1>4, <1>5, <1>8
<1>9. CASE Arms \/ LoopTests \/ ReceivesNothing
  BY <1>3, <1>4, <1>9 DEF Arms, LoopTests, ReceivesNothing
<1>10. CASE Shows \/ Closes
  BY <1>3, <1>4, <1>10 DEF Shows, Closes
<1>11. ASSUME NEW f \in {"frame", "other id", "echo"}, Receives(f)
       PROVE  SentKnown'
  BY <1>3, <1>4, <1>11 DEF Receives
<1> QED
  BY <1>6, <1>7, <1>8, <1>9, <1>10, <1>11, <1>12 DEF ProgramStep

\* SIGINT keeps CommandInv, wherever it strikes: it closes the bus where that is
\* provided for, and is remembered where it is not.
LEMMA SignalKeepsCommandInv == CommandInv /\ Signal => CommandInv'
<1> SUFFICES ASSUME CommandInv, Signal PROVE CommandInv'
  OBVIOUS
<1>1. /\ struck \in Seq(Places \ {"exit"}) /\ at \in Places \ {"exit"}
      /\ Len(struck) < MaxSignals /\ MaxSignals \in Nat
      /\ struck' = Append(struck, at) /\ UNCHANGED <<invocation, started, channel, unsettled, sent>>
  BY CommandAssumption DEF CommandInv, CLTypeOK, Signal
<1>2. /\ DOMAIN struck' = 1 .. Len(struck) + 1 /\ Len(struck) \in Nat
      /\ struck'[Len(struck) + 1] = at
      /\ \A i \in DOMAIN struck : i \in DOMAIN struck' /\ struck'[i] = struck[i]
  BY <1>1
<1>3. CLTypeOK'
  <2>1. struck' \in Seq(Places \ {"exit"}) /\ Len(struck') <= MaxSignals
    BY <1>1
  <2> QED
    BY <1>1, <2>1 DEF CommandInv, CLTypeOK, Signal, Interrupted, Places
<1>4. HandlerKnown'
  BY <1>1 DEF CommandInv, HandlerKnown, Signal, Interrupted
<1>5. SentKnown'
  BY <1>1, <1>2, WordsStay DEF SentKnown
<1>6. ChannelKnown'
  <2> DEFINE Unprovided == Overruns \/ \E i \in DOMAIN struck : struck[i] \notin Guarded
  <2>1. Guarded' = Guarded /\ Overruns' = Overruns
    BY <1>1, WordsStay DEF Guarded
  <2>2. Unprovided => Unprovided'
    BY <1>2, <2>1
  <2>3. at \notin Guarded => Unprovided'
    BY <1>2, <2>1
  <2>4. CASE at \in Guarded
    <3>1. CASE invocation.python
      <4>1. at \in InTry /\ at' = "close"
        BY <1>1, <2>4, <3>1 DEF Guarded, Signal, Interrupted
      <4>2. at # "store"
        BY <4>1 DEF InTry
      <4> QED
        BY <1>1, <2>2, <4>1, <4>2 DEF CommandInv, ChannelKnown
    <3>2. CASE ~invocation.python
      <4>1. at \in {"loop", "receive", "show"} /\ armed
        BY <2>4, <3>2 DEF Guarded, CommandInv, HandlerKnown
      <4>2. at' = at
        BY <3>2, <4>1 DEF Signal
      <4> QED
        BY <1>1, <2>2, <4>2 DEF CommandInv, ChannelKnown
    <3> QED
      BY <3>1, <3>2
  <2> QED
    BY <2>3, <2>4 DEF ChannelKnown
<1> QED
  BY <1>3, <1>4, <1>5, <1>6 DEF CommandInv

\* The inductive invariant: a running channel is known to somebody who will close
\* it, the loop is never without its handler, and what was sent is what was parsed.
THEOREM CommandInvariant == CLSpec => []CommandInv
<1>1. CommandInv /\ [CLNext]_CLvars => CommandInv'
  <2> SUFFICES ASSUME CommandInv, [CLNext]_CLvars PROVE CommandInv'
    OBVIOUS
  <2>1. CASE ProgramStep
    BY <2>1, ProgramKeepsTypes, ProgramKeepsChannel, ProgramKeepsHandler, ProgramKeepsSent
       DEF CommandInv
  <2>2. CASE Signal
    BY <2>2, SignalKeepsCommandInv
  <2>3. CASE UNCHANGED CLvars
    BY <2>3, WordsStay DEF CLvars, CommandInv, CLTypeOK, ChannelKnown, HandlerKnown,
                           SentKnown, Guarded
  <2> QED
    BY <2>1, <2>2, <2>3 DEF CLNext
<1> QED
  BY CommandInvInit, <1>1, PTL DEF CLSpec

\* However it ends, a process leaves no channel running, unless a MODE request
\* failed or SIGINT struck where neither program provides for it.
THEOREM NoChannelLeftRunning == CLSpec => []QuietAtExit
<1>1. CommandInv => QuietAtExit
  BY DEF CommandInv, ChannelKnown, QuietAtExit, InTry
<1> QED
  BY <1>1, CommandInvariant, PTL

\* The remainder of a number that is less than the divisor.
LEMMA SmallModulo ==
    ASSUME NEW n \in Nat, NEW m \in Nat, n <= m
    PROVE  n % (m + 1) = n
OBVIOUS

\* What is TakenAsMeant goes through parseArgs() and parseData() unchanged.
LEMMA ParsedAsMeant ==
    ASSUME CLTypeOK, invocation.words # <<>>, IsCanId(invocation.words[1]),
           invocation.python \/ TakenAsMeant
    PROVE  Parsed = Asked
<1> DEFINE words == invocation.words
<1>1. /\ DOMAIN words \in {{}, {1}, {1, 2}} /\ \A i \in DOMAIN words : Word(words[i])
      /\ invocation.monitor => DOMAIN words = {1, 2}
  BY CommandAssumption DEF CLTypeOK, Invocation
<1>2. CASE invocation.python
  BY <1>2 DEF Parsed
<1>3. CASE ~invocation.python
  <2>1. /\ words[1].leading = words[1].number
        /\ ~invocation.monitor => words[1].number # 0
        /\ 2 \in DOMAIN words => ParseData(words[2]).whole
    BY <1>3 DEF TakenAsMeant
  <2>2. 2 \in DOMAIN words => ParseData(words[2]) = Spelled(words[2])
    <3> SUFFICES ASSUME 2 \in DOMAIN words PROVE ParseData(words[2]) = Spelled(words[2])
      OBVIOUS
    <3>1. words[2].prefixes = 0 /\ words[2].digits \in Nat
      BY <1>1, <2>1 DEF ParseData, Word
    <3>2. (words[2].digits + words[2].prefixes) \div 2 = words[2].digits \div 2
      BY <3>1
    <3> QED
      BY <2>1, <3>2 DEF ParseData, Spelled
  <2>3. CASE invocation.monitor
    BY <1>1, <1>3, <2>1, <2>2, <2>3 DEF Parsed, Asked
  <2>4. CASE ~invocation.monitor
    <3> DEFINE first == TakeWord([id |-> 0, data |-> NoBytes], words[1])
    <3>1. first = [id |-> words[1].number, data |-> NoBytes]
      BY <2>1 DEF TakeWord
    <3>2. first.id # 0 /\ first.data.size = 0
      BY <2>1, <2>4, <3>1 DEF NoBytes
    <3>3. 2 \in DOMAIN words =>
            TakeWord(first, words[2]) = [id |-> words[1].number, data |-> Spelled(words[2])]
      BY <2>2, <3>1, <3>2 DEF TakeWord
    <3>4. Parsed = IF 2 \in DOMAIN words THEN TakeWord(first, words[2]) ELSE first
      BY <1>3, <2>4 DEF Parsed
    <3> QED
      BY <3>1, <3>3, <3>4 DEF Asked
  <2> QED
    BY <2>3, <2>4
<1> QED
  BY <1>2, <1>3

\* The frame that is made of it is the frame that was asked for, if it fits at all.
LEMMA FramedAsMeant ==
    ASSUME CLTypeOK, invocation.words # <<>>, IsCanId(invocation.words[1]),
           invocation.python \/ TakenAsMeant, Encodable
    PROVE  Frame(Parsed) = AskedFrame
<1> DEFINE words == invocation.words
<1>1. 2 \in DOMAIN words => words[2].digits \in Nat
  BY CommandAssumption DEF CLTypeOK, Invocation, Word
<1>2. Parsed = Asked
  BY ParsedAsMeant
<1>3. Asked.id \in 0 .. LastEff /\ Asked.data.whole /\ Asked.data.size \in Nat
  BY <1>1 DEF IsCanId, Asked, Spelled, NoBytes
<1>4. ~invocation.python => Asked.data.size <= MaxPayload
  BY <1>3 DEF TakenAsMeant, Asked, Spelled, NoBytes, MaxPayload
<1>5. Frame(Asked).size = Asked.data.size
  BY <1>3, <1>4 DEF Frame, MaxPayload
<1>6. Asked.data.size <= MaxPayload
  <2>1. CASE ~invocation.python
    BY <1>4, <2>1
  <2>2. CASE invocation.python
    BY <1>2, <1>3, <1>5, <2>2 DEF Encodable, Overruns, MaxPayload
  <2> QED
    BY <2>1, <2>2
<1>7. Frame(Asked).id = Asked.id
  BY <1>3, SmallModulo, CommandAssumption DEF Frame
<1> QED
  BY <1>2, <1>3, <1>5, <1>6, <1>7 DEF Frame, AskedFrame

\* An undisturbed `send`, and an undisturbed `monitor --trigger`, end successfully
\* only after the frame that was asked for was accepted: for Python whatever it does
\* not refuse, for C++ what is TakenAsMeant.
THEOREM SentAsAsked == CLSpec => []SendsWhatWasAsked
<1>1. CommandInv => SendsWhatWasAsked
  BY FramedAsMeant DEF CommandInv, SentKnown, SendsWhatWasAsked, EndedWell
<1> QED
  BY <1>1, CommandInvariant, PTL
=============================================================================
