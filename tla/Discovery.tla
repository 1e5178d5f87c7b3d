----------------------------- MODULE Discovery -----------------------------
(***************************************************************************)
(* Finding and selecting adapters: scanAdapters(), findDevices() and       *)
(* UsbTransport::open() of src/src/usb_transport.cpp, open(info) of        *)
(* device.cpp, and their Python counterparts in bus.py, while devices are  *)
(* plugged, moved, and taken by other programs between one call and the    *)
(* next.  Where the system opens a device only once, none of the strings   *)
(* of a device that another handle holds can be read; elsewhere only its   *)
(* interface cannot be claimed.                                            *)
(***************************************************************************)
EXTENDS Integers, FiniteSets

CONSTANTS
    Units,      \* the USB devices around, adapters and others
    Attributes, \* [Units -> Attribute]
    Ports,      \* USB locations (bus and address), in enumeration order
    KnownIds,   \* isKnownGsUsbId()
    Selectors,  \* the DeviceSelectors the program starts with
    None        \* an absent optional, an unread or empty string

\* vid:pid, the serial, the product filters that its product string contains, whether
\* manufacturer and product contain a hint (None when the device has no strings), and
\* the alternate settings of its interfaces: whether the class is the vendor's (FF),
\* and in which directions there are bulk endpoints.
Attribute(a) ==
    /\ a.id # None
    /\ a.hint \in BOOLEAN \cup {None} /\ None \notin a.products
    /\ a.alts \subseteq [vendor : BOOLEAN, bulk : SUBSET {"in", "out"}]

Selector(s) ==
    s = [id |-> s.id, index |-> s.index, serial |-> s.serial, product |-> s.product,
         port |-> s.port]

ASSUME DiscoveryAssumption ==
    /\ IsFiniteSet(Units) /\ None \notin Units \cup BOOLEAN
    /\ Ports \subseteq Nat /\ None \notin Ports
    /\ \A u \in Units : Attribute(Attributes[u])
    /\ \A s \in Selectors : Selector(s)

VARIABLES
    exclusive,  \* the system opens a device only once
    port,       \* where each unit is plugged, None when it is not
    busy,       \* units that another program has opened
    selector,   \* the DeviceSelector of the bus
    scan,       \* what the last scanAdapters(0, 0) returned, see Info
    opened,     \* the unit the bus has opened, None without one
    asked,      \* history: "selector", "info" or "index", what the last open() went by
    sought,     \* history: the entry of `scan` that was meant
    fresh,      \* history: whether nothing has changed since the scan
    complete,   \* history: whether the scan listed the unit the bus had open, if any
    result      \* how the last open() ended

usb     == <<exclusive, port, busy>>
history == <<asked, sought, fresh, complete>>
vars    == <<usb, selector, scan, opened, history, result>>

TypeOK ==
    /\ {exclusive, fresh, complete} \subseteq BOOLEAN
    /\ port \in [Units -> Ports \cup {None}]
    /\ busy \subseteq Units
    /\ Selector(selector)
    /\ opened \in Units \cup {None}
    /\ asked \in {"selector", "info", "index"}
    /\ result \in {"none", "ok", "not found", "error"}

Plugged == {u \in Units : port[u] # None}

-----------------------------------------------------------------------------
(***************************************************************************)
(* Enumeration.                                                            *)
(***************************************************************************)
Free(u)     == u \notin busy /\ u # opened
Readable(u) == exclusive => Free(u)

Serial(u) == IF Readable(u) THEN Attributes[u].serial ELSE None
Products(u) == IF Readable(u) THEN Attributes[u].products ELSE {}
Hint(u)   == IF Readable(u) THEN Attributes[u].hint ELSE None

BothWays(alt) == alt.bulk = {"in", "out"}

HasVendorBulkInterface(u) == \E alt \in Attributes[u].alts : alt.vendor /\ BothWays(alt)

\* findBulkInterface() takes the first of the vendor's class or else the first of any.
HasBulkInterface(u) == \E alt \in Attributes[u].alts : BothWays(alt)

\* Variant: a device without strings is no adapter.
LooksLikeNamed(u) == Attributes[u].id \in KnownIds \/ Hint(u) = TRUE

\* A known id, a hint in the strings, or, for want of strings, the shape of the
\* interface.
LooksLikeGsUsb(u) ==
    \/ Attributes[u].id \in KnownIds
    \/ Hint(u) = TRUE
    \/ Hint(u) = None /\ HasVendorBulkInterface(u)

\* The filters of a selector.  The location only counts without a serial.
Matches(sel, u) ==
    /\ sel.id \in {None, Attributes[u].id}
    /\ sel.serial \in {None, Serial(u)}
    /\ sel.product \in {None} \cup Products(u)
    /\ sel.serial = None => sel.port \in {None, port[u]}

\* findDevices(): the matching devices.
Found(sel, useHeuristics) ==
    {u \in Plugged : Matches(sel, u) /\ (useHeuristics => LooksLikeGsUsb(u))}

\* The index of a device among those found, which are in the order of the locations.
Place(unit, found) == Cardinality({u \in found : port[u] < port[unit]})

\* Variant: only the scan is by name and shape.
ScanOnly(sel) == FALSE

\* The devices are judged by name and shape when neither vid nor pid is given.
UseHeuristics(sel) == sel.id = None

AnyAdapter == [id |-> None, index |-> 0, serial |-> None, product |-> None, port |-> None]

\* A selector without filters.
Unfiltered(sel) == sel = [AnyAdapter EXCEPT !.index = sel.index]

\* What a scan tells of a device, and where in its list.
Info(u, found) ==
    [unit |-> u, id |-> Attributes[u].id, serial |-> Serial(u), port |-> port[u],
     place |-> Place(u, found)]

-----------------------------------------------------------------------------
Init ==
    /\ exclusive \in BOOLEAN
    /\ port = [u \in Units |-> None]
    /\ busy = {} /\ opened = None
    /\ selector \in Selectors
    /\ scan = {}
    /\ asked = "selector" /\ sought = None /\ fresh = FALSE /\ complete = TRUE
    /\ result = "none"

\* Devices come and go while the program does something else.
Around(newPort, newBusy) ==
    /\ port' = newPort /\ busy' = newBusy
    /\ fresh' = FALSE
    /\ UNCHANGED <<exclusive, selector, scan, opened, asked, sought, complete, result>>

Plug(u, p) ==
    /\ u # opened /\ u \notin Plugged /\ \A v \in Units : port[v] # p
    /\ Around([port EXCEPT ![u] = p], busy)

\* A handle that was opened on the device stays until it is closed.
Unplug(u) == u \in Plugged /\ Around([port EXCEPT ![u] = None], busy \ {u})

\* Another program opens a device, or lets it go.
Grab(u) == u \in Plugged /\ Free(u) /\ Around(port, busy \cup {u})
Drop(u) == u \in busy /\ Around(port, busy \ {u})

\* scanAdapters(0, 0).
Scan ==
    /\ LET found == Found(AnyAdapter, TRUE) IN
       /\ scan' = {Info(u, found) : u \in found}
       /\ complete' = (opened \in Plugged => opened \in found)
    /\ fresh' = TRUE
    /\ UNCHANGED <<usb, selector, opened, asked, sought, result>>

-----------------------------------------------------------------------------
\* The device at sel.index among those that match is opened, and its interface claimed.
OpenSelected(sel) ==
    /\ opened = None
    /\ selector' = sel
    /\ LET found == Found(sel, UseHeuristics(sel)) IN
       \/ \E unit \in found :
             /\ Place(unit, found) = sel.index
             /\ \/ Free(unit) /\ HasBulkInterface(unit) /\ opened' = unit /\ result' = "ok"
                \/ Free(unit) /\ ~HasBulkInterface(unit) /\ UNCHANGED opened /\ result' = "not found"
                \/ ~Free(unit) /\ UNCHANGED opened /\ result' = "error"
       \/ /\ \A unit \in found : Place(unit, found) # sel.index
          /\ UNCHANGED opened /\ result' = "not found"
    /\ UNCHANGED <<usb, scan, fresh, complete>>

\* open(): what the selector says.  (A bus that is open is closed first.)
Open == OpenSelected(selector) /\ UNCHANGED <<asked, sought>>

\* Variant: the location is stored and not the serial.
SelectorByPort(info) == [AnyAdapter EXCEPT !.id = info.id, !.port = info.port]

\* Variant: the index stays.
SelectorKeepsIndex(info) ==
    [id |-> info.id, index |-> selector.index, serial |-> info.serial, product |-> None,
     port |-> IF info.serial = None THEN info.port ELSE None]

\* What open(info) stores in the selector.
SelectorFor(info) ==
    [id |-> info.id, index |-> 0, serial |-> info.serial, product |-> None,
     port |-> IF info.serial = None THEN info.port ELSE None]

\* open(info) with an entry of the last scan.
OpenInfo(info) ==
    /\ OpenSelected(SelectorFor(info))
    /\ asked' = "info" /\ sought' = info

\* The terminal's `open <index>` and its picker: the index of an entry of the
\* scan that was shown is stored in the selector that the options made.
OpenIndex(info) ==
    /\ OpenSelected([selector EXCEPT !.index = info.place])
    /\ asked' = "index" /\ sought' = info

Close ==
    /\ opened # None
    /\ opened' = None
    /\ UNCHANGED <<usb, selector, scan, history, result>>

Next ==
    \/ \E u \in Units : Unplug(u) \/ Grab(u) \/ Drop(u) \/ \E p \in Ports : Plug(u, p)
    \/ Scan
    \/ Open
    \/ \E info \in scan : OpenInfo(info) \/ OpenIndex(info)
    \/ Close

Spec == Init /\ [][Next]_vars

-----------------------------------------------------------------------------
(***************************************************************************)
(* Properties.                                                             *)
(***************************************************************************)
\* device.cpp: "a serial is stable across ports, so it wins over the USB
\* location".  However the devices were moved and taken since the scan, open(info)
\* of an entry with a serial, and every open() after it, opens that unit or none.
SerialPinsUnit ==
    opened # None /\ asked = "info" /\ sought.serial # None => opened = sought.unit

\* An entry with a serial is only reported as not found when its unit is away,
\* taken, or without endpoints to talk to.
NotFoundMeansAway ==
    [][\A info \in scan :
          OpenInfo(info) /\ info.serial # None /\ result' = "not found" =>
              \/ info.unit \notin Plugged \/ ~Free(info.unit)
              \/ ~HasBulkInterface(info.unit)]_vars

\* Listed whether its strings can be read or not.
AlwaysListed(u) ==
    \/ Attributes[u].id \in KnownIds
    \/ Attributes[u].hint # FALSE /\ HasVendorBulkInterface(u)

\* usb_transport.cpp: the interface shape "keeps a busy adapter discoverable":
\* whoever has an adapter open, a scan lists it.
BusyStaysListed ==
    [][Scan => \A u \in Plugged :
          AlwaysListed(u) => \E info \in scan' : info.unit = u]_vars

\* usb_transport.cpp: "... without matching unrelated USB devices".
UnrelatedNotListed ==
    \A info \in scan :
        Attributes[info.unit].id \in KnownIds \/ Attributes[info.unit].hint # FALSE

\* README: open(AdapterInfo) is "to reopen the exact unit a scan returned".
ExactUnit == opened # None /\ asked = "info" => opened = sought.unit

\* canfd_term.cpp: "select device [0-N]" after the list of adapters, "open <index>"
\* after `scan`.  With nothing changed in between, the N-th of the list is opened.
PickedIsOpened ==
    [][\A info \in scan : fresh /\ OpenIndex(info) => opened' \in {None, info.unit}]_vars

\* So it is, or it cannot be opened, as long as the selector filters nothing - the
\* list, the one of all adapters, takes no notice of filters - and the scan was not
\* made while the bus itself held an adapter that the scan then overlooked (one that
\* only its strings tell, which nobody can read meanwhile).
PickedFromWholeList ==
    [][\A info \in scan :
          fresh /\ complete /\ Unfiltered(selector) /\ OpenIndex(info) =>
              \/ opened' = info.unit
              \/ opened' = None /\ ~(Free(info.unit) /\ HasBulkInterface(info.unit))]_vars
-----------------------------------------------------------------------------
(***************************************************************************)
(* What the properties rest on: facts about the devices, under which they  *)
(* hold, and the inductive invariants.                                     *)
(***************************************************************************)
\* A serial is given to one unit of a kind only.
SerialsDiffer ==
    \A u, v \in Units :
        Attributes[u].serial = Attributes[v].serial /\ Attributes[u].id = Attributes[v].id
        => Attributes[u].serial = None \/ u = v

\* Two devices are never in one place.
PlacesDiffer == \A u, v \in Plugged : port[u] = port[v] => u = v

\* An entry of a scan belongs to a unit; its serial was read, or is missing.
Describes(info) ==
    /\ info.unit \in Units /\ info.id = Attributes[info.unit].id
    /\ info.serial \in {None, Attributes[info.unit].serial}

\* open(info) leaves the selector at the entry that was meant.
SoughtKnown == asked = "info" => Describes(sought) /\ selector = SelectorFor(sought)

DiscoveryInv ==
    TypeOK /\ PlacesDiffer /\ (\A info \in scan : Describes(info)) /\ SoughtKnown

\* What a scan lists when the bus holds no device.
Listable ==
    {u \in Plugged :
        LET hint == IF exclusive => u \notin busy THEN Attributes[u].hint ELSE None
        IN  \/ Attributes[u].id \in KnownIds
            \/ hint = TRUE
            \/ hint = None /\ HasVendorBulkInterface(u)}

\* As long as nothing is filtered, a bus has opened what any scan without it would
\* list, and a complete list in which nothing has changed has its units in their places.
ListKnown ==
    Unfiltered(selector) =>
        /\ opened \in Plugged => opened \in Listable \ busy
        /\ fresh /\ complete =>
               \A info \in scan :
                   info.unit \in Listable /\ info.place = Place(info.unit, Listable)
=============================================================================
