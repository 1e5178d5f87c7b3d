---------------------------- MODULE MCDiscovery ----------------------------
(***************************************************************************)
(* Small instances of Discovery.  Two adapters of one vendor, known by     *)
(* their strings only, with serials of their own beside a device that is   *)
(* no adapter, or without any; and adapters of two vendors.                *)
(***************************************************************************)
EXTENDS Discovery, TLC

CONSTANTS first, second, other

Bulk(isVendor) == [vendor |-> isVendor, bulk |-> {"in", "out"}]

\* A gs_usb interface, alone or behind that of a serial port.
GsUsb     == {Bulk(TRUE)}
Composite == {Bulk(FALSE), Bulk(TRUE)}

\* An adapter that nothing but its strings tells, one with the interface of an adapter
\* too, and a device without bulk endpoints.
WithSerials ==
    first :> [id |-> "clone", serial |-> "one", products |-> {"canable"}, hint |-> TRUE,
              alts |-> {Bulk(FALSE)}]
    @@ second :> [id |-> "clone", serial |-> "two", products |-> {}, hint |-> TRUE,
                  alts |-> Composite]
    @@ other :> [id |-> "mouse", serial |-> "x", products |-> {}, hint |-> FALSE, alts |-> {}]

WithoutSerials ==
    first :> [id |-> "gs", serial |-> None, products |-> {}, hint |-> TRUE, alts |-> GsUsb]
    @@ second :> [id |-> "gs", serial |-> None, products |-> {}, hint |-> TRUE, alts |-> GsUsb]

\* A debugger with a vendor interface and a plain name.
WithStranger ==
    first :> [id |-> "gs", serial |-> "one", products |-> {}, hint |-> TRUE, alts |-> GsUsb]
    @@ other :> [id |-> "debugger", serial |-> "x", products |-> {}, hint |-> FALSE, alts |-> GsUsb]

\* An adapter with an unknown id, before a known one.
TwoVendors ==
    first :> [id |-> "clone", serial |-> "one", products |-> {}, hint |-> TRUE, alts |-> GsUsb]
    @@ second :> [id |-> "gs", serial |-> "two", products |-> {}, hint |-> TRUE, alts |-> Composite]

Anything ==
    {AnyAdapter, [AnyAdapter EXCEPT !.id = "mouse"], [AnyAdapter EXCEPT !.product = "canable"]}
ByVendor == {[AnyAdapter EXCEPT !.id = "gs"]}
=============================================================================
