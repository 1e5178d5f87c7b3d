------------------------- MODULE MCBitTimingSearch -------------------------
(***************************************************************************)
(* Requests in kHz and kbit/s: the clocks of common adapters, bit rates    *)
(* that divide them exactly, nearly or not at all, and limits of which the *)
(* second has a stride and narrow segments and the last as many zeros as   *)
(* an adapter can report.                                                  *)
(***************************************************************************)
EXTENDS BitTimingSearch

Wide == [tseg1_min |-> 1, tseg1_max |-> 256, tseg2_min |-> 1, tseg2_max |-> 128,
         sjw_max |-> 128, brp_min |-> 1, brp_max |-> 32, brp_inc |-> 1]
Narrow == [tseg1_min |-> 1, tseg1_max |-> 16, tseg2_min |-> 2, tseg2_max |-> 8,
           sjw_max |-> 4, brp_min |-> 2, brp_max |-> 24, brp_inc |-> 2]
NoStride == [Narrow EXCEPT !.brp_inc = 0, !.brp_max = 12]
Zeros == [Narrow EXCEPT !.tseg1_min = 0, !.tseg2_min = 0, !.sjw_max = 0, !.brp_min = 0]

MCRequests ==
    [bitrate : {0, 125, 500, 800, 1000, 5000, 7300, 8000}, sample : {0, 250, 750, 800, 875, 999, 1500},
     fclk : {0, 48000, 80000}, limits : {Wide, Narrow, NoStride, Zeros}]
=============================================================================
