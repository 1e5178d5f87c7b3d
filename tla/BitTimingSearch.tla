-------------------------- MODULE BitTimingSearch --------------------------
(***************************************************************************)
(* calculateBitTiming() of src/src/bit_timing.cpp and                      *)
(* calculate_bit_timing() of python/src/gsusb_canfd/protocol.py: the       *)
(* search over the prescalers of an adapter for the bit timing whose       *)
(* sample point is closest to the requested one.  The two programs differ  *)
(* in nothing but how they round halves, and are stepped together here.    *)
(* Quotients are kept exact: a sample point is a number of thousandths,    *)
(* clock and bit rate are in the same unit, comparisons are multiplied     *)
(* out.                                                                    *)
(***************************************************************************)
EXTENDS Integers

CONSTANTS
    Requests,   \* what configure() may ask for
    UintMax     \* the largest uint32_t

Lang == {"cpp", "python"}

\* The constants an adapter reports, taken as they are, and the arguments of one
\* call.
Limits == [tseg1_min : 0 .. UintMax, tseg1_max : 0 .. UintMax, tseg2_min : 0 .. UintMax,
           tseg2_max : 0 .. UintMax, sjw_max : 0 .. UintMax, brp_min : 0 .. UintMax,
           brp_max : 0 .. UintMax, brp_inc : 0 .. UintMax]
Request == [bitrate : Nat, sample : Int, fclk : Nat, limits : Limits]

ASSUME RequestAssumption == UintMax \in Nat /\ Requests \subseteq Request

VARIABLES
    request,    \* the arguments of the call
    brp,        \* the loop variable
    best,       \* per program, the prescaler of `best`, 0 when not `found`
    status,     \* "search", "done" or "threw" (the two programs always agree
                \* on the arguments they refuse)
    tried       \* history: the prescalers looked at

vars == <<request, brp, best, status, tried>>

TypeOK ==
    /\ request \in Requests
    /\ brp \in Nat
    /\ best \in [Lang -> Nat]
    /\ status \in {"search", "done", "threw"}
    /\ tried \subseteq Nat

-----------------------------------------------------------------------------
AbsOf(n) == IF n < 0 THEN -n ELSE n

\* n / d to the nearest integer: std::lround rounds halves away from zero,
\* Python's round to the even neighbour.  n and d are positive.
RoundDown(lang, n, d) == n \div d
Round(lang, n, d) ==
    LET q == n \div d
        r == 2 * (n % d)
    IN IF r < d THEN q
       ELSE IF r > d \/ lang = "cpp" \/ q % 2 = 1 THEN q + 1
       ELSE q

\* Quanta per bit for prescaler p, and its segments.
Total(lang, p) == Round(lang, request.fclk, request.bitrate * p)
Tseg1(lang, p) == Round(lang, request.sample * Total(lang, p), 1000) - 1
Tseg2(lang, p) == Total(lang, p) - 1 - Tseg1(lang, p)

\* A bit of t quanta at prescaler p is within one percent of the bit rate.
RateFits(p, t) ==
    100 * AbsOf(request.fclk - t * request.bitrate * p) <= request.fclk

SegmentsFit(tseg1, tseg2) ==
    /\ tseg1 \in request.limits.tseg1_min .. request.limits.tseg1_max
    /\ tseg2 \in request.limits.tseg2_min .. request.limits.tseg2_max

\* A search that begins with prescaler 0 ends in Python with a ZeroDivisionError;
\* in C++ the quotient is infinite, and no segment of such a bit fits.
DividesByZero(lang) == lang = "python" /\ request.limits.brp_min = 0

\* Variant: the second segment is not compared with its limits.
FitsFirstSegment(lang, p) ==
    /\ p # 0 /\ ~DividesByZero(lang)
    /\ Total(lang, p) >= 2
    /\ RateFits(p, Total(lang, p))
    /\ SegmentsFit(Tseg1(lang, p), request.limits.tseg2_min)

Fits(lang, p) ==
    /\ p # 0 /\ ~DividesByZero(lang)
    /\ Total(lang, p) >= 2
    /\ RateFits(p, Total(lang, p))
    /\ SegmentsFit(Tseg1(lang, p), Tseg2(lang, p))

\* The distance from the sample point, of a bit of t quanta, is the quotient
\* Deviation / (1000 * t).
Deviation(tseg1, t) == AbsOf(1000 * (1 + tseg1) - request.sample * t)
Err(lang, p)        == Deviation(Tseg1(lang, p), Total(lang, p))

Closer(lang, p, q) == Err(lang, p) * Total(lang, q) < Err(lang, q) * Total(lang, p)

\* Variant: an equally good later prescaler replaces an earlier one.
ImprovesOrEquals(lang, p) ==
    best[lang] = 0 \/ ~Closer(lang, best[lang], p)

Improves(lang, p) == best[lang] = 0 \/ Closer(lang, p, best[lang])

\* brp_inc 0 means 1.
StrideAsReported(limits) == limits.brp_inc
Stride(limits) == IF limits.brp_inc = 0 THEN 1 ELSE limits.brp_inc

\* One below zero: the cast to uint32_t wraps, a Python int does not.
BelowZero(lang) == IF lang = "cpp" THEN UintMax ELSE -1

AtLeastOne(n) == IF n < 1 THEN 1 ELSE n

\* The BitTiming that is returned for prescaler p.
Timing(lang, p) ==
    LET tseg1 == Tseg1(lang, p)
        tseg2 == Tseg2(lang, p)
    IN [prop_seg |-> 1, phase_seg1 |-> IF tseg1 = 0 THEN BelowZero(lang) ELSE tseg1 - 1,
        phase_seg2 |-> tseg2, brp |-> p,
        sjw |-> AtLeastOne(IF tseg2 < request.limits.sjw_max THEN tseg2
                           ELSE request.limits.sjw_max)]

-----------------------------------------------------------------------------
Init ==
    /\ request \in Requests
    /\ brp = request.limits.brp_min
    /\ best = [lang \in Lang |-> 0]
    /\ status = "search"
    /\ tried = {}

ArgumentsRefused ==
    \/ request.bitrate = 0
    \/ request.sample \notin 1 .. 999
    \/ request.fclk = 0

Refuse ==
    /\ status = "search" /\ ArgumentsRefused
    /\ status' = "threw"
    /\ UNCHANGED <<request, brp, best, tried>>

Try ==
    /\ status = "search" /\ ~ArgumentsRefused
    /\ brp <= request.limits.brp_max
    /\ best' = [lang \in Lang |->
                  IF Fits(lang, brp) /\ Improves(lang, brp) THEN brp ELSE best[lang]]
    /\ brp' = brp + Stride(request.limits)
    /\ tried' = tried \cup {brp}
    /\ UNCHANGED <<request, status>>

\* The end of the loop; a program that found nothing throws.
Finish ==
    /\ status = "search" /\ ~ArgumentsRefused
    /\ brp > request.limits.brp_max
    /\ status' = "done"
    /\ UNCHANGED <<request, brp, best, tried>>

Next == Refuse \/ Try \/ Finish

Spec == Init /\ [][Next]_vars

\* The search is a loop of one thread: it goes on until it ends.
FairSpec == Spec /\ WF_vars(Next)

Found(lang) == status = "done" /\ best[lang] # 0

-----------------------------------------------------------------------------
(***************************************************************************)
(* Properties.                                                             *)
(***************************************************************************)

\* Prescaler p is one that the adapter's stride reaches.
OnGrid(p) == \E k \in 0 .. p : p = request.limits.brp_min + k * Stride(request.limits)

\* The segments add up to a bit of the requested length within one percent, and
\* stay within what the adapter reported.
SegmentsLegal(t) ==
    /\ t.phase_seg1 >= 0
    /\ SegmentsFit(t.prop_seg + t.phase_seg1, t.phase_seg2)
    /\ RateFits(t.brp, 1 + (t.prop_seg + t.phase_seg1) + t.phase_seg2)

\* prop_seg is 1 whatever the first segment is: when it has no quanta at all,
\* phase_seg1 goes below zero, and the sum is only right modulo 2^32.
FirstSegmentWraps(lang, t) ==
    /\ t.phase_seg1 = BelowZero(lang)
    /\ RateFits(t.brp, 1 + 0 + t.phase_seg2)
    /\ SegmentsFit(0, t.phase_seg2)

\* What is handed to the adapter is legal for it: prescaler, segments and jump
\* width are those it reported.  The exceptions are adapters that report zeros:
\* only where the first segment may have no quanta can phase_seg1 wrap, and a
\* jump width of 1 is sent where the limit is, or the second segment has, none.
TimingIsLegal ==
    \A lang \in Lang : Found(lang) =>
        LET t == Timing(lang, best[lang])
        IN /\ SegmentsLegal(t) \/ (request.limits.tseg1_min = 0 /\ FirstSegmentWraps(lang, t))
           /\ t.sjw \in 1 .. AtLeastOne(request.limits.sjw_max)
           /\ t.sjw <= AtLeastOne(t.phase_seg2)
           /\ t.brp \in request.limits.brp_min .. request.limits.brp_max
           /\ OnGrid(t.brp)

\* No prescaler with a legal nearest split was overlooked, and none of their
\* splits, however it divides the quanta, has a closer sample point.
NoCloserSplit ==
    \A lang \in Lang :
        status = "done" =>
            \A p \in request.limits.brp_min .. request.limits.brp_max :
                OnGrid(p) /\ Fits(lang, p) =>
                    /\ Found(lang)
                    /\ \A tseg1 \in 0 .. Total(lang, p) :
                          Err(lang, best[lang]) * Total(lang, p)
                             <= Deviation(tseg1, Total(lang, p)) * Total(lang, best[lang])

\* Of equally close prescalers the smallest is taken: it has the most quanta.
FirstOfEquals ==
    \A lang \in Lang : Found(lang) =>
        \A p \in tried : p < best[lang] /\ Fits(lang, p) => Closer(lang, best[lang], p)

\* Every call ends, whatever increment the adapter reports.
Terminates == <>(status # "search")

\* README: the implementations "speak the same wire protocol" and "are
\* interchangeable".  Asked for the same bit rate on the same adapter, both
\* would send it the same timing.
Interchangeable ==
    status = "done" =>
        /\ Found("cpp") <=> Found("python")
        /\ Found("cpp") => Timing("cpp", best["cpp"]) = Timing("python", best["python"])

\* A quotient that ends in a half: lround() and round() may take different sides.
Half(n, d) == 2 * (n % d) = d

\* A prescaler that one of the programs may take, and where that happens.
MeetsHalf(p) ==
    /\ \E lang \in Lang : Fits(lang, p)
    /\ \/ Half(request.fclk, request.bitrate * p)
       \/ \E lang \in Lang : Half(request.sample * Total(lang, p), 1000)

\* An adapter whose prescalers or first segment may be zero.
ReportsZero == request.limits.brp_min = 0 \/ request.limits.tseg1_min = 0

\* The programs are interchangeable as long as they meet no such prescaler and no
\* such adapter.
InterchangeableWithoutHalves ==
    Interchangeable \/ ReportsZero \/ \E p \in tried : MeetsHalf(p)

-----------------------------------------------------------------------------
(***************************************************************************)
(* The inductive invariant: `best` is the first of the closest prescalers  *)
(* tried so far.                                                           *)
(***************************************************************************)
BestSoFar ==
    \A lang \in Lang :
        /\ best[lang] # 0 => best[lang] \in tried /\ Fits(lang, best[lang])
        /\ \A p \in tried : Fits(lang, p) =>
              /\ best[lang] # 0
              /\ ~Closer(lang, p, best[lang])
              /\ p < best[lang] => Closer(lang, best[lang], p)

TriedBelow ==
    /\ \A p \in tried : request.limits.brp_min <= p /\ p <= request.limits.brp_max /\ p < brp
    /\ tried # {} => ~ArgumentsRefused
    /\ request.limits.brp_min <= brp
    /\ \A p \in tried \cup {brp} : OnGrid(p)

SearchInv == TypeOK /\ TriedBelow /\ BestSoFar

\* The loop skips no prescaler that the adapter's stride reaches, and only ends
\* behind the last one.
AllTried ==
    /\ \A p \in 0 .. brp - 1 : OnGrid(p) => p \in tried
    /\ status = "done" => brp > request.limits.brp_max

\* Both programs hold the same prescaler until one meets a half.
BestAgree == best["cpp"] = best["python"] \/ ReportsZero \/ \E p \in tried : MeetsHalf(p)
=============================================================================
