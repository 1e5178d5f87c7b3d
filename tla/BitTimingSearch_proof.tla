----------------------- MODULE BitTimingSearch_proof -----------------------
(***************************************************************************)
(* Proofs about BitTimingSearch: for every request and every set of limits *)
(* the search keeps the first of the closest prescalers it has tried.      *)
(***************************************************************************)
EXTENDS BitTimingSearch, TLAPS

\* a/b < c/d and c/d <= e/f give a/f < e/b, for positive denominators.
LEMMA QuotientsCompose ==
    ASSUME NEW a \in Int, NEW c \in Int, NEW e \in Int,
           NEW b \in Nat \ {0}, NEW d \in Nat \ {0}, NEW f \in Nat \ {0},
           a * d < c * b, c * f <= e * d
    PROVE  a * f < e * b
<1>1. (a * d) * f < (c * b) * f
  OBVIOUS
<1>2. (c * f) * b <= (e * d) * b
  OBVIOUS
<1>3. (a * f) * d < (e * b) * d
  BY <1>1, <1>2
<1> QED
  BY <1>3

\* Rounding a quotient gives an integer.
LEMMA RoundType ==
    ASSUME NEW lang \in Lang, NEW n \in Int, NEW d \in Nat \ {0}
    PROVE  Round(lang, n, d) \in Int
<1>1. n \div d \in Int /\ n % d \in Int
  OBVIOUS
<1> QED
  BY <1>1 DEF Round

\* The quantities the search compares are integers.
LEMMA QuantaType ==
    ASSUME TypeOK, ~ArgumentsRefused, NEW lang \in Lang, NEW p \in Nat \ {0}
    PROVE  Total(lang, p) \in Int /\ Tseg1(lang, p) \in Int /\ Err(lang, p) \in Int
<1>1. request \in Request
  BY RequestAssumption DEF TypeOK
<1>2. request.fclk \in Int /\ request.sample \in Int /\ request.bitrate \in Nat \ {0}
  BY <1>1 DEF Request, ArgumentsRefused
<1>3. request.bitrate * p \in Nat \ {0}
  BY <1>2
<1>4. Total(lang, p) \in Int
  BY <1>2, <1>3, RoundType DEF Total
<1>5. request.sample * Total(lang, p) \in Int
  BY <1>2, <1>4
<1>6. Round(lang, request.sample * Total(lang, p), 1000) \in Int
  BY <1>5, RoundType
<1>7. Tseg1(lang, p) \in Int
  BY <1>6 DEF Tseg1
<1>8. 1000 * (1 + Tseg1(lang, p)) - request.sample * Total(lang, p) \in Int
  BY <1>5, <1>7
<1>9. Err(lang, p) \in Int
  BY <1>8 DEF Err, Deviation, AbsOf
<1> QED
  BY <1>4, <1>7, <1>9

\* A prescaler that is closer than one that is no farther than a third is
\* closer than that third.
LEMMA CloserComposes ==
    ASSUME TypeOK, ~ArgumentsRefused, NEW lang \in Lang,
           NEW p \in Nat \ {0}, NEW q \in Nat \ {0}, NEW r \in Nat \ {0},
           Fits(lang, p), Fits(lang, q), Fits(lang, r),
           Closer(lang, p, q), ~Closer(lang, r, q)
    PROVE  Closer(lang, p, r) /\ ~Closer(lang, r, p)
<1>1. /\ Err(lang, p) \in Int /\ Err(lang, q) \in Int /\ Err(lang, r) \in Int
      /\ Total(lang, p) \in Nat \ {0} /\ Total(lang, q) \in Nat \ {0}
      /\ Total(lang, r) \in Nat \ {0}
  BY QuantaType DEF Fits
<1>2. Err(lang, p) * Total(lang, q) < Err(lang, q) * Total(lang, p)
  BY DEF Closer
<1>3. Err(lang, q) * Total(lang, r) <= Err(lang, r) * Total(lang, q)
  <2> DEFINE m == Err(lang, q) * Total(lang, r)
             n == Err(lang, r) * Total(lang, q)
  <2>1. m \in Int /\ n \in Int /\ ~(n < m)
    BY <1>1 DEF Closer
  <2> HIDE DEF m, n
  <2>2. m <= n
    BY <2>1
  <2> QED
    BY <2>2 DEF m, n
<1>4. Err(lang, p) * Total(lang, r) < Err(lang, r) * Total(lang, p)
  BY <1>1, <1>2, <1>3, QuotientsCompose
<1>5. Err(lang, p) * Total(lang, r) \in Int /\ Err(lang, r) * Total(lang, p) \in Int
  BY <1>1
<1> QED
  BY <1>4, <1>5 DEF Closer

\* The initial states satisfy the invariant.
LEMMA SearchInvInit == Init => SearchInv
<1> SUFFICES ASSUME Init PROVE SearchInv
  OBVIOUS
<1>1. request.limits.brp_min \in Nat
  BY RequestAssumption DEF Init, Request, Limits
<1>2. TypeOK
  BY <1>1 DEF Init, TypeOK
<1>3. TriedBelow
  <2>1. OnGrid(brp)
    <3>1. request.limits.brp_min = request.limits.brp_min + 0 * Stride(request.limits)
      BY <1>1, RequestAssumption DEF Init, Request, Limits, Stride
    <3>2. 0 \in 0 .. brp
      BY <1>1 DEF Init
    <3> QED
      BY <3>1, <3>2 DEF Init, OnGrid
  <2> QED
    BY <1>1, <2>1 DEF Init, TriedBelow
<1>4. BestSoFar
  BY DEF Init, BestSoFar
<1> QED
  BY <1>2, <1>3, <1>4 DEF SearchInv

\* Trying one more prescaler keeps `best` the first of the closest.
LEMMA TryKeepsBest ==
    ASSUME SearchInv, Try
    PROVE  BestSoFar'
<1>1. /\ request' = request /\ tried' = tried \cup {brp} /\ ~ArgumentsRefused
      /\ TypeOK /\ brp \in Nat
      /\ \A p \in tried : p \in Nat /\ p < brp
  BY RequestAssumption DEF Try, SearchInv, TypeOK, TriedBelow, Request, Limits
<1>2. ASSUME NEW lang \in Lang
      PROVE  /\ best'[lang] # 0 => best'[lang] \in tried' /\ Fits(lang, best'[lang])
             /\ \A p \in tried' : Fits(lang, p) =>
                  /\ best'[lang] # 0
                  /\ ~Closer(lang, p, best'[lang])
                  /\ p < best'[lang] => Closer(lang, best'[lang], p)
  <2>1. best'[lang] = IF Fits(lang, brp) /\ Improves(lang, brp) THEN brp ELSE best[lang]
    BY DEF Try
  <2>2. /\ best[lang] # 0 => best[lang] \in tried /\ Fits(lang, best[lang])
        /\ \A p \in tried : Fits(lang, p) =>
              /\ best[lang] # 0
              /\ ~Closer(lang, p, best[lang])
              /\ p < best[lang] => Closer(lang, best[lang], p)
    BY DEF SearchInv, BestSoFar
  <2>3. CASE Fits(lang, brp) /\ Improves(lang, brp)
    <3>1. best'[lang] = brp
      BY <2>1, <2>3
    <3>2. ~Closer(lang, brp, brp)
      <4>1. Err(lang, brp) * Total(lang, brp) \in Int
        BY <1>1, <2>3, QuantaType DEF Fits
      <4> QED
        BY <4>1 DEF Closer
    <3>3. ASSUME NEW p \in tried, Fits(lang, p)
          PROVE  Closer(lang, brp, p) /\ ~Closer(lang, p, brp)
      <4>1. best[lang] # 0 /\ ~Closer(lang, p, best[lang]) /\ best[lang] \in tried
            /\ Fits(lang, best[lang])
        BY <2>2, <3>3
      <4>2. Closer(lang, brp, best[lang])
        BY <2>3, <4>1 DEF Improves
      <4>3. {brp, best[lang], p} \subseteq Nat \ {0}
        BY <1>1, <2>3, <3>3, <4>1 DEF Fits
      <4> QED
        BY <1>1, <2>3, <3>3, <4>1, <4>2, <4>3, CloserComposes
    <3>4. brp # 0 /\ ~(brp < brp)
      BY <1>1, <2>3 DEF Fits
    <3> QED
      BY <1>1, <2>3, <3>1, <3>2, <3>3, <3>4
  <2>4. CASE ~(Fits(lang, brp) /\ Improves(lang, brp))
    <3>1. best'[lang] = best[lang]
      BY <2>1, <2>4
    <3>2. ASSUME Fits(lang, brp)
          PROVE  best[lang] # 0 /\ ~Closer(lang, brp, best[lang]) /\ ~(brp < best[lang])
      <4>1. best[lang] # 0 /\ ~Closer(lang, brp, best[lang])
        BY <2>4, <3>2 DEF Improves
      <4>2. best[lang] \in Nat /\ best[lang] < brp
        BY <1>1, <2>2, <4>1
      <4> QED
        BY <1>1, <4>1, <4>2
    <3> QED
      BY <1>1, <2>2, <3>1, <3>2
  <2> QED
    BY <2>3, <2>4
<1>3. \A lang \in Lang, p \in Nat : Fits(lang, p)' <=> Fits(lang, p)
  BY <1>1 DEF Fits, DividesByZero, RateFits, SegmentsFit, Total, Tseg1, Tseg2
<1> QED
  BY <1>1, <1>2 DEF BestSoFar, Fits, DividesByZero, RateFits, SegmentsFit, Total, Tseg1, Tseg2, Closer, Err, Deviation

\* Every step keeps the invariant.
LEMMA SearchInvNext ==
    ASSUME SearchInv, [Next]_vars
    PROVE  SearchInv'
<1>1. CASE Refuse \/ Finish \/ UNCHANGED vars
  <2>1. UNCHANGED <<request, brp, best, tried>> /\ status' \in {"search", "done", "threw"}
    BY <1>1 DEF Refuse, Finish, vars, SearchInv, TypeOK
  <2>2. (TypeOK /\ TriedBelow)'
    BY <2>1 DEF SearchInv, TypeOK, TriedBelow, ArgumentsRefused, OnGrid
  <2>3. BestSoFar'
    BY <2>1 DEF SearchInv, BestSoFar, Fits, DividesByZero, RateFits, SegmentsFit, Total, Tseg1, Tseg2,
                Closer, Err, Deviation
  <2> QED
    BY <2>2, <2>3 DEF SearchInv
<1>2. CASE Try
  <2>1. request.limits \in Limits /\ brp \in Nat
    BY RequestAssumption DEF SearchInv, TypeOK, Request
  <2>2. Stride(request.limits) \in Nat \ {0}
    BY <2>1 DEF Stride, Limits
  <2>3. brp' \in Nat /\ brp < brp'
    BY <1>2, <2>1, <2>2 DEF Try
  <2>4. TypeOK'
    BY <1>2, <2>1, <2>3 DEF Try, SearchInv, TypeOK
  <2>5. ASSUME NEW p \in tried' \cup {brp'}
        PROVE  OnGrid(p)'
    <3>1. request' = request /\ tried' = tried \cup {brp} /\ brp' = brp + Stride(request.limits)
      BY <1>2 DEF Try
    <3>2. CASE p \in tried \cup {brp}
      BY <3>1, <3>2 DEF SearchInv, TriedBelow, OnGrid
    <3>3. CASE p = brp'
      <4>1. PICK k \in 0 .. brp : brp = request.limits.brp_min + k * Stride(request.limits)
        BY DEF SearchInv, TriedBelow, OnGrid
      <4>2. k + 1 \in 0 .. brp'
        BY <2>1, <2>3, <4>1
      <4>3. brp' = request.limits.brp_min + (k + 1) * Stride(request.limits)
        BY <2>1, <2>2, <3>1, <4>1 DEF Limits
      <4> QED
        BY <3>1, <3>3, <4>2, <4>3 DEF OnGrid
    <3> QED
      BY <3>1, <3>2, <3>3
  <2>6. TriedBelow'
    BY <1>2, <2>1, <2>3, <2>5 DEF Try, SearchInv, TypeOK, TriedBelow, ArgumentsRefused, Limits
  <2> QED
    BY <1>2, <2>4, <2>6, TryKeepsBest DEF SearchInv
<1> QED
  BY <1>1, <1>2 DEF Next

\* `best` is the first of the closest prescalers tried, in both programs.
THEOREM SearchKeepsBest == Spec => []SearchInv
<1>1. Init => SearchInv
  BY SearchInvInit
<1>2. SearchInv /\ [Next]_vars => SearchInv'
  BY SearchInvNext
<1> QED
  BY <1>1, <1>2, PTL DEF Spec

\* Equally close prescalers: the smallest wins.
THEOREM SmallestPrescaler == Spec => []FirstOfEquals
<1>1. SearchInv => FirstOfEquals
  BY DEF SearchInv, BestSoFar, FirstOfEquals, Found
<1> QED
  BY <1>1, SearchKeepsBest, PTL

\* The timing of a prescaler that fits stays within what the adapter reports,
\* but for the zeros that it reports.
LEMMA FitIsLegal ==
    ASSUME SearchInv, NEW lang \in Lang, Found(lang)
    PROVE  LET t == Timing(lang, best[lang])
           IN /\ SegmentsLegal(t) \/ (request.limits.tseg1_min = 0 /\ FirstSegmentWraps(lang, t))
              /\ t.sjw \in 1 .. AtLeastOne(request.limits.sjw_max)
              /\ t.sjw <= AtLeastOne(t.phase_seg2)
              /\ t.brp \in request.limits.brp_min .. request.limits.brp_max
              /\ OnGrid(t.brp)
<1> DEFINE p == best[lang]
           t == Timing(lang, p)
<1>1. /\ p \in tried /\ Fits(lang, p)
      /\ request.limits.brp_min <= p /\ p <= request.limits.brp_max /\ OnGrid(p)
      /\ ~ArgumentsRefused /\ p \in Nat
  BY DEF SearchInv, BestSoFar, TriedBelow, TypeOK, Found
<1>2. request.limits \in Limits
  BY RequestAssumption DEF SearchInv, TypeOK, Request
<1>3. p \in Nat \ {0}
  BY <1>1 DEF Fits
<1>4. Total(lang, p) \in Int /\ Tseg1(lang, p) \in Int /\ Tseg2(lang, p) \in Int
  BY <1>1, <1>3, QuantaType DEF SearchInv, Tseg2
<1>5. /\ t.prop_seg = 1 /\ t.phase_seg2 = Tseg2(lang, p) /\ t.brp = p
      /\ Tseg1(lang, p) = 0 => t.phase_seg1 = BelowZero(lang)
      /\ Tseg1(lang, p) # 0 => t.phase_seg1 = Tseg1(lang, p) - 1
  BY DEF Timing
<1>6. /\ t.sjw \in 1 .. AtLeastOne(request.limits.sjw_max)
      /\ t.sjw <= AtLeastOne(t.phase_seg2)
  BY <1>2, <1>4, RequestAssumption DEF Timing, Limits, AtLeastOne
<1>7. RateFits(p, Total(lang, p)) /\ SegmentsFit(Tseg1(lang, p), Tseg2(lang, p))
  BY <1>1 DEF Fits
<1>8. Tseg1(lang, p) >= request.limits.tseg1_min /\ request.limits.tseg1_min \in Nat
  BY <1>2, <1>4, <1>7, RequestAssumption DEF SegmentsFit, Limits
<1>9. p \in request.limits.brp_min .. request.limits.brp_max
  BY <1>1, <1>2, RequestAssumption DEF Limits
<1>10. Total(lang, p) = 1 + Tseg1(lang, p) + Tseg2(lang, p)
  BY <1>4 DEF Tseg2
<1> HIDE DEF t
<1>11. CASE Tseg1(lang, p) = 0
  <2>1. request.limits.tseg1_min = 0
    BY <1>8, <1>11
  <2>2. FirstSegmentWraps(lang, t)
    BY <1>5, <1>7, <1>10, <1>11 DEF FirstSegmentWraps
  <2> QED
    BY <1>1, <1>5, <1>6, <1>9, <2>1, <2>2 DEF t
<1>12. CASE Tseg1(lang, p) # 0
  <2>1. t.phase_seg1 >= 0 /\ t.prop_seg + t.phase_seg1 = Tseg1(lang, p)
    BY <1>4, <1>5, <1>8, <1>12
  <2>2. SegmentsLegal(t)
    BY <1>5, <1>7, <1>10, <2>1 DEF SegmentsLegal
  <2> QED
    BY <1>1, <1>5, <1>6, <1>9, <2>2 DEF t
<1> QED
  BY <1>11, <1>12

\* What either program sends to the adapter is legal for it, where the adapter
\* reports no zeros; where it does, this says how far it may be off.
THEOREM LegalTiming == Spec => []TimingIsLegal
<1>1. SearchInv => TimingIsLegal
  BY FitIsLegal DEF TimingIsLegal
<1> QED
  BY <1>1, SearchKeepsBest, PTL

-----------------------------------------------------------------------------
(***************************************************************************)
(* Nothing closer was overlooked: the grid is walked through, and the split*)
(* of a prescaler's quanta is the nearest that they allow.                 *)
(***************************************************************************)
\* Between two neighbours of the grid there is no third one.
LEMMA NoneBetween ==
    ASSUME NEW s \in Nat \ {0}, NEW j \in Nat, NEW k \in Nat, j * s < k * s
    PROVE  (j + 1) * s <= k * s
<1>1. CASE k <= j
  <2>1. PICK d \in Nat : j = k + d
    <3>1. j - k \in Nat /\ j = k + (j - k)
      BY <1>1
    <3> QED
      BY <3>1
  <2>2. d * s \in Nat /\ (k + d) * s = k * s + d * s
    BY <2>1
  <2> QED
    BY <2>1, <2>2
<1>2. CASE j + 1 <= k
  <2>1. PICK d \in Nat : k = (j + 1) + d
    <3>1. k - (j + 1) \in Nat /\ k = (j + 1) + (k - (j + 1))
      BY <1>2
    <3> QED
      BY <3>1
  <2>2. d * s \in Nat /\ ((j + 1) + d) * s = (j + 1) * s + d * s
    BY <2>1
  <2> QED
    BY <2>1, <2>2
<1> QED
  BY <1>1, <1>2

\* Every turn of the loop goes on to the next prescaler of the grid.
LEMMA AllTriedNext ==
    ASSUME SearchInv, AllTried, [Next]_vars
    PROVE  AllTried'
<1>1. CASE Refuse \/ UNCHANGED vars
  BY <1>1 DEF Refuse, vars, AllTried, OnGrid
<1>2. CASE Finish
  BY <1>2 DEF Finish, AllTried, OnGrid
<1>3. CASE Try
  <2> DEFINE s == Stride(request.limits)
             min == request.limits.brp_min
  <2>1. /\ request' = request /\ tried' = tried \cup {brp} /\ brp' = brp + s
        /\ status' = "search"
    BY <1>3 DEF Try
  <2>2. s \in Nat \ {0} /\ min \in Nat /\ brp \in Nat
    BY RequestAssumption DEF SearchInv, TypeOK, Request, Limits, Stride
  <2>3. PICK j \in 0 .. brp : brp = min + j * s
    BY DEF SearchInv, TriedBelow, OnGrid
  <2> HIDE DEF s, min
  <2>4. ASSUME NEW p \in 0 .. brp' - 1, OnGrid(p)
        PROVE  p \in tried'
    <3>1. PICK k \in 0 .. p : p = min + k * s
      BY <2>4 DEF OnGrid, s, min
    <3>2. CASE p < brp
      BY <2>1, <2>2, <2>4, <3>2 DEF AllTried
    <3>3. CASE p = brp
      BY <2>1, <3>3
    <3>4. CASE p > brp
      <4>1. j \in Nat /\ k \in Nat /\ p \in Nat /\ j * s \in Nat /\ k * s \in Nat
        BY <2>1, <2>2, <2>3, <2>4, <3>1
      <4>2. j * s < k * s
        BY <2>2, <2>3, <3>1, <3>4, <4>1
      <4>3. (j + 1) * s <= k * s
        BY <2>2, <4>1, <4>2, NoneBetween
      <4>4. (j + 1) * s = j * s + s
        BY <2>2, <4>1
      <4>5. p >= brp + s
        BY <2>2, <2>3, <3>1, <4>1, <4>3, <4>4
      <4> QED
        BY <2>1, <2>2, <2>4, <4>1, <4>5
    <3> QED
      BY <2>1, <2>2, <2>4, <3>2, <3>3, <3>4
  <2> QED
    BY <2>1, <2>4 DEF AllTried, OnGrid
<1> QED
  BY <1>1, <1>2, <1>3 DEF Next

\* The search tries every prescaler that the adapter can be set to.
THEOREM SearchTriesAll == Spec => []AllTried
<1>1. Init => AllTried
  <2> SUFFICES ASSUME Init PROVE AllTried
    OBVIOUS
  <2>1. ASSUME NEW p \in 0 .. brp - 1, OnGrid(p)
        PROVE  FALSE
    <3>1. brp = request.limits.brp_min /\ brp \in Nat /\ Stride(request.limits) \in Nat
      BY RequestAssumption DEF Init, Request, Limits, Stride
    <3>2. PICK k \in 0 .. p : p = brp + k * Stride(request.limits)
      BY <2>1, <3>1 DEF OnGrid
    <3>3. k * Stride(request.limits) \in Nat
      BY <3>1
    <3> QED
      BY <2>1, <3>1, <3>2, <3>3
  <2> QED
    BY <2>1 DEF Init, AllTried
<1>2. SearchInv /\ AllTried /\ [Next]_vars => AllTried'
  BY AllTriedNext
<1> QED
  BY <1>1, <1>2, SearchKeepsBest, PTL DEF Spec

\* Rounding to thousandths, halves in either direction, is to the nearest: no other
\* whole number is closer.
LEMMA RoundIsNearest ==
    ASSUME NEW lang \in Lang, NEW n \in Int, NEW m \in Int
    PROVE  AbsOf(1000 * Round(lang, n, 1000) - n) <= AbsOf(1000 * m - n)
<1> DEFINE q == n \div 1000
           r == n % 1000
<1>1. q \in Int /\ r \in 0 .. 999 /\ n = 1000 * q + r
  OBVIOUS
<1>2. \/ Round(lang, n, 1000) = q /\ 2 * r <= 1000
      \/ Round(lang, n, 1000) = q + 1 /\ 2 * r >= 1000
  BY <1>1 DEF Round
<1> HIDE DEF q, r
<1>3. m <= q \/ m >= q + 1
  BY <1>1
<1> QED
  BY <1>1, <1>2, <1>3 DEF AbsOf

\* a <= b and c >= 0 give a * c <= b * c.
LEMMA ProductsOrdered ==
    ASSUME NEW a \in Int, NEW b \in Int, NEW c \in Nat, a <= b
    PROVE  a * c <= b * c
<1>1. PICK d \in Nat : b = a + d
  <2>1. b - a \in Nat /\ b = a + (b - a)
    OBVIOUS
  <2> QED
    BY <2>1
<1>2. d * c \in Nat /\ (a + d) * c = a * c + d * c
  BY <1>1
<1>3. a * c \in Int
  OBVIOUS
<1> QED
  BY <1>1, <1>2, <1>3

\* The split that a prescaler is tried with is the closest its quanta allow.
LEMMA SplitIsNearest ==
    ASSUME TypeOK, ~ArgumentsRefused, NEW lang \in Lang, NEW p \in Nat \ {0}, NEW tseg1 \in Int
    PROVE  Err(lang, p) <= Deviation(tseg1, Total(lang, p)) /\ Deviation(tseg1, Total(lang, p)) \in Int
<1> DEFINE n == request.sample * Total(lang, p)
<1>1. Total(lang, p) \in Int /\ request.sample \in Int
  BY QuantaType, RequestAssumption DEF TypeOK, Request
<1>2. n \in Int
  BY <1>1
<1>3. Err(lang, p) = AbsOf(1000 * (1 + (Round(lang, n, 1000) - 1)) - n)
  BY DEF Err, Deviation, Tseg1
<1>4. Deviation(tseg1, Total(lang, p)) = AbsOf(1000 * (1 + tseg1) - n)
  BY DEF Deviation
<1> HIDE DEF n
<1>5. Round(lang, n, 1000) \in Int
  BY <1>2, RoundType
<1>6. 1 + (Round(lang, n, 1000) - 1) = Round(lang, n, 1000)
  BY <1>5
<1>7. AbsOf(1000 * Round(lang, n, 1000) - n) <= AbsOf(1000 * (1 + tseg1) - n)
  <2> DEFINE m == 1 + tseg1
  <2>1. m \in Int
    OBVIOUS
  <2> HIDE DEF m
  <2>2. AbsOf(1000 * Round(lang, n, 1000) - n) <= AbsOf(1000 * m - n)
    BY <1>2, <2>1, RoundIsNearest
  <2> QED
    BY <2>2 DEF m
<1>8. AbsOf(1000 * (1 + tseg1) - n) \in Int
  BY <1>2 DEF AbsOf
<1> QED
  BY <1>3, <1>4, <1>6, <1>7, <1>8

\* No prescaler with a legal nearest split was overlooked, and no split of any of
\* them is closer than the timing that is returned.
THEOREM NothingCloser == Spec => []NoCloserSplit
<1>1. SearchInv /\ AllTried => NoCloserSplit
  <2> SUFFICES ASSUME SearchInv, AllTried, status = "done", NEW lang \in Lang,
                      NEW p \in request.limits.brp_min .. request.limits.brp_max,
                      OnGrid(p), Fits(lang, p)
               PROVE  /\ Found(lang)
                      /\ \A tseg1 \in 0 .. Total(lang, p) :
                            Err(lang, best[lang]) * Total(lang, p)
                               <= Deviation(tseg1, Total(lang, p)) * Total(lang, best[lang])
    BY DEF NoCloserSplit
  <2> DEFINE b == best[lang]
  <2>1. request.limits \in Limits /\ brp \in Nat /\ TypeOK
    BY RequestAssumption DEF SearchInv, TypeOK, Request
  <2>2. p \in 0 .. brp - 1
    BY <2>1 DEF AllTried, Limits
  <2>3. p \in tried /\ ~ArgumentsRefused
    BY <2>2 DEF AllTried, SearchInv, TriedBelow
  <2>4. b # 0 /\ b \in tried /\ Fits(lang, b) /\ ~Closer(lang, p, b)
    BY <2>3 DEF SearchInv, BestSoFar
  <2>5. p \in Nat \ {0} /\ b \in Nat \ {0}
    BY <2>1, <2>2, <2>4 DEF TypeOK, Fits
  <2>6. /\ Err(lang, b) \in Int /\ Err(lang, p) \in Int
        /\ Total(lang, b) \in Nat /\ Total(lang, p) \in Nat
    BY <2>1, <2>3, <2>4, <2>5, QuantaType DEF Fits
  <2> HIDE DEF b
  <2>7. Err(lang, b) * Total(lang, p) <= Err(lang, p) * Total(lang, b)
    <3> DEFINE x == Err(lang, b) * Total(lang, p)
               y == Err(lang, p) * Total(lang, b)
    <3>1. x \in Int /\ y \in Int /\ ~(y < x)
      BY <2>4, <2>6 DEF Closer
    <3> HIDE DEF x, y
    <3>2. x <= y
      BY <3>1
    <3> QED
      BY <3>2 DEF x, y
  <2>8. ASSUME NEW tseg1 \in 0 .. Total(lang, p)
        PROVE  Err(lang, b) * Total(lang, p) <= Deviation(tseg1, Total(lang, p)) * Total(lang, b)
    <3> DEFINE dev == Deviation(tseg1, Total(lang, p))
    <3>1. Err(lang, p) <= dev /\ dev \in Int
      BY <2>1, <2>3, <2>5, <2>6, SplitIsNearest
    <3> HIDE DEF dev
    <3>2. Err(lang, p) * Total(lang, b) <= dev * Total(lang, b)
      BY <2>6, <3>1, ProductsOrdered
    <3>3. /\ Err(lang, b) * Total(lang, p) \in Int /\ Err(lang, p) * Total(lang, b) \in Int
          /\ dev * Total(lang, b) \in Int
      BY <2>6, <3>1
    <3> QED
      BY <2>7, <3>2, <3>3 DEF dev
  <2> QED
    BY <2>4, <2>8 DEF Found, b
<1> QED
  BY <1>1, SearchKeepsBest, SearchTriesAll, PTL

-----------------------------------------------------------------------------
(***************************************************************************)
(* C++ and Python.                                                         *)
(***************************************************************************)
\* std::lround and Python's round differ on halves only.
LEMMA RoundsAlike ==
    ASSUME NEW n \in Int, NEW d \in Nat \ {0}, ~Half(n, d)
    PROVE  Round("cpp", n, d) = Round("python", n, d)
<1>1. n % d \in Int
  OBVIOUS
<1>2. 2 * (n % d) < d \/ 2 * (n % d) > d
  BY <1>1 DEF Half
<1> QED
  BY <1>2 DEF Round

\* Where no half is met, the two programs see the same quanta and segments.
LEMMA SeenAlike ==
    ASSUME TypeOK, ~ArgumentsRefused, ~ReportsZero, NEW p \in Nat \ {0},
           ~Half(request.fclk, request.bitrate * p),
           \A lang \in Lang : ~Half(request.sample * Total(lang, p), 1000)
    PROVE  /\ Total("cpp", p) = Total("python", p) /\ Tseg1("cpp", p) = Tseg1("python", p)
           /\ Tseg2("cpp", p) = Tseg2("python", p) /\ Err("cpp", p) = Err("python", p)
           /\ Fits("cpp", p) <=> Fits("python", p)
<1>1. request.fclk \in Int /\ request.sample \in Int /\ request.bitrate * p \in Nat \ {0}
  <2>1. request.fclk \in Int /\ request.sample \in Int /\ request.bitrate \in Nat \ {0}
    BY RequestAssumption DEF TypeOK, Request, ArgumentsRefused
  <2> QED
    BY <2>1
<1>2. Total("cpp", p) = Total("python", p) /\ Total("cpp", p) \in Int
  BY <1>1, RoundsAlike, QuantaType DEF Total, Lang
<1>3. Tseg1("cpp", p) = Tseg1("python", p)
  <2> DEFINE n == request.sample * Total("cpp", p)
  <2>1. n \in Int /\ ~Half(n, 1000)
    BY <1>1, <1>2 DEF Lang
  <2>2. Round("cpp", n, 1000) = Round("python", n, 1000)
    <3> HIDE DEF n
    <3> QED
      BY <2>1, RoundsAlike
  <2> QED
    BY <1>2, <2>2 DEF Tseg1
<1>4. Tseg2("cpp", p) = Tseg2("python", p) /\ Err("cpp", p) = Err("python", p)
  BY <1>2, <1>3 DEF Tseg2, Err
<1> QED
  BY <1>2, <1>3, <1>4 DEF Fits, DividesByZero, ReportsZero

\* A prescaler without a half fits both programs or neither, and is seen alike by
\* both if it fits.
LEMMA TakenAlike ==
    ASSUME TypeOK, ~ArgumentsRefused, ~ReportsZero, NEW p \in Nat \ {0}, ~MeetsHalf(p)
    PROVE  /\ Fits("cpp", p) <=> Fits("python", p)
           /\ Fits("cpp", p) => /\ Total("cpp", p) = Total("python", p)
                                /\ Tseg1("cpp", p) = Tseg1("python", p)
                                /\ Tseg2("cpp", p) = Tseg2("python", p)
                                /\ Err("cpp", p) = Err("python", p)
<1>1. CASE \E lang \in Lang : Fits(lang, p)
  BY <1>1, SeenAlike DEF MeetsHalf
<1>2. CASE ~\E lang \in Lang : Fits(lang, p)
  BY <1>2 DEF Lang
<1> QED
  BY <1>1, <1>2

\* Both programs hold the same prescaler until one that fits meets a half.
LEMMA BestAgreeNext == SearchInv /\ BestAgree /\ [Next]_vars => BestAgree'
<1> SUFFICES ASSUME SearchInv, BestAgree, [Next]_vars PROVE BestAgree'
  OBVIOUS
<1>1. CASE Try
  <2>1. /\ ~ArgumentsRefused /\ tried' = tried \cup {brp} /\ request' = request
        /\ best' = [lang \in Lang |->
                      IF Fits(lang, brp) /\ Improves(lang, brp) THEN brp ELSE best[lang]]
    BY <1>1 DEF Try
  <2>2. \A p : MeetsHalf(p)' <=> MeetsHalf(p)
    BY <2>1 DEF MeetsHalf, Half, Fits, DividesByZero, Total, RateFits, SegmentsFit, Tseg1,
              Tseg2
  <2> SUFFICES ASSUME \A p \in tried \cup {brp} : ~MeetsHalf(p), ~ReportsZero
               PROVE  best'["cpp"] = best'["python"]
    BY <2>1, <2>2 DEF BestAgree, ReportsZero
  <2> DEFINE b == best["cpp"]
  <2>3. best["python"] = b
    BY DEF BestAgree
  <2>4. TypeOK /\ brp \in Nat \ {0}
    BY RequestAssumption DEF SearchInv, TriedBelow, TypeOK, Request, Limits, ReportsZero
  <2>5. /\ Fits("cpp", brp) <=> Fits("python", brp)
        /\ Fits("cpp", brp) => /\ Total("cpp", brp) = Total("python", brp)
                               /\ Err("cpp", brp) = Err("python", brp)
    BY <2>1, <2>4, TakenAlike
  <2>6. ASSUME b # 0
        PROVE  Total("cpp", b) = Total("python", b) /\ Err("cpp", b) = Err("python", b)
    <3>1. b \in tried /\ Fits("cpp", b) /\ b \in Nat \ {0}
      BY <2>4, <2>6 DEF SearchInv, BestSoFar, Lang, TypeOK
    <3> QED
      BY <2>1, <2>4, <3>1, TakenAlike
  <2>7. Fits("cpp", brp) => (Improves("cpp", brp) <=> Improves("python", brp))
    BY <2>3, <2>5, <2>6 DEF Improves, Closer
  <2> QED
    BY <2>1, <2>3, <2>5, <2>7 DEF Lang
<1>2. CASE Refuse \/ Finish \/ UNCHANGED vars
  <2>1. UNCHANGED <<request, best, tried>>
    BY <1>2 DEF Refuse, Finish, vars
  <2>2. \A p : MeetsHalf(p)' <=> MeetsHalf(p)
    BY <2>1 DEF MeetsHalf, Half, Fits, DividesByZero, Total, RateFits, SegmentsFit, Tseg1,
              Tseg2
  <2> QED
    BY <2>1, <2>2 DEF BestAgree, ReportsZero
<1> QED
  BY <1>1, <1>2 DEF Next

\* The README's claim with its limit: asked for the same, both programs send the
\* adapter the same timing, unless a prescaler that fits meets an exact half or
\* the adapter reports a zero for its prescalers or its first segment.
THEOREM SameTiming == Spec => []InterchangeableWithoutHalves
<1>1. Init => BestAgree
  BY DEF Init, BestAgree, Lang
<1>2. SearchInv /\ BestAgree => InterchangeableWithoutHalves
  <2> SUFFICES ASSUME SearchInv, best["cpp"] = best["python"], ~ReportsZero,
                      \A p \in tried : ~MeetsHalf(p)
               PROVE  Interchangeable
    BY DEF BestAgree, InterchangeableWithoutHalves
  <2> DEFINE b == best["cpp"]
  <2>1. Found("cpp") <=> Found("python")
    BY DEF Found
  <2>2. ASSUME Found("cpp")
        PROVE  Timing("cpp", b) = Timing("python", b)
    <3>1. b \in tried /\ Fits("cpp", b) /\ b \in Nat \ {0} /\ TypeOK /\ ~ArgumentsRefused
      BY <2>2 DEF Found, SearchInv, BestSoFar, TriedBelow, Lang, TypeOK
    <3>2. Tseg1("cpp", b) = Tseg1("python", b) /\ Tseg2("cpp", b) = Tseg2("python", b)
      BY <3>1, TakenAlike
    <3>3. Tseg1("cpp", b) # 0
      <4>1. Tseg1("cpp", b) >= request.limits.tseg1_min /\ Tseg1("cpp", b) \in Int
        BY <3>1, QuantaType DEF Fits, SegmentsFit, Lang
      <4>2. request.limits.tseg1_min \in Nat \ {0}
        BY <3>1, RequestAssumption DEF TypeOK, Request, Limits, ReportsZero
      <4> QED
        BY <4>1, <4>2
    <3> QED
      BY <3>2, <3>3 DEF Timing
  <2> QED
    BY <2>1, <2>2 DEF Interchangeable
<1> QED
  BY <1>1, <1>2, BestAgreeNext, SearchKeepsBest, PTL DEF Spec
=============================================================================
