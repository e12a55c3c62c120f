------------------------- MODULE PlotEvidence_proofs ------------------------
(***************************************************************************)
(* What rounding does to the areas of holdings and to the evidence behind  *)
(* a verdict, for all quantities, units and limits.                        *)
(***************************************************************************)
EXTENDS PlotEvidence, TLAPS

(* Rounding errs by half a unit at most, and never below nothing.          *)
LEMMA QuotientNear ==
  ASSUME NEW n \in Nat, NEW d \in Nat \ {0}
  PROVE  /\ Quotient(n, d) \in Nat
         /\ 2 * (d * Quotient(n, d) - n) <= d
         /\ -d < 2 * (d * Quotient(n, d) - n)
<1> DEFINE a == 2 * n + d
           b == 2 * d
           q == a \div b
<1>1. a \in Nat /\ b \in Nat /\ b > 0
  OBVIOUS
<1>2. q \in Nat /\ b * q <= a /\ a < b * q + b
  <2> HIDE DEF a, b
  <2>1. q \in Int /\ b * q <= a /\ a < b * q + b
    BY <1>1
  <2>2. q >= 0
    BY <1>1, <2>1
  <2> QED BY <2>1, <2>2
<1>3. b * q = 2 * (d * q) /\ d * q \in Int
  <2> HIDE DEF a
  <2>1. q \in Int
    BY <1>2
  <2> HIDE DEF q
  <2> QED BY <2>1
<1>4. Quotient(n, d) = q
  BY DEF Quotient
<1> HIDE DEF q
<1> QED BY <1>2, <1>3, <1>4

(* A quantity of at least k units is not rounded below k.                  *)
LEMMA QuotientAtLeast ==
  ASSUME NEW n \in Nat, NEW d \in Nat \ {0}, NEW k \in Nat, k * d <= n
  PROVE  Quotient(n, d) >= k
<1> DEFINE q == Quotient(n, d)
<1>1. q \in Nat /\ -d < 2 * (d * q - n)
  BY QuotientNear
<1> HIDE DEF q
<1>2. d * q \in Int /\ d * k \in Int /\ d * k = k * d
  BY <1>1
<1>3. -d < 2 * (d * q - d * k)
  BY <1>1, <1>2
<1>4. ASSUME q < k PROVE FALSE
  <2>1. q <= k - 1
    BY <1>1, <1>4
  <2>2. d * q <= d * (k - 1) /\ d * (k - 1) = d * k - d
    BY <1>1, <2>1
  <2> QED BY <1>2, <1>3, <2>2
<1> QED BY <1>1, <1>4 DEF q

-----------------------------------------------------------------------------

(* What a row, and the evidence of the latest check, owe to their floats.  *)
Rounding ==
  \A p \in Plots :
    /\ plots[p] # None =>
         /\ plots[p].given \in Nat /\ plots[p].area = Stored(plots[p].given)
         /\ plots[p].area > 0
         /\ plots[p].type = "point" => SmallEnough(plots[p].given)
    /\ checks[p] # None =>
         /\ checks[p].pixels \in Nat
         /\ checks[p].overlap = Quotient(checks[p].pixels, PerUnit)
         /\ flag[p] = Verdict(checks[p].pixels)

EInv == TypeOK /\ Rounding

LEMMA UnitPositive == PerUnit \in Nat \ {0}
<1>1. Pixels \in Nat /\ Pixels > 0
  BY EvidenceAssumption
<1>2. Pixels * Pixels > 0 /\ Pixels * Pixels \in Nat
  BY <1>1
<1> QED BY <1>2 DEF PerUnit

LEMMA EvidenceInit ==
  ASSUME Init PROVE EInv
BY DEF Init, EInv, TypeOK, Rounding

(* What validate_for_eudr lets through is an area of at least nothing, and *)
(* of a point small enough.                                                *)
LEMMA HoldingGiven ==
  ASSUME NEW type \in GeomType, NEW declared \in Declared \cup {None}, NEW computed \in Computed,
         Holding(type, declared, computed) \notin {None, NaN}
  PROVE  /\ LocationType(type) \in {"point", "polygon"}
         /\ Holding(type, declared, computed) \in Nat
         /\ LocationType(type) = "point" => SmallEnough(Holding(type, declared, computed))
<1> DEFINE given == Holding(type, declared, computed)
<1>1. CASE type = "Point"
  <2>1. LocationType(type) = "point"
    BY <1>1 DEF LocationType
  <2>2. given = IF declared # None /\ declared > 0 /\ SmallEnough(declared)
                THEN declared ELSE None
    BY <2>1 DEF Holding
  <2>3. given \in Nat /\ SmallEnough(given)
    BY <2>2, EvidenceAssumption
  <2> QED BY <2>1, <2>3
<1>2. CASE type \in {"Polygon", "MultiPolygon"}
  <2>1. LocationType(type) = "polygon"
    BY <1>2 DEF LocationType
  <2>2. given = IF computed = NaN \/ computed > 0 THEN computed ELSE None
    BY <2>1 DEF Holding
  <2> QED BY <2>1, <2>2, EvidenceAssumption
<1>3. CASE type = "LineString"
  <2>1. LocationType(type) = None
    BY <1>3 DEF LocationType
  <2> QED BY <2>1, EvidenceAssumption DEF Holding
<1> QED BY <1>1, <1>2, <1>3 DEF GeomType

LEMMA CreatePlotInv ==
  ASSUME EInv, NEW p \in Plots, NEW type \in GeomType, NEW declared \in Declared \cup {None},
         NEW computed \in Computed, NEW masks \in BOOLEAN,
         CreatePlot(p, type, declared, computed, masks)
  PROVE  EInv'
<1> DEFINE given == Holding(type, declared, computed)
           row == [type |-> LocationType(type), area |-> Stored(given), given |-> given,
                   masks |-> masks]
<1>1. /\ plots[p] = None /\ given \notin {None, NaN} /\ Admissible(row)
      /\ plots' = [plots EXCEPT ![p] = row] /\ UNCHANGED <<lost, checks, flag>>
  BY DEF CreatePlot
<1>2. /\ LocationType(type) \in {"point", "polygon"} /\ given \in Nat
      /\ LocationType(type) = "point" => SmallEnough(given)
  BY <1>1, HoldingGiven
<1>3. Stored(given) \in Nat
  BY <1>2, QuotientNear, EvidenceAssumption DEF Stored
<1>4. /\ row \in Plot /\ row.given = given /\ row.area = Stored(given) /\ row.area > 0
      /\ row.type = LocationType(type)
  BY <1>1, <1>2, <1>3 DEF Plot, Admissible
<1> HIDE DEF row, given
<1>5. \A q \in Plots : plots'[q] = IF q = p THEN row ELSE plots[q]
  BY <1>1 DEF EInv, TypeOK
<1>6. checks[p] = None
  BY <1>1 DEF EInv, TypeOK
<1>7. TypeOK'
  BY <1>1, <1>4, <1>5, <1>6 DEF EInv, TypeOK
<1>8. Rounding'
  BY <1>1, <1>2, <1>4, <1>5 DEF EInv, Rounding
<1> QED BY <1>7, <1>8 DEF EInv

LEMMA CheckPlotInv ==
  ASSUME EInv, NEW p \in Plots, CheckPlot(p)
  PROVE  EInv'
<1> DEFINE n == Counted(plots[p], lost[p])
           row == [pixels |-> n, overlap |-> Quotient(n, PerUnit), risk |-> Risk(n, plots[p])]
<1>1. /\ plots[p] # None
      /\ checks' = [checks EXCEPT ![p] = row] /\ flag' = [flag EXCEPT ![p] = Verdict(n)]
      /\ UNCHANGED <<plots, lost>>
  BY DEF CheckPlot
<1>2. n \in Nat
  BY DEF EInv, TypeOK, Counted
<1> HIDE DEF n
<1>3. Quotient(n, PerUnit) \in Nat
  BY <1>2, QuotientNear, UnitPositive
<1>4. Risk(n, plots[p]) \in 0..Digits
  <2>1. plots[p].given \in Nat
    BY <1>1 DEF EInv, Rounding
  <2> DEFINE size == Size(plots[p])
  <2>2. size \in Nat \ {0}
    <3>1. MinSize * PixelTruth \in Nat /\ MinSize * PixelTruth > 0
      BY EvidenceAssumption
    <3> DEFINE m == MinSize * PixelTruth
    <3> HIDE DEF m
    <3>2. m * Fine \in Nat /\ m * Fine > 0
      BY <3>1, EvidenceAssumption DEF m
    <3> DEFINE least == m * Fine
    <3>3. SizeFactor * plots[p].given \in Nat
      BY <2>1, EvidenceAssumption
    <3> DEFINE s == SizeFactor * plots[p].given
    <3>4. Size(plots[p]) = IF plots[p].type = "polygon" /\ s > least THEN s ELSE least
      BY DEF Size, m
    <3>5. least \in Nat /\ least > 0 /\ s \in Nat
      BY <3>2, <3>3
    <3> HIDE DEF s, least
    <3> QED BY <3>4, <3>5
  <2> HIDE DEF size
  <2>3. Hectare * size \in Nat \ {0}
    BY <2>2, EvidenceAssumption
  <2>4. n * PixelTruth * Fine * Digits \in Nat
    <3>1. n * PixelTruth \in Nat
      BY <1>2, EvidenceAssumption
    <3> DEFINE x == n * PixelTruth
    <3> HIDE DEF x
    <3>2. x * Fine \in Nat
      BY <3>1, EvidenceAssumption DEF x
    <3> DEFINE y == x * Fine
    <3> HIDE DEF y
    <3>3. y * Digits \in Nat
      BY <3>2, EvidenceAssumption DEF y
    <3> QED BY <3>3 DEF x, y
  <2> DEFINE score == Quotient(n * PixelTruth * Fine * Digits, Hectare * size)
  <2>5. score \in Nat
    BY <2>3, <2>4, QuotientNear
  <2>6. Risk(n, plots[p]) = IF score < Digits THEN score ELSE Digits
    BY DEF Risk, size
  <2> HIDE DEF score
  <2> QED BY <2>5, <2>6, EvidenceAssumption
<1>5. row \in Check /\ row.pixels = n /\ row.overlap = Quotient(n, PerUnit)
  BY <1>2, <1>3, <1>4 DEF Check
<1> HIDE DEF row
<1>6. \A q \in Plots : /\ checks'[q] = IF q = p THEN row ELSE checks[q]
                       /\ flag'[q] = IF q = p THEN Verdict(n) ELSE flag[q]
  BY <1>1 DEF EInv, TypeOK
<1>7. Verdict(n) \in {"compliant", "failing"}
  BY DEF Verdict
<1>8. row # None
  BY <1>5, EvidenceAssumption
<1>9. TypeOK'
  <2>1. flag' \in [Plots -> {"unknown", "compliant", "failing"}] /\ DOMAIN checks' = Plots
    BY <1>1, <1>7 DEF EInv, TypeOK
  <2> QED BY <1>1, <1>5, <1>6, <1>7, <1>8, <2>1 DEF EInv, TypeOK
<1>10. Rounding'
  BY <1>1, <1>2, <1>5, <1>6 DEF EInv, Rounding
<1> QED BY <1>9, <1>10 DEF EInv

LEMMA EvidenceNext ==
  ASSUME EInv, [Next]_vars
  PROVE  EInv'
<1>1. ASSUME NEW p \in Plots, NEW n \in 1..MaxLoss, RasterShows(p, n)
      PROVE  EInv'
  BY <1>1, EvidenceAssumption DEF RasterShows, EInv, TypeOK, Rounding
<1>2. CASE UNCHANGED vars
  BY <1>2 DEF vars, EInv, TypeOK, Rounding
<1>3. ASSUME NEW p \in Plots, CheckFails(p) PROVE UNCHANGED vars
  BY <1>3 DEF CheckFails
<1> QED BY <1>1, <1>2, <1>3, CreatePlotInv, CheckPlotInv DEF Next

LEMMA EvidenceInvariance == Spec => []EInv
<1>1. Init => EInv
  BY EvidenceInit
<1>2. EInv /\ [Next]_vars => EInv'
  BY EvidenceNext
<1> QED BY <1>1, <1>2, PTL DEF Spec

-----------------------------------------------------------------------------

(* Plots and checks fit their columns; no risk score exceeds 1.            *)
THEOREM EvidenceTypes == Spec => []TypeOK
<1>1. EInv => TypeOK
  BY DEF EInv
<1> QED BY <1>1, EvidenceInvariance, PTL

(* The limit for points holds of the area declared, and every stored area  *)
(* is positive and within half a square metre of the one registered.       *)
THEOREM HoldingsHonest == Spec => []HoldingsAreHonest
<1>1. ASSUME EInv PROVE HoldingsAreHonest
  <2> SUFFICES ASSUME NEW p \in Plots, plots[p] # None
               PROVE  /\ plots[p].area > 0
                      /\ plots[p].type = "point" => plots[p].given <= PointMax * Fine
                      /\ -Fine <= 2 * (Fine * plots[p].area - plots[p].given)
                      /\ 2 * (Fine * plots[p].area - plots[p].given) <= Fine
    BY DEF HoldingsAreHonest
  <2>1. /\ plots[p].given \in Nat /\ plots[p].area = Stored(plots[p].given)
        /\ plots[p].area > 0
        /\ plots[p].type = "point" => plots[p].given <= PointMax * Fine
    BY <1>1 DEF EInv, Rounding, SmallEnough
  <2> DEFINE off == 2 * (Fine * plots[p].area - plots[p].given)
  <2>2. off <= Fine /\ -Fine < off
    BY <2>1, QuotientNear, EvidenceAssumption DEF Stored
  <2>3. off \in Int
    <3>1. plots[p].area \in Nat /\ Fine \in Nat
      BY <2>1, QuotientNear, EvidenceAssumption DEF Stored
    <3>2. Fine * plots[p].area \in Int
      BY <3>1
    <3> QED BY <2>1, <3>2
  <2> HIDE DEF off
  <2>4. -Fine <= off
    BY <2>2, <2>3, EvidenceAssumption
  <2> QED BY <2>1, <2>2, <2>4 DEF off
<1> QED BY <1>1, EvidenceInvariance, PTL

(* The rounded row behind a failing flag shows the threshold or more.      *)
THEOREM FailureDocumented == Spec => []FailureIsDocumented
<1>1. ASSUME EInv PROVE FailureIsDocumented
  <2> SUFFICES ASSUME NEW p \in Plots, flag[p] = "failing"
               PROVE  checks[p].overlap >= Threshold
    BY DEF FailureIsDocumented
  <2>1. checks[p] # None
    BY <1>1 DEF EInv, TypeOK
  <2>2. /\ checks[p].pixels \in Nat /\ checks[p].overlap = Quotient(checks[p].pixels, PerUnit)
        /\ flag[p] = Verdict(checks[p].pixels)
    BY <1>1, <2>1 DEF EInv, Rounding
  <2>3. Threshold * PerUnit <= checks[p].pixels
    BY <2>2 DEF Verdict
  <2>4. Threshold \in Nat
    BY EvidenceAssumption
  <2> QED BY <2>2, <2>3, <2>4, QuotientAtLeast, UnitPositive
<1> QED BY <1>1, EvidenceInvariance, PTL

=============================================================================
