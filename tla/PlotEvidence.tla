---------------------------- MODULE PlotEvidence ----------------------------
(***************************************************************************)
(* The numbers behind a plot: the area of its holding, and the loss and    *)
(* the risk a check finds in it.  Each is a float in the process and a     *)
(* rounded Numeric in the database, and limits are applied to the one, the *)
(* other or both.  (PlotGate interleaves what is one step here, and knows  *)
(* only the classes of loss these numbers fall in.)                        *)
(*                                                                         *)
(* Geometries are stored in degrees (SRID 4326) and handed to the raster   *)
(* as they are, so the raster is in degrees too, with Pixels pixels to the *)
(* degree; geom.area counts in pixels what a plot covers of it.  The areas *)
(* of holdings are in fine units, Fine to the square metre, which is the   *)
(* last digit of Numeric(12,4) hectares.                                   *)
(***************************************************************************)
EXTENDS Integers

CONSTANTS
  Plots,
  Declared,   (* Bound: declared areas of holdings, in fine units.         *)
  Computed,   (* Bound: areas of polygons (EPSG:6933), in fine units, NaN  *)
              (* for coordinates that have no projection.                  *)
  MaxLoss,    (* Bound: pixels of loss in a plot.                          *)
  Fine,       (* Fine units in a square metre.                             *)
  PointMax,   (* EUDR_POINT_MAX_AREA_HA, in square metres (40000).         *)
  Hectare,    (* Square metres in a hectare (10000).                       *)
  Pixels,     (* Pixels of the raster in a degree (4000).                  *)
  PixelTruth, (* Square metres a pixel covers on the ground (900).         *)
  Threshold,  (* threshold_ha, in square metres (500).                     *)
  SizeFactor, (* The factor of geom.area in risk_score (100).              *)
  MinSize,    (* 1e-6, in pixels: max() lifts smaller sizes to it (16).    *)
  Digits,     (* Units of Numeric(5,4) in 1 (10000).                       *)
  NaN,
  None

(* What parse_geojson lets through; LineString stands for all other kinds. *)
GeomType == {"Point", "Polygon", "MultiPolygon", "LineString"}

VARIABLES
  plots,   (* Rows of plots, with the area they were registered for.       *)
  lost,    (* Pixels the raster shows as lost in the place of each plot.   *)
  checks,  (* Each plot's latest row of deforestation_checks.              *)
  flag     (* cutoff_compliant.                                            *)

vars == <<plots, lost, checks, flag>>

(* given is the float before rounding; masks, whether rasterio.mask covers *)
(* a pixel, is up to the geometry: a sliver may miss every pixel's centre. *)
(* The program stores neither.                                             *)
Plot == [type: {"point", "polygon"}, area: Nat, given: Nat, masks: BOOLEAN]

(* pixels is what was counted; only what is computed from it is stored.    *)
Check == [pixels: Nat, overlap: Nat, risk: 0..Digits]

ASSUME EvidenceAssumption ==
  /\ Declared \subseteq Nat /\ Computed \subseteq Nat \cup {NaN} /\ MaxLoss \in Nat
  /\ {Fine, PointMax, Hectare, Pixels, PixelTruth, Threshold, SizeFactor, MinSize, Digits}
       \subseteq Nat \ {0}
  /\ None \notin Nat \cup Check /\ NaN \notin Nat \cup {None}

TypeOK ==
  /\ DOMAIN plots = Plots /\ DOMAIN checks = Plots
  /\ lost \in [Plots -> Nat]
  /\ flag \in [Plots -> {"unknown", "compliant", "failing"}]
  /\ \A p \in Plots :
       /\ plots[p] # None => plots[p] \in Plot
       /\ checks[p] # None => checks[p] \in Check /\ plots[p] # None
       /\ flag[p] = "unknown" <=> checks[p] = None

Init ==
  /\ plots = [p \in Plots |-> None]
  /\ lost = [p \in Plots |-> 0]
  /\ checks = [p \in Plots |-> None]
  /\ flag = [p \in Plots |-> "unknown"]

-----------------------------------------------------------------------------
(* Registration                                                            *)

(* n / d to the nearest whole number, half away from zero.                 *)
Quotient(n, d) == (2 * n + d) \div (2 * d)

(* An area as Numeric(12,4) keeps it.                                      *)
Stored(area) == Quotient(area, Fine)

(* classify_geometry.                                                      *)
LocationType(type) ==
  CASE type = "Point" -> "point"
    [] type \in {"Polygon", "MultiPolygon"} -> "polygon"
    [] OTHER -> None

(* BUG VARIANT: the limit is applied to the area as it will be stored.     *)
SmallEnough_Stored(area) == Stored(area) <= PointMax

(* Art. 9(1)(d) as validate_for_eudr has it, before any rounding.          *)
SmallEnough(area) == area <= PointMax * Fine

(* validate_for_eudr: the area to register, None if it refuses.  NaN is    *)
(* not <= 0 and passes.                                                    *)
Holding(type, declared, computed) ==
  CASE LocationType(type) = "point" ->
         IF declared # None /\ declared > 0 /\ SmallEnough(declared) THEN declared ELSE None
    [] LocationType(type) = "polygon" ->
         IF computed = NaN \/ computed > 0 THEN computed ELSE None
    [] OTHER -> None

(* BUG VARIANT: plots_area_positive is missing.                            *)
Admissible_Empty(row) == row.type = "point" => row.area <= PointMax

(* plots_area_positive and plots_point_only_for_small_holdings.            *)
Admissible(row) == row.area > 0 /\ (row.type = "point" => row.area <= PointMax)

(* create_plot, for a geometry parse_geojson accepts.  When the database   *)
(* refuses what was validated, the request fails and leaves nothing.  So   *)
(* it does for NaN, which the constraints let pass (PostgreSQL orders it   *)
(* above all numbers) and the answer cannot be rendered with: FastAPI      *)
(* renders it before get_session commits.                                  *)
CreatePlot(p, type, declared, computed, masks) ==
  LET given == Holding(type, declared, computed)
      row == [type |-> LocationType(type), area |-> Stored(given), given |-> given,
              masks |-> masks]
  IN  /\ plots[p] = None
      /\ given \notin {None, NaN}
      /\ row.type = "point" => masks
      /\ Admissible(row)
      /\ plots' = [plots EXCEPT ![p] = row]
      /\ UNCHANGED <<lost, checks, flag>>

-----------------------------------------------------------------------------
(* Checks                                                                  *)

RasterShows(p, n) ==
  /\ n > lost[p]
  /\ lost' = [lost EXCEPT ![p] = n]
  /\ UNCHANGED <<plots, checks, flag>>

(* _compute_real_overlap: the pixels of loss under the mask, which is one  *)
(* pixel for a point.  The stub of local runs is a raster without loss.    *)
Counted(row, n) == IF row.type = "point" /\ n > 1 THEN 1 ELSE n

(* pixel_area_m2 is abs(transform.a * transform.e): it takes the square    *)
(* degrees of a pixel, 1 over this, for square metres.                     *)
PerUnit == Pixels * Pixels

(* BUG VARIANT: any loss at all fails a plot.                              *)
Verdict_AnyLoss(n) == IF n > 0 THEN "failing" ELSE "compliant"

(* is_cutoff_compliant looks at the float, before it is stored.            *)
Verdict(n) == IF n >= Threshold * PerUnit THEN "failing" ELSE "compliant"

(* geom.area * 100, with the area of a point 0, in fine units of ground.   *)
Size(row) ==
  LET least == MinSize * PixelTruth * Fine
      size == SizeFactor * row.given
  IN  IF row.type = "polygon" /\ size > least THEN size ELSE least

(* BUG VARIANT: min(1.0, ...) is missing.                                  *)
Risk_Unbounded(n, row) == Quotient(n * PixelTruth * Fine * Digits, Hectare * Size(row))

(* risk_score: the hectares computed over the size, at most 1.             *)
Risk(n, row) ==
  LET score == Quotient(n * PixelTruth * Fine * Digits, Hectare * Size(row))
  IN  IF score < Digits THEN score ELSE Digits

(* run_deforestation_check.                                                *)
CheckPlot(p) ==
  LET n == Counted(plots[p], lost[p])
  IN  /\ plots[p] # None
      /\ plots[p].masks
      /\ checks' = [checks EXCEPT ![p] =
           [pixels |-> n, overlap |-> Quotient(n, PerUnit), risk |-> Risk(n, plots[p])]]
      /\ flag' = [flag EXCEPT ![p] = Verdict(n)]
      /\ UNCHANGED <<plots, lost>>

(* The sum of a mask without a pixel is no number, and int() of it raises: *)
(* the request fails and leaves the plot as it was.                        *)
CheckFails(p) ==
  /\ plots[p] # None
  /\ ~ plots[p].masks
  /\ UNCHANGED vars

Next ==
  \E p \in Plots :
    \/ \E type \in GeomType, declared \in Declared \cup {None}, computed \in Computed,
          masks \in BOOLEAN : CreatePlot(p, type, declared, computed, masks)
    \/ \E n \in 1..MaxLoss : RasterShows(p, n)
    \/ CheckPlot(p) \/ CheckFails(p)

Spec == Init /\ [][Next]_vars

-----------------------------------------------------------------------------

(* Art. 9(1)(d): a plot given as a point is a holding of at most 4 ha, not *)
(* one that only rounds to 4 ha; and what is stored for any plot is, to    *)
(* the nearest square metre, what it was registered for, and never nothing *)
(* (validate_for_eudr before the rounding, the constraints of plots after).*)
HoldingsAreHonest ==
  \A p \in Plots : plots[p] # None =>
    LET row == plots[p]
        off == 2 * (Fine * row.area - row.given)
    IN  /\ row.area > 0
        /\ row.type = "point" => row.given <= PointMax * Fine
        /\ -Fine <= off /\ off <= Fine

(* A plot is never barred on evidence the database does not show: the      *)
(* verdict is taken on the float and the row keeps a rounded one, but the  *)
(* row behind a failing flag shows 0.05 ha or more (overlap_ha of          *)
(* run_deforestation_check, is_cutoff_compliant).                          *)
FailureIsDocumented ==
  \A p \in Plots : flag[p] = "failing" => checks[p].overlap >= Threshold

-----------------------------------------------------------------------------
(* What the repository says of itself and the code does not do             *)

(* is_cutoff_compliant: ">= 0.05 ha of post-cutoff loss inside the plot    *)
(* blocks the plot", here of loss that a check has counted and that fits   *)
(* into the plot.                                                          *)
LossBlocksPlot ==
  \A p \in Plots : checks[p] # None =>
    LET loss == checks[p].pixels * PixelTruth
    IN  Threshold <= loss /\ loss * Fine <= plots[p].given => flag[p] = "failing"

=============================================================================
