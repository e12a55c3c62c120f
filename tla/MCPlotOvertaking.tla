-------------------------- MODULE MCPlotOvertaking --------------------------
(***************************************************************************)
(* Instances of PlotOvertaking for TLC.                                    *)
(***************************************************************************)
EXTENDS PlotOvertaking, TLC

Symmetry == Permutations(Plots) \cup Permutations(Sessions)

=============================================================================
