--------------------------- MODULE MCPlotEvidence ---------------------------
(***************************************************************************)
(* Instances of PlotEvidence for TLC.                                      *)
(***************************************************************************)
EXTENDS PlotEvidence, TLC

Symmetry == Permutations(Plots)

=============================================================================
