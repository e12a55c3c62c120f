---------------------------- MODULE MCLotLedger ----------------------------
(* Model-checking instances of LotLedger.                                  *)
EXTENDS LotLedger, TLC

Symmetry ==
  UNION {Permutations(Harvests), Permutations(Codes), Permutations(Commodities),
         Permutations(Sessions)}

=============================================================================
