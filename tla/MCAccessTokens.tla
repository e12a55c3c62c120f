--------------------------- MODULE MCAccessTokens ---------------------------
(***************************************************************************)
(* Instances of AccessTokens for TLC.                                      *)
(***************************************************************************)
EXTENDS AccessTokens, TLC

Symmetry == Permutations(Orgs) \cup Permutations(Sessions)

=============================================================================
