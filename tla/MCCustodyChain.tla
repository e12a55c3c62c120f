--------------------------- MODULE MCCustodyChain ---------------------------
(***************************************************************************)
(* Instances of CustodyChain for TLC.                                      *)
(***************************************************************************)
EXTENDS CustodyChain, TLC

(* A merge or a transfer into each organization's hands; without an        *)
(* organization to take the lot from, the transfer is refused.             *)
MCBodies ==
  [kind: {"merge"}, from: {None}, to: Orgs]
    \cup {b \in [kind: {"transfer"}, from: Orgs, to: Orgs] : b.from # b.to}
    \cup [kind: {"transfer"}, from: {None}, to: {None}]

(* As the table gives it back, or with either thing written otherwise.     *)
MCStyles == {s \in Style : s.at = "utc" \/ s.content = "stored"}

Inspections == [kind: {"inspection"}, from: {None}, to: {None}]
InOtherZone == [at: {"other"}, content: {"stored"}]
AsStored == {ReadBack}

Symmetry == Permutations(Lots) \cup Permutations(Orgs)
              \cup Permutations(Sessions) \cup Permutations(Contents)

=============================================================================
