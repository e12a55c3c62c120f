------------------------------ MODULE LotStock ------------------------------
(***************************************************************************)
(* What an auditor may rely on: harvests are stocks, and a lot is created  *)
(* whole, in one step and once, out of stocks that hold what it takes.     *)
(* Reads, open requests, rollbacks and rounding do not appear.  LotLedger  *)
(* implements this, with as much credit on a harvest as it has sessions:   *)
(* none at all if its requests come one after another.                     *)
(***************************************************************************)
EXTENDS Integers

CONSTANTS
  Harvests,
  Codes,
  Quantities,  (* What a harvest can register and a lot can take of it.    *)
  Credit       (* How many times over a harvest may be given away.         *)

VARIABLES
  stock,  (* What may still be taken, of each registered harvest.          *)
  lot     (* What each lot took, by lot code.                              *)

vars == <<stock, lot>>

Init ==
  /\ stock = [h \in {} |-> 0]
  /\ lot = [c \in {} |-> 0]

Register(h, q) ==
  /\ h \notin DOMAIN stock
  /\ stock' = [g \in DOMAIN stock \cup {h} |-> IF g = h THEN Credit * q ELSE stock[g]]
  /\ UNCHANGED lot

Create(c, parts) ==
  /\ c \notin DOMAIN lot
  /\ \A h \in DOMAIN parts : parts[h] <= stock[h]
  /\ stock' = [h \in DOMAIN stock |->
                 IF h \in DOMAIN parts THEN stock[h] - parts[h] ELSE stock[h]]
  /\ lot' = [b \in DOMAIN lot \cup {c} |-> IF b = c THEN parts ELSE lot[b]]

Next ==
  \/ \E h \in Harvests, q \in Quantities : Register(h, q)
  \/ \E c \in Codes, T \in (SUBSET DOMAIN stock) \ {{}} :
       \E parts \in [T -> Quantities] : Create(c, parts)

Spec == Init /\ [][Next]_vars

=============================================================================
