----------------------------- MODULE LotLedger -----------------------------
(***************************************************************************)
(* Harvests register quantities of a commodity; lots draw on them.  A lot  *)
(* is created in one transaction that reads what other lots have already   *)
(* drawn, compares, and inserts the lot with its compositions.  No row is  *)
(* locked, so transactions interleave between the read and the commit.     *)
(*                                                                         *)
(* Requests carry quantities in fine units; the columns are Numeric(14,3), *)
(* and a stored unit is Fine fine units, rounded half away from zero.      *)
(***************************************************************************)
EXTENDS Integers, FiniteSets, Sequences, Functions

CONSTANTS
  Harvests,     (* Harvests that may be registered.                        *)
  Codes,        (* Lot codes.                                              *)
  Commodities,
  Fine,         (* Fine units in one stored unit (0.001 kg).               *)
  Yields,       (* Quantities of harvest requests, in fine units.          *)
  Amounts,      (* Quantities of lot requests, in fine units.              *)
  Sessions,     (* Database sessions: one open create_lot request each.    *)
  None

ASSUME LedgerAssumption ==
  /\ Fine \in Nat \ {0}
  /\ Yields \subseteq Nat \ {0}
  /\ Amounts \subseteq Nat \ {0}
  /\ IsFiniteSet(Sessions) /\ IsFiniteSet(Harvests) /\ IsFiniteSet(Codes)

VARIABLES
  harvests,   (* Rows of harvests; the commodity is that of their plot.    *)
  lots,       (* Rows of lots with their compositions, as inserted.        *)
  requests    (* create_lot transactions between their read and commit.    *)

vars == <<harvests, lots, requests>>

Harvest == [quantity: Nat, commodity: Commodities]

Parts(S) == UNION {[T -> S] : T \in (SUBSET Harvests) \ {{}}}

ASSUME RowsAssumption == None \notin Harvest

Request == [session: Sessions, code: Codes, commodity: Commodities, parts: Parts(Amounts)]

TypeOK ==
  /\ DOMAIN harvests = Harvests
  /\ \A h \in Harvests : harvests[h] = None \/ harvests[h] \in Harvest
  /\ lots \in Seq({lots[i] : i \in DOMAIN lots})
  /\ \A i \in DOMAIN lots :
       /\ lots[i].code \in Codes
       /\ lots[i].commodity \in Commodities
       /\ lots[i].total \in Nat
       /\ DOMAIN lots[i].parts \subseteq Harvests
       /\ \A h \in DOMAIN lots[i].parts : lots[i].parts[h] \in Nat \ {0}
  /\ requests \subseteq Request

Init ==
  /\ harvests = [h \in Harvests |-> None]
  /\ lots = <<>>
  /\ requests = {}

-----------------------------------------------------------------------------

(* A quantity as Numeric(14,3) stores it.                                  *)
Rounded(q) == (2 * q + Fine) \div (2 * Fine)

(* The CHECK constraint quantity_kg > 0 applies to the stored value; a     *)
(* violation rolls the request back.                                       *)
CreateHarvest(h, q, k) ==
  /\ harvests[h] = None
  /\ Rounded(q) > 0
  /\ harvests' = [harvests EXCEPT ![h] = [quantity |-> Rounded(q), commodity |-> k]]
  /\ UNCHANGED <<lots, requests>>

Drawing(h) == {i \in DOMAIN lots : h \in DOMAIN lots[i].parts}

(* SUM(quantity_kg) of the compositions that draw on a harvest.            *)
Drawn(h) == SumFunction([i \in Drawing(h) |-> lots[i].parts[h]])

(* BUG VARIANT: the request is compared with the whole harvest.            *)
Available_Whole(h) == harvests[h].quantity

Available(h) == harvests[h].quantity - Drawn(h)

(* create_lot up to its checks: every harvest exists, each composition is  *)
(* within what is available.  A harvest named twice is an error there, so  *)
(* the compositions are a function.  The body's commodity is taken as is.  *)
CreateLotRead(s, c, k, parts) ==
  /\ \A r \in requests : r.session # s
  /\ \A h \in DOMAIN parts : harvests[h] # None /\ parts[h] <= Fine * Available(h)
  /\ requests' = requests \cup 
       {[session |-> s, code |-> c, commodity |-> k, parts |-> parts]}
  /\ UNCHANGED <<harvests, lots>>

(* BUG VARIANT: the total is overwritten by each composition.              *)
LotTotal_Last(parts) == Rounded(parts[CHOOSE h \in DOMAIN parts : TRUE])

(* The total is summed before it is rounded, each part on its own.         *)
LotTotal(parts) == Rounded(SumFunction(parts))

Built == {lots[i].code : i \in DOMAIN lots}

(* BUG VARIANT: no unique constraint on lot_code.                          *)
CodeFree_Ignored(c) == TRUE

CodeFree(c) == c \notin Built

(* BUG VARIANT: no CHECK constraint on the stored quantity.                *)
Storable_Unchecked(parts) == TRUE

Storable(parts) == \A h \in DOMAIN parts : Rounded(parts[h]) > 0

CreateLotCommit(r) ==
  /\ CodeFree(r.code)
  /\ Storable(r.parts)
  /\ lots' = Append(lots,
       [code |-> r.code, commodity |-> r.commodity, total |-> LotTotal(r.parts),
        parts |-> [h \in DOMAIN r.parts |-> Rounded(r.parts[h])]])
  /\ requests' = requests \ {r}
  /\ UNCHANGED harvests

(* A constraint (lot_code taken, a stored quantity of 0) or the connection *)
(* fails, and get_session rolls back.                                      *)
AbortLot(r) ==
  /\ requests' = requests \ {r}
  /\ UNCHANGED <<harvests, lots>>

(* No transaction is open: the service waits for its next request.         *)
Quiescent == requests = {} /\ UNCHANGED vars

Next ==
  \/ \E h \in Harvests, q \in Yields, k \in Commodities : CreateHarvest(h, q, k)
  \/ \E s \in Sessions, c \in Codes, k \in Commodities, parts \in Parts(Amounts) :
       CreateLotRead(s, c, k, parts)
  \/ \E r \in requests : CreateLotCommit(r) \/ AbortLot(r)
  \/ Quiescent

Spec == Init /\ [][Next]_vars

-----------------------------------------------------------------------------

(* create_lot's own check: what lots drew from a harvest plus what open    *)
(* transactions have been granted exceeds the harvest by no more than one  *)
(* full harvest for each FURTHER session; for one session that is no       *)
(* overdraw, though requests are compared unrounded and stored rounded.    *)
OverdrawBounded ==
  \A h \in Harvests : harvests[h] # None =>
    Drawn(h) + SumFunction([r \in {q \in requests : h \in DOMAIN q.parts} |-> Rounded(r.parts[h])])
      <= Cardinality(Sessions) * harvests[h].quantity

(* The columns of a lot disagree only by rounding: the total differs from  *)
(* the sum of its parts by at most half a unit for each number rounded.    *)
TotalNearParts ==
  \A i \in DOMAIN lots :
    LET n == Cardinality(DOMAIN lots[i].parts)
        d == lots[i].total - SumFunction(lots[i].parts)
    IN  -(n + 1) <= 2 * d /\ 2 * d <= n + 1

-----------------------------------------------------------------------------
(* Refinement                                                              *)

Registered == {h \in Harvests : harvests[h] # None}

PartsOf(c) == lots[CHOOSE i \in DOMAIN lots : lots[i].code = c].parts

Stock == INSTANCE LotStock WITH
  Quantities <- {Rounded(q) : q \in Yields \cup Amounts} \ {0},
  Credit <- Cardinality(Sessions),
  stock <- [h \in Registered |-> Cardinality(Sessions) * harvests[h].quantity - Drawn(h)],
  lot <- [c \in Built |-> PartsOf(c)]

(* However requests interleave (create_lot reads, compares and inserts in  *)
(* steps of their own), each lot comes about at once, from harvests that   *)
(* are registered, under a free code, within the credit of the sessions;   *)
(* a create_lot repeated with its lot code neither adds a lot nor draws on *)
(* the harvests again.                                                     *)
FollowsStock == Stock!Spec

-----------------------------------------------------------------------------
(* What the repository says of itself and the code does not do             *)

(* lots.py: "we are not over-drawing a harvest's available quantity".      *)
NoOverdraw ==
  \A h \in Harvests : harvests[h] # None => Drawn(h) <= harvests[h].quantity

=============================================================================
