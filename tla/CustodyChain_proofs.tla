------------------------- MODULE CustodyChain_proofs ------------------------
(***************************************************************************)
(* What a verified chain says, and when a chain verifies, for any number   *)
(* of lots, sessions, requests and changes by hand.                        *)
(***************************************************************************)
EXTENDS CustodyChain, SetInduction, TLAPS

(* created_at identifies an event, in the table and among the requests.    *)
OneEach(rows) == \A d, e \in rows : d.created = e.created => d = e
Typed(rows) == \A x \in rows : IsRow(x)

Stamped ==
  /\ \A r \in requests : r.row.created <= clock
  /\ \A w \in written \cup events : w.created <= clock
  /\ \A q, r \in requests : q.row.created = r.row.created => q = r
  /\ \A r \in requests, w \in written \cup events : r.row.created # w.created
  /\ OneEach(written) /\ OneEach(events)

(* Where no hand interfered, the table holds what was recorded.            *)
Kept == \A l \in Lots : changes[l] = 0 => RowsOf(l) = {w \in written : w.lot = l}

(* A recorded hash covers the recorded event.                              *)
Sealed == \A w \in written : \E z \in Styles : w.hash = Hash(w.prev, Canonical(w, z))

(* An event is linked to the latest of the events it was linked among.     *)
Linked ==
  /\ \A w \in written : w.prev = LatestHash(seen[w.created])
  /\ \A r \in requests : r.stage = "linked" => r.row.prev = LatestHash(r.seen)

(* A transfer that was let through names both organizations.               *)
Checked == \A r \in requests : r.stage # "begun" => Acceptable(r.row.body)

CInv == TypeOK /\ Stamped /\ Kept /\ Sealed /\ Linked /\ Checked

-----------------------------------------------------------------------------
(* Chains                                                                  *)

(* Rows with distinct created_at have a latest one.                        *)
LEMMA LatestExists ==
  ASSUME NEW rows, Typed(rows), OneEach(rows), rows # {}
  PROVE  \E e \in rows : \A d \in rows \ {e} : Before(d, e)
<1>1. \A e \in rows : e.at \in 1..MaxTime /\ e.created \in 1..MaxEvents
  BY DEF Typed, IsRow, Row, Times
<1> USE CustodyAssumption DEF OneEach
<1> DEFINE Ages == {MaxTime - e.at : e \in rows}
<1>2. PICK age \in Ages : \A x \in Ages : ~ (x < age)
  <2>1. Ages \subseteq Nat /\ Ages # {}
    BY <1>1
  <2> QED BY <2>1, SmallestOf
<1> DEFINE Last == {e \in rows : MaxTime - e.at = age}
           Waits == {MaxEvents - e.created : e \in Last}
<1>3. PICK wait \in Waits : \A x \in Waits : ~ (x < wait)
  <2>1. Waits \subseteq Nat /\ Waits # {}
    BY <1>1, <1>2
  <2> QED BY <2>1, SmallestOf
<1>4. PICK e \in Last : wait = MaxEvents - e.created
  BY <1>3
<1>5. ASSUME NEW d \in rows \ {e} PROVE Before(d, e)
  <2>1. ~ (MaxTime - d.at < MaxTime - e.at)
    BY <1>2, <1>4
  <2>2. d.at <= e.at
    BY <2>1, <1>1, <1>4
  <2>3. CASE d.at < e.at
    BY <2>3 DEF Before
  <2>4. CASE d.at = e.at
    <3>1. d \in Last
      BY <2>4, <1>4
    <3>2. ~ (MaxEvents - d.created < MaxEvents - e.created)
      BY <3>1, <1>3, <1>4
    <3>3. d.created <= e.created /\ d.created # e.created
      BY <3>2, <1>1, <1>4
    <3> QED BY <3>3, <2>4, <1>1, <1>4 DEF Before
  <2> QED BY <2>2, <2>3, <2>4, <1>1, <1>4
<1> QED BY <1>4, <1>5

(* The order of a chain: occurred_at, then created_at.                     *)
LEMMA BeforeOrder ==
  ASSUME NEW rows, Typed(rows), OneEach(rows)
  PROVE  /\ \A d \in rows : ~ Before(d, d)
         /\ \A d, e \in rows : d = e \/ Before(d, e) \/ Before(e, d)
         /\ \A d, e, f \in rows : Before(d, e) /\ Before(e, f) => Before(d, f)
<1>1. \A d \in rows : d.at \in Nat /\ d.created \in Nat
  BY CustodyAssumption DEF Typed, IsRow, Row, Times
<1>2. \A d, e \in rows : d = e \/ d.created # e.created
  BY DEF OneEach
<1>3. \A d, e \in rows : d = e \/ Before(d, e) \/ Before(e, d)
  BY <1>1, <1>2 DEF Before
<1>4. \A d \in rows : ~ Before(d, d)
  BY <1>1 DEF Before
<1>5. \A d, e, f \in rows : Before(d, e) /\ Before(e, f) => Before(d, f)
  BY <1>1 DEF Before
<1> QED BY <1>3, <1>4, <1>5

LEMMA FirstExists ==
  ASSUME NEW rows, Typed(rows), rows # {}
  PROVE  \E e \in rows : \A d \in rows : ~ Before(d, e)
<1>1. \A e \in rows : e.at \in Nat /\ e.created \in Nat
  BY CustodyAssumption DEF Typed, IsRow, Row, Times
<1> DEFINE Ats == {e.at : e \in rows}
<1>2. PICK at \in Ats : \A x \in Ats : ~ (x < at)
  <2>1. Ats \subseteq Nat /\ Ats # {}
    BY <1>1
  <2> QED BY <2>1, SmallestOf
<1> DEFINE First == {e \in rows : e.at = at}
           Stamps == {e.created : e \in First}
<1>3. PICK stamp \in Stamps : \A x \in Stamps : ~ (x < stamp)
  <2>1. Stamps \subseteq Nat /\ Stamps # {}
    BY <1>1, <1>2
  <2> QED BY <2>1, SmallestOf
<1>4. PICK e \in First : stamp = e.created
  BY <1>3
<1>5. ASSUME NEW d \in rows, Before(d, e) PROVE FALSE
  <2>1. ~ (d.at < e.at)
    BY <1>2, <1>4
  <2>2. d.at = e.at /\ d.created < e.created
    BY <1>5, <2>1 DEF Before
  <2>3. d \in First
    BY <1>4, <2>2
  <2> QED BY <1>3, <1>4, <2>2, <2>3
<1> QED BY <1>4, <1>5

LEMMA LatestHashOf ==
  ASSUME NEW rows, Typed(rows), rows # {}, OneEach(rows)
  PROVE  \E e \in rows : LatestHash(rows) = e.hash /\ \A d \in rows \ {e} : Before(d, e)
<1> DEFINE last == CHOOSE e \in rows : \A d \in rows \ {e} : Before(d, e)
<1>1. \E e \in rows : \A d \in rows \ {e} : Before(d, e)
  BY LatestExists
<1>2. last \in rows /\ \A d \in rows \ {last} : Before(d, last)
  BY <1>1
<1>3. LatestHash(rows) = last.hash
  BY DEF LatestHash
<1> HIDE DEF last
<1> QED BY <1>2, <1>3

(* Rows of which each carries the hash of the row before it.               *)
Earlier(rows, e) == {d \in rows : Before(d, e)}

Chained(rows) ==
  \A e \in rows : /\ e.prev = LatestHash(Earlier(rows, e))
                  /\ e.hash = Hash(e.prev, Canonical(e, ReadBack))

LEMMA HashFacts ==
  /\ \A p, c : Hash(p, c) # NoHash
  /\ \A p, q, c, e : Hash(p, c) = Hash(q, e) => p = q /\ c = e
BY DEF Hash, NoHash

(* No two rows of a chain have the same hash: of the earliest such pair    *)
(* the rows before them would be one, too.                                 *)
LEMMA ChainHashes ==
  ASSUME NEW rows, Typed(rows), OneEach(rows), Chained(rows)
  PROVE  \A d, e \in rows : d.hash = e.hash => d = e
<1> DEFINE Twins == {e \in rows : \E f \in rows : Before(e, f) /\ e.hash = f.hash}
<1>1. /\ \A d \in rows : ~ Before(d, d)
      /\ \A d, e \in rows : d = e \/ Before(d, e) \/ Before(e, d)
      /\ \A d, e, f \in rows : Before(d, e) /\ Before(e, f) => Before(d, f)
  BY BeforeOrder
<1>2. Twins = {}
  <2> SUFFICES ASSUME Twins # {} PROVE FALSE
    OBVIOUS
  <2>1. PICK m \in Twins : \A d \in Twins : ~ Before(d, m)
    <3>1. Typed(Twins)
      BY DEF Typed
    <3> HIDE DEF Twins
    <3> QED BY <3>1, FirstExists
  <2>2. PICK f \in rows : Before(m, f) /\ m.hash = f.hash
    BY <2>1
  <2>3. m \in rows /\ m \in Earlier(rows, f)
    BY <2>1, <2>2 DEF Earlier
  <2>4. \A e \in rows : /\ Typed(Earlier(rows, e)) /\ OneEach(Earlier(rows, e))
                        /\ Earlier(rows, e) \subseteq rows
    BY DEF Earlier, OneEach, Typed
  <2>5. PICK p \in Earlier(rows, f) :
          f.prev = p.hash /\ \A d \in Earlier(rows, f) \ {p} : Before(d, p)
    BY <2>2, <2>3, <2>4, LatestHashOf DEF Chained
  <2>6. m.prev = p.hash
    BY <2>2, <2>3, <2>5, HashFacts DEF Chained
  <2>7. p \in rows /\ p.hash # NoHash
    BY <2>4, <2>5, HashFacts DEF Chained
  <2>8. Earlier(rows, m) # {}
    BY <2>3, <2>6, <2>7 DEF Chained, LatestHash
  <2>9. PICK q \in Earlier(rows, m) : m.prev = q.hash
    BY <2>3, <2>4, <2>8, LatestHashOf DEF Chained
  <2>10. q \in rows /\ Before(q, m) /\ q.hash = p.hash
    BY <2>6, <2>9 DEF Earlier
  <2>11. m = p \/ Before(m, p)
    BY <2>3, <2>5
  <2>12. Before(q, p)
    BY <1>1, <2>3, <2>7, <2>10, <2>11
  <2>13. q \in Twins
    BY <2>7, <2>10, <2>12
  <2> QED BY <2>1, <2>10, <2>13
<1> QED BY <1>1, <1>2

UpTo(rows, e) == {d \in rows : ~ Before(e, d)}

(* Two chains that share a hash share all that is before it: of the rows   *)
(* up to there whose hash the other chain lacks, the latest has a row      *)
(* after it whose hash the other chain has, and with it the link to the    *)
(* row before.                                                             *)
LEMMA ChainPrefix ==
  ASSUME NEW R, Typed(R), OneEach(R), Chained(R), NEW r \in R,
         NEW S, Typed(S), OneEach(S), Chained(S), NEW s \in S,
         r.hash = s.hash
  PROVE  \A a \in UpTo(R, r) : \E b \in UpTo(S, s) : b.hash = a.hash
<1> DEFINE Lost == {a \in UpTo(R, r) : ~ \E b \in UpTo(S, s) : b.hash = a.hash}
<1>1. /\ \A d \in R : ~ Before(d, d)
      /\ \A d, e \in R : d = e \/ Before(d, e) \/ Before(e, d)
      /\ \A d, e, f \in R : Before(d, e) /\ Before(e, f) => Before(d, f)
  BY BeforeOrder
<1>2. /\ \A d \in S : ~ Before(d, d)
      /\ \A d, e \in S : d = e \/ Before(d, e) \/ Before(e, d)
      /\ \A d, e, f \in S : Before(d, e) /\ Before(e, f) => Before(d, f)
  BY BeforeOrder
<1>3. Lost = {}
  <2> SUFFICES ASSUME Lost # {} PROVE FALSE
    OBVIOUS
  <2>1. Lost \subseteq R /\ Typed(Lost) /\ OneEach(Lost)
    BY DEF UpTo, Typed, OneEach
  <2>2. PICK a \in Lost : \A d \in Lost \ {a} : Before(d, a)
    <3> HIDE DEF Lost
    <3> QED BY <2>1, LatestExists
  <2>3. a \in R /\ ~ Before(r, a) /\ ~ \E b \in UpTo(S, s) : b.hash = a.hash
    BY <2>2 DEF UpTo
  <2>4. s \in UpTo(S, s)
    BY <1>2 DEF UpTo
  <2>5. Before(a, r)
    BY <1>1, <2>3, <2>4
  <2> DEFINE Later == {d \in R : Before(a, d)}
  <2>6. PICK n \in Later : \A d \in Later : ~ Before(d, n)
    <3>1. Typed(Later) /\ Later # {}
      BY <2>5 DEF Typed
    <3> HIDE DEF Later
    <3> QED BY <3>1, FirstExists
  <2>7. n \in R /\ Before(a, n) /\ n \in UpTo(R, r)
    BY <2>5, <2>6 DEF UpTo
  <2>8. n \notin Lost
    BY <1>1, <2>2, <2>3, <2>7
  <2>9. PICK m \in UpTo(S, s) : m.hash = n.hash
    BY <2>7, <2>8
  <2>10. m \in S /\ ~ Before(s, m)
    BY <2>9 DEF UpTo
  <2>11. m.prev = n.prev
    BY <2>7, <2>9, <2>10, HashFacts DEF Chained
  <2>12. n.prev = a.hash
    <3>1. Typed(Earlier(R, n)) /\ OneEach(Earlier(R, n)) /\ a \in Earlier(R, n)
      BY <2>3, <2>7 DEF Earlier, Typed, OneEach
    <3>2. PICK p \in Earlier(R, n) :
            LatestHash(Earlier(R, n)) = p.hash /\ \A d \in Earlier(R, n) \ {p} : Before(d, p)
      BY <3>1, LatestHashOf
    <3>3. p = a
      BY <2>6, <3>1, <3>2 DEF Earlier
    <3> QED BY <2>7, <3>2, <3>3 DEF Chained
  <2>13. a.hash # NoHash
    BY <2>3, HashFacts DEF Chained
  <2>14. PICK b \in Earlier(S, m) : m.prev = b.hash
    <3>1. m.prev = LatestHash(Earlier(S, m))
      BY <2>10 DEF Chained
    <3>2. Earlier(S, m) # {}
      BY <2>11, <2>12, <2>13, <3>1 DEF LatestHash
    <3>3. Typed(Earlier(S, m)) /\ OneEach(Earlier(S, m))
      BY DEF Earlier, Typed, OneEach
    <3> QED BY <3>1, <3>2, <3>3, LatestHashOf
  <2>15. b \in S /\ Before(b, m)
    BY <2>14 DEF Earlier
  <2>16. b \in UpTo(S, s)
    BY <1>2, <2>10, <2>15 DEF UpTo
  <2> QED BY <2>3, <2>11, <2>12, <2>14, <2>16
<1> QED BY <1>3

(* Rows of the same hash say the same.                                     *)
LEMMA SameHash ==
  ASSUME NEW R, Chained(R), NEW a \in R, NEW S, Chained(S), NEW b \in S, a.hash = b.hash
  PROVE  Said(a) = Said(b)
<1>1. a.prev = b.prev /\ Canonical(a, ReadBack) = Canonical(b, ReadBack)
  BY HashFacts DEF Chained
<1>2. a.lot = b.lot /\ a.body = b.body /\ a.at = b.at /\ a.content = b.content
  BY <1>1 DEF Canonical
<1> QED BY <1>1, <1>2 DEF Said

-----------------------------------------------------------------------------
(* The invariant                                                           *)

LEMMA InitInv ==
  ASSUME Init PROVE CInv
<1> USE DEF Init
<1>1. TypeOK
  BY CustodyAssumption DEF TypeOK
<1>2. Stamped /\ Sealed /\ Linked /\ Checked
  BY DEF Stamped, OneEach, Sealed, Linked, Checked
<1>3. Kept
  BY DEF Kept, RowsOf
<1> QED BY <1>1, <1>2, <1>3 DEF CInv

(* What depends on the rows and on what was recorded.                      *)
LEMMA RowsStay ==
  ASSUME CInv, UNCHANGED <<events, changes, written, seen>>
  PROVE  Kept' /\ Sealed'
<1>1. Kept'
  BY DEF CInv, Kept, RowsOf
<1>2. Sealed'
  BY DEF CInv, Sealed
<1> QED BY <1>1, <1>2

LEMMA BeginInv ==
  ASSUME CInv, NEW s \in Sessions, NEW l \in Lots, NEW body \in Bodies, NEW at \in Times,
         NEW content \in Contents, NEW style \in Styles, Begin(s, l, body, at, content, style)
  PROVE  CInv'
<1> USE CustodyAssumption
<1> DEFINE row == [lot |-> l, body |-> body, at |-> at, content |-> content,
                   created |-> clock + 1, prev |-> NoHash, hash |-> NoHash]
           new == [session |-> s, stage |-> "begun", style |-> style, holder |-> None,
                   seen |-> {}, row |-> row]
<1>1. /\ requests' = requests \cup {new} /\ clock + changes[l] < MaxEvents /\ clock' = clock + 1
      /\ UNCHANGED <<events, holder, changes, audited, written, seen>>
  BY DEF Begin
<1>2. clock \in Nat /\ clock < MaxEvents /\ clock' \in 0..MaxEvents
  BY <1>1 DEF CInv, TypeOK
<1>3. IsRequest(new) /\ new.row.created = clock + 1 /\ new.stage = "begun"
  <2>1. clock + 1 \in 1..MaxEvents
    BY <1>2
  <2>2. IsRow(row)
    BY <2>1 DEF IsRow, Row
  <2> QED BY <2>2 DEF IsRequest
<1> HIDE DEF new
<1>4. TypeOK'
  BY <1>1, <1>2, <1>3 DEF CInv, TypeOK
<1>5. Stamped'
  <2>1. \A r \in requests : r.row.created \in Nat
    BY DEF CInv, TypeOK, IsRequest, IsRow, Row
  <2>2. \A w \in written \cup events : w.created \in Nat
    BY DEF CInv, TypeOK, IsRow, Row
  <2> QED BY <1>1, <1>2, <1>3, <2>1, <2>2 DEF CInv, Stamped
<1>6. Linked' /\ Checked'
  BY <1>1, <1>3 DEF CInv, Linked, Checked
<1> QED BY <1>1, <1>4, <1>5, <1>6, RowsStay DEF CInv

(* A request that moves on keeps its created_at.                           *)
LEMMA MovesOn ==
  ASSUME CInv, NEW r \in requests, NEW q, IsRequest(q),
         q.row.created = r.row.created,
         q.stage = "linked" => q.row.prev = LatestHash(q.seen),
         Acceptable(q.row.body),
         requests' = (requests \ {r}) \cup {q},
         UNCHANGED <<events, holder, clock, changes, audited, written, seen>>
  PROVE  CInv'
<1>1. TypeOK'
  BY DEF CInv, TypeOK
<1>2. Stamped'
  BY DEF CInv, Stamped
<1>3. Linked' /\ Checked'
  BY DEF CInv, Linked, Checked
<1> QED BY <1>1, <1>2, <1>3, RowsStay DEF CInv

LEMMA LoadLotInv ==
  ASSUME CInv, NEW r \in requests, LoadLot(r)
  PROVE  CInv'
<1> DEFINE q == [r EXCEPT !.stage = "loaded", !.holder = holder[r.row.lot]]
<1>1. IsRequest(r)
  BY DEF CInv, TypeOK
<1>2. holder[r.row.lot] \in Orgs
  BY <1>1 DEF CInv, TypeOK, IsRequest, IsRow, Row
<1>3. IsRequest(q) /\ q.row = r.row /\ q.stage = "loaded"
  BY <1>1, <1>2 DEF IsRequest
<1>4. /\ Acceptable(r.row.body)
      /\ requests' = (requests \ {r}) \cup {q}
      /\ UNCHANGED <<events, holder, clock, changes, audited, written, seen>>
  BY DEF LoadLot
<1> HIDE DEF q
<1> QED BY <1>3, <1>4, MovesOn

LEMMA LinkInv ==
  ASSUME CInv, NEW r \in requests, Link(r)
  PROVE  CInv'
<1> DEFINE prev == PreviousHash(r.row.lot)
           rows == RowsOf(r.row.lot)
           q == [r EXCEPT !.stage = "linked", !.row.prev = prev, !.seen = rows]
<1>1. IsRequest(r)
  BY DEF CInv, TypeOK
<1>2. Typed(rows)
  BY DEF CInv, TypeOK, RowsOf, Typed
<1>3. prev = LatestHash(rows)
  BY DEF PreviousHash
<1> HIDE DEF prev, rows
<1>4. /\ q.stage = "linked" /\ q.row.prev = prev /\ q.seen = rows
      /\ q.row.created = r.row.created /\ q.row.body = r.row.body
  BY <1>1 DEF IsRequest, IsRow, Row
<1>5. IsRequest(q)
  <2> DEFINE row == [r.row EXCEPT !.prev = prev]
  <2>1. IsRow(row)
    BY <1>1 DEF IsRequest, IsRow, Row
  <2>2. q = [r EXCEPT !.stage = "linked", !.row = row, !.seen = rows]
    BY <1>1 DEF IsRequest
  <2> HIDE DEF row, q
  <2> QED BY <1>1, <1>2, <2>1, <2>2 DEF IsRequest, Typed
<1>6. /\ r.stage = "loaded" /\ requests' = (requests \ {r}) \cup {q}
      /\ UNCHANGED <<events, holder, clock, changes, audited, written, seen>>
  BY DEF Link, prev, rows
<1>7. Acceptable(r.row.body)
  BY <1>6 DEF CInv, Checked
<1> HIDE DEF q
<1> QED BY <1>3, <1>4, <1>5, <1>6, <1>7, MovesOn

LEMMA CommitInv ==
  ASSUME CInv, NEW r \in requests, CommitEvent(r)
  PROVE  CInv'
<1> DEFINE row == [r.row EXCEPT !.hash = Hash(r.row.prev, Canonical(r.row, r.style))]
<1>1. IsRequest(r) /\ IsRow(r.row) /\ r.style \in Styles /\ Typed(r.seen)
  BY DEF CInv, TypeOK, IsRequest, Typed
<1>2. /\ r.stage = "linked" /\ requests' = requests \ {r}
      /\ UNCHANGED <<clock, changes, audited>>
      /\ events' = events \cup {row} /\ written' = written \cup {row}
      /\ seen' = [c \in DOMAIN seen \cup {row.created} |->
                     IF c = row.created THEN r.seen ELSE seen[c]]
      /\ holder' = IF Moves(row) /\ row.body.to # r.holder
                     THEN [holder EXCEPT ![row.lot] = row.body.to] ELSE holder
  BY DEF CommitEvent
<1>3. /\ row.lot = r.row.lot /\ row.body = r.row.body /\ row.at = r.row.at
      /\ row.content = r.row.content /\ row.created = r.row.created /\ row.prev = r.row.prev
      /\ row.hash = Hash(row.prev, Canonical(row, r.style)) /\ IsRow(row)
  BY <1>1 DEF IsRow, Row, Canonical
<1> HIDE DEF row
<1>4. row.body.kind = "transfer" => row.body.from # None /\ row.body.to # None
  BY <1>2, <1>3 DEF CInv, Checked, Acceptable
<1>5. TypeOK'
  <2>1. Moves(row) => row.body.to \in Orgs
    BY <1>3, CustodyAssumption DEF Moves, IsRow, Row
  <2>2. holder' \in [Lots -> Orgs]
    BY <1>2, <2>1 DEF CInv, TypeOK
  <2>3. DOMAIN seen' = {w.created : w \in written'}
    BY <1>2 DEF CInv, TypeOK
  <2>4. \A c \in DOMAIN seen' : \A x \in seen'[c] : IsRow(x)
    BY <1>1, <1>2 DEF CInv, TypeOK, Typed
  <2> QED BY <1>2, <1>3, <1>4, <2>2, <2>3, <2>4 DEF CInv, TypeOK
<1>6. Stamped'
  BY <1>2, <1>3 DEF CInv, Stamped, OneEach
<1>7. Kept'
  BY <1>2 DEF CInv, Kept, RowsOf
<1>8. Sealed'
  BY <1>1, <1>2, <1>3 DEF CInv, Sealed
<1>9. Linked'
  <2>1. row.prev = LatestHash(r.seen)
    BY <1>2, <1>3 DEF CInv, Linked
  <2>2. seen'[row.created] = r.seen
    BY <1>2
  <2>3. ASSUME NEW w \in written PROVE seen'[w.created] = seen[w.created]
    <3>1. w.created # row.created
      BY <1>3 DEF CInv, Stamped
    <3>2. w.created \in DOMAIN seen
      BY DEF CInv, TypeOK
    <3> QED BY <1>2, <3>1, <3>2
  <2> QED BY <1>2, <2>1, <2>2, <2>3 DEF CInv, Linked
<1>10. Checked'
  BY <1>2 DEF CInv, Checked
<1> QED BY <1>5, <1>6, <1>7, <1>8, <1>9, <1>10 DEF CInv

LEMMA AbortInv ==
  ASSUME CInv, NEW r \in requests, AbortEvent(r)
  PROVE  CInv'
<1> USE DEF AbortEvent
<1>1. TypeOK' /\ Stamped'
  BY DEF CInv, TypeOK, Stamped
<1>2. Linked' /\ Checked'
  BY DEF CInv, Linked, Checked
<1> QED BY <1>1, <1>2, RowsStay DEF CInv

LEMMA AuditInv ==
  ASSUME CInv, NEW l \in Lots, Audit(l)
  PROVE  CInv'
<1>1. /\ audited' = [audited EXCEPT ![l] = RowsOf(l)]
      /\ UNCHANGED <<events, holder, requests, clock, changes, written, seen>>
  BY DEF Audit
<1>2. \A d \in RowsOf(l) : IsRow(d) /\ d.lot = l
  BY DEF CInv, TypeOK, RowsOf
<1>3. \A k \in Lots : audited'[k] = IF k = l THEN RowsOf(l) ELSE audited[k]
  BY <1>1 DEF CInv, TypeOK
<1>4. TypeOK'
  BY <1>1, <1>2, <1>3 DEF CInv, TypeOK
<1>5. Stamped' /\ Linked' /\ Checked'
  BY <1>1 DEF CInv, Stamped, Linked, Checked
<1> QED BY <1>1, <1>4, <1>5, RowsStay DEF CInv

(* By hand, rows of one lot come and go, and that is counted.              *)
LEMMA ChangeInv ==
  ASSUME CInv, NEW l \in Lots, Change(l),
         NEW gone, gone \subseteq RowsOf(l), NEW new, Typed(new), OneEach(new),
         events' = (events \ gone) \cup new,
         \A x \in new : x.lot = l /\ x.created <= clock,
         \A x \in new, r \in requests : r.row.created # x.created,
         \A x \in new, e \in events : e.created = x.created => e \in gone
  PROVE  CInv'
<1> USE CustodyAssumption
<1>1. /\ clock + changes[l] < MaxEvents /\ changes' = [changes EXCEPT ![l] = @ + 1]
      /\ UNCHANGED <<holder, requests, clock, audited, written, seen>>
  BY DEF Change
<1>2. /\ changes' \in [Lots -> 0..MaxEvents]
      /\ \A k \in Lots : changes'[k] = IF k = l THEN changes[k] + 1 ELSE changes[k]
  BY <1>1 DEF CInv, TypeOK
<1>3. TypeOK'
  BY <1>1, <1>2 DEF CInv, TypeOK, Typed
<1>4. Stamped'
  <2>1. OneEach(events')
    BY DEF CInv, Stamped, OneEach
  <2> QED BY <1>1, <2>1 DEF CInv, Stamped
<1>5. Kept'
  <2> SUFFICES ASSUME NEW k \in Lots, changes'[k] = 0
               PROVE  RowsOf(k)' = {w \in written' : w.lot = k}
    BY DEF Kept
  <2>1. k # l /\ changes[k] = 0
    BY <1>2 DEF CInv, TypeOK
  <2>2. RowsOf(k)' = RowsOf(k)
    BY <2>1 DEF RowsOf
  <2> QED BY <1>1, <2>1, <2>2 DEF CInv, Kept
<1>6. Sealed' /\ Linked' /\ Checked'
  BY <1>1 DEF CInv, Sealed, Linked, Checked
<1> QED BY <1>3, <1>4, <1>5, <1>6 DEF CInv

LEMMA PutInv ==
  ASSUME CInv, NEW l \in Lots, Put(l)
  PROVE  CInv'
<1>1. PICK row \in Puts(l) :
        /\ \A r \in requests : r.row.created # row.created
        /\ \A e \in events : e.created = row.created => e.lot = l
        /\ events' = {e \in events : e.created # row.created} \cup {row}
  BY DEF Put
<1>2. Change(l)
  BY DEF Put
<1>3. IsRow(row) /\ row.lot = l /\ row.created <= clock
  <2> DEFINE rows == {e \in Row(Known) : e.lot = l /\ e.created <= clock}
  <2>1. ASSUME NEW e \in rows PROVE IsRow(e) /\ e.lot = l /\ e.created <= clock
    BY <2>1 DEF IsRow, Row
  <2>2. ASSUME NEW e \in rows, row = [e EXCEPT !.hash = Hash(e.prev, Canonical(e, ReadBack))]
        PROVE  IsRow(row) /\ row.lot = l /\ row.created <= clock
    <3> DEFINE hash == Hash(e.prev, Canonical(e, ReadBack))
    <3> HIDE DEF hash
    <3>1. row = [e EXCEPT !.hash = hash]
      BY <2>2 DEF hash
    <3> QED BY <2>1, <3>1 DEF IsRow, Row
  <2> QED BY <2>1, <2>2, <1>1 DEF Puts
<1> DEFINE gone == {e \in events : e.created = row.created}
<1>4. gone \subseteq RowsOf(l) /\ events' = (events \ gone) \cup {row}
  BY <1>1 DEF RowsOf
<1>5. \A e \in events : e.created = row.created => e \in gone
  OBVIOUS
<1> HIDE DEF gone
<1>6. Typed({row}) /\ OneEach({row})
  BY <1>3 DEF Typed, OneEach
<1> QED BY <1>1, <1>2, <1>3, <1>4, <1>5, <1>6, ChangeInv

LEMMA EraseInv ==
  ASSUME CInv, NEW l \in Lots, Erase(l)
  PROVE  CInv'
<1>1. PICK e \in RowsOf(l) : events' = (events \ {e}) \cup {}
  BY DEF Erase
<1>2. Change(l) /\ {e} \subseteq RowsOf(l)
  BY DEF Erase
<1> DEFINE gone == {e}
           new == {}
<1>3. Typed(new) /\ OneEach(new) /\ new = {}
  BY DEF Typed, OneEach
<1>4. events' = (events \ gone) \cup new /\ gone \subseteq RowsOf(l)
  BY <1>1, <1>2
<1> HIDE DEF gone, new
<1> QED BY <1>2, <1>3, <1>4, ChangeInv

LEMMA NextInv ==
  ASSUME CInv, [Next]_vars
  PROVE  CInv'
<1>1. CASE \E s \in Sessions, l \in Lots, body \in Bodies, at \in Times,
               content \in Contents, style \in Styles : Begin(s, l, body, at, content, style)
  BY <1>1, BeginInv
<1>2. ASSUME NEW r \in requests,
             LoadLot(r) \/ Link(r) \/ CommitEvent(r) \/ AbortEvent(r)
      PROVE  CInv'
  BY <1>2, LoadLotInv, LinkInv, CommitInv, AbortInv
<1>3. ASSUME NEW l \in Lots, Audit(l) \/ Put(l) \/ Erase(l) PROVE CInv'
  BY <1>3, AuditInv, PutInv, EraseInv
<1>4. CASE UNCHANGED vars
  <2>1. TypeOK' /\ Stamped'
    BY <1>4 DEF vars, CInv, TypeOK, Stamped
  <2>2. Linked' /\ Checked'
    BY <1>4 DEF vars, CInv, Linked, Checked
  <2> QED BY <1>4, <2>1, <2>2, RowsStay DEF vars, CInv
<1> QED BY <1>1, <1>2, <1>3, <1>4 DEF Next, Quiescent

LEMMA CustodyInvariance == Spec => []CInv
<1>1. Init => CInv
  BY InitInv
<1>2. CInv /\ [Next]_vars => CInv'
  BY NextInv
<1> QED BY <1>1, <1>2, PTL DEF Spec

-----------------------------------------------------------------------------

(* Every row, request, audit and holder has its type, and a recorded       *)
(* transfer names both organizations.                                      *)
THEOREM CustodyTypes == Spec => []TypeOK
<1>1. CInv => TypeOK
  BY DEF CInv
<1> QED BY <1>1, CustodyInvariance, PTL

(* A chain recorded in order, written as it is read back, and left alone   *)
(* is accepted, whatever was done meanwhile to other lots.                 *)
THEOREM NoFalseAlarm == Spec => []OrderlyVerifies
<1>1. ASSUME CInv, NEW l \in Lots, changes[l] = 0,
             \A w \in written : w.lot = l => AsReadBack(w) /\ seen[w.created] = Preceding(w)
      PROVE  Verify(l)
  <2> SUFFICES ASSUME NEW e \in RowsOf(l)
               PROVE  LET prev == LatestHash({d \in RowsOf(l) : Before(d, e)})
                      IN  e.hash = Hash(prev, Canonical(e, ReadBack)) /\ e.prev = prev
    BY DEF Verify
  <2>1. RowsOf(l) = {w \in written : w.lot = l}
    BY <1>1 DEF CInv, Kept
  <2>2. e \in written /\ e.lot = l
    BY <2>1
  <2>3. {d \in RowsOf(l) : Before(d, e)} = Preceding(e)
    BY <2>1, <2>2 DEF Preceding
  <2>4. e.prev = LatestHash(Preceding(e))
    BY <1>1, <2>2 DEF CInv, Linked
  <2>5. PICK z \in Styles : e.hash = Hash(e.prev, Canonical(e, z))
    BY <1>1, <2>2 DEF CInv, Sealed
  <2>6. z.at = "utc" /\ z.content = "stored"
    BY <1>1, <2>2, <2>5 DEF AsReadBack, Hash, Canonical
  <2>7. z = ReadBack
    BY <2>6, CustodyAssumption DEF Style, ReadBack
  <2> QED BY <2>3, <2>4, <2>5, <2>7
<1>2. CInv => OrderlyVerifies
  BY <1>1 DEF OrderlyVerifies
<1> QED BY <1>2, CustodyInvariance, PTL

-----------------------------------------------------------------------------
(* What an audit is worth                                                  *)

(* A lot that verifies is a chain.                                         *)
LEMMA VerifiedChain ==
  ASSUME CInv, NEW l, Verify(l)
  PROVE  Typed(RowsOf(l)) /\ OneEach(RowsOf(l)) /\ Chained(RowsOf(l))
<1>1. Typed(RowsOf(l)) /\ OneEach(RowsOf(l))
  BY DEF CInv, TypeOK, Stamped, OneEach, Typed, RowsOf
<1>2. Chained(RowsOf(l))
  BY DEF Verify, Earlier, Chained
<1> QED BY <1>1, <1>2

Audited == \A l \in Lots : OneEach(audited[l]) /\ Chained(audited[l])

LEMMA NextAudited ==
  ASSUME CInv, Audited, [Next]_vars
  PROVE  Audited'
<1>1. CASE UNCHANGED audited
  BY <1>1 DEF Audited
<1>2. ASSUME NEW l \in Lots, Audit(l) PROVE Audited'
  <2>1. OneEach(RowsOf(l)) /\ Chained(RowsOf(l))
    BY <1>2, VerifiedChain DEF Audit
  <2>2. \A k \in Lots : audited'[k] = IF k = l THEN RowsOf(l) ELSE audited[k]
    BY <1>2 DEF Audit, CInv, TypeOK
  <2> QED BY <2>1, <2>2 DEF Audited
<1>3. UNCHANGED audited \/ \E l \in Lots : Audit(l)
  BY DEF Next, Begin, LoadLot, Link, CommitEvent, AbortEvent, Put, Erase, Change, Quiescent, vars
<1> QED BY <1>1, <1>2, <1>3

LEMMA AuditedInvariance == Spec => []Audited
<1>1. Init => Audited
  BY DEF Init, Audited, OneEach, Chained
<1>2. CInv /\ Audited /\ [Next]_vars => Audited'
  BY NextAudited
<1> QED BY <1>1, <1>2, CustodyInvariance, PTL DEF Spec

(* Whatever rows were put in, rewritten with fresh hashes or removed since *)
(* an audit: while the chain verifies and still holds the audited latest   *)
(* hash, the events up to that one say what they said.                     *)
THEOREM AuditsHold == Spec => []AuditHolds
<1>1. ASSUME CInv, Audited, NEW l \in Lots, Verify(l), NEW e \in RowsOf(l),
             e.hash = LatestHash(audited[l])
      PROVE  {Said(d) : d \in {d \in RowsOf(l) : ~ Before(e, d)}} = {Said(d) : d \in audited[l]}
  <2> DEFINE R == RowsOf(l)
             S == audited[l]
  <2>1. Typed(R) /\ OneEach(R) /\ Chained(R) /\ e \in R
    BY <1>1, VerifiedChain
  <2>2. Typed(S) /\ OneEach(S) /\ Chained(S) /\ e.hash = LatestHash(S)
    BY <1>1 DEF CInv, TypeOK, Audited, Typed
  <2> HIDE DEF R, S
  <2>3. S # {}
    BY <2>1, <2>2, HashFacts DEF Chained, LatestHash
  <2>4. PICK s \in S : e.hash = s.hash /\ \A d \in S \ {s} : Before(d, s)
    BY <2>2, <2>3, LatestHashOf
  <2>5. UpTo(S, s) = S
    BY <2>2, <2>4, BeforeOrder DEF UpTo
  <2>6. \A a \in UpTo(R, e) : \E b \in S : Said(b) = Said(a)
    <3>1. \A a \in UpTo(R, e) : \E b \in S : b.hash = a.hash
      BY <2>1, <2>2, <2>4, <2>5, ChainPrefix
    <3> QED BY <2>1, <2>2, <3>1, SameHash DEF UpTo
  <2>7. \A a \in S : \E b \in UpTo(R, e) : Said(b) = Said(a)
    <3>1. \A a \in S : \E b \in UpTo(R, e) : b.hash = a.hash
      BY <2>1, <2>2, <2>4, <2>5, ChainPrefix
    <3> QED BY <2>1, <2>2, <3>1, SameHash DEF UpTo
  <2>8. {Said(d) : d \in UpTo(R, e)} = {Said(d) : d \in S}
    BY <2>6, <2>7
  <2> QED BY <2>8 DEF UpTo, R, S
<1>2. CInv /\ Audited => AuditHolds
  BY <1>1 DEF AuditHolds
<1> QED BY <1>2, CustodyInvariance, AuditedInvariance, PTL

-----------------------------------------------------------------------------
(* What events were linked among                                           *)

(* Rows found at some time in a lot that no hand has touched: recorded     *)
(* ones, and with each of them all that it was linked among.               *)
Closed(l, S) ==
  S \subseteq {v \in written : v.lot = l} /\ \A x \in S : seen[x.created] \subseteq S

SInv ==
  /\ \A w \in written : changes[w.lot] = 0 =>
       Closed(w.lot, seen[w.created]) /\ w \notin seen[w.created]
  /\ \A r \in requests : changes[r.row.lot] = 0 => Closed(r.row.lot, r.seen)

(* All rows of such a lot are a set of this kind.                          *)
LEMMA RowsClosed ==
  ASSUME CInv, SInv, NEW l \in Lots, changes[l] = 0
  PROVE  Closed(l, RowsOf(l))
<1>1. RowsOf(l) = {v \in written : v.lot = l}
  BY DEF CInv, Kept
<1> QED BY <1>1 DEF SInv, Closed

LEMMA NextSeen ==
  ASSUME CInv, SInv, [Next]_vars
  PROVE  SInv'
<1>1. ASSUME UNCHANGED <<written, seen>>,
             \A w \in written : changes'[w.lot] = 0 => changes[w.lot] = 0,
             \A r \in requests' :
               changes'[r.row.lot] = 0 => Closed(r.row.lot, r.seen)
      PROVE  SInv'
  BY <1>1 DEF SInv, Closed
<1>2. ASSUME UNCHANGED <<written, seen, changes>>,
             \A r \in requests' : \/ r.seen = {}
                                  \/ \E q \in requests : r.row.lot = q.row.lot /\ r.seen = q.seen
                                  \/ r.row.lot \in Lots /\ r.seen = RowsOf(r.row.lot)
      PROVE  SInv'
  <2>1. \A r \in requests' : changes'[r.row.lot] = 0 => Closed(r.row.lot, r.seen)
    <3>1. \A l : Closed(l, {})
      BY DEF Closed
    <3> QED BY <1>2, <3>1, RowsClosed DEF SInv
  <2> QED BY <1>1, <1>2, <2>1
<1>3. \A r \in requests : IsRequest(r) /\ r.row.lot \in Lots
  BY DEF CInv, TypeOK, IsRequest, IsRow, Row
<1>4. ASSUME NEW s \in Sessions, NEW l \in Lots, NEW body \in Bodies, NEW at \in Times,
             NEW content \in Contents, NEW style \in Styles, Begin(s, l, body, at, content, style)
      PROVE  SInv'
  BY <1>2, <1>4 DEF Begin
<1>5. ASSUME NEW r \in requests, LoadLot(r) PROVE SInv'
  <2> DEFINE q == [r EXCEPT !.stage = "loaded", !.holder = holder[r.row.lot]]
  <2>1. q.row = r.row /\ q.seen = r.seen
    BY <1>3 DEF IsRequest
  <2>2. requests' = (requests \ {r}) \cup {q} /\ UNCHANGED <<written, seen, changes>>
    BY <1>5 DEF LoadLot
  <2> HIDE DEF q
  <2> QED BY <1>2, <2>1, <2>2
<1>6. ASSUME NEW r \in requests, Link(r) PROVE SInv'
  <2> DEFINE q == [r EXCEPT !.stage = "linked", !.row.prev = PreviousHash(r.row.lot),
                            !.seen = RowsOf(r.row.lot)]
  <2>1. q.row.lot = r.row.lot /\ q.seen = RowsOf(r.row.lot)
    BY <1>3 DEF IsRequest, IsRow, Row
  <2>2. requests' = (requests \ {r}) \cup {q} /\ UNCHANGED <<written, seen, changes>>
    BY <1>6 DEF Link
  <2> HIDE DEF q
  <2> QED BY <1>2, <1>3, <2>1, <2>2
<1>7. ASSUME NEW r \in requests, CommitEvent(r) PROVE SInv'
  <2> DEFINE row == [r.row EXCEPT !.hash = Hash(r.row.prev, Canonical(r.row, r.style))]
  <2>1. row.lot = r.row.lot /\ row.created = r.row.created
    BY <1>3 DEF IsRequest, IsRow, Row
  <2>2. /\ written' = written \cup {row} /\ requests' = requests \ {r} /\ changes' = changes
        /\ seen' = [c \in DOMAIN seen \cup {row.created} |->
                     IF c = row.created THEN r.seen ELSE seen[c]]
    BY <1>7 DEF CommitEvent
  <2> HIDE DEF row
  <2>3. \A w \in written : w.created # row.created /\ seen'[w.created] = seen[w.created]
    BY <2>1, <2>2 DEF CInv, Stamped, TypeOK
  <2>4. seen'[row.created] = r.seen
    BY <2>2
  <2>5. ASSUME NEW l, NEW S, Closed(l, S)
        PROVE  /\ S \subseteq {v \in written' : v.lot = l} /\ row \notin S
               /\ \A x \in S : seen'[x.created] \subseteq S
    BY <2>2, <2>3, <2>5 DEF Closed
  <2>6. ASSUME NEW w \in written, changes[w.lot] = 0
        PROVE  Closed(w.lot, seen[w.created])' /\ w \notin seen'[w.created]
    <3> DEFINE S == seen[w.created]
    <3>1. Closed(w.lot, S) /\ w \notin S
      BY <2>6 DEF SInv
    <3>2. seen'[w.created] = S
      BY <2>3
    <3> HIDE DEF S
    <3>3. /\ S \subseteq {v \in written' : v.lot = w.lot}
          /\ \A x \in S : seen'[x.created] \subseteq S
      BY <2>5, <3>1
    <3> QED BY <3>1, <3>2, <3>3 DEF Closed
  <2>7. ASSUME changes[row.lot] = 0
        PROVE  Closed(row.lot, seen[row.created])' /\ row \notin seen'[row.created]
    <3> DEFINE S == r.seen
    <3>1. Closed(row.lot, S)
      BY <2>1, <2>7 DEF SInv
    <3>2. seen'[row.created] = S
      BY <2>4
    <3> HIDE DEF S
    <3>3. /\ S \subseteq {v \in written' : v.lot = row.lot} /\ row \notin S
          /\ \A x \in S : seen'[x.created] \subseteq S
      BY <2>5, <3>1
    <3> QED BY <3>2, <3>3 DEF Closed
  <2>8. ASSUME NEW q \in requests, changes[q.row.lot] = 0
        PROVE  Closed(q.row.lot, q.seen)'
    <3> DEFINE S == q.seen
    <3>1. Closed(q.row.lot, S)
      BY <2>8 DEF SInv
    <3> HIDE DEF S
    <3>2. /\ S \subseteq {v \in written' : v.lot = q.row.lot}
          /\ \A x \in S : seen'[x.created] \subseteq S
      BY <2>5, <3>1
    <3> QED BY <3>2 DEF S, Closed
  <2> QED BY <2>2, <2>6, <2>7, <2>8 DEF SInv
<1>8. ASSUME NEW r \in requests, AbortEvent(r) PROVE SInv'
  BY <1>2, <1>8 DEF AbortEvent
<1>9. ASSUME NEW l \in Lots, Audit(l) PROVE SInv'
  BY <1>2, <1>9 DEF Audit
<1>10. ASSUME NEW l \in Lots, Put(l) \/ Erase(l) PROVE SInv'
  <2>1. changes' = [changes EXCEPT ![l] = @ + 1] /\ UNCHANGED <<requests, written, seen>>
    BY <1>10 DEF Put, Erase, Change
  <2>2. \A k \in Lots : changes'[k] = 0 => changes[k] = 0
    BY <2>1 DEF CInv, TypeOK
  <2>3. \A w \in written : w.lot \in Lots
    BY DEF CInv, TypeOK, IsRow, Row
  <2> QED BY <1>1, <1>3, <2>1, <2>2, <2>3 DEF SInv
<1>11. CASE UNCHANGED vars
  BY <1>2, <1>11 DEF vars
<1> QED BY <1>4, <1>5, <1>6, <1>7, <1>8, <1>9, <1>10, <1>11 DEF Next, Quiescent

LEMMA SeenInvariance == Spec => []SInv
<1>1. Init => SInv
  BY DEF Init, SInv
<1>2. CInv /\ SInv /\ [Next]_vars => SInv'
  BY NextSeen
<1> QED BY <1>1, <1>2, CustodyInvariance, PTL DEF Spec

-----------------------------------------------------------------------------
(* A verified chain was recorded in order                                  *)

(* Each event of a verified chain that no hand has touched was linked      *)
(* among all that precede it: it saw the latest of them, which by the same *)
(* argument saw the others.                                                *)
LEMMA SeesPreceding ==
  ASSUME CInv, SInv, NEW l \in Lots, changes[l] = 0, Verify(l)
  PROVE  \A w \in RowsOf(l) : Earlier(RowsOf(l), w) \subseteq seen[w.created]
<1> DEFINE R == RowsOf(l)
<1>1. R = {w \in written : w.lot = l}
  BY DEF CInv, Kept
<1>2. Typed(R) /\ OneEach(R) /\ Chained(R)
  BY VerifiedChain
<1> HIDE DEF R
<1> DEFINE Blind == {w \in R : ~ Earlier(R, w) \subseteq seen[w.created]}
<1>3. Blind = {}
  <2> SUFFICES ASSUME Blind # {} PROVE FALSE
    OBVIOUS
  <2>1. PICK m \in Blind : \A d \in Blind : ~ Before(d, m)
    <3>1. Typed(Blind)
      BY <1>2 DEF Typed
    <3> HIDE DEF Blind
    <3> QED BY <3>1, FirstExists
  <2>2. m \in R /\ m \in written /\ m.lot = l
    BY <1>1, <2>1
  <2>3. PICK v \in Earlier(R, m) : v \notin seen[m.created]
    BY <2>1
  <2>4. Earlier(R, m) \subseteq R /\ OneEach(Earlier(R, m)) /\ Typed(Earlier(R, m))
    BY <1>2 DEF Earlier, OneEach, Typed
  <2>5. PICK u \in Earlier(R, m) :
          m.prev = u.hash /\ \A d \in Earlier(R, m) \ {u} : Before(d, u)
    BY <1>2, <2>2, <2>3, <2>4, LatestHashOf DEF Chained
  <2>6. u \in R /\ u.hash # NoHash /\ Before(u, m)
    BY <1>2, <2>4, <2>5, HashFacts DEF Chained, Earlier
  <2>7. seen[m.created] \subseteq R /\ \A x \in seen[m.created] : seen[x.created] \subseteq seen[m.created]
    BY <1>1, <2>2 DEF SInv, Closed
  <2>8. PICK x \in seen[m.created] : x.hash = u.hash
    <3>1. m.prev = LatestHash(seen[m.created])
      BY <2>2 DEF CInv, Linked
    <3>2. seen[m.created] # {}
      BY <2>5, <2>6, <3>1 DEF LatestHash
    <3>3. Typed(seen[m.created]) /\ OneEach(seen[m.created])
      BY <1>2, <2>7 DEF Typed, OneEach
    <3> QED BY <2>5, <3>1, <3>2, <3>3, LatestHashOf
  <2>9. x = u
    BY <1>2, <2>6, <2>7, <2>8, ChainHashes
  <2>10. v # u
    BY <2>3, <2>8, <2>9
  <2>11. v \in Earlier(R, u)
    BY <2>3, <2>4, <2>5, <2>10 DEF Earlier
  <2>12. v \in seen[u.created]
    BY <2>1, <2>6, <2>11
  <2> QED BY <2>3, <2>7, <2>8, <2>9, <2>12
<1> QED BY <1>3 DEF R

(* If verify_chain accepts a lot that no hand has touched, each of its     *)
(* events was linked when the table held exactly the events that precede   *)
(* it, and was written as it is read back.                                 *)
THEOREM Orderly == Spec => []VerifiedIsOrderly
<1>1. ASSUME CInv, SInv, NEW l \in Lots, changes[l] = 0, Verify(l), NEW w \in written, w.lot = l
      PROVE  AsReadBack(w) /\ seen[w.created] = Preceding(w)
  <2> DEFINE R == RowsOf(l)
  <2>1. R = {v \in written : v.lot = l}
    BY <1>1 DEF CInv, Kept
  <2>2. Typed(R) /\ OneEach(R) /\ Chained(R)
    BY <1>1, VerifiedChain
  <2>3. \A v \in R : Earlier(R, v) \subseteq seen[v.created]
    BY <1>1, SeesPreceding
  <2> HIDE DEF R
  <2>4. w \in R /\ Preceding(w) = Earlier(R, w)
    BY <1>1, <2>1 DEF Preceding, Earlier
  <2>5. AsReadBack(w)
    <3>1. w.hash[2] = Canonical(w, ReadBack)
      BY <2>2, <2>4 DEF Chained, Hash
    <3> QED BY <3>1 DEF AsReadBack, Canonical, ReadBack
  <2>6. ASSUME NEW x \in seen[w.created] PROVE x \in Earlier(R, w)
    <3>1. x \in R /\ seen[x.created] \subseteq seen[w.created] /\ x # w
      BY <1>1, <2>1, <2>6 DEF SInv, Closed
    <3>2. ~ Before(w, x)
      <4> SUFFICES ASSUME Before(w, x) PROVE FALSE
        OBVIOUS
      <4>1. w \in seen[x.created]
        BY <2>3, <2>4, <3>1 DEF Earlier
      <4> QED BY <1>1, <3>1, <4>1 DEF SInv
    <3>3. Before(x, w)
      BY <2>2, <2>4, <3>1, <3>2, BeforeOrder
    <3> QED BY <3>1, <3>3 DEF Earlier
  <2> QED BY <2>3, <2>4, <2>5, <2>6
<1>2. CInv /\ SInv => VerifiedIsOrderly
  BY <1>1 DEF VerifiedIsOrderly
<1> QED BY <1>2, CustodyInvariance, SeenInvariance, PTL

-----------------------------------------------------------------------------
(* Where the holder goes                                                   *)

(* A committed handover makes its destination the holder, unless another   *)
(* changed the holder since the request loaded the lot; nothing else moves *)
(* a lot.                                                                  *)
THEOREM HolderMoves == Spec => HolderFollows
<1> DEFINE moves(l) == {w \in written' \ written : w.lot = l /\ Handover(w)}
           Follows(l) == IF moves(l) = {} THEN holder'[l] = holder[l]
                         ELSE \A w \in moves(l) : Overtaken(w) \/ holder'[l] = w.body.to
<1>1. ASSUME UNCHANGED <<written, holder>> PROVE \A l \in Lots : Follows(l)
  BY <1>1
<1>2. ASSUME CInv, NEW r \in requests, CommitEvent(r), NEW l \in Lots
      PROVE  Follows(l)
  <2> DEFINE row == [r.row EXCEPT !.hash = Hash(r.row.prev, Canonical(r.row, r.style))]
  <2>1. /\ written' = written \cup {row}
        /\ holder' = IF Moves(row) /\ row.body.to # r.holder
                     THEN [holder EXCEPT ![row.lot] = row.body.to] ELSE holder
    BY <1>2 DEF CommitEvent
  <2>2. IsRow(r.row) /\ holder \in [Lots -> Orgs]
    BY <1>2 DEF CInv, TypeOK, IsRequest
  <2>3. row.created = r.row.created /\ row.lot = r.row.lot /\ row.lot \in Lots
    BY <2>2 DEF IsRow, Row
  <2> HIDE DEF row
  <2>4. written' \ written = {row}
    BY <1>2, <2>1, <2>3 DEF CInv, Stamped
  <2>5. Moves(row) <=> Handover(row)
    BY DEF Moves, Handover
  <2>6. CASE row.lot = l /\ Handover(row)
    <3>1. moves(l) = {row}
      BY <2>4, <2>6
    <3>2. CASE row.body.to # r.holder
      BY <2>1, <2>2, <2>5, <2>6, <3>1, <3>2
    <3>3. CASE row.body.to = r.holder
      <4>1. holder' = holder
        BY <2>1, <3>3
      <4>2. holder[l] = row.body.to \/ Overtaken(row)
        BY <2>3, <2>6, <3>3 DEF Overtaken
      <4> QED BY <3>1, <4>1, <4>2
    <3> QED BY <3>2, <3>3
  <2>7. CASE ~ (row.lot = l /\ Handover(row))
    <3>1. moves(l) = {}
      BY <2>4, <2>7
    <3>2. holder'[l] = holder[l]
      BY <2>1, <2>2, <2>5, <2>7
    <3> QED BY <3>1, <3>2
  <2> QED BY <2>6, <2>7
<1>3. ASSUME CInv, [Next]_vars PROVE \A l \in Lots : Follows(l)
  <2> HIDE DEF Follows
  <2>1. ASSUME NEW r \in requests, LoadLot(r) \/ Link(r) \/ AbortEvent(r)
        PROVE  UNCHANGED <<written, holder>>
    BY <2>1 DEF LoadLot, Link, AbortEvent
  <2>2. UNCHANGED <<written, holder>> \/ \E r \in requests : CommitEvent(r)
    BY <1>3, <2>1 DEF Next, Begin, Audit, Put, Erase, Change, Quiescent, vars
  <2> QED BY <1>1, <1>2, <1>3, <2>2
<1>4. CInv /\ [Next]_vars =>
        [\A l \in Lots :
           LET new == {w \in written' \ written : w.lot = l /\ Handover(w)}
           IN  IF new = {} THEN holder'[l] = holder[l]
               ELSE \A w \in new : Overtaken(w) \/ holder'[l] = w.body.to]_vars
  BY <1>3
<1> QED BY <1>4, CustodyInvariance, PTL DEF Spec, HolderFollows

=============================================================================
