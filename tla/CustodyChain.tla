---------------------------- MODULE CustodyChain ----------------------------
(***************************************************************************)
(* Custody events of lots, each linked by hash to the event before it, and *)
(* the lot's current holder, which some events move.  record_event runs in *)
(* the transaction of its request: it loads the lot, reads the hash of the *)
(* latest event, and inserts.  Nothing is locked, so requests interleave   *)
(* between these steps.  verify_chain recomputes every hash.  Behind the   *)
(* service, rows may be put in the table and removed from it by hand.      *)
(*                                                                         *)
(* sha256 is taken to be injective: a hash is the pair of what it covers.  *)
(***************************************************************************)
EXTENDS Naturals, FiniteSets

CONSTANTS
  Lots,
  Orgs,
  Bodies,       (* Bound: what requests ask for: a type and organizations. *)
  MaxTime,      (* Bound: occurred_at, chosen by the client, is 1..MaxTime. *)
  Contents,     (* document_url, location and payload, taken together.     *)
  Styles,       (* How a client writes an instant and the payload.         *)
  Sessions,     (* Database sessions: one open request each.               *)
  MaxEvents,    (* Bound: requests made, with a lot's changes by hand.     *)
  None

EventType == {"transfer", "transformation", "transport", "split", "merge", "inspection"}

(* Recording hashes what the client sent, verifying hashes what the table  *)
(* gives back.  An instant comes back in UTC: one with another offset, or  *)
(* with none, was hashed as something else.  JSONB rewrites some numbers:  *)
(* 1e16 comes back as an integer, -0.0 without its sign.                   *)
Style == [at: {"utc", "other"}, content: {"stored", "other"}]
ReadBack == [at |-> "utc", content |-> "stored"]

ASSUME CustodyAssumption ==
  /\ Bodies \subseteq [kind: EventType, from: Orgs \cup {None}, to: Orgs \cup {None}]
  /\ MaxTime \in Nat
  /\ Styles \subseteq Style
  /\ MaxEvents \in Nat
  /\ None \notin Orgs

Times == 1..MaxTime

VARIABLES
  events,    (* Rows of custody_events.                                    *)
  holder,    (* current_holder_org_id by lot.                              *)
  requests,  (* Requests whose transaction is open.                        *)
  clock,     (* Transactions begun: the database's now().                  *)
  changes,   (* By lot, the changes made to its rows by hand.              *)
  audited,   (* By lot, the rows an auditor noted when they last verified. *)
  written,   (* History: the rows as record_event inserted them ...        *)
  seen       (* ... and, by created_at, the rows of its lot that each one  *)
             (* was linked among.                                          *)

vars == <<events, holder, requests, clock, changes, audited, written, seen>>

Row(S) == [lot: Lots, body: Bodies, at: Times, content: Contents,
           created: 1..MaxEvents, prev: S, hash: S]
IsRow(x) == x \in Row({x.prev, x.hash})

IsRequest(r) ==
  /\ r \in [session: Sessions, stage: {"begun", "loaded", "linked"}, style: Styles,
            holder: Orgs \cup {None}, seen: {r.seen}, row: {r.row}]
  /\ IsRow(r.row) /\ \A x \in r.seen : IsRow(x)

(* The prev_hash of a first event.                                         *)
NoHash == <<>>

(* BUG VARIANT: a transfer may lack an organization.                       *)
Acceptable_Unchecked(body) == TRUE

Acceptable(body) == body.kind = "transfer" => body.from # None /\ body.to # None

TypeOK ==
  /\ \A e \in events \cup written : IsRow(e)
  /\ \A w \in written : w.body.kind = "transfer" => w.body.from # None /\ w.body.to # None
  /\ holder \in [Lots -> Orgs]
  /\ \A r \in requests : IsRequest(r)
  /\ clock \in 0..MaxEvents
  /\ changes \in [Lots -> 0..MaxEvents]
  /\ DOMAIN audited = Lots /\ \A l \in Lots : \A d \in audited[l] : IsRow(d) /\ d.lot = l
  /\ DOMAIN seen = {w.created : w \in written}
  /\ \A c \in DOMAIN seen : \A x \in seen[c] : IsRow(x)

(* Every lot starts in the hands of some organization.                     *)
Init ==
  /\ events = {} /\ written = {}
  /\ holder \in [Lots -> Orgs]
  /\ requests = {}
  /\ clock = 0
  /\ changes = [l \in Lots |-> 0]
  /\ audited = [l \in Lots |-> {}]
  /\ seen = [c \in {} |-> {}]

-----------------------------------------------------------------------------

(* BUG VARIANT: type and organizations are left out of the canonical form. *)
Canonical_NoBody(e, style) ==
  [lot |-> e.lot, occurred_at |-> <<e.at, style.at>>, content |-> <<e.content, style.content>>]

(* _canonical: isoformat keeps the offset the instant is written with, and *)
(* json.dumps the form of the payload's numbers.                           *)
Canonical(e, style) ==
  [lot |-> e.lot, body |-> e.body, occurred_at |-> <<e.at, style.at>>,
   content |-> <<e.content, style.content>>]

Hash(prev, canonical) == <<prev, canonical>>

RowsOf(l) == {e \in events : e.lot = l}

(* ORDER BY occurred_at, created_at; no two created_at are equal.          *)
Before(d, e) == d.at < e.at \/ (d.at = e.at /\ d.created < e.created)

LatestHash(rows) ==
  IF rows = {} THEN NoHash
  ELSE (CHOOSE e \in rows : \A d \in rows \ {e} : Before(d, e)).hash

(* create_event up to its first statement, which begins the transaction:   *)
(* created_at will be this moment.                                         *)
Begin(s, l, body, at, content, style) ==
  /\ clock + changes[l] < MaxEvents
  /\ \A r \in requests : r.session # s
  /\ clock' = clock + 1
  /\ requests' = requests \cup
       {[session |-> s, stage |-> "begun", style |-> style, holder |-> None, seen |-> {},
         row |-> [lot |-> l, body |-> body, at |-> at, content |-> content,
                  created |-> clock + 1, prev |-> NoHash, hash |-> NoHash]]}
  /\ UNCHANGED <<events, holder, changes, audited, written, seen>>

(* BUG VARIANT: the latest event is the one recorded last.                 *)
PreviousHash_ByCreation(l) ==
  IF RowsOf(l) = {} THEN NoHash
  ELSE (CHOOSE e \in RowsOf(l) : \A d \in RowsOf(l) : d.created <= e.created).hash

(* _latest_event_hash: ORDER BY occurred_at DESC, created_at DESC LIMIT 1. *)
PreviousHash(l) == LatestHash(RowsOf(l))

(* The lot is loaded, with its holder; transfers are checked.              *)
LoadLot(r) ==
  /\ r.stage = "begun"
  /\ Acceptable(r.row.body)
  /\ requests' = (requests \ {r}) \cup
       {[r EXCEPT !.stage = "loaded", !.holder = holder[r.row.lot]]}
  /\ UNCHANGED <<events, holder, clock, changes, audited, written, seen>>

(* The event is linked to the latest one.                                  *)
Link(r) ==
  /\ r.stage = "loaded"
  /\ requests' = (requests \ {r}) \cup
       {[r EXCEPT !.stage = "linked", !.row.prev = PreviousHash(r.row.lot),
                  !.seen = RowsOf(r.row.lot)]}
  /\ UNCHANGED <<events, holder, clock, changes, audited, written, seen>>

(* BUG VARIANT: a MERGE leaves the lot where it was.                       *)
Moves_NotMerge(row) == row.body.kind \in {"transfer", "split"} /\ row.body.to # None

(* holder_changing_events, with a destination.                             *)
Moves(row) == row.body.kind \in {"transfer", "split", "merge"} /\ row.body.to # None

(* The insert.  The unit of work leaves an attribute that is set to the    *)
(* value it was loaded with out of the UPDATE.                             *)
CommitEvent(r) ==
  /\ r.stage = "linked"
  /\ LET row == [r.row EXCEPT !.hash = Hash(r.row.prev, Canonical(r.row, r.style))]
     IN  /\ events' = events \cup {row}
         /\ written' = written \cup {row}
         /\ seen' = [c \in DOMAIN seen \cup {row.created} |->
                      IF c = row.created THEN r.seen ELSE seen[c]]
         /\ holder' = IF Moves(row) /\ row.body.to # r.holder
                      THEN [holder EXCEPT ![row.lot] = row.body.to] ELSE holder
  /\ requests' = requests \ {r}
  /\ UNCHANGED <<clock, changes, audited>>

(* A refused transfer, a constraint or the connection fails: rolled back.  *)
AbortEvent(r) ==
  /\ requests' = requests \ {r}
  /\ UNCHANGED <<events, holder, clock, changes, audited, written, seen>>

(* BUG VARIANT: the stored link is not compared.                           *)
Verify_LinkUnchecked(l) ==
  \A e \in RowsOf(l) : e.hash = Hash(e.prev, Canonical(e, ReadBack))

(* verify_chain walks the events in order and stops at the first that does *)
(* not fit.                                                                *)
Verify(l) ==
  \A e \in RowsOf(l) :
    LET prev == LatestHash({d \in RowsOf(l) : Before(d, e)})
    IN  e.hash = Hash(prev, Canonical(e, ReadBack)) /\ e.prev = prev

(* An auditor has the lot verified and keeps its list of events.           *)
Audit(l) ==
  /\ Verify(l)
  /\ audited' = [audited EXCEPT ![l] = RowsOf(l)]
  /\ UNCHANGED <<events, holder, requests, clock, changes, written, seen>>

Change(l) ==
  /\ clock + changes[l] < MaxEvents
  /\ changes' = [changes EXCEPT ![l] = @ + 1]
  /\ UNCHANGED <<holder, requests, clock, audited, written, seen>>

(* The hashes to be found in the table, now or at some time before.        *)
Known == {NoHash} \cup {e.hash : e \in events \cup written}

(* The rows put in by hand: linked to any event, with any known hash or    *)
(* the one that verify_chain will compute, as sha256 takes no key.         *)
Puts(l) ==
  LET rows == {e \in Row(Known) : e.lot = l /\ e.created <= clock}
  IN  rows \cup {[e EXCEPT !.hash = Hash(e.prev, Canonical(e, ReadBack))] : e \in rows}

(* By hand, a row is put in the table: a new one, with a created_at of the *)
(* past, or in place of the lot's row with its created_at.                 *)
Put(l) ==
  /\ Change(l)
  /\ \E row \in Puts(l) :
       /\ \A r \in requests : r.row.created # row.created
       /\ \A e \in events : e.created = row.created => e.lot = l
       /\ events' = {e \in events : e.created # row.created} \cup {row}

(* By hand, a row is removed.                                              *)
Erase(l) ==
  /\ Change(l)
  /\ \E e \in RowsOf(l) : events' = events \ {e}

(* No transaction is open: the service waits for its next request.         *)
Quiescent == requests = {} /\ UNCHANGED vars

Next ==
  \/ \E s \in Sessions, l \in Lots, body \in Bodies, at \in Times, content \in Contents,
        style \in Styles : Begin(s, l, body, at, content, style)
  \/ \E r \in requests : LoadLot(r) \/ Link(r) \/ CommitEvent(r) \/ AbortEvent(r)
  \/ \E l \in Lots : Audit(l) \/ Put(l) \/ Erase(l)
  \/ Quiescent

Spec == Init /\ [][Next]_vars

-----------------------------------------------------------------------------

(* What the hash of a row, or its link, says of it: all but created_at.    *)
Said(d) == [lot |-> d.lot, body |-> d.body, at |-> d.at, content |-> d.content,
            prev |-> d.prev, hash |-> d.hash]

(* "Tampering with any event invalidates every subsequent hash": once a    *)
(* lot was audited, its chain verifies with the audited latest hash still  *)
(* in it only if every event up to there says what it said in the audit,   *)
(* with none missing and none added, whatever rows were put in or removed. *)
AuditHolds ==
  \A l \in Lots : Verify(l) =>
    \A e \in RowsOf(l) : e.hash = LatestHash(audited[l]) =>
      {Said(d) : d \in {d \in RowsOf(l) : ~ Before(e, d)}} = {Said(d) : d \in audited[l]}

Preceding(w) == {v \in written : v.lot = w.lot /\ Before(v, w)}

(* The client wrote the event as the table gives it back: read from what   *)
(* the hash covers.                                                        *)
AsReadBack(w) ==
  w.hash[2].occurred_at[2] = "utc" /\ w.hash[2].content[2] = "stored"

(* No false alarm: if no row of a lot was touched, and each of its events  *)
(* was linked when the table held exactly the events that come before it   *)
(* and was written as the table gives it back, the lot's chain verifies.   *)
OrderlyVerifies ==
  \A l \in Lots :
    /\ changes[l] = 0
    /\ \A w \in written : w.lot = l => AsReadBack(w) /\ seen[w.created] = Preceding(w)
    => Verify(l)

(* If no row of a lot was touched, its chain verifies only if it was       *)
(* recorded in order: no event was linked beside another or written up     *)
(* late, and each was written as the table gives it back.                  *)
VerifiedIsOrderly ==
  \A l \in Lots : changes[l] = 0 /\ Verify(l) =>
    \A w \in written : w.lot = l => AsReadBack(w) /\ seen[w.created] = Preceding(w)

Handover(w) == w.body.kind \in {"transfer", "split", "merge"} /\ w.body.to # None

(* The holder has changed since the request that inserts w loaded the lot. *)
Overtaken(w) ==
  \E r \in requests : r.row.created = w.created /\ r.holder # holder[w.lot]

(* record_event: "For TRANSFER and SPLIT/MERGE events to_org_id becomes    *)
(* the lot's new current holder", and no other step changes the holder.    *)
(* Only a request that was overtaken may fail to: its assignment is lost   *)
(* when it equals the holder that was loaded.                              *)
HolderFollows ==
  [][\A l \in Lots :
       LET moves == {w \in written' \ written : w.lot = l /\ Handover(w)}
       IN  IF moves = {} THEN holder'[l] = holder[l]
           ELSE \A w \in moves : Overtaken(w) \/ holder'[l] = w.body.to]_vars

-----------------------------------------------------------------------------
(* What the repository says of itself and the code does not do             *)

(* test_chain_records_and_verifies: what was recorded and left alone       *)
(* verifies.                                                               *)
RecordedVerifies ==
  \A l \in Lots : changes[l] = 0 => Verify(l)

(* "Every custody event is immutable once written [...] an append-only,    *)
(* tamper-evident chain per lot": a chain that verifies holds every event  *)
(* that was recorded, as it was recorded.                                  *)
TamperEvident ==
  \A l \in Lots : Verify(l) => {w \in written : w.lot = l} \subseteq events

=============================================================================
