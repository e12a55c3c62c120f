-------------------------- MODULE LotLedger_proofs --------------------------
(***************************************************************************)
(* The columns of a lot agree but for rounding, whatever quantities and    *)
(* unit; sessions together overdraw a harvest by no more than one harvest  *)
(* for each further session, and one session never does.  The ledger       *)
(* implements LotStock.                                                    *)
(***************************************************************************)
EXTENDS LotLedger, SetInduction

LEMMA RoundedType ==
  ASSUME NEW q \in Nat
  PROVE  Rounded(q) \in Nat
BY LedgerAssumption DEF Rounded

(* A quantity within a whole number of units stays within it when rounded. *)
LEMMA RoundedWithin ==
  ASSUME NEW q \in Nat, NEW n \in Int, q <= Fine * n
  PROVE  Rounded(q) <= n
<1> DEFINE a == 2 * q + Fine
           b == 2 * Fine
           m == a \div b
<1>1. Fine \in Nat /\ Fine > 0
  BY LedgerAssumption
<1>2. a \in Nat /\ b \in Nat /\ b > 0
  BY <1>1
<1>3. m \in Nat /\ b * m <= a
  <2> HIDE DEF a, b
  <2> QED BY <1>2
<1>4. a <= b * n + Fine
  BY <1>1
<1>5. b * m <= b * n + Fine
  <2>1. b * m \in Int /\ b * n \in Int
    <3> HIDE DEF b, m
    <3> QED BY <1>2, <1>3
  <2> HIDE DEF a, b, m
  <2> QED BY <1>1, <1>2, <1>3, <1>4, <2>1
<1>6. CASE m >= n + 1
  <2>1. b * m >= b * (n + 1)
    <3> HIDE DEF b, m
    <3> QED BY <1>2, <1>3, <1>6
  <2>2. b * (n + 1) = b * n + 2 * Fine
    BY <1>1
  <2>3. b * n \in Int /\ b * m \in Int /\ b * (n + 1) \in Int
    <3> HIDE DEF b, m
    <3> QED BY <1>2, <1>3
  <2> HIDE DEF b, m
  <2> QED BY <1>1, <1>5, <2>1, <2>2, <2>3
<1>7. CASE ~(m >= n + 1)
  <2>1. m <= n
    <3> HIDE DEF m
    <3> QED BY <1>3, <1>7
  <2> QED BY <2>1 DEF Rounded
<1> QED BY <1>6, <1>7

-----------------------------------------------------------------------------
(* Types                                                                   *)

LEMMA PartsFacts ==
  ASSUME NEW S, NEW parts \in Parts(S)
  PROVE  /\ DOMAIN parts \subseteq Harvests
         /\ \A h \in DOMAIN parts : parts[h] \in S
         /\ IsFiniteSet(DOMAIN parts)
<1>1. PICK T \in SUBSET Harvests : parts \in [T -> S]
  BY DEF Parts
<1>2. IsFiniteSet(T)
  BY FS_Subset, LedgerAssumption
<1> QED BY <1>1, <1>2

LEMMA RequestFacts ==
  ASSUME TypeOK, NEW r \in requests
  PROVE  /\ r.session \in Sessions /\ r.code \in Codes /\ r.commodity \in Commodities
         /\ DOMAIN r.parts \subseteq Harvests /\ IsFiniteSet(DOMAIN r.parts)
         /\ \A h \in DOMAIN r.parts : r.parts[h] \in Nat /\ Rounded(r.parts[h]) \in Nat
<1>1. r \in Request
  BY DEF TypeOK
<1>2. r.parts \in Parts(Amounts)
  BY <1>1 DEF Request
<1> QED BY <1>1, <1>2, PartsFacts, RoundedType, LedgerAssumption DEF Request

(* A row more.                                                             *)
LEMMA AppendRows ==
  ASSUME NEW s, s \in Seq({s[i] : i \in DOMAIN s}), NEW x, NEW t, t = Append(s, x)
  PROVE  /\ t \in Seq({t[i] : i \in DOMAIN t})
         /\ DOMAIN t = DOMAIN s \cup {Len(s) + 1} /\ Len(s) + 1 \notin DOMAIN s
         /\ t[Len(s) + 1] = x /\ \A i \in DOMAIN s : t[i] = s[i]
         /\ IsFiniteSet(DOMAIN s)
         /\ \A i \in DOMAIN t : t[i] = x \/ (i \in DOMAIN s /\ t[i] = s[i])
<1> DEFINE S == {s[i] : i \in DOMAIN s} \cup {x}
           n == Len(s) + 1
<1>1. s \in Seq(S) /\ x \in S
  <2>1. DOMAIN s = 1..Len(s) /\ Len(s) \in Nat
    OBVIOUS
  <2> QED BY <2>1
<1> HIDE DEF S
<1>2. t \in Seq(S) /\ Len(t) = n /\ Len(s) \in Nat /\ DOMAIN s = 1..Len(s) /\ DOMAIN t = 1..n
      /\ t[n] = x /\ \A i \in 1..Len(s) : t[i] = s[i]
  BY <1>1
<1>3. DOMAIN t = DOMAIN s \cup {n} /\ n \notin DOMAIN s
  BY <1>2
<1>4. IsFiniteSet(1..Len(s))
  BY <1>2, FS_Interval
<1>5. \A i \in DOMAIN t : t[i] = x \/ (i \in DOMAIN s /\ t[i] = s[i])
  BY <1>2, <1>3
<1>6. t \in Seq({t[i] : i \in DOMAIN t})
  BY <1>2
<1> QED BY <1>2, <1>3, <1>4, <1>5, <1>6

NewLot(r) ==
  [code |-> r.code, commodity |-> r.commodity, total |-> LotTotal(r.parts),
   parts |-> [h \in DOMAIN r.parts |-> Rounded(r.parts[h])]]

(* TypeOK is inductive.                                                    *)
THEOREM LedgerTypes == Spec => []TypeOK
<1>1. Init => TypeOK
  BY DEF Init, TypeOK
<1>2. ASSUME TypeOK, [Next]_vars PROVE TypeOK'
  <2>1. ASSUME NEW h \in Harvests, NEW q \in Yields, NEW k \in Commodities,
               CreateHarvest(h, q, k)
        PROVE  TypeOK'
    <3>1. Rounded(q) \in Nat
      BY RoundedType, LedgerAssumption
    <3>2. harvests' = [harvests EXCEPT ![h] = [quantity |-> Rounded(q), commodity |-> k]]
          /\ UNCHANGED <<lots, requests>>
      BY <2>1 DEF CreateHarvest
    <3> QED BY <1>2, <3>1, <3>2 DEF TypeOK, Harvest
  <2>2. ASSUME NEW s \in Sessions, NEW c \in Codes, NEW k \in Commodities,
               NEW parts \in Parts(Amounts), CreateLotRead(s, c, k, parts)
        PROVE  TypeOK'
    BY <1>2, <2>2 DEF CreateLotRead, TypeOK, Request
  <2>3. ASSUME NEW r \in requests, CreateLotCommit(r) PROVE TypeOK'
    <3>1. LotTotal(r.parts) \in Nat
      <4>1. SumFunction(r.parts) \in Nat
        BY <1>2, RequestFacts, SumNatural
      <4> QED BY <4>1, RoundedType DEF LotTotal
    <3> DEFINE new == NewLot(r)
    <3>2. /\ new.code \in Codes /\ new.commodity \in Commodities /\ new.total \in Nat
          /\ DOMAIN new.parts \subseteq Harvests
          /\ \A h \in DOMAIN new.parts : new.parts[h] \in Nat \ {0}
      BY <1>2, <2>3, <3>1, RequestFacts DEF CreateLotCommit, Storable, NewLot
    <3>3. lots' = Append(lots, new)
      BY <2>3 DEF CreateLotCommit, NewLot
    <3> HIDE DEF new
    <3>4. /\ lots' \in Seq({lots'[i] : i \in DOMAIN lots'})
          /\ \A i \in DOMAIN lots' : lots'[i] = new \/ (i \in DOMAIN lots /\ lots'[i] = lots[i])
      BY <1>2, <3>3, AppendRows DEF TypeOK
    <3>5. harvests' = harvests /\ requests' \subseteq requests
      BY <2>3 DEF CreateLotCommit
    <3> QED BY <1>2, <3>2, <3>4, <3>5 DEF TypeOK
  <2>4. ASSUME NEW r \in requests, AbortLot(r) PROVE TypeOK'
    BY <1>2, <2>4 DEF AbortLot, TypeOK
  <2>5. CASE UNCHANGED vars
    BY <1>2, <2>5 DEF vars, TypeOK
  <2> QED BY <1>2, <2>1, <2>2, <2>3, <2>4, <2>5 DEF Next, Quiescent
<1> QED BY <1>1, <1>2, PTL DEF Spec

-----------------------------------------------------------------------------
(* What allocations add up to                                              *)

LEMMA CommitFacts ==
  ASSUME TypeOK, NEW r \in requests, CreateLotCommit(r)
  PROVE  /\ lots' = Append(lots, NewLot(r))
         /\ DOMAIN lots' = DOMAIN lots \cup {Len(lots) + 1} /\ Len(lots) + 1 \notin DOMAIN lots
         /\ lots'[Len(lots) + 1] = NewLot(r) /\ \A i \in DOMAIN lots : lots'[i] = lots[i]
         /\ r.code \in Codes /\ r.code \notin Built
         /\ Built' = Built \cup {r.code}
<1>1. lots' = Append(lots, NewLot(r)) /\ r.code \notin Built
  BY DEF CreateLotCommit, CodeFree, NewLot
<1>2. /\ DOMAIN lots' = DOMAIN lots \cup {Len(lots) + 1} /\ Len(lots) + 1 \notin DOMAIN lots
      /\ lots'[Len(lots) + 1] = NewLot(r) /\ \A i \in DOMAIN lots : lots'[i] = lots[i]
  BY <1>1, AppendRows DEF TypeOK
<1>3. r.code \in Codes /\ NewLot(r).code = r.code
  BY RequestFacts DEF NewLot
<1>4. Built' = Built \cup {r.code}
  BY <1>2, <1>3 DEF Built
<1> QED BY <1>1, <1>2, <1>3, <1>4

LEMMA DrawnType ==
  ASSUME TypeOK, NEW h
  PROVE  Drawn(h) \in Nat /\ IsFiniteSet(Drawing(h))
<1> DEFINE f == [i \in Drawing(h) |-> lots[i].parts[h]]
<1>1. IsFiniteSet(DOMAIN lots)
  BY AppendRows DEF TypeOK
<1>2. IsFiniteSet(Drawing(h))
  BY <1>1, FS_Subset DEF Drawing
<1>3. DOMAIN f = Drawing(h) /\ \A i \in DOMAIN f : f[i] \in Nat
  BY DEF Drawing, TypeOK
<1> HIDE DEF f
<1>4. SumFunction(f) \in Nat
  BY <1>2, <1>3, SumNatural
<1> QED BY <1>2, <1>4 DEF f, Drawn

LEMMA DrawnStays ==
  ASSUME UNCHANGED lots
  PROVE  \A h \in Harvests : Drawn(h)' = Drawn(h)
BY DEF Drawn, Drawing

(* A commit adds one lot to the sums of its harvests and no other.         *)
LEMMA CommitDraws ==
  ASSUME TypeOK, NEW r \in requests, CreateLotCommit(r), NEW h \in Harvests
  PROVE  Drawn(h)' = IF h \in DOMAIN r.parts THEN Drawn(h) + Rounded(r.parts[h]) ELSE Drawn(h)
<1> DEFINE D == Drawing(h)
           n == Len(lots) + 1
           f == [i \in D |-> lots[i].parts[h]]
           g == [i \in Drawing(h)' |-> lots'[i].parts[h]]
<1>1. /\ DOMAIN lots' = DOMAIN lots \cup {n} /\ n \notin DOMAIN lots
      /\ lots'[n] = NewLot(r) /\ \A i \in DOMAIN lots : lots'[i] = lots[i]
  BY CommitFacts
<1>2. Drawn(h) = SumFunction(f) /\ Drawn(h)' = SumFunction(g)
  BY DEF Drawn
<1>3. DOMAIN NewLot(r).parts = DOMAIN r.parts
  BY DEF NewLot
<1>4. CASE h \notin DOMAIN r.parts
  <2>1. Drawing(h)' = D
    BY <1>1, <1>3, <1>4 DEF Drawing
  <2>2. \A i \in D : lots'[i] = lots[i]
    BY <1>1 DEF Drawing
  <2>3. g = f
    BY <2>1, <2>2
  <2> QED BY <1>2, <1>4, <2>3
<1>5. CASE h \in DOMAIN r.parts
  <2>1. Drawing(h)' = D \cup {n} /\ n \notin D
    BY <1>1, <1>3, <1>5 DEF Drawing
  <2>2. IsFiniteSet(D)
    BY DrawnType
  <2>3. g[n] = Rounded(r.parts[h])
    <3>1. g[n] = lots'[n].parts[h]
      BY <2>1
    <3>2. NewLot(r).parts[h] = Rounded(r.parts[h])
      BY <1>5 DEF NewLot
    <3> QED BY <1>1, <3>1, <3>2, Zenon
  <2>4. \A i \in D : lots'[i] = lots[i]
    BY <1>1 DEF Drawing
  <2>5. On(g, D) = f /\ On(g, D \cup {n}) = g /\ DOMAIN g = D \cup {n}
    BY <2>1, <2>4 DEF On
  <2>6. Rounded(r.parts[h]) \in Nat
    BY <1>5, RequestFacts
  <2>7. IntegersOn(g, D \cup {n})
    <3>1. \A i \in D : g[i] = lots[i].parts[h] /\ lots[i].parts[h] \in Nat
      BY <2>1, <2>4 DEF Drawing, TypeOK
    <3> HIDE DEF g
    <3> QED BY <2>3, <2>6, <3>1 DEF IntegersOn
  <2> HIDE DEF D, f, g, n
  <2>8. /\ SumFunction(On(g, D)) \in Int
        /\ SumFunction(On(g, D \cup {n})) = g[n] + SumFunction(On(g, D))
    BY <2>1, <2>2, <2>7, SumGrow
  <2>9. SumFunction(g) = Rounded(r.parts[h]) + SumFunction(f) /\ SumFunction(f) \in Int
    BY <2>3, <2>5, <2>8, Zenon
  <2> QED BY <1>2, <1>5, <2>6, <2>9
<1> QED BY <1>4, <1>5

-----------------------------------------------------------------------------
(* How far rounding carries                                                *)

LEMMA HalfUnit ==
  ASSUME NEW q \in Nat
  PROVE  /\ Rounded(q) \in Nat
         /\ 2 * Fine * Rounded(q) - 2 * q <= Fine
         /\ -Fine <= 2 * Fine * Rounded(q) - 2 * q
<1> DEFINE a == 2 * q + Fine
           b == 2 * Fine
           m == a \div b
<1>1. Fine \in Nat /\ Fine > 0
  BY LedgerAssumption
<1>2. a \in Nat /\ b \in Nat /\ b > 0
  BY <1>1
<1>3. m \in Nat /\ b * m \in Nat /\ b * m <= a /\ a < b * m + b
  <2> HIDE DEF a, b
  <2>1. m \in Nat /\ a = b * m + (a % b) /\ a % b \in 0 .. (b - 1)
    BY <1>2
  <2>2. b * m \in Nat
    <3> HIDE DEF m
    <3> QED BY <1>2, <2>1
  <2> HIDE DEF m
  <2> QED BY <1>2, <2>1, <2>2
<1>4. b * m - 2 * q <= Fine /\ -Fine <= b * m - 2 * q
  <2> DEFINE p == b * m
  <2>1. p \in Nat /\ p <= 2 * q + Fine /\ 2 * q + Fine < p + 2 * Fine
    BY <1>3
  <2> HIDE DEF p
  <2>2. p - 2 * q <= Fine /\ -Fine <= p - 2 * q
    BY <1>1, <2>1
  <2> QED BY <2>2 DEF p
<1>5. m = Rounded(q) /\ m \in Nat
  BY <1>3 DEF Rounded
<1> QED BY <1>4, <1>5

LEMMA CancelFactor ==
  ASSUME NEW k \in Nat, k > 0, NEW a \in Int, NEW b \in Int, k * a <= k * b
  PROVE  a <= b
<1> SUFFICES ASSUME a >= b + 1 PROVE FALSE
  OBVIOUS
<1>1. PICK c \in Nat : a = b + 1 + c
  <2>1. a - b - 1 \in Nat /\ a = b + 1 + (a - b - 1)
    OBVIOUS
  <2> QED BY <2>1
<1>2. k * a = k * b + k + k * c /\ k * c \in Nat /\ k * b \in Int
  BY <1>1
<1> QED BY <1>2
RoundedParts(parts) == [h \in DOMAIN parts |-> Rounded(parts[h])]

(* One more number, one more half unit (fine units and halves doubled).    *)
LEMMA OneMoreHalf ==
  ASSUME NEW F \in Nat, NEW n \in Nat, NEW R \in Int, NEW s \in Int, NEW r \in Int, NEW q \in Int,
         2 * F * R - 2 * s <= n * F, -(n * F) <= 2 * F * R - 2 * s,
         2 * F * r - 2 * q <= F, -F <= 2 * F * r - 2 * q
  PROVE  /\ 2 * F * (r + R) - 2 * (q + s) <= (n + 1) * F
         /\ -((n + 1) * F) <= 2 * F * (r + R) - 2 * (q + s)
<1>1. 2 * F * (r + R) = 2 * F * r + 2 * F * R /\ (n + 1) * F = n * F + F
  OBVIOUS
<1>2. 2 * F * r \in Int /\ 2 * F * R \in Int /\ n * F \in Int
  OBVIOUS
<1> DEFINE a == 2 * F * r
           b == 2 * F * R
           c == n * F
<1>3. /\ (a + b) - 2 * (q + s) <= c + F
      /\ -(c + F) <= (a + b) - 2 * (q + s)
  <2>1. a \in Int /\ b \in Int /\ c \in Int
    BY <1>2
  <2>2. b - 2 * s <= c /\ -c <= b - 2 * s /\ a - 2 * q <= F /\ -F <= a - 2 * q
    OBVIOUS
  <2> HIDE DEF a, b, c
  <2> QED BY <2>1, <2>2
<1> QED BY <1>1, <1>3

LEMMA RoundedSums ==
  ASSUME NEW parts, IsFiniteSet(DOMAIN parts), \A h \in DOMAIN parts : parts[h] \in Nat
  PROVE  LET R == SumFunction(RoundedParts(parts))
             s == SumFunction(parts)
             n == Cardinality(DOMAIN parts)
         IN  /\ R \in Nat /\ s \in Nat /\ n \in Nat
             /\ 2 * Fine * R - 2 * s <= n * Fine
             /\ -(n * Fine) <= 2 * Fine * R - 2 * s
<1> DEFINE D == DOMAIN parts
           e == RoundedParts(parts)
           R(T) == SumFunction(On(e, T))
           s(T) == SumFunction(On(parts, T))
           Near(T) == /\ 2 * Fine * R(T) - 2 * s(T) <= Cardinality(T) * Fine
                      /\ -(Cardinality(T) * Fine) <= 2 * Fine * R(T) - 2 * s(T)
           G == {T \in SUBSET D : Near(T)}
<1>1. DOMAIN e = D /\ \A h \in D : e[h] = Rounded(parts[h]) /\ e[h] \in Nat /\ parts[h] \in Nat
  BY HalfUnit DEF RoundedParts
<1>2. {} \in G
  <2>1. R({}) = 0 /\ s({}) = 0 /\ Cardinality({}) = 0
    BY SumOnEmpty, FS_EmptySet
  <2>2. Near({})
    <3> HIDE DEF R, s
    <3> QED BY <2>1, LedgerAssumption
  <2> QED BY <2>2
<1>3. ASSUME NEW T \in SUBSET D, NEW x \in D \ T, T \in G PROVE T \cup {x} \in G
  <2>1. IsFiniteSet(T) /\ IntegersOn(e, T \cup {x}) /\ IntegersOn(parts, T \cup {x})
    <3> HIDE DEF e
    <3> QED BY <1>1, FS_Subset DEF IntegersOn
  <2>2. R(T) \in Int /\ R(T \cup {x}) = e[x] + R(T)
    <3> HIDE DEF e
    <3> QED BY <2>1, SumGrow
  <2>3. s(T) \in Int /\ s(T \cup {x}) = parts[x] + s(T)
    BY <2>1, SumGrow
  <2>4. Cardinality(T) \in Nat /\ Cardinality(T \cup {x}) = Cardinality(T) + 1
    BY <2>1, FS_AddElement, FS_CardinalityType
  <2>5. Near(T)
    BY <1>3
  <2>6. /\ e[x] \in Int /\ parts[x] \in Int
        /\ 2 * Fine * e[x] - 2 * parts[x] <= Fine
        /\ -Fine <= 2 * Fine * e[x] - 2 * parts[x]
    <3>1. e[x] = Rounded(parts[x]) /\ parts[x] \in Nat
      BY <1>1
    <3> HIDE DEF e
    <3> QED BY <3>1, HalfUnit
  <2>7. Fine \in Nat
    BY LedgerAssumption
  <2>8. /\ 2 * Fine * (e[x] + R(T)) - 2 * (parts[x] + s(T)) <= (Cardinality(T) + 1) * Fine
        /\ -((Cardinality(T) + 1) * Fine) <= 2 * Fine * (e[x] + R(T)) - 2 * (parts[x] + s(T))
    <3> HIDE DEF e, R, s
    <3> QED BY <2>2, <2>3, <2>4, <2>5, <2>6, <2>7, OneMoreHalf
  <2>9. Near(T \cup {x})
    <3> HIDE DEF e, R, s
    <3> QED BY <2>2, <2>3, <2>4, <2>8, Zenon
  <2> QED BY <2>9
<1>4. Near(D)
  <2>1. D \in G
    <3> HIDE DEF G
    <3> QED BY <1>2, <1>3, FiniteInduct
  <2> QED BY <2>1
<1>5. R(D) = SumFunction(e) /\ s(D) = SumFunction(parts)
  <2>1. IsFiniteSet(DOMAIN e)
    BY <1>1
  <2> HIDE DEF e
  <2> QED BY <1>1, <2>1, SumOnDomain
<1>6. SumFunction(e) \in Nat /\ SumFunction(parts) \in Nat /\ Cardinality(D) \in Nat
  <2>1. IsFiniteSet(DOMAIN e) /\ \A h \in DOMAIN e : e[h] \in Nat
    BY <1>1
  <2> HIDE DEF e
  <2> QED BY <2>1, SumNatural, FS_CardinalityType
<1> HIDE DEF e
<1> QED BY <1>4, <1>5, <1>6, Zenon DEF e

(* What create_lot stores: the total rounds the sum, the parts are summed  *)
(* rounded, and Fine divides out of the difference.                        *)
LEMMA TotalNearSum ==
  ASSUME NEW parts, IsFiniteSet(DOMAIN parts), \A h \in DOMAIN parts : parts[h] \in Nat
  PROVE  LET d == LotTotal(parts) - SumFunction(RoundedParts(parts))
             n == Cardinality(DOMAIN parts)
         IN  -(n + 1) <= 2 * d /\ 2 * d <= n + 1
<1> DEFINE R == SumFunction(RoundedParts(parts))
           s == SumFunction(parts)
           n == Cardinality(DOMAIN parts)
           t == LotTotal(parts)
<1>1. /\ R \in Nat /\ s \in Nat /\ n \in Nat
      /\ 2 * Fine * R - 2 * s <= n * Fine
      /\ -(n * Fine) <= 2 * Fine * R - 2 * s
  BY RoundedSums
<1>2. /\ t \in Nat
      /\ 2 * Fine * t - 2 * s <= Fine
      /\ -Fine <= 2 * Fine * t - 2 * s
  <2> HIDE DEF s
  <2>1. t = Rounded(s)
    BY DEF LotTotal, s
  <2> QED BY <1>1, <2>1, HalfUnit
<1>3. Fine \in Nat /\ Fine > 0
  BY LedgerAssumption
<1> HIDE DEF R, s, n, t
<1>4. /\ Fine * (2 * (t - R)) <= Fine * (n + 1)
      /\ Fine * (-(n + 1)) <= Fine * (2 * (t - R))
  <2> DEFINE a == Fine * R
             b == Fine * t
             c == n * Fine
  <2>1. a \in Int /\ b \in Int /\ c \in Int
    BY <1>1, <1>2, <1>3
  <2>2. /\ Fine * (2 * (t - R)) = 2 * b - 2 * a
        /\ Fine * (n + 1) = c + Fine /\ Fine * (-(n + 1)) = -(c + Fine)
        /\ 2 * Fine * R = 2 * a /\ 2 * Fine * t = 2 * b
    BY <1>1, <1>2, <1>3
  <2>3. /\ 2 * a - 2 * s <= c /\ -c <= 2 * a - 2 * s
        /\ 2 * b - 2 * s <= Fine /\ -Fine <= 2 * b - 2 * s
    BY <1>1, <1>2, <2>2
  <2> HIDE DEF a, b, c
  <2>4. 2 * b - 2 * a <= c + Fine /\ -(c + Fine) <= 2 * b - 2 * a
    BY <1>1, <1>3, <2>1, <2>3
  <2> QED BY <2>2, <2>4
<1>5. 2 * (t - R) <= n + 1 /\ -(n + 1) <= 2 * (t - R)
  <2>1. 2 * (t - R) \in Int /\ n + 1 \in Int /\ -(n + 1) \in Int
    BY <1>1, <1>2
  <2> QED BY <1>3, <1>4, <2>1, CancelFactor
<1> QED BY <1>5 DEF R, n, t

(* The columns of a lot differ by rounding only, for any number of parts.  *)
THEOREM TotalStaysNear == Spec => []TotalNearParts
<1> DEFINE Near(x) ==
      LET n == Cardinality(DOMAIN x.parts)
          d == x.total - SumFunction(x.parts)
      IN  -(n + 1) <= 2 * d /\ 2 * d <= n + 1
<1>1. Init => TotalNearParts
  BY DEF Init, TotalNearParts
<1>2. ASSUME TypeOK, TotalNearParts, [Next]_vars PROVE TotalNearParts'
  <2>1. ASSUME UNCHANGED lots PROVE TotalNearParts'
    BY <1>2, <2>1 DEF TotalNearParts
  <2>2. ASSUME NEW r \in requests, CreateLotCommit(r) PROVE TotalNearParts'
    <3>1. /\ DOMAIN lots' = DOMAIN lots \cup {Len(lots) + 1}
          /\ lots'[Len(lots) + 1] = NewLot(r) /\ \A i \in DOMAIN lots : lots'[i] = lots[i]
      BY <1>2, <2>2, CommitFacts
    <3>2. NewLot(r).total = LotTotal(r.parts) /\ NewLot(r).parts = RoundedParts(r.parts)
      BY DEF NewLot, RoundedParts
    <3>3. DOMAIN RoundedParts(r.parts) = DOMAIN r.parts
      BY DEF RoundedParts
    <3>4. Near(NewLot(r))
      <4>1. IsFiniteSet(DOMAIN r.parts) /\ \A h \in DOMAIN r.parts : r.parts[h] \in Nat
        BY <1>2, RequestFacts
      <4> QED BY <3>2, <3>3, <4>1, TotalNearSum
    <3>5. \A i \in DOMAIN lots : Near(lots[i])
      BY <1>2 DEF TotalNearParts
    <3> HIDE DEF Near
    <3>6. \A i \in DOMAIN lots' : Near(lots'[i])
      BY <3>1, <3>4, <3>5
    <3> QED BY <3>6 DEF Near, TotalNearParts
  <2> QED BY <1>2, <2>1, <2>2
          DEF Next, CreateHarvest, CreateLotRead, AbortLot, Quiescent, vars
<1> QED BY <1>1, <1>2, LedgerTypes, PTL DEF Spec

-----------------------------------------------------------------------------
(* How far sessions overdraw a harvest together                            *)

(* Nothing is drawn from a harvest that is not registered.                 *)
UnregisteredUndrawn == \A h \in Harvests : harvests[h] = None => Drawn(h) = 0

(* The open requests that were granted some of h, and how much of it.      *)
Granters(h) == {q \in requests : h \in DOMAIN q.parts}

Grants(P, h) == [r \in P |-> Rounded(r.parts[h])]

OneRequestEach == \A q, r \in requests : q.session = r.session => q = r

(* Each request on its own fits the harvest: what is available is never    *)
(* more than the harvest, and rounding keeps within it.                    *)
EachWithin ==
  \A r \in requests : \A h \in DOMAIN r.parts :
    harvests[h] # None /\ Rounded(r.parts[h]) <= harvests[h].quantity

CodesOnce == \A i, j \in DOMAIN lots : lots[i].code = lots[j].code => i = j

OInv == OneRequestEach /\ EachWithin /\ UnregisteredUndrawn /\ CodesOnce /\ OverdrawBounded

LEMMA OverdrawUnfolds ==
  OverdrawBounded <=>
    \A h \in Harvests : harvests[h] # None =>
      Drawn(h) + SumFunction(Grants(Granters(h), h)) <= Cardinality(Sessions) * harvests[h].quantity
BY DEF OverdrawBounded, Grants, Granters

(* One request more or less in a sum of grants.                            *)
LEMMA GrantsGrow ==
  ASSUME NEW P, IsFiniteSet(P), NEW r, r \notin P, NEW h,
         \A q \in P \cup {r} : Rounded(q.parts[h]) \in Nat
  PROVE  /\ SumFunction(Grants(P, h)) \in Int
         /\ SumFunction(Grants(P \cup {r}, h)) = Rounded(r.parts[h]) + SumFunction(Grants(P, h))
<1> DEFINE f == Grants(P \cup {r}, h)
<1>1. IntegersOn(f, P \cup {r}) /\ f[r] = Rounded(r.parts[h])
  BY DEF Grants, IntegersOn
<1>2. On(f, P) = Grants(P, h) /\ On(f, P \cup {r}) = f
  BY DEF On, Grants
<1>3. /\ SumFunction(On(f, P)) \in Int
      /\ SumFunction(On(f, P \cup {r})) = f[r] + SumFunction(On(f, P))
  <2> HIDE DEF f
  <2> QED BY <1>1, SumGrow
<1> QED BY <1>1, <1>2, <1>3, Zenon

LEMMA MoreTimes ==
  ASSUME NEW a \in Nat, NEW b \in Nat, a <= b, NEW q \in Nat
  PROVE  a * q <= b * q /\ a * q \in Nat /\ b * q \in Nat
<1>1. PICK c \in Nat : b = a + c
  <2>1. b - a \in Nat /\ b = a + (b - a)
    OBVIOUS
  <2> QED BY <2>1
<1>2. b * q = a * q + c * q /\ a * q \in Nat /\ c * q \in Nat
  BY <1>1
<1> QED BY <1>2

(* A session has one open request: those that share a harvest are at most  *)
(* as many as the sessions.                                                *)
LEMMA FewGranters ==
  ASSUME TypeOK, OneRequestEach, NEW P \in SUBSET requests
  PROVE  IsFiniteSet(P) /\ Cardinality(P) \in Nat /\ Cardinality(P) <= Cardinality(Sessions)
<1> DEFINE f == [r \in P |-> r.session]
<1>1. f \in [P -> Sessions]
  BY RequestFacts
<1>2. f \in Injection(P, Sessions)
  BY <1>1 DEF Injection, IsInjective, OneRequestEach
<1>3. IsFiniteSet(Sessions)
  BY LedgerAssumption
<1> HIDE DEF f
<1>4. IsFiniteSet(P) /\ Cardinality(P) <= Cardinality(Sessions)
  BY <1>2, <1>3, FS_Injection
<1> QED BY <1>4, FS_CardinalityType

(* The read: what it is granted is still available, and the others hold at *)
(* most a harvest each.                                                    *)
LEMMA ReadKeepsOverdraw ==
  ASSUME TypeOK, OInv, NEW s \in Sessions, NEW c \in Codes, NEW k \in Commodities,
         NEW parts \in Parts(Amounts), CreateLotRead(s, c, k, parts)
  PROVE  OInv'
<1> DEFINE n == [session |-> s, code |-> c, commodity |-> k, parts |-> parts]
<1>1. /\ \A r \in requests : r.session # s
      /\ \A h \in DOMAIN parts : harvests[h] # None /\ parts[h] <= Fine * Available(h)
      /\ requests' = requests \cup {n} /\ UNCHANGED <<harvests, lots>>
  BY DEF CreateLotRead
<1>0. CodesOnce' /\ \A h \in Harvests : Drawn(h)' = Drawn(h)
  BY <1>1, DrawnStays DEF OInv, CodesOnce
<1>2. n.session = s /\ n.parts = parts
  OBVIOUS
<1> HIDE DEF n
<1>3. n \notin requests
  BY <1>1, <1>2
<1>4. OneRequestEach'
  BY <1>1, <1>2 DEF OInv, OneRequestEach
<1>5. ASSUME NEW h \in DOMAIN parts
      PROVE  /\ h \in Harvests /\ harvests[h] # None /\ harvests[h].quantity \in Nat
             /\ Drawn(h) \in Nat /\ Rounded(parts[h]) \in Nat
             /\ Drawn(h) + Rounded(parts[h]) <= harvests[h].quantity
  <2>1. h \in Harvests /\ parts[h] \in Nat
    BY PartsFacts, LedgerAssumption
  <2>2. harvests[h] # None /\ parts[h] <= Fine * Available(h)
    BY <1>1
  <2>3. harvests[h].quantity \in Nat /\ Drawn(h) \in Nat
    BY <2>1, <2>2, DrawnType DEF TypeOK, Harvest
  <2>4. Available(h) \in Int
    BY <2>3 DEF Available
  <2>5. Rounded(parts[h]) <= Available(h) /\ Rounded(parts[h]) \in Nat
    BY <2>1, <2>2, <2>4, RoundedWithin, RoundedType
  <2> QED BY <2>1, <2>2, <2>3, <2>5 DEF Available
<1>6. EachWithin'
  <2>1. ASSUME NEW h \in DOMAIN parts
        PROVE  harvests[h] # None /\ Rounded(parts[h]) <= harvests[h].quantity
    BY <1>5
  <2> QED BY <1>1, <1>2, <2>1 DEF OInv, EachWithin
<1>7. UnregisteredUndrawn'
  BY <1>1, <1>0 DEF OInv, UnregisteredUndrawn
<1>8. OverdrawBounded'
  <2> SUFFICES ASSUME NEW h \in Harvests, harvests[h] # None
               PROVE  Drawn(h) + SumFunction(Grants(Granters(h)', h))
                        <= Cardinality(Sessions) * harvests[h].quantity
    BY <1>1, <1>0 DEF OverdrawBounded, Grants, Granters
  <2>1. CASE h \notin DOMAIN parts
    <3>1. Granters(h)' = Granters(h)
      BY <1>1, <1>2, <2>1 DEF Granters
    <3> QED BY <3>1, OverdrawUnfolds DEF OInv
  <2>2. CASE h \in DOMAIN parts
    <3> DEFINE P == Granters(h)
               q == harvests[h].quantity
               z == SumFunction(Grants(P, h))
               m == Cardinality(P)
    <3>1. Granters(h)' = P \cup {n} /\ n \notin P
      BY <1>1, <1>2, <1>3, <2>2 DEF Granters
    <3>2. IsFiniteSet(P) /\ m \in Nat
      BY FewGranters DEF OInv, Granters
    <3>3. m + 1 <= Cardinality(Sessions) /\ Cardinality(Sessions) \in Nat
      <4> DEFINE f == [r \in P \cup {n} |-> r.session]
      <4>1. f \in Injection(P \cup {n}, Sessions)
        <5>1. f \in [P \cup {n} -> Sessions]
          BY <1>2, RequestFacts DEF Granters
        <5>2. \A a, b \in P \cup {n} : a.session = b.session => a = b
          BY <1>1, <1>2 DEF OInv, OneRequestEach, Granters
        <5> QED BY <5>1, <5>2 DEF Injection, IsInjective
      <4>2. IsFiniteSet(Sessions)
        BY LedgerAssumption
      <4> HIDE DEF f
      <4>3. Cardinality(P \cup {n}) <= Cardinality(Sessions)
        BY <4>1, <4>2, FS_Injection
      <4>4. Cardinality(P \cup {n}) = m + 1
        BY <3>1, <3>2, FS_AddElement
      <4> QED BY <4>2, <4>3, <4>4, FS_CardinalityType
    <3>4. \A r \in P : Rounded(r.parts[h]) \in Nat /\ Rounded(r.parts[h]) <= q
      BY RequestFacts DEF OInv, EachWithin, Granters
    <3>5. q \in Nat /\ Drawn(h) + Rounded(parts[h]) <= q /\ Rounded(parts[h]) \in Nat /\ Drawn(h) \in Nat
      BY <1>5, <2>2
    <3>6. SumFunction(Grants(P \cup {n}, h)) = Rounded(parts[h]) + z /\ z \in Int
      <4>1. \A r \in P \cup {n} : Rounded(r.parts[h]) \in Nat
        BY <1>2, <3>4, <3>5
      <4> HIDE DEF P, q
      <4> QED BY <1>2, <3>1, <3>2, <4>1, GrantsGrow
    <3>7. z <= m * q
      <4> DEFINE f == Grants(P, h)
      <4>1. (\A r \in P : f[r] \in Nat /\ f[r] <= q) /\ On(f, P) = f
        BY <3>4 DEF Grants, On
      <4> HIDE DEF f
      <4>2. SumFunction(On(f, P)) <= m * q
        <5> HIDE DEF P, q
        <5> QED BY <3>2, <3>5, <4>1, SumWithin
      <4> QED BY <4>1, <4>2 DEF f
    <3>8. (m + 1) * q <= Cardinality(Sessions) * q /\ (m + 1) * q = m * q + q
      <4> HIDE DEF m, q
      <4> QED BY <3>2, <3>3, <3>5, MoreTimes, TimesNext
    <3>9. m * q \in Nat /\ Cardinality(Sessions) * q \in Nat
      <4> HIDE DEF m, q
      <4> QED BY <3>2, <3>3, <3>5, MoreTimes
    <3>10. Drawn(h) + (Rounded(parts[h]) + z) <= Cardinality(Sessions) * q
      <4> DEFINE a == m * q
                 b == Cardinality(Sessions) * q
                 d == Rounded(parts[h])
      <4>1. a \in Nat /\ b \in Nat /\ z <= a /\ a + q <= b
        BY <3>7, <3>8, <3>9
      <4>2. d \in Nat /\ Drawn(h) + d <= q
        BY <3>5
      <4> HIDE DEF a, b, d, q, z
      <4>3. Drawn(h) + (d + z) <= b
        BY <3>5, <3>6, <4>1, <4>2
      <4> QED BY <4>3 DEF b, d
    <3> HIDE DEF P, q, z, m
    <3> QED BY <3>1, <3>6, <3>10 DEF q
  <2> QED BY <2>1, <2>2
<1> QED BY <1>4, <1>6, <1>7, <1>8, <1>0 DEF OInv

(* A request leaves: what it was granted leaves the sum.                   *)
LEMMA RequestLeaves ==
  ASSUME TypeOK, OInv, NEW r \in requests, requests' = requests \ {r}, NEW h \in Harvests
  PROVE  IF h \in DOMAIN r.parts
         THEN /\ SumFunction(Grants(Granters(h)', h)) \in Int /\ Rounded(r.parts[h]) \in Nat
              /\ SumFunction(Grants(Granters(h), h))
                   = Rounded(r.parts[h]) + SumFunction(Grants(Granters(h)', h))
         ELSE Granters(h)' = Granters(h)
<1>1. CASE h \notin DOMAIN r.parts
  BY <1>1 DEF Granters
<1>2. CASE h \in DOMAIN r.parts
  <2> DEFINE P == Granters(h)'
  <2>1. Granters(h) = P \cup {r} /\ r \notin P
    BY <1>2 DEF Granters
  <2>2. P \in SUBSET requests
    BY DEF Granters
  <2>3. IsFiniteSet(P)
    <3> HIDE DEF P
    <3> QED BY <2>2, FewGranters DEF OInv
  <2>4. \A q \in P \cup {r} : Rounded(q.parts[h]) \in Nat
    BY <2>1, RequestFacts DEF Granters
  <2>5. Rounded(r.parts[h]) \in Nat
    BY <2>4
  <2> HIDE DEF P
  <2>6. /\ SumFunction(Grants(P, h)) \in Int
        /\ SumFunction(Grants(P \cup {r}, h)) = Rounded(r.parts[h]) + SumFunction(Grants(P, h))
    BY <2>1, <2>3, <2>4, GrantsGrow
  <2> QED BY <1>2, <2>1, <2>5, <2>6 DEF P
<1> QED BY <1>1, <1>2

LEMMA LeavingKeepsRest ==
  ASSUME OInv, NEW r \in requests, requests' = requests \ {r}, UNCHANGED harvests
  PROVE  OneRequestEach' /\ EachWithin'
BY DEF OInv, OneRequestEach, EachWithin
LEMMA CommitKeepsOverdraw ==
  ASSUME TypeOK, OInv, NEW r \in requests, CreateLotCommit(r)
  PROVE  OInv'
<1>1. requests' = requests \ {r} /\ UNCHANGED harvests
  BY DEF CreateLotCommit
<1>2. \A h \in Harvests : Drawn(h)' =
        IF h \in DOMAIN r.parts THEN Drawn(h) + Rounded(r.parts[h]) ELSE Drawn(h)
  BY CommitDraws
<1>0. CodesOnce'
  <2>1. /\ DOMAIN lots' = DOMAIN lots \cup {Len(lots) + 1}
        /\ lots'[Len(lots) + 1] = NewLot(r) /\ \A i \in DOMAIN lots : lots'[i] = lots[i]
        /\ r.code \notin Built /\ NewLot(r).code = r.code
    BY CommitFacts DEF NewLot
  <2> QED BY <2>1 DEF OInv, CodesOnce, Built
<1>3. OneRequestEach' /\ EachWithin'
  BY <1>1, LeavingKeepsRest
<1>4. UnregisteredUndrawn'
  BY <1>1, <1>2 DEF OInv, UnregisteredUndrawn, EachWithin
<1>5. ASSUME NEW h \in Harvests, harvests[h] # None
      PROVE  Drawn(h)' + SumFunction(Grants(Granters(h)', h))
               <= Cardinality(Sessions) * harvests[h].quantity
  <2> DEFINE b == Cardinality(Sessions) * harvests[h].quantity
             y == SumFunction(Grants(Granters(h), h))
             z == SumFunction(Grants(Granters(h)', h))
             d == Rounded(r.parts[h])
  <2>1. Drawn(h) + y <= b
    BY <1>5, OverdrawUnfolds DEF OInv
  <2>2. IF h \in DOMAIN r.parts
        THEN z \in Int /\ d \in Nat /\ y = d + z
        ELSE Granters(h)' = Granters(h)
    BY <1>1, RequestLeaves
  <2>3. CASE h \in DOMAIN r.parts
    <3>1. Drawn(h) \in Nat
      BY DrawnType
    <3>2. Drawn(h)' = Drawn(h) + d
      BY <1>2, <2>3
    <3> HIDE DEF b, y, z, d
    <3> QED BY <2>1, <2>2, <2>3, <3>1, <3>2 DEF b, z
  <2>4. CASE h \notin DOMAIN r.parts
    <3>1. Drawn(h)' = Drawn(h)
      BY <1>2, <2>4
    <3> QED BY <2>1, <2>2, <2>4, <3>1
  <2> QED BY <2>3, <2>4
<1>6. OverdrawBounded'
  BY <1>1, <1>5 DEF OverdrawBounded, Grants, Granters
<1> QED BY <1>3, <1>4, <1>6, <1>0 DEF OInv

LEMMA AbortKeepsOverdraw ==
  ASSUME TypeOK, OInv, NEW r \in requests, AbortLot(r)
  PROVE  OInv'
<1>1. requests' = requests \ {r} /\ UNCHANGED <<harvests, lots>>
  BY DEF AbortLot
<1>0. CodesOnce' /\ \A h \in Harvests : Drawn(h)' = Drawn(h)
  BY <1>1, DrawnStays DEF OInv, CodesOnce
<1>2. OneRequestEach' /\ EachWithin'
  BY <1>1, LeavingKeepsRest
<1>3. UnregisteredUndrawn'
  BY <1>1, <1>0 DEF OInv, UnregisteredUndrawn
<1>4. ASSUME NEW h \in Harvests, harvests[h] # None
      PROVE  Drawn(h) + SumFunction(Grants(Granters(h)', h))
               <= Cardinality(Sessions) * harvests[h].quantity
  <2> DEFINE b == Cardinality(Sessions) * harvests[h].quantity
             y == SumFunction(Grants(Granters(h), h))
             z == SumFunction(Grants(Granters(h)', h))
             d == Rounded(r.parts[h])
  <2>1. Drawn(h) + y <= b
    BY <1>4, OverdrawUnfolds DEF OInv
  <2>2. IF h \in DOMAIN r.parts
        THEN z \in Int /\ d \in Nat /\ y = d + z
        ELSE Granters(h)' = Granters(h)
    BY <1>1, RequestLeaves
  <2>3. CASE h \in DOMAIN r.parts
    <3>1. Drawn(h) \in Nat /\ b \in Int
      <4>1. harvests[h].quantity \in Nat /\ Drawn(h) \in Nat
        BY <1>4, DrawnType DEF TypeOK, Harvest
      <4>2. Cardinality(Sessions) \in Nat
        BY FS_CardinalityType, LedgerAssumption
      <4> QED BY <4>1, <4>2
    <3> HIDE DEF b, y, z, d
    <3> QED BY <2>1, <2>2, <2>3, <3>1 DEF b, z
  <2>4. CASE h \notin DOMAIN r.parts
    <3> QED BY <2>1, <2>2, <2>4
  <2> QED BY <2>3, <2>4
<1>5. OverdrawBounded'
  BY <1>1, <1>4, <1>0 DEF OverdrawBounded, Grants, Granters
<1> QED BY <1>2, <1>3, <1>5, <1>0 DEF OInv

LEMMA HarvestKeepsOverdraw ==
  ASSUME TypeOK, OInv, NEW g \in Harvests, NEW q \in Yields, NEW k \in Commodities,
         CreateHarvest(g, q, k)
  PROVE  OInv'
<1>1. /\ harvests[g] = None /\ UNCHANGED <<lots, requests>>
      /\ harvests' = [harvests EXCEPT ![g] = [quantity |-> Rounded(q), commodity |-> k]]
  BY DEF CreateHarvest
<1>0. CodesOnce' /\ \A h \in Harvests : Drawn(h)' = Drawn(h)
  BY <1>1, DrawnStays DEF OInv, CodesOnce
<1>2. /\ harvests'[g].quantity = Rounded(q)
      /\ \A h \in Harvests \ {g} : harvests'[h] = harvests[h]
  BY <1>1 DEF TypeOK
<1>3. Granters(g) = {} /\ Drawn(g) = 0
  BY <1>1 DEF OInv, EachWithin, UnregisteredUndrawn, Granters
<1>4. OneRequestEach' /\ UnregisteredUndrawn'
  BY <1>1, <1>2, <1>3, <1>0 DEF OInv, OneRequestEach, UnregisteredUndrawn
<1>5. EachWithin'
  BY <1>1, <1>2, RequestFacts DEF OInv, EachWithin
<1>6. Drawn(g) + SumFunction(Grants(Granters(g), g))
        <= Cardinality(Sessions) * harvests'[g].quantity
  <2>1. DOMAIN Grants(Granters(g), g) = {}
    BY <1>3 DEF Grants
  <2>2. SumFunction(Grants(Granters(g), g)) = 0
    BY <2>1, SumEmpty
  <2>3. Cardinality(Sessions) \in Nat /\ Rounded(q) \in Nat
    BY FS_CardinalityType, RoundedType, LedgerAssumption
  <2>4. Cardinality(Sessions) * Rounded(q) \in Nat
    BY <2>3
  <2> QED BY <1>2, <1>3, <2>2, <2>4
<1>7. ASSUME NEW h \in Harvests, harvests'[h] # None
      PROVE  Drawn(h) + SumFunction(Grants(Granters(h), h))
               <= Cardinality(Sessions) * harvests'[h].quantity
  BY <1>2, <1>6, <1>7, OverdrawUnfolds DEF OInv
<1>8. OverdrawBounded'
  BY <1>1, <1>7, <1>0 DEF OverdrawBounded, Grants, Granters
<1> QED BY <1>4, <1>5, <1>8, <1>0 DEF OInv

LEMMA OInvHolds == Spec => []OInv
<1>1. Init => OInv
  <2>1. ASSUME Init PROVE OneRequestEach /\ EachWithin /\ CodesOnce
    BY <2>1 DEF Init, OneRequestEach, EachWithin, CodesOnce
  <2>0. ASSUME Init, NEW h PROVE Drawn(h) = 0
    <3> DEFINE f == [i \in Drawing(h) |-> lots[i].parts[h]]
    <3>1. DOMAIN f = {}
      BY <2>0 DEF Init, Drawing
    <3> HIDE DEF f
    <3>2. SumFunction(f) = 0
      BY <3>1, SumEmpty
    <3> QED BY <3>2 DEF f, Drawn
  <2>2. ASSUME Init PROVE OverdrawBounded
    BY <2>2 DEF Init, OverdrawBounded
  <2> QED BY <2>1, <2>0, <2>2 DEF OInv, UnregisteredUndrawn
<1>2. ASSUME TypeOK, OInv, [Next]_vars PROVE OInv'
  <2>1. CASE UNCHANGED vars
    <3>1. \A h \in Harvests : Drawn(h)' = Drawn(h)
      BY <2>1, DrawnStays DEF vars
    <3>2. UnregisteredUndrawn' /\ OverdrawBounded'
      BY <1>2, <2>1, <3>1 DEF vars, OInv, UnregisteredUndrawn, OverdrawBounded
    <3> QED BY <1>2, <2>1, <3>2 DEF vars, OInv, OneRequestEach, EachWithin, CodesOnce
  <2> QED BY <1>2, <2>1, HarvestKeepsOverdraw, ReadKeepsOverdraw, CommitKeepsOverdraw,
             AbortKeepsOverdraw DEF Next, Quiescent
<1> QED BY <1>1, <1>2, LedgerTypes, PTL DEF Spec

(* For any number of sessions and any amounts, what lots drew and open     *)
(* transactions were granted stays within one harvest per session.         *)
THEOREM OverdrawStaysBounded == Spec => []OverdrawBounded
<1>1. OInv => OverdrawBounded
  BY DEF OInv
<1> QED BY <1>1, OInvHolds, PTL

(* A lone session.                                                         *)
OneSession == \A s, t \in Sessions : s = t

(* With a single session, create_lot's check is enough: whatever the       *)
(* amounts and the rounding, lots never hold more of a harvest than was    *)
(* registered.                                                             *)
THEOREM SerialNoOverdraw ==
  ASSUME OneSession
  PROVE  Spec => []NoOverdraw
<1>1. Cardinality(Sessions) \in Nat /\ Cardinality(Sessions) <= 1
  <2>1. CASE Sessions = {}
    BY <2>1, FS_EmptySet
  <2>2. CASE Sessions # {}
    <3>1. PICK s \in Sessions : Sessions = {s}
      BY <2>2 DEF OneSession
    <3>2. Cardinality({s}) = 1
      BY FS_Singleton
    <3> QED BY <3>1, <3>2
  <2> QED BY <2>1, <2>2
<1>2. ASSUME TypeOK, OInv PROVE NoOverdraw
  <2> SUFFICES ASSUME NEW h \in Harvests, harvests[h] # None
               PROVE  Drawn(h) <= harvests[h].quantity
    BY DEF NoOverdraw
  <2> DEFINE f == Grants(Granters(h), h)
             q == harvests[h].quantity
             z == SumFunction(f)
  <2>1. Drawn(h) + z <= Cardinality(Sessions) * q
    BY <1>2, OverdrawUnfolds DEF OInv
  <2>2. q \in Nat /\ Drawn(h) \in Nat
    BY <1>2, DrawnType DEF TypeOK, Harvest
  <2>3. z \in Nat
    <3>1. IsFiniteSet(DOMAIN f)
      BY <1>2, FewGranters DEF OInv, Granters, Grants
    <3>2. \A r \in DOMAIN f : f[r] \in Nat
      BY <1>2, RequestFacts DEF Granters, Grants
    <3> HIDE DEF f
    <3> QED BY <3>1, <3>2, SumNatural
  <2>4. Cardinality(Sessions) * q <= 1 * q /\ Cardinality(Sessions) * q \in Nat
    <3> HIDE DEF q
    <3> QED BY <1>1, <2>2, MoreTimes
  <2> DEFINE b == Cardinality(Sessions) * q
  <2>5. b \in Nat /\ b <= q /\ Drawn(h) + z <= b
    BY <2>1, <2>2, <2>4
  <2> HIDE DEF z, b, q
  <2> QED BY <2>2, <2>3, <2>5 DEF q
<1> QED BY <1>2, OInvHolds, LedgerTypes, PTL

-----------------------------------------------------------------------------
(* Refinement                                                              *)

LEMMA HarvestRegisters ==
  ASSUME TypeOK, OInv, NEW h \in Harvests, NEW q \in Yields, NEW k \in Commodities,
         CreateHarvest(h, q, k)
  PROVE  Stock!Next
<1> DEFINE new == [quantity |-> Rounded(q), commodity |-> k]
<1>1. /\ harvests[h] = None /\ harvests' = [harvests EXCEPT ![h] = new]
      /\ UNCHANGED <<lots, requests>> /\ Rounded(q) > 0
  BY DEF CreateHarvest
<1>0. /\ \A g \in Harvests : Drawn(g)' = Drawn(g)
      /\ Built' = Built /\ \A c \in Built : PartsOf(c)' = PartsOf(c)
  BY <1>1, DrawnStays DEF Built, PartsOf
<1>2. Rounded(q) \in Nat
  BY RoundedType, LedgerAssumption
<1>3. new \in Harvest /\ new.quantity = Rounded(q)
  BY <1>2 DEF Harvest
<1> HIDE DEF new
<1>4. new # None
  BY <1>3, RowsAssumption
<1>5. Registered' = Registered \cup {h} /\ h \notin Registered
  BY <1>1, <1>4 DEF Registered, TypeOK
<1>6. Drawn(h) = 0
  BY <1>1 DEF OInv, UnregisteredUndrawn
<1>7. Cardinality(Sessions) * Rounded(q) - 0 = Cardinality(Sessions) * Rounded(q)
  BY <1>2, FS_CardinalityType, LedgerAssumption
<1>8. \A g \in Registered' :
        Cardinality(Sessions) * harvests'[g].quantity - Drawn(g)' =
          IF g = h THEN Cardinality(Sessions) * Rounded(q)
          ELSE Cardinality(Sessions) * harvests[g].quantity - Drawn(g)
  BY <1>1, <1>3, <1>5, <1>6, <1>7, <1>0 DEF TypeOK, Registered
<1>9. [c \in Built |-> PartsOf(c)]' = [c \in Built |-> PartsOf(c)]
  BY <1>0
<1>10. Stock!Register(h, Rounded(q))
  BY <1>1, <1>5, <1>8, <1>9 DEF Stock!Register
<1>11. Rounded(q) \in {Rounded(x) : x \in Yields \cup Amounts} \ {0}
  BY <1>1, <1>2
<1> QED BY <1>10, <1>11 DEF Stock!Next

(* A row is found by its code when no other row has it.                    *)
LEMMA OneRow ==
  ASSUME NEW s, NEW c, NEW i \in DOMAIN s, s[i].code = c,
         \A j, k \in DOMAIN s : s[j].code = s[k].code => j = k
  PROVE  s[CHOOSE j \in DOMAIN s : s[j].code = c] = s[i]
OBVIOUS

LEMMA CommitCreates ==
  ASSUME TypeOK, OInv, NEW r \in requests, CreateLotCommit(r)
  PROVE  Stock!Next
<1> DEFINE parts == [h \in DOMAIN r.parts |-> Rounded(r.parts[h])]
           T == DOMAIN r.parts
           left(h) == Cardinality(Sessions) * harvests[h].quantity - Drawn(h)
<1>1. /\ \A c \in Built : PartsOf(c)' = PartsOf(c)
      /\ PartsOf(r.code)' = parts
      /\ r.code \in Codes /\ r.code \notin Built /\ Built' = Built \cup {r.code}
  <2> DEFINE n == Len(lots) + 1
  <2>1. /\ DOMAIN lots' = DOMAIN lots \cup {n} /\ n \notin DOMAIN lots
        /\ lots'[n] = NewLot(r) /\ \A i \in DOMAIN lots : lots'[i] = lots[i]
        /\ r.code \in Codes /\ r.code \notin Built /\ Built' = Built \cup {r.code}
        /\ NewLot(r).code = r.code /\ NewLot(r).parts = parts
    BY CommitFacts DEF NewLot
  <2> HIDE DEF n, parts
  <2>2. /\ \A i, j \in DOMAIN lots : lots[i].code = lots[j].code => i = j
        /\ \A i, j \in DOMAIN lots' : lots'[i].code = lots'[j].code => i = j
    <3>1. CodesOnce'
      BY CommitKeepsOverdraw DEF OInv
    <3> QED BY <3>1 DEF OInv, CodesOnce
  <2>3. ASSUME NEW c \in Built PROVE PartsOf(c)' = PartsOf(c)
    <3>1. PICK i \in DOMAIN lots : lots[i].code = c
      BY DEF Built
    <3>2. i \in DOMAIN lots' /\ lots'[i] = lots[i]
      BY <2>1
    <3>3. lots[CHOOSE j \in DOMAIN lots : lots[j].code = c] = lots[i]
      BY <2>2, <3>1, OneRow
    <3>4. lots'[CHOOSE j \in DOMAIN lots' : lots'[j].code = c] = lots'[i]
      BY <2>2, <3>1, <3>2, OneRow
    <3> QED BY <3>2, <3>3, <3>4 DEF PartsOf
  <2>4. PartsOf(r.code)' = parts
    <3>1. n \in DOMAIN lots' /\ lots'[n].code = r.code
      BY <2>1
    <3>2. lots'[CHOOSE j \in DOMAIN lots' : lots'[j].code = r.code] = lots'[n]
      BY <2>2, <3>1, OneRow
    <3> QED BY <2>1, <3>2 DEF PartsOf
  <2> QED BY <2>1, <2>3, <2>4
<1>2. /\ UNCHANGED harvests /\ Registered' = Registered
      /\ \A h \in Harvests : Drawn(h)' = IF h \in T THEN Drawn(h) + parts[h] ELSE Drawn(h)
      /\ \A h \in T : parts[h] > 0
  BY CommitDraws DEF CreateLotCommit, Registered, Storable
<1>3. T \in (SUBSET Registered) \ {{}}
  <2>1. r.parts \in Parts(Amounts)
    BY DEF TypeOK, Request
  <2>2. T # {} /\ T \subseteq Harvests
    BY <2>1 DEF Parts
  <2> QED BY <2>2 DEF OInv, EachWithin, Registered
<1>4. parts \in [T -> {Rounded(x) : x \in Yields \cup Amounts} \ {0}]
  <2>1. \A h \in T : r.parts[h] \in Amounts /\ Rounded(r.parts[h]) \in Nat
    <3>1. r.parts \in Parts(Amounts)
      BY DEF TypeOK, Request
    <3> QED BY <3>1, PartsFacts, RequestFacts
  <2>2. ASSUME NEW h \in T
        PROVE  parts[h] \in {Rounded(x) : x \in Yields \cup Amounts} \ {0}
    <3>1. parts[h] = Rounded(r.parts[h]) /\ parts[h] > 0
      BY <1>2
    <3>2. parts[h] \in Nat /\ parts[h] # 0
      <4> HIDE DEF parts
      <4> QED BY <2>1, <3>1
    <3> HIDE DEF parts
    <3> QED BY <2>1, <3>1, <3>2
  <2> QED BY <2>2
<1>5. \A h \in Registered : Drawn(h) \in Int /\ left(h) \in Int
  <2>1. \A h \in Registered : harvests[h].quantity \in Nat /\ Drawn(h) \in Nat
    BY DrawnType DEF TypeOK, Harvest, Registered
  <2>2. Cardinality(Sessions) \in Nat
    BY FS_CardinalityType, LedgerAssumption
  <2> QED BY <2>1, <2>2
<1>6. \A h \in Registered : left(h)' = IF h \in T THEN left(h) - parts[h] ELSE left(h)
  <2> TAKE h \in Registered
  <2> DEFINE b == Cardinality(Sessions) * harvests[h].quantity
  <2>1. b \in Int /\ Drawn(h) \in Int
    <3>1. harvests[h].quantity \in Nat /\ Drawn(h) \in Nat
      BY DrawnType DEF TypeOK, Harvest, Registered
    <3>2. Cardinality(Sessions) \in Nat
      BY FS_CardinalityType, LedgerAssumption
    <3> QED BY <3>1, <3>2
  <2>2. left(h)' = b - Drawn(h)' /\ left(h) = b - Drawn(h)
    BY <1>2
  <2>3. h \in T => parts[h] \in Nat
    BY RequestFacts
  <2>4. Drawn(h)' = IF h \in T THEN Drawn(h) + parts[h] ELSE Drawn(h)
    BY <1>2 DEF Registered
  <2> HIDE DEF b, left, parts, T
  <2> QED BY <2>1, <2>2, <2>3, <2>4
<1>7. \A h \in T : parts[h] <= left(h)
  <2> TAKE h \in T
  <2> DEFINE b == Cardinality(Sessions) * harvests[h].quantity
             z == SumFunction(Grants(Granters(h)', h))
             d == Rounded(r.parts[h])
  <2>1. h \in Harvests /\ harvests[h] # None
    BY <1>3 DEF Registered
  <2>2. Drawn(h) + SumFunction(Grants(Granters(h), h)) <= b
    BY <2>1, OverdrawUnfolds DEF OInv
  <2>3. z \in Int /\ d \in Nat /\ SumFunction(Grants(Granters(h), h)) = d + z
    <3>1. requests' = requests \ {r}
      BY DEF CreateLotCommit
    <3> QED BY <2>1, <3>1, RequestLeaves
  <2>4. z \in Nat
    <3> DEFINE P == Granters(h)'
    <3>1. P \subseteq requests /\ \A q \in P : h \in DOMAIN q.parts
      BY DEF CreateLotCommit, Granters
    <3>2. IsFiniteSet(P)
      BY <3>1, FewGranters DEF OInv
    <3>3. \A q \in P : Rounded(q.parts[h]) \in Nat
      BY <3>1, RequestFacts
    <3> DEFINE f == Grants(P, h)
    <3> HIDE DEF P
    <3>4. DOMAIN f = P /\ \A q \in DOMAIN f : f[q] \in Nat
      BY <3>3 DEF Grants
    <3> HIDE DEF f
    <3>5. SumFunction(f) \in Nat
      BY <3>2, <3>4, SumNatural
    <3> QED BY <3>5 DEF f, P
  <2>5. Drawn(h) \in Int /\ b \in Int
    <3>1. harvests[h].quantity \in Nat /\ Drawn(h) \in Nat
      BY <2>1, DrawnType DEF TypeOK, Harvest
    <3>2. Cardinality(Sessions) \in Nat
      BY FS_CardinalityType, LedgerAssumption
    <3> QED BY <3>1, <3>2
  <2>6. left(h) = b - Drawn(h) /\ parts[h] = d
    OBVIOUS
  <2> HIDE DEF b, z, d, left, parts
  <2> QED BY <2>2, <2>3, <2>4, <2>5, <2>6
<1>8. [h \in Registered' |-> left(h)'] =
        [h \in Registered |-> IF h \in T THEN left(h) - parts[h] ELSE left(h)]
  BY <1>2, <1>6
<1>9. [c \in Built |-> PartsOf(c)]' =
        [b \in Built \cup {r.code} |-> IF b = r.code THEN parts ELSE PartsOf(b)]
  <2> HIDE DEF parts
  <2>1. \A b \in Built' : PartsOf(b)' = IF b = r.code THEN parts ELSE PartsOf(b)
    BY <1>1
  <2> QED BY <1>1, <2>1
<1>10. Stock!Create(r.code, parts)
  <2> HIDE DEF parts
  <2> QED BY <1>1, <1>3, <1>4, <1>7, <1>8, <1>9 DEF Stock!Create
<1> QED BY <1>1, <1>3, <1>4, <1>10 DEF Stock!Next

(* The ledger is a stock with one credit for each session: every step of   *)
(* it registers a harvest, creates a lot at once, or changes nothing that  *)
(* an auditor sees.                                                        *)
THEOREM ImplementsStock == Spec => FollowsStock
<1>1. ASSUME Init PROVE Stock!Init
  <2>1. Registered = {} /\ Built = {}
    BY <1>1 DEF Init, Registered, Built
  <2> QED BY <2>1 DEF Stock!Init
<1>2. ASSUME TypeOK, OInv, [Next]_vars PROVE [Stock!Next]_(Stock!vars)
  <2>1. ASSUME UNCHANGED <<harvests, lots>> PROVE UNCHANGED Stock!vars
    <3>1. /\ Registered' = Registered /\ Built' = Built
          /\ \A h \in Harvests : Drawn(h)' = Drawn(h)
          /\ \A c \in Built : PartsOf(c)' = PartsOf(c)
      BY <2>1, DrawnStays DEF Registered, Built, PartsOf
    <3>2. Registered \subseteq Harvests
      BY DEF Registered
    <3> QED BY <2>1, <3>1, <3>2 DEF Stock!vars
  <2>2. CASE \E h \in Harvests, q \in Yields, k \in Commodities : CreateHarvest(h, q, k)
    BY <1>2, <2>2, HarvestRegisters
  <2>3. CASE \E r \in requests : CreateLotCommit(r)
    BY <1>2, <2>3, CommitCreates
  <2>4. \/ \E h \in Harvests, q \in Yields, k \in Commodities : CreateHarvest(h, q, k)
        \/ \E r \in requests : CreateLotCommit(r)
        \/ UNCHANGED <<harvests, lots>>
    BY <1>2 DEF Next, CreateLotRead, AbortLot, Quiescent, vars
  <2> QED BY <2>1, <2>2, <2>3, <2>4
<1> QED BY <1>1, <1>2, LedgerTypes, OInvHolds, PTL DEF Spec, FollowsStock, Stock!Spec

=============================================================================
