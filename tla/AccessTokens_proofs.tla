------------------------ MODULE AccessTokens_proofs ------------------------
(***************************************************************************)
(* What a token can still be believed for, for every lifetime, resolution  *)
(* of the clock and number of users, sessions, changes and refreshes.      *)
(***************************************************************************)
EXTENDS AccessTokens, Integers, TLAPS

(* A token's claims and what the client was told come from its issue.      *)
Stamped ==
  \A k \in tokens :
    /\ k.issued <= clock
    /\ k.exp = (k.issued + Ttl(k.kind) * Second) \div Second
    /\ k.expires_at = k.issued + Ttl(k.kind) * Second

Timely == \A r \in requests : r.since <= clock /\ clock <= r.since + MaxHold

(* A row that was loaded was that of an enabled user.                      *)
Loaded ==
  \A r \in requests : r.stage = "loaded" =>
    WasWithin(r.user, {s \in Enabled : s = r.seen}, 0, r.since)

Allowed(r) == {s \in Enabled : s.role \in RolesAllowed(r.route)}

Life == (AccessTtl + 1) * Second - 1

(* What a request was let in for, when it took its last step.              *)
Admitted ==
  \A r \in requests :
    /\ r.stage = "admitted" => LooksUp(r.route)
    /\ r.stage \in {"admitted", "handled"} =>
         WasWithin(r.user, Allowed(r), Life + (Steps(r) - 1) * MaxHold, r.since)

LookedUp ==
  \A r \in requests : r.stage = "handled" /\ LooksUp(r.route) =>
    WasWithin(r.user, {s \in Enabled : OwnOrg(r, s)}, 0, r.since)

TInv ==
  /\ TypeOK
  /\ Stamped
  /\ Timely
  /\ IssuedFromRows
  /\ Loaded
  /\ Admitted
  /\ LookedUp

-----------------------------------------------------------------------------
(* Arithmetic                                                              *)

(* Division by Second cuts off less than a second.                         *)
LEMMA Floor ==
  ASSUME NEW a \in Nat
  PROVE  /\ a \div Second \in Nat
         /\ Second * (a \div Second) <= a
         /\ a < Second * (a \div Second) + Second
BY TokenAssumption

LEMMA Products ==
  /\ Second \in Nat /\ Second > 0 /\ MaxHold \in Nat
  /\ AccessTtl * Second \in Nat /\ RefreshTtl * Second \in Nat
  /\ Life = AccessTtl * Second + Second - 1
  /\ \A r : Steps(r) \in {2, 3}
  /\ \A kind : Ttl(kind) * Second \in Nat
<1>1. Second \in Nat /\ Second > 0 /\ MaxHold \in Nat /\ AccessTtl \in Nat /\ RefreshTtl \in Nat
  BY TokenAssumption
<1>2. Life = AccessTtl * Second + Second - 1
  BY <1>1 DEF Life
<1>3. AccessTtl * Second \in Nat /\ RefreshTtl * Second \in Nat
  BY <1>1
<1>4. \A kind : Ttl(kind) * Second \in Nat
  BY <1>3 DEF Ttl
<1> QED BY <1>1, <1>2, <1>3, <1>4 DEF Steps

(* A token that decodes was issued less than its life and a second ago.    *)
LEMMA DecodesYoung ==
  ASSUME NEW c \in Nat, NEW i \in Nat, NEW ttl \in Nat,
         c \div Second <= (i + ttl * Second) \div Second
  PROVE  c <= i + (ttl * Second + Second - 1)
<1> DEFINE e == i + ttl * Second
           m == c \div Second
           n == e \div Second
<1>1. Second \in Nat /\ Second > 0
  BY Products
<1>2. e \in Nat
  BY <1>1
<1>3. m \in Nat /\ c < Second * m + Second
  <2> HIDE DEF e
  <2> QED BY Floor
<1>4. n \in Nat /\ Second * n <= e
  <2> HIDE DEF e
  <2> QED BY Floor, <1>2
<1>5. m <= n
  OBVIOUS
<1>6. Second * m <= Second * n
  <2> HIDE DEF m, n
  <2> QED BY <1>1, <1>3, <1>4, <1>5
<1>7. ttl * Second \in Nat /\ Second * m \in Nat /\ Second * n \in Nat
  <2>1. ttl * Second \in Nat
    BY <1>1
  <2> HIDE DEF m, n
  <2> QED BY <1>1, <1>3, <1>4, <2>1
<1> HIDE DEF m, n
<1> QED BY <1>1, <1>3, <1>4, <1>6, <1>7

(* Up to the instant it was told, a client's token decodes.                *)
LEMMA DecodesAsTold ==
  ASSUME NEW c \in Nat, NEW e \in Nat, c <= e
  PROVE  c \div Second <= e \div Second
<1> DEFINE m == c \div Second
           n == e \div Second
<1>1. Second \in Nat /\ Second > 0
  BY Products
<1>2. m \in Nat /\ n \in Nat /\ Second * m <= c /\ e < Second * n + Second
  BY Floor
<1>3. SUFFICES ASSUME n + 1 <= m PROVE FALSE
  <2> HIDE DEF m, n
  <2>1. m <= n \/ n + 1 <= m
    BY <1>2
  <2> QED BY <2>1, <1>3 DEF m, n
<1> HIDE DEF m, n
<1>4. Second * (n + 1) <= Second * m
  BY <1>1, <1>2, <1>3
<1>5. Second * (n + 1) = Second * n + Second /\ Second * n \in Nat /\ Second * m \in Nat
  BY <1>1, <1>2
<1> QED BY <1>1, <1>2, <1>4, <1>5

-----------------------------------------------------------------------------
(* Types                                                                   *)

LEMMA IssuedType ==
  ASSUME clock \in Nat, NEW kind \in {"access", "refresh"}, NEW u \in Users,
         NEW role \in UserRole \cup {None}
  PROVE  Issued(kind, u, role) \in Token
<1>1. Ttl(kind) * Second \in Nat
  BY Products
<1>2. (clock + Ttl(kind) * Second) \div Second \in Nat
  BY <1>1, Floor
<1> QED BY <1>1, <1>2 DEF Issued, Token

(* What a request holds after it has read its user.                        *)
Reread(r, stage) == [r EXCEPT !.stage = stage, !.since = clock, !.seen = users[r.user]]

LEMMA RereadType ==
  ASSUME TypeOK, NEW r \in requests, NEW stage \in {"loaded", "handled"}
  PROVE  /\ Reread(r, stage) \in Request
         /\ Reread(r, stage).seen # None
<1>1. r \in Request /\ users[r.user] \in Standing /\ clock \in Nat
  BY DEF TypeOK, Request
<1>2. Reread(r, stage) \in Request
  BY <1>1 DEF Reread, Request
<1>3. Reread(r, stage).seen = users[r.user]
  BY <1>1 DEF Reread, Request
<1> QED BY <1>1, <1>2, <1>3, TokenAssumption DEF Standing

LEMMA TypeStep ==
  ASSUME TypeOK, [Next]_vars
  PROVE  TypeOK'
<1> USE TokenAssumption
<1>1. CASE Tick
  BY <1>1 DEF TypeOK, Tick
<1>2. ASSUME NEW u \in Users, NEW new \in [role: Roles, org: Orgs, enabled: BOOLEAN],
             ChangeUser(u, new)
      PROVE  TypeOK'
  BY <1>2 DEF TypeOK, ChangeUser, Standing
<1>3. ASSUME NEW s \in Sessions, NEW u \in Users, Login(s, u)
      PROVE  TypeOK'
  BY <1>3 DEF TypeOK, Login, Request, Standing
<1>4. ASSUME NEW s \in Sessions, NEW k \in tokens, StartRefresh(s, k)
      PROVE  TypeOK'
  BY <1>4 DEF TypeOK, StartRefresh, Request, Token
<1>5. ASSUME NEW s \in Sessions, NEW k \in tokens, NEW route \in Routes,
             NEW target \in Orgs \cup {None}, Admit(s, route, k, target)
      PROVE  TypeOK'
  <2> DEFINE new == [session |-> s, route |-> route, user |-> k.user, role |-> k.role,
                     target |-> target, since |-> clock,
                     stage |-> IF LooksUp(route) THEN "admitted" ELSE "handled", seen |-> None]
  <2>1. k.user \in Users /\ k.role \in UserRole \cup {None} /\ clock \in Nat
    BY DEF TypeOK, Token
  <2>2. new \in Request /\ new.stage # "loaded"
    BY <2>1 DEF Request
  <2>3. requests' = requests \cup {new} /\ UNCHANGED <<users, clock, tokens, past>>
    BY <1>5 DEF Admit
  <2> HIDE DEF new
  <2> QED BY <2>2, <2>3 DEF TypeOK
<1>6. ASSUME NEW r \in requests, LoadUser(r)
      PROVE  TypeOK'
  <2>1. requests' = (requests \ {r}) \cup {Reread(r, "loaded")}
    BY <1>6 DEF LoadUser, Advance, Reread
  <2> QED BY <1>6, <2>1, RereadType DEF TypeOK, LoadUser
<1>7. ASSUME NEW r \in requests, IssuePair(r)
      PROVE  TypeOK'
  <2>1. r \in Request /\ r.seen \in Standing /\ r.user \in Users /\ r.seen.role \in UserRole
    BY <1>7 DEF TypeOK, IssuePair, Request, Standing
  <2>2. Issued("access", r.user, r.seen.role) \in Token
    BY <2>1, IssuedType DEF TypeOK
  <2>3. Issued("refresh", r.user, None) \in Token
    BY <2>1, IssuedType DEF TypeOK
  <2>4. Issued("access", r.user, r.seen.role).role # None
    BY <2>1 DEF Issued
  <2>5. Issued("refresh", r.user, None).kind # "access"
    BY DEF Issued
  <2> QED BY <1>7, <2>2, <2>3, <2>4, <2>5 DEF TypeOK, IssuePair
<1>8. ASSUME NEW r \in requests, LookUp(r)
      PROVE  TypeOK'
  <2>1. requests' = (requests \ {r}) \cup {Reread(r, "handled")}
    BY <1>8 DEF LookUp, Advance, Reread
  <2> QED BY <1>8, <2>1, RereadType DEF TypeOK, LookUp
<1>9. ASSUME NEW r \in requests, End(r)
      PROVE  TypeOK'
  BY <1>9 DEF TypeOK, End
<1>10. CASE UNCHANGED vars
  BY <1>10 DEF TypeOK, vars
<1> QED
  BY <1>1, <1>2, <1>3, <1>4, <1>5, <1>6, <1>7, <1>8, <1>9, <1>10 DEF Next, Over

(* Every reachable state is well typed: in particular a request that has   *)
(* loaded a user has a row, and every access token has a role.             *)
THEOREM TokenTypes == Spec => []TypeOK
<1>1. Init => TypeOK
  BY TokenAssumption DEF Init, TypeOK, Standing
<1> QED BY <1>1, TypeStep, PTL DEF Spec

-----------------------------------------------------------------------------
(* What users were                                                         *)

LEMMA WasLater ==
  ASSUME TypeOK, NEW u, NEW S, NEW T, NEW n \in Int, NEW t \in Int, NEW m \in Int, NEW v \in Int,
         WasWithin(u, S, n, t), S \subseteq T, v + n <= t + m
  PROVE  WasWithin(u, T, m, v)
<1>1. \A p \in past : p.until \in Int
  BY DEF TypeOK
<1>2. ASSUME NEW p \in past, t <= p.until + n
      PROVE  v <= p.until + m
  BY <1>1, <1>2
<1> QED BY <1>2 DEF WasWithin

(* A change of a user is kept in the past it becomes.                      *)
LEMMA WasKept ==
  ASSUME TypeOK, [Next]_vars, NEW u \in Users, NEW S, NEW n \in Int, NEW t \in Int,
         WasWithin(u, S, n, t), t <= clock + n
  PROVE  WasWithin(u, S, n, t)'
<1>1. CASE UNCHANGED <<users, past>>
  BY <1>1 DEF WasWithin
<1>2. ASSUME NEW w \in Users, NEW new \in [role: Roles, org: Orgs, enabled: BOOLEAN],
             ChangeUser(w, new)
      PROVE  WasWithin(u, S, n, t)'
  <2> DEFINE p == [user |-> w, was |-> users[w], until |-> clock]
  <2>1. past' = past \cup {p} /\ users' = [users EXCEPT ![w] = new]
    BY <1>2 DEF ChangeUser
  <2>2. CASE users[u] \in S /\ u = w
    <3>1. p.user = u /\ p.was \in S /\ t <= p.until + n
      BY <2>2
    <3> QED BY <2>1, <3>1 DEF WasWithin
  <2>3. CASE users[u] \in S /\ u # w
    BY <2>1, <2>3 DEF WasWithin, TypeOK
  <2>4. CASE users[u] \notin S
    BY <2>1, <2>4 DEF WasWithin
  <2> QED BY <2>2, <2>3, <2>4
<1>3. UNCHANGED <<users, past>>
        \/ \E w \in Users, new \in [role: Roles, org: Orgs, enabled: BOOLEAN] : ChangeUser(w, new)
  BY DEF Next, vars, Tick, Login, StartRefresh, Admit, LoadUser, IssuePair, LookUp, End, Over
<1> QED BY <1>1, <1>2, <1>3

-----------------------------------------------------------------------------
(* Steps                                                                   *)

TokenOK(k) ==
  /\ k.issued <= clock
  /\ k.exp = (k.issued + Ttl(k.kind) * Second) \div Second
  /\ k.expires_at = k.issued + Ttl(k.kind) * Second
  /\ WasWithin(k.user, {s \in Enabled : k.kind = "access" => s.role = k.role}, MaxHold, k.issued)

RequestOK(r) ==
  /\ r.since <= clock /\ clock <= r.since + MaxHold
  /\ r.stage = "loaded" => WasWithin(r.user, {s \in Enabled : s = r.seen}, 0, r.since)
  /\ r.stage = "admitted" => LooksUp(r.route)
  /\ r.stage \in {"admitted", "handled"} =>
       WasWithin(r.user, Allowed(r), Life + (Steps(r) - 1) * MaxHold, r.since)
  /\ r.stage = "handled" /\ LooksUp(r.route) =>
       WasWithin(r.user, {s \in Enabled : OwnOrg(r, s)}, 0, r.since)

LEMMA Parts ==
  TInv <=> TypeOK /\ (\A k \in tokens : TokenOK(k)) /\ (\A r \in requests : RequestOK(r))
BY DEF TInv, Stamped, Timely, IssuedFromRows, Loaded, Admitted, LookedUp, TokenOK, RequestOK

(* Bounds of the windows a request is judged by.                           *)
LEMMA Windows ==
  ASSUME NEW r
  PROVE  /\ MaxHold \in Nat /\ Life \in Nat
         /\ (Steps(r) - 1) * MaxHold \in Nat
         /\ Steps(r) * MaxHold = (Steps(r) - 1) * MaxHold + MaxHold
         /\ Steps(r) = 2 => (Steps(r) - 1) * MaxHold = MaxHold
         /\ Steps(r) = 3 => (Steps(r) - 1) * MaxHold = MaxHold + MaxHold
<1>1. MaxHold \in Nat /\ Life \in Nat /\ Steps(r) \in {2, 3}
  BY Products
<1>2. CASE Steps(r) = 2
  BY <1>1, <1>2
<1>3. CASE Steps(r) = 3
  BY <1>1, <1>3
<1> QED BY <1>1, <1>2, <1>3

LEMMA OnlyTicks ==
  ASSUME [Next]_vars
  PROVE  Tick \/ UNCHANGED clock
BY DEF Next, vars, ChangeUser, Login, StartRefresh, Admit, LoadUser, IssuePair, LookUp, End, Over

LEMMA TokenKept ==
  ASSUME TypeOK, [Next]_vars, NEW k \in tokens, TokenOK(k)
  PROVE  TokenOK(k)'
<1> DEFINE S == {s \in Enabled : k.kind = "access" => s.role = k.role}
<1>1. k \in Token /\ k.issued \in Int /\ k.user \in Users /\ clock \in Nat
  BY DEF TypeOK, Token
<1>2. MaxHold \in Nat /\ clock <= clock'
  BY <1>1, Products, OnlyTicks DEF Tick
<1>3. clock' \in Nat
  BY TypeStep DEF TypeOK
<1>4. WasWithin(k.user, S, MaxHold, k.issued)
  BY DEF TokenOK
<1>5. k.issued <= clock + MaxHold
  BY <1>1, <1>2 DEF TokenOK
<1>6. WasWithin(k.user, S, MaxHold, k.issued)'
  <2> HIDE DEF S
  <2> QED BY <1>1, <1>2, <1>4, <1>5, WasKept
<1> QED BY <1>1, <1>2, <1>3, <1>6 DEF TokenOK

LEMMA RequestKept ==
  ASSUME TypeOK, [Next]_vars, NEW r \in requests, r \in requests', RequestOK(r)
  PROVE  RequestOK(r)'
<1>1. r \in Request /\ r.since \in Int /\ r.user \in Users /\ clock \in Nat /\ clock' \in Nat
  BY TypeStep DEF TypeOK, Request
<1>2. r.since <= clock /\ clock <= r.since + MaxHold
  BY DEF RequestOK
<1>3. r.since <= clock' /\ clock' <= r.since + MaxHold
  <2>1. MaxHold \in Nat
    BY Products
  <2>2. CASE Tick
    BY <1>1, <1>2, <2>1, <2>2 DEF Tick
  <2>3. CASE UNCHANGED clock
    BY <1>2, <2>3
  <2> QED BY <2>2, <2>3, OnlyTicks
<1>4. \A S : \A n \in Nat :
        WasWithin(r.user, S, n, r.since) => WasWithin(r.user, S, n, r.since)'
  <2> SUFFICES ASSUME NEW S, NEW n \in Nat, WasWithin(r.user, S, n, r.since)
               PROVE  WasWithin(r.user, S, n, r.since)'
    OBVIOUS
  <2>1. r.since <= clock + n
    BY <1>1, <1>2
  <2> QED BY <1>1, <2>1, WasKept
<1>5. Life + (Steps(r) - 1) * MaxHold \in Nat
  BY Windows
<1> QED BY <1>3, <1>4, <1>5 DEF RequestOK, Allowed

(* Requests and tokens that a step adds.                                   *)

LEMMA LoginOK ==
  ASSUME TypeOK, NEW s \in Sessions, NEW u \in Users, Login(s, u), NEW r \in requests' \ requests
  PROVE  RequestOK(r)'
<1>1. r = [session |-> s, route |-> "login", user |-> u, role |-> None, target |-> None,
           since |-> clock, stage |-> "loaded", seen |-> users[u]]
  BY DEF Login
<1>2. UNCHANGED <<users, clock, past>> /\ users[u] \in Enabled
  BY DEF Login, Enabled, TypeOK
<1>3. clock <= clock /\ clock <= clock + MaxHold
  BY Products DEF TypeOK
<1> QED BY <1>1, <1>2, <1>3 DEF RequestOK, WasWithin

LEMMA RefreshOK ==
  ASSUME TypeOK, NEW s \in Sessions, NEW k \in tokens, StartRefresh(s, k),
         NEW r \in requests' \ requests
  PROVE  RequestOK(r)'
<1>1. r.stage = "decoded" /\ r.since = clock /\ UNCHANGED clock
  BY DEF StartRefresh
<1>2. clock <= clock /\ clock <= clock + MaxHold
  BY Products DEF TypeOK
<1> QED BY <1>1, <1>2 DEF RequestOK

(* The heart of the matter: a token that decodes is young, and says what   *)
(* its user was when it was issued.                                        *)
LEMMA AdmitOK ==
  ASSUME TypeOK, NEW s \in Sessions, NEW k \in tokens, NEW route \in Routes,
         NEW target \in Orgs \cup {None}, Admit(s, route, k, target), TokenOK(k),
         NEW r \in requests' \ requests
  PROVE  RequestOK(r)'
<1> DEFINE S == {x \in Enabled : k.kind = "access" => x.role = k.role}
           stage == IF LooksUp(route) THEN "admitted" ELSE "handled"
<1>1. /\ r.stage = stage /\ r.since = clock /\ r.route = route /\ r.user = k.user
      /\ UNCHANGED <<users, clock, past>>
      /\ k.kind = "access" /\ k.role \in RolesAllowed(route) /\ clock \div Second <= k.exp
  BY DEF Admit, Decodes
<1>2. Steps(r) = 2
  BY <1>1 DEF Steps
<1>3. k.issued \in Nat /\ clock \in Nat /\ MaxHold \in Nat /\ AccessTtl \in Nat
  BY Products, TokenAssumption DEF TypeOK, Token
<1>4. k.exp = (k.issued + AccessTtl * Second) \div Second
  BY <1>1 DEF TokenOK, Ttl
<1>5. clock <= k.issued + (AccessTtl * Second + Second - 1)
  BY <1>1, <1>3, <1>4, DecodesYoung
<1>6. clock <= k.issued + Life /\ Life \in Nat
  BY <1>5, Products, Windows
<1>7. S \subseteq Allowed(r)
  BY <1>1 DEF Allowed
<1>8. WasWithin(k.user, S, MaxHold, k.issued)
  BY DEF TokenOK
<1>9. WasWithin(r.user, Allowed(r), Life + (Steps(r) - 1) * MaxHold, clock)
  <2>1. (Steps(r) - 1) * MaxHold = MaxHold
    BY <1>2, Windows
  <2>2. Life + MaxHold \in Int /\ clock + MaxHold <= k.issued + (Life + MaxHold)
    BY <1>3, <1>6
  <2> HIDE DEF S
  <2> QED BY <1>1, <1>3, <1>7, <1>8, <2>1, <2>2, WasLater
<1>10. clock <= clock /\ clock <= clock + MaxHold
  BY <1>3
<1>11. /\ ~(r.stage = "handled" /\ LooksUp(r.route)) /\ r.stage # "loaded"
       /\ r.stage = "admitted" => LooksUp(r.route)
  BY <1>1
<1>12. WasWithin(r.user, Allowed(r), Life + (Steps(r) - 1) * MaxHold, r.since)'
  BY <1>1, <1>9 DEF WasWithin, Allowed
<1> QED BY <1>1, <1>10, <1>11, <1>12 DEF RequestOK

LEMMA LoadOK ==
  ASSUME TypeOK, NEW q \in requests, LoadUser(q), NEW r \in requests' \ requests
  PROVE  RequestOK(r)'
<1>1. r = Reread(q, "loaded") /\ UNCHANGED <<users, clock, past>>
  BY DEF LoadUser, Advance, Reread
<1>2. q \in Request /\ users[q.user] \in Enabled
  BY DEF LoadUser, Enabled, TypeOK, Request
<1>3. r.stage = "loaded" /\ r.since = clock /\ r.seen = users[q.user] /\ r.user = q.user
  BY <1>1, <1>2 DEF Reread, Request
<1>4. clock <= clock /\ clock <= clock + MaxHold
  BY Products DEF TypeOK
<1> QED BY <1>1, <1>2, <1>3, <1>4 DEF RequestOK, WasWithin

LEMMA LookUpOK ==
  ASSUME TypeOK, NEW q \in requests, LookUp(q), RequestOK(q), NEW r \in requests' \ requests
  PROVE  RequestOK(r)'
<1>1. r = Reread(q, "handled") /\ UNCHANGED <<users, clock, past>>
  BY DEF LookUp, Advance, Reread
<1>2. q \in Request /\ q.stage = "admitted" /\ users[q.user] \in Enabled /\ OwnOrg(q, users[q.user])
  BY DEF LookUp, Enabled, TypeOK, Request
<1>3. /\ r.stage = "handled" /\ r.since = clock /\ r.user = q.user
      /\ r.route = q.route /\ r.target = q.target
  BY <1>1, <1>2 DEF Reread, Request
<1>4. q.since \in Int /\ clock \in Nat /\ MaxHold \in Nat /\ Life \in Nat
  BY <1>2, Windows DEF Request, TypeOK
<1>5. clock <= q.since + MaxHold
  BY DEF RequestOK
<1>6. OwnOrg(r, users[r.user])
  BY <1>2, <1>3 DEF OwnOrg
<1>7. WasWithin(q.user, Allowed(q), Life + (Steps(q) - 1) * MaxHold, q.since)
  BY <1>2 DEF RequestOK
<1>8. LooksUp(q.route)
  BY <1>2 DEF RequestOK
<1>9. (Steps(q) - 1) * MaxHold = MaxHold /\ (Steps(r) - 1) * MaxHold = MaxHold + MaxHold
  <2>1. Steps(q) = 2 /\ Steps(r) = 3
    BY <1>2, <1>3, <1>8 DEF Steps
  <2> QED BY <2>1, Windows
<1>10. WasWithin(r.user, Allowed(r), Life + (Steps(r) - 1) * MaxHold, clock)
  <2>1. Allowed(q) \subseteq Allowed(r)
    BY <1>3 DEF Allowed
  <2>2. clock + (Life + MaxHold) <= q.since + (Life + (MaxHold + MaxHold))
    BY <1>4, <1>5
  <2> QED BY <1>3, <1>4, <1>7, <1>9, <2>1, <2>2, WasLater
<1>11. clock <= clock /\ clock <= clock + MaxHold
  BY <1>4
<1>12. WasWithin(r.user, Allowed(r), Life + (Steps(r) - 1) * MaxHold, r.since)'
  BY <1>1, <1>3, <1>10 DEF WasWithin, Allowed
<1>13. WasWithin(r.user, {s \in Enabled : OwnOrg(r, s)}, 0, r.since)'
  BY <1>1, <1>2, <1>3, <1>6 DEF WasWithin
<1> QED BY <1>1, <1>3, <1>11, <1>12, <1>13 DEF RequestOK

LEMMA IssueOK ==
  ASSUME TypeOK, NEW q \in requests, IssuePair(q), RequestOK(q), NEW k \in tokens' \ tokens
  PROVE  TokenOK(k)'
<1>1. PICK kind \in {"access", "refresh"}, role \in UserRole \cup {None} :
        k = Issued(kind, q.user, role) /\ (kind = "access" => role = q.seen.role)
  <2>1. q.seen.role \in UserRole
    BY DEF TypeOK, IssuePair, Request, Standing
  <2> QED BY <2>1 DEF IssuePair
<1>2. UNCHANGED <<users, clock, past>> /\ q.stage = "loaded"
  BY DEF IssuePair
<1>3. /\ k.kind = kind /\ k.user = q.user /\ k.role = role /\ k.issued = clock
      /\ k.exp = (clock + Ttl(kind) * Second) \div Second
      /\ k.expires_at = clock + Ttl(kind) * Second
  BY <1>1 DEF Issued
<1>4. q.since \in Int /\ clock \in Nat /\ MaxHold \in Nat /\ clock <= q.since + MaxHold
  BY Products DEF TypeOK, Request, RequestOK
<1>5. WasWithin(q.user, {s \in Enabled : s = q.seen}, 0, q.since)
  BY <1>2 DEF RequestOK
<1>6. {s \in Enabled : s = q.seen} \subseteq {s \in Enabled : k.kind = "access" => s.role = k.role}
  BY <1>1, <1>3
<1>7. WasWithin(k.user, {s \in Enabled : k.kind = "access" => s.role = k.role}, MaxHold, clock)
  BY <1>3, <1>4, <1>5, <1>6, WasLater
<1>8. WasWithin(k.user, {s \in Enabled : k.kind = "access" => s.role = k.role},
                MaxHold, k.issued)'
  BY <1>2, <1>3, <1>7 DEF WasWithin
<1> QED BY <1>2, <1>3, <1>4, <1>8 DEF TokenOK

LEMMA TInvStep ==
  ASSUME TInv, [Next]_vars
  PROVE  TInv'
<1>1. TypeOK /\ (\A k \in tokens : TokenOK(k)) /\ (\A r \in requests : RequestOK(r))
  BY Parts
<1>2. TypeOK'
  BY <1>1, TypeStep
<1>3. ASSUME NEW k \in tokens'
      PROVE  TokenOK(k)'
  <2>1. CASE k \in tokens
    BY <1>1, <2>1, TokenKept
  <2>2. CASE k \notin tokens
    <3>1. PICK q \in requests : IssuePair(q)
      BY <2>2 DEF Next, vars, Tick, ChangeUser, Login, StartRefresh, Admit, LoadUser, LookUp,
                  End, Over
    <3> QED BY <1>1, <2>2, <3>1, IssueOK
  <2> QED BY <2>1, <2>2
<1>4. ASSUME NEW r \in requests'
      PROVE  RequestOK(r)'
  <2>1. CASE r \in requests
    BY <1>1, <2>1, RequestKept
  <2>2. CASE r \notin requests
    <3>1. CASE \E s \in Sessions, u \in Users : Login(s, u)
      BY <1>1, <2>2, <3>1, LoginOK
    <3>2. CASE \E s \in Sessions, k \in tokens : StartRefresh(s, k)
      BY <1>1, <2>2, <3>2, RefreshOK
    <3>3. CASE \E s \in Sessions, k \in tokens, route \in Routes, target \in Orgs \cup {None} :
                 Admit(s, route, k, target)
      BY <1>1, <2>2, <3>3, AdmitOK
    <3>4. CASE \E q \in requests : LoadUser(q)
      BY <1>1, <2>2, <3>4, LoadOK
    <3>5. CASE \E q \in requests : LookUp(q)
      BY <1>1, <2>2, <3>5, LookUpOK
    <3> QED BY <2>2, <3>1, <3>2, <3>3, <3>4, <3>5
            DEF Next, vars, Tick, ChangeUser, IssuePair, End, Over
  <2> QED BY <2>1, <2>2
<1> HIDE DEF TInv
<1>5. (TypeOK /\ (\A k \in tokens : TokenOK(k)) /\ (\A r \in requests : RequestOK(r)))'
  BY <1>2, <1>3, <1>4
<1> QED BY <1>5, Parts DEF TInv, Stamped, Timely, IssuedFromRows, Loaded, Admitted, LookedUp,
                            TokenOK, RequestOK

-----------------------------------------------------------------------------
(* Theorems                                                                *)

LEMMA TInvAlways == Spec => []TInv
<1>1. Init => TInv
  BY TokenAssumption
     DEF Init, TInv, TypeOK, Standing, Stamped, Timely, IssuedFromRows, Loaded, Admitted, LookedUp
<1> QED BY <1>1, TInvStep, PTL DEF Spec

(* login and refresh: every token repeats the row of an enabled user, read *)
(* less than a step before it was issued.                                  *)
THEOREM TokensFromRows == Spec => []IssuedFromRows
<1>1. TInv => IssuedFromRows
  BY DEF TInv
<1> QED BY <1>1, TInvAlways, PTL

(* decode_token, require_role: no right is exercised longer after it was   *)
(* withdrawn than one access token lives, whatever is refreshed.           *)
THEOREM RightsEnd == Spec => []StaleRightsEnd
<1>1. TInv => StaleRightsEnd
  <2> SUFFICES ASSUME TInv, NEW r \in requests, r.stage \in {"admitted", "handled"}
               PROVE  WasWithin(r.user, Allowed(r), Life + Steps(r) * MaxHold, clock)
    BY DEF StaleRightsEnd, Allowed, Life
  <2>1. TypeOK /\ RequestOK(r)
    BY Parts
  <2>2. r.since \in Int /\ clock \in Nat /\ clock <= r.since + MaxHold
    BY <2>1 DEF TypeOK, Request, RequestOK
  <2>3. WasWithin(r.user, Allowed(r), Life + (Steps(r) - 1) * MaxHold, r.since)
    BY <2>1 DEF RequestOK
  <2>4. /\ MaxHold \in Nat /\ Life \in Nat /\ (Steps(r) - 1) * MaxHold \in Nat
        /\ Steps(r) * MaxHold = (Steps(r) - 1) * MaxHold + MaxHold
    BY Windows
  <2>5. /\ Life + (Steps(r) - 1) * MaxHold \in Int /\ Life + Steps(r) * MaxHold \in Int
        /\ clock + (Life + (Steps(r) - 1) * MaxHold) <= r.since + (Life + Steps(r) * MaxHold)
    BY <2>2, <2>4
  <2> QED BY <2>1, <2>2, <2>3, <2>5, WasLater
<1> QED BY <1>1, TInvAlways, PTL

(* get_current_user, create_plot: where the row is looked up, the user was *)
(* enabled, and a producer at home, less than a step ago.                  *)
THEOREM LookUpsFresh == Spec => []LookedUpIsFresh
<1>1. TInv => LookedUpIsFresh
  <2> SUFFICES ASSUME TInv, NEW r \in requests, r.stage = "handled", LooksUp(r.route)
               PROVE  WasWithin(r.user, {s \in Enabled : OwnOrg(r, s)}, MaxHold, clock)
    BY DEF LookedUpIsFresh, OwnOrg
  <2>1. TypeOK /\ RequestOK(r)
    BY Parts
  <2>2. r.since \in Int /\ clock \in Nat /\ clock <= r.since + MaxHold /\ MaxHold \in Nat
    BY <2>1, Products DEF TypeOK, Request, RequestOK
  <2>3. WasWithin(r.user, {s \in Enabled : OwnOrg(r, s)}, 0, r.since)
    BY <2>1 DEF RequestOK
  <2> QED BY <2>1, <2>2, <2>3, WasLater
<1> QED BY <1>1, TInvAlways, PTL

(* TokenPair: a token is accepted up to the instant the client was told.   *)
THEOREM ToldTheTruth == Spec => []AdvertisedLife
<1>1. TInv => AdvertisedLife
  <2> SUFFICES ASSUME TInv, NEW k \in tokens, clock <= k.expires_at
               PROVE  clock \div Second <= k.exp
    BY DEF AdvertisedLife, Decodes
  <2>1. clock \in Nat /\ k.expires_at \in Nat
    BY DEF TInv, TypeOK, Token
  <2>2. k.exp = k.expires_at \div Second
    BY DEF TInv, Stamped
  <2> QED BY <2>1, <2>2, DecodesAsTold
<1> QED BY <1>1, TInvAlways, PTL

=============================================================================
