---------------------------- MODULE AccessTokens ----------------------------
(***************************************************************************)
(* Who may call what.  Logging in yields an access token, which carries    *)
(* the user's role, and a refresh token, which buys another such pair.     *)
(* Both are stateless: nothing revokes them, and what they say was true of *)
(* the user when the row was read.  Most routes believe the token; a few   *)
(* look the user up as well.  Users are changed behind the service.        *)
(*                                                                         *)
(* Time is counted in ticks, Second of them to a second, since the claims  *)
(* of a token hold whole seconds and the server's clock does not.          *)
(***************************************************************************)
EXTENDS Naturals, FiniteSets

CONSTANTS
  Users,
  Orgs,
  Roles,       (* Bound: the roles users are given.                        *)
  Routes,      (* Bound: the routes that are called.                       *)
  Sessions,    (* Database sessions: one open request each.                *)
  Second,      (* Ticks of the clock in a second.                          *)
  AccessTtl,   (* jwt_access_ttl_seconds (3600).                           *)
  RefreshTtl,  (* jwt_refresh_ttl_seconds (2592000).                       *)
  MaxHold,     (* The longest a request stays between two of its steps.    *)
  MaxTime,     (* Bound: ticks.                                            *)
  MaxChanges,  (* Bound: changes of users.                                 *)
  MaxTokens,   (* Bound: tokens issued.                                    *)
  None

UserRole == {"producer", "cooperative_officer", "exporter", "auditor", "admin"}

(* The routes, by the function that handles them; "read" is any of those   *)
(* that change nothing.                                                    *)
RouteNames == {"create_plot", "create_harvest", "create_lot", "create_organization",
               "build_dds", "submit_dds", "create_event", "seal_lot", "check_plot", "me", "read"}

ASSUME TokenAssumption ==
  /\ Roles \subseteq UserRole
  /\ Routes \subseteq RouteNames
  /\ Second \in Nat \ {0}
  /\ AccessTtl \in Nat
  /\ RefreshTtl \in Nat
  /\ MaxHold \in Nat
  /\ MaxTime \in Nat
  /\ None \notin UserRole \cup Orgs \cup [role: UserRole, org: Orgs, enabled: BOOLEAN]

VARIABLES
  users,     (* Rows of users: role, organization, disabled_at.            *)
  clock,
  tokens,    (* Every token issued.                                        *)
  requests,  (* Requests being handled.                                    *)
  past       (* History: what users were, and until when.                  *)

vars == <<users, clock, tokens, requests, past>>

Standing == [role: UserRole, org: Orgs, enabled: BOOLEAN]

(* exp is the claim; expires_at what the client is told.                   *)
Token == [kind: {"access", "refresh"}, user: Users, role: UserRole \cup {None},
          exp: Nat, expires_at: Nat, issued: Nat]

Request == [session: Sessions, route: RouteNames \cup {"login", "refresh"}, user: Users,
            role: UserRole \cup {None}, target: Orgs \cup {None}, since: Nat,
            stage: {"decoded", "loaded", "admitted", "handled"}, seen: Standing \cup {None}]

TypeOK ==
  /\ users \in [Users -> Standing]
  /\ clock \in Nat
  /\ tokens \subseteq Token
  /\ \A k \in tokens : k.kind = "access" => k.role # None
  /\ requests \subseteq Request
  /\ \A r \in requests : r.stage = "loaded" => r.seen # None
  /\ past \subseteq [user: Users, was: Standing, until: Nat]

Init ==
  /\ users \in [Users -> [role: Roles, org: Orgs, enabled: BOOLEAN]]
  /\ clock = 0
  /\ tokens = {} /\ requests = {} /\ past = {}

-----------------------------------------------------------------------------
(* Time and users                                                          *)

(* Requests do not stay between two steps for longer than MaxHold.         *)
Tick ==
  /\ clock < MaxTime
  /\ \A r \in requests : clock < r.since + MaxHold
  /\ clock' = clock + 1
  /\ UNCHANGED <<users, tokens, requests, past>>

(* An administrator alters a row: no route does.                           *)
ChangeUser(u, new) ==
  /\ new # users[u]
  /\ Cardinality(past) < MaxChanges
  /\ past' = past \cup {[user |-> u, was |-> users[u], until |-> clock]}
  /\ users' = [users EXCEPT ![u] = new]
  /\ UNCHANGED <<clock, tokens, requests>>

-----------------------------------------------------------------------------
(* Tokens                                                                  *)

Ttl(kind) == IF kind = "access" THEN AccessTtl ELSE RefreshTtl

(* BUG VARIANT: both tokens get the life of a refresh token.               *)
Issued_LongLived(kind, u, role) ==
  [kind |-> kind, user |-> u, role |-> role, issued |-> clock,
   exp |-> (clock + RefreshTtl * Second) \div Second, expires_at |-> clock + Ttl(kind) * Second]

(* issue_access_token, issue_refresh_token: exp is cut to whole seconds.   *)
Issued(kind, u, role) ==
  [kind |-> kind, user |-> u, role |-> role, issued |-> clock,
   exp |-> (clock + Ttl(kind) * Second) \div Second, expires_at |-> clock + Ttl(kind) * Second]

(* BUG VARIANT: a token is refused in the second it expires in.            *)
Decodes_Early(k, kind) == k.kind = kind /\ clock \div Second < k.exp

(* decode_token: jose compares exp with the clock, cut to whole seconds.   *)
Decodes(k, kind) == k.kind = kind /\ clock \div Second <= k.exp

Free(s) == \A r \in requests : r.session # s

Advance(r, new) == requests' = (requests \ {r}) \cup {new}

(* login finds the user by email; then it verifies the password.           *)
Login(s, u) ==
  /\ Free(s)
  /\ users[u].enabled
  /\ requests' = requests \cup
       {[session |-> s, route |-> "login", user |-> u, role |-> None, target |-> None,
         since |-> clock, stage |-> "loaded", seen |-> users[u]]}
  /\ UNCHANGED <<users, clock, tokens, past>>

(* refresh decodes the token.  One that was used before is as good.        *)
StartRefresh(s, k) ==
  /\ Free(s)
  /\ Decodes(k, "refresh")
  /\ requests' = requests \cup
       {[session |-> s, route |-> "refresh", user |-> k.user, role |-> None, target |-> None,
         since |-> clock, stage |-> "decoded", seen |-> None]}
  /\ UNCHANGED <<users, clock, tokens, past>>

(* BUG VARIANT: a row that is not found enabled is used all the same.      *)
LoadUser_Uncaught(r) ==
  /\ r.stage = "decoded"
  /\ Advance(r, [r EXCEPT !.stage = "loaded", !.since = clock,
                          !.seen = IF users[r.user].enabled THEN users[r.user] ELSE None])
  /\ UNCHANGED <<users, clock, tokens, past>>

(* BUG VARIANT: disabled_at is not looked at.                              *)
LoadUser_Disabled(r) ==
  /\ r.stage = "decoded"
  /\ Advance(r, [r EXCEPT !.stage = "loaded", !.since = clock, !.seen = users[r.user]])
  /\ UNCHANGED <<users, clock, tokens, past>>

(* ... and then loads the user, whose role may have changed.               *)
LoadUser(r) ==
  /\ r.stage = "decoded"
  /\ users[r.user].enabled
  /\ Advance(r, [r EXCEPT !.stage = "loaded", !.since = clock, !.seen = users[r.user]])
  /\ UNCHANGED <<users, clock, tokens, past>>

(* login and refresh issue a pair from the row they have loaded.           *)
IssuePair(r) ==
  /\ r.stage = "loaded"
  /\ Cardinality(tokens) < MaxTokens
  /\ tokens' = tokens \cup {Issued("access", r.user, r.seen.role),
                            Issued("refresh", r.user, None)}
  /\ requests' = requests \ {r}
  /\ UNCHANGED <<users, clock, past>>

-----------------------------------------------------------------------------
(* Calls                                                                   *)

(* require_role; where a route has none, any principal will do.            *)
RolesAllowed(route) ==
  CASE route = "create_organization" -> {"admin"}
    [] route \in {"build_dds", "submit_dds"} -> {"exporter", "admin"}
    [] route = "create_lot" -> {"cooperative_officer", "exporter", "admin"}
    [] route \in {"create_plot", "create_harvest"} -> {"producer", "cooperative_officer", "admin"}
    [] OTHER -> UserRole

(* The routes with a CurrentUserDep.                                       *)
LooksUp(route) == route \in {"create_plot", "create_event", "me"}

(* _principal_from_header and require_role: the token alone is asked.      *)
Admit(s, route, k, target) ==
  /\ Free(s)
  /\ Decodes(k, "access")
  /\ k.role \in RolesAllowed(route)
  /\ (target # None) <=> (route = "create_plot")
  /\ requests' = requests \cup
       {[session |-> s, route |-> route, user |-> k.user, role |-> k.role, target |-> target,
         since |-> clock, stage |-> IF LooksUp(route) THEN "admitted" ELSE "handled",
         seen |-> None]}
  /\ UNCHANGED <<users, clock, tokens, past>>

(* BUG VARIANT: the role of the token decides whose plots these may be.    *)
OwnOrg_ByToken(r, row) ==
  r.route = "create_plot" /\ r.role = "producer" => r.target = row.org

(* create_plot: producers register plots for their own organization.       *)
OwnOrg(r, row) ==
  r.route = "create_plot" /\ row.role = "producer" => r.target = row.org

(* get_current_user, and what the handler decides on the row it returns.   *)
LookUp(r) ==
  /\ r.stage = "admitted"
  /\ users[r.user].enabled
  /\ OwnOrg(r, users[r.user])
  /\ Advance(r, [r EXCEPT !.stage = "handled", !.since = clock, !.seen = users[r.user]])
  /\ UNCHANGED <<users, clock, tokens, past>>

(* The handler has done its work, or something is refused or fails.        *)
End(r) ==
  /\ requests' = requests \ {r}
  /\ UNCHANGED <<users, clock, tokens, past>>

(* The bound on time is reached.                                           *)
Over == clock = MaxTime /\ UNCHANGED vars

Next ==
  \/ Tick
  \/ \E u \in Users, new \in [role: Roles, org: Orgs, enabled: BOOLEAN] : ChangeUser(u, new)
  \/ \E s \in Sessions :
       \/ \E u \in Users : Login(s, u)
       \/ \E k \in tokens : StartRefresh(s, k)
       \/ \E k \in tokens, route \in Routes, target \in Orgs \cup {None} : Admit(s, route, k, target)
  \/ \E r \in requests : LoadUser(r) \/ IssuePair(r) \/ LookUp(r) \/ End(r)
  \/ Over

Spec == Init /\ [][Next]_vars

-----------------------------------------------------------------------------

(* User u was one of S at some moment of the n ticks before t, or later.   *)
WasWithin(u, S, n, t) ==
  \/ users[u] \in S
  \/ \E p \in past : p.user = u /\ p.was \in S /\ t <= p.until + n

Enabled == {s \in Standing : s.enabled}

(* A token says what its user was less than one step before it was issued, *)
(* and that user was enabled then, for how often tokens are exchanged for  *)
(* new ones and whatever becomes of the user meanwhile (login, refresh).   *)
IssuedFromRows ==
  \A k \in tokens :
    WasWithin(k.user, {s \in Enabled : k.kind = "access" => s.role = k.role}, MaxHold, k.issued)

(* The steps of the two requests that issue a token and believe it.        *)
Steps(r) == IF r.stage = "handled" /\ LooksUp(r.route) THEN 3 ELSE 2

(* A right outlives its withdrawal by the life of a token at most, with    *)
(* the second that is lost in rounding and what the requests are held up:  *)
(* whatever a handler does on the strength of a token, its user was        *)
(* enabled and had a role that allows it that recently.  Refreshing does   *)
(* not stretch this, though refresh tokens live longer and are never       *)
(* revoked (_principal_from_header, require_role, refresh).                *)
StaleRightsEnd ==
  \A r \in requests : r.stage \in {"admitted", "handled"} =>
    WasWithin(r.user, {s \in Enabled : s.role \in RolesAllowed(r.route)},
              (AccessTtl + 1) * Second - 1 + Steps(r) * MaxHold, clock)

(* Where the user is looked up, the role alone may be stale: the user was  *)
(* enabled less than one step ago and, if a producer then, belonged to the *)
(* organization the plot goes to (get_current_user, create_plot).          *)
LookedUpIsFresh ==
  \A r \in requests : r.stage = "handled" /\ LooksUp(r.route) =>
    WasWithin(r.user,
              {s \in Enabled : r.route = "create_plot" /\ s.role = "producer" => s.org = r.target},
              MaxHold, clock)

(* A client told that a token expires at some instant finds it accepted up *)
(* to that instant, though exp loses the fraction of a second (TokenPair). *)
AdvertisedLife ==
  \A k \in tokens : clock <= k.expires_at => Decodes(k, k.kind)

=============================================================================
