------------------------------ MODULE Accounts ------------------------------
(***************************************************************************)
(* Accounts and sessions: registration and login at authority-service, the *)
(* token checks of common/auth.rs, and the operations of users-service     *)
(* that change or delete an account.                                       *)
(*                                                                         *)
(* A token carries the account's tokenVersion and is accepted while the    *)
(* account still has it.  Services check a token when a request arrives    *)
(* and act on the claims later, in one database statement or in several.   *)
(*                                                                         *)
(* An OPAQUE record is made for a password under a credential identifier;  *)
(* a login succeeds when both are those of the record login_start read.    *)
(* A venue has no password and belongs to a manager.  Guests and profile   *)
(* fields are left out.                                                    *)
(***************************************************************************)
EXTENDS Naturals

CONSTANTS
  Users,          \* accounts; ids are never reused
  Venues,         \* venues; they too are documents of the users collection
  Bootstrap,      \* the user ADMIN_BOOTSTRAP_USER_ID names
  Clients,        \* browsers: each holds one token and has one request under way
  Passwords,
  Sessions,       \* names of login sessions: random, so a new one is never in use
  Cascade,        \* the collections delete_me clears of the user: messages, favourites
  Kept,           \* those it leaves: blocks, notifications
  SelfGuard,      \* SELF_PROMOTION_GUARD
  SessionTTL,     \* LOGIN_SESSION_TTL, in ticks
  MaxVersion,     \* bound on tokenVersion
  MaxRequests,    \* bound on requests with a token and on logins started
  MaxFaults,      \* bound on failed statements and restarts
  None

ASSUME AccountsAssumption ==
  /\ Bootstrap \in Users /\ SelfGuard \in BOOLEAN
  /\ Venues \cap (Cascade \cup {"users", "locations"}) = {}     \* a deletion tells its steps apart
  /\ (Cascade \cup Kept) \cap {"users", "locations", "surplus"} = {} /\ Cascade \cap Kept = {}
  /\ SessionTTL \in Nat \ {0} /\ MaxVersion \in Nat \ {0} /\ MaxRequests \in Nat /\ MaxFaults \in Nat

VARIABLES
  users,     \* the users collection: a document, or None before registration and after deletion
  born,      \* history: the ids used so far
  venue,     \* the manager of each venue there is
  data,      \* the collections with documents of a user, "surplus" standing for the second
             \* of two locations
  held,      \* the token each client holds
  req,       \* the request each client has under way, after its token was checked
  sess,      \* login_sessions of authority-service; sub is history: whom login_start named
  logins,    \* history: logins completed with a session
  pwAge,     \* history: ticks since the password was changed, up to SessionTTL
  clean,     \* history: accounts deleted by a request of which nothing failed and which
             \* overlapped no other of theirs, and the role it was made with
  requests,
  faults

vars == <<users, born, venue, data, held, req, sess, logins, pwAge, clean, requests, faults>>

Roles       == {"user", "admin", "venue_manager"}
Tiers       == {"regular", "custom"}
Collections == Cascade \cup Kept \cup {"locations", "surplus"}
ToDelete    == Cascade \cup {"users", "locations"}

Account == [role : Roles, tier : Tiers, tv : 0 .. MaxVersion, pw : Passwords,
            \* what the record and the emailHash were made with: the peppered hash of the
            \* address; the user id, after a change of password; also the raw hash
            key : {"email", "id", "raw"}]
Token   == [sub : Users, role : Roles, tier : Tiers, tv : 0 .. MaxVersion]

Operations == {"write", "password", "delete", "patch", "venue"}
Session    == [sub : Users, age : 0 .. SessionTTL, pw : Passwords \cup {None}]
Login      == [op : {"login"}, sub : Users, pw : Passwords]
Request    == [op : Operations, sub : Users, role : Roles,
               step : {"start", "reread", "cascade", "reassign"}, to : Users \cup {None},
               todo : SUBSET (ToDelete \cup Venues), ok : BOOLEAN, alone : BOOLEAN]

\* None stands for the absence of any of these.
ASSUME NoneAssumption ==
  None \notin Users \cup Passwords \cup Account \cup Token \cup Session \cup Login \cup Request

issue_user_token(u, tier) ==
  [sub |-> u, role |-> users[u].role, tier |-> tier, tv |-> users[u].tv]

\* An empty database, or one with the administrator and a manager of a venue, logged in.
Established(p) == [u \in Users |->
  [role |-> IF u = Bootstrap THEN "admin" ELSE "venue_manager", tier |-> "regular", tv |-> 1,
   pw |-> p, key |-> "email"]]
Init ==
  /\ \/ /\ users = [u \in Users |-> None] /\ born = {}
        /\ venue = [v \in Venues |-> None] /\ held = [c \in Clients |-> None]
     \/ /\ \E p \in Passwords : users = Established(p)
        /\ born = Users \cup Venues /\ venue \in [Venues -> Users \ {Bootstrap}]
        /\ held \in [Clients -> {issue_user_token(u, "regular") : u \in Users}]
  /\ clean = {}
  /\ data = [u \in Users |-> {}]
  /\ req = [c \in Clients |-> None]
  /\ sess = [s \in Sessions |-> None] /\ logins = [s \in Sessions |-> 0]
  /\ pwAge = [u \in Users |-> SessionTTL]
  /\ requests = 0 /\ faults = 0

\* Mutant: another default.
SanitizeToGuest(tier) == IF tier = "custom" THEN "guest" ELSE tier
\* Logging in knows the built-in tiers only.
sanitize_tier(tier) == IF tier = "custom" THEN "regular" ELSE tier

\* Mutant: a deleted account is not noticed.
AcceptedUnlessNewer(t) == IF users[t.sub] = None THEN TRUE ELSE users[t.sub].tv = t.tv
\* The AuthToken extractor: the account exists and has this version.
Accepted(t) == users[t.sub] # None /\ users[t.sub].tv = t.tv

\* The gateway has authority-service verify a token, which asks the same.
authority_verify(t) == Accepted(t)

\* AdminUser and check_admin_tv, for the tier routes of authority-service: an account that
\* is missing counts as version 0.
check_admin_tv(t) ==
  t.role = "admin" /\ t.tv = (IF users[t.sub] = None THEN 0 ELSE users[t.sub].tv)

(***************************************************************************)
(* Registration and login.                                                 *)
(***************************************************************************)
auth_register_finish(c, u, p) ==
  /\ req[c] = None /\ u \notin born
  /\ users' = [users EXCEPT ![u] =
                 [role |-> "user", tier |-> "regular", tv |-> 0, pw |-> p, key |-> "email"]]
  /\ born' = born \cup {u}
  /\ held' = [held EXCEPT ![c] = [sub |-> u, role |-> "user", tier |-> "regular", tv |-> 0]]
  /\ UNCHANGED <<venue, data, req, sess, logins, pwAge, clean, requests, faults>>

\* Mutant: old sessions stay.
RetainAll == sess
\* The sessions that are left after an access to login_sessions.
Retain == [s \in Sessions |->
             IF sess[s] # None /\ sess[s].age >= SessionTTL THEN None ELSE sess[s]]

\* An unknown address gets a session too, with which no password works.
auth_login_start(s, u) ==
  /\ Retain[s] = None /\ requests < MaxRequests
  /\ sess' = [Retain EXCEPT ![s] =
       [sub |-> u, age |-> 0,
        pw |-> IF users[u] # None /\ users[u].key = "email" THEN users[u].pw ELSE None]]
  /\ logins' = [logins EXCEPT ![s] = 0]
  /\ requests' = requests + 1
  /\ UNCHANGED <<users, born, venue, data, held, req, pwAge, clean, faults>>

\* Mutant: a session can be used again.
TakenNot(s) == Retain
\* A session is taken out, whatever the outcome.  Any request that names it may do so, and
\* the request names an account of its own: the session does not know for whom it is.
Taken(s) == [Retain EXCEPT ![s] = None]
LoginTake(c, s, u, p) ==
  /\ req[c] = None /\ Retain[s] # None
  /\ sess' = Taken(s)
  /\ IF p = sess[s].pw
     THEN /\ req' = [req EXCEPT ![c] = [op |-> "login", sub |-> u, pw |-> p]]
          /\ logins' = [logins EXCEPT ![s] = @ + 1]
     ELSE UNCHANGED <<req, logins>>
  /\ UNCHANGED <<users, born, venue, data, held, pwAge, clean, requests, faults>>

\* The rest of auth_login_finish: the account the request names is read, by its peppered hash.
LoginIssue(c) ==
  /\ req[c] # None /\ req[c].op = "login"
  /\ LET u == req[c].sub IN
     held' = IF users[u] # None /\ users[u].key # "raw"
             THEN [held EXCEPT ![c] = issue_user_token(u, sanitize_tier(users[u].tier))]
             ELSE held
  /\ req' = [req EXCEPT ![c] = None]
  /\ UNCHANGED <<users, born, venue, data, sess, logins, pwAge, clean, requests, faults>>

(***************************************************************************)
(* Requests: the token is checked, then the handler acts.                  *)
(***************************************************************************)
\* The requests of a user, and those about to make the user a venue's manager.
InFlight(u) == {c \in Clients : /\ req[c] # None /\ req[c].op # "login"
                                /\ req[c].sub = u \/ req[c].to = u}
Overlapped(u) == [c \in Clients |-> IF c \in InFlight(u) THEN [req[c] EXCEPT !.alone = FALSE]
                                    ELSE req[c]]

\* A deletion is alone when no other request of its user was let in before its end.
Arrive(c, op) ==
  /\ req[c] = None /\ held[c] # None /\ authority_verify(held[c])
  /\ requests < MaxRequests /\ requests' = requests + 1
  /\ op = "patch" => held[c].role = "admin"
  /\ op = "venue" => held[c].role = "venue_manager"
  /\ LET u == held[c].sub IN
     req' = [Overlapped(u) EXCEPT ![c] =
       [op |-> op, sub |-> u, role |-> held[c].role, step |-> "start", to |-> None,
        todo |-> {}, ok |-> TRUE, alone |-> InFlight(u) = {}]]
  /\ UNCHANGED <<users, born, venue, data, held, sess, logins, pwAge, clean, faults>>

Under(c, op, step) == req[c] # None /\ req[c].op = op /\ req[c].step = step

\* A message, a favourite, a block or a location is stored by its service.
Write(c, k) ==
  /\ Under(c, "write", "start") /\ k # "surplus"
  /\ data' = [data EXCEPT ![req[c].sub] = IF k = "locations" /\ "surplus" \in @ THEN @ ELSE @ \cup {k}]
  /\ req' = [req EXCEPT ![c] = None]
  /\ UNCHANGED <<users, born, venue, held, sess, logins, pwAge, clean, requests, faults>>

\* Two upserts of a location that overlap both find none, and each inserts one.
WriteTwice(c, d) ==
  /\ c # d /\ Under(c, "write", "start") /\ Under(d, "write", "start")
  /\ LET u == req[c].sub IN
     /\ req[d].sub = u /\ data[u] \cap {"locations", "surplus"} = {}
     /\ data' = [data EXCEPT ![u] = @ \cup {"locations", "surplus"}]
  /\ req' = [req EXCEPT ![c] = None, ![d] = None]
  /\ UNCHANGED <<users, born, venue, held, sess, logins, pwAge, clean, requests, faults>>

\* users_me_password_start has the record made under the user id; the emailHash that
\* users_me_password_finish may be given is stored as it came.
PasswordKey(key, raw) == IF raw \/ key = "raw" THEN "raw" ELSE "id"

\* users_me_password_finish: the new record, and a version on.
users_me_password_finish(c, p, raw) ==
  /\ Under(c, "password", "start")
  /\ LET u == req[c].sub IN
     /\ users[u] # None => users[u].tv < MaxVersion
     /\ users' = IF users[u] = None THEN users
                 ELSE [users EXCEPT ![u].pw = p, ![u].tv = @ + 1,
                                    ![u].key = PasswordKey(@, raw)]
     /\ pwAge' = IF users[u] = None \/ users[u].pw = p THEN pwAge ELSE [pwAge EXCEPT ![u] = 0]
  /\ req' = [req EXCEPT ![c].step = "reread"]
  /\ UNCHANGED <<born, venue, data, held, sess, logins, clean, requests, faults>>

\* The account is read again for the new token.
PasswordToken(c) ==
  /\ Under(c, "password", "reread")
  /\ LET u == req[c].sub IN
     held' = IF users[u] = None THEN held
             ELSE [held EXCEPT ![c] = issue_user_token(u, users[u].tier)]
  /\ req' = [req EXCEPT ![c] = None]
  /\ UNCHANGED <<users, born, venue, data, sess, logins, pwAge, clean, requests, faults>>

\* Mutant: a change of role alone keeps the version.
PatchedTierOnly(u, role, tier) ==
  [users[u] EXCEPT !.role = role, !.tier = tier, !.tv = IF tier # users[u].tier THEN @ + 1 ELSE @]
\* Mutant: the version starts again.
PatchedAnew(u, role, tier) == [users[u] EXCEPT !.role = role, !.tier = tier, !.tv = 0]
\* admin_patch_user, admin_patch_role and admin_patch_tier: role or tier, and a version on,
\* in one statement.  The first returns a new token to an administrator who changes himself.
Patched(u, role, tier) == [users[u] EXCEPT !.role = role, !.tier = tier, !.tv = @ + 1]

admin_patch_user(c, u, role, tier, returns) ==
  /\ Under(c, "patch", "start")
  /\ ~(SelfGuard /\ u = req[c].sub)
  /\ users[u] # None /\ users[u].tv < MaxVersion
  /\ users' = [users EXCEPT ![u] = Patched(u, role, tier)]
  /\ held' = IF returns /\ u = req[c].sub
             THEN [held EXCEPT ![c] = [sub |-> u, role |-> role, tier |-> tier,
                                       tv |-> users[u].tv + 1]]
             ELSE held
  /\ req' = [req EXCEPT ![c] = None]
  /\ UNCHANGED <<born, venue, data, sess, logins, pwAge, clean, requests, faults>>

\* post_manager_venues: 9999 venues are never reached.
post_manager_venues(c, v) ==
  /\ Under(c, "venue", "start") /\ v \notin born
  /\ venue' = [venue EXCEPT ![v] = req[c].sub] /\ born' = born \cup {v}
  /\ req' = [req EXCEPT ![c] = None]
  /\ UNCHANGED <<users, data, held, sess, logins, pwAge, clean, requests, faults>>

\* delete_manager_venue checks whose venue it is, then deletes it.
delete_manager_venue(c, v) ==
  /\ Under(c, "venue", "start") /\ venue[v] = req[c].sub
  /\ req' = [req EXCEPT ![c].step = "cascade", ![c].todo = {v}]
  /\ UNCHANGED <<users, born, venue, data, held, sess, logins, pwAge, clean, requests, faults>>

\* admin_patch_venue_manager checks the role of the new manager, then changes the venue.
admin_patch_venue_manager(c, u) ==
  /\ Under(c, "patch", "start") /\ users[u] # None /\ users[u].role = "venue_manager"
  /\ req' = [Overlapped(u) EXCEPT ![c].step = "reassign", ![c].to = u]
  /\ UNCHANGED <<users, born, venue, data, held, sess, logins, pwAge, clean, requests, faults>>
Reassign(c, v) ==
  /\ Under(c, "patch", "reassign") /\ venue[v] # None
  /\ venue' = [venue EXCEPT ![v] = req[c].to]
  /\ req' = [req EXCEPT ![c] = None]
  /\ UNCHANGED <<users, born, data, held, sess, logins, pwAge, clean, requests, faults>>

\* delete_me: a manager's venues are looked up, where a cursor that breaks off counts as
\* there being none, and deleted one by one.
DeleteVenues(c, breaks) ==
  /\ Under(c, "delete", "start")
  /\ breaks => faults < MaxFaults /\ req[c].role = "venue_manager"
  /\ req' = [req EXCEPT
       ![c].step = "cascade", ![c].ok = ~breaks,
       ![c].todo = ToDelete \cup
         {v \in Venues : req[c].role = "venue_manager" /\ venue[v] = req[c].sub /\ ~breaks}]
  /\ faults' = IF breaks THEN faults + 1 ELSE faults
  /\ UNCHANGED <<users, born, venue, data, held, sess, logins, pwAge, clean, requests>>

\* Errors are ignored.
cascade_delete_venue(c, v, fails) ==
  /\ Under(c, "venue", "cascade") \/ Under(c, "delete", "cascade")
  /\ v \in req[c].todo
  /\ fails => faults < MaxFaults
  /\ venue' = IF fails THEN venue ELSE [venue EXCEPT ![v] = None]
  /\ req' = IF req[c].op = "venue" THEN [req EXCEPT ![c] = None]
            ELSE [req EXCEPT ![c].todo = @ \ {v}, ![c].ok = @ /\ ~fails]
  /\ faults' = IF fails THEN faults + 1 ELSE faults
  /\ UNCHANGED <<users, born, data, held, sess, logins, pwAge, clean, requests>>

\* What a deletion leaves: delete_many takes all, but delete_one just one of two locations.
Left(u, k) == data[u] \ {IF k = "locations" /\ k \notin data[u] THEN "surplus" ELSE k}

\* Then four deletions at once, of which each may fail.
delete_me(c, k, fails) ==
  /\ Under(c, "delete", "cascade") /\ k \in req[c].todo /\ req[c].todo \cap Venues = {}
  /\ fails => faults < MaxFaults
  /\ LET u == req[c].sub IN
     /\ users' = IF k = "users" /\ ~fails THEN [users EXCEPT ![u] = None] ELSE users
     /\ data' = IF fails THEN data ELSE [data EXCEPT ![u] = Left(u, k)]
  /\ req' = [req EXCEPT ![c].todo = @ \ {k}, ![c].ok = @ /\ ~fails]
  /\ faults' = IF fails THEN faults + 1 ELSE faults
  /\ UNCHANGED <<born, venue, held, sess, logins, pwAge, clean, requests>>

\* A handler ends early: an error, nothing found, a client that goes away.
Fails(c) ==
  /\ req[c] # None
  /\ req' = [req EXCEPT ![c] = None]
  /\ UNCHANGED <<users, born, venue, data, held, sess, logins, pwAge, clean, requests, faults>>

DeleteAnswer(c) ==
  /\ Under(c, "delete", "cascade") /\ req[c].todo = {}
  /\ clean' = IF req[c].ok /\ req[c].alone THEN clean \cup {<<req[c].sub, req[c].role>>}
              ELSE clean
  /\ req' = [req EXCEPT ![c] = None]
  /\ UNCHANGED <<users, born, venue, data, held, sess, logins, pwAge, requests, faults>>

(***************************************************************************)
(* Restart of authority-service, and time.                                 *)
(***************************************************************************)
\* Mutant: the version stays.
PromotedOnly ==
  [users[Bootstrap] EXCEPT !.role = "admin"]
\* What bootstrap_admin makes of the account.
Promoted ==
  [users[Bootstrap] EXCEPT !.role = "admin", !.tv = @ + 1]

\* Login sessions and logins under way are lost; bootstrap_admin runs.  It takes a failed
\* query for there being no administrator, and a failed update for done.
Restart ==
  /\ faults < MaxFaults
  /\ sess' = [s \in Sessions |-> None]
  /\ req' = [c \in Clients |-> IF req[c] # None /\ req[c].op = "login" THEN None ELSE req[c]]
  /\ \/ /\ users[Bootstrap] # None /\ users[Bootstrap].tv < MaxVersion
        /\ users' = [users EXCEPT ![Bootstrap] = Promoted]
     \/ UNCHANGED users
  /\ faults' = faults + 1
  /\ UNCHANGED <<born, venue, data, held, logins, pwAge, clean, requests>>

Tick ==
  /\ sess' = [s \in Sessions |-> IF sess[s] # None /\ sess[s].age < SessionTTL
                                 THEN [sess[s] EXCEPT !.age = @ + 1] ELSE sess[s]]
  /\ pwAge' = [u \in Users |-> IF pwAge[u] < SessionTTL THEN pwAge[u] + 1 ELSE pwAge[u]]
  /\ UNCHANGED <<users, born, venue, data, held, req, logins, clean, requests, faults>>

Next ==
  \/ \E c \in Clients, u \in Users :
       \/ \E p \in Passwords : auth_register_finish(c, u, p)
       \/ \E role \in Roles, tier \in Tiers, returns \in BOOLEAN :
            admin_patch_user(c, u, role, tier, returns)
       \/ admin_patch_venue_manager(c, u)
  \/ \E s \in Sessions :
       \/ \E u \in Users : auth_login_start(s, u)
       \/ \E c \in Clients, u \in Users, p \in Passwords : LoginTake(c, s, u, p)
  \/ \E c \in Clients :
       \/ LoginIssue(c) \/ PasswordToken(c) \/ DeleteAnswer(c) \/ Fails(c)
       \/ \E op \in Operations : Arrive(c, op)
       \/ \E k \in Collections : Write(c, k)
       \/ \E d \in Clients : WriteTwice(c, d)
       \/ \E p \in Passwords, raw \in BOOLEAN : users_me_password_finish(c, p, raw)
       \/ \E v \in Venues : post_manager_venues(c, v) \/ delete_manager_venue(c, v) \/ Reassign(c, v)
       \/ \E fails \in BOOLEAN :
            \/ DeleteVenues(c, fails) \/ \E v \in Venues : cascade_delete_venue(c, v, fails)
            \/ \E k \in ToDelete : delete_me(c, k, fails)
  \/ Restart \/ Tick

Spec == Init /\ [][Next]_vars

(***************************************************************************)
(* Properties.                                                             *)
(***************************************************************************)
\* Types: no token is issued with a role, tier or version that accounts do not have.
TypeOK ==
  /\ users \in [Users -> Account \cup {None}] /\ born \in SUBSET (Users \cup Venues)
  /\ venue \in [Venues -> Users \cup {None}]
  /\ data \in [Users -> SUBSET Collections] /\ held \in [Clients -> Token \cup {None}]
  /\ req \in [Clients -> Request \cup Login \cup {None}]
  /\ sess \in [Sessions -> Session \cup {None}] /\ logins \in [Sessions -> Nat]
  /\ pwAge \in [Users -> 0 .. SessionTTL] /\ clean \subseteq Users \X Roles
  /\ requests \in 0 .. MaxRequests /\ faults \in 0 .. MaxFaults

\* A token that is accepted has the account's role and its tier (or what login makes of
\* it), however registration, logins, changes of password and of role interleave.
TokenTellsTruth ==
  \A c \in Clients : held[c] # None /\ Accepted(held[c]) =>
    /\ held[c].role = users[held[c].sub].role
    /\ held[c].tier \in {users[held[c].sub].tier, sanitize_tier(users[held[c].sub].tier)}

\* A token that was revoked is never accepted again, nor that of a deleted account.
RevokedForGood ==
  [][\A c \in Clients :
       (held[c] # None /\ held'[c] = held[c] /\ ~Accepted(held[c])) => ~Accepted(held[c])']_vars

\* The administrator check of authority-service refuses what the other services refuse,
\* deleted administrators included: nobody becomes one without a change of version.
AdminChecksAgree ==
  \A c \in Clients :
    held[c] # None /\ held[c].role = "admin" => (check_admin_tv(held[c]) <=> Accepted(held[c]))

\* Whoever logs in has given the password of the account the login was started for, or one
\* it had until less than LOGIN_SESSION_TTL ago.  (Nothing ties the account that the token
\* is then for, which the second request names, to that one.)
LoginProof ==
  [][\A c \in Clients, s \in Sessions :
       req[c] = None /\ req'[c] # None /\ req'[c].op = "login" /\ logins'[s] # logins[s] =>
         LET u == sess[s].sub
         IN  users[u] = None \/ users[u].pw = req'[c].pw \/ pwAge[u] < SessionTTL]_vars

\* A session logs in once, whatever is retried.
LoginOnce == \A s \in Sessions : logins[s] <= 1

\* Once an account was deleted by a request that overlapped no other about its user, nothing
\* of it is or comes back in the database but what deletions keep and the second of two
\* locations, had overlapping upserts left two; and no venue has it as manager if it was one
\* to the end: whoever was demoted leaves venues behind.
DeletedForGood ==
  \A d \in clean : /\ users[d[1]] = None /\ data[d[1]] \subseteq Kept \cup {"surplus"}
                   /\ d[2] = "venue_manager" => \A v \in Venues : venue[v] # d[1]

=============================================================================
