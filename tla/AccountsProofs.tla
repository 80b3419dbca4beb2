--------------------------- MODULE AccountsProofs ---------------------------
(***************************************************************************)
(* Tokens, logins and deletions, for any number of accounts, clients,      *)
(* sessions, requests and failures.                                        *)
(***************************************************************************)
EXTENDS Accounts, TLAPS

\* Only ids that have been used have accounts and tokens, and nobody is an administrator
\* by registration.
AccountsInv ==
  /\ \A u \in Users : users[u] # None =>
       u \in born /\ (users[u].role = "admin" => users[u].tv > 0)
  /\ \A c \in Clients : held[c] # None =>
       held[c].sub \in born /\ (held[c].role = "admin" => held[c].tv > 0)

\* A token is no newer than its account, and one of the account's version tells the truth.
TokenInv ==
  \A c \in Clients : held[c] # None /\ users[held[c].sub] # None =>
    LET a == users[held[c].sub] IN
    /\ held[c].tv <= a.tv
    /\ held[c].tv = a.tv => held[c].role = a.role /\ held[c].tier \in {a.tier, sanitize_tier(a.tier)}

\* A session that can still log in has the account's password, or the password was changed
\* after the session began.
SessionInv ==
  \A s \in Sessions : sess[s] # None =>
    LET u == sess[s].sub IN
    /\ logins[s] = 0
    /\ sess[s].pw # None => u \in born
    /\ \/ sess[s].pw = None \/ users[u] = None
       \/ users[u].pw = sess[s].pw \/ pwAge[u] <= sess[s].age

Deleting(c) == Under(c, "delete", "cascade")

\* A request that overlapped no other is the only one about its user; what such a deletion
\* has not still to do is done, unless something failed; and once it is done nothing is
\* under way that could undo it.
DeletionInv ==
  /\ \A c \in Clients : req[c] # None /\ req[c].op # "login" =>
       /\ req[c].sub \in born
       /\ req[c].alone => InFlight(req[c].sub) = {c}
  /\ \A c \in Clients : Deleting(c) /\ req[c].ok /\ req[c].alone =>
       LET u == req[c].sub IN
       /\ data[u] \subseteq req[c].todo \cup Kept \cup {"surplus"}
       /\ "users" \notin req[c].todo => users[u] = None
       /\ req[c].role = "venue_manager" => \A v \in Venues : venue[v] = u => v \in req[c].todo
  /\ \A d \in clean : d[1] \in born /\ InFlight(d[1]) = {}
----------------------------------------------------------------------------
(* Types *)

USE AccountsAssumption, NoneAssumption

LEMMA TypeInit == Init => TypeOK
<1> SUFFICES ASSUME Init PROVE TypeOK
  OBVIOUS
<1>1. users \in [Users -> Account \cup {None}] /\ held \in [Clients -> Token \cup {None}]
  <2>1. CASE users = [u \in Users |-> None] /\ held = [c \in Clients |-> None]
    BY <2>1
  <2>2. CASE \E p \in Passwords : /\ users = Established(p)
                                  /\ held \in [Clients -> {issue_user_token(u, "regular") : u \in Users}]
    <3>1. PICK p \in Passwords : users = Established(p)
      BY <2>2
    <3>2. \A u \in Users : users[u] \in Account
      <4>1. 1 \in 0 .. MaxVersion
        OBVIOUS
      <4>2. QED BY <3>1, <4>1 DEF Established, Account, Roles, Tiers
    <3>3. users \in [Users -> Account \cup {None}]
      BY <3>1, <3>2 DEF Established
    <3>4. \A u \in Users : issue_user_token(u, "regular") \in Token
      BY <3>2 DEF issue_user_token, Account, Token, Tiers
    <3>5. QED BY <2>2, <3>3, <3>4
  <2>3. QED BY <2>1, <2>2 DEF Init
<1>2. born \in SUBSET (Users \cup Venues) /\ venue \in [Venues -> Users \cup {None}]
  BY DEF Init
<1>3. QED BY <1>1, <1>2 DEF Init, TypeOK, Collections

\* A handler under way has a request, not a login.
LEMMA UnderRequest ==
  ASSUME TypeOK, NEW c \in Clients, req[c] # None, req[c].op # "login"
  PROVE  req[c] \in Request
BY DEF TypeOK, Login

LEMMA OverlappedType ==
  ASSUME TypeOK, NEW u \in Users
  PROVE  Overlapped(u) \in [Clients -> Request \cup Login \cup {None}]
<1>1. ASSUME NEW c \in Clients, c \in InFlight(u)
      PROVE  [req[c] EXCEPT !.alone = FALSE] \in Request
  BY <1>1, UnderRequest DEF InFlight, Request
<1>2. QED BY <1>1 DEF Overlapped, TypeOK

LEMMA TypeStep == TypeOK /\ [Next]_vars => TypeOK'
<1> SUFFICES ASSUME TypeOK, [Next]_vars PROVE TypeOK'
  OBVIOUS
<1> USE DEF TypeOK
<1>1. ASSUME NEW c \in Clients, NEW u \in Users, NEW p \in Passwords, auth_register_finish(c, u, p)
      PROVE  TypeOK'
  <2>1. [role |-> "user", tier |-> "regular", tv |-> 0, pw |-> p, key |-> "email"] \in Account
    BY DEF Account, Roles, Tiers
  <2>2. [sub |-> u, role |-> "user", tier |-> "regular", tv |-> 0] \in Token
    BY DEF Token, Roles, Tiers
  <2>3. QED BY <1>1, <2>1, <2>2 DEF auth_register_finish
<1>2. ASSUME NEW s \in Sessions, NEW u \in Users, auth_login_start(s, u)
      PROVE  TypeOK'
  <2>1. Retain \in [Sessions -> Session \cup {None}]
    BY DEF Retain
  <2>2. [sub |-> u, age |-> 0,
         pw |-> IF users[u] # None /\ users[u].key = "email" THEN users[u].pw ELSE None] \in Session
    BY DEF Session, Account
  <2>3. QED BY <1>2, <2>1, <2>2 DEF auth_login_start
<1>3. ASSUME NEW s \in Sessions, NEW c \in Clients, NEW u \in Users, NEW p \in Passwords,
             LoginTake(c, s, u, p)
      PROVE  TypeOK'
  <2>1. Retain \in [Sessions -> Session \cup {None}] /\ Retain[s] = sess[s] /\ sess[s] # None
    BY <1>3 DEF Retain, LoginTake
  <2>2. [op |-> "login", sub |-> u, pw |-> p] \in Login
    BY DEF Login
  <2>3. QED BY <1>3, <2>1, <2>2 DEF LoginTake, Taken
<1>4. ASSUME NEW c \in Clients, LoginIssue(c)
      PROVE  TypeOK'
  <2>1. req[c] \in Login
    BY <1>4 DEF LoginIssue, Request, Operations
  <2>2. users[req[c].sub] # None => 
          issue_user_token(req[c].sub, sanitize_tier(users[req[c].sub].tier)) \in Token
    BY <2>1 DEF Login, issue_user_token, sanitize_tier, Account, Token, Tiers
  <2>3. QED BY <1>4, <2>1, <2>2 DEF LoginIssue
<1>5. ASSUME NEW c \in Clients, PasswordToken(c)
      PROVE  TypeOK'
  <2>1. req[c] \in Request
    BY <1>5, UnderRequest DEF PasswordToken, Under
  <2>2. users[req[c].sub] # None => issue_user_token(req[c].sub, users[req[c].sub].tier) \in Token
    BY <2>1 DEF Request, issue_user_token, Account, Token
  <2>3. QED BY <1>5, <2>1, <2>2 DEF PasswordToken
<1>6. ASSUME NEW c \in Clients, DeleteAnswer(c)
      PROVE  TypeOK'
  <2>1. req[c] \in Request
    BY <1>6, UnderRequest DEF DeleteAnswer, Under
  <2>2. <<req[c].sub, req[c].role>> \in Users \X Roles
    BY <2>1 DEF Request
  <2>3. QED BY <1>6, <2>2 DEF DeleteAnswer
<1>7. ASSUME NEW c \in Clients, Fails(c)
      PROVE  TypeOK'
  BY <1>7 DEF Fails
<1>8. ASSUME NEW c \in Clients, NEW op \in Operations, Arrive(c, op)
      PROVE  TypeOK'
  <2>1. held[c] \in Token
    BY <1>8 DEF Arrive
  <2>2. Overlapped(held[c].sub) \in [Clients -> Request \cup Login \cup {None}]
    BY <2>1, OverlappedType DEF Token
  <2>3. [op |-> op, sub |-> held[c].sub, role |-> held[c].role, step |-> "start", to |-> None,
         todo |-> {}, ok |-> TRUE, alone |-> InFlight(held[c].sub) = {}] \in Request
    BY <2>1 DEF Token, Request
  <2>4. QED BY <1>8, <2>2, <2>3 DEF Arrive
<1>9. ASSUME NEW c \in Clients, NEW k \in Collections, Write(c, k)
      PROVE  TypeOK'
  <2>1. req[c].sub \in Users
    BY <1>9, UnderRequest DEF Write, Under, Request
  <2>2. QED BY <1>9, <2>1 DEF Write
<1>9a. ASSUME NEW c \in Clients, NEW d \in Clients, WriteTwice(c, d)
       PROVE  TypeOK'
  <2>1. req[c].sub \in Users
    BY <1>9a, UnderRequest DEF WriteTwice, Under, Request
  <2>2. data[req[c].sub] \cup {"locations", "surplus"} \in SUBSET Collections
    BY <2>1 DEF Collections
  <2>3. QED BY <1>9a, <2>1, <2>2 DEF WriteTwice
<1>10. ASSUME NEW c \in Clients, NEW p \in Passwords, NEW raw \in BOOLEAN,
              users_me_password_finish(c, p, raw)
       PROVE  TypeOK'
  <2>1. req[c] \in Request
    BY <1>10, UnderRequest DEF users_me_password_finish, Under
  <2>2. [req[c] EXCEPT !.step = "reread"] \in Request
    BY <2>1 DEF Request
  <2> DEFINE u == req[c].sub
  <2>3. ASSUME users[u] # None
        PROVE  [users[u] EXCEPT !.pw = p, !.tv = @ + 1, !.key = PasswordKey(@, raw)] \in Account
    BY <1>10, <2>1, <2>3 DEF users_me_password_finish, Account, PasswordKey, Request
  <2>4. users' \in [Users -> Account \cup {None}]
    BY <1>10, <2>1, <2>3 DEF users_me_password_finish, Request
  <2>5. pwAge' \in [Users -> 0 .. SessionTTL]
    BY <1>10, <2>1 DEF users_me_password_finish, Request
  <2>6. QED BY <1>10, <2>2, <2>4, <2>5 DEF users_me_password_finish
<1>11. ASSUME NEW c \in Clients, NEW u \in Users, NEW role \in Roles, NEW tier \in Tiers,
              NEW returns \in BOOLEAN, admin_patch_user(c, u, role, tier, returns)
       PROVE  TypeOK'
  <2>1. users[u] \in Account /\ users[u].tv + 1 \in 0 .. MaxVersion
    BY <1>11 DEF admin_patch_user, Account
  <2>2. Patched(u, role, tier) \in Account
    BY <2>1 DEF Patched, Account
  <2>3. [sub |-> u, role |-> role, tier |-> tier, tv |-> users[u].tv + 1] \in Token
    BY <2>1 DEF Token
  <2>4. QED BY <1>11, <2>2, <2>3 DEF admin_patch_user
<1>12. ASSUME NEW c \in Clients, NEW u \in Users, admin_patch_venue_manager(c, u)
       PROVE  TypeOK'
  <2>1. Overlapped(u)[c] \in Request
    <3>1. req[c] \in Request
      BY <1>12, UnderRequest DEF admin_patch_venue_manager, Under
    <3>2. [req[c] EXCEPT !.alone = FALSE] \in Request
      BY <3>1 DEF Request
    <3>3. QED BY <3>1, <3>2 DEF Overlapped
  <2>2. [Overlapped(u)[c] EXCEPT !.step = "reassign", !.to = u] \in Request
    BY <2>1 DEF Request
  <2> DEFINE o == Overlapped(u)
  <2>3. o \in [Clients -> Request \cup Login \cup {None}]
    BY OverlappedType
  <2>4. req' = [o EXCEPT ![c].step = "reassign", ![c].to = u]
    BY <1>12 DEF admin_patch_venue_manager
  <2>5. [o[c] EXCEPT !.step = "reassign", !.to = u] \in Request
    BY <2>2
  <2>6. HIDE DEF o
  <2>7. req' \in [Clients -> Request \cup Login \cup {None}]
    BY <2>3, <2>4, <2>5
  <2>8. QED BY <1>12, <2>7 DEF admin_patch_venue_manager
<1>13. ASSUME NEW c \in Clients, NEW v \in Venues, post_manager_venues(c, v)
       PROVE  TypeOK'
  <2>1. req[c].sub \in Users
    BY <1>13, UnderRequest DEF post_manager_venues, Under, Request
  <2>2. QED BY <1>13, <2>1 DEF post_manager_venues
<1>14. ASSUME NEW c \in Clients, NEW v \in Venues, delete_manager_venue(c, v)
       PROVE  TypeOK'
  <2>1. [req[c] EXCEPT !.step = "cascade", !.todo = {v}] \in Request
    BY <1>14, UnderRequest DEF delete_manager_venue, Under, Request
  <2>2. QED BY <1>14, <2>1 DEF delete_manager_venue
<1>15. ASSUME NEW c \in Clients, NEW v \in Venues, Reassign(c, v)
       PROVE  TypeOK'
  <2>1. req[c].to \in Users \cup {None}
    BY <1>15, UnderRequest DEF Reassign, Under, Request
  <2>2. QED BY <1>15, <2>1 DEF Reassign
<1>16. ASSUME NEW c \in Clients, NEW breaks \in BOOLEAN, DeleteVenues(c, breaks)
       PROVE  TypeOK'
  <2>1. req[c] \in Request
    BY <1>16, UnderRequest DEF DeleteVenues, Under
  <2>2. \A todo \in SUBSET (ToDelete \cup Venues), ok \in BOOLEAN :
          [req[c] EXCEPT !.step = "cascade", !.ok = ok, !.todo = todo] \in Request
    BY <2>1 DEF Request
  <2>3. req' \in [Clients -> Request \cup Login \cup {None}]
    BY <1>16, <2>2 DEF DeleteVenues
  <2>4. QED BY <1>16, <2>3 DEF DeleteVenues
<1>17. ASSUME NEW c \in Clients, NEW v \in Venues, NEW fails \in BOOLEAN,
              cascade_delete_venue(c, v, fails)
       PROVE  TypeOK'
  <2>1. req[c] \in Request
    BY <1>17, UnderRequest DEF cascade_delete_venue, Under
  <2>2. [req[c] EXCEPT !.todo = @ \ {v}, !.ok = @ /\ ~fails] \in Request
    BY <2>1 DEF Request
  <2>3. req' \in [Clients -> Request \cup Login \cup {None}]
    BY <1>17, <2>2 DEF cascade_delete_venue
  <2>4. faults' \in 0 .. MaxFaults /\ venue' \in [Venues -> Users \cup {None}]
    BY <1>17 DEF cascade_delete_venue
  <2>5. QED BY <1>17, <2>3, <2>4 DEF cascade_delete_venue
<1>18. ASSUME NEW c \in Clients, NEW k \in ToDelete, NEW fails \in BOOLEAN,
              delete_me(c, k, fails)
       PROVE  TypeOK'
  <2>1. req[c] \in Request /\ req[c].sub \in Users
    BY <1>18, UnderRequest DEF delete_me, Under, Request
  <2>2. [req[c] EXCEPT !.todo = @ \ {k}, !.ok = @ /\ ~fails] \in Request
    BY <2>1 DEF Request
  <2>3. req' \in [Clients -> Request \cup Login \cup {None}]
    BY <1>18, <2>2 DEF delete_me
  <2>4. faults' \in 0 .. MaxFaults /\ users' \in [Users -> Account \cup {None}]
        /\ data' \in [Users -> SUBSET Collections]
    BY <1>18, <2>1 DEF delete_me, Left
  <2>5. QED BY <1>18, <2>3, <2>4 DEF delete_me
<1>19. ASSUME Restart
       PROVE  TypeOK'
  <2>1. users[Bootstrap] # None /\ users[Bootstrap].tv < MaxVersion => Promoted \in Account
    <3>1. ASSUME users[Bootstrap] # None, users[Bootstrap].tv < MaxVersion
          PROVE  users[Bootstrap] \in Account /\ users[Bootstrap].tv + 1 \in 0 .. MaxVersion
      BY <3>1 DEF Account
    <3>2. QED BY <3>1 DEF Promoted, Account, Roles
  <2>2. QED BY <1>19, <2>1 DEF Restart
<1>20. ASSUME Tick
       PROVE  TypeOK'
  <2>1. \A s \in Sessions : sess[s] # None /\ sess[s].age < SessionTTL =>
                              [sess[s] EXCEPT !.age = @ + 1] \in Session
    BY DEF Session
  <2>2. QED BY <1>20, <2>1 DEF Tick
<1>21. CASE UNCHANGED vars
  BY <1>21 DEF vars
<1>22. QED
  BY <1>1, <1>2, <1>3, <1>4, <1>5, <1>6, <1>7, <1>8, <1>9, <1>9a, <1>10, <1>11, <1>12, <1>13, <1>14,
     <1>15, <1>16, <1>17, <1>18, <1>19, <1>20, <1>21 DEF Next

\* THEOREM. Every document, token, session and request is of its type, in particular no
\* token is issued with a role, tier or version that accounts do not have.
THEOREM TypeCorrect == Spec => []TypeOK
BY TypeInit, TypeStep, PTL DEF Spec

----------------------------------------------------------------------------
(* Tokens *)

\* The steps that touch accounts, ids or tokens.
LEMMA AccountSteps ==
  ASSUME [Next]_vars
  PROVE  \/ \E c \in Clients, u \in Users, p \in Passwords : auth_register_finish(c, u, p)
         \/ \E c \in Clients, u \in Users, role \in Roles, tier \in Tiers, returns \in BOOLEAN :
              admin_patch_user(c, u, role, tier, returns)
         \/ \E c \in Clients, p \in Passwords, raw \in BOOLEAN : users_me_password_finish(c, p, raw)
         \/ \E c \in Clients, k \in ToDelete, fails \in BOOLEAN :
              delete_me(c, k, fails)
         \/ \E c \in Clients, v \in Venues : post_manager_venues(c, v)
         \/ \E c \in Clients : LoginIssue(c) \/ PasswordToken(c)
         \/ Restart
         \/ UNCHANGED <<users, born, held>>
<1>1. CASE UNCHANGED vars
  BY <1>1 DEF vars
<1>2. ASSUME NEW c \in Clients, NEW u \in Users, admin_patch_venue_manager(c, u)
      PROVE  UNCHANGED <<users, born, held>>
  BY <1>2 DEF admin_patch_venue_manager
<1>3. ASSUME NEW s \in Sessions, \/ \E u \in Users : auth_login_start(s, u)
                                 \/ \E c \in Clients, u \in Users, p \in Passwords : LoginTake(c, s, u, p)
      PROVE  UNCHANGED <<users, born, held>>
  BY <1>3 DEF auth_login_start, LoginTake
<1>4. ASSUME NEW c \in Clients, \/ DeleteAnswer(c) \/ Fails(c)
                                \/ \E op \in Operations : Arrive(c, op)
                                \/ \E k \in Collections : Write(c, k)
                                \/ \E e \in Clients : WriteTwice(c, e)
      PROVE  UNCHANGED <<users, born, held>>
  BY <1>4 DEF DeleteAnswer, Fails, Arrive, Write, WriteTwice
<1>5. ASSUME NEW c \in Clients, NEW v \in Venues, delete_manager_venue(c, v) \/ Reassign(c, v)
      PROVE  UNCHANGED <<users, born, held>>
  BY <1>5 DEF delete_manager_venue, Reassign
<1>6. ASSUME NEW c \in Clients, NEW fails \in BOOLEAN,
             DeleteVenues(c, fails) \/ \E v \in Venues : cascade_delete_venue(c, v, fails)
      PROVE  UNCHANGED <<users, born, held>>
  BY <1>6 DEF DeleteVenues, cascade_delete_venue
<1>7. CASE Tick
  BY <1>7 DEF Tick
<1>8. QED BY <1>1, <1>2, <1>3, <1>4, <1>5, <1>6, <1>7 DEF Next

\* What a step may do to an account: its version never goes down, any change of role or tier
\* takes it up, and an id that was used and has no account gets none.
Grows(u) ==
  /\ users[u] # None /\ users'[u] # None =>
       /\ users'[u].tv >= users[u].tv
       /\ users'[u].tv = users[u].tv => users'[u].role = users[u].role /\ users'[u].tier = users[u].tier
  /\ users[u] = None /\ users'[u] # None => u \notin born
  /\ users'[u] # None => u \in born' /\ (users'[u].role = "admin" => users'[u].tv > 0)

LEMMA BornGrows ==
  ASSUME [Next]_vars
  PROVE  born \subseteq born'
BY AccountSteps DEF auth_register_finish, admin_patch_user, users_me_password_finish, delete_me,
   post_manager_venues, LoginIssue, PasswordToken, Restart

LEMMA AccountGrows ==
  ASSUME TypeOK, AccountsInv, [Next]_vars, NEW w \in Users
  PROVE  Grows(w)
<1>0. /\ users \in [Users -> Account \cup {None}]
      /\ \A u \in Users : users[u] # None => users[u].tv \in Nat
      /\ users[w] # None => w \in born /\ (users[w].role = "admin" => users[w].tv > 0)
  BY DEF TypeOK, Account, AccountsInv
<1>1. ASSUME NEW c \in Clients, NEW u \in Users, NEW p \in Passwords, auth_register_finish(c, u, p)
      PROVE  Grows(w)
  <2>1. u \notin born /\ users[u] = None
    BY <1>1 DEF auth_register_finish, AccountsInv
  <2>2. QED BY <1>0, <1>1, <2>1 DEF auth_register_finish, Grows
<1>2. ASSUME NEW c \in Clients, NEW u \in Users, NEW role \in Roles, NEW tier \in Tiers,
             NEW returns \in BOOLEAN, admin_patch_user(c, u, role, tier, returns)
      PROVE  Grows(w)
  <2>1. users[u] \in Account
    BY <1>0, <1>2 DEF admin_patch_user
  <2>2. Patched(u, role, tier).tv = users[u].tv + 1
    BY <2>1 DEF Patched, Account
  <2>3. CASE w = u
    BY <1>0, <1>2, <2>1, <2>2, <2>3 DEF admin_patch_user, Grows
  <2>4. CASE w # u
    BY <1>0, <1>2, <2>4 DEF admin_patch_user, Grows
  <2>5. QED BY <2>3, <2>4
<1>3. ASSUME NEW c \in Clients, NEW p \in Passwords, NEW raw \in BOOLEAN,
             users_me_password_finish(c, p, raw)
      PROVE  Grows(w)
  <2> DEFINE u == req[c].sub
             a == [users[u] EXCEPT !.pw = p, !.tv = @ + 1, !.key = PasswordKey(@, raw)]
  <2>1. u \in Users
    BY <1>3, UnderRequest DEF users_me_password_finish, Under, Request
  <2>2. CASE users[u] = None \/ w # u
    <3>1. users'[w] = users[w] /\ born' = born
      BY <1>0, <1>3, <2>1, <2>2 DEF users_me_password_finish
    <3>2. QED BY <1>0, <3>1 DEF Grows
  <2>3. CASE users[u] # None /\ w = u
    <3>1. users[u] \in Account
      BY <1>0, <2>1, <2>3
    <3>2. a.tv = users[u].tv + 1
      BY <3>1 DEF Account
    <3>3. users'[w] = a /\ born' = born
      BY <1>0, <1>3, <2>1, <2>3 DEF users_me_password_finish
    <3>4. QED BY <1>0, <2>1, <2>3, <3>2, <3>3 DEF Grows
  <2>4. QED BY <2>2, <2>3
<1>4. ASSUME NEW c \in Clients, NEW k \in ToDelete, NEW fails \in BOOLEAN,
             delete_me(c, k, fails)
      PROVE  Grows(w)
  <2>1. users' = users \/ users' = [users EXCEPT ![req[c].sub] = None]
    BY <1>4 DEF delete_me
  <2>2. users'[w] \in {users[w], None} /\ born' = born
    BY <1>0, <1>4, <2>1 DEF delete_me
  <2>3. QED BY <1>0, <2>2 DEF Grows
<1>5. CASE Restart
  <2>1. CASE UNCHANGED users \/ w # Bootstrap
    <3>1. users'[w] = users[w] /\ born' = born
      BY <1>0, <1>5, <2>1 DEF Restart
    <3>2. QED BY <1>0, <3>1 DEF Grows
  <2>2. CASE users[Bootstrap] # None /\ users' = [users EXCEPT ![Bootstrap] = Promoted] /\ w = Bootstrap
    <3>1. users[Bootstrap] \in Account
      BY <1>0, <2>2
    <3>2. Promoted.tv = users[Bootstrap].tv + 1
      BY <3>1 DEF Promoted, Account
    <3>3. users'[w] = Promoted /\ born' = born
      BY <1>0, <1>5, <2>2 DEF Restart
    <3>4. QED BY <1>0, <2>2, <3>2, <3>3 DEF Grows
  <2>3. QED BY <1>5, <2>1, <2>2 DEF Restart
<1>6. CASE UNCHANGED users /\ born \subseteq born'
  BY <1>0, <1>6 DEF Grows
<1>7. QED
  BY <1>1, <1>2, <1>3, <1>4, <1>5, <1>6, AccountSteps
  DEF post_manager_venues, LoginIssue, PasswordToken

\* A client's token is the one it had, or that of an account as it is after the step.
Issued(t) ==
  LET a == users[t.sub] IN
  /\ t # None /\ a # None /\ t.tv = a.tv /\ t.role = a.role
  /\ t.tier \in {a.tier, sanitize_tier(a.tier)}

LEMMA TokenIssued ==
  ASSUME TypeOK, [Next]_vars, NEW c \in Clients, held'[c] # held[c]
  PROVE  Issued(held[c])'
<1>0. TypeOK'
  BY TypeStep
<1>1. ASSUME NEW d \in Clients, NEW u \in Users, NEW p \in Passwords, auth_register_finish(d, u, p)
      PROVE  Issued(held[c])'
  <2> DEFINE a == [role |-> "user", tier |-> "regular", tv |-> 0, pw |-> p, key |-> "email"]
             t == [sub |-> u, role |-> "user", tier |-> "regular", tv |-> 0]
  <2>1. a \in Account /\ t \in Token
    BY DEF Account, Token, Roles, Tiers
  <2>2. held'[c] = t /\ users'[u] = a
    BY <1>1 DEF auth_register_finish, TypeOK
  <2>3. QED BY <2>1, <2>2 DEF Issued
<1>2. ASSUME NEW d \in Clients, NEW u \in Users, NEW role \in Roles, NEW tier \in Tiers,
             NEW returns \in BOOLEAN, admin_patch_user(d, u, role, tier, returns)
      PROVE  Issued(held[c])'
  <2> DEFINE t == [sub |-> u, role |-> role, tier |-> tier, tv |-> users[u].tv + 1]
             a == Patched(u, role, tier)
  <2>1. held'[c] = t /\ users'[u] = a
    BY <1>2 DEF admin_patch_user, TypeOK
  <2>2. users[u] \in Account
    BY <1>2 DEF admin_patch_user, TypeOK
  <2>3. a.role = role /\ a.tier = tier /\ a.tv = users[u].tv + 1 /\ a # None
    <3>1. users[u].tv + 1 \in 0 .. MaxVersion
      BY <1>2, <2>2 DEF admin_patch_user, Account
    <3>2. a \in Account
      BY <2>2, <3>1 DEF Patched, Account
    <3>3. QED BY <2>2, <3>2 DEF Patched, Account
  <2>4. t # None
    <3>1. users[u].tv + 1 \in 0 .. MaxVersion
      BY <1>2, <2>2 DEF admin_patch_user, Account
    <3>2. QED BY <3>1 DEF Token
  <2>5. QED BY <2>1, <2>3, <2>4 DEF Issued
<1>3. ASSUME NEW d \in Clients, LoginIssue(d)
      PROVE  Issued(held[c])'
  <2> DEFINE u == req[d].sub
  <2>1. held'[c] = issue_user_token(u, sanitize_tier(users[u].tier)) /\ users[u] # None /\ users' = users
    BY <1>3 DEF LoginIssue, TypeOK
  <2>2. held'[c] \in Token
    BY <1>0, <2>1, <1>3 DEF TypeOK, LoginIssue, Login, Request, Operations, issue_user_token,
       sanitize_tier, Account, Token, Tiers
  <2>3. QED BY <2>1, <2>2 DEF Issued, issue_user_token
<1>4. ASSUME NEW d \in Clients, PasswordToken(d)
      PROVE  Issued(held[c])'
  <2> DEFINE u == req[d].sub
  <2>1. held'[c] = issue_user_token(u, users[u].tier) /\ users[u] # None /\ users' = users
    BY <1>4 DEF PasswordToken, TypeOK
  <2>2. u \in Users
    BY <1>4, UnderRequest DEF PasswordToken, Under, Request
  <2>3. held'[c] \in Token
    BY <2>1, <2>2 DEF TypeOK, issue_user_token, Account, Token
  <2>4. QED BY <2>1, <2>3 DEF Issued, issue_user_token
<1>5. \A d \in Clients : /\ \A p \in Passwords, raw \in BOOLEAN : ~users_me_password_finish(d, p, raw)
                         /\ \A v \in Venues : ~post_manager_venues(d, v)
  BY DEF users_me_password_finish, post_manager_venues
<1>6. \A d \in Clients, k \in ToDelete, fails \in BOOLEAN : ~delete_me(d, k, fails)
  BY DEF delete_me
<1>7. ~Restart /\ ~UNCHANGED <<users, born, held>>
  BY DEF Restart
<1>8. QED BY <1>1, <1>2, <1>3, <1>4, <1>5, <1>6, <1>7, AccountSteps

LEMMA TokenInit == Init => AccountsInv /\ TokenInv
<1> SUFFICES ASSUME Init PROVE AccountsInv /\ TokenInv
  OBVIOUS
<1>1. CASE users = [u \in Users |-> None] /\ held = [c \in Clients |-> None]
  BY <1>1 DEF AccountsInv, TokenInv
<1>2. CASE \E p \in Passwords : /\ users = Established(p) /\ born = Users \cup Venues
                                /\ held \in [Clients -> {issue_user_token(u, "regular") : u \in Users}]
  <2>1. PICK p \in Passwords : users = Established(p)
    BY <1>2
  <2>2. \A u \in Users : users[u].tv = 1 /\ users[u].tier = "regular" /\ users[u].role # "user"
    BY <2>1 DEF Established
  <2>3. ASSUME NEW c \in Clients
        PROVE  \E u \in Users : held[c] = issue_user_token(u, "regular")
    BY <1>2
  <2>4. QED BY <1>2, <2>2, <2>3 DEF AccountsInv, TokenInv, issue_user_token
<1>3. QED BY <1>1, <1>2 DEF Init

LEMMA TokenStep == TypeOK /\ AccountsInv /\ TokenInv /\ [Next]_vars => AccountsInv' /\ TokenInv'
<1> SUFFICES ASSUME TypeOK, AccountsInv, TokenInv, [Next]_vars
             PROVE  AccountsInv' /\ TokenInv'
  OBVIOUS
<1>1. TypeOK' /\ born \subseteq born' /\ \A u \in Users : Grows(u)
  BY TypeStep, BornGrows, AccountGrows
<1>2. ASSUME NEW c \in Clients, held'[c] # None
      PROVE  /\ held'[c].sub \in born' /\ (held'[c].role = "admin" => held'[c].tv > 0)
             /\ users'[held'[c].sub] # None =>
                  LET a == users'[held'[c].sub] IN
                  /\ held'[c].tv <= a.tv
                  /\ held'[c].tv = a.tv => /\ held'[c].role = a.role
                                           /\ held'[c].tier \in {a.tier, sanitize_tier(a.tier)}
  <2> DEFINE u == held'[c].sub
  <2>1. u \in Users /\ held'[c].tv \in Nat
    BY <1>1, <1>2 DEF TypeOK, Token
  <2>2. Grows(u) /\ (users'[u] # None => users'[u].tv \in Nat) /\ (users[u] # None => users[u].tv \in Nat)
    BY <1>1, <2>1 DEF TypeOK, Account
  <2>3. CASE held'[c] # held[c]
    <3>1. Issued(held[c])'
      BY <2>3, TokenIssued
    <3>2. QED BY <2>1, <2>2, <3>1 DEF Issued, Grows
  <2>4. CASE held'[c] = held[c]
    <3>1. u \in born /\ (held[c].role = "admin" => held[c].tv > 0)
      BY <1>2, <2>4 DEF AccountsInv
    <3>2. users[u] # None => /\ held[c].tv <= users[u].tv
                             /\ held[c].tv = users[u].tv =>
                                  /\ held[c].role = users[u].role
                                  /\ held[c].tier \in {users[u].tier, sanitize_tier(users[u].tier)}
      BY <1>2, <2>4 DEF TokenInv
    <3>3. QED BY <1>1, <2>1, <2>2, <2>4, <3>1, <3>2 DEF Grows
  <2>5. QED BY <2>3, <2>4
<1>3. AccountsInv'
  BY <1>1, <1>2 DEF AccountsInv, Grows
<1>4. QED BY <1>2, <1>3 DEF TokenInv

LEMMA TokenInvariant == Spec => [](TypeOK /\ AccountsInv /\ TokenInv)
BY TypeInit, TypeStep, TokenInit, TokenStep, PTL DEF Spec

\* THEOREM. A token that is accepted has the account's role and tier, for any interleaving of
\* registration, logins, password changes, role and tier changes, deletions and restarts.
THEOREM TokensTellTheTruth == Spec => []TokenTellsTruth
<1>1. TypeOK /\ TokenInv => TokenTellsTruth
  BY DEF TokenInv, TokenTellsTruth, Accepted
<1>2. QED BY <1>1, TokenInvariant, PTL

\* THEOREM. check_admin_tv of authority-service and the extractors of the other services
\* agree on every administrator's token, although the first takes a missing account for one
\* of version 0.
THEOREM AdministratorChecksAgree == Spec => []AdminChecksAgree
<1>1. TypeOK /\ AccountsInv => AdminChecksAgree
  BY DEF TypeOK, AccountsInv, AdminChecksAgree, check_admin_tv, Accepted, Token
<1>2. QED BY <1>1, TokenInvariant, PTL

\* THEOREM. No step makes a token acceptable that was not: versions only grow, tokens are
\* never ahead of their account and ids are not used again.
THEOREM RevocationIsForGood == Spec => RevokedForGood
<1>1. ASSUME TypeOK, AccountsInv, TokenInv, [Next]_vars, NEW c \in Clients,
             held[c] # None, held'[c] = held[c], ~Accepted(held[c])
      PROVE  ~Accepted(held[c])'
  <2> DEFINE u == held[c].sub
  <2>1. u \in Users /\ u \in born /\ held[c].tv \in Nat
    BY <1>1 DEF TypeOK, Token, AccountsInv
  <2>2. Grows(u)
    BY <1>1, <2>1, AccountGrows
  <2>3. TypeOK'
    BY <1>1, TypeStep
  <2>4. /\ users[u] # None => users[u].tv \in Nat
        /\ users'[u] # None => users'[u].tv \in Nat
    BY <1>1, <2>1, <2>3 DEF TypeOK, Account
  <2>5. users[u] # None => held[c].tv < users[u].tv
    BY <1>1, <2>1, <2>4 DEF TokenInv, Accepted
  <2>6. QED BY <1>1, <2>1, <2>2, <2>4, <2>5 DEF Grows, Accepted
<1>2. TypeOK /\ AccountsInv /\ TokenInv /\ [Next]_vars =>
        [\A c \in Clients :
           (held[c] # None /\ held'[c] = held[c] /\ ~Accepted(held[c])) => ~Accepted(held[c])']_vars
  BY <1>1
<1>3. QED BY <1>2, TokenInvariant, PTL DEF Spec, RevokedForGood

----------------------------------------------------------------------------
(* Requests under way *)

\* A step leaves a request as it is, ends it, or takes it on: it stays about the same users.
Keeps(c) ==
  \/ req'[c] = req[c] \/ req'[c] = None
  \/ /\ req[c] # None /\ req[c].op # "login" /\ req'[c] # None /\ req'[c].op = req[c].op
     /\ req'[c].sub = req[c].sub /\ req'[c].to = req[c].to /\ req'[c].role = req[c].role
     /\ req'[c].alone = req[c].alone

LEMMA RequestSteps ==
  ASSUME TypeOK, [Next]_vars
  PROVE  \/ \E c \in Clients, op \in Operations : Arrive(c, op)
         \/ \E c \in Clients, u \in Users : admin_patch_venue_manager(c, u)
         \/ \E s \in Sessions, c \in Clients, u \in Users, p \in Passwords : LoginTake(c, s, u, p)
         \/ \A c \in Clients : Keeps(c)
<1>0. req \in [Clients -> Request \cup Login \cup {None}]
  BY DEF TypeOK
<1>1. ASSUME NEW c \in Clients, req' = [req EXCEPT ![c] = None] \/ req' = req
      PROVE  \A d \in Clients : Keeps(d)
  BY <1>0, <1>1 DEF Keeps
<1>2. ASSUME NEW c \in Clients, NEW u \in Users,
             \/ \E p \in Passwords : auth_register_finish(c, u, p)
             \/ \E role \in Roles, tier \in Tiers, returns \in BOOLEAN :
                  admin_patch_user(c, u, role, tier, returns)
      PROVE  \A d \in Clients : Keeps(d)
  BY <1>1, <1>2 DEF auth_register_finish, admin_patch_user
<1>3. ASSUME NEW s \in Sessions, NEW u \in Users, auth_login_start(s, u)
      PROVE  \A d \in Clients : Keeps(d)
  BY <1>3 DEF auth_login_start, Keeps
<1>4. ASSUME NEW c \in Clients, \/ LoginIssue(c) \/ PasswordToken(c) \/ DeleteAnswer(c) \/ Fails(c)
                                \/ \E k \in Collections : Write(c, k)
                                \/ \E v \in Venues : post_manager_venues(c, v) \/ Reassign(c, v)
      PROVE  \A d \in Clients : Keeps(d)
  BY <1>1, <1>4 DEF LoginIssue, PasswordToken, DeleteAnswer, Fails, Write, post_manager_venues, Reassign
<1>4a. ASSUME NEW c \in Clients, NEW d \in Clients, WriteTwice(c, d)
       PROVE  \A e \in Clients : Keeps(e)
  <2>1. \A e \in Clients : req'[e] \in {req[e], None}
    BY <1>0, <1>4a DEF WriteTwice
  <2>2. QED BY <2>1 DEF Keeps
<1>5. ASSUME NEW c \in Clients, NEW p \in Passwords, NEW raw \in BOOLEAN,
             users_me_password_finish(c, p, raw)
      PROVE  \A d \in Clients : Keeps(d)
  <2>1. req[c] \in Request /\ req' = [req EXCEPT ![c].step = "reread"]
    BY <1>5, UnderRequest DEF users_me_password_finish, Under
  <2>2. req[c] # None /\ req[c].op # "login" /\ [req[c] EXCEPT !.step = "reread"] \in Request
    BY <2>1 DEF Request, Operations
  <2>3. QED BY <1>0, <2>1, <2>2 DEF Keeps, Request
<1>6. ASSUME NEW c \in Clients, NEW v \in Venues, delete_manager_venue(c, v)
      PROVE  \A d \in Clients : Keeps(d)
  <2>1. req[c] \in Request /\ req' = [req EXCEPT ![c].step = "cascade", ![c].todo = {v}]
    BY <1>6, UnderRequest DEF delete_manager_venue, Under
  <2>2. req[c] # None /\ req[c].op # "login"
        /\ [req[c] EXCEPT !.step = "cascade", !.todo = {v}] \in Request
    BY <2>1 DEF Request, Operations
  <2>3. QED BY <1>0, <2>1, <2>2 DEF Keeps, Request
<1>7. ASSUME NEW c \in Clients, NEW fails \in BOOLEAN, DeleteVenues(c, fails)
      PROVE  \A d \in Clients : Keeps(d)
  <2>1. req[c] \in Request
    BY <1>7, UnderRequest DEF DeleteVenues, Under
  <2>2. PICK todo \in SUBSET (ToDelete \cup Venues) :
          req' = [req EXCEPT ![c].step = "cascade", ![c].ok = ~fails, ![c].todo = todo]
    BY <1>7 DEF DeleteVenues
  <2>3. req[c] # None /\ req[c].op # "login"
        /\ [req[c] EXCEPT !.step = "cascade", !.ok = ~fails, !.todo = todo] \in Request
    BY <2>1 DEF Request, Operations
  <2>4. QED BY <1>0, <2>1, <2>2, <2>3 DEF Keeps, Request
<1>8. ASSUME NEW c \in Clients, NEW v, NEW fails \in BOOLEAN, req[c] \in Request,
             req' = [req EXCEPT ![c].todo = @ \ {v}, ![c].ok = @ /\ ~fails]
      PROVE  \A d \in Clients : Keeps(d)
  <2>1. req[c] # None /\ req[c].op # "login"
        /\ [req[c] EXCEPT !.todo = @ \ {v}, !.ok = @ /\ ~fails] \in Request
    BY <1>8 DEF Request, Operations
  <2>2. QED BY <1>0, <1>8, <2>1 DEF Keeps, Request
<1>9. ASSUME NEW c \in Clients, NEW v \in Venues, NEW fails \in BOOLEAN, cascade_delete_venue(c, v, fails)
       PROVE  \A d \in Clients : Keeps(d)
  <2>1. req[c] \in Request
    BY <1>9, UnderRequest DEF cascade_delete_venue, Under
  <2>2. QED BY <1>1, <1>8, <1>9, <2>1 DEF cascade_delete_venue
<1>10. ASSUME NEW c \in Clients, NEW k \in ToDelete, NEW fails \in BOOLEAN,
              delete_me(c, k, fails)
       PROVE  \A d \in Clients : Keeps(d)
  <2>1. req[c] \in Request
    BY <1>10, UnderRequest DEF delete_me, Under
  <2>2. QED BY <1>8, <1>10, <2>1 DEF delete_me
<1>11. CASE Restart \/ Tick \/ UNCHANGED vars
  BY <1>0, <1>11 DEF Restart, Tick, vars, Keeps
<1>12. QED
  BY <1>2, <1>3, <1>4, <1>4a, <1>5, <1>6, <1>7, <1>9, <1>10, <1>11 DEF Next

\* A login appears by LoginTake only.
LEMMA LoginBegins ==
  ASSUME TypeOK, [Next]_vars, NEW c \in Clients, req[c] = None, req'[c] # None, req'[c].op = "login"
  PROVE  \E s \in Sessions, d \in Clients, u \in Users, p \in Passwords : LoginTake(d, s, u, p)
<1>0. req \in [Clients -> Request \cup Login \cup {None}]
  BY DEF TypeOK
<1>2. ASSUME NEW d \in Clients, NEW op \in Operations PROVE ~Arrive(d, op)
  <2> SUFFICES ASSUME Arrive(d, op) PROVE FALSE
    OBVIOUS
  <2> DEFINE u == held[d].sub
             o == Overlapped(u)
             x == [op |-> op, sub |-> u, role |-> held[d].role, step |-> "start", to |-> None,
                   todo |-> {}, ok |-> TRUE, alone |-> InFlight(u) = {}]
  <2>1. req' = [o EXCEPT ![d] = x] /\ x.op # "login"
    BY DEF Arrive, Operations
  <2>2. o[c] = None /\ o = [e \in Clients |-> o[e]]
    BY DEF Overlapped, InFlight
  <2>3. HIDE DEF o, x
  <2>4. QED BY <2>1, <2>2
<1>3. ASSUME NEW d \in Clients, NEW u \in Users PROVE ~admin_patch_venue_manager(d, u)
  <2> SUFFICES ASSUME admin_patch_venue_manager(d, u) PROVE FALSE
    OBVIOUS
  <2>1. d # c
    BY DEF admin_patch_venue_manager, Under
  <2>2. req'[c] = Overlapped(u)[c]
    BY <2>1 DEF admin_patch_venue_manager, Overlapped
  <2>3. QED BY <2>2 DEF Overlapped, InFlight
<1>4. ~Keeps(c)
  BY DEF Keeps
<1>5. QED BY <1>2, <1>3, <1>4, RequestSteps

----------------------------------------------------------------------------
(* Logins *)

\* The steps that touch login sessions, and what the others may do to the age of a password.
LEMMA SessionSteps ==
  ASSUME TypeOK, [Next]_vars
  PROVE  \/ \E s \in Sessions, u \in Users : auth_login_start(s, u)
         \/ \E s \in Sessions, c \in Clients, u \in Users, p \in Passwords : LoginTake(c, s, u, p)
         \/ Restart
         \/ Tick
         \/ UNCHANGED <<sess, logins>> /\ \A u \in Users : pwAge'[u] \in {pwAge[u], 0}
<1> DEFINE Rest == UNCHANGED <<sess, logins>> /\ \A u \in Users : pwAge'[u] \in {pwAge[u], 0}
<1>1. CASE UNCHANGED vars
  BY <1>1 DEF vars
<1>2. ASSUME NEW c \in Clients, NEW u \in Users,
             \/ admin_patch_venue_manager(c, u) \/ \E p \in Passwords : auth_register_finish(c, u, p)
             \/ \E role \in Roles, tier \in Tiers, returns \in BOOLEAN :
                  admin_patch_user(c, u, role, tier, returns)
      PROVE  Rest
  BY <1>2 DEF admin_patch_venue_manager, auth_register_finish, admin_patch_user
<1>3. ASSUME NEW c \in Clients, \/ LoginIssue(c) \/ PasswordToken(c) \/ DeleteAnswer(c) \/ Fails(c)
                                \/ \E op \in Operations : Arrive(c, op)
                                \/ \E k \in Collections : Write(c, k)
                                \/ \E e \in Clients : WriteTwice(c, e)
      PROVE  Rest
  BY <1>3 DEF LoginIssue, PasswordToken, DeleteAnswer, Fails, Arrive, Write, WriteTwice
<1>4. ASSUME NEW c \in Clients, NEW p \in Passwords, NEW raw \in BOOLEAN,
             users_me_password_finish(c, p, raw)
      PROVE  Rest
  BY <1>4 DEF users_me_password_finish, TypeOK
<1>5. ASSUME NEW c \in Clients, NEW v \in Venues,
             post_manager_venues(c, v) \/ delete_manager_venue(c, v) \/ Reassign(c, v)
      PROVE  Rest
  BY <1>5 DEF post_manager_venues, delete_manager_venue, Reassign
<1>6. ASSUME NEW c \in Clients, NEW fails \in BOOLEAN,
             \/ DeleteVenues(c, fails) \/ \E v \in Venues : cascade_delete_venue(c, v, fails)
             \/ \E k \in ToDelete : delete_me(c, k, fails)
      PROVE  Rest
  BY <1>6 DEF DeleteVenues, cascade_delete_venue, delete_me
<1>7. QED BY <1>1, <1>2, <1>3, <1>4, <1>5, <1>6 DEF Next

\* A password is changed by users_me_password_finish only.
LEMMA PasswordKept ==
  ASSUME TypeOK, AccountsInv, [Next]_vars, NEW w \in Users, users[w] # None, users'[w] # None
  PROVE  users'[w].pw = users[w].pw \/ pwAge'[w] = 0
<1>0. users \in [Users -> Account \cup {None}] /\ w \in born
  BY DEF TypeOK, AccountsInv
<1>1. ASSUME NEW c \in Clients, NEW u \in Users, NEW p \in Passwords, auth_register_finish(c, u, p)
      PROVE  users'[w] = users[w]
  BY <1>0, <1>1 DEF auth_register_finish
<1>2. ASSUME NEW c \in Clients, NEW u \in Users, NEW role \in Roles, NEW tier \in Tiers,
             NEW returns \in BOOLEAN, admin_patch_user(c, u, role, tier, returns)
      PROVE  users'[w].pw = users[w].pw
  <2>1. Patched(u, role, tier).pw = users[u].pw
    BY <1>0, <1>2 DEF admin_patch_user, Patched, Account
  <2>2. QED BY <1>0, <1>2, <2>1 DEF admin_patch_user
<1>3. ASSUME NEW c \in Clients, NEW p \in Passwords, NEW raw \in BOOLEAN,
             users_me_password_finish(c, p, raw)
      PROVE  users'[w].pw = users[w].pw \/ pwAge'[w] = 0
  <2> DEFINE u == req[c].sub
             a == [users[u] EXCEPT !.pw = p, !.tv = @ + 1, !.key = PasswordKey(@, raw)]
  <2>1. CASE users[u] = None \/ w # u
    BY <1>0, <1>3, <2>1 DEF users_me_password_finish
  <2>2. CASE users[u] # None /\ w = u
    <3>1. users'[w] = a
      BY <1>0, <1>3, <2>2 DEF users_me_password_finish
    <3>2. a.pw = p
      BY <1>0, <2>2 DEF Account
    <3>3. users[u].pw = p \/ pwAge'[w] = 0
      BY <1>3, <2>2 DEF users_me_password_finish, TypeOK
    <3>4. QED BY <2>2, <3>1, <3>2, <3>3
  <2>3. QED BY <2>1, <2>2
<1>4. ASSUME NEW c \in Clients, NEW k \in ToDelete, NEW fails \in BOOLEAN,
             delete_me(c, k, fails)
      PROVE  users'[w] = users[w]
  <2>1. users' = users \/ users' = [users EXCEPT ![req[c].sub] = None]
    BY <1>4 DEF delete_me
  <2>2. QED BY <1>0, <2>1
<1>5. CASE Restart
  <2>1. users[Bootstrap] # None => Promoted.pw = users[Bootstrap].pw
    BY <1>0 DEF Promoted, Account
  <2>2. QED BY <1>0, <1>5, <2>1 DEF Restart
<1>6. QED
  BY <1>1, <1>2, <1>3, <1>4, <1>5, AccountSteps DEF post_manager_venues, LoginIssue, PasswordToken

\* What SessionInv says of one session.
Proof(x, n) ==
  LET u == x.sub IN
  /\ n = 0
  /\ x.pw # None => u \in born
  /\ x.pw = None \/ users[u] = None \/ users[u].pw = x.pw \/ pwAge[u] <= x.age

\* It goes on to hold while the session is the same, unless time passes.
LEMMA ProofKept ==
  ASSUME TypeOK, AccountsInv, [Next]_vars, NEW x \in Session, NEW n, Proof(x, n),
         \A u \in Users : pwAge'[u] \in {pwAge[u], 0}
  PROVE  Proof(x, n)'
<1> DEFINE u == x.sub
<1>1. u \in Users /\ x.age \in Nat /\ pwAge[u] \in Nat
  BY DEF Session, TypeOK
<1>2. pwAge[u] <= x.age => pwAge'[u] <= x.age
  BY <1>1
<1>3. x.pw # None => u \in born /\ u \in born'
  BY BornGrows DEF Proof
<1>4. Grows(u)
  BY <1>1, AccountGrows
<1>5. users[u] # None /\ users'[u] # None => users'[u].pw = users[u].pw \/ pwAge'[u] = 0
  BY <1>1, PasswordKept
<1>6. QED BY <1>1, <1>2, <1>3, <1>4, <1>5 DEF Proof, Grows

LEMMA SessionStep ==
  TypeOK /\ AccountsInv /\ SessionInv /\ LoginOnce /\ [Next]_vars => SessionInv' /\ LoginOnce'
<1> SUFFICES ASSUME TypeOK, AccountsInv, SessionInv, LoginOnce, [Next]_vars
             PROVE  \A s \in Sessions : (sess'[s] # None => Proof(sess[s], logins[s])') /\ logins'[s] <= 1
  BY DEF SessionInv, Proof, LoginOnce
<1>0. \A s \in Sessions : /\ logins[s] \in Nat /\ logins[s] <= 1
                          /\ sess[s] # None => sess[s] \in Session /\ Proof(sess[s], logins[s])
  BY DEF TypeOK, SessionInv, Proof, LoginOnce
<1>1. CASE UNCHANGED <<sess, logins>> /\ \A u \in Users : pwAge'[u] \in {pwAge[u], 0}
  BY <1>0, <1>1, ProofKept
<1>2. ASSUME NEW r \in Sessions, NEW u \in Users, auth_login_start(r, u)
      PROVE  \A s \in Sessions : (sess'[s] # None => Proof(sess[s], logins[s])') /\ logins'[s] <= 1
  <2> SUFFICES ASSUME NEW s \in Sessions
               PROVE  (sess'[s] # None => Proof(sess[s], logins[s])') /\ logins'[s] <= 1
    OBVIOUS
  <2>1. CASE s = r
    <3> DEFINE x == [sub |-> u, age |-> 0,
                     pw |-> IF users[u] # None /\ users[u].key = "email" THEN users[u].pw ELSE None]
    <3>1. sess'[s] = x /\ logins'[s] = 0 /\ users' = users /\ born' = born
      BY <1>2, <2>1 DEF auth_login_start, Retain, TypeOK
    <3>2. QED BY <3>1 DEF Proof, AccountsInv
  <2>2. CASE s # r
    <3>1. sess'[s] \in {sess[s], None} /\ logins'[s] = logins[s] /\ pwAge' = pwAge
      BY <1>2, <2>2 DEF auth_login_start, Retain, TypeOK
    <3>2. QED BY <1>0, <3>1, ProofKept
  <2>3. QED BY <2>1, <2>2
<1>3. ASSUME NEW r \in Sessions, NEW c \in Clients, NEW w \in Users, NEW p \in Passwords,
             LoginTake(c, r, w, p)
      PROVE  \A s \in Sessions : (sess'[s] # None => Proof(sess[s], logins[s])') /\ logins'[s] <= 1
  <2> SUFFICES ASSUME NEW s \in Sessions
               PROVE  (sess'[s] # None => Proof(sess[s], logins[s])') /\ logins'[s] <= 1
    OBVIOUS
  <2>1. CASE s = r
    <3>1. sess[s] # None /\ sess'[s] = None /\ logins'[s] \in {logins[s], logins[s] + 1}
      BY <1>3, <2>1 DEF LoginTake, Taken, Retain, TypeOK
    <3>2. QED BY <1>0, <3>1 DEF Proof
  <2>2. CASE s # r
    <3>1. sess'[s] \in {sess[s], None} /\ logins'[s] = logins[s] /\ pwAge' = pwAge
      BY <1>3, <2>2 DEF LoginTake, Taken, Retain, TypeOK
    <3>2. QED BY <1>0, <3>1, ProofKept
  <2>3. QED BY <2>1, <2>2
<1>4. CASE Restart
  BY <1>0, <1>4 DEF Restart
<1>5. CASE Tick
  <2> SUFFICES ASSUME NEW s \in Sessions
               PROVE  (sess'[s] # None => Proof(sess[s], logins[s])') /\ logins'[s] <= 1
    OBVIOUS
  <2>1. CASE sess[s] = None
    BY <1>0, <1>5, <2>1 DEF Tick
  <2>2. CASE sess[s] # None
    <3> DEFINE u == sess[s].sub
    <3>1. /\ u \in Users /\ sess[s].age \in 0 .. SessionTTL /\ pwAge[u] \in 0 .. SessionTTL
          /\ sess[s] \in Session /\ Proof(sess[s], logins[s])
      BY <1>0, <2>2 DEF Session, TypeOK
    <3>2. /\ sess'[s].sub = u /\ sess'[s].pw = sess[s].pw
          /\ sess'[s].age = IF sess[s].age < SessionTTL THEN sess[s].age + 1 ELSE sess[s].age
      BY <1>5, <2>2, <3>1 DEF Tick, Session
    <3>3. pwAge'[u] = IF pwAge[u] < SessionTTL THEN pwAge[u] + 1 ELSE pwAge[u]
      BY <1>5, <3>1 DEF Tick
    <3>4. pwAge[u] <= sess[s].age => pwAge'[u] <= sess'[s].age
      BY <3>1, <3>2, <3>3
    <3>5. users' = users /\ born' = born /\ logins' = logins
      BY <1>5 DEF Tick
    <3>6. QED BY <1>0, <3>1, <3>2, <3>4, <3>5 DEF Proof
  <2>3. QED BY <2>1, <2>2
<1>6. QED BY <1>1, <1>2, <1>3, <1>4, <1>5, SessionSteps

LEMMA SessionInvariant == Spec => [](TypeOK /\ AccountsInv /\ SessionInv /\ LoginOnce)
<1>1. Init => SessionInv /\ LoginOnce
  BY DEF Init, SessionInv, LoginOnce
<1>2. QED BY <1>1, TokenInvariant, SessionStep, PTL DEF Spec

\* THEOREM. However requests that name a session are repeated, it logs in at most once:
\* auth_login_finish takes it out before it checks anything.
THEOREM SessionsLogInOnce == Spec => []LoginOnce
BY SessionInvariant, PTL

\* THEOREM. A login succeeds only with the password of the account it was started for, or
\* with one that was that account's until less than LOGIN_SESSION_TTL ago, whatever account
\* the request that finishes it names.
THEOREM LoginsAreProved == Spec => LoginProof
<1> DEFINE Good(c, s) == LET u == sess[s].sub
                         IN  users[u] = None \/ users[u].pw = req'[c].pw \/ pwAge[u] < SessionTTL
           Begins(c, s) == req[c] = None /\ req'[c] # None /\ req'[c].op = "login" /\ logins'[s] # logins[s]
<1>1. ASSUME TypeOK, SessionInv, NEW r \in Sessions, NEW d \in Clients, NEW w \in Users, NEW p \in Passwords,
             LoginTake(d, r, w, p), NEW c \in Clients, NEW s \in Sessions, Begins(c, s)
      PROVE  Good(c, s)
  <2>1. sess[r] # None /\ sess[r].age < SessionTTL /\ sess[r] \in Session
    BY <1>1 DEF LoginTake, Retain, TypeOK, Session
  <2>2. c = d /\ s = r /\ req'[c].pw = p /\ p = sess[r].pw
    BY <1>1 DEF LoginTake, TypeOK
  <2>3. sess[r].sub \in Users /\ pwAge[sess[r].sub] \in Nat /\ sess[r].age \in Nat
    BY <1>1, <2>1 DEF TypeOK, Session
  <2>4. QED BY <1>1, <2>1, <2>2, <2>3 DEF SessionInv
<1>2. ASSUME TypeOK, SessionInv, [Next]_vars, NEW c \in Clients, NEW s \in Sessions, Begins(c, s)
      PROVE  Good(c, s)
  <2>1. PICK r \in Sessions, d \in Clients, w \in Users, p \in Passwords : LoginTake(d, r, w, p)
    BY <1>2, LoginBegins
  <2>2. QED BY <1>1, <1>2, <2>1
<1>3. TypeOK /\ SessionInv /\ [Next]_vars =>
        [\A c \in Clients, s \in Sessions : Begins(c, s) => Good(c, s)]_vars
  BY <1>2
<1>4. QED BY <1>3, SessionInvariant, PTL DEF Spec, LoginProof

----------------------------------------------------------------------------
(* Deletions *)

\* Only requests about a user, other than to delete the account, give the user documents or
\* venues.
LEMMA Effects ==
  ASSUME TypeOK, [Next]_vars, NEW u \in Users, \A c \in InFlight(u) : req[c].op = "delete"
  PROVE  data'[u] \subseteq data[u] /\ \A v \in Venues : venue'[v] = u => venue[v] = u
<1>0. /\ data \in [Users -> SUBSET Collections] /\ venue \in [Venues -> Users \cup {None}]
      /\ u # None
  BY DEF TypeOK
<1>1. ASSUME NEW c \in Clients, req[c] # None, req[c].op \notin {"login", "delete"}
      PROVE  req[c].sub # u /\ req[c].to # u
  BY <1>1 DEF InFlight
<1>2. ASSUME NEW c \in Clients, NEW k \in Collections, Write(c, k)
      PROVE  data'[u] \subseteq data[u] /\ UNCHANGED venue
  BY <1>0, <1>1, <1>2 DEF Write, Under
<1>2a. ASSUME NEW c \in Clients, NEW d \in Clients, WriteTwice(c, d)
       PROVE  data'[u] \subseteq data[u] /\ UNCHANGED venue
  BY <1>0, <1>1, <1>2a DEF WriteTwice, Under
<1>3. ASSUME NEW c \in Clients, NEW v \in Venues, post_manager_venues(c, v) \/ Reassign(c, v)
      PROVE  UNCHANGED data /\ \A w \in Venues : venue'[w] = u => venue[w] = u
  BY <1>0, <1>1, <1>3 DEF post_manager_venues, Reassign, Under
<1>4. ASSUME NEW c \in Clients, NEW v \in Venues, NEW fails \in BOOLEAN, cascade_delete_venue(c, v, fails)
      PROVE  UNCHANGED data /\ \A w \in Venues : venue'[w] = u => venue[w] = u
  BY <1>0, <1>4 DEF cascade_delete_venue
<1>5. ASSUME NEW c \in Clients, NEW k \in ToDelete, NEW fails \in BOOLEAN,
             delete_me(c, k, fails)
      PROVE  data'[u] \subseteq data[u] /\ UNCHANGED venue
  BY <1>0, <1>5 DEF delete_me, Left
<1>6. ASSUME NEW c \in Clients, NEW w \in Users,
             \/ admin_patch_venue_manager(c, w) \/ \E p \in Passwords : auth_register_finish(c, w, p)
             \/ \E role \in Roles, tier \in Tiers, returns \in BOOLEAN :
                  admin_patch_user(c, w, role, tier, returns)
      PROVE  UNCHANGED <<data, venue>>
  BY <1>6 DEF admin_patch_venue_manager, auth_register_finish, admin_patch_user
<1>7. ASSUME NEW s \in Sessions, \/ \E w \in Users : auth_login_start(s, w)
                                 \/ \E c \in Clients, x \in Users, p \in Passwords : LoginTake(c, s, x, p)
      PROVE  UNCHANGED <<data, venue>>
  BY <1>7 DEF auth_login_start, LoginTake
<1>8. ASSUME NEW c \in Clients, \/ LoginIssue(c) \/ PasswordToken(c) \/ DeleteAnswer(c) \/ Fails(c)
                                \/ \E op \in Operations : Arrive(c, op)
                                \/ \E v \in Venues : delete_manager_venue(c, v)
                                \/ \E breaks \in BOOLEAN : DeleteVenues(c, breaks)
                                \/ \E p \in Passwords, raw \in BOOLEAN : users_me_password_finish(c, p, raw)
      PROVE  UNCHANGED <<data, venue>>
  BY <1>8 DEF LoginIssue, PasswordToken, DeleteAnswer, Fails, Arrive, delete_manager_venue,
     DeleteVenues, users_me_password_finish
<1>9. CASE Restart \/ Tick \/ UNCHANGED vars
  BY <1>9 DEF Restart, Tick, vars
<1>10. QED BY <1>2, <1>2a, <1>3, <1>4, <1>5, <1>6, <1>7, <1>8, <1>9 DEF Next

\* Only alone says whether a deletion still is the only request about its user.
LEMMA OverlappedKeeps ==
  ASSUME TypeOK, NEW u \in Users, NEW c \in Clients
  PROVE  LET x == Overlapped(u)[c] IN
         /\ c \notin InFlight(u) => x = req[c]
         /\ c \in InFlight(u) => req[c] # None /\ req[c].op # "login" /\ x \in Request /\ ~x.alone
         /\ c \in InFlight(u) => /\ x.op = req[c].op /\ x.sub = req[c].sub /\ x.role = req[c].role
                                 /\ x.to = req[c].to /\ x.step = req[c].step
                                 /\ x.todo = req[c].todo /\ x.ok = req[c].ok
<1>1. CASE c \in InFlight(u)
  <2>1. req[c] \in Request /\ req[c] # None /\ req[c].op # "login"
    BY <1>1, UnderRequest DEF InFlight
  <2>2. Overlapped(u)[c] = [req[c] EXCEPT !.alone = FALSE]
    BY <1>1 DEF Overlapped
  <2>3. QED BY <1>1, <2>1, <2>2 DEF Request
<1>2. QED BY <1>1 DEF Overlapped

\* The first conjunct of DeletionInv, and who is in flight after a step.
Alone ==
  \A c \in Clients : req[c] # None /\ req[c].op # "login" =>
    req[c].sub \in born /\ (req[c].alone => InFlight(req[c].sub) = {c})

LEMMA InFlightStep ==
  ASSUME TypeOK, AccountsInv, Alone, [Next]_vars
  PROVE  /\ Alone'
         /\ \A u \in Users : users[u] = None => InFlight(u)' \subseteq InFlight(u)
<1>0. TypeOK' /\ born \subseteq born' /\ None \notin Users
  BY TypeStep, BornGrows
<1>1. CASE \A c \in Clients : Keeps(c)
  <2>1. \A u \in Users : InFlight(u)' \subseteq InFlight(u)
    BY <1>1 DEF Keeps, InFlight
  <2>2. ASSUME NEW c \in Clients, req'[c] # None, req'[c].op # "login"
        PROVE  req'[c].sub \in born' /\ (req'[c].alone => InFlight(req[c].sub)' = {c})
    <3>1. /\ req[c] # None /\ req[c].op # "login" /\ req'[c].sub = req[c].sub
          /\ req'[c].alone = req[c].alone
      BY <1>1, <2>2 DEF Keeps
    <3>2. req'[c].sub \in Users
      BY <1>0, <2>2 DEF TypeOK, Request, Login
    <3>3. c \in InFlight(req[c].sub)'
      BY <2>2 DEF InFlight
    <3>4. QED BY <1>0, <2>1, <3>1, <3>2, <3>3 DEF Alone
  <2>3. QED BY <2>1, <2>2 DEF Alone
<1>2. ASSUME NEW s \in Sessions, NEW d \in Clients, NEW w \in Users, NEW p \in Passwords,
             LoginTake(d, s, w, p)
      PROVE  Alone' /\ \A u \in Users : InFlight(u)' \subseteq InFlight(u)
  <2>1. \A c \in Clients : req'[c] = req[c] \/ (req'[c].op = "login" /\ req[c] = None)
    <3> DEFINE x == [op |-> "login", sub |-> w, pw |-> p]
    <3>1. req[d] = None /\ (req' = req \/ req' = [req EXCEPT ![d] = x]) /\ x.op = "login"
      BY <1>2 DEF LoginTake
    <3>2. req \in [Clients -> Request \cup Login \cup {None}]
      BY DEF TypeOK
    <3>3. HIDE DEF x
    <3>4. ASSUME NEW c \in Clients PROVE req'[c] = req[c] \/ (c = d /\ req'[c] = x)
      BY <3>1, <3>2
    <3>5. QED BY <3>1, <3>4
  <2>2. \A u : InFlight(u)' = InFlight(u)
    BY <2>1 DEF InFlight
  <2>3. QED BY <1>0, <2>1, <2>2 DEF Alone
<1>3. ASSUME NEW d \in Clients, NEW op \in Operations, Arrive(d, op)
      PROVE  Alone' /\ \A u \in Users : users[u] = None => InFlight(u)' \subseteq InFlight(u)
  <2> DEFINE w == held[d].sub
             o == Overlapped(w)
             x == [op |-> op, sub |-> w, role |-> held[d].role, step |-> "start", to |-> None,
                   todo |-> {}, ok |-> TRUE, alone |-> InFlight(w) = {}]
  <2>1. w \in Users /\ w \in born /\ users[w] # None /\ req[d] = None
    BY <1>3 DEF Arrive, TypeOK, Token, AccountsInv, authority_verify, Accepted
  <2>2. /\ req'[d] = x
        /\ \A c \in Clients \ {d} : req'[c] = o[c]
    BY <1>3 DEF Arrive, Overlapped
  <2>3. x.op = op /\ x.op # "login" /\ x.sub = w /\ x.to = None /\ x.alone = (InFlight(w) = {}) /\ x # None
    <3>1. held[d] \in Token
      BY <1>3 DEF Arrive, TypeOK
    <3>2. x \in Request
      BY <3>1 DEF Token, Request
    <3>3. QED BY <3>2 DEF Operations
  <2>4. \A c \in Clients \ {d} : /\ c \notin InFlight(w) => req'[c] = req[c]
                                 /\ c \in InFlight(w) => /\ req[c] # None /\ req[c].op # "login"
                                                         /\ req'[c] # None /\ ~req'[c].alone
                                                         /\ req'[c].op = req[c].op
                                                         /\ req'[c].sub = req[c].sub
                                                         /\ req'[c].to = req[c].to
    BY <2>1, <2>2, OverlappedKeeps
  <2>5. ASSUME NEW u \in Users
        PROVE  InFlight(u)' = InFlight(u) \cup (IF u = w THEN {d} ELSE {})
    BY <1>0, <2>1, <2>2, <2>3, <2>4 DEF InFlight
  <2>6. ASSUME NEW c \in Clients, req'[c] # None, req'[c].op # "login"
        PROVE  req'[c].sub \in born' /\ (req'[c].alone => InFlight(req[c].sub)' = {c})
    <3>1. req'[c].sub \in Users
      BY <1>0, <2>6 DEF TypeOK, Request, Login
    <3>2. CASE c = d
      BY <1>0, <2>1, <2>2, <2>3, <2>5, <3>2
    <3>3. CASE c # d /\ c \in InFlight(w)
      BY <1>0, <2>4, <3>3 DEF Alone
    <3>4. CASE c # d /\ c \notin InFlight(w)
      <4>1. req'[c] = req[c] /\ req[c].sub # w
        BY <2>4, <2>6, <3>4 DEF InFlight
      <4>2. QED BY <1>0, <2>5, <2>6, <3>1, <4>1 DEF Alone
    <3>5. QED BY <3>2, <3>3, <3>4
  <2>7. QED BY <2>1, <2>5, <2>6 DEF Alone
<1>4. ASSUME NEW d \in Clients, NEW w \in Users, admin_patch_venue_manager(d, w)
      PROVE  Alone' /\ \A u \in Users : users[u] = None => InFlight(u)' \subseteq InFlight(u)
  <2> DEFINE o == Overlapped(w)
  <2>1. req[d] # None /\ req[d].op # "login" /\ req[d] \in Request /\ users[w] # None
    BY <1>4, UnderRequest DEF admin_patch_venue_manager, Under
  <2>2. o[d] \in Request
    BY <2>1, OverlappedKeeps
  <2>3. /\ req'[d] = [o[d] EXCEPT !.step = "reassign", !.to = w]
        /\ \A c \in Clients \ {d} : req'[c] = o[c]
    BY <1>4 DEF admin_patch_venue_manager, Overlapped
  <2>4. /\ req'[d] # None /\ req'[d].op = req[d].op /\ req'[d].sub = req[d].sub /\ req'[d].to = w
        /\ req'[d].alone => req[d].alone /\ d \notin InFlight(w)
    <3>1. [o[d] EXCEPT !.step = "reassign", !.to = w] \in Request
      BY <2>2 DEF Request
    <3>2. /\ req'[d].op = o[d].op /\ req'[d].sub = o[d].sub /\ req'[d].to = w
          /\ req'[d].alone = o[d].alone /\ req'[d] # None
      BY <2>2, <2>3, <3>1 DEF Request
    <3>3. CASE d \in InFlight(w)
      BY <3>2, <3>3, OverlappedKeeps
    <3>4. CASE d \notin InFlight(w)
      BY <3>2, <3>4, OverlappedKeeps
    <3>5. QED BY <3>3, <3>4
  <2>5. \A c \in Clients \ {d} : /\ c \notin InFlight(w) => req'[c] = req[c]
                                 /\ c \in InFlight(w) => /\ req[c] # None /\ req[c].op # "login"
                                                         /\ req'[c] # None /\ ~req'[c].alone
                                                         /\ req'[c].op = req[c].op
                                                         /\ req'[c].sub = req[c].sub
                                                         /\ req'[c].to = req[c].to
    BY <2>3, OverlappedKeeps
  <2>6. ASSUME NEW u \in Users
        PROVE  InFlight(u)' \subseteq InFlight(u) \cup (IF u = w THEN {d} ELSE {})
    BY <2>1, <2>4, <2>5 DEF InFlight
  <2>7. ASSUME NEW c \in Clients, req'[c] # None, req'[c].op # "login"
        PROVE  req'[c].sub \in born' /\ (req'[c].alone => InFlight(req[c].sub)' = {c})
    <3>1. req'[c].sub \in Users /\ c \in InFlight(req[c].sub)'
      BY <1>0, <2>7 DEF TypeOK, Request, Login, InFlight
    <3>2. req[c] # None /\ req[c].op # "login" /\ req'[c].sub = req[c].sub
      BY <2>1, <2>4, <2>5, <2>7
    <3>3. req'[c].alone => req[c].alone /\ c \notin InFlight(w)
      BY <2>4, <2>5
    <3>4. req'[c].alone => req[c].sub # w
      BY <3>2, <3>3 DEF InFlight
    <3>5. QED BY <1>0, <2>6, <3>1, <3>2, <3>3, <3>4 DEF Alone
  <2>8. QED BY <2>1, <2>6, <2>7 DEF Alone
<1>5. QED BY <1>1, <1>2, <1>3, <1>4, RequestSteps DEF Keeps, InFlight

\* How a deletion that overlapped no other request gets on.
LEMMA DeletionSteps ==
  ASSUME TypeOK, [Next]_vars, NEW c \in Clients, Deleting(c)', req'[c].alone
  PROVE  \/ req'[c] = req[c]
         \/ \E breaks \in BOOLEAN : DeleteVenues(c, breaks)
         \/ \E v \in Venues, fails \in BOOLEAN : cascade_delete_venue(c, v, fails)
         \/ \E k \in ToDelete, fails \in BOOLEAN : delete_me(c, k, fails)
<1>0. /\ req \in [Clients -> Request \cup Login \cup {None}]
      /\ req'[c] # None /\ req'[c].op = "delete" /\ req'[c].step = "cascade"
  BY DEF TypeOK, Deleting, Under
<1>1. ASSUME NEW d \in Clients, req' = [req EXCEPT ![d] = None] \/ req' = req
      PROVE  req'[c] = req[c]
  BY <1>0, <1>1
<1>2. ASSUME NEW d \in Clients, NEW u \in Users,
             \/ \E p \in Passwords : auth_register_finish(d, u, p)
             \/ \E role \in Roles, tier \in Tiers, returns \in BOOLEAN :
                  admin_patch_user(d, u, role, tier, returns)
      PROVE  req'[c] = req[c]
  BY <1>1, <1>2 DEF auth_register_finish, admin_patch_user
<1>3. ASSUME NEW s \in Sessions, \/ \E u \in Users : auth_login_start(s, u)
                                 \/ \E d \in Clients, w \in Users, p \in Passwords : LoginTake(d, s, w, p)
      PROVE  req'[c] = req[c]
  <2>1. ASSUME NEW d \in Clients, NEW w \in Users, NEW p \in Passwords, LoginTake(d, s, w, p)
        PROVE  req'[c] = req[c]
    <3> DEFINE x == [op |-> "login", sub |-> w, pw |-> p]
    <3>1. (req' = req \/ req' = [req EXCEPT ![d] = x]) /\ x.op = "login"
      BY <2>1 DEF LoginTake
    <3>2. HIDE DEF x
    <3>3. QED BY <1>0, <3>1
  <2>2. QED BY <1>3, <2>1 DEF auth_login_start
<1>4. ASSUME NEW d \in Clients, \/ LoginIssue(d) \/ PasswordToken(d) \/ DeleteAnswer(d) \/ Fails(d)
                                \/ \E k \in Collections : Write(d, k)
                                \/ \E v \in Venues : post_manager_venues(d, v) \/ Reassign(d, v)
      PROVE  req'[c] = req[c]
  BY <1>1, <1>4 DEF LoginIssue, PasswordToken, DeleteAnswer, Fails, Write, post_manager_venues, Reassign
<1>4a. ASSUME NEW d \in Clients, NEW e \in Clients, WriteTwice(d, e)
       PROVE  req'[c] = req[c]
  <2>1. req'[c] \in {req[c], None}
    BY <1>0, <1>4a DEF WriteTwice
  <2>2. QED BY <1>0, <2>1
<1>5. ASSUME NEW d \in Clients, NEW p \in Passwords, NEW raw \in BOOLEAN,
             users_me_password_finish(d, p, raw)
      PROVE  req'[c] = req[c]
  <2>1. req[d] \in Request /\ req[d].op = "password" /\ req' = [req EXCEPT ![d].step = "reread"]
    BY <1>5, UnderRequest DEF users_me_password_finish, Under
  <2>2. QED BY <1>0, <2>1 DEF Request
<1>6. ASSUME NEW d \in Clients, NEW v \in Venues, delete_manager_venue(d, v)
      PROVE  req'[c] = req[c]
  <2>1. req[d] \in Request /\ req[d].op = "venue"
        /\ req' = [req EXCEPT ![d].step = "cascade", ![d].todo = {v}]
    BY <1>6, UnderRequest DEF delete_manager_venue, Under
  <2>2. QED BY <1>0, <2>1 DEF Request
<1>7. ASSUME NEW d \in Clients, NEW op \in Operations, Arrive(d, op)
      PROVE  req'[c] = req[c]
  <2> DEFINE w == held[d].sub
             o == Overlapped(w)
             x == [op |-> op, sub |-> w, role |-> held[d].role, step |-> "start", to |-> None,
                   todo |-> {}, ok |-> TRUE, alone |-> InFlight(w) = {}]
  <2>1. w \in Users
    BY <1>7 DEF Arrive, TypeOK, Token
  <2>2. req'[c] = (IF c = d THEN x ELSE o[c]) /\ x.step = "start"
    BY <1>7 DEF Arrive, Overlapped
  <2>3. req'[c] = o[c] /\ ~(c \in InFlight(w))
    <3>1. HIDE DEF x
    <3>2. QED BY <1>0, <2>1, <2>2, OverlappedKeeps
  <2>4. QED BY <2>1, <2>3, OverlappedKeeps
<1>8. ASSUME NEW d \in Clients, NEW w \in Users, admin_patch_venue_manager(d, w)
      PROVE  req'[c] = req[c]
  <2> DEFINE o == Overlapped(w)
  <2>1. req'[c] = IF c = d THEN [o[c] EXCEPT !.step = "reassign", !.to = w] ELSE o[c]
    BY <1>8 DEF admin_patch_venue_manager, Overlapped
  <2>2. c # d
    <3>1. req[d] \in Request /\ req[d].op = "patch" /\ req[d].step = "start"
      BY <1>8, UnderRequest DEF admin_patch_venue_manager, Under
    <3>2. o[d] \in Request /\ o[d].op = "patch"
      BY <3>1, OverlappedKeeps
    <3>3. QED BY <1>0, <2>1, <3>2 DEF Request
  <2>3. QED BY <1>0, <2>1, <2>2, OverlappedKeeps
<1>9. ASSUME NEW d \in Clients, d # c, NEW fails \in BOOLEAN,
             \/ DeleteVenues(d, fails) \/ \E v \in Venues : cascade_delete_venue(d, v, fails)
             \/ \E k \in ToDelete : delete_me(d, k, fails)
      PROVE  req'[c] = req[c]
  BY <1>0, <1>9 DEF DeleteVenues, cascade_delete_venue, delete_me
<1>10. CASE Restart \/ Tick \/ UNCHANGED vars
  BY <1>0, <1>10 DEF Restart, Tick, vars
<1>11. QED
  BY <1>2, <1>3, <1>4, <1>4a, <1>5, <1>6, <1>7, <1>8, <1>9, <1>10 DEF Next

\* What is not in todo any more of a deletion is done.
Progress(c) ==
  LET u == req[c].sub IN
  /\ data[u] \subseteq req[c].todo \cup Kept \cup {"surplus"}
  /\ "users" \notin req[c].todo => users[u] = None
  /\ req[c].role = "venue_manager" => \A v \in Venues : venue[v] = u => v \in req[c].todo

LEMMA ProgressStep ==
  ASSUME TypeOK, AccountsInv, DeletionInv, [Next]_vars, NEW c \in Clients,
         Deleting(c)', req'[c].ok, req'[c].alone
  PROVE  Progress(c)'
<1>0. TypeOK /\ TypeOK' /\ Alone /\ \A u \in Users : Grows(u)
  BY TypeStep, AccountGrows DEF DeletionInv, Alone
<1>1. CASE req'[c] = req[c]
  <2> DEFINE u == req[c].sub
  <2>1. req[c] \in Request /\ req[c] # None /\ req[c].op = "delete" /\ u \in Users
    BY <1>1, UnderRequest DEF Deleting, Under, Request
  <2>2. u \in born /\ InFlight(u) = {c}
    BY <1>0, <1>1, <2>1 DEF Alone
  <2>3. data'[u] \subseteq data[u] /\ \A v \in Venues : venue'[v] = u => venue[v] = u
    BY <1>0, <2>1, <2>2, Effects
  <2>4. Progress(c)
    BY <1>1 DEF DeletionInv, Progress, Deleting, Under
  <2>5. users[u] = None => users'[u] = None
    BY <1>0, <2>1, <2>2 DEF Grows
  <2>6. QED BY <1>1, <2>3, <2>4, <2>5 DEF Progress
<1>2. ASSUME NEW breaks \in BOOLEAN, DeleteVenues(c, breaks)
      PROVE  Progress(c)'
  <2> DEFINE u == req[c].sub
             todo == ToDelete \cup
                {v \in Venues : req[c].role = "venue_manager" /\ venue[v] = req[c].sub /\ ~breaks}
  <2>1. req[c] \in Request /\ u \in Users
    BY <1>2, UnderRequest DEF DeleteVenues, Under, Request
  <2>2. req' = [req EXCEPT ![c].step = "cascade", ![c].ok = ~breaks, ![c].todo = todo]
        /\ UNCHANGED <<users, venue, data>>
    BY <1>2 DEF DeleteVenues
  <2>3. req'[c].sub = u /\ req'[c].role = req[c].role /\ req'[c].todo = todo /\ req'[c].ok = ~breaks
    BY <1>0, <2>1, <2>2 DEF TypeOK, Request
  <2>4. ~breaks
    BY <2>3
  <2>5. data[u] \subseteq ToDelete \cup Kept \cup {"surplus"}
    BY <1>0, <2>1 DEF TypeOK, Collections, ToDelete
  <2>6. "users" \in todo
    BY DEF ToDelete
  <2>7. QED BY <2>1, <2>2, <2>3, <2>4, <2>5, <2>6 DEF Progress
<1>3. ASSUME NEW v \in Venues, NEW fails \in BOOLEAN, cascade_delete_venue(c, v, fails)
      PROVE  Progress(c)'
  <2> DEFINE u == req[c].sub
  <2>1. req[c] \in Request /\ req[c] # None /\ u \in Users /\ u # None
    BY <1>3, UnderRequest DEF cascade_delete_venue, Under, Request
  <2>2. req' = [req EXCEPT ![c].todo = @ \ {v}, ![c].ok = @ /\ ~fails] /\ Deleting(c)
    BY <1>0, <1>3, <2>1 DEF cascade_delete_venue, Deleting, Under, TypeOK
  <2>3. /\ req'[c].sub = u /\ req'[c].role = req[c].role /\ req'[c].todo = req[c].todo \ {v}
        /\ req'[c].alone = req[c].alone
        /\ req'[c].ok = (req[c].ok /\ ~fails)
    BY <1>0, <2>1, <2>2 DEF TypeOK, Request
  <2>4. Progress(c) /\ ~fails
    BY <2>2, <2>3 DEF DeletionInv, Progress
  <2>5. UNCHANGED <<users, data>> /\ venue' = [venue EXCEPT ![v] = None]
    BY <1>3, <2>4 DEF cascade_delete_venue
  <2>6. data[u] \subseteq Cascade \cup Kept \cup {"locations", "surplus"} /\ v \notin Cascade \cup {"users", "locations"}
    BY <1>0, <2>1 DEF TypeOK, Collections
  <2>7. QED BY <1>0, <2>1, <2>3, <2>4, <2>5, <2>6 DEF Progress, TypeOK
<1>4. ASSUME NEW k \in ToDelete, NEW fails \in BOOLEAN, delete_me(c, k, fails)
      PROVE  Progress(c)'
  <2> DEFINE u == req[c].sub
  <2>1. req[c] \in Request /\ req[c] # None /\ u \in Users /\ Deleting(c)
    BY <1>4, UnderRequest DEF delete_me, Deleting, Under, Request
  <2>2. req' = [req EXCEPT ![c].todo = @ \ {k}, ![c].ok = @ /\ ~fails] /\ req[c].todo \cap Venues = {}
    BY <1>4 DEF delete_me
  <2>3. /\ req'[c].sub = u /\ req'[c].role = req[c].role /\ req'[c].todo = req[c].todo \ {k}
        /\ req'[c].alone = req[c].alone
        /\ req'[c].ok = (req[c].ok /\ ~fails)
    BY <1>0, <2>1, <2>2 DEF TypeOK, Request
  <2>4. Progress(c) /\ ~fails
    BY <2>1, <2>3 DEF DeletionInv, Progress
  <2>5. UNCHANGED venue /\ data' = [data EXCEPT ![u] = Left(u, k)]
        /\ users' = IF k = "users" THEN [users EXCEPT ![u] = None] ELSE users
    BY <1>4, <2>4 DEF delete_me
  <2>6. data'[u] \subseteq data[u] \ {k} /\ (k = "users" => users'[u] = None) /\ (k # "users" => users'[u] = users[u])
    BY <1>0, <2>1, <2>5 DEF TypeOK, Left
  <2>7. QED BY <2>2, <2>3, <2>4, <2>5, <2>6 DEF Progress
<1>5. QED BY <1>1, <1>2, <1>3, <1>4, DeletionSteps

LEMMA CleanSteps ==
  ASSUME [Next]_vars
  PROVE  \/ clean' = clean
         \/ \E c \in Clients : /\ DeleteAnswer(c) /\ req[c].ok /\ req[c].alone
                               /\ clean' = clean \cup {<<req[c].sub, req[c].role>>}
<1>1. ASSUME NEW c \in Clients, NEW u \in Users,
             \/ admin_patch_venue_manager(c, u) \/ \E p \in Passwords : auth_register_finish(c, u, p)
             \/ \E role \in Roles, tier \in Tiers, returns \in BOOLEAN :
                  admin_patch_user(c, u, role, tier, returns)
      PROVE  clean' = clean
  BY <1>1 DEF admin_patch_venue_manager, auth_register_finish, admin_patch_user
<1>2. ASSUME NEW s \in Sessions, \/ \E u \in Users : auth_login_start(s, u)
                                 \/ \E c \in Clients, u \in Users, p \in Passwords : LoginTake(c, s, u, p)
      PROVE  clean' = clean
  BY <1>2 DEF auth_login_start, LoginTake
<1>3. ASSUME NEW c \in Clients, \/ LoginIssue(c) \/ PasswordToken(c) \/ Fails(c)
                                \/ \E op \in Operations : Arrive(c, op)
                                \/ \E k \in Collections : Write(c, k)
                                \/ \E e \in Clients : WriteTwice(c, e)
                                \/ \E p \in Passwords, raw \in BOOLEAN : users_me_password_finish(c, p, raw)
      PROVE  clean' = clean
  BY <1>3 DEF LoginIssue, PasswordToken, Fails, Arrive, Write, WriteTwice, users_me_password_finish
<1>4. ASSUME NEW c \in Clients, NEW v \in Venues,
             post_manager_venues(c, v) \/ delete_manager_venue(c, v) \/ Reassign(c, v)
      PROVE  clean' = clean
  BY <1>4 DEF post_manager_venues, delete_manager_venue, Reassign
<1>5. ASSUME NEW c \in Clients, NEW fails \in BOOLEAN,
             \/ DeleteVenues(c, fails) \/ \E v \in Venues : cascade_delete_venue(c, v, fails)
             \/ \E k \in ToDelete : delete_me(c, k, fails)
      PROVE  clean' = clean
  BY <1>5 DEF DeleteVenues, cascade_delete_venue, delete_me
<1>6. ASSUME NEW c \in Clients, DeleteAnswer(c)
      PROVE  \/ clean' = clean
             \/ req[c].ok /\ req[c].alone /\ clean' = clean \cup {<<req[c].sub, req[c].role>>}
  BY <1>6 DEF DeleteAnswer
<1>7. CASE Restart \/ Tick \/ UNCHANGED vars
  BY <1>7 DEF Restart, Tick, vars
<1>8. QED BY <1>1, <1>2, <1>3, <1>4, <1>5, <1>6, <1>7 DEF Next

LEMMA DeletionStep ==
  TypeOK /\ AccountsInv /\ DeletionInv /\ DeletedForGood /\ [Next]_vars
    => DeletionInv' /\ DeletedForGood'
<1> SUFFICES ASSUME TypeOK, AccountsInv, DeletionInv, DeletedForGood, [Next]_vars
             PROVE  DeletionInv' /\ DeletedForGood'
  OBVIOUS
<1>1. /\ TypeOK' /\ born \subseteq born' /\ Alone /\ Alone'
      /\ \A u \in Users : Grows(u)
      /\ \A u \in Users : users[u] = None => InFlight(u)' \subseteq InFlight(u)
  <2>1. Alone
    BY DEF DeletionInv, Alone
  <2>2. QED BY <2>1, TypeStep, BornGrows, AccountGrows, InFlightStep
<1> DEFINE Gone(d) ==
      /\ d[1] \in born /\ InFlight(d[1]) = {} /\ users[d[1]] = None /\ data[d[1]] \subseteq Kept \cup {"surplus"}
      /\ d[2] = "venue_manager" => \A v \in Venues : venue[v] # d[1]
<1>2. ASSUME NEW d \in Users \X Roles, Gone(d)
      PROVE  Gone(d)'
  <2>1. d[1] \in Users
    OBVIOUS
  <2>2. data'[d[1]] \subseteq data[d[1]] /\ \A v \in Venues : venue'[v] = d[1] => venue[v] = d[1]
    BY <1>2, <2>1, Effects
  <2>3. users'[d[1]] = None /\ InFlight(d[1])' = {} /\ d[1] \in born'
    BY <1>1, <1>2, <2>1 DEF Grows
  <2>4. QED BY <1>2, <2>2, <2>3
<1>3. \A d \in clean : d \in Users \X Roles /\ Gone(d)
  BY DEF TypeOK, DeletionInv, DeletedForGood
<1>4. ASSUME NEW c \in Clients, DeleteAnswer(c), req[c].ok, req[c].alone,
             NEW d, d[1] = req[c].sub, d[2] = req[c].role
      PROVE  Gone(d)'
  <2>0. PICK u : u = req[c].sub
    OBVIOUS
  <2>1. Deleting(c) /\ req[c] \in Request /\ u \in Users /\ req[c].todo = {} /\ req[c] # None
        /\ req[c].op = "delete"
    BY <1>4, <2>0, UnderRequest DEF DeleteAnswer, Deleting, Under, Request
  <2>2. u \in born /\ InFlight(u) = {c}
    BY <1>1, <1>4, <2>0, <2>1 DEF Alone
  <2>3. data[u] \subseteq Kept \cup {"surplus"} /\ users[u] = None
        /\ (req[c].role = "venue_manager" => \A v \in Venues : venue[v] # u)
    BY <1>4, <2>0, <2>1 DEF DeletionInv
  <2>4. InFlight(u)' = {}
    <3>1. req'[c] = None
      BY <1>4 DEF DeleteAnswer, TypeOK
    <3>2. c \notin InFlight(u)'
      BY <3>1 DEF InFlight
    <3>3. InFlight(u)' \subseteq {c}
      BY <1>1, <2>1, <2>2, <2>3
    <3>4. QED BY <3>2, <3>3
  <2>5. UNCHANGED <<users, born, venue, data>>
    BY <1>4 DEF DeleteAnswer
  <2>6. d[1] = u /\ d[2] = req[c].role
    BY <1>4, <2>0
  <2>7. QED BY <2>2, <2>3, <2>4, <2>5, <2>6
<1>5. \/ clean' = clean
      \/ \E c \in Clients : /\ DeleteAnswer(c) /\ req[c].ok /\ req[c].alone
                            /\ clean' = clean \cup {<<req[c].sub, req[c].role>>}
  BY CleanSteps
<1>6. ASSUME NEW d \in clean' PROVE Gone(d)'
  <2>1. CASE d \in clean
    BY <1>2, <1>3, <2>1
  <2>2. CASE d \notin clean
    <3>1. PICK c \in Clients : /\ DeleteAnswer(c) /\ req[c].ok /\ req[c].alone
                               /\ d = <<req[c].sub, req[c].role>>
      BY <1>5, <2>2
    <3>2. QED BY <1>4, <3>1
  <2>3. QED BY <2>1, <2>2
<1>7. DeletedForGood'
  BY <1>6 DEF DeletedForGood
<1>8. \A c \in Clients : Deleting(c)' /\ req'[c].ok /\ req'[c].alone => Progress(c)'
  BY ProgressStep
<1>9. QED BY <1>1, <1>6, <1>7, <1>8 DEF DeletionInv, Alone, Progress

\* THEOREM. After a deletion that overlapped no other request about the account, whatever
\* else happened meanwhile, nothing of it is or comes back but the collections deletions keep
\* and the second of two locations, if overlapping upserts had left two.
THEOREM DeletionIsForGood == Spec => []DeletedForGood
<1>1. Init => DeletionInv /\ DeletedForGood
  BY DEF Init, DeletionInv, DeletedForGood, Deleting, Under
<1>2. QED BY <1>1, TokenInvariant, DeletionStep, PTL DEF Spec

=============================================================================
