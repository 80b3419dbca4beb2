------------------------------ MODULE Messaging ------------------------------
(***************************************************************************)
(* Who may message whom: messages-service, favourites-service and          *)
(* blocks-service on their shared database, with the parts of              *)
(* location-service and users-service that feed them.                      *)
(*                                                                         *)
(* A send is a chain of reads made one after the other, in three services, *)
(* and ends in an insert; between two reads anybody may favour, block,     *)
(* move, go offline or change tier.  A range-sync is a second chain, begun *)
(* by a location push, that remembers on the favourite documents whether   *)
(* the two were in range; sends to somebody offline rely on it.  Every     *)
(* await is a step; a failed, timed out or cancelled call ends the chain.  *)
(*                                                                         *)
(* Accounts exist here (Accounts deletes them), positions are a few places *)
(* with a distance, and a venue, which favours nobody, is left out.        *)
(***************************************************************************)
EXTENDS Integers

CONSTANTS
  Users, Places, Tiers,
  Dist,         \* metres between two places
  Radii,        \* what an administrator may set a message radius to, -1 no limit
  Regular,      \* the tier assumed when a user's tier cannot be read
  Syncs,        \* range-syncs that can be under way at once
  DbBacked,     \* LOCATION_STORE=db: the store is the collection range-sync reads
  RateMax,      \* sends of one user per window
  MaxOps,       \* bound on what users and administrators do
  Senders,      \* the users who send
  Retiered,     \* the users whose tier an administrator changes
  None

Pairs == {p \in Users \X Users : p[1] # p[2]}

ASSUME MessagingAssumption ==
  /\ Dist \in [Places \X Places -> Nat]
  /\ \A p, q \in Places : Dist[<<p, q>>] = Dist[<<q, p>>]
  /\ Radii \subseteq Int /\ Radii # {}
  /\ Regular \in Tiers
  /\ RateMax \in Nat \ {0}
  /\ DbBacked \in BOOLEAN
  /\ None \notin Users \cup Places \cup Tiers /\ None \notin Radii
  /\ None \notin {"none", "unset", "in", "out"}

VARIABLES
  tier,       \* the tier of each user
  radius,     \* the message radius of each tier (authority-service)
  favs,       \* favourites: no document, or its withinRange: unset, in, out
  blocks,     \* <<blocker, blocked>>
  notes,      \* notifications <<recipient, from>>
  loc,        \* the live location of each user
  messages,   \* stored messages per <<from, to>>
  buckets,    \* UserBuckets: sends counted in the current window
  cache,      \* radius_cache of favourites-service
  send,       \* the send each user has under way
  sync,       \* range-sync calls under way
  posting,    \* post_favourite calls that have still to notify
  retier,     \* the user whose flags admin_patch_tier has still to reset
  held,       \* history: what was true at some moment of each user's send
  ever,       \* history: the tiers, radii and places there have been
  ops

store   == <<favs, blocks, notes, messages>>
vars    == <<tier, radius, loc, store, buckets, cache, send, sync, posting, retier, held, ever, ops>>

Flags   == {"none", "unset", "in", "out"}
InRange(d, r) == r = -1 \/ d <= r

NoSend  == [pc |-> "idle", to |-> None, tier |-> None, toTier |-> None,
            mine |-> None, theirs |-> None, at |-> None, toAt |-> None,
            radius |-> None, toRadius |-> None]
NoSync  == [pc |-> "idle", user |-> None, at |-> None, others |-> {}, locs |-> [u \in Users |-> None],
            tier |-> None, tiers |-> [u \in Users |-> Regular], write |-> {}, flag |-> "unset"]

\* What the properties ask of a send from u: true in this state?
Facts(u) ==
  LET v == send[u].to IN
  IF v \in {None, u} THEN {}
  ELSE (IF blocks \cap {<<u, v>>, <<v, u>>} = {} THEN {<<"unblocked">>} ELSE {})
       \cup {<<"fav", p>> : p \in {q \in {<<u, v>>, <<v, u>>} : favs[q] # "none"}}
       \cup (IF favs[<<u, v>>] = "in" THEN {<<"in">>} ELSE {})
       \cup {<<"at", w, loc[w]>> : w \in {u, v}}
       \cup {<<"tier", w, tier[w]>> : w \in {u, v}}
       \cup {<<"radius", t, radius[t]>> : t \in Tiers}

\* What a range-sync may find: the tier of somebody, a radius, a place.
Seen ==
  {<<"tier", u, t>> : u \in Users, t \in {Regular}} \cup {<<"tier", u, tier[u]>> : u \in Users}
  \cup {<<"radius", t, radius[t]>> : t \in Tiers} \cup {<<"at", u, loc[u]>> : u \in Users}

\* Nothing under way, nothing counted.
Quiet ==
  /\ blocks = {} /\ notes = {} /\ posting = {} /\ retier = None
  /\ messages = [p \in Users \X Users |-> 0] /\ buckets = [u \in Users |-> 0]
  /\ cache = [t \in Tiers |-> None]
  /\ send = [u \in Users |-> NoSend] /\ sync = [s \in Syncs |-> NoSync]
  /\ held = [u \in Users |-> {}] /\ ever = Seen
  /\ ops = 0

Init ==
  /\ tier \in [Users -> Tiers] /\ radius \in [Tiers -> Radii]
  /\ favs = [p \in Pairs |-> "none"] /\ loc = [u \in Users |-> None]
  /\ Quiet

\* What an action leaves alone; the history variables watch every step.
Leave(v) ==
  /\ UNCHANGED v
  /\ held' = [u \in Users |-> IF send[u].pc # "idle" /\ send'[u].pc = "idle" THEN {}
                              ELSE held[u] \cup Facts(u)']
  /\ ever' = ever \cup Seen'

Act == ops < MaxOps /\ ops' = ops + 1

(***************************************************************************)
(* favourites-service and blocks-service.                                  *)
(***************************************************************************)
\* The unique index refuses a second document of the pair.
post_favourite(a, b) ==
  /\ Act /\ a # b /\ favs[<<a, b>>] = "none"
  /\ favs' = [favs EXCEPT ![<<a, b>>] = "unset"]
  /\ posting' = posting \cup {<<a, b>>}
  /\ Leave(<<tier, radius, loc, blocks, notes, messages, buckets, cache, send, sync, retier>>)

\* The notification follows the insert; a failure is logged only.
notify_favourite(p, ok) ==
  /\ p \in posting
  /\ posting' = posting \ {p}
  /\ notes' = IF ok THEN notes \cup {<<p[2], p[1]>>} ELSE notes
  /\ Leave(<<tier, radius, loc, favs, blocks, messages, buckets, cache, send, sync, retier, ops>>)

delete_favourite(a, b) ==
  /\ Act /\ a # b /\ favs[<<a, b>>] # "none"
  /\ favs' = [favs EXCEPT ![<<a, b>>] = "none"]
  /\ Leave(<<tier, radius, loc, blocks, notes, messages, buckets, cache, send, sync, posting, retier>>)

delete_notification(n) ==
  /\ Act /\ n \in notes
  /\ notes' = notes \ {n}
  /\ Leave(<<tier, radius, loc, favs, blocks, messages, buckets, cache, send, sync, posting, retier>>)

\* Favourites stay when somebody is blocked.
post_block(a, b) ==
  /\ Act /\ a # b /\ <<a, b>> \notin blocks
  /\ blocks' = blocks \cup {<<a, b>>}
  /\ Leave(<<tier, radius, loc, favs, notes, messages, buckets, cache, send, sync, posting, retier>>)

delete_block(a, b) ==
  /\ Act /\ <<a, b>> \in blocks
  /\ blocks' = blocks \ {<<a, b>>}
  /\ Leave(<<tier, radius, loc, favs, notes, messages, buckets, cache, send, sync, posting, retier>>)

(***************************************************************************)
(* Positions and tiers.  A first push starts a range-sync; the call is     *)
(* made by a task of its own and may never arrive.                         *)
(***************************************************************************)
\* first: the store did not show the user when it was asked, which DbStore does not
\* after a failed query either.
put_location(u, p, first) ==
  /\ Act /\ loc[u] # p
  /\ loc[u] = None => first
  /\ loc' = [loc EXCEPT ![u] = p]
  /\ IF first
     THEN \E s \in Syncs : /\ sync[s].pc = "idle"
                           /\ sync' = [sync EXCEPT ![s] = [NoSync EXCEPT !.pc = "find", !.user = u, !.at = p]]
     ELSE sync' = sync
  /\ Leave(<<tier, radius, store, buckets, cache, send, posting, retier>>)

\* DELETE /location, or the entry expires.
leave(u) ==
  /\ Act /\ loc[u] # None
  /\ loc' = [loc EXCEPT ![u] = None]
  /\ Leave(<<tier, radius, store, buckets, cache, send, sync, posting, retier>>)

admin_patch_tier(u, t) ==
  /\ Act /\ u \in Retiered /\ retier = None /\ tier[u] # t
  /\ tier' = [tier EXCEPT ![u] = t]
  /\ retier' = u
  /\ Leave(<<radius, loc, store, buckets, cache, send, sync, posting>>)

\* The second write of admin_patch_tier; its result is not looked at.
reset_flags(ok) ==
  /\ retier # None
  /\ favs' = [p \in Pairs |-> IF ok /\ retier \in {p[1], p[2]} /\ favs[p] # "none" THEN "unset" ELSE favs[p]]
  /\ retier' = None
  /\ Leave(<<tier, radius, loc, blocks, notes, messages, buckets, cache, send, sync, posting, ops>>)

admin_update_tier(t, r) ==
  /\ Act /\ radius[t] # r
  /\ radius' = [radius EXCEPT ![t] = r]
  /\ Leave(<<tier, loc, store, buckets, cache, send, sync, posting, retier>>)

(***************************************************************************)
(* post_range_sync of favourites-service: the pairs, the live positions of *)
(* the others, the tiers, the radii through a cache that is never          *)
(* refreshed, then one update per direction.                               *)
(***************************************************************************)
\* The call, or a query whose failure ends the handler, fails.
SyncLost(s) ==
  /\ sync[s].pc # "idle"
  /\ sync' = [sync EXCEPT ![s] = NoSync]
  /\ Leave(<<tier, radius, loc, store, buckets, cache, send, posting, retier, ops>>)

SyncTo(s, j) ==
  /\ sync' = [sync EXCEPT ![s] = j]
  /\ UNCHANGED <<tier, radius, loc, buckets, send, posting, retier, ops>>

SyncFind(s) ==
  LET j == sync[s] IN
  /\ j.pc = "find"
  /\ LET others == {v \in Users \ {j.user} : favs[<<j.user, v>>] # "none" \/ favs[<<v, j.user>>] # "none"}
     IN  SyncTo(s, IF others = {} THEN NoSync ELSE [j EXCEPT !.pc = "locs", !.others = others])
  /\ Leave(<<store, cache>>)

\* The `locations` collection holds the live positions under DbStore only.
SyncLocs(s) ==
  LET j    == sync[s]
      locs == [v \in Users |-> IF DbBacked /\ v \in j.others THEN loc[v] ELSE None] IN
  /\ j.pc = "locs"
  /\ SyncTo(s, IF \A v \in Users : locs[v] = None THEN NoSync
               ELSE [j EXCEPT !.pc = "tier", !.locs = locs, !.others = {}])
  /\ Leave(<<store, cache>>)

\* An unreadable tier counts as "regular".
SyncTier(s, ok) ==
  /\ sync[s].pc = "tier"
  /\ SyncTo(s, [sync[s] EXCEPT !.pc = "tiers", !.tier = IF ok THEN tier[sync[s].user] ELSE Regular])
  /\ Leave(<<store, cache>>)

SyncTiers(s, ok) ==
  /\ sync[s].pc = "tiers"
  /\ SyncTo(s, [sync[s] EXCEPT !.pc = "pairs",
                  !.tiers = [v \in Users |-> IF ok /\ sync[s].locs[v] # None THEN tier[v] ELSE Regular]])
  /\ Leave(<<store, cache>>)

get_message_radius(t) == IF cache[t] # None THEN cache[t] ELSE radius[t]

\* Mutant: one of the two radii suffices.
SyncPairEither(s, v, got) ==
  LET j      == sync[s]
      within == \E t \in {j.tier, j.tiers[v]} : InRange(Dist[<<j.at, j.locs[v]>>], radius[t]) IN
  /\ j.pc = "pairs" /\ j.write = {} /\ j.locs[v] # None
  /\ cache' = [t \in Tiers |-> IF t \in got THEN radius[t] ELSE cache[t]]
  /\ SyncTo(s, [j EXCEPT !.locs[v] = None, !.flag = IF within THEN "in" ELSE "out",
                         !.write = {<<j.user, v>>, <<v, j.user>>}])
  /\ Leave(store)

\* The next pair of the loop: the radii not cached are asked for, got arrive;
\* without both the pair is skipped.
SyncPair(s, v, got) ==
  LET j      == sync[s]
      both   == \A t \in {j.tier, j.tiers[v]} : cache[t] # None \/ t \in got
      within == \A t \in {j.tier, j.tiers[v]} : InRange(Dist[<<j.at, j.locs[v]>>], get_message_radius(t)) IN
  /\ j.pc = "pairs" /\ j.write = {} /\ j.locs[v] # None
  /\ got \subseteq {t \in {j.tier, j.tiers[v]} : cache[t] = None}
  /\ cache' = [t \in Tiers |-> IF t \in got THEN radius[t] ELSE cache[t]]
  /\ SyncTo(s, IF both THEN [j EXCEPT !.locs[v] = None, !.flag = IF within THEN "in" ELSE "out",
                                      !.write = {<<j.user, v>>, <<v, j.user>>}]
               ELSE [j EXCEPT !.locs[v] = None])
  /\ Leave(store)

\* One of the two joined updates; it finds no document when the favourite is gone.
SyncWrite(s, p, ok) ==
  /\ sync[s].pc = "pairs" /\ p \in sync[s].write
  /\ favs' = IF ok /\ favs[p] # "none" THEN [favs EXCEPT ![p] = sync[s].flag] ELSE favs
  /\ SyncTo(s, [sync[s] EXCEPT !.write = @ \ {p}])
  /\ Leave(<<blocks, notes, messages, cache>>)

SyncDone(s) ==
  /\ sync[s].pc = "pairs" /\ sync[s].write = {} /\ \A v \in Users : sync[s].locs[v] = None
  /\ SyncTo(s, NoSync)
  /\ Leave(<<store, cache>>)

(***************************************************************************)
(* send_message of messages-service.                                       *)
(***************************************************************************)
SendTo(u, r) ==
  /\ send' = [send EXCEPT ![u] = r]
  /\ UNCHANGED <<tier, radius, loc, cache, sync, posting, retier>>

\* Mutant: one send too many fits in the window.
SendStartMore(u, v) ==
  /\ Act /\ u \in Senders /\ send[u].pc = "idle" /\ buckets[u] <= RateMax
  /\ buckets' = [buckets EXCEPT ![u] = @ + 1]
  /\ SendTo(u, [NoSend EXCEPT !.pc = "recipient", !.to = v, !.tier = tier[u]])
  /\ Leave(store)

\* Rate limit and text; the sender's tier is the one the gateway verified.
SendStart(u, v) ==
  /\ Act /\ u \in Senders /\ send[u].pc = "idle" /\ buckets[u] < RateMax
  /\ buckets' = [buckets EXCEPT ![u] = @ + 1]
  /\ SendTo(u, [NoSend EXCEPT !.pc = "recipient", !.to = v, !.tier = tier[u]])
  /\ Leave(store)

\* The window of check_user_rate has passed when the next send arrives.
SendWindow(u) ==
  /\ Act /\ buckets[u] > 0
  /\ buckets' = [buckets EXCEPT ![u] = 0]
  /\ Leave(<<tier, radius, loc, store, cache, send, sync, posting, retier>>)

\* An error, a 5 s timeout or a client that goes away, at any await.
SendFails(u) ==
  /\ send[u].pc # "idle"
  /\ SendTo(u, NoSend)
  /\ Leave(<<store, buckets, ops>>)

SendRead(u, pc, r) ==
  /\ send[u].pc = pc
  /\ SendTo(u, r)
  /\ Leave(<<store, buckets, ops>>)

SendRecipient(u) ==
  LET r == send[u] IN
  SendRead(u, "recipient", [r EXCEPT !.pc = IF r.to = u THEN "insert" ELSE "blocks",
                                     !.toTier = tier[r.to]])

\* Mutant: only the sender's own blocks are looked up.
SendBlocksOwn(u) ==
  LET v == send[u].to IN
  SendRead(u, "blocks", IF <<u, v>> \in blocks THEN NoSend ELSE [send[u] EXCEPT !.pc = "pair"])

SendBlocks(u) ==
  LET v == send[u].to IN
  SendRead(u, "blocks", IF blocks \cap {<<u, v>>, <<v, u>>} # {} THEN NoSend
                        ELSE [send[u] EXCEPT !.pc = "pair"])

\* Mutant: the queries are repeated without end.
SendPairAgain(u) ==
  LET r == send[u] IN
  \/ SendRead(u, "pair", [r EXCEPT !.mine = favs[<<u, r.to>>], !.theirs = None])
  \/ SendRead(u, "pair", [r EXCEPT !.theirs = favs[<<r.to, u>>]])

\* get_pair_status: two queries of favourites-service, in either order.
SendPair(u) ==
  LET r == send[u] IN
  \/ r.mine = None /\ SendRead(u, "pair", [r EXCEPT !.mine = favs[<<u, r.to>>]])
  \/ r.theirs = None /\ SendRead(u, "pair", [r EXCEPT !.theirs = favs[<<r.to, u>>]])

SendMutual(u) ==
  LET r == send[u] IN
  /\ None \notin {r.mine, r.theirs}
  /\ SendRead(u, "pair", IF "none" \in {r.mine, r.theirs} THEN NoSend ELSE [r EXCEPT !.pc = "from"])

SendFrom(u) ==
  SendRead(u, "from", IF loc[u] = None THEN NoSend ELSE [send[u] EXCEPT !.pc = "to", !.at = loc[u]])

\* Offline, the remembered flag decides; online, the distance.  Whatever is not an
\* answer with a position (get_user of DbStore failed) counts as offline.
SendRecipientAt(u, ok) ==
  LET r == send[u] IN
  SendRead(u, "to", IF ok /\ loc[r.to] # None THEN [r EXCEPT !.pc = "radii", !.toAt = loc[r.to]]
                    ELSE IF r.mine = "in" THEN [r EXCEPT !.pc = "insert"] ELSE NoSend)

\* The radii of both tiers, asked for at once and answered in either order.
SendRadii(u) ==
  LET r == send[u] IN
  \/ r.radius = None /\ SendRead(u, "radii", [r EXCEPT !.radius = radius[r.tier]])
  \/ r.toRadius = None /\ SendRead(u, "radii", [r EXCEPT !.toRadius = radius[r.toTier]])

\* Mutant: the recipient's radius is not compared.
SendNearOwn(u) ==
  LET r == send[u] IN
  /\ None \notin {r.radius, r.toRadius}
  /\ SendRead(u, "radii", IF InRange(Dist[<<r.at, r.toAt>>], r.radius) THEN [r EXCEPT !.pc = "insert"] ELSE NoSend)

SendNear(u) ==
  LET r == send[u] IN
  /\ None \notin {r.radius, r.toRadius}
  /\ SendRead(u, "radii", IF \A x \in {r.radius, r.toRadius} : InRange(Dist[<<r.at, r.toAt>>], x)
                          THEN [r EXCEPT !.pc = "insert"] ELSE NoSend)

SendInsert(u) ==
  /\ send[u].pc = "insert"
  /\ messages' = [messages EXCEPT ![<<u, send[u].to>>] = @ + 1]
  /\ SendTo(u, NoSend)
  /\ Leave(<<favs, blocks, notes, buckets, ops>>)

\* delete_message by its sender, or the message expires.
delete_message(u, v) ==
  /\ Act /\ messages[<<u, v>>] > 0
  /\ messages' = [messages EXCEPT ![<<u, v>>] = @ - 1]
  /\ Leave(<<tier, radius, loc, favs, blocks, notes, buckets, cache, send, sync, posting, retier>>)

SendStep(u) ==
  \/ SendRecipient(u) \/ SendBlocks(u) \/ SendPair(u) \/ SendMutual(u) \/ SendFrom(u)
  \/ SendRadii(u) \/ SendNear(u) \/ SendInsert(u) \/ SendFails(u)
  \/ \E ok \in BOOLEAN : SendRecipientAt(u, ok)

SyncStep(s) ==
  \/ SyncFind(s) \/ SyncLocs(s) \/ SyncDone(s) \/ SyncLost(s)
  \/ \E ok \in BOOLEAN : \/ SyncTier(s, ok) \/ SyncTiers(s, ok)
                         \/ \E p \in Pairs : SyncWrite(s, p, ok)
  \/ \E v \in Users, got \in SUBSET Tiers : SyncPair(s, v, got)

UserStep ==
  \/ \E a, b \in Users : \/ post_favourite(a, b) \/ delete_favourite(a, b) \/ post_block(a, b)
                         \/ delete_block(a, b) \/ SendStart(a, b) \/ delete_message(a, b)
  \/ \E p \in Pairs, ok \in BOOLEAN : notify_favourite(p, ok)
  \/ \E n \in notes : delete_notification(n)
  \/ \E u \in Users : leave(u) \/ SendWindow(u) 
                        \/ \E p \in Places, first \in BOOLEAN : put_location(u, p, first)
  \/ \E u \in Users, t \in Tiers : admin_patch_tier(u, t)
  \/ \E t \in Tiers, r \in Radii : admin_update_tier(t, r)
  \/ \E ok \in BOOLEAN : reset_flags(ok)

Next == UserStep \/ (\E u \in Users : SendStep(u)) \/ (\E s \in Syncs : SyncStep(s))

Spec == Init /\ [][Next]_vars

(***************************************************************************)
(* Every await of a send and of a range-sync ends: the HTTP calls carry    *)
(* timeouts of 3 and 5 s and the database driver has its own.              *)
(***************************************************************************)
Fairness == (\A u \in Users : WF_vars(SendStep(u))) /\ \A s \in Syncs : WF_vars(SyncStep(s))

(***************************************************************************)
(* Properties.                                                             *)
(***************************************************************************)
\* Users, tiers, favourites, blocks and the locals of a send have their types; a user's bucket
\* never passes RateMax.
TypeOK ==
  /\ tier \in [Users -> Tiers] /\ radius \in [Tiers -> Radii]
  /\ favs \in [Pairs -> Flags] /\ blocks \subseteq Pairs /\ notes \subseteq Pairs
  /\ loc \in [Users -> Places \cup {None}]
  /\ messages \in [Users \X Users -> Nat] /\ buckets \in [Users -> 0 .. RateMax]
  /\ cache \in [Tiers -> Radii \cup {None}]
  /\ posting \subseteq Pairs /\ retier \in Users \cup {None}
  /\ \A u \in Users : send[u].pc \in {"blocks", "pair", "from", "to", "radii", "insert"} => send[u].toTier \in Tiers

Stored(p) == messages'[p] > messages[p]

\* Two people are in range of each other in what has been seen in facts.
NearIn(facts, u, v) ==
  \E p, q \in Places, s, t \in Tiers, x, y \in Radii :
    /\ {<<"at", u, p>>, <<"at", v, q>>, <<"tier", u, s>>, <<"tier", v, t>>,
        <<"radius", s, x>>, <<"radius", t, y>>} \subseteq facts
    /\ InRange(Dist[<<p, q>>], x) /\ InRange(Dist[<<p, q>>], y)

\* A message reaches the collection only if, at moments of that very send, neither
\* had blocked the other, each favoured the other and the sender was sharing a
\* position: send_message reads these one after the other and never acts on a value
\* older than the request.
SentWithConsent ==
  [][\A p \in Pairs : Stored(p) =>
       LET saw == held[p[1]] IN
       /\ <<"unblocked">> \in saw
       /\ {<<"fav", p>>, <<"fav", <<p[2], p[1]>> >>} \subseteq saw
       /\ \E x \in Places : <<"at", p[1], x>> \in saw]_vars

\* And only if the two were in range of each other during the send, or the sender's
\* favourite said "in range" during it: places, tiers, radii and the flag are read at
\* different times, and which of them count is decided on the way.
SentInRange ==
  [][\A p \in Pairs : Stored(p) =>
       \/ NearIn(held[p[1]], p[1], p[2])
       \/ <<"in">> \in held[p[1]]]_vars

\* A favourite says "in range" only if the two have been at places, with tiers and with
\* radii (or the tier assumed when theirs cannot be read), that are in range of each
\* other, however old what post_range_sync combined was.
FlagFounded == \A p \in Pairs : favs[p] = "in" => NearIn(ever, p[1], p[2])

\* Every send that was accepted ends, whatever happens meanwhile.
SendEnds == \A u \in Users : send[u].pc # "idle" ~> send[u].pc = "idle"

=============================================================================
