-------------------------- MODULE MessagingProofs --------------------------
(***************************************************************************)
(* What a stored message and a favourite's flag rest on, for any number of *)
(* users, places, tiers, radii and range-syncs under way.                  *)
(***************************************************************************)
EXTENDS Messaging, TLAPS

Send == [pc : {"idle", "recipient", "blocks", "pair", "from", "to", "radii", "insert"},
         to : Users \cup {None}, tier : Tiers \cup {None}, toTier : Tiers \cup {None},
         mine : Flags \cup {None}, theirs : Flags \cup {None},
         at : Places \cup {None}, toAt : Places \cup {None},
         radius : Radii \cup {None}, toRadius : Radii \cup {None}]

Sync == [pc : {"idle", "find", "locs", "tier", "tiers", "pairs"},
         user : Users \cup {None}, at : Places \cup {None}, others : SUBSET Users,
         locs : [Users -> Places \cup {None}], tier : Tiers \cup {None},
         tiers : [Users -> Tiers], write : SUBSET Pairs, flag : Flags]

\* The local variables that are set at each place.
Going(r, u) ==
  /\ r.to \in Users /\ r.tier \in Tiers
  /\ r.pc \notin {"recipient", "insert"} => r.to # u
  /\ r.pc # "recipient" => r.toTier \in Tiers
Running(j) ==
  /\ j.user \in Users /\ j.at \in Places /\ j.user \notin j.others
  /\ \A v \in Users : j.locs[v] # None => v # j.user
  /\ j.pc \in {"tiers", "pairs"} => j.tier \in Tiers

TypeInv ==
  /\ TypeOK
  /\ send \in [Users -> Send] /\ \A u \in Users : send[u].pc # "idle" => Going(send[u], u)
  /\ sync \in [Syncs -> Sync] /\ \A s \in Syncs : sync[s].pc # "idle" => Running(sync[s])

\* What a send has found out is something that was true during it.
Knows(r, u, saw) ==
  LET v == r.to IN
  v # u =>
    /\ <<"tier", u, r.tier>> \in saw
    /\ r.pc # "recipient" => <<"tier", v, r.toTier>> \in saw
    /\ r.pc \notin {"recipient", "blocks"} => <<"unblocked">> \in saw
    /\ r.mine \notin {None, "none"} => <<"fav", <<u, v>> >> \in saw
    /\ r.mine = "in" => <<"in">> \in saw
    /\ r.theirs \notin {None, "none"} => <<"fav", <<v, u>> >> \in saw
    /\ r.pc \in {"from", "to", "radii", "insert"} => {r.mine, r.theirs} \cap {None, "none"} = {}
    /\ r.pc \in {"to", "radii", "insert"} => r.at \in Places /\ <<"at", u, r.at>> \in saw
    /\ r.pc = "radii" => r.toAt \in Places /\ <<"at", v, r.toAt>> \in saw
    /\ r.radius # None => <<"radius", r.tier, r.radius>> \in saw
    /\ r.toRadius # None => r.pc # "recipient" /\ <<"radius", r.toTier, r.toRadius>> \in saw
    /\ r.pc = "insert" => NearIn(saw, u, v) \/ <<"in">> \in saw

SendInv ==
  \A u \in Users : send[u].pc # "idle" => Knows(send[u], u, held[u]) /\ Facts(u) \subseteq held[u]

\* What a range-sync has found out has been true some time.
Learnt(j, saw) ==
  /\ <<"at", j.user, j.at>> \in saw
  /\ \A v \in Users : j.locs[v] # None => <<"at", v, j.locs[v]>> \in saw
  /\ j.pc \in {"tiers", "pairs"} => <<"tier", j.user, j.tier>> \in saw
  /\ j.pc = "pairs" => \A v \in Users : <<"tier", v, j.tiers[v]>> \in saw
  /\ \A p \in j.write : j.flag = "in" => NearIn(saw, p[1], p[2])

SyncInv ==
  /\ Seen \subseteq ever
  /\ \A t \in Tiers : cache[t] # None => <<"radius", t, cache[t]>> \in ever
  /\ \A s \in Syncs : sync[s].pc # "idle" => Learnt(sync[s], ever)
  /\ FlagFounded

----------------------------------------------------------------------------
(* Types *)

USE MessagingAssumption

LEMMA NoRecords == NoSend \in Send /\ NoSync \in Sync
BY DEF NoSend, NoSync, Send, Sync, Flags

LEMMA TypeInit == Init => TypeInv
<1> SUFFICES ASSUME Init PROVE TypeInv
  OBVIOUS
<1>1. NoSend.pc = "idle" /\ NoSync.pc = "idle"
  BY DEF NoSend, NoSync
<1>2. QED BY <1>1, NoRecords DEF Init, Quiet, TypeInv, TypeOK, Flags

\* Steps of users and administrators.
LEMMA TypeUser == TypeInv /\ UserStep => TypeInv'
<1> SUFFICES ASSUME TypeInv, UserStep PROVE TypeInv'
  OBVIOUS
<1> USE DEF TypeInv, TypeOK, Leave, Act, store, Flags
<1>0. ASSUME NEW a \in Users, NEW b \in Users, a # b PROVE <<a, b>> \in Pairs
  BY <1>0 DEF Pairs
<1>1. ASSUME NEW a \in Users, NEW b \in Users, post_favourite(a, b) PROVE TypeInv'
  BY <1>0, <1>1 DEF post_favourite
<1>2. ASSUME NEW a \in Users, NEW b \in Users, delete_favourite(a, b) PROVE TypeInv'
  BY <1>0, <1>2 DEF delete_favourite
<1>3. ASSUME NEW a \in Users, NEW b \in Users, post_block(a, b) PROVE TypeInv'
  BY <1>0, <1>3 DEF post_block
<1>4. ASSUME NEW a \in Users, NEW b \in Users, delete_block(a, b) PROVE TypeInv'
  BY <1>4 DEF delete_block
<1>5. ASSUME NEW a \in Users, NEW b \in Users, SendStart(a, b) PROVE TypeInv'
  <2> DEFINE r == [NoSend EXCEPT !.pc = "recipient", !.to = b, !.tier = tier[a]]
  <2>1. r \in Send /\ r.pc = "recipient" /\ Going(r, a)
    BY NoRecords DEF NoSend, Send, Going
  <2>2. buckets' \in [Users -> 0 .. RateMax]
    BY <1>5 DEF SendStart
  <2>3. send' = [send EXCEPT ![a] = r]
    BY <1>5 DEF SendStart, SendTo
  <2>4. HIDE DEF r
  <2>5. QED BY <1>5, <2>1, <2>2, <2>3 DEF SendStart, SendTo
<1>6. ASSUME NEW a \in Users, NEW b \in Users, delete_message(a, b) PROVE TypeInv'
  <2>1. messages' \in [Users \X Users -> Nat]
    BY <1>6 DEF delete_message
  <2>2. QED BY <1>6, <2>1 DEF delete_message
<1>7. ASSUME NEW p \in Pairs, NEW ok \in BOOLEAN, notify_favourite(p, ok) PROVE TypeInv'
  <2>1. <<p[2], p[1]>> \in Pairs
    BY DEF Pairs
  <2>2. QED BY <1>7, <2>1 DEF notify_favourite
<1>8. ASSUME NEW n \in notes, delete_notification(n) PROVE TypeInv'
  BY <1>8 DEF delete_notification
<1>9. ASSUME NEW u \in Users, leave(u) PROVE TypeInv'
  BY <1>9 DEF leave
<1>10. ASSUME NEW u \in Users, SendWindow(u) PROVE TypeInv'
  BY <1>10 DEF SendWindow
<1>11. ASSUME NEW u \in Users, NEW p \in Places, NEW first \in BOOLEAN, put_location(u, p, first)
       PROVE  TypeInv'
  <2> DEFINE j == [NoSync EXCEPT !.pc = "find", !.user = u, !.at = p]
  <2>1. j \in Sync /\ Running(j)
    BY NoRecords DEF NoSync, Sync, Running
  <2>2. sync' = sync \/ \E s \in Syncs : sync' = [sync EXCEPT ![s] = j]
    BY <1>11 DEF put_location
  <2>3. HIDE DEF j
  <2>4. sync' \in [Syncs -> Sync] /\ \A s \in Syncs : sync'[s].pc # "idle" => Running(sync'[s])
    <3>1. CASE sync' = sync
      BY <3>1
    <3>2. ASSUME NEW s \in Syncs, sync' = [sync EXCEPT ![s] = j]
          PROVE  sync' \in [Syncs -> Sync] /\ \A o \in Syncs : sync'[o].pc # "idle" => Running(sync'[o])
      <4>1. sync \in [Syncs -> Sync] /\ \A o \in Syncs : sync[o].pc # "idle" => Running(sync[o])
        OBVIOUS
      <4>2. QED BY ONLY <2>1, <3>2, <4>1
    <3>3. QED BY <2>2, <3>1, <3>2
  <2>5. QED BY <1>11, <2>4 DEF put_location
<1>12. ASSUME NEW u \in Users, NEW t \in Tiers, admin_patch_tier(u, t) PROVE TypeInv'
  BY <1>12 DEF admin_patch_tier
<1>13. ASSUME NEW t \in Tiers, NEW r \in Radii, admin_update_tier(t, r) PROVE TypeInv'
  BY <1>13 DEF admin_update_tier
<1>14. ASSUME NEW ok \in BOOLEAN, reset_flags(ok) PROVE TypeInv'
  BY <1>14 DEF reset_flags
<1> HIDE DEF TypeInv
<1>15. QED
  BY <1>1, <1>2, <1>3, <1>4, <1>5, <1>6, <1>7, <1>8, <1>9, <1>10, <1>11, <1>12, <1>13, <1>14
  DEF UserStep

\* A send only reads, but for the insert.
LEMMA TypeSend == ASSUME TypeInv, NEW u \in Users, SendStep(u) PROVE TypeInv'
<1> USE DEF Flags
<1> DEFINE r == send[u]
           Fits(x) == x \in Send /\ (x.pc # "idle" => Going(x, u))
<1>0. /\ r \in Send /\ Fits(r) /\ Fits(NoSend)
      /\ favs \in [Pairs -> Flags] /\ tier \in [Users -> Tiers] /\ loc \in [Users -> Places \cup {None}]
      /\ radius \in [Tiers -> Radii]
  BY NoRecords DEF TypeInv, TypeOK, NoSend
<1>1. ASSUME NEW x, Fits(x), send' = [send EXCEPT ![u] = x],
             UNCHANGED <<tier, radius, loc, cache, sync, posting, retier, favs, blocks, notes, buckets>>,
             messages' \in [Users \X Users -> Nat]
      PROVE TypeInv'
  BY <1>1 DEF TypeInv, TypeOK, Going
<1>2. ASSUME NEW x, Fits(x), NEW pc, SendRead(u, pc, x) PROVE TypeInv'
  BY <1>1, <1>2 DEF SendRead, SendTo, Leave, store, TypeInv, TypeOK
<1>3. r.pc # "idle" => r.to \in Users /\ r.tier \in Tiers
  BY <1>0 DEF Going
<1>4. r.pc \in {"pair", "blocks", "from", "to", "radii"} =>
        r.to # u /\ r.toTier \in Tiers /\ <<u, r.to>> \in Pairs /\ <<r.to, u>> \in Pairs
  BY <1>0 DEF Going, Pairs
<1>5. CASE SendRecipient(u)
  <2>1. r.pc = "recipient" => Fits([r EXCEPT !.pc = IF r.to = u THEN "insert" ELSE "blocks", !.toTier = tier[r.to]])
    <3>1. ASSUME r.pc = "recipient", NEW pc \in {"insert", "blocks"}, pc = "blocks" => r.to # u
          PROVE  Fits([r EXCEPT !.pc = pc, !.toTier = tier[r.to]])
      BY <1>0, <1>3, <3>1 DEF Send, Going
    <3>2. QED BY <3>1
  <2>2. QED BY <1>2, <1>5, <2>1 DEF SendRecipient, SendRead
<1>6. CASE SendBlocks(u)
  <2>1. r.pc = "blocks" => Fits([r EXCEPT !.pc = "pair"])
    BY <1>0, <1>4 DEF Send, Going
  <2>2. QED BY <1>0, <1>2, <1>6, <2>1 DEF SendBlocks, SendRead
<1>7. CASE SendPair(u)
  <2>1. r.pc = "pair" => Fits([r EXCEPT !.mine = favs[<<u, r.to>>]]) /\ Fits([r EXCEPT !.theirs = favs[<<r.to, u>>]])
    BY <1>0, <1>4 DEF Send, Going
  <2>2. QED BY <1>0, <1>2, <1>7, <2>1 DEF SendPair, SendRead
<1>8. CASE SendMutual(u)
  <2>1. r.pc = "pair" => Fits([r EXCEPT !.pc = "from"])
    BY <1>0, <1>4 DEF Send, Going
  <2>2. QED BY <1>0, <1>2, <1>8, <2>1 DEF SendMutual, SendRead
<1>9. CASE SendFrom(u)
  <2>1. r.pc = "from" => Fits([r EXCEPT !.pc = "to", !.at = loc[u]])
    BY <1>0, <1>4 DEF Send, Going
  <2>2. QED BY <1>0, <1>2, <1>9, <2>1 DEF SendFrom, SendRead
<1>10. ASSUME NEW ok \in BOOLEAN, SendRecipientAt(u, ok) PROVE TypeInv'
  <2>1. r.pc = "to" => Fits([r EXCEPT !.pc = "radii", !.toAt = loc[r.to]]) /\ Fits([r EXCEPT !.pc = "insert"])
    BY <1>0, <1>3, <1>4 DEF Send, Going
  <2>2. QED BY <1>0, <1>2, <1>10, <2>1 DEF SendRecipientAt, SendRead
<1>11. CASE SendRadii(u)
  <2>1. r.pc = "radii" => Fits([r EXCEPT !.radius = radius[r.tier]]) /\ Fits([r EXCEPT !.toRadius = radius[r.toTier]])
    BY <1>0, <1>3, <1>4 DEF Send, Going
  <2>2. QED BY <1>0, <1>2, <1>11, <2>1 DEF SendRadii, SendRead
<1>12. CASE SendNear(u)
  <2>1. r.pc = "radii" => Fits([r EXCEPT !.pc = "insert"])
    BY <1>0, <1>4 DEF Send, Going
  <2>2. QED BY <1>0, <1>2, <1>12, <2>1 DEF SendNear, SendRead
<1>13. CASE SendInsert(u)
  <2>1. messages' \in [Users \X Users -> Nat]
    BY <1>0, <1>3, <1>13 DEF SendInsert, TypeInv, TypeOK
  <2>2. QED BY <1>0, <1>1, <1>13, <2>1 DEF SendInsert, SendTo, Leave
<1>14. CASE SendFails(u)
  BY <1>0, <1>1, <1>14 DEF SendFails, SendTo, Leave, store, TypeInv, TypeOK
<1>15. QED
  BY <1>5, <1>6, <1>7, <1>8, <1>9, <1>10, <1>11, <1>12, <1>13, <1>14 DEF SendStep

LEMMA TypeSync == ASSUME TypeInv, NEW s \in Syncs, SyncStep(s) PROVE TypeInv'
<1> DEFINE j == sync[s]
           Fits(x) == x \in Sync /\ (x.pc # "idle" => Running(x))
<1>0. /\ j \in Sync /\ Fits(j) /\ Fits(NoSync)
      /\ favs \in [Pairs -> Flags] /\ tier \in [Users -> Tiers] /\ loc \in [Users -> Places \cup {None}]
      /\ radius \in [Tiers -> Radii] /\ cache \in [Tiers -> Radii \cup {None}]
  BY NoRecords DEF TypeInv, TypeOK, NoSync
<1>1. ASSUME NEW x, Fits(x), sync' = [sync EXCEPT ![s] = x],
             UNCHANGED <<tier, radius, loc, buckets, send, posting, retier, blocks, notes, messages>>,
             favs' \in [Pairs -> Flags], cache' \in [Tiers -> Radii \cup {None}]
      PROVE TypeInv'
  BY <1>1 DEF TypeInv, TypeOK
<1>2. ASSUME NEW x, Fits(x), SyncTo(s, x), UNCHANGED <<store, cache>> PROVE TypeInv'
  BY <1>0, <1>1, <1>2 DEF SyncTo, store
<1>3. CASE SyncFind(s)
  <2>1. ASSUME NEW others \in SUBSET Users, j.pc = "find", j.user \notin others
        PROVE  Fits([j EXCEPT !.pc = "locs", !.others = others])
    BY <1>0, <2>1 DEF Sync, Running
  <2>2. QED BY <1>0, <1>2, <1>3, <2>1 DEF SyncFind, Leave
<1>4. CASE SyncLocs(s)
  <2> DEFINE locs == [v \in Users |-> IF DbBacked /\ v \in j.others THEN loc[v] ELSE None]
  <2>1. locs \in [Users -> Places \cup {None}] /\ \A v \in Users : locs[v] # None => v \in j.others
    BY <1>0
  <2>2. HIDE DEF locs
  <2>3. j.pc = "locs" => Fits([j EXCEPT !.pc = "tier", !.locs = locs, !.others = {}])
    BY <1>0, <2>1 DEF Sync, Running
  <2>4. (SyncTo(s, NoSync) \/ SyncTo(s, [j EXCEPT !.pc = "tier", !.locs = locs, !.others = {}]))
        /\ j.pc = "locs" /\ UNCHANGED <<store, cache>>
    BY <1>4 DEF SyncLocs, Leave, locs
  <2>5. QED BY <1>0, <1>2, <2>3, <2>4
<1>5. ASSUME NEW ok \in BOOLEAN, SyncTier(s, ok) PROVE TypeInv'
  <2>1. ASSUME NEW t \in Tiers, j.pc = "tier" PROVE Fits([j EXCEPT !.pc = "tiers", !.tier = t])
    BY <1>0, <2>1 DEF Sync, Running
  <2>2. j.pc = "tier" => tier[j.user] \in Tiers
    BY <1>0 DEF Running
  <2>3. QED BY <1>0, <1>2, <1>5, <2>1, <2>2 DEF SyncTier, Leave
<1>6. ASSUME NEW ok \in BOOLEAN, SyncTiers(s, ok) PROVE TypeInv'
  <2>1. ASSUME NEW t \in [Users -> Tiers], j.pc = "tiers" PROVE Fits([j EXCEPT !.pc = "pairs", !.tiers = t])
    BY <1>0, <2>1 DEF Sync, Running
  <2>2. [v \in Users |-> IF ok /\ j.locs[v] # None THEN tier[v] ELSE Regular] \in [Users -> Tiers]
    BY <1>0
  <2>3. QED BY <1>0, <1>2, <1>6, <2>1, <2>2 DEF SyncTiers, Leave
<1>7. ASSUME NEW v \in Users, NEW got \in SUBSET Tiers, SyncPair(s, v, got) PROVE TypeInv'
  <2>1. j.pc = "pairs" /\ j.locs[v] # None /\ v # j.user /\ j.user \in Users
    BY <1>0, <1>7 DEF SyncPair, Running
  <2>2. {<<j.user, v>>, <<v, j.user>>} \subseteq Pairs
    BY <2>1 DEF Pairs
  <2>3. Fits([j EXCEPT !.locs[v] = None])
    BY <1>0, <2>1 DEF Sync, Running
  <2>4. ASSUME NEW flag \in Flags
        PROVE  Fits([j EXCEPT !.locs[v] = None, !.flag = flag, !.write = {<<j.user, v>>, <<v, j.user>>}])
    BY <1>0, <2>1, <2>2 DEF Sync, Running
  <2>5. PICK x : Fits(x) /\ SyncTo(s, x)
    BY <1>7, <2>3, <2>4 DEF SyncPair, Flags
  <2>6. cache' \in [Tiers -> Radii \cup {None}] /\ UNCHANGED store
    BY <1>0, <1>7 DEF SyncPair, Leave
  <2>7. QED BY <1>0, <1>1, <2>5, <2>6 DEF SyncTo, store
<1>8. ASSUME NEW p \in Pairs, NEW ok \in BOOLEAN, SyncWrite(s, p, ok) PROVE TypeInv'
  <2>1. Fits([j EXCEPT !.write = @ \ {p}]) /\ j.flag \in Flags
    BY <1>0, <1>8 DEF SyncWrite, Sync, Running
  <2>2. favs' \in [Pairs -> Flags]
    BY <1>0, <1>8, <2>1 DEF SyncWrite
  <2>3. QED BY <1>0, <1>1, <1>8, <2>1, <2>2 DEF SyncWrite, SyncTo, Leave
<1>9. CASE SyncDone(s)
  BY <1>0, <1>2, <1>9 DEF SyncDone, Leave
<1>10. CASE SyncLost(s)
  BY <1>0, <1>1, <1>10 DEF SyncLost, Leave, store
<1>11. QED
  BY <1>3, <1>4, <1>5, <1>6, <1>7, <1>8, <1>9, <1>10 DEF SyncStep

LEMMA TypeStep == TypeInv /\ [Next]_vars => TypeInv'
<1>1. TypeInv /\ UNCHANGED vars => TypeInv'
  BY DEF vars, store, TypeInv, TypeOK
<1>2. QED BY <1>1, TypeUser, TypeSend, TypeSync DEF Next

\* THEOREM. Documents, counters and the locals of sends and range-syncs keep their types; a
\* user's bucket never passes RateMax.
THEOREM TypeCorrect == Spec => []TypeOK
<1>1. TypeInv => TypeOK
  BY DEF TypeInv
<1>2. QED BY <1>1, TypeInit, TypeStep, PTL DEF Spec

----------------------------------------------------------------------------
(* Sends *)

\* The history variables watch every step.
Watched ==
  /\ held' = [u \in Users |-> IF send[u].pc # "idle" /\ send'[u].pc = "idle" THEN {}
                              ELSE held[u] \cup Facts(u)']
  /\ ever' = ever \cup Seen'

LEMMA NextWatched == Next => Watched
<1> SUFFICES ASSUME Next PROVE Watched
  OBVIOUS
<1>0. ASSUME NEW x, Leave(x) PROVE Watched
  BY <1>0 DEF Leave, Watched
<1>1. CASE UserStep
  <2>1. ASSUME NEW a \in Users, NEW b \in Users,
               \/ post_favourite(a, b) \/ delete_favourite(a, b) \/ post_block(a, b)
               \/ delete_block(a, b) \/ SendStart(a, b) \/ delete_message(a, b)
        PROVE  Watched
    BY <1>0, <2>1 DEF post_favourite, delete_favourite, post_block, delete_block, SendStart, delete_message
  <2>2. ASSUME NEW p \in Pairs, NEW ok \in BOOLEAN, notify_favourite(p, ok) PROVE Watched
    BY <1>0, <2>2 DEF notify_favourite
  <2>3. ASSUME NEW u \in Users, \/ leave(u) \/ SendWindow(u)
                                \/ \E p \in Places, first \in BOOLEAN : put_location(u, p, first)
        PROVE  Watched
    BY <1>0, <2>3 DEF leave, SendWindow, put_location
  <2>4. ASSUME NEW u \in Users, NEW t \in Tiers, admin_patch_tier(u, t) PROVE Watched
    BY <1>0, <2>4 DEF admin_patch_tier
  <2>5. ASSUME NEW t \in Tiers, NEW r \in Radii, admin_update_tier(t, r) PROVE Watched
    BY <1>0, <2>5 DEF admin_update_tier
  <2>6. ASSUME NEW ok \in BOOLEAN, reset_flags(ok) PROVE Watched
    BY <1>0, <2>6 DEF reset_flags
  <2>7. ASSUME NEW n \in notes, delete_notification(n) PROVE Watched
    BY <1>0, <2>7 DEF delete_notification
  <2>8. QED BY <1>1, <2>1, <2>2, <2>3, <2>4, <2>5, <2>6, <2>7 DEF UserStep
<1>2. ASSUME NEW u \in Users, SendStep(u) PROVE Watched
  <2>1. ASSUME NEW pc, NEW r, SendRead(u, pc, r) PROVE Watched
    BY <1>0, <2>1 DEF SendRead
  <2>2. CASE SendInsert(u) \/ SendFails(u)
    BY <1>0, <2>2 DEF SendInsert, SendFails
  <2>3. QED BY <1>2, <2>1, <2>2 DEF SendStep, SendRecipient, SendBlocks, SendPair, SendMutual,
               SendFrom, SendRecipientAt, SendRadii, SendNear
<1>3. ASSUME NEW s \in Syncs, SyncStep(s) PROVE Watched
  BY <1>0, <1>3 DEF SyncStep, SyncFind, SyncLocs, SyncTier, SyncTiers, SyncPair, SyncWrite,
     SyncDone, SyncLost
<1>4. QED BY <1>1, <1>2, <1>3 DEF Next

\* What is true in a state is among the facts of a send to somebody else.
LEMMA FactsHold ==
  ASSUME NEW u \in Users, NEW v \in Users, v = send[u].to, v # u
  PROVE  /\ <<"tier", u, tier[u]>> \in Facts(u) /\ <<"tier", v, tier[v]>> \in Facts(u)
         /\ <<"at", u, loc[u]>> \in Facts(u) /\ <<"at", v, loc[v]>> \in Facts(u)
         /\ blocks \cap {<<u, v>>, <<v, u>>} = {} => <<"unblocked">> \in Facts(u)
         /\ favs[<<u, v>>] # "none" => <<"fav", <<u, v>> >> \in Facts(u)
         /\ favs[<<v, u>>] # "none" => <<"fav", <<v, u>> >> \in Facts(u)
         /\ favs[<<u, v>>] = "in" => <<"in">> \in Facts(u)
         /\ \A t \in Tiers : <<"radius", t, radius[t]>> \in Facts(u)
<1>1. {<<"tier", w, tier[w]>> : w \in {u, v}} \cup {<<"at", w, loc[w]>> : w \in {u, v}} \subseteq Facts(u)
  BY DEF Facts
<1>2. {<<"radius", t, radius[t]>> : t \in Tiers} \subseteq Facts(u)
  BY DEF Facts
<1>3. {<<"fav", p>> : p \in {q \in {<<u, v>>, <<v, u>>} : favs[q] # "none"}} \subseteq Facts(u)
  BY DEF Facts
<1>4. /\ blocks \cap {<<u, v>>, <<v, u>>} = {} => <<"unblocked">> \in Facts(u)
      /\ favs[<<u, v>>] = "in" => <<"in">> \in Facts(u)
  BY DEF Facts
<1>5. QED BY <1>1, <1>2, <1>3, <1>4

LEMMA NearInMore ==
  ASSUME NEW u, NEW v, NEW A, NEW B, A \subseteq B, NearIn(A, u, v)
  PROVE  NearIn(B, u, v)
<1> DEFINE Near(p, q, s, t, x, y, saw) ==
      /\ {<<"at", u, p>>, <<"at", v, q>>, <<"tier", u, s>>, <<"tier", v, t>>,
          <<"radius", s, x>>, <<"radius", t, y>>} \subseteq saw
      /\ InRange(Dist[<<p, q>>], x) /\ InRange(Dist[<<p, q>>], y)
<1>1. PICK p, q \in Places, s, t \in Tiers, x, y \in Radii : Near(p, q, s, t, x, y, A)
  BY DEF NearIn
<1>2. Near(p, q, s, t, x, y, B)
  BY <1>1
<1>3. \E p1, q1 \in Places, s1, t1 \in Tiers, x1, y1 \in Radii : Near(p1, q1, s1, t1, x1, y1, B)
  <2> HIDE DEF Near
  <2> WITNESS p \in Places, q \in Places, s \in Tiers, t \in Tiers, x \in Radii, y \in Radii
  <2> QED BY <1>2
<1>4. QED BY <1>3 DEF NearIn

LEMMA KnowsMore ==
  ASSUME NEW r, NEW u, NEW A, NEW B, A \subseteq B, Knows(r, u, A)
  PROVE  Knows(r, u, B)
BY NearInMore DEF Knows

\* What the next read of a send adds was true when it was read.
LEMMA KnowsRead ==
  ASSUME TypeInv, NEW u \in Users, SendStep(u), send'[u].pc # "idle",
         NEW saw, Knows(send[u], u, saw), Facts(u) \subseteq saw
  PROVE  Knows(send'[u], u, saw)
<1> DEFINE r == send[u]
           v == send[u].to
<1>0. /\ r \in Send /\ (r.pc # "idle" => Going(r, u)) /\ send \in [Users -> Send]
      /\ favs \in [Pairs -> Flags] /\ tier \in [Users -> Tiers] /\ loc \in [Users -> Places \cup {None}]
      /\ radius \in [Tiers -> Radii] /\ NoSend.pc = "idle"
  BY DEF TypeInv, TypeOK, NoSend
<1>1. ASSUME NEW x, NEW pc, SendRead(u, pc, x) PROVE send'[u] = x /\ r.pc = pc
  BY <1>0, <1>1 DEF SendRead, SendTo
<1>2. ~SendInsert(u) /\ ~SendFails(u)
  BY <1>0 DEF SendInsert, SendFails, SendTo
<1>3. CASE SendRecipient(u)
  <2>1. CASE v = u
    <3>1. send'[u] = [r EXCEPT !.pc = "insert", !.toTier = tier[v]]
      BY <1>1, <1>3, <2>1 DEF SendRecipient
    <3>2. QED BY <1>0, <2>1, <3>1 DEF Knows, Send
  <2>2. CASE v # u
    <3>1. send'[u] = [r EXCEPT !.pc = "blocks", !.toTier = tier[v]] /\ r.pc = "recipient"
      BY <1>1, <1>3, <2>2 DEF SendRecipient
    <3>2. v \in Users
      BY <1>0, <3>1 DEF Going
    <3>3. QED BY <1>0, <2>2, <3>1, <3>2, FactsHold DEF Knows, Send
  <2>3. QED BY <2>1, <2>2
<1>4. CASE SendBlocks(u)
  <2>1. send'[u] = [r EXCEPT !.pc = "pair"] /\ r.pc = "blocks" /\ blocks \cap {<<u, v>>, <<v, u>>} = {}
    BY <1>0, <1>1, <1>4 DEF SendBlocks
  <2>2. QED BY <1>0, <2>1, FactsHold DEF Knows, Send, Going
<1>5. CASE SendPair(u)
  <2>1. r.pc = "pair" /\ \/ send'[u] = [r EXCEPT !.mine = favs[<<u, v>>]]
                         \/ send'[u] = [r EXCEPT !.theirs = favs[<<v, u>>]]
    BY <1>1, <1>5 DEF SendPair
  <2>2. v \in Users /\ v # u
    BY <1>0, <2>1 DEF Going
  <2>3. CASE send'[u] = [r EXCEPT !.mine = favs[<<u, v>>]]
    <3>1. /\ favs[<<u, v>>] # "none" => <<"fav", <<u, v>> >> \in saw
          /\ favs[<<u, v>>] = "in" => <<"in">> \in saw
      BY <2>2, FactsHold
    <3>2. QED BY <1>0, <2>1, <2>2, <2>3, <3>1 DEF Knows, Send
  <2>4. CASE send'[u] = [r EXCEPT !.theirs = favs[<<v, u>>]]
    <3>1. favs[<<v, u>>] # "none" => <<"fav", <<v, u>> >> \in saw
      BY <2>2, FactsHold
    <3>2. QED BY <1>0, <2>1, <2>2, <2>4, <3>1 DEF Knows, Send
  <2>5. QED BY <2>1, <2>3, <2>4
<1>6. CASE SendMutual(u)
  <2>1. /\ send'[u] = [r EXCEPT !.pc = "from"] /\ r.pc = "pair"
        /\ None \notin {r.mine, r.theirs} /\ "none" \notin {r.mine, r.theirs}
    BY <1>0, <1>1, <1>6 DEF SendMutual
  <2>2. QED BY <1>0, <2>1 DEF Knows, Send, Going
<1>7. CASE SendFrom(u)
  <2>1. send'[u] = [r EXCEPT !.pc = "to", !.at = loc[u]] /\ r.pc = "from" /\ loc[u] # None
    BY <1>0, <1>1, <1>7 DEF SendFrom
  <2>2. QED BY <1>0, <2>1, FactsHold DEF Knows, Send, Going
<1>8. ASSUME NEW ok \in BOOLEAN, SendRecipientAt(u, ok) PROVE Knows(send'[u], u, saw)
  <2>1. r.pc = "to" /\ \/ send'[u] = [r EXCEPT !.pc = "radii", !.toAt = loc[v]] /\ loc[v] # None
                       \/ send'[u] = [r EXCEPT !.pc = "insert"] /\ r.mine = "in"
    BY <1>0, <1>1, <1>8 DEF SendRecipientAt
  <2>2. v \in Users /\ v # u
    BY <1>0, <2>1 DEF Going
  <2>3. CASE send'[u] = [r EXCEPT !.pc = "radii", !.toAt = loc[v]] /\ loc[v] # None
    BY <1>0, <2>1, <2>2, <2>3, FactsHold DEF Knows, Send
  <2>4. CASE send'[u] = [r EXCEPT !.pc = "insert"] /\ r.mine = "in"
    BY <1>0, <2>1, <2>2, <2>4 DEF Knows, Send
  <2>5. QED BY <2>1, <2>3, <2>4
<1>9. CASE SendRadii(u)
  <2>1. r.pc = "radii" /\ \/ send'[u] = [r EXCEPT !.radius = radius[r.tier]]
                          \/ send'[u] = [r EXCEPT !.toRadius = radius[r.toTier]]
    BY <1>1, <1>9 DEF SendRadii
  <2>2. QED BY <1>0, <2>1, FactsHold DEF Knows, Send, Going
<1>10. CASE SendNear(u)
  <2>1. /\ send'[u] = [r EXCEPT !.pc = "insert"] /\ r.pc = "radii" /\ None \notin {r.radius, r.toRadius}
        /\ InRange(Dist[<<r.at, r.toAt>>], r.radius) /\ InRange(Dist[<<r.at, r.toAt>>], r.toRadius)
    BY <1>0, <1>1, <1>10 DEF SendNear
  <2>2. /\ v # u /\ r.at \in Places /\ r.toAt \in Places /\ r.tier \in Tiers /\ r.toTier \in Tiers
        /\ r.radius \in Radii /\ r.toRadius \in Radii
    BY <1>0, <2>1 DEF Knows, Send, Going
  <2>3. {<<"at", u, r.at>>, <<"at", v, r.toAt>>, <<"tier", u, r.tier>>, <<"tier", v, r.toTier>>,
         <<"radius", r.tier, r.radius>>, <<"radius", r.toTier, r.toRadius>>} \subseteq saw
    BY <2>1, <2>2 DEF Knows
  <2>4. NearIn(saw, u, v)
    <3> SUFFICES \E p, q \in Places, s, t \in Tiers, x, y \in Radii :
                   /\ {<<"at", u, p>>, <<"at", v, q>>, <<"tier", u, s>>, <<"tier", v, t>>,
                       <<"radius", s, x>>, <<"radius", t, y>>} \subseteq saw
                   /\ InRange(Dist[<<p, q>>], x) /\ InRange(Dist[<<p, q>>], y)
      BY DEF NearIn
    <3> USE <2>2
    <3> WITNESS r.at \in Places, r.toAt \in Places, r.tier \in Tiers, r.toTier \in Tiers,
                r.radius \in Radii, r.toRadius \in Radii
    <3> QED BY <2>1, <2>3
  <2>5. QED BY <1>0, <2>1, <2>2, <2>4 DEF Knows, Send
<1>11. QED
  BY <1>2, <1>3, <1>4, <1>5, <1>6, <1>7, <1>8, <1>9, <1>10 DEF SendStep

\* A step changes the sends of at most one user, and only SendStart begins one.
LEMMA SendSteps ==
  ASSUME [Next]_vars, send \in [Users -> Send]
  PROVE  \/ send' = send
         \/ \E a, b \in Users : SendStart(a, b)
         \/ \E u \in Users : SendStep(u) /\ \A w \in Users \ {u} : send'[w] = send[w]
<1>1. ASSUME NEW u \in Users, SendStep(u) PROVE \A w \in Users \ {u} : send'[w] = send[w]
  <2>1. ASSUME NEW r, SendTo(u, r) PROVE \A w \in Users \ {u} : send'[w] = send[w]
    BY <2>1 DEF SendTo
  <2>2. QED BY <1>1, <2>1 DEF SendStep, SendRead, SendInsert, SendFails, SendRecipient, SendBlocks,
               SendPair, SendMutual, SendFrom, SendRecipientAt, SendRadii, SendNear
<1>2. ASSUME NEW s \in Syncs, SyncStep(s) PROVE send' = send
  BY <1>2 DEF SyncStep, SyncFind, SyncLocs, SyncTier, SyncTiers, SyncPair, SyncWrite,
     SyncDone, SyncLost, SyncTo, Leave
<1>3. CASE UserStep
  BY <1>3 DEF UserStep, post_favourite, delete_favourite, post_block, delete_block, delete_message,
     notify_favourite, delete_notification, leave, SendWindow, put_location, admin_patch_tier,
     admin_update_tier, reset_flags, Leave
<1>4. CASE UNCHANGED vars
  BY <1>4 DEF vars
<1>5. QED BY <1>1, <1>2, <1>3, <1>4 DEF Next

LEMMA SendInvStep == TypeInv /\ SendInv /\ [Next]_vars => SendInv'
<1> SUFFICES ASSUME TypeInv, SendInv, [Next]_vars, NEW u \in Users, send'[u].pc # "idle"
             PROVE  Knows(send'[u], u, held'[u]) /\ Facts(u)' \subseteq held'[u]
  BY DEF SendInv
<1>1. CASE UNCHANGED vars
  <2>1. Facts(u)' = Facts(u)
    BY <1>1 DEF vars, store, Facts
  <2>2. QED BY <1>1, <2>1 DEF vars, SendInv
<1>2. CASE Next
  <2>1. held'[u] = held[u] \cup Facts(u)'
    BY <1>2, NextWatched DEF Watched
  <2>2. Knows(send'[u], u, held'[u])
    <3>1. CASE send'[u] = send[u]
      BY <2>1, <3>1, KnowsMore DEF SendInv
    <3>2. CASE SendStep(u)
      <4>1. send[u].pc # "idle"
        BY <3>2 DEF SendStep, SendRecipient, SendBlocks, SendPair, SendMutual, SendFrom,
           SendRecipientAt, SendRadii, SendNear, SendRead, SendInsert, SendFails
      <4>2. Knows(send[u], u, held'[u]) /\ Facts(u) \subseteq held'[u]
        BY <2>1, <4>1, KnowsMore DEF SendInv
      <4>3. QED BY <3>2, <4>2, KnowsRead
    <3>3. ASSUME NEW b \in Users, SendStart(u, b) PROVE Knows(send'[u], u, held'[u])
      <4>1. /\ send'[u] = [NoSend EXCEPT !.pc = "recipient", !.to = b, !.tier = tier[u]]
            /\ tier' = tier
        BY <3>3 DEF SendStart, SendTo, TypeInv
      <4>2. send'[u].to # u => <<"tier", u, tier'[u]>> \in Facts(u)'
        BY <4>1 DEF Facts, NoSend
      <4>3. QED BY <2>1, <4>1, <4>2 DEF Knows, NoSend
    <3>4. ASSUME NEW a \in Users, NEW b \in Users, a # u, SendStart(a, b) PROVE send'[u] = send[u]
      BY <3>4 DEF SendStart, SendTo, TypeInv
    <3>5. QED BY <3>1, <3>2, <3>3, <3>4, SendSteps DEF TypeInv
  <2>3. QED BY <2>1, <2>2
<1>3. QED BY <1>1, <1>2

LEMMA SendInvariant == Spec => [](TypeInv /\ SendInv)
<1>1. Init => SendInv
  BY DEF Init, Quiet, NoSend, SendInv
<1>2. QED BY <1>1, TypeInit, TypeStep, SendInvStep, PTL DEF Spec

\* A message is stored by an insert at the end of a send.
LEMMA StoredBySend ==
  ASSUME TypeInv, [Next]_vars, NEW p \in Pairs, Stored(p)
  PROVE  \E u \in Users : send[u].pc = "insert" /\ p = <<u, send[u].to>>
<1>0. messages \in [Users \X Users -> Nat] /\ p \in Users \X Users /\ messages'[p] > messages[p]
      /\ messages[p] \in Nat
  BY DEF TypeInv, TypeOK, Pairs, Stored
<1>1. ASSUME NEW u \in Users, SendInsert(u) PROVE send[u].pc = "insert" /\ p = <<u, send[u].to>>
  BY <1>0, <1>1 DEF SendInsert
<1>2. ASSUME NEW a \in Users, NEW b \in Users PROVE ~delete_message(a, b)
  BY <1>0 DEF delete_message
<1>3. messages' # messages
  BY <1>0
<1>4. ~UserStep
  BY <1>2, <1>3 DEF UserStep, post_favourite, delete_favourite, post_block, delete_block, SendStart,
     notify_favourite, delete_notification, leave, SendWindow, put_location, admin_patch_tier,
     admin_update_tier, reset_flags, Leave, store
<1>5. ASSUME NEW s \in Syncs PROVE ~SyncStep(s)
  BY <1>3 DEF SyncStep, SyncFind, SyncLocs, SyncTier, SyncTiers, SyncPair, SyncWrite,
     SyncDone, SyncLost, SyncTo, Leave, store
<1>6. ASSUME NEW u \in Users, SendStep(u) PROVE SendInsert(u)
  BY <1>3, <1>6 DEF SendStep, SendRead, SendFails, SendRecipient, SendBlocks,
     SendPair, SendMutual, SendFrom, SendRecipientAt, SendRadii, SendNear, Leave, store
<1>7. QED BY <1>1, <1>3, <1>4, <1>5, <1>6 DEF Next, vars, store

\* THEOREM. No message is stored unless, at moments of its own send, neither had blocked the
\* other, each favoured the other and the sender was sharing a position.
THEOREM MessagesHaveConsent == Spec => SentWithConsent
<1>1. ASSUME TypeInv, SendInv, [Next]_vars, NEW p \in Pairs, Stored(p)
      PROVE  LET saw == held[p[1]] IN
             /\ <<"unblocked">> \in saw
             /\ {<<"fav", p>>, <<"fav", <<p[2], p[1]>> >>} \subseteq saw
             /\ \E x \in Places : <<"at", p[1], x>> \in saw
  <2>1. PICK u \in Users : send[u].pc = "insert" /\ p = <<u, send[u].to>>
    BY <1>1, StoredBySend
  <2>2. Knows(send[u], u, held[u]) /\ send[u].to # u /\ p[1] = u /\ p[2] = send[u].to
    BY <1>1, <2>1 DEF SendInv, Pairs
  <2>3. QED BY <2>1, <2>2 DEF Knows
<1>2. TypeInv /\ SendInv /\ [Next]_vars =>
        [\A p \in Pairs : Stored(p) =>
           LET saw == held[p[1]] IN
           /\ <<"unblocked">> \in saw
           /\ {<<"fav", p>>, <<"fav", <<p[2], p[1]>> >>} \subseteq saw
           /\ \E x \in Places : <<"at", p[1], x>> \in saw]_vars
  BY <1>1
<1>3. QED BY <1>2, SendInvariant, PTL DEF Spec, SentWithConsent

\* THEOREM. No message is stored unless the two were in range of each other in what was true
\* during its send, or the sender's favourite said so during it.
THEOREM MessagesAreInRange == Spec => SentInRange
<1>1. ASSUME TypeInv, SendInv, [Next]_vars, NEW p \in Pairs, Stored(p)
      PROVE  NearIn(held[p[1]], p[1], p[2]) \/ <<"in">> \in held[p[1]]
  <2>1. PICK u \in Users : send[u].pc = "insert" /\ p = <<u, send[u].to>>
    BY <1>1, StoredBySend
  <2>2. Knows(send[u], u, held[u]) /\ send[u].to # u /\ p[1] = u /\ p[2] = send[u].to
    BY <1>1, <2>1 DEF SendInv, Pairs
  <2>3. QED BY <2>1, <2>2 DEF Knows
<1>2. TypeInv /\ SendInv /\ [Next]_vars =>
        [\A p \in Pairs : Stored(p) =>
           \/ NearIn(held[p[1]], p[1], p[2])
           \/ <<"in">> \in held[p[1]]]_vars
  BY <1>1
<1>3. QED BY <1>2, SendInvariant, PTL DEF Spec, SentInRange

----------------------------------------------------------------------------
(* Range-syncs *)

LEMMA NearInSymmetric ==
  ASSUME NEW u, NEW v, NEW saw, NearIn(saw, u, v)
  PROVE  NearIn(saw, v, u)
<1> DEFINE Near(a, b, p, q, s, t, x, y) ==
      /\ {<<"at", a, p>>, <<"at", b, q>>, <<"tier", a, s>>, <<"tier", b, t>>,
          <<"radius", s, x>>, <<"radius", t, y>>} \subseteq saw
      /\ InRange(Dist[<<p, q>>], x) /\ InRange(Dist[<<p, q>>], y)
<1>1. PICK p, q \in Places, s, t \in Tiers, x, y \in Radii : Near(u, v, p, q, s, t, x, y)
  BY DEF NearIn
<1>2. Near(v, u, q, p, t, s, y, x)
  BY <1>1
<1>3. \E p1, q1 \in Places, s1, t1 \in Tiers, x1, y1 \in Radii : Near(v, u, p1, q1, s1, t1, x1, y1)
  <2> HIDE DEF Near
  <2> WITNESS q \in Places, p \in Places, t \in Tiers, s \in Tiers, y \in Radii, x \in Radii
  <2> QED BY <1>2
<1>4. QED BY <1>3 DEF NearIn

LEMMA SeenHolds ==
  /\ \A u \in Users : /\ <<"tier", u, tier[u]>> \in Seen /\ <<"tier", u, Regular>> \in Seen
                      /\ <<"at", u, loc[u]>> \in Seen
  /\ \A t \in Tiers : <<"radius", t, radius[t]>> \in Seen
<1>1. /\ {<<"tier", u, t>> : u \in Users, t \in {Regular}} \subseteq Seen
      /\ {<<"tier", u, tier[u]>> : u \in Users} \subseteq Seen
      /\ {<<"radius", t, radius[t]>> : t \in Tiers} \subseteq Seen
      /\ {<<"at", u, loc[u]>> : u \in Users} \subseteq Seen
  BY DEF Seen
<1>2. \A u \in Users : <<"tier", u, Regular>> \in {<<"tier", w, t>> : w \in Users, t \in {Regular}}
  OBVIOUS
<1>3. QED BY <1>1, <1>2

LEMMA LearntMore ==
  ASSUME NEW j, NEW A, NEW B, A \subseteq B, Learnt(j, A)
  PROVE  Learnt(j, B)
BY NearInMore DEF Learnt

\* What the next read of a range-sync adds has been seen.
LEMMA LearntRead ==
  ASSUME TypeInv, SyncInv, NEW s \in Syncs, SyncStep(s), sync'[s].pc # "idle"
  PROVE  Learnt(sync'[s], ever)
<1> DEFINE j == sync[s]
<1>0. /\ j \in Sync /\ sync \in [Syncs -> Sync] /\ NoSync.pc = "idle"
      /\ tier \in [Users -> Tiers] /\ loc \in [Users -> Places \cup {None}]
      /\ radius \in [Tiers -> Radii] /\ cache \in [Tiers -> Radii \cup {None}]
  BY DEF TypeInv, TypeOK, NoSync
<1>1. ASSUME NEW x, SyncTo(s, x) PROVE sync'[s] = x
  BY <1>0, <1>1 DEF SyncTo
<1>2. j.pc # "idle" => Running(j) /\ Learnt(j, ever)
  BY DEF TypeInv, SyncInv
<1>3. /\ \A u \in Users : /\ <<"tier", u, tier[u]>> \in ever /\ <<"tier", u, Regular>> \in ever
                          /\ <<"at", u, loc[u]>> \in ever
      /\ \A t \in Tiers : /\ <<"radius", t, radius[t]>> \in ever
                          /\ cache[t] # None => <<"radius", t, cache[t]>> \in ever
  BY SeenHolds DEF SyncInv
<1>4. CASE SyncFind(s)
  <2>1. PICK others \in SUBSET Users : sync'[s] = [j EXCEPT !.pc = "locs", !.others = others]
    BY <1>0, <1>1, <1>4 DEF SyncFind
  <2>2. j.pc = "find"
    BY <1>4 DEF SyncFind
  <2>3. QED BY <1>0, <1>2, <2>1, <2>2 DEF Learnt, Sync
<1>5. CASE SyncLocs(s)
  <2> DEFINE locs == [v \in Users |-> IF DbBacked /\ v \in j.others THEN loc[v] ELSE None]
  <2>1. sync'[s] = [j EXCEPT !.pc = "tier", !.locs = locs, !.others = {}] /\ j.pc = "locs"
    BY <1>0, <1>1, <1>5 DEF SyncLocs
  <2>2. \A v \in Users : locs[v] # None => <<"at", v, locs[v]>> \in ever
    BY <1>3
  <2>3. HIDE DEF locs
  <2>4. QED BY <1>0, <1>2, <2>1, <2>2 DEF Learnt, Sync
<1>6. ASSUME NEW ok \in BOOLEAN, SyncTier(s, ok) PROVE Learnt(sync'[s], ever)
  <2>1. PICK t \in {tier[j.user], Regular} : sync'[s] = [j EXCEPT !.pc = "tiers", !.tier = t]
    BY <1>1, <1>6 DEF SyncTier
  <2>2. j.pc = "tier" /\ j.user \in Users
    BY <1>2, <1>6 DEF SyncTier, Running
  <2>3. <<"tier", j.user, t>> \in ever
    BY <1>3, <2>2
  <2>4. QED BY <1>0, <1>2, <2>1, <2>2, <2>3 DEF Learnt, Sync
<1>7. ASSUME NEW ok \in BOOLEAN, SyncTiers(s, ok) PROVE Learnt(sync'[s], ever)
  <2> DEFINE tiers == [v \in Users |-> IF ok /\ j.locs[v] # None THEN tier[v] ELSE Regular]
  <2>1. sync'[s] = [j EXCEPT !.pc = "pairs", !.tiers = tiers] /\ j.pc = "tiers"
    BY <1>1, <1>7 DEF SyncTiers
  <2>2. \A v \in Users : <<"tier", v, tiers[v]>> \in ever
    BY <1>3
  <2>3. HIDE DEF tiers
  <2>4. QED BY <1>0, <1>2, <2>1, <2>2 DEF Learnt, Sync
<1>8. ASSUME NEW v \in Users, NEW got \in SUBSET Tiers, SyncPair(s, v, got) PROVE Learnt(sync'[s], ever)
  <2> DEFINE both   == \A t \in {j.tier, j.tiers[v]} : cache[t] # None \/ t \in got
             within == \A t \in {j.tier, j.tiers[v]} : InRange(Dist[<<j.at, j.locs[v]>>], get_message_radius(t))
             flag   == IF within THEN "in" ELSE "out"
             two    == {<<j.user, v>>, <<v, j.user>>}
  <2>1. /\ j.pc = "pairs" /\ j.locs[v] \in Places /\ v # j.user /\ j.user \in Users /\ j.at \in Places
        /\ j.tier \in Tiers /\ j.tiers[v] \in Tiers
    BY <1>0, <1>2, <1>8 DEF SyncPair, Running, Sync
  <2>2. \/ sync'[s] = [j EXCEPT !.locs[v] = None, !.flag = flag, !.write = two]
        \/ sync'[s] = [j EXCEPT !.locs[v] = None] /\ j.write = {}
    BY <1>1, <1>8 DEF SyncPair
  <2>3. within => NearIn(ever, j.user, v)
    <3> SUFFICES ASSUME within PROVE NearIn(ever, j.user, v)
      OBVIOUS
    <3> DEFINE x == get_message_radius(j.tier)
               y == get_message_radius(j.tiers[v])
    <3>1. /\ x \in Radii /\ <<"radius", j.tier, x>> \in ever
          /\ y \in Radii /\ <<"radius", j.tiers[v], y>> \in ever
      BY <1>0, <1>3, <2>1 DEF get_message_radius
    <3>2. {<<"at", j.user, j.at>>, <<"at", v, j.locs[v]>>, <<"tier", j.user, j.tier>>,
           <<"tier", v, j.tiers[v]>>} \subseteq ever
      BY <1>2, <2>1 DEF Learnt
    <3>3. InRange(Dist[<<j.at, j.locs[v]>>], x) /\ InRange(Dist[<<j.at, j.locs[v]>>], y)
      OBVIOUS
    <3> HIDE DEF x, y
    <3> SUFFICES \E p, q \in Places, a, b \in Tiers, m, n \in Radii :
                   /\ {<<"at", j.user, p>>, <<"at", v, q>>, <<"tier", j.user, a>>, <<"tier", v, b>>,
                       <<"radius", a, m>>, <<"radius", b, n>>} \subseteq ever
                   /\ InRange(Dist[<<p, q>>], m) /\ InRange(Dist[<<p, q>>], n)
      BY DEF NearIn
    <3> USE <2>1, <3>1
    <3> WITNESS j.at \in Places, j.locs[v] \in Places, j.tier \in Tiers, j.tiers[v] \in Tiers,
                x \in Radii, y \in Radii
    <3> QED BY <3>2, <3>3
  <2>4. \A p \in two : flag = "in" => NearIn(ever, p[1], p[2])
    BY <2>3, NearInSymmetric
  <2>5. HIDE DEF flag, two
  <2>6. CASE sync'[s] = [j EXCEPT !.locs[v] = None] /\ j.write = {}
    BY <1>0, <1>2, <2>1, <2>6 DEF Learnt, Sync
  <2>7. CASE sync'[s] = [j EXCEPT !.locs[v] = None, !.flag = flag, !.write = two]
    BY <1>0, <1>2, <2>1, <2>4, <2>7 DEF Learnt, Sync
  <2>8. QED BY <2>2, <2>6, <2>7
<1>9. ASSUME NEW p \in Pairs, NEW ok \in BOOLEAN, SyncWrite(s, p, ok) PROVE Learnt(sync'[s], ever)
  <2>1. sync'[s] = [j EXCEPT !.write = @ \ {p}] /\ j.pc = "pairs"
    BY <1>1, <1>9 DEF SyncWrite
  <2>2. QED BY <1>0, <1>2, <2>1 DEF Learnt, Sync
<1>10. ~SyncDone(s) /\ ~SyncLost(s)
  BY <1>0, <1>1 DEF SyncDone, SyncLost
<1>11. QED BY <1>4, <1>5, <1>6, <1>7, <1>8, <1>9, <1>10 DEF SyncStep

\* A step takes on one range-sync at most, and only put_location begins one.
LEMMA SyncSteps ==
  ASSUME [Next]_vars, sync \in [Syncs -> Sync]
  PROVE  \/ sync' = sync
         \/ \E s \in Syncs : SyncStep(s) /\ \A o \in Syncs \ {s} : sync'[o] = sync[o]
         \/ \E s \in Syncs, u \in Users, p \in Places :
              /\ sync' = [sync EXCEPT ![s] = [NoSync EXCEPT !.pc = "find", !.user = u, !.at = p]]
              /\ loc' = [loc EXCEPT ![u] = p]
<1>1. ASSUME NEW s \in Syncs, SyncStep(s) PROVE \A o \in Syncs \ {s} : sync'[o] = sync[o]
  <2>1. ASSUME NEW j, SyncTo(s, j) PROVE \A o \in Syncs \ {s} : sync'[o] = sync[o]
    BY <2>1 DEF SyncTo
  <2>2. CASE SyncLost(s)
    BY <2>2 DEF SyncLost
  <2>3. QED BY <1>1, <2>1, <2>2 DEF SyncStep, SyncFind, SyncLocs, SyncTier, SyncTiers, SyncPair,
               SyncWrite, SyncDone
<1>2. ASSUME NEW u \in Users, SendStep(u) PROVE sync' = sync
  BY <1>2 DEF SendStep, SendRead, SendInsert, SendFails, SendTo, SendRecipient, SendBlocks,
     SendPair, SendMutual, SendFrom, SendRecipientAt, SendRadii, SendNear
<1>3. ASSUME UserStep, \A u \in Users, p \in Places, first \in BOOLEAN : ~put_location(u, p, first)
      PROVE  sync' = sync
  BY <1>3 DEF UserStep, post_favourite, delete_favourite, post_block, delete_block, delete_message,
     SendStart, SendTo, notify_favourite, delete_notification, leave, SendWindow, admin_patch_tier,
     admin_update_tier, reset_flags, Leave
<1>4. CASE UNCHANGED vars
  BY <1>4 DEF vars
<1>5. CASE UserStep
  <2>1. CASE \E u \in Users, p \in Places, first \in BOOLEAN : put_location(u, p, first)
    <3>1. PICK u \in Users, p \in Places, first \in BOOLEAN : put_location(u, p, first)
      BY <2>1
    <3>2. CASE sync' = sync
      BY <3>2
    <3>3. CASE \E s \in Syncs :
                 /\ sync' = [sync EXCEPT ![s] = [NoSync EXCEPT !.pc = "find", !.user = u, !.at = p]]
                 /\ loc' = [loc EXCEPT ![u] = p]
      BY <3>3, Zenon
    <3>4. \/ sync' = sync
          \/ \E s \in Syncs :
               /\ sync' = [sync EXCEPT ![s] = [NoSync EXCEPT !.pc = "find", !.user = u, !.at = p]]
               /\ loc' = [loc EXCEPT ![u] = p]
      BY <3>1 DEF put_location
    <3>5. QED BY <3>2, <3>3, <3>4, Zenon
  <2>2. CASE \A u \in Users, p \in Places, first \in BOOLEAN : ~put_location(u, p, first)
    BY <1>3, <1>5, <2>2
  <2>3. QED BY <2>1, <2>2
<1>6. QED BY <1>1, <1>2, <1>4, <1>5 DEF Next

\* Flags come from range-syncs and the cache of radii from authority-service.
LEMMA FlagSteps ==
  ASSUME TypeInv, [Next]_vars, NEW p \in Pairs, favs'[p] = "in"
  PROVE  favs[p] = "in" \/ \E s \in Syncs : sync[s].pc = "pairs" /\ p \in sync[s].write /\ sync[s].flag = "in"
<1>0. favs \in [Pairs -> Flags]
  BY DEF TypeInv, TypeOK
<1>1. ASSUME NEW s \in Syncs, NEW q \in Pairs, NEW ok \in BOOLEAN, SyncWrite(s, q, ok)
      PROVE  \/ favs[p] = "in"
             \/ sync[s].pc = "pairs" /\ p \in sync[s].write /\ sync[s].flag = "in"
  BY <1>0, <1>1 DEF SyncWrite
<1>2. ASSUME NEW s \in Syncs, SyncStep(s),
             \A q \in Pairs, ok \in BOOLEAN : ~SyncWrite(s, q, ok)
      PROVE  favs' = favs
  BY <1>2 DEF SyncStep, SyncFind, SyncLocs, SyncTier, SyncTiers, SyncPair, SyncDone, SyncLost, Leave, store
<1>3. ASSUME NEW u \in Users, SendStep(u) PROVE favs' = favs
  BY <1>3 DEF SendStep, SendRead, SendInsert, SendFails, SendTo, SendRecipient, SendBlocks,
     SendPair, SendMutual, SendFrom, SendRecipientAt, SendRadii, SendNear, Leave, store
<1>4. ASSUME NEW a \in Users, NEW b \in Users, post_favourite(a, b) \/ delete_favourite(a, b)
      PROVE  favs[p] = "in"
  BY <1>0, <1>4 DEF post_favourite, delete_favourite
<1>5. ASSUME NEW ok \in BOOLEAN, reset_flags(ok) PROVE favs[p] = "in"
  BY <1>0, <1>5 DEF reset_flags
<1>6. ASSUME UserStep, \A a, b \in Users : ~post_favourite(a, b) /\ ~delete_favourite(a, b),
             \A ok \in BOOLEAN : ~reset_flags(ok)
      PROVE  favs' = favs
  BY <1>6 DEF UserStep, post_block, delete_block, delete_message,
     SendStart, SendTo, notify_favourite, delete_notification, leave, SendWindow, put_location,
     admin_patch_tier, admin_update_tier, Leave, store
<1>7. CASE UNCHANGED vars
  BY <1>7 DEF vars, store
<1>8. QED BY <1>1, <1>2, <1>3, <1>4, <1>5, <1>6, <1>7 DEF Next

LEMMA CacheSteps ==
  ASSUME TypeInv, [Next]_vars, NEW t \in Tiers
  PROVE  cache'[t] \in {cache[t], radius[t]}
<1>0. cache \in [Tiers -> Radii \cup {None}]
  BY DEF TypeInv, TypeOK
<1>1. ASSUME NEW s \in Syncs, NEW v \in Users, NEW got \in SUBSET Tiers, SyncPair(s, v, got)
      PROVE  cache'[t] \in {cache[t], radius[t]}
  BY <1>0, <1>1 DEF SyncPair
<1>2. ASSUME NEW s \in Syncs, SyncStep(s), \A v \in Users, got \in SUBSET Tiers : ~SyncPair(s, v, got)
      PROVE  cache' = cache
  BY <1>2 DEF SyncStep, SyncFind, SyncLocs, SyncTier, SyncTiers, SyncWrite, SyncDone, SyncLost, Leave
<1>3. ASSUME NEW u \in Users, SendStep(u) PROVE cache' = cache
  BY <1>3 DEF SendStep, SendRead, SendInsert, SendFails, SendTo, SendRecipient, SendBlocks,
     SendPair, SendMutual, SendFrom, SendRecipientAt, SendRadii, SendNear
<1>4. CASE UserStep
  BY <1>4 DEF UserStep, post_favourite, delete_favourite, post_block, delete_block, delete_message,
     SendStart, SendTo, notify_favourite, delete_notification, leave, SendWindow, put_location,
     admin_patch_tier, admin_update_tier, reset_flags, Leave
<1>5. CASE UNCHANGED vars
  BY <1>5 DEF vars
<1>6. QED BY <1>1, <1>2, <1>3, <1>4, <1>5 DEF Next

LEMMA SyncInvStep == TypeInv /\ SyncInv /\ [Next]_vars => SyncInv'
<1> SUFFICES ASSUME TypeInv, SyncInv, [Next]_vars PROVE SyncInv'
  OBVIOUS
<1>1. ever \subseteq ever' /\ Seen' \subseteq ever'
  <2>1. CASE UNCHANGED vars
    <3>1. Seen' = Seen
      BY <2>1 DEF vars, Seen
    <3>2. QED BY <2>1, <3>1 DEF vars, SyncInv
  <2>2. CASE Next
    BY <2>2, NextWatched DEF Watched
  <2>3. QED BY <2>1, <2>2
<1>2. ASSUME NEW t \in Tiers, cache'[t] # None PROVE <<"radius", t, cache'[t]>> \in ever'
  BY <1>1, <1>2, CacheSteps, SeenHolds DEF SyncInv
<1>3. ASSUME NEW s \in Syncs, sync'[s].pc # "idle" PROVE Learnt(sync'[s], ever')
  <2>1. CASE sync'[s] = sync[s]
    BY <1>1, <1>3, <2>1, LearntMore DEF SyncInv
  <2>2. CASE SyncStep(s)
    BY <1>1, <1>3, <2>2, LearntRead, LearntMore
  <2>3. ASSUME NEW u \in Users, NEW p \in Places, loc' = [loc EXCEPT ![u] = p],
               sync'[s] = [NoSync EXCEPT !.pc = "find", !.user = u, !.at = p]
        PROVE  Learnt(sync'[s], ever')
    <3>1. <<"at", u, p>> \in Seen'
      <4>1. loc'[u] = p
        BY <2>3 DEF TypeInv, TypeOK
      <4>2. <<"at", u, loc'[u]>> \in {<<"at", w, loc'[w]>> : w \in Users}
        OBVIOUS
      <4>3. QED BY <4>1, <4>2 DEF Seen
    <3>2. QED BY <1>1, <2>3, <3>1 DEF Learnt, NoSync
  <2>4. QED BY <2>1, <2>2, <2>3, SyncSteps DEF TypeInv
<1>4. ASSUME NEW p \in Pairs, favs'[p] = "in" PROVE NearIn(ever', p[1], p[2])
  <2>1. NearIn(ever, p[1], p[2])
    BY <1>4, FlagSteps DEF SyncInv, FlagFounded, Learnt
  <2>2. QED BY <1>1, <2>1, NearInMore
<1>5. QED BY <1>1, <1>2, <1>3, <1>4 DEF SyncInv, FlagFounded

\* THEOREM. A favourite says "in range" only if the two have been at places, with tiers (or
\* the tier assumed when theirs cannot be read) and with radii that are in range of each
\* other, although post_range_sync reads them at different times and through a cache.
THEOREM FlagsAreFounded == Spec => []FlagFounded
<1>1. Init => SyncInv
  BY DEF Init, Quiet, NoSync, SyncInv, FlagFounded
<1>2. SyncInv => FlagFounded
  BY DEF SyncInv
<1>3. QED BY <1>1, <1>2, TypeInit, TypeStep, SyncInvStep, PTL DEF Spec

=============================================================================
