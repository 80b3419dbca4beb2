---------------------------- MODULE NearbyProofs ----------------------------
(***************************************************************************)
(* What nearby and get_user answer, for any number of users, tasks, cells  *)
(* and calls: nobody excluded, out of range or expired is ever shown, a    *)
(* user who stays put is found, and while nobody writes the answers are    *)
(* exactly those of a scan of the whole store.                             *)
(***************************************************************************)
EXTENDS MemoryStoreProofs, FiniteSetTheorems

USE StoreAssumption DEF Procs, WriterPCs, TaskPCs, SweepPCs, UpsertPCs, RemovePCs, QueryPCs

----------------------------------------------------------------------------
(* Sound answers *)

Sound(s) ==
  \A r \in s.results :
    r.user \notin s.query.excl /\ InRadius(s.query, r.pos) /\ ~Stale(r, s.start)

\* What makes the favourites' direct lookups sound: they never look for somebody
\* excluded, and the clock they compare with is not behind the query's start.
QueryView(t) ==
  /\ Sound(scan[t])
  /\ scan[t].start <= now
  /\ \A u \in scan[t].favs : u \notin scan[t].query.excl
  /\ pc[t] \in {"get_arc", "get_read"} => who[t] \notin scan[t].query.excl

QueryInv == TypeInv /\ \A t \in Tasks : QueryView(t)

LEMMA QueryInit == Init => QueryInv
BY TypeInit DEF Init, Quiet, QueryInv, QueryView, Sound, NoScan

\* A step that is not about t's query.
QueryKept(t) ==
  /\ scan'[t] = scan[t] /\ now' >= now
  /\ (pc[t] \in QueryPCs \/ pc'[t] \in QueryPCs) =>
       (pc'[t] = pc[t] /\ who'[t] = who[t] /\ key'[t] = key[t])

LEMMA QueryFrame ==
  ASSUME TypeInv, TypeInv', NEW t \in Tasks, QueryView(t), QueryKept(t)
  PROVE  QueryView(t)'
<1>1. scan[t].start \in Nat /\ now \in Nat /\ now' \in Nat
  BY DEF TypeInv, TypeOK, ScanState
<1>2. Sound(scan[t])'
  BY DEF QueryKept, QueryView, Sound, InRadius, Stale
<1>3. QED BY <1>1, <1>2 DEF QueryKept, QueryView

\* The loop of nearby, after a shard with the sound query state s.
LEMMA SoundAfterShard ==
  ASSUME TypeInv, NEW t \in Tasks, NEW s \in ScanState, Sound(s), s.start <= now,
         AfterShard(t, s), now' = now
  PROVE  QueryView(t)'
<1>1. PICK f : /\ scan' = [scan EXCEPT ![t] = [s EXCEPT !.arc = None, !.stale = {}, !.favs = f]]
               /\ f \in {{}, MissedFavs(s.query, s.results)}
  BY DEF AfterShard
<1>2. PICK to \in {"favs", "pick"} : pc' = [pc EXCEPT ![t] = to]
  BY DEF AfterShard, Goto
<1>3. /\ scan'[t].results = s.results /\ scan'[t].query = s.query
      /\ scan'[t].start = s.start /\ scan'[t].favs = f
  BY <1>1 DEF TypeInv, TypeOK, ScanState
<1>4. pc'[t] = to
  BY <1>2 DEF TypeInv, TypeOK
<1>5. \A u \in f : u \notin s.query.excl
  BY <1>1 DEF MissedFavs
<1>6. Sound(scan[t])'
  BY <1>3 DEF Sound, InRadius, Stale
<1>7. QED BY <1>3, <1>4, <1>5, <1>6 DEF QueryView

LEMMA SoundQuery ==
  ASSUME TypeInv, NEW t \in Tasks, QueryView(t), Query(t)
  PROVE  QueryView(t)'
<1>0. scan[t] \in ScanState /\ now' = now
  BY DEF TypeInv, TypeOK, Query, NearbyPick, NearbyScan, NearbyEvict, NearbyLoopEnd, GetIndex,
         GetArc, GetRead, Finish, Respond
<1>1. CASE NearbyPick(t)
  <2>1. PICK k, a : /\ scan' = [scan EXCEPT ![t].todo = scan[t].todo \ {k}, ![t].arc = a]
                    /\ pc' = [pc EXCEPT ![t] = IF a = None THEN "pick" ELSE "scan"]
    BY <1>1 DEF NearbyPick, Goto
  <2>2. /\ scan'[t].results = scan[t].results /\ scan'[t].query = scan[t].query
        /\ scan'[t].start = scan[t].start /\ scan'[t].favs = scan[t].favs
        /\ pc'[t] \in {"pick", "scan"}
    BY <2>1 DEF TypeInv, TypeOK, ScanState
  <2>3. QED BY <1>0, <2>2 DEF QueryView, Sound, InRadius, Stale
<1>2. CASE NearbyScan(t)
  <2> DEFINE shard == heap[scan[t].arc]
             seen  == {u \in Users \ scan[t].query.excl : shard[u] # None}
             stale == {u \in seen : Stale(shard[u], scan[t].start)}
             hits  == {u \in seen \ stale : InRadius(scan[t].query, shard[u].pos)}
             found == {Result(u, shard[u]) : u \in hits}
             s2    == [scan[t] EXCEPT !.stale = stale, !.results = @ \cup found]
  <2>1. shard \in [Users -> Entry \cup {None}]
    BY <1>2 DEF NearbyScan, TypeInv, TypeOK, LocalsOK
  <2>2. \A r \in found : /\ r \in Found /\ r.user \notin scan[t].query.excl
                         /\ InRadius(scan[t].query, r.pos) /\ ~Stale(r, scan[t].start)
    <3> SUFFICES ASSUME NEW u \in hits
                 PROVE  /\ Result(u, shard[u]) \in Found
                        /\ Result(u, shard[u]).user \notin scan[t].query.excl
                        /\ InRadius(scan[t].query, Result(u, shard[u]).pos)
                        /\ ~Stale(Result(u, shard[u]), scan[t].start)
      OBVIOUS
    <3>1. shard[u] \in Entry
      BY <2>1
    <3>2. /\ Result(u, shard[u]).user = u /\ Result(u, shard[u]).pos = shard[u].pos
          /\ Result(u, shard[u]).at = shard[u].at
      BY DEF Result
    <3>3. Result(u, shard[u]) \in Found
      BY <3>1 DEF Result, Found, Entry
    <3>4. QED BY <3>2, <3>3 DEF Stale
  <2>3. stale \subseteq Users
    OBVIOUS
  <2> HIDE DEF stale, found
  <2>4. s2 \in ScanState
    BY <1>0, <2>2, <2>3 DEF ScanState
  <2>5. /\ s2.query = scan[t].query /\ s2.start = scan[t].start /\ s2.favs = scan[t].favs
        /\ s2.results = scan[t].results \cup found
    BY <1>0 DEF ScanState
  <2> HIDE DEF s2
  <2>6. Sound(s2)
    BY <2>2, <2>5 DEF Sound, QueryView
  <2>7. CASE stale # {}
    <3>1. pc' = [pc EXCEPT ![t] = "evict"] /\ scan' = [scan EXCEPT ![t] = s2]
      BY <1>2, <2>7 DEF NearbyScan, Goto, s2, stale, found
    <3>2. pc'[t] = "evict" /\ scan'[t] = s2
      BY <3>1 DEF TypeInv, TypeOK
    <3>3. Sound(scan[t])'
      BY <2>6, <3>2 DEF Sound, InRadius, Stale
    <3>4. QED BY <1>0, <2>5, <3>2, <3>3 DEF QueryView
  <2>8. CASE stale = {}
    <3>1. AfterShard(t, s2)
      BY <1>2, <2>8 DEF NearbyScan, s2, stale, found
    <3>2. s2.start <= now
      BY <2>5 DEF QueryView
    <3>3. QED BY <1>0, <2>4, <2>6, <3>1, <3>2, SoundAfterShard
  <2>9. QED BY <2>7, <2>8
<1>3. CASE NearbyEvict(t)
  BY <1>0, <1>3, SoundAfterShard DEF NearbyEvict, QueryView
<1>4. CASE NearbyLoopEnd(t)
  <2>1. /\ scan'[t].results = scan[t].results /\ scan'[t].query = scan[t].query
        /\ scan'[t].start = scan[t].start /\ pc'[t] = "favs"
        /\ scan'[t].favs = MissedFavs(scan[t].query, scan[t].results)
    BY <1>4 DEF NearbyLoopEnd, Goto, TypeInv, TypeOK, ScanState
  <2>2. QED BY <1>0, <2>1 DEF QueryView, Sound, InRadius, Stale, MissedFavs
<1>5. CASE GetIndex(t)
  <2>1. PICK u \in scan[t].favs :
           /\ scan' = [scan EXCEPT ![t].favs = @ \ {u}]
           /\ IF user_index[u] = None
              THEN UNCHANGED <<pc, who, key>>
              ELSE /\ Goto(t, "get_arc")
                   /\ who' = [who EXCEPT ![t] = u]
                   /\ key' = [key EXCEPT ![t] = user_index[u]]
    BY <1>5 DEF GetIndex
  <2>2. /\ scan'[t].results = scan[t].results /\ scan'[t].query = scan[t].query
        /\ scan'[t].start = scan[t].start /\ scan'[t].favs = scan[t].favs \ {u}
    BY <2>1 DEF TypeInv, TypeOK, ScanState
  <2>3. pc'[t] \in {"get_arc", "get_read"} => who'[t] = u
    BY <1>5, <2>1 DEF GetIndex, Goto, TypeInv, TypeOK
  <2>4. QED BY <1>0, <2>2, <2>3 DEF QueryView, Sound, InRadius, Stale
<1>6. CASE GetArc(t)
  <2>1. /\ scan'[t].results = scan[t].results /\ scan'[t].query = scan[t].query
        /\ scan'[t].start = scan[t].start /\ scan'[t].favs = scan[t].favs
    BY <1>6 DEF GetArc, TypeInv, TypeOK, ScanState
  <2>2. pc[t] = "get_arc" /\ (pc'[t] = "favs" \/ who'[t] = who[t])
    BY <1>6 DEF GetArc, GetDone, Goto, TypeInv, TypeOK
  <2>3. QED BY <1>0, <2>1, <2>2 DEF QueryView, Sound, InRadius, Stale
<1>7. CASE GetRead(t)
  <2> DEFINE e == heap[scan[t].arc][who[t]]
             hit == e # None /\ ~Stale(e, now) /\ InRadius(scan[t].query, e.pos)
             more == IF hit THEN {Result(who[t], e)} ELSE {}
  <2>1. e \in Entry \cup {None} /\ who[t] \in Users /\ who[t] \notin scan[t].query.excl
    BY <1>7 DEF GetRead, TypeInv, TypeOK, LocalsOK, QueryView
  <2>2. \A r \in more : /\ r.user \notin scan[t].query.excl
                        /\ InRadius(scan[t].query, r.pos) /\ ~Stale(r, scan[t].start)
    <3> SUFFICES ASSUME hit
                 PROVE  /\ Result(who[t], e).user \notin scan[t].query.excl
                        /\ InRadius(scan[t].query, Result(who[t], e).pos)
                        /\ ~Stale(Result(who[t], e), scan[t].start)
      OBVIOUS
    <3>1. /\ Result(who[t], e).user = who[t] /\ Result(who[t], e).pos = e.pos
          /\ Result(who[t], e).at = e.at
      BY DEF Result
    <3>2. e.at \in Nat /\ now \in Nat /\ scan[t].start \in Nat /\ scan[t].start <= now
      BY <1>0, <2>1 DEF Entry, ScanState, TypeInv, TypeOK, QueryView
    <3>3. ~Stale(Result(who[t], e), scan[t].start)
      BY <3>1, <3>2 DEF Stale
    <3>4. QED BY <2>1, <3>1, <3>3
  <2>3. /\ scan'[t].results = scan[t].results \cup more /\ scan'[t].query = scan[t].query
        /\ scan'[t].start = scan[t].start /\ scan'[t].favs = scan[t].favs
    BY <1>7 DEF GetRead, TypeInv, TypeOK, ScanState
  <2>4. pc'[t] = "favs"
    BY <1>7 DEF GetRead, GetDone, Goto, TypeInv, TypeOK
  <2> HIDE DEF more
  <2>5. QED BY <1>0, <2>2, <2>3, <2>4 DEF QueryView, Sound, InRadius, Stale
<1>8. CASE Finish(t)
  <2>1. PICK rs : rs \subseteq scan[t].results /\ scan' = [scan EXCEPT ![t].results = rs]
    BY <1>8 DEF Finish, Reserve, Take
  <2>2. /\ scan'[t].results = rs /\ scan'[t].query = scan[t].query
        /\ scan'[t].start = scan[t].start /\ scan'[t].favs = scan[t].favs
    BY <2>1 DEF TypeInv, TypeOK, ScanState
  <2>3. pc'[t] = "done"
    BY <1>8 DEF Finish, Goto, TypeInv, TypeOK
  <2>4. QED BY <1>0, <2>1, <2>2, <2>3 DEF QueryView, Sound, InRadius, Stale
<1>9. CASE Respond(t)
  <2>1. scan'[t] = NoScan /\ pc'[t] = "idle"
    BY <1>9 DEF Respond, Goto, TypeInv, TypeOK
  <2>2. QED BY <1>0, <2>1 DEF QueryView, Sound, NoScan, TypeInv, TypeOK
<1>10. QED
  BY <1>1, <1>2, <1>3, <1>4, <1>5, <1>6, <1>7, <1>8, <1>9 DEF Query

\* A query begins with no results and, for get_user, with nobody excluded.
LEMMA SoundStart ==
  ASSUME TypeInv, NEW t \in Tasks, Start(t)
  PROVE  QueryView(t)' \/ QueryKept(t)
<1>1. ASSUME NEW u \in Movers, NEW p \in Points, UpsertCall(t, u, p)
      PROVE  QueryKept(t)
  BY <1>1 DEF UpsertCall, QueryKept, Goto, TypeInv, TypeOK
<1>2. ASSUME NEW u \in Movers, RemoveCall(t, u)
      PROVE  QueryKept(t)
  BY <1>2 DEF RemoveCall, RemoveLookup, QueryKept, Goto, TypeInv, TypeOK
<1>3. ASSUME NEW q, NEW at \in {"pick", "favs"}, NEW todo, NEW favs,
             \A u \in favs : u \notin q.excl, StartQuery(t, q, at, todo, favs)
      PROVE  QueryView(t)'
  <2>1. /\ scan'[t].results = {} /\ scan'[t].query = q /\ scan'[t].start = now
        /\ scan'[t].favs = favs /\ pc'[t] = at /\ now' = now
    BY <1>3 DEF StartQuery, NoScan, Goto, TypeInv, TypeOK
  <2>2. now \in Nat
    BY DEF TypeInv, TypeOK
  <2>3. QED BY <1>3, <2>1, <2>2 DEF QueryView, Sound
<1>4. ASSUME NEW q \in Queries, NearbyCall(t, q)
      PROVE  QueryView(t)'
  BY <1>3, <1>4 DEF NearbyCall
<1>5. ASSUME NEW u \in Lookups, GetUserCall(t, u)
      PROVE  QueryView(t)'
  BY <1>3, <1>5 DEF GetUserCall, GetQuery
<1>6. QED BY <1>1, <1>2, <1>4, <1>5 DEF Start

\* The steps of a task leave the queries of the others alone.
LEMMA OtherQueries ==
  ASSUME TypeInv, NEW o \in Tasks, Start(o) \/ Handler(o) \/ Cancel(o), NEW t \in Tasks, t # o
  PROVE  QueryKept(t)
<1> USE DEF QueryKept, Goto, TypeInv, TypeOK
<1>1. CASE Start(o)
  <2>1. ASSUME NEW u \in Movers, NEW p \in Points, UpsertCall(o, u, p)
        PROVE  QueryKept(t)
    BY <2>1 DEF UpsertCall
  <2>2. ASSUME NEW u \in Movers, RemoveCall(o, u)
        PROVE  QueryKept(t)
    BY <2>2 DEF RemoveCall, RemoveLookup
  <2>3. ASSUME NEW q, NEW at, NEW todo, NEW favs, StartQuery(o, q, at, todo, favs)
        PROVE  QueryKept(t)
    BY <2>3 DEF StartQuery
  <2> HIDE DEF QueryKept
  <2>4. QED BY <1>1, <2>1, <2>2, <2>3 DEF Start, NearbyCall, GetUserCall
<1>2. CASE Upsert(o) \/ Remove(o) \/ Cancel(o)
  BY <1>2 DEF Upsert, UpsertSkip, UpsertCheck, UpsertLookup, UpsertUnlink, UpsertInsert,
              UpsertCreate, UpsertIndex, UpsertSuppress, Remove, RemoveShard, RemoveIndex,
              RemoveSuppression, Cancel, Return
<1>3. CASE Query(o)
  <2>1. CASE NearbyPick(o)
    <3>1. PICK k, a : /\ scan' = [scan EXCEPT ![o].todo = scan[o].todo \ {k}, ![o].arc = a]
                      /\ pc' = [pc EXCEPT ![o] = IF a = None THEN "pick" ELSE "scan"]
      BY <2>1 DEF NearbyPick
    <3>2. QED BY <2>1, <3>1 DEF NearbyPick
  <2>2. CASE GetIndex(o)
    <3>1. PICK u : scan' = [scan EXCEPT ![o].favs = @ \ {u}]
      BY <2>2 DEF GetIndex
    <3>2. pc'[t] = pc[t] /\ who'[t] = who[t] /\ key'[t] = key[t] /\ now' = now
      BY <2>2 DEF GetIndex
    <3>3. QED BY <3>1, <3>2
  <2>3. CASE NearbyScan(o) \/ NearbyEvict(o)
    <3>1. UNCHANGED <<now, who, key>> /\ (\E to : pc' = [pc EXCEPT ![o] = to])
      BY <2>3 DEF NearbyScan, NearbyEvict, AfterShard
    <3>2. \E s : scan' = [scan EXCEPT ![o] = s]
      BY <2>3 DEF NearbyScan, NearbyEvict, AfterShard
    <3>3. QED BY <3>1, <3>2
  <2>4. CASE NearbyLoopEnd(o) \/ GetArc(o) \/ GetRead(o) \/ Finish(o) \/ Respond(o)
    BY <2>4 DEF NearbyLoopEnd, GetArc, GetRead, GetDone, Finish, Respond
  <2>5. QED BY <1>3, <2>1, <2>2, <2>3, <2>4 DEF Query
<1>4. QED BY <1>1, <1>2, <1>3 DEF Handler

LEMMA WriterQueries ==
  ASSUME TypeInv, NEW t \in Tasks, Upsert(t) \/ Remove(t) \/ Cancel(t)
  PROVE  QueryKept(t)
BY DEF QueryKept, Goto, TypeInv, TypeOK, Upsert, UpsertSkip, UpsertCheck, UpsertLookup, UpsertUnlink,
       UpsertInsert, UpsertCreate, UpsertIndex, UpsertSuppress, Remove, RemoveShard, RemoveIndex,
       RemoveSuppression, Cancel, Return

LEMMA SweepQueries ==
  ASSUME TypeInv, Sweep \/ Tick \/ UNCHANGED vars, NEW t \in Tasks
  PROVE  QueryKept(t)
<1> USE DEF QueryKept, Goto, TypeInv, TypeOK
<1>1. CASE SweepRemove \/ Remove(Sweeper)
  <2>1. UNCHANGED <<now, scan>>
    BY <1>1 DEF SweepRemove, Remove, RemoveShard, RemoveIndex, RemoveSuppression
  <2>2. pc'[t] = pc[t] /\ who'[t] = who[t] /\ key'[t] = key[t]
    BY <1>1 DEF SweepRemove, RemoveLookup, Remove, RemoveShard, RemoveIndex, RemoveSuppression, Return
  <2>3. QED BY <2>1, <2>2
<1>2. CASE SweepCall \/ SweepCollect \/ SweepEmpties \/ SweepFindEmpty \/ SweepDrop
  <2>1. UNCHANGED <<now, scan, who, key>>
    BY <1>2 DEF SweepCall, SweepCollect, SweepEmpties, SweepFindEmpty, SweepDrop
  <2>2. PICK to : pc' = [pc EXCEPT ![Sweeper] = to]
    BY <1>2 DEF SweepCall, SweepCollect, SweepEmpties, SweepFindEmpty, SweepDrop
  <2>3. QED BY <2>1, <2>2
<1>3. CASE Tick \/ UNCHANGED vars
  BY <1>3 DEF Tick, locals, vars
<1>4. QED BY <1>1, <1>2, <1>3 DEF Sweep

LEMMA QueryNext == QueryInv /\ [Next]_vars => QueryInv'
<1> SUFFICES ASSUME QueryInv, [Next]_vars
             PROVE  QueryInv'
  OBVIOUS
<1>1. TypeInv /\ TypeInv'
  BY TypeNext DEF QueryInv
<1>2. ASSUME NEW t \in Tasks
      PROVE  QueryView(t)'
  <2>1. QueryView(t)
    BY DEF QueryInv
  <2>2. CASE Sweep \/ Tick \/ UNCHANGED vars
    BY <1>1, <2>1, <2>2, SweepQueries, QueryFrame
  <2>3. ASSUME NEW o \in Tasks, Start(o) \/ Handler(o) \/ Cancel(o)
        PROVE  QueryView(t)'
    <3>1. CASE o # t
      BY <1>1, <2>1, <2>3, <3>1, OtherQueries, QueryFrame
    <3>2. CASE o = t
      BY <1>1, <2>1, <2>3, <3>2, SoundStart, WriterQueries, SoundQuery, QueryFrame DEF Handler
    <3>3. QED BY <3>1, <3>2
  <2>4. QED BY <2>2, <2>3 DEF Next
<1>3. QED BY <1>1, <1>2 DEF QueryInv

\* However the store changes under a query, nobody it shows is excluded, out of its
\* radius or was expired when it began: not in a shard that was dropped under the
\* scan, and not among the favourites that are looked up later.
THEOREM AnswersAreSound == Spec => []NearbySound
<1>1. Spec => []QueryInv
  BY QueryInit, QueryNext, PTL DEF Spec
<1>2. QueryInv => NearbySound
  BY DEF QueryInv, QueryView, Sound, NearbySound
<1>3. QED BY <1>1, <1>2, PTL

----------------------------------------------------------------------------
(* Steady users are found *)

\* The grid does its part: a point in the radius is in a cell the query looks at.
\* True on flat ground (FlatCovers below); MCDrift shows a slope where it is false.
GridCovers ==
  \A q \in Queries, p \in Points :
    InRadius(q, p) => shard_for_coords(p) \in intersecting_shards(q.pos, q.radius)

\* The grid does the rest of its part: distances are whole numbers, and the cell of a
\* point in the radius is not farther away than the point.  True on flat ground
\* (FlatNear below).
GridNear ==
  \A q \in Queries :
    /\ \A k \in intersecting_shards(q.pos, q.radius) : min_dist_to_shard(q.pos, k) \in Nat
    /\ \A p \in Points :
         /\ haversine_distance(q.pos, p) \in Nat
         /\ InRadius(q, p) =>
              min_dist_to_shard(q.pos, shard_for_coords(p)) <= haversine_distance(q.pos, p)

LoopPCs == {"pick", "scan", "evict"}
FavPCs  == {"favs", "get_arc", "get_read"}

Fits(t, e)   == ~Stale(e, scan[t].start) /\ InRadius(scan[t].query, e.pos)
Unlimited(t) == scan[t].query.pos # None /\ scan[t].query.limit = 0

\* The scan has found u, or is about to read the shard of the entry e of u.
Caught(t, u, e) ==
  \/ u \in UsersOf(scan[t].results)
  \/ pc[t] \in LoopPCs /\ shard_for_coords(e.pos) \in scan[t].todo
  \/ pc[t] = "scan" /\ scan[t].arc = shards[shard_for_coords(e.pos)]

\* A favourite has been found, or will be looked up, or is being looked up.
Sought(t, u) ==
  \/ u \in UsersOf(scan[t].results)
  \/ pc[t] \in LoopPCs
  \/ pc[t] \in FavPCs /\ u \in scan[t].favs
  \/ /\ pc[t] \in {"get_arc", "get_read"} /\ who[t] = u /\ key[t] = user_index[u]
     /\ pc[t] = "get_read" => scan[t].arc = shards[user_index[u]]

SteadyUser(t, u) ==
  /\ u \notin scan[t].query.excl
  /\ \E e \in Held(u) : Fits(t, e)
  /\ Unlimited(t) => \A e \in Held(u) : Fits(t, e) => Caught(t, u, e)
  /\ u \in scan[t].query.favs /\ Indexed(t, u) => Sought(t, u)

SteadyView(t) ==
  /\ IsFiniteSet(scan[t].results)
  /\ pc[t] \notin QueryPCs => steady[t] = {}
  /\ \A u \in steady[t] : SteadyUser(t, u)

SteadyInv == QueryInv /\ PlaceInv /\ \A t \in Tasks : SteadyView(t)

\* A shard in the map is never exchanged for another one in a step.
ShardsKeep ==
  \A k \in Keys : shards[k] # None /\ shards'[k] # None => shards'[k] = shards[k]

Same(u) == Held(u)' = Held(u) /\ user_index'[u] = user_index[u]

\* Whoever is steady for t after the step was so before, and was not touched by it.
Observed(t) == \A u \in steady'[t] : u \in steady[t] /\ Same(u)

\* Whole-number arithmetic that the grid rests on.
LEMMA SquareBound ==
  ASSUME NEW a \in Int, NEW b \in Nat, a * a <= b * b
  PROVE  -b <= a /\ a <= b
<1>1. a <= b
  OBVIOUS
<1>2. -b <= a
  OBVIOUS
<1>3. QED BY <1>1, <1>2

LEMMA SquareMono ==
  ASSUME NEW a \in Int, NEW b \in Int, (0 <= a /\ a <= b) \/ (b <= a /\ a <= 0)
  PROVE  a * a <= b * b
OBVIOUS

LEMMA SquareNat ==
  ASSUME NEW a \in Int
  PROVE  a * a \in Nat
OBVIOUS

LEMMA DivBounds ==
  ASSUME NEW x \in Int, NEW m \in Nat \ {0}
  PROVE  x \div m \in Int /\ (x \div m) * m <= x /\ x < (x \div m + 1) * m
OBVIOUS

LEMMA DivMono ==
  ASSUME NEW x \in Int, NEW y \in Int, NEW m \in Nat \ {0}, x <= y
  PROVE  x \div m <= y \div m
OBVIOUS

LEMMA DivTimes ==
  ASSUME NEW d \in Int, NEW m \in Nat \ {0}
  PROVE  (m * d) \div m = d
OBVIOUS

LEMMA TimesMono ==
  ASSUME NEW a \in Int, NEW b \in Int, NEW m \in Nat \ {0}
  PROVE  a * m <= b * m <=> a <= b
OBVIOUS

\* The cells of an interval around x are those of its points.
LEMMA CellInBox ==
  ASSUME NEW x \in Int, NEW y \in Int, NEW reach \in Nat, NEW m \in Nat \ {0},
         -reach <= x - y, x - y <= reach
  PROVE  y \div m \in (x - reach) \div m .. (x + reach) \div m
<1>1. PICK lo \in Int, hi \in Int : lo = x - reach /\ hi = x + reach
  OBVIOUS
<1>2. lo <= y /\ y <= hi
  BY <1>1
<1>3. lo \div m <= y \div m /\ y \div m <= hi \div m
  BY <1>2, DivMono
<1>4. lo \div m \in Int /\ y \div m \in Int /\ hi \div m \in Int
  BY DivBounds
<1>5. QED BY <1>1, <1>3, <1>4

\* The point nearest to x of the cell of y is not farther from x than y.
LEMMA CellNear ==
  ASSUME NEW x \in Int, NEW y \in Int, NEW m \in Nat \ {0}, NEW k, k = y \div m,
         NEW z, z = Clamp(x, k * m, (k + 1) * m)
  PROVE  z \in Int /\ ((0 <= x - z /\ x - z <= x - y) \/ (x - y <= x - z /\ x - z <= 0))
<1>1. k \in Int /\ k * m <= y /\ y < (k + 1) * m
  BY DivBounds
<1>2. PICK lo \in Int, hi \in Int : lo = k * m /\ hi = (k + 1) * m
  BY <1>1
<1>3. lo <= y /\ y < hi /\ z = Clamp(x, lo, hi)
  BY <1>1, <1>2
<1>4. QED BY <1>3 DEF Clamp

\* The squared length of a step of a and b.
Squares(a, b) == a * a + b * b

\* The cosine does not change with the latitude.
LevelGround == CosAt(0) \in Nat \ {0} /\ \A lat \in Int : CosAt(lat) = CosAt(0)

\* Where the cosine c does not change, the two parts of a squared distance.
LEMMA FlatDistance ==
  ASSUME LevelGround, NEW c, c = CosAt(0),
         NEW q \in [lat : Int, lon : Int], NEW p \in [lat : Int, lon : Int],
         NEW dlat, dlat = (q.lat - p.lat) * CosScale, NEW dx, dx = q.lon * c - p.lon * c
  PROVE  /\ dlat \in Int /\ dx \in Int
         /\ haversine_distance(q, p) = Squares(dlat, dx)
         /\ haversine_distance(q, p) \in Nat
<1>1. q.lat \in Int /\ q.lon \in Int /\ p.lat \in Int /\ p.lon \in Int /\ CosScale \in Int /\ c \in Int
  BY GridAssumption DEF LevelGround
<1>2. dlat \in Int /\ dx \in Int
  BY <1>1
<1>3. c * c * (q.lon - p.lon) * (q.lon - p.lon) = dx * dx
  BY <1>1
<1>4. CosAt(q.lat) = c /\ CosAt(p.lat) = c
  BY <1>1 DEF LevelGround
<1>5. haversine_distance(q, p) = dlat * dlat + dx * dx
  BY <1>3, <1>4 DEF haversine_distance
<1>6. dlat * dlat \in Nat /\ dx * dx \in Nat
  BY <1>2, SquareNat
<1>7. QED BY <1>2, <1>5, <1>6 DEF Squares

\* ... and of the squared distance to a cell.
LEMMA FlatMinDist ==
  ASSUME LevelGround, NEW c, c = CosAt(0),
         NEW q \in [lat : Int, lon : Int], NEW row \in Int, NEW col \in Int,
         NEW lat, lat = Clamp(q.lat, row * ShardM, (row + 1) * ShardM),
         NEW z, z = Clamp(q.lon * c, col * CellLon, (col + 1) * CellLon),
         NEW dlat, dlat = (q.lat - lat) * CosScale, NEW dx, dx = q.lon * c - z
  PROVE  /\ min_dist_to_shard(q, <<row, col>>) = Squares(dlat, dx)
         /\ min_dist_to_shard(q, <<row, col>>) \in Nat
<1>1. q.lat \in Int /\ q.lon \in Int /\ ShardM \in Int /\ CosScale \in Int /\ CellLon \in Int
      /\ c \in Nat \ {0}
  BY GridAssumption DEF CellLon, LevelGround
<1>2. lat \in Int /\ z \in Int
  BY <1>1 DEF Clamp
<1>3. dlat \in Int /\ dx \in Int
  BY <1>1, <1>2
<1>4. CosAt(q.lat) = c /\ CosAt(lat) = c
  BY <1>1, <1>2 DEF LevelGround
<1>5. c * dx * dx = c * (dx * dx) /\ dx * dx \in Int
  BY <1>1, <1>3
<1>6. (c * dx * dx) \div c = dx * dx
  BY <1>1, <1>5, DivTimes
<1>7. min_dist_to_shard(q, <<row, col>>) = dlat * dlat + (c * dx * dx) \div c
  BY <1>4 DEF min_dist_to_shard
<1>8. dlat * dlat \in Nat /\ dx * dx \in Nat
  BY <1>3, SquareNat
<1>9. QED BY <1>2, <1>3, <1>6, <1>7, <1>8 DEF Squares

\* The cell of p is not farther from q than p, which lies in it.
LEMMA FlatCell ==
  ASSUME LevelGround, NEW c, c = CosAt(0),
         NEW q \in [lat : Int, lon : Int], NEW p \in [lat : Int, lon : Int]
  PROVE  min_dist_to_shard(q, shard_for_coords(p)) <= haversine_distance(q, p)
<1>1. q.lat \in Int /\ q.lon \in Int /\ p.lat \in Int /\ p.lon \in Int /\ c \in Int
  BY DEF LevelGround
<1>2. ShardM \in Nat \ {0} /\ CosScale \in Nat \ {0}
  BY GridAssumption
<1>3. PICK x \in Int, y \in Int : x = q.lon * c /\ y = p.lon * c
  BY <1>1
<1>4. PICK cell \in Nat \ {0} : cell = CellLon
  BY <1>2 DEF CellLon
<1>5. PICK row \in Int, col \in Int : row = p.lat \div ShardM /\ col = y \div cell
  BY <1>1, <1>2, DivBounds
<1>6. shard_for_coords(p) = <<row, col>>
  BY <1>1, <1>3, <1>4, <1>5 DEF shard_for_coords, LevelGround
<1>7. PICK lat : lat = Clamp(q.lat, row * ShardM, (row + 1) * ShardM)
  OBVIOUS
<1>8. PICK z : z = Clamp(q.lon * c, col * CellLon, (col + 1) * CellLon)
  OBVIOUS
<1>9. PICK dlat, dl : dlat = (q.lat - p.lat) * CosScale /\ dl = (q.lat - lat) * CosScale
  OBVIOUS
<1>10. /\ dlat \in Int
       /\ haversine_distance(q, p) = dlat * dlat + (x - y) * (x - y)
  <2>1. PICK dx : dx = q.lon * c - p.lon * c
    OBVIOUS
  <2>2. dlat \in Int /\ haversine_distance(q, p) = Squares(dlat, dx)
    BY <1>9, <2>1, FlatDistance
  <2>3. QED BY <1>3, <2>1, <2>2 DEF Squares
<1>11. /\ lat \in Int /\ z \in Int /\ dl \in Int
       /\ min_dist_to_shard(q, <<row, col>>) = dl * dl + (x - z) * (x - z)
  <2>1. PICK dx : dx = q.lon * c - z
    OBVIOUS
  <2>2. /\ lat \in Int /\ z \in Int /\ dl \in Int
        /\ min_dist_to_shard(q, <<row, col>>) = Squares(dl, dx)
    <3>1. lat \in Int /\ z \in Int
      BY <1>1, <1>2, <1>4, <1>7, <1>8 DEF Clamp
    <3>2. dl \in Int
      BY <1>1, <1>2, <1>9, <3>1
    <3>3. min_dist_to_shard(q, <<row, col>>) = Squares((q.lat - lat) * CosScale, q.lon * c - z)
      BY <1>7, <1>8, FlatMinDist
    <3>4. QED BY <1>9, <2>1, <3>1, <3>2, <3>3
  <2>3. QED BY <1>3, <2>1, <2>2 DEF Squares
<1>12. dl * dl <= dlat * dlat
  <2>1. \/ 0 <= q.lat - lat /\ q.lat - lat <= q.lat - p.lat
        \/ q.lat - p.lat <= q.lat - lat /\ q.lat - lat <= 0
    BY <1>1, <1>2, <1>5, <1>7, CellNear
  <2>2. \/ 0 <= dl /\ dl <= dlat
        \/ dlat <= dl /\ dl <= 0
    <3>1. CASE 0 <= q.lat - lat /\ q.lat - lat <= q.lat - p.lat
      <4>1. 0 * CosScale <= (q.lat - lat) * CosScale
            /\ (q.lat - lat) * CosScale <= (q.lat - p.lat) * CosScale
        BY <1>1, <1>2, <1>11, <3>1, TimesMono
      <4>2. QED BY <1>2, <1>9, <4>1
    <3>2. CASE q.lat - p.lat <= q.lat - lat /\ q.lat - lat <= 0
      <4>1. (q.lat - lat) * CosScale <= 0 * CosScale
            /\ (q.lat - p.lat) * CosScale <= (q.lat - lat) * CosScale
        BY <1>1, <1>2, <1>11, <3>2, TimesMono
      <4>2. QED BY <1>2, <1>9, <4>1
    <3>3. QED BY <2>1, <3>1, <3>2
  <2>3. QED BY <1>10, <1>11, <2>2, SquareMono
<1>13. (x - z) * (x - z) <= (x - y) * (x - y)
  <2>1. \/ 0 <= x - z /\ x - z <= x - y
        \/ x - y <= x - z /\ x - z <= 0
    <3>1. z = Clamp(x, col * cell, (col + 1) * cell)
      BY <1>3, <1>4, <1>8
    <3>2. QED BY <1>5, <3>1, CellNear
  <2>2. QED BY <1>11, <2>1, SquareMono
<1>14. QED
  <2>1. PICK a \in Int, b \in Int, d \in Int, e \in Int :
           /\ a = dl * dl /\ b = dlat * dlat /\ d = (x - z) * (x - z) /\ e = (x - y) * (x - y)
    BY <1>10, <1>11
  <2>2. a <= b /\ d <= e
    BY <1>12, <1>13, <2>1
  <2>3. QED BY <1>6, <1>10, <1>11, <2>1, <2>2

\* Where the cosine does not change with the latitude, however small it is there, a
\* query looks at the cell of every point in its radius.
THEOREM FlatCovers ==
  ASSUME NEW c \in Nat \ {0}, \A lat \in Int : CosAt(lat) = c,
         Points \subseteq [lat : Int, lon : Int]
  PROVE  GridCovers
<1> SUFFICES ASSUME NEW qq \in Queries, NEW p \in Points, InRadius(qq, p)
             PROVE  shard_for_coords(p) \in intersecting_shards(qq.pos, qq.radius)
  BY DEF GridCovers
<1>1. PICK q \in Points, r \in Nat : q = qq.pos /\ r = qq.radius
  OBVIOUS
<1>2. q # None /\ q.lat \in Int /\ q.lon \in Int /\ p.lat \in Int /\ p.lon \in Int
  OBVIOUS
<1>3. ShardM \in Nat \ {0} /\ CosScale \in Nat \ {0}
  BY GridAssumption
<1>4. PICK x \in Int, y \in Int : x = q.lon * c /\ y = p.lon * c
  BY <1>2
<1>5. PICK cell \in Nat \ {0} : cell = CellLon
  BY <1>3 DEF CellLon
<1>6. PICK reach \in Nat : reach = r * CosScale
  BY <1>3
<1>7. PICK dlat \in Int : dlat = (q.lat - p.lat) * CosScale
  BY <1>2, <1>3
<1>0. LevelGround /\ c = CosAt(0) /\ q \in [lat : Int, lon : Int] /\ p \in [lat : Int, lon : Int]
  BY DEF LevelGround
\* The two parts of the squared distance.
<1>8. /\ dlat * dlat + (x - y) * (x - y) <= reach * reach
      /\ haversine_distance(q, p) <= Metres(r) /\ haversine_distance(q, p) \in Nat
  <2>1. haversine_distance(q, p) <= Metres(r)
    BY <1>1, <1>2 DEF InRadius
  <2>2. PICK dx : dx = q.lon * c - p.lon * c
    OBVIOUS
  <2>3. haversine_distance(q, p) = Squares(dlat, dx) /\ haversine_distance(q, p) \in Nat
    BY <1>0, <1>7, <2>2, FlatDistance
  <2>4. haversine_distance(q, p) = dlat * dlat + (x - y) * (x - y)
    BY <1>4, <2>2, <2>3 DEF Squares
  <2>5. Metres(r) = reach * reach
    BY <1>6 DEF Metres
  <2>6. QED BY <2>1, <2>3, <2>4, <2>5
<1>9. dlat * dlat <= reach * reach /\ (x - y) * (x - y) <= reach * reach
  <2>1. dlat * dlat \in Nat /\ (x - y) * (x - y) \in Nat
    BY SquareNat
  <2>2. QED BY <1>8, <2>1
<1>10. PICK row \in Int, col \in Int : row = p.lat \div ShardM /\ col = y \div cell
  BY <1>2, <1>3, DivBounds
<1>11. shard_for_coords(p) = <<row, col>>
  BY <1>2, <1>4, <1>5, <1>10 DEF shard_for_coords
\* Both of its coordinates are in the bounding box ...
<1>12. row \in (q.lat - r) \div ShardM .. (q.lat + r) \div ShardM
  <2>1. -reach <= dlat /\ dlat <= reach
    BY <1>9, SquareBound
  <2>2. q.lat - p.lat <= r /\ p.lat - q.lat <= r
    <3>1. (q.lat - p.lat) * CosScale <= r * CosScale /\ (p.lat - q.lat) * CosScale <= r * CosScale
      BY <1>2, <1>3, <1>6, <1>7, <2>1
    <3>2. QED BY <1>2, <1>3, <3>1, TimesMono
  <2>3. -r <= q.lat - p.lat
    BY <1>2, <2>2
  <2>4. QED BY <1>2, <1>3, <1>10, <2>2, <2>3, CellInBox
<1>13. col \in (x - reach) \div cell .. (x + reach) \div cell
  <2>1. -reach <= x - y /\ x - y <= reach
    BY <1>9, SquareBound
  <2>2. QED BY <1>10, <2>1, CellInBox
\* ... and the cell is not farther from q than p, which lies in it.
<1>14. min_dist_to_shard(q, <<row, col>>) <= Metres(r)
  <2>1. min_dist_to_shard(q, <<row, col>>) <= haversine_distance(q, p)
    BY <1>0, <1>11, FlatCell
  <2>2. min_dist_to_shard(q, <<row, col>>) \in Int /\ Metres(r) \in Int
    <3>1. PICK lat, z : /\ lat = Clamp(q.lat, row * ShardM, (row + 1) * ShardM)
                        /\ z = Clamp(q.lon * c, col * CellLon, (col + 1) * CellLon)
      OBVIOUS
    <3>2. min_dist_to_shard(q, <<row, col>>) \in Nat
      BY <1>0, <3>1, FlatMinDist
    <3>3. Metres(r) \in Int
      BY <1>6 DEF Metres
    <3>4. QED BY <3>2, <3>3
  <2>3. QED BY <1>8, <2>1, <2>2
<1>15. QED
  <2>1. CosAt(q.lat) = c
    BY <1>2
  <2>2. <<row, col>> \in ((q.lat - r) \div ShardM .. (q.lat + r) \div ShardM)
                         \X ((x - reach) \div cell .. (x + reach) \div cell)
    BY <1>12, <1>13
  <2>3. intersecting_shards(q, r) =
          {k \in ((q.lat - r) \div ShardM .. (q.lat + r) \div ShardM)
                 \X ((x - reach) \div cell .. (x + reach) \div cell) :
             min_dist_to_shard(q, k) <= Metres(r)}
    BY <1>4, <1>5, <1>6, <2>1 DEF intersecting_shards
  <2>4. QED BY <1>1, <1>11, <1>14, <2>2, <2>3

\* Where the cosine does not change with the latitude, the grid's distances are whole
\* and no cell is farther away than a point in it: the order and the early exit of the
\* traversal may go by the distance of cells.
THEOREM FlatNear ==
  ASSUME NEW c \in Nat \ {0}, \A lat \in Int : CosAt(lat) = c,
         Points \subseteq [lat : Int, lon : Int]
  PROVE  GridNear
<1> SUFFICES ASSUME NEW q \in Queries
             PROVE  /\ \A k \in intersecting_shards(q.pos, q.radius) :
                         min_dist_to_shard(q.pos, k) \in Nat
                    /\ \A p \in Points :
                         /\ haversine_distance(q.pos, p) \in Nat
                         /\ min_dist_to_shard(q.pos, shard_for_coords(p))
                              <= haversine_distance(q.pos, p)
  BY DEF GridNear
<1>1. PICK pos \in [lat : Int, lon : Int] : pos = q.pos
  OBVIOUS
<1>0. LevelGround /\ c = CosAt(0)
  BY DEF LevelGround
<1>2. ASSUME NEW k \in intersecting_shards(pos, q.radius)
      PROVE  min_dist_to_shard(pos, k) \in Nat
  <2>1. PICK row \in Int, col \in Int : k = <<row, col>>
    BY <1>2 DEF intersecting_shards
  <2>2. PICK lat, z : /\ lat = Clamp(pos.lat, row * ShardM, (row + 1) * ShardM)
                      /\ z = Clamp(pos.lon * c, col * CellLon, (col + 1) * CellLon)
    OBVIOUS
  <2>3. min_dist_to_shard(pos, <<row, col>>) \in Nat
    BY <1>0, <2>2, FlatMinDist
  <2>4. QED BY <2>1, <2>3
<1>3. ASSUME NEW p \in Points
      PROVE  /\ haversine_distance(pos, p) \in Nat
             /\ min_dist_to_shard(pos, shard_for_coords(p)) <= haversine_distance(pos, p)
  <2>1. p \in [lat : Int, lon : Int]
    OBVIOUS
  <2>2. QED BY <1>0, <2>1, FlatDistance, FlatCell
<1>4. QED BY <1>1, <1>2, <1>3

LEMMA ShardSteps ==
  ASSUME TypeInv, [Next]_vars
  PROVE  ShardsKeep
<1>1. ASSUME UNCHANGED shards
      PROVE  ShardsKeep
  BY <1>1 DEF ShardsKeep
<1>2. ASSUME NEW t \in Tasks, UpsertCreate(t)
      PROVE  ShardsKeep
  <2>1. CASE UNCHANGED shards
    BY <1>1, <2>1
  <2>2. CASE ~UNCHANGED shards
    <3>1. PICK a : shards' = [shards EXCEPT ![NewKey(t)] = a] /\ shards[NewKey(t)] = None
      BY <1>2, <2>2 DEF UpsertCreate
    <3>2. QED BY <3>1 DEF ShardsKeep, TypeInv, TypeOK
  <2>3. QED BY <2>1, <2>2
<1>3. CASE SweepDrop
  BY <1>3 DEF SweepDrop, ShardsKeep
<1>4. ASSUME NEW p \in Procs, Remove(p)
      PROVE  UNCHANGED shards
  BY <1>4 DEF Remove, RemoveShard, RemoveIndex, RemoveSuppression
<1>5. ASSUME NEW t \in Tasks, Start(t) \/ Cancel(t)
      PROVE  UNCHANGED shards
  BY <1>5 DEF Start, UpsertCall, RemoveCall, NearbyCall, GetUserCall, StartQuery, Cancel, store
<1>6. ASSUME NEW t \in Tasks, Upsert(t)
      PROVE  UpsertCreate(t) \/ UNCHANGED shards
  BY <1>6 DEF Upsert, UpsertSkip, UpsertCheck, UpsertLookup, UpsertUnlink, UpsertInsert, UpsertIndex,
              UpsertSuppress, store
<1>7. ASSUME NEW t \in Tasks, Query(t)
      PROVE  UNCHANGED shards
  BY <1>7 DEF Query, NearbyPick, NearbyScan, NearbyEvict, NearbyLoopEnd, GetIndex, GetArc, GetRead,
              Finish, Respond, store
<1>8. CASE Sweep
  <2>1. CASE SweepCall \/ SweepCollect \/ SweepRemove \/ SweepEmpties \/ SweepFindEmpty
    BY <1>1, <2>1 DEF SweepCall, SweepCollect, SweepRemove, SweepEmpties, SweepFindEmpty, store
  <2>2. QED BY <1>1, <1>3, <1>4, <1>8, <2>1 DEF Sweep, Procs
<1>9. CASE Tick \/ UNCHANGED vars
  BY <1>1, <1>9 DEF Tick, store, vars
<1>10. QED BY <1>1, <1>2, <1>4, <1>5, <1>6, <1>7, <1>8, <1>9 DEF Next, Handler, Procs

\* Placement turns what is held of a user into where it is held: an entry is at the
\* cell of its position, and two entries of a user at one cell are the same.
LEMMA HeldAt ==
  ASSUME TypeInv, Placement, NEW u \in Users, NEW e
  PROVE  e \in Held(u) <=>
           /\ e \in Entry
           /\ shard_for_coords(e.pos) \in Copies(u)
           /\ heap[shards[shard_for_coords(e.pos)]][u] = e
<1>1. Held(u) = {heap[shards[k]][u] : k \in Copies(u)}
  BY DEF Held, HeldIn, Copies
<1>2. \A k \in Copies(u) : /\ k \in Keys /\ heap[shards[k]][u] \in Entry
                           /\ shard_for_coords(heap[shards[k]][u].pos) = k
  BY DEF Copies, CopiesIn, Placement, TypeInv, TypeOK
<1>3. QED BY <1>1, <1>2

LEMMA SameCopies ==
  ASSUME TypeInv, TypeInv', Placement, Placement', ShardsKeep, NEW u \in Users, Same(u)
  PROVE  /\ Copies(u)' = Copies(u)
         /\ \A k \in Copies(u) : shards'[k] = shards[k] /\ heap'[shards'[k]][u] = heap[shards[k]][u]
<1>1. Held(u)' = Held(u)
  BY DEF Same
<1>2. \A k \in Copies(u) : heap[shards[k]][u] \in Held(u) /\ k = shard_for_coords(heap[shards[k]][u].pos)
  BY DEF Held, HeldIn, Copies, CopiesIn, Placement
<1>3. \A k \in Copies(u)' : /\ heap'[shards'[k]][u] \in Held(u)'
                            /\ k = shard_for_coords(heap'[shards'[k]][u].pos)
  BY DEF Held, HeldIn, Copies, CopiesIn, Placement
<1>4. ASSUME NEW k \in Copies(u)
      PROVE  k \in Copies(u)' /\ heap'[shards'[k]][u] = heap[shards[k]][u]
  <2>1. PICK e : e = heap[shards[k]][u]
    OBVIOUS
  <2>2. e \in Held(u)' /\ shard_for_coords(e.pos) = k
    BY <1>1, <1>2, <1>4, <2>1
  <2>3. PICK l \in Copies(u)' : heap'[shards'[l]][u] = e
    BY <2>2 DEF Held, HeldIn, Copies
  <2>4. l = k
    BY <1>3, <2>2, <2>3
  <2>5. QED BY <2>1, <2>3, <2>4
<1>5. ASSUME NEW k \in Copies(u)'
      PROVE  k \in Copies(u)
  <2>1. PICK e : e = heap'[shards'[k]][u]
    OBVIOUS
  <2>2. e \in Held(u) /\ shard_for_coords(e.pos) = k
    BY <1>1, <1>3, <1>5, <2>1
  <2>3. PICK l \in Copies(u) : heap[shards[l]][u] = e
    BY <2>2 DEF Held, HeldIn, Copies
  <2>4. l = k
    BY <1>2, <2>2, <2>3
  <2>5. QED BY <2>3, <2>4
<1>6. \A k \in Copies(u) : shards'[k] = shards[k]
  <2>1. \A k \in Copies(u) : k \in Keys /\ shards[k] # None
    BY DEF Copies, CopiesIn
  <2>2. \A k \in Copies(u)' : k \in Keys /\ shards'[k] # None
    BY DEF Copies, CopiesIn
  <2>3. QED BY <1>4, <2>1, <2>2 DEF ShardsKeep
<1>7. QED BY <1>4, <1>5, <1>6

\* Every step but the start of t's query leaves t's steady users alone.
LEMMA ObserveStep ==
  ASSUME TypeInv, NEW t \in Tasks, Observe
  PROVE  Observed(t)
<1>1. steady'[t] = {u \in steady[t] : /\ HeldIn(shards', heap', u) = Held(u)
                                      /\ user_index'[u] = user_index[u]
                                      /\ \E e \in Held(u) : ~Stale(e, now')}
  BY DEF Observe
<1>2. \A u : Held(u)' = HeldIn(shards', heap', u)
  BY DEF Held
<1>3. QED BY <1>1, <1>2 DEF Observed, Same

LEMMA StillStep ==
  ASSUME NEW t \in Tasks, UNCHANGED <<shards, heap, user_index>>, steady'[t] \subseteq steady[t]
  PROVE  Observed(t)
BY DEF Observed, Same, Held, HeldIn, CopiesIn

LEMMA StepsObserved ==
  ASSUME TypeInv, [Next]_vars, NEW t \in Tasks, ~Start(t)
  PROVE  Observed(t)
<1> USE DEF store, history
<1>1. ASSUME NEW o \in Tasks, Start(o), o # t
      PROVE  Observed(t)
  <2>1. ASSUME NEW q, NEW at, NEW todo, NEW favs, StartQuery(o, q, at, todo, favs)
        PROVE  Observed(t)
    <3>1. UNCHANGED <<shards, heap, user_index>> /\ steady'[t] = steady[t]
      BY <1>1, <2>1 DEF StartQuery, TypeInv, TypeOK
    <3>2. QED BY <3>1, StillStep
  <2>2. QED BY <1>1, <2>1, StillStep DEF Start, UpsertCall, RemoveCall, NearbyCall, GetUserCall
<1>2. ASSUME NEW o \in Tasks, Upsert(o) \/ Cancel(o)
      PROVE  Observed(t)
  BY <1>2, StillStep, ObserveStep
     DEF Upsert, UpsertSkip, UpsertCheck, UpsertLookup, UpsertUnlink, UpsertInsert, UpsertCreate,
         UpsertIndex, UpsertSuppress, Cancel
<1>3. ASSUME NEW p \in Procs, Remove(p)
      PROVE  Observed(t)
  BY <1>3, StillStep, ObserveStep DEF Remove, RemoveShard, RemoveIndex, RemoveSuppression
<1>4. ASSUME NEW o \in Tasks, Query(o)
      PROVE  Observed(t)
  <2>1. CASE Respond(o)
    <3>1. UNCHANGED <<shards, heap, user_index>> /\ steady'[t] \subseteq steady[t]
      BY <2>1 DEF Respond, TypeInv, TypeOK
    <3>2. QED BY <3>1, StillStep
  <2>2. QED BY <1>4, <2>1, StillStep, ObserveStep
               DEF Query, NearbyPick, NearbyScan, NearbyEvict, NearbyLoopEnd, GetIndex, GetArc,
                   GetRead, Finish
<1>5. CASE Sweep
  <2>1. CASE Remove(Sweeper)
    BY <1>3, <2>1 DEF Procs
  <2>2. QED BY <1>5, <2>1, StillStep, ObserveStep
               DEF Sweep, SweepCall, SweepCollect, SweepRemove, SweepEmpties, SweepFindEmpty, SweepDrop
<1>6. CASE Tick \/ UNCHANGED vars
  BY <1>6, StillStep, ObserveStep DEF Tick, vars
<1>7. QED BY <1>1, <1>2, <1>3, <1>4, <1>5, <1>6 DEF Next, Handler, Procs

\* What a step needs to say of t's steady users when it says what it does to the scan.
StepOK == TypeInv /\ TypeInv' /\ Placement /\ Placement' /\ ShardsKeep

\* Seen from t, an untouched user is indexed after the step only if before.
LEMMA IndexedBefore ==
  ASSUME StepOK, NEW t \in Tasks, NEW u \in Users, Same(u),
         scan'[t].query = scan[t].query, now' >= now, Indexed(t, u)'
  PROVE  /\ Indexed(t, u) /\ shards'[user_index[u]] = shards[user_index[u]]
         /\ user_index'[u] = user_index[u]
<1>1. /\ Copies(u)' = Copies(u)
      /\ \A k \in Copies(u) : shards'[k] = shards[k] /\ heap'[shards'[k]][u] = heap[shards[k]][u]
  BY SameCopies DEF StepOK
<1>2. PICK k : k = user_index[u]
  OBVIOUS
<1>3. user_index'[u] = k /\ k \in Copies(u)
  BY <1>1, <1>2 DEF Same, Indexed
<1>4. PICK e : e = heap[shards[k]][u]
  OBVIOUS
<1>5. e \in Entry
  BY <1>3, <1>4 DEF Copies, CopiesIn, StepOK, TypeInv, TypeOK
<1>6. heap'[shards'[k]][u] = e
  BY <1>1, <1>3, <1>4
<1>7. now' - e.at <= TTL /\ InRadius(scan'[t].query, e.pos)
  <2>1. ~Stale(e, now') /\ InRadius(scan'[t].query, e.pos)
    BY <1>3, <1>6 DEF Indexed, InRadius, Stale
  <2>2. e.at \in Nat /\ now' \in Nat
    BY <1>5 DEF Entry, StepOK, TypeInv, TypeOK
  <2>3. QED BY <2>1, <2>2 DEF Stale
<1>8. ~Stale(e, now)
  <2>1. e.at \in Nat /\ now' \in Nat /\ now \in Nat
    BY <1>5 DEF Entry, StepOK, TypeInv, TypeOK
  <2>2. QED BY <1>7, <2>1 DEF Stale
<1>9. QED BY <1>1, <1>2, <1>3, <1>4, <1>7, <1>8 DEF Indexed

\* An untouched user's entries stay where they are.
LEMMA CellKept ==
  ASSUME StepOK, NEW u \in Users, Same(u), NEW e \in Held(u)'
  PROVE  /\ e \in Held(u) /\ e \in Entry
         /\ shard_for_coords(e.pos) \in Keys
         /\ shards[shard_for_coords(e.pos)] # None
         /\ heap[shards[shard_for_coords(e.pos)]][u] = e
         /\ shards'[shard_for_coords(e.pos)] = shards[shard_for_coords(e.pos)]
<1>1. e \in Held(u)
  BY DEF Same
<1>2. /\ e \in Entry /\ shard_for_coords(e.pos) \in Copies(u)
      /\ heap[shards[shard_for_coords(e.pos)]][u] = e
  BY <1>1, HeldAt DEF StepOK
<1>3. QED BY <1>1, <1>2, SameCopies DEF StepOK, Copies, CopiesIn

\* A step that keeps t's query keeps what its steady users are promised.
LEMMA SteadyFrame ==
  ASSUME StepOK, NEW t \in Tasks, SteadyView(t), QueryKept(t), Observed(t)
  PROVE  SteadyView(t)'
<1>1. scan'[t] = scan[t] /\ now' >= now
  BY DEF QueryKept
<1>2. IsFiniteSet(scan'[t].results)
  BY <1>1 DEF SteadyView
<1>3. pc'[t] \notin QueryPCs => steady'[t] = {}
  BY DEF QueryKept, SteadyView, Observed
<1>4. ASSUME NEW u \in steady'[t]
      PROVE  SteadyUser(t, u)'
  <2>1. u \in Users /\ u \in steady[t] /\ Same(u) /\ SteadyUser(t, u)
    BY <1>4 DEF Observed, SteadyView, StepOK, TypeInv, TypeOK
  <2>2. pc'[t] = pc[t] /\ who'[t] = who[t] /\ key'[t] = key[t] /\ user_index'[u] = user_index[u]
    BY <1>4, <2>1 DEF QueryKept, SteadyView, Same
  <2>3. \A e : Fits(t, e)' <=> Fits(t, e)
    BY <1>1 DEF Fits, Stale, InRadius
  <2>4. Unlimited(t)' <=> Unlimited(t)
    BY <1>1 DEF Unlimited
  <2>5. ASSUME NEW e \in Held(u)', Caught(t, u, e)
        PROVE  Caught(t, u, e)'
    <3>1. shards'[shard_for_coords(e.pos)] = shards[shard_for_coords(e.pos)]
      BY <2>1, <2>5, CellKept
    <3>2. QED BY <1>1, <2>2, <2>5, <3>1 DEF Caught, UsersOf
  <2>6. ASSUME Indexed(t, u)', Sought(t, u)
        PROVE  Sought(t, u)'
    <3>1. shards'[user_index[u]] = shards[user_index[u]]
      BY <1>1, <2>1, <2>6, IndexedBefore
    <3>2. QED BY <1>1, <2>2, <2>6, <3>1 DEF Sought, UsersOf
  <2>7. Indexed(t, u)' => Indexed(t, u)
    BY <1>1, <2>1, IndexedBefore
  <2>8. \E e \in Held(u)' : Fits(t, e)'
    BY <2>1, <2>3 DEF SteadyUser, Same
  <2>9. Unlimited(t)' => \A e \in Held(u)' : Fits(t, e)' => Caught(t, u, e)'
    BY <2>1, <2>3, <2>4, <2>5 DEF SteadyUser, Same
  <2>10. u \in scan'[t].query.favs /\ Indexed(t, u)' => Sought(t, u)'
    BY <1>1, <2>1, <2>6, <2>7 DEF SteadyUser
  <2>11. u \notin scan'[t].query.excl
    BY <1>1, <2>1 DEF SteadyUser
  <2>12. QED BY <2>8, <2>9, <2>10, <2>11 DEF SteadyUser
<1>5. QED BY <1>2, <1>3, <1>4 DEF SteadyView

\* A step of t's query keeps the promise if it keeps what was caught and sought.
LEMMA SteadyOwn ==
  ASSUME StepOK, NEW t \in Tasks, SteadyView(t), Observed(t), pc'[t] \in QueryPCs, now' = now,
         scan'[t].query = scan[t].query, scan'[t].start = scan[t].start,
         IsFiniteSet(scan'[t].results),
         \A u \in steady'[t], e \in Entry :
           (/\ u \in Users /\ u \notin scan[t].query.excl /\ Unlimited(t) /\ e \in Held(u)
            /\ Fits(t, e) /\ Caught(t, u, e)
            /\ shard_for_coords(e.pos) \in Keys /\ shards[shard_for_coords(e.pos)] # None
            /\ heap[shards[shard_for_coords(e.pos)]][u] = e
            /\ shards'[shard_for_coords(e.pos)] = shards[shard_for_coords(e.pos)])
             => Caught(t, u, e)',
         \A u \in steady'[t] :
           (/\ u \in Users /\ u \notin scan[t].query.excl /\ u \in scan[t].query.favs
            /\ Indexed(t, u) /\ Sought(t, u)
            /\ shards'[user_index[u]] = shards[user_index[u]] /\ user_index'[u] = user_index[u])
             => Sought(t, u)'
  PROVE  SteadyView(t)'
<1>1. ASSUME NEW u \in steady'[t]
      PROVE  SteadyUser(t, u)'
  <2>1. u \in Users /\ u \in steady[t] /\ Same(u) /\ SteadyUser(t, u)
    BY <1>1 DEF Observed, SteadyView, StepOK, TypeInv, TypeOK
  <2>2. \A e : Fits(t, e)' <=> Fits(t, e)
    BY DEF Fits, Stale, InRadius
  <2>3. Unlimited(t)' <=> Unlimited(t)
    BY DEF Unlimited
  <2>4. \E e \in Held(u)' : Fits(t, e)'
    BY <2>1, <2>2 DEF SteadyUser, Same
  <2>5. ASSUME Unlimited(t)', NEW e \in Held(u)', Fits(t, e)'
        PROVE  Caught(t, u, e)'
    <3>1. /\ e \in Held(u) /\ e \in Entry
          /\ shard_for_coords(e.pos) \in Keys /\ shards[shard_for_coords(e.pos)] # None
          /\ heap[shards[shard_for_coords(e.pos)]][u] = e
          /\ shards'[shard_for_coords(e.pos)] = shards[shard_for_coords(e.pos)]
      BY <2>1, <2>5, CellKept
    <3>2. Unlimited(t) /\ Fits(t, e) /\ Caught(t, u, e) /\ u \notin scan[t].query.excl
      BY <2>1, <2>2, <2>3, <2>5, <3>1 DEF SteadyUser
    <3>3. QED BY <1>1, <2>1, <3>1, <3>2
  <2>6. ASSUME u \in scan'[t].query.favs, Indexed(t, u)'
        PROVE  Sought(t, u)'
    <3>1. now' >= now
      BY DEF StepOK, TypeInv, TypeOK
    <3>2. /\ Indexed(t, u) /\ shards'[user_index[u]] = shards[user_index[u]]
          /\ user_index'[u] = user_index[u]
      BY <2>1, <2>6, <3>1, IndexedBefore
    <3>3. Sought(t, u) /\ u \notin scan[t].query.excl
      BY <2>1, <2>6, <3>2 DEF SteadyUser
    <3>4. QED BY <1>1, <2>1, <2>6, <3>2, <3>3
  <2>7. u \notin scan'[t].query.excl
    BY <2>1 DEF SteadyUser
  <2>8. QED BY <2>4, <2>5, <2>6, <2>7 DEF SteadyUser
<1>2. QED BY <1>1 DEF SteadyView

LEMMA SteadyPick ==
  ASSUME StepOK, NEW t \in Tasks, SteadyView(t), Observed(t), NearbyPick(t)
  PROVE  SteadyView(t)'
<1>1. PICK k \in Nearest(scan[t].query, scan[t].todo) :
        LET a == IF k \in Keys THEN shards[k] ELSE None
        IN  /\ scan' = [scan EXCEPT ![t].todo = scan[t].todo \ {k}, ![t].arc = a]
            /\ Goto(t, IF a = None THEN "pick" ELSE "scan")
  BY DEF NearbyPick
<1>2. PICK a : /\ a = IF k \in Keys THEN shards[k] ELSE None
               /\ scan' = [scan EXCEPT ![t].todo = scan[t].todo \ {k}, ![t].arc = a]
               /\ pc' = [pc EXCEPT ![t] = IF a = None THEN "pick" ELSE "scan"]
  BY <1>1 DEF Goto
<1>3. /\ scan'[t].results = scan[t].results /\ scan'[t].query = scan[t].query
      /\ scan'[t].start = scan[t].start /\ scan'[t].todo = scan[t].todo \ {k} /\ scan'[t].arc = a
      /\ pc[t] = "pick" /\ pc'[t] = (IF a = None THEN "pick" ELSE "scan") /\ now' = now
  BY <1>2 DEF NearbyPick, StepOK, TypeInv, TypeOK, ScanState
<1>4. IsFiniteSet(scan'[t].results)
  BY <1>3 DEF SteadyView
<1>5. ASSUME NEW u, NEW e, Caught(t, u, e), shard_for_coords(e.pos) \in Keys,
             shards[shard_for_coords(e.pos)] # None,
             shards'[shard_for_coords(e.pos)] = shards[shard_for_coords(e.pos)]
      PROVE  Caught(t, u, e)'
  <2>1. CASE u \in UsersOf(scan[t].results)
    BY <1>3, <2>1 DEF Caught, UsersOf
  <2>2. CASE shard_for_coords(e.pos) \in scan[t].todo /\ shard_for_coords(e.pos) # k
    BY <1>3, <2>2 DEF Caught, LoopPCs
  <2>3. CASE shard_for_coords(e.pos) = k
    BY <1>2, <1>3, <1>5, <2>3 DEF Caught
  <2>4. QED BY <1>3, <1>5, <2>1, <2>2, <2>3 DEF Caught
<1>6. ASSUME NEW u
      PROVE  Sought(t, u)'
  BY <1>3 DEF Sought, LoopPCs
<1>7. QED BY <1>3, <1>4, <1>5, <1>6, SteadyOwn

\* Where the loop goes after a shard: on while it is unlimited and cells are left,
\* and out of it with every favourite it has not captured.
LEMMA LoopGoesOn ==
  ASSUME TypeInv, NEW t \in Tasks, NEW s \in ScanState, AfterShard(t, s)
  PROVE  /\ scan'[t].results = s.results /\ scan'[t].query = s.query
         /\ scan'[t].start = s.start /\ scan'[t].todo = s.todo
         /\ \/ pc'[t] = "pick"
            \/ /\ pc'[t] = "favs" /\ scan'[t].favs = MissedFavs(s.query, s.results)
               /\ s.query.limit = 0 => s.todo = {}
<1>1. PICK f, out :
        /\ out <=> (s.todo = {} \/ EarlyExit(s.query, s.results, s.todo))
        /\ pc' = [pc EXCEPT ![t] = IF out THEN "favs" ELSE "pick"]
        /\ scan' = [scan EXCEPT ![t] = [s EXCEPT !.arc = None, !.stale = {}, !.favs = f]]
        /\ f = IF out THEN MissedFavs(s.query, s.results) ELSE {}
  BY Zenon DEF AfterShard, Goto
<1>2. /\ scan'[t].results = s.results /\ scan'[t].query = s.query
      /\ scan'[t].start = s.start /\ scan'[t].todo = s.todo /\ scan'[t].favs = f
  BY <1>1 DEF ScanState, TypeInv, TypeOK
<1>3. pc'[t] = IF out THEN "favs" ELSE "pick"
  BY <1>1 DEF TypeInv, TypeOK
<1>4. s.query.limit = 0 => ~EarlyExit(s.query, s.results, s.todo)
  BY DEF EarlyExit
<1>5. QED BY <1>1, <1>2, <1>3, <1>4

\* After a shard that leaves the query state s: nobody found or sought gets lost.
LEMMA SteadyAfterShard ==
  ASSUME StepOK, NEW t \in Tasks, SteadyView(t), Observed(t), NEW s \in ScanState,
         AfterShard(t, s), now' = now, pc[t] \in {"scan", "evict"},
         s.query = scan[t].query, s.start = scan[t].start, s.todo = scan[t].todo,
         IsFiniteSet(s.results), scan[t].results \subseteq s.results,
         \A u \in steady'[t], e \in Entry :
           (/\ u \in Users /\ u \notin scan[t].query.excl /\ Fits(t, e) /\ pc[t] = "scan"
            /\ heap[scan[t].arc][u] = e)
             => u \in UsersOf(s.results)
  PROVE  SteadyView(t)'
<1>1. /\ scan'[t].results = s.results /\ scan'[t].query = s.query
      /\ scan'[t].start = s.start /\ scan'[t].todo = s.todo
      /\ \/ pc'[t] = "pick"
         \/ /\ pc'[t] = "favs" /\ scan'[t].favs = MissedFavs(s.query, s.results)
            /\ s.query.limit = 0 => s.todo = {}
  BY LoopGoesOn DEF StepOK
<1>2. ASSUME NEW u \in steady'[t], NEW e \in Entry,
             u \in Users, u \notin scan[t].query.excl, Unlimited(t), Fits(t, e), Caught(t, u, e),
             heap[shards[shard_for_coords(e.pos)]][u] = e
      PROVE  Caught(t, u, e)'
  <2>1. CASE u \in UsersOf(scan[t].results)
    BY <1>1, <2>1 DEF Caught, UsersOf
  <2>2. CASE shard_for_coords(e.pos) \in scan[t].todo
    BY <1>1, <1>2, <2>2 DEF Caught, Unlimited, LoopPCs
  <2>3. CASE pc[t] = "scan" /\ scan[t].arc = shards[shard_for_coords(e.pos)]
    <3>1. u \in UsersOf(s.results)
      BY <1>2, <2>3
    <3>2. QED BY <1>1, <3>1 DEF Caught, UsersOf
  <2>4. QED BY <1>2, <2>1, <2>2, <2>3 DEF Caught
<1>3. ASSUME NEW u, u \notin scan[t].query.excl, u \in scan[t].query.favs
      PROVE  Sought(t, u)'
  <2>1. CASE pc'[t] = "pick"
    BY <2>1 DEF Sought, LoopPCs
  <2>2. CASE pc'[t] = "favs" /\ scan'[t].favs = MissedFavs(s.query, s.results)
    BY <1>1, <1>3, <2>2 DEF Sought, FavPCs, MissedFavs, UsersOf
  <2>3. QED BY <1>1, <2>1, <2>2
<1>4. QED BY <1>1, <1>2, <1>3, SteadyOwn

LEMMA SteadyScan ==
  ASSUME StepOK, NEW t \in Tasks, SteadyView(t), Observed(t), NearbyScan(t)
  PROVE  SteadyView(t)'
<1> DEFINE shard == heap[scan[t].arc]
           seen  == {u \in Users \ scan[t].query.excl : shard[u] # None}
           stale == {u \in seen : Stale(shard[u], scan[t].start)}
           hits  == {u \in seen \ stale : InRadius(scan[t].query, shard[u].pos)}
           found == {Result(u, shard[u]) : u \in hits}
           s2    == [scan[t] EXCEPT !.stale = stale, !.results = @ \cup found]
<1>1. scan[t] \in ScanState /\ shard \in [Users -> Entry \cup {None}] /\ pc[t] = "scan" /\ now' = now
  BY DEF NearbyScan, StepOK, TypeInv, TypeOK, LocalsOK
<1>2. found \subseteq Found /\ stale \subseteq Users
  <2>1. \A u \in hits : Result(u, shard[u]) \in Found
    BY <1>1 DEF Result, Found, Entry
  <2>2. QED BY <2>1
<1>3. IsFiniteSet(found)
  <2>1. IsFiniteSet(hits)
    <3>1. hits \in SUBSET Users
      OBVIOUS
    <3>2. QED BY <3>1, UsersAssumption, FS_Subset
  <2>2. PICK f : f = [u \in hits |-> Result(u, shard[u])]
    OBVIOUS
  <2>3. f \in Surjection(hits, found)
    BY <2>2 DEF Surjection
  <2>4. QED BY <2>1, <2>3, FS_Surjection
<1>4. ASSUME NEW u \in Users, u \notin scan[t].query.excl, NEW e \in Entry, Fits(t, e), shard[u] = e
      PROVE  u \in UsersOf(found)
  <2>1. u \in hits
    BY <1>4 DEF Fits
  <2>2. Result(u, shard[u]).user = u
    BY DEF Result
  <2>3. QED BY <2>1, <2>2 DEF UsersOf
<1> HIDE DEF stale, found
<1>5. /\ s2 \in ScanState /\ s2.query = scan[t].query /\ s2.start = scan[t].start
      /\ s2.todo = scan[t].todo /\ s2.favs = scan[t].favs
      /\ s2.results = scan[t].results \cup found
  BY <1>1, <1>2 DEF ScanState
<1> HIDE DEF s2
<1>6. IsFiniteSet(s2.results) /\ scan[t].results \subseteq s2.results
  <2>1. IsFiniteSet(scan[t].results)
    BY DEF SteadyView
  <2>2. IsFiniteSet(scan[t].results \cup found)
    BY <1>3, <2>1, FS_Union
  <2>3. QED BY <1>5, <2>2
<1>7. \A u \in UsersOf(found) : u \in UsersOf(s2.results)
  BY <1>5 DEF UsersOf
<1>8. CASE stale = {}
  <2>1. AfterShard(t, s2)
    BY <1>8 DEF NearbyScan, s2, stale, found
  <2>2. \A u \in steady'[t], e \in Entry :
          (/\ u \in Users /\ u \notin scan[t].query.excl /\ Fits(t, e) /\ pc[t] = "scan"
           /\ heap[scan[t].arc][u] = e)
            => u \in UsersOf(s2.results)
    BY <1>4, <1>7
  <2>3. QED BY <1>1, <1>5, <1>6, <2>1, <2>2, SteadyAfterShard
<1>9. CASE stale # {}
  <2>1. pc' = [pc EXCEPT ![t] = "evict"] /\ scan' = [scan EXCEPT ![t] = s2]
    BY <1>9 DEF NearbyScan, Goto, s2, stale, found
  <2>2. pc'[t] = "evict" /\ scan'[t] = s2
    BY <2>1 DEF StepOK, TypeInv, TypeOK
  <2>3. ASSUME NEW u \in Users, u \notin scan[t].query.excl, NEW e \in Entry, Fits(t, e),
               Caught(t, u, e), heap[shards[shard_for_coords(e.pos)]][u] = e
        PROVE  Caught(t, u, e)'
    <3>1. CASE u \in UsersOf(scan[t].results)
      BY <1>5, <2>2, <3>1 DEF Caught, UsersOf
    <3>2. CASE shard_for_coords(e.pos) \in scan[t].todo
      BY <1>5, <2>2, <3>2 DEF Caught, LoopPCs
    <3>3. CASE scan[t].arc = shards[shard_for_coords(e.pos)]
      <4>1. u \in UsersOf(s2.results)
        BY <1>4, <1>7, <2>3, <3>3
      <4>2. QED BY <2>2, <4>1 DEF Caught, UsersOf
    <3>4. QED BY <2>3, <3>1, <3>2, <3>3 DEF Caught
  <2>4. ASSUME NEW u
        PROVE  Sought(t, u)'
    BY <2>2 DEF Sought, LoopPCs
  <2>5. QED BY <1>1, <1>5, <1>6, <2>2, <2>3, <2>4, SteadyOwn
<1>10. QED BY <1>8, <1>9

LEMMA SteadyEvict ==
  ASSUME StepOK, NEW t \in Tasks, SteadyView(t), Observed(t), NearbyEvict(t)
  PROVE  SteadyView(t)'
<1>1. scan[t] \in ScanState /\ IsFiniteSet(scan[t].results)
  BY DEF StepOK, TypeInv, TypeOK, SteadyView
<1>2. pc[t] = "evict" /\ AfterShard(t, scan[t]) /\ now' = now
  BY DEF NearbyEvict
<1>3. QED BY <1>1, <1>2, SteadyAfterShard

LEMMA SteadyLoopEnd ==
  ASSUME StepOK, NEW t \in Tasks, SteadyView(t), Observed(t), NearbyLoopEnd(t)
  PROVE  SteadyView(t)'
<1>1. /\ scan'[t].results = scan[t].results /\ scan'[t].query = scan[t].query
      /\ scan'[t].start = scan[t].start /\ pc[t] = "pick" /\ pc'[t] = "favs" /\ now' = now
      /\ scan[t].todo = {} /\ scan'[t].favs = MissedFavs(scan[t].query, scan[t].results)
  BY DEF NearbyLoopEnd, Goto, StepOK, TypeInv, TypeOK, ScanState
<1>2. IsFiniteSet(scan'[t].results)
  BY <1>1 DEF SteadyView
<1>3. ASSUME NEW u, NEW e, Caught(t, u, e)
      PROVE  Caught(t, u, e)'
  BY <1>1, <1>3 DEF Caught, UsersOf
<1>4. ASSUME NEW u, u \notin scan[t].query.excl, u \in scan[t].query.favs
      PROVE  Sought(t, u)'
  BY <1>1, <1>4 DEF Sought, FavPCs, MissedFavs, UsersOf
<1>5. QED BY <1>1, <1>2, <1>3, <1>4, SteadyOwn

LEMMA SteadyGetIndex ==
  ASSUME StepOK, NEW t \in Tasks, SteadyView(t), Observed(t), GetIndex(t)
  PROVE  SteadyView(t)'
<1>1. PICK w \in scan[t].favs :
         /\ scan' = [scan EXCEPT ![t].favs = @ \ {w}]
         /\ IF user_index[w] = None
            THEN UNCHANGED <<pc, who, key>>
            ELSE /\ Goto(t, "get_arc")
                 /\ who' = [who EXCEPT ![t] = w]
                 /\ key' = [key EXCEPT ![t] = user_index[w]]
  BY DEF GetIndex
<1>2. /\ scan'[t].results = scan[t].results /\ scan'[t].query = scan[t].query
      /\ scan'[t].start = scan[t].start /\ scan'[t].favs = scan[t].favs \ {w}
      /\ pc[t] = "favs" /\ now' = now
  BY <1>1 DEF GetIndex, StepOK, TypeInv, TypeOK, ScanState
<1>3. /\ pc'[t] \in {"favs", "get_arc"}
      /\ user_index[w] # None => pc'[t] = "get_arc" /\ who'[t] = w /\ key'[t] = user_index[w]
  BY <1>1, <1>2 DEF Goto, StepOK, TypeInv, TypeOK
<1>4. IsFiniteSet(scan'[t].results)
  BY <1>2 DEF SteadyView
<1>5. ASSUME NEW u, NEW e, Caught(t, u, e)
      PROVE  Caught(t, u, e)'
  BY <1>2, <1>5 DEF Caught, LoopPCs, UsersOf
<1>6. ASSUME NEW u \in Users, Indexed(t, u), Sought(t, u), user_index'[u] = user_index[u]
      PROVE  Sought(t, u)'
  <2>1. CASE u \in UsersOf(scan[t].results)
    BY <1>2, <2>1 DEF Sought, UsersOf
  <2>2. CASE u = w
    <3>1. user_index[u] # None
      BY <1>6 DEF Indexed, Copies, CopiesIn
    <3>2. QED BY <1>3, <1>6, <2>2, <3>1 DEF Sought
  <2>3. CASE u \in scan[t].favs /\ u # w
    BY <1>2, <1>3, <2>3 DEF Sought, FavPCs
  <2>4. QED BY <1>2, <1>6, <2>1, <2>2, <2>3 DEF Sought, LoopPCs
<1>7. QED BY <1>2, <1>3, <1>4, <1>5, <1>6, SteadyOwn

LEMMA SteadyGetArc ==
  ASSUME StepOK, NEW t \in Tasks, SteadyView(t), Observed(t), GetArc(t)
  PROVE  SteadyView(t)'
<1>1. /\ scan'[t].results = scan[t].results /\ scan'[t].query = scan[t].query
      /\ scan'[t].start = scan[t].start /\ scan'[t].favs = scan[t].favs
      /\ scan'[t].arc = shards[key[t]] /\ pc[t] = "get_arc" /\ now' = now
  BY DEF GetArc, StepOK, TypeInv, TypeOK, ScanState
<1>2. /\ pc'[t] \in {"favs", "get_read"}
      /\ shards[key[t]] # None => pc'[t] = "get_read" /\ who'[t] = who[t] /\ key'[t] = key[t]
  BY DEF GetArc, GetDone, Goto, StepOK, TypeInv, TypeOK
<1>3. IsFiniteSet(scan'[t].results)
  BY <1>1 DEF SteadyView
<1>4. ASSUME NEW u, NEW e, Caught(t, u, e)
      PROVE  Caught(t, u, e)'
  BY <1>1, <1>4 DEF Caught, LoopPCs, UsersOf
<1>5. ASSUME NEW u \in Users, Indexed(t, u), Sought(t, u), user_index'[u] = user_index[u],
             shards'[user_index[u]] = shards[user_index[u]]
      PROVE  Sought(t, u)'
  <2>1. CASE u \in UsersOf(scan[t].results)
    BY <1>1, <2>1 DEF Sought, UsersOf
  <2>2. CASE u \in scan[t].favs
    BY <1>1, <1>2, <2>2 DEF Sought, FavPCs
  <2>3. CASE who[t] = u /\ key[t] = user_index[u]
    <3>1. shards[user_index[u]] # None
      BY <1>5 DEF Indexed, Copies, CopiesIn
    <3>2. QED BY <1>1, <1>2, <1>5, <2>3, <3>1 DEF Sought
  <2>4. QED BY <1>1, <1>5, <2>1, <2>2, <2>3 DEF Sought, LoopPCs
<1>6. QED BY <1>1, <1>2, <1>3, <1>4, <1>5, SteadyOwn

LEMMA SteadyGetRead ==
  ASSUME StepOK, NEW t \in Tasks, SteadyView(t), Observed(t), GetRead(t)
  PROVE  SteadyView(t)'
<1> DEFINE e0   == heap[scan[t].arc][who[t]]
           hit  == e0 # None /\ ~Stale(e0, now) /\ InRadius(scan[t].query, e0.pos)
           more == IF hit THEN {Result(who[t], e0)} ELSE {}
<1>1. /\ scan'[t].results = scan[t].results \cup more /\ scan'[t].query = scan[t].query
      /\ scan'[t].start = scan[t].start /\ scan'[t].favs = scan[t].favs
      /\ pc[t] = "get_read" /\ now' = now
  <2>1. scan' = [scan EXCEPT ![t].arc = None, ![t].results = @ \cup more]
    BY DEF GetRead
  <2>2. scan[t] \in ScanState /\ scan \in [Tasks -> ScanState]
    BY DEF StepOK, TypeInv, TypeOK
  <2> HIDE DEF more
  <2>3. /\ scan'[t].results = scan[t].results \cup more /\ scan'[t].query = scan[t].query
        /\ scan'[t].start = scan[t].start /\ scan'[t].favs = scan[t].favs
    BY <2>1, <2>2 DEF ScanState
  <2>4. QED BY <2>3 DEF GetRead
<1>2. pc'[t] = "favs"
  BY DEF GetRead, GetDone, Goto, StepOK, TypeInv, TypeOK
<1>3. IsFiniteSet(scan'[t].results)
  <2>1. IsFiniteSet(scan[t].results)
    BY DEF SteadyView
  <2>2. IsFiniteSet(scan[t].results \cup {Result(who[t], e0)})
    BY <2>1, FS_AddElement
  <2>3. QED BY <1>1, <2>1, <2>2
<1>4. hit => who[t] \in UsersOf(more)
  <2>1. Result(who[t], e0).user = who[t]
    BY DEF Result
  <2>2. QED BY <2>1 DEF UsersOf
<1> HIDE DEF more
<1>5. ASSUME NEW u, NEW e, Caught(t, u, e)
      PROVE  Caught(t, u, e)'
  BY <1>1, <1>5 DEF Caught, LoopPCs, UsersOf
<1>6. ASSUME NEW u \in Users, Indexed(t, u), Sought(t, u)
      PROVE  Sought(t, u)'
  <2>1. CASE u \in UsersOf(scan[t].results)
    BY <1>1, <2>1 DEF Sought, UsersOf
  <2>2. CASE u \in scan[t].favs
    BY <1>1, <1>2, <2>2 DEF Sought, FavPCs
  <2>3. CASE who[t] = u /\ scan[t].arc = shards[user_index[u]]
    <3>1. hit
      BY <1>6, <2>3 DEF Indexed, Copies, CopiesIn
    <3>2. QED BY <1>1, <1>4, <2>3, <3>1 DEF Sought, UsersOf
  <2>4. QED BY <1>1, <1>6, <2>1, <2>2, <2>3 DEF Sought, LoopPCs
<1>7. QED BY <1>1, <1>2, <1>3, <1>5, <1>6, SteadyOwn

\* The reserved slots keep every favourite, and everybody when nothing limits them.
LEMMA ReserveKeeps ==
  ASSUME NEW q, NEW rs, IsFiniteSet(rs), NEW out \in Reserve(q, rs)
  PROVE  /\ out \subseteq rs
         /\ \A r \in rs : r.user \in q.favs => r \in out
         /\ q.limit = 0 => out = rs
<1> DEFINE fav   == {r \in rs : r.user \in q.favs}
           other == rs \ fav
           room  == IF q.limit = 0 THEN Cardinality(other)
                    ELSE IF q.limit > Cardinality(fav) THEN q.limit - Cardinality(fav) ELSE 0
<1>1. PICK T \in Take(q, other, room) : out = fav \cup T
  BY DEF Reserve
<1>2. T \in SUBSET other
  BY DEF Take
<1>3. ASSUME q.limit = 0
      PROVE  T = other
  <2>1. IsFiniteSet(other)
    <3>1. other \in SUBSET rs
      OBVIOUS
    <3>2. QED BY <3>1, FS_Subset
  <2>2. Cardinality(other) \in Nat
    BY <2>1, FS_CardinalityType
  <2>3. Cardinality(T) = IF room < Cardinality(other) THEN room ELSE Cardinality(other)
    BY <1>1 DEF Take
  <2>4. room = Cardinality(other)
    BY <1>3
  <2> HIDE DEF room, other
  <2>5. Cardinality(other) = Cardinality(T)
    BY <2>2, <2>3, <2>4
  <2>6. QED BY <1>2, <2>1, <2>5, FS_Subset
<1>4. QED BY <1>1, <1>2, <1>3

LEMMA SteadyFinish ==
  ASSUME StepOK, NEW t \in Tasks, SteadyView(t), Observed(t), Finish(t)
  PROVE  SteadyView(t)'
<1>1. PICK rs \in (IF scan[t].query.pos = None THEN {scan[t].results}
                   ELSE Reserve(scan[t].query, scan[t].results)) :
         scan' = [scan EXCEPT ![t].results = rs]
  BY DEF Finish
<1>2. IsFiniteSet(scan[t].results)
  BY DEF SteadyView
<1>3. /\ rs \subseteq scan[t].results
      /\ \A r \in scan[t].results : r.user \in scan[t].query.favs => r \in rs
      /\ Unlimited(t) => rs = scan[t].results
  BY <1>1, <1>2, ReserveKeeps DEF Unlimited
<1>4. /\ scan'[t].results = rs /\ scan'[t].query = scan[t].query /\ scan'[t].start = scan[t].start
      /\ pc[t] = "favs" /\ pc'[t] = "done" /\ now' = now /\ scan[t].favs = {}
  BY <1>1 DEF Finish, Goto, StepOK, TypeInv, TypeOK, ScanState
<1>5. IsFiniteSet(scan'[t].results)
  <2>1. rs \in SUBSET scan[t].results
    BY <1>3
  <2>2. QED BY <1>2, <1>4, <2>1, FS_Subset
<1>6. ASSUME NEW u, NEW e, Unlimited(t), Caught(t, u, e)
      PROVE  Caught(t, u, e)'
  BY <1>3, <1>4, <1>6 DEF Caught, LoopPCs, UsersOf
<1>7. ASSUME NEW u, u \in scan[t].query.favs, Sought(t, u)
      PROVE  Sought(t, u)'
  <2>1. u \in UsersOf(scan[t].results)
    BY <1>4, <1>7 DEF Sought, LoopPCs
  <2>2. QED BY <1>3, <1>4, <1>7, <2>1 DEF Sought, UsersOf
<1>8. QED BY <1>4, <1>5, <1>6, <1>7, SteadyOwn

LEMMA SteadyRespond ==
  ASSUME StepOK, NEW t \in Tasks, Respond(t)
  PROVE  SteadyView(t)'
<1>1. scan'[t] = NoScan /\ steady'[t] = {}
  BY DEF Respond, StepOK, TypeInv, TypeOK
<1>2. QED BY <1>1, FS_EmptySet DEF SteadyView, NoScan

\* A nearby query begins with every cell of a steady user to do, a get_user with the
\* one user it is about.
LEMMA SteadyStartQuery ==
  ASSUME StepOK, NEW t \in Tasks, NEW q \in AllQueries, NEW at \in {"pick", "favs"},
         NEW todo, NEW favs, StartQuery(t, q, at, todo, favs),
         at = "pick" => \A p \in Points : InRadius(q, p) => shard_for_coords(p) \in todo,
         at = "favs" => q.pos = None /\ q.favs \subseteq favs
  PROVE  SteadyView(t)'
<1>1. /\ scan'[t].results = {} /\ scan'[t].query = q /\ scan'[t].start = now
      /\ scan'[t].todo = todo /\ scan'[t].favs = favs /\ pc'[t] = at
      /\ UNCHANGED <<shards, heap, user_index, now>>
  BY DEF StartQuery, NoScan, Goto, store, StepOK, TypeInv, TypeOK
<1>2. steady'[t] =
        {u \in IF q.limit = 0 /\ q.pos # None THEN Users \ q.excl ELSE q.favs \ q.excl :
           \E e \in Held(u) : ~Stale(e, now) /\ InRadius(q, e.pos)}
  BY DEF StartQuery, StepOK, TypeInv, TypeOK
<1>3. ASSUME NEW u \in steady'[t]
      PROVE  SteadyUser(t, u)'
  <2>1. u \in Users /\ u \notin q.excl /\ \E e \in Held(u) : ~Stale(e, now) /\ InRadius(q, e.pos)
    BY <1>2, <1>3 DEF StepOK, TypeInv, TypeOK
  <2>2. Held(u)' = Held(u)
    BY <1>1 DEF Held, HeldIn, CopiesIn
  <2>3. \A e : Fits(t, e)' <=> ~Stale(e, now) /\ InRadius(q, e.pos)
    BY <1>1 DEF Fits, Stale, InRadius
  <2>4. ASSUME Unlimited(t)', NEW e \in Held(u)', Fits(t, e)'
        PROVE  Caught(t, u, e)'
    <3>1. e \in Entry
      BY <2>1, <2>2, <2>4, HeldAt DEF StepOK
    <3>2. at = "pick"
      BY <1>1, <2>4 DEF Unlimited
    <3>3. QED BY <1>1, <2>3, <2>4, <3>1, <3>2 DEF Caught, LoopPCs, Entry
  <2>5. ASSUME u \in scan'[t].query.favs
        PROVE  Sought(t, u)'
    BY <1>1, <2>5 DEF Sought, LoopPCs, FavPCs
  <2>6. QED BY <1>1, <2>1, <2>2, <2>3, <2>4, <2>5 DEF SteadyUser
<1>4. pc'[t] \in QueryPCs /\ IsFiniteSet(scan'[t].results)
  BY <1>1, FS_EmptySet
<1>5. QED BY <1>3, <1>4 DEF SteadyView

LEMMA SteadyStart ==
  ASSUME GridCovers, StepOK, NEW t \in Tasks, SteadyView(t), Start(t)
  PROVE  SteadyView(t)'
<1>1. ASSUME NEW q \in Queries, NearbyCall(t, q)
      PROVE  SteadyView(t)'
  BY <1>1, SteadyStartQuery DEF NearbyCall, GridCovers, AllQueries
<1>2. ASSUME NEW u \in Lookups, GetUserCall(t, u)
      PROVE  SteadyView(t)'
  <2>1. GetQuery(u) \in AllQueries /\ GetQuery(u).pos = None /\ GetQuery(u).favs = {u}
    BY DEF AllQueries, GetQuery
  <2>2. StartQuery(t, GetQuery(u), "favs", {}, {u})
    BY <1>2 DEF GetUserCall
  <2>3. QED BY <2>1, <2>2, SteadyStartQuery
<1>3. ASSUME NEW u \in Movers, NEW p \in Points, UpsertCall(t, u, p)
      PROVE  SteadyView(t)'
  <2>1. QueryKept(t)
    BY <1>3 DEF UpsertCall, QueryKept, Goto, StepOK, TypeInv, TypeOK
  <2>2. Observed(t)
    BY <1>3, StillStep DEF UpsertCall, store, history
  <2>3. QED BY <2>1, <2>2, SteadyFrame
<1>4. ASSUME NEW u \in Movers, RemoveCall(t, u)
      PROVE  SteadyView(t)'
  <2>1. QueryKept(t)
    BY <1>4 DEF RemoveCall, RemoveLookup, QueryKept, Goto, StepOK, TypeInv, TypeOK
  <2>2. Observed(t)
    BY <1>4, StillStep DEF RemoveCall, store
  <2>3. QED BY <2>1, <2>2, SteadyFrame
<1>5. QED BY <1>1, <1>2, <1>3, <1>4 DEF Start

LEMMA SteadyInit == Init => SteadyInv
<1>1. ASSUME Init, NEW t \in Tasks
      PROVE  SteadyView(t)
  <2>1. scan[t].results = {} /\ steady[t] = {}
    BY <1>1 DEF Init, Quiet, NoScan
  <2>2. QED BY <2>1, FS_EmptySet DEF SteadyView
<1>2. QED BY <1>1, QueryInit, PlaceInit DEF SteadyInv

LEMMA SteadyNext == GridCovers /\ SteadyInv /\ [Next]_vars => SteadyInv'
<1> SUFFICES ASSUME GridCovers, SteadyInv, [Next]_vars
             PROVE  SteadyInv'
  OBVIOUS
<1>1. QueryInv' /\ PlaceInv'
  BY QueryNext, PlaceNext DEF SteadyInv
<1>2. StepOK
  BY <1>1, ShardSteps DEF StepOK, SteadyInv, PlaceInv
<1>3. ASSUME NEW t \in Tasks
      PROVE  SteadyView(t)'
  <2>1. SteadyView(t) /\ TypeInv
    BY <1>2 DEF SteadyInv, StepOK
  <2>2. CASE Start(t)
    BY <1>2, <2>1, <2>2, SteadyStart
  <2>3. CASE ~Start(t)
    <3>1. Observed(t)
      BY <2>1, <2>3, StepsObserved
    <3>2. CASE Query(t)
      BY <1>2, <2>1, <3>1, <3>2, SteadyPick, SteadyScan, SteadyEvict, SteadyLoopEnd, SteadyGetIndex,
         SteadyGetArc, SteadyGetRead, SteadyFinish, SteadyRespond DEF Query
    <3>3. CASE ~Query(t)
      <4>1. QueryKept(t)
        BY <2>1, <2>3, <3>3, OtherQueries, WriterQueries, SweepQueries DEF Next, Handler
      <4>2. QED BY <1>2, <2>1, <3>1, <4>1, SteadyFrame
    <3>4. QED BY <3>2, <3>3
  <2>4. QED BY <2>2, <2>3
<1>4. QED BY <1>1, <1>3 DEF SteadyInv

\* Where the grid covers its circles, no interleaving of moves, evictions, drops and
\* recreations of shards hides a user who stayed put during the whole query: the scan
\* finds everybody when nothing limits it, and the direct lookups every favourite.
THEOREM SteadyAreFound ==
  ASSUME GridCovers
  PROVE  Spec => []SteadyFound
<1>1. Spec => []SteadyInv
  BY SteadyInit, SteadyNext, PTL DEF Spec
<1>2. SteadyInv => SteadyFound
  <2> SUFFICES ASSUME SteadyInv, NEW t \in Tasks, pc[t] = "done", NEW u \in steady[t],
                      Unlimited(t) \/ (u \in scan[t].query.favs /\ Indexed(t, u))
               PROVE  u \in UsersOf(scan[t].results)
    BY DEF SteadyFound, Unlimited
  <2>1. SteadyUser(t, u)
    BY DEF SteadyInv, SteadyView
  <2>2. QED BY <2>1 DEF SteadyUser, Caught, Sought, LoopPCs, FavPCs
<1>3. QED BY <1>1, <1>2, PTL

----------------------------------------------------------------------------
(* Exact answers on a store nobody writes to *)

\* Nobody is in a shard the index does not name.
Tidy == \A u \in Users : Copies(u) \subseteq {user_index[u]}

\* No call is under way and no sweep, and no writer left a copy behind.
Calm == Tidy /\ \A p \in Procs : pc[p] = "idle"

\* Nobody upserts or removes and the clock stands still; queries start, run and end,
\* and the sweeper sweeps.
Still == now' = now /\ \A t \in Tasks : pc'[t] \notin UpsertPCs \cup RemovePCs

Expired(u) == \A e \in Held(u) : Stale(e, now)

\* All that the sweeper still has to do concerns expired entries and empty shards.
SweepView ==
  /\ sweep.start <= now
  /\ pc[Sweeper] \in {"collect", "find_empty"} => \A k \in sweep.todo : shards[k] # None
  /\ \A uk \in sweep.stale : Expired(uk[1])
  /\ \A k \in sweep.empty : shards[k] # None => heap[shards[k]] = NoShard
  /\ pc[Sweeper] \in RemovePCs => Expired(who[Sweeper])
  /\ pc[Sweeper] = "rm_shard" => key[Sweeper] = user_index[who[Sweeper]]
  /\ pc[Sweeper] \in {"rm_index", "rm_supp"} => Copies(who[Sweeper]) = {}

\* The Arc is in the map, or of a shard that was dropped empty.
ArcOK(a) == heap[a] = NoShard \/ \E k \in Keys : shards[k] = a

\* Such are the Arcs that queries cloned, and what they are to evict has expired.
ArcView(t) ==
  LET a == scan[t].arc
  IN  /\ pc[t] \in {"scan", "evict", "get_read"} => ArcOK(a)
      /\ pc[t] = "evict" =>
           \A u \in scan[t].stale : heap[a][u] # None => Stale(heap[a][u], now)

\* So many of the results rs are nearer than r that r has no place in the answer.
Outdone(q, rs, r) ==
  q.limit > 0 /\ Cardinality({s \in rs : Distance(q, s) < Distance(q, r)}) >= q.limit

\* The scan of t is still to come to the shard of the position p.
Ahead(t, p) ==
  \/ shard_for_coords(p) \in scan[t].todo
  \/ pc[t] = "scan" /\ scan[t].arc = shards[shard_for_coords(p)]

\* The query q of t has found rs among those in range, all; the others are ahead of
\* it or have no place in the answer, and no favourite is forgotten.
ExactScan(t, q, rs, all) ==
  /\ scan[t].start = now
  /\ scan[t].todo \subseteq intersecting_shards(q.pos, q.radius)
  /\ rs \subseteq all
  /\ \A u \in q.favs \ q.excl :
       (\E e \in Held(u) : ~Stale(e, now) /\ InRadius(q, e.pos)) => u \in steady[t]
  /\ pc[t] \in LoopPCs => \A r \in all \ rs : Ahead(t, r.pos)
  /\ pc[t] \in FavPCs => \A r \in all \ rs : Outdone(q, rs, r)
  /\ pc[t] = "done" => rs \in Reserve(q, all)

ExactView(t) ==
  pc[t] \in QueryPCs /\ scan[t].query.pos # None =>
    ExactScan(t, scan[t].query, scan[t].results, InRange(scan[t].query, now))

ExactInv ==
  /\ SteadyInv /\ Tidy /\ SweepView
  /\ \A t \in Tasks : pc[t] \in QueryPCs \cup {"idle"} /\ ArcView(t) /\ ExactView(t)

----------------------------------------------------------------------------
(* Counting: the early exit and the reserved slots *)

\* A set of naturals that is not empty has a least element.
LEMMA LeastNat ==
  ASSUME NEW S \in SUBSET Nat, S # {}
  PROVE  \E x \in S : \A y \in S : x <= y
<1> DEFINE Rel == OpToRel(<, Nat)
<1>1. IsWellFoundedOn(Rel, Nat)
  BY NatLessThanWellFounded, Zenon
<1>2. \A p, q \in Nat : p < q => <<p, q>> \in Rel
  BY DEF OpToRel
<1> HIDE DEF Rel
<1>3. \E x \in S : \A y \in S : ~(<<y, x>> \in Rel)
  BY <1>1, WFMin, Zenon
<1>4. PICK x \in S : \A y \in S : ~(<<y, x>> \in Rel)
  BY <1>3
<1>5. ASSUME NEW y \in S PROVE x <= y
  <2>1. x \in Nat /\ y \in Nat
    OBVIOUS
  <2>2. ~(y < x)
    BY <1>2, <1>4, <2>1, Zenon
  <2>3. QED BY <2>1, <2>2
<1>6. QED BY <1>5

\* The part of a finite set that a condition selects, as cardinalities see it.
LEMMA CountMono ==
  ASSUME NEW T, IsFiniteSet(T), NEW S, S \subseteq T
  PROVE  /\ IsFiniteSet(S) /\ Cardinality(S) \in Nat /\ Cardinality(T) \in Nat
         /\ Cardinality(S) <= Cardinality(T)
<1>1. S \in SUBSET T
  OBVIOUS
<1>2. IsFiniteSet(S) /\ Cardinality(S) <= Cardinality(T)
  BY <1>1, FS_Subset
<1>3. Cardinality(S) \in Nat /\ Cardinality(T) \in Nat
  BY <1>2, FS_CardinalityType
<1>4. QED BY <1>2, <1>3

\* NthDist is well defined: n of the results are within it.
LEMMA NthWithin ==
  ASSUME NEW q, NEW rs, IsFiniteSet(rs), NEW n \in Nat, 0 < n, n <= Cardinality(rs),
         \A r \in rs : Distance(q, r) \in Nat,
         NEW most \in Nat, \A r \in rs : Distance(q, r) <= most
  PROVE  /\ NthDist(q, rs, n) \in Nat
         /\ Cardinality({r \in rs : Distance(q, r) <= NthDist(q, rs, n)}) >= n
<1> DEFINE Upto(d)  == {r \in rs : Distance(q, r) <= d}
           Below(d) == {r \in rs : Distance(q, r) < d}
           D        == {Distance(q, r) : r \in rs}
           Enough   == {d \in Nat : Cardinality(Upto(d)) >= n}
           Right(d) == Cardinality(Upto(d)) >= n /\ Cardinality(Below(d)) < n
<1>1. \A d : Cardinality(Upto(d)) \in Nat /\ Cardinality(Below(d)) \in Nat
  <2>1. \A d : Upto(d) \subseteq rs /\ Below(d) \subseteq rs
    OBVIOUS
  <2> HIDE DEF Upto, Below
  <2>2. QED BY <2>1, CountMono
<1>2. most \in Enough
  <2>1. Upto(most) = rs
    OBVIOUS
  <2>2. Cardinality(Upto(most)) >= n
    BY <2>1, CountMono
  <2>3. QED BY <2>2
<1>3. PICK d \in Enough : \A y \in Enough : d <= y
  <2>1. Enough \in SUBSET Nat /\ Enough # {}
    BY <1>2
  <2> HIDE DEF Enough
  <2>2. QED BY <2>1, LeastNat
<1>4. d \in Nat /\ Cardinality(Upto(d)) >= n
  OBVIOUS
<1>5. Cardinality(Below(d)) < n
  <2>1. CASE d = 0
    <3>1. Below(d) = {}
      BY <2>1
    <3>2. Cardinality(Below(d)) = 0
      BY <3>1, FS_EmptySet
    <3>3. QED BY <3>2
  <2>2. CASE d # 0
    <3>1. Below(d) = Upto(d - 1)
      BY <1>4, <2>2
    <3>2. d - 1 \in Nat /\ ~(d <= d - 1)
      BY <1>4, <2>2
    <3>3. d - 1 \notin Enough
      BY <1>3, <3>2
    <3>4. ~(Cardinality(Upto(d - 1)) >= n)
      BY <3>2, <3>3
    <3>5. Cardinality(Upto(d - 1)) \in Nat
      BY <1>1
    <3> HIDE DEF Upto, Below
    <3>6. QED BY <3>1, <3>4, <3>5
  <2>3. QED BY <2>1, <2>2
<1>6. d \in D
  <2>1. SUFFICES ASSUME d \notin D PROVE FALSE
    OBVIOUS
  <2>2. Below(d) = Upto(d)
    BY <1>4, <2>1
  <2> HIDE DEF Upto, Below
  <2>3. QED BY <1>1, <1>4, <1>5, <2>2
<1>7. D \subseteq Nat
  OBVIOUS
<1>8. NthDist(q, rs, n) = CHOOSE x \in D : Right(x)
  BY DEF NthDist
<1>9. Right(d)
  BY <1>4, <1>5
<1> HIDE DEF D, Right
<1>10. NthDist(q, rs, n) \in D /\ Right(NthDist(q, rs, n))
  BY <1>6, <1>8, <1>9
<1>11. QED BY <1>7, <1>10 DEF Right

\* What EarlyExit leaves behind has no place in the answer: the next shard, and so
\* every remaining one, is farther than the limit-th result, and so is all that lies in it.
LEMMA ExitOutdoes ==
  ASSUME GridNear, NEW q \in Queries, NEW rs, IsFiniteSet(rs),
         \A r \in rs : r.pos \in Points /\ InRadius(q, r.pos),
         NEW todo, todo \subseteq intersecting_shards(q.pos, q.radius), EarlyExit(q, rs, todo),
         NEW x, x.pos \in Points, InRadius(q, x.pos), shard_for_coords(x.pos) \in todo
  PROVE  Outdone(q, rs, x)
<1> DEFINE near(k) == min_dist_to_shard(q.pos, k)
           nth     == NthDist(q, rs, q.limit)
<1>1. /\ q.limit \in Nat /\ 0 < q.limit /\ q.limit <= Cardinality(rs)
      /\ \A k \in Nearest(q, todo) : near(k) > nth
  <2>1. q.limit \in Nat /\ Cardinality(rs) \in Nat
    BY FS_CardinalityType
  <2>2. QED BY <2>1 DEF EarlyExit
<1>2. \A p \in Points : haversine_distance(q.pos, p) \in Nat
  BY DEF GridNear
<1>3. \A r \in rs : Distance(q, r) \in Nat /\ Distance(q, r) <= Metres(q.radius)
  <2>1. q.pos # None
    OBVIOUS
  <2>2. QED BY <1>2, <2>1 DEF Distance, InRadius
<1>4. Metres(q.radius) \in Nat
  <2>1. q.radius \in Nat /\ CosScale \in Nat
    BY GridAssumption
  <2>2. q.radius * CosScale \in Nat
    BY <2>1
  <2>3. QED BY <2>2 DEF Metres
<1>5. nth \in Nat /\ Cardinality({r \in rs : Distance(q, r) <= nth}) >= q.limit
  BY <1>1, <1>3, <1>4, NthWithin
<1>6. \A k \in todo : near(k) \in Nat
  BY DEF GridNear
<1>7. PICK k \in todo : \A o \in todo : near(k) <= near(o)
  <2> DEFINE far == {near(o) : o \in todo}
  <2>1. far \in SUBSET Nat /\ far # {}
    BY <1>6
  <2>2. PICK m \in far : \A y \in far : m <= y
    <3> HIDE DEF far
    <3>1. QED BY <2>1, LeastNat
  <2>3. QED BY <2>2
<1>8. near(k) > nth
  BY <1>1, <1>7 DEF Nearest
<1>9. near(k) <= Distance(q, x) /\ Distance(q, x) \in Nat
  <2>1. near(shard_for_coords(x.pos)) <= haversine_distance(q.pos, x.pos)
    BY DEF GridNear
  <2>2. /\ near(k) \in Nat /\ near(shard_for_coords(x.pos)) \in Nat
        /\ near(k) <= near(shard_for_coords(x.pos))
    BY <1>6, <1>7
  <2>3. haversine_distance(q.pos, x.pos) \in Nat
    BY <1>2
  <2> HIDE DEF near
  <2>4. QED BY <2>1, <2>2, <2>3 DEF Distance
<1>10. near(k) \in Nat
  BY <1>6
<1> HIDE DEF near, nth
<1>11. {r \in rs : Distance(q, r) <= nth} \subseteq {r \in rs : Distance(q, r) < Distance(q, x)}
  BY <1>3, <1>5, <1>8, <1>9, <1>10
<1>12. PICK S, T : /\ S = {r \in rs : Distance(q, r) <= nth}
                   /\ T = {r \in rs : Distance(q, r) < Distance(q, x)}
  OBVIOUS
<1>13. IsFiniteSet(T) /\ S \subseteq T
  <2>1. T \subseteq rs
    BY <1>12
  <2>2. QED BY <1>11, <1>12, <2>1, CountMono
<1>14. Cardinality(S) <= Cardinality(T) /\ Cardinality(S) \in Nat /\ Cardinality(T) \in Nat
  BY <1>13, CountMono
<1>15. Cardinality(T) >= q.limit
  BY <1>1, <1>5, <1>12, <1>14
<1>16. QED BY <1>1, <1>12, <1>15 DEF Outdone

\* Leaving out those who have no place in the answer does not change the answers: the
\* reserved slots of what was found are reserved slots of all that is in range.
LEMMA ReserveExact ==
  ASSUME NEW q, q.limit \in Nat, NEW all, IsFiniteSet(all), NEW rs, rs \subseteq all,
         \A r \in all : Distance(q, r) \in Nat,
         \A r \in all \ rs : r.user \notin q.favs /\ Outdone(q, rs, r),
         NEW out \in Reserve(q, rs)
  PROVE  out \in Reserve(q, all)
<1>1. CASE rs = all
  BY <1>1
<1>2. CASE rs # all
  <2>1. PICK x \in all \ rs : TRUE
    BY <1>2
  <2>2. PICK fav : fav = {r \in rs : r.user \in q.favs}
    OBVIOUS
  <2>3. fav = {r \in all : r.user \in q.favs}
    BY <2>2
  <2>4. PICK near, others : near = rs \ fav /\ others = all \ fav
    OBVIOUS
  <2>5. near \subseteq others /\ fav \subseteq rs /\ near \subseteq rs /\ others \subseteq all
    BY <2>2, <2>4
  <2>6. IsFiniteSet(rs) /\ IsFiniteSet(fav) /\ IsFiniteSet(near) /\ IsFiniteSet(others)
    BY <2>5, CountMono
  <2>7. PICK m \in Nat, n \in Nat, o \in Nat :
           m = Cardinality(fav) /\ n = Cardinality(near) /\ o = Cardinality(others)
    BY <2>6, FS_CardinalityType
  <2>8. n <= o
    <3>1. Cardinality(near) <= Cardinality(others)
      BY <2>5, <2>6, CountMono
    <3>2. QED BY <2>7, <3>1
  <2>9. q.limit > 0
    BY <2>1 DEF Outdone
  <2>10. PICK room \in Nat : room = IF q.limit > m THEN q.limit - m ELSE 0
    BY <2>7
  <2>11. PICK T \in Take(q, near, room) : out = fav \cup T
    BY <2>2, <2>4, <2>7, <2>9, <2>10 DEF Reserve
  <2>12. SUFFICES T \in Take(q, others, room)
    <3>1. Reserve(q, all) =
            {fav \cup U : U \in Take(q, others, IF q.limit = 0 THEN Cardinality(others)
                                              ELSE IF q.limit > m THEN q.limit - m ELSE 0)}
      BY <2>3, <2>4, <2>7, Zenon DEF Reserve
    <3>2. room = IF q.limit = 0 THEN Cardinality(others)
                 ELSE IF q.limit > m THEN q.limit - m ELSE 0
      BY <2>9, <2>10
    <3>3. Reserve(q, all) = {fav \cup U : U \in Take(q, others, room)}
      BY <3>1, <3>2, Zenon
    <3>4. QED BY <2>11, <3>3, Zenon
  <2>13. /\ T \in SUBSET near /\ Cardinality(T) = IF room < n THEN room ELSE n
         /\ \A r \in T, y \in near \ T : Distance(q, r) <= Distance(q, y)
    BY <2>7 DEF Take
  \* Whoever is left out is outdone by as many of the others found as there is room for.
  <2>14. ASSUME NEW y \in all \ rs
         PROVE  /\ IsFiniteSet({s \in near : Distance(q, s) < Distance(q, y)})
                /\ Cardinality({s \in near : Distance(q, s) < Distance(q, y)}) \in Nat
                /\ Cardinality({s \in near : Distance(q, s) < Distance(q, y)}) + m >= q.limit
    <3>1. PICK S, N : /\ S = {s \in rs : Distance(q, s) < Distance(q, y)}
                      /\ N = {s \in near : Distance(q, s) < Distance(q, y)}
      OBVIOUS
    <3>2. Cardinality(S) >= q.limit
      <4>1. Outdone(q, rs, y)
        OBVIOUS
      <4>2. QED BY <3>1, <4>1 DEF Outdone
    <3>3. N \subseteq near /\ S \subseteq N \cup fav
      BY <2>4, <3>1
    <3>4. IsFiniteSet(N) /\ Cardinality(N) \in Nat
      BY <2>6, <3>3, CountMono
    <3>5. /\ IsFiniteSet(N \cup fav)
          /\ Cardinality(N \cup fav) = Cardinality(N) + Cardinality(fav) - Cardinality(N \cap fav)
      BY <2>6, <3>4, FS_Union
    <3>6. N \cap fav = {}
      BY <2>4, <3>3
    <3>7. Cardinality(N \cup fav) = Cardinality(N) + m
      <4>1. Cardinality(N \cap fav) = 0
        BY <3>6, FS_EmptySet
      <4>2. QED BY <2>7, <3>4, <3>5, <4>1
    <3>8. Cardinality(S) \in Nat /\ Cardinality(S) <= Cardinality(N \cup fav)
      BY <3>3, <3>5, CountMono
    <3>9. Cardinality(N) + m >= q.limit
      BY <3>2, <3>4, <3>7, <3>8
    <3>10. QED BY <3>1, <3>4, <3>9
  <2>15. room <= n
    <3>1. PICK N : N = {s \in near : Distance(q, s) < Distance(q, x)}
      OBVIOUS
    <3>2. N \subseteq near
      BY <3>1
    <3>3. Cardinality(N) \in Nat /\ Cardinality(N) <= n
      BY <2>6, <2>7, <3>2, CountMono
    <3>4. Cardinality(N) + m >= q.limit
      BY <2>14, <3>1
    <3>5. QED BY <2>7, <2>10, <3>3, <3>4
  <2>16. Cardinality(T) = room /\ Cardinality(T) = IF room < o THEN room ELSE o
    BY <2>7, <2>8, <2>13, <2>15
  <2>17. ASSUME NEW r \in T, NEW y \in others \ T
         PROVE  Distance(q, r) <= Distance(q, y)
    <3>1. CASE y \in rs
      <4>1. y \in near \ T
        BY <2>4, <3>1
      <4>2. QED BY <2>13, <4>1
    <3>2. CASE y \notin rs
      <4>1. r \in near /\ r \in all /\ y \in all \ rs
        BY <2>4, <2>5, <2>13, <3>2
      <4>2. SUFFICES ASSUME Distance(q, y) < Distance(q, r)
                     PROVE  FALSE
        BY <4>1
      <4>3. PICK N : N = {s \in near : Distance(q, s) < Distance(q, y)}
        OBVIOUS
      <4>4. N \subseteq T \ {r}
        <5>1. SUFFICES ASSUME NEW s \in N PROVE s \in T /\ s # r
          OBVIOUS
        <5>2. s \in near /\ s \in all /\ Distance(q, s) < Distance(q, y)
          BY <2>5, <4>3
        <5>3. Distance(q, s) \in Nat /\ Distance(q, y) \in Nat /\ Distance(q, r) \in Nat
          BY <4>1, <5>2
        <5>4. ~(Distance(q, r) <= Distance(q, s))
          BY <4>2, <5>2, <5>3
        <5>5. s \in T
          BY <2>13, <5>2, <5>4
        <5>6. QED BY <5>3, <5>4, <5>5
      <4>5. IsFiniteSet(T)
        BY <2>6, <2>13, CountMono
      <4>6. IsFiniteSet(T \ {r}) /\ Cardinality(T \ {r}) = Cardinality(T) - 1
        BY <4>5, FS_RemoveElement
      <4>7. Cardinality(N) <= Cardinality(T \ {r}) /\ Cardinality(N) \in Nat
        BY <4>4, <4>6, CountMono
      <4>8. Cardinality(N) + m >= q.limit
        BY <2>14, <4>1, <4>3
      <4>9. Cardinality(T) # 0
        BY <4>5, FS_EmptySet
      <4>10. QED BY <2>7, <2>10, <2>16, <4>6, <4>7, <4>8, <4>9
    <3>3. QED BY <3>1, <3>2
  <2>18. T \in SUBSET others
    BY <2>5, <2>13
  <2>19. QED BY <2>7, <2>16, <2>17, <2>18 DEF Take
<1>3. QED BY <1>1, <1>2

\* The more is found, the more is outdone.
LEMMA OutdoneMore ==
  ASSUME NEW q, q.limit \in Nat, NEW rs, NEW more, IsFiniteSet(more), rs \subseteq more, NEW r,
         Outdone(q, rs, r)
  PROVE  Outdone(q, more, r)
<1>1. PICK S, T : /\ S = {s \in rs : Distance(q, s) < Distance(q, r)}
                  /\ T = {s \in more : Distance(q, s) < Distance(q, r)}
  OBVIOUS
<1>2. S \subseteq T /\ T \subseteq more
  BY <1>1
<1>3. IsFiniteSet(T)
  BY <1>2, CountMono
<1>4. Cardinality(S) <= Cardinality(T) /\ Cardinality(S) \in Nat /\ Cardinality(T) \in Nat
  BY <1>2, <1>3, CountMono
<1>5. QED BY <1>1, <1>4 DEF Outdone

----------------------------------------------------------------------------
(* What is left of the store while nobody writes *)

\* What a still step does to the store: it takes expired entries, empty shards and the
\* index entries of users without an entry away.
Ebb ==
  /\ now' = now
  /\ \A a \in Arcs, u \in Users :
       \/ heap'[a][u] = heap[a][u]
       \/ heap'[a][u] = None /\ Stale(heap[a][u], now)
  /\ \A k \in Keys :
       \/ shards'[k] = shards[k]
       \/ shards'[k] = None /\ heap[shards[k]] = NoShard
  /\ \A u \in Users : user_index'[u] = user_index[u] \/ Copies(u) = {}

LEMMA EbbNothing ==
  ASSUME UNCHANGED <<shards, heap, user_index, now>>
  PROVE  Ebb
BY DEF Ebb

LEMMA EbbCopies ==
  ASSUME TypeInv, TypeInv', Ebb, NEW u \in Users
  PROVE  /\ \A k \in Copies(u)' : /\ k \in Copies(u) /\ shards'[k] = shards[k]
                                  /\ heap'[shards'[k]][u] = heap[shards[k]][u]
         /\ \A k \in Copies(u) : ~Stale(heap[shards[k]][u], now) => k \in Copies(u)'
<1>1. ASSUME NEW k \in Copies(u)'
      PROVE  /\ k \in Copies(u) /\ shards'[k] = shards[k]
             /\ heap'[shards'[k]][u] = heap[shards[k]][u]
  <2>1. k \in Keys /\ shards'[k] # None /\ heap'[shards'[k]][u] # None
    BY <1>1 DEF Copies, CopiesIn
  <2>2. shards'[k] = shards[k] /\ shards[k] \in Arcs
    BY <2>1 DEF Ebb, TypeInv, TypeOK
  <2>3. heap'[shards[k]][u] = heap[shards[k]][u]
    BY <2>1, <2>2 DEF Ebb
  <2>4. QED BY <2>1, <2>2, <2>3 DEF Copies, CopiesIn
<1>2. ASSUME NEW k \in Copies(u), ~Stale(heap[shards[k]][u], now)
      PROVE  k \in Copies(u)'
  <2>1. k \in Keys /\ shards[k] # None /\ heap[shards[k]][u] # None
    BY <1>2 DEF Copies, CopiesIn
  <2>2. shards[k] \in Arcs
    BY <2>1 DEF TypeInv, TypeOK
  <2>3. heap'[shards[k]][u] = heap[shards[k]][u]
    BY <1>2, <2>2 DEF Ebb
  <2>4. heap[shards[k]] # NoShard
    BY <2>1 DEF NoShard
  <2>5. shards'[k] = shards[k]
    BY <2>1, <2>4 DEF Ebb
  <2>6. QED BY <2>1, <2>3, <2>5 DEF Copies, CopiesIn
<1>3. QED BY <1>1, <1>2

LEMMA EbbHeld ==
  ASSUME TypeInv, TypeInv', Ebb, NEW u \in Users
  PROVE  /\ Held(u)' \subseteq Held(u)
         /\ \A e \in Held(u) : ~Stale(e, now) => e \in Held(u)'
<1>1. Held(u) = {heap[shards[k]][u] : k \in Copies(u)}
  BY DEF Held, HeldIn, Copies
<1>2. Held(u)' = {heap'[shards'[k]][u] : k \in Copies(u)'}
  BY DEF Held, HeldIn, Copies
<1>3. Held(u)' \subseteq Held(u)
  BY <1>1, <1>2, EbbCopies
<1>4. ASSUME NEW e \in Held(u), ~Stale(e, now)
      PROVE  e \in Held(u)'
  <2>1. PICK k \in Copies(u) : e = heap[shards[k]][u]
    BY <1>1
  <2>2. k \in Copies(u)' /\ heap'[shards'[k]][u] = heap[shards[k]][u]
    BY <1>4, <2>1, EbbCopies
  <2>3. QED BY <1>2, <2>1, <2>2
<1>5. QED BY <1>3, <1>4

LEMMA EbbTidy ==
  ASSUME TypeInv, TypeInv', Tidy, Ebb
  PROVE  Tidy'
<1>1. ASSUME NEW u \in Users, NEW k \in Copies(u)'
      PROVE  k = user_index'[u]
  <2>1. k \in Copies(u)
    BY <1>1, EbbCopies
  <2>2. k = user_index[u]
    BY <2>1 DEF Tidy
  <2>3. QED BY <2>1, <2>2 DEF Ebb
<1>2. QED BY <1>1 DEF Tidy

LEMMA EbbExpired ==
  ASSUME TypeInv, TypeInv', Ebb, NEW u \in Users, Expired(u)
  PROVE  Expired(u)'
<1>1. Held(u)' \subseteq Held(u) /\ now' = now
  BY EbbHeld DEF Ebb
<1>2. QED BY <1>1 DEF Expired, Stale

\* In a tidy store a user is held once, and a still step leaves a live user alone.
LEMMA TidyOnce ==
  ASSUME Tidy, NEW u \in Users, NEW e \in Held(u), NEW f \in Held(u)
  PROVE  e = f /\ user_index[u] \in Copies(u) /\ e = heap[shards[user_index[u]]][u]
<1>1. Held(u) = {heap[shards[k]][u] : k \in Copies(u)}
  BY DEF Held, HeldIn, Copies
<1>2. PICK k \in Copies(u), l \in Copies(u) : e = heap[shards[k]][u] /\ f = heap[shards[l]][u]
  BY <1>1
<1>3. k = user_index[u] /\ l = user_index[u]
  BY DEF Tidy
<1>4. QED BY <1>2, <1>3

LEMMA EbbSame ==
  ASSUME TypeInv, TypeInv', Tidy, Ebb, NEW u \in Users, NEW e \in Held(u), ~Stale(e, now)
  PROVE  Same(u)
<1>1. Held(u)' \subseteq Held(u) /\ e \in Held(u)'
  BY EbbHeld
<1>2. Held(u)' = Held(u)
  <2>1. \A f \in Held(u) : f = e
    BY TidyOnce
  <2>2. PICK before, after : before = Held(u) /\ after = Held(u)'
    OBVIOUS
  <2>3. after \subseteq before /\ e \in after /\ \A f \in before : f = e
    BY <1>1, <2>1, <2>2
  <2>4. after = before
    BY <2>3
  <2>5. QED BY <2>2, <2>4
<1>3. user_index'[u] = user_index[u]
  BY TidyOnce DEF Ebb
<1>4. QED BY <1>2, <1>3 DEF Same

----------------------------------------------------------------------------
(* Those in range *)

LEMMA RangeMember ==
  ASSUME NEW q, NEW r
  PROVE  r \in InRange(q, now) <=>
           \E u \in Users \ q.excl : \E e \in Held(u) :
             ~Stale(e, now) /\ InRadius(q, e.pos) /\ r = Result(u, e)
BY DEF InRange

LEMMA RangeKept ==
  ASSUME TypeInv, TypeInv', Ebb, NEW q
  PROVE  InRange(q, now)' = InRange(q, now)
<1>1. ASSUME NEW r
      PROVE  r \in InRange(q, now)' <=>
               \E u \in Users \ q.excl : \E e \in Held(u)' :
                 ~Stale(e, now) /\ InRadius(q, e.pos) /\ r = Result(u, e)
  BY DEF InRange, Ebb
<1>2. \A u \in Users : \A e : ~Stale(e, now) => (e \in Held(u)' <=> e \in Held(u))
  BY EbbHeld
<1>3. ASSUME NEW r
      PROVE  r \in InRange(q, now)' <=> r \in InRange(q, now)
  <2>1. ASSUME NEW u \in Users \ q.excl
        PROVE  (\E e \in Held(u)' : ~Stale(e, now) /\ InRadius(q, e.pos) /\ r = Result(u, e))
               <=> (\E e \in Held(u) : ~Stale(e, now) /\ InRadius(q, e.pos) /\ r = Result(u, e))
    BY <1>2
  <2>2. QED BY <1>1, <2>1, RangeMember
<1>4. QED BY <1>3

\* Where somebody in range is to be found.
LEMMA RangeAt ==
  ASSUME TypeInv, Placement, NEW q, NEW r \in InRange(q, now), NEW k, k = shard_for_coords(r.pos)
  PROVE  /\ r.user \in Users \ q.excl /\ r.pos \in Points /\ InRadius(q, r.pos)
         /\ k \in Keys /\ shards[k] \in Arcs
         /\ heap[shards[k]][r.user] \in Entry
         /\ ~Stale(heap[shards[k]][r.user], now) /\ InRadius(q, heap[shards[k]][r.user].pos)
         /\ Result(r.user, heap[shards[k]][r.user]) = r
<1>1. PICK u \in Users \ q.excl : \E e \in Held(u) :
             ~Stale(e, now) /\ InRadius(q, e.pos) /\ r = Result(u, e)
  BY RangeMember
<1>2. PICK e \in Held(u) : ~Stale(e, now) /\ InRadius(q, e.pos) /\ r = Result(u, e)
  BY <1>1
<1>3. r.user = u /\ r.pos = e.pos
  BY <1>2 DEF Result
<1>4. /\ e \in Entry /\ k \in Copies(u) /\ heap[shards[k]][u] = e
  BY <1>3, HeldAt
<1>5. k \in Keys /\ shards[k] \in Arcs
  BY <1>4 DEF Copies, CopiesIn, TypeInv, TypeOK
<1>6. e.pos \in Points
  BY <1>4 DEF Entry
<1>7. QED BY <1>2, <1>3, <1>4, <1>5, <1>6

LEMMA RangeRead ==
  ASSUME NEW q, NEW a \in Arcs, ArcOK(a), NEW u \in Users \ q.excl, heap[a][u] # None,
         ~Stale(heap[a][u], now), InRadius(q, heap[a][u].pos)
  PROVE  Result(u, heap[a][u]) \in InRange(q, now)
<1>1. PICK k \in Keys : shards[k] = a
  BY DEF ArcOK, NoShard
<1>2. k \in Copies(u)
  BY <1>1 DEF Copies, CopiesIn
<1>3. heap[a][u] \in Held(u)
  BY <1>1, <1>2 DEF Held, HeldIn, Copies
<1>4. QED BY <1>3, RangeMember

LEMMA EbbArc ==
  ASSUME TypeInv, TypeInv', Ebb, NEW a \in Arcs, ArcOK(a)
  PROVE  ArcOK(a)'
<1>1. ASSUME heap[a] = NoShard
      PROVE  heap'[a] = NoShard
  <2>1. heap'[a] \in [Users -> Entry \cup {None}]
    BY DEF TypeInv, TypeOK
  <2>2. \A u \in Users : heap'[a][u] = None
    BY <1>1 DEF Ebb, NoShard
  <2>3. QED BY <2>1, <2>2 DEF NoShard
<1>2. ASSUME NEW k \in Keys, shards[k] = a
      PROVE  ArcOK(a)'
  BY <1>1, <1>2 DEF Ebb, ArcOK
<1>3. QED BY <1>1, <1>2 DEF ArcOK

LEMMA RangeOnce ==
  ASSUME Tidy, NEW q, NEW r \in InRange(q, now), NEW s \in InRange(q, now), r.user = s.user
  PROVE  r = s
<1>1. PICK u \in Users : \E e \in Held(u) : r = Result(u, e)
  BY RangeMember
<1>2. PICK v \in Users : \E f \in Held(v) : s = Result(v, f)
  BY RangeMember
<1>3. PICK e \in Held(u), f \in Held(v) : r = Result(u, e) /\ s = Result(v, f)
  BY <1>1, <1>2
<1>4. r.user = u /\ s.user = v
  BY <1>3 DEF Result
<1>5. e = f
  BY <1>4, TidyOnce
<1>6. QED BY <1>3, <1>4, <1>5

LEMMA RangeFinite ==
  ASSUME Tidy, NEW q
  PROVE  IsFiniteSet(InRange(q, now))
<1>1. PICK f : f = [u \in Users |-> Result(u, heap[shards[user_index[u]]][u])]
  OBVIOUS
<1>2. PICK T : T = {f[u] : u \in Users}
  OBVIOUS
<1>3. f \in Surjection(Users, T)
  BY <1>1, <1>2 DEF Surjection
<1>4. IsFiniteSet(T)
  BY <1>3, UsersAssumption, FS_Surjection
<1>5. InRange(q, now) \subseteq T
  <2>1. SUFFICES ASSUME NEW r \in InRange(q, now) PROVE r \in T
    OBVIOUS
  <2>2. PICK u \in Users : \E e \in Held(u) : r = Result(u, e)
    BY RangeMember
  <2>3. r = f[u]
    BY <1>1, <2>2, TidyOnce
  <2>4. QED BY <1>2, <2>3
<1>6. QED BY <1>4, <1>5, CountMono

----------------------------------------------------------------------------
(* The steps of a store nobody writes to *)

\* The steps that are left when nobody writes and the clock stands still.
StillNext ==
  /\ now' = now
  /\ \A t \in Tasks : pc'[t] \notin UpsertPCs \cup RemovePCs
  /\ \/ \E t \in Tasks : Start(t) \/ Query(t)
     \/ Sweep
     \/ UNCHANGED vars

LEMMA StillSteps ==
  ASSUME TypeInv, \A t \in Tasks : pc[t] \in QueryPCs \cup {"idle"}, [Next]_vars, [Still]_vars
  PROVE  StillNext
<1>1. now' = now
  BY DEF Still, vars
<1>2. \A t \in Tasks : pc'[t] \notin UpsertPCs \cup RemovePCs
  BY DEF Still, vars
<1>3. ~Tick
  BY <1>1 DEF Tick, TypeInv, TypeOK
<1>4. ASSUME NEW t \in Tasks, Upsert(t) \/ Remove(t) \/ Cancel(t)
      PROVE  FALSE
  BY <1>4 DEF Upsert, UpsertSkip, UpsertCheck, UpsertLookup, UpsertUnlink, UpsertInsert, UpsertCreate,
              UpsertIndex, UpsertSuppress, Remove, RemoveShard, RemoveIndex, RemoveSuppression, Cancel
<1>5. QED BY <1>1, <1>2, <1>3, <1>4 DEF StillNext, Next, Handler

\* A still step of a handler is a step of a query, or does not touch the store.
LEMMA StillStart ==
  ASSUME TypeInv, NEW t \in Tasks, pc'[t] \notin UpsertPCs \cup RemovePCs, Start(t)
  PROVE  /\ UNCHANGED <<shards, heap, user_index, now, who, key, sweep>>
         /\ pc'[Sweeper] = pc[Sweeper]
         /\ \/ scan' = scan /\ pc' = pc /\ steady' = steady
            \/ \E q \in Queries : NearbyCall(t, q)
            \/ \E u \in Lookups : GetUserCall(t, u)
<1>1. ASSUME NEW u, NEW p, UpsertCall(t, u, p)
      PROVE  FALSE
  BY <1>1 DEF UpsertCall, Goto, TypeInv, TypeOK
<1>2. ASSUME NEW u, RemoveCall(t, u)
      PROVE  UNCHANGED <<shards, heap, user_index, now, who, key, sweep, scan, pc, steady>>
  BY <1>2 DEF RemoveCall, RemoveLookup, Goto, TypeInv, TypeOK, store
<1>3. ASSUME NEW q, NEW at, NEW todo, NEW favs, StartQuery(t, q, at, todo, favs)
      PROVE  UNCHANGED <<shards, heap, user_index, now, who, key, sweep>> /\ pc'[Sweeper] = pc[Sweeper]
  BY <1>3 DEF StartQuery, Goto, store, TypeInv, TypeOK
<1>4. ASSUME NEW q \in Queries, NearbyCall(t, q)
      PROVE  UNCHANGED <<shards, heap, user_index, now, who, key, sweep>> /\ pc'[Sweeper] = pc[Sweeper]
  BY <1>3, <1>4 DEF NearbyCall
<1>5. ASSUME NEW u \in Lookups, GetUserCall(t, u)
      PROVE  UNCHANGED <<shards, heap, user_index, now, who, key, sweep>> /\ pc'[Sweeper] = pc[Sweeper]
  BY <1>3, <1>5 DEF GetUserCall
<1>6. QED BY <1>1, <1>2, <1>4, <1>5 DEF Start

LEMMA StillQuery ==
  ASSUME TypeInv, NEW t \in Tasks, Query(t)
  PROVE  /\ UNCHANGED <<shards, user_index, now, sweep>>
         /\ pc'[Sweeper] = pc[Sweeper] /\ who'[Sweeper] = who[Sweeper] /\ key'[Sweeper] = key[Sweeper]
         /\ UNCHANGED heap \/ NearbyEvict(t)
<1> USE DEF Goto, TypeInv, TypeOK, store
<1>1. CASE NearbyPick(t)
  <2>1. PICK k, a : pc' = [pc EXCEPT ![t] = IF a = None THEN "pick" ELSE "scan"]
    BY <1>1 DEF NearbyPick
  <2>2. QED BY <1>1, <2>1 DEF NearbyPick
<1>2. CASE GetIndex(t)
  <2>1. pc'[Sweeper] = pc[Sweeper] /\ who'[Sweeper] = who[Sweeper] /\ key'[Sweeper] = key[Sweeper]
    BY <1>2 DEF GetIndex
  <2>2. QED BY <1>2, <2>1 DEF GetIndex
<1>3. CASE NearbyScan(t) \/ NearbyEvict(t)
  <2>1. UNCHANGED <<shards, user_index, now, sweep, who, key>> /\ (UNCHANGED heap \/ NearbyEvict(t))
    BY <1>3 DEF NearbyScan, NearbyEvict
  <2>2. PICK to : pc' = [pc EXCEPT ![t] = to]
    BY <1>3 DEF NearbyScan, NearbyEvict, AfterShard
  <2>3. QED BY <2>1, <2>2
<1>4. CASE NearbyLoopEnd(t) \/ GetArc(t) \/ GetRead(t) \/ Finish(t) \/ Respond(t)
  BY <1>4 DEF NearbyLoopEnd, GetArc, GetRead, GetDone, Finish, Respond
<1>5. QED BY <1>1, <1>2, <1>3, <1>4 DEF Query

\* Every still step ebbs: a query evicts what has expired, the sweeper removes users
\* who have expired and drops shards that are empty.
LEMMA StillEbbs ==
  ASSUME TypeInv, TypeInv', StillNext, SweepView, \A t \in Tasks : ArcView(t)
  PROVE  Ebb
<1>0. now' = now
  BY DEF StillNext
<1>1. ASSUME NEW t \in Tasks, Start(t)
      PROVE  Ebb
  BY <1>1, StillStart, EbbNothing DEF StillNext
<1>2. ASSUME NEW t \in Tasks, Query(t)
      PROVE  Ebb
  <2>1. CASE UNCHANGED heap
    BY <1>2, <2>1, StillQuery, EbbNothing
  <2>2. CASE NearbyEvict(t)
    <3>0. PICK gone : gone = scan[t].stale
      OBVIOUS
    <3>1. PICK a \in Arcs : a = scan[t].arc /\ gone = scan[t].stale
      BY <2>2, <3>0 DEF NearbyEvict, TypeInv, LocalsOK
    <3>2. \A u \in gone : heap[a][u] # None => Stale(heap[a][u], now)
      BY <2>2, <3>1 DEF NearbyEvict, ArcView
    <3>3. Erase(a, gone)
      BY <2>2, <3>1 DEF NearbyEvict
    <3>4. \A b \in Arcs, u \in Users :
            heap'[b][u] = IF b = a /\ u \in gone THEN None ELSE heap[b][u]
      BY <3>3 DEF Erase, TypeInv, TypeOK
    <3>5. QED BY <1>0, <1>2, <3>2, <3>4, StillQuery DEF Ebb
  <2>3. QED BY <1>2, <2>1, <2>2, StillQuery
<1>3. CASE SweepCall \/ SweepCollect \/ SweepRemove \/ SweepEmpties \/ SweepFindEmpty
  BY <1>3, EbbNothing DEF SweepCall, SweepCollect, SweepRemove, SweepEmpties, SweepFindEmpty, store
<1>4. CASE SweepDrop
  <2>1. /\ UNCHANGED <<heap, user_index, now>>
        /\ \A k \in Keys : shards'[k] = IF k \in sweep.empty THEN None ELSE shards[k]
    BY <1>4 DEF SweepDrop
  <2>2. \A k \in sweep.empty : shards[k] # None => heap[shards[k]] = NoShard
    BY DEF SweepView
  <2>3. QED BY <2>1, <2>2 DEF Ebb
<1>5. CASE RemoveShard(Sweeper)
  <2>1. PICK k \in Keys, u \in Users : k = key[Sweeper] /\ u = who[Sweeper]
    BY <1>5 DEF RemoveShard, TypeInv, LocalsOK
  <2>2. /\ UNCHANGED <<shards, user_index, now>> /\ Expired(u)
        /\ IF shards[k] # None THEN Erase(shards[k], {u}) ELSE UNCHANGED heap
    BY <1>5, <2>1 DEF RemoveShard, SweepView
  <2>3. CASE shards[k] = None
    BY <2>2, <2>3, EbbNothing
  <2>4. CASE shards[k] # None
    <3>1. PICK a \in Arcs : a = shards[k] /\ Erase(a, {u})
      BY <2>2, <2>4 DEF TypeInv, TypeOK
    <3>2. heap[a][u] # None => Stale(heap[a][u], now)
      <4>1. SUFFICES ASSUME heap[a][u] # None PROVE heap[a][u] \in Held(u)
        BY <2>2 DEF Expired
      <4>2. k \in Copies(u)
        BY <2>4, <3>1, <4>1 DEF Copies, CopiesIn
      <4>3. QED BY <3>1, <4>2 DEF Held, HeldIn, Copies
    <3>3. \A b \in Arcs, v \in Users : heap'[b][v] = IF b = a /\ v = u THEN None ELSE heap[b][v]
      BY <3>1 DEF Erase, TypeInv, TypeOK
    <3>4. QED BY <2>2, <3>2, <3>3 DEF Ebb
  <2>5. QED BY <2>3, <2>4
<1>6. CASE RemoveIndex(Sweeper)
  <2>1. PICK u \in Users : u = who[Sweeper]
    BY <1>6 DEF RemoveIndex, TypeInv, LocalsOK
  <2>2. /\ UNCHANGED <<shards, heap, now>> /\ Copies(u) = {}
        /\ user_index' = [user_index EXCEPT ![u] = None]
    BY <1>6, <2>1 DEF RemoveIndex, SweepView
  <2>3. QED BY <2>2 DEF Ebb, TypeInv, TypeOK
<1>7. CASE RemoveSuppression(Sweeper)
  BY <1>7, EbbNothing DEF RemoveSuppression
<1>8. CASE UNCHANGED vars
  BY <1>8, EbbNothing DEF vars
<1>9. QED BY <1>1, <1>2, <1>3, <1>4, <1>5, <1>6, <1>7, <1>8 DEF StillNext, Sweep, Remove

\* What t remembers of the users who are left alone and live.
Remembered(t) ==
  \A u \in steady[t] : Same(u) /\ (\E e \in Held(u) : ~Stale(e, now')) => u \in steady'[t]

LEMMA ObserveRemembers ==
  ASSUME TypeInv, NEW t \in Tasks, Observe \/ UNCHANGED steady
  PROVE  Remembered(t)
<1>1. CASE UNCHANGED steady
  BY <1>1 DEF Remembered
<1>2. CASE Observe
  <2>1. steady'[t] = {u \in steady[t] : /\ HeldIn(shards', heap', u) = Held(u)
                                        /\ user_index'[u] = user_index[u]
                                        /\ \E e \in Held(u) : ~Stale(e, now')}
    BY <1>2 DEF Observe
  <2>2. \A u : Held(u)' = HeldIn(shards', heap', u)
    BY DEF Held
  <2>3. QED BY <2>1, <2>2 DEF Remembered, Same
<1>3. QED BY <1>1, <1>2

LEMMA StillRemembers ==
  ASSUME TypeInv, StillNext, NEW t \in Tasks, ~Respond(t), ~(\E q \in Queries : NearbyCall(t, q)),
         ~(\E u \in Lookups : GetUserCall(t, u))
  PROVE  Remembered(t)
<1> USE DEF history
<1>1. ASSUME NEW o \in Tasks, Start(o)
      PROVE  Remembered(t)
  <2>1. CASE steady' = steady
    BY <2>1, ObserveRemembers
  <2>2. CASE steady' # steady
    <3>1. ASSUME NEW q, NEW at, NEW todo, NEW favs, StartQuery(o, q, at, todo, favs), o # t
          PROVE  steady'[t] = steady[t]
      BY <3>1 DEF StartQuery, TypeInv, TypeOK
    <3>2. (\E q \in Queries : NearbyCall(o, q)) \/ (\E u \in Lookups : GetUserCall(o, u))
      BY <1>1, <2>2, StillStart DEF StillNext
    <3>3. steady'[t] = steady[t]
      BY <3>1, <3>2 DEF NearbyCall, GetUserCall
    <3>4. QED BY <3>3 DEF Remembered
  <2>3. QED BY <2>1, <2>2
<1>2. ASSUME NEW o \in Tasks, Query(o)
      PROVE  Remembered(t)
  <2>1. CASE Respond(o)
    <3>1. steady'[t] = steady[t]
      BY <2>1 DEF Respond, TypeInv, TypeOK
    <3>2. QED BY <3>1 DEF Remembered
  <2>2. QED BY <1>2, <2>1, ObserveRemembers
               DEF Query, NearbyPick, NearbyScan, NearbyEvict, NearbyLoopEnd, GetIndex, GetArc,
                   GetRead, Finish
<1>3. CASE Sweep
  BY <1>3, ObserveRemembers
     DEF Sweep, SweepCall, SweepCollect, SweepRemove, SweepEmpties, SweepFindEmpty, SweepDrop,
         Remove, RemoveShard, RemoveIndex, RemoveSuppression
<1>4. CASE UNCHANGED vars
  BY <1>4, ObserveRemembers DEF vars
<1>5. QED BY <1>1, <1>2, <1>3, <1>4 DEF StillNext

----------------------------------------------------------------------------
(* The sweeper on a store nobody writes to *)

LEMMA EbbEmpty ==
  ASSUME TypeInv', Ebb, NEW a \in Arcs, heap[a] = NoShard
  PROVE  heap'[a] = NoShard
<1>1. heap'[a] \in [Users -> Entry \cup {None}]
  BY DEF TypeInv, TypeOK
<1>2. \A u \in Users : heap'[a][u] = None
  BY DEF Ebb, NoShard
<1>3. QED BY <1>1, <1>2 DEF NoShard

\* What the sweeper has collected stays expired and empty.
LEMMA SweepLists ==
  ASSUME TypeInv, TypeInv', Ebb, SweepView
  PROVE  /\ \A uk \in sweep.stale : Expired(uk[1])'
         /\ \A k \in sweep.empty : shards'[k] # None => heap'[shards'[k]] = NoShard
<1>1. \A uk \in sweep.stale : uk[1] \in Users
  BY DEF TypeInv, TypeOK, SweepState
<1>2. ASSUME NEW uk \in sweep.stale
      PROVE  Expired(uk[1])'
  <2>1. PICK u \in Users : u = uk[1]
    BY <1>1
  <2>2. Expired(u)
    BY <2>1 DEF SweepView
  <2>3. Expired(u)'
    BY <2>2, EbbExpired
  <2>4. QED BY <2>1, <2>3
<1>3. ASSUME NEW k \in sweep.empty, shards'[k] # None
      PROVE  heap'[shards'[k]] = NoShard
  <2>1. k \in Keys
    BY DEF TypeInv, TypeOK, SweepState
  <2>2. shards'[k] = shards[k] /\ shards[k] \in Arcs
    BY <1>3, <2>1 DEF Ebb, TypeInv, TypeOK
  <2>3. heap[shards[k]] = NoShard
    BY <1>3, <2>2 DEF SweepView
  <2>4. QED BY <2>2, <2>3, EbbEmpty
<1>4. QED BY <1>2, <1>3

LEMMA SweepFrame ==
  ASSUME TypeInv, TypeInv', Ebb, SweepView, UNCHANGED <<shards, user_index, sweep>>,
         pc'[Sweeper] = pc[Sweeper], who'[Sweeper] = who[Sweeper], key'[Sweeper] = key[Sweeper]
  PROVE  SweepView'
<1>1. PICK u : u = who[Sweeper]
  OBVIOUS
<1>2. pc[Sweeper] \in RemovePCs => u \in Users
  BY <1>1 DEF TypeInv, LocalsOK
<1>3. ASSUME pc[Sweeper] \in RemovePCs
      PROVE  Expired(u)'
  BY <1>1, <1>2, <1>3, EbbExpired DEF SweepView
<1>4. ASSUME pc[Sweeper] \in {"rm_index", "rm_supp"}
      PROVE  Copies(u)' = {}
  <2>1. Copies(u) = {} /\ u \in Users
    BY <1>1, <1>2, <1>4 DEF SweepView
  <2>2. QED BY <2>1, EbbCopies
<1>5. sweep'.start <= now'
  BY DEF SweepView, Ebb
<1>6. u = who'[Sweeper]
  BY <1>1
<1>7. pc'[Sweeper] \in RemovePCs => Expired(who[Sweeper])'
  BY <1>3, <1>6
<1>8. pc'[Sweeper] \in {"rm_index", "rm_supp"} => Copies(who[Sweeper])' = {}
  BY <1>4, <1>6
<1>9. QED BY <1>5, <1>7, <1>8, SweepLists DEF SweepView

LEMMA ViewCall ==
  ASSUME TypeInv, TypeInv', SweepCall
  PROVE  SweepView'
<1>1. /\ sweep'.start = now /\ sweep'.todo = Mapped /\ sweep'.stale = {} /\ sweep'.empty = {}
      /\ UNCHANGED <<shards, now>>
  BY DEF SweepCall, NoSweep, store
<1>2. pc'[Sweeper] \in {"reap", "collect"}
  BY DEF SweepCall, Goto, TypeInv, TypeOK
<1>3. now \in Nat
  BY DEF TypeInv, TypeOK
<1>4. QED BY <1>1, <1>2, <1>3 DEF SweepView, Mapped

LEMMA ViewCollect ==
  ASSUME TypeInv, TypeInv', Tidy, Ebb, SweepView, SweepCollect
  PROVE  SweepView'
<1>1. PICK k \in sweep.todo :
        sweep' = [sweep EXCEPT !.todo = @ \ {k}, !.stale = @ \cup
          ({u \in Users : heap[shards[k]][u] # None /\ Stale(heap[shards[k]][u], sweep.start)} \X {k})]
  BY DEF SweepCollect
<1>2. PICK old : old = {u \in Users : heap[shards[k]][u] # None
                                       /\ Stale(heap[shards[k]][u], sweep.start)}
  OBVIOUS
<1>3. /\ sweep'.start = sweep.start /\ sweep'.todo = sweep.todo \ {k}
      /\ sweep'.stale = sweep.stale \cup (old \X {k}) /\ sweep'.empty = sweep.empty
  BY <1>1, <1>2 DEF TypeInv, TypeOK, SweepState
<1>4. UNCHANGED <<shards, heap, now>> /\ pc[Sweeper] = "collect"
  BY DEF SweepCollect, store
<1>5. pc'[Sweeper] \in {"reap", "collect"}
  BY DEF SweepCollect, Goto, TypeInv, TypeOK
<1>6. ASSUME NEW u \in old
      PROVE  Expired(u)'
  <2>1. u \in Users /\ k \in Keys /\ shards[k] # None
    BY <1>2, <1>4 DEF SweepView, TypeInv, TypeOK, SweepState
  <2>2. PICK e : e = heap[shards[k]][u]
    OBVIOUS
  <2>3. e # None /\ Stale(e, sweep.start)
    BY <1>2, <2>2
  <2>4. e \in Entry
    BY <2>1, <2>2, <2>3 DEF TypeInv, TypeOK
  <2>5. e \in Held(u)
    <3>1. k \in Copies(u)
      BY <2>1, <2>2, <2>3 DEF Copies, CopiesIn
    <3>2. QED BY <2>2, <3>1 DEF Held, HeldIn, Copies
  <2>6. Stale(e, now)
    <3>1. e.at \in Nat /\ now \in Nat /\ sweep.start \in Nat /\ sweep.start <= now /\ TTL \in Nat
      BY <2>4 DEF Entry, TypeInv, TypeOK, SweepState, SweepView
    <3>2. QED BY <2>3, <3>1 DEF Stale
  <2>7. \A f \in Held(u) : f = e
    BY <2>1, <2>5, TidyOnce
  <2>8. Expired(u)
    BY <2>6, <2>7 DEF Expired
  <2>9. QED BY <2>1, <2>8, EbbExpired
<1>7. ASSUME NEW uk \in sweep'.stale
      PROVE  Expired(uk[1])'
  <2>1. CASE uk \in sweep.stale
    BY <2>1, SweepLists
  <2>2. CASE uk \in old \X {k}
    <3>1. PICK u \in old : u = uk[1]
      BY <2>2
    <3>2. QED BY <1>6, <3>1
  <2>3. QED BY <1>3, <1>7, <2>1, <2>2
<1>8. \A l \in sweep'.todo : shards'[l] # None
  BY <1>3, <1>4 DEF SweepView
<1>9. \A l \in sweep'.empty : shards'[l] # None => heap'[shards'[l]] = NoShard
  BY <1>3, SweepLists
<1>10. sweep'.start <= now'
  BY <1>3, <1>4 DEF SweepView
<1>11. QED BY <1>5, <1>7, <1>8, <1>9, <1>10 DEF SweepView

LEMMA ViewRemove ==
  ASSUME TypeInv, TypeInv', Ebb, SweepView, SweepRemove
  PROVE  SweepView'
<1>1. PICK uk \in sweep.stale : /\ sweep' = [sweep EXCEPT !.stale = @ \ {uk}]
                                /\ RemoveLookup(Sweeper, uk[1])
  BY DEF SweepRemove
<1>2. PICK u \in Users : u = uk[1]
  BY DEF TypeInv, TypeOK, SweepState
<1>3. /\ sweep'.start = sweep.start /\ sweep'.todo = sweep.todo
      /\ sweep'.stale \subseteq sweep.stale /\ sweep'.empty = sweep.empty
  BY <1>1 DEF TypeInv, TypeOK, SweepState
<1>4. UNCHANGED <<shards, heap, user_index, now>> /\ pc[Sweeper] = "reap"
  BY DEF SweepRemove, store
<1>5. /\ pc'[Sweeper] \in {"reap", "rm_shard"}
      /\ pc'[Sweeper] = "rm_shard" => who'[Sweeper] = u /\ key'[Sweeper] = user_index[u]
  BY <1>1, <1>2, <1>4 DEF RemoveLookup, Goto, TypeInv, TypeOK
<1>6. Expired(u)'
  <2>1. Expired(u)
    BY <1>2 DEF SweepView
  <2>2. QED BY <2>1, EbbExpired
<1>7. pc'[Sweeper] \in RemovePCs => Expired(who[Sweeper])'
  BY <1>5, <1>6
<1>8. pc'[Sweeper] = "rm_shard" => key'[Sweeper] = user_index'[who'[Sweeper]]
  BY <1>4, <1>5
<1>9. /\ \A vk \in sweep'.stale : Expired(vk[1])'
      /\ \A k \in sweep'.empty : shards'[k] # None => heap'[shards'[k]] = NoShard
  BY <1>3, SweepLists
<1>10. sweep'.start <= now'
  BY <1>3, <1>4 DEF SweepView
<1>11. QED BY <1>5, <1>7, <1>8, <1>9, <1>10 DEF SweepView

LEMMA ViewRm ==
  ASSUME TypeInv, TypeInv', ArcsDistinct, Tidy, Ebb, SweepView, Remove(Sweeper)
  PROVE  SweepView'
<1>1. /\ sweep' = sweep /\ now' = now
      /\ \A vk \in sweep.stale : Expired(vk[1])'
      /\ \A k \in sweep.empty : shards'[k] # None => heap'[shards'[k]] = NoShard
  BY SweepLists DEF Remove, RemoveShard, RemoveIndex, RemoveSuppression
<1>2. PICK u \in Users : u = who[Sweeper]
  BY DEF Remove, RemoveShard, RemoveIndex, RemoveSuppression, TypeInv, LocalsOK
<1>3. ASSUME pc'[Sweeper] \in {"rm_index", "rm_supp"}, who'[Sweeper] = u, Copies(u)' = {}
      PROVE  SweepView'
  <2>1. Expired(u)'
    BY <1>3 DEF Expired, Held, HeldIn, Copies
  <2>2. Expired(who[Sweeper])' /\ Copies(who[Sweeper])' = {}
    BY <1>3, <2>1
  <2>3. QED BY <1>1, <1>3, <2>2 DEF SweepView
<1>4. CASE RemoveShard(Sweeper)
  <2>1. pc'[Sweeper] = "rm_index" /\ who'[Sweeper] = u /\ pc[Sweeper] = "rm_shard"
    BY <1>2, <1>4 DEF RemoveShard, Goto, TypeInv, TypeOK
  <2>2. key[Sweeper] \notin Copies(u)'
    BY <1>2, <1>4, RemoveErases DEF Procs
  <2>3. key[Sweeper] = user_index[u]
    BY <1>2, <2>1 DEF SweepView
  <2>4. Copies(u)' \subseteq {user_index[u]}
    BY EbbCopies DEF Tidy
  <2>5. Copies(u)' = {}
    BY <2>2, <2>3, <2>4
  <2>6. QED BY <1>3, <2>1, <2>5
<1>5. CASE RemoveIndex(Sweeper)
  <2>1. /\ pc'[Sweeper] = "rm_supp" /\ who'[Sweeper] = u /\ pc[Sweeper] = "rm_index"
        /\ UNCHANGED <<shards, heap>>
    BY <1>2, <1>5 DEF RemoveIndex, Goto, TypeInv, TypeOK
  <2>2. Copies(u) = {}
    BY <1>2, <2>1 DEF SweepView
  <2>3. Copies(u)' = {}
    BY <2>1, <2>2 DEF Copies, CopiesIn
  <2>4. QED BY <1>3, <2>1, <2>3
<1>6. CASE RemoveSuppression(Sweeper)
  <2>1. pc'[Sweeper] = "reap"
    BY <1>6 DEF RemoveSuppression, Return, Goto, TypeInv, TypeOK
  <2>2. QED BY <1>1, <2>1 DEF SweepView
<1>7. QED BY <1>4, <1>5, <1>6 DEF Remove

LEMMA ViewEmpties ==
  ASSUME TypeInv, TypeInv', Ebb, SweepView, SweepEmpties \/ SweepFindEmpty \/ SweepDrop
  PROVE  SweepView'
<1>0. now \in Nat
  BY DEF TypeInv, TypeOK
<1>1. CASE SweepEmpties
  <2>1. /\ sweep'.start = 0 /\ sweep'.todo = Mapped /\ sweep'.stale = {} /\ sweep'.empty = {}
        /\ UNCHANGED <<shards, now>>
    BY <1>1 DEF SweepEmpties, NoSweep, store
  <2>2. pc'[Sweeper] \in {"idle", "find_empty"}
    BY <1>1 DEF SweepEmpties, Goto, TypeInv, TypeOK
  <2>3. QED BY <1>0, <2>1, <2>2 DEF SweepView, Mapped
<1>2. CASE SweepFindEmpty
  <2>1. PICK k \in sweep.todo :
          sweep' = [sweep EXCEPT !.todo = @ \ {k},
                                 !.empty = IF heap[shards[k]] = NoShard THEN @ \cup {k} ELSE @]
    BY <1>2 DEF SweepFindEmpty
  <2>2. /\ sweep'.start = sweep.start /\ sweep'.todo = sweep.todo \ {k} /\ sweep'.stale = sweep.stale
        /\ \A l \in sweep'.empty : l \in sweep.empty \/ heap[shards[l]] = NoShard
    BY <2>1 DEF TypeInv, TypeOK, SweepState
  <2>3. UNCHANGED <<shards, heap, now>> /\ pc[Sweeper] = "find_empty"
    BY <1>2 DEF SweepFindEmpty, store
  <2>4. pc'[Sweeper] \in {"find_empty", "drop", "idle"}
    BY <1>2 DEF SweepFindEmpty, Goto, TypeInv, TypeOK
  <2>5. \A vk \in sweep'.stale : Expired(vk[1])'
    BY <2>2, SweepLists
  <2>6. \A l \in sweep'.empty : shards'[l] # None => heap'[shards'[l]] = NoShard
    BY <2>2, <2>3 DEF SweepView
  <2>7. (\A l \in sweep'.todo : shards'[l] # None) /\ sweep'.start <= now'
    BY <2>2, <2>3 DEF SweepView
  <2>8. QED BY <2>4, <2>5, <2>6, <2>7 DEF SweepView
<1>3. CASE SweepDrop
  <2>1. sweep' = NoSweep /\ now' = now /\ pc'[Sweeper] = "idle"
    BY <1>3 DEF SweepDrop, Goto, TypeInv, TypeOK
  <2>2. QED BY <1>0, <2>1 DEF SweepView, NoSweep
<1>4. QED BY <1>1, <1>2, <1>3

LEMMA SweepKept ==
  ASSUME TypeInv, TypeInv', ArcsDistinct, Tidy, Ebb, SweepView, StillNext
  PROVE  SweepView'
<1>1. ASSUME NEW t \in Tasks, Start(t)
      PROVE  SweepView'
  BY <1>1, StillStart, SweepFrame DEF StillNext
<1>2. ASSUME NEW t \in Tasks, Query(t)
      PROVE  SweepView'
  BY <1>2, StillQuery, SweepFrame
<1>3. CASE UNCHANGED vars
  BY <1>3, SweepFrame DEF vars
<1>4. QED BY <1>1, <1>2, <1>3, ViewCall, ViewCollect, ViewRemove, ViewRm, ViewEmpties
          DEF StillNext, Sweep

----------------------------------------------------------------------------
(* Queries on a store nobody writes to *)

\* What a still step has before and after it.
Flow == StepOK /\ Tidy /\ Ebb

LEMMA NearbyQuery ==
  ASSUME NEW q \in AllQueries, q.pos # None
  PROVE  q \in Queries
BY DEF AllQueries, GetQuery

LEMMA ArcFrame ==
  ASSUME Flow, NEW t \in Tasks, ArcView(t), QueryKept(t)
  PROVE  ArcView(t)'
<1>1. scan'[t] = scan[t] /\ (pc'[t] \in QueryPCs => pc'[t] = pc[t])
  BY DEF QueryKept
<1>2. PICK a, gone : a = scan[t].arc /\ gone = scan[t].stale
  OBVIOUS
<1>3. pc[t] \in {"scan", "evict", "get_read"} => a \in Arcs /\ ArcOK(a)
  BY <1>2 DEF ArcView, Flow, StepOK, TypeInv, LocalsOK
<1>4. pc'[t] \in {"scan", "evict", "get_read"} => ArcOK(a)'
  BY <1>1, <1>3, EbbArc DEF Flow, StepOK
<1>5. ASSUME pc'[t] = "evict", NEW u \in gone, heap'[a][u] # None
      PROVE  Stale(heap'[a][u], now')
  <2>1. pc[t] = "evict" /\ a \in Arcs
    BY <1>1, <1>3, <1>5
  <2>2. u \in Users
    BY <1>2 DEF Flow, StepOK, TypeInv, TypeOK, ScanState
  <2>3. heap'[a][u] = heap[a][u] /\ now' = now
    BY <1>5, <2>1, <2>2 DEF Flow, Ebb
  <2>4. Stale(heap[a][u], now)
    BY <1>2, <1>5, <2>1, <2>3 DEF ArcView
  <2>5. QED BY <2>3, <2>4
<1>6. a = scan'[t].arc /\ gone = scan'[t].stale
  BY <1>1, <1>2
<1>7. QED BY <1>4, <1>5, <1>6 DEF ArcView

\* A step of t's query clones an Arc out of the map, and lists what it saw expired.
LEMMA ArcQuery ==
  ASSUME Flow, NEW t \in Tasks, QueryView(t), ArcView(t), Query(t)
  PROVE  ArcView(t)'
<1> USE DEF Flow, StepOK, TypeInv, TypeOK, Goto
<1>0. scan[t] \in ScanState
  OBVIOUS
<1>1. CASE NearbyPick(t)
  <2>1. PICK k \in Nearest(scan[t].query, scan[t].todo) :
          LET a == IF k \in Keys THEN shards[k] ELSE None
          IN  /\ scan' = [scan EXCEPT ![t].todo = scan[t].todo \ {k}, ![t].arc = a]
              /\ Goto(t, IF a = None THEN "pick" ELSE "scan")
    BY <1>1 DEF NearbyPick
  <2>2. PICK a : /\ a = IF k \in Keys THEN shards[k] ELSE None
                 /\ scan' = [scan EXCEPT ![t].todo = scan[t].todo \ {k}, ![t].arc = a]
                 /\ pc' = [pc EXCEPT ![t] = IF a = None THEN "pick" ELSE "scan"]
    BY <2>1
  <2>3. scan'[t].arc = a /\ pc'[t] = (IF a = None THEN "pick" ELSE "scan") /\ shards' = shards
    BY <1>0, <1>1, <2>2 DEF ScanState, NearbyPick, store
  <2>4. a # None => ArcOK(a)'
    BY <2>2, <2>3 DEF ArcOK
  <2>5. QED BY <2>3, <2>4 DEF ArcView
<1>2. CASE NearbyScan(t)
  <2> DEFINE shard == heap[scan[t].arc]
             seen  == {u \in Users \ scan[t].query.excl : shard[u] # None}
             stale == {u \in seen : Stale(shard[u], scan[t].start)}
             hits  == {u \in seen \ stale : InRadius(scan[t].query, shard[u].pos)}
             more  == {Result(u, shard[u]) : u \in hits}
             s2    == [scan[t] EXCEPT !.stale = stale, !.results = @ \cup more]
  <2>1. CASE stale = {}
    <3>1. AfterShard(t, s2)
      BY <1>2, <2>1 DEF NearbyScan
    <3>2. PICK out : pc' = [pc EXCEPT ![t] = IF out THEN "favs" ELSE "pick"]
      BY <3>1, Zenon DEF AfterShard, Goto
    <3>3. pc'[t] \in {"favs", "pick"}
      BY <3>2
    <3>4. QED BY <3>3 DEF ArcView
  <2>2. CASE stale # {}
    <3>1. pc' = [pc EXCEPT ![t] = "evict"] /\ scan' = [scan EXCEPT ![t] = s2] /\ UNCHANGED <<store, now>>
      BY <1>2, <2>2 DEF NearbyScan
    <3>2. \A u \in stale : Stale(shard[u], now)
      <4>1. SUFFICES ASSUME NEW u \in stale PROVE Stale(shard[u], now)
        OBVIOUS
      <4>2. PICK e \in Entry : e = shard[u]
        BY <1>2 DEF NearbyScan, LocalsOK
      <4>3. e.at \in Nat /\ now \in Nat /\ scan[t].start \in Nat /\ scan[t].start <= now
        BY <1>0, <4>2 DEF Entry, ScanState, QueryView
      <4>4. Stale(e, scan[t].start)
        BY <4>2
      <4>5. QED BY <4>2, <4>3, <4>4 DEF Stale
    <3> HIDE DEF stale, more
    <3>3. s2.arc = scan[t].arc /\ s2.stale = stale
      BY <1>0 DEF ScanState
    <3> HIDE DEF s2
    <3>4. /\ pc'[t] = "evict" /\ pc[t] = "scan" /\ scan'[t].arc = scan[t].arc /\ scan'[t].stale = stale
          /\ heap' = heap /\ shards' = shards /\ now' = now
      BY <1>2, <3>1, <3>3 DEF NearbyScan, store
    <3>5. ArcOK(scan[t].arc)'
      BY <3>4 DEF ArcView, ArcOK
    <3>6. QED BY <3>2, <3>4, <3>5 DEF ArcView
  <2>3. QED BY <2>1, <2>2
<1>3. CASE NearbyEvict(t)
  <2>1. PICK out : pc' = [pc EXCEPT ![t] = IF out THEN "favs" ELSE "pick"]
    BY <1>3, Zenon DEF NearbyEvict, AfterShard, Goto
  <2>2. pc'[t] \in {"favs", "pick"}
    BY <2>1
  <2>3. QED BY <2>2 DEF ArcView
<1>4. CASE GetIndex(t)
  <2>1. pc'[t] \in {"favs", "get_arc"}
    BY <1>4 DEF GetIndex
  <2>2. QED BY <2>1 DEF ArcView
<1>5. CASE GetArc(t)
  <2>1. PICK a : a = shards[key[t]]
    OBVIOUS
  <2>2. /\ scan'[t].arc = a /\ shards' = shards /\ key[t] \in Keys
        /\ pc'[t] = IF a = None THEN "favs" ELSE "get_read"
    BY <1>0, <1>5, <2>1 DEF GetArc, GetDone, ScanState, store, LocalsOK
  <2>3. ArcOK(a)'
    BY <2>1, <2>2 DEF ArcOK
  <2>4. QED BY <2>2, <2>3 DEF ArcView
<1>6. CASE NearbyLoopEnd(t) \/ GetRead(t) \/ Finish(t) \/ Respond(t)
  <2>1. pc'[t] \in {"favs", "done", "idle"}
    BY <1>6 DEF NearbyLoopEnd, GetRead, GetDone, Finish, Respond
  <2>2. QED BY <2>1 DEF ArcView
<1>7. QED BY <1>1, <1>2, <1>3, <1>4, <1>5, <1>6 DEF Query

\* The favourites in range are still remembered after the step.
LEMMA FavouritesKept ==
  ASSUME Flow, NEW t \in Tasks, NEW q \in Queries, Remembered(t),
         \A u \in q.favs \ q.excl :
           (\E e \in Held(u) : ~Stale(e, now) /\ InRadius(q, e.pos)) => u \in steady[t]
  PROVE  \A u \in q.favs \ q.excl :
           (\E e \in Held(u)' : ~Stale(e, now') /\ InRadius(q, e.pos)) => u \in steady'[t]
<1> SUFFICES ASSUME NEW u \in q.favs \ q.excl, NEW e \in Held(u)', ~Stale(e, now'), InRadius(q, e.pos)
             PROVE  u \in steady'[t]
  OBVIOUS
<1>1. u \in Users /\ now' = now
  BY DEF Flow, Ebb
<1>2. e \in Held(u) /\ ~Stale(e, now)
  BY <1>1, EbbHeld DEF Flow, StepOK
<1>3. Same(u)
  BY <1>1, <1>2, EbbSame DEF Flow, StepOK
<1>4. QED BY <1>1, <1>2, <1>3 DEF Remembered

LEMMA ExactFrame ==
  ASSUME Flow, NEW t \in Tasks, ExactView(t), QueryKept(t), Remembered(t)
  PROVE  ExactView(t)'
<1> SUFFICES ASSUME pc'[t] \in QueryPCs, scan'[t].query.pos # None
             PROVE  ExactScan(t, scan[t].query, scan[t].results, InRange(scan[t].query, now))'
  BY DEF ExactView
<1>1. /\ scan'[t] = scan[t] /\ pc'[t] = pc[t] /\ now' = now
  BY DEF QueryKept, Flow, Ebb
<1>2. PICK q, rs, all : q = scan[t].query /\ rs = scan[t].results /\ all = InRange(q, now)
  OBVIOUS
<1>3. q \in Queries
  BY <1>1, <1>2, NearbyQuery DEF Flow, StepOK, TypeInv, LocalsOK
<1>4. InRange(q, now)' = all
  BY <1>2, RangeKept DEF Flow, StepOK
<1>5. ExactScan(t, q, rs, all)
  BY <1>1, <1>2 DEF ExactView
<1>6. \A u \in q.favs \ q.excl :
        (\E e \in Held(u)' : ~Stale(e, now') /\ InRadius(q, e.pos)) => u \in steady'[t]
  BY <1>3, <1>5, FavouritesKept DEF ExactScan
<1>7. ASSUME NEW r \in all, Ahead(t, r.pos)
      PROVE  Ahead(t, r.pos)'
  <2>1. PICK k : k = shard_for_coords(r.pos)
    OBVIOUS
  <2>2. k \in Keys /\ shards[k] \in Arcs /\ r.user \in Users /\ heap[shards[k]][r.user] \in Entry
        /\ ~Stale(heap[shards[k]][r.user], now)
    BY <1>2, <2>1, RangeAt DEF Flow, StepOK
  <2>3. heap[shards[k]] # NoShard
    BY <2>2 DEF NoShard
  <2>4. shards'[k] = shards[k]
    BY <2>2, <2>3 DEF Flow, Ebb
  <2>5. QED BY <1>1, <1>7, <2>1, <2>4 DEF Ahead
<1>8. ExactScan(t, q, rs, all)'
  BY <1>1, <1>5, <1>6, <1>7 DEF ExactScan, Outdone
<1>9. q = scan'[t].query /\ rs = scan'[t].results
  BY <1>1, <1>2
<1>10. QED BY <1>4, <1>8, <1>9

----------------------------------------------------------------------------
(* The steps of a query on a store nobody writes to *)

\* The query of t is q, and all are those in its range.
Exact(t, q, all) ==
  pc[t] \in QueryPCs /\ scan[t].query = q /\ ExactScan(t, q, scan[t].results, all)

LEMMA ExactOwn ==
  ASSUME Flow, NEW t \in Tasks, NEW q \in Queries, NEW all, Exact(t, q, all), Remembered(t),
         pc'[t] \in QueryPCs, scan'[t].query = q, scan'[t].start = scan[t].start,
         scan'[t].todo \subseteq scan[t].todo,
         NEW rs, rs = scan'[t].results, rs \subseteq all,
         pc'[t] \in LoopPCs => \A r \in all \ rs : Ahead(t, r.pos)',
         pc'[t] \in FavPCs => \A r \in all \ rs : Outdone(q, rs, r),
         pc'[t] = "done" => rs \in Reserve(q, all)
  PROVE  Exact(t, q, all)'
<1>1. ExactScan(t, q, scan[t].results, all) /\ now' = now
  BY DEF Exact, Flow, Ebb
<1>2. \A u \in q.favs \ q.excl :
        (\E e \in Held(u)' : ~Stale(e, now') /\ InRadius(q, e.pos)) => u \in steady'[t]
  BY <1>1, FavouritesKept DEF ExactScan
<1>3. scan'[t].start = now' /\ scan'[t].todo \subseteq intersecting_shards(q.pos, q.radius)
  BY <1>1 DEF ExactScan
<1>4. ExactScan(t, q, rs, all)'
  BY <1>2, <1>3 DEF ExactScan, Outdone
<1>5. QED BY <1>4 DEF Exact

\* Whom the loop has not found is in a shard still to come.
LEMMA ExactPick ==
  ASSUME Flow, NEW t \in Tasks, NEW q \in Queries, NEW all, all = InRange(q, now),
         Exact(t, q, all), Remembered(t), NearbyPick(t)
  PROVE  Exact(t, q, all)'
<1>0. scan[t] \in ScanState /\ pc[t] = "pick" /\ shards' = shards
  BY DEF Flow, StepOK, TypeInv, TypeOK, NearbyPick, store
<1>1. PICK k \in Nearest(scan[t].query, scan[t].todo) :
        LET a == IF k \in Keys THEN shards[k] ELSE None
        IN  /\ scan' = [scan EXCEPT ![t].todo = scan[t].todo \ {k}, ![t].arc = a]
            /\ Goto(t, IF a = None THEN "pick" ELSE "scan")
  BY DEF NearbyPick
<1>2. PICK a : /\ a = IF k \in Keys THEN shards[k] ELSE None
               /\ scan' = [scan EXCEPT ![t].todo = scan[t].todo \ {k}, ![t].arc = a]
               /\ pc' = [pc EXCEPT ![t] = IF a = None THEN "pick" ELSE "scan"]
  BY <1>1 DEF Goto
<1>3. /\ scan'[t].query = q /\ scan'[t].start = scan[t].start /\ scan'[t].results = scan[t].results
      /\ scan'[t].todo = scan[t].todo \ {k} /\ scan'[t].arc = a
      /\ pc'[t] = IF a = None THEN "pick" ELSE "scan"
  BY <1>0, <1>2 DEF Flow, StepOK, TypeInv, TypeOK, ScanState, Exact
<1>4. PICK rs : rs = scan[t].results
  OBVIOUS
<1>5. rs \subseteq all /\ \A r \in all \ rs : Ahead(t, r.pos)
  BY <1>0, <1>4 DEF Exact, ExactScan, LoopPCs
<1>6. ASSUME NEW r \in all \ rs
      PROVE  Ahead(t, r.pos)'
  <2>1. PICK l : l = shard_for_coords(r.pos)
    OBVIOUS
  <2>2. l \in scan[t].todo
    BY <1>0, <1>5, <2>1 DEF Ahead
  <2>3. l \in Keys /\ shards[l] \in Arcs
    BY <2>1, RangeAt DEF Flow, StepOK
  <2>4. CASE l = k
    <3>1. a = shards[l] /\ a # None
      BY <1>2, <2>3, <2>4
    <3>2. pc'[t] = "scan" /\ scan'[t].arc = shards'[l]
      BY <1>0, <1>3, <3>1
    <3>3. QED BY <2>1, <3>2 DEF Ahead
  <2>5. CASE l # k
    BY <1>3, <2>1, <2>2, <2>5 DEF Ahead
  <2>6. QED BY <2>4, <2>5
<1>7. pc'[t] \in {"pick", "scan"}
  BY <1>3
<1>8. QED BY <1>3, <1>4, <1>5, <1>6, <1>7, ExactOwn DEF FavPCs

\* After a shard: what is not found is ahead, or the early exit shows it has no place.
LEMMA ExactAfterShard ==
  ASSUME GridNear, Flow, NEW t \in Tasks, NEW q \in Queries, NEW all, all = InRange(q, now),
         Exact(t, q, all), Remembered(t),
         NEW s \in ScanState, s.query = q, s.start = scan[t].start, s.todo = scan[t].todo,
         s.results \subseteq all,
         \A r \in all \ s.results : shard_for_coords(r.pos) \in s.todo,
         AfterShard(t, s)
  PROVE  Exact(t, q, all)'
<1>1. PICK out, f :
        /\ out = (s.todo = {} \/ EarlyExit(q, s.results, s.todo))
        /\ pc' = [pc EXCEPT ![t] = IF out THEN "favs" ELSE "pick"]
        /\ scan' = [scan EXCEPT ![t] = [s EXCEPT !.arc = None, !.stale = {}, !.favs = f]]
  BY Zenon DEF AfterShard, Goto
<1>2. PICK rs, todo : rs = s.results /\ todo = s.todo
  OBVIOUS
<1>3. /\ scan'[t].query = q /\ scan'[t].start = scan[t].start /\ scan'[t].results = rs
      /\ scan'[t].todo = todo /\ pc'[t] = IF out THEN "favs" ELSE "pick"
  BY <1>1, <1>2 DEF Flow, StepOK, TypeInv, TypeOK, ScanState
<1>4. ASSUME NEW r \in all \ rs, out
      PROVE  Outdone(q, rs, r)
  <2>1. EarlyExit(q, rs, todo)
    BY <1>1, <1>2, <1>4
  <2>2. IsFiniteSet(rs)
    BY <1>2, RangeFinite, CountMono DEF Flow
  <2>3. \A x \in all : x.pos \in Points /\ InRadius(q, x.pos)
    BY RangeAt DEF Flow, StepOK
  <2>4. todo \subseteq intersecting_shards(q.pos, q.radius)
    BY <1>2 DEF Exact, ExactScan
  <2>5. shard_for_coords(r.pos) \in todo
    BY <1>2, <1>4
  <2>6. /\ \A x \in rs : x.pos \in Points /\ InRadius(q, x.pos)
        /\ r.pos \in Points /\ InRadius(q, r.pos)
    BY <1>2, <1>4, <2>3
  <2>7. QED BY <2>1, <2>2, <2>4, <2>5, <2>6, ExitOutdoes
<1>5. ASSUME NEW r \in all \ rs
      PROVE  Ahead(t, r.pos)'
  BY <1>2, <1>3, <1>5 DEF Ahead
<1>6. CASE out
  <2>1. pc'[t] = "favs"
    BY <1>3, <1>6
  <2>2. QED BY <1>2, <1>3, <1>4, <1>6, <2>1, ExactOwn DEF LoopPCs
<1>7. CASE ~out
  <2>1. pc'[t] = "pick"
    BY <1>3, <1>7
  <2>2. QED BY <1>2, <1>3, <1>5, <2>1, ExactOwn DEF FavPCs
<1>8. QED BY <1>6, <1>7

LEMMA ExactScanned ==
  ASSUME GridNear, Flow, NEW t \in Tasks, NEW q \in Queries, NEW all, all = InRange(q, now),
         ArcView(t), Exact(t, q, all), Remembered(t), NearbyScan(t)
  PROVE  Exact(t, q, all)'
<1> DEFINE shard == heap[scan[t].arc]
           seen  == {u \in Users \ scan[t].query.excl : shard[u] # None}
           stale == {u \in seen : Stale(shard[u], scan[t].start)}
           hits  == {u \in seen \ stale : InRadius(scan[t].query, shard[u].pos)}
           more  == {Result(u, shard[u]) : u \in hits}
           s2    == [scan[t] EXCEPT !.stale = stale, !.results = @ \cup more]
<1>1. PICK a \in Arcs : a = scan[t].arc /\ ArcOK(a)
  BY DEF ArcView, NearbyScan, Flow, StepOK, TypeInv, LocalsOK
<1>2. /\ scan[t] \in ScanState /\ pc[t] = "scan" /\ scan[t].query = q /\ scan[t].start = now
      /\ scan[t].results \subseteq all
      /\ \A r \in all \ scan[t].results : Ahead(t, r.pos)
  BY DEF Flow, StepOK, TypeInv, TypeOK, NearbyScan, Exact, ExactScan, LoopPCs
<1>3. \A u : u \in hits <=> /\ u \in Users \ q.excl /\ heap[a][u] # None
                            /\ ~Stale(heap[a][u], now) /\ InRadius(q, heap[a][u].pos)
  BY <1>1, <1>2
<1>4. more \subseteq all
  BY <1>1, <1>3, RangeRead
<1>5. ASSUME NEW r \in all \ (scan[t].results \cup more)
      PROVE  shard_for_coords(r.pos) \in scan[t].todo
  <2>1. PICK l : l = shard_for_coords(r.pos)
    OBVIOUS
  <2>2. CASE a = shards[l]
    <3>1. /\ r.user \in Users \ q.excl /\ heap[a][r.user] \in Entry
          /\ ~Stale(heap[a][r.user], now) /\ InRadius(q, heap[a][r.user].pos)
          /\ Result(r.user, heap[a][r.user]) = r
      BY <2>1, <2>2, RangeAt DEF Flow, StepOK
    <3>2. r.user \in hits
      BY <1>3, <3>1
    <3>3. r \in more
      BY <1>1, <3>1, <3>2
    <3>4. QED BY <1>5, <3>3
  <2>3. QED BY <1>1, <1>2, <1>5, <2>1, <2>2 DEF Ahead
<1>6. CASE stale # {}
  <2>1. pc' = [pc EXCEPT ![t] = "evict"] /\ scan' = [scan EXCEPT ![t] = s2]
    BY <1>6 DEF NearbyScan, Goto
  <2> HIDE DEF stale, more
  <2>2. /\ scan'[t].query = q /\ scan'[t].start = scan[t].start /\ scan'[t].todo = scan[t].todo
        /\ scan'[t].results = scan[t].results \cup more /\ pc'[t] = "evict"
    BY <1>2, <2>1 DEF Flow, StepOK, TypeInv, TypeOK, ScanState
  <2>3. PICK rs : rs = scan[t].results \cup more
    OBVIOUS
  <2>4. rs \subseteq all
    BY <1>2, <1>4, <2>3
  <2>5. ASSUME NEW r \in all \ rs
        PROVE  Ahead(t, r.pos)'
    BY <1>5, <2>2, <2>3, <2>5 DEF Ahead
  <2>6. QED BY <2>2, <2>3, <2>4, <2>5, ExactOwn DEF FavPCs
<1>7. CASE stale = {}
  <2>1. AfterShard(t, s2)
    BY <1>7 DEF NearbyScan
  <2>2. \A u \in hits : Result(u, shard[u]) \in Found
    <3>1. \A u \in hits : shard[u] \in Entry
      BY <1>1, <1>3 DEF Flow, StepOK, TypeInv, TypeOK
    <3>2. QED BY <1>3, <3>1 DEF Result, Found, Entry
  <2>3. more \subseteq Found /\ stale \subseteq Users
    BY <2>2
  <2> HIDE DEF stale, more
  <2>4. /\ s2 \in ScanState /\ s2.query = q /\ s2.start = scan[t].start /\ s2.todo = scan[t].todo
        /\ s2.results = scan[t].results \cup more
    BY <1>2, <2>3 DEF ScanState
  <2> HIDE DEF s2
  <2>5. s2.results \subseteq all /\ \A r \in all \ s2.results : shard_for_coords(r.pos) \in s2.todo
    BY <1>2, <1>4, <1>5, <2>4
  <2>6. QED BY <2>1, <2>4, <2>5, ExactAfterShard
<1>8. QED BY <1>6, <1>7

LEMMA ExactEvict ==
  ASSUME GridNear, Flow, NEW t \in Tasks, NEW q \in Queries, NEW all, all = InRange(q, now),
         Exact(t, q, all), Remembered(t), NearbyEvict(t)
  PROVE  Exact(t, q, all)'
<1>1. pc[t] = "evict" /\ AfterShard(t, scan[t]) /\ scan[t] \in ScanState
  BY DEF NearbyEvict, Flow, StepOK, TypeInv, TypeOK
<1>2. /\ scan[t].query = q /\ scan[t].results \subseteq all
      /\ \A r \in all \ scan[t].results : shard_for_coords(r.pos) \in scan[t].todo
  BY <1>1 DEF Exact, ExactScan, LoopPCs, Ahead
<1>3. PICK s \in ScanState : s = scan[t]
  BY <1>1
<1>4. QED BY <1>1, <1>2, <1>3, ExactAfterShard

LEMMA ExactLoopEnd ==
  ASSUME Flow, NEW t \in Tasks, NEW q \in Queries, NEW all, Exact(t, q, all), Remembered(t),
         NearbyLoopEnd(t)
  PROVE  Exact(t, q, all)'
<1>1. /\ pc[t] = "pick" /\ scan[t].todo = {} /\ pc'[t] = "favs" /\ scan'[t].query = scan[t].query
      /\ scan'[t].start = scan[t].start /\ scan'[t].todo = scan[t].todo
      /\ scan'[t].results = scan[t].results
  BY DEF NearbyLoopEnd, Goto, Flow, StepOK, TypeInv, TypeOK, ScanState
<1>2. PICK rs : rs = scan[t].results
  OBVIOUS
<1>3. scan[t].query = q /\ rs \subseteq all /\ all \ rs = {}
  BY <1>1, <1>2 DEF Exact, ExactScan, LoopPCs, Ahead
<1>4. QED BY <1>1, <1>2, <1>3, ExactOwn DEF LoopPCs

\* The direct lookups only add to what was found, and only those in range.
LEMMA ExactLookup ==
  ASSUME Flow, NEW t \in Tasks, NEW q \in Queries, NEW all, all = InRange(q, now),
         Exact(t, q, all), Remembered(t), pc[t] \in FavPCs, pc'[t] \in FavPCs,
         scan'[t].query = scan[t].query, scan'[t].start = scan[t].start,
         scan'[t].todo = scan[t].todo,
         NEW more, more \subseteq all, scan'[t].results = scan[t].results \cup more
  PROVE  Exact(t, q, all)'
<1>1. PICK rs, rs2 : rs = scan[t].results /\ rs2 = rs \cup more
  OBVIOUS
<1>2. scan[t].query = q /\ rs \subseteq all /\ \A r \in all \ rs : Outdone(q, rs, r)
  BY <1>1 DEF Exact, ExactScan
<1>3. rs \subseteq rs2 /\ rs2 \subseteq all
  BY <1>1, <1>2
<1>4. IsFiniteSet(rs2) /\ q.limit \in Nat
  BY <1>3, RangeFinite, CountMono DEF Flow
<1>5. ASSUME NEW r \in all \ rs2
      PROVE  Outdone(q, rs2, r)
  BY <1>2, <1>3, <1>4, OutdoneMore
<1>6. rs2 = scan'[t].results
  BY <1>1
<1>7. QED BY <1>2, <1>3, <1>5, <1>6, ExactOwn DEF FavPCs, LoopPCs

LEMMA ExactGet ==
  ASSUME Flow, NEW t \in Tasks, NEW q \in Queries, NEW all, all = InRange(q, now),
         QueryView(t), ArcView(t), Exact(t, q, all), Remembered(t),
         GetIndex(t) \/ GetArc(t) \/ GetRead(t)
  PROVE  Exact(t, q, all)'
<1> USE DEF FavPCs
<1>0. PICK none : none = {}
  OBVIOUS
<1>1. CASE GetIndex(t)
  <2>1. /\ pc[t] = "favs" /\ pc'[t] \in {"favs", "get_arc"} /\ scan'[t].query = scan[t].query
        /\ scan'[t].start = scan[t].start /\ scan'[t].todo = scan[t].todo
        /\ scan'[t].results = scan[t].results \cup none
    BY <1>0, <1>1 DEF GetIndex, Goto, Flow, StepOK, TypeInv, TypeOK, ScanState
  <2>2. QED BY <1>0, <2>1, ExactLookup
<1>2. CASE GetArc(t)
  <2>1. /\ pc[t] = "get_arc" /\ pc'[t] \in {"favs", "get_read"} /\ scan'[t].query = scan[t].query
        /\ scan'[t].start = scan[t].start /\ scan'[t].todo = scan[t].todo
        /\ scan'[t].results = scan[t].results \cup none
    BY <1>0, <1>2 DEF GetArc, GetDone, Goto, Flow, StepOK, TypeInv, TypeOK, ScanState
  <2>2. QED BY <1>0, <2>1, ExactLookup
<1>3. CASE GetRead(t)
  <2>1. PICK a, u : /\ a = scan[t].arc /\ u = who[t]
    OBVIOUS
  <2>2. PICK e : e = heap[a][u]
    OBVIOUS
  <2>3. PICK more : more = IF e # None /\ ~Stale(e, now) /\ InRadius(q, e.pos)
                           THEN {Result(u, e)} ELSE {}
    OBVIOUS
  <2>4. scan[t].query = q /\ pc[t] = "get_read"
    BY <1>3 DEF Exact, GetRead
  <2>5. a \in Arcs /\ ArcOK(a) /\ u \in Users \ q.excl
    BY <2>1, <2>4 DEF ArcView, QueryView, LocalsOK, Flow, StepOK, TypeInv
  <2>6. more \subseteq all
    BY <2>2, <2>3, <2>5, RangeRead
  <2>7. scan' = [scan EXCEPT ![t].arc = None, ![t].results = scan[t].results \cup more]
    <3>1. scan' = [scan EXCEPT ![t].arc = None,
             ![t].results = IF e # None /\ ~Stale(e, now) /\ InRadius(q, e.pos)
                            THEN scan[t].results \cup {Result(u, e)} ELSE scan[t].results]
      BY <1>3, <2>1, <2>2, <2>4 DEF GetRead
    <3>2. (IF e # None /\ ~Stale(e, now) /\ InRadius(q, e.pos)
           THEN scan[t].results \cup {Result(u, e)} ELSE scan[t].results) = scan[t].results \cup more
      BY <2>3
    <3>3. QED BY <3>1, <3>2
  <2>8. /\ scan'[t].query = scan[t].query /\ scan'[t].start = scan[t].start
        /\ scan'[t].todo = scan[t].todo /\ scan'[t].results = scan[t].results \cup more
    BY <2>7 DEF Flow, StepOK, TypeInv, TypeOK, ScanState
  <2>9. pc'[t] = "favs"
    BY <1>3 DEF GetRead, GetDone, Goto, Flow, StepOK, TypeInv, TypeOK
  <2>10. QED BY <2>4, <2>6, <2>8, <2>9, ExactLookup
<1>4. QED BY <1>1, <1>2, <1>3

\* At the end every favourite in range was found: it is steady, so it was sought.
LEMMA FavouriteFound ==
  ASSUME Flow, NEW t \in Tasks, NEW q \in Queries, NEW all, all = InRange(q, now),
         SteadyView(t), Exact(t, q, all), pc[t] = "favs", scan[t].favs = {},
         NEW r \in all, r.user \in q.favs
  PROVE  r \in scan[t].results
<1>1. PICK u \in Users \ q.excl : \E e \in Held(u) :
         ~Stale(e, now) /\ InRadius(q, e.pos) /\ r = Result(u, e)
  BY RangeMember
<1>2. PICK e \in Held(u) : ~Stale(e, now) /\ InRadius(q, e.pos) /\ r = Result(u, e)
  BY <1>1
<1>3. r.user = u
  BY <1>2 DEF Result
<1>4. u \in steady[t] /\ scan[t].query = q /\ scan[t].results \subseteq all
  BY <1>2, <1>3 DEF Exact, ExactScan
<1>5. user_index[u] \in Copies(u) /\ e = heap[shards[user_index[u]]][u]
  BY TidyOnce DEF Flow
<1>6. Indexed(t, u)
  BY <1>2, <1>4, <1>5 DEF Indexed
<1>7. Sought(t, u)
  BY <1>3, <1>4, <1>6 DEF SteadyView, SteadyUser
<1>8. u \in UsersOf(scan[t].results)
  BY <1>7 DEF Sought, LoopPCs
<1>9. PICK s \in scan[t].results : s.user = u
  BY <1>8 DEF UsersOf
<1>10. s = r
  BY <1>3, <1>4, <1>9, RangeOnce DEF Flow
<1>11. QED BY <1>9, <1>10

LEMMA ExactFinish ==
  ASSUME GridNear, Flow, NEW t \in Tasks, NEW q \in Queries, NEW all, all = InRange(q, now),
         SteadyView(t), Exact(t, q, all), Remembered(t), Finish(t)
  PROVE  Exact(t, q, all)'
<1>1. pc[t] = "favs" /\ scan[t].favs = {} /\ scan[t].query = q /\ q.pos # None
  BY DEF Finish, Exact
<1>2. PICK rs : rs = scan[t].results
  OBVIOUS
<1>3. PICK out \in Reserve(q, rs) : scan' = [scan EXCEPT ![t].results = out]
  BY <1>1, <1>2 DEF Finish
<1>4. /\ scan'[t].query = q /\ scan'[t].start = scan[t].start /\ scan'[t].todo = scan[t].todo
      /\ scan'[t].results = out /\ pc'[t] = "done"
  BY <1>1, <1>3 DEF Finish, Goto, Flow, StepOK, TypeInv, TypeOK, ScanState
<1>5. rs \subseteq all /\ \A r \in all \ rs : Outdone(q, rs, r)
  BY <1>1, <1>2 DEF Exact, ExactScan, FavPCs
<1>6. \A r \in all \ rs : r.user \notin q.favs
  BY <1>1, <1>2, FavouriteFound
<1>7. IsFiniteSet(all) /\ q.limit \in Nat
  BY RangeFinite DEF Flow
<1>8. \A r \in all : Distance(q, r) \in Nat
  <2>1. \A r \in all : r.pos \in Points
    BY RangeAt DEF Flow, StepOK
  <2>2. QED BY <2>1 DEF GridNear, Distance
<1>9. out \in Reserve(q, all)
  BY <1>5, <1>6, <1>7, <1>8, ReserveExact
<1>10. out \subseteq all
  BY <1>7, <1>9, ReserveKeeps
<1>11. QED BY <1>4, <1>9, <1>10, ExactOwn DEF LoopPCs, FavPCs

LEMMA SameQuestion ==
  ASSUME TypeInv, NEW t \in Tasks, Query(t)
  PROVE  pc[t] \in QueryPCs /\ (Respond(t) \/ scan'[t].query = scan[t].query)
<1> USE DEF TypeInv, TypeOK, ScanState
<1>1. CASE NearbyPick(t)
  <2>1. PICK k, a : scan' = [scan EXCEPT ![t].todo = scan[t].todo \ {k}, ![t].arc = a]
    BY <1>1 DEF NearbyPick
  <2>2. QED BY <1>1, <2>1 DEF NearbyPick
<1>2. ASSUME NEW s \in ScanState, s.query = scan[t].query, AfterShard(t, s)
      PROVE  scan'[t].query = scan[t].query
  <2>1. PICK f : scan' = [scan EXCEPT ![t] = [s EXCEPT !.arc = None, !.stale = {}, !.favs = f]]
    BY <1>2, Zenon DEF AfterShard
  <2>2. QED BY <1>2, <2>1
<1>3. CASE NearbyScan(t)
  <2>1. PICK s, stale, rs : /\ s = [scan[t] EXCEPT !.stale = stale, !.results = rs]
                            /\ scan' = [scan EXCEPT ![t] = s] \/ AfterShard(t, s)
    BY <1>3 DEF NearbyScan
  <2>2. s.query = scan[t].query
    BY <2>1
  <2>3. CASE scan' = [scan EXCEPT ![t] = s]
    BY <1>3, <2>2, <2>3 DEF NearbyScan
  <2>4. CASE AfterShard(t, s)
    <3>1. PICK f : scan' = [scan EXCEPT ![t] = [s EXCEPT !.arc = None, !.stale = {}, !.favs = f]]
      BY <2>4, Zenon DEF AfterShard
    <3>2. scan'[t].query = s.query
      BY <2>1, <3>1
    <3>3. QED BY <1>3, <2>2, <3>2 DEF NearbyScan
  <2>5. QED BY <2>1, <2>3, <2>4
<1>4. CASE NearbyEvict(t)
  BY <1>2, <1>4 DEF NearbyEvict
<1>5. CASE NearbyLoopEnd(t) \/ GetIndex(t) \/ GetArc(t)
  BY <1>5 DEF NearbyLoopEnd, GetIndex, GetArc
<1>6. CASE GetRead(t)
  <2>1. PICK rs : scan' = [scan EXCEPT ![t].arc = None, ![t].results = rs]
    BY <1>6 DEF GetRead
  <2>2. QED BY <1>6, <2>1 DEF GetRead
<1>7. CASE Finish(t)
  <2>1. PICK rs : scan' = [scan EXCEPT ![t].results = rs]
    BY <1>7 DEF Finish
  <2>2. QED BY <1>7, <2>1 DEF Finish
<1>8. CASE Respond(t)
  BY <1>8 DEF Respond
<1>9. QED BY <1>1, <1>3, <1>4, <1>5, <1>6, <1>7, <1>8 DEF Query

LEMMA ExactQuery ==
  ASSUME GridNear, Flow, NEW t \in Tasks, QueryView(t), SteadyView(t), ArcView(t), ExactView(t),
         Respond(t) \/ Remembered(t), Query(t)
  PROVE  ExactView(t)'
<1>1. CASE Respond(t)
  <2>1. pc'[t] = "idle"
    BY <1>1 DEF Respond, Goto, Flow, StepOK, TypeInv, TypeOK
  <2>2. QED BY <2>1 DEF ExactView
<1>2. CASE ~Respond(t)
  <2>1. pc[t] \in QueryPCs /\ scan'[t].query = scan[t].query
    BY <1>2, SameQuestion DEF Flow, StepOK
  <2>2. CASE scan[t].query.pos = None
    BY <2>1, <2>2 DEF ExactView
  <2>3. CASE scan[t].query.pos # None
    <3>1. PICK q \in Queries : q = scan[t].query
      BY <2>1, <2>3, NearbyQuery DEF Flow, StepOK, TypeInv, LocalsOK
    <3>2. PICK all : all = InRange(q, now)
      OBVIOUS
    <3>3. Exact(t, q, all)
      BY <2>1, <2>3, <3>1, <3>2 DEF ExactView, Exact
    <3>4. Exact(t, q, all)'
      BY <1>2, <3>2, <3>3, ExactPick, ExactScanned, ExactEvict, ExactLoopEnd, ExactGet, ExactFinish
         DEF Query
    <3>5. InRange(q, now)' = all
      BY <3>2, RangeKept DEF Flow, StepOK
    <3>6. QED BY <3>4, <3>5 DEF Exact, ExactView
  <2>4. QED BY <2>2, <2>3
<1>3. QED BY <1>1, <1>2

\* A query begins with every cell of its circle to do, and so with all of its range
\* ahead, and remembers the favourites in range.
LEMMA ExactCall ==
  ASSUME GridCovers, Flow, NEW t \in Tasks, NEW q \in Queries, NearbyCall(t, q)
  PROVE  ExactView(t)'
<1>1. PICK todo : todo = intersecting_shards(q.pos, q.radius)
  OBVIOUS
<1>2. StartQuery(t, q, "pick", todo, {})
  BY <1>1 DEF NearbyCall
<1>3. /\ scan'[t].results = {} /\ scan'[t].query = q /\ scan'[t].start = now
      /\ scan'[t].todo = todo /\ pc'[t] = "pick" /\ UNCHANGED <<shards, heap, now>>
  BY <1>2 DEF StartQuery, NoScan, Goto, store, Flow, StepOK, TypeInv, TypeOK
<1>4. steady'[t] =
        {u \in IF q.limit = 0 /\ q.pos # None THEN Users \ q.excl ELSE q.favs \ q.excl :
           \E e \in Held(u) : ~Stale(e, now) /\ InRadius(q, e.pos)}
  BY <1>2 DEF StartQuery, Flow, StepOK, TypeInv, TypeOK
<1>5. ASSUME NEW u \in q.favs \ q.excl, NEW e \in Held(u)', ~Stale(e, now'), InRadius(q, e.pos)
      PROVE  u \in steady'[t]
  <2>1. u \in Users /\ Held(u)' = Held(u)
    BY <1>3 DEF Held, HeldIn, CopiesIn
  <2>2. QED BY <1>3, <1>4, <1>5, <2>1
<1>6. PICK rs, all : rs = {} /\ all = InRange(q, now)
  OBVIOUS
<1>7. InRange(q, now)' = all
  BY <1>6, RangeKept DEF Flow, StepOK
<1>8. ASSUME NEW r \in all
      PROVE  Ahead(t, r.pos)'
  <2>1. r.pos \in Points /\ InRadius(q, r.pos)
    BY <1>6, <1>8, RangeAt DEF Flow, StepOK
  <2>2. shard_for_coords(r.pos) \in todo
    BY <1>1, <2>1 DEF GridCovers
  <2>3. QED BY <1>3, <2>2 DEF Ahead
<1>9. ExactScan(t, q, rs, all)'
  BY <1>1, <1>3, <1>5, <1>6, <1>8 DEF ExactScan, FavPCs
<1>10. QED BY <1>3, <1>6, <1>7, <1>9 DEF ExactView

LEMMA AloneCall ==
  ASSUME TypeInv, NEW t \in Tasks, NEW u \in Lookups, GetUserCall(t, u)
  PROVE  ExactView(t)'
<1>1. StartQuery(t, GetQuery(u), "favs", {}, {u}) /\ GetQuery(u).pos = None
  BY DEF GetUserCall, GetQuery
<1>2. scan'[t].query = GetQuery(u)
  BY <1>1 DEF StartQuery, NoScan, TypeInv, TypeOK
<1>3. QED BY <1>1, <1>2 DEF ExactView

\* Whatever a still step is, the queries stay exact.
LEMMA ExactTasks ==
  ASSUME GridCovers, GridNear, Flow, StillNext, NEW t \in Tasks, QueryView(t), SteadyView(t),
         ArcView(t), ExactView(t)
  PROVE  ArcView(t)' /\ ExactView(t)'
<1>1. TypeInv
  BY DEF Flow, StepOK
<1>2. CASE Query(t)
  <2>1. ArcView(t)'
    BY <1>2, ArcQuery
  <2>2. pc[t] # "idle"
    BY <1>2 DEF Query, NearbyPick, NearbyScan, NearbyEvict, NearbyLoopEnd, GetIndex, GetArc, GetRead,
                Finish, Respond
  <2>3. /\ ~(\E q \in Queries : NearbyCall(t, q))
        /\ ~(\E u \in Lookups : GetUserCall(t, u))
    BY <2>2 DEF NearbyCall, GetUserCall, StartQuery
  <2>4. Respond(t) \/ Remembered(t)
    BY <1>1, <2>3, StillRemembers
  <2>5. QED BY <1>2, <2>1, <2>4, ExactQuery
<1>3. CASE (\E q \in Queries : NearbyCall(t, q)) \/ (\E u \in Lookups : GetUserCall(t, u))
  <2>1. pc'[t] \in {"pick", "favs"}
    BY <1>1, <1>3 DEF NearbyCall, GetUserCall, StartQuery, Goto, TypeInv, TypeOK
  <2>2. ArcView(t)'
    BY <2>1 DEF ArcView
  <2>3. QED BY <1>1, <1>3, <2>2, ExactCall, AloneCall
<1>4. CASE /\ ~Query(t)
           /\ ~(\E q \in Queries : NearbyCall(t, q)) /\ ~(\E u \in Lookups : GetUserCall(t, u))
  <2>1. QueryKept(t)
    <3>1. CASE Start(t)
      <4>1. scan' = scan /\ pc' = pc /\ UNCHANGED <<now, who, key>>
        BY <1>1, <1>4, <3>1, StillStart DEF StillNext
      <4>2. QED BY <1>1, <4>1 DEF QueryKept, TypeInv, TypeOK
    <3>2. ASSUME NEW o \in Tasks, o # t, Start(o) \/ Query(o)
          PROVE  QueryKept(t)
      BY <1>1, <3>2, OtherQueries DEF Handler
    <3>3. CASE Sweep \/ UNCHANGED vars
      BY <1>1, <3>3, SweepQueries
    <3>4. QED BY <1>4, <3>1, <3>2, <3>3 DEF StillNext
  <2>2. Remembered(t)
    BY <1>1, <1>4, StillRemembers DEF Query
  <2>3. QED BY <2>1, <2>2, ArcFrame, ExactFrame
<1>5. QED BY <1>2, <1>3, <1>4

LEMMA ExactNext ==
  ASSUME GridCovers, GridNear
  PROVE  ExactInv /\ [Next]_vars /\ [Still]_vars => ExactInv'
<1> SUFFICES ASSUME ExactInv, [Next]_vars, [Still]_vars
             PROVE  ExactInv'
  OBVIOUS
<1>1. SteadyInv /\ SteadyInv'
  BY SteadyNext DEF ExactInv
<1>2. StepOK /\ ArcsDistinct
  BY <1>1, ShardSteps DEF StepOK, SteadyInv, PlaceInv
<1>3. StillNext
  BY <1>2, StillSteps DEF ExactInv, StepOK
<1>4. Ebb
  BY <1>2, <1>3, StillEbbs DEF ExactInv, StepOK
<1>5. Tidy' /\ SweepView' /\ Flow
  BY <1>2, <1>3, <1>4, EbbTidy, SweepKept DEF ExactInv, StepOK, Flow
<1>6. ASSUME NEW t \in Tasks
      PROVE  pc'[t] \in QueryPCs \cup {"idle"} /\ ArcView(t)' /\ ExactView(t)'
  <2>1. pc'[t] \in QueryPCs \cup {"idle"}
    BY <1>2, <1>3 DEF StillNext, StepOK, TypeInv, TypeOK
  <2>2. QueryView(t) /\ SteadyView(t) /\ ArcView(t) /\ ExactView(t)
    BY <1>1 DEF ExactInv, SteadyInv, QueryInv
  <2>3. QED BY <1>3, <1>5, <2>1, <2>2, ExactTasks
<1>7. QED BY <1>1, <1>5, <1>6 DEF ExactInv

----------------------------------------------------------------------------
(* Between two sweeps *)

\* An idle sweeper has nothing left on its lists.
RestInv ==
  /\ TypeInv /\ sweep.start <= now
  /\ pc[Sweeper] \in {"idle", "find_empty"} => sweep.stale = {}
  /\ pc[Sweeper] = "idle" => sweep.empty = {}

LEMMA RestInit == Init => RestInv
BY TypeInit DEF Init, Quiet, RestInv, NoSweep, TypeInv, TypeOK

LEMMA RestTasks ==
  ASSUME TypeInv, NEW t \in Tasks, Start(t) \/ Handler(t) \/ Cancel(t)
  PROVE  sweep' = sweep /\ now' = now /\ pc'[Sweeper] = pc[Sweeper]
<1> USE DEF Goto, TypeInv, TypeOK
<1>1. CASE Start(t)
  <2>1. ASSUME NEW u, NEW p, UpsertCall(t, u, p)
        PROVE  sweep' = sweep /\ now' = now /\ pc'[Sweeper] = pc[Sweeper]
    BY <2>1 DEF UpsertCall
  <2>2. ASSUME NEW u, RemoveCall(t, u)
        PROVE  sweep' = sweep /\ now' = now /\ pc'[Sweeper] = pc[Sweeper]
    BY <2>2 DEF RemoveCall, RemoveLookup
  <2>3. ASSUME NEW q, NEW at, NEW todo, NEW favs, StartQuery(t, q, at, todo, favs)
        PROVE  sweep' = sweep /\ now' = now /\ pc'[Sweeper] = pc[Sweeper]
    BY <2>3 DEF StartQuery
  <2>4. QED BY <1>1, <2>1, <2>2, <2>3 DEF Start, NearbyCall, GetUserCall
<1>2. CASE Upsert(t) \/ Remove(t) \/ Cancel(t)
  BY <1>2 DEF Upsert, UpsertSkip, UpsertCheck, UpsertLookup, UpsertUnlink, UpsertInsert,
              UpsertCreate, UpsertIndex, UpsertSuppress, Remove, RemoveShard, RemoveIndex,
              RemoveSuppression, Cancel, Return
<1>3. CASE Query(t)
  BY <1>3, StillQuery
<1>4. QED BY <1>1, <1>2, <1>3 DEF Handler

LEMMA RestNext == RestInv /\ [Next]_vars => RestInv'
<1> SUFFICES ASSUME RestInv, [Next]_vars
             PROVE  RestInv'
  OBVIOUS
<1>0. /\ TypeInv /\ TypeInv' /\ now \in Nat /\ sweep.start \in Nat
  BY TypeNext DEF RestInv, TypeInv, TypeOK, SweepState
<1>1. ASSUME NEW t \in Tasks, Start(t) \/ Handler(t) \/ Cancel(t)
      PROVE  RestInv'
  BY <1>0, <1>1, RestTasks DEF RestInv
<1>2. CASE SweepCall \/ SweepEmpties \/ SweepDrop
  <2>1. sweep'.start \in {0, now} /\ sweep'.stale = {} /\ sweep'.empty = {} /\ now' = now
    <3>1. CASE SweepCall
      BY <3>1 DEF SweepCall, NoSweep
    <3>2. CASE SweepEmpties
      BY <3>2 DEF SweepEmpties, NoSweep
    <3>3. CASE SweepDrop
      BY <3>3 DEF SweepDrop, NoSweep
    <3>4. QED BY <1>2, <3>1, <3>2, <3>3
  <2>2. QED BY <1>0, <2>1 DEF RestInv
<1>3. CASE SweepCollect
  <2>1. sweep'.start = sweep.start /\ now' = now /\ pc'[Sweeper] \in {"reap", "collect"}
    BY <1>0, <1>3 DEF SweepCollect, Goto, TypeInv, TypeOK, SweepState
  <2>2. QED BY <1>0, <2>1 DEF RestInv
<1>4. CASE SweepRemove
  <2>1. sweep'.start = sweep.start /\ now' = now /\ pc'[Sweeper] \in {"reap", "rm_shard"}
    BY <1>0, <1>4 DEF SweepRemove, RemoveLookup, Goto, TypeInv, TypeOK, SweepState
  <2>2. QED BY <1>0, <2>1 DEF RestInv
<1>5. CASE Remove(Sweeper)
  <2>1. sweep' = sweep /\ now' = now /\ pc'[Sweeper] \in {"rm_index", "rm_supp", "reap"}
    BY <1>0, <1>5 DEF Remove, RemoveShard, RemoveIndex, RemoveSuppression, Return, Goto, TypeInv, TypeOK
  <2>2. QED BY <1>0, <2>1 DEF RestInv
<1>6. CASE SweepFindEmpty
  <2>1. PICK todo, empty : sweep' = [sweep EXCEPT !.todo = todo, !.empty = empty]
    BY <1>6 DEF SweepFindEmpty
  <2>2. sweep'.start = sweep.start /\ sweep'.stale = sweep.stale
    BY <1>0, <2>1 DEF TypeInv, TypeOK, SweepState
  <2>3. /\ now' = now /\ pc[Sweeper] = "find_empty"
        /\ pc'[Sweeper] = "idle" => sweep'.empty = {}
    BY <1>0, <1>6 DEF SweepFindEmpty, Goto, TypeInv, TypeOK
  <2>4. QED BY <1>0, <2>2, <2>3 DEF RestInv
<1>7. CASE Tick
  <2>1. sweep' = sweep /\ now' = now + 1 /\ pc' = pc
    BY <1>7 DEF Tick, locals
  <2>2. QED BY <1>0, <2>1 DEF RestInv
<1>8. CASE UNCHANGED vars
  BY <1>0, <1>8 DEF RestInv, vars
<1>9. QED BY <1>1, <1>2, <1>3, <1>4, <1>5, <1>6, <1>7, <1>8 DEF Next, Sweep

\* Nothing is under way, so nothing can go wrong yet.
LEMMA CalmExact == SteadyInv /\ RestInv /\ Calm => ExactInv
<1> SUFFICES ASSUME SteadyInv, RestInv, Calm
             PROVE  ExactInv
  OBVIOUS
<1>1. pc[Sweeper] = "idle" /\ \A t \in Tasks : pc[t] = "idle"
  BY DEF Calm
<1>2. SweepView
  BY <1>1 DEF SweepView, RestInv
<1>3. \A t \in Tasks : ArcView(t) /\ ExactView(t)
  BY <1>1 DEF ArcView, ExactView
<1>4. QED BY <1>1, <1>2, <1>3 DEF ExactInv, Calm

\* A store whose writers never met and were never cut short is calm between the calls.
LEMMA CalmBetweenCalls ==
  ASSUME HomeInv, disturbed = {}, \A p \in Procs : pc[p] = "idle"
  PROVE  Calm
BY DEF HomeInv, Home, NoWriter, Writing, Calm, Tidy

LEMMA ExactWhileStill ==
  ASSUME GridCovers, GridNear
  PROVE  Spec => [](Calm /\ [][Still]_vars => []ExactInv)
<1>1. Spec => []SteadyInv
  BY SteadyInit, SteadyNext, PTL DEF Spec
<1>2. Spec => []RestInv
  BY RestInit, RestNext, PTL DEF Spec
<1>3. ExactInv /\ [Next]_vars /\ [Still]_vars => ExactInv'
  BY ExactNext
<1>4. SteadyInv /\ RestInv /\ Calm => ExactInv
  BY CalmExact
<1>5. QED BY <1>1, <1>2, <1>3, <1>4, PTL DEF Spec

\* From a calm moment on, and for as long as nobody writes, every answer of nearby is
\* what a scan of the whole store would be reduced to: pruning by cells, leaving the
\* loop early and looking favourites up directly lose nobody and reorder nobody,
\* however many queries run at once and whatever they and the sweeper evict.
THEOREM NearbyIsExact ==
  ASSUME GridCovers, GridNear
  PROVE  Spec => [](Calm /\ [][Still]_vars => []NearbyExact)
<1>1. ExactInv => NearbyExact
  <2> SUFFICES ASSUME ExactInv, NEW t \in Tasks, pc[t] = "done", scan[t].query.pos # None
               PROVE  scan[t].results \in Reference(scan[t].query, scan[t].start)
    BY DEF NearbyExact
  <2>1. ExactScan(t, scan[t].query, scan[t].results, InRange(scan[t].query, now))
    BY DEF ExactInv, ExactView
  <2>2. /\ scan[t].start = now
        /\ scan[t].results \in Reserve(scan[t].query, InRange(scan[t].query, now))
    BY <2>1 DEF ExactScan
  <2>3. QED BY <2>2 DEF Reference
<1>2. Spec => [](Calm /\ [][Still]_vars => []ExactInv)
  BY ExactWhileStill
<1>3. QED BY <1>1, <1>2, PTL

=============================================================================
