------------------------- MODULE MemoryStoreProofs -------------------------
(***************************************************************************)
(* Type correctness of MemoryStore, the placement of entries and the       *)
(* single home of users without overlapping writers, for any number of     *)
(* users, tasks, cells and calls.                                          *)
(***************************************************************************)
EXTENDS MemoryStore, TLAPS

UpsertPCs == {"check", "lookup", "unlink", "insert", "create", "index", "suppress"}
RemovePCs == {"rm_shard", "rm_index", "rm_supp"}
QueryPCs  == {"pick", "scan", "evict", "favs", "get_arc", "get_read", "done"}

\* The local variables a call has set by the time it gets to each place.
LocalsOK ==
  /\ \A t \in Tasks :
       /\ pc[t] \in UpsertPCs => who[t] \in Users /\ ent[t] \in Entry
       /\ pc[t] = "unlink" => key[t] \in Keys
       /\ pc[t] \in QueryPCs => scan[t].query \in AllQueries
       /\ pc[t] \in {"scan", "evict", "get_read"} => scan[t].arc \in Arcs
       /\ pc[t] \in {"get_arc", "get_read"} => who[t] \in Users /\ key[t] \in Keys
  /\ \A p \in Procs : pc[p] \in RemovePCs => who[p] \in Users /\ key[p] \in Keys

\* No Arc is in the map twice.
ArcsDistinct == \A k, l \in Keys : shards[k] # None /\ shards[k] = shards[l] => k = l

\* Where the only writer of u knows u's entry to be.
WriterView(p, u) ==
  /\ pc[p] = "lookup" => Copies(u) \subseteq {user_index[u]}
  /\ pc[p] \in {"unlink", "rm_shard"} => key[p] = user_index[u] /\ Copies(u) \subseteq {key[p]}
  /\ pc[p] \in {"insert", "create", "index"} => Copies(u) \subseteq {NewKey(p)}
  /\ pc[p] = "suppress" => Copies(u) \subseteq {NewKey(p)} /\ user_index[u] = NewKey(p)
  /\ pc[p] \in {"rm_index", "rm_supp"} => Copies(u) = {}

Home(u) ==
  /\ NoWriter(u) => Copies(u) \subseteq {user_index[u]}
  /\ \A p, o \in Procs : Writing(p, u) /\ Writing(o, u) => p = o
  /\ \A p \in Procs : Writing(p, u) => WriterView(p, u)

HomeInv == \A u \in Users \ disturbed : Home(u)

----------------------------------------------------------------------------
(* Types *)

TypeInv == TypeOK /\ LocalsOK

USE StoreAssumption DEF Procs, WriterPCs, TaskPCs, SweepPCs, UpsertPCs, RemovePCs, QueryPCs

\* Every query has the fields nearby and get_user read.
LEMMA QueryFields ==
  ASSUME NEW q \in AllQueries
  PROVE  q.excl \subseteq Users /\ q.favs \subseteq Users
BY DEF AllQueries, GetQuery

LEMMA TypeInit == Init => TypeInv
BY DEF Init, Quiet, TypeInv, TypeOK, LocalsOK, NoScan, NoSweep, NoShard, ScanState,
       SweepState, Keys

\* The history variables keep their types in every step that observes.
LEMMA ObserveType ==
  ASSUME TypeOK, Observe
  PROVE  steady' \in [Tasks -> SUBSET Users]
BY DEF TypeOK, Observe

LEMMA OverlapType ==
  ASSUME TypeOK, NEW p, NEW u \in Users, Overlap(p, u)
  PROVE  disturbed' \subseteq Users
BY DEF TypeOK, Overlap

LEMMA NewKeyType ==
  ASSUME LocalsOK, NEW t \in Tasks, pc[t] \in UpsertPCs
  PROVE  NewKey(t) \in Keys
BY DEF LocalsOK, NewKey, Keys, Entry

\* So does the heap when a shard loses or gets entries.
LEMMA EraseType ==
  ASSUME TypeOK, NEW a \in Arcs, NEW gone, Erase(a, gone)
  PROVE  heap' \in [Arcs -> [Users -> Entry \cup {None}]]
BY DEF TypeOK, Erase

LEMMA PutType ==
  ASSUME TypeOK, NEW a \in Arcs, NEW u, NEW e \in Entry, Put(a, u, e)
  PROVE  heap' \in [Arcs -> [Users -> Entry \cup {None}]]
BY DEF TypeOK, Put

LEMMA TypeUpsert ==
  ASSUME TypeInv, NEW t \in Tasks, Upsert(t)
  PROVE  TypeInv'
<1> USE DEF TypeInv, TypeOK, LocalsOK, Goto, store, history
<1>1. CASE UpsertSkip(t)
  BY <1>1 DEF UpsertSkip, Return
<1>2. CASE UpsertCheck(t)
  BY <1>2, OverlapType DEF UpsertCheck
<1>3. CASE UpsertLookup(t)
  BY <1>3 DEF UpsertLookup
<1>4. CASE UpsertUnlink(t)
  <2>1. heap' \in [Arcs -> [Users -> Entry \cup {None}]]
    <3>1. CASE shards[key[t]] = None
      BY <1>4, <3>1 DEF UpsertUnlink
    <3>2. CASE shards[key[t]] # None
      <4>1. shards[key[t]] \in Arcs /\ Erase(shards[key[t]], {who[t]})
        BY <1>4, <3>2 DEF UpsertUnlink
      <4>2. QED BY <4>1, EraseType
    <3>3. QED BY <3>1, <3>2
  <2>2. steady' \in [Tasks -> SUBSET Users]
    BY <1>4, ObserveType DEF UpsertUnlink
  <2>3. QED BY <1>4, <2>1, <2>2 DEF UpsertUnlink
<1>5. CASE UpsertInsert(t)
  <2>1. heap' \in [Arcs -> [Users -> Entry \cup {None}]]
    <3>1. CASE shards[NewKey(t)] = None
      BY <1>5, <3>1 DEF UpsertInsert
    <3>2. CASE shards[NewKey(t)] # None
      <4>1. shards[NewKey(t)] \in Arcs /\ Put(shards[NewKey(t)], who[t], ent[t])
        BY <1>5, <3>2, NewKeyType DEF UpsertInsert
      <4>2. QED BY <1>5, <4>1, PutType DEF UpsertInsert
    <3>3. QED BY <3>1, <3>2
  <2>2. steady' \in [Tasks -> SUBSET Users]
    BY <1>5, ObserveType DEF UpsertInsert
  <2>3. PICK x \in {"index", "create"} : pc' = [pc EXCEPT ![t] = x]
    BY <1>5 DEF UpsertInsert
  <2>4. UNCHANGED <<shards, user_index, suppression, now, ops, who, ent, key, scan, sweep, disturbed>>
        /\ pc[t] = "insert"
    BY <1>5 DEF UpsertInsert
  <2>5. QED BY <2>1, <2>2, <2>3, <2>4
<1>6. CASE UpsertCreate(t)
  <2>1. NewKey(t) \in Keys /\ who[t] \in Users /\ ent[t] \in Entry
    BY <1>6, NewKeyType DEF UpsertCreate
  <2>2. /\ shards' \in [Keys -> Arcs \cup {None}]
        /\ heap' \in [Arcs -> [Users -> Entry \cup {None}]]
    <3>1. CASE shards[NewKey(t)] # None
      <4>1. Put(shards[NewKey(t)], who[t], ent[t]) /\ UNCHANGED shards
        BY <1>6, <3>1 DEF UpsertCreate
      <4>2. shards[NewKey(t)] \in Arcs
        BY <2>1, <3>1
      <4>3. QED BY <2>1, <4>1, <4>2, PutType
    <3>2. CASE shards[NewKey(t)] = None
      <4>1. PICK a \in FreeArcs : /\ shards' = [shards EXCEPT ![NewKey(t)] = a]
                                  /\ heap' = [heap EXCEPT ![a] = [NoShard EXCEPT ![who[t]] = ent[t]]]
        BY <1>6, <3>2 DEF UpsertCreate
      <4>2. QED BY <2>1, <4>1 DEF NoShard, FreeArcs
    <3>3. QED BY <3>1, <3>2
  <2>3. steady' \in [Tasks -> SUBSET Users]
    BY <1>6, ObserveType DEF UpsertCreate
  <2>4. QED BY <1>6, <2>2, <2>3 DEF UpsertCreate
<1>7. CASE UpsertIndex(t)
  BY <1>7, ObserveType DEF UpsertIndex, NewKey, Keys, Entry
<1>8. CASE UpsertSuppress(t)
  BY <1>8 DEF UpsertSuppress, Return, Entry
<1>9. QED
  BY <1>1, <1>2, <1>3, <1>4, <1>5, <1>6, <1>7, <1>8 DEF Upsert

LEMMA TypeRemove ==
  ASSUME TypeInv, NEW p \in Procs, Remove(p)
  PROVE  TypeInv'
<1> USE DEF TypeInv, TypeOK, LocalsOK, Goto, store, history
<1>1. CASE RemoveShard(p)
  <2>1. heap' \in [Arcs -> [Users -> Entry \cup {None}]]
    <3>1. CASE shards[key[p]] = None
      BY <1>1, <3>1 DEF RemoveShard
    <3>2. CASE shards[key[p]] # None
      <4>1. shards[key[p]] \in Arcs /\ Erase(shards[key[p]], {who[p]})
        BY <1>1, <3>2 DEF RemoveShard
      <4>2. QED BY <4>1, EraseType
    <3>3. QED BY <3>1, <3>2
  <2>2. steady' \in [Tasks -> SUBSET Users]
    BY <1>1, ObserveType DEF RemoveShard
  <2>3. QED BY <1>1, <2>1, <2>2 DEF RemoveShard
<1>2. CASE RemoveIndex(p)
  BY <1>2, ObserveType DEF RemoveIndex
<1>3. CASE RemoveSuppression(p)
  BY <1>3 DEF RemoveSuppression, Return
<1>4. QED BY <1>1, <1>2, <1>3 DEF Remove

\* The first critical section of remove only changes the caller's locals.
LEMMA TypeRemoveLookup ==
  ASSUME TypeInv, NEW p \in Procs, NEW u \in Users, RemoveLookup(p, u),
         UNCHANGED <<store, now, ent, scan, steady>>, ops' \in Nat, sweep' \in SweepState,
         p \in Tasks => pc[p] = "idle"
  PROVE  TypeInv'
<1> USE DEF TypeInv, TypeOK, LocalsOK, Goto, store
<1>1. CASE user_index[u] = None
  BY <1>1 DEF RemoveLookup
<1>2. CASE user_index[u] # None
  BY <1>2, OverlapType DEF RemoveLookup
<1>3. QED BY <1>1, <1>2

LEMMA TypeStartQuery ==
  ASSUME TypeInv, NEW t \in Tasks, NEW q \in AllQueries, NEW at \in {"pick", "favs"},
         NEW todo \in SUBSET (Int \X Int), NEW favs \in SUBSET Users,
         StartQuery(t, q, at, todo, favs)
  PROVE  TypeInv'
<1> USE DEF TypeInv, TypeOK, LocalsOK, Goto, store, history, Call, StartQuery
<1>1. scan' \in [Tasks -> ScanState] /\ scan'[t].query \in AllQueries
  BY DEF NoScan, ScanState
<1>2. steady' \in [Tasks -> SUBSET Users]
  BY QueryFields
<1>3. QED BY <1>1, <1>2

LEMMA TypeStart ==
  ASSUME TypeInv, NEW t \in Tasks, Start(t)
  PROVE  TypeInv'
<1>1. ASSUME NEW u \in Movers, NEW p \in Points, UpsertCall(t, u, p)
      PROVE  TypeInv'
  BY <1>1 DEF UpsertCall, Entry, TypeInv, TypeOK, LocalsOK, Goto, store, history, Call
<1>2. ASSUME NEW u \in Movers, RemoveCall(t, u)
      PROVE  TypeInv'
  <2>1. /\ pc[t] = "idle" /\ RemoveLookup(t, u) /\ UNCHANGED <<store, now, ent, scan, steady>>
        /\ ops' \in Nat /\ sweep' \in SweepState /\ u \in Users
    BY <1>2 DEF RemoveCall, Call, TypeInv, TypeOK
  <2>2. QED BY <2>1, TypeRemoveLookup
<1>3. ASSUME NEW q \in Queries, NearbyCall(t, q)
      PROVE  TypeInv'
  <2>1. intersecting_shards(q.pos, q.radius) \in SUBSET (Int \X Int)
    BY DEF intersecting_shards
  <2>2. q \in AllQueries /\ StartQuery(t, q, "pick", intersecting_shards(q.pos, q.radius), {})
    BY <1>3 DEF NearbyCall, AllQueries
  <2>3. QED BY <2>1, <2>2, TypeStartQuery
<1>4. ASSUME NEW u \in Lookups, GetUserCall(t, u)
      PROVE  TypeInv'
  <2>1. GetQuery(u) \in AllQueries /\ StartQuery(t, GetQuery(u), "favs", {}, {u}) /\ u \in Users
    BY <1>4 DEF GetUserCall, AllQueries
  <2>2. QED BY <2>1, TypeStartQuery
<1>5. QED BY <1>1, <1>2, <1>3, <1>4 DEF Start

\* The loop of nearby, after a shard with the query state s.
LEMMA TypeAfterShard ==
  ASSUME TypeInv, NEW t \in Tasks, NEW s \in ScanState, s.query \in AllQueries,
         AfterShard(t, s), heap' \in [Arcs -> [Users -> Entry \cup {None}]],
         steady' \in [Tasks -> SUBSET Users],
         UNCHANGED <<shards, user_index, suppression, now, ops, who, ent, key, sweep, disturbed>>
  PROVE  TypeInv'
<1>1. MissedFavs(s.query, s.results) \in SUBSET Users
  BY QueryFields DEF MissedFavs
<1>2. PICK f \in SUBSET Users : scan' = [scan EXCEPT ![t] = [s EXCEPT !.arc = None, !.stale = {}, !.favs = f]]
  BY <1>1 DEF AfterShard
<1>3. PICK to \in {"favs", "pick"} : pc' = [pc EXCEPT ![t] = to]
  BY DEF AfterShard, Goto
<1>4. [s EXCEPT !.arc = None, !.stale = {}, !.favs = f] \in ScanState
  BY DEF ScanState
<1>5. QED BY <1>2, <1>3, <1>4 DEF TypeInv, TypeOK, LocalsOK

LEMMA TypeQuery ==
  ASSUME TypeInv, NEW t \in Tasks, Query(t)
  PROVE  TypeInv'
<1> scan[t] \in ScanState
  BY DEF TypeInv, TypeOK
<1>1. CASE NearbyPick(t)
  <2>1. PICK k \in scan[t].todo, a \in Arcs \cup {None} :
           /\ scan' = [scan EXCEPT ![t].todo = scan[t].todo \ {k}, ![t].arc = a]
           /\ pc' = [pc EXCEPT ![t] = IF a = None THEN "pick" ELSE "scan"]
    BY <1>1 DEF NearbyPick, Nearest, Goto, TypeInv, TypeOK
  <2>2. scan' \in [Tasks -> ScanState] /\ scan'[t].query = scan[t].query /\ scan'[t].arc = a
    BY <2>1 DEF TypeInv, TypeOK, ScanState
  <2>3. QED BY <1>1, <2>1, <2>2 DEF NearbyPick, TypeInv, TypeOK, LocalsOK, store, history
<1>2. CASE NearbyScan(t)
  <2> DEFINE shard == heap[scan[t].arc]
             seen  == {u \in Users \ scan[t].query.excl : shard[u] # None}
             stale == {u \in seen : Stale(shard[u], scan[t].start)}
             hits  == {u \in seen \ stale : InRadius(scan[t].query, shard[u].pos)}
             found == {Result(u, shard[u]) : u \in hits}
             s2    == [scan[t] EXCEPT !.stale = stale, !.results = @ \cup found]
  <2>1. shard \in [Users -> Entry \cup {None}] /\ scan[t].query \in AllQueries /\ scan[t].arc \in Arcs
    BY <1>2 DEF NearbyScan, TypeInv, TypeOK, LocalsOK
  <2>2. \A u \in hits : Result(u, shard[u]) \in Found
    BY <2>1 DEF Result, Found, Entry
  <2>3. /\ s2 \in ScanState
        /\ s2.query = scan[t].query
        /\ s2.arc = scan[t].arc
    <3>1. found \subseteq Found /\ stale \subseteq Users
      BY <2>2
    <3> HIDE DEF found, stale
    <3>2. QED BY <3>1 DEF ScanState
  <2> HIDE DEF s2
  <2>4. CASE stale # {}
    <3>1. pc' = [pc EXCEPT ![t] = "evict"] /\ scan' = [scan EXCEPT ![t] = s2]
      BY <1>2, <2>4 DEF NearbyScan, Goto, s2
    <3>2. QED BY <1>2, <2>1, <2>3, <3>1 DEF NearbyScan, TypeInv, TypeOK, LocalsOK, store, history
  <2>5. CASE stale = {}
    <3>1. AfterShard(t, s2)
      BY <1>2, <2>5 DEF NearbyScan, s2
    <3>2. /\ UNCHANGED <<shards, user_index, suppression, now, ops, who, ent, key, sweep, disturbed>>
          /\ heap' \in [Arcs -> [Users -> Entry \cup {None}]]
          /\ steady' \in [Tasks -> SUBSET Users]
      BY <1>2 DEF NearbyScan, TypeInv, TypeOK, store, history
    <3>3. QED BY <2>1, <2>3, <3>1, <3>2, TypeAfterShard
  <2>6. QED BY <2>4, <2>5
<1>3. CASE NearbyEvict(t)
  <2>1. scan[t].arc \in Arcs /\ scan[t].query \in AllQueries
    BY <1>3 DEF NearbyEvict, TypeInv, LocalsOK
  <2>2. TypeOK /\ Erase(scan[t].arc, scan[t].stale) /\ AfterShard(t, scan[t]) /\ Observe
    BY <1>3 DEF NearbyEvict, TypeInv
  <2>3. /\ heap' \in [Arcs -> [Users -> Entry \cup {None}]]
        /\ steady' \in [Tasks -> SUBSET Users]
    BY <2>1, <2>2, EraseType, ObserveType
  <2>4. QED BY <1>3, <2>1, <2>2, <2>3, TypeAfterShard DEF NearbyEvict
<1>4. CASE NearbyLoopEnd(t)
  <2>1. MissedFavs(scan[t].query, scan[t].results) \in SUBSET Users
    BY <1>4, QueryFields DEF NearbyLoopEnd, MissedFavs, TypeInv, LocalsOK
  <2>2. QED BY <1>4, <2>1 DEF NearbyLoopEnd, Goto, ScanState, TypeInv, TypeOK, LocalsOK, store, history
<1>5. CASE GetIndex(t)
  <2>1. PICK u \in scan[t].favs :
           /\ scan' = [scan EXCEPT ![t].favs = @ \ {u}]
           /\ IF user_index[u] = None
              THEN UNCHANGED <<pc, who, key>>
              ELSE /\ Goto(t, "get_arc")
                   /\ who' = [who EXCEPT ![t] = u]
                   /\ key' = [key EXCEPT ![t] = user_index[u]]
    BY <1>5 DEF GetIndex
  <2>2. u \in Users /\ scan' \in [Tasks -> ScanState] /\ scan'[t].query = scan[t].query
    BY <2>1 DEF TypeInv, TypeOK, ScanState
  <2>3. UNCHANGED <<shards, heap, user_index, suppression, now, ops, ent, sweep, disturbed, steady>>
        /\ pc[t] = "favs"
    BY <1>5 DEF GetIndex, store, history
  <2>4. QED BY <2>1, <2>2, <2>3 DEF Goto, TypeInv, TypeOK, LocalsOK
<1>6. CASE GetArc(t)
  <2>1. shards[key[t]] \in Arcs \cup {None}
    BY <1>6 DEF GetArc, TypeInv, TypeOK, LocalsOK
  <2>2. /\ scan' \in [Tasks -> ScanState] /\ scan'[t].query = scan[t].query
        /\ scan'[t].arc = shards[key[t]] /\ \A o \in Tasks \ {t} : scan'[o] = scan[o]
    BY <1>6, <2>1 DEF GetArc, TypeInv, TypeOK, ScanState
  <2>3. UNCHANGED <<shards, heap, user_index, suppression, now, ops, ent, sweep, disturbed, steady>>
        /\ pc[t] = "get_arc"
    BY <1>6 DEF GetArc, store, history
  <2>4. CASE shards[key[t]] = None
    <3>1. /\ pc' = [pc EXCEPT ![t] = "favs"]
          /\ who' = [who EXCEPT ![t] = None] /\ key' = [key EXCEPT ![t] = None]
      BY <1>6, <2>4 DEF GetArc, GetDone, Goto
    <3>2. QED BY <2>2, <2>3, <3>1 DEF TypeInv, TypeOK, LocalsOK
  <2>5. CASE shards[key[t]] # None
    <3>1. pc' = [pc EXCEPT ![t] = "get_read"] /\ who' = who /\ key' = key
      BY <1>6, <2>5 DEF GetArc, Goto
    <3>2. QED BY <2>1, <2>2, <2>3, <2>5, <3>1 DEF TypeInv, TypeOK, LocalsOK
  <2>6. QED BY <2>4, <2>5
<1>7. CASE GetRead(t)
  <2>1. /\ heap[scan[t].arc][who[t]] \in Entry \cup {None}
        /\ who[t] \in Users
    BY <1>7 DEF GetRead, TypeInv, TypeOK, LocalsOK
  <2>2. PICK more \in SUBSET Found :
           scan' = [scan EXCEPT ![t].arc = None, ![t].results = @ \cup more]
    <3> DEFINE e == heap[scan[t].arc][who[t]]
               hit == e # None /\ ~Stale(e, now) /\ InRadius(scan[t].query, e.pos)
    <3>1. CASE hit
      <4>1. scan' = [scan EXCEPT ![t].arc = None, ![t].results = @ \cup {Result(who[t], e)}]
        BY <1>7, <3>1 DEF GetRead
      <4>2. {Result(who[t], e)} \in SUBSET Found
        BY <2>1, <3>1 DEF Result, Found, Entry
      <4>3. QED BY <4>1, <4>2
    <3>2. CASE ~hit
      <4>1. scan' = [scan EXCEPT ![t].arc = None, ![t].results = @ \cup {}]
        BY <1>7, <3>2 DEF GetRead
      <4>2. QED BY <4>1
    <3>3. QED BY <3>1, <3>2
  <2>3. scan' \in [Tasks -> ScanState] /\ scan'[t].query = scan[t].query
    BY <2>2 DEF TypeInv, TypeOK, ScanState
  <2>4. QED BY <1>7, <2>3, <2>2 DEF GetRead, GetDone, Goto, TypeInv, TypeOK, LocalsOK, store, history
<1>8. CASE Finish(t)
  <2>1. PICK rs : rs \subseteq scan[t].results /\ scan' = [scan EXCEPT ![t].results = rs]
    BY <1>8 DEF Finish, Reserve, Take
  <2>2. scan' \in [Tasks -> ScanState] /\ scan'[t].query = scan[t].query
    BY <2>1 DEF TypeInv, TypeOK, ScanState
  <2>3. QED BY <1>8, <2>1, <2>2 DEF Finish, Goto, TypeInv, TypeOK, LocalsOK, store, history
<1>9. CASE Respond(t)
  BY <1>9 DEF Respond, NoScan, ScanState, Goto, TypeInv, TypeOK, LocalsOK, store
<1>10. QED
  BY <1>1, <1>2, <1>3, <1>4, <1>5, <1>6, <1>7, <1>8, <1>9 DEF Query

LEMMA TypeSweep ==
  ASSUME TypeInv, Sweep
  PROVE  TypeInv'
<1> Sweeper \in Procs /\ Sweeper \notin Tasks
  BY DEF Procs
<1> USE DEF TypeInv, TypeOK, LocalsOK, SweepState, Goto, store, history
<1>1. CASE SweepCall
  BY <1>1 DEF SweepCall, NoSweep, Mapped
<1>2. CASE SweepCollect
  <2> DEFINE old(k) == {u \in Users : heap[shards[k]][u] # None
                                        /\ Stale(heap[shards[k]][u], sweep.start)}
  <2>1. PICK k \in sweep.todo :
           sweep' = [sweep EXCEPT !.todo = @ \ {k}, !.stale = @ \cup (old(k) \X {k})]
    BY <1>2 DEF SweepCollect
  <2>2. old(k) \subseteq Users
    OBVIOUS
  <2> HIDE DEF old
  <2>3. old(k) \X {k} \subseteq Users \X Keys
    BY <2>2
  <2>4. sweep' \in SweepState
    BY <2>1, <2>3
  <2>5. QED BY <1>2, <2>4 DEF SweepCollect
<1>3. CASE SweepRemove
  <2>1. PICK uk \in sweep.stale : sweep' = [sweep EXCEPT !.stale = @ \ {uk}]
                                  /\ RemoveLookup(Sweeper, uk[1])
    BY <1>3 DEF SweepRemove
  <2>2. uk[1] \in Users /\ sweep' \in SweepState /\ ops' \in Nat
    BY <1>3, <2>1 DEF SweepRemove
  <2>3. UNCHANGED <<store, now, ent, scan, steady>>
    BY <1>3 DEF SweepRemove
  <2> HIDE DEF TypeInv, TypeOK, LocalsOK
  <2>4. QED BY <2>1, <2>2, <2>3, TypeRemoveLookup
<1>4. CASE Remove(Sweeper)
  BY <1>4, TypeRemove
<1>5. CASE SweepEmpties
  BY <1>5 DEF SweepEmpties, NoSweep, Mapped
<1>6. CASE SweepFindEmpty
  <2>1. PICK k \in sweep.todo :
           sweep' = [sweep EXCEPT !.todo = @ \ {k},
                                  !.empty = IF heap[shards[k]] = NoShard THEN @ \cup {k} ELSE @]
    BY <1>6 DEF SweepFindEmpty
  <2>2. (IF heap[shards[k]] = NoShard THEN sweep.empty \cup {k} ELSE sweep.empty) \in SUBSET Keys
    OBVIOUS
  <2>3. PICK e \in SUBSET Keys : sweep' = [sweep EXCEPT !.todo = @ \ {k}, !.empty = e]
    BY <2>1, <2>2
  <2>4. sweep' \in SweepState
    BY <2>3
  <2>5. QED BY <1>6, <2>4 DEF SweepFindEmpty
<1>7. CASE SweepDrop
  BY <1>7, ObserveType DEF SweepDrop, NoSweep
<1>8. QED BY <1>1, <1>2, <1>3, <1>4, <1>5, <1>6, <1>7 DEF Sweep

LEMMA TypeNext == TypeInv /\ [Next]_vars => TypeInv'
<1> SUFFICES ASSUME TypeInv, [Next]_vars
             PROVE  TypeInv'
  OBVIOUS
<1>1. ASSUME NEW t \in Tasks, Start(t) \/ Handler(t)
      PROVE  TypeInv'
  BY <1>1, TypeStart, TypeUpsert, TypeRemove, TypeQuery DEF Handler
<1>2. ASSUME NEW t \in Tasks, Cancel(t)
      PROVE  TypeInv'
  BY <1>2 DEF Cancel, Return, Goto, store, TypeInv, TypeOK, LocalsOK
<1>3. CASE Sweep
  BY <1>3, TypeSweep
<1>4. CASE Tick
  <2>1. steady' \in [Tasks -> SUBSET Users]
    BY <1>4, ObserveType DEF Tick, TypeInv
  <2>2. QED BY <1>4, <2>1 DEF Tick, store, locals, TypeInv, TypeOK, LocalsOK
<1>5. CASE UNCHANGED vars
  BY <1>5 DEF vars, TypeInv, TypeOK, LocalsOK
<1>6. QED BY <1>1, <1>2, <1>3, <1>4, <1>5 DEF Next

\* The store's maps and the locals of every call keep their types, and no call
\* gets to a place where it reads a local it has not set.
THEOREM TypeCorrect == Spec => []TypeOK
<1>1. Spec => []TypeInv
  BY TypeInit, TypeNext, PTL DEF Spec
<1>2. TypeInv => TypeOK
  BY DEF TypeInv
<1>3. QED BY <1>1, <1>2, PTL

----------------------------------------------------------------------------
(* What a step does to the entries that can be reached through the map *)

\* What is held of u at cell k after the step was held there before it.
Keeps(k, u) ==
  shards'[k] # None /\ heap'[shards'[k]][u] # None =>
    shards[k] # None /\ heap[shards[k]][u] = heap'[shards'[k]][u]

StoreShrinks == \A k \in Keys, u \in Users : Keeps(k, u)

StoreAdds(n, w, e) ==
  /\ \A k \in Keys, u \in Users : Keeps(k, u) \/ (k = n /\ u = w)
  /\ shards'[n] # None /\ heap'[shards'[n]][w] = e

LEMMA EraseShrinks ==
  ASSUME TypeOK, NEW a \in Arcs, NEW gone, Erase(a, gone), shards' = shards
  PROVE  StoreShrinks /\ \A u \in Users \cap gone : heap'[a][u] = None
<1>1. \A b \in Arcs, u \in Users : heap'[b][u] = IF b = a /\ u \in gone THEN None ELSE heap[b][u]
  BY DEF TypeOK, Erase
<1>2. QED BY <1>1 DEF TypeOK, StoreShrinks, Keeps

\* The step that upsert takes at the old key and remove at the indexed one.
LEMMA EraseUser ==
  ASSUME TypeOK, ArcsDistinct, NEW k \in Keys, NEW u \in Users, shards' = shards,
         IF shards[k] # None THEN Erase(shards[k], {u}) ELSE UNCHANGED heap
  PROVE  ArcsDistinct' /\ StoreShrinks /\ k \notin Copies(u)'
<1>1. CASE shards[k] = None
  BY <1>1 DEF ArcsDistinct, StoreShrinks, Keeps, Copies, CopiesIn
<1>2. CASE shards[k] # None
  <2>1. shards[k] \in Arcs /\ Erase(shards[k], {u})
    BY <1>2 DEF TypeOK
  <2>2. StoreShrinks /\ heap'[shards[k]][u] = None
    BY <2>1, EraseShrinks
  <2>3. QED BY <2>2 DEF ArcsDistinct, Copies, CopiesIn
<1>3. QED BY <1>1, <1>2

LEMMA PutAdds ==
  ASSUME TypeOK, ArcsDistinct, NEW n \in Keys, shards[n] # None, NEW w \in Users, NEW e,
         Put(shards[n], w, e), shards' = shards
  PROVE  StoreAdds(n, w, e) /\ ArcsDistinct'
<1>1. \A b \in Arcs, u \in Users : heap'[b][u] = IF b = shards[n] /\ u = w THEN e ELSE heap[b][u]
  BY DEF TypeOK, Put
<1>2. QED BY <1>1 DEF TypeOK, StoreAdds, Keeps, ArcsDistinct

LEMMA InsertAdds ==
  ASSUME TypeInv, ArcsDistinct, NEW t \in Tasks, UpsertInsert(t), shards[NewKey(t)] # None
  PROVE  StoreAdds(NewKey(t), who[t], ent[t]) /\ ArcsDistinct'
<1>1. /\ NewKey(t) \in Keys /\ who[t] \in Users /\ shards' = shards
      /\ Put(shards[NewKey(t)], who[t], ent[t])
  BY NewKeyType DEF UpsertInsert, TypeInv, LocalsOK
<1>2. QED BY <1>1, PutAdds DEF TypeInv

LEMMA CreateAdds ==
  ASSUME TypeInv, ArcsDistinct, NEW t \in Tasks, UpsertCreate(t)
  PROVE  StoreAdds(NewKey(t), who[t], ent[t]) /\ ArcsDistinct'
<1>1. NewKey(t) \in Keys /\ who[t] \in Users
  BY NewKeyType DEF UpsertCreate, TypeInv, LocalsOK
<1>2. CASE shards[NewKey(t)] # None
  <2>1. Put(shards[NewKey(t)], who[t], ent[t]) /\ shards' = shards
    BY <1>2 DEF UpsertCreate
  <2>2. QED BY <1>1, <1>2, <2>1, PutAdds DEF TypeInv
<1>3. CASE shards[NewKey(t)] = None
  <2>1. PICK a \in FreeArcs : /\ shards' = [shards EXCEPT ![NewKey(t)] = a]
                              /\ heap' = [heap EXCEPT ![a] = [NoShard EXCEPT ![who[t]] = ent[t]]]
    BY <1>3 DEF UpsertCreate
  <2>2. a \in Arcs /\ a # None /\ \A k \in Keys : shards[k] # a
    BY DEF FreeArcs
  <2>3. \A u \in Users : heap'[a][u] = IF u = who[t] THEN ent[t] ELSE None
    BY <2>1, <2>2 DEF NoShard, TypeInv, TypeOK
  <2>4. \A b \in Arcs \ {a} : heap'[b] = heap[b]
    BY <2>1, <2>2 DEF TypeInv, TypeOK
  <2>5. \A k \in Keys : shards'[k] = IF k = NewKey(t) THEN a ELSE shards[k]
    BY <1>1, <2>1 DEF TypeInv, TypeOK
  <2>6. ArcsDistinct'
    BY <2>2, <2>5 DEF ArcsDistinct
  <2>7. \A k \in Keys : k # NewKey(t) /\ shards[k] # None => shards[k] \in Arcs \ {a}
    BY <2>2 DEF TypeInv, TypeOK
  <2>8. QED BY <1>1, <2>2, <2>3, <2>4, <2>5, <2>6, <2>7 DEF StoreAdds, Keeps
<1>4. QED BY <1>2, <1>3

\* Every other step only takes entries and shards away.
LEMMA SameStore ==
  ASSUME ArcsDistinct, UNCHANGED <<shards, heap>>
  PROVE  ArcsDistinct' /\ StoreShrinks
BY DEF ArcsDistinct, StoreShrinks, Keeps

LEMMA UnlinkErases ==
  ASSUME TypeInv, ArcsDistinct, NEW t \in Tasks, UpsertUnlink(t), NEW u, u = who[t]
  PROVE  ArcsDistinct' /\ StoreShrinks /\ key[t] \notin Copies(u)'
<1>1. key[t] \in Keys /\ u \in Users /\ shards' = shards
  BY DEF UpsertUnlink, TypeInv, LocalsOK
<1>2. IF shards[key[t]] # None THEN Erase(shards[key[t]], {u}) ELSE UNCHANGED heap
  BY DEF UpsertUnlink
<1>3. QED BY <1>1, <1>2, EraseUser DEF TypeInv

LEMMA RemoveErases ==
  ASSUME TypeInv, ArcsDistinct, NEW p \in Procs, RemoveShard(p), NEW u, u = who[p]
  PROVE  ArcsDistinct' /\ StoreShrinks /\ key[p] \notin Copies(u)'
<1>1. key[p] \in Keys /\ u \in Users /\ shards' = shards
  BY DEF RemoveShard, TypeInv, LocalsOK
<1>2. IF shards[key[p]] # None THEN Erase(shards[key[p]], {u}) ELSE UNCHANGED heap
  BY DEF RemoveShard
<1>3. QED BY <1>1, <1>2, EraseUser DEF TypeInv

LEMMA UpsertStore ==
  ASSUME TypeInv, ArcsDistinct, NEW t \in Tasks, Upsert(t)
  PROVE  /\ ArcsDistinct'
         /\ StoreShrinks \/ StoreAdds(NewKey(t), who[t], ent[t])
<1>1. CASE UpsertSkip(t) \/ UpsertCheck(t) \/ UpsertLookup(t) \/ UpsertIndex(t) \/ UpsertSuppress(t)
  BY <1>1, SameStore
     DEF UpsertSkip, UpsertCheck, UpsertLookup, UpsertIndex, UpsertSuppress, store
<1>2. CASE UpsertUnlink(t)
  BY <1>2, UnlinkErases
<1>3. CASE UpsertInsert(t)
  <2>1. CASE shards[NewKey(t)] = None
    BY <1>3, <2>1, SameStore DEF UpsertInsert
  <2>2. QED BY <1>3, <2>1, InsertAdds
<1>4. CASE UpsertCreate(t)
  BY <1>4, CreateAdds
<1>5. QED BY <1>1, <1>2, <1>3, <1>4 DEF Upsert

LEMMA RemoveStore ==
  ASSUME TypeInv, ArcsDistinct, NEW p \in Procs, Remove(p)
  PROVE  ArcsDistinct' /\ StoreShrinks
<1>1. CASE RemoveIndex(p) \/ RemoveSuppression(p)
  BY <1>1, SameStore DEF RemoveIndex, RemoveSuppression
<1>2. QED BY <1>1, RemoveErases DEF Remove

LEMMA QueryStore ==
  ASSUME TypeInv, ArcsDistinct, NEW t \in Tasks, Query(t)
  PROVE  ArcsDistinct' /\ StoreShrinks
<1>1. CASE NearbyPick(t) \/ NearbyScan(t) \/ NearbyLoopEnd(t) \/ GetIndex(t) \/ GetArc(t)
            \/ GetRead(t) \/ Finish(t) \/ Respond(t)
  BY <1>1, SameStore DEF NearbyPick, NearbyScan, NearbyLoopEnd, GetIndex, GetArc, GetRead, Finish,
                         Respond, store
<1>2. CASE NearbyEvict(t)
  <2>1. scan[t].arc \in Arcs /\ Erase(scan[t].arc, scan[t].stale) /\ shards' = shards
    BY <1>2 DEF NearbyEvict, TypeInv, LocalsOK
  <2>2. QED BY <2>1, EraseShrinks DEF TypeInv, ArcsDistinct
<1>3. QED BY <1>1, <1>2 DEF Query

LEMMA StartStore ==
  ASSUME ArcsDistinct, NEW t \in Tasks, Start(t) \/ Cancel(t)
  PROVE  ArcsDistinct' /\ StoreShrinks
BY SameStore DEF Start, UpsertCall, RemoveCall, NearbyCall, GetUserCall, StartQuery, Cancel, store

LEMMA SweepStore ==
  ASSUME TypeInv, ArcsDistinct, Sweep
  PROVE  ArcsDistinct' /\ StoreShrinks
<1>1. CASE SweepCall \/ SweepCollect \/ SweepRemove \/ SweepEmpties \/ SweepFindEmpty
  BY <1>1, SameStore DEF SweepCall, SweepCollect, SweepRemove, SweepEmpties, SweepFindEmpty, store
<1>2. CASE SweepDrop
  <2>1. heap' = heap /\ \A k \in Keys : shards'[k] = IF k \in sweep.empty THEN None ELSE shards[k]
    BY <1>2 DEF SweepDrop
  <2>2. QED BY <2>1 DEF ArcsDistinct, StoreShrinks, Keeps
<1>3. QED BY <1>1, <1>2, RemoveStore DEF Sweep, Procs

LEMMA StoreSteps ==
  ASSUME TypeInv, ArcsDistinct, [Next]_vars
  PROVE  /\ ArcsDistinct'
         /\ StoreShrinks \/ \E t \in Tasks : StoreAdds(NewKey(t), who[t], ent[t])
<1>1. CASE Tick \/ UNCHANGED vars
  BY <1>1, SameStore DEF Tick, store, vars
<1>2. ASSUME NEW t \in Tasks, Handler(t)
      PROVE  ArcsDistinct' /\ (StoreShrinks \/ StoreAdds(NewKey(t), who[t], ent[t]))
  BY <1>2, UpsertStore, RemoveStore, QueryStore DEF Handler, Procs
<1>3. QED BY <1>1, <1>2, StartStore, SweepStore DEF Next

----------------------------------------------------------------------------
(* Placement *)

PlaceInv == TypeInv /\ ArcsDistinct /\ Placement

LEMMA PlaceInit == Init => PlaceInv
BY TypeInit DEF Init, PlaceInv, ArcsDistinct, Placement

LEMMA PlaceNext == PlaceInv /\ [Next]_vars => PlaceInv'
<1> SUFFICES ASSUME PlaceInv, [Next]_vars
             PROVE  PlaceInv'
  OBVIOUS
<1>1. TypeInv' /\ ArcsDistinct'
  BY TypeNext, StoreSteps DEF PlaceInv
<1>2. ASSUME StoreShrinks
      PROVE  Placement'
  BY <1>2 DEF PlaceInv, Placement, StoreShrinks, Keeps
<1>3. ASSUME NEW t \in Tasks, StoreAdds(NewKey(t), who[t], ent[t])
      PROVE  Placement'
  <2> SUFFICES ASSUME NEW k \in Keys, NEW u \in Users, shards'[k] # None, heap'[shards'[k]][u] # None
               PROVE  shard_for_coords(heap'[shards'[k]][u].pos) = k
    BY DEF Placement
  <2>1. CASE Keeps(k, u)
    BY <2>1 DEF Keeps, PlaceInv, Placement
  <2>2. CASE k = NewKey(t) /\ u = who[t]
    BY <1>3, <2>2 DEF StoreAdds, NewKey
  <2>3. QED BY <1>3, <2>1, <2>2 DEF StoreAdds
<1>4. Placement'
  BY <1>2, <1>3, StoreSteps DEF PlaceInv
<1>5. QED BY <1>1, <1>4 DEF PlaceInv

\* However upserts, evictions, sweeps and cancelled calls interleave, an entry is
\* only ever in the shard of its own position.
THEOREM PlacementHolds == Spec => []Placement
<1>1. Spec => []PlaceInv
  BY PlaceInit, PlaceNext, PTL DEF Spec
<1>2. PlaceInv => Placement
  BY DEF PlaceInv
<1>3. QED BY <1>1, <1>2, PTL

----------------------------------------------------------------------------
(* One home *)

OthersKeep(p) ==
  \A o \in Procs \ {p} : /\ pc'[o] = pc[o] /\ who'[o] = who[o] /\ key'[o] = key[o]
                         /\ o \in Tasks => ent'[o] = ent[o]

LEMMA CopiesShrink ==
  ASSUME StoreShrinks, NEW u \in Users
  PROVE  Copies(u)' \subseteq Copies(u)
BY DEF StoreShrinks, Keeps, Copies, CopiesIn

LEMMA CopiesAdd ==
  ASSUME NEW n, NEW w, NEW e, StoreAdds(n, w, e), NEW u \in Users
  PROVE  Copies(u)' \subseteq Copies(u) \cup (IF u = w THEN {n} ELSE {})
BY DEF StoreAdds, Keeps, Copies, CopiesIn

\* A step of p that neither is nor becomes a write of u leaves u's home alone.
LEMMA HomeFrame ==
  ASSUME TypeInv, NEW u \in Users, Home(u), NEW p \in Procs, OthersKeep(p),
         ~Writing(p, u), ~Writing(p, u)',
         Copies(u)' \subseteq Copies(u), user_index'[u] = user_index[u]
  PROVE  Home(u)'
<1>1. \A o \in Procs : Writing(o, u)' <=> Writing(o, u)
  BY DEF OthersKeep, Writing
<1>2. NoWriter(u)' <=> NoWriter(u)
  BY <1>1 DEF NoWriter
<1>3. ASSUME NEW o \in Procs, Writing(o, u)'
      PROVE  WriterView(o, u)'
  <2>1. /\ o # p /\ pc'[o] = pc[o] /\ key'[o] = key[o]
        /\ o \in Tasks => NewKey(o)' = NewKey(o)
    BY <1>3 DEF OthersKeep, NewKey
  <2>2. pc[o] \in {"insert", "create", "index", "suppress"} => o \in Tasks
    BY DEF TypeInv, TypeOK
  <2>3. WriterView(o, u)
    BY <1>1, <1>3 DEF Home
  <2>4. QED BY <2>1, <2>2, <2>3 DEF WriterView
<1>4. QED BY <1>1, <1>2, <1>3 DEF Home

\* A step of p, which is the only one that may be writing u.
LEMMA HomeOwn ==
  ASSUME TypeInv, NEW u \in Users, NEW p \in Procs, OthersKeep(p),
         \A o \in Procs \ {p} : ~Writing(o, u),
         Writing(p, u)' => WriterView(p, u)',
         ~Writing(p, u)' => Copies(u)' \subseteq {user_index'[u]}
  PROVE  Home(u)'
<1>1. \A o \in Procs \ {p} : ~Writing(o, u)'
  BY DEF OthersKeep, Writing
<1>2. QED BY <1>1 DEF Home, NoWriter

\* The same for the user a step of upsert or remove is not about.
LEMMA HomeOther ==
  ASSUME TypeInv, ArcsDistinct, NEW u \in Users, Home(u), NEW p \in Procs, OthersKeep(p),
         Remove(p) \/ (p \in Tasks /\ Upsert(p)), who[p] # u
  PROVE  Home(u)'
<1>1. who'[p] \in {who[p], None} /\ user_index'[u] = user_index[u]
  BY DEF Remove, RemoveShard, RemoveIndex, RemoveSuppression, Upsert, UpsertSkip, UpsertCheck,
         UpsertLookup, UpsertUnlink, UpsertInsert, UpsertCreate, UpsertIndex, UpsertSuppress,
         Return, Goto, store, TypeInv, TypeOK
<1>2. ~Writing(p, u) /\ ~Writing(p, u)'
  BY <1>1 DEF Writing
<1>3. Copies(u)' \subseteq Copies(u)
  BY UpsertStore, RemoveStore, CopiesShrink, CopiesAdd
<1>4. QED BY <1>1, <1>2, <1>3, HomeFrame

LEMMA HomeUpsert ==
  ASSUME TypeInv, ArcsDistinct, NEW t \in Tasks, Upsert(t),
         NEW u \in Users, Home(u), u \notin disturbed'
  PROVE  Home(u)'
<1> t \in Procs
  BY DEF Procs
<1> OthersKeep(t)
  BY DEF OthersKeep, Upsert, UpsertSkip, UpsertCheck, UpsertLookup, UpsertUnlink, UpsertInsert,
         UpsertCreate, UpsertIndex, UpsertSuppress, Return, Goto, TypeInv, TypeOK
<1>1. CASE who[t] # u
  BY <1>1, HomeOther
<1>2. CASE who[t] = u
  <2> USE <1>2 DEF TypeInv, TypeOK, Goto, Return
  <2>1. CASE UpsertSkip(t)
    <3>1. ~Writing(t, u) /\ ~Writing(t, u)' /\ UNCHANGED <<shards, heap, user_index>>
      BY <2>1 DEF UpsertSkip, Writing, store
    <3>2. Copies(u)' = Copies(u)
      BY <3>1 DEF Copies, CopiesIn
    <3>3. QED BY <3>1, <3>2, HomeFrame
  <2>2. CASE UpsertCheck(t)
    <3>1. /\ UNCHANGED <<shards, heap, user_index>> /\ ~Writing(t, u)
          /\ \A o \in Procs \ {t} : ~Writing(o, u)
          /\ pc'[t] = "lookup"
      BY <2>2 DEF UpsertCheck, Overlap, Writing, store
    <3>2. Copies(u)' = Copies(u) /\ Copies(u) \subseteq {user_index[u]}
      BY <3>1 DEF Home, NoWriter, Copies, CopiesIn
    <3>3. QED BY <3>1, <3>2, HomeOwn DEF WriterView, Writing
  <2>3. pc[t] # "check" => /\ Writing(t, u) /\ WriterView(t, u)
                           /\ \A o \in Procs \ {t} : ~Writing(o, u)
    BY DEF Home, Writing, Upsert, UpsertSkip, UpsertCheck, UpsertLookup, UpsertUnlink, UpsertInsert,
           UpsertCreate, UpsertIndex, UpsertSuppress
  <2>4. CASE UpsertLookup(t)
    <3>1. /\ UNCHANGED <<shards, heap, user_index>> /\ pc[t] = "lookup"
          /\ key'[t] = user_index[u] /\ NewKey(t)' = NewKey(t)
          /\ pc'[t] = IF user_index[u] # None /\ user_index[u] # NewKey(t) THEN "unlink" ELSE "insert"
      BY <2>4 DEF UpsertLookup, NewKey, store
    <3>2. Copies(u)' = Copies(u) /\ Copies(u) \subseteq {user_index[u]} /\ None \notin Copies(u)
      BY <2>3, <3>1 DEF WriterView, Copies, CopiesIn
    <3>3. WriterView(t, u)'
      BY <3>1, <3>2 DEF WriterView
    <3>4. QED BY <2>3, <2>4, <3>1, <3>3, HomeOwn DEF Writing, UpsertLookup
  <2>5. CASE UpsertUnlink(t)
    <3>1. /\ pc[t] = "unlink" /\ pc'[t] = "insert" /\ who'[t] = u
      BY <2>5 DEF UpsertUnlink
    <3>2. Copies(u)' = {}
      <4>1. Copies(u)' \subseteq Copies(u) /\ key[t] \notin Copies(u)'
        BY <2>5, UnlinkErases, CopiesShrink
      <4>2. QED BY <2>3, <3>1, <4>1 DEF WriterView
    <3>3. QED BY <2>3, <3>1, <3>2, HomeOwn DEF WriterView, Writing
  <2>6. CASE UpsertInsert(t) \/ UpsertCreate(t)
    <3>1. /\ pc[t] \in {"insert", "create"} /\ pc'[t] \in {"create", "index"}
          /\ who'[t] = u /\ NewKey(t)' = NewKey(t)
      BY <2>6 DEF UpsertInsert, UpsertCreate, NewKey
    <3>2. Copies(u)' \subseteq Copies(u) \cup {NewKey(t)}
      BY <2>6, UpsertStore, CopiesShrink, CopiesAdd
    <3>3. QED BY <2>3, <3>1, <3>2, HomeOwn DEF WriterView, Writing
  <2>7. CASE UpsertIndex(t)
    <3>1. /\ pc[t] = "index" /\ pc'[t] = "suppress" /\ who'[t] = u /\ NewKey(t)' = NewKey(t)
          /\ UNCHANGED <<shards, heap>> /\ user_index'[u] = NewKey(t)
      BY <2>7 DEF UpsertIndex, NewKey
    <3>2. Copies(u)' = Copies(u)
      BY <3>1 DEF Copies, CopiesIn
    <3>3. QED BY <2>3, <3>1, <3>2, HomeOwn DEF WriterView, Writing
  <2>8. CASE UpsertSuppress(t)
    <3>1. /\ pc[t] = "suppress" /\ pc'[t] = "idle" /\ UNCHANGED <<shards, heap, user_index>>
      BY <2>8 DEF UpsertSuppress
    <3>2. Copies(u)' = Copies(u)
      BY <3>1 DEF Copies, CopiesIn
    <3>3. QED BY <2>3, <3>1, <3>2, HomeOwn DEF WriterView, Writing
  <2>9. QED BY <2>1, <2>2, <2>4, <2>5, <2>6, <2>7, <2>8 DEF Upsert
<1>3. QED BY <1>1, <1>2

LEMMA HomeRemove ==
  ASSUME TypeInv, ArcsDistinct, NEW p \in Procs, Remove(p), NEW u \in Users, Home(u)
  PROVE  Home(u)'
<1> OthersKeep(p)
  BY DEF OthersKeep, Remove, RemoveShard, RemoveIndex, RemoveSuppression, Return, Goto, TypeInv, TypeOK
<1>1. CASE who[p] # u
  BY <1>1, HomeOther
<1>2. CASE who[p] = u
  <2> USE <1>2 DEF TypeInv, TypeOK, Goto, Return
  <2>1. Writing(p, u) /\ WriterView(p, u) /\ \A o \in Procs \ {p} : ~Writing(o, u)
    BY DEF Home, Writing, Remove, RemoveShard, RemoveIndex, RemoveSuppression
  <2>2. CASE RemoveShard(p)
    <3>1. pc[p] = "rm_shard" /\ pc'[p] = "rm_index" /\ who'[p] = u
      BY <2>2 DEF RemoveShard
    <3>2. Copies(u)' \subseteq Copies(u) /\ key[p] \notin Copies(u)'
      BY <2>2, RemoveErases, CopiesShrink
    <3>3. Copies(u)' = {}
      BY <2>1, <3>1, <3>2 DEF WriterView
    <3>4. QED BY <2>1, <3>1, <3>3, HomeOwn DEF WriterView, Writing
  <2>3. CASE RemoveIndex(p)
    <3>1. pc[p] = "rm_index" /\ pc'[p] = "rm_supp" /\ who'[p] = u /\ UNCHANGED <<shards, heap>>
      BY <2>3 DEF RemoveIndex
    <3>2. Copies(u)' = {}
      BY <2>1, <3>1 DEF WriterView, Copies, CopiesIn
    <3>3. QED BY <2>1, <3>1, <3>2, HomeOwn DEF WriterView, Writing
  <2>4. CASE RemoveSuppression(p)
    <3>1. pc[p] = "rm_supp" /\ pc'[p] \in {"reap", "idle"} /\ UNCHANGED <<shards, heap>>
      BY <2>4 DEF RemoveSuppression
    <3>2. Copies(u)' = {}
      BY <2>1, <3>1 DEF WriterView, Copies, CopiesIn
    <3>3. QED BY <2>1, <3>1, <3>2, HomeOwn DEF Writing
  <2>5. QED BY <2>2, <2>3, <2>4 DEF Remove
<1>3. QED BY <1>1, <1>2

\* A handler or the sweeper begins to remove w.
LEMMA HomeLookup ==
  ASSUME TypeInv, NEW p \in Procs, pc[p] \in {"idle", "reap"}, NEW w \in Users, RemoveLookup(p, w),
         UNCHANGED <<shards, heap, user_index, ent>>, NEW u \in Users, Home(u), u \notin disturbed'
  PROVE  Home(u)'
<1> USE DEF TypeInv, TypeOK, Goto
<1>1. Copies(u)' = Copies(u) /\ ~Writing(p, u)
  BY DEF Copies, CopiesIn, Writing
<1>2. CASE user_index[w] = None
  <2>1. UNCHANGED <<pc, who, key>>
    BY <1>2 DEF RemoveLookup
  <2>2. OthersKeep(p) /\ ~Writing(p, u)'
    BY <1>1, <2>1 DEF OthersKeep, Writing
  <2>3. QED BY <1>1, <2>2, HomeFrame
<1>3. CASE user_index[w] # None
  <2>1. /\ pc' = [pc EXCEPT ![p] = "rm_shard"] /\ who' = [who EXCEPT ![p] = w]
        /\ key' = [key EXCEPT ![p] = user_index[w]] /\ Overlap(p, w)
    BY <1>3 DEF RemoveLookup
  <2>2. OthersKeep(p)
    BY <2>1 DEF OthersKeep
  <2>3. CASE w # u
    <3>1. ~Writing(p, u)'
      BY <2>1, <2>3 DEF Writing
    <3>2. QED BY <1>1, <2>2, <3>1, HomeFrame
  <2>4. CASE w = u
    <3>1. \A o \in Procs \ {p} : ~Writing(o, u)
      BY <2>1, <2>4 DEF Overlap
    <3>2. Copies(u) \subseteq {user_index[u]}
      BY <1>1, <3>1 DEF Home, NoWriter
    <3>3. pc'[p] = "rm_shard" /\ who'[p] = u /\ key'[p] = user_index'[u]
      BY <2>1, <2>4
    <3>4. QED BY <1>1, <2>2, <3>1, <3>2, <3>3, HomeOwn DEF WriterView, Writing
  <2>5. QED BY <2>3, <2>4
<1>4. QED BY <1>2, <1>3

\* A step of a process that writes nobody, or stops writing somebody else than u.
LEMMA HomePassive ==
  ASSUME TypeInv, NEW p \in Procs, OthersKeep(p), NEW u \in Users, Home(u),
         pc[p] \in WriterPCs => who[p] # u, pc'[p] \notin WriterPCs,
         StoreShrinks, user_index' = user_index
  PROVE  Home(u)'
<1>1. ~Writing(p, u) /\ ~Writing(p, u)'
  BY DEF Writing
<1>2. QED BY <1>1, CopiesShrink, HomeFrame

\* A query writes nobody and records nothing.
LEMMA QueryPassive ==
  ASSUME TypeInv, NEW t \in Tasks, Query(t)
  PROVE  /\ t \in Procs /\ OthersKeep(t) /\ UNCHANGED <<user_index, suppression>>
         /\ pc[t] \notin WriterPCs /\ pc'[t] \notin WriterPCs \cup {"check"}
<1> USE DEF OthersKeep, Goto, store, TypeInv, TypeOK
<1>1. CASE NearbyPick(t)
  BY <1>1 DEF NearbyPick
<1>2. CASE NearbyScan(t) \/ NearbyEvict(t)
  <2>1. UNCHANGED <<who, key, ent, user_index, suppression>> /\ pc[t] \in {"scan", "evict"}
    BY <1>2 DEF NearbyScan, NearbyEvict
  <2>2. PICK to \in {"evict", "favs", "pick"} : pc' = [pc EXCEPT ![t] = to]
    BY <1>2 DEF NearbyScan, NearbyEvict, AfterShard
  <2>3. QED BY <2>1, <2>2
<1>3. CASE NearbyLoopEnd(t) \/ Finish(t) \/ Respond(t)
  BY <1>3 DEF NearbyLoopEnd, Finish, Respond
<1>4. CASE GetIndex(t)
  BY <1>4 DEF GetIndex
<1>5. CASE GetArc(t) \/ GetRead(t)
  BY <1>5 DEF GetArc, GetRead, GetDone
<1>6. QED BY <1>1, <1>2, <1>3, <1>4, <1>5 DEF Query

LEMMA HomeQuery ==
  ASSUME TypeInv, ArcsDistinct, NEW t \in Tasks, Query(t), NEW u \in Users, Home(u)
  PROVE  Home(u)'
BY QueryStore, QueryPassive, HomePassive

\* Neither does a call that does not begin to remove, or a call cut short.
LEMMA StartPassive ==
  ASSUME TypeInv, NEW t \in Tasks,
         \/ \E w \in Movers, p \in Points : UpsertCall(t, w, p)
         \/ \E q \in Queries : NearbyCall(t, q)
         \/ \E w \in Lookups : GetUserCall(t, w)
         \/ Cancel(t)
  PROVE  /\ OthersKeep(t) /\ UNCHANGED <<user_index, suppression>> /\ pc'[t] \notin WriterPCs
         /\ pc[t] \in WriterPCs => who[t] \in disturbed'
<1> DEFINE Passive == /\ OthersKeep(t) /\ UNCHANGED <<user_index, suppression>>
                      /\ pc'[t] \notin WriterPCs /\ pc[t] = "idle"
<1> USE DEF OthersKeep, Goto, store, TypeInv, TypeOK
<1>1. ASSUME NEW w \in Movers, NEW p \in Points, UpsertCall(t, w, p)
      PROVE  Passive
  BY <1>1 DEF UpsertCall
<1>2. ASSUME NEW q, NEW at \in {"pick", "favs"}, NEW todo, NEW favs, StartQuery(t, q, at, todo, favs)
      PROVE  Passive
  BY <1>2 DEF StartQuery
<1>3. CASE Cancel(t)
  BY <1>3 DEF Cancel, Return
<1> HIDE DEF OthersKeep, TypeInv, TypeOK
<1>4. ASSUME NEW q \in Queries, NearbyCall(t, q)
      PROVE  Passive
  BY <1>2, <1>4 DEF NearbyCall
<1>5. ASSUME NEW w \in Lookups, GetUserCall(t, w)
      PROVE  Passive
  BY <1>2, <1>5 DEF GetUserCall
<1>6. QED BY <1>1, <1>3, <1>4, <1>5

LEMMA HomeStart ==
  ASSUME TypeInv, ArcsDistinct, NEW t \in Tasks, Start(t) \/ Cancel(t),
         NEW u \in Users, Home(u), u \notin disturbed'
  PROVE  Home(u)'
<1> t \in Procs
  BY DEF Procs
<1>1. ASSUME NEW w \in Movers, RemoveCall(t, w)
      PROVE  Home(u)'
  BY <1>1, HomeLookup DEF RemoveCall, store
<1>2. ASSUME \/ \E w \in Movers, p \in Points : UpsertCall(t, w, p)
             \/ \E q \in Queries : NearbyCall(t, q)
             \/ \E w \in Lookups : GetUserCall(t, w)
             \/ Cancel(t)
      PROVE  Home(u)'
  BY <1>2, StartStore, StartPassive, HomePassive
<1>3. QED BY <1>1, <1>2 DEF Start

LEMMA SweepPassive ==
  ASSUME TypeInv, SweepCall \/ SweepCollect \/ SweepEmpties \/ SweepFindEmpty \/ SweepDrop
  PROVE  /\ OthersKeep(Sweeper) /\ UNCHANGED <<user_index, suppression>>
         /\ pc'[Sweeper] \notin WriterPCs /\ pc[Sweeper] \notin WriterPCs
BY DEF SweepCall, SweepCollect, SweepEmpties, SweepFindEmpty, SweepDrop, OthersKeep, Goto,
       store, TypeInv, TypeOK

LEMMA HomeSweep ==
  ASSUME TypeInv, ArcsDistinct, Sweep, NEW u \in Users, Home(u), u \notin disturbed'
  PROVE  Home(u)'
<1> Sweeper \in Procs
  BY DEF Procs
<1>1. CASE SweepRemove
  <2>1. PICK uk \in sweep.stale : RemoveLookup(Sweeper, uk[1])
    BY <1>1 DEF SweepRemove
  <2>2. uk[1] \in Users
    BY DEF TypeInv, TypeOK, SweepState
  <2>3. QED BY <1>1, <2>1, <2>2, HomeLookup DEF SweepRemove, store
<1>2. CASE SweepCall \/ SweepCollect \/ SweepEmpties \/ SweepFindEmpty \/ SweepDrop
  BY <1>2, SweepStore, SweepPassive, HomePassive
<1>3. QED BY <1>1, <1>2, HomeRemove DEF Sweep

IInv == TypeInv /\ ArcsDistinct /\ HomeInv

LEMMA HomeInit == Init => IInv
BY TypeInit DEF Init, Quiet, IInv, ArcsDistinct, HomeInv, Home, NoWriter, Writing, Copies, CopiesIn

\* Once disturbed, always disturbed.
LEMMA DisturbedGrows ==
  ASSUME [Next]_vars
  PROVE  disturbed \subseteq disturbed'
BY DEF Next, Start, UpsertCall, RemoveCall, RemoveLookup, NearbyCall, GetUserCall, StartQuery,
       Handler, Upsert, UpsertSkip, UpsertCheck, UpsertLookup, UpsertUnlink, UpsertInsert,
       UpsertCreate, UpsertIndex, UpsertSuppress, Remove, RemoveShard, RemoveIndex,
       RemoveSuppression, Query, NearbyPick, NearbyScan, NearbyEvict, NearbyLoopEnd, GetIndex,
       GetArc, GetRead, Finish, Respond, Cancel, Sweep, SweepCall, SweepCollect, SweepRemove,
       SweepEmpties, SweepFindEmpty, SweepDrop, Tick, Overlap, history, vars

LEMMA HomeNext == IInv /\ [Next]_vars => IInv'
<1> SUFFICES ASSUME IInv, [Next]_vars
             PROVE  IInv'
  OBVIOUS
<1>1. TypeInv' /\ ArcsDistinct'
  BY TypeNext, StoreSteps DEF IInv
<1>2. disturbed \subseteq disturbed'
  BY DisturbedGrows
<1>3. ASSUME NEW u \in Users \ disturbed'
      PROVE  Home(u)'
  <2>1. Home(u) /\ u \in Users /\ u \notin disturbed' /\ TypeInv /\ ArcsDistinct
    BY <1>2, <1>3 DEF IInv, HomeInv
  <2>2. ASSUME NEW t \in Tasks, Start(t) \/ Handler(t) \/ Cancel(t)
        PROVE  Home(u)'
    BY <2>1, <2>2, HomeStart, HomeUpsert, HomeRemove, HomeQuery DEF Handler, Procs
  <2>3. CASE Sweep
    BY <2>1, <2>3, HomeSweep
  <2>4. CASE Tick \/ UNCHANGED vars
    BY <2>1, <2>4 DEF Tick, store, locals, vars, Home, NoWriter, Writing, WriterView, NewKey,
                      Copies, CopiesIn
  <2>5. QED BY <2>2, <2>3, <2>4 DEF Next
<1>4. QED BY <1>1, <1>3 DEF IInv, HomeInv

\* A user whose writes never overlapped and were never cut short is in at most one
\* shard, and between two writes in no shard but the one the index names.
THEOREM OneHomeHolds == Spec => []OneHome
<1>1. Spec => []IInv
  BY HomeInit, HomeNext, PTL DEF Spec
<1>2. IInv => OneHome
  <2> SUFFICES ASSUME IInv, NEW u \in Users \ disturbed
               PROVE  /\ \A k, l \in Copies(u) : k = l
                      /\ NoWriter(u) => Copies(u) \subseteq {user_index[u]}
    BY DEF OneHome
  <2>1. Home(u)
    BY DEF IInv, HomeInv
  <2>2. CASE NoWriter(u)
    BY <2>1, <2>2 DEF Home
  <2>3. ASSUME NEW p \in Procs, Writing(p, u)
        PROVE  \A k, l \in Copies(u) : k = l
    BY <2>1, <2>3 DEF Home, Writing, WriterView
  <2>4. QED BY <2>2, <2>3 DEF NoWriter
<1>3. QED BY <1>1, <1>2, PTL

----------------------------------------------------------------------------
(* What suppresses a write *)

Tracks(u) ==
  /\ \A e \in Held(u) : /\ suppression[u] # None
                        /\ suppression[u].pos = e.pos
                        /\ suppression[u].at >= e.at
  /\ user_index[u] = None => suppression[u] = None

\* Between two writes the record agrees with the entry; the writer of u that has
\* stored its entry is about to record that very entry.
Recorded(u) ==
  /\ NoWriter(u) => Tracks(u)
  /\ \A p \in Procs : Writing(p, u) /\ pc[p] \in {"index", "suppress"} => Held(u) \subseteq {ent[p]}

\* An entry was stamped before it is stored.
Stamped == \A t \in Tasks : pc[t] \in UpsertPCs => ent[t].at <= now

SuppInv == IInv /\ Stamped /\ \A u \in Users \ disturbed : Recorded(u)

LEMMA HeldShrinks ==
  ASSUME StoreShrinks, NEW u \in Users
  PROVE  Held(u)' \subseteq Held(u)
<1>1. Copies(u)' \subseteq Copies(u)
  BY CopiesShrink
<1>2. \A k \in Copies(u)' : heap'[shards'[k]][u] = heap[shards[k]][u]
  BY DEF StoreShrinks, Keeps, Copies, CopiesIn
<1>3. Held(u)' = {heap'[shards'[k]][u] : k \in Copies(u)'}
  BY DEF Held, HeldIn, Copies
<1>4. Held(u) = {heap[shards[k]][u] : k \in Copies(u)}
  BY DEF Held, HeldIn, Copies
<1>5. QED BY <1>1, <1>2, <1>3, <1>4

\* The entry a write stores is all that is held of the user whose home it stays in.
LEMMA HeldAdds ==
  ASSUME NEW n, NEW u \in Users, NEW e, StoreAdds(n, u, e), Copies(u) \subseteq {n}
  PROVE  Held(u)' \subseteq {e}
<1>1. Copies(u)' \subseteq {n}
  BY CopiesAdd
<1>2. Held(u)' = {heap'[shards'[k]][u] : k \in Copies(u)'}
  BY DEF Held, HeldIn, Copies
<1>3. heap'[shards'[n]][u] = e
  BY DEF StoreAdds
<1>4. QED BY <1>1, <1>2, <1>3

LEMMA HeldOther ==
  ASSUME NEW n, NEW w, NEW e, StoreAdds(n, w, e), NEW u \in Users, u # w
  PROVE  Held(u)' \subseteq Held(u)
<1>1. \A k \in Copies(u)' : k \in Copies(u) /\ heap'[shards'[k]][u] = heap[shards[k]][u]
  BY DEF StoreAdds, Keeps, Copies, CopiesIn
<1>2. Held(u)' = {heap'[shards'[k]][u] : k \in Copies(u)'}
  BY DEF Held, HeldIn, Copies
<1>3. Held(u) = {heap[shards[k]][u] : k \in Copies(u)}
  BY DEF Held, HeldIn, Copies
<1>4. QED BY <1>1, <1>2, <1>3

\* A step of p that neither is nor becomes a write of u leaves u's record right.
LEMMA RecordFrame ==
  ASSUME TypeInv, NEW u \in Users, Recorded(u), NEW p \in Procs, OthersKeep(p),
         ~Writing(p, u), ~Writing(p, u)', Held(u)' \subseteq Held(u),
         user_index'[u] = user_index[u], suppression'[u] = suppression[u]
  PROVE  Recorded(u)'
<1>1. \A o \in Procs : Writing(o, u)' <=> Writing(o, u)
  BY DEF OthersKeep, Writing
<1>2. NoWriter(u)' => Tracks(u)'
  BY <1>1 DEF Recorded, NoWriter, Tracks
<1>3. ASSUME NEW o \in Procs, Writing(o, u)', pc'[o] \in {"index", "suppress"}
      PROVE  Held(u)' \subseteq {ent'[o]}
  <2>1. o # p /\ pc'[o] = pc[o]
    BY <1>3 DEF OthersKeep
  <2>2. o \in Tasks
    BY <1>3, <2>1 DEF TypeInv, TypeOK
  <2>3. QED BY <1>1, <1>3, <2>1, <2>2 DEF OthersKeep, Recorded
<1>4. QED BY <1>2, <1>3 DEF Recorded

\* A step of p, which is the only one that may be writing u.
LEMMA RecordOwn ==
  ASSUME NEW u \in Users, NEW p \in Procs, OthersKeep(p),
         \A o \in Procs \ {p} : ~Writing(o, u),
         ~Writing(p, u)' => Tracks(u)',
         pc'[p] \in {"index", "suppress"} => Held(u)' \subseteq {ent'[p]}
  PROVE  Recorded(u)'
<1>1. \A o \in Procs \ {p} : ~Writing(o, u)'
  BY DEF OthersKeep, Writing
<1>2. QED BY <1>1 DEF Recorded, NoWriter

\* The same for the user a step of upsert or remove is not about.
LEMMA RecordOther ==
  ASSUME TypeInv, ArcsDistinct, NEW u \in Users, Recorded(u), NEW p \in Procs, OthersKeep(p),
         Remove(p) \/ (p \in Tasks /\ Upsert(p)), who[p] # u
  PROVE  Recorded(u)'
<1>1. /\ who'[p] \in {who[p], None}
      /\ user_index'[u] = user_index[u] /\ suppression'[u] = suppression[u]
  BY DEF Remove, RemoveShard, RemoveIndex, RemoveSuppression, Upsert, UpsertSkip, UpsertCheck,
         UpsertLookup, UpsertUnlink, UpsertInsert, UpsertCreate, UpsertIndex, UpsertSuppress,
         Return, Goto, store, TypeInv, TypeOK
<1>2. ~Writing(p, u) /\ ~Writing(p, u)'
  BY <1>1 DEF Writing
<1>3. Held(u)' \subseteq Held(u)
  BY UpsertStore, RemoveStore, HeldShrinks, HeldOther
<1>4. QED BY <1>1, <1>2, <1>3, RecordFrame

LEMMA RecordUpsert ==
  ASSUME TypeInv, ArcsDistinct, Stamped, NEW t \in Tasks, Upsert(t),
         NEW u \in Users, Home(u), Recorded(u), u \notin disturbed'
  PROVE  Recorded(u)'
<1> t \in Procs
  BY DEF Procs
<1> OthersKeep(t)
  BY DEF OthersKeep, Upsert, UpsertSkip, UpsertCheck, UpsertLookup, UpsertUnlink, UpsertInsert,
         UpsertCreate, UpsertIndex, UpsertSuppress, Return, Goto, TypeInv, TypeOK
<1>1. CASE who[t] # u
  BY <1>1, RecordOther
<1>2. CASE who[t] = u
  <2> USE <1>2 DEF TypeInv, TypeOK, Goto, Return
  <2>1. CASE UpsertSkip(t)
    <3>1. ~Writing(t, u) /\ ~Writing(t, u)' /\ UNCHANGED <<shards, heap, user_index, suppression>>
      BY <2>1 DEF UpsertSkip, Writing, store
    <3>2. Held(u)' = Held(u)
      BY <3>1 DEF Held, HeldIn, CopiesIn
    <3>3. QED BY <3>1, <3>2, RecordFrame
  <2>2. CASE UpsertCheck(t)
    <3>1. /\ pc'[t] = "lookup" /\ who'[t] = u
          /\ \A o \in Procs \ {t} : ~Writing(o, u)
      BY <2>2 DEF UpsertCheck, Overlap, store
    <3>2. QED BY <3>1, RecordOwn DEF Writing
  <2>3. pc[t] # "check" => /\ Writing(t, u) /\ WriterView(t, u)
                           /\ \A o \in Procs \ {t} : ~Writing(o, u)
    BY DEF Home, Writing, Upsert, UpsertSkip, UpsertCheck, UpsertLookup, UpsertUnlink, UpsertInsert,
           UpsertCreate, UpsertIndex, UpsertSuppress
  <2>4. CASE UpsertLookup(t) \/ UpsertUnlink(t)
    <3>1. pc[t] # "check" /\ pc'[t] \in {"unlink", "insert"} /\ who'[t] = u
      BY <2>4 DEF UpsertLookup, UpsertUnlink
    <3>2. QED BY <2>3, <3>1, RecordOwn DEF Writing
  <2>5. CASE UpsertInsert(t) \/ UpsertCreate(t)
    <3>1. /\ pc[t] \in {"insert", "create"} /\ pc'[t] \in {"create", "index"}
          /\ who'[t] = u /\ ent'[t] = ent[t]
      BY <2>5 DEF UpsertInsert, UpsertCreate
    <3>2. Copies(u) \subseteq {NewKey(t)}
      BY <2>3, <3>1 DEF WriterView
    <3>3. pc'[t] = "index" => StoreAdds(NewKey(t), u, ent[t])
      <4>1. CASE UpsertInsert(t)
        <5>1. pc'[t] = "index" => shards[NewKey(t)] # None
          BY <4>1 DEF UpsertInsert
        <5>2. QED BY <4>1, <5>1, InsertAdds
      <4>2. CASE UpsertCreate(t)
        BY <4>2, CreateAdds
      <4>3. QED BY <2>5, <4>1, <4>2
    <3>4. pc'[t] = "index" => Held(u)' \subseteq {ent'[t]}
      BY <3>1, <3>2, <3>3, HeldAdds
    <3>5. QED BY <2>3, <3>1, <3>4, RecordOwn DEF Writing
  <2>6. CASE UpsertIndex(t)
    <3>1. /\ pc[t] = "index" /\ pc'[t] = "suppress" /\ who'[t] = u /\ ent'[t] = ent[t]
          /\ UNCHANGED <<shards, heap>>
      BY <2>6 DEF UpsertIndex
    <3>2. Held(u)' = Held(u)
      BY <3>1 DEF Held, HeldIn, CopiesIn
    <3>3. Held(u) \subseteq {ent[t]}
      BY <2>3, <3>1 DEF Recorded
    <3>4. QED BY <2>3, <3>1, <3>2, <3>3, RecordOwn DEF Writing
  <2>7. CASE UpsertSuppress(t)
    <3>1. /\ pc[t] = "suppress" /\ pc'[t] = "idle" /\ UNCHANGED <<shards, heap, user_index>>
          /\ suppression'[u] = [pos |-> ent[t].pos, at |-> now]
      BY <2>7 DEF UpsertSuppress
    <3>2. Held(u)' = Held(u)
      BY <3>1 DEF Held, HeldIn, CopiesIn
    <3>3. Held(u) \subseteq {ent[t]} /\ ent[t].at <= now
      BY <2>3, <3>1 DEF Recorded, Stamped
    <3>4. user_index'[u] # None
      BY <2>3, <3>1, NewKeyType DEF WriterView
    <3>5. suppression'[u] # None
      BY <3>1 DEF LocalsOK, Entry
    <3>6. ent[t].at \in Nat /\ now \in Nat
      BY <3>1 DEF LocalsOK, Entry
    <3>7. Tracks(u)'
      BY <3>1, <3>2, <3>3, <3>4, <3>5, <3>6 DEF Tracks
    <3>8. QED BY <2>3, <3>1, <3>7, RecordOwn
  <2>8. QED BY <2>1, <2>2, <2>4, <2>5, <2>6, <2>7 DEF Upsert
<1>3. QED BY <1>1, <1>2

LEMMA RecordRemove ==
  ASSUME TypeInv, ArcsDistinct, NEW p \in Procs, Remove(p), NEW u \in Users, Home(u), Recorded(u)
  PROVE  Recorded(u)'
<1> OthersKeep(p)
  BY DEF OthersKeep, Remove, RemoveShard, RemoveIndex, RemoveSuppression, Return, Goto, TypeInv, TypeOK
<1>1. CASE who[p] # u
  BY <1>1, RecordOther
<1>2. CASE who[p] = u
  <2> USE <1>2 DEF TypeInv, TypeOK, Goto, Return
  <2>1. WriterView(p, u) /\ \A o \in Procs \ {p} : ~Writing(o, u)
    BY DEF Home, Writing, Remove, RemoveShard, RemoveIndex, RemoveSuppression
  <2>2. CASE RemoveShard(p) \/ RemoveIndex(p)
    <3>1. pc'[p] \in {"rm_index", "rm_supp"} /\ who'[p] = u
      BY <2>2 DEF RemoveShard, RemoveIndex
    <3>2. QED BY <2>1, <3>1, RecordOwn DEF Writing
  <2>3. CASE RemoveSuppression(p)
    <3>1. /\ pc[p] = "rm_supp" /\ pc'[p] \in {"reap", "idle"} /\ UNCHANGED <<shards, heap>>
          /\ suppression'[u] = None
      BY <2>3 DEF RemoveSuppression
    <3>2. Held(u)' = {}
      BY <2>1, <3>1 DEF WriterView, Held, HeldIn, Copies, CopiesIn
    <3>3. QED BY <2>1, <3>1, <3>2, RecordOwn DEF Tracks
  <2>4. QED BY <2>2, <2>3 DEF Remove
<1>3. QED BY <1>1, <1>2

\* A handler or the sweeper begins to remove w.
LEMMA RecordLookup ==
  ASSUME TypeInv, NEW p \in Procs, pc[p] \in {"idle", "reap"}, NEW w \in Users, RemoveLookup(p, w),
         UNCHANGED <<shards, heap, user_index, suppression, ent>>,
         NEW u \in Users, Recorded(u), u \notin disturbed'
  PROVE  Recorded(u)'
<1> USE DEF TypeInv, TypeOK, Goto
<1>1. Held(u)' = Held(u) /\ ~Writing(p, u)
  BY DEF Held, HeldIn, CopiesIn, Writing
<1>2. OthersKeep(p)
  BY DEF RemoveLookup, OthersKeep
<1>3. CASE user_index[w] = None \/ w # u
  <2>1. ~Writing(p, u)'
    BY <1>3 DEF RemoveLookup, Writing
  <2>2. QED BY <1>1, <1>2, <2>1, RecordFrame
<1>4. CASE user_index[w] # None /\ w = u
  <2>1. \A o \in Procs \ {p} : ~Writing(o, u)
    BY <1>4 DEF RemoveLookup, Overlap
  <2>2. pc'[p] = "rm_shard" /\ who'[p] = u
    BY <1>4 DEF RemoveLookup
  <2>3. QED BY <1>2, <2>1, <2>2, RecordOwn DEF Writing
<1>5. QED BY <1>3, <1>4

\* A step of a process that writes nobody, or stops writing somebody else than u.
LEMMA RecordPassive ==
  ASSUME TypeInv, NEW p \in Procs, OthersKeep(p), NEW u \in Users, Recorded(u),
         pc[p] \in WriterPCs => who[p] # u, pc'[p] \notin WriterPCs,
         StoreShrinks, user_index' = user_index, suppression' = suppression
  PROVE  Recorded(u)'
<1>1. ~Writing(p, u) /\ ~Writing(p, u)'
  BY DEF Writing
<1>2. QED BY <1>1, HeldShrinks, RecordFrame

LEMMA RecordStart ==
  ASSUME TypeInv, ArcsDistinct, NEW t \in Tasks, Start(t) \/ Cancel(t),
         NEW u \in Users, Recorded(u), u \notin disturbed'
  PROVE  Recorded(u)'
<1> t \in Procs
  BY DEF Procs
<1>1. ASSUME NEW w \in Movers, RemoveCall(t, w)
      PROVE  Recorded(u)'
  BY <1>1, RecordLookup DEF RemoveCall, store
<1>2. ASSUME \/ \E w \in Movers, p \in Points : UpsertCall(t, w, p)
             \/ \E q \in Queries : NearbyCall(t, q)
             \/ \E w \in Lookups : GetUserCall(t, w)
             \/ Cancel(t)
      PROVE  Recorded(u)'
  BY <1>2, StartStore, StartPassive, RecordPassive
<1>3. QED BY <1>1, <1>2 DEF Start

LEMMA RecordSweep ==
  ASSUME TypeInv, ArcsDistinct, Sweep, NEW u \in Users, Home(u), Recorded(u), u \notin disturbed'
  PROVE  Recorded(u)'
<1> Sweeper \in Procs
  BY DEF Procs
<1>1. CASE SweepRemove
  <2>1. PICK uk \in sweep.stale : RemoveLookup(Sweeper, uk[1])
    BY <1>1 DEF SweepRemove
  <2>2. uk[1] \in Users
    BY DEF TypeInv, TypeOK, SweepState
  <2>3. QED BY <1>1, <2>1, <2>2, RecordLookup DEF SweepRemove, store
<1>2. CASE SweepCall \/ SweepCollect \/ SweepEmpties \/ SweepFindEmpty \/ SweepDrop
  BY <1>2, SweepStore, SweepPassive, RecordPassive
<1>3. QED BY <1>1, <1>2, RecordRemove DEF Sweep

\* Time does not run backwards, and only UpsertCall makes an entry.
LEMMA StampedNext ==
  ASSUME TypeInv, TypeInv', Stamped, [Next]_vars
  PROVE  Stamped'
<1> SUFFICES ASSUME NEW o \in Tasks, pc'[o] \in UpsertPCs
             PROVE  ent'[o].at <= now'
  BY DEF Stamped
<1>0. now \in Nat /\ now' \in Nat /\ (pc[o] \in UpsertPCs => ent[o] \in Entry /\ ent[o].at <= now)
  BY DEF TypeInv, TypeOK, LocalsOK, Stamped
<1>1. ASSUME pc[o] \in UpsertPCs, ent'[o] = ent[o], now' >= now
      PROVE  ent'[o].at <= now'
  BY <1>0, <1>1 DEF Entry
<1>2. ASSUME NEW p \in Procs, OthersKeep(p), p # o, now' = now
      PROVE  ent'[o].at <= now'
  BY <1>1, <1>2, <1>0 DEF OthersKeep
<1>3. ASSUME NEW p \in Procs, Remove(p)
      PROVE  ent'[o].at <= now'
  <2>1. OthersKeep(p) /\ p # o /\ now' = now
    BY <1>3 DEF OthersKeep, Remove, RemoveShard, RemoveIndex, RemoveSuppression, Return, Goto,
                TypeInv, TypeOK
  <2>2. QED BY <1>2, <1>3, <2>1
<1>4. ASSUME NEW p \in Procs, NEW w, RemoveLookup(p, w), ent' = ent, now' = now
      PROVE  ent'[o].at <= now'
  <2>1. pc[o] \in UpsertPCs
    BY <1>4 DEF RemoveLookup, Goto, TypeInv, TypeOK
  <2>2. QED BY <1>0, <1>1, <1>4, <2>1
<1>5. CASE Sweep
  <2>1. CASE SweepRemove
    <3>1. PICK w : RemoveLookup(Sweeper, w)
      BY <2>1 DEF SweepRemove
    <3>2. QED BY <1>4, <2>1, <3>1 DEF SweepRemove, Procs
  <2>2. CASE SweepCall \/ SweepCollect \/ SweepEmpties \/ SweepFindEmpty \/ SweepDrop
    <3>1. now' = now
      BY <2>2 DEF SweepCall, SweepCollect, SweepEmpties, SweepFindEmpty, SweepDrop
    <3>2. QED BY <1>2, <2>2, <3>1, SweepPassive
  <2>3. QED BY <1>3, <1>5, <2>1, <2>2 DEF Sweep
<1>6. CASE Tick \/ UNCHANGED vars
  BY <1>0, <1>1, <1>6 DEF Tick, locals, vars
<1>7. ASSUME NEW t \in Tasks, Upsert(t) \/ Cancel(t)
      PROVE  ent'[o].at <= now'
  <2>1. OthersKeep(t) /\ now' = now
    BY <1>7 DEF OthersKeep, Upsert, UpsertSkip, UpsertCheck, UpsertLookup, UpsertUnlink, UpsertInsert,
                UpsertCreate, UpsertIndex, UpsertSuppress, Cancel, Return, Goto, TypeInv, TypeOK
  <2>2. CASE t = o
    <3>1. pc[o] \in UpsertPCs /\ ent'[o] = ent[o]
      BY <1>7, <2>2 DEF Upsert, UpsertSkip, UpsertCheck, UpsertLookup, UpsertUnlink, UpsertInsert,
           UpsertCreate, UpsertIndex, UpsertSuppress, Cancel, Return, Goto, TypeInv, TypeOK
    <3>2. QED BY <1>0, <1>1, <2>1, <3>1
  <2>3. QED BY <1>2, <2>1, <2>2
<1>8. ASSUME NEW t \in Tasks, Query(t)
      PROVE  ent'[o].at <= now'
  <2>1. UNCHANGED <<ent, now>>
    BY <1>8 DEF Query, NearbyPick, NearbyScan, NearbyEvict, NearbyLoopEnd, GetIndex, GetArc, GetRead,
                Finish, Respond
  <2>2. t # o
    BY <1>8, QueryPassive
  <2>3. QED BY <1>2, <1>8, <2>1, <2>2, QueryPassive
<1>9. ASSUME NEW t \in Tasks, Start(t)
      PROVE  ent'[o].at <= now'
  <2>1. ASSUME NEW w \in Movers, NEW p \in Points, UpsertCall(t, w, p)
        PROVE  ent'[o].at <= now'
    <3>1. CASE t = o
      BY <1>0, <2>1, <3>1 DEF UpsertCall, TypeInv, TypeOK
    <3>2. CASE t # o
      <4>1. pc'[o] = pc[o] /\ ent'[o] = ent[o] /\ now' = now
        BY <2>1, <3>2 DEF UpsertCall, Goto, TypeInv, TypeOK
      <4>2. QED BY <1>0, <1>1, <4>1
    <3>3. QED BY <3>1, <3>2
  <2>2. ASSUME NEW w \in Movers, RemoveCall(t, w)
        PROVE  ent'[o].at <= now'
    BY <1>4, <2>2 DEF RemoveCall
  <2>3. ASSUME NEW q, NEW at \in {"pick", "favs"}, NEW todo, NEW favs, StartQuery(t, q, at, todo, favs)
        PROVE  ent'[o].at <= now'
    <3>1. pc[o] \in UpsertPCs /\ ent' = ent /\ now' = now
      BY <2>3 DEF StartQuery, Goto, TypeInv, TypeOK
    <3>2. QED BY <1>0, <1>1, <3>1
  <2>4. QED BY <1>9, <2>1, <2>2, <2>3 DEF Start, NearbyCall, GetUserCall
<1>10. QED BY <1>3, <1>5, <1>6, <1>7, <1>8, <1>9 DEF Next, Handler, Procs

LEMMA SuppInit == Init => SuppInv
<1> SUFFICES ASSUME Init
             PROVE  SuppInv
  OBVIOUS
<1>1. IInv
  BY HomeInit
<1>2. Stamped
  BY DEF Init, Quiet, Stamped
<1>3. \A u \in Users : Held(u) = {}
  BY DEF Init, Held, HeldIn, CopiesIn
<1>4. \A p \in Procs : pc[p] = "idle"
  BY DEF Init, Quiet
<1>5. QED BY <1>1, <1>2, <1>3, <1>4 DEF Init, SuppInv, Recorded, Tracks

LEMMA SuppNext == SuppInv /\ [Next]_vars => SuppInv'
<1> SUFFICES ASSUME SuppInv, [Next]_vars
             PROVE  SuppInv'
  OBVIOUS
<1>1. IInv' /\ TypeInv /\ TypeInv' /\ ArcsDistinct
  BY HomeNext DEF SuppInv, IInv
<1>2. Stamped'
  BY <1>1, StampedNext DEF SuppInv
<1>3. ASSUME NEW u \in Users \ disturbed'
      PROVE  Recorded(u)'
  <2>1. u \in Users /\ u \notin disturbed' /\ Home(u) /\ Recorded(u) /\ Stamped
    BY <1>3, DisturbedGrows DEF SuppInv, IInv, HomeInv
  <2>2. ASSUME NEW t \in Tasks, Start(t) \/ Cancel(t)
        PROVE  Recorded(u)'
    BY <1>1, <2>1, <2>2, RecordStart
  <2>3. ASSUME NEW t \in Tasks, Handler(t)
        PROVE  Recorded(u)'
    <3>1. CASE Upsert(t)
      BY <1>1, <2>1, <3>1, RecordUpsert
    <3>2. CASE Remove(t)
      BY <1>1, <2>1, <3>2, RecordRemove DEF Procs
    <3>3. CASE Query(t)
      BY <1>1, <2>1, <3>3, QueryStore, QueryPassive, RecordPassive
    <3>4. QED BY <2>3, <3>1, <3>2, <3>3 DEF Handler
  <2>4. CASE Sweep
    BY <1>1, <2>1, <2>4, RecordSweep
  <2>5. CASE Tick \/ UNCHANGED vars
    <3>1. UNCHANGED <<shards, heap, user_index, suppression, pc, who, ent>>
      BY <2>5 DEF Tick, store, locals, vars
    <3>2. QED BY <2>1, <3>1 DEF Recorded, NoWriter, Writing, Tracks, Held, HeldIn, CopiesIn
  <2>6. QED BY <2>2, <2>3, <2>4, <2>5 DEF Next
<1>4. QED BY <1>1, <1>2, <1>3 DEF SuppInv

\* A user whose writes never overlapped and were never cut short is only held back
\* by the position others see, and not at all once removed: the record of the last
\* write agrees with the entry, whatever sweep and nearby evicted meanwhile.
THEOREM SuppressionHolds == Spec => []SuppressionTracks
<1>1. Spec => []SuppInv
  BY SuppInit, SuppNext, PTL DEF Spec
<1>2. SuppInv => SuppressionTracks
  BY DEF SuppInv, Recorded, Tracks, SuppressionTracks
<1>3. QED BY <1>1, <1>2, PTL

=============================================================================
