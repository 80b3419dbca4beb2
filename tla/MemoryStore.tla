---------------------------- MODULE MemoryStore ----------------------------
(***************************************************************************)
(* The in-memory sharded location store of location-service.               *)
(*                                                                         *)
(* HTTP handlers (Tasks) call upsert, remove, get_user and nearby, and a   *)
(* background task (Sweeper) calls sweep; all of them run concurrently.    *)
(* Each of the store's three maps has a lock of its own that is taken and  *)
(* released several times inside one call, so an action is one critical    *)
(* section: what the code does between two awaits of a lock.               *)
(*                                                                         *)
(* shards maps a cell to the Arc of its shard and heap holds the shards    *)
(* behind the Arcs: nearby and get_user keep a cloned Arc after they let   *)
(* go of the map, so a shard may be read and changed after sweep dropped   *)
(* it.  An Arc nobody refers to is free and may be allocated again.        *)
(*                                                                         *)
(* disturbed and steady are history variables: they are read by the        *)
(* properties and never by a guard.                                        *)
(***************************************************************************)
EXTENDS ShardGrid, FiniteSets

CONSTANTS
  Users, Points, Arcs,
  Movers,             \* the users whose clients push and delete locations
  Tasks, Sweeper,     \* request handlers, and the background sweep task
  Queries, Lookups,   \* the nearby queries asked for, and the users looked up
  None,
  TTL, UpdateInterval, UpdateDistance,
  MaxTime, MaxOps     \* bounds of the model: the clock, and the calls handlers make

Procs == Tasks \cup {Sweeper}
Keys  == {shard_for_coords(p) : p \in Points}
Entry == [pos : Points, at : Nat]
Found == [user : Users, pos : Points, at : Nat]

\* A call of get_user on its own has no centre, no radius and nobody to exclude.
GetQuery(u) == [pos |-> None, radius |-> 0, limit |-> 0, excl |-> {}, favs |-> {u}]
AllQueries  == Queries \cup {GetQuery(u) : u \in Lookups}

ASSUME StoreAssumption ==
  /\ Sweeper \notin Tasks /\ Lookups \subseteq Users /\ Movers \subseteq Users
  /\ None \notin Users /\ None \notin Points /\ None \notin Arcs
  /\ None \notin Keys /\ None \notin Entry /\ None \notin AllQueries
  /\ {TTL, UpdateInterval, UpdateDistance, MaxTime, MaxOps} \subseteq Nat
  /\ \A q \in Queries : /\ q.pos \in Points
                        /\ {q.radius, q.limit} \subseteq Nat
                        /\ q.excl \subseteq Users /\ q.favs \subseteq Users

ASSUME UsersAssumption == IsFiniteSet(Users)

VARIABLES
  shards,        \* cell -> Arc of its shard, or None
  heap,          \* Arc -> user -> entry, or None
  user_index,    \* user -> cell, or None
  suppression,   \* user -> position and time of the last write, or None
  now,           \* the clock
  ops,           \* calls made so far (bound)
  pc, who, ent, key,   \* each task's place, user, entry and looked-up cell
  scan,          \* each handler's query state
  sweep,         \* the sweeper's state
  disturbed,     \* users with two overlapping writers, or a writer dropped midway
  steady         \* per query, the users it saw unchanged from start to end

store   == <<shards, heap, user_index, suppression>>
locals  == <<pc, who, ent, key, scan, sweep>>
history == <<disturbed, steady>>
vars    == <<shards, heap, user_index, suppression, now, ops,
             pc, who, ent, key, scan, sweep, disturbed, steady>>

NoScan  == [query |-> None, start |-> 0, todo |-> {}, arc |-> None,
            stale |-> {}, favs |-> {}, results |-> {}]
NoSweep == [start |-> 0, todo |-> {}, stale |-> {}, empty |-> {}]
NoShard == [u \in Users |-> None]

\* No call is under way.
Quiet ==
  /\ ops = 0
  /\ pc = [p \in Procs |-> "idle"]
  /\ who = [p \in Procs |-> None]
  /\ ent = [t \in Tasks |-> None]
  /\ key = [p \in Procs |-> None]
  /\ scan = [t \in Tasks |-> NoScan]
  /\ sweep = NoSweep
  /\ disturbed = {}
  /\ steady = [t \in Tasks |-> {}]

Init ==
  /\ shards = [k \in Keys |-> None]
  /\ heap = [a \in Arcs |-> NoShard]
  /\ user_index = [u \in Users |-> None]
  /\ suppression = [u \in Users |-> None]
  /\ now = 0
  /\ Quiet

----------------------------------------------------------------------------
Stale(e, time) == time - e.at > TTL

\* The cells whose shard, reachable through the map, holds an entry of u.
CopiesIn(map, mem, u) == {k \in Keys : map[k] # None /\ mem[map[k]][u] # None}
HeldIn(map, mem, u)   == {mem[map[k]][u] : k \in CopiesIn(map, mem, u)}
Copies(u) == CopiesIn(shards, heap, u)
Held(u)   == HeldIn(shards, heap, u)

\* The critical sections in which a call changes what the store holds of a user.
WriterPCs == {"lookup", "unlink", "insert", "create", "index", "suppress",
              "rm_shard", "rm_index", "rm_supp"}
Writing(p, u) == pc[p] \in WriterPCs /\ who[p] = u

\* History: p becomes a writer of u, perhaps beside another one.
Overlap(p, u) ==
  disturbed' = IF \E o \in Procs \ {p} : Writing(o, u) THEN disturbed \cup {u} ELSE disturbed

\* History: after this step, the users each query has still seen unchanged and live.
Observe ==
  steady' = [t \in Tasks |->
              {u \in steady[t] : /\ HeldIn(shards', heap', u) = Held(u)
                                 /\ user_index'[u] = user_index[u]
                                 /\ \E e \in Held(u) : ~Stale(e, now')}]

Goto(p, to) == pc' = [pc EXCEPT ![p] = to]

\* A call returns: a handler is done, the sweeper goes on to its next stale user.
Return(p) ==
  /\ Goto(p, IF p = Sweeper THEN "reap" ELSE "idle")
  /\ who' = [who EXCEPT ![p] = None]
  /\ key' = [key EXCEPT ![p] = None]
  /\ ent' = IF p = Sweeper THEN ent ELSE [ent EXCEPT ![p] = None]

Call == ops < MaxOps /\ ops' = ops + 1

Put(a, u, e)   == heap' = [heap EXCEPT ![a] = [@ EXCEPT ![u] = e]]
Erase(a, gone) == heap' = [heap EXCEPT ![a] = [u \in Users |-> IF u \in gone THEN None ELSE @[u]]]

----------------------------------------------------------------------------
(* upsert *)

\* put_location stamps the entry before it calls upsert.
UpsertCall(t, u, p) ==
  /\ pc[t] = "idle" /\ Call
  /\ Goto(t, "check")
  /\ who' = [who EXCEPT ![t] = u]
  /\ ent' = [ent EXCEPT ![t] = [pos |-> p, at |-> now]]
  /\ UNCHANGED <<store, now, key, scan, sweep, history>>

Suppressed(u, p) ==
  /\ suppression[u] # None
  /\ ~(haversine_distance(suppression[u].pos, p) >= Metres(UpdateDistance))
  /\ now - suppression[u].at < UpdateInterval

UpsertSkip(t) ==
  /\ pc[t] = "check" /\ Suppressed(who[t], ent[t].pos)
  /\ Return(t)
  /\ UNCHANGED <<store, now, ops, scan, sweep, history>>

UpsertCheck(t) ==
  /\ pc[t] = "check" /\ ~Suppressed(who[t], ent[t].pos)
  /\ Goto(t, "lookup")
  /\ Overlap(t, who[t])
  /\ UNCHANGED <<store, now, ops, who, ent, key, scan, sweep, steady>>

\* Fault: the entry is stored under the user's old key.
NewKeyOld(t) == IF key[t] # None THEN key[t] ELSE shard_for_coords(ent[t].pos)

NewKey(t) == shard_for_coords(ent[t].pos)

\* Fault: the old shard is not cleaned when the user moves on.
UpsertLookupKeep(t) ==
  /\ pc[t] = "lookup"
  /\ key' = [key EXCEPT ![t] = user_index[who[t]]]
  /\ Goto(t, "insert")
  /\ UNCHANGED <<store, now, ops, who, ent, scan, sweep, history>>

UpsertLookup(t) ==
  LET old_key == user_index[who[t]]
  IN  /\ pc[t] = "lookup"
      /\ key' = [key EXCEPT ![t] = old_key]
      /\ Goto(t, IF old_key # None /\ old_key # NewKey(t) THEN "unlink" ELSE "insert")
      /\ UNCHANGED <<store, now, ops, who, ent, scan, sweep, history>>

UpsertUnlink(t) ==
  LET a == shards[key[t]]
  IN  /\ pc[t] = "unlink"
      /\ IF a # None THEN Erase(a, {who[t]}) ELSE UNCHANGED heap
      /\ Goto(t, "insert")
      /\ UNCHANGED <<shards, user_index, suppression, now, ops, who, ent, key, scan, sweep, disturbed>>
      /\ Observe

UpsertInsert(t) ==
  LET a == shards[NewKey(t)]
  IN  /\ pc[t] = "insert"
      /\ IF a # None
         THEN Put(a, who[t], ent[t]) /\ Goto(t, "index")
         ELSE UNCHANGED heap /\ Goto(t, "create")
      /\ UNCHANGED <<shards, user_index, suppression, now, ops, who, ent, key, scan, sweep, disturbed>>
      /\ Observe

\* sweep holds the map's read lock across the awaits of these two scans.
SweepHoldsMap == pc[Sweeper] \in {"collect", "find_empty"}

FreeArcs == {a \in Arcs : /\ \A k \in Keys : shards[k] # a
                          /\ \A t \in Tasks : scan[t].arc # a}

\* The map's write lock: entry(new_key).or_insert_with(..), then the insert.
UpsertCreate(t) ==
  LET k == NewKey(t)
  IN  /\ pc[t] = "create" /\ ~SweepHoldsMap
      /\ \/ /\ shards[k] # None
            /\ Put(shards[k], who[t], ent[t])
            /\ UNCHANGED shards
         \/ /\ shards[k] = None
            /\ \E a \in FreeArcs :
                 /\ shards' = [shards EXCEPT ![k] = a]
                 /\ heap' = [heap EXCEPT ![a] = [NoShard EXCEPT ![who[t]] = ent[t]]]
      /\ Goto(t, "index")
      /\ UNCHANGED <<user_index, suppression, now, ops, who, ent, key, scan, sweep, disturbed>>
      /\ Observe

UpsertIndex(t) ==
  /\ pc[t] = "index"
  /\ user_index' = [user_index EXCEPT ![who[t]] = NewKey(t)]
  /\ Goto(t, "suppress")
  /\ UNCHANGED <<shards, heap, suppression, now, ops, who, ent, key, scan, sweep, disturbed>>
  /\ Observe

\* Fault: the write is recorded one interval back, to let the next one through.
UpsertSuppressBack(t) ==
  /\ pc[t] = "suppress"
  /\ suppression' = [suppression EXCEPT ![who[t]] =
                       [pos |-> ent[t].pos, at |-> now - UpdateInterval]]
  /\ Return(t)
  /\ UNCHANGED <<shards, heap, user_index, now, ops, scan, sweep, history>>

UpsertSuppress(t) ==
  /\ pc[t] = "suppress"
  /\ suppression' = [suppression EXCEPT ![who[t]] = [pos |-> ent[t].pos, at |-> now]]
  /\ Return(t)
  /\ UNCHANGED <<shards, heap, user_index, now, ops, scan, sweep, history>>

----------------------------------------------------------------------------
(* remove, called by delete_location and by sweep *)

\* The first critical section of remove(u): no index entry, nothing to do.
RemoveLookup(p, u) ==
  IF user_index[u] = None
  THEN UNCHANGED <<pc, who, key, disturbed>>
  ELSE /\ Goto(p, "rm_shard")
       /\ who' = [who EXCEPT ![p] = u]
       /\ key' = [key EXCEPT ![p] = user_index[u]]
       /\ Overlap(p, u)

RemoveCall(t, u) ==
  /\ pc[t] = "idle" /\ Call
  /\ RemoveLookup(t, u)
  /\ UNCHANGED <<store, now, ent, scan, sweep, steady>>

\* Fault: the user is only taken out of the index.
RemoveShardSkip(p) ==
  /\ pc[p] = "rm_shard"
  /\ Goto(p, "rm_index")
  /\ UNCHANGED <<store, now, ops, who, ent, key, scan, sweep, history>>

RemoveShard(p) ==
  LET a == shards[key[p]]
  IN  /\ pc[p] = "rm_shard"
      /\ IF a # None THEN Erase(a, {who[p]}) ELSE UNCHANGED heap
      /\ Goto(p, "rm_index")
      /\ UNCHANGED <<shards, user_index, suppression, now, ops, who, ent, key, scan, sweep, disturbed>>
      /\ Observe

RemoveIndex(p) ==
  /\ pc[p] = "rm_index"
  /\ user_index' = [user_index EXCEPT ![who[p]] = None]
  /\ Goto(p, "rm_supp")
  /\ UNCHANGED <<shards, heap, suppression, now, ops, who, ent, key, scan, sweep, disturbed>>
  /\ Observe

\* Fault: the suppression record outlives the user's entry.
RemoveSuppressionKeep(p) ==
  /\ pc[p] = "rm_supp"
  /\ Return(p)
  /\ UNCHANGED <<store, now, ops, scan, sweep, history>>

RemoveSuppression(p) ==
  /\ pc[p] = "rm_supp"
  /\ suppression' = [suppression EXCEPT ![who[p]] = None]
  /\ Return(p)
  /\ UNCHANGED <<shards, heap, user_index, now, ops, scan, sweep, history>>

----------------------------------------------------------------------------
(* nearby and get_user *)

Distance(q, r)  == haversine_distance(q.pos, r.pos)
InRadius(q, p)  == q.pos = None \/ haversine_distance(q.pos, p) <= Metres(q.radius)
Result(u, e)    == [user |-> u, pos |-> e.pos, at |-> e.at]
UsersOf(rs)     == {r.user : r \in rs}

\* The distance of the n-th nearest of the results.
NthDist(q, rs, n) ==
  CHOOSE d \in {Distance(q, r) : r \in rs} :
    /\ Cardinality({r \in rs : Distance(q, r) <= d}) >= n
    /\ Cardinality({r \in rs : Distance(q, r) < d}) < n

\* The first of the remaining candidates in the order of min_dist_to_shard.
Nearest(q, todo) ==
  {k \in todo : \A o \in todo : min_dist_to_shard(q.pos, k) <= min_dist_to_shard(q.pos, o)}

\* Fault: the next shard is compared with the nearest result.
EarlyExitFirst(q, rs, todo) ==
  /\ q.limit > 0
  /\ Cardinality(rs) >= q.limit
  /\ \A k \in Nearest(q, todo) : min_dist_to_shard(q.pos, k) > NthDist(q, rs, 1)

\* No remaining shard can displace one of the nearest `limit` results.
EarlyExit(q, rs, todo) ==
  /\ q.limit > 0
  /\ Cardinality(rs) >= q.limit
  /\ \A k \in Nearest(q, todo) : min_dist_to_shard(q.pos, k) > NthDist(q, rs, q.limit)

\* The ways of taking the n nearest of rs (the sort is unstable: ties are free).
Take(q, rs, n) ==
  {T \in SUBSET rs : /\ Cardinality(T) = IF n < Cardinality(rs) THEN n ELSE Cardinality(rs)
                     /\ \A r \in T, o \in rs \ T : Distance(q, r) <= Distance(q, o)}

\* The reserved-slot model: every favourite, then the nearest of the others.
Reserve(q, rs) ==
  LET fav   == {r \in rs : r.user \in q.favs}
      other == rs \ fav
      room  == IF q.limit = 0 THEN Cardinality(other)
               ELSE IF q.limit > Cardinality(fav) THEN q.limit - Cardinality(fav) ELSE 0
  IN  {fav \cup T : T \in Take(q, other, room)}

\* The favourites the traversal did not capture, still to be looked up directly.
MissedFavs(q, rs) == (q.favs \ UsersOf(rs)) \ q.excl

StartQuery(t, q, at, todo, favs) ==
  /\ pc[t] = "idle" /\ Call
  /\ Goto(t, at)
  /\ scan' = [scan EXCEPT ![t] = [NoScan EXCEPT !.query = q, !.start = now,
                                                !.todo = todo, !.favs = favs]]
  /\ steady' = [steady EXCEPT ![t] =
       {u \in IF q.limit = 0 /\ q.pos # None THEN Users \ q.excl ELSE q.favs \ q.excl :
          \E e \in Held(u) : ~Stale(e, now) /\ InRadius(q, e.pos)}]
  /\ UNCHANGED <<store, now, who, ent, key, sweep, disturbed>>

NearbyCall(t, q) ==
  StartQuery(t, q, "pick", intersecting_shards(q.pos, q.radius), {})

GetUserCall(t, u) == StartQuery(t, GetQuery(u), "favs", {}, {u})

\* Fault: a cell without a shard ends the traversal.
NearbyPickBreak(t) ==
  LET s == scan[t]
  IN  /\ pc[t] = "pick" /\ s.todo # {}
      /\ \E k \in Nearest(s.query, s.todo) :
           LET a == IF k \in Keys THEN shards[k] ELSE None
           IN  /\ scan' = [scan EXCEPT ![t].todo = IF a = None THEN {} ELSE s.todo \ {k},
                                       ![t].arc = a]
               /\ Goto(t, IF a = None THEN "pick" ELSE "scan")
      /\ UNCHANGED <<store, now, ops, who, ent, key, sweep, history>>

\* Clone the Arc of the next candidate; a cell without a shard is passed over.
NearbyPick(t) ==
  LET s == scan[t]
  IN  /\ pc[t] = "pick" /\ s.todo # {}
      /\ \E k \in Nearest(s.query, s.todo) :
           LET a == IF k \in Keys THEN shards[k] ELSE None
           IN  /\ scan' = [scan EXCEPT ![t].todo = s.todo \ {k}, ![t].arc = a]
               /\ Goto(t, IF a = None THEN "pick" ELSE "scan")
      /\ UNCHANGED <<store, now, ops, who, ent, key, sweep, history>>

\* After a shard: on to the next one, or out of the loop.
AfterShard(t, s) ==
  LET out == s.todo = {} \/ EarlyExit(s.query, s.results, s.todo)
  IN  /\ Goto(t, IF out THEN "favs" ELSE "pick")
      /\ scan' = [scan EXCEPT ![t] =
           [s EXCEPT !.arc = None, !.stale = {},
                     !.favs = IF out THEN MissedFavs(s.query, s.results) ELSE {}]]

NearbyScan(t) ==
  LET s     == scan[t]
      shard == heap[s.arc]
      seen  == {u \in Users \ s.query.excl : shard[u] # None}
      stale == {u \in seen : Stale(shard[u], s.start)}
      hits  == {u \in seen \ stale : InRadius(s.query, shard[u].pos)}
      s2    == [s EXCEPT !.stale = stale,
                         !.results = @ \cup {Result(u, shard[u]) : u \in hits}]
  IN  /\ pc[t] = "scan"
      /\ IF stale # {}
         THEN Goto(t, "evict") /\ scan' = [scan EXCEPT ![t] = s2]
         ELSE AfterShard(t, s2)
      /\ UNCHANGED <<store, now, ops, who, ent, key, sweep, history>>

\* The stale ids of the scan are removed under the shard's write lock.
NearbyEvict(t) ==
  /\ pc[t] = "evict"
  /\ Erase(scan[t].arc, scan[t].stale)
  /\ AfterShard(t, scan[t])
  /\ UNCHANGED <<shards, user_index, suppression, now, ops, who, ent, key, sweep, disturbed>>
  /\ Observe

\* The last candidates had no shard: leave the loop without a look at the limit.
NearbyLoopEnd(t) ==
  /\ pc[t] = "pick" /\ scan[t].todo = {}
  /\ scan' = [scan EXCEPT ![t].favs = MissedFavs(scan[t].query, scan[t].results)]
  /\ Goto(t, "favs")
  /\ UNCHANGED <<store, now, ops, who, ent, key, sweep, history>>

\* get_user: the index ...
GetIndex(t) ==
  /\ pc[t] = "favs" /\ scan[t].favs # {}
  /\ \E u \in scan[t].favs :
       /\ scan' = [scan EXCEPT ![t].favs = @ \ {u}]
       /\ IF user_index[u] = None
          THEN UNCHANGED <<pc, who, key>>
          ELSE /\ Goto(t, "get_arc")
               /\ who' = [who EXCEPT ![t] = u]
               /\ key' = [key EXCEPT ![t] = user_index[u]]
  /\ UNCHANGED <<store, now, ops, ent, sweep, history>>

GetDone(t) ==
  /\ Goto(t, "favs")
  /\ who' = [who EXCEPT ![t] = None]
  /\ key' = [key EXCEPT ![t] = None]

\* ... the Arc of the shard ...
GetArc(t) ==
  LET a == shards[key[t]]
  IN  /\ pc[t] = "get_arc"
      /\ scan' = [scan EXCEPT ![t].arc = a]
      /\ IF a = None THEN GetDone(t) ELSE Goto(t, "get_read") /\ UNCHANGED <<who, key>>
      /\ UNCHANGED <<store, now, ops, ent, sweep, history>>

\* Fault: the direct lookup does not look at the entry's age.
GetReadAny(t) ==
  LET s == scan[t]
      e == heap[s.arc][who[t]]
      hit == e # None /\ InRadius(s.query, e.pos)
  IN  /\ pc[t] = "get_read"
      /\ scan' = [scan EXCEPT ![t].arc = None,
                              ![t].results = IF hit THEN @ \cup {Result(who[t], e)} ELSE @]
      /\ GetDone(t)
      /\ UNCHANGED <<store, now, ops, ent, sweep, history>>

\* ... and the entry, unless it has expired by now.
GetRead(t) ==
  LET s == scan[t]
      e == heap[s.arc][who[t]]
      hit == e # None /\ ~Stale(e, now) /\ InRadius(s.query, e.pos)
  IN  /\ pc[t] = "get_read"
      /\ scan' = [scan EXCEPT ![t].arc = None,
                              ![t].results = IF hit THEN @ \cup {Result(who[t], e)} ELSE @]
      /\ GetDone(t)
      /\ UNCHANGED <<store, now, ops, ent, sweep, history>>

\* The answer is put together: nearby's reserved slots, or the entry of get_user.
Finish(t) ==
  LET s == scan[t]
  IN  /\ pc[t] = "favs" /\ s.favs = {}
      /\ \E rs \in (IF s.query.pos = None THEN {s.results} ELSE Reserve(s.query, s.results)) :
           scan' = [scan EXCEPT ![t].results = rs]
      /\ Goto(t, "done")
      /\ UNCHANGED <<store, now, ops, who, ent, key, sweep, history>>

Respond(t) ==
  /\ pc[t] = "done"
  /\ Goto(t, "idle")
  /\ scan' = [scan EXCEPT ![t] = NoScan]
  /\ steady' = [steady EXCEPT ![t] = {}]
  /\ UNCHANGED <<store, now, ops, who, ent, key, sweep, disturbed>>

----------------------------------------------------------------------------
(* sweep *)

Mapped == {k \in Keys : shards[k] # None}

SweepCall ==
  /\ pc[Sweeper] = "idle"
  /\ sweep' = [NoSweep EXCEPT !.start = now, !.todo = Mapped]
  /\ Goto(Sweeper, IF Mapped = {} THEN "reap" ELSE "collect")
  /\ UNCHANGED <<store, now, ops, who, ent, key, scan, history>>

\* One shard at a time under the map's read lock; a user may be listed twice.
SweepCollect ==
  /\ pc[Sweeper] = "collect"
  /\ \E k \in sweep.todo :
       LET old == {u \in Users : heap[shards[k]][u] # None /\ Stale(heap[shards[k]][u], sweep.start)}
       IN  sweep' = [sweep EXCEPT !.todo = @ \ {k}, !.stale = @ \cup (old \X {k})]
  /\ Goto(Sweeper, IF sweep'.todo = {} THEN "reap" ELSE "collect")
  /\ UNCHANGED <<store, now, ops, who, ent, key, scan, history>>

SweepRemove ==
  /\ pc[Sweeper] = "reap"
  /\ \E uk \in sweep.stale :
       /\ sweep' = [sweep EXCEPT !.stale = @ \ {uk}]
       /\ RemoveLookup(Sweeper, uk[1])
  /\ UNCHANGED <<store, now, ops, ent, scan, steady>>

SweepEmpties ==
  /\ pc[Sweeper] = "reap" /\ sweep.stale = {}
  /\ sweep' = [NoSweep EXCEPT !.todo = Mapped]
  /\ Goto(Sweeper, IF Mapped = {} THEN "idle" ELSE "find_empty")
  /\ UNCHANGED <<store, now, ops, who, ent, key, scan, history>>

SweepFindEmpty ==
  /\ pc[Sweeper] = "find_empty"
  /\ \E k \in sweep.todo :
       sweep' = [sweep EXCEPT !.todo = @ \ {k},
                              !.empty = IF heap[shards[k]] = NoShard THEN @ \cup {k} ELSE @]
  /\ Goto(Sweeper, IF sweep'.todo # {} THEN "find_empty"
                   ELSE IF sweep'.empty # {} THEN "drop" ELSE "idle")
  /\ UNCHANGED <<store, now, ops, who, ent, key, scan, history>>

\* The map's write lock, taken after the read lock of the scan was released.
SweepDrop ==
  /\ pc[Sweeper] = "drop"
  /\ shards' = [k \in Keys |-> IF k \in sweep.empty THEN None ELSE shards[k]]
  /\ sweep' = NoSweep
  /\ Goto(Sweeper, "idle")
  /\ UNCHANGED <<heap, user_index, suppression, now, ops, who, ent, key, scan, disturbed>>
  /\ Observe

----------------------------------------------------------------------------
Tick ==
  /\ now < MaxTime
  /\ now' = now + 1
  /\ UNCHANGED <<store, ops, locals, disturbed>>
  /\ Observe

\* The server drops a handler's future at an await when its client disconnects.
\* (A query that is dropped leaves no trace.)
Cancel(t) ==
  /\ pc[t] \in WriterPCs
  /\ disturbed' = disturbed \cup {who[t]}
  /\ Return(t)
  /\ UNCHANGED <<store, now, ops, scan, sweep, steady>>

Start(t) ==
  \/ \E u \in Movers, p \in Points : UpsertCall(t, u, p)
  \/ \E u \in Movers : RemoveCall(t, u)
  \/ \E q \in Queries : NearbyCall(t, q)
  \/ \E u \in Lookups : GetUserCall(t, u)

Upsert(t) ==
  \/ UpsertSkip(t) \/ UpsertCheck(t) \/ UpsertLookup(t) \/ UpsertUnlink(t)
  \/ UpsertInsert(t) \/ UpsertCreate(t) \/ UpsertIndex(t) \/ UpsertSuppress(t)

Remove(p) == RemoveShard(p) \/ RemoveIndex(p) \/ RemoveSuppression(p)

Query(t) ==
  \/ NearbyPick(t) \/ NearbyScan(t) \/ NearbyEvict(t) \/ NearbyLoopEnd(t)
  \/ GetIndex(t) \/ GetArc(t) \/ GetRead(t) \/ Finish(t) \/ Respond(t)

Handler(t) == Upsert(t) \/ Remove(t) \/ Query(t)

Sweep ==
  \/ SweepCall \/ SweepCollect \/ SweepRemove \/ Remove(Sweeper)
  \/ SweepEmpties \/ SweepFindEmpty \/ SweepDrop

Next ==
  \/ \E t \in Tasks : Start(t) \/ Handler(t) \/ Cancel(t)
  \/ Sweep
  \/ Tick

Spec == Init /\ [][Next]_vars

\* A handler that was called, and the sweep task, which is spawned once and loops
\* forever, go on whenever the locks they wait for are free (tokio's RwLock is
\* fair).  Nobody has to call, and time has to pass for nobody.
Fairness == WF_vars(Sweep) /\ \A t \in Tasks : WF_vars(Handler(t))
FairSpec == Spec /\ Fairness

----------------------------------------------------------------------------
(* Properties *)

ScanState == [query : AllQueries \cup {None}, start : Nat, todo : SUBSET (Int \X Int),
              arc : Arcs \cup {None}, stale : SUBSET Users, favs : SUBSET Users,
              results : SUBSET Found]
SweepState == [start : Nat, todo : SUBSET Keys, stale : SUBSET (Users \X Keys),
               empty : SUBSET Keys]
TaskPCs  == WriterPCs \cup {"idle", "check", "pick", "scan", "evict", "favs",
                            "get_arc", "get_read", "done"}
SweepPCs == {"idle", "collect", "reap", "rm_shard", "rm_index", "rm_supp",
             "find_empty", "drop"}

\* Every variable has the shape of the code's maps and local variables.
TypeOK ==
  /\ shards \in [Keys -> Arcs \cup {None}]
  /\ heap \in [Arcs -> [Users -> Entry \cup {None}]]
  /\ user_index \in [Users -> Keys \cup {None}]
  /\ suppression \in [Users -> Entry \cup {None}]
  /\ now \in Nat /\ ops \in Nat
  /\ pc \in [Procs -> TaskPCs \cup SweepPCs]
  /\ \A t \in Tasks : pc[t] \in TaskPCs
  /\ pc[Sweeper] \in SweepPCs
  /\ who \in [Procs -> Users \cup {None}]
  /\ ent \in [Tasks -> Entry \cup {None}]
  /\ key \in [Procs -> Keys \cup {None}]
  /\ scan \in [Tasks -> ScanState]
  /\ sweep \in SweepState
  /\ disturbed \subseteq Users
  /\ steady \in [Tasks -> SUBSET Users]

\* An entry lies in the shard of its own position, whatever moves, drops and
\* recreations of shards happened: nearby prunes whole shards by their cell.
Placement ==
  \A k \in Keys, u \in Users :
    shards[k] # None /\ heap[shards[k]][u] # None => shard_for_coords(heap[shards[k]][u].pos) = k

NoWriter(u) == \A p \in Procs : ~Writing(p, u)

\* A user whose writes never overlapped and were never cut short is in at most
\* one shard, and between two writes in no shard but the indexed one: so remove
\* takes the user off the map, whatever sweep and nearby evicted meanwhile.
OneHome ==
  \A u \in Users \ disturbed :
    /\ \A k, l \in Copies(u) : k = l
    /\ NoWriter(u) => Copies(u) \subseteq {user_index[u]}

\* For such a user the position that suppresses further writes is the position
\* others see, and a removed user's next position is never suppressed.
SuppressionTracks ==
  \A u \in Users \ disturbed :
    NoWriter(u) =>
      /\ \A e \in Held(u) : /\ suppression[u] # None
                            /\ suppression[u].pos = e.pos
                            /\ suppression[u].at >= e.at
      /\ user_index[u] = None => suppression[u] = None

\* Nobody is shown who is excluded (oneself, a blocked user), out of the radius
\* or expired when the query began, favourites looked up directly included.
NearbySound ==
  \A t \in Tasks : \A r \in scan[t].results :
    /\ r.user \notin scan[t].query.excl
    /\ InRadius(scan[t].query, r.pos)
    /\ ~Stale(r, scan[t].start)

\* The entry of u that get_user reaches through the index, if it is one to show.
Indexed(t, u) ==
  /\ user_index[u] \in Copies(u)
  /\ LET e == heap[shards[user_index[u]]][u]
     IN  ~Stale(e, now) /\ InRadius(scan[t].query, e.pos)

\* A user who stayed put during the whole query is found by it, whatever the
\* other tasks moved, evicted, dropped and recreated: by the scan when nothing
\* limits it, by the direct lookup when the user is a favourite.
SteadyFound ==
  \A t \in Tasks : pc[t] = "done" =>
    LET q == scan[t].query
    IN  \A u \in steady[t] :
          (q.pos # None /\ q.limit = 0) \/ (u \in q.favs /\ Indexed(t, u))
            => u \in UsersOf(scan[t].results)

\* What nearby is to answer, over the whole store at once: every favourite in
\* range and the nearest others that fit beside them.
InRange(q, time) ==
  UNION {{Result(u, e) : e \in {f \in Held(u) : ~Stale(f, time) /\ InRadius(q, f.pos)}}
           : u \in Users \ q.excl}
Reference(q, time) == Reserve(q, InRange(q, time))

\* On a store nobody writes to, the pruned, early-exiting traversal with its
\* direct lookups answers exactly what a scan of the whole store would.
NearbyExact ==
  \A t \in Tasks : pc[t] = "done" /\ scan[t].query.pos # None =>
    scan[t].results \in Reference(scan[t].query, scan[t].start)

\* An expired entry of a user whose writes do not interfere leaves the store.
StaleCollected ==
  \A u \in Users :
    (\E e \in Held(u) : Stale(e, now)) ~>
      (u \in disturbed \/ \A e \in Held(u) : ~Stale(e, now))

\* store.rs, sweep: "Drop empty shards", so no dropped shard holds an entry.
DropsOnlyEmpty ==
  pc[Sweeper] = "drop" =>
    \A k \in sweep.empty : shards[k] # None => heap[shards[k]] = NoShard

\* SHARD.md: floor semantics "avoids duplicates" and a user crossing a boundary
\* is "moved to the new shard atomically", so nobody is in two shards.
OneShardPerUser == \A u \in Users : \A k, l \in Copies(u) : k = l

\* SHARD.md: "boundary users are never missed".
NeverMissed ==
  \A t \in Tasks : pc[t] = "done" /\ scan[t].query.pos # None /\ scan[t].query.limit = 0 =>
    InRange(scan[t].query, scan[t].start) \subseteq scan[t].results

=============================================================================
