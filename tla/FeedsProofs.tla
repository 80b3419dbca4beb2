---------------------------- MODULE FeedsProofs ----------------------------
(***************************************************************************)
(* Proofs about Feeds, for any set of peers and any lifetime of a block    *)
(* list: its types, and that a block is honoured once it is older than the *)
(* lifetime of a cached list.                                              *)
(***************************************************************************)
EXTENDS Feeds, TLAPS

\* A task spawned for a peer has one.
PushInv == \A x \in Pushes : push[x].pc # "idle" => push[x].uid \in Peers

\* Whoever is blocked and not on the list was blocked in the last n ticks.
Recent(ids, n) == \A p \in blocked \ ids : since[p] <= n

\* A list, not yet inserted, misses only blocks younger than itself, and a usable cache
\* entry only those younger than the entry and the delay of its insert together.
BlockInv ==
  /\ near.fill => near.pc \in {"store", "send"}
  /\ near.fill /\ near.ok /\ near.delay < MaxDelay => Recent(near.ids, near.delay)
  /\ other # None /\ other.ok /\ other.delay < MaxDelay => Recent(other.ids, other.delay)
  /\ cache # None /\ cache.ok /\ cache.delay < MaxDelay /\ cache.age < BlockTTL =>
       Recent(cache.ids, cache.age + cache.delay)
  /\ BlockHonoured

FeedsInv == TypeOK /\ PushInv /\ BlockInv

-----------------------------------------------------------------------------
\* Nothing has been blocked, cached or spawned.
LEMMA FeedsInit == Init => FeedsInv
<1> SUFFICES ASSUME Init PROVE FeedsInv
  OBVIOUS
<1> USE FeedsAssumption
<1>1. NoNear \in Nears
  BY DEF NoNear, Nears
<1>2. NoPush \in [pc : {"idle", "post", "fetch", "got"}, uid : Peers \cup {None}, got : Answers, push : BOOLEAN]
  BY DEF NoPush, Answers
<1>3. None \in Answers
  BY DEF Answers
<1>4. TypeOK
  BY <1>1, <1>2, <1>3 DEF Init, TypeOK
<1>5. PushInv
  BY DEF Init, PushInv, NoPush
<1>6. BlockInv
  BY DEF Init, BlockInv, BlockHonoured, NoNear
<1> QED BY <1>4, <1>5, <1>6 DEF FeedsInv

\* Changes and failures are counted up to their bounds.
LEMMA BoundsKept ==
  ASSUME TypeOK, Act \/ Fault \/ Fine
  PROVE  ops' \in 0 .. MaxOps /\ faults' \in 0 .. MaxFaults
BY FeedsAssumption DEF TypeOK, Act, Fault, Fine

\* Steps that have to do with messages only.
LEMMA MessageStep ==
  ASSUME FeedsInv, Act \/ Fault \/ Fine,
         UNCHANGED <<kind, live, blocked, since, near, cache, other>>,
         log' \in [Peers -> 0 .. MaxMsgs],
         list' \in [pc : {"idle", "got"}, got : [Peers -> 0 .. MaxMsgs] \cup {Null, None}],
         thread' \in [pc : {"idle", "got"}, got : Answers, hash : Answers, last : Peers \cup {None}],
         viewing' \in Peers \cup {None},
         push' \in [Pushes -> [pc : {"idle", "post", "fetch", "got"}, uid : Peers \cup {None},
                               got : Answers, push : BOOLEAN]],
         PushInv'
  PROVE  FeedsInv'
<1>1. TypeOK'
  BY BoundsKept DEF FeedsInv, TypeOK
<1>2. BlockInv'
  BY DEF FeedsInv, BlockInv, BlockHonoured, Recent
<1> QED BY <1>1, <1>2 DEF FeedsInv

\* Messages come and expire.
LEMMA LogKeeps ==
  ASSUME FeedsInv, NEW p \in Peers, Arrives(p) \/ Expires(p)
  PROVE  FeedsInv'
<1>1. TypeOK /\ PushInv
  BY DEF FeedsInv
<1>2. log' \in [Peers -> 0 .. MaxMsgs]
  <2>1. log \in [Peers -> 0 .. MaxMsgs] /\ MaxMsgs \in Nat /\ log[p] \in 0 .. MaxMsgs
    BY <1>1, FeedsAssumption DEF TypeOK
  <2>2. CASE Arrives(p)
    BY <2>1, <2>2 DEF Arrives
  <2>3. CASE Expires(p)
    BY <2>1, <2>3 DEF Expires
  <2> QED BY <2>2, <2>3
<1>3. /\ Act
      /\ UNCHANGED <<kind, live, blocked, since, list, thread, viewing, push, near, cache, other>>
  BY DEF Arrives, Expires
<1> QED BY <1>1, <1>2, <1>3, MessageStep DEF TypeOK, PushInv

\* The list of conversations.
LEMMA ListKeeps ==
  ASSUME FeedsInv, ListStep
  PROVE  FeedsInv'
<1>1. TypeOK /\ PushInv
  BY DEF FeedsInv
<1>2. list' \in [pc : {"idle", "got"}, got : [Peers -> 0 .. MaxMsgs] \cup {Null, None}]
  <2>1. [p \in Peers |-> 0] \in [Peers -> 0 .. MaxMsgs]
    BY FeedsAssumption
  <2>2. CASE ListFetch
    BY <1>1, <2>1, <2>2 DEF ListFetch, TypeOK
  <2>3. CASE ListPush
    BY <1>1, <2>3 DEF ListPush, TypeOK
  <2> QED BY <2>2, <2>3 DEF ListStep
<1>3. /\ Fault \/ Fine
      /\ UNCHANGED <<kind, log, live, blocked, since, thread, viewing, push, near, cache, other>>
  BY DEF ListStep, ListFetch, ListPush, world
<1> QED BY <1>1, <1>2, <1>3, MessageStep DEF TypeOK, PushInv

\* The viewed thread.
LEMMA ThreadKeeps ==
  ASSUME FeedsInv, ThreadStep
  PROVE  FeedsInv'
<1>1. TypeOK /\ PushInv
  BY DEF FeedsInv
<1>2. None \in Answers /\ Null \in Answers /\ 0 \in Answers /\ \A p \in Peers : log[p] \in Answers
  BY <1>1, FeedsAssumption DEF Answers, TypeOK
<1>3. thread' \in [pc : {"idle", "got"}, got : Answers, hash : Answers, last : Peers \cup {None}]
  <2>0. thread \in [pc : {"idle", "got"}, got : Answers, hash : Answers, last : Peers \cup {None}]
        /\ viewing \in Peers \cup {None}
    BY <1>1 DEF TypeOK
  <2>1. CASE ThreadTick
    BY <2>0, <1>2, <2>1 DEF ThreadTick
  <2>2. CASE ThreadFetch
    BY <2>0, <1>2, <2>2 DEF ThreadFetch
  <2>3. CASE ThreadPush
    BY <2>0, <1>2, <2>3 DEF ThreadPush
  <2> QED BY <2>1, <2>2, <2>3 DEF ThreadStep
<1>4. /\ Fault \/ Fine
      /\ UNCHANGED <<kind, log, live, blocked, since, list, viewing, push, near, cache, other>>
  BY DEF ThreadStep, ThreadTick, ThreadFetch, ThreadPush, world
<1> QED BY <1>1, <1>3, <1>4, MessageStep DEF TypeOK, PushInv

\* Tasks spawned by the client's messages.
LEMMA SpawnKeeps ==
  ASSUME TypeOK, PushInv, NEW x \in Pushes,
         NEW r \in [pc : {"idle", "post", "fetch", "got"}, uid : Peers \cup {None}, got : Answers, push : BOOLEAN],
         r.pc # "idle" => r.uid \in Peers, push' = [push EXCEPT ![x] = r]
  PROVE  /\ push' \in [Pushes -> [pc : {"idle", "post", "fetch", "got"}, uid : Peers \cup {None},
                                  got : Answers, push : BOOLEAN]]
         /\ PushInv'
<1>1. push' \in [Pushes -> [pc : {"idle", "post", "fetch", "got"}, uid : Peers \cup {None},
                            got : Answers, push : BOOLEAN]]
  BY DEF TypeOK
<1>2. \A y \in Pushes : push'[y] = IF y = x THEN r ELSE push[y]
  BY DEF TypeOK
<1> QED BY <1>1, <1>2 DEF PushInv

LEMMA ViewKeeps ==
  ASSUME FeedsInv, NEW p \in Peers \cup {None}, View(p)
  PROVE  FeedsInv'
<1>1. TypeOK /\ PushInv
  BY DEF FeedsInv
<1>2. /\ push' \in [Pushes -> [pc : {"idle", "post", "fetch", "got"}, uid : Peers \cup {None},
                               got : Answers, push : BOOLEAN]]
      /\ PushInv'
  <2>1. CASE p = None
    BY <1>1, <2>1 DEF View, TypeOK, PushInv
  <2>2. CASE p # None
    <3> DEFINE r == [NoPush EXCEPT !.pc = "fetch", !.uid = p]
    <3>1. /\ r \in [pc : {"idle", "post", "fetch", "got"}, uid : Peers \cup {None}, got : Answers, push : BOOLEAN]
          /\ r.uid \in Peers
      BY <2>2 DEF NoPush, Answers
    <3>2. PICK x \in Pushes : push' = [push EXCEPT ![x] = r]
      BY <2>2 DEF View, Spawn
    <3> HIDE DEF r
    <3> QED BY <1>1, <3>1, <3>2, SpawnKeeps
  <2> QED BY <2>1, <2>2
<1>3. /\ Act /\ viewing' = p
      /\ UNCHANGED <<kind, log, live, blocked, since, list, thread, near, cache, other>>
  BY DEF View, world
<1> QED BY <1>1, <1>2, <1>3, MessageStep DEF TypeOK

LEMMA SendKeeps ==
  ASSUME FeedsInv, NEW p \in Peers, Send(p)
  PROVE  FeedsInv'
<1>1. TypeOK /\ PushInv
  BY DEF FeedsInv
<1> DEFINE r == [NoPush EXCEPT !.pc = "post", !.uid = p, !.push = (viewing = p)]
<1>2. /\ r \in [pc : {"idle", "post", "fetch", "got"}, uid : Peers \cup {None}, got : Answers, push : BOOLEAN]
      /\ r.uid \in Peers
  BY DEF NoPush, Answers
<1>3. PICK x \in Pushes : push' = [push EXCEPT ![x] = r]
  BY DEF Send, Spawn
<1> HIDE DEF r
<1>4. /\ push' \in [Pushes -> [pc : {"idle", "post", "fetch", "got"}, uid : Peers \cup {None},
                               got : Answers, push : BOOLEAN]]
      /\ PushInv'
  BY <1>1, <1>2, <1>3, SpawnKeeps
<1>5. Act /\ UNCHANGED <<kind, log, live, blocked, since, list, thread, viewing, near, cache, other>>
  BY DEF Send, world
<1> QED BY <1>1, <1>4, <1>5, MessageStep DEF TypeOK

LEMMA PushKeeps ==
  ASSUME FeedsInv, NEW x \in Pushes, PushStep(x)
  PROVE  FeedsInv'
<1>1. TypeOK /\ PushInv
  BY DEF FeedsInv
<1>2. push[x] \in [pc : {"idle", "post", "fetch", "got"}, uid : Peers \cup {None}, got : Answers, push : BOOLEAN]
      /\ push[x].uid \in Peers
  BY <1>1 DEF TypeOK, PushInv, PushStep, SendDone, PushFetch, PushSend
<1>3. log \in [Peers -> 0 .. MaxMsgs] /\ MaxMsgs \in Nat /\ log[push[x].uid] \in 0 .. MaxMsgs
  BY <1>1, <1>2, FeedsAssumption DEF TypeOK
<1>4. log' \in [Peers -> 0 .. MaxMsgs]
  <2>1. CASE SendDone(x)
    BY <1>2, <1>3, <2>1 DEF SendDone
  <2>2. CASE PushFetch(x) \/ PushSend(x)
    BY <1>3, <2>2 DEF PushFetch, PushSend, world
  <2> QED BY <2>1, <2>2 DEF PushStep
<1>5. \E r \in [pc : {"idle", "post", "fetch", "got"}, uid : Peers \cup {None}, got : Answers, push : BOOLEAN] :
        (r.pc # "idle" => r.uid \in Peers) /\ push' = [push EXCEPT ![x] = r]
  <2>1. NoPush \in [pc : {"idle", "post", "fetch", "got"}, uid : Peers \cup {None}, got : Answers, push : BOOLEAN]
        /\ NoPush.pc = "idle"
    BY DEF NoPush, Answers
  <2>2. CASE push' = [push EXCEPT ![x] = NoPush]
    BY <2>1, <2>2
  <2>3. CASE SendDone(x) /\ push' # [push EXCEPT ![x] = NoPush]
    <3> DEFINE r == [push[x] EXCEPT !.pc = "fetch"]
    <3>1. push' = [push EXCEPT ![x] = r]
      BY <2>3 DEF SendDone
    <3>2. r \in [pc : {"idle", "post", "fetch", "got"}, uid : Peers \cup {None}, got : Answers, push : BOOLEAN]
          /\ r.uid \in Peers
      BY <1>2
    <3> QED BY <3>1, <3>2
  <2>4. CASE PushFetch(x) /\ push' # [push EXCEPT ![x] = NoPush]
    <3>1. PICK got \in Answers : push' = [push EXCEPT ![x].pc = "got", ![x].got = got]
      <4>1. Null \in Answers /\ 0 \in Answers /\ log[push[x].uid] \in Answers
        BY <1>3 DEF Answers
      <4> QED BY <2>4, <4>1 DEF PushFetch
    <3> DEFINE r == [push[x] EXCEPT !.pc = "got", !.got = got]
    <3>2. push' = [push EXCEPT ![x] = r]
      BY <1>1, <3>1 DEF TypeOK
    <3>3. r \in [pc : {"idle", "post", "fetch", "got"}, uid : Peers \cup {None}, got : Answers, push : BOOLEAN]
          /\ r.uid \in Peers
      BY <1>2
    <3> QED BY <3>2, <3>3
  <2> QED BY <2>2, <2>3, <2>4 DEF PushStep, PushSend
<1>6. /\ push' \in [Pushes -> [pc : {"idle", "post", "fetch", "got"}, uid : Peers \cup {None},
                               got : Answers, push : BOOLEAN]]
      /\ PushInv'
  <2>1. PICK r \in [pc : {"idle", "post", "fetch", "got"}, uid : Peers \cup {None}, got : Answers, push : BOOLEAN] :
          (r.pc # "idle" => r.uid \in Peers) /\ push' = [push EXCEPT ![x] = r]
    BY <1>5
  <2> QED BY <1>1, <2>1, SpawnKeeps
<1>7. /\ Fault \/ Fine
      /\ UNCHANGED <<kind, live, blocked, since, list, thread, viewing, near, cache, other>>
  BY DEF PushStep, SendDone, PushFetch, PushSend, world
<1> QED BY <1>1, <1>4, <1>6, <1>7, MessageStep DEF TypeOK

-----------------------------------------------------------------------------
(***************************************************************************)
(* Who is nearby, and who is blocked.                                      *)
(***************************************************************************)
\* Steps that have nothing to do with messages.
LEMMA NearbyStep ==
  ASSUME FeedsInv, Act \/ Fault \/ Fine, UNCHANGED <<kind, log, list, thread, viewing, push>>,
         live' \subseteq Peers \ Venues, blocked' \subseteq Peers, since' \in [Peers -> 0 .. BlockTTL + MaxDelay],
         near' \in Nears, other' # None => other' \in Lists, cache' # None => cache' \in Entries, BlockInv'
  PROVE  FeedsInv'
<1>1. TypeOK'
  BY BoundsKept DEF FeedsInv, TypeOK
<1>2. PushInv'
  BY DEF FeedsInv, PushInv
<1> QED BY <1>1, <1>2 DEF FeedsInv

\* The numbers that are compared.
LEMMA Numbers ==
  ASSUME TypeOK
  PROVE  /\ BlockTTL \in Nat \ {0} /\ MaxDelay \in Nat
         /\ near.delay \in 0 .. MaxDelay /\ (other # None => other.delay \in 0 .. MaxDelay)
         /\ cache # None => cache.age \in 0 .. BlockTTL /\ cache.delay \in 0 .. MaxDelay
         /\ \A p \in blocked : p \in Peers /\ since[p] \in 0 .. BlockTTL + MaxDelay
BY FeedsAssumption DEF TypeOK, Nears, Lists, Entries

\* A block that comes now is as young as can be, so a list misses nothing older than before.
LEMMA BlocksStayRecent ==
  ASSUME TypeOK, NEW p \in Peers, Blocks(p), NEW ids, NEW n \in Nat, Recent(ids, n)
  PROVE  \A q \in blocked' \ ids : since'[q] <= n
BY DEF TypeOK, Blocks, Recent

\* A block, or its end.
LEMMA BlocksKeeps ==
  ASSUME FeedsInv, NEW p \in Peers, Moves(p) \/ Blocks(p)
  PROVE  FeedsInv'
<1>1. TypeOK /\ BlockInv
  BY DEF FeedsInv
<1>2. CASE Moves(p)
  <2>1. live' \subseteq Peers \ Venues
    BY <1>1, <1>2 DEF Moves, TypeOK
  <2>2. Act /\ UNCHANGED <<kind, log, list, thread, viewing, push, blocked, since, near, cache, other>>
    BY <1>2 DEF Moves
  <2>3. BlockInv'
    BY <1>1, <2>2 DEF BlockInv, BlockHonoured, Recent
  <2> QED BY <1>1, <2>1, <2>2, <2>3, NearbyStep DEF TypeOK
<1>3. CASE Blocks(p)
  <2>1. blocked' \subseteq Peers
    BY <1>1, <1>3 DEF Blocks, TypeOK
  <2>2. since' \in [Peers -> 0 .. BlockTTL + MaxDelay]
    BY <1>1, <1>3, FeedsAssumption DEF Blocks, TypeOK
  <2>3. Act /\ UNCHANGED <<kind, log, live, list, thread, viewing, push, near, cache, other>>
    BY <1>3 DEF Blocks
  <2>4. \A ids : \A n \in Nat : Recent(ids, n) => \A q \in blocked' \ ids : since'[q] <= n
    BY <1>1, <1>3, BlocksStayRecent
  <2>5. BlockInv'
    <3>1. near.fill /\ near.ok /\ near.delay < MaxDelay => \A q \in blocked' \ near.ids : since'[q] <= near.delay
      BY <1>1, <2>4, Numbers DEF BlockInv
    <3>2. other # None /\ other.ok /\ other.delay < MaxDelay => \A q \in blocked' \ other.ids : since'[q] <= other.delay
      BY <1>1, <2>4, Numbers DEF BlockInv
    <3>3. cache # None /\ cache.ok /\ cache.delay < MaxDelay /\ cache.age < BlockTTL =>
            \A q \in blocked' \ cache.ids : since'[q] <= cache.age + cache.delay
      <4> SUFFICES ASSUME cache # None, cache.ok, cache.delay < MaxDelay, cache.age < BlockTTL
                   PROVE  \A q \in blocked' \ cache.ids : since'[q] <= cache.age + cache.delay
        OBVIOUS
      <4>1. cache.age + cache.delay \in Nat
        BY <1>1, Numbers
      <4> QED BY <1>1, <2>4, <4>1 DEF BlockInv
    <3>4. near.pc \in {"store", "send"} /\ near.ok /\ near.delay < MaxDelay =>
            \A q \in blocked' \ near.ids : since'[q] <= BlockTTL + near.delay
      <4> SUFFICES ASSUME near.pc \in {"store", "send"}, near.ok, near.delay < MaxDelay
                   PROVE  \A q \in blocked' \ near.ids : since'[q] <= BlockTTL + near.delay
        OBVIOUS
      <4>1. BlockTTL + near.delay \in Nat
        BY <1>1, Numbers
      <4> QED BY <1>1, <2>4, <4>1 DEF BlockInv, BlockHonoured, Recent
    <3> QED BY <1>1, <2>3, <3>1, <3>2, <3>3, <3>4 DEF BlockInv, BlockHonoured, Recent
  <2> QED BY <1>1, <2>1, <2>2, <2>3, <2>5, NearbyStep DEF TypeOK
<1> QED BY <1>2, <1>3

\* Time passes: blocks, lists and cache entries grow older together.
LEMMA TickKeeps ==
  ASSUME FeedsInv, Tick
  PROVE  FeedsInv'
<1>1. TypeOK /\ BlockInv
  BY DEF FeedsInv
<1>2. /\ since' \in [Peers -> 0 .. BlockTTL + MaxDelay]
      /\ \A q \in Peers : since'[q] \in Nat /\ since'[q] <= since[q] + 1
  BY <1>1, FeedsAssumption DEF Tick, TypeOK, Up
<1>3. Fine /\ UNCHANGED <<kind, log, live, blocked, list, thread, viewing, push>>
  BY DEF Tick
<1>4. ASSUME NEW ids, NEW n \in Nat, Recent(ids, n)
      PROVE  \A q \in blocked' \ ids : since'[q] <= n + 1
  BY <1>1, <1>2, <1>3, <1>4 DEF Recent, TypeOK
<1>5. /\ near' \in Nears
      /\ near'.pc = near.pc /\ near'.ids = near.ids /\ near'.ok = near.ok /\ near'.fill = near.fill
      /\ near.pc \in {"store", "send"} /\ near'.delay < MaxDelay => near'.delay = near.delay + 1 /\ near.delay < MaxDelay
  <2>1. CASE near.pc \in {"store", "send"}
    <3>1. near' = [near EXCEPT !.delay = Up(near.delay, MaxDelay)]
      BY <2>1 DEF Tick
    <3> QED BY <1>1, <2>1, <3>1, Numbers DEF TypeOK, Nears, Up
  <2>2. CASE near.pc \notin {"store", "send"}
    BY <1>1, <2>2 DEF Tick, TypeOK
  <2> QED BY <2>1, <2>2
<1>6. /\ other' # None => other' \in Lists
      /\ other' # None => other # None /\ other'.ids = other.ids /\ other'.ok = other.ok
      /\ other' # None /\ other'.delay < MaxDelay => other'.delay = other.delay + 1 /\ other.delay < MaxDelay
  <2>1. CASE other = None
    BY <2>1 DEF Tick
  <2>2. CASE other # None
    <3>1. other' = [other EXCEPT !.delay = Up(other.delay, MaxDelay)]
      BY <2>2 DEF Tick
    <3> QED BY <1>1, <2>2, <3>1, Numbers DEF TypeOK, Lists, Up
  <2> QED BY <2>1, <2>2
<1>7. /\ cache' # None => cache' \in Entries
      /\ cache' # None => cache # None /\ cache'.ids = cache.ids /\ cache'.ok = cache.ok /\ cache'.delay = cache.delay
      /\ cache' # None /\ cache'.age < BlockTTL => cache'.age = cache.age + 1 /\ cache.age < BlockTTL
  <2>1. CASE cache = None
    BY <2>1 DEF Tick
  <2>2. CASE cache # None
    <3>1. cache' = [cache EXCEPT !.age = Up(cache.age, BlockTTL)]
      BY <2>2 DEF Tick
    <3> QED BY <1>1, <2>2, <3>1, Numbers DEF TypeOK, Entries, Up
  <2> QED BY <2>1, <2>2
<1>8. BlockInv'
  <2>1. near'.fill => near'.pc \in {"store", "send"}
    BY <1>1, <1>5 DEF BlockInv
  <2>2. near'.fill /\ near'.ok /\ near'.delay < MaxDelay => \A q \in blocked' \ near'.ids : since'[q] <= near'.delay
    BY <1>1, <1>4, <1>5, Numbers DEF BlockInv
  <2>3. other' # None /\ other'.ok /\ other'.delay < MaxDelay =>
          \A q \in blocked' \ other'.ids : since'[q] <= other'.delay
    <3> SUFFICES ASSUME other' # None, other'.ok, other'.delay < MaxDelay
                 PROVE  \A q \in blocked' \ other'.ids : since'[q] <= other'.delay
      OBVIOUS
    <3>1. other # None /\ other.ok /\ other.delay < MaxDelay /\ other'.delay = other.delay + 1
      BY <1>6
    <3>2. Recent(other.ids, other.delay) /\ other.delay \in Nat
      BY <1>1, <3>1, Numbers DEF BlockInv
    <3> QED BY <1>4, <1>6, <3>1, <3>2
  <2>4. cache' # None /\ cache'.ok /\ cache'.delay < MaxDelay /\ cache'.age < BlockTTL =>
          \A q \in blocked' \ cache'.ids : since'[q] <= cache'.age + cache'.delay
    <3> SUFFICES ASSUME cache' # None, cache'.ok, cache'.delay < MaxDelay, cache'.age < BlockTTL
                 PROVE  \A q \in blocked' \ cache'.ids : since'[q] <= cache'.age + cache'.delay
      OBVIOUS
    <3>0. cache # None /\ cache.ok /\ cache.delay < MaxDelay /\ cache.age < BlockTTL
      BY <1>7
    <3>1. Recent(cache.ids, cache.age + cache.delay) /\ cache.age + cache.delay \in Nat
      BY <1>1, <3>0, Numbers DEF BlockInv
    <3>2. \A q \in blocked' \ cache.ids : since'[q] <= (cache.age + cache.delay) + 1
      BY <1>4, <3>1
    <3>3. cache'.age + cache'.delay = (cache.age + cache.delay) + 1
      BY <1>1, <1>7, Numbers
    <3> QED BY <1>7, <3>2, <3>3
  <2>5. near'.pc \in {"store", "send"} /\ near'.ok /\ near'.delay < MaxDelay =>
          \A q \in blocked' \ near'.ids : since'[q] <= BlockTTL + near'.delay
    <3> SUFFICES ASSUME near'.pc \in {"store", "send"}, near'.ok, near'.delay < MaxDelay
                 PROVE  \A q \in blocked' \ near'.ids : since'[q] <= BlockTTL + near'.delay
      OBVIOUS
    <3>1. Recent(near.ids, BlockTTL + near.delay) /\ BlockTTL + near.delay \in Nat
      BY <1>1, <1>5, Numbers DEF BlockInv, BlockHonoured, Recent
    <3>2. \A q \in blocked' \ near.ids : since'[q] <= (BlockTTL + near.delay) + 1
      BY <1>4, <3>1
    <3>3. BlockTTL + near'.delay = (BlockTTL + near.delay) + 1
      BY <1>1, <1>5, Numbers
    <3> QED BY <1>5, <3>2, <3>3
  <2> QED BY <2>1, <2>2, <2>3, <2>4, <2>5 DEF BlockInv, BlockHonoured, Recent
<1> QED BY <1>1, <1>2, <1>3, <1>5, <1>6, <1>7, <1>8, NearbyStep DEF TypeOK

\* What an inserted list misses is what it missed before.
LEMMA InsertKeeps ==
  ASSUME TypeOK, NEW l, l.ids \in SUBSET Peers, l.ok \in BOOLEAN, l.delay \in 0 .. MaxDelay, Insert(l),
         UNCHANGED <<blocked, since>>, l.ok /\ l.delay < MaxDelay => Recent(l.ids, l.delay)
  PROVE  /\ cache' \in Entries
         /\ cache'.ok /\ cache'.delay < MaxDelay =>
              \A q \in blocked' \ cache'.ids : since'[q] <= cache'.age + cache'.delay
<1>1. /\ cache' \in Entries
      /\ cache'.ids = l.ids /\ cache'.ok = l.ok /\ cache'.delay = l.delay /\ cache'.age = 0
  BY FeedsAssumption DEF Insert, Entries
<1>2. cache'.age + cache'.delay = l.delay
  BY <1>1
<1> QED BY <1>1, <1>2 DEF Recent

\* A query finds who is blocked now, or its failure is no list at all.
LEMMA QueryFinds ==
  ASSUME NEW l \in Lists, Query(l)
  PROVE  l.delay = 0 /\ (l.ok => Recent(l.ids, 0) /\ Recent(l.ids, BlockTTL))
BY DEF Query, Recent

\* get_blocked_ids of another request.
LEMMA OtherKeeps ==
  ASSUME FeedsInv, OtherQuery \/ OtherFill
  PROVE  FeedsInv'
<1>1. TypeOK /\ BlockInv
  BY DEF FeedsInv
<1>2. CASE OtherQuery
  <2>1. PICK l \in Lists : Query(l) /\ other' = l
    BY <1>2 DEF OtherQuery
  <2>2. Fine \/ Fault
    BY <2>1 DEF Query
  <2>3. UNCHANGED <<kind, log, live, blocked, since, list, thread, viewing, push, near, cache>>
    BY <1>2 DEF OtherQuery, world
  <2>4. other'.ok => \A q \in blocked' \ other'.ids : since'[q] <= other'.delay
    BY <2>1, <2>3, QueryFinds DEF Recent
  <2>5. BlockInv'
    BY <1>1, <2>3, <2>4 DEF BlockInv, BlockHonoured, Recent
  <2> QED BY <1>1, <2>1, <2>2, <2>3, <2>5, NearbyStep DEF TypeOK
<1>3. CASE OtherFill
  <2>1. /\ Fine \/ Fault
        /\ other # None /\ other' = None
        /\ UNCHANGED <<kind, log, live, blocked, since, list, thread, viewing, push, near>>
    BY <1>3 DEF OtherFill, world
  <2>2. CASE cache' = cache
    <3>1. BlockInv'
      BY <1>1, <2>1, <2>2 DEF BlockInv, BlockHonoured, Recent
    <3> QED BY <1>1, <2>1, <2>2, <3>1, NearbyStep DEF TypeOK
  <2>3. CASE Insert(other)
    <3>1. other \in Lists
      BY <1>1, <2>1 DEF TypeOK
    <3>2. /\ cache' \in Entries
          /\ cache'.ok /\ cache'.delay < MaxDelay =>
               \A q \in blocked' \ cache'.ids : since'[q] <= cache'.age + cache'.delay
      BY <1>1, <2>1, <2>3, <3>1, InsertKeeps DEF BlockInv, Lists
    <3>3. BlockInv'
      BY <1>1, <2>1, <3>2 DEF BlockInv, BlockHonoured, Recent
    <3> QED BY <1>1, <2>1, <3>2, <3>3, NearbyStep DEF TypeOK
  <2> QED BY <1>3, <2>2, <2>3 DEF OtherFill
<1> QED BY <1>2, <1>3

\* get_nearby.
LEMMA NearKeeps ==
  ASSUME FeedsInv, NearStep
  PROVE  FeedsInv'
<1>1. TypeOK /\ BlockInv
  BY DEF FeedsInv
<1>2. near \in Nears /\ live \subseteq Peers /\ blocked \subseteq Peers /\ Venues \subseteq Peers
  BY <1>1, FeedsAssumption DEF TypeOK
<1>3. /\ Fault \/ Fine
      /\ UNCHANGED <<kind, log, live, blocked, since, list, thread, viewing, push, other>>
  BY DEF NearStep, NearStart, NearPeople, NearPush, NearLost, BlockCacheFill, get_blocked_ids, Query, Near, world
<1>4. ASSUME near' \in Nears, BlockInv', cache' # None => cache' \in Entries
      PROVE  FeedsInv'
  BY <1>1, <1>3, <1>4, NearbyStep DEF TypeOK
<1>5. NoNear \in Nears /\ ~NoNear.fill /\ NoNear.pc = "idle"
  BY FeedsAssumption DEF NoNear, Nears
<1>6. ASSUME near' \in Nears, ~near'.fill, near'.pc \in {"idle", "people", "venues"}, cache' = cache
      PROVE  FeedsInv'
  <2>1. BlockInv'
    BY <1>1, <1>3, <1>6 DEF BlockInv, BlockHonoured, Recent
  <2> QED BY <1>1, <1>4, <1>6, <2>1 DEF TypeOK
<1>7. CASE NearStart
  BY <1>5, <1>6, <1>7 DEF NearStart, Near, NoNear, Nears
<1>8. CASE NearPeople
  <2>1. CASE near' = [NoNear EXCEPT !.pc = "venues", !.got = live \ near.ids]
    <3>1. near' \in Nears /\ ~near'.fill /\ near'.pc = "venues"
      BY <1>2, <1>5, <2>1 DEF Nears
    <3> QED BY <1>6, <1>8, <3>1 DEF NearPeople
  <2>2. CASE near' = [NoNear EXCEPT !.pc = "venues"]
    <3>1. near' \in Nears /\ ~near'.fill /\ near'.pc = "venues"
      BY <1>5, <2>2 DEF Nears
    <3> QED BY <1>6, <1>8, <3>1 DEF NearPeople
  <2> QED BY <1>8, <2>1, <2>2 DEF NearPeople, Near
<1>9. CASE NearPush \/ NearLost
  BY <1>5, <1>6, <1>9 DEF NearPush, NearLost, Near
<1>10. CASE BlockCacheFill
  <2>1. near' = [near EXCEPT !.fill = FALSE] /\ near.fill /\ Insert(near)
    BY <1>10 DEF BlockCacheFill, Near
  <2>2. /\ near' \in Nears /\ ~near'.fill /\ near'.pc = near.pc
        /\ near'.ok = near.ok /\ near'.ids = near.ids /\ near'.delay = near.delay
    BY <1>2, <2>1 DEF Nears
  <2>3. /\ cache' \in Entries
        /\ cache'.ok /\ cache'.delay < MaxDelay =>
             \A q \in blocked' \ cache'.ids : since'[q] <= cache'.age + cache'.delay
    BY <1>1, <1>2, <1>3, <2>1, InsertKeeps DEF BlockInv, Nears
  <2>4. BlockInv'
    BY <1>1, <1>3, <2>2, <2>3 DEF BlockInv, BlockHonoured, Recent
  <2> QED BY <1>4, <2>2, <2>3, <2>4
<1>11. ASSUME NEW pc \in {"people", "venues"}, NEW next \in {"store", "send"}, get_blocked_ids(pc, next)
       PROVE  FeedsInv'
  <2>1. cache' = cache /\ near.pc = pc /\ ~near.fill
    BY <1>1, <1>11 DEF get_blocked_ids, BlockInv
  <2>2. PICK l \in Lists :
          /\ \/ Fresh /\ l = [ids |-> cache.ids, ok |-> cache.ok, delay |-> cache.delay]
             \/ ~Fresh /\ Query(l)
          /\ near' = [near EXCEPT !.pc = next, !.ids = l.ids, !.ok = l.ok, !.delay = l.delay, !.fill = ~Fresh]
    BY <1>11 DEF get_blocked_ids, Near
  <2>3. /\ near' \in Nears /\ near'.pc = next /\ near'.fill = ~Fresh
        /\ near'.ids = l.ids /\ near'.ok = l.ok /\ near'.delay = l.delay
    <3>1. (~Fresh) \in BOOLEAN
      BY DEF Fresh
    <3> HIDE DEF Fresh
    <3> QED BY <1>2, <2>2, <3>1 DEF Nears, Lists
  <2>4. CASE Fresh
    <3>1. l = [ids |-> cache.ids, ok |-> cache.ok, delay |-> cache.delay] /\ cache # None /\ cache.age < BlockTTL
      BY <2>2, <2>4 DEF Fresh
    <3>2. near'.ok /\ near'.delay < MaxDelay => \A q \in blocked' \ near'.ids : since'[q] <= BlockTTL + near'.delay
      <4> SUFFICES ASSUME near'.ok, near'.delay < MaxDelay, NEW q \in blocked' \ near'.ids
                   PROVE  since'[q] <= BlockTTL + near'.delay
        OBVIOUS
      <4>1. since[q] <= cache.age + cache.delay
        BY <1>1, <1>3, <2>3, <3>1 DEF BlockInv, Recent
      <4>2. q \in blocked /\ since'[q] = since[q] /\ near'.delay = cache.delay
        BY <1>3, <2>3, <3>1
      <4> QED BY <1>1, <3>1, <4>1, <4>2, Numbers
    <3>3. BlockInv'
      BY <1>1, <1>3, <2>1, <2>3, <2>4, <3>2 DEF BlockInv, BlockHonoured, Recent
    <3> QED BY <1>1, <1>4, <2>1, <2>3, <3>3 DEF TypeOK
  <2>5. CASE ~Fresh
    <3>1. l.delay = 0 /\ (l.ok => Recent(l.ids, 0) /\ Recent(l.ids, BlockTTL))
      BY <2>2, <2>5, QueryFinds
    <3>2. near'.delay = 0 /\ BlockTTL + near'.delay = BlockTTL
      BY <2>3, <3>1, FeedsAssumption
    <3>3. BlockInv'
      BY <1>1, <1>3, <2>1, <2>3, <3>1, <3>2 DEF BlockInv, BlockHonoured, Recent
    <3> QED BY <1>1, <1>4, <2>1, <2>3, <3>3 DEF TypeOK
  <2> QED BY <2>4, <2>5
<1> QED BY <1>7, <1>8, <1>9, <1>10, <1>11 DEF NearStep

\* Every step keeps the invariant.
LEMMA FeedsStep ==
  ASSUME FeedsInv, [Next]_vars
  PROVE  FeedsInv'
<1>1. CASE UNCHANGED vars
  BY <1>1 DEF FeedsInv, TypeOK, PushInv, BlockInv, BlockHonoured, Recent, vars
<1>2. CASE Next
  BY <1>2, LogKeeps, BlocksKeeps, SendKeeps, ViewKeeps, TickKeeps, ListKeeps, ThreadKeeps,
     NearKeeps, OtherKeeps, PushKeeps DEF Next
<1> QED BY <1>1, <1>2

\* What the sockets show, fetch and cache stays within its types.
THEOREM TypeCorrect == Spec => []TypeOK
<1>1. FeedsInv => TypeOK
  BY DEF FeedsInv
<1> QED BY <1>1, FeedsInit, FeedsStep, PTL DEF Spec

\* An answer of get_nearby leaves out whoever was blocked more than BLOCK_CACHE_TTL ago, plus
\* what its list was delayed by, for any lifetime, any delay and any number of peers, unless
\* the query behind the list failed.
THEOREM BlocksAreHonoured == Spec => []BlockHonoured
<1>1. FeedsInv => BlockHonoured
  BY DEF FeedsInv, BlockInv
<1> QED BY <1>1, FeedsInit, FeedsStep, PTL DEF Spec

=============================================================================
