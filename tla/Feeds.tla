-------------------------------- MODULE Feeds --------------------------------
(***************************************************************************)
(* What a client is shown: the polling tasks of the gateway's WebSockets   *)
(* (ws.rs) and the handlers they poll.  A message socket pushes the list   *)
(* of conversations and the viewed thread, a location socket pushes who is *)
(* nearby; each task fetches, compares with what it sent last, and sends   *)
(* when that changed.  Opening a thread, and sending to it, push the       *)
(* thread once more from a task of their own.                              *)
(*                                                                         *)
(* get_nearby leaves out blocked people through a 30 s cache of blocks.    *)
(* Contents are abstract: a thread is the number of its messages.          *)
(***************************************************************************)
EXTENDS Naturals

CONSTANTS
  Kinds,       \* which sockets to model: "msg", "loc"
  Peers,       \* the people and venues the client may meet
  Venues,      \* those of them at a fixed place, always nearby
  Pushes,      \* tasks spawned by "view" and "send" that can be under way
  BlockTTL,    \* BLOCK_CACHE_TTL, in ticks
  MaxDelay,    \* bound of the histories: up to where a list's delay is counted
  MaxMsgs, MaxOps, MaxFaults,
  Null,        \* the "messages" of an error's answer
  None

ASSUME FeedsAssumption ==
  Kinds \subseteq {"msg", "loc"} /\ Venues \subseteq Peers /\ BlockTTL \in Nat \ {0} /\ MaxDelay \in Nat
  /\ MaxMsgs \in Nat /\ MaxOps \in Nat /\ MaxFaults \in Nat

VARIABLES
  kind,        \* which socket this is
  log,         \* messages of each thread
  live,        \* people with a live location in the radius
  blocked,     \* people blocked by the client's user, or who blocked the user
  since,       \* history: ticks since each peer was blocked, up to a bound
  screen,      \* what the client was sent last: list, thread, nearby
  list,        \* list_task
  thread,      \* thread_task, with last_viewing_uid and last_thread_hash
  viewing,
  push,        \* spawned tasks
  near,        \* nearby_task, inside get_nearby
  cache,       \* block_cache entry of the user
  other,       \* get_blocked_ids of another get_nearby of the user: another socket's
  ops, faults

world == <<log, live, blocked, since>>
vars  == <<kind, log, live, blocked, since, screen, list, thread, viewing, push, near, cache, other, ops, faults>>

\* Of a list of blocked ids, ok and delay are history: it is not from a failed query; the
\* ticks from its query to the insert, and from where the request took it.
Lists   == [ids : SUBSET Peers, ok : BOOLEAN, delay : 0 .. MaxDelay]
Entries == [ids : SUBSET Peers, ok : BOOLEAN, delay : 0 .. MaxDelay, age : 0 .. BlockTTL]
Nears   == [pc : {"idle", "people", "store", "venues", "send"}, ids : SUBSET Peers, ok : BOOLEAN,
            delay : 0 .. MaxDelay, fill : BOOLEAN, got : SUBSET Peers]
Answers == 0 .. MaxMsgs \cup {Null, None}
NoPush  == [pc |-> "idle", uid |-> None, got |-> None, push |-> TRUE]
NoNear  == [pc |-> "idle", ids |-> {}, ok |-> TRUE, delay |-> 0, fill |-> FALSE, got |-> {}]

Init ==
  /\ kind \in Kinds
  /\ log = [p \in Peers |-> 0]
  /\ live = {} /\ blocked = {} /\ since = [p \in Peers |-> 0]
  /\ screen = [list |-> None, thread |-> None, nearby |-> None]
  /\ list = [pc |-> "idle", got |-> None]
  /\ thread = [pc |-> "idle", got |-> None, hash |-> None, last |-> None]
  /\ viewing = None /\ push = [x \in Pushes |-> NoPush]
  /\ near = NoNear /\ cache = None /\ other = None
  /\ ops = 0 /\ faults = 0

Act == ops < MaxOps /\ ops' = ops + 1 /\ UNCHANGED faults
Fault == faults < MaxFaults /\ faults' = faults + 1 /\ UNCHANGED ops
Fine == UNCHANGED <<ops, faults>>
Up(n, max) == IF n < max THEN n + 1 ELSE n

(***************************************************************************)
(* The world: messages come and expire, people come, go and are blocked.   *)
(***************************************************************************)
Arrives(p) ==
  /\ Act /\ kind = "msg" /\ log[p] < MaxMsgs
  /\ log' = [log EXCEPT ![p] = @ + 1]
  /\ UNCHANGED <<kind, live, blocked, since, screen, list, thread, viewing, push, near, cache, other>>

Expires(p) ==
  /\ Act /\ kind = "msg" /\ log[p] > 0
  /\ log' = [log EXCEPT ![p] = @ - 1]
  /\ UNCHANGED <<kind, live, blocked, since, screen, list, thread, viewing, push, near, cache, other>>

\* Mutant: a venue account may push a position.
MovesVenue(p) ==
  /\ Act /\ kind = "loc"
  /\ live' = IF p \in live THEN live \ {p} ELSE live \cup {p}
  /\ UNCHANGED <<kind, log, blocked, since, screen, list, thread, viewing, push, near, cache, other>>

Moves(p) ==
  /\ Act /\ kind = "loc" /\ p \notin Venues
  /\ live' = IF p \in live THEN live \ {p} ELSE live \cup {p}
  /\ UNCHANGED <<kind, log, blocked, since, screen, list, thread, viewing, push, near, cache, other>>

Blocks(p) ==
  /\ Act /\ kind = "loc"
  /\ blocked' = IF p \in blocked THEN blocked \ {p} ELSE blocked \cup {p}
  /\ since' = [since EXCEPT ![p] = 0]
  /\ UNCHANGED <<kind, log, live, screen, list, thread, viewing, push, near, cache, other>>

\* Time passes whatever is under way: requests and queries take as long as they take.
Tick ==
  /\ since' = [p \in Peers |-> IF p \in blocked THEN Up(since[p], BlockTTL + MaxDelay) ELSE since[p]]
  /\ cache' = IF cache = None THEN None ELSE [cache EXCEPT !.age = Up(@, BlockTTL)]
  /\ near' = IF near.pc \in {"store", "send"} THEN [near EXCEPT !.delay = Up(@, MaxDelay)] ELSE near
  /\ other' = IF other = None THEN None ELSE [other EXCEPT !.delay = Up(@, MaxDelay)]
  /\ Fine
  /\ UNCHANGED <<kind, log, live, blocked, screen, list, thread, viewing, push>>

(***************************************************************************)
(* list_task: push_list on get_messages, at once and every 3 s.            *)
(***************************************************************************)
\* Mutant: a failed request is remembered like an answer.
ListFetchOnce ==
  /\ kind = "msg" /\ list.pc = "idle" /\ screen.list # Null
  /\ \/ Fine /\ list' = [pc |-> "got", got |-> log]
     \/ Fault /\ list' = [pc |-> "got", got |-> Null]
  /\ UNCHANGED <<kind, world, screen, thread, viewing, push, near, cache, other>>

\* get_messages answers an empty list when its cursor breaks off.
ListFetch ==
  /\ kind = "msg" /\ list.pc = "idle"
  /\ \/ Fine /\ list' = [pc |-> "got", got |-> log]
     \/ Fault /\ \E got \in {Null, [p \in Peers |-> 0]} : list' = [pc |-> "got", got |-> got]
     \/ Fault /\ list' = list
  /\ UNCHANGED <<kind, world, screen, thread, viewing, push, near, cache, other>>

\* last_list_hash is that of what was sent last.
ListPush ==
  /\ list.pc = "got"
  /\ screen' = [screen EXCEPT !.list = list.got]
  /\ list' = [pc |-> "idle", got |-> None]
  /\ Fine
  /\ UNCHANGED <<kind, world, thread, viewing, push, near, cache, other>>

(***************************************************************************)
(* thread_task: every 2 s, the viewed thread; the hash is forgotten when   *)
(* the view is another than at the last tick.                              *)
(***************************************************************************)
\* Mutant: another view does not reach the task's own copy.
ThreadTickOnce ==
  /\ kind = "msg" /\ thread.pc = "idle" /\ viewing # None /\ thread.last = None
  /\ thread' = [thread EXCEPT !.hash = None, !.last = viewing]
  /\ Fine
  /\ UNCHANGED <<kind, world, screen, list, viewing, push, near, cache, other>>

ThreadTick ==
  /\ kind = "msg" /\ thread.pc = "idle" /\ viewing # thread.last
  /\ thread' = [thread EXCEPT !.hash = None, !.last = viewing]
  /\ Fine
  /\ UNCHANGED <<kind, world, screen, list, viewing, push, near, cache, other>>

ThreadFetch ==
  /\ kind = "msg" /\ thread.pc = "idle" /\ viewing = thread.last /\ viewing # None
  /\ \/ Fine /\ thread' = [thread EXCEPT !.pc = "got", !.got = log[viewing]]
     \/ Fault /\ \E got \in {Null, 0} : thread' = [thread EXCEPT !.pc = "got", !.got = got]
     \/ Fault /\ thread' = thread
  /\ UNCHANGED <<kind, world, screen, list, viewing, push, near, cache, other>>

ThreadPush ==
  /\ thread.pc = "got"
  /\ thread' = [thread EXCEPT !.pc = "idle", !.got = None, !.hash = thread.got]
  /\ screen' = IF thread.got = thread.hash THEN screen
               ELSE [screen EXCEPT !.thread = [uid |-> thread.last, messages |-> thread.got]]
  /\ Fine
  /\ UNCHANGED <<kind, world, list, viewing, push, near, cache, other>>

(***************************************************************************)
(* The client opens a thread, or sends.  ws_check_send is RateLimit's.     *)
(***************************************************************************)
Spawn(r) == \E x \in Pushes : push[x].pc = "idle" /\ push' = [push EXCEPT ![x] = r]

View(p) ==
  /\ Act /\ kind = "msg" /\ viewing # p
  /\ viewing' = p
  /\ IF p = None THEN push' = push ELSE Spawn([NoPush EXCEPT !.pc = "fetch", !.uid = p])
  /\ UNCHANGED <<kind, world, screen, list, thread, near, cache, other>>

\* The view is the one at the time of the send.
Send(p) ==
  /\ Act /\ kind = "msg"
  /\ Spawn([NoPush EXCEPT !.pc = "post", !.uid = p, !.push = (viewing = p)])
  /\ UNCHANGED <<kind, world, screen, list, thread, viewing, near, cache, other>>

\* Refused or unreachable: the client is told so, and nothing is pushed.
SendDone(x) ==
  /\ push[x].pc = "post"
  /\ \/ /\ Fine /\ log[push[x].uid] < MaxMsgs
        /\ log' = [log EXCEPT ![push[x].uid] = @ + 1]
        /\ push' = [push EXCEPT ![x] = IF @.push THEN [@ EXCEPT !.pc = "fetch"] ELSE NoPush]
     \/ /\ Fine /\ log' = log
        /\ push' = [push EXCEPT ![x] = NoPush]
  /\ UNCHANGED <<kind, live, blocked, since, screen, list, thread, viewing, near, cache, other>>

PushFetch(x) ==
  /\ push[x].pc = "fetch"
  /\ \/ Fine /\ push' = [push EXCEPT ![x].pc = "got", ![x].got = log[push[x].uid]]
     \/ Fault /\ \E got \in {Null, 0} : push' = [push EXCEPT ![x].pc = "got", ![x].got = got]
     \/ Fault /\ push' = [push EXCEPT ![x] = NoPush]
  /\ UNCHANGED <<kind, world, screen, list, thread, viewing, near, cache, other>>

\* Sent whatever thread_task has sent meanwhile: this task has a hash of its own.
PushSend(x) ==
  /\ push[x].pc = "got"
  /\ screen' = [screen EXCEPT !.thread = [uid |-> push[x].uid, messages |-> push[x].got]]
  /\ push' = [push EXCEPT ![x] = NoPush]
  /\ Fine
  /\ UNCHANGED <<kind, world, list, thread, viewing, near, cache, other>>

(***************************************************************************)
(* nearby_task and get_nearby: blocked ids, people from the store, blocked *)
(* ids again for the venues.  Radius, limit and favourites, which only     *)
(* choose among the people, are those of MemoryStore and Catalog.          *)
(***************************************************************************)
Near(r) == near' = r /\ UNCHANGED <<kind, world, list, thread, viewing, push, other>>

\* Mutant: an entry is fresh whatever its age.
FreshAlways == cache # None

Fresh == cache # None /\ cache.age < BlockTTL

NearStart ==
  /\ kind = "loc" /\ near.pc = "idle"
  /\ Near([NoNear EXCEPT !.pc = "people"]) /\ Fine
  /\ UNCHANGED <<screen, cache>>

\* What the query finds, now; its failure reads as nobody.
Query(l) ==
  \/ Fine  /\ l = [ids |-> blocked, ok |-> TRUE, delay |-> 0]
  \/ Fault /\ l = [ids |-> {}, ok |-> FALSE, delay |-> 0]

\* Mutant: what was cached stays when a query answers.
InsertKeep(l) ==
  cache' = IF cache = None THEN [ids |-> l.ids, ok |-> l.ok, delay |-> l.delay, age |-> 0]
           ELSE [cache EXCEPT !.age = 0]

\* The 30 s begin at the insert, however long ago the query was; the entry replaced may
\* be of a later query.
Insert(l) == cache' = [ids |-> l.ids, ok |-> l.ok, delay |-> l.delay, age |-> 0]

\* get_blocked_ids: from the cache or from a query, then to be inserted.
get_blocked_ids(pc, next) ==
  /\ near.pc = pc
  /\ \E l \in Lists :
       /\ \/ Fresh /\ l = [ids |-> cache.ids, ok |-> cache.ok, delay |-> cache.delay] /\ Fine
          \/ ~Fresh /\ Query(l)
       /\ Near([near EXCEPT !.pc = next, !.ids = l.ids, !.ok = l.ok, !.delay = l.delay, !.fill = ~Fresh])
  /\ UNCHANGED <<screen, cache>>

BlockCacheFill ==
  /\ near.fill
  /\ Insert(near) /\ Near([near EXCEPT !.fill = FALSE]) /\ Fine
  /\ UNCHANGED screen

\* The same in another get_nearby, which may be cancelled before its insert.
OtherQuery ==
  /\ kind = "loc" /\ other = None /\ ~Fresh
  /\ \E l \in Lists : Query(l) /\ other' = l
  /\ UNCHANGED <<kind, world, screen, list, thread, viewing, push, near, cache>>

OtherFill ==
  /\ other # None /\ other' = None
  /\ \/ Insert(other) /\ Fine
     \/ cache' = cache /\ Fault
  /\ UNCHANGED <<kind, world, screen, list, thread, viewing, push, near>>

\* A query of DbStore that fails shows nobody, one for venues shows no venue.
NearPeople ==
  /\ near.pc = "store" /\ ~near.fill
  /\ \/ Near([NoNear EXCEPT !.pc = "venues", !.got = live \ near.ids]) /\ Fine
     \/ Near([NoNear EXCEPT !.pc = "venues"]) /\ Fault
  /\ UNCHANGED <<screen, cache>>

NearPush ==
  /\ near.pc = "send" /\ ~near.fill
  /\ \/ screen' = [screen EXCEPT !.nearby = near.got \cup (Venues \ near.ids)] /\ Fine
     \/ screen' = [screen EXCEPT !.nearby = near.got] /\ Fault
  /\ Near(NoNear)
  /\ UNCHANGED cache

\* The request fails: nothing is sent.
NearLost ==
  /\ near.pc # "idle"
  /\ Near(NoNear) /\ Fault
  /\ UNCHANGED <<screen, cache>>

NearStep ==
  \/ NearStart \/ NearPeople \/ NearPush \/ NearLost \/ BlockCacheFill
  \/ get_blocked_ids("people", "store") \/ get_blocked_ids("venues", "send")

ListStep   == ListFetch \/ ListPush
ThreadStep == ThreadTick \/ ThreadFetch \/ ThreadPush
PushStep(x) == SendDone(x) \/ PushFetch(x) \/ PushSend(x)

Next ==
  \/ \E p \in Peers : Arrives(p) \/ Expires(p) \/ Moves(p) \/ Blocks(p) \/ Send(p)
  \/ \E p \in Peers \cup {None} : View(p)
  \/ Tick \/ ListStep \/ ThreadStep \/ NearStep \/ OtherQuery \/ OtherFill
  \/ \E x \in Pushes : PushStep(x)

Spec == Init /\ [][Next]_vars

\* The clock and the intervals tick, requests and queries end, and failures stop sometime.
Fairness ==
  /\ WF_vars(Tick) /\ WF_vars(ListStep) /\ WF_vars(ThreadStep) /\ WF_vars(OtherFill)
  /\ WF_vars(NearStep) /\ \A x \in Pushes : WF_vars(PushStep(x))

(***************************************************************************)
(* Properties.                                                             *)
(***************************************************************************)
\* Types: nothing but people has a live location, and a block list ages no further than its TTL.
TypeOK ==
  /\ kind \in Kinds /\ log \in [Peers -> 0 .. MaxMsgs]
  /\ live \subseteq Peers \ Venues /\ blocked \subseteq Peers /\ since \in [Peers -> 0 .. BlockTTL + MaxDelay]
  /\ list \in [pc : {"idle", "got"}, got : [Peers -> 0 .. MaxMsgs] \cup {Null, None}]
  /\ thread \in [pc : {"idle", "got"}, got : Answers, hash : Answers, last : Peers \cup {None}]
  /\ viewing \in Peers \cup {None}
  /\ push \in [Pushes -> [pc : {"idle", "post", "fetch", "got"}, uid : Peers \cup {None},
                          got : Answers, push : BOOLEAN]]
  /\ near \in Nears /\ (other # None => other \in Lists) /\ (cache # None => cache \in Entries)
  /\ ops \in 0 .. MaxOps /\ faults \in 0 .. MaxFaults

\* An answer of get_nearby leaves out whom its user blocked more than the cache's 30 s ago,
\* give or take what was slow about its list: the time from its query to its insert, and
\* from where this request took it.  Whichever lookup of whichever request filled the
\* cache, and in whatever order: only a failed query (cached as an empty list) hides more.
BlockHonoured ==
  near.pc \in {"store", "send"} /\ near.ok /\ near.delay < MaxDelay
  => \A p \in blocked \ near.ids : since[p] <= BlockTTL + near.delay

\* The number of changes is bounded, so from some time on there are none.

\* Then the nearby list of the client is right and stays right, whatever block
\* queries and requests failed before: a wrong list is never cached for good.
NearbyConverges == <>[](kind = "loc" => screen.nearby = (live \cup Venues) \ blocked)

\* Then the list of conversations is right and stays right: an error shown meanwhile,
\* or a list fetched before a change and sent after it, is replaced.
ListConverges == <>[](kind = "msg" => screen.list = log)

\* Then thread_task has sent the viewed thread as it is, whatever views and failures
\* came between two of its ticks.  (The client may still show an older thread, or
\* another one, which a task spawned by "view" or "send" delivered later.)
ThreadSent == <>[](kind = "msg" /\ viewing # None => thread.last = viewing /\ thread.hash = log[viewing])

=============================================================================
