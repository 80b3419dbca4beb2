--------------------------- MODULE LocationSession ---------------------------
(***************************************************************************)
(* The way of a position from the client to the map: the location          *)
(* WebSocket of the gateway (ws.rs), the PUT and DELETE handlers of        *)
(* location-service, and DbStore below them.                               *)
(*                                                                         *)
(* Each PUT is a task of its own: tasks of one socket, and of several      *)
(* sockets of one user, overtake each other; requests and replies get      *)
(* lost; database calls fail; either process restarts.  Every state of the *)
(* model is a state of LocationMap, which says what others see.            *)
(***************************************************************************)
EXTENDS DbStore

CONSTANTS
  Sockets,
  Tasks,      \* PUT requests that can be under way at once
  MaxFaults   \* bound on what is lost, fails or restarts

ASSUME LocationSessionAssumption == None \notin Sockets /\ MaxFaults \in Nat

VARIABLES
  socket,     \* the location WebSockets: user, last_pos, last_sent
  task,       \* PUT requests
  closing,    \* per user, DELETE requests: "none", "sent", "suppression"
  reported,   \* history: the places each user's clients have sent
  faults

vars == <<docs, suppression, socket, task, closing, reported, faults>>

Socket   == [user : Users \cup {None}, last_pos : Places \cup {None}, last_sent : Places \cup {None}]
Task     == [pc : {"idle", "put", "upsert", "insert", "record", "ack"}, user : Users \cup {None},
             pos : Places \cup {None}, from : Sockets \cup {None}, timer : BOOLEAN]
NoSocket == [user |-> None, last_pos |-> None, last_sent |-> None]
NoTask   == [pc |-> "idle", user |-> None, pos |-> None, from |-> None, timer |-> FALSE]

Init ==
  /\ StoreInit
  /\ socket = [s \in Sockets |-> NoSocket]
  /\ task = [t \in Tasks |-> NoTask]
  /\ closing = [u \in Users |-> "none"]
  /\ reported = [u \in Users |-> {}]
  /\ faults = 0

Fault == faults < MaxFaults /\ faults' = faults + 1

Open(s) == socket[s].user # None

\* Mutant: a socket starts out at some default place.
ConnectSomewhere(s, u) ==
  /\ ~Open(s)
  /\ socket' = [socket EXCEPT ![s] = [NoSocket EXCEPT !.user = u, !.last_pos = CHOOSE p \in Places : TRUE]]
  /\ UNCHANGED <<storeVars, task, closing, reported, faults>>

\* A token that decodes within the 3 s of WS_AUTH_TIMEOUT; anything else closes.
Connect(s, u) ==
  /\ ~Open(s)
  /\ socket' = [socket EXCEPT ![s] = [NoSocket EXCEPT !.user = u]]
  /\ UNCHANGED <<storeVars, task, closing, reported, faults>>

\* Mutant: the timer pushes the first position only.
NeedsPushOnce(s) == socket[s].last_pos # None /\ socket[s].last_sent = None

\* 5 m or more from the last position known to be stored, or none is.
NeedsPush(s) == socket[s].last_pos # None /\ socket[s].last_sent # socket[s].last_pos

\* A request is sent; which free slot it takes is of no matter.
Put(s, p, timer) ==
  LET free == {t \in Tasks : task[t].pc = "idle"} IN
  /\ free # {}
  /\ task' = [task EXCEPT ![CHOOSE t \in free : TRUE] =
                [pc |-> "put", user |-> socket[s].user, pos |-> p, from |-> s, timer |-> timer]]

\* A "position" message: remembered, and put by a spawned task if moved.
Position(s, p) ==
  /\ Open(s)
  /\ socket' = [socket EXCEPT ![s].last_pos = p]
  /\ reported' = [reported EXCEPT ![socket[s].user] = @ \cup {p}]
  /\ IF socket[s].last_sent = p THEN task' = task
     ELSE Put(s, p, FALSE)
  /\ UNCHANGED <<storeVars, closing, faults>>

\* The 5 s tick of nearby_task, which awaits its own PUT.
TimerPush(s) ==
  /\ Open(s) /\ NeedsPush(s)
  /\ \A t \in Tasks : ~(task[t].from = s /\ task[t].timer)
  /\ Put(s, socket[s].last_pos, TRUE)
  /\ UNCHANGED <<storeVars, socket, closing, reported, faults>>

\* Mutant: the tasks still write to the closed socket's cells.
CloseKeeping(s) ==
  /\ Open(s) /\ closing[socket[s].user] = "none"
  /\ closing' = [closing EXCEPT ![socket[s].user] = "sent"]
  /\ socket' = [socket EXCEPT ![s] = NoSocket]
  /\ UNCHANGED <<storeVars, task, reported, faults>>

\* The socket closes: the timer is aborted and the user's location deleted.  Tasks
\* outlive their socket, and nobody reads their reply then.  A gateway that dies is
\* a Close whose DELETE is lost.
Close(s) ==
  /\ Open(s) /\ closing[socket[s].user] = "none"
  /\ closing' = [closing EXCEPT ![socket[s].user] = "sent"]
  /\ socket' = [socket EXCEPT ![s] = NoSocket]
  /\ task' = [t \in Tasks |-> IF task[t].from = s THEN [task[t] EXCEPT !.from = None, !.timer = FALSE] ELSE task[t]]
  /\ UNCHANGED <<storeVars, reported, faults>>

(***************************************************************************)
(* location-service.                                                       *)
(***************************************************************************)
TaskTo(t, pc) == task' = [task EXCEPT ![t].pc = pc]
TaskAt(t, pc) == task[t].pc = pc

\* put_location reaches the store, and is answered at once when it is skipped.
TaskCheck(t) ==
  /\ TaskAt(t, "put")
  /\ TaskTo(t, IF Skips(task[t].user, task[t].pos) THEN "ack" ELSE "upsert")
  /\ UNCHANGED <<storeVars, socket, closing, reported, faults>>

TaskUpdate(t) ==
  /\ TaskAt(t, "upsert") /\ UpsertUpdate(task[t].user, task[t].pos)
  /\ TaskTo(t, "record")
  /\ UNCHANGED <<suppression, socket, closing, reported, faults>>

TaskMiss(t) ==
  /\ TaskAt(t, "upsert") /\ docs[task[t].user] = << >>
  /\ TaskTo(t, "insert")
  /\ UNCHANGED <<storeVars, socket, closing, reported, faults>>

TaskInsert(t) ==
  /\ TaskAt(t, "insert") /\ UpsertInsert(task[t].user, task[t].pos)
  /\ TaskTo(t, "record")
  /\ UNCHANGED <<suppression, socket, closing, reported, faults>>

\* A failed write is logged and answered like a successful one.
TaskError(t) ==
  /\ Fault /\ task[t].pc \in {"upsert", "insert"}
  /\ TaskTo(t, "ack")
  /\ UNCHANGED <<storeVars, socket, closing, reported>>

TaskRecord(t) ==
  /\ TaskAt(t, "record") /\ UpsertSuppress(task[t].user, task[t].pos)
  /\ TaskTo(t, "ack")
  /\ UNCHANGED <<docs, socket, closing, reported, faults>>

\* The reply arrives: last_sent of the socket, if it is still there.
TaskAck(t) ==
  /\ TaskAt(t, "ack")
  /\ socket' = IF task[t].from = None THEN socket ELSE [socket EXCEPT ![task[t].from].last_sent = task[t].pos]
  /\ task' = [task EXCEPT ![t] = NoTask]
  /\ UNCHANGED <<storeVars, closing, reported, faults>>

\* No service token, a request or a reply that is lost, a handler that is cancelled.
TaskLost(t) ==
  /\ Fault /\ task[t].pc # "idle"
  /\ task' = [task EXCEPT ![t] = NoTask]
  /\ UNCHANGED <<storeVars, socket, closing, reported>>

\* delete_location, whose database call may fail (ok), in the two steps of remove.
Delete(u, ok) ==
  /\ closing[u] = "sent"
  /\ IF ok THEN RemoveDoc(u) /\ faults' = faults ELSE Fault /\ docs' = docs
  /\ closing' = [closing EXCEPT ![u] = "suppression"]
  /\ UNCHANGED <<suppression, socket, task, reported>>

DeleteDone(u) ==
  /\ closing[u] = "suppression"
  /\ RemoveSuppression(u)
  /\ closing' = [closing EXCEPT ![u] = "none"]
  /\ UNCHANGED <<docs, socket, task, reported, faults>>

DeleteLost(u) ==
  /\ Fault /\ closing[u] # "none"
  /\ closing' = [closing EXCEPT ![u] = "none"]
  /\ UNCHANGED <<storeVars, socket, task, reported>>

\* The sweep task, or MongoDB's own expiry of the documents.
Sweep(u) ==
  /\ \E i \in DOMAIN docs[u] : sweep(u, i)
  /\ UNCHANGED <<suppression, socket, task, closing, reported, faults>>

Tick == Age /\ UNCHANGED <<socket, task, closing, reported, faults>>

\* location-service restarts: the suppression map and the requests in it are gone.
Restart ==
  /\ Fault /\ suppression' = [u \in Users |-> None]
  /\ task' = [t \in Tasks |-> IF task[t].pc \in {"upsert", "insert", "record"} THEN NoTask ELSE task[t]]
  /\ closing' = [u \in Users |-> IF closing[u] = "suppression" THEN "none" ELSE closing[u]]
  /\ UNCHANGED <<docs, socket, reported>>

TaskStep(t) ==
  \/ TaskCheck(t) \/ TaskUpdate(t) \/ TaskMiss(t) \/ TaskInsert(t) \/ TaskError(t)
  \/ TaskRecord(t) \/ TaskAck(t) \/ TaskLost(t)
DeleteStep(u) == (\E ok \in BOOLEAN : Delete(u, ok)) \/ DeleteDone(u) \/ DeleteLost(u)

Next ==
  \/ \E s \in Sockets : TimerPush(s) \/ Close(s) \/ \E p \in Places : Position(s, p)
  \/ \E s \in Sockets, u \in Users : Connect(s, u)
  \/ \E t \in Tasks : TaskStep(t)
  \/ \E u \in Users : DeleteStep(u) \/ Sweep(u)
  \/ Restart \/ Tick

Spec == Init /\ [][Next]_vars

(***************************************************************************)
(* Requests end (the HTTP client and the driver give up in the end), time  *)
(* passes, the gateway's interval ticks, and faults stop sometime.         *)
(***************************************************************************)
Fairness ==
  /\ WF_vars(Tick)
  /\ \A t \in Tasks : WF_vars(TaskStep(t))
  /\ \A s \in Sockets : WF_vars(TimerPush(s))

(***************************************************************************)
(* Properties.                                                             *)
(***************************************************************************)
\* Types, and a PUT belongs to the user of the socket it came from, even when that socket is
\* closed and used again.
TypeOK ==
  /\ StoreTypeOK
  /\ socket \in [Sockets -> Socket] /\ task \in [Tasks -> Task]
  /\ \A t \in Tasks : task[t].from \in Sockets => socket[task[t].from].user = task[t].user
  /\ closing \in [Users -> {"none", "sent", "suppression"}]
  /\ reported \in [Users -> SUBSET Places] /\ faults \in 0 .. MaxFaults

\* The gateway keeps pushing until the last position of a client has been answered for,
\* whatever is lost on the way and whatever older answer comes in late.
PushCatchesUp ==
  \A s \in Sockets, p \in Places :
    socket[s].last_pos = p ~> (socket[s].last_pos # p \/ socket[s].last_sent = p)

Map == INSTANCE LocationMap WITH
  present <- {socket[s].user : s \in {x \in Sockets : Open(x)}},
  shown   <- [u \in Users |-> shown_at(u)]

\* Whatever happens to requests and processes, others see a user only where the user's
\* own client has reported to be.
ImplementsMap == Map!Spec

\* "If a user closes the app or loses signal, they disappear from the map": also when the
\* DELETE is lost, a late PUT follows it, or the store holds two documents of the user.
GoneForGood == Map!EventuallyGone

=============================================================================
