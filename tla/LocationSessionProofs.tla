----------------------- MODULE LocationSessionProofs -----------------------
(***************************************************************************)
(* Proofs about LocationSession, for any number of users, sockets,         *)
(* requests, places and faults: its types, and that it implements          *)
(* LocationMap.  The step that matters is a write of a PUT request, which  *)
(* publishes a place only if the request still carries a place the user's  *)
(* client sent; SessionInv says so of every request at every point of its  *)
(* way, and of what a socket remembers.                                    *)
(***************************************************************************)
EXTENDS LocationSession, SequenceTheorems, TLAPS

\* What the sockets remember and the requests carry was reported by their user; a request
\* that is not under way belongs to no socket.
Faithful ==
  /\ \A s \in Sockets : socket[s].last_pos # None =>
       Open(s) /\ socket[s].last_pos \in reported[socket[s].user]
  /\ \A t \in Tasks :
       IF task[t].pc = "idle" THEN task[t].from = None
       ELSE task[t].user \in Users /\ task[t].pos \in reported[task[t].user]

SessionInv == TypeOK /\ Faithful

Present == {socket[s].user : s \in {x \in Sockets : Open(x)}}
ShownOf(d) == {d[i].pos : i \in {j \in DOMAIN d : Live(d[j])}}
Shown == [u \in Users |-> shown_at(u)]

-----------------------------------------------------------------------------
(***************************************************************************)
(* What the store's operations do to the documents of a user and to the    *)
(* places others see.                                                      *)
(***************************************************************************)
\* A document that was just written is live.
LEMMA DocIsLive ==
  ASSUME NEW p \in Places
  PROVE  Doc(p) \in Document /\ Live(Doc(p)) /\ Doc(p).pos = p /\ Doc(p).age = 0
BY DbStoreAssumption DEF Doc, Document, Live

\* What is shown of a user are places.
LEMMA ShownArePlaces ==
  ASSUME NEW d \in Seq(Document)
  PROVE  ShownOf(d) \subseteq Places
<1>1. d \in [1 .. Len(d) -> Document]
  BY LenProperties
<1> QED BY <1>1 DEF ShownOf, Document

\* An update replaces the first document: the others are shown as before.
LEMMA ShownUpdate ==
  ASSUME NEW d \in Seq(Document), d # << >>, NEW p \in Places
  PROVE  /\ [d EXCEPT ![1] = Doc(p)] \in Seq(Document)
         /\ \E kept \in SUBSET ShownOf(d) : ShownOf([d EXCEPT ![1] = Doc(p)]) = kept \cup {p}
<1> DEFINE e == [d EXCEPT ![1] = Doc(p)]
           kept == {d[i].pos : i \in {j \in DOMAIN d : j # 1 /\ Live(d[j])}}
<1>1. Len(d) \in Nat \ {0} /\ d \in [1 .. Len(d) -> Document] /\ DOMAIN d = 1 .. Len(d)
  BY LenProperties, EmptySeq
<1>2. e \in Seq(Document)
  BY <1>1, DocIsLive, ExceptSeq
<1>3. DOMAIN e = DOMAIN d /\ 1 \in DOMAIN d
  BY <1>1
<1>4. \A i \in DOMAIN d : e[i] = IF i = 1 THEN Doc(p) ELSE d[i]
  BY <1>1
<1>5. kept \in SUBSET ShownOf(d)
  BY DEF ShownOf
<1>6. ShownOf(e) \subseteq kept \cup {p}
  BY <1>3, <1>4, DocIsLive DEF ShownOf
<1>7. kept \cup {p} \subseteq ShownOf(e)
  <2>1. p \in ShownOf(e)
    BY <1>3, <1>4, DocIsLive DEF ShownOf
  <2>2. kept \subseteq ShownOf(e)
    BY <1>3, <1>4 DEF ShownOf
  <2> QED BY <2>1, <2>2
<1> HIDE DEF e, kept
<1>8. ShownOf(e) = kept \cup {p}
  BY <1>6, <1>7
<1>9. \E k \in SUBSET ShownOf(d) : ShownOf(e) = k \cup {p}
  BY <1>5, <1>8
<1> QED BY <1>2, <1>9 DEF e

\* An insert adds a document: the others are shown as before.
LEMMA ShownAppend ==
  ASSUME NEW d \in Seq(Document), NEW p \in Places
  PROVE  /\ Append(d, Doc(p)) \in Seq(Document)
         /\ ShownOf(Append(d, Doc(p))) = ShownOf(d) \cup {p}
<1> DEFINE e == Append(d, Doc(p))
           n == Len(d)
<1>1. n \in Nat /\ DOMAIN d = 1 .. n
  BY LenProperties
<1>2. /\ e \in Seq(Document) /\ Len(e) = n + 1
      /\ \A i \in 1 .. n : e[i] = d[i]
      /\ e[n + 1] = Doc(p)
  BY DocIsLive, AppendProperties
<1>3. DOMAIN e = 1 .. n + 1
  BY <1>2, LenProperties
<1> HIDE DEF e, n
<1>4. ShownOf(e) \subseteq ShownOf(d) \cup {p}
  <2> SUFFICES ASSUME NEW i \in 1 .. n + 1, Live(e[i])
               PROVE  e[i].pos \in ShownOf(d) \cup {p}
    BY <1>3 DEF ShownOf
  <2>1. CASE i = n + 1
    BY <2>1, <1>2, DocIsLive
  <2>2. CASE i # n + 1
    <3>1. i \in 1 .. n
      BY <2>2, <1>1
    <3> QED BY <3>1, <1>1, <1>2 DEF ShownOf
  <2> QED BY <2>1, <2>2
<1>5. ShownOf(d) \subseteq ShownOf(e)
  <2>1. \A i \in 1 .. n : i \in 1 .. n + 1
    BY <1>1
  <2> QED BY <2>1, <1>1, <1>2, <1>3 DEF ShownOf
<1>6. p \in ShownOf(e)
  <2>1. n + 1 \in 1 .. n + 1
    BY <1>1
  <2> QED BY <2>1, <1>2, <1>3, DocIsLive DEF ShownOf
<1>7. ShownOf(e) = ShownOf(d) \cup {p}
  BY <1>4, <1>5, <1>6
<1> QED BY <1>2, <1>7 DEF e

\* Of a sequence made of some of a user's documents, no more is shown than before.
LEMMA ShownLess ==
  ASSUME NEW d \in Seq(Document), NEW e \in Seq(Document),
         \A i \in 1 .. Len(e) : \E j \in 1 .. Len(d) : e[i] = d[j]
  PROVE  ShownOf(e) \subseteq ShownOf(d)
<1>1. DOMAIN d = 1 .. Len(d) /\ DOMAIN e = 1 .. Len(e)
  BY LenProperties
<1> QED BY <1>1 DEF ShownOf

\* remove deletes the first document.
LEMMA ShownTail ==
  ASSUME NEW d \in Seq(Document), d # << >>
  PROVE  Tail(d) \in Seq(Document) /\ ShownOf(Tail(d)) \subseteq ShownOf(d)
<1>1. Len(d) \in Nat \ {0}
  BY EmptySeq
<1>2. /\ Tail(d) \in Seq(Document) /\ Len(Tail(d)) = Len(d) - 1
      /\ \A i \in 1 .. Len(Tail(d)) : Tail(d)[i] = d[i + 1]
  BY HeadTailProperties
<1>3. \A i \in 1 .. Len(Tail(d)) : i + 1 \in 1 .. Len(d)
  BY <1>1, <1>2
<1> QED BY <1>2, <1>3, ShownLess

\* sweep deletes any document.
LEMMA ShownRemoveAt ==
  ASSUME NEW d \in Seq(Document), NEW k \in DOMAIN d
  PROVE  RemoveAt(d, k) \in Seq(Document) /\ ShownOf(RemoveAt(d, k)) \subseteq ShownOf(d)
<1> DEFINE n == Len(d)
           a == SubSeq(d, 1, k - 1)
           b == SubSeq(d, k + 1, n)
<1>1. n \in Nat /\ DOMAIN d = 1 .. n /\ k \in 1 .. n
  BY LenProperties
<1>2. \A i \in 1 .. n : d[i] \in Document
  BY ElementOfSeq
<1>3. /\ a \in Seq(Document) /\ Len(a) = k - 1
      /\ \A i \in 1 .. k - 1 : a[i] = d[i]
  <2>1. \A i \in 1 .. k - 1 : d[i] \in Document
    BY <1>1, <1>2
  <2>2. /\ a \in Seq(Document) /\ Len(a) = IF 1 <= k - 1 THEN (k - 1) - 1 + 1 ELSE 0
        /\ \A i \in 1 .. (k - 1) - 1 + 1 : a[i] = d[1 + i - 1]
    BY <2>1, <1>1, SubSeqProperties
  <2> HIDE DEF a
  <2>3. Len(a) = k - 1
    BY <2>2, <1>1
  <2>4. \A i \in 1 .. k - 1 : i \in 1 .. (k - 1) - 1 + 1 /\ 1 + i - 1 = i
    BY <1>1
  <2> QED BY <2>2, <2>3, <2>4
<1>4. /\ b \in Seq(Document) /\ Len(b) = n - k
      /\ \A i \in 1 .. n - k : b[i] = d[k + i]
  <2>1. \A i \in k + 1 .. n : d[i] \in Document
    BY <1>1, <1>2
  <2>2. /\ b \in Seq(Document) /\ Len(b) = IF k + 1 <= n THEN n - (k + 1) + 1 ELSE 0
        /\ \A i \in 1 .. n - (k + 1) + 1 : b[i] = d[(k + 1) + i - 1]
    BY <2>1, <1>1, SubSeqProperties
  <2> HIDE DEF b, n
  <2>3. Len(b) = n - k
    BY <2>2, <1>1
  <2>4. \A i \in 1 .. n - k : i \in 1 .. n - (k + 1) + 1 /\ (k + 1) + i - 1 = k + i
    BY <1>1
  <2> QED BY <2>2, <2>3, <2>4
<1> HIDE DEF a, b, n
<1>5. /\ a \o b \in Seq(Document) /\ Len(a \o b) = Len(a) + Len(b)
      /\ \A i \in 1 .. Len(a) + Len(b) :
           (a \o b)[i] = IF i <= Len(a) THEN a[i] ELSE b[i - Len(a)]
  BY <1>3, <1>4, ConcatProperties
<1>6. \A i \in 1 .. Len(a \o b) : \E j \in 1 .. n : (a \o b)[i] = d[j]
  <2> SUFFICES ASSUME NEW i \in 1 .. Len(a \o b)
               PROVE  \E j \in 1 .. n : (a \o b)[i] = d[j]
    OBVIOUS
  <2>0. i \in 1 .. Len(a) + Len(b) /\ Len(a) = k - 1 /\ Len(b) = n - k
    BY <1>3, <1>4, <1>5
  <2>1. CASE i <= Len(a)
    <3>1. i \in 1 .. k - 1 /\ i \in 1 .. n
      BY <2>0, <2>1, <1>1
    <3> QED BY <3>1, <2>0, <2>1, <1>3, <1>5
  <2>2. CASE ~(i <= Len(a))
    <3>1. i - (k - 1) \in 1 .. n - k /\ i + 1 \in 1 .. n /\ k + (i - (k - 1)) = i + 1
      BY <2>0, <2>2, <1>1
    <3>2. (a \o b)[i] = b[i - (k - 1)]
      BY <2>0, <2>2, <1>5
    <3> QED BY <3>1, <3>2, <1>4
  <2> QED BY <2>1, <2>2
<1>7. ShownOf(a \o b) \subseteq ShownOf(d)
  BY <1>5, <1>6, ShownLess DEF n
<1>8. RemoveAt(d, k) = a \o b
  BY DEF RemoveAt, a, b, n
<1> QED BY <1>5, <1>7, <1>8

\* Documents grow older; one that passes the time to live is no longer shown.
LEMMA ShownAged ==
  ASSUME NEW d \in Seq(Document)
  PROVE  LET e == [i \in DOMAIN d |-> [d[i] EXCEPT !.age = IF Live(d[i]) THEN @ + 1 ELSE @]]
         IN  e \in Seq(Document) /\ ShownOf(e) \subseteq ShownOf(d)
<1> DEFINE e == [i \in DOMAIN d |-> [d[i] EXCEPT !.age = IF Live(d[i]) THEN @ + 1 ELSE @]]
<1>1. Len(d) \in Nat /\ DOMAIN d = 1 .. Len(d) /\ d \in [1 .. Len(d) -> Document]
  BY LenProperties
<1>2. \A i \in 1 .. Len(d) : e[i] \in Document /\ e[i].pos = d[i].pos /\ (Live(e[i]) => Live(d[i]))
  BY <1>1, DbStoreAssumption DEF Document, Live
<1>3. e \in [1 .. Len(d) -> Document]
  BY <1>1, <1>2
<1>4. e \in Seq(Document)
  BY <1>1, <1>3
<1>5. DOMAIN e = DOMAIN d
  OBVIOUS
<1> HIDE DEF e
<1>6. ShownOf(e) \subseteq ShownOf(d)
  BY <1>1, <1>2, <1>5 DEF ShownOf
<1> QED BY <1>4, <1>6 DEF e

-----------------------------------------------------------------------------
(***************************************************************************)
(* The invariant.                                                          *)
(***************************************************************************)
\* The fields of what sockets and requests hold.
LEMMA Fields ==
  ASSUME TypeOK
  PROVE  /\ \A s \in Sockets : /\ socket[s].user \in Users \cup {None}
                               /\ socket[s].last_pos \in Places \cup {None}
                               /\ Open(s) <=> socket[s].user \in Users
         /\ \A t \in Tasks : task[t].user \in Users \cup {None} /\ task[t].pos \in Places \cup {None}
         /\ \A u \in Users : reported[u] \subseteq Places /\ docs[u] \in Seq(Document)
         /\ None \notin Users /\ None \notin Places /\ None \notin Sockets
BY DbStoreAssumption, LocationSessionAssumption DEF TypeOK, StoreTypeOK, Socket, Task, Open

\* No user has connected, and nothing is stored.
LEMMA SessionInit == Init => SessionInv
<1> SUFFICES ASSUME Init PROVE SessionInv
  OBVIOUS
<1>1. << >> \in Seq(Document)
  BY EmptySeq
<1>2. StoreTypeOK
  BY <1>1 DEF Init, StoreInit, StoreTypeOK
<1>3. NoSocket \in Socket /\ NoTask \in Task
  BY DEF NoSocket, NoTask, Socket, Task
<1>4. TypeOK
  BY <1>2, <1>3, LocationSessionAssumption DEF Init, TypeOK, NoTask
<1> QED BY <1>4 DEF Init, SessionInv, Faithful, NoSocket, NoTask

\* A client connects: no request that is under way came from this socket.
LEMMA ConnectKeeps ==
  ASSUME SessionInv, NEW s \in Sockets, NEW u \in Users, Connect(s, u)
  PROVE  SessionInv'
<1> USE DEF SessionInv
<1>1. [NoSocket EXCEPT !.user = u] \in Socket /\ [NoSocket EXCEPT !.user = u].last_pos = None
  BY DEF NoSocket, Socket
<1>2. \A t \in Tasks : task[t].from # s
  BY Fields DEF Faithful, Connect, TypeOK, Open, Task
<1>3. TypeOK'
  BY <1>1, <1>2 DEF Connect, TypeOK, StoreTypeOK, storeVars
<1>4. Faithful'
  BY <1>1 DEF Connect, Faithful, TypeOK, Open
<1> QED BY <1>3, <1>4

\* A request is sent with a place its user reported.
LEMMA PutKeeps ==
  ASSUME SessionInv, NEW s \in Sockets, NEW p \in Places, NEW timer \in BOOLEAN, Open(s),
         reported' \in [Users -> SUBSET Places],
         \A u \in Users : reported[u] \subseteq reported'[u],
         p \in reported'[socket[s].user], Put(s, p, timer)
  PROVE  /\ task' \in [Tasks -> Task]
         /\ \A t \in Tasks : task'[t].from \in Sockets => socket[task'[t].from].user = task'[t].user
         /\ \A t \in Tasks :
              IF task'[t].pc = "idle" THEN task'[t].from = None
              ELSE task'[t].user \in Users /\ task'[t].pos \in reported'[task'[t].user]
<1> USE DEF SessionInv
<1> DEFINE new == [pc |-> "put", user |-> socket[s].user, pos |-> p, from |-> s, timer |-> timer]
<1>1. new \in Task
  BY Fields DEF Task
<1>2. new.pc # "idle" /\ new.from = s /\ new.user = socket[s].user /\ new.pos = p /\ new.user \in Users
  BY Fields
<1>3. \E t \in Tasks : task' = [task EXCEPT ![t] = new]
  BY DEF Put
<1> HIDE DEF new
<1>4. PICK t \in Tasks : task' = [task EXCEPT ![t] = new]
  BY <1>3
<1>5. task' \in [Tasks -> Task] /\ \A x \in Tasks : task'[x] = IF x = t THEN new ELSE task[x]
  BY <1>1, <1>4 DEF TypeOK
<1>6. \A x \in Tasks : task'[x].from \in Sockets => socket[task'[x].from].user = task'[x].user
  BY <1>2, <1>5 DEF TypeOK
<1>7. \A x \in Tasks :
        IF task'[x].pc = "idle" THEN task'[x].from = None
        ELSE task'[x].user \in Users /\ task'[x].pos \in reported'[task'[x].user]
  BY <1>2, <1>5 DEF Faithful
<1> QED BY <1>5, <1>6, <1>7

LEMMA PositionKeeps ==
  ASSUME SessionInv, NEW s \in Sockets, NEW p \in Places, Position(s, p)
  PROVE  SessionInv'
<1> USE DEF SessionInv
<1> DEFINE w == socket[s].user
<1>1. w \in Users /\ Open(s)
  BY Fields DEF Position
<1>2. /\ reported' \in [Users -> SUBSET Places]
      /\ \A u \in Users : reported[u] \subseteq reported'[u]
      /\ p \in reported'[w]
  BY <1>1 DEF Position, TypeOK
<1>3. /\ socket' \in [Sockets -> Socket]
      /\ \A x \in Sockets : /\ socket'[x].user = socket[x].user
                            /\ socket'[x].last_pos = IF x = s THEN p ELSE socket[x].last_pos
  BY DEF Position, TypeOK, Socket
<1>4. /\ task' \in [Tasks -> Task]
      /\ \A t \in Tasks : task'[t].from \in Sockets => socket[task'[t].from].user = task'[t].user
      /\ \A t \in Tasks :
           IF task'[t].pc = "idle" THEN task'[t].from = None
           ELSE task'[t].user \in Users /\ task'[t].pos \in reported'[task'[t].user]
  <2>1. CASE socket[s].last_sent = p
    BY <2>1, <1>2 DEF Position, TypeOK, Faithful
  <2>2. CASE socket[s].last_sent # p
    BY <2>2, <1>1, <1>2, PutKeeps DEF Position
  <2> QED BY <2>1, <2>2
<1>5. TypeOK'
  BY <1>2, <1>3, <1>4 DEF Position, TypeOK, StoreTypeOK, storeVars
<1>6. Faithful'
  <2>1. ASSUME NEW x \in Sockets, socket'[x].last_pos # None
        PROVE  Open(x)' /\ socket'[x].last_pos \in reported'[socket'[x].user]
    <3>1. CASE x = s
      BY <3>1, <1>1, <1>2, <1>3, Fields DEF Open
    <3>2. CASE x # s
      BY <3>2, <2>1, <1>2, <1>3, Fields DEF Open, Faithful
    <3> QED BY <3>1, <3>2
  <2> QED BY <2>1, <1>4 DEF Faithful
<1> QED BY <1>5, <1>6

LEMMA TimerPushKeeps ==
  ASSUME SessionInv, NEW s \in Sockets, TimerPush(s)
  PROVE  SessionInv'
<1> USE DEF SessionInv
<1> DEFINE p == socket[s].last_pos
<1>1. p \in Places /\ p \in reported[socket[s].user] /\ Open(s) /\ reported' = reported
  BY Fields DEF TimerPush, NeedsPush, Faithful
<1>2. Put(s, p, TRUE)
  BY DEF TimerPush
<1>3. reported' \in [Users -> SUBSET Places] /\ \A u \in Users : reported[u] \subseteq reported'[u]
  BY <1>1 DEF TypeOK
<1>4. /\ task' \in [Tasks -> Task]
      /\ \A t \in Tasks : task'[t].from \in Sockets => socket[task'[t].from].user = task'[t].user
      /\ \A t \in Tasks :
           IF task'[t].pc = "idle" THEN task'[t].from = None
           ELSE task'[t].user \in Users /\ task'[t].pos \in reported'[task'[t].user]
  <2> HIDE DEF p
  <2> QED BY <1>1, <1>2, <1>3, PutKeeps
<1>5. TypeOK'
  BY <1>1, <1>4 DEF TimerPush, TypeOK, StoreTypeOK, storeVars
<1>6. Faithful'
  BY <1>1, <1>4 DEF TimerPush, Faithful, Open
<1> QED BY <1>5, <1>6

\* A socket closes: its requests go on without it.
LEMMA CloseKeeps ==
  ASSUME SessionInv, NEW s \in Sockets, Close(s)
  PROVE  SessionInv'
<1> USE DEF SessionInv
<1>1. NoSocket \in Socket /\ NoSocket.last_pos = None
  BY DEF NoSocket, Socket
<1>2. /\ task' \in [Tasks -> Task]
      /\ \A t \in Tasks : /\ task'[t].pc = task[t].pc /\ task'[t].user = task[t].user /\ task'[t].pos = task[t].pos
                          /\ task'[t].from = IF task[t].from = s THEN None ELSE task[t].from
  <2> DEFINE new(t) == IF task[t].from = s THEN [task[t] EXCEPT !.from = None, !.timer = FALSE] ELSE task[t]
  <2>1. ASSUME NEW t \in Tasks
        PROVE  /\ new(t) \in Task /\ new(t).pc = task[t].pc /\ new(t).user = task[t].user
               /\ new(t).pos = task[t].pos
               /\ new(t).from = IF task[t].from = s THEN None ELSE task[t].from
    <3>1. task[t] \in Task
      BY DEF TypeOK
    <3> QED BY <3>1 DEF Task
  <2>2. task' = [t \in Tasks |-> new(t)]
    BY DEF Close
  <2> HIDE DEF new
  <2> QED BY <2>1, <2>2
<1>3. /\ socket' \in [Sockets -> Socket]
      /\ \A x \in Sockets : socket'[x] = IF x = s THEN NoSocket ELSE socket[x]
  BY <1>1 DEF Close, TypeOK
<1>4. \A t \in Tasks : task'[t].from \in Sockets => socket'[task'[t].from].user = task'[t].user
  BY <1>2, <1>3, Fields DEF TypeOK
<1>5. closing' \in [Users -> {"none", "sent", "suppression"}]
  BY DEF Close, TypeOK
<1>6. TypeOK'
  BY <1>2, <1>3, <1>4, <1>5 DEF Close, TypeOK, StoreTypeOK, storeVars
<1>7. Faithful'
  <2>1. reported' = reported
    BY DEF Close
  <2>2. \A x \in Sockets : socket'[x].last_pos # None =>
          Open(x)' /\ socket'[x].last_pos \in reported'[socket'[x].user]
    BY <2>1, <1>1, <1>3 DEF Faithful, Open
  <2>3. \A t \in Tasks :
          IF task'[t].pc = "idle" THEN task'[t].from = None
          ELSE task'[t].user \in Users /\ task'[t].pos \in reported'[task'[t].user]
    BY <2>1, <1>2 DEF Faithful
  <2> QED BY <2>2, <2>3 DEF Faithful
<1> QED BY <1>6, <1>7

\* A step of a request that leaves the sockets alone: the request goes on, or is gone.
LEMMA RequestKeeps ==
  ASSUME SessionInv, NEW t \in Tasks,
         \/ task[t].pc # "idle" /\ \E pc \in {"upsert", "insert", "record", "ack"} : TaskTo(t, pc)
         \/ task' = [task EXCEPT ![t] = NoTask],
         StoreTypeOK', faults' \in 0 .. MaxFaults,
         socket' \in [Sockets -> Socket],
         \A s \in Sockets : socket'[s].user = socket[s].user /\ socket'[s].last_pos = socket[s].last_pos,
         UNCHANGED <<closing, reported>>
  PROVE  SessionInv'
<1> USE DEF SessionInv
<1>1. NoTask \in Task /\ NoTask.pc = "idle" /\ NoTask.from = None
  BY DEF NoTask, Task
<1>2. /\ task' \in [Tasks -> Task]
      /\ \A x \in Tasks :
           \/ task'[x] = task[x]
           \/ task'[x].pc = "idle" /\ task'[x].from = None
           \/ /\ task[x].pc # "idle" /\ task'[x].pc # "idle"
              /\ task'[x].from = task[x].from /\ task'[x].user = task[x].user /\ task'[x].pos = task[x].pos
  <2>1. CASE task' = [task EXCEPT ![t] = NoTask]
    BY <2>1, <1>1 DEF TypeOK
  <2>2. CASE task[t].pc # "idle" /\ \E pc \in {"upsert", "insert", "record", "ack"} : TaskTo(t, pc)
    <3>1. PICK pc \in {"upsert", "insert", "record", "ack"} : TaskTo(t, pc)
      BY <2>2
    <3>2. task' \in [Tasks -> Task]
      BY <3>1 DEF TaskTo, TypeOK, Task
    <3>3. \A x \in Tasks : x # t => task'[x] = task[x]
      BY <3>1 DEF TaskTo, TypeOK
    <3>4. /\ task'[t].pc = pc /\ task'[t].from = task[t].from
          /\ task'[t].user = task[t].user /\ task'[t].pos = task[t].pos
      BY <3>1 DEF TaskTo, TypeOK, Task
    <3> QED BY <2>2, <3>2, <3>3, <3>4
  <2> QED BY <2>1, <2>2
<1>3. \A x \in Tasks : task'[x].from \in Sockets => socket'[task'[x].from].user = task'[x].user
  BY <1>2, Fields DEF TypeOK
<1>4. TypeOK'
  BY <1>2, <1>3 DEF TypeOK
<1>5. Faithful'
  BY <1>2 DEF Faithful, Open
<1> QED BY <1>4, <1>5

\* No step of a request or of time breaks the store's types.
LEMMA StoreKeeps ==
  ASSUME StoreTypeOK, NEW u \in Users, NEW p \in Places
  PROVE  /\ UpsertUpdate(u, p) /\ UNCHANGED suppression => StoreTypeOK'
         /\ UpsertInsert(u, p) /\ UNCHANGED suppression => StoreTypeOK'
         /\ UpsertSuppress(u, p) /\ UNCHANGED docs => StoreTypeOK'
         /\ RemoveDoc(u) /\ UNCHANGED suppression => StoreTypeOK'
         /\ RemoveSuppression(u) /\ UNCHANGED docs => StoreTypeOK'
<1> USE DEF StoreTypeOK
<1>0. docs[u] \in Seq(Document)
  OBVIOUS
<1>1. UpsertUpdate(u, p) => docs' \in [Users -> Seq(Document)]
  BY <1>0, ShownUpdate DEF UpsertUpdate
<1>2. UpsertInsert(u, p) => docs' \in [Users -> Seq(Document)]
  BY <1>0, ShownAppend DEF UpsertInsert
<1>3. RemoveDoc(u) => docs' \in [Users -> Seq(Document)]
  BY <1>0, ShownTail DEF RemoveDoc
<1>4. Doc(p) \in {d \in Document : d.age < UpdateInterval}
  BY DocIsLive, DbStoreAssumption
<1> QED BY <1>1, <1>2, <1>3, <1>4 DEF UpsertSuppress, RemoveSuppression

\* Faults are counted up to their bound.
LEMMA FaultKeeps ==
  ASSUME TypeOK, Fault \/ UNCHANGED faults
  PROVE  faults' \in 0 .. MaxFaults
BY LocationSessionAssumption DEF TypeOK, Fault

\* Requests on their way.
LEMMA TaskStepKeeps ==
  ASSUME SessionInv, NEW t \in Tasks, TaskStep(t)
  PROVE  SessionInv'
<1> USE DEF SessionInv
<1> DEFINE Quiet == UNCHANGED <<socket, closing, reported>>
<1>0. /\ task[t].pc # "idle"
      /\ task[t].user \in Users /\ task[t].pos \in Places
  <2>1. task[t].pc # "idle"
    BY DEF TaskStep, TaskCheck, TaskUpdate, TaskMiss, TaskInsert, TaskError, TaskRecord, TaskAck, TaskLost, TaskAt
  <2> QED BY <2>1, Fields DEF Faithful
<1>1. Quiet /\ (storeVars' = storeVars \/ StoreTypeOK') /\ (Fault \/ UNCHANGED faults)
        /\ (\/ \E pc \in {"upsert", "insert", "record", "ack"} : TaskTo(t, pc)
            \/ task' = [task EXCEPT ![t] = NoTask])
      => SessionInv'
  <2> SUFFICES ASSUME Quiet, storeVars' = storeVars \/ StoreTypeOK', Fault \/ UNCHANGED faults,
                      \/ \E pc \in {"upsert", "insert", "record", "ack"} : TaskTo(t, pc)
                      \/ task' = [task EXCEPT ![t] = NoTask]
               PROVE  SessionInv'
    OBVIOUS
  <2>1. StoreTypeOK'
    BY DEF TypeOK, StoreTypeOK, storeVars
  <2>2. faults' \in 0 .. MaxFaults
    BY FaultKeeps
  <2>3. socket' \in [Sockets -> Socket]
    BY DEF TypeOK
  <2>4. \A s \in Sockets : socket'[s].user = socket[s].user /\ socket'[s].last_pos = socket[s].last_pos
    OBVIOUS
  <2> QED BY <1>0, <2>1, <2>2, <2>3, <2>4, RequestKeeps
<1> HIDE DEF Quiet, SessionInv
<1>2. TypeOK /\ StoreTypeOK
  BY DEF SessionInv, TypeOK
<1>3. CASE TaskCheck(t)
  <2>1. TaskTo(t, "ack") \/ TaskTo(t, "upsert")
    BY <1>3 DEF TaskCheck
  <2>2. Quiet /\ storeVars' = storeVars /\ UNCHANGED faults
    BY <1>3 DEF TaskCheck, Quiet, storeVars
  <2> QED BY <1>1, <2>1, <2>2
<1>4. CASE TaskUpdate(t)
  <2>1. StoreTypeOK'
    BY <1>4, <1>0, <1>2, StoreKeeps DEF TaskUpdate
  <2>2. TaskTo(t, "record") /\ Quiet /\ UNCHANGED faults
    BY <1>4 DEF TaskUpdate, Quiet
  <2> QED BY <1>1, <2>1, <2>2
<1>5. CASE TaskMiss(t)
  <2>1. TaskTo(t, "insert") /\ Quiet /\ storeVars' = storeVars /\ UNCHANGED faults
    BY <1>5 DEF TaskMiss, Quiet, storeVars
  <2> QED BY <1>1, <2>1
<1>6. CASE TaskInsert(t)
  <2>1. StoreTypeOK'
    BY <1>6, <1>0, <1>2, StoreKeeps DEF TaskInsert
  <2>2. TaskTo(t, "record") /\ Quiet /\ UNCHANGED faults
    BY <1>6 DEF TaskInsert, Quiet
  <2> QED BY <1>1, <2>1, <2>2
<1>7. CASE TaskError(t)
  <2>1. TaskTo(t, "ack") /\ Quiet /\ storeVars' = storeVars /\ Fault
    BY <1>7 DEF TaskError, Quiet, storeVars
  <2> QED BY <1>1, <2>1
<1>8. CASE TaskRecord(t)
  <2>1. StoreTypeOK'
    BY <1>8, <1>0, <1>2, StoreKeeps DEF TaskRecord
  <2>2. TaskTo(t, "ack") /\ Quiet /\ UNCHANGED faults
    BY <1>8 DEF TaskRecord, Quiet
  <2> QED BY <1>1, <2>1, <2>2
<1>9. CASE TaskAck(t)
  <2>1. /\ socket' \in [Sockets -> Socket]
        /\ \A s \in Sockets : socket'[s].user = socket[s].user /\ socket'[s].last_pos = socket[s].last_pos
    <3>1. CASE task[t].from = None
      BY <3>1, <1>9, <1>2 DEF TaskAck, TypeOK
    <3>2. CASE task[t].from # None
      <4> DEFINE f == task[t].from
      <4>1. f \in Sockets /\ socket \in [Sockets -> Socket] /\ task[t].pos \in Places
        BY <3>2, <1>0, <1>2 DEF TypeOK, Task
      <4>2. socket' = [socket EXCEPT ![f].last_sent = task[t].pos]
        BY <3>2, <1>9 DEF TaskAck
      <4> HIDE DEF f
      <4>3. [socket[f] EXCEPT !.last_sent = task[t].pos] \in Socket
        BY <4>1 DEF Socket
      <4>4. socket' \in [Sockets -> Socket]
        BY <4>1, <4>2, <4>3
      <4> QED BY <4>1, <4>2, <4>4 DEF Socket
    <3> QED BY <3>1, <3>2
  <2>2. /\ task' = [task EXCEPT ![t] = NoTask]
        /\ UNCHANGED <<docs, suppression, closing, reported, faults>>
    BY <1>9 DEF TaskAck, storeVars
  <2>3. StoreTypeOK' /\ faults' \in 0 .. MaxFaults
    BY <1>2, <2>2, FaultKeeps DEF StoreTypeOK
  <2> QED BY <2>1, <2>2, <2>3, RequestKeeps
<1>10. CASE TaskLost(t)
  <2>1. task' = [task EXCEPT ![t] = NoTask] /\ Quiet /\ storeVars' = storeVars /\ Fault
    BY <1>10 DEF TaskLost, Quiet, storeVars
  <2> QED BY <1>1, <2>1
<1> QED BY <1>3, <1>4, <1>5, <1>6, <1>7, <1>8, <1>9, <1>10 DEF TaskStep

\* A step that touches neither sockets nor requests.
LEMMA StoreStepKeeps ==
  ASSUME SessionInv, StoreTypeOK', Fault \/ UNCHANGED faults,
         closing' \in [Users -> {"none", "sent", "suppression"}], UNCHANGED <<socket, task, reported>>
  PROVE  SessionInv'
<1>1. faults' \in 0 .. MaxFaults
  BY FaultKeeps DEF SessionInv
<1>2. TypeOK'
  BY <1>1 DEF SessionInv, TypeOK
<1>3. Faithful'
  BY DEF SessionInv, Faithful, Open
<1> QED BY <1>2, <1>3 DEF SessionInv

LEMMA DeleteStepKeeps ==
  ASSUME SessionInv, NEW u \in Users, DeleteStep(u)
  PROVE  SessionInv'
<1>0. StoreTypeOK /\ closing \in [Users -> {"none", "sent", "suppression"}]
  BY DEF SessionInv, TypeOK
<1>1. ASSUME NEW ok \in BOOLEAN, Delete(u, ok)
      PROVE  SessionInv'
  <2>1. closing' \in [Users -> {"none", "sent", "suppression"}]
    BY <1>0, <1>1 DEF Delete
  <2>2. UNCHANGED <<socket, task, reported, suppression>>
    BY <1>1 DEF Delete
  <2>3. (Fault /\ UNCHANGED docs) \/ (RemoveDoc(u) /\ UNCHANGED faults)
    BY <1>1 DEF Delete
  <2>4. RemoveDoc(u) => StoreTypeOK'
    <3>1. docs[u] \in Seq(Document)
      BY <1>0 DEF StoreTypeOK
    <3> QED BY <1>0, <2>2, <3>1, ShownTail DEF RemoveDoc, StoreTypeOK
  <2>5. StoreTypeOK'
    BY <1>0, <2>2, <2>3, <2>4 DEF StoreTypeOK
  <2> QED BY <2>1, <2>2, <2>3, <2>5, StoreStepKeeps
<1>2. CASE DeleteDone(u)
  <2>1. closing' \in [Users -> {"none", "sent", "suppression"}]
    BY <1>0, <1>2 DEF DeleteDone
  <2>2. UNCHANGED <<docs, socket, task, reported, faults>>
    BY <1>2 DEF DeleteDone
  <2>3. StoreTypeOK'
    BY <1>0, <1>2, <2>2 DEF DeleteDone, RemoveSuppression, StoreTypeOK
  <2> QED BY <2>1, <2>2, <2>3, StoreStepKeeps
<1>3. CASE DeleteLost(u)
  <2>1. closing' \in [Users -> {"none", "sent", "suppression"}]
    BY <1>0, <1>3 DEF DeleteLost
  <2>2. UNCHANGED <<docs, suppression, socket, task, reported>> /\ Fault
    BY <1>3 DEF DeleteLost, storeVars
  <2>3. StoreTypeOK'
    BY <1>0, <2>2 DEF StoreTypeOK
  <2> QED BY <2>1, <2>2, <2>3, StoreStepKeeps
<1> QED BY <1>1, <1>2, <1>3 DEF DeleteStep

LEMMA SweepKeeps ==
  ASSUME SessionInv, NEW u \in Users, Sweep(u)
  PROVE  SessionInv'
<1>0. StoreTypeOK /\ closing \in [Users -> {"none", "sent", "suppression"}]
  BY DEF SessionInv, TypeOK
<1>1. PICK i \in DOMAIN docs[u] : sweep(u, i)
  BY DEF Sweep
<1>2. docs[u] \in Seq(Document)
  BY <1>0 DEF StoreTypeOK
<1>3. RemoveAt(docs[u], i) \in Seq(Document)
  BY <1>2, ShownRemoveAt
<1>4. UNCHANGED <<suppression, socket, task, closing, reported, faults>>
  BY DEF Sweep
<1>5. StoreTypeOK'
  BY <1>0, <1>1, <1>3, <1>4 DEF StoreTypeOK, sweep
<1> QED BY <1>0, <1>4, <1>5, StoreStepKeeps

LEMMA TickKeeps ==
  ASSUME SessionInv, Tick
  PROVE  SessionInv'
<1>0. StoreTypeOK /\ closing \in [Users -> {"none", "sent", "suppression"}]
  BY DEF SessionInv, TypeOK
<1> DEFINE old(u) == [i \in DOMAIN docs[u] |->
                        [docs[u][i] EXCEPT !.age = IF Live(docs[u][i]) THEN @ + 1 ELSE @]]
           entry(u) == IF suppression[u] = None \/ suppression[u].age + 1 = UpdateInterval THEN None
                       ELSE [suppression[u] EXCEPT !.age = @ + 1]
<1>1. \A u \in Users : old(u) \in Seq(Document)
  BY <1>0, ShownAged DEF StoreTypeOK
<1>2. ASSUME NEW u \in Users
      PROVE  entry(u) \in {d \in Document : d.age < UpdateInterval} \cup {None}
  <2>1. suppression[u] \in {d \in Document : d.age < UpdateInterval} \cup {None}
    BY <1>0 DEF StoreTypeOK
  <2> QED BY <2>1, DbStoreAssumption DEF Document
<1>3. docs' = [u \in Users |-> old(u)] /\ suppression' = [u \in Users |-> entry(u)]
  BY DEF Tick, Age
<1>4. UNCHANGED <<socket, task, closing, reported, faults>>
  BY DEF Tick
<1> HIDE DEF old, entry
<1>5. StoreTypeOK'
  BY <1>1, <1>2, <1>3 DEF StoreTypeOK
<1> QED BY <1>0, <1>4, <1>5, StoreStepKeeps

\* location-service forgets: requests in it are gone, those on the way are not.
LEMMA RestartKeeps ==
  ASSUME SessionInv, Restart
  PROVE  SessionInv'
<1>0. TypeOK /\ Faithful
  BY DEF SessionInv
<1>1. NoTask \in Task /\ NoTask.pc = "idle" /\ NoTask.from = None
  BY DEF NoTask, Task
<1>2. task' \in [Tasks -> Task] /\ \A t \in Tasks : task'[t] = task[t] \/ task'[t] = NoTask
  BY <1>0, <1>1 DEF Restart, TypeOK
<1>3. closing' \in [Users -> {"none", "sent", "suppression"}]
  BY <1>0 DEF Restart, TypeOK
<1>4. UNCHANGED <<docs, socket, reported>> /\ StoreTypeOK'
  BY <1>0 DEF Restart, TypeOK, StoreTypeOK
<1>5. faults' \in 0 .. MaxFaults
  BY <1>0, FaultKeeps DEF Restart
<1>6. \A t \in Tasks : task'[t].from \in Sockets => socket'[task'[t].from].user = task'[t].user
  BY <1>0, <1>1, <1>2, <1>4, Fields DEF TypeOK
<1>7. TypeOK'
  BY <1>0, <1>2, <1>3, <1>4, <1>5, <1>6 DEF TypeOK
<1>8. Faithful'
  BY <1>0, <1>1, <1>2, <1>4 DEF Faithful, Open
<1> QED BY <1>7, <1>8 DEF SessionInv

\* Every step keeps the invariant.
LEMMA SessionStep ==
  ASSUME SessionInv, [Next]_vars
  PROVE  SessionInv'
<1>1. CASE UNCHANGED vars
  BY <1>1 DEF SessionInv, TypeOK, StoreTypeOK, Faithful, Open, vars
<1>2. CASE Next
  BY <1>2, ConnectKeeps, PositionKeeps, TimerPushKeeps, CloseKeeps, TaskStepKeeps, DeleteStepKeeps,
     SweepKeeps, TickKeeps, RestartKeeps DEF Next
<1> QED BY <1>1, <1>2

\* What a request carries, and what a socket remembers, was reported by its user: whatever
\* is lost, repeated or restarted, and whichever of a user's sockets is closed and reused.
THEOREM SessionInvariant == Spec => []SessionInv
<1>1. Init => SessionInv
  BY SessionInit
<1>2. SessionInv /\ [Next]_vars => SessionInv'
  BY SessionStep
<1> QED BY <1>1, <1>2, PTL DEF Spec

\* The types, and that a PUT belongs to the user of the socket it came from (ws.rs, the tasks
\* spawned by handle_location_ws).
THEOREM TypeCorrect == Spec => []TypeOK
<1>1. SessionInv => TypeOK
  BY DEF SessionInv
<1> QED BY <1>1, SessionInvariant, PTL

-----------------------------------------------------------------------------
(***************************************************************************)
(* The refinement: each step is one of LocationMap, or changes nothing     *)
(* that LocationMap knows of.                                              *)
(***************************************************************************)
\* What the map shows is what the store's documents show.
LEMMA ShownIs ==
  Shown = [u \in Users |-> ShownOf(docs[u])]
BY DEF Shown, shown_at, ShownOf

\* Nothing has happened yet.
LEMMA MapInit == Init => Map!Init
<1> SUFFICES ASSUME Init PROVE Map!Init
  OBVIOUS
<1>1. {socket[s].user : s \in {x \in Sockets : Open(x)}} = {}
  BY DEF Init, Open, NoSocket
<1>2. \A u \in Users : shown_at(u) = {}
  BY DEF Init, StoreInit, shown_at
<1>3. reported = [u \in Users |-> {}]
  BY DEF Init
<1> QED BY <1>1, <1>2, <1>3 DEF Map!Init

\* A step that changes no user of a socket, no report and no document is none of the map's.
LEMMA MapStutter ==
  ASSUME \A s \in Sockets : socket'[s].user = socket[s].user, UNCHANGED <<docs, reported>>
  PROVE  UNCHANGED Map!mapVars
<1>1. UNCHANGED Present
  BY DEF Present, Open
<1>2. UNCHANGED Shown
  BY DEF Shown, shown_at, Live
<1> QED BY <1>1, <1>2 DEF Map!mapVars, Present, Shown

\* A write of a request is the publication of a place its user reported.
LEMMA MapPublish ==
  ASSUME SessionInv, NEW t \in Tasks, TaskUpdate(t) \/ TaskInsert(t)
  PROVE  Map!Next
<1> USE DEF SessionInv
<1>1. TypeOK /\ Faithful /\ task[t].pc # "idle"
  BY DEF TaskUpdate, TaskInsert, TaskAt
<1>2. \E w \in Users, q \in Places : w = task[t].user /\ q = task[t].pos
  BY <1>1, Fields DEF Faithful
<1>3. PICK w \in Users, q \in Places : w = task[t].user /\ q = task[t].pos
  BY <1>2
<1>4. q \in reported[w] /\ docs[w] \in Seq(Document) /\ docs \in [Users -> Seq(Document)]
  BY <1>1, <1>3, Fields DEF Faithful, TypeOK, StoreTypeOK
<1>5. \E e : /\ docs' = [docs EXCEPT ![w] = e]
             /\ \E kept \in SUBSET ShownOf(docs[w]) : ShownOf(e) = kept \cup {q}
  <2>1. CASE TaskUpdate(t)
    <3>1. docs[w] # << >> /\ docs' = [docs EXCEPT ![w] = [@ EXCEPT ![1] = Doc(q)]]
      BY <2>1, <1>3 DEF TaskUpdate, UpsertUpdate
    <3>2. \E kept \in SUBSET ShownOf(docs[w]) : ShownOf([docs[w] EXCEPT ![1] = Doc(q)]) = kept \cup {q}
      BY <1>4, <3>1, ShownUpdate
    <3> QED BY <3>1, <3>2
  <2>2. CASE TaskInsert(t)
    <3>1. docs' = [docs EXCEPT ![w] = Append(@, Doc(q))]
      BY <2>2, <1>3 DEF TaskInsert, UpsertInsert
    <3>2. ShownOf(Append(docs[w], Doc(q))) = ShownOf(docs[w]) \cup {q}
      BY <1>4, ShownAppend
    <3> QED BY <3>1, <3>2
  <2> QED BY <2>1, <2>2
<1>6. PICK e : /\ docs' = [docs EXCEPT ![w] = e]
               /\ \E kept \in SUBSET ShownOf(docs[w]) : ShownOf(e) = kept \cup {q}
  BY <1>5
<1>7. PICK kept \in SUBSET ShownOf(docs[w]) : ShownOf(e) = kept \cup {q}
  BY <1>6
<1>8. Shown' = [Shown EXCEPT ![w] = kept \cup {q}]
  <2>1. Shown' = [u \in Users |-> ShownOf(docs'[u])]
    BY DEF Shown, shown_at, ShownOf, Live
  <2>2. \A u \in Users : docs'[u] = IF u = w THEN e ELSE docs[u]
    BY <1>4, <1>6
  <2>3. Shown' = [u \in Users |-> IF u = w THEN kept \cup {q} ELSE ShownOf(docs[u])]
    BY <2>1, <2>2, <1>7
  <2> QED BY <2>3, ShownIs
<1>9. UNCHANGED <<Present, reported>> /\ Shown[w] = ShownOf(docs[w])
  BY ShownIs DEF TaskUpdate, TaskInsert, Present, Open
<1>10. Map!Publish(w, q)
  BY <1>4, <1>7, <1>8, <1>9 DEF Map!Publish, Present, Shown
<1> QED BY <1>10 DEF Map!Next

\* Deleting and expiring documents withdraws places.
LEMMA MapWithdraw ==
  ASSUME SessionInv, UNCHANGED <<socket, reported>>,
         docs' \in [Users -> Seq(Document)],
         \A u \in Users : ShownOf(docs'[u]) \subseteq ShownOf(docs[u])
  PROVE  Map!Next
<1>1. Shown' = [u \in Users |-> ShownOf(docs'[u])]
  BY DEF Shown, shown_at, ShownOf, Live
<1>2. \A u \in Users : ShownOf(docs'[u]) \subseteq Places
  BY ShownArePlaces
<1>3. Shown' \in [Users -> SUBSET Places] /\ \A u \in Users : Shown'[u] \subseteq Shown[u]
  BY <1>1, <1>2, ShownIs
<1>4. UNCHANGED <<Present, reported>>
  BY DEF Present, Open
<1>5. Map!Withdraw
  BY <1>3, <1>4 DEF Map!Withdraw, Present, Shown
<1> QED BY <1>5 DEF Map!Next

\* The steps of the sockets.
LEMMA MapSocket ==
  ASSUME SessionInv, NEW s \in Sockets,
         \/ TimerPush(s) \/ Close(s) \/ \E p \in Places : Position(s, p)
         \/ \E u \in Users : Connect(s, u)
  PROVE  [Map!Next]_(Map!mapVars)
<1>0. TypeOK
  BY DEF SessionInv
<1>1. CASE TimerPush(s)
  BY <1>1, MapStutter DEF TimerPush, storeVars
<1>2. CASE Close(s)
  <2>1. Present' \subseteq Present
    BY <1>0, <1>2 DEF Close, Present, Open, NoSocket, TypeOK
  <2>2. UNCHANGED <<reported, Shown>>
    BY <1>2 DEF Close, storeVars, Shown, shown_at, Live
  <2>3. Present \subseteq Users
    BY <1>0, Fields DEF Present
  <2>4. PICK gone \in SUBSET Users : Present' = Present \ gone
    <3>1. Present' = Present \ (Present \ Present') /\ Present \ Present' \in SUBSET Users
      BY <2>1, <2>3
    <3> QED BY <3>1
  <2>5. Map!Depart(gone)
    BY <2>2, <2>4 DEF Map!Depart, Present, Shown
  <2> QED BY <2>4, <2>5 DEF Map!Next
<1>3. ASSUME NEW p \in Places, Position(s, p) PROVE Map!Next
  <2>1. \E w \in Users : w = socket[s].user
    BY <1>0, <1>3, Fields DEF Position
  <2>2. PICK w \in Users : w = socket[s].user
    BY <2>1
  <2>3. w \in Present /\ reported' = [reported EXCEPT ![w] = @ \cup {p}]
    BY <1>3, <2>2 DEF Position, Present
  <2>4. socket' = [socket EXCEPT ![s].last_pos = p] /\ socket \in [Sockets -> Socket]
    BY <1>0, <1>3 DEF Position, TypeOK
  <2>5. \A x \in Sockets : socket'[x].user = socket[x].user
    BY <2>4 DEF Socket
  <2>6. UNCHANGED <<Present, Shown>>
    BY <1>3, <2>5 DEF Position, storeVars, Present, Open, Shown, shown_at, Live
  <2>7. Map!Report(w, p)
    BY <2>3, <2>6 DEF Map!Report, Present, Shown
  <2> QED BY <2>7 DEF Map!Next
<1>4. ASSUME NEW u \in Users, Connect(s, u) PROVE Map!Next
  <2>1. \A x \in Sockets : socket'[x].user = IF x = s THEN u ELSE socket[x].user
    BY <1>0, <1>4 DEF Connect, TypeOK, NoSocket
  <2>2. u # None /\ socket[s].user = None
    BY <1>0, <1>4, Fields DEF Connect, Open
  <2>3. Present' \subseteq Present \cup {u}
    BY <2>1 DEF Present, Open
  <2>4. Present \cup {u} \subseteq Present'
    BY <2>1, <2>2 DEF Present, Open
  <2>5. UNCHANGED <<reported, Shown>>
    BY <1>4 DEF Connect, storeVars, Shown, shown_at, Live
  <2>6. Present' = Present \cup {u}
    BY <2>3, <2>4
  <2>7. Map!Arrive(u)
    BY <2>5, <2>6 DEF Map!Arrive, Present, Shown
  <2> QED BY <2>7 DEF Map!Next
<1> QED BY <1>1, <1>2, <1>3, <1>4

\* The steps of the requests.
LEMMA MapTask ==
  ASSUME SessionInv, NEW t \in Tasks, TaskStep(t)
  PROVE  [Map!Next]_(Map!mapVars)
<1>0. socket \in [Sockets -> Socket] /\ task \in [Tasks -> Task]
  BY DEF SessionInv, TypeOK
<1>1. CASE TaskUpdate(t) \/ TaskInsert(t)
  BY <1>1, MapPublish
<1>2. CASE TaskCheck(t) \/ TaskMiss(t) \/ TaskError(t) \/ TaskRecord(t) \/ TaskLost(t)
  <2>1. UNCHANGED <<socket, docs, reported>>
    BY <1>2 DEF TaskCheck, TaskMiss, TaskError, TaskRecord, TaskLost, storeVars
  <2> QED BY <2>1, MapStutter
<1>3. CASE TaskAck(t)
  <2>1. UNCHANGED <<docs, reported>>
    BY <1>3 DEF TaskAck, storeVars
  <2>2. \A s \in Sockets : socket'[s].user = socket[s].user
    <3>1. CASE task[t].from = None
      BY <3>1, <1>3 DEF TaskAck
    <3>2. CASE task[t].from # None
      <4> DEFINE f == task[t].from
      <4>1. socket' = [socket EXCEPT ![f].last_sent = task[t].pos]
        BY <3>2, <1>3 DEF TaskAck
      <4> HIDE DEF f
      <4> QED BY <1>0, <4>1 DEF Socket
    <3> QED BY <3>1, <3>2
  <2> QED BY <2>1, <2>2, MapStutter
<1> QED BY <1>1, <1>2, <1>3 DEF TaskStep

\* The steps of the store only take away what is shown.
LEMMA StoreWithdraws ==
  ASSUME SessionInv, \/ \E u \in Users : DeleteStep(u) \/ Sweep(u)
                     \/ Restart \/ Tick
  PROVE  /\ UNCHANGED <<socket, reported>> /\ docs' \in [Users -> Seq(Document)]
         /\ \A u \in Users : ShownOf(docs'[u]) \subseteq ShownOf(docs[u])
<1>0. docs \in [Users -> Seq(Document)]
  BY DEF SessionInv, TypeOK, StoreTypeOK
<1> DEFINE Less == /\ docs' \in [Users -> Seq(Document)]
                   /\ \A u \in Users : ShownOf(docs'[u]) \subseteq ShownOf(docs[u])
<1>1. ASSUME NEW u \in Users, NEW e \in Seq(Document), ShownOf(e) \subseteq ShownOf(docs[u]),
             docs' = [docs EXCEPT ![u] = e]
      PROVE  Less
  <2>1. docs' \in [Users -> Seq(Document)]
    BY <1>0, <1>1
  <2>2. \A w \in Users : docs'[w] = IF w = u THEN e ELSE docs[w]
    BY <1>0, <1>1
  <2> QED BY <1>1, <2>1, <2>2
<1>2. ASSUME UNCHANGED docs
      PROVE  Less
  BY <1>0, <1>2
<1>3. ASSUME NEW u \in Users, NEW ok \in BOOLEAN, Delete(u, ok)
      PROVE  UNCHANGED <<socket, reported>> /\ Less
  <2>1. UNCHANGED <<socket, reported>> /\ (docs' = docs \/ RemoveDoc(u))
    BY <1>3 DEF Delete
  <2>2. CASE docs' = docs
    BY <1>2, <2>1, <2>2
  <2>3. CASE docs' # docs
    <3>1. docs[u] # << >> /\ docs' = [docs EXCEPT ![u] = Tail(docs[u])]
      BY <1>0, <2>1, <2>3 DEF RemoveDoc
    <3>2. Tail(docs[u]) \in Seq(Document) /\ ShownOf(Tail(docs[u])) \subseteq ShownOf(docs[u])
      BY <1>0, <3>1, ShownTail
    <3> QED BY <1>1, <2>1, <3>1, <3>2
  <2> QED BY <2>2, <2>3
<1>4. ASSUME NEW u \in Users, DeleteDone(u) \/ DeleteLost(u)
      PROVE  UNCHANGED <<socket, reported>> /\ Less
  BY <1>2, <1>4 DEF DeleteDone, DeleteLost, storeVars
<1>5. ASSUME NEW u \in Users, Sweep(u)
      PROVE  UNCHANGED <<socket, reported>> /\ Less
  <2>1. PICK i \in DOMAIN docs[u] : sweep(u, i)
    BY <1>5 DEF Sweep
  <2>2. RemoveAt(docs[u], i) \in Seq(Document) /\ ShownOf(RemoveAt(docs[u], i)) \subseteq ShownOf(docs[u])
    BY <1>0, ShownRemoveAt
  <2>3. docs' = [docs EXCEPT ![u] = RemoveAt(docs[u], i)] /\ UNCHANGED <<socket, reported>>
    BY <1>5, <2>1 DEF Sweep, sweep
  <2> QED BY <1>1, <2>2, <2>3
<1>6. CASE Restart
  BY <1>2, <1>6 DEF Restart
<1>7. CASE Tick
  <2> DEFINE old(u) == [i \in DOMAIN docs[u] |->
                          [docs[u][i] EXCEPT !.age = IF Live(docs[u][i]) THEN @ + 1 ELSE @]]
  <2>1. \A u \in Users : old(u) \in Seq(Document) /\ ShownOf(old(u)) \subseteq ShownOf(docs[u])
    BY <1>0, ShownAged
  <2>2. docs' = [u \in Users |-> old(u)] /\ UNCHANGED <<socket, reported>>
    BY <1>7 DEF Tick, Age
  <2> HIDE DEF old
  <2> QED BY <2>1, <2>2
<1> QED BY <1>3, <1>4, <1>5, <1>6, <1>7 DEF DeleteStep

LEMMA MapStore ==
  ASSUME SessionInv, \/ \E u \in Users : DeleteStep(u) \/ Sweep(u)
                     \/ Restart \/ Tick
  PROVE  Map!Next
BY StoreWithdraws, MapWithdraw

\* The sockets, the requests and the document store together implement LocationMap: others
\* see a user only where the user's own client has reported to be.
THEOREM MapImplemented == Spec => ImplementsMap
<1>1. Init => Map!Init
  BY MapInit
<1>2. SessionInv /\ [Next]_vars => [Map!Next]_(Map!mapVars)
  <2> SUFFICES ASSUME SessionInv, [Next]_vars
               PROVE  [Map!Next]_(Map!mapVars)
    OBVIOUS
  <2>1. CASE UNCHANGED vars
    BY <2>1, MapStutter DEF vars
  <2>2. CASE Next
    BY <2>2, MapSocket, MapTask, MapStore DEF Next
  <2> QED BY <2>1, <2>2
<1> QED BY <1>1, <1>2, SessionInvariant, PTL DEF Spec, ImplementsMap, Map!Spec

-----------------------------------------------------------------------------
(***************************************************************************)
(* The safety half of GoneForGood: nothing but a PUT still under way, or a *)
(* new connection, brings a user back to the map.                          *)
(***************************************************************************)
\* No request of u is under way.
NoPut(u) == \A t \in Tasks : task[t].pc # "idle" => task[t].user # u

\* u has no client and no request, and no document that is shown.
Off(u) == u \notin Present /\ NoPut(u) /\ shown_at(u) = {}

\* Only a socket of u sends requests for u.
LEMMA NoNewPut ==
  ASSUME SessionInv, [Next]_vars, NEW u \in Users, u \notin Present, NoPut(u)
  PROVE  NoPut(u)'
<1>0. task \in [Tasks -> Task] /\ NoTask.pc = "idle"
  BY DEF SessionInv, TypeOK, NoTask
<1>1. ASSUME NEW s \in Sockets, Open(s), NEW p, NEW timer, Put(s, p, timer)
      PROVE  NoPut(u)'
  <2>1. PICK t : task' = [task EXCEPT ![t] = [pc |-> "put", user |-> socket[s].user, pos |-> p,
                                              from |-> s, timer |-> timer]]
    BY <1>1 DEF Put
  <2>2. socket[s].user # u
    BY <1>1 DEF Present
  <2>3. \A x \in Tasks : task'[x].user = socket[s].user \/ task'[x] = task[x]
    BY <1>0, <2>1
  <2> QED BY <2>2, <2>3 DEF NoPut
<1>2. ASSUME UNCHANGED task
      PROVE  NoPut(u)'
  BY <1>2 DEF NoPut
<1>3. ASSUME NEW s \in Sockets, TimerPush(s) \/ Close(s) \/ (\E p \in Places : Position(s, p))
                                \/ (\E w \in Users : Connect(s, w))
      PROVE  NoPut(u)'
  <2>1. CASE TimerPush(s)
    BY <1>1, <2>1 DEF TimerPush
  <2>2. CASE Close(s)
    <3>1. task' = [t \in Tasks |-> IF task[t].from = s
                                   THEN [task[t] EXCEPT !.from = None, !.timer = FALSE] ELSE task[t]]
      BY <2>2 DEF Close
    <3>2. \A t \in Tasks : task'[t].pc = task[t].pc /\ task'[t].user = task[t].user
      BY <1>0, <3>1 DEF Task
    <3> QED BY <3>2 DEF NoPut
  <2>3. ASSUME NEW p \in Places, Position(s, p)
        PROVE  NoPut(u)'
    BY <1>1, <1>2, <2>3 DEF Position
  <2>4. ASSUME NEW w \in Users, Connect(s, w)
        PROVE  NoPut(u)'
    BY <1>2, <2>4 DEF Connect
  <2> QED BY <1>3, <2>1, <2>2, <2>3, <2>4
<1>4. ASSUME NEW t \in Tasks, TaskStep(t)
      PROVE  NoPut(u)'
  <2>1. task[t].pc # "idle"
    BY <1>4 DEF TaskStep, TaskCheck, TaskUpdate, TaskMiss, TaskInsert, TaskError, TaskRecord, TaskAck,
                TaskLost, TaskAt
  <2>2. task' = [task EXCEPT ![t] = NoTask] \/ \E pc : task' = [task EXCEPT ![t].pc = pc]
    BY <1>4 DEF TaskStep, TaskCheck, TaskUpdate, TaskMiss, TaskInsert, TaskError, TaskRecord, TaskAck,
                TaskLost, TaskTo
  <2>3. \A x \in Tasks : x # t => task'[x] = task[x]
    BY <1>0, <2>2
  <2>4. task'[t].pc = "idle" \/ task'[t].user = task[t].user
    BY <1>0, <2>2 DEF Task
  <2> QED BY <2>1, <2>3, <2>4 DEF NoPut
<1>5. ASSUME NEW w \in Users, DeleteStep(w) \/ Sweep(w)
      PROVE  NoPut(u)'
  BY <1>2, <1>5 DEF DeleteStep, Delete, DeleteDone, DeleteLost, Sweep
<1>6. CASE Restart
  <2>1. \A t \in Tasks : task'[t] = NoTask \/ task'[t] = task[t]
    BY <1>6 DEF Restart
  <2> QED BY <1>0, <2>1 DEF NoPut
<1>7. CASE Tick \/ UNCHANGED vars
  BY <1>2, <1>7 DEF Tick, vars
<1> QED BY <1>3, <1>4, <1>5, <1>6, <1>7 DEF Next

\* Only a request of u adds to what is shown of u.
LEMMA NoNewPlace ==
  ASSUME SessionInv, [Next]_vars, NEW u \in Users, NoPut(u)
  PROVE  ShownOf(docs'[u]) \subseteq ShownOf(docs[u])
<1>0. docs \in [Users -> Seq(Document)]
  BY DEF SessionInv, TypeOK, StoreTypeOK
<1>1. ASSUME NEW t \in Tasks, TaskUpdate(t) \/ TaskInsert(t)
      PROVE  docs'[u] = docs[u]
  <2>1. task[t].user # u
    BY <1>1 DEF NoPut, TaskUpdate, TaskInsert, TaskAt
  <2>2. \E e : docs' = [docs EXCEPT ![task[t].user] = e]
    BY <1>1 DEF TaskUpdate, TaskInsert, UpsertUpdate, UpsertInsert
  <2> QED BY <1>0, <2>1, <2>2
<1>2. ASSUME NEW t \in Tasks, TaskStep(t)
      PROVE  docs'[u] = docs[u]
  BY <1>1, <1>2 DEF TaskStep, TaskCheck, TaskMiss, TaskError, TaskRecord, TaskAck, TaskLost, storeVars
<1>3. ASSUME NEW s \in Sockets, TimerPush(s) \/ Close(s) \/ (\E p \in Places : Position(s, p))
                                \/ (\E w \in Users : Connect(s, w))
      PROVE  docs' = docs
  BY <1>3 DEF TimerPush, Close, Position, Connect, storeVars
<1>4. CASE UNCHANGED vars
  BY <1>4 DEF vars
<1> QED BY <1>2, <1>3, <1>4, StoreWithdraws DEF Next

\* A user who has left, whose last request has ended and whose documents are gone or
\* expired stays off the map until the user's next connection: no DELETE, restart,
\* late reply, reuse of a socket or write of another user brings an old place back.
THEOREM GoneStaysGone ==
  ASSUME NEW u \in Users
  PROVE  Spec => [](Off(u) /\ [](u \notin Present) => [](shown_at(u) = {}))
<1>1. SessionInv /\ [Next]_vars /\ Off(u) /\ (u \notin Present)' => Off(u)'
  <2> SUFFICES ASSUME SessionInv, [Next]_vars, Off(u), (u \notin Present)'
               PROVE  Off(u)'
    OBVIOUS
  <2>1. NoPut(u)'
    BY NoNewPut DEF Off
  <2>2. ShownOf(docs'[u]) \subseteq ShownOf(docs[u])
    BY NoNewPlace DEF Off
  <2>3. shown_at(u) = ShownOf(docs[u]) /\ shown_at(u)' = ShownOf(docs'[u])
    BY DEF shown_at, ShownOf, Live
  <2>4. shown_at(u)' = {}
    BY <2>2, <2>3 DEF Off
  <2> QED BY <2>1, <2>4 DEF Off
<1>2. Off(u) => shown_at(u) = {}
  BY DEF Off
<1> QED BY <1>1, <1>2, SessionInvariant, PTL DEF Spec

=============================================================================
