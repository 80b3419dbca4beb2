------------------------------ MODULE RateLimit ------------------------------
(***************************************************************************)
(* The limiters a message passes: per IP at the gateway's HTTP route       *)
(* (FixedWindow), per user on the gateway's WebSocket (ws_check_send), and *)
(* per user in messages-service (check_user_rate).  All count in fixed     *)
(* windows that start with the first request after the last one ended.     *)
(*                                                                         *)
(* Settings come from the database, once a minute and each service for     *)
(* itself; the gateway then replaces its limiters by empty ones.  One IP   *)
(* and one user: the buckets of others are independent.                    *)
(***************************************************************************)
EXTENDS Naturals, FiniteSetsExt

CONSTANTS
  Settings,      \* [max, window]: what an administrator may set
  Default,       \* what counts when the settings cannot be read
  WsSetting,     \* WS_SEND_LIMIT and WS_SEND_WINDOW
  InFlight,      \* bound on requests between the two services
  MaxOps         \* bound on changes of the settings
Limiters == {"ip", "ws", "user"}
All      == Settings \cup {WsSetting}
Stored   == {"ip", "user"}                \* limiters with settings in the database
Span     == Min({s.window : s \in All})
Longest  == Max({s.window : s \in All})
Most     == Max({s.max : s \in All})

\* The maximum and the window are two settings, so they combine in every way.  Both are
\* machine integers: there is a largest maximum and a longest window.
ASSUME RateLimitAssumption ==
  /\ \A s \in All : s.max \in Nat \ {0} /\ s.window \in Nat \ {0}
  /\ \E s \in All : \A r \in All : r.max <= s.max
  /\ \E s \in All : \A r \in All : r.window <= s.window
  /\ Default \in Settings
  /\ InFlight \in Nat /\ MaxOps \in Nat
  /\ Settings = [max : {s.max : s \in Settings}, window : {s.window : s \in Settings}]

VARIABLES
  settings,    \* in the database: for the gateway's limiter and for that of messages-service
  lim,         \* what each limiter works with
  bucket,      \* requests counted in the current window, and its age
  inflight,    \* requests the gateway has passed to messages-service
  passed,      \* history: requests each limiter passed, by age
  resets,      \* history: replacements of the gateway's limiter, by age
  refused,     \* history: the limiter that has just refused, or "none"
  ops

vars == <<settings, lim, bucket, inflight, passed, resets, refused, ops>>

Ages  == 0 .. Longest - 1
Empty == [count |-> 0, age |-> 0]

\* What h counts, within the last w ticks: h[a] events of each age a.
Events(h, w) == UNION {{a} \X (1 .. h[a]) : a \in 0 .. w - 1}
Total(h, w) == Cardinality(Events(h, w))

Init ==
  /\ settings = [l \in Stored |-> Default]
  /\ lim = [l \in Limiters |-> IF l = "ws" THEN WsSetting ELSE settings[l]]
  /\ bucket = [l \in Limiters |-> Empty]
  /\ inflight = 0
  /\ passed = [l \in Limiters |-> [a \in Ages |-> 0]] /\ resets = [a \in Ages |-> 0]
  /\ refused = "none" /\ ops = 0

\* Mutant: a window lasts one tick longer.
EntryLate(l) == IF bucket[l].count = 0 \/ bucket[l].age > lim[l].window THEN Empty ELSE bucket[l]
\* The entry a check finds: the first request, and the first after the window is over,
\* start a window now.
Entry(l) == IF bucket[l].count = 0 \/ bucket[l].age >= lim[l].window THEN Empty ELSE bucket[l]
\* Mutant: one request too many.
AllowsOneMore(l) == Entry(l).count <= lim[l].max
Allows(l) == Entry(l).count < lim[l].max

\* Mutant: every limiter counts what it refuses, without end.
CountedAlways(l) == Entry(l).count + 1
\* FixedWindow::check and check_user_rate count what they pass; ws_check_send counts
\* refused requests too (here up to one over the limit).
Counted(l) == IF Allows(l) THEN Entry(l).count + 1
              ELSE IF l = "ws" THEN lim[l].max + 1 ELSE Entry(l).count

Check(l) ==
  /\ bucket' = [bucket EXCEPT ![l] = [count |-> Counted(l), age |-> Entry(l).age]]
  /\ passed' = IF Allows(l) THEN [passed EXCEPT ![l][0] = @ + 1] ELSE passed
  /\ refused' = IF Allows(l) THEN "none" ELSE l
  /\ UNCHANGED <<settings, lim, resets, ops>>

\* POST /api/messages, or "send" on the WebSocket.
Request(l) ==
  /\ inflight < InFlight
  /\ Check(l)
  /\ inflight' = IF Allows(l) THEN inflight + 1 ELSE inflight

Handle ==
  /\ inflight > 0
  /\ Check("user")
  /\ inflight' = inflight - 1

Lost ==
  /\ inflight > 0
  /\ inflight' = inflight - 1 /\ refused' = "none"
  /\ UNCHANGED <<settings, lim, bucket, passed, resets, ops>>

admin_put_setting(l, s) ==
  /\ ops < MaxOps /\ settings[l] # s
  /\ s.max = settings[l].max \/ s.window = settings[l].window
  /\ settings' = [settings EXCEPT ![l] = s] /\ ops' = ops + 1 /\ refused' = "none"
  /\ UNCHANGED <<lim, bucket, inflight, passed, resets>>

\* What a service finds: each setting, or its default when it cannot be read.
Read(l) == [max : {settings[l].max, Default.max}, window : {settings[l].window, Default.window}]

\* The gateway's refresh task: a new, empty FixedWindow, changed or not, once a tick.
RefreshGateway ==
  /\ resets[0] = 0
  /\ \E s \in Read("ip") : lim' = [lim EXCEPT !["ip"] = s]
  /\ bucket' = [bucket EXCEPT !["ip"] = Empty]
  /\ resets' = [resets EXCEPT ![0] = 1] /\ refused' = "none"
  /\ UNCHANGED <<settings, inflight, passed, ops>>

\* Mutant: the buckets are emptied.
RefreshMessagesEmpty ==
  /\ \E s \in Read("user") \ {lim["user"]} : lim' = [lim EXCEPT !["user"] = s]
  /\ refused' = "none"
  /\ bucket' = [bucket EXCEPT !["user"] = Empty]
  /\ UNCHANGED <<settings, inflight, passed, resets, ops>>

\* That of messages-service, with load_msg_settings: the buckets stay.
RefreshMessages ==
  /\ \E s \in Read("user") \ {lim["user"]} : lim' = [lim EXCEPT !["user"] = s]
  /\ refused' = "none"
  /\ UNCHANGED <<settings, bucket, inflight, passed, resets, ops>>

Shift(h) == [a \in Ages |-> IF a = 0 THEN 0 ELSE h[a - 1]]

Tick ==
  /\ bucket' = [l \in Limiters |-> [bucket[l] EXCEPT !.age = IF @ < Longest THEN @ + 1 ELSE @]]
  /\ passed' = [l \in Limiters |-> Shift(passed[l])] /\ resets' = Shift(resets)
  /\ refused' = "none"
  /\ UNCHANGED <<settings, lim, inflight, ops>>

Next ==
  \/ \E l \in {"ip", "ws"} : Request(l)
  \/ Handle \/ Lost \/ RefreshGateway \/ RefreshMessages \/ Tick
  \/ \E l \in Stored, s \in Settings : admin_put_setting(l, s)

Spec == Init /\ [][Next]_vars

(***************************************************************************)
(* Properties.                                                             *)
(***************************************************************************)
\* Types: a bucket never counts more than one refused request beyond the largest limit.
TypeOK ==
  /\ settings \in [Stored -> Settings] /\ lim \in [Limiters -> All] /\ inflight \in 0 .. InFlight
  /\ bucket \in [Limiters -> [count : 0 .. Most + 1, age : 0 .. Longest]]
  /\ passed \in [Limiters -> [Ages -> Nat]] /\ resets \in [Ages -> 0 .. 1]
  /\ refused \in Limiters \cup {"none"} /\ ops \in 0 .. MaxOps

\* Within the shortest window fewer than twice the limit of a user's messages get through
\* to the database (a window opens with a request, so one of the first window's is older),
\* over both routes and whatever the settings change to meanwhile.
UserBurst == Total(passed["user"], Span) < 2 * Most

\* The same for the WebSocket, whose limiter also counts what it refuses.
SocketBurst == Total(passed["ws"], WsSetting.window) < 2 * WsSetting.max

\* The gateway's own limit is weaker: each refresh forgets the requests counted so far
\* and allows another window's worth.
IpBurst == Total(passed["ip"], Span) < (2 + Total(resets, Span)) * Most

\* Nobody is refused who has not used up the limit in force within the window in force:
\* refused requests do not extend a window, nor do changes of the settings.
RefusedForCause ==
  refused \in Limiters => Total(passed[refused], lim[refused].window) >= lim[refused].max

=============================================================================
