--------------------------- MODULE RateLimitProofs ---------------------------
(***************************************************************************)
(* How much the limiters let through, for every choice of settings and any *)
(* number of requests, refreshes and changes.                              *)
(***************************************************************************)
EXTENDS RateLimit, FiniteSetTheorems, TLAPS

(***************************************************************************)
(* The inductive invariant.                                                *)
(***************************************************************************)
\* Each limiter's shortest window and largest maximum.
Shortest(l) == IF l = "ws" THEN WsSetting.window ELSE Span
Largest(l)  == IF l = "ws" THEN WsSetting.max ELSE Most

\* The requests of the current window that a limiter passed: that of the WebSocket
\* goes on counting after them.
Used(l) == IF bucket[l].count > Largest(l) THEN Largest(l) ELSE bucket[l].count

\* Replacements of a limiter within the last w ticks.
Replaced(l, w) == IF l = "ip" THEN Total(resets, w) ELSE 0

\* The request that opened the window is as old as the window, and no request of an
\* earlier window is younger.
OpenedFirst(l) ==
  Total(passed[l], bucket[l].age) <= IF bucket[l].count = 0 THEN 0 ELSE Used(l) - 1

\* What was passed as long ago as the shortest window before the current one opened:
\* the current window's requests, less than a limit's worth before it, and a limit's
\* worth for every replacement.
BoundedBefore(l) ==
  \A w \in 0 .. Longest :
    w <= bucket[l].age + Shortest(l) =>
      Total(passed[l], w) < Used(l) + (1 + Replaced(l, w)) * Largest(l)

\* The current window's requests are remembered as long as the window is.
Remembered(l) == bucket[l].age < Longest => Total(passed[l], bucket[l].age + 1) >= Used(l)

Bounded(l) == OpenedFirst(l) /\ BoundedBefore(l) /\ Remembered(l)

\* The limiter of the WebSocket keeps its constants, and no bucket counts more than its
\* limiter's maximum, that of the WebSocket one more.
Counts ==
  /\ lim["ws"] = WsSetting
  /\ \A l \in Limiters : bucket[l].count <= Largest(l) + (IF l = "ws" THEN 1 ELSE 0)

LimitInv == TypeOK /\ Counts /\ (\A l \in Limiters : Bounded(l)) /\ RefusedForCause

(***************************************************************************)
(* The shortest and longest window and the largest maximum.                *)
(***************************************************************************)
\* A set of naturals that is not empty has a least element.
LEMMA LeastExists ==
  ASSUME NEW S \in SUBSET Nat, S # {}
  PROVE  \E x \in S : \A y \in S : x <= y
<1> DEFINE R == OpToRel(<, Nat)
<1>1. IsWellFoundedOn(R, Nat)
  BY NatLessThanWellFounded
<1>2. \A p, q \in Nat : p < q => <<p, q>> \in R
  BY DEF OpToRel
<1> HIDE DEF R
<1>3. S \subseteq Nat
  OBVIOUS
<1>4. \E x \in S : \A y \in S : ~(<<y, x>> \in R)
  BY <1>1, <1>3, WFMin, Zenon
<1>5. PICK x \in S : \A y \in S : ~(<<y, x>> \in R)
  BY <1>4
<1>6. ASSUME NEW y \in S PROVE x <= y
  <2>1. x \in Nat /\ y \in Nat
    BY <1>3
  <2>2. ~(y < x)
    BY <1>2, <1>5, <2>1, Zenon
  <2>3. QED BY <2>1, <2>2
<1>7. QED BY <1>6

LEMMA SpanLeast == Span \in Nat \ {0} /\ \A s \in All : Span <= s.window
<1> DEFINE W == {s.window : s \in All}
<1>1. W \in SUBSET Nat /\ W # {}
  BY RateLimitAssumption DEF All
<1>2. PICK x \in W : \A y \in W : x <= y
  BY <1>1, LeastExists
<1>3. Span \in W /\ \A y \in W : Span <= y
  BY <1>2 DEF Span, Min
<1>4. QED BY <1>3, RateLimitAssumption

LEMMA LongestMost ==
  /\ Longest \in Nat \ {0} /\ \A s \in All : s.window <= Longest
  /\ Most \in Nat \ {0} /\ \A s \in All : s.max <= Most
<1> DEFINE W == {s.window : s \in All}
           M == {s.max : s \in All}
<1>1. W \in SUBSET Nat /\ M \in SUBSET Nat
  BY RateLimitAssumption
<1>2. \E x \in W : \A y \in W : x >= y
  BY <1>1, RateLimitAssumption
<1>3. \E x \in M : \A y \in M : x >= y
  BY <1>1, RateLimitAssumption
<1>4. Longest \in W /\ \A y \in W : Longest >= y
  BY <1>2 DEF Longest, Max
<1>5. Most \in M /\ \A y \in M : Most >= y
  BY <1>3 DEF Most, Max
<1>6. QED BY <1>1, <1>4, <1>5, RateLimitAssumption

\* Every limiter works with a window that is not shorter than the shortest one, and with
\* a maximum that is not above the largest.
LEMMA LimiterBounds ==
  ASSUME NEW l \in Limiters
  PROVE  /\ Shortest(l) \in Nat \ {0} /\ Shortest(l) <= Longest
         /\ Largest(l) \in Nat \ {0} /\ Largest(l) <= Most
         /\ \A s \in All : (l = "ws" => s = WsSetting) =>
              Shortest(l) <= s.window /\ s.max <= Largest(l)
<1>1. WsSetting \in All
  BY DEF All
<1>2. /\ WsSetting.window \in Nat \ {0} /\ WsSetting.window <= Longest
      /\ WsSetting.max \in Nat \ {0} /\ WsSetting.max <= Most
      /\ Span \in Nat /\ Span <= WsSetting.window
  BY <1>1, SpanLeast, LongestMost, RateLimitAssumption, Zenon
<1>3. CASE l = "ws"
  BY <1>2, <1>3 DEF Shortest, Largest
<1>4. CASE l # "ws"
  <2>1. Shortest(l) = Span /\ Largest(l) = Most
    BY <1>4 DEF Shortest, Largest
  <2>2. Longest \in Nat /\ Most \in Nat
    BY LongestMost
  <2>3. Span <= Longest /\ Most <= Most
    BY <1>2, <2>2
  <2>4. QED BY <2>1, <2>2, <2>3, <1>4, SpanLeast, LongestMost, Zenon
<1>5. QED BY <1>3, <1>4

(***************************************************************************)
(* Counting.                                                               *)
(***************************************************************************)
History == [Ages -> Nat]

LEMMA EventsAre ==
  ASSUME NEW h \in History, NEW w \in 0 .. Longest
  PROVE  \A e : e \in Events(h, w) <=> \E a \in 0 .. w - 1 : \E n \in 1 .. h[a] : e = <<a, n>>
BY DEF Events

\* An event of the last tick more.
LEMMA EventsAdd ==
  ASSUME NEW h \in History, NEW w \in 1 .. Longest
  PROVE  /\ [h EXCEPT ![0] = h[0] + 1] \in History
         /\ Events([h EXCEPT ![0] = h[0] + 1], w) = Events(h, w) \cup {<<0, h[0] + 1>>}
         /\ <<0, h[0] + 1>> \notin Events(h, w)
<1> DEFINE g == [h EXCEPT ![0] = h[0] + 1]
<1>1. Longest \in Nat /\ 0 \in Ages /\ h[0] \in Nat
  BY LongestMost DEF Ages, History
<1>2. g \in History /\ g[0] = h[0] + 1 /\ \A a \in Ages : a # 0 => g[a] = h[a]
  BY <1>1 DEF History
<1>3. \A a \in 0 .. w - 1 : a \in Ages
  BY <1>1 DEF Ages
<1>4. w \in 0 .. Longest /\ 0 \in 0 .. w - 1
  BY <1>1
<1> HIDE DEF g
<1>5. ASSUME NEW e PROVE e \in Events(g, w) <=> e \in Events(h, w) \cup {<<0, h[0] + 1>>}
  <2>1. e \in Events(g, w) <=> \E a \in 0 .. w - 1 : \E n \in 1 .. g[a] : e = <<a, n>>
    BY <1>2, <1>4, EventsAre
  <2>2. e \in Events(h, w) <=> \E a \in 0 .. w - 1 : \E n \in 1 .. h[a] : e = <<a, n>>
    BY <1>4, EventsAre
  <2>3. ASSUME e \in Events(g, w) PROVE e \in Events(h, w) \cup {<<0, h[0] + 1>>}
    <3>1. PICK a \in 0 .. w - 1 : \E n \in 1 .. g[a] : e = <<a, n>>
      BY <2>1, <2>3
    <3>2. PICK n \in 1 .. g[a] : e = <<a, n>>
      BY <3>1
    <3>3. CASE n \in 1 .. h[a]
      BY <3>2, <3>3, <2>2
    <3>4. CASE n \notin 1 .. h[a]
      <4>1. a = 0 /\ n = h[0] + 1
        BY <3>4, <1>1, <1>2, <1>3
      <4>2. QED BY <4>1, <3>2
    <3>5. QED BY <3>3, <3>4
  <2>4. ASSUME e \in Events(h, w) PROVE e \in Events(g, w)
    <3>1. PICK a \in 0 .. w - 1 : \E n \in 1 .. h[a] : e = <<a, n>>
      BY <2>2, <2>4
    <3>2. PICK n \in 1 .. h[a] : e = <<a, n>>
      BY <3>1
    <3>3. n \in 1 .. g[a]
      BY <1>1, <1>2, <1>3
    <3>4. QED BY <3>2, <3>3, <2>1
  <2>5. ASSUME e = <<0, h[0] + 1>> PROVE e \in Events(g, w)
    <3>1. h[0] + 1 \in 1 .. g[0]
      BY <1>1, <1>2
    <3>2. QED BY <3>1, <1>4, <2>1, <2>5
  <2>6. QED BY <2>3, <2>4, <2>5
<1>6. <<0, h[0] + 1>> \notin Events(h, w)
  <2>1. SUFFICES ASSUME <<0, h[0] + 1>> \in Events(h, w) PROVE FALSE
    OBVIOUS
  <2>2. PICK a \in 0 .. w - 1 : \E n \in 1 .. h[a] : <<0, h[0] + 1>> = <<a, n>>
    BY <2>1, <1>4, EventsAre
  <2>3. h[0] + 1 \in 1 .. h[0]
    BY <2>2
  <2>4. QED BY <2>3, <1>1
<1>7. QED BY <1>2, <1>5, <1>6 DEF g

\* There are finitely many events.
LEMMA EventsFinite ==
  ASSUME NEW h \in History, NEW w \in 0 .. Longest
  PROVE  IsFiniteSet(Events(h, w)) /\ Total(h, w) \in Nat
<1> DEFINE A == 0 .. w - 1
           S == {{a} \X (1 .. h[a]) : a \in A}
<1>1. w \in Nat /\ \A a \in A : h[a] \in Nat
  BY LongestMost DEF Ages, History
<1>2. IsFiniteSet(A)
  BY <1>1, FS_Interval
<1>3. PICK f : f = [a \in A |-> {a} \X (1 .. h[a])]
  OBVIOUS
<1>4. f \in Surjection(A, S)
  BY <1>3 DEF Surjection
<1>5. ASSUME NEW T \in S PROVE IsFiniteSet(T)
  <2>1. PICK a \in A : T = {a} \X (1 .. h[a])
    OBVIOUS
  <2>2. IsFiniteSet({a})
    BY FS_Singleton
  <2>3. h[a] \in Int /\ 1 \in Int
    BY <1>1
  <2>4. IsFiniteSet(1 .. h[a])
    BY <2>3, FS_Interval
  <2>5. IsFiniteSet({a} \X (1 .. h[a]))
    BY <2>2, <2>4, FS_Product
  <2>6. QED BY <2>1, <2>5
<1>6. Events(h, w) = UNION S
  BY DEF Events
<1> HIDE DEF A, S
<1>7. IsFiniteSet(S)
  BY <1>2, <1>4, FS_Surjection
<1>8. IsFiniteSet(Events(h, w))
  BY <1>5, <1>6, <1>7, FS_UNION
<1>9. QED BY <1>8, FS_CardinalityType DEF Total

LEMMA TotalNone ==
  ASSUME NEW h \in History
  PROVE  Total(h, 0) = 0
<1>1. Events(h, 0) = {}
  BY LongestMost DEF Events
<1>2. QED BY <1>1, FS_EmptySet DEF Total

\* Nothing counted, nothing in total.
LEMMA TotalZero ==
  ASSUME NEW h \in History, \A a \in Ages : h[a] = 0, NEW w \in 0 .. Longest
  PROVE  Total(h, w) = 0
<1>1. \A a \in 0 .. w - 1 : h[a] = 0
  BY LongestMost DEF Ages
<1>2. Events(h, w) = {}
  BY <1>1, EventsAre
<1>3. QED BY <1>2, FS_EmptySet DEF Total

LEMMA TotalGrows ==
  ASSUME NEW h \in History, NEW v \in 0 .. Longest, NEW w \in 0 .. Longest, v <= w
  PROVE  Total(h, v) <= Total(h, w)
<1>1. \A a \in 0 .. v - 1 : a \in 0 .. w - 1
  BY LongestMost
<1>2. Events(h, v) \in SUBSET Events(h, w)
  BY <1>1, EventsAre
<1>3. IsFiniteSet(Events(h, w))
  BY EventsFinite
<1>4. QED BY <1>2, <1>3, FS_Subset DEF Total

LEMMA TotalAdd ==
  ASSUME NEW h \in History, NEW w \in 1 .. Longest
  PROVE  Total([h EXCEPT ![0] = h[0] + 1], w) = Total(h, w) + 1
<1>1. w \in 0 .. Longest
  BY LongestMost
<1>2. IsFiniteSet(Events(h, w))
  BY <1>1, EventsFinite
<1>3. Cardinality(Events(h, w) \cup {<<0, h[0] + 1>>}) = Cardinality(Events(h, w)) + 1
  BY <1>2, EventsAdd, FS_AddElement
<1>4. QED BY <1>3, EventsAdd DEF Total

\* A tick later everything is a tick older.
LEMMA TotalShift ==
  ASSUME NEW h \in History, NEW w \in 0 .. Longest - 1
  PROVE  /\ Shift(h) \in History
         /\ Total(Shift(h), w + 1) = Total(h, w)
<1> DEFINE g == Shift(h)
           older(e) == <<e[1] + 1, e[2]>>
<1>1. Longest \in Nat \ {0} /\ w \in 0 .. Longest /\ w + 1 \in 0 .. Longest
  BY LongestMost
<1>2. g \in History /\ g[0] = 0 /\ \A a \in 0 .. w - 1 : g[a + 1] = h[a]
  BY <1>1 DEF History, Shift, Ages
<1> HIDE DEF g
<1>3. \A e : e \in Events(h, w) <=> \E a \in 0 .. w - 1 : \E n \in 1 .. h[a] : e = <<a, n>>
  BY <1>1, EventsAre
<1>4. \A e : e \in Events(g, w + 1) <=> \E a \in 0 .. w : \E n \in 1 .. g[a] : e = <<a, n>>
  BY <1>1, <1>2, EventsAre
<1>5. PICK f : f = [e \in Events(h, w) |-> older(e)]
  OBVIOUS
<1>6. ASSUME NEW e \in Events(h, w) PROVE f[e] \in Events(g, w + 1)
  <2>1. PICK a \in 0 .. w - 1 : \E n \in 1 .. h[a] : e = <<a, n>>
    BY <1>3
  <2>2. PICK n \in 1 .. h[a] : e = <<a, n>>
    BY <2>1
  <2>3. f[e] = <<a + 1, n>>
    BY <2>2, <1>5
  <2>4. a + 1 \in 0 .. w /\ n \in 1 .. g[a + 1]
    BY <1>1, <1>2
  <2>5. QED BY <2>3, <2>4, <1>4
<1>7. ASSUME NEW e \in Events(g, w + 1) PROVE \E d \in Events(h, w) : f[d] = e
  <2>1. PICK a \in 0 .. w : \E n \in 1 .. g[a] : e = <<a, n>>
    BY <1>4
  <2>2. PICK n \in 1 .. g[a] : e = <<a, n>>
    BY <2>1
  <2>3. a # 0
    BY <2>2, <1>2
  <2>4. PICK b : b = a - 1
    OBVIOUS
  <2>5. b \in 0 .. w - 1 /\ a = b + 1
    BY <2>3, <2>4, <1>1
  <2>6. n \in 1 .. h[b]
    BY <2>5, <1>2
  <2>7. <<b, n>> \in Events(h, w)
    BY <2>5, <2>6, <1>3
  <2>8. f[<<b, n>>] = e
    BY <2>7, <2>5, <2>2, <1>5
  <2>9. QED BY <2>7, <2>8
<1>8. ASSUME NEW d \in Events(h, w), NEW e \in Events(h, w), f[d] = f[e] PROVE d = e
  <2>1. PICK a \in 0 .. w - 1 : \E n \in 1 .. h[a] : d = <<a, n>>
    BY <1>3
  <2>2. PICK n \in 1 .. h[a] : d = <<a, n>>
    BY <2>1
  <2>3. PICK b \in 0 .. w - 1 : \E m \in 1 .. h[b] : e = <<b, m>>
    BY <1>3
  <2>4. PICK m \in 1 .. h[b] : e = <<b, m>>
    BY <2>3
  <2>5. <<a + 1, n>> = <<b + 1, m>>
    BY <1>5, <1>8, <2>2, <2>4
  <2>6. a + 1 = b + 1 /\ n = m
    BY <2>5
  <2>7. QED BY <2>2, <2>4, <2>6
<1>9. f \in Bijection(Events(h, w), Events(g, w + 1))
  <2>1. f \in [Events(h, w) -> Events(g, w + 1)]
    BY <1>5, <1>6
  <2>2. QED BY <2>1, <1>7, <1>8 DEF Bijection, Injection, Surjection, IsInjective
<1>10. IsFiniteSet(Events(h, w))
  BY <1>1, EventsFinite
<1>11. Cardinality(Events(g, w + 1)) = Cardinality(Events(h, w))
  BY <1>9, <1>10, FS_Bijection DEF ExistsBijection
<1>12. QED BY <1>2, <1>11 DEF Total, g

(***************************************************************************)
(* Types and counts.                                                       *)
(***************************************************************************)
\* What a limiter works with and has counted.
LEMMA LimiterTypes ==
  ASSUME TypeOK, Counts, NEW l \in Limiters
  PROVE  /\ bucket[l].count \in Nat /\ bucket[l].age \in 0 .. Longest
         /\ bucket[l].count <= Largest(l) + 1
         /\ l # "ws" => bucket[l].count <= Largest(l)
         /\ lim[l].max \in Nat \ {0} /\ lim[l].max <= Largest(l)
         /\ lim[l].window \in Nat \ {0} /\ Shortest(l) <= lim[l].window
         /\ lim[l].window <= Longest
         /\ l = "ws" => lim[l].max = Largest(l)
         /\ passed[l] \in History /\ resets \in History
<1>1. /\ bucket[l].count \in Nat /\ bucket[l].age \in 0 .. Longest
      /\ passed[l] \in History /\ resets \in History /\ lim[l] \in All
  BY LongestMost DEF TypeOK, History
<1>2. l = "ws" => lim[l] = WsSetting
  BY DEF Counts
<1>3. /\ lim[l].max \in Nat \ {0} /\ lim[l].window \in Nat \ {0}
      /\ lim[l].window <= Longest
  BY <1>1, LongestMost, RateLimitAssumption, Zenon
<1>4. Shortest(l) <= lim[l].window /\ lim[l].max <= Largest(l)
  BY <1>1, <1>2, LimiterBounds, Zenon
<1>5. l = "ws" => lim[l].max = Largest(l)
  BY <1>2 DEF Largest
<1>6. bucket[l].count <= Largest(l) + 1 /\ (l # "ws" => bucket[l].count <= Largest(l))
  BY <1>1, LimiterBounds DEF Counts
<1>7. QED BY <1>1, <1>3, <1>4, <1>5, <1>6

LEMMA CountsInit == Init => TypeOK /\ Counts
<1> SUFFICES ASSUME Init PROVE TypeOK /\ Counts
  OBVIOUS
<1>1. \A l \in Limiters : Largest(l) \in Nat
  BY LimiterBounds
<1>2. Default \in Settings /\ WsSetting \in All /\ Settings \subseteq All
  BY RateLimitAssumption DEF All
<1>3. Longest \in Nat \ {0} /\ Most \in Nat \ {0} /\ InFlight \in Nat /\ MaxOps \in Nat
  BY LongestMost, RateLimitAssumption
<1>4. TypeOK
  <2>1. settings \in [Stored -> Settings] /\ lim \in [Limiters -> All]
    BY <1>2 DEF Init, Stored, Limiters
  <2>2. bucket \in [Limiters -> [count : 0 .. Most + 1, age : 0 .. Longest]]
    BY <1>3 DEF Init, Empty
  <2>3. inflight \in 0 .. InFlight /\ ops \in 0 .. MaxOps /\ refused \in Limiters \cup {"none"}
    BY <1>3 DEF Init
  <2>4. passed \in [Limiters -> [Ages -> Nat]] /\ resets \in [Ages -> 0 .. 1]
    BY DEF Init
  <2>5. QED BY <2>1, <2>2, <2>3, <2>4 DEF TypeOK
<1>5. Counts
  BY <1>1 DEF Init, Counts, Empty, Limiters
<1>6. QED BY <1>4, <1>5

\* What a check does to the buckets.
LEMMA CheckBucket ==
  ASSUME TypeOK, Counts, NEW l \in Limiters, Check(l)
  PROVE  /\ \/ /\ Allows(l) /\ Entry(l) = Empty
               /\ bucket'[l] = [count |-> 1, age |-> 0]
            \/ /\ Allows(l) /\ bucket[l].count > 0 /\ bucket[l].count < lim[l].max
               /\ bucket'[l] = [count |-> bucket[l].count + 1, age |-> bucket[l].age]
            \/ /\ ~Allows(l) /\ bucket[l].count >= lim[l].max
               /\ bucket[l].count > 0 /\ bucket[l].age < lim[l].window
               /\ bucket'[l] = [count |-> IF l = "ws" THEN lim[l].max + 1 ELSE bucket[l].count,
                                age |-> bucket[l].age]
         /\ \A k \in Limiters \ {l} : bucket'[k] = bucket[k]
         /\ bucket' \in [Limiters -> [count : 0 .. Most + 1, age : 0 .. Longest]]
<1>1. PICK b : b = [count |-> Counted(l), age |-> Entry(l).age]
  OBVIOUS
<1>2. bucket' = [bucket EXCEPT ![l] = b] /\ bucket \in [Limiters -> [count : 0 .. Most + 1, age : 0 .. Longest]]
  BY <1>1 DEF Check, TypeOK
<1>3. bucket'[l] = b /\ \A k \in Limiters \ {l} : bucket'[k] = bucket[k]
  BY <1>2
<1>4. /\ bucket[l] = [count |-> bucket[l].count, age |-> bucket[l].age]
      /\ bucket[l].count \in Nat /\ bucket[l].age \in 0 .. Longest
      /\ bucket[l].count <= Most + 1
  BY <1>2, LongestMost
<1>5. /\ lim[l].max \in Nat \ {0} /\ lim[l].window \in Nat \ {0} /\ lim[l].max <= Most
      /\ Most \in Nat /\ Longest \in Nat
  <2>1. lim[l].max \in Nat \ {0} /\ lim[l].window \in Nat \ {0} /\ lim[l].max <= Largest(l)
    BY LimiterTypes
  <2>2. Largest(l) \in Nat /\ Largest(l) <= Most /\ Most \in Nat /\ Longest \in Nat
    BY LimiterBounds, LongestMost
  <2>3. QED BY <2>1, <2>2
<1>6. Entry(l) = Empty \/ (Entry(l) = bucket[l] /\ bucket[l].count # 0 /\ bucket[l].age < lim[l].window)
  BY <1>4, <1>5 DEF Entry
<1>7. CASE Entry(l) = Empty
  <2>1. Allows(l) /\ Counted(l) = 1 /\ Entry(l).age = 0
    BY <1>5, <1>7 DEF Allows, Counted, Empty
  <2>2. b = [count |-> 1, age |-> 0]
    BY <2>1, <1>1
  <2>3. b \in [count : 0 .. Most + 1, age : 0 .. Longest]
    BY <2>2, <1>5
  <2>4. QED BY <1>2, <1>3, <1>7, <2>1, <2>2, <2>3
<1>8. CASE Entry(l) = bucket[l] /\ bucket[l].count # 0 /\ bucket[l].age < lim[l].window
  <2>1. CASE Allows(l)
    <3>1. bucket[l].count < lim[l].max /\ Counted(l) = bucket[l].count + 1
      BY <1>8, <2>1 DEF Allows, Counted
    <3>2. b = [count |-> bucket[l].count + 1, age |-> bucket[l].age]
      BY <3>1, <1>1, <1>8
    <3>3. b \in [count : 0 .. Most + 1, age : 0 .. Longest]
      BY <3>1, <3>2, <1>4, <1>5
    <3>4. QED BY <1>2, <1>3, <1>4, <1>8, <2>1, <3>1, <3>2, <3>3
  <2>2. CASE ~Allows(l)
    <3>1. /\ bucket[l].count >= lim[l].max
          /\ Counted(l) = IF l = "ws" THEN lim[l].max + 1 ELSE bucket[l].count
      BY <1>4, <1>5, <1>8, <2>2 DEF Allows, Counted
    <3>2. b = [count |-> IF l = "ws" THEN lim[l].max + 1 ELSE bucket[l].count,
               age |-> bucket[l].age]
      BY <3>1, <1>1, <1>8
    <3>3. b \in [count : 0 .. Most + 1, age : 0 .. Longest]
      BY <3>1, <3>2, <1>4, <1>5
    <3>4. QED BY <1>2, <1>3, <1>4, <1>8, <2>2, <3>1, <3>2, <3>3
  <2>3. QED BY <2>1, <2>2
<1>9. QED BY <1>6, <1>7, <1>8

\* The limiters' own state, which a check, a refresh and a tick change.
Limits == <<settings, lim, bucket, passed, resets, ops>>

LEMMA CountsCheck ==
  ASSUME TypeOK, Counts, NEW l \in Limiters, Check(l), inflight' \in 0 .. InFlight
  PROVE  TypeOK' /\ Counts'
<1>1. bucket' \in [Limiters -> [count : 0 .. Most + 1, age : 0 .. Longest]]
  BY CheckBucket
<1>2. passed' \in [Limiters -> [Ages -> Nat]]
  <2>1. passed \in [Limiters -> [Ages -> Nat]] /\ 0 \in Ages
    BY LongestMost DEF TypeOK, Ages
  <2>2. passed' = passed \/ passed' = [passed EXCEPT ![l] = [passed[l] EXCEPT ![0] = passed[l][0] + 1]]
    BY <2>1 DEF Check
  <2>3. [passed[l] EXCEPT ![0] = passed[l][0] + 1] \in [Ages -> Nat]
    BY <2>1
  <2>4. QED BY <2>1, <2>2, <2>3
<1>3. TypeOK'
  BY <1>1, <1>2 DEF TypeOK, Check
<1>4. ASSUME NEW k \in Limiters
      PROVE  bucket'[k].count <= Largest(k) + (IF k = "ws" THEN 1 ELSE 0)
  <2>1. CASE k # l
    BY <2>1, CheckBucket DEF Counts
  <2>2. CASE k = l
    <3>1. /\ bucket[l].count \in Nat /\ lim[l].max \in Nat \ {0} /\ lim[l].max <= Largest(l)
          /\ Largest(l) \in Nat \ {0} /\ (l # "ws" => bucket[l].count <= Largest(l))
          /\ l = "ws" => lim[l].max = Largest(l)
      BY LimiterTypes, LimiterBounds
    <3>2. \/ bucket'[l].count = 1
          \/ bucket[l].count < lim[l].max /\ bucket'[l].count = bucket[l].count + 1
          \/ bucket'[l].count = IF l = "ws" THEN lim[l].max + 1 ELSE bucket[l].count
      <4>1. CASE bucket'[l] = [count |-> 1, age |-> 0]
        BY <4>1
      <4>2. CASE /\ bucket[l].count < lim[l].max
                 /\ bucket'[l] = [count |-> bucket[l].count + 1, age |-> bucket[l].age]
        BY <4>2
      <4>3. CASE bucket'[l] = [count |-> IF l = "ws" THEN lim[l].max + 1 ELSE bucket[l].count,
                               age |-> bucket[l].age]
        BY <4>3
      <4>4. QED BY <4>1, <4>2, <4>3, CheckBucket, Zenon
    <3>3. QED BY <2>2, <3>1, <3>2
  <2>3. QED BY <2>1, <2>2
<1>5. Counts'
  BY <1>4 DEF Counts, Check, Largest
<1>6. QED BY <1>3, <1>5

LEMMA ReadSettings ==
  ASSUME TypeOK, NEW l \in Stored
  PROVE  Read(l) \subseteq All
<1>1. settings[l] \in Settings /\ Default \in Settings
  BY RateLimitAssumption DEF TypeOK
<1>2. Settings = [max : {s.max : s \in Settings}, window : {s.window : s \in Settings}]
  BY RateLimitAssumption
<1>3. Read(l) \subseteq [max : {s.max : s \in Settings}, window : {s.window : s \in Settings}]
  BY <1>1 DEF Read
<1>4. QED BY <1>2, <1>3 DEF All

LEMMA CountsRefreshGateway ==
  ASSUME TypeOK, Counts, RefreshGateway
  PROVE  TypeOK' /\ Counts'
<1>1. PICK s \in Read("ip") : lim' = [lim EXCEPT !["ip"] = s]
  BY DEF RefreshGateway
<1>2. s \in All
  BY ReadSettings DEF Stored
<1>3. lim' \in [Limiters -> All] /\ lim'["ws"] = lim["ws"]
  BY <1>1, <1>2 DEF TypeOK, Limiters
<1>4. bucket' = [bucket EXCEPT !["ip"] = Empty] /\ Empty \in [count : 0 .. Most + 1, age : 0 .. Longest]
  BY LongestMost DEF RefreshGateway, Empty
<1>5. bucket' \in [Limiters -> [count : 0 .. Most + 1, age : 0 .. Longest]]
  BY <1>4 DEF TypeOK
<1>6. resets' \in [Ages -> 0 .. 1]
  <2>1. resets' = [resets EXCEPT ![0] = 1] /\ resets \in [Ages -> 0 .. 1]
    BY DEF TypeOK, RefreshGateway
  <2>2. 1 \in 0 .. 1
    OBVIOUS
  <2>3. QED BY <2>1, <2>2, Zenon
<1>7. TypeOK'
  BY <1>3, <1>5, <1>6, Zenon DEF TypeOK, RefreshGateway
<1>8. ASSUME NEW k \in Limiters
      PROVE  bucket'[k].count <= Largest(k) + (IF k = "ws" THEN 1 ELSE 0)
  <2>1. Largest(k) \in Nat
    BY LimiterBounds
  <2>2. bucket'[k] = IF k = "ip" THEN Empty ELSE bucket[k]
    BY <1>4 DEF TypeOK
  <2>3. QED BY <2>1, <2>2 DEF Counts, Empty
<1>9. Counts'
  BY <1>3, <1>8 DEF Counts, Largest
<1>10. QED BY <1>7, <1>9

LEMMA CountsTick ==
  ASSUME TypeOK, Counts, Tick
  PROVE  /\ TypeOK' /\ Counts'
         /\ \A l \in Limiters :
              /\ bucket'[l].count = bucket[l].count
              /\ bucket'[l].age = IF bucket[l].age < Longest THEN bucket[l].age + 1 ELSE bucket[l].age
<1>1. ASSUME NEW l \in Limiters
      PROVE  /\ bucket'[l] \in [count : 0 .. Most + 1, age : 0 .. Longest]
             /\ bucket'[l].count = bucket[l].count
             /\ bucket'[l].age = IF bucket[l].age < Longest THEN bucket[l].age + 1 ELSE bucket[l].age
  BY LongestMost DEF TypeOK, Tick
<1>2. bucket' = [l \in Limiters |-> bucket'[l]]
  BY DEF Tick
<1>3. bucket' \in [Limiters -> [count : 0 .. Most + 1, age : 0 .. Longest]]
  BY <1>1, <1>2
<1>4. passed' \in [Limiters -> [Ages -> Nat]]
  BY LongestMost DEF TypeOK, Tick, Shift, Ages
<1>5. resets' \in [Ages -> 0 .. 1]
  BY LongestMost DEF TypeOK, Tick, Shift, Ages
<1>6. TypeOK'
  BY <1>3, <1>4, <1>5 DEF TypeOK, Tick
<1>7. Counts'
  BY <1>1 DEF Counts, Largest, Tick
<1>8. QED BY <1>1, <1>6, <1>7

LEMMA CountsNext == TypeOK /\ Counts /\ [Next]_vars => TypeOK' /\ Counts'
<1> SUFFICES ASSUME TypeOK, Counts, [Next]_vars PROVE TypeOK' /\ Counts'
  OBVIOUS
<1>0. inflight \in Nat /\ inflight <= InFlight /\ InFlight \in Nat /\ MaxOps \in Nat
  BY RateLimitAssumption DEF TypeOK
<1>1. ASSUME NEW l \in {"ip", "ws"}, Request(l) PROVE TypeOK' /\ Counts'
  <2>1. inflight' \in 0 .. InFlight /\ Check(l) /\ l \in Limiters
    BY <1>0, <1>1 DEF Request, Limiters
  <2>2. QED BY <2>1, CountsCheck
<1>2. CASE Handle
  <2>1. inflight' \in 0 .. InFlight /\ Check("user") /\ "user" \in Limiters
    BY <1>0, <1>2 DEF Handle, Limiters
  <2>2. QED BY <2>1, CountsCheck
<1>3. CASE Lost
  <2>1. inflight' \in 0 .. InFlight /\ refused' \in Limiters \cup {"none"} /\ UNCHANGED Limits
    BY <1>0, <1>3 DEF Lost, Limits
  <2>2. QED BY <2>1 DEF Limits, TypeOK, Counts, Largest
<1>4. CASE RefreshGateway
  BY <1>4, CountsRefreshGateway
<1>5. CASE RefreshMessages
  <2>1. PICK s \in Read("user") : lim' = [lim EXCEPT !["user"] = s]
    BY <1>5 DEF RefreshMessages
  <2>2. s \in All
    BY ReadSettings DEF Stored
  <2>3. lim' \in [Limiters -> All] /\ lim'["ws"] = lim["ws"]
    BY <2>1, <2>2 DEF TypeOK, Limiters
  <2>4. QED BY <1>5, <2>3 DEF RefreshMessages, TypeOK, Counts, Largest
<1>6. CASE Tick
  BY <1>6, CountsTick
<1>7. ASSUME NEW l \in Stored, NEW s \in Settings, admin_put_setting(l, s) PROVE TypeOK' /\ Counts'
  <2>1. settings' \in [Stored -> Settings] /\ ops' \in 0 .. MaxOps
    BY <1>0, <1>7 DEF admin_put_setting, TypeOK
  <2>2. QED BY <1>7, <2>1 DEF admin_put_setting, TypeOK, Counts, Largest
<1>8. CASE UNCHANGED vars
  BY <1>8 DEF vars, TypeOK, Counts, Largest
<1>9. QED BY <1>1, <1>2, <1>3, <1>4, <1>5, <1>6, <1>7, <1>8 DEF Next

(***************************************************************************)
(* The three bounds, for one limiter.                                      *)
(***************************************************************************)
LEMMA Worth ==
  ASSUME NEW r \in Nat, NEW m \in Nat
  PROVE  /\ (1 + r) * m \in Nat /\ (1 + r) * m >= m
         /\ (1 + (r + 1)) * m = (1 + r) * m + m
<1>1. r * m \in Nat
  OBVIOUS
<1>2. (1 + r) * m = m + r * m /\ (1 + (r + 1)) * m = m + m + r * m
  OBVIOUS
<1>3. QED BY <1>1, <1>2

LEMMA ReplacedNat ==
  ASSUME TypeOK, NEW l \in Limiters, NEW w \in 0 .. Longest
  PROVE  Replaced(l, w) \in Nat
<1>1. resets \in History
  BY DEF TypeOK, History
<1>2. QED BY <1>1, EventsFinite DEF Replaced

LEMMA UsedNat ==
  ASSUME TypeOK, Counts, NEW l \in Limiters
  PROVE  Used(l) \in Nat /\ Used(l) <= Largest(l)
<1>1. bucket[l].count \in Nat /\ Largest(l) \in Nat
  BY LimiterTypes, LimiterBounds
<1>2. QED BY <1>1 DEF Used

LEMMA BoundedSame ==
  ASSUME NEW l \in Limiters, Bounded(l), bucket'[l] = bucket[l], passed'[l] = passed[l],
         l = "ip" => resets' = resets
  PROVE  Bounded(l)'
<1>1. Used(l)' = Used(l) /\ \A w : Replaced(l, w)' = Replaced(l, w)
  BY DEF Used, Replaced, Largest
<1>2. QED BY <1>1 DEF Bounded, OpenedFirst, BoundedBefore, Remembered, Shortest, Largest

\* A request that passes, in the current window or opening one.
LEMMA BoundedPassed ==
  ASSUME TypeOK, Counts, NEW l \in Limiters, Bounded(l), Check(l), Allows(l)
  PROVE  Bounded(l)'
<1> DEFINE h == passed[l]
           g == [h EXCEPT ![0] = h[0] + 1]
<1>1. /\ bucket[l].count \in Nat /\ bucket[l].age \in 0 .. Longest /\ h \in History
      /\ lim[l].max \in Nat \ {0} /\ lim[l].max <= Largest(l)
      /\ lim[l].window \in Nat \ {0} /\ Shortest(l) <= lim[l].window
      /\ Longest \in Nat \ {0}
  BY LimiterTypes, LongestMost
<1>2. Largest(l) \in Nat \ {0} /\ Shortest(l) \in Nat \ {0} /\ Shortest(l) <= Longest
  BY LimiterBounds
<1>3. passed'[l] = g /\ resets' = resets
  BY DEF Check, TypeOK
<1>4. g \in History
  <2>1. 1 \in 1 .. Longest
    BY <1>1
  <2>2. QED BY <1>1, <2>1, EventsAdd
<1>5. \A w \in 1 .. Longest : Total(g, w) = Total(h, w) + 1
  BY <1>1, TotalAdd
<1>6. Total(g, 0) = 0 /\ Total(h, 0) = 0
  BY <1>1, <1>4, TotalNone
<1>7. \A w \in 0 .. Longest : Total(h, w) \in Nat
  BY <1>1, EventsFinite
<1>8. ASSUME NEW w \in 0 .. Longest
      PROVE  /\ Replaced(l, w)' = Replaced(l, w) /\ Largest(l)' = Largest(l)
             /\ (1 + Replaced(l, w)) * Largest(l) \in Nat
             /\ (1 + Replaced(l, w)) * Largest(l) >= Largest(l)
  <2>1. Replaced(l, w) \in Nat /\ Largest(l) \in Nat
    BY <1>2, ReplacedNat
  <2>2. /\ (1 + Replaced(l, w)) * Largest(l) \in Nat
        /\ (1 + Replaced(l, w)) * Largest(l) >= Largest(l)
    BY <2>1, Worth
  <2>3. QED BY <1>3, <2>2 DEF Replaced, Largest
<1> HIDE DEF g, h
<1>9. CASE Entry(l) = Empty /\ bucket'[l] = [count |-> 1, age |-> 0]
  <2>1. bucket'[l].count = 1 /\ bucket'[l].age = 0 /\ Used(l)' = 1
    BY <1>2, <1>9 DEF Used, Largest
  <2>2. OpenedFirst(l)'
    BY <1>3, <1>6, <2>1 DEF OpenedFirst
  <2>3. Remembered(l)'
    BY <1>1, <1>3, <1>5, <1>7, <2>1 DEF Remembered
  <2>4. ASSUME NEW w \in 0 .. Longest, w <= Shortest(l)
        PROVE  Total(h, w) < (1 + Replaced(l, w)) * Largest(l)
    <3>1. CASE bucket[l].count = 0
      <4>1. Used(l) = 0 /\ w <= bucket[l].age + Shortest(l)
        BY <1>1, <1>2, <2>4, <3>1 DEF Used
      <4>2. Total(h, w) < Used(l) + (1 + Replaced(l, w)) * Largest(l)
        BY <4>1 DEF Bounded, BoundedBefore, h
      <4>3. QED BY <4>1, <4>2, <1>8
    <3>2. CASE bucket[l].count # 0
      <4>1. bucket[l].age >= lim[l].window
        BY <1>9, <3>2 DEF Entry, Empty
      <4>2. w <= bucket[l].age
        BY <4>1, <1>1, <1>2, <2>4
      <4>3. Total(h, w) <= Total(h, bucket[l].age)
        BY <1>1, <4>2, TotalGrows
      <4>4. Total(h, bucket[l].age) <= Used(l) - 1
        BY <3>2 DEF Bounded, OpenedFirst, h
      <4>5. Used(l) \in Nat /\ Used(l) <= Largest(l)
        BY UsedNat
      <4>6. QED BY <4>3, <4>4, <4>5, <1>1, <1>2, <1>7, <1>8
    <3>3. QED BY <3>1, <3>2
  <2>5. BoundedBefore(l)'
    <3>1. SUFFICES ASSUME NEW w \in 0 .. Longest, w <= Shortest(l)
                   PROVE  Total(g, w) < 1 + (1 + Replaced(l, w)) * Largest(l)
      BY <1>2, <1>3, <1>8, <2>1 DEF BoundedBefore, Shortest
    <3>2. Total(g, w) <= Total(h, w) + 1
      BY <1>5, <1>6, <1>7, <1>1
    <3>3. Total(g, w) \in Nat
      BY <1>4, EventsFinite
    <3>4. QED BY <3>1, <3>2, <3>3, <2>4, <1>7, <1>8
  <2>6. QED BY <2>2, <2>3, <2>5 DEF Bounded
<1>10. CASE /\ bucket[l].count > 0 /\ bucket[l].count < lim[l].max
            /\ bucket'[l] = [count |-> bucket[l].count + 1, age |-> bucket[l].age]
  <2>1. /\ bucket'[l].count = bucket[l].count + 1 /\ bucket'[l].age = bucket[l].age
        /\ Used(l) = bucket[l].count /\ Used(l)' = Used(l) + 1
    BY <1>1, <1>2, <1>10 DEF Used, Largest
  <2>2. OpenedFirst(l)'
    <3>1. Total(h, bucket[l].age) <= Used(l) - 1
      BY <1>10, <1>1 DEF Bounded, OpenedFirst, h
    <3>2. Total(g, bucket[l].age) <= Total(h, bucket[l].age) + 1
      BY <1>5, <1>6, <1>7, <1>1
    <3>3. Total(g, bucket[l].age) \in Nat /\ Total(h, bucket[l].age) \in Nat
      BY <1>1, <1>4, EventsFinite
    <3>4. Total(g, bucket[l].age) <= Used(l)' - 1
      BY <3>1, <3>2, <3>3, <2>1, <1>1
    <3>5. QED BY <3>4, <2>1, <1>1, <1>3 DEF OpenedFirst
  <2>3. Remembered(l)'
    <3>1. SUFFICES ASSUME bucket[l].age < Longest
                   PROVE  Total(g, bucket[l].age + 1) >= Used(l) + 1
      BY <1>3, <2>1 DEF Remembered
    <3>2. Total(h, bucket[l].age + 1) >= Used(l)
      BY <3>1 DEF Bounded, Remembered, h
    <3>3. bucket[l].age + 1 \in 1 .. Longest
      BY <3>1, <1>1
    <3>4. QED BY <3>2, <3>3, <1>1, <1>5, <1>7, <2>1
  <2>4. BoundedBefore(l)'
    <3>1. SUFFICES ASSUME NEW w \in 0 .. Longest, w <= bucket[l].age + Shortest(l)
                   PROVE  Total(g, w) < Used(l) + 1 + (1 + Replaced(l, w)) * Largest(l)
      BY <1>3, <1>8, <2>1 DEF BoundedBefore, Shortest
    <3>2. Total(g, w) <= Total(h, w) + 1
      BY <1>5, <1>6, <1>7, <1>1
    <3>3. Total(g, w) \in Nat
      BY <1>4, EventsFinite
    <3>4. Total(h, w) < Used(l) + (1 + Replaced(l, w)) * Largest(l)
      BY <3>1 DEF Bounded, BoundedBefore, h
    <3>5. QED BY <3>2, <3>3, <3>4, <1>1, <1>7, <1>8, <2>1
  <2>5. QED BY <2>2, <2>3, <2>4 DEF Bounded
<1>11. QED BY <1>9, <1>10, CheckBucket, Zenon

\* A request that is refused.
LEMMA BoundedRefused ==
  ASSUME TypeOK, Counts, NEW l \in Limiters, Bounded(l), Check(l), ~Allows(l)
  PROVE  Bounded(l)'
<1>1. passed' = passed /\ resets' = resets
  BY DEF Check
<1>2. /\ bucket[l].count >= lim[l].max /\ bucket[l].count > 0
      /\ bucket'[l] = [count |-> IF l = "ws" THEN lim[l].max + 1 ELSE bucket[l].count,
                       age |-> bucket[l].age]
  BY CheckBucket, Zenon
<1>3. /\ bucket[l].count \in Nat /\ bucket[l].count <= Largest(l) + 1
      /\ l # "ws" => bucket[l].count <= Largest(l)
      /\ l = "ws" => lim[l].max = Largest(l)
      /\ Largest(l) \in Nat \ {0}
  BY LimiterTypes, LimiterBounds
<1>4. /\ bucket'[l].count # 0 /\ bucket'[l].age = bucket[l].age
      /\ Used(l)' = Used(l)
  BY <1>2, <1>3 DEF Used, Largest
<1>5. \A w : Replaced(l, w)' = Replaced(l, w)
  BY <1>1 DEF Replaced
<1>6. OpenedFirst(l)'
  BY <1>1, <1>2, <1>3, <1>4 DEF Bounded, OpenedFirst
<1>7. QED BY <1>1, <1>4, <1>5, <1>6 DEF Bounded, BoundedBefore, Remembered, Shortest, Largest

\* A new, empty limiter: the last window's requests count as one more limit's worth.
LEMMA BoundedReplaced ==
  ASSUME TypeOK, Counts, Bounded("ip"), RefreshGateway
  PROVE  Bounded("ip")'
<1> DEFINE h == passed["ip"]
<1>0. "ip" \in Limiters
  BY DEF Limiters
<1>1. /\ bucket["ip"].age \in 0 .. Longest /\ h \in History /\ resets \in History
      /\ Longest \in Nat \ {0}
  BY <1>0, LimiterTypes, LongestMost
<1>2. /\ Largest("ip") \in Nat \ {0} /\ Shortest("ip") \in Nat \ {0}
      /\ Used("ip") \in Nat /\ Used("ip") <= Largest("ip")
  BY <1>0, LimiterBounds, UsedNat
<1>3. bucket'["ip"] = Empty /\ passed'["ip"] = h
  BY <1>0 DEF RefreshGateway, TypeOK
<1>4. bucket'["ip"].count = 0 /\ bucket'["ip"].age = 0 /\ Used("ip")' = 0
  BY <1>2, <1>3 DEF Empty, Used, Largest
<1>5. resets' = [resets EXCEPT ![0] = resets[0] + 1] /\ resets' \in History
  <2>1. resets' = [resets EXCEPT ![0] = resets[0] + 1]
    BY DEF RefreshGateway
  <2>2. 1 \in 1 .. Longest
    BY <1>1
  <2>3. QED BY <2>1, <2>2, <1>1, EventsAdd
<1>6. \A w \in 0 .. Longest : Total(h, w) \in Nat
  BY <1>1, EventsFinite
<1>7. Total(h, 0) = 0
  BY <1>1, TotalNone
<1> HIDE DEF h
<1>8. OpenedFirst("ip")'
  BY <1>3, <1>4, <1>7 DEF OpenedFirst
<1>9. Remembered("ip")'
  BY <1>1, <1>3, <1>4, <1>6 DEF Remembered
<1>10. ASSUME NEW w \in 0 .. Longest, w <= Shortest("ip")
       PROVE  Total(h, w) < (1 + Replaced("ip", w)') * Largest("ip")
  <2>1. CASE w = 0
    <3>1. Replaced("ip", w)' = 0
      BY <1>5, <2>1, TotalNone DEF Replaced
    <3>2. QED BY <2>1, <3>1, <1>2, <1>7
  <2>2. CASE w # 0
    <3>1. w \in 1 .. Longest /\ w <= bucket["ip"].age + Shortest("ip")
      BY <1>1, <1>2, <1>10, <2>2
    <3>2. PICK r : r = Replaced("ip", w)
      OBVIOUS
    <3>3. r \in Nat
      BY <1>0, <3>2, ReplacedNat
    <3>4. Replaced("ip", w)' = r + 1
      BY <1>1, <1>5, <3>1, <3>2, TotalAdd DEF Replaced
    <3>5. Total(h, w) < Used("ip") + (1 + r) * Largest("ip")
      BY <3>1, <3>2 DEF Bounded, BoundedBefore, h
    <3>6. (1 + (r + 1)) * Largest("ip") = (1 + r) * Largest("ip") + Largest("ip") /\ (1 + r) * Largest("ip") \in Nat
      BY <3>3, <1>2, Worth
    <3>7. QED BY <3>4, <3>5, <3>6, <1>2, <1>6
  <2>3. QED BY <2>1, <2>2
<1>11. BoundedBefore("ip")'
  <2>1. SUFFICES ASSUME NEW w \in 0 .. Longest, w <= Shortest("ip")
                 PROVE  Total(h, w) < 0 + (1 + Replaced("ip", w)') * Largest("ip")
    BY <1>2, <1>3, <1>4 DEF BoundedBefore, Shortest, Largest
  <2>2. Replaced("ip", w)' \in Nat
    BY <1>5, EventsFinite DEF Replaced
  <2>3. (1 + Replaced("ip", w)') * Largest("ip") \in Nat
    BY <2>2, <1>2, Worth
  <2>4. QED BY <2>1, <2>3, <1>10
<1>12. QED BY <1>8, <1>9, <1>11 DEF Bounded

\* A tick later.
LEMMA BoundedTick ==
  ASSUME TypeOK, Counts, NEW l \in Limiters, Bounded(l), Tick
  PROVE  Bounded(l)'
<1> DEFINE h == passed[l]
           g == Shift(h)
<1>1. /\ bucket[l].count \in Nat /\ bucket[l].age \in 0 .. Longest /\ h \in History
      /\ resets \in History /\ Longest \in Nat \ {0}
  BY LimiterTypes, LongestMost
<1>2. /\ Largest(l) \in Nat \ {0} /\ Shortest(l) \in Nat \ {0}
      /\ Used(l) \in Nat /\ Used(l) <= Largest(l)
  BY LimiterBounds, UsedNat
<1>3. passed'[l] = g /\ resets' = Shift(resets)
  BY DEF Tick
<1>4. /\ bucket'[l].count = bucket[l].count
      /\ bucket'[l].age = IF bucket[l].age < Longest THEN bucket[l].age + 1 ELSE bucket[l].age
  BY CountsTick
<1>5. Used(l)' = Used(l)
  BY <1>4 DEF Used, Largest
<1>6. 0 \in 0 .. Longest - 1
  BY <1>1
<1>7. /\ g \in History /\ Total(g, 0) = 0
      /\ \A w \in 0 .. Longest - 1 : Total(g, w + 1) = Total(h, w)
  BY <1>1, <1>6, TotalShift, TotalNone
<1>8. /\ Shift(resets) \in History /\ Total(Shift(resets), 0) = 0
      /\ \A w \in 0 .. Longest - 1 : Total(Shift(resets), w + 1) = Total(resets, w)
  BY <1>1, <1>6, TotalShift, TotalNone
<1>9. /\ \A w \in 0 .. Longest - 1 : Replaced(l, w + 1)' = Replaced(l, w)
      /\ Replaced(l, 0)' = 0
  BY <1>3, <1>8 DEF Replaced
<1>10. \A w \in 0 .. Longest : Total(h, w) \in Nat /\ Total(g, w) \in Nat
  BY <1>1, <1>7, EventsFinite
<1> HIDE DEF g, h
<1>11. OpenedFirst(l)'
  <2>1. Total(h, bucket[l].age) <= IF bucket[l].count = 0 THEN 0 ELSE Used(l) - 1
    BY DEF Bounded, OpenedFirst, h
  <2>2. Total(g, bucket'[l].age) <= Total(h, bucket[l].age)
    <3>1. CASE bucket[l].age < Longest
      <4>1. bucket[l].age \in 0 .. Longest - 1 /\ bucket'[l].age = bucket[l].age + 1
        BY <1>1, <1>4, <3>1
      <4>2. Total(g, bucket'[l].age) = Total(h, bucket[l].age)
        BY <4>1, <1>7
      <4>3. QED BY <4>2, <1>1, <1>10
    <3>2. CASE ~(bucket[l].age < Longest)
      <4>1. bucket[l].age = Longest /\ bucket'[l].age = Longest
        BY <1>1, <1>4, <3>2
      <4>2. Longest - 1 \in 0 .. Longest - 1 /\ Longest = (Longest - 1) + 1
        BY <1>1
      <4>3. Total(g, Longest) = Total(h, Longest - 1)
        BY <4>2, <1>7
      <4>4. Total(h, Longest - 1) <= Total(h, Longest)
        BY <1>1, TotalGrows
      <4>5. QED BY <4>1, <4>3, <4>4
    <3>3. QED BY <3>1, <3>2
  <2>3. bucket'[l].age \in 0 .. Longest
    BY <1>1, <1>4
  <2>4. Total(g, bucket'[l].age) <= IF bucket[l].count = 0 THEN 0 ELSE Used(l) - 1
    BY <2>1, <2>2, <2>3, <1>1, <1>2, <1>10
  <2>5. QED BY <2>4, <1>3, <1>4, <1>5 DEF OpenedFirst
<1>12. Remembered(l)'
  <2>1. SUFFICES ASSUME bucket'[l].age < Longest
                 PROVE  Total(g, bucket'[l].age + 1) >= Used(l)
    BY <1>3, <1>5 DEF Remembered
  <2>2. bucket[l].age < Longest /\ bucket'[l].age = bucket[l].age + 1 /\ bucket[l].age + 1 \in 0 .. Longest - 1
    BY <2>1, <1>1, <1>4
  <2>3. Total(h, bucket[l].age + 1) >= Used(l)
    BY <2>2 DEF Bounded, Remembered, h
  <2>4. QED BY <2>2, <2>3, <1>7
<1>13. BoundedBefore(l)'
  <2>1. SUFFICES ASSUME NEW w \in 0 .. Longest, w <= bucket'[l].age + Shortest(l)
                 PROVE  Total(g, w) < Used(l) + (1 + Replaced(l, w)') * Largest(l)
    BY <1>3, <1>5 DEF BoundedBefore, Shortest, Largest
  <2>2. CASE w = 0
    BY <2>2, <1>2, <1>7, <1>9
  <2>3. CASE w # 0
    <3>1. PICK v : v = w - 1
      OBVIOUS
    <3>2. v \in 0 .. Longest - 1 /\ v \in 0 .. Longest /\ w = v + 1 /\ v <= bucket[l].age + Shortest(l)
      BY <3>1, <2>1, <2>3, <1>1, <1>2, <1>4
    <3>3. Total(h, v) < Used(l) + (1 + Replaced(l, v)) * Largest(l)
      BY <3>2 DEF Bounded, BoundedBefore, h
    <3>4. Total(g, w) = Total(h, v) /\ Replaced(l, w)' = Replaced(l, v)
      BY <3>2, <1>7, <1>9
    <3>5. QED BY <3>3, <3>4
  <2>4. QED BY <2>2, <2>3
<1>14. QED BY <1>11, <1>12, <1>13 DEF Bounded

(***************************************************************************)
(* All limiters and all steps.                                             *)
(***************************************************************************)
LEMMA LimitInit == Init => LimitInv
<1> SUFFICES ASSUME Init PROVE LimitInv
  OBVIOUS
<1>1. TypeOK /\ Counts
  BY CountsInit
<1>2. ASSUME NEW l \in Limiters PROVE Bounded(l)
  <2>1. /\ passed[l] \in History /\ \A a \in Ages : passed[l][a] = 0
        /\ bucket[l].count = 0 /\ bucket[l].age = 0
    BY DEF Init, Empty, History
  <2>2. \A w \in 0 .. Longest : Total(passed[l], w) = 0
    BY <2>1, TotalZero
  <2>3. Largest(l) \in Nat \ {0} /\ Longest \in Nat \ {0}
    BY LimiterBounds, LongestMost
  <2>4. Used(l) = 0
    BY <2>1, <2>3 DEF Used
  <2>5. ASSUME NEW w \in 0 .. Longest PROVE 0 < 0 + (1 + Replaced(l, w)) * Largest(l)
    <3>1. Replaced(l, w) \in Nat
      BY <1>1, ReplacedNat
    <3>2. (1 + Replaced(l, w)) * Largest(l) \in Nat /\ (1 + Replaced(l, w)) * Largest(l) >= Largest(l)
      BY <3>1, <2>3, Worth
    <3>3. QED BY <3>2, <2>3
  <2>6. BoundedBefore(l)
    BY <2>2, <2>4, <2>5 DEF BoundedBefore
  <2>7. OpenedFirst(l) /\ Remembered(l)
    BY <2>1, <2>2, <2>3, <2>4 DEF OpenedFirst, Remembered
  <2>8. QED BY <2>6, <2>7 DEF Bounded
<1>3. RefusedForCause
  BY DEF Init, RefusedForCause, Limiters
<1>4. QED BY <1>1, <1>2, <1>3 DEF LimitInv

\* A check of the limiter l: what the others passed stays what it was.
LEMMA LimitCheck ==
  ASSUME LimitInv, NEW l \in Limiters, Check(l)
  PROVE  (\A k \in Limiters : Bounded(k)') /\ RefusedForCause'
<1>1. TypeOK /\ Counts /\ (\A k \in Limiters : Bounded(k)) /\ RefusedForCause
  BY DEF LimitInv
<1>2. ASSUME NEW k \in Limiters PROVE Bounded(k)'
  <2>1. CASE k = l
    BY <1>1, <2>1, BoundedPassed, BoundedRefused
  <2>2. CASE k # l
    <3>1. bucket'[k] = bucket[k]
      BY <1>1, <2>2, CheckBucket
    <3>2. passed'[k] = passed[k] /\ resets' = resets
      BY <1>1, <2>2 DEF Check, TypeOK
    <3>3. QED BY <1>1, <3>1, <3>2, BoundedSame
  <2>3. QED BY <2>1, <2>2
<1>3. RefusedForCause'
  <2>1. CASE Allows(l)
    BY <2>1 DEF Check, RefusedForCause, Limiters
  <2>2. CASE ~Allows(l)
    <3>1. refused' = l /\ passed' = passed /\ lim' = lim
      BY <2>2 DEF Check
    <3>2. bucket[l].count >= lim[l].max /\ bucket[l].age < lim[l].window
      BY <1>1, <2>2, CheckBucket, Zenon
    <3>3. /\ bucket[l].count \in Nat /\ bucket[l].age \in 0 .. Longest
          /\ lim[l].max \in Nat \ {0} /\ lim[l].max <= Largest(l)
          /\ lim[l].window \in Nat \ {0} /\ lim[l].window <= Longest
          /\ passed[l] \in History /\ Largest(l) \in Nat /\ Longest \in Nat
      BY <1>1, LimiterTypes, LimiterBounds, LongestMost
    <3>4. Used(l) \in Nat /\ Used(l) >= lim[l].max
      BY <3>2, <3>3 DEF Used
    <3>5. /\ bucket[l].age < Longest /\ bucket[l].age + 1 \in 0 .. Longest
          /\ lim[l].window \in 0 .. Longest /\ bucket[l].age + 1 <= lim[l].window
      BY <3>2, <3>3
    <3>6. Total(passed[l], bucket[l].age + 1) >= Used(l)
      BY <1>1, <3>5 DEF Bounded, Remembered
    <3>7. Total(passed[l], bucket[l].age + 1) <= Total(passed[l], lim[l].window)
      BY <3>3, <3>5, TotalGrows
    <3>8. Total(passed[l], bucket[l].age + 1) \in Nat /\ Total(passed[l], lim[l].window) \in Nat
      BY <3>3, <3>5, EventsFinite
    <3>9. Total(passed[l], lim[l].window) >= lim[l].max
      BY <3>3, <3>4, <3>6, <3>7, <3>8
    <3>10. QED BY <3>1, <3>9 DEF RefusedForCause
  <2>3. QED BY <2>1, <2>2
<1>4. QED BY <1>2, <1>3

LEMMA LimitNext == LimitInv /\ [Next]_vars => LimitInv'
<1> SUFFICES ASSUME LimitInv, [Next]_vars PROVE LimitInv'
  OBVIOUS
<1>0. TypeOK /\ Counts /\ (\A k \in Limiters : Bounded(k)) /\ RefusedForCause
  BY DEF LimitInv
<1>1. TypeOK' /\ Counts'
  BY <1>0, CountsNext
<1> SUFFICES (\A k \in Limiters : Bounded(k)') /\ RefusedForCause'
  BY <1>1 DEF LimitInv
<1>a. ASSUME refused' = "none" PROVE RefusedForCause'
  BY <1>a DEF RefusedForCause, Limiters
<1>b. ASSUME bucket' = bucket, passed' = passed, resets' = resets PROVE \A k \in Limiters : Bounded(k)'
  BY <1>0, <1>b, BoundedSame
<1>2. ASSUME NEW l \in {"ip", "ws"}, Request(l)
      PROVE  (\A k \in Limiters : Bounded(k)') /\ RefusedForCause'
  <2>1. Check(l) /\ l \in Limiters
    BY <1>2 DEF Request, Limiters
  <2>2. QED BY <2>1, LimitCheck
<1>3. CASE Handle
  <2>1. Check("user") /\ "user" \in Limiters
    BY <1>3 DEF Handle, Limiters
  <2>2. QED BY <2>1, LimitCheck
<1>4. CASE Lost
  BY <1>4, <1>a, <1>b DEF Lost
<1>5. CASE RefreshGateway
  <2>1. refused' = "none" /\ passed' = passed /\ bucket' = [bucket EXCEPT !["ip"] = Empty]
    BY <1>5 DEF RefreshGateway
  <2>2. ASSUME NEW k \in Limiters PROVE Bounded(k)'
    <3>1. CASE k = "ip"
      BY <1>0, <1>5, <3>1, BoundedReplaced
    <3>2. CASE k # "ip"
      <4>1. bucket'[k] = bucket[k]
        BY <1>0, <2>1, <3>2 DEF TypeOK
      <4>2. QED BY <1>0, <2>1, <3>2, <4>1, BoundedSame
    <3>3. QED BY <3>1, <3>2
  <2>3. QED BY <2>1, <2>2, <1>a
<1>6. CASE RefreshMessages
  BY <1>6, <1>a, <1>b DEF RefreshMessages
<1>7. CASE Tick
  <2>1. \A k \in Limiters : Bounded(k)'
    BY <1>0, <1>7, BoundedTick
  <2>2. refused' = "none"
    BY <1>7 DEF Tick
  <2>3. QED BY <2>1, <2>2, <1>a
<1>8. ASSUME NEW l \in Stored, NEW s \in Settings, admin_put_setting(l, s)
      PROVE  (\A k \in Limiters : Bounded(k)') /\ RefusedForCause'
  BY <1>8, <1>a, <1>b DEF admin_put_setting
<1>9. CASE UNCHANGED vars
  <2>1. RefusedForCause'
    BY <1>0, <1>9 DEF vars, RefusedForCause
  <2>2. QED BY <2>1, <1>9, <1>b DEF vars
<1>10. QED BY <1>2, <1>3, <1>4, <1>5, <1>6, <1>7, <1>8, <1>9 DEF Next

LEMMA LimitAlways == Spec => []LimitInv
BY LimitInit, LimitNext, PTL DEF Spec

\* How many requests a limiter passes within its shortest window: fewer than those of
\* its current window, one limit's worth before it, and one for every replacement.
LEMMA Burst ==
  ASSUME LimitInv, NEW l \in Limiters
  PROVE  Total(passed[l], Shortest(l)) < (2 + Replaced(l, Shortest(l))) * Largest(l)
<1>1. TypeOK /\ Counts /\ Bounded(l)
  BY DEF LimitInv
<1>2. PICK w : w = Shortest(l)
  OBVIOUS
<1>3. /\ bucket[l].age \in 0 .. Longest /\ passed[l] \in History /\ Longest \in Nat
      /\ Largest(l) \in Nat /\ w \in Nat /\ w <= Longest
      /\ Used(l) \in Nat /\ Used(l) <= Largest(l)
  BY <1>1, <1>2, LimiterTypes, LimiterBounds, UsedNat, LongestMost
<1>4. w \in 0 .. Longest /\ w <= bucket[l].age + Shortest(l)
  BY <1>2, <1>3
<1>5. Total(passed[l], w) < Used(l) + (1 + Replaced(l, w)) * Largest(l)
  BY <1>1, <1>4 DEF Bounded, BoundedBefore
<1>6. PICK r : r = Replaced(l, w)
  OBVIOUS
<1>7. r \in Nat /\ Total(passed[l], w) \in Nat
  BY <1>1, <1>3, <1>4, <1>6, ReplacedNat, EventsFinite
<1>8. /\ (1 + r) * Largest(l) \in Nat
      /\ (1 + (r + 1)) * Largest(l) = (1 + r) * Largest(l) + Largest(l)
  BY <1>3, <1>7, Worth
<1>9. 1 + (r + 1) = 2 + r
  BY <1>7
<1>10. Total(passed[l], w) < (2 + r) * Largest(l)
  BY <1>3, <1>5, <1>6, <1>7, <1>8, <1>9
<1>11. QED BY <1>2, <1>6, <1>10

(***************************************************************************)
(* The theorems.                                                           *)
(***************************************************************************)
\* Type correctness: no bucket counts more than one above the largest limit, whatever
\* the settings of the limiters change to.
THEOREM TypeCorrect == Spec => []TypeOK
<1>1. LimitInv => TypeOK
  BY DEF LimitInv
<1>2. QED BY <1>1, LimitAlways, PTL

\* check_user_rate: fewer than twice the limit within the shortest window, although
\* the settings change under the buckets.
THEOREM UserIsLimited == Spec => []UserBurst
<1>1. LimitInv => UserBurst
  <2>1. SUFFICES ASSUME LimitInv PROVE UserBurst
    OBVIOUS
  <2>2. Total(passed["user"], Span) < (2 + 0) * Most
    BY <2>1, Burst DEF Shortest, Largest, Replaced, Limiters
  <2>3. QED BY <2>2, LongestMost DEF UserBurst
<1>2. QED BY <1>1, LimitAlways, PTL

\* ws_check_send: the same, although it counts what it refuses.
THEOREM SocketIsLimited == Spec => []SocketBurst
<1>1. LimitInv => SocketBurst
  <2>1. SUFFICES ASSUME LimitInv PROVE SocketBurst
    OBVIOUS
  <2>2. Total(passed["ws"], WsSetting.window) < (2 + 0) * WsSetting.max
    BY <2>1, Burst DEF Shortest, Largest, Replaced, Limiters
  <2>3. QED BY <2>2 DEF SocketBurst
<1>2. QED BY <1>1, LimitAlways, PTL

\* The gateway's FixedWindow: one limit's worth more for every replacement.
THEOREM IpIsLimited == Spec => []IpBurst
<1>1. LimitInv => IpBurst
  <2>1. SUFFICES ASSUME LimitInv PROVE IpBurst
    OBVIOUS
  <2>2. QED BY <2>1, Burst DEF Shortest, Largest, Replaced, Limiters, IpBurst
<1>2. QED BY <1>1, LimitAlways, PTL

\* Whoever is refused has used up the limit in force within the window in force.
THEOREM RefusalsHaveCause == Spec => []RefusedForCause
<1>1. LimitInv => RefusedForCause
  BY DEF LimitInv
<1>2. QED BY <1>1, LimitAlways, PTL

=============================================================================
