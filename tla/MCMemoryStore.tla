--------------------------- MODULE MCMemoryStore ---------------------------
(***************************************************************************)
(* MemoryStore for TLC: stores that are already filled, a flat strip and a *)
(* flat square of cells, and a sloping ground far from the equator.        *)
(***************************************************************************)
EXTENDS MemoryStore, Functions, TLC

CONSTANTS
  Starts,      \* what the store may hold at first: the entry of each user
  StartTime,   \* and the time it is then
  Layouts,     \* which Arc each cell has
  u1, u2, u3, t1, t2, a1, a2, a3, a4

\* The store that upserts, one after the other, leave behind.
Filled ==
  \E in \in Starts, arc \in Layouts :
    LET cell(u)   == shard_for_coords(in[u].pos)
        opt(u, x) == IF in[u] = None THEN None ELSE x
    IN  /\ shards = [k \in Keys |-> IF \E u \in Users : opt(u, cell(u)) = k THEN arc[k] ELSE None]
        /\ heap = [a \in Arcs |-> [u \in Users |->
                     opt(u, IF a = arc[cell(u)] THEN in[u] ELSE None)]]
        /\ user_index = [u \in Users |-> opt(u, cell(u))]
        /\ suppression = in
        /\ now = StartTime
        /\ Quiet

FilledSpec == Filled /\ [][Next]_vars
FilledFairSpec == FilledSpec /\ Fairness

AnyLayout == Injection(Keys, Arcs)
OneLayout == {CHOOSE arc \in AnyLayout : TRUE}

At(lat, lon)  == [lat |-> lat, lon |-> lon]
Put0(p)       == [pos |-> p, at |-> 0]
Around(p, r)  == [pos |-> p, radius |-> r, limit |-> 0, excl |-> {}, favs |-> {}]

\* Away from any change of cosine: one unit of longitude is one unit of length.
Flat(lat) == 1

\* One point in each of two neighbouring cells; u1 moves, u2 stays in the second.
Strip == {At(0, 0), At(0, 2)}
StripAsked  == {Around(At(0, 0), 2)}
StripStarts == {u1 :> Put0(At(0, 0)) @@ u2 :> Put0(At(0, 2))}
Nothing == {}
Nobody == {[u \in Users |-> None]}

\* Four cells around the corner (2, 2), with points on and off their borders.  The
\* entries of u3 have expired or have not, those of the others have not.
Square == {At(0, 0), At(1, 1), At(1, 2), At(2, 1), At(3, 3)}
Fresh  == [pos : Square, at : {1}] \cup {None}
SquareStarts ==
  {u1 :> e @@ u2 :> f @@ u3 :> g :
     e \in Fresh, f \in Fresh, g \in {None, Put0(At(1, 1)), [pos |-> At(2, 1), at |-> 1]}}

\* No limit, a limit with room for a favourite, more favourites than the limit, and
\* a favourite who is blocked.
SquareAsked ==
  {[Around(p, r) EXCEPT !.limit = q[1], !.favs = q[2], !.excl = q[3]] :
     p \in {At(1, 1), At(0, 0)}, r \in {1, 2},
     q \in {<<0, {}, {}>>, <<2, {}, {}>>, <<2, {u3}, {}>>, <<1, {u2, u3}, {}>>, <<2, {u1, u3}, {u1}>>}}

\* 60 degrees north and 120 degrees east in units of 7.35 km: the cosine loses a
\* thousandth per unit of latitude.
Slope(lat)  == 500 - lat
North       == {At(0, 1817), At(1, 1817)}
NorthStarts == {u1 :> Put0(At(1, 1817))}
NorthAsked  == {Around(At(0, 1817), 1)}

Sym == Permutations(Tasks) \cup Permutations(Arcs)
=============================================================================
