----------------------------- MODULE LocationMap -----------------------------
(***************************************************************************)
(* What the live map promises, whatever stores, services and sockets are   *)
(* behind it: others see a user only where that user's own client reported *)
(* to be, possibly late and possibly at an earlier place, and a user who   *)
(* has gone for good is gone from the map in the end.                      *)
(***************************************************************************)
CONSTANTS Users, Places

VARIABLES
  present,    \* users with a client connected
  reported,   \* the places each user has reported
  shown       \* the places others can see each user at

mapVars == <<present, reported, shown>>

Init ==
  /\ present = {}
  /\ reported = [u \in Users |-> {}]
  /\ shown = [u \in Users |-> {}]

Arrive(u) == present' = present \cup {u} /\ UNCHANGED <<reported, shown>>

Depart(gone) == present' = present \ gone /\ UNCHANGED <<reported, shown>>

Report(u, p) ==
  /\ u \in present
  /\ reported' = [reported EXCEPT ![u] = @ \cup {p}]
  /\ UNCHANGED <<present, shown>>

Publish(u, p) ==
  /\ p \in reported[u]
  /\ \E kept \in SUBSET shown[u] : shown' = [shown EXCEPT ![u] = kept \cup {p}]
  /\ UNCHANGED <<present, reported>>

\* Entries are removed or expire, those of several users at once too.
Withdraw ==
  /\ shown' \in [Users -> SUBSET Places] /\ \A u \in Users : shown'[u] \subseteq shown[u]
  /\ UNCHANGED <<present, reported>>

Next ==
  \/ \E u \in Users : Arrive(u) \/ \E p \in Places : Report(u, p) \/ Publish(u, p)
  \/ \E gone \in SUBSET Users : Depart(gone)
  \/ Withdraw

Spec == Init /\ [][Next]_mapVars

\* Who stays away stays off the map, from some time on.
EventuallyGone == \A u \in Users : <>[](u \notin present) => <>[](shown[u] = {})

=============================================================================
