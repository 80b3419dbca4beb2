---------------------------- MODULE MCMessaging ----------------------------
(***************************************************************************)
(* Messaging for TLC: two users who already favour each other, one of them *)
(* sharing a position; two places, in range of each other for the larger   *)
(* radius only.                                                            *)
(***************************************************************************)
EXTENDS Messaging, TLC

CONSTANTS u1, u2, p1, p2, regular, premium

PlaceDist == [x \in Places \X Places |-> IF x[1] = x[2] THEN 0 ELSE 2]

\* u1 has still to push, or a range-sync has found the two, both regular, at one place.
Favoured ==
  /\ radius = (regular :> 1 @@ premium :> 3)
  /\ \/ /\ tier \in {[u \in Users |-> regular], (u1 :> premium @@ u2 :> regular)}
        /\ loc = (u1 :> None @@ u2 :> p1) /\ favs = [p \in Pairs |-> "unset"]
     \/ /\ tier = [u \in Users |-> regular]
        /\ loc = [u \in Users |-> p1] /\ favs = [p \in Pairs |-> "in"]
  /\ Quiet

MCSpec == Favoured /\ [][Next]_vars /\ Fairness
=============================================================================
