------------------------- MODULE MCLocationSession -------------------------
\* LocationSession for TLC: one user on one socket, with two requests in flight.
EXTENDS LocationSession
CONSTANTS u1, s1, t1, t2, p1, p2
FairSpec == Spec /\ Fairness
=============================================================================
