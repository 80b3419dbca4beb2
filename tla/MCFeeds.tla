------------------------------ MODULE MCFeeds ------------------------------
\* Feeds for TLC: two peers, of whom one is a venue.
EXTENDS Feeds
CONSTANTS p1, p2, x1
FairSpec == Spec /\ Fairness
=============================================================================
