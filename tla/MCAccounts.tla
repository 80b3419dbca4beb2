----------------------------- MODULE MCAccounts -----------------------------
\* Accounts for TLC: two accounts and two clients, which are interchangeable.
EXTENDS Accounts, TLC
CONSTANTS a, b, c1, c2, p1, p2, s1, v1
Symmetry == Permutations(Clients) \cup Permutations(Passwords)
=============================================================================
