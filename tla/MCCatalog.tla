------------------------------ MODULE MCCatalog ------------------------------
\* Catalog for TLC: two runs of the migrations with a change or a fault, or one run and a
\* radius request with both.
EXTENDS Catalog
CONSTANTS r1, r2
TwoOfThree == {{r1, r2}, {r1, "radius", "both"}}
=============================================================================
