----------------------------- MODULE ShardGrid -----------------------------
(***************************************************************************)
(* The grid of common::shard and the metric of common::geo, in integers.   *)
(*                                                                         *)
(* A point is [lat, lon].  One unit of latitude is one unit of length; one *)
(* unit of longitude has length cos(lat), written CosAt(lat) / CosScale,   *)
(* so that a whole degree grid becomes a whole number grid.  Distances are *)
(* kept squared and scaled by CosScale^2 (the code only ever compares      *)
(* them), and Metres turns a length of the code into that scale.  The      *)
(* metric is haversine's a = sin^2(dlat/2) + cos(lat1) cos(lat2)           *)
(* sin^2(dlon/2) to second order, which is all that matters at the radii   *)
(* the store is queried with.                                              *)
(***************************************************************************)
EXTENDS Integers

CONSTANTS
  ShardM,     \* side of a grid cell (LOCATION_SHARD_SIZE_M)
  CosScale,   \* denominator of the cosine table
  CosAt(_)    \* cosine of a latitude, times CosScale; never below the 1e-9 clamp

ASSUME GridAssumption == ShardM \in Nat \ {0} /\ CosScale \in Nat \ {0}

Metres(m) == (m * CosScale) * (m * CosScale)

haversine_distance(p, q) ==
  LET dlat == (p.lat - q.lat) * CosScale
      dlon == p.lon - q.lon
  IN  dlat * dlat + CosAt(p.lat) * CosAt(q.lat) * dlon * dlon

\* A cell's longitude span in degrees is ShardM / cos(lat), so the column of a
\* longitude depends on the latitude it is taken at.
CellLon == ShardM * CosScale

shard_for_coords(p) ==
  <<p.lat \div ShardM, (p.lon * CosAt(p.lat)) \div CellLon>>

Clamp(x, lo, hi) == IF x < lo THEN lo ELSE IF x > hi THEN hi ELSE x

\* Distance from q to the rectangle of cell k.  The rectangle's longitudes are
\* those of a cell at the latitude of q, not at the latitude of the cell.
min_dist_to_shard(q, k) ==
  LET nearest_lat == Clamp(q.lat, k[1] * ShardM, (k[1] + 1) * ShardM)
      x    == q.lon * CosAt(q.lat)
      dlat == (q.lat - nearest_lat) * CosScale
      dx   == x - Clamp(x, k[2] * CellLon, (k[2] + 1) * CellLon)
  IN  dlat * dlat + (CosAt(nearest_lat) * dx * dx) \div CosAt(q.lat)

\* The cells of the circle's bounding box that the circle reaches.
intersecting_shards(q, radius) ==
  LET x   == q.lon * CosAt(q.lat)
      row == (q.lat - radius) \div ShardM .. (q.lat + radius) \div ShardM
      col == (x - radius * CosScale) \div CellLon .. (x + radius * CosScale) \div CellLon
  IN  {k \in row \X col : min_dist_to_shard(q, k) <= Metres(radius)}

=============================================================================
