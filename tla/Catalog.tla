------------------------------- MODULE Catalog -------------------------------
(***************************************************************************)
(* The collections of tiers, settings and features: how migration-service  *)
(* creates and renames them, how authority-service seeds, edits and caches *)
(* the tiers, and how location-service caches a radius it asked for.       *)
(*                                                                         *)
(* migrate_run is called by every boot of a gateway, takes no lock and     *)
(* records a migration after running it, so runs overlap, stop half way    *)
(* and are repeated; authority-service may be started before any of them.  *)
(* A document is its name and whether it has the values of the seeds or an *)
(* administrator's; ranks and labels are left out.                         *)
(***************************************************************************)
EXTENDS Naturals, FiniteSetsExt

CONSTANTS
  Standard,     \* tiers of the seeds
  Runs,         \* requests to /migrate/run and /migrate/reset under way
  Slots,        \* bound: what may happen in one behaviour, each a set of runs, with "radius"
                \* for a radius request, "both" for changes as well as faults
  CacheTTL,     \* TIERS_CACHE_TTL, 60 s, in ticks
  RadiusTTL,    \* TIER_RADIUS_CACHE_TTL, 5 min
  MaxOps,       \* bound on administrators' changes and resets
  MaxFaults,    \* bound on database errors, lost calls and restarts of authority-service
  MaxAccounts,  \* accounts in a database that is upgraded, if there are any
  None

ASSUME CatalogAssumption ==
  /\ Standard \subseteq {"regular", "premium", "unrestricted"}
  /\ Slots \subseteq SUBSET (Runs \cup {"radius", "both"})
  /\ CacheTTL \in Nat \ {0} /\ RadiusTTL \in Nat \ {0}
  /\ MaxOps \in Nat /\ MaxFaults \in Nat /\ MaxAccounts \in Nat
  /\ None \notin {"seed", "edited"}

Migrations == 1 .. 10
Tiers      == Standard \cup {"gold"}      \* gold is a tier an administrator made
Settings   == {"ttl"}
Features   == {"see_map"}                 \* a feature of the seeds
Docs       == Tiers \cup Settings \cup Features
Values     == {"seed", "edited"}

Nothing    == [d \in Docs |-> None]

VARIABLES
  old,       \* the collections tiers and admin_settings, which 010 renames
  meta,      \* meta_tiers, meta_settings and meta_features
  twice,     \* the names of which there are two documents
  unique,    \* the names over which there is a unique index
  email,     \* the index on users.email: "none", "unique" or "sparse"
  expiry,    \* the index on sessions.createdAt: "none", of "migration" 001 or of "authority"-service
  accounts,  \* how many accounts there are: none has an email field
  applied,   \* _migrations
  run,       \* the runs of migrations under way
  cache,     \* tiers_cache of authority-service
  admin,     \* what a handler does next: nothing, seed a collection, or drop the cache
  load,      \* the radius request under way: load_tiers and the answer
  radius,    \* tier_radius_cache of location-service, the entry of one tier
  made,      \* history: what administrators changed under an earlier release
  early,     \* history: authority-service was started before 010
  slots,     \* the bound in force
  ops, faults

vars == <<old, meta, twice, unique, email, expiry, accounts, applied, run, cache, admin, load,
          radius, made, early, slots, ops, faults>>
database  == <<old, meta, twice, unique, email, expiry, accounts, applied>>
history   == <<made, early, slots>>
authority == <<cache, admin, load, radius>>

\* seed_tiers gives the standard tiers their radii; an index that is there stays as it is.
TiersSeeded   == [d \in Docs |-> IF d \in Standard THEN "seed" ELSE meta[d]]
SessionsIndex == IF expiry = "none" THEN "authority" ELSE expiry

\* A new database, or one that an earlier release left, with a tier and a setting changed;
\* authority-service has started before the first gateway or not.
Init ==
  /\ early \in BOOLEAN
  /\ \/ /\ applied = {} /\ made = {} /\ accounts = 0
        /\ expiry = IF early THEN "authority" ELSE "none"
        /\ old = Nothing
     \/ /\ applied = 1 .. 9 /\ made = (Tiers \cup Settings) \ Standard
        /\ expiry = "migration" /\ accounts \in {0, MaxAccounts}
        /\ old = [d \in Docs |-> IF d \in made THEN "edited"
                                 ELSE IF d \in Standard THEN "seed" ELSE None]
  /\ meta = IF early THEN [d \in Docs |-> IF d \in Standard THEN "seed" ELSE None] ELSE Nothing
  /\ email = "none" /\ twice = {} /\ unique = {}
  /\ run = [r \in Runs |-> None]
  /\ cache = None /\ admin = "no" /\ load = None /\ radius = None
  /\ slots \in Slots /\ ops = 0 /\ faults = 0

\* The bound on how changes and faults meet; n counts the others.
Room(n) == n = 0 \/ "both" \in slots
Fault   == faults < MaxFaults /\ Room(ops) /\ faults' = faults + 1

(***************************************************************************)
(* migration-service.                                                      *)
(***************************************************************************)
\* A run has the migrations left to do and, within 010, the step it is at.  When reading
\* _migrations breaks off, none counts as applied.
Pending(todo) == [todo |-> todo, step |-> "run", docs |-> Nothing]
migrate_run(r) ==
  /\ r \in slots /\ run[r] = None
  /\ \/ /\ applied # Migrations /\ UNCHANGED faults
        /\ run' = [run EXCEPT ![r] = Pending(Migrations \ applied)]
     \/ run' = [run EXCEPT ![r] = Pending(Migrations)] /\ Fault
  /\ UNCHANGED <<database, authority, history, ops>>

\* The records and the sessions, with their index, are dropped; errors of that are ignored.
migrate_reset(r) ==
  /\ r \in slots /\ run[r] = None /\ ops < MaxOps /\ Room(faults)
  /\ run' = [run EXCEPT ![r] = Pending(Migrations)]
  /\ \/ applied' = {} /\ expiry' = "none" /\ UNCHANGED faults
     \/ applied' = {} /\ UNCHANGED expiry /\ Fault
     \/ UNCHANGED applied /\ expiry' = "none" /\ Fault
  /\ ops' = ops + 1
  /\ UNCHANGED <<old, meta, twice, unique, email, accounts, authority, history>>

At(r, ids, step) == run[r] # None /\ run[r].step = step /\ Min(run[r].todo) \in ids
Goto(r, step)    == run' = [run EXCEPT ![r].step = step]

\* 001: the unique index on email, which accounts without an email cannot both satisfy and
\* which cannot replace the sparse one of 006; then that on sessions.createdAt, which cannot
\* replace one of authority-service, with its other lifetime.
migration_001(r) ==
  /\ \/ /\ At(r, {1}, "run") /\ accounts <= 1 /\ email # "sparse"
        /\ email' = "unique" /\ Goto(r, "sessions") /\ UNCHANGED expiry
     \/ /\ At(r, {1}, "sessions") /\ expiry # "authority"
        /\ expiry' = "migration" /\ Goto(r, "record") /\ UNCHANGED email
  /\ UNCHANGED old

\* 004 and 009: the seeds, where there is no document of that name.
Seeded(names) == [d \in Docs |-> IF d \in names /\ old[d] = None THEN "seed" ELSE old[d]]
migration_004(r) == At(r, {4}, "run") /\ old' = Seeded(Standard) /\ UNCHANGED email
migration_009(r) == At(r, {9}, "run") /\ old' = Seeded(Settings) /\ UNCHANGED email

\* 006 and 008: the index on email is replaced by a sparse one, and dropped.
migration_006(r) == At(r, {6}, "run") /\ email' = "sparse" /\ UNCHANGED old
migration_008(r) == At(r, {8}, "run") /\ email' = "none" /\ UNCHANGED old

\* The others touch nothing of this (further indexes, the name of a tier in accounts), so
\* running them is no step here.
OtherMigration(r) == At(r, {2, 3, 5, 7}, "run")

run_migration(r) ==
  /\ \/ migration_001(r)
     \/ /\ migration_004(r) \/ migration_006(r) \/ migration_008(r) \/ migration_009(r)
        /\ Goto(r, "record") /\ UNCHANGED expiry
  /\ UNCHANGED <<meta, twice, unique, accounts, applied, authority, history, ops, faults>>

\* 010: an index on the new collection, the documents read, inserted and the old collection
\* dropped, for the tiers and then for the settings; the index on sessions.createdAt dropped;
\* an index and the seeds for the features.
MetaIndex(r, coll, step, next) ==
  /\ At(r, {10}, step) /\ twice \cap coll = {}
  /\ unique' = unique \cup coll
  /\ Goto(r, next)
  /\ UNCHANGED <<old, meta, twice, email, expiry, accounts, applied, authority, history, ops, faults>>

\* A failed read counts as an empty collection.
MetaFind(r, coll, step, next) ==
  /\ At(r, {10}, step)
  /\ \E docs \in {Nothing, [d \in Docs |-> IF d \in coll THEN old[d] ELSE None]} :
       /\ run' = [run EXCEPT ![r].step = next, ![r].docs = docs]
       /\ IF \A d \in coll : docs[d] = old[d] THEN UNCHANGED faults ELSE Fault
  /\ UNCHANGED <<database, authority, history, ops>>

\* Mutant: documents there are replaced.
InsertedOver(docs, names) == [d \in Docs |-> IF docs[d] # None THEN docs[d] ELSE meta[d]]
\* Mutant: nothing is copied.
InsertedNone(docs, names) == meta
\* insert_many stops at the first name that is taken; its result is ignored, and so is that
\* of the drop.  names: what was inserted before it stopped.
Inserted(docs, names) == [d \in Docs |-> IF d \in names THEN docs[d] ELSE meta[d]]

Present(docs) == {d \in Docs : docs[d] # None}
MetaCopy(r, step, next) ==
  /\ At(r, {10}, step)
  /\ LET all == Present(run[r].docs) IN
     \E names \in SUBSET all :
       /\ \/ names = all /\ UNCHANGED faults
          \/ (\E d \in all \ names : meta[d] # None) /\ UNCHANGED faults
          \/ names # all /\ Fault
       /\ \A d \in names : meta[d] = None
       /\ meta' = Inserted(run[r].docs, names)
  /\ Goto(r, next)
  /\ UNCHANGED <<old, twice, unique, email, expiry, accounts, applied, authority, history, ops>>

MetaDrop(r, coll, step, next) ==
  /\ At(r, {10}, step)
  /\ \/ old' = [d \in Docs |-> IF d \in coll THEN None ELSE old[d]] /\ UNCHANGED faults
     \/ UNCHANGED old /\ Fault
  /\ Goto(r, next)
  /\ UNCHANGED <<meta, twice, unique, email, expiry, accounts, applied, authority, history, ops>>

StaleDrop(r) ==
  /\ At(r, {10}, "stale")
  /\ \/ expiry' = "none" /\ UNCHANGED faults
     \/ UNCHANGED expiry /\ Fault
  /\ Goto(r, "index")
  /\ UNCHANGED <<old, meta, twice, unique, email, accounts, applied, authority, history, ops>>

FeatureSeed(r) ==
  /\ At(r, {10}, "seed")
  /\ meta' = [d \in Docs |-> IF d \in Features /\ meta[d] = None THEN "seed" ELSE meta[d]]
  /\ Goto(r, "record")
  /\ UNCHANGED <<old, twice, unique, email, expiry, accounts, applied, authority, history, ops, faults>>

\* A migration is recorded after it ran, and the run goes on with the next one.
Record(r) ==
  /\ OtherMigration(r) \/ At(r, Migrations, "record")
  /\ LET id   == Min(run[r].todo)
         left == run[r].todo \ {id}
     IN
     /\ applied' = applied \cup {id}
     /\ run' = [run EXCEPT ![r] = IF left = {} THEN None ELSE [@ EXCEPT !.todo = left, !.step = "run"]]
  /\ UNCHANGED <<old, meta, twice, unique, email, expiry, accounts, authority, history, ops, faults>>

\* An index that cannot be built ends a run.
Unbuildable(r) ==
  \/ At(r, {1}, "run") /\ (accounts > 1 \/ email = "sparse")
  \/ At(r, {1}, "sessions") /\ expiry = "authority"
  \/ At(r, {10}, "run") /\ twice \cap Tiers # {}
  \/ At(r, {10}, "index") /\ twice \cap Features # {}
Refused(r) ==
  /\ Unbuildable(r)
  /\ run' = [run EXCEPT ![r] = None]
  /\ UNCHANGED <<database, authority, history, ops, faults>>

\* So do a database error and the end of the process, at any step.
RunFails(r) ==
  /\ run[r] # None /\ Fault
  /\ run' = [run EXCEPT ![r] = None]
  /\ UNCHANGED <<database, authority, history, ops>>

(***************************************************************************)
(* authority-service: seeding, administration, cache.                      *)
(***************************************************************************)
static_tiers == [d \in Tiers |-> IF d \in Standard THEN "seed" ELSE None]

\* A start: the index on sessions.createdAt, then seed_tiers; errors of both are ignored.  The
\* cache is empty.
RestartAuthority ==
  /\ Fault
  /\ meta' \in {meta, TiersSeeded} /\ expiry' \in {expiry, SessionsIndex}
  /\ cache' = None /\ admin' = "no" /\ load' = None
  /\ early' = (early \/ 10 \notin applied)
  /\ UNCHANGED <<old, twice, unique, email, accounts, applied, run, radius, made, slots, ops>>

\* A handler changes the collection, then drops the cache (that of the features, which nothing
\* here reads, is left out).
AdminChange(d, doc) ==
  /\ ops < MaxOps /\ Room(faults) /\ admin = "no"
  /\ meta' = [meta EXCEPT ![d] = doc] /\ ops' = ops + 1
  /\ admin' = IF d \in Tiers THEN "drop" ELSE "no"
  /\ UNCHANGED <<old, unique, email, expiry, accounts, applied, run, cache, load, radius, history, faults>>

\* Of a name that is taken a unique index refuses a second document.
Create(d) ==
  /\ meta[d] # None => d \notin unique
  /\ AdminChange(d, "edited")
  /\ twice' = twice \cup {e \in {d} : meta[e] # None}
Update(d) == meta[d] # None /\ AdminChange(d, "edited") /\ UNCHANGED twice
Delete(d) ==
  /\ meta[d] # None /\ twice' = twice \ {d}
  /\ AdminChange(d, IF d \in twice THEN meta[d] ELSE None)

admin_create_tier(t) == t \in Tiers /\ Create(t)
admin_update_tier(t) == t \in Tiers /\ Update(t)
admin_delete_tier(t) == t \in Tiers /\ Delete(t)
admin_create_feature(f) == f \in Features /\ Create(f)
admin_update_feature(f) == f \in Features /\ Update(f)
admin_delete_feature(f) == f \in Features /\ Delete(f)

\* Listing tiers or features counts them and, when there were none (or the features could not
\* be counted), inserts the static ones: whoever was faster is found by the unique index
\* only.  The result is ignored.
Count(coll, next) ==
  /\ ops < MaxOps /\ Room(faults) /\ admin = "no"
  /\ \/ (\A d \in coll : meta[d] = None) /\ UNCHANGED faults
     \/ coll = Features /\ Fault
  /\ admin' = next /\ ops' = ops + 1
  /\ UNCHANGED <<database, run, cache, load, radius, history>>
admin_list_tiers    == Count(Tiers, "tiers")
admin_list_features == Count(Features, "features")
ListSeed(docs, step, next) ==
  /\ admin = step
  /\ \/ /\ meta' = [d \in Docs |-> IF d \in docs /\ meta[d] = None THEN "seed" ELSE meta[d]]
        /\ twice' = twice \cup {d \in docs \ unique : meta[d] # None}
        /\ UNCHANGED faults
     \/ UNCHANGED <<meta, twice>> /\ Fault
  /\ admin' = next
  /\ UNCHANGED <<old, unique, email, expiry, accounts, applied, run, cache, load, radius, history, ops>>

Invalidate ==
  /\ admin = "drop"
  /\ admin' = "no" /\ cache' = None
  /\ UNCHANGED <<database, run, load, radius, history, ops, faults>>

admin_put_setting(k) ==
  /\ ops < MaxOps /\ Room(faults) /\ meta[k] # None
  /\ meta' = [meta EXCEPT ![k] = "edited"] /\ ops' = ops + 1
  /\ UNCHANGED <<old, twice, unique, email, expiry, accounts, applied, run, authority, history, faults>>

\* load_tiers: a fresh cache, or the collection (the static tiers when that is empty or
\* cannot be read), which is stored after the read.
LoadFind ==
  /\ "radius" \in slots /\ load = None /\ radius = None
  /\ \/ /\ cache # None
        /\ load' = [step |-> "answer", tiers |-> cache.tiers] /\ UNCHANGED faults
     \/ /\ cache = None
        /\ load' = [step |-> "store",
                    tiers |-> IF \A t \in Tiers : meta[t] = None THEN static_tiers
                              ELSE [t \in Tiers |-> meta[t]]]
        /\ UNCHANGED faults
     \/ cache = None /\ load' = [step |-> "store", tiers |-> static_tiers] /\ Fault
  /\ UNCHANGED <<database, run, cache, admin, radius, history, ops>>

LoadStore ==
  /\ load # None /\ load.step = "store"
  /\ cache' = [tiers |-> load.tiers, age |-> 0]
  /\ load' = [load EXCEPT !.step = "answer"]
  /\ UNCHANGED <<database, run, admin, radius, history, ops, faults>>

\* nearby_radius and authority_verify: the tiers, then the static ones, then 500 m.
Answer(tiers, t) == IF tiers[t] # None THEN tiers[t]
                    ELSE IF t \in Standard THEN static_tiers[t] ELSE "guest"

\* The fallback of location-service itself knows two of the standard tiers.
fallback(t) == IF t \in {"regular", "premium"} THEN "seed" ELSE "guest"

\* get_nearby_radius_m caches the answer for a tier, or its own fallback when there is none.
get_nearby_radius_m(t) ==
  /\ load # None /\ load.step = "answer"
  /\ \/ radius' = [tier |-> t, value |-> Answer(load.tiers, t), age |-> 0] /\ UNCHANGED faults
     \/ radius' = [tier |-> t, value |-> fallback(t), age |-> 0] /\ Fault
  /\ load' = None
  /\ UNCHANGED <<database, run, cache, admin, history, ops>>

\* Mutant: an entry lives one tick longer.
OlderLate(c, ttl) == IF c = None \/ c.age = ttl THEN None ELSE [c EXCEPT !.age = @ + 1]
\* An entry that has expired is as good as none.
Older(c, ttl) == IF c = None \/ c.age + 1 = ttl THEN None ELSE [c EXCEPT !.age = @ + 1]
Tick ==
  /\ cache' = Older(cache, CacheTTL) /\ radius' = Older(radius, RadiusTTL)
  /\ UNCHANGED <<database, run, admin, load, history, ops, faults>>

Copy(r) ==
  \/ MetaIndex(r, Tiers, "run", "find")
  \/ MetaFind(r, Tiers, "find", "copy") \/ MetaCopy(r, "copy", "drop")
  \/ MetaDrop(r, Tiers, "drop", "find2")
  \/ MetaFind(r, Settings, "find2", "copy2") \/ MetaCopy(r, "copy2", "drop2")
  \/ MetaDrop(r, Settings, "drop2", "stale") \/ StaleDrop(r)
  \/ MetaIndex(r, Features, "index", "seed") \/ FeatureSeed(r)

Administer ==
  \/ \E d \in Docs :
       \/ admin_create_tier(d) \/ admin_update_tier(d) \/ admin_delete_tier(d)
       \/ admin_create_feature(d) \/ admin_update_feature(d) \/ admin_delete_feature(d)
  \/ admin_list_tiers \/ admin_list_features
  \/ \E k \in Settings : admin_put_setting(k)

AdminSeed == ListSeed(Standard, "tiers", "drop") \/ ListSeed(Features, "features", "no")

Next ==
  \/ \E r \in Runs : \/ migrate_run(r) \/ migrate_reset(r) \/ run_migration(r) \/ Copy(r)
                     \/ Record(r) \/ Refused(r) \/ RunFails(r)
  \/ RestartAuthority \/ Administer \/ AdminSeed \/ Invalidate
  \/ LoadFind \/ LoadStore \/ (\E t \in Tiers : get_nearby_radius_m(t)) \/ Tick

\* A run that was started and is not stopped goes on, and so does a handler; time passes.
\* Nothing says that a run is started: a gateway calls migrate_run once when it boots.
Fairness ==
  /\ \A r \in Runs : WF_vars(run_migration(r) \/ Copy(r) \/ Record(r) \/ Refused(r))
  /\ WF_vars(AdminSeed) /\ WF_vars(Invalidate) /\ WF_vars(Tick)

Spec == Init /\ [][Next]_vars /\ Fairness

(***************************************************************************)
(* Properties.                                                             *)
(***************************************************************************)
DatabaseOK ==
  /\ old \in [Docs -> Values \cup {None}] /\ meta \in [Docs -> Values \cup {None}]
  /\ twice \subseteq Docs /\ unique \subseteq Docs
  /\ email \in {"none", "unique", "sparse"} /\ expiry \in {"none", "migration", "authority"}
  /\ accounts \in Nat /\ applied \subseteq Migrations
Steps == {"run", "find", "copy", "drop", "find2", "copy2", "drop2", "stale",
          "index", "seed", "record", "sessions"}
RunsOK ==
  run \in [Runs -> [todo : SUBSET Migrations, step : Steps, docs : [Docs -> Values \cup {None}]] \cup {None}]
AuthorityOK ==
  /\ cache \in [tiers : [Tiers -> Values \cup {None}], age : 0 .. CacheTTL - 1] \cup {None}
  /\ admin \in {"no", "tiers", "features", "drop"}
  /\ load \in [step : {"store", "answer"}, tiers : [Tiers -> Values \cup {None}]] \cup {None}
  /\ radius \in [tier : Tiers, value : Values \cup {"guest"}, age : 0 .. RadiusTTL - 1] \cup {None}

\* Types: a cached value is gone once it is as old as its lifetime.
TypeOK ==
  /\ DatabaseOK /\ RunsOK /\ AuthorityOK
  /\ made \subseteq (Tiers \cup Settings) \ Standard /\ early \in BOOLEAN /\ slots \in Slots
  /\ ops \in 0 .. MaxOps /\ faults \in 0 .. MaxFaults

\* A document of the new collections that an administrator made or changed, and that is not
\* one of the tiers seed_tiers sets at every start, is changed by administrators only: no
\* repeated, overlapping or failed migration, reset, seed or start undoes it.
EditsSurvive ==
  [][ops' = ops => \A d \in Docs \ Standard : meta[d] = "edited" => meta'[d] = "edited"]_vars

\* What administrators changed under an earlier release is copied before it is dropped, by
\* any number of runs, as long as authority-service was not started before and nothing fails.
CopiedBeforeDropped ==
  early \/ faults > 0 \/ ops > 0 \/ \A d \in made : "edited" \in {old[d], meta[d]}



=============================================================================
