--------------------------- MODULE CatalogProofs ---------------------------
(***************************************************************************)
(* Proofs about Catalog, for any number of overlapping runs of the         *)
(* migrations and any number of changes and faults: its types, that edits  *)
(* of the new collections survive, and that nothing of the old ones is     *)
(* dropped before it was copied.                                           *)
(***************************************************************************)
EXTENDS Catalog, TLAPS

\* What administrators made under the earlier release is in the new collection.
Kept(coll) == \A d \in made \cap coll : meta[d] = "edited"

\* Run r has read what of it is not in the new collection yet, and nothing of elsewhere.
Held(r, coll) ==
  /\ \A d \in made \cap coll : "edited" \in {run[r].docs[d], meta[d]}
  /\ \A d \in Docs \ coll : run[r].docs[d] = None

\* As long as nothing has failed, nothing was changed and authority-service has not been
\* started: a name of the new collection is taken by its copy only, the standard tier is not
\* there without the others, and a run that is to drop a collection has seen it copied.
Clean == ~early /\ faults = 0 /\ ops = 0
CopyInv ==
  Clean =>
    /\ admin = "no"
    /\ \A d \in made : meta[d] \in {None, "edited"} /\ (meta[d] = None => old[d] = "edited")
    /\ \A d \in Standard : meta[d] # None => Kept(Tiers)
    /\ \A r \in Runs : run[r] # None =>
         /\ run[r].step = "copy"  => Held(r, Tiers)
         /\ run[r].step = "drop"  => Kept(Tiers)
         /\ run[r].step = "copy2" => Held(r, Settings)
         /\ run[r].step = "drop2" => Kept(Settings)

CatalogInv == TypeOK /\ CopyInv

RunState == [todo : SUBSET Migrations, step : Steps, docs : [Docs -> Values \cup {None}]]

-----------------------------------------------------------------------------
\* The names, and that None is none of the values.
LEMMA Names ==
  /\ Standard \subseteq {"regular", "premium", "unrestricted"} /\ Tiers = Standard \cup {"gold"}
  /\ Settings = {"ttl"} /\ Features = {"see_map"}
  /\ Docs = Standard \cup {"gold", "ttl", "see_map"} /\ Values = {"seed", "edited"}
  /\ None # "seed" /\ None # "edited" /\ None \notin Values
BY CatalogAssumption DEF Tiers, Settings, Features, Docs, Values

\* A new database and one that is upgraded.
LEMMA CatalogInit == Init => CatalogInv
<1> SUFFICES ASSUME Init PROVE CatalogInv
  OBVIOUS
<1>1. Nothing \in [Docs -> Values \cup {None}]
  BY DEF Nothing
<1>2. /\ old \in [Docs -> Values \cup {None}] /\ accounts \in Nat /\ applied \subseteq Migrations
      /\ made \subseteq (Tiers \cup Settings) \ Standard
      /\ \A d \in made : old[d] = "edited"
  <2>1. CASE /\ applied = {} /\ made = {} /\ accounts = 0 /\ old = Nothing
    BY <1>1, <2>1
  <2>2. CASE /\ applied = 1 .. 9 /\ made = (Tiers \cup Settings) \ Standard
             /\ accounts \in {0, MaxAccounts}
             /\ old = [d \in Docs |-> IF d \in made THEN "edited"
                                      ELSE IF d \in Standard THEN "seed" ELSE None]
    <3>1. applied \subseteq Migrations
      BY <2>2 DEF Migrations
    <3>2. accounts \in Nat
      BY <2>2, CatalogAssumption
    <3>3. made \subseteq Docs /\ made \subseteq (Tiers \cup Settings) \ Standard
      BY <2>2 DEF Docs
    <3>4. old \in [Docs -> Values \cup {None}]
      BY <2>2 DEF Values
    <3>5. \A d \in made : old[d] = "edited"
      BY <2>2, <3>3
    <3> QED BY <3>1, <3>2, <3>3, <3>4, <3>5
  <2> QED BY <2>1, <2>2 DEF Init
<1>3. DatabaseOK
  <2>1. meta \in [Docs -> Values \cup {None}]
    BY <1>1 DEF Init, Values
  <2>2. expiry \in {"none", "migration", "authority"}
    BY DEF Init
  <2> QED BY <1>2, <2>1, <2>2 DEF Init, DatabaseOK
<1>4. RunsOK /\ AuthorityOK
  BY DEF Init, RunsOK, AuthorityOK
<1>5. TypeOK
  <2>1. early \in BOOLEAN
    BY Zenon DEF Init
  <2>2. slots \in Slots /\ ops \in 0 .. MaxOps /\ faults \in 0 .. MaxFaults
    BY CatalogAssumption DEF Init
  <2> QED BY <1>2, <1>3, <1>4, <2>1, <2>2 DEF TypeOK
<1>7. ~early => \A d \in Docs : meta[d] = None
  BY DEF Init, Nothing
<1>8. CopyInv
  <2>1. \A d \in made : d \in Docs
    BY <1>2 DEF Docs
  <2>2. \A d \in Standard : d \in Docs
    BY DEF Docs, Tiers
  <2> QED BY <1>2, <1>7, <2>1, <2>2 DEF Init, CopyInv, Clean
<1> QED BY <1>5, <1>8 DEF CatalogInv

\* Changes and faults are counted up to their bounds.
LEMMA BoundsKept ==
  ASSUME TypeOK, ops' = ops \/ (ops < MaxOps /\ ops' = ops + 1), faults' = faults \/ Fault
  PROVE  /\ ops' \in 0 .. MaxOps /\ faults' \in 0 .. MaxFaults
         /\ ops' = 0 => ops = 0 /\ ops' = ops
         /\ faults' = 0 => faults = 0 /\ faults' = faults
BY CatalogAssumption DEF TypeOK, Fault

\* A run goes to another step.
LEMMA GotoStep ==
  ASSUME RunsOK, NEW r \in Runs, run[r] # None, NEW step \in Steps, Goto(r, step)
  PROVE  /\ RunsOK' /\ \A x \in Runs : x # r => run'[x] = run[x]
         /\ run'[r].step = step /\ run'[r].docs = run[r].docs
<1>1. run[r] \in RunState
  BY DEF RunsOK, RunState
<1>2. [run[r] EXCEPT !.step = step] \in RunState
  BY <1>1 DEF RunState
<1>3. run' = [run EXCEPT ![r] = [run[r] EXCEPT !.step = step]]
  BY DEF Goto
<1>4. RunsOK'
  BY <1>2, <1>3 DEF RunsOK, RunState
<1>5. run'[r] = [run[r] EXCEPT !.step = step] /\ \A x \in Runs : x # r => run'[x] = run[x]
  BY <1>3 DEF RunsOK
<1> QED BY <1>1, <1>4, <1>5 DEF RunState

\* A step of a migration run keeps the types when it keeps those of the database and the runs.
LEMMA RunTypes ==
  ASSUME TypeOK, DatabaseOK', RunsOK', UNCHANGED <<authority, history>>,
         ops' = ops \/ (ops < MaxOps /\ ops' = ops + 1), faults' = faults \/ Fault
  PROVE  TypeOK'
<1>1. AuthorityOK'
  BY DEF TypeOK, AuthorityOK, authority
<1> QED BY <1>1, BoundsKept DEF TypeOK, history

\* What a step of run r has to keep.
LEMMA CopyStep ==
  ASSUME CatalogInv, UNCHANGED <<authority, history>>,
         ops' = ops \/ (ops < MaxOps /\ ops' = ops + 1), faults' = faults \/ Fault,
         NEW r \in Runs, \A x \in Runs : x # r => run'[x] = run[x],
         Clean /\ Clean' /\ UNCHANGED faults =>
           /\ \A d \in made : /\ meta[d] = "edited" => meta'[d] = "edited"
                              /\ meta'[d] \in {None, "edited"} /\ (meta'[d] = None => old'[d] = "edited")
           /\ \A d \in Standard : meta'[d] # None => Kept(Tiers)'
           /\ run'[r] # None => /\ run'[r].step = "copy"  => Held(r, Tiers)'
                                /\ run'[r].step = "drop"  => Kept(Tiers)'
                                /\ run'[r].step = "copy2" => Held(r, Settings)'
                                /\ run'[r].step = "drop2" => Kept(Settings)'
  PROVE  CopyInv'
<1> SUFFICES ASSUME Clean' PROVE CopyInv'
  BY DEF CopyInv
<1>1. Clean /\ UNCHANGED <<made, early, admin, faults>>
  BY BoundsKept DEF Clean, CatalogInv, history, authority
<1>2. CopyInv
  BY DEF CatalogInv
<1>3. \A d \in made : meta[d] = "edited" => meta'[d] = "edited"
  BY <1>1
<1>4. \A x \in Runs : x # r => (Held(x, Tiers) => Held(x, Tiers)') /\ (Held(x, Settings) => Held(x, Settings)')
  BY <1>1, <1>3 DEF Held
<1>5. (Kept(Tiers) => Kept(Tiers)') /\ (Kept(Settings) => Kept(Settings)')
  BY <1>1, <1>3 DEF Kept
<1>6. ASSUME NEW x \in Runs, run'[x] # None
      PROVE  /\ run'[x].step = "copy"  => Held(x, Tiers)'
             /\ run'[x].step = "drop"  => Kept(Tiers)'
             /\ run'[x].step = "copy2" => Held(x, Settings)'
             /\ run'[x].step = "drop2" => Kept(Settings)'
  <2>1. CASE x = r
    BY <1>1, <1>6, <2>1
  <2>2. CASE x # r
    BY <1>1, <1>2, <1>4, <1>5, <1>6, <2>2 DEF CopyInv
  <2> QED BY <2>1, <2>2
<1>7. \A d \in made' : meta'[d] \in {None, "edited"} /\ (meta'[d] = None => old'[d] = "edited")
  BY <1>1
<1>8. \A d \in Standard : meta'[d] # None => Kept(Tiers)'
  BY <1>1
<1>9. admin' = "no"
  BY <1>1, <1>2 DEF CopyInv
<1> QED BY <1>6, <1>7, <1>8, <1>9 DEF CopyInv

\* A step of a run that leaves the collections alone, except for seeds of the old one.
LEMMA RunCopyInv ==
  ASSUME CatalogInv, UNCHANGED <<meta, authority, history>>,
         ops' = ops \/ (ops < MaxOps /\ ops' = ops + 1), faults' = faults \/ Fault,
         \A d \in made : old[d] = "edited" => old'[d] = "edited",
         NEW r \in Runs, \A x \in Runs : x # r => run'[x] = run[x],
         Clean /\ UNCHANGED faults /\ run'[r] # None =>
           /\ run'[r].step = "copy"  => Held(r, Tiers)'
           /\ run'[r].step = "drop"  => Kept(Tiers)
           /\ run'[r].step = "copy2" => Held(r, Settings)'
           /\ run'[r].step = "drop2" => Kept(Settings)
  PROVE  CopyInv'
<1>1. Kept(Tiers)' = Kept(Tiers) /\ Kept(Settings)' = Kept(Settings)
  BY DEF Kept, history
<1>2. CopyInv
  BY DEF CatalogInv
<1>3. ASSUME Clean, UNCHANGED faults
      PROVE  /\ \A d \in made : /\ meta[d] = "edited" => meta'[d] = "edited"
                                /\ meta'[d] \in {None, "edited"} /\ (meta'[d] = None => old'[d] = "edited")
             /\ \A d \in Standard : meta'[d] # None => Kept(Tiers)'
             /\ run'[r] # None => /\ run'[r].step = "copy"  => Held(r, Tiers)'
                                  /\ run'[r].step = "drop"  => Kept(Tiers)'
                                  /\ run'[r].step = "copy2" => Held(r, Settings)'
                                  /\ run'[r].step = "drop2" => Kept(Settings)'
  BY <1>1, <1>2, <1>3 DEF CopyInv
<1> QED BY <1>3, CopyStep

-----------------------------------------------------------------------------
(***************************************************************************)
(* migration-service.                                                      *)
(***************************************************************************)
\* A run starts, ends or goes on to the next migration.
LEMMA RunMoves ==
  ASSUME CatalogInv, NEW r \in Runs,
         NEW v \in RunState \cup {None}, v # None => v.step = "run",
         run' = [run EXCEPT ![r] = v],
         applied' \subseteq Migrations, expiry' \in {expiry, "none"},
         UNCHANGED <<old, meta, twice, unique, email, accounts, authority, history>>,
         ops' = ops \/ (ops < MaxOps /\ ops' = ops + 1), faults' = faults \/ Fault
  PROVE  CatalogInv'
<1>1. TypeOK
  BY DEF CatalogInv
<1>2. DatabaseOK'
  BY <1>1 DEF TypeOK, DatabaseOK
<1>3. RunsOK' /\ run'[r] = v /\ \A x \in Runs : x # r => run'[x] = run[x]
  BY <1>1 DEF TypeOK, RunsOK, RunState
<1>4. TypeOK'
  BY <1>1, <1>2, <1>3, RunTypes
<1>5. CopyInv'
  BY <1>3, RunCopyInv
<1> QED BY <1>4, <1>5 DEF CatalogInv

LEMMA StartKeeps ==
  ASSUME CatalogInv, NEW r \in Runs, migrate_run(r) \/ migrate_reset(r)
  PROVE  CatalogInv'
<1>1. \A todo \in SUBSET Migrations : Pending(todo) \in RunState /\ Pending(todo).step = "run"
  BY DEF Pending, RunState, Steps, Nothing
<1>2. applied \subseteq Migrations
  BY DEF CatalogInv, TypeOK, DatabaseOK
<1>3. \E todo \in SUBSET Migrations : run' = [run EXCEPT ![r] = Pending(todo)]
  BY DEF migrate_run, migrate_reset
<1>4. PICK todo \in SUBSET Migrations : run' = [run EXCEPT ![r] = Pending(todo)]
  BY <1>3
<1>5. applied' \subseteq Migrations /\ expiry' \in {expiry, "none"}
  BY <1>2 DEF migrate_run, migrate_reset, database
<1>6. /\ UNCHANGED <<old, meta, twice, unique, email, accounts, authority, history>>
      /\ ops' = ops \/ (ops < MaxOps /\ ops' = ops + 1)
      /\ faults' = faults \/ Fault
  BY DEF migrate_run, migrate_reset, database
<1> QED BY <1>1, <1>4, <1>5, <1>6, RunMoves

LEMMA EndKeeps ==
  ASSUME CatalogInv, NEW r \in Runs, Refused(r) \/ RunFails(r)
  PROVE  CatalogInv'
<1>1. run' = [run EXCEPT ![r] = None] /\ UNCHANGED <<database, authority, history, ops>>
  BY DEF Refused, RunFails
<1>2. faults' = faults \/ Fault
  BY DEF Refused, RunFails
<1>3. applied' \subseteq Migrations
  BY <1>1 DEF CatalogInv, TypeOK, DatabaseOK, database
<1> QED BY <1>1, <1>2, <1>3, RunMoves DEF database

LEMMA RecordKeeps ==
  ASSUME CatalogInv, NEW r \in Runs, Record(r)
  PROVE  CatalogInv'
<1> DEFINE id == Min(run[r].todo)
           left == run[r].todo \ {id}
           v  == IF left = {} THEN None ELSE [run[r] EXCEPT !.todo = left, !.step = "run"]
<1>1. id \in Migrations /\ run[r] # None
  BY DEF Record, OtherMigration, At, Migrations
<1>2. run[r] \in RunState /\ applied \subseteq Migrations
  BY <1>1 DEF CatalogInv, TypeOK, RunsOK, DatabaseOK, RunState
<1>3. run' = [run EXCEPT ![r] = v] /\ applied' = applied \cup {id}
  BY DEF Record
<1> HIDE DEF id
<1>4. v \in RunState \cup {None} /\ (v # None => v.step = "run")
  BY <1>2 DEF RunState, Steps
<1> HIDE DEF v
<1>5. applied' \subseteq Migrations
  BY <1>1, <1>2, <1>3
<1>6. UNCHANGED <<old, meta, twice, unique, email, expiry, accounts, authority, history, ops, faults>>
  BY DEF Record
<1> QED BY <1>3, <1>4, <1>5, <1>6, RunMoves

\* The migrations before 010: seeds fill gaps only.
LEMMA MigrationKeeps ==
  ASSUME CatalogInv, NEW r \in Runs, run_migration(r)
  PROVE  CatalogInv'
<1>1. TypeOK
  BY DEF CatalogInv
<1>2. PICK step \in {"record", "sessions"} : run[r] # None /\ Goto(r, step) /\ step \in Steps
  BY DEF run_migration, migration_001, migration_004, migration_006, migration_008, migration_009, At, Steps
<1>3. /\ RunsOK' /\ \A x \in Runs : x # r => run'[x] = run[x]
      /\ run'[r].step = step
  BY <1>1, <1>2, GotoStep DEF TypeOK
<1>4. \A names : /\ Seeded(names) \in [Docs -> Values \cup {None}]
                 /\ \A d \in Docs : old[d] = "edited" => Seeded(names)[d] = "edited"
  BY <1>1, Names DEF Seeded, TypeOK, DatabaseOK
<1>5. /\ UNCHANGED <<meta, twice, unique, accounts, applied, authority, history, ops, faults>>
      /\ old' = old \/ \E names \in {Standard, Settings} : old' = Seeded(names)
      /\ email' \in {email, "none", "unique", "sparse"} /\ expiry' \in {expiry, "migration"}
  BY DEF run_migration, migration_001, migration_004, migration_006, migration_008, migration_009
<1>6. DatabaseOK'
  BY <1>1, <1>4, <1>5 DEF TypeOK, DatabaseOK
<1>7. TypeOK'
  BY <1>1, <1>3, <1>5, <1>6, RunTypes
<1>8. \A d \in made : old[d] = "edited" => old'[d] = "edited"
  BY <1>1, <1>4, <1>5 DEF TypeOK, Docs
<1>9. CopyInv'
  BY <1>3, <1>5, <1>8, RunCopyInv
<1> QED BY <1>7, <1>9 DEF CatalogInv

\* 010: the indexes.
LEMMA IndexKeeps ==
  ASSUME CatalogInv, NEW r \in Runs, NEW coll \in {Tiers, Features}, NEW step, NEW next \in {"find", "seed"},
         MetaIndex(r, coll, step, next)
  PROVE  CatalogInv'
<1>1. TypeOK
  BY DEF CatalogInv
<1>2. run[r] # None /\ Goto(r, next) /\ next \in Steps
  BY DEF MetaIndex, At, Steps
<1>3. RunsOK' /\ (\A x \in Runs : x # r => run'[x] = run[x]) /\ run'[r].step = next
  BY <1>1, <1>2, GotoStep DEF TypeOK
<1>4. UNCHANGED <<old, meta, twice, email, expiry, accounts, applied, authority, history, ops, faults>>
  BY DEF MetaIndex
<1>5. DatabaseOK'
  BY <1>1, <1>4 DEF MetaIndex, TypeOK, DatabaseOK, Docs
<1>6. TypeOK'
  BY <1>1, <1>3, <1>4, <1>5, RunTypes
<1>7. CopyInv'
  BY <1>3, <1>4, RunCopyInv
<1> QED BY <1>6, <1>7 DEF CatalogInv

\* 010: the documents of a collection are read, or the read fails.
LEMMA FindKeeps ==
  ASSUME CatalogInv, NEW r \in Runs, NEW coll \in {Tiers, Settings}, NEW step, NEW next \in {"copy", "copy2"},
         coll = (IF next = "copy" THEN Tiers ELSE Settings),
         MetaFind(r, coll, step, next)
  PROVE  CatalogInv'
<1>1. TypeOK /\ CopyInv
  BY DEF CatalogInv
<1>2. PICK docs \in {Nothing, [d \in Docs |-> IF d \in coll THEN old[d] ELSE None]} :
        /\ run' = [run EXCEPT ![r].step = next, ![r].docs = docs]
        /\ IF \A d \in coll : docs[d] = old[d] THEN UNCHANGED faults ELSE Fault
  BY DEF MetaFind
<1>3. run[r] # None /\ UNCHANGED <<database, authority, history, ops>>
  BY DEF MetaFind, At
<1>4. run[r] \in RunState /\ run \in [Runs -> RunState \cup {None}]
  BY <1>1, <1>3 DEF TypeOK, RunsOK, RunState
<1>5. docs \in [Docs -> Values \cup {None}] /\ \A d \in Docs \ coll : docs[d] = None
  <2>1. old \in [Docs -> Values \cup {None}]
    BY <1>1 DEF TypeOK, DatabaseOK
  <2> QED BY <2>1 DEF Nothing
<1>6. /\ [run[r] EXCEPT !.step = next, !.docs = docs] \in RunState
      /\ run' = [run EXCEPT ![r] = [run[r] EXCEPT !.step = next, !.docs = docs]]
  BY <1>2, <1>4, <1>5 DEF RunState, Steps
<1>7. /\ RunsOK' /\ (\A x \in Runs : x # r => run'[x] = run[x])
      /\ run'[r].step = next /\ run'[r].docs = docs
  BY <1>4, <1>6 DEF RunsOK, RunState
<1>8. DatabaseOK'
  BY <1>1, <1>3 DEF TypeOK, DatabaseOK, database
<1>9. faults' = faults \/ Fault
  BY <1>2
<1>10. TypeOK'
  BY <1>1, <1>3, <1>7, <1>8, <1>9, RunTypes
<1>11. Clean /\ UNCHANGED faults => Held(r, coll)'
  <2> SUFFICES ASSUME Clean, UNCHANGED faults PROVE Held(r, coll)'
    OBVIOUS
  <2>1. \A d \in coll : docs[d] = old[d]
    BY <1>1, <1>2 DEF Fault, TypeOK
  <2>2. \A d \in made \cap coll : "edited" \in {docs[d], meta[d]}
    BY <1>1, <2>1 DEF CopyInv
  <2> QED BY <1>3, <1>5, <1>7, <2>2 DEF Held, database, history
<1>12. CopyInv'
  BY <1>3, <1>7, <1>9, <1>11, RunCopyInv DEF database
<1> QED BY <1>10, <1>12 DEF CatalogInv

\* 010: what was read is inserted, up to the first name that is taken.
LEMMA CopyKeeps ==
  ASSUME CatalogInv, NEW r \in Runs, NEW step \in {"copy", "copy2"}, NEW next \in {"drop", "drop2"},
         step = "copy" <=> next = "drop", MetaCopy(r, step, next)
  PROVE  CatalogInv'
<1>1. TypeOK /\ CopyInv
  BY DEF CatalogInv
<1> DEFINE docs == run[r].docs
           all  == Present(docs)
<1>2. run[r] # None /\ run[r].step = step /\ Goto(r, next) /\ next \in Steps
  BY DEF MetaCopy, At, Steps
<1>3. RunsOK' /\ (\A x \in Runs : x # r => run'[x] = run[x]) /\ run'[r].step = next
  BY <1>1, <1>2, GotoStep DEF TypeOK
<1>4. docs \in [Docs -> Values \cup {None}] /\ meta \in [Docs -> Values \cup {None}]
  BY <1>1, <1>2 DEF TypeOK, RunsOK, DatabaseOK
<1>5. PICK names \in SUBSET all :
        /\ \/ names = all /\ UNCHANGED faults
           \/ (\E d \in all \ names : meta[d] # None) /\ UNCHANGED faults
           \/ names # all /\ Fault
        /\ \A d \in names : meta[d] = None
        /\ meta' = Inserted(docs, names)
  BY DEF MetaCopy
<1>6. UNCHANGED <<old, twice, unique, email, expiry, accounts, applied, authority, history, ops>>
  BY DEF MetaCopy
<1>7. /\ meta' \in [Docs -> Values \cup {None}]
      /\ \A d \in Docs : meta'[d] = IF d \in names THEN docs[d] ELSE meta[d]
  BY <1>4, <1>5 DEF Inserted
<1>8. DatabaseOK' /\ (faults' = faults \/ Fault)
  BY <1>1, <1>5, <1>6, <1>7 DEF TypeOK, DatabaseOK
<1>9. TypeOK'
  BY <1>1, <1>3, <1>6, <1>8, RunTypes
<1>10. ASSUME Clean, UNCHANGED faults
       PROVE  /\ \A d \in made : /\ meta[d] = "edited" => meta'[d] = "edited"
                                 /\ meta'[d] \in {None, "edited"} /\ (meta'[d] = None => old'[d] = "edited")
              /\ \A d \in Standard : meta'[d] # None => Kept(Tiers)'
              /\ step = "copy"  => Kept(Tiers)'
              /\ step = "copy2" => Kept(Settings)'
  <2> DEFINE coll == IF step = "copy" THEN Tiers ELSE Settings
  <2>1. Held(r, coll)
    BY <1>1, <1>2, <1>10 DEF CopyInv
  <2>2. made' = made /\ made \subseteq Docs /\ made \subseteq Tiers \cup Settings /\ coll \subseteq Docs
    BY <1>1, <1>6 DEF TypeOK, history, Docs
  <2>3. all = {d \in Docs : docs[d] # None} /\ all \subseteq coll
    BY <2>1 DEF Present, Held
  <2>4. \/ names = all
        \/ \E d \in all \ names : meta[d] # None
    BY <1>1, <1>5, <1>10 DEF Fault, TypeOK
  <2>5. \A d \in made : meta[d] \in {None, "edited"} /\ (meta[d] = None => old[d] = "edited")
    BY <1>1, <1>10 DEF CopyInv
  <2>6. \A d \in made \cap coll : "edited" \in {docs[d], meta[d]}
    BY <2>1 DEF Held
  <2> HIDE DEF docs, all
  <2>7. \A d \in made : d \in names => d \in coll /\ docs[d] = "edited"
    BY <1>5, <2>3, <2>6, Names
  <2>8. \A d \in made : /\ meta[d] = "edited" => meta'[d] = "edited"
                        /\ meta'[d] \in {None, "edited"} /\ (meta'[d] = None => old'[d] = "edited")
    BY <1>5, <1>6, <1>7, <2>2, <2>5, <2>7, Names
  <2>9. \A d \in made \cap coll : meta'[d] = "edited"
    <3>1. CASE names = all
      BY <1>5, <1>7, <2>2, <2>3, <2>6, <2>7, <3>1, Names
    <3>2. CASE \E d \in all \ names : meta[d] # None
      <4>1. PICK e \in all : meta[e] # None /\ e \in coll
        BY <2>3, <3>2
      <4>2. CASE e \in made /\ made \cap coll = {e}
        BY <2>5, <2>8, <4>1, <4>2
      <4>3. CASE e \in Standard
        <5>1. Kept(Tiers)
          BY <1>1, <1>10, <4>1, <4>3 DEF CopyInv
        <5>2. coll = Tiers
          BY <4>1, <4>3, Names
        <5> QED BY <2>8, <5>1, <5>2 DEF Kept
      <4>4. e \in Standard \/ made \cap coll = {e} \/ made \cap coll = {}
        BY <1>1, <4>1, Names DEF TypeOK
      <4> QED BY <4>2, <4>3, <4>4
    <3> QED BY <2>4, <3>1, <3>2
  <2>10. Kept(coll)'
    BY <2>2, <2>9 DEF Kept
  <2>11. \A d \in Standard : meta'[d] # None => Kept(Tiers)'
    <3>1. CASE step = "copy"
      BY <2>10, <3>1
    <3>2. CASE step = "copy2"
      <4>1. \A d \in Standard : d \in Docs /\ d \notin names
        BY <2>3, <3>2, Names
      <4>2. \A d \in Standard : meta'[d] = meta[d]
        BY <1>7, <4>1
      <4>3. Kept(Tiers) => Kept(Tiers)'
        BY <2>2, <2>8 DEF Kept
      <4> QED BY <1>1, <1>10, <4>2, <4>3 DEF CopyInv
    <3> QED BY <3>1, <3>2
  <2> QED BY <2>8, <2>10, <2>11
<1>11. CopyInv'
  <2> HIDE DEF docs, all
  <2> QED BY <1>2, <1>3, <1>6, <1>8, <1>10, CopyStep
<1> QED BY <1>9, <1>11 DEF CatalogInv

\* 010: an old collection is dropped.
LEMMA DropKeeps ==
  ASSUME CatalogInv, NEW r \in Runs, NEW step \in {"drop", "drop2"}, NEW next \in {"find2", "stale"},
         NEW coll \in {Tiers, Settings}, coll = (IF step = "drop" THEN Tiers ELSE Settings),
         MetaDrop(r, coll, step, next)
  PROVE  CatalogInv'
<1>1. TypeOK /\ CopyInv
  BY DEF CatalogInv
<1>2. run[r] # None /\ run[r].step = step /\ Goto(r, next) /\ next \in Steps
  BY DEF MetaDrop, At, Steps
<1>3. RunsOK' /\ (\A x \in Runs : x # r => run'[x] = run[x]) /\ run'[r].step = next
  BY <1>1, <1>2, GotoStep DEF TypeOK
<1>4. /\ UNCHANGED <<meta, twice, unique, email, expiry, accounts, applied, authority, history, ops>>
      /\ faults' = faults \/ Fault
  BY DEF MetaDrop
<1>5. /\ old' \in [Docs -> Values \cup {None}]
      /\ \A d \in Docs \ coll : old'[d] = old[d]
  BY <1>1 DEF MetaDrop, TypeOK, DatabaseOK
<1>6. DatabaseOK'
  BY <1>1, <1>4, <1>5 DEF TypeOK, DatabaseOK
<1>7. TypeOK'
  BY <1>1, <1>3, <1>4, <1>6, RunTypes
<1>8. ASSUME Clean
      PROVE  /\ \A d \in made : /\ meta[d] = "edited" => meta'[d] = "edited"
                                /\ meta'[d] \in {None, "edited"} /\ (meta'[d] = None => old'[d] = "edited")
             /\ \A d \in Standard : meta'[d] # None => Kept(Tiers)'
  <2>1. Kept(coll)
    BY <1>1, <1>2, <1>8 DEF CopyInv
  <2>2. Kept(Tiers)' = Kept(Tiers)
    BY <1>4 DEF Kept, history
  <2>3. made \subseteq Docs
    BY <1>1 DEF TypeOK, Docs
  <2> QED BY <1>1, <1>4, <1>5, <1>8, <2>1, <2>2, <2>3, Names DEF CopyInv, Kept
<1>9. CopyInv'
  BY <1>3, <1>4, <1>8, CopyStep
<1> QED BY <1>7, <1>9 DEF CatalogInv

\* 010: the index on sessions.createdAt is dropped.
LEMMA StaleKeeps ==
  ASSUME CatalogInv, NEW r \in Runs, StaleDrop(r)
  PROVE  CatalogInv'
<1>1. TypeOK
  BY DEF CatalogInv
<1>2. run[r] # None /\ Goto(r, "index") /\ "index" \in Steps
  BY DEF StaleDrop, At, Steps
<1>3. RunsOK' /\ (\A x \in Runs : x # r => run'[x] = run[x]) /\ run'[r].step = "index"
  BY <1>1, <1>2, GotoStep DEF TypeOK
<1>4. /\ UNCHANGED <<old, meta, twice, unique, email, accounts, applied, authority, history, ops>>
      /\ expiry' \in {expiry, "none"} /\ (faults' = faults \/ Fault)
  BY DEF StaleDrop
<1>5. DatabaseOK'
  BY <1>1, <1>4 DEF TypeOK, DatabaseOK
<1>6. TypeOK'
  BY <1>1, <1>3, <1>4, <1>5, RunTypes
<1>7. CopyInv'
  BY <1>3, <1>4, RunCopyInv
<1> QED BY <1>6, <1>7 DEF CatalogInv

\* 010: the features are seeded where there are none.
LEMMA FeatureKeeps ==
  ASSUME CatalogInv, NEW r \in Runs, FeatureSeed(r)
  PROVE  CatalogInv'
<1>1. TypeOK /\ CopyInv
  BY DEF CatalogInv
<1>2. run[r] # None /\ Goto(r, "record") /\ "record" \in Steps
  BY DEF FeatureSeed, At, Steps
<1>3. RunsOK' /\ (\A x \in Runs : x # r => run'[x] = run[x]) /\ run'[r].step = "record"
  BY <1>1, <1>2, GotoStep DEF TypeOK
<1>4. UNCHANGED <<old, twice, unique, email, expiry, accounts, applied, authority, history, ops, faults>>
  BY DEF FeatureSeed
<1>5. meta' \in [Docs -> Values \cup {None}] /\ \A d \in Docs \ Features : meta'[d] = meta[d]
  BY <1>1 DEF FeatureSeed, TypeOK, DatabaseOK, Values
<1>6. DatabaseOK'
  BY <1>1, <1>4, <1>5 DEF TypeOK, DatabaseOK
<1>7. TypeOK'
  BY <1>1, <1>3, <1>4, <1>6, RunTypes
<1>8. \A d \in made \cup Tiers : meta'[d] = meta[d]
  BY <1>1, <1>5, Names DEF TypeOK
<1>9. ASSUME Clean
      PROVE  /\ \A d \in made : /\ meta[d] = "edited" => meta'[d] = "edited"
                                /\ meta'[d] \in {None, "edited"} /\ (meta'[d] = None => old'[d] = "edited")
             /\ \A d \in Standard : meta'[d] # None => Kept(Tiers)'
  <2>1. Kept(Tiers)' = Kept(Tiers)
    BY <1>4, <1>8 DEF Kept, history
  <2>2. Standard \subseteq Tiers
    BY Names
  <2> QED BY <1>1, <1>4, <1>8, <1>9, <2>1, <2>2 DEF CopyInv
<1>10. CopyInv'
  BY <1>3, <1>4, <1>9, CopyStep
<1> QED BY <1>7, <1>10 DEF CatalogInv

-----------------------------------------------------------------------------
(***************************************************************************)
(* authority-service and location-service.                                 *)
(***************************************************************************)
LEMMA AuthorityTypes ==
  ASSUME TypeOK, DatabaseOK', AuthorityOK', early' \in BOOLEAN, UNCHANGED <<run, made, slots>>,
         ops' = ops \/ (ops < MaxOps /\ ops' = ops + 1), faults' = faults \/ Fault
  PROVE  TypeOK'
<1>1. RunsOK'
  BY DEF TypeOK, RunsOK
<1> QED BY <1>1, BoundsKept DEF TypeOK

\* authority-service starts: after that the state is not clean.
LEMMA RestartKeeps ==
  ASSUME CatalogInv, RestartAuthority
  PROVE  CatalogInv'
<1>1. TypeOK
  BY DEF CatalogInv
<1>2. /\ UNCHANGED <<old, twice, unique, email, accounts, applied, run, radius, made, slots, ops>>
      /\ cache' = None /\ admin' = "no" /\ load' = None /\ Fault
  BY DEF RestartAuthority
<1>3. DatabaseOK'
  <2>1. meta' \in [Docs -> Values \cup {None}]
    BY <1>1 DEF RestartAuthority, TiersSeeded, TypeOK, DatabaseOK, Values
  <2>2. expiry' \in {"none", "migration", "authority"}
    BY <1>1 DEF RestartAuthority, SessionsIndex, TypeOK, DatabaseOK
  <2> QED BY <1>1, <1>2, <2>1, <2>2 DEF TypeOK, DatabaseOK
<1>4. AuthorityOK'
  BY <1>1, <1>2 DEF TypeOK, AuthorityOK
<1>5. early' \in BOOLEAN
  BY Zenon DEF RestartAuthority
<1>6. TypeOK'
  BY <1>1, <1>2, <1>3, <1>4, <1>5, AuthorityTypes
<1>7. ~Clean'
  BY <1>1, <1>2 DEF Clean, Fault, TypeOK
<1>8. CopyInv'
  BY <1>1, <1>2, <1>7 DEF CopyInv
<1> QED BY <1>6, <1>8 DEF CatalogInv

\* Handlers of administrators.
LEMMA AdministerKeeps ==
  ASSUME CatalogInv, Administer
  PROVE  CatalogInv'
<1>1. TypeOK
  BY DEF CatalogInv
<1>2. ASSUME NEW d \in Docs, NEW doc \in Values \cup {None}, AdminChange(d, doc), twice' \subseteq Docs
      PROVE  CatalogInv'
  <2>1. UNCHANGED <<old, unique, email, expiry, accounts, applied, run, cache, load, radius, history, faults>>
    BY <1>2 DEF AdminChange
  <2>2. meta' \in [Docs -> Values \cup {None}]
    BY <1>1, <1>2 DEF AdminChange, TypeOK, DatabaseOK
  <2>3. DatabaseOK'
    BY <1>1, <1>2, <2>1, <2>2 DEF TypeOK, DatabaseOK
  <2>4. AuthorityOK'
    BY <1>1, <1>2, <2>1 DEF TypeOK, AuthorityOK, AdminChange
  <2>5. ops < MaxOps /\ ops' = ops + 1
    BY <1>2 DEF AdminChange
  <2>6. TypeOK'
    BY <1>1, <2>1, <2>3, <2>4, <2>5, AuthorityTypes DEF history, TypeOK
  <2>7. ~Clean'
    BY <1>1, <2>5 DEF Clean, TypeOK
  <2> QED BY <1>1, <2>1, <2>6, <2>7 DEF CopyInv, CatalogInv
<1>3. ASSUME NEW d \in Docs, Create(d) \/ Update(d) \/ Delete(d)
      PROVE  CatalogInv'
  <2>1. twice' \subseteq Docs
    BY <1>1, <1>3 DEF Create, Update, Delete, TypeOK, DatabaseOK
  <2>2. meta[d] \in Values \cup {None}
    BY <1>1 DEF TypeOK, DatabaseOK
  <2>3. \E doc \in Values \cup {None} : AdminChange(d, doc)
    BY <1>3, <2>2 DEF Create, Update, Delete, Values
  <2> QED BY <1>2, <2>1, <2>3
<1>4. ASSUME NEW coll, NEW next \in {"tiers", "features"}, Count(coll, next)
      PROVE  CatalogInv'
  <2>1. /\ UNCHANGED <<database, run, cache, load, radius, history>>
        /\ ops < MaxOps /\ ops' = ops + 1 /\ admin' = next /\ (faults' = faults \/ Fault)
    BY <1>4 DEF Count
  <2>2. DatabaseOK' /\ AuthorityOK'
    BY <1>1, <2>1 DEF TypeOK, DatabaseOK, AuthorityOK, database
  <2>3. TypeOK'
    BY <1>1, <2>1, <2>2, AuthorityTypes DEF history, TypeOK
  <2>4. ~Clean'
    BY <1>1, <2>1 DEF Clean, TypeOK
  <2> QED BY <1>1, <2>1, <2>3, <2>4 DEF CopyInv, CatalogInv
<1>5. ASSUME NEW k \in Settings, admin_put_setting(k)
      PROVE  CatalogInv'
  <2>1. /\ UNCHANGED <<old, twice, unique, email, expiry, accounts, applied, run, authority, history, faults>>
        /\ ops < MaxOps /\ ops' = ops + 1 /\ meta' = [meta EXCEPT ![k] = "edited"]
    BY <1>5 DEF admin_put_setting
  <2>2. meta' \in [Docs -> Values \cup {None}]
    BY <1>1, <2>1 DEF TypeOK, DatabaseOK, Values
  <2>3. DatabaseOK' /\ AuthorityOK'
    BY <1>1, <2>1, <2>2 DEF TypeOK, DatabaseOK, AuthorityOK, authority
  <2>4. TypeOK'
    BY <1>1, <2>1, <2>3, AuthorityTypes DEF history, TypeOK
  <2>5. ~Clean'
    BY <1>1, <2>1 DEF Clean, TypeOK
  <2> QED BY <1>1, <2>1, <2>4, <2>5 DEF CopyInv, CatalogInv, authority
<1> QED BY <1>3, <1>4, <1>5 DEF Administer, admin_create_tier, admin_update_tier, admin_delete_tier,
      admin_create_feature, admin_update_feature, admin_delete_feature, admin_list_tiers, admin_list_features

\* What a handler does after its change: it was an administrator's.
LEMMA FollowUpKeeps ==
  ASSUME CatalogInv, AdminSeed \/ Invalidate
  PROVE  CatalogInv'
<1>1. TypeOK /\ CopyInv
  BY DEF CatalogInv
<1>2. ~Clean
  BY <1>1 DEF CopyInv, AdminSeed, ListSeed, Invalidate
<1>3. /\ UNCHANGED <<old, unique, email, expiry, accounts, applied, run, load, radius, history, ops>>
      /\ faults' = faults \/ Fault
      /\ cache' = cache \/ cache' = None
      /\ admin' \in {"no", "drop"}
  BY DEF AdminSeed, ListSeed, Invalidate, database
<1>4. meta' \in [Docs -> Values \cup {None}] /\ twice' \subseteq Docs
  <2>0. /\ meta \in [Docs -> Values \cup {None}] /\ twice \subseteq Docs /\ "seed" \in Values
        /\ Standard \subseteq Docs /\ Features \subseteq Docs
    BY <1>1, Names DEF TypeOK, DatabaseOK
  <2>1. ASSUME NEW docs \in SUBSET Docs, NEW step, NEW next, ListSeed(docs, step, next)
        PROVE  meta' \in [Docs -> Values \cup {None}] /\ twice' \subseteq Docs
    BY <2>0, <2>1 DEF ListSeed
  <2>2. CASE Invalidate
    BY <2>0, <2>2 DEF Invalidate, database
  <2> QED BY <2>0, <2>1, <2>2 DEF AdminSeed
<1>5. DatabaseOK' /\ AuthorityOK'
  BY <1>1, <1>3, <1>4 DEF TypeOK, DatabaseOK, AuthorityOK
<1>6. TypeOK'
  BY <1>1, <1>3, <1>5, AuthorityTypes DEF history, TypeOK
<1>7. ~Clean'
  BY <1>1, <1>2, <1>3 DEF Clean, TypeOK, Fault, history
<1> QED BY <1>1, <1>3, <1>6, <1>7 DEF CopyInv, CatalogInv

\* A step that leaves the collections, the runs and the administrators alone.
LEMMA CacheStep ==
  ASSUME CatalogInv, AuthorityOK', UNCHANGED <<database, run, admin, history, ops>>,
         faults' = faults \/ Fault
  PROVE  CatalogInv'
<1>1. TypeOK /\ CopyInv
  BY DEF CatalogInv
<1>2. DatabaseOK'
  BY <1>1 DEF TypeOK, DatabaseOK, database
<1>3. TypeOK'
  BY <1>1, <1>2, AuthorityTypes DEF history, TypeOK
<1>4. Clean' => Clean
  BY <1>1, BoundsKept DEF Clean, history
<1>5. CopyInv'
  BY <1>1, <1>4 DEF CopyInv, Kept, Held, database, history
<1> QED BY <1>3, <1>5 DEF CatalogInv

\* load_tiers: whatever it finds, the answer is a map of tiers.
LEMMA LoadKeeps ==
  ASSUME CatalogInv, LoadFind \/ LoadStore
  PROVE  CatalogInv'
<1>1. TypeOK /\ meta \in [Docs -> Values \cup {None}]
  BY DEF CatalogInv, TypeOK, DatabaseOK
<1>2. static_tiers \in [Tiers -> Values \cup {None}] /\ [t \in Tiers |-> meta[t]] \in [Tiers -> Values \cup {None}]
  BY <1>1 DEF static_tiers, Values, Docs
<1>3. AuthorityOK' /\ radius' = radius
  <2>1. CASE LoadFind
    <3>1. UNCHANGED <<cache, admin, radius>>
      BY <2>1 DEF LoadFind
    <3>2. load' \in [step : {"store", "answer"}, tiers : [Tiers -> Values \cup {None}]]
      BY <1>1, <1>2, <2>1 DEF LoadFind, TypeOK, AuthorityOK
    <3> QED BY <1>1, <3>1, <3>2 DEF TypeOK, AuthorityOK
  <2>2. CASE LoadStore
    <3>1. load \in [step : {"store", "answer"}, tiers : [Tiers -> Values \cup {None}]]
      BY <1>1, <2>2 DEF LoadStore, TypeOK, AuthorityOK
    <3>2. /\ cache' = [tiers |-> load.tiers, age |-> 0] /\ load' = [load EXCEPT !.step = "answer"]
          /\ UNCHANGED <<admin, radius>>
      BY <2>2 DEF LoadStore
    <3>3. cache' \in [tiers : [Tiers -> Values \cup {None}], age : 0 .. CacheTTL - 1]
      BY <3>1, <3>2, CatalogAssumption
    <3>4. load' \in [step : {"store", "answer"}, tiers : [Tiers -> Values \cup {None}]]
      BY <3>1, <3>2
    <3> QED BY <1>1, <3>2, <3>3, <3>4 DEF TypeOK, AuthorityOK
  <2> QED BY <2>1, <2>2
<1>4. UNCHANGED <<database, run, admin, history, ops>> /\ (faults' = faults \/ Fault)
  BY DEF LoadFind, LoadStore
<1> QED BY <1>1, <1>3, <1>4, CacheStep

\* The answer for a tier is a radius of the database, of the code, or that of guests.
LEMMA RadiusKeeps ==
  ASSUME CatalogInv, NEW t \in Tiers, get_nearby_radius_m(t)
  PROVE  CatalogInv'
<1>1. TypeOK /\ load \in [step : {"store", "answer"}, tiers : [Tiers -> Values \cup {None}]]
  BY DEF CatalogInv, TypeOK, AuthorityOK, get_nearby_radius_m
<1>2. Answer(load.tiers, t) \in Values \cup {"guest"} /\ fallback(t) \in Values \cup {"guest"}
  <2>1. t \in Standard => static_tiers[t] = "seed"
    BY DEF static_tiers, Tiers
  <2>2. load.tiers[t] \in Values \cup {None}
    BY <1>1
  <2> QED BY <2>1, <2>2, Names DEF Answer, fallback
<1>3. \E v \in Values \cup {"guest"} : radius' = [tier |-> t, value |-> v, age |-> 0]
  BY <1>2 DEF get_nearby_radius_m
<1>4. radius' \in [tier : Tiers, value : Values \cup {"guest"}, age : 0 .. RadiusTTL - 1]
  BY <1>3, CatalogAssumption
<1>5. /\ UNCHANGED <<database, run, cache, admin, history, ops>> /\ load' = None
      /\ faults' = faults \/ Fault
  BY DEF get_nearby_radius_m
<1>6. AuthorityOK'
  BY <1>1, <1>4, <1>5 DEF TypeOK, AuthorityOK
<1> QED BY <1>5, <1>6, CacheStep

\* Cached values grow older and expire.
LEMMA TickKeeps ==
  ASSUME CatalogInv, Tick
  PROVE  CatalogInv'
<1>1. AuthorityOK
  BY DEF CatalogInv, TypeOK
<1>2. /\ UNCHANGED <<database, run, admin, load, history, ops, faults>>
      /\ cache' = Older(cache, CacheTTL) /\ radius' = Older(radius, RadiusTTL)
  BY DEF Tick
<1>3. Older(cache, CacheTTL) \in [tiers : [Tiers -> Values \cup {None}], age : 0 .. CacheTTL - 1] \cup {None}
  BY <1>1, CatalogAssumption DEF AuthorityOK, Older
<1>4. Older(radius, RadiusTTL) \in [tier : Tiers, value : Values \cup {"guest"}, age : 0 .. RadiusTTL - 1] \cup {None}
  BY <1>1, CatalogAssumption DEF AuthorityOK, Older
<1>5. AuthorityOK'
  BY <1>1, <1>2, <1>3, <1>4 DEF AuthorityOK
<1> QED BY <1>2, <1>5, CacheStep

-----------------------------------------------------------------------------
\* Every step keeps the invariant.
LEMMA CatalogStep ==
  ASSUME CatalogInv, [Next]_vars
  PROVE  CatalogInv'
<1>1. CASE UNCHANGED vars
  BY <1>1, CacheStep DEF CatalogInv, TypeOK, AuthorityOK, vars, database, history
<1>2. ASSUME NEW r \in Runs, Copy(r) PROVE CatalogInv'
  BY <1>2, IndexKeeps, FindKeeps, CopyKeeps, DropKeeps, StaleKeeps, FeatureKeeps DEF Copy
<1>3. CASE Next
  BY <1>2, <1>3, StartKeeps, EndKeeps, RecordKeeps, MigrationKeeps, RestartKeeps, AdministerKeeps,
     FollowUpKeeps, LoadKeeps, RadiusKeeps, TickKeeps DEF Next
<1> QED BY <1>1, <1>3

\* The collections, the runs and the caches keep their types; cached values expire.
THEOREM TypeCorrect == Spec => []TypeOK
<1>1. CatalogInv => TypeOK
  BY DEF CatalogInv
<1> QED BY <1>1, CatalogInit, CatalogStep, PTL DEF Spec

\* m010 copies before it drops, for any number of overlapping runs of migrate_run.
THEOREM NothingDroppedUncopied == Spec => []CopiedBeforeDropped
<1>1. CatalogInv => CopiedBeforeDropped
  <2> SUFFICES ASSUME CatalogInv, ~(early \/ faults > 0 \/ ops > 0)
               PROVE  \A d \in made : "edited" \in {old[d], meta[d]}
    BY DEF CopiedBeforeDropped
  <2>1. Clean
    BY DEF CatalogInv, TypeOK, Clean
  <2> QED BY <2>1 DEF CatalogInv, CopyInv
<1> QED BY <1>1, CatalogInit, CatalogStep, PTL DEF Spec

\* No step but an administrator's takes an administrator's change away: every insert is
\* refused, or left out, where there is a document.
LEMMA EditKept ==
  ASSUME CatalogInv, Next, ops' = ops, NEW d \in Docs \ Standard, meta[d] = "edited"
  PROVE  meta'[d] = "edited"
<1>1. meta[d] # None /\ ops \in Nat
  BY Names DEF CatalogInv, TypeOK
<1>2. ASSUME meta' = meta PROVE meta'[d] = "edited"
  BY <1>2
<1>3. ASSUME NEW r \in Runs, NEW step, NEW next, MetaCopy(r, step, next)
      PROVE  meta'[d] = "edited"
  <2>1. PICK names \in SUBSET Present(run[r].docs) :
          (\A x \in names : meta[x] = None) /\ meta' = Inserted(run[r].docs, names)
    BY <1>3 DEF MetaCopy
  <2> QED BY <1>1, <2>1 DEF Inserted
<1>4. ASSUME NEW r \in Runs, Copy(r) PROVE meta'[d] = "edited"
  <2>1. CASE FeatureSeed(r)
    BY <1>1, <2>1 DEF FeatureSeed
  <2>2. ASSUME NEW coll, NEW step, NEW next,
               MetaIndex(r, coll, step, next) \/ MetaFind(r, coll, step, next) \/ MetaDrop(r, coll, step, next)
        PROVE  meta' = meta
    BY <2>2 DEF MetaIndex, MetaFind, MetaDrop, database
  <2>3. CASE StaleDrop(r)
    BY <1>2, <2>3 DEF StaleDrop
  <2> QED BY <1>2, <1>3, <1>4, <2>1, <2>2, <2>3 DEF Copy
<1>5. ASSUME NEW r \in Runs,
             \/ migrate_run(r) \/ migrate_reset(r) \/ run_migration(r) \/ Record(r) \/ Refused(r) \/ RunFails(r)
      PROVE  meta' = meta
  BY <1>5 DEF migrate_run, migrate_reset, run_migration, migration_001, migration_004, migration_006,
     migration_008, migration_009, Record, Refused, RunFails, database
<1>6. CASE RestartAuthority
  BY <1>6 DEF RestartAuthority, TiersSeeded
<1>7. CASE Administer
  <2>1. ops' = ops + 1
    BY <1>7 DEF Administer, admin_create_tier, admin_update_tier, admin_delete_tier,
       admin_create_feature, admin_update_feature, admin_delete_feature, admin_list_tiers,
       admin_list_features, admin_put_setting, Count, Create, Update, Delete, AdminChange
  <2> QED BY <1>1, <2>1
<1>8. CASE AdminSeed
  <2>1. ASSUME NEW docs, NEW step, NEW next, ListSeed(docs, step, next)
        PROVE  meta'[d] = "edited"
    BY <1>1, <2>1 DEF ListSeed
  <2> QED BY <1>8, <2>1 DEF AdminSeed
<1>9. CASE Invalidate \/ LoadFind \/ LoadStore \/ (\E t \in Tiers : get_nearby_radius_m(t)) \/ Tick
  BY <1>2, <1>9 DEF Invalidate, LoadFind, LoadStore, get_nearby_radius_m, Tick, database
<1> QED BY <1>2, <1>4, <1>5, <1>6, <1>7, <1>8, <1>9 DEF Next

\* A tier, setting or feature of the new collections that an administrator made or changed
\* keeps that value but for administrators, whatever migrations, resets, seeds and starts do
\* meanwhile.  The tiers seed_tiers sets at every start are excepted; what is still in the old
\* collections is the subject of NothingDroppedUncopied.
THEOREM EditsAreKept == Spec => EditsSurvive
<1>1. CatalogInv /\ [Next]_vars =>
        [ops' = ops => \A d \in Docs \ Standard : meta[d] = "edited" => meta'[d] = "edited"]_vars
  BY EditKept
<1> QED BY <1>1, CatalogInit, CatalogStep, PTL DEF Spec, EditsSurvive

=============================================================================
