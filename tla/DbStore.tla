------------------------------- MODULE DbStore -------------------------------
(***************************************************************************)
(* The MongoDB-backed location store, db_store.rs: the documents of a user *)
(* in the order the collection returns them, and the suppression map kept  *)
(* in process.  Times are ages, counted until nothing depends on them.     *)
(*                                                                         *)
(* An upsert looks for a document and inserts one when there is none.  The *)
(* collection has no unique index on userId, so two overlapping upserts    *)
(* may both insert; update, get and delete then meet the first only.       *)
(***************************************************************************)
EXTENDS Naturals, SequencesExt

CONSTANTS
  Users, Places,
  TTL,              \* a document older than this is not shown
  UpdateInterval,   \* update_interval; places are further apart than update_distance_m
  None

ASSUME DbStoreAssumption ==
  /\ TTL \in Nat \ {0} /\ UpdateInterval \in Nat \ {0} /\ UpdateInterval <= TTL
  /\ None \notin Users \cup Places

VARIABLES
  docs,          \* the `locations` collection, per user
  suppression    \* when and where each user was last written

storeVars == <<docs, suppression>>

Document == [pos : Places, age : 0 .. TTL]
Doc(p)  == [pos |-> p, age |-> 0]
Live(d) == d.age < TTL

StoreInit ==
  /\ docs = [u \in Users |-> << >>]
  /\ suppression = [u \in Users |-> None]

\* upsert answers Skipped: not moved, and too early for a refresh.
Skips(u, p) ==
  /\ suppression[u] # None
  /\ suppression[u].pos = p

UpsertUpdate(u, p) == docs[u] # << >> /\ docs' = [docs EXCEPT ![u][1] = Doc(p)]

UpsertInsert(u, p) == docs' = [docs EXCEPT ![u] = Append(@, Doc(p))]

UpsertSuppress(u, p) == suppression' = [suppression EXCEPT ![u] = Doc(p)]

\* delete_one, which may fail, then the suppression entry.
RemoveDoc(u) == docs' = [docs EXCEPT ![u] = IF @ = << >> THEN @ ELSE Tail(@)]

RemoveSuppression(u) == suppression' = [suppression EXCEPT ![u] = None]

\* Mutant: queries do not look at updatedAt.
shown_any(u) == {docs[u][i].pos : i \in DOMAIN docs[u]}

\* What get_user, online_ids and nearby can return.
shown_at(u) == {docs[u][i].pos : i \in {j \in DOMAIN docs[u] : Live(docs[u][j])}}

\* delete_many of what is older than the time to live, which the server takes one document
\* at a time; suppression keeps its entries.
sweep(u, i) == ~Live(docs[u][i]) /\ docs' = [docs EXCEPT ![u] = RemoveAt(@, i)]

\* Time passes.  A suppression entry as old as the interval suppresses nothing any more.
Age ==
  /\ docs' = [u \in Users |-> [i \in DOMAIN docs[u] |->
                [docs[u][i] EXCEPT !.age = IF Live(docs[u][i]) THEN @ + 1 ELSE @]]]
  /\ suppression' = [u \in Users |->
       IF suppression[u] = None \/ suppression[u].age + 1 = UpdateInterval THEN None
       ELSE [suppression[u] EXCEPT !.age = @ + 1]]

StoreTypeOK ==
  /\ docs \in [Users -> Seq(Document)]
  /\ suppression \in [Users -> {d \in Document : d.age < UpdateInterval} \cup {None}]

=============================================================================
