----------------------------- MODULE ChaosMirror -----------------------------
(***************************************************************************)
(* The chaos mode of the ride-and-tide catalog (use case 01): a run writes *)
(* products, mirrors every write in memory and verifies the index against  *)
(* the mirror.  Runs follow each other on one database, beside `seed` and  *)
(* `drop`, and may be killed at any point.  The index under test follows   *)
(* the hashes at once, unless it misbehaves; at most MaxFlaws times.       *)
(***************************************************************************)
EXTENDS Integers, FiniteSets

CONSTANTS
  N,         \* bound: a run hands out the numbers 0 .. N - 1
  Stranger,  \* products of `seed`, whose keys no run writes
  Cats,      \* number of categories
  Bucket,    \* price buckets
  Initials,  \* values of --initial
  K,         \* documents asked of a KNN query
  MaxFlaws,  \* bound: how often the index misbehaves
  Nothing    \* no product

ASSUME ChaosAssumption ==
  /\ N \in Nat /\ Cats \in Nat \ {0} /\ K \in Nat /\ MaxFlaws \in Nat
  /\ Initials \subseteq 0 .. N
  /\ IsFiniteSet(Stranger) /\ Stranger \cap (0 .. N) = {}
  /\ Bucket # {}

Number == 0 .. N - 1
Doc == Number \cup Stranger

\* The fields that queries tell apart: the tags, and the text, which alone
\* decides a product's vector.
Content == [category : 0 .. Cats - 1, bucket : Bucket, stock : BOOLEAN,
            text : BOOLEAN]
Field == {"category", "bucket", "stock"}

ASSUME NothingAssumption == Nothing \notin Content

VARIABLES
  strict,   \* the server refuses RETURN: the store's NOCONTENT mode
  hash,     \* the hashes: content or Nothing
  created,  \* whether the index exists
  entry,    \* what the index holds of each document
  flaws,    \* how often the index has misbehaved
  flawed,   \* history: it has, since it was created
  running,  \* a ChaosRunner exists
  initial,  \* args.initial
  nextId,
  products, \* the mirror's products ...
  vectors,  \* ... and their vectors, by the text they embed
  pending,  \* the operation in progress: [op, doc, new]
  check,    \* the next check of a running verify(), or "none"
  failures, \* the kinds of failures found
  shared    \* history: the index held documents when the run began

serverVars == <<strict, hash, created, entry, flaws, flawed>>
mirrorVars == <<products, vectors>>
runVars    == <<running, initial, nextId, shared>>
vars == <<serverVars, mirrorVars, runVars, pending, check, failures>>

-----------------------------------------------------------------------------
NoHashes == [d \in Doc |-> Nothing]
NoProducts == [n \in Number |-> Nothing]
NoOp == [op |-> "none", doc |-> 0, new |-> Nothing]

Init ==
  /\ strict \in BOOLEAN
  /\ hash = NoHashes /\ entry = NoHashes
  /\ created = FALSE
  /\ flaws = 0 /\ flawed = FALSE
  /\ running = FALSE /\ initial = 0 /\ nextId = 0 /\ shared = FALSE
  /\ products = NoProducts /\ vectors = NoProducts
  /\ pending = NoOp
  /\ check = "none"
  /\ failures = {}

-----------------------------------------------------------------------------
(* The commands between runs.                                              *)

\* create_index(recreate=True): DROPINDEX, purge_keys, CREATE.
Recreated ==
  /\ hash' = NoHashes /\ entry' = NoHashes
  /\ created' = TRUE
  /\ flawed' = FALSE

\* create_index() raises if there is an index; it fills in no old document.
CreatedAnew ==
  /\ ~created
  /\ created' = TRUE
  /\ entry' = NoHashes
  /\ flawed' = FALSE
  /\ UNCHANGED hash

\* What `seed` writes: `generate` starts with the first category.
Seeded == [category |-> 0, bucket |-> CHOOSE b \in Bucket : TRUE,
           stock |-> TRUE, text |-> TRUE]

WithStrangers(h, S) == [d \in Doc |-> IF d \in S THEN Seeded ELSE h[d]]

\* `seed`, which may be killed before all of its batches are in (S).
Seed(recreate, S) ==
  /\ ~running
  /\ recreate \/ ~created
  /\ created' = TRUE
  /\ flawed' = FALSE
  /\ hash' = WithStrangers(IF recreate THEN NoHashes ELSE hash, S)
  /\ entry' = WithStrangers(NoHashes, S)
  /\ UNCHANGED <<strict, flaws, mirrorVars, runVars, pending, check, failures>>

\* `drop`, or a create_index(recreate=True) that is killed before CREATE: the
\* documents of `kept` are not purged.
Drop(kept) ==
  /\ ~running /\ created
  /\ created' = FALSE
  /\ entry' = NoHashes
  /\ hash' = [d \in Doc |-> IF d \in kept THEN hash[d] ELSE Nothing]
  /\ flawed' = FALSE
  /\ UNCHANGED <<strict, flaws, mirrorVars, runVars, pending, check, failures>>

\* The command `chaos`: an index that exists is taken as it is.
ChaosStart(recreate, n) ==
  /\ ~running
  /\ IF recreate THEN Recreated
     ELSE IF created THEN UNCHANGED <<hash, entry, created, flawed>>
     ELSE CreatedAnew
  /\ running' = TRUE
  /\ initial' = n /\ nextId' = 0
  /\ shared' = \E d \in Doc : entry'[d] # Nothing
  /\ UNCHANGED <<strict, flaws, mirrorVars, pending, check, failures>>

\* Mutant: the list of failures is shared by all runs.
StopKeepsFailures ==
  /\ running
  /\ running' = FALSE
  /\ initial' = 0 /\ nextId' = 0
  /\ products' = NoProducts /\ vectors' = NoProducts
  /\ pending' = NoOp /\ check' = "none"
  /\ UNCHANGED <<serverVars, shared, failures>>

\* The run ends, or is killed between any two steps.
Stop ==
  /\ running
  /\ running' = FALSE
  /\ initial' = 0 /\ nextId' = 0
  /\ products' = NoProducts /\ vectors' = NoProducts
  /\ pending' = NoOp /\ check' = "none" /\ failures' = {}
  /\ UNCHANGED <<serverVars, shared>>

-----------------------------------------------------------------------------
(* The server: what the index may hold of d after a write.                 *)

\* Misbehaving, it loses the entry, or keeps the old tags or the old vector.
Misindexed(d, c) ==
  {Nothing} \cup
  (IF entry[d] = Nothing THEN {}
   ELSE {[entry[d] EXCEPT !.text = c.text], [c EXCEPT !.text = entry[d].text]})

Index(d, e) ==
  /\ entry' = [entry EXCEPT ![d] = e]
  /\ UNCHANGED <<strict, created>>

Behave(d, c) ==
  /\ Index(d, c)
  /\ UNCHANGED <<flaws, flawed>>

Misbehave(d, c, bad) ==
  /\ flaws < MaxFlaws
  /\ \E e \in bad : e # c /\ Index(d, e)
  /\ flaws' = flaws + 1 /\ flawed' = TRUE

-----------------------------------------------------------------------------
(* The operations: choose, write to the server, write to the mirror.       *)

Live == {n \in Number : products[n] # Nothing}
Seeding == nextId < initial
Ready == running /\ pending.op = "none" /\ check = "none"

\* The category of a fresh product: `generate` rotates it with the position,
\* and op_add generates one product at a time.
FreshCategory == IF Seeding THEN nextId % Cats ELSE 0

\* seed() and op_add.
OpAdd(c) ==
  /\ Ready
  /\ nextId < N
  /\ c.category = FreshCategory
  /\ pending' = [op |-> "put", doc |-> nextId, new |-> c]
  /\ nextId' = nextId + 1
  /\ UNCHANGED <<serverVars, mirrorVars, running, initial, shared, check,
                 failures>>

\* An operation on a random sku, which changes the mirror's own dict in place
\* before the write.
Edit(n, new) ==
  /\ Ready /\ ~Seeding
  /\ products[n] # Nothing
  /\ products' = [products EXCEPT ![n] = new]
  /\ pending' = [op |-> "put", doc |-> n, new |-> new]
  /\ UNCHANGED <<serverVars, runVars, vectors, check, failures>>

OpFlipStock(n) == Edit(n, [products[n] EXCEPT !.stock = ~@])
OpChangePrice(n, b) == Edit(n, [products[n] EXCEPT !.bucket = b])
OpRewriteText(n, t) == Edit(n, [products[n] EXCEPT !.text = t])

\* Store.upsert: the HSET and the index's reaction.
Upsert ==
  /\ pending.op = "put"
  /\ hash' = [hash EXCEPT ![pending.doc] = pending.new]
  /\ \/ Behave(pending.doc, pending.new)
     \/ Misbehave(pending.doc, pending.new,
                  Misindexed(pending.doc, pending.new))
  /\ pending' = [pending EXCEPT !.op = "mirror"]
  /\ UNCHANGED <<mirrorVars, runVars, check, failures>>

\* Mutant: an update keeps the old vector.
MirrorUpsertKeepsVector ==
  /\ pending.op = "mirror"
  /\ products' = [products EXCEPT ![pending.doc] = pending.new]
  /\ vectors' = IF vectors[pending.doc] = Nothing
                  THEN [vectors EXCEPT ![pending.doc] = pending.new.text]
                  ELSE vectors
  /\ pending' = NoOp
  /\ UNCHANGED <<serverVars, runVars, check, failures>>

MirrorUpsert ==
  /\ pending.op = "mirror"
  /\ products' = [products EXCEPT ![pending.doc] = pending.new]
  /\ vectors' = [vectors EXCEPT ![pending.doc] = pending.new.text]
  /\ pending' = NoOp
  /\ UNCHANGED <<serverVars, runVars, check, failures>>

OpDelete(n) ==
  /\ Ready /\ ~Seeding
  /\ products[n] # Nothing
  /\ pending' = [op |-> "remove", doc |-> n, new |-> Nothing]
  /\ UNCHANGED <<serverVars, mirrorVars, runVars, check, failures>>

\* Store.delete; misbehaving, the index keeps the entry.
Delete ==
  /\ pending.op = "remove"
  /\ hash' = [hash EXCEPT ![pending.doc] = Nothing]
  /\ \/ Behave(pending.doc, Nothing)
     \/ Misbehave(pending.doc, Nothing, {entry[pending.doc]})
  /\ pending' = [pending EXCEPT !.op = "forget"]
  /\ UNCHANGED <<mirrorVars, runVars, check, failures>>

MirrorDelete ==
  /\ pending.op = "forget"
  /\ products' = [products EXCEPT ![pending.doc] = Nothing]
  /\ vectors' = [vectors EXCEPT ![pending.doc] = Nothing]
  /\ pending' = NoOp
  /\ UNCHANGED <<serverVars, runVars, check, failures>>

-----------------------------------------------------------------------------
(* verify(): six checks in turn, each of a random product.                 *)

Found == {d \in Doc : entry[d] # Nothing}
With(holds, f, v) == {d \in DOMAIN holds : holds[d] # Nothing /\ holds[d][f] = v}

CountWrong == Cardinality(Found) # Cardinality(Live)

TagWrong(f, n) ==
  LET v == products[n][f]
  IN Cardinality(With(entry, f, v)) # Cardinality(With(products, f, v))

LookupWrong(n) == entry[n] = Nothing

\* The fields of a hit are read from its hash.
FieldsWrong(n) ==
  entry[n] # Nothing /\ \E f \in {"bucket", "stock"} : hash[n][f] # products[n][f]

\* The numbers `dead` is drawn from.
Handed == 0 .. nextId - 1

GhostWrong(n) == products[n] = Nothing /\ entry[n] # Nothing

\* Mutant: recomputes the distance even if the index reports one.
ReportedFromHash(d) == hash[d].text

\* The vector behind the distance reported for d: the index's own, or in
\* NOCONTENT mode the one in the hash.
Reported(d) == IF strict THEN hash[d].text ELSE entry[d].text

\* What is wrong with the hits R of a KNN query.
KnnWrong(R) ==
  {w \in {"knn ghost", "no vector", "distance"} : \E d \in R :
     \/ w = "knn ghost" /\ d \notin Live
     \/ w = "no vector" /\ d \in Live /\ strict /\ hash[d] = Nothing
     \/ w = "distance" /\ d \in Live /\ hash[d] # Nothing
                       /\ Reported(d) # vectors[d]}

LeakWrong(R, v) == \E d \in R \cap Live : products[d].category # v

If(wrong, kind) == IF wrong THEN {kind} ELSE {}

After == [none |-> "count", count |-> "tags", tags |-> "lookup",
          lookup |-> "ghost", ghost |-> "knn", knn |-> "hybrid",
          hybrid |-> "none"]

Checked(wrong) ==
  /\ failures' = failures \cup wrong
  /\ check' = After[check]
  /\ UNCHANGED <<serverVars, mirrorVars, runVars, pending>>

Verify == Ready /\ ~Seeding /\ Checked({})

\* A check of a random product is skipped if there is none to choose.
Skip ==
  /\ \/ Live = {} /\ check \in {"tags", "lookup", "knn", "hybrid"}
     \/ Handed = {} /\ check = "ghost"
  /\ Checked({})

CheckCount == check = "count" /\ Checked(If(CountWrong, "count"))

CheckTags(pick) ==
  /\ check = "tags"
  /\ \A f \in Field : pick[f] \in Live
  /\ Checked(If(\E f \in Field : TagWrong(f, pick[f]), "tag"))

CheckLookup(n) ==
  /\ check = "lookup"
  /\ n \in Live
  /\ Checked(If(LookupWrong(n), "lookup") \cup If(FieldsWrong(n), "stale"))

CheckGhost(n) ==
  /\ check = "ghost"
  /\ n \in Handed
  /\ Checked(If(GhostWrong(n), "ghost"))

\* An approximate search: any k of the documents at most.
CheckKnn(R) ==
  /\ check = "knn"
  /\ Live # {}
  /\ R \subseteq Found
  /\ Cardinality(R) <= K /\ Cardinality(R) <= Cardinality(Live)
  /\ Checked(KnnWrong(R))

\* The filter around product n.
CheckHybrid(n, R) ==
  /\ check = "hybrid"
  /\ n \in Live
  /\ R \subseteq With(entry, "category", products[n].category)
  /\ Cardinality(R) <= K
  /\ Checked(If(LeakWrong(R, products[n].category), "leak"))

-----------------------------------------------------------------------------
CommandStep ==
  \/ \E r \in BOOLEAN, S \in SUBSET Stranger : Seed(r, S)
  \/ \E kept \in SUBSET Doc : Drop(kept)
  \/ \E r \in BOOLEAN, n \in Initials : ChaosStart(r, n)
  \/ Stop

OpStep ==
  \/ \E c \in Content : OpAdd(c)
  \/ \E n \in Number : OpFlipStock(n)
  \/ \E n \in Number, b \in Bucket : OpChangePrice(n, b)
  \/ \E n \in Number, t \in BOOLEAN : OpRewriteText(n, t)
  \/ \E n \in Number : OpDelete(n)
  \/ Upsert
  \/ MirrorUpsert
  \/ Delete
  \/ MirrorDelete

CheckStep ==
  \/ Verify
  \/ Skip
  \/ CheckCount
  \/ \E pick \in [Field -> Number] : CheckTags(pick)
  \/ \E n \in Number : CheckLookup(n)
  \/ \E n \in Number : CheckGhost(n)
  \/ \E R \in SUBSET Doc : CheckKnn(R)
  \/ \E n \in Number, R \in SUBSET Doc : CheckHybrid(n, R)

Next == CommandStep \/ OpStep \/ CheckStep

Spec == Init /\ [][Next]_vars

-----------------------------------------------------------------------------
Kind == {"count", "tag", "lookup", "stale", "ghost", "knn ghost", "no vector",
         "distance", "leak"}

TypeOK ==
  /\ strict \in BOOLEAN /\ created \in BOOLEAN /\ flawed \in BOOLEAN
  /\ running \in BOOLEAN /\ shared \in BOOLEAN
  /\ hash \in [Doc -> Content \cup {Nothing}]
  /\ entry \in [Doc -> Content \cup {Nothing}]
  /\ flaws \in 0 .. MaxFlaws
  /\ initial \in 0 .. N /\ nextId \in 0 .. N
  /\ products \in [Number -> Content \cup {Nothing}]
  /\ vectors \in [Number -> BOOLEAN \cup {Nothing}]
  /\ pending \in [op : {"none", "put", "mirror", "remove", "forget"},
                  doc : Number \cup {0}, new : Content \cup {Nothing}]
  /\ check \in DOMAIN After
  /\ failures \subseteq Kind

\* The numbers this run has written, the one in progress left out.
Settled == {n \in Number : n < nextId /\ (pending.op # "none" => pending.doc # n)}

(* MirrorIsDatabase: between two operations the mirror's products, its     *)
(* vectors and the hashes hold the same of every number the run has handed *)
(* out, whatever earlier runs left under it: op_* change the mirror in     *)
(* place before the write and again after it.                              *)
MirrorIsDatabase ==
  \A n \in Settled :
    /\ products[n] = hash[n]
    /\ vectors[n] = IF hash[n] = Nothing THEN Nothing ELSE hash[n].text

(* MirrorInv: in states of the declared types, mirror and database agree   *)
(* (op_*, Mirror).                                                         *)
MirrorInv == TypeOK /\ MirrorIsDatabase

(* NoFalseAlarm: a run on a fresh index reports no failure unless the      *)
(* index has misbehaved (every check of verify()).                         *)
NoFalseAlarm == failures # {} => flawed \/ shared

PointKind == {"lookup", "stale", "ghost", "distance", "leak"}

(* PointChecksExact: the checks of one product never accuse a sound index, *)
(* even one that holds documents of `seed` or of earlier runs under the    *)
(* same numbers (verify()'s choice of `dead` and of live skus).            *)
PointChecksExact == failures \cap PointKind # {} => flawed

\* The index has product n wrong, in a way the answers can show: with
\* NOCONTENT the vector in the index is never looked at.
Wrong(n) ==
  /\ entry[n] # products[n]
  /\ ~ /\ strict /\ products[n] # Nothing /\ entry[n] # Nothing
       /\ [entry[n] EXCEPT !.text = products[n].text] = products[n]

\* The products whose tag f the index has wrong.
Mistagged(f) ==
  {n \in Live : entry[n] # Nothing /\ entry[n][f] # products[n][f]}

(* FlawIsVisible: whatever a misbehaving index has wrong about one of the  *)
(* run's products, some choice of verify()'s random picks reports it, also *)
(* beside strangers that could make up for it in a count; only products    *)
(* with the same tag wrong can make up for each other.                     *)
FlawIsVisible ==
  /\ Ready /\ ~Seeding
  /\ \E n \in Settled : Wrong(n)
  /\ \A f \in Field : \A m, n \in Mistagged(f) : m = n
  =>
    \/ CountWrong
    \/ \E f \in Field, n \in Live : TagWrong(f, n)
    \/ \E n \in Live : LookupWrong(n)
    \/ \E n \in Handed : GhostWrong(n)
    \/ \E d \in Found : KnnWrong({d}) # {}

\* A product is in the catalog once its HSET has run.
Stored == {n \in Number : n < nextId /\ ~(pending.op = "put" /\ pending.doc = n
                                            /\ products[n] = Nothing)}

Catalog == INSTANCE ChaosCatalog WITH
  catalog    <- [n \in Number |-> IF n \in Stored THEN hash[n] ELSE Nothing],
  alarm      <- failures # {},
  pointAlarm <- failures \cap PointKind # {}

(* CatalogSpec: a run keeps the promise of ChaosCatalog: every operation   *)
(* takes effect in one step on one product, and alarms need a reason.      *)
CatalogSpec == Catalog!Spec
=============================================================================
