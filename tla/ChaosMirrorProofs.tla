-------------------------- MODULE ChaosMirrorProofs --------------------------
(***************************************************************************)
(* For any number of products, strangers, categories and price buckets,    *)
(* and however often the index misbehaves: mirror and database agree       *)
(* between operations, no check accuses a sound index, and a run is the    *)
(* catalog of ChaosCatalog.                                                *)
(***************************************************************************)
EXTENDS ChaosMirror, FiniteSetTheorems, TLAPS

-----------------------------------------------------------------------------
(* The inductive invariant.                                                *)

\* Between runs there is no mirror.
Outside ==
  /\ ~running => /\ nextId = 0 /\ products = NoProducts /\ vectors = NoProducts
                 /\ pending = NoOp /\ check = "none" /\ failures = {}
  /\ check # "none" => pending.op = "none"

Unused == \A n \in Number : ~(n < nextId) => products[n] = Nothing /\ vectors[n] = Nothing

\* The product of the operation in progress, before and after its command.
Midway ==
  /\ pending.op # "none" => pending.doc \in Number /\ pending.doc < nextId
  /\ pending.op \in {"put", "mirror"} => pending.new \in Content
  /\ pending.op = "put" /\ products[pending.doc] = Nothing => vectors[pending.doc] = Nothing
  /\ pending.op = "mirror" => hash[pending.doc] = pending.new
  /\ pending.op = "forget" => hash[pending.doc] = Nothing

\* A sound index holds what this run has written ...
Follows == ~flawed => \A n \in Stored : entry[n] = hash[n]

\* ... and nothing else, if it was empty when the run began.
Alone == running /\ ~shared /\ ~flawed => \A d \in Doc \ Stored : entry[d] = Nothing

Honest == NoFalseAlarm /\ PointChecksExact

CInv ==
  /\ TypeOK /\ Outside /\ Unused /\ Midway /\ MirrorIsDatabase
  /\ Follows /\ Alone /\ Honest

CatalogStep == [Catalog!Next]_(Catalog!vars)

-----------------------------------------------------------------------------
LEMMA ContentFacts ==
  /\ Nothing \notin Content
  /\ \A c \in Content : /\ c.text \in BOOLEAN
                        /\ [c EXCEPT !.stock = ~@] \in Content
  /\ \A c \in Content, b \in Bucket : [c EXCEPT !.bucket = b] \in Content
  /\ \A c \in Content, t \in BOOLEAN : [c EXCEPT !.text = t] \in Content
<1>1. Nothing \notin Content
  BY NothingAssumption DEF NothingAssumption
<1>2. \A c \in Content : c.text \in BOOLEAN
  BY DEF Content
<1>3. \A c \in Content : [c EXCEPT !.stock = ~@] \in Content
  BY DEF Content
<1>4. \A c \in Content, b \in Bucket : [c EXCEPT !.bucket = b] \in Content
  BY DEF Content
<1>5. \A c \in Content, t \in BOOLEAN : [c EXCEPT !.text = t] \in Content
  BY DEF Content
<1>. QED BY <1>1, <1>2, <1>3, <1>4, <1>5

LEMMA NumberFacts ==
  /\ N \in Nat /\ Initials \subseteq 0 .. N /\ MaxFlaws \in Nat
  /\ Number \subseteq Doc /\ \A n \in Number : n \in Nat /\ n < N
  /\ \A n \in Nat : n < N => n \in Number
BY ChaosAssumption DEF ChaosAssumption, Number, Doc

LEMMA SeededFacts == Cats \in Nat \ {0} => Seeded \in Content
<1>1. Bucket # {}
  BY ChaosAssumption DEF ChaosAssumption
<1>2. (CHOOSE b \in Bucket : TRUE) \in Bucket
  BY <1>1
<1>. QED BY <1>2 DEF Seeded, Content

-----------------------------------------------------------------------------
(* The commands between runs, and the end of a run.                        *)

LEMMA BlankRun ==
  ASSUME TypeOK', nextId' = 0, products' = NoProducts, vectors' = NoProducts,
         pending' = NoOp, check' = "none", failures' = {},
         running' /\ ~shared' => \A d \in Doc : entry'[d] = Nothing
  PROVE  CInv' /\ Stored' = {}
<1>1. Stored' = {} /\ Settled' = {}
  BY NumberFacts DEF Stored, Settled
<1>2. Outside'
  BY DEF Outside, NoOp
<1>3. Unused'
  BY DEF Unused, NoProducts
<1>4. Midway'
  BY DEF Midway, NoOp
<1>5. MirrorIsDatabase' /\ Follows' /\ Alone'
  BY <1>1 DEF MirrorIsDatabase, Follows, Alone
<1>6. Honest'
  BY DEF Honest, NoFalseAlarm, PointChecksExact
<1>. QED BY <1>1, <1>2, <1>3, <1>4, <1>5, <1>6 DEF CInv

LEMMA NoRun ==
  ASSUME CInv, ~running
  PROVE  /\ nextId = 0 /\ products = NoProducts /\ vectors = NoProducts
         /\ pending = NoOp /\ check = "none" /\ failures = {}
         /\ Stored = {}
<1>1. nextId = 0
  BY DEF CInv, Outside
<1>. QED BY <1>1, NumberFacts DEF CInv, Outside, Stored

\* The catalog is empty before and after.
LEMMA ChangeStep ==
  ASSUME CInv, ~running, Stored' = {}, failures' = failures,
         flawed' \in {flawed, FALSE}, shared' \in BOOLEAN
  PROVE  CatalogStep
<1>1. Stored = {} /\ failures = {}
  BY NoRun
<1>. QED BY <1>1 DEF CatalogStep, Catalog!Next, Catalog!Change, Catalog!Empty

LEMMA SeedStep ==
  ASSUME CInv, NEW r \in BOOLEAN, NEW S \in SUBSET Stranger, Seed(r, S)
  PROVE  CInv' /\ CatalogStep
<1>1. ~running /\ UNCHANGED <<strict, flaws, products, vectors, running, initial,
                              nextId, shared, pending, check, failures>>
  BY DEF Seed, mirrorVars, runVars
<1>2. TypeOK /\ Seeded \in Content
  BY SeededFacts, ChaosAssumption DEF CInv, ChaosAssumption
<1>3. NoHashes \in [Doc -> Content \cup {Nothing}]
  BY DEF NoHashes
<1>4. ASSUME NEW h \in [Doc -> Content \cup {Nothing}]
      PROVE  WithStrangers(h, S) \in [Doc -> Content \cup {Nothing}]
  BY <1>2 DEF WithStrangers
<1>5. hash' \in [Doc -> Content \cup {Nothing}] /\ entry' \in [Doc -> Content \cup {Nothing}]
  BY <1>2, <1>3, <1>4 DEF Seed, TypeOK
<1>6. created' = TRUE /\ flawed' = FALSE
  BY DEF Seed
<1>7. TypeOK'
  BY <1>1, <1>2, <1>5, <1>6, Zenon DEF TypeOK
<1>8. CInv' /\ Stored' = {}
  BY <1>1, <1>7, NoRun, BlankRun, Zenon
<1>. QED BY <1>1, <1>2, <1>6, <1>8, ChangeStep DEF TypeOK

LEMMA DropStep ==
  ASSUME CInv, NEW kept \in SUBSET Doc, Drop(kept)
  PROVE  CInv' /\ CatalogStep
<1>1. ~running /\ UNCHANGED <<strict, flaws, products, vectors, running, initial,
                              nextId, shared, pending, check, failures>>
  BY DEF Drop, mirrorVars, runVars
<1>2. TypeOK
  BY DEF CInv
<1>3. hash' \in [Doc -> Content \cup {Nothing}] /\ entry' \in [Doc -> Content \cup {Nothing}]
  BY <1>2 DEF Drop, TypeOK, NoHashes
<1>4. created' = FALSE /\ flawed' = FALSE
  BY DEF Drop
<1>5. TypeOK'
  BY <1>1, <1>2, <1>3, <1>4, Zenon DEF TypeOK
<1>6. CInv' /\ Stored' = {}
  BY <1>1, <1>5, NoRun, BlankRun, Zenon
<1>. QED BY <1>1, <1>2, <1>4, <1>6, ChangeStep DEF TypeOK

LEMMA StartStep ==
  ASSUME CInv, NEW r \in BOOLEAN, NEW n \in Initials, ChaosStart(r, n)
  PROVE  CInv' /\ CatalogStep
<1>1. /\ ~running /\ running' = TRUE /\ nextId' = 0 /\ initial' = n
      /\ shared' = \E d \in Doc : entry'[d] # Nothing
      /\ UNCHANGED <<strict, flaws, products, vectors, pending, check, failures>>
  BY DEF ChaosStart, mirrorVars
<1>2. TypeOK
  BY DEF CInv
<1>3. hash' \in [Doc -> Content \cup {Nothing}] /\ entry' \in [Doc -> Content \cup {Nothing}]
  BY <1>2 DEF ChaosStart, Recreated, CreatedAnew, TypeOK, NoHashes
<1>4. created' \in BOOLEAN
  BY <1>2 DEF ChaosStart, Recreated, CreatedAnew, TypeOK
<1>5. flawed' \in {flawed, FALSE}
  BY DEF ChaosStart, Recreated, CreatedAnew
<1>6. flawed' \in BOOLEAN /\ shared' \in BOOLEAN
  BY <1>1, <1>2, <1>5, Zenon DEF TypeOK
<1>7. initial' \in 0 .. N /\ nextId' \in 0 .. N
  BY <1>1, NumberFacts
<1>8. TypeOK'
  BY <1>1, <1>2, <1>3, <1>4, <1>6, <1>7, Zenon DEF TypeOK
<1>9. CInv' /\ Stored' = {}
  BY <1>1, <1>8, NoRun, BlankRun, Zenon
<1>. QED BY <1>1, <1>5, <1>6, <1>9, ChangeStep

LEMMA StopStep ==
  ASSUME CInv, Stop
  PROVE  CInv' /\ CatalogStep
<1>1. /\ running' = FALSE /\ nextId' = 0 /\ initial' = 0
      /\ products' = NoProducts /\ vectors' = NoProducts
      /\ pending' = NoOp /\ check' = "none" /\ failures' = {}
      /\ UNCHANGED <<strict, hash, created, entry, flaws, flawed, shared>>
  BY DEF Stop, serverVars
<1>2. TypeOK
  BY DEF CInv
<1>3. /\ NoProducts \in [Number -> Content \cup {Nothing}]
      /\ NoProducts \in [Number -> BOOLEAN \cup {Nothing}]
  BY DEF NoProducts
<1>4. NoOp \in [op : {"none", "put", "mirror", "remove", "forget"},
                doc : Number \cup {0}, new : Content \cup {Nothing}]
  BY DEF NoOp
<1>5. "none" \in DOMAIN After /\ {} \subseteq Kind /\ 0 \in 0 .. N
  BY NumberFacts DEF After
<1>6. TypeOK'
  BY <1>1, <1>2, <1>3, <1>4, <1>5, Zenon DEF TypeOK
<1>7. CInv' /\ Stored' = {}
  BY <1>1, <1>6, BlankRun, Zenon
<1>8. Catalog!End
  BY <1>1, <1>7 DEF Catalog!End, Catalog!Empty
<1>. QED BY <1>7, <1>8 DEF CatalogStep, Catalog!Next

-----------------------------------------------------------------------------
(* The operations.                                                         *)

LEMMA BusyRun ==
  ASSUME CInv, pending.op # "none" \/ check # "none"
  PROVE  running /\ (pending.op # "none" => check = "none")
BY DEF CInv, Outside, NoOp

LEMMA StoredFacts ==
  /\ Stored \subseteq Number
  /\ \A n \in Number : n \in Stored <=>
       n < nextId /\ ~(pending.op = "put" /\ pending.doc = n /\ products[n] = Nothing)
  /\ \A n \in Number : n \in Settled <=>
       n < nextId /\ (pending.op # "none" => pending.doc # n)
  /\ Settled \subseteq Number
BY DEF Stored, Settled

LEMMA SameCatalog ==
  ASSUME Stored' = Stored,
         UNCHANGED <<hash, failures, flawed, shared>>
  PROVE  CatalogStep
BY DEF CatalogStep, Catalog!vars

\* A step of an operation that leaves the database alone.
LEMMA QuietStep ==
  ASSUME CInv, TypeOK', Unused', Midway', MirrorIsDatabase', Stored' = Stored,
         running, check = "none",
         UNCHANGED <<hash, entry, flawed, shared, running, check, failures>>
  PROVE  CInv' /\ CatalogStep
<1>1. Outside'
  BY DEF Outside
<1>2. Follows'
  BY DEF CInv, Follows
<1>3. Alone'
  BY DEF CInv, Alone
<1>4. Honest'
  BY DEF CInv, Honest, NoFalseAlarm, PointChecksExact
<1>. QED BY <1>1, <1>2, <1>3, <1>4, SameCatalog DEF CInv

\* A write: the hash takes c, and the index too unless it misbehaves.
LEMMA WriteStep ==
  ASSUME CInv, TypeOK', pending.op \in {"put", "remove"},
         NEW c \in Content \cup {Nothing}, NEW e,
         hash' = [hash EXCEPT ![pending.doc] = c],
         entry' = [entry EXCEPT ![pending.doc] = e],
         flawed' \in {flawed, TRUE}, e = c \/ flawed' = TRUE,
         pending' = [pending EXCEPT !.op = IF c = Nothing THEN "forget" ELSE "mirror"],
         c # Nothing => pending.new = c,
         UNCHANGED <<products, vectors, running, initial, nextId, shared, check, failures>>
  PROVE  CInv' /\ CatalogStep
<1>. DEFINE d == pending.doc
<1>1. d \in Number /\ d < nextId /\ running /\ check = "none"
  BY BusyRun DEF CInv, Midway
<1>2. /\ pending'.doc = d /\ pending'.new = pending.new
      /\ pending'.op = IF c = Nothing THEN "forget" ELSE "mirror"
  BY DEF CInv, TypeOK
<1>3. d \in Doc /\ hash \in [Doc -> Content \cup {Nothing}]
                /\ entry \in [Doc -> Content \cup {Nothing}]
  BY <1>1, NumberFacts DEF CInv, TypeOK
<1>4. hash'[d] = c /\ entry'[d] = e
      /\ \A x \in Doc \ {d} : hash'[x] = hash[x] /\ entry'[x] = entry[x]
  BY <1>3
<1>5. Stored' = Stored \cup {d} /\ Settled' = Settled
  BY <1>1, <1>2 DEF Stored, Settled
<1>6a. ~flawed' => ~flawed /\ e = c
  <2>1. CASE flawed' = TRUE
    BY <2>1
  <2>2. CASE flawed' = flawed /\ e = c
    BY <2>2, Zenon
  <2>. QED BY <2>1, <2>2
<1>6. Outside'
  BY <1>1 DEF Outside
<1>7. Unused'
  BY DEF CInv, Unused
<1>8. Midway'
  <2>1. c # Nothing => pending.new \in Content
    OBVIOUS
  <2>. QED BY <1>1, <1>2, <1>4, <2>1 DEF Midway
<1>9. MirrorIsDatabase'
  <2>1. d \notin Settled /\ Settled \subseteq Doc
    BY <1>1, NumberFacts DEF Settled
  <2>. QED BY <1>4, <1>5, <2>1 DEF CInv, MirrorIsDatabase
<1>10. Follows'
  <2>. SUFFICES ASSUME ~flawed', NEW n \in Stored'
                PROVE  entry'[n] = hash'[n]
    BY DEF Follows
  <2>1. ~flawed /\ e = c
    BY <1>6a
  <2>2. CASE n = d
    BY <2>1, <2>2, <1>4
  <2>3. CASE n # d
    <3>1. n \in Stored /\ n \in Doc \ {d}
      BY <1>5, <2>3, NumberFacts, StoredFacts
    <3>. QED BY <3>1, <2>1, <1>4 DEF CInv, Follows
  <2>. QED BY <2>2, <2>3
<1>11. Alone'
  <2>. SUFFICES ASSUME running, ~shared, ~flawed', NEW x \in Doc \ Stored'
                PROVE  entry'[x] = Nothing
    BY DEF Alone
  <2>1. x \in Doc \ Stored /\ x \in Doc \ {d} /\ ~flawed
    BY <1>5, <1>6a
  <2>. QED BY <2>1, <1>4 DEF CInv, Alone
<1>12. Honest'
  BY DEF CInv, Honest, NoFalseAlarm, PointChecksExact
<1>13. Catalog!Store(d, c)
  BY <1>1, <1>3, <1>4, <1>5, NumberFacts DEF Catalog!Store
<1>. QED
  BY <1>1, <1>6, <1>7, <1>8, <1>9, <1>10, <1>11, <1>12, <1>13
  DEF CInv, CatalogStep, Catalog!Next

PendingType == [op : {"none", "put", "mirror", "remove", "forget"},
                doc : Number \cup {0}, new : Content \cup {Nothing}]
ProductsType == [Number -> Content \cup {Nothing}]
VectorsType == [Number -> BOOLEAN \cup {Nothing}]

\* TypeOK of a step that changes pending, and the mirror, but not the database.
LEMMA QuietType ==
  ASSUME TypeOK, pending' \in PendingType, products' \in ProductsType,
         vectors' \in VectorsType, nextId' \in 0 .. N,
         UNCHANGED <<strict, hash, created, entry, flaws, flawed, running, initial,
                     shared, check, failures>>
  PROVE  TypeOK'
BY Zenon DEF TypeOK, PendingType, ProductsType, VectorsType

LEMMA MirrorTypes ==
  ASSUME TypeOK
  PROVE  pending \in PendingType /\ products \in ProductsType
         /\ vectors \in VectorsType /\ nextId \in 0 .. N
BY Zenon DEF TypeOK, PendingType, ProductsType, VectorsType

\* Between two operations the run has stored, and settled, what it has handed out.
LEMMA AtRest ==
  ASSUME CInv, pending.op = "none"
  PROVE  \A n \in Number : /\ n \in Stored <=> n < nextId
                           /\ n \in Settled <=> n < nextId
BY StoredFacts

LEMMA OpAddStep ==
  ASSUME CInv, NEW c \in Content, OpAdd(c)
  PROVE  CInv' /\ CatalogStep
<1>1. /\ running /\ pending.op = "none" /\ check = "none" /\ nextId < N
      /\ pending' = [op |-> "put", doc |-> nextId, new |-> c]
      /\ nextId' = nextId + 1
      /\ UNCHANGED <<strict, hash, created, entry, flaws, flawed, products, vectors,
                     running, initial, shared, check, failures>>
  BY DEF OpAdd, Ready, serverVars, mirrorVars
<1>2. TypeOK /\ nextId \in Number /\ nextId \in Nat /\ ~(nextId < nextId)
  BY <1>1, NumberFacts DEF CInv, TypeOK
<1>3. pending' \in PendingType /\ nextId' \in 0 .. N
  BY <1>1, <1>2, NumberFacts DEF PendingType
<1>4. TypeOK'
  BY <1>1, <1>2, <1>3, MirrorTypes, QuietType, Zenon
<1>5. products[nextId] = Nothing /\ vectors[nextId] = Nothing
  BY <1>2 DEF CInv, Unused
<1>6. \A n \in Number : n < nextId' <=> n < nextId \/ n = nextId
  BY <1>1, <1>2, NumberFacts
<1>7. Stored' = Stored /\ Settled' = Settled
  BY <1>1, <1>2, <1>5, <1>6 DEF Stored, Settled
<1>8. Unused'
  BY <1>1, <1>6 DEF CInv, Unused
<1>9. Midway'
  BY <1>1, <1>2, <1>5, <1>6 DEF Midway
<1>10. MirrorIsDatabase'
  BY <1>1, <1>7 DEF CInv, MirrorIsDatabase
<1>. QED BY <1>1, <1>4, <1>7, <1>8, <1>9, <1>10, QuietStep

LEMMA EditStep ==
  ASSUME CInv, NEW n \in Number, NEW c, products[n] # Nothing => c \in Content,
         Edit(n, c)
  PROVE  CInv' /\ CatalogStep
<1>1. /\ running /\ pending.op = "none" /\ check = "none" /\ products[n] # Nothing
      /\ pending' = [op |-> "put", doc |-> n, new |-> c]
      /\ products' = [products EXCEPT ![n] = c]
      /\ UNCHANGED <<strict, hash, created, entry, flaws, flawed, vectors,
                     running, initial, nextId, shared, check, failures>>
  BY DEF Edit, Ready, serverVars, runVars
<1>2. TypeOK /\ c \in Content /\ n < nextId
  BY <1>1 DEF CInv, Unused
<1>3. pending' \in PendingType /\ products' \in ProductsType
  BY <1>1, <1>2, MirrorTypes DEF PendingType, ProductsType
<1>4. TypeOK'
  BY <1>1, <1>2, <1>3, MirrorTypes, QuietType, Zenon
<1>5. products'[n] = c /\ c # Nothing
      /\ \A m \in Number \ {n} : products'[m] = products[m]
  BY <1>1, <1>2, ContentFacts, MirrorTypes DEF ProductsType
<1>6. Stored' = Stored /\ Settled' = Settled \ {n}
  BY <1>1, <1>2, <1>5 DEF Stored, Settled
<1>7. Unused'
  BY <1>1, <1>2, <1>5 DEF CInv, Unused
<1>8. Midway'
  BY <1>1, <1>2, <1>5 DEF Midway
<1>9. MirrorIsDatabase'
  BY <1>1, <1>5, <1>6, StoredFacts DEF CInv, MirrorIsDatabase
<1>. QED BY <1>1, <1>4, <1>6, <1>7, <1>8, <1>9, QuietStep

LEMMA OpDeleteStep ==
  ASSUME CInv, NEW n \in Number, OpDelete(n)
  PROVE  CInv' /\ CatalogStep
<1>1. /\ running /\ pending.op = "none" /\ check = "none" /\ products[n] # Nothing
      /\ pending' = [op |-> "remove", doc |-> n, new |-> Nothing]
      /\ UNCHANGED <<strict, hash, created, entry, flaws, flawed, products, vectors,
                     running, initial, nextId, shared, check, failures>>
  BY DEF OpDelete, Ready, serverVars, mirrorVars, runVars
<1>2. TypeOK /\ n < nextId
  BY <1>1 DEF CInv, Unused
<1>3. pending' \in PendingType
  BY <1>1 DEF PendingType
<1>4. TypeOK'
  BY <1>1, <1>2, <1>3, MirrorTypes, QuietType, Zenon
<1>5. Stored' = Stored /\ Settled' = Settled \ {n}
  BY <1>1, <1>2 DEF Stored, Settled
<1>6. Unused'
  BY <1>1 DEF CInv, Unused
<1>7. Midway'
  BY <1>1, <1>2 DEF Midway
<1>8. MirrorIsDatabase'
  BY <1>1, <1>5 DEF CInv, MirrorIsDatabase
<1>. QED BY <1>1, <1>4, <1>5, <1>6, <1>7, <1>8, QuietStep

\* The mirror takes what the database holds of the product.
LEMMA SettleStep ==
  ASSUME CInv, pending.op \in {"mirror", "forget"}, NEW v,
         products' = [products EXCEPT ![pending.doc] = hash[pending.doc]],
         vectors' = [vectors EXCEPT ![pending.doc] = v],
         v = IF hash[pending.doc] = Nothing THEN Nothing ELSE hash[pending.doc].text,
         pending' = NoOp,
         UNCHANGED <<serverVars, runVars, check, failures>>
  PROVE  CInv' /\ CatalogStep
<1>. DEFINE d == pending.doc
<1>1. /\ running /\ check = "none"
      /\ UNCHANGED <<strict, hash, created, entry, flaws, flawed, running, initial,
                     nextId, shared, check, failures>>
  BY BusyRun DEF serverVars, runVars
<1>2. TypeOK /\ d \in Number /\ d \in Doc /\ d < nextId
  BY NumberFacts DEF CInv, Midway
<1>3. hash[d] \in Content \cup {Nothing}
  BY <1>2, Zenon DEF TypeOK
<1>4. v \in BOOLEAN \cup {Nothing}
  BY <1>3, ContentFacts
<1>5. products' \in ProductsType /\ vectors' \in VectorsType
  <2>1. products' \in ProductsType
    BY <1>2, <1>3, MirrorTypes DEF ProductsType
  <2>2. vectors' \in VectorsType
    <3>. DEFINE V == BOOLEAN \cup {Nothing}
    <3>1. vectors \in [Number -> V] /\ v \in V
      BY <1>2, <1>4, MirrorTypes, Zenon DEF VectorsType
    <3>. HIDE DEF V
    <3>2. vectors' \in [Number -> V]
      BY <3>1, <1>2
    <3>. QED BY <3>2, Zenon DEF V, VectorsType
  <2>. QED BY <2>1, <2>2
<1>6. pending' \in PendingType /\ pending'.op = "none"
  BY DEF PendingType, NoOp
<1>7. TypeOK'
  BY <1>1, <1>2, <1>5, <1>6, MirrorTypes, QuietType, Zenon
<1>8. /\ products'[d] = hash[d] /\ vectors'[d] = v
      /\ \A m \in Number \ {d} : products'[m] = products[m] /\ vectors'[m] = vectors[m]
  BY <1>2, MirrorTypes DEF ProductsType, VectorsType
<1>9. \A m \in Number : /\ m \in Stored <=> m < nextId
                        /\ m \in Stored' <=> m < nextId
                        /\ m \in Settled <=> m < nextId /\ m # d
                        /\ m \in Settled' <=> m < nextId
  BY <1>1, <1>6 DEF Stored, Settled
<1>10. Stored' = Stored /\ Settled' = Settled \cup {d}
  BY <1>2, <1>9 DEF Stored, Settled
<1>11. Unused'
  BY <1>1, <1>2, <1>8 DEF CInv, Unused
<1>12. Midway'
  BY <1>6 DEF Midway
<1>13. MirrorIsDatabase'
  BY <1>1, <1>8, <1>9, <1>10, StoredFacts DEF CInv, MirrorIsDatabase
<1>. QED BY <1>1, <1>7, <1>10, <1>11, <1>12, <1>13, QuietStep

LEMMA UpsertStep ==
  ASSUME CInv, Upsert
  PROVE  CInv' /\ CatalogStep
<1>. DEFINE d == pending.doc  c == pending.new
<1>1. TypeOK /\ c \in Content /\ d \in Doc /\ pending.op = "put"
  BY NumberFacts DEF CInv, Midway, Upsert
<1>2. c # Nothing
  BY <1>1, ContentFacts
<1>3. /\ hash' = [hash EXCEPT ![d] = c]
      /\ pending' = [pending EXCEPT !.op = "mirror"]
      /\ UNCHANGED <<strict, created, products, vectors, running, initial, nextId,
                     shared, check, failures>>
  BY DEF Upsert, Behave, Misbehave, Index, mirrorVars, runVars
<1>4. PICK e \in Content \cup {Nothing} :
        /\ entry' = [entry EXCEPT ![d] = e]
        /\ flaws' \in 0 .. MaxFlaws
        /\ \/ e = c /\ flawed' = flawed
           \/ flawed' = TRUE
  <2>1. CASE Behave(d, c)
    <3>1. flaws' \in 0 .. MaxFlaws
      BY <1>1, <2>1 DEF Behave, TypeOK
    <3>2. entry' = [entry EXCEPT ![d] = c] /\ flawed' = flawed
      BY <2>1 DEF Behave, Index
    <3>. QED BY <1>1, <3>1, <3>2
  <2>2. CASE Misbehave(d, c, Misindexed(d, c))
    <3>1. flaws' \in 0 .. MaxFlaws /\ flawed' = TRUE
      BY <1>1, <2>2, NumberFacts DEF Misbehave, TypeOK
    <3>2. PICK e \in Misindexed(d, c) : entry' = [entry EXCEPT ![d] = e]
      BY <2>2 DEF Misbehave, Index
    <3>3. entry[d] \in Content \cup {Nothing}
      BY <1>1 DEF TypeOK
    <3>4. e \in Content \cup {Nothing}
      <4>1. CASE entry[d] = Nothing
        BY <3>2, <4>1 DEF Misindexed
      <4>2. CASE entry[d] \in Content
        <5>1. c.text \in BOOLEAN /\ entry[d].text \in BOOLEAN
          BY <1>1, <4>2, ContentFacts
        <5>2. /\ [entry[d] EXCEPT !.text = c.text] \in Content
              /\ [c EXCEPT !.text = entry[d].text] \in Content
          BY <1>1, <4>2, <5>1, ContentFacts
        <5>. QED BY <3>2, <5>2 DEF Misindexed
      <4>. QED BY <3>3, <4>1, <4>2
    <3>. QED BY <3>1, <3>2, <3>4
  <2>. QED BY <2>1, <2>2 DEF Upsert
<1>5. flawed' \in {flawed, TRUE} /\ (e = c \/ flawed' = TRUE)
  BY <1>4
<1>6. hash' \in [Doc -> Content \cup {Nothing}] /\ entry' \in [Doc -> Content \cup {Nothing}]
  BY <1>1, <1>3, <1>4 DEF TypeOK
<1>7. pending' \in PendingType
  BY <1>1, <1>3, MirrorTypes DEF PendingType
<1>8. flawed' \in BOOLEAN
  BY <1>1, <1>4, Zenon DEF TypeOK
<1>9. TypeOK'
  BY <1>1, <1>3, <1>4, <1>6, <1>7, <1>8, Zenon DEF TypeOK, PendingType
<1>. QED BY <1>1, <1>2, <1>3, <1>4, <1>5, <1>9, WriteStep

LEMMA DeleteStep ==
  ASSUME CInv, Delete
  PROVE  CInv' /\ CatalogStep
<1>. DEFINE d == pending.doc
<1>1. TypeOK /\ d \in Doc /\ pending.op = "remove"
  BY NumberFacts DEF CInv, Midway, Delete
<1>2. /\ hash' = [hash EXCEPT ![d] = Nothing]
      /\ pending' = [pending EXCEPT !.op = "forget"]
      /\ UNCHANGED <<strict, created, products, vectors, running, initial, nextId,
                     shared, check, failures>>
  BY DEF Delete, Behave, Misbehave, Index, mirrorVars, runVars
<1>3. PICK e \in Content \cup {Nothing} :
        /\ entry' = [entry EXCEPT ![d] = e]
        /\ flaws' \in 0 .. MaxFlaws
        /\ \/ e = Nothing /\ flawed' = flawed
           \/ flawed' = TRUE
  <2>1. CASE Behave(d, Nothing)
    <3>1. flaws' \in 0 .. MaxFlaws
      BY <1>1, <2>1 DEF Behave, TypeOK
    <3>2. entry' = [entry EXCEPT ![d] = Nothing] /\ flawed' = flawed
      BY <2>1 DEF Behave, Index
    <3>. QED BY <3>1, <3>2
  <2>2. CASE Misbehave(d, Nothing, {entry[d]})
    <3>1. flaws' \in 0 .. MaxFlaws /\ flawed' = TRUE
      BY <1>1, <2>2, NumberFacts DEF Misbehave, TypeOK
    <3>2. entry[d] \in Content \cup {Nothing}
      BY <1>1 DEF TypeOK
    <3>3. entry' = [entry EXCEPT ![d] = entry[d]]
      BY <2>2 DEF Misbehave, Index
    <3>. QED BY <3>1, <3>2, <3>3
  <2>. QED BY <2>1, <2>2 DEF Delete
<1>4. flawed' \in {flawed, TRUE} /\ (e = Nothing \/ flawed' = TRUE)
  BY <1>3
<1>5. hash' \in [Doc -> Content \cup {Nothing}] /\ entry' \in [Doc -> Content \cup {Nothing}]
  BY <1>1, <1>2, <1>3 DEF TypeOK
<1>6. pending' \in PendingType
  BY <1>1, <1>2, MirrorTypes DEF PendingType
<1>7. flawed' \in BOOLEAN
  BY <1>1, <1>3, Zenon DEF TypeOK
<1>8. TypeOK'
  BY <1>1, <1>2, <1>3, <1>5, <1>6, <1>7, Zenon DEF TypeOK, PendingType
<1>. QED BY <1>1, <1>2, <1>3, <1>4, <1>8, WriteStep

LEMMA MirrorStep ==
  ASSUME CInv, MirrorUpsert \/ MirrorDelete
  PROVE  CInv' /\ CatalogStep
<1>1. CASE MirrorUpsert
  <2>1. pending.op = "mirror" /\ hash[pending.doc] = pending.new
        /\ pending.new # Nothing
    BY <1>1, ContentFacts DEF MirrorUpsert, CInv, Midway
  <2>. QED BY <1>1, <2>1, SettleStep DEF MirrorUpsert
<1>2. CASE MirrorDelete
  <2>1. pending.op = "forget" /\ hash[pending.doc] = Nothing
    BY <1>2 DEF MirrorDelete, CInv, Midway
  <2>. QED BY <1>2, <2>1, SettleStep DEF MirrorDelete
<1>. QED BY <1>1, <1>2

LEMMA AnyOpStep ==
  ASSUME CInv, OpStep
  PROVE  CInv' /\ CatalogStep
<1>1. \A n \in Number : products[n] # Nothing => products[n] \in Content
  BY DEF CInv, TypeOK
<1>2. ASSUME NEW n \in Number, OpFlipStock(n)
      PROVE  CInv' /\ CatalogStep
  BY <1>1, <1>2, EditStep, ContentFacts DEF OpFlipStock
<1>3. ASSUME NEW n \in Number, NEW b \in Bucket, OpChangePrice(n, b)
      PROVE  CInv' /\ CatalogStep
  BY <1>1, <1>3, EditStep, ContentFacts DEF OpChangePrice
<1>4. ASSUME NEW n \in Number, NEW t \in BOOLEAN, OpRewriteText(n, t)
      PROVE  CInv' /\ CatalogStep
  BY <1>1, <1>4, EditStep, ContentFacts DEF OpRewriteText
<1>. QED
  BY <1>2, <1>3, <1>4, OpAddStep, OpDeleteStep, UpsertStep, DeleteStep, MirrorStep
  DEF OpStep

-----------------------------------------------------------------------------
(* The checks of verify().                                                 *)

\* What verify() may rely on: the mirror is right, and so are the entries
\* of a sound index; one that was empty holds nothing else.
LEMMA SoundIndex ==
  ASSUME CInv, running, pending.op = "none"
  PROVE  /\ \A n \in Live : /\ hash[n] = products[n] /\ hash[n] # Nothing
                            /\ vectors[n] = products[n].text
         /\ ~flawed => \A n \in Number : n < nextId => entry[n] = products[n]
         /\ ~flawed => \A n \in Live : entry[n] = products[n]
         /\ ~flawed /\ ~shared =>
              /\ \A n \in Number : entry[n] = products[n]
              /\ \A d \in Doc \ Number : entry[d] = Nothing
<1>1. \A n \in Number : n < nextId => /\ products[n] = hash[n]
                                      /\ vectors[n] = IF hash[n] = Nothing THEN Nothing
                                                      ELSE hash[n].text
  BY AtRest DEF CInv, MirrorIsDatabase
<1>2. \A n \in Number : ~(n < nextId) => products[n] = Nothing
  BY DEF CInv, Unused
<1>3. ~flawed => \A n \in Number : n < nextId => entry[n] = products[n]
  BY <1>1, AtRest DEF CInv, Follows
<1>4. ~flawed /\ ~shared => \A d \in Doc \ Stored : entry[d] = Nothing
  BY DEF CInv, Alone
<1>5. ~flawed /\ ~shared => /\ \A n \in Number : entry[n] = products[n]
                            /\ \A d \in Doc \ Number : entry[d] = Nothing
  BY <1>2, <1>3, <1>4, AtRest, NumberFacts, StoredFacts
<1>. QED BY <1>1, <1>2, <1>3, <1>5 DEF Live

\* A check that accuses nobody without a reason.
LEMMA CheckedStep ==
  ASSUME CInv, running, pending.op = "none", check \in DOMAIN After,
         NEW wrong \in SUBSET Kind,
         wrong # {} => flawed \/ shared, wrong \cap PointKind # {} => flawed,
         Checked(wrong)
  PROVE  CInv' /\ CatalogStep
<1>1. /\ failures' = failures \cup wrong /\ check' = After[check]
      /\ UNCHANGED <<strict, hash, created, entry, flaws, flawed, products, vectors,
                     running, initial, nextId, shared, pending>>
  BY DEF Checked, serverVars, mirrorVars, runVars
<1>2. TypeOK
  BY DEF CInv
<1>3. check' \in DOMAIN After
  BY <1>1 DEF After
<1>4. failures' \subseteq Kind
  BY <1>1, <1>2 DEF TypeOK
<1>5. TypeOK'
  BY <1>1, <1>2, <1>3, <1>4, Zenon DEF TypeOK
<1>6. Stored' = Stored /\ Settled' = Settled
  BY <1>1 DEF Stored, Settled
<1>7. Outside' /\ Unused' /\ Midway'
  BY <1>1 DEF CInv, Outside, Unused, Midway
<1>8. MirrorIsDatabase'
  BY <1>1, <1>6 DEF CInv, MirrorIsDatabase
<1>9. Follows' /\ Alone'
  BY <1>1, <1>6 DEF CInv, Follows, Alone
<1>10. (failures \cap PointKind # {} => flawed) /\ (failures # {} => flawed \/ shared)
  BY DEF CInv, Honest, NoFalseAlarm, PointChecksExact
<1>11. Honest'
  BY <1>1, <1>10 DEF Honest, NoFalseAlarm, PointChecksExact
<1>12. CatalogStep
  <2>1. CASE wrong = {}
    BY <1>1, <1>6, <2>1, SameCatalog
  <2>2. CASE wrong # {}
    <3>1. failures' # {} /\ (flawed \/ shared)
      BY <1>1, <2>2
    <3>2. ~flawed => failures' \cap PointKind = failures \cap PointKind
      BY <1>1
    <3>3. Catalog!Raise
      BY <1>1, <1>6, <3>1, <3>2 DEF Catalog!Raise
    <3>. QED BY <3>3 DEF CatalogStep, Catalog!Next
  <2>. QED BY <2>1, <2>2
<1>. QED BY <1>5, <1>7, <1>8, <1>9, <1>11, <1>12 DEF CInv

\* With a sound index to itself, a run counts what its mirror counts.
LEMMA SameCounts ==
  ASSUME CInv, running, pending.op = "none", ~flawed, ~shared
  PROVE  /\ Found = Live
         /\ \A f, v : With(entry, f, v) = With(products, f, v)
<1>1. /\ \A n \in Number : entry[n] = products[n]
      /\ \A d \in Doc \ Number : entry[d] = Nothing
  BY SoundIndex
<1>2. DOMAIN entry = Doc /\ DOMAIN products = Number /\ Number \subseteq Doc
  BY NumberFacts DEF CInv, TypeOK
<1>3. Found = Live
  BY <1>1, <1>2 DEF Found, Live
<1>4. ASSUME NEW f, NEW v
      PROVE  With(entry, f, v) = With(products, f, v)
  BY <1>1, <1>2 DEF With
<1>. QED BY <1>3, <1>4

LEMMA AnyCheckStep ==
  ASSUME CInv, CheckStep
  PROVE  CInv' /\ CatalogStep
<1>1. check \in DOMAIN After /\ (check = "none" => Ready)
  <2>1. check \in DOMAIN After
    BY Zenon DEF CInv, TypeOK
  <2>2. check = "none" => Verify
    BY DEF CheckStep, Skip, CheckCount, CheckTags, CheckLookup, CheckGhost, CheckKnn,
           CheckHybrid
  <2>. QED BY <2>1, <2>2 DEF Verify
<1>2. running /\ pending.op = "none"
  BY <1>1, BusyRun DEF Ready, CInv, Outside
<1>3. ASSUME NEW wrong \in SUBSET Kind, Checked(wrong),
             wrong # {} => flawed \/ shared, wrong \cap PointKind # {} => flawed
      PROVE  CInv' /\ CatalogStep
  BY <1>1, <1>2, <1>3, CheckedStep
<1>4. ASSUME Checked({})
      PROVE  CInv' /\ CatalogStep
  BY <1>3, <1>4
<1>5. CASE CheckCount
  <2>1. CountWrong => flawed \/ shared
    BY <1>2, SameCounts DEF CountWrong
  <2>2. PICK wrong : wrong = If(CountWrong, "count")
    OBVIOUS
  <2>3. wrong \in SUBSET Kind /\ wrong \cap PointKind = {}
        /\ (wrong # {} => flawed \/ shared)
    BY <2>1, <2>2 DEF If, Kind, PointKind
  <2>. QED BY <1>3, <1>5, <2>2, <2>3 DEF CheckCount
<1>6. ASSUME NEW pick \in [Field -> Number], CheckTags(pick)
      PROVE  CInv' /\ CatalogStep
  <2>. DEFINE Bad == \E f \in Field : TagWrong(f, pick[f])
  <2>1. Bad => flawed \/ shared
    BY <1>2, SameCounts DEF TagWrong
  <2>2. PICK wrong : wrong = If(Bad, "tag")
    OBVIOUS
  <2>3. wrong \in SUBSET Kind /\ wrong \cap PointKind = {}
        /\ (wrong # {} => flawed \/ shared)
    BY <2>1, <2>2 DEF If, Kind, PointKind
  <2>. QED BY <1>3, <1>6, <2>2, <2>3 DEF CheckTags
<1>7. ASSUME NEW n \in Number, CheckLookup(n)
      PROVE  CInv' /\ CatalogStep
  <2>1. LookupWrong(n) => flawed
    BY <1>2, <1>7, SoundIndex DEF CheckLookup, LookupWrong, Live
  <2>2. ~FieldsWrong(n)
    BY <1>2, <1>7, SoundIndex DEF CheckLookup, FieldsWrong
  <2>3. PICK wrong : wrong = If(LookupWrong(n), "lookup") \cup If(FieldsWrong(n), "stale")
    OBVIOUS
  <2>4. wrong \in SUBSET Kind /\ (wrong # {} => flawed)
    BY <2>1, <2>2, <2>3 DEF If, Kind
  <2>. QED BY <1>3, <1>7, <2>3, <2>4 DEF CheckLookup
<1>8. ASSUME NEW n \in Number, CheckGhost(n)
      PROVE  CInv' /\ CatalogStep
  <2>1. n < nextId
    BY <1>8 DEF CheckGhost, Handed, CInv, TypeOK, Number
  <2>2. GhostWrong(n) => flawed
    BY <1>2, <2>1, SoundIndex DEF GhostWrong
  <2>3. PICK wrong : wrong = If(GhostWrong(n), "ghost")
    OBVIOUS
  <2>4. wrong \in SUBSET Kind /\ (wrong # {} => flawed)
    BY <2>2, <2>3 DEF If, Kind
  <2>. QED BY <1>3, <1>8, <2>3, <2>4 DEF CheckGhost
<1>9. ASSUME NEW R \in SUBSET Doc, CheckKnn(R)
      PROVE  CInv' /\ CatalogStep
  <2>1. "knn ghost" \in KnnWrong(R) => flawed \/ shared
    BY <1>2, <1>9, SameCounts DEF CheckKnn, KnnWrong
  <2>2. "no vector" \notin KnnWrong(R)
    BY <1>2, SoundIndex DEF KnnWrong
  <2>3. "distance" \in KnnWrong(R) => flawed
    BY <1>2, SoundIndex DEF KnnWrong, Reported
  <2>4. KnnWrong(R) \subseteq {"knn ghost", "no vector", "distance"}
    BY DEF KnnWrong
  <2>5. PICK wrong : wrong = KnnWrong(R)
    OBVIOUS
  <2>6. /\ wrong \in SUBSET Kind /\ (wrong # {} => flawed \/ shared)
        /\ wrong \cap PointKind # {} => flawed
    BY <2>1, <2>2, <2>3, <2>4, <2>5 DEF Kind, PointKind
  <2>. QED BY <1>3, <1>9, <2>5, <2>6 DEF CheckKnn
<1>10. ASSUME NEW n \in Number, NEW R \in SUBSET Doc, CheckHybrid(n, R)
       PROVE  CInv' /\ CatalogStep
  <2>. DEFINE v == products[n].category
  <2>1. LeakWrong(R, v) => flawed
    BY <1>2, <1>10, SoundIndex DEF CheckHybrid, LeakWrong, With
  <2>2. PICK wrong : wrong = If(LeakWrong(R, v), "leak")
    OBVIOUS
  <2>3. wrong \in SUBSET Kind /\ (wrong # {} => flawed)
    BY <2>1, <2>2 DEF If, Kind
  <2>. QED BY <1>3, <1>10, <2>2, <2>3 DEF CheckHybrid
<1>11. CASE Verify \/ Skip
  BY <1>4, <1>11 DEF Verify, Skip
<1>. QED BY <1>5, <1>6, <1>7, <1>8, <1>9, <1>10, <1>11 DEF CheckStep

-----------------------------------------------------------------------------
(* The theorems.                                                           *)

LEMMA InitCInv == Init => CInv /\ Catalog!Init
<1>. SUFFICES ASSUME Init
              PROVE  CInv /\ Catalog!Init
  OBVIOUS
<1>1. /\ NoHashes \in [Doc -> Content \cup {Nothing}]
      /\ NoProducts \in [Number -> Content \cup {Nothing}]
      /\ NoProducts \in [Number -> BOOLEAN \cup {Nothing}]
  BY DEF NoHashes, NoProducts
<1>2. NoOp \in [op : {"none", "put", "mirror", "remove", "forget"},
                doc : Number \cup {0}, new : Content \cup {Nothing}]
  BY DEF NoOp
<1>3. "none" \in DOMAIN After /\ {} \subseteq Kind /\ 0 \in 0 .. N /\ 0 \in 0 .. MaxFlaws
  BY NumberFacts DEF After
<1>4. TypeOK
  BY <1>1, <1>2, <1>3, Zenon DEF Init, TypeOK
<1>5. Stored = {} /\ Settled = {}
  BY NumberFacts DEF Stored, Settled, Init
<1>6. Outside /\ Unused /\ Midway
  BY DEF Outside, Unused, Midway, Init, NoOp, NoProducts
<1>7. MirrorIsDatabase /\ Follows /\ Alone
  BY <1>5 DEF MirrorIsDatabase, Follows, Alone, Init
<1>8. Honest
  BY DEF Honest, NoFalseAlarm, PointChecksExact, Init
<1>9. Catalog!Init
  BY <1>5 DEF Catalog!Init, Catalog!Empty, Init
<1>. QED BY <1>4, <1>6, <1>7, <1>8, <1>9 DEF CInv

LEMMA NextCInv == CInv /\ [Next]_vars => CInv' /\ CatalogStep
<1>. SUFFICES ASSUME CInv, [Next]_vars
              PROVE  CInv' /\ CatalogStep
  OBVIOUS
<1>1. CASE CommandStep
  BY <1>1, SeedStep, DropStep, StartStep, StopStep DEF CommandStep
<1>2. CASE OpStep
  BY <1>2, AnyOpStep
<1>3. CASE CheckStep
  BY <1>3, AnyCheckStep
<1>4. CASE UNCHANGED vars
  <2>1. UNCHANGED <<strict, hash, created, entry, flaws, flawed, products, vectors,
                    running, initial, nextId, shared, pending, check, failures>>
    BY <1>4 DEF vars, serverVars, mirrorVars, runVars
  <2>2. Stored' = Stored /\ Settled' = Settled
    BY <2>1 DEF Stored, Settled
  <2>3. TypeOK'
    BY <2>1, Zenon DEF CInv, TypeOK
  <2>4. Outside' /\ Unused' /\ Midway'
    BY <2>1 DEF CInv, Outside, Unused, Midway
  <2>5. MirrorIsDatabase' /\ Follows' /\ Alone'
    BY <2>1, <2>2 DEF CInv, MirrorIsDatabase, Follows, Alone
  <2>6. Honest'
    BY <2>1 DEF CInv, Honest, NoFalseAlarm, PointChecksExact
  <2>. QED BY <2>1, <2>2, <2>3, <2>4, <2>5, <2>6, SameCatalog DEF CInv
<1>. QED BY <1>1, <1>2, <1>3, <1>4 DEF Next

LEMMA AlwaysCInv == Spec => []CInv
BY InitCInv, NextCInv, PTL DEF Spec

(* MirrorHolds: every state is of the declared types, and between two      *)
(* operations the mirror holds what the database holds, whatever was in    *)
(* the database and however often runs were killed (op_*, Mirror).         *)
THEOREM MirrorHolds == Spec => []MirrorInv
<1>1. CInv => MirrorInv
  BY DEF CInv, MirrorInv
<1>. QED BY <1>1, AlwaysCInv, PTL

(* ChecksAreHonest: with an index to itself a run raises no alarm unless   *)
(* the index misbehaved; the checks of one product never raise one against *)
(* a sound index (verify()).                                               *)
THEOREM ChecksAreHonest == Spec => [](NoFalseAlarm /\ PointChecksExact)
<1>1. CInv => NoFalseAlarm /\ PointChecksExact
  BY DEF CInv, Honest
<1>. QED BY <1>1, AlwaysCInv, PTL

(* ChaosImplementsCatalog: a run of the chaos mode is the catalog of       *)
(* ChaosCatalog: each operation takes effect once, on one product, and an  *)
(* alarm needs a reason.                                                   *)
THEOREM ChaosImplementsCatalog == Spec => CatalogSpec
BY InitCInv, NextCInv, AlwaysCInv, PTL DEF Spec, CatalogSpec, Catalog!Spec, CatalogStep

-----------------------------------------------------------------------------
(* What a misbehaving index has wrong can be found.                        *)

LEMMA TagsAndText ==
  ASSUME NEW c \in Content, NEW d \in Content, \A f \in Field : c[f] = d[f]
  PROVE  /\ [c EXCEPT !.text = d.text] = d
         /\ c.text = d.text => c = d
<1>1. c.category = d.category /\ c.bucket = d.bucket /\ c.stock = d.stock
  BY DEF Field
<1>. QED BY <1>1 DEF Content

LEMMA FiniteDocs == IsFiniteSet(Doc)
<1>1. IsFiniteSet(Number)
  BY NumberFacts, FS_Interval DEF Number
<1>2. IsFiniteSet(Stranger)
  BY ChaosAssumption DEF ChaosAssumption
<1>. QED BY <1>1, <1>2, FS_Union DEF Doc

\* If every live product is found, one wrong tag that is the only one of its
\* kind makes the tag's count or the total wrong.
LEMMA LoneTagShows ==
  ASSUME CInv, NEW f \in Field, NEW n \in Mistagged(f), \A m \in Mistagged(f) : m = n,
         \A m \in Live : ~LookupWrong(m), ~CountWrong
  PROVE  TagWrong(f, n)
<1>. DEFINE v == products[n][f]
            Said == With(entry, f, v)
            True == With(products, f, v)
<1>1. DOMAIN entry = Doc /\ DOMAIN products = Number /\ Number \subseteq Doc
  BY NumberFacts DEF CInv, TypeOK
<1>2. n \in Live /\ entry[n] # Nothing /\ entry[n][f] # v
  BY DEF Mistagged
<1>3. Found = Live
  <2>1. Live \subseteq Found
    BY <1>1 DEF Live, Found, LookupWrong
  <2>2. Found \subseteq Doc
    BY DEF Found
  <2>3. IsFiniteSet(Found)
    BY <2>2, FiniteDocs, FS_Subset
  <2>. QED BY <2>1, <2>3, FS_Subset DEF CountWrong
<1>4. Said = True \ {n}
  <2>1. ASSUME NEW d \in Said
        PROVE  d \in True \ {n}
    <3>1. d \in Doc /\ entry[d] # Nothing /\ entry[d][f] = v
      BY <1>1 DEF With
    <3>2. d \in Live /\ d # n
      BY <1>2, <1>3, <3>1 DEF Found
    <3>3. products[d][f] = v
      BY <3>1, <3>2 DEF Mistagged
    <3>. QED BY <1>1, <3>2, <3>3 DEF With, Live
  <2>2. ASSUME NEW d \in True \ {n}
        PROVE  d \in Said
    <3>1. d \in Live /\ products[d][f] = v
      BY <1>1 DEF With, Live
    <3>2. d \in Doc /\ entry[d] # Nothing
      BY <1>3, <3>1 DEF Found
    <3>3. entry[d][f] = v
      BY <2>2, <3>1, <3>2 DEF Mistagged
    <3>. QED BY <1>1, <3>2, <3>3 DEF With
  <2>. QED BY <2>1, <2>2
<1>5. n \in True /\ IsFiniteSet(True)
  <2>1. True \subseteq Doc
    BY <1>1 DEF With
  <2>. QED BY <1>1, <1>2, <2>1, FiniteDocs, FS_Subset DEF With, Live
<1>6. Cardinality(Said) = Cardinality(True) - 1 /\ Cardinality(True) \in Nat
  BY <1>4, <1>5, FS_RemoveElement, FS_CardinalityType
<1>7. Cardinality(Said) # Cardinality(True)
  BY <1>6
<1>. QED BY <1>7 DEF TagWrong

LEMMA FlawShows == CInv => FlawIsVisible
<1>. SUFFICES ASSUME CInv, Ready, ~Seeding,
                     NEW n \in Settled, Wrong(n),
                     \A f \in Field : \A m, o \in Mistagged(f) : m = o
              PROVE  \/ CountWrong
                     \/ \E f \in Field, m \in Live : TagWrong(f, m)
                     \/ \E m \in Live : LookupWrong(m)
                     \/ \E m \in Handed : GhostWrong(m)
                     \/ \E d \in Found : KnnWrong({d}) # {}
  BY DEF FlawIsVisible
<1>1. /\ n \in Number /\ n < nextId /\ n \in Doc
      /\ products[n] = hash[n] /\ (hash[n] # Nothing => vectors[n] = hash[n].text)
  BY NumberFacts DEF CInv, MirrorIsDatabase, Settled
<1>2. /\ entry[n] \in Content \cup {Nothing} /\ products[n] \in Content \cup {Nothing}
      /\ nextId \in Nat /\ strict \in BOOLEAN
  BY <1>1, NumberFacts DEF CInv, TypeOK
<1>3. CASE products[n] = Nothing
  <2>1. entry[n] # Nothing
    BY <1>3 DEF Wrong
  <2>2. n \in Handed
    BY <1>1, <1>2, NumberFacts DEF Handed
  <2>. QED BY <1>3, <2>1, <2>2 DEF GhostWrong
<1>4. CASE products[n] # Nothing /\ entry[n] = Nothing
  BY <1>1, <1>4 DEF Live, LookupWrong
<1>5. CASE products[n] # Nothing /\ entry[n] # Nothing /\ \E f \in Field : entry[n][f] # products[n][f]
  <2>1. n \in Live
    BY <1>1, <1>5 DEF Live
  <2>2. PICK f \in Field : n \in Mistagged(f)
    BY <1>5, <2>1 DEF Mistagged
  <2>3. \A m \in Mistagged(f) : m = n
    BY <2>2
  <2>. QED BY <2>1, <2>2, <2>3, LoneTagShows
<1>6. CASE products[n] # Nothing /\ entry[n] # Nothing /\ \A f \in Field : entry[n][f] = products[n][f]
  <2>1. ~strict /\ entry[n].text # products[n].text
    BY <1>2, <1>6, TagsAndText DEF Wrong
  <2>2. n \in Live /\ n \in Found /\ hash[n] # Nothing
    BY <1>1, <1>6 DEF Live, Found
  <2>3. Reported(n) # vectors[n]
    BY <1>1, <2>1, <2>2 DEF Reported
  <2>4. "distance" \in KnnWrong({n})
    BY <2>2, <2>3 DEF KnnWrong
  <2>. QED BY <2>2, <2>4
<1>. QED BY <1>3, <1>4, <1>5, <1>6

(* FlawsCanBeFound: whatever an index has wrong about a product, also the  *)
(* one that misbehaves more than once, some choice of verify()'s picks     *)
(* reports it, unless another product has the same tag wrong (verify()).   *)
THEOREM FlawsCanBeFound == Spec => []FlawIsVisible
BY FlawShows, AlwaysCInv, PTL
=============================================================================
