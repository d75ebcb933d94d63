--------------------------- MODULE BazaarRunProofs ---------------------------
(***************************************************************************)
(* The loader loses no document and redoes at most one batch, for every    *)
(* number of documents and workers and every batch size (Spec); the        *)
(* orchestrator runs the loader as the loader's specification says, so     *)
(* that this holds of every run; and a report never counts more than was   *)
(* recorded, whoever dies or writes on (RunSpec).                          *)
(***************************************************************************)
EXTENDS BazaarRun, TLAPS

-----------------------------------------------------------------------------
(* The ranges of the workers partition the documents.                      *)

LEMMA DivDef ==
  ASSUME NEW a \in Nat, NEW w \in Nat \ {0}
  PROVE  /\ a \div w \in Nat
         /\ w * (a \div w) <= a
         /\ a < w * (a \div w) + w
OBVIOUS

LEMMA DivMono ==
  ASSUME NEW a \in Nat, NEW b \in Nat, a <= b, NEW w \in Nat \ {0}
  PROVE  a \div w <= b \div w
<1> DEFINE x == a \div w
<1> DEFINE y == b \div w
<1>1. x \in Nat /\ y \in Nat /\ w * x <= a /\ b < w * y + w
  BY DivDef
<1>2. SUFFICES ASSUME x >= y + 1 PROVE FALSE
  BY <1>1
<1>3. w * x >= w * (y + 1)
  BY <1>1, <1>2
<1>4. w * (y + 1) = w * y + w
  BY <1>1
<1>. QED BY <1>1, <1>3, <1>4

LEMMA FirstNat == \A i \in Nat : First(i) \in Nat
<1> TAKE i \in Nat
<1>1. i * TotalDocs \in Nat /\ Workers \in Nat \ {0}
  BY LoadAssumption DEF LoadAssumption
<1>. QED BY <1>1, DivDef DEF First

LEMMA FirstMono == ASSUME NEW i \in Nat, NEW j \in Nat, i <= j
                   PROVE  First(i) <= First(j)
<1>1. TotalDocs \in Nat /\ Workers \in Nat \ {0}
  BY LoadAssumption DEF LoadAssumption
<1>2. i * TotalDocs \in Nat /\ j * TotalDocs \in Nat
  BY <1>1
<1>3. i * TotalDocs <= j * TotalDocs
  BY <1>1
<1>. QED BY <1>1, <1>2, <1>3, DivMono DEF First

LEMMA FirstEnds == First(0) = 0 /\ First(Workers) = TotalDocs
<1>1. TotalDocs \in Nat /\ Workers \in Nat \ {0}
  BY LoadAssumption DEF LoadAssumption
<1>2. (0 * TotalDocs) \div Workers = 0
  BY <1>1
<1>3. (Workers * TotalDocs) \div Workers = TotalDocs
  <2> DEFINE q == (Workers * TotalDocs) \div Workers
  <2>1. /\ q \in Nat /\ Workers * q <= Workers * TotalDocs
        /\ Workers * TotalDocs < Workers * q + Workers
    BY <1>1, DivDef
  <2>2. ~(q < TotalDocs)
    <3> SUFFICES ASSUME q + 1 <= TotalDocs PROVE FALSE
      BY <1>1, <2>1
    <3>1. Workers * (q + 1) <= Workers * TotalDocs
      BY <1>1, <2>1
    <3>2. Workers * (q + 1) = Workers * q + Workers
      BY <1>1, <2>1
    <3>. QED BY <1>1, <2>1, <3>1, <3>2
  <2>3. ~(q > TotalDocs)
    <3> SUFFICES ASSUME q >= TotalDocs + 1 PROVE FALSE
      BY <1>1, <2>1
    <3>1. Workers * q >= Workers * (TotalDocs + 1)
      BY <1>1, <2>1
    <3>2. Workers * (TotalDocs + 1) = Workers * TotalDocs + Workers
      BY <1>1
    <3>. QED BY <1>1, <2>1, <3>1, <3>2
  <2>. QED BY <1>1, <2>1, <2>2, <2>3
<1>. QED BY <1>2, <1>3 DEF First

LEMMA DivBound ==
  ASSUME NEW a \in Nat, NEW n \in Nat, NEW w \in Nat \ {0}
  PROVE  (a \div w < n) <=> (a < w * n)
<1> DEFINE q == a \div w
<1>1. q \in Nat /\ w * q <= a /\ a < w * q + w
  BY DivDef
<1>2. CASE q < n
  <2>1. w * (q + 1) <= w * n
    BY <1>1, <1>2
  <2>2. w * (q + 1) = w * q + w
    BY <1>1
  <2>. QED BY <1>1, <1>2, <2>1, <2>2
<1>3. CASE q >= n
  <2>1. w * n <= w * q
    BY <1>1, <1>3
  <2>. QED BY <1>1, <1>3, <2>1
<1>. QED BY <1>1, <1>2, <1>3

\* The worker of document d is the last one whose range begins at or below it.
LEMMA RangesCover == \A d \in Doc : \E i \in Worker : d \in Range(i)
<1> SUFFICES ASSUME NEW d \in Doc PROVE \E i \in Worker : d \in Range(i)
  OBVIOUS
<1> DEFINE W == Workers
<1> DEFINE T == TotalDocs
<1> DEFINE a == W * (d + 1) - 1
<1> DEFINE i == a \div T
<1>1. W \in Nat \ {0} /\ T \in Nat \ {0} /\ d \in Nat /\ d + 1 <= T
  BY LoadAssumption DEF LoadAssumption, Doc
<1>2. W * (d + 1) \in Nat /\ W * (d + 1) >= 1
  <2>1. W * (d + 1) >= W * 1
    BY <1>1
  <2>. QED BY <1>1, <2>1
<1>3. a \in Nat
  BY <1>2
<1>4. i \in Nat /\ T * i <= a /\ a < T * i + T
  BY <1>1, <1>3, DivDef
<1>5. W * (d + 1) <= T * W
  BY <1>1
<1>6. i < W
  BY <1>1, <1>2, <1>3, <1>5, DivBound
<1>7. T * i = i * T /\ T * i + T = (i + 1) * T /\ i * T \in Nat
      /\ (i + 1) * T \in Nat
  BY <1>1, <1>4
<1> HIDE DEF i, a, W, T
<1>8. (i * T) \div W < d + 1
  <2>1. i * T < W * (d + 1)
    BY <1>2, <1>4, <1>7 DEF a
  <2>2. d + 1 \in Nat
    BY <1>1
  <2>. QED BY <1>1, <1>7, <2>1, <2>2, DivBound
<1>9. ~(((i + 1) * T) \div W < d + 1)
  <2>1. ~((i + 1) * T < W * (d + 1))
    BY <1>2, <1>4, <1>7 DEF a
  <2>2. d + 1 \in Nat
    BY <1>1
  <2>. QED BY <1>1, <1>7, <2>1, <2>2, DivBound
<1>10. i \in Worker
  BY <1>1, <1>4, <1>6 DEF Worker, W
<1>11. First(i) \in Nat /\ First(i + 1) \in Nat
  BY <1>4, FirstNat
<1>12. First(i) <= d /\ d < First(i + 1)
  BY <1>1, <1>8, <1>9, <1>11 DEF First, W, T
<1>13. d \in Range(i)
  BY <1>1, <1>11, <1>12 DEF Range
<1>. QED BY <1>10, <1>13

LEMMA RangesDisjoint ==
  \A i, j \in Worker : i # j => Range(i) \cap Range(j) = {}
<1> SUFFICES ASSUME NEW i \in Worker, NEW j \in Worker, i < j
             PROVE  Range(i) \cap Range(j) = {}
  BY DEF Worker
<1>1. First(i + 1) <= First(j)
  BY FirstMono DEF Worker
<1>. QED BY <1>1, FirstNat DEF Range, Worker

-----------------------------------------------------------------------------
(* The inductive invariant, worker by worker.                              *)

\* What lies below the worker's place and its checkpoint is stored.
Below(i) ==
  /\ pc[i] \in {"loop", "sent", "opening", "writing", "done"} =>
       /\ First(i) <= docId[i] /\ docId[i] <= First(i + 1)
       /\ \A d \in Range(i) : d < docId[i] => d \in stored
  /\ pc[i] = "done" => docId[i] = First(i + 1)
  /\ ckpt[i] # NoCkpt =>
       /\ First(i) <= ckpt[i] /\ ckpt[i] <= First(i + 1)
       /\ \A d \in Range(i) : d < ckpt[i] => d \in stored

\* The checkpoint is where the worker is, but for a batch not yet recorded.
Place(i) ==
  /\ pc[i] \in {"loop", "sent"} => docId[i] = ReadCkpt(i)
  /\ pc[i] = "opening" => docId[i] >= ReadCkpt(i)
  /\ pc[i] = "writing" => ckpt[i] = NoCkpt

\* At most a batch is stored above it.
Above(i) ==
  i \notin torn =>
    \A d \in stored \cap Range(i) :
      d < Batch + (IF pc[i] = "writing" THEN docId[i] ELSE ReadCkpt(i))

WInv(i) == Below(i) /\ Place(i) /\ Above(i)

LInv == TypeOK /\ \A i \in Worker : WInv(i)

LEMMA LoadTypes ==
  ASSUME TypeOK, NEW i \in Worker
  PROVE  /\ i \in Nat /\ i + 1 \in Nat
         /\ First(i) \in Nat /\ First(i + 1) \in Nat
         /\ First(i) <= First(i + 1) /\ First(i + 1) <= TotalDocs
         /\ Range(i) \subseteq Doc
         /\ Batch \in Nat /\ Batch > 0 /\ TotalDocs \in Nat /\ NoCkpt \notin Nat
         /\ docId[i] \in Nat /\ ReadCkpt(i) \in Nat
         /\ ckpt[i] # NoCkpt => ckpt[i] \in Nat
<1>1. Workers \in Nat \ {0} /\ TotalDocs \in Nat /\ Batch \in Nat \ {0}
      /\ NoCkpt \notin Nat
  BY LoadAssumption DEF LoadAssumption
<1>2. i \in Nat /\ i + 1 \in Nat /\ i + 1 <= Workers
  BY <1>1 DEF Worker
<1>3. First(i) \in Nat /\ First(i + 1) \in Nat
  BY <1>2, FirstNat
<1>4. First(i) <= First(i + 1)
  BY <1>2, FirstMono
<1>5. First(i + 1) <= TotalDocs
  BY <1>1, <1>2, FirstMono, FirstEnds
<1>6. docId[i] \in Nat /\ (ckpt[i] # NoCkpt => ckpt[i] \in Nat)
  BY DEF TypeOK
<1>7. ReadCkpt(i) \in Nat
  BY <1>3, <1>6 DEF ReadCkpt
<1>8. Range(i) \subseteq Doc
  BY <1>1, <1>3, <1>5 DEF Range, Doc
<1>. QED BY <1>1, <1>2, <1>3, <1>4, <1>5, <1>6, <1>7, <1>8

LEMMA BatchBounds ==
  ASSUME TypeOK, NEW i \in Worker, First(i) <= docId[i],
         docId[i] <= First(i + 1)
  PROVE  /\ BatchEnd(i) \in Nat
         /\ docId[i] <= BatchEnd(i) /\ BatchEnd(i) <= First(i + 1)
         /\ BatchEnd(i) <= docId[i] + Batch
         /\ InFlight(i) \subseteq Range(i)
         /\ \A d \in Range(i) : d < BatchEnd(i) => d < docId[i] \/ d \in InFlight(i)
         /\ \A d \in InFlight(i) : d < docId[i] + Batch
<1>1. /\ BatchEnd(i) \in Nat
      /\ docId[i] <= BatchEnd(i) /\ BatchEnd(i) <= First(i + 1)
      /\ BatchEnd(i) <= docId[i] + Batch
  BY LoadTypes DEF BatchEnd, SmallerOf
<1>. QED BY <1>1, LoadTypes DEF InFlight, Range

\* A worker is not disturbed by what another one stores.
LEMMA OthersKeep ==
  ASSUME TypeOK, NEW i \in Worker, NEW j \in Worker, i # j, WInv(j),
         ckpt'[j] = ckpt[j], pc'[j] = pc[j], docId'[j] = docId[j],
         j \in torn' <=> j \in torn,
         stored \subseteq stored', stored' \subseteq stored \cup Range(i)
  PROVE  WInv(j)'
<1>1. Range(j) \cap Range(i) = {}
  BY RangesDisjoint
<1>2. Below(j)'
  BY DEF WInv, Below, Range, First
<1>3. Place(j)'
  BY DEF WInv, Place, ReadCkpt
<1>4. Above(j)'
  <2>1. \A d \in stored' \cap Range(j) : d \in stored \cap Range(j)
    BY <1>1
  <2>2. ReadCkpt(j)' = ReadCkpt(j)
    BY DEF ReadCkpt
  <2>. QED BY <2>1, <2>2 DEF WInv, Above, Range, First
<1>. QED BY <1>2, <1>3, <1>4 DEF WInv

-----------------------------------------------------------------------------
(* Every step preserves it.                                                *)

LEMMA InitLInv == Init => LInv
<1> SUFFICES ASSUME Init PROVE LInv
  OBVIOUS
<1>1. TypeOK
  BY LoadAssumption DEF Init, TypeOK, LoadAssumption
<1>2. ASSUME NEW i \in Worker PROVE WInv(i)
  <2>1. stored = {} /\ pc[i] = "off" /\ ckpt[i] = NoCkpt
    BY DEF Init
  <2>. QED BY <2>1 DEF WInv, Below, Place, Above
<1>. QED BY <1>1, <1>2 DEF LInv

LEMMA RunLoadLInv == LInv /\ RunLoad => LInv'
<1> SUFFICES ASSUME LInv, RunLoad PROVE LInv'
  OBVIOUS
<1>1. TypeOK'
  BY DEF LInv, TypeOK, RunLoad
<1>2. ASSUME NEW i \in Worker PROVE WInv(i)'
  <2>1. WInv(i) /\ pc[i] \in {"off", "done"} /\ pc'[i] = "begin"
    BY DEF LInv, RunLoad
  <2>2. UNCHANGED <<stored, ckpt, docId, torn>>
    BY DEF RunLoad
  <2>. QED BY <2>1, <2>2 DEF WInv, Below, Place, Above, ReadCkpt, Range, First
<1>. QED BY <1>1, <1>2 DEF LInv

\* A step of worker i preserves the invariant if it does for i itself.
LEMMA StepLInv ==
  ASSUME LInv, TypeOK', NEW i \in Worker, WInv(i)',
         \A j \in Worker : j # i =>
           /\ ckpt'[j] = ckpt[j] /\ pc'[j] = pc[j] /\ docId'[j] = docId[j]
           /\ j \in torn' <=> j \in torn,
         stored \subseteq stored', stored' \subseteq stored \cup Range(i)
  PROVE  LInv'
<1>1. ASSUME NEW j \in Worker, j # i PROVE WInv(j)'
  BY <1>1, OthersKeep DEF LInv
<1>. QED BY <1>1 DEF LInv

LEMMA BeginLInv == ASSUME LInv, NEW i \in Worker, Begin(i) PROVE LInv'
<1>1. TypeOK /\ WInv(i) /\ pc[i] = "begin" /\ pc'[i] = "loop"
      /\ docId'[i] = LargerOf(First(i), ReadCkpt(i))
  BY DEF LInv, Begin, TypeOK
<1>2. UNCHANGED <<stored, ckpt, torn>>
  BY DEF Begin
<1>3. TypeOK'
  BY <1>1, LoadTypes DEF TypeOK, Begin, LargerOf
<1>4. docId'[i] = ReadCkpt(i) /\ First(i) <= ReadCkpt(i)
      /\ ReadCkpt(i) <= First(i + 1)
  BY <1>1, LoadTypes DEF WInv, Below, ReadCkpt, LargerOf
<1>5. \A d \in Range(i) : d < ReadCkpt(i) => d \in stored
  BY <1>1, LoadTypes DEF WInv, Below, ReadCkpt, Range
<1>6. Below(i)'
  BY <1>1, <1>2, <1>4, <1>5 DEF WInv, Below, Range, First
<1>7. Place(i)'
  BY <1>1, <1>2, <1>4 DEF Place, ReadCkpt, First
<1>8. Above(i)'
  BY <1>1, <1>2 DEF WInv, Above, ReadCkpt, First, Range
<1>9. WInv(i)'
  BY <1>6, <1>7, <1>8 DEF WInv
<1>. QED BY <1>1, <1>2, <1>3, <1>9, StepLInv DEF Begin, TypeOK

LEMMA SendLInv == ASSUME LInv, NEW i \in Worker, Send(i) PROVE LInv'
<1>1. TypeOK /\ WInv(i) /\ pc[i] = "loop" /\ pc'[i] = "sent"
  BY DEF LInv, Send, TypeOK
<1>2. UNCHANGED <<stored, ckpt, docId, torn>>
  BY DEF Send
<1>3. TypeOK'
  BY <1>1 DEF TypeOK, Send
<1>4. WInv(i)'
  BY <1>1, <1>2 DEF WInv, Below, Place, Above, ReadCkpt, Range, First
<1>. QED BY <1>1, <1>2, <1>3, <1>4, StepLInv DEF Send, TypeOK

LEMMA ExecuteLInv == ASSUME LInv, NEW i \in Worker, Execute(i) PROVE LInv'
<1>1. TypeOK /\ WInv(i) /\ pc[i] = "sent" /\ pc'[i] = "opening"
      /\ docId'[i] = BatchEnd(i) /\ stored' = stored \cup InFlight(i)
  BY DEF LInv, Execute, TypeOK
<1>2. UNCHANGED <<ckpt, torn>>
  BY DEF Execute
<1>3. First(i) <= docId[i] /\ docId[i] <= First(i + 1)
      /\ docId[i] = ReadCkpt(i)
  BY <1>1 DEF WInv, Below, Place
<1>4. /\ BatchEnd(i) \in Nat
      /\ docId[i] <= BatchEnd(i) /\ BatchEnd(i) <= First(i + 1)
      /\ InFlight(i) \subseteq Range(i)
      /\ \A d \in Range(i) : d < BatchEnd(i) =>
           d < docId[i] \/ d \in InFlight(i)
      /\ \A d \in InFlight(i) : d < docId[i] + Batch
  BY <1>1, <1>3, BatchBounds
<1>5. TypeOK'
  BY <1>1, <1>4, LoadTypes DEF TypeOK, Execute
<1>6. Below(i)'
  <2>1. First(i) <= BatchEnd(i)
    BY <1>1, <1>3, <1>4, LoadTypes
  <2>2. \A d \in Range(i) : d < BatchEnd(i) => d \in stored'
    BY <1>1, <1>4 DEF WInv, Below
  <2>3. ckpt[i] # NoCkpt =>
          /\ First(i) <= ckpt[i] /\ ckpt[i] <= First(i + 1)
          /\ \A d \in Range(i) : d < ckpt[i] => d \in stored'
    BY <1>1 DEF WInv, Below
  <2>. QED BY <1>1, <1>2, <1>4, <2>1, <2>2, <2>3 DEF Below, Range, First
<1>7. Place(i)'
  BY <1>1, <1>2, <1>3, <1>4 DEF Place, ReadCkpt, First
<1>8. Above(i)'
  <2>1. ReadCkpt(i)' = ReadCkpt(i)
    BY <1>2 DEF ReadCkpt, First
  <2>2. ASSUME i \notin torn, NEW d \in stored' \cap Range(i)
        PROVE  d < Batch + ReadCkpt(i)
    <3>1. CASE d \in stored
      BY <1>1, <2>2, <3>1 DEF WInv, Above
    <3>2. CASE d \in InFlight(i)
      BY <1>1, <1>3, <1>4, <3>2, LoadTypes
    <3>. QED BY <1>1, <2>2, <3>1, <3>2
  <2>. QED BY <1>1, <1>2, <2>1, <2>2 DEF Above, Range, First
<1>9. WInv(i)'
  BY <1>6, <1>7, <1>8 DEF WInv
<1>10. stored' \subseteq stored \cup Range(i)
  BY <1>1, <1>4
<1>. QED BY <1>1, <1>2, <1>5, <1>9, <1>10, StepLInv DEF Execute, TypeOK

\* A worker whose batch the server has run in part, and which goes on with
\* the same place, or has been killed.
LEMMA PartLInv ==
  ASSUME LInv, TypeOK', NEW i \in Worker, NEW ran,
         ran \subseteq InFlight(i), ran = {} \/ pc[i] = "sent",
         stored' = stored \cup ran, UNCHANGED <<ckpt, docId>>,
         \/ pc[i] = "sent" /\ pc' = [pc EXCEPT ![i] = "loop"] /\ torn' = torn
         \/ pc' = [pc EXCEPT ![i] = "off"]
            /\ torn' = IF pc[i] = "writing" THEN torn \cup {i} ELSE torn
  PROVE  LInv'
<1>1. TypeOK /\ WInv(i)
  BY DEF LInv
<1>2. \/ pc[i] = "sent" /\ pc'[i] = "loop" /\ torn' = torn
      \/ pc'[i] = "off" /\ (i \notin torn' => pc[i] # "writing" /\ i \notin torn)
  BY <1>1 DEF TypeOK
<1>3. ran \subseteq Range(i)
      /\ \A d \in ran : pc[i] = "sent" /\ d < ReadCkpt(i) + Batch
  <2>1. CASE pc[i] = "sent"
    <3>1. First(i) <= docId[i] /\ docId[i] <= First(i + 1)
          /\ docId[i] = ReadCkpt(i)
      BY <1>1, <2>1 DEF WInv, Below, Place
    <3>2. InFlight(i) \subseteq Range(i)
          /\ \A d \in InFlight(i) : d < docId[i] + Batch
      BY <1>1, <3>1, BatchBounds
    <3>. QED BY <2>1, <3>1, <3>2
  <2>2. CASE pc[i] # "sent"
    BY <2>2
  <2>. QED BY <2>1, <2>2
<1>4. Below(i)'
  BY <1>1, <1>2 DEF WInv, Below, Range, First
<1>5. Place(i)'
  BY <1>1, <1>2 DEF WInv, Place, ReadCkpt, First
<1>6. Above(i)'
  <2>1. ReadCkpt(i)' = ReadCkpt(i) /\ pc'[i] # "writing"
        /\ (i \notin torn' => i \notin torn /\ pc[i] # "writing")
    BY <1>2 DEF ReadCkpt, First
  <2>2. ASSUME i \notin torn', NEW d \in stored' \cap Range(i)
        PROVE  d < Batch + ReadCkpt(i)
    <3>1. CASE d \in stored
      BY <1>1, <2>1, <2>2, <3>1 DEF WInv, Above
    <3>2. CASE d \in ran
      BY <1>1, <1>3, <2>2, <3>2, LoadTypes DEF Range
    <3>. QED BY <2>2, <3>1, <3>2
  <2>. QED BY <2>1, <2>2 DEF Above, Range, First
<1>7. WInv(i)'
  BY <1>4, <1>5, <1>6 DEF WInv
<1>8. \A j \in Worker : j # i => pc'[j] = pc[j] /\ (j \in torn' <=> j \in torn)
  BY <1>1 DEF TypeOK
<1>. QED BY <1>1, <1>3, <1>7, <1>8, StepLInv

LEMMA ExecuteFailLInv ==
  ASSUME LInv, NEW i \in Worker, NEW ran, ExecuteFail(i, ran) PROVE LInv'
<1>1. TypeOK /\ WInv(i) /\ pc[i] = "sent" /\ ran \subseteq InFlight(i)
  BY DEF LInv, ExecuteFail
<1>2. ran \subseteq Doc
  BY <1>1, BatchBounds, LoadTypes DEF WInv, Below
<1>3. TypeOK'
  BY <1>1, <1>2 DEF TypeOK, ExecuteFail
<1>. QED BY <1>1, <1>3, PartLInv DEF ExecuteFail

LEMMA KillLInv ==
  ASSUME LInv, NEW i \in Worker, NEW ran \in SUBSET Doc, Kill(i, ran)
  PROVE  LInv'
<1>1. TypeOK'
  BY DEF LInv, TypeOK, Kill
<1>2. ran \subseteq InFlight(i) /\ (ran = {} \/ pc[i] = "sent")
  BY DEF Kill
<1>. QED BY <1>1, <1>2, PartLInv DEF Kill

LEMMA CkptOpenLInv == ASSUME LInv, NEW i \in Worker, CkptOpen(i) PROVE LInv'
<1>1. TypeOK /\ WInv(i) /\ pc[i] = "opening" /\ pc'[i] = "writing"
      /\ ckpt'[i] = NoCkpt
  BY DEF LInv, CkptOpen, TypeOK
<1>2. UNCHANGED <<stored, docId, torn>>
  BY DEF CkptOpen
<1>3. TypeOK'
  BY <1>1 DEF TypeOK, CkptOpen
<1>4. Below(i)'
  BY <1>1, <1>2 DEF WInv, Below, Range, First
<1>5. Place(i)'
  BY <1>1 DEF Place
<1>6. Above(i)'
  <2>1. ASSUME i \notin torn, NEW d \in stored \cap Range(i)
        PROVE  d < Batch + docId[i]
    <3>1. d < Batch + ReadCkpt(i) /\ docId[i] >= ReadCkpt(i)
      BY <1>1, <2>1 DEF WInv, Above, Place
    <3>. QED BY <1>1, <3>1, LoadTypes DEF Range
  <2>. QED BY <1>1, <1>2, <2>1 DEF Above, Range, First
<1>7. WInv(i)'
  BY <1>4, <1>5, <1>6 DEF WInv
<1>. QED BY <1>1, <1>2, <1>3, <1>7, StepLInv DEF CkptOpen, TypeOK

LEMMA CkptWriteLInv == ASSUME LInv, NEW i \in Worker, CkptWrite(i) PROVE LInv'
<1>1. TypeOK /\ WInv(i) /\ pc[i] = "writing" /\ pc'[i] = "loop"
      /\ ckpt'[i] = docId[i]
  BY DEF LInv, CkptWrite, TypeOK
<1>2. UNCHANGED <<stored, docId, torn>>
  BY DEF CkptWrite
<1>3. TypeOK'
  BY <1>1, LoadTypes DEF TypeOK, CkptWrite
<1>4. Below(i)'
  BY <1>1, <1>2 DEF WInv, Below, Range, First
<1>5. ckpt'[i] # NoCkpt
  BY <1>1, LoadTypes
<1>6. Place(i)'
  BY <1>1, <1>2, <1>5 DEF Place, ReadCkpt
<1>7. Above(i)'
  BY <1>1, <1>2, <1>5 DEF WInv, Above, ReadCkpt, Range, First
<1>8. WInv(i)'
  BY <1>4, <1>6, <1>7 DEF WInv
<1>. QED BY <1>1, <1>2, <1>3, <1>8, StepLInv DEF CkptWrite, TypeOK

LEMMA FinishLInv == ASSUME LInv, NEW i \in Worker, Finish(i) PROVE LInv'
<1>1. TypeOK /\ WInv(i) /\ pc[i] = "loop" /\ pc'[i] = "done"
      /\ docId[i] >= First(i + 1)
  BY DEF LInv, Finish, TypeOK
<1>2. UNCHANGED <<stored, ckpt, docId, torn>>
  BY DEF Finish
<1>3. TypeOK'
  BY <1>1 DEF TypeOK, Finish
<1>4. docId[i] = First(i + 1)
  BY <1>1, LoadTypes DEF WInv, Below
<1>5. WInv(i)'
  BY <1>1, <1>2, <1>4 DEF WInv, Below, Place, Above, ReadCkpt, Range, First
<1>. QED BY <1>1, <1>2, <1>3, <1>5, StepLInv DEF Finish, TypeOK

LEMMA NextLInv == LInv /\ [Next]_vars => LInv'
<1> SUFFICES ASSUME LInv, [Next]_vars PROVE LInv'
  OBVIOUS
<1>1. CASE RunLoad
  BY <1>1, RunLoadLInv
<1>2. ASSUME NEW i \in Worker, Work(i) PROVE LInv'
  BY <1>2, BeginLInv, SendLInv, ExecuteLInv, ExecuteFailLInv, CkptOpenLInv,
     CkptWriteLInv, FinishLInv DEF Work
<1>3. ASSUME NEW i \in Worker, NEW ran \in SUBSET Doc, Kill(i, ran) PROVE LInv'
  BY <1>3, KillLInv
<1>4. CASE UNCHANGED vars
  BY <1>4 DEF vars, LInv, TypeOK, WInv, Below, Place, Above, ReadCkpt, Range,
     First
<1>. QED BY <1>1, <1>2, <1>3, <1>4 DEF Next

LEMMA AlwaysLInv == Spec => []LInv
BY InitLInv, NextLInv, PTL DEF Spec

-----------------------------------------------------------------------------
(* LoadTypeCorrect: the type invariant of the loader (load_worker).        *)
THEOREM LoadTypeCorrect == Spec => []TypeOK
<1>1. LInv => TypeOK
  BY DEF LInv
<1>. QED BY <1>1, AlwaysLInv, PTL

(* CheckpointsAreHonest: whatever fails and whoever is killed, a           *)
(* checkpoint has no document missing below it (execute, then write_text). *)
THEOREM CheckpointsAreHonest == Spec => []CkptBehindStore
<1>1. LInv => CkptBehindStore
  <2> SUFFICES ASSUME LInv, NEW i \in Worker, ckpt[i] # NoCkpt,
                      NEW d \in First(i) .. ckpt[i] - 1
               PROVE  d \in stored
    BY DEF CkptBehindStore
  <2>1. TypeOK /\ Below(i)
    BY DEF LInv, WInv
  <2>2. d \in Range(i) /\ d < ckpt[i]
    BY <2>1, LoadTypes DEF Below, Range
  <2>. QED BY <2>1, <2>2 DEF Below
<1>. QED BY <1>1, AlwaysLInv, PTL

(* LoadedWhenDone: when every worker has printed "done", the documents     *)
(* 0 .. total_docs - 1 are all stored: no range has a hole and no two      *)
(* ranges leave one between them (run_load, load_worker).                  *)
THEOREM LoadedWhenDone == Spec => []DoneIsLoaded
<1>1. LInv => DoneIsLoaded
  <2> SUFFICES ASSUME LInv PROVE DoneIsLoaded
    OBVIOUS
  <2>1. ASSUME NEW i \in Worker, pc[i] = "done" PROVE Range(i) \subseteq stored
    <3>1. TypeOK /\ Below(i)
      BY DEF LInv, WInv
    <3>2. docId[i] = First(i + 1) /\ \A d \in Range(i) : d < docId[i] => d \in stored
      BY <2>1, <3>1 DEF Below
    <3>. QED BY <3>1, <3>2, LoadTypes DEF Range
  <2>2. ASSUME \A i \in Worker : pc[i] = "done" PROVE stored = Doc
    <3>1. Doc \subseteq stored
      BY <2>1, <2>2, RangesCover
    <3>. QED BY <3>1 DEF LInv, TypeOK
  <2>. QED BY <2>1, <2>2 DEF DoneIsLoaded
<1>. QED BY <1>1, AlwaysLInv, PTL

(* PromisesAreKept: so neither a checkpoint nor a worker that is done says *)
(* that a document is stored which is not (load_worker, run_load).         *)
THEOREM PromisesAreKept == Spec => []PromisesKept
BY CheckpointsAreHonest, LoadedWhenDone, PTL DEF PromisesKept

(* OneBatchRedone: a worker that was never killed within write_text finds  *)
(* at most one batch of its own beyond its checkpoint (load_worker).       *)
THEOREM OneBatchRedone == Spec => []ResumeRedoesOneBatch
<1>1. LInv => ResumeRedoesOneBatch
  <2> SUFFICES ASSUME LInv, NEW i \in Worker \ torn, ckpt[i] # NoCkpt,
                      NEW d \in stored \cap Range(i)
               PROVE  d \in First(i) .. ckpt[i] + Batch - 1
    BY DEF ResumeRedoesOneBatch
  <2>1. TypeOK /\ Place(i) /\ Above(i)
    BY DEF LInv, WInv
  <2>2. d < Batch + ckpt[i]
    BY <2>1 DEF Above, Place, ReadCkpt
  <2>. QED BY <2>1, <2>2, LoadTypes DEF Range
<1>. QED BY <1>1, AlwaysLInv, PTL

-----------------------------------------------------------------------------
(* The end of a load, as far as it needs no fairness: a session comes to   *)
(* its end, and a rerun begins where the one before has got to.            *)

\* Steps that worker i has left at most, unless a batch fails: five for each
\* document, and a few.
StepsToDo(i) ==
  CASE pc[i] = "begin" -> 5 * (First(i + 1) - First(i)) + 5
    [] pc[i] = "loop" -> 5 * (First(i + 1) - docId[i]) + 4
    [] pc[i] = "sent" -> 5 * (First(i + 1) - docId[i]) + 3
    [] pc[i] = "opening" -> 5 * (First(i + 1) - docId[i]) + 6
    [] pc[i] = "writing" -> 5 * (First(i + 1) - docId[i]) + 5
    [] OTHER -> 0

\* Where worker i would begin, or would when it has written its checkpoint.
Reached(i) == IF pc[i] = "writing" THEN docId[i] ELSE ReadCkpt(i)

LEMMA StepsToDoNat == ASSUME LInv, NEW i \in Worker PROVE StepsToDo(i) \in Nat
<1>1. /\ First(i) \in Nat /\ First(i + 1) \in Nat /\ First(i) <= First(i + 1)
      /\ docId[i] \in Nat
      /\ pc[i] \in {"loop", "sent", "opening", "writing"} => docId[i] <= First(i + 1)
  BY LoadTypes DEF LInv, WInv, Below
<1>. DEFINE a == First(i + 1)
            b == First(i)
<1>2. a \in Nat /\ b \in Nat /\ b <= a
      /\ (pc[i] \in {"loop", "sent", "opening", "writing"} => docId[i] <= a)
  BY <1>1
<1>. HIDE DEF a, b
<1>3. StepsToDo(i) = CASE pc[i] = "begin" -> 5 * (a - b) + 5
                       [] pc[i] = "loop" -> 5 * (a - docId[i]) + 4
                       [] pc[i] = "sent" -> 5 * (a - docId[i]) + 3
                       [] pc[i] = "opening" -> 5 * (a - docId[i]) + 6
                       [] pc[i] = "writing" -> 5 * (a - docId[i]) + 5
                       [] OTHER -> 0
  BY DEF StepsToDo, a, b
<1>. QED BY <1>1, <1>2, <1>3

\* A batch that is sent has a document in it.
BatchesNotEmpty == \A i \in Worker : pc[i] = "sent" => docId[i] < First(i + 1)

LEMMA NextNotEmpty == LInv /\ BatchesNotEmpty /\ [Next]_vars => BatchesNotEmpty'
<1>. SUFFICES ASSUME LInv, BatchesNotEmpty, [Next]_vars, NEW i \in Worker, pc'[i] = "sent"
              PROVE  docId'[i] < First(i + 1)
  BY DEF BatchesNotEmpty, First
<1>1. TypeOK
  BY DEF LInv
<1>2. CASE RunLoad \/ UNCHANGED vars
  BY <1>2 DEF RunLoad, vars, BatchesNotEmpty
<1>3. ASSUME NEW j \in Worker, Work(j) PROVE docId'[i] < First(i + 1)
  <2>1. CASE j = i
    BY <1>1, <1>3, <2>1
    DEF Work, Begin, Send, Execute, ExecuteFail, CkptOpen, CkptWrite, Finish, TypeOK
  <2>2. CASE j # i
    <3>1. pc'[i] = pc[i] /\ docId'[i] = docId[i]
      BY <1>1, <1>3, <2>2
      DEF Work, Begin, Send, Execute, ExecuteFail, CkptOpen, CkptWrite, Finish, TypeOK
    <3>. QED BY <3>1 DEF BatchesNotEmpty
  <2>. QED BY <2>1, <2>2
<1>4. ASSUME NEW j \in Worker, NEW ran \in SUBSET Doc, Kill(j, ran)
      PROVE  docId'[i] < First(i + 1)
  <2>1. pc[i] = "sent" /\ docId'[i] = docId[i]
    BY <1>1, <1>4 DEF Kill, TypeOK
  <2>. QED BY <2>1 DEF BatchesNotEmpty
<1>. QED BY <1>2, <1>3, <1>4 DEF Next

LEMMA AlwaysNotEmpty == Spec => []BatchesNotEmpty
<1>1. Init => BatchesNotEmpty
  BY DEF Init, BatchesNotEmpty
<1>. QED BY <1>1, NextNotEmpty, AlwaysLInv, PTL DEF Spec

\* A step of a worker: one less to do, or a batch has failed.
LEMMA WorkAdvances ==
  ASSUME LInv, LInv', BatchesNotEmpty, NEW i \in Worker, Work(i)
  PROVE  /\ StepsToDo(i)' < StepsToDo(i) \/ errors' = errors + 1
         /\ \A j \in Worker : j # i => pc'[j] = pc[j] /\ docId'[j] = docId[j]
<1>. DEFINE a == First(i + 1)
            b == First(i)
<1>1. /\ TypeOK /\ a \in Nat /\ b \in Nat /\ b <= a
      /\ docId[i] \in Nat /\ docId'[i] \in Nat /\ Batch \in Nat /\ Batch > 0
  BY LoadTypes DEF LInv, TypeOK
<1>2. \A j \in Worker : j # i => pc'[j] = pc[j] /\ docId'[j] = docId[j]
  BY <1>1 DEF Work, Begin, Send, Execute, ExecuteFail, CkptOpen, CkptWrite, Finish, TypeOK
<1>3. StepsToDo(i) = CASE pc[i] = "begin" -> 5 * (a - b) + 5
                       [] pc[i] = "loop" -> 5 * (a - docId[i]) + 4
                       [] pc[i] = "sent" -> 5 * (a - docId[i]) + 3
                       [] pc[i] = "opening" -> 5 * (a - docId[i]) + 6
                       [] pc[i] = "writing" -> 5 * (a - docId[i]) + 5
                       [] OTHER -> 0
  BY DEF StepsToDo
<1>4. StepsToDo(i)' = CASE pc'[i] = "begin" -> 5 * (a - b) + 5
                        [] pc'[i] = "loop" -> 5 * (a - docId'[i]) + 4
                        [] pc'[i] = "sent" -> 5 * (a - docId'[i]) + 3
                        [] pc'[i] = "opening" -> 5 * (a - docId'[i]) + 6
                        [] pc'[i] = "writing" -> 5 * (a - docId'[i]) + 5
                        [] OTHER -> 0
  BY DEF StepsToDo, First
<1>5. ASSUME Begin(i)
      PROVE  pc[i] = "begin" /\ pc'[i] = "loop" /\ docId'[i] >= b
  BY <1>1, <1>5, LoadTypes DEF Begin, LargerOf, TypeOK
<1>6. ASSUME Send(i)
      PROVE  pc[i] = "loop" /\ pc'[i] = "sent" /\ docId'[i] = docId[i]
  BY <1>1, <1>6 DEF Send, TypeOK
<1>7. ASSUME Execute(i)
      PROVE  pc[i] = "sent" /\ pc'[i] = "opening" /\ docId'[i] >= docId[i] + 1
  <2>1. pc[i] = "sent" /\ pc'[i] = "opening" /\ docId'[i] = BatchEnd(i)
    BY <1>1, <1>7 DEF Execute, TypeOK
  <2>2. docId[i] < a
    BY <2>1 DEF BatchesNotEmpty
  <2>. QED BY <1>1, <2>1, <2>2 DEF BatchEnd, SmallerOf
<1>8. ASSUME CkptOpen(i) \/ CkptWrite(i)
      PROVE  /\ docId'[i] = docId[i]
             /\ \/ pc[i] = "opening" /\ pc'[i] = "writing"
                \/ pc[i] = "writing" /\ pc'[i] = "loop"
  BY <1>1, <1>8 DEF CkptOpen, CkptWrite, TypeOK
<1>9. ASSUME Finish(i)
      PROVE  pc[i] = "loop" /\ pc'[i] = "done" /\ docId[i] <= a
  BY <1>1, <1>9 DEF Finish, TypeOK, LInv, WInv, Below
<1>10. ASSUME \E ran \in SUBSET InFlight(i) : ExecuteFail(i, ran)
       PROVE  errors' = errors + 1
  BY <1>10 DEF ExecuteFail
<1>. HIDE DEF a, b
<1>11. CASE Begin(i)
  BY <1>1, <1>3, <1>4, <1>5, <1>11, <1>2
<1>12. CASE Send(i)
  BY <1>1, <1>3, <1>4, <1>6, <1>12, <1>2
<1>13. CASE Execute(i)
  BY <1>1, <1>3, <1>4, <1>7, <1>13, <1>2
<1>14. CASE CkptOpen(i) \/ CkptWrite(i)
  BY <1>1, <1>3, <1>4, <1>8, <1>14, <1>2
<1>15. CASE Finish(i)
  BY <1>1, <1>3, <1>4, <1>9, <1>15, <1>2
<1>. QED BY <1>2, <1>10, <1>11, <1>12, <1>13, <1>14, <1>15 DEF Work

(* SessionsEnd: a worker's every step leaves it less to do, unless its     *)
(* batch fails; nothing but a failure or a new session ever gives a worker *)
(* more to do, so that without failures a session ends within five steps   *)
(* for each document and five more (load_worker).                          *)
THEOREM SessionsEnd ==
  Spec => [][\A i \in Worker :
               /\ Work(i) => StepsToDo(i)' < StepsToDo(i) \/ errors' = errors + 1
               /\ StepsToDo(i)' <= StepsToDo(i) \/ errors' = errors + 1 \/ RunLoad]_vars
<1>. DEFINE Advance(i) ==
       /\ Work(i) => StepsToDo(i)' < StepsToDo(i) \/ errors' = errors + 1
       /\ StepsToDo(i)' <= StepsToDo(i) \/ errors' = errors + 1 \/ RunLoad
<1>. DEFINE Bounded == \A i \in Worker : StepsToDo(i) \in Nat
<1>0. LInv => Bounded
  BY StepsToDoNat
<1>1. ASSUME LInv, LInv', BatchesNotEmpty, Bounded, Bounded', Next, NEW i \in Worker
      PROVE  Advance(i)
  <2>1. StepsToDo(i) \in Nat /\ StepsToDo(i)' \in Nat
    BY <1>1 DEF Bounded
  <2>2. ASSUME pc'[i] = pc[i], docId'[i] = docId[i]
        PROVE  StepsToDo(i)' = StepsToDo(i)
    BY <2>2 DEF StepsToDo, First
  <2>3. Work(i) => StepsToDo(i)' < StepsToDo(i) \/ errors' = errors + 1
    BY <1>1, WorkAdvances
  <2>4. ASSUME NEW j \in Worker, Work(j)
        PROVE  StepsToDo(i)' <= StepsToDo(i) \/ errors' = errors + 1
    <3>1. CASE j = i
      BY <2>1, <2>3, <2>4, <3>1
    <3>2. CASE j # i
      <4>1. pc'[i] = pc[i] /\ docId'[i] = docId[i]
        BY <1>1, <2>4, <3>2, WorkAdvances
      <4>. QED BY <2>1, <2>2, <4>1
    <3>. QED BY <3>1, <3>2
  <2>5. ASSUME NEW j \in Worker, NEW ran \in SUBSET Doc, Kill(j, ran)
        PROVE  StepsToDo(i)' <= StepsToDo(i)
    <3>1. CASE j = i
      <4>1. pc'[i] = "off"
        BY <1>1, <2>5, <3>1 DEF Kill, LInv, TypeOK
      <4>2. StepsToDo(i)' = 0
        BY <4>1 DEF StepsToDo
      <4>. QED BY <2>1, <4>2
    <3>2. CASE j # i
      <4>1. pc'[i] = pc[i] /\ docId'[i] = docId[i]
        BY <1>1, <2>5, <3>2 DEF Kill, LInv, TypeOK
      <4>. QED BY <2>1, <2>2, <4>1
    <3>. QED BY <3>1, <3>2
  <2>. QED BY <1>1, <2>3, <2>4, <2>5 DEF Next
<1>2. ASSUME LInv, LInv', BatchesNotEmpty, Bounded, Bounded', [Next]_vars
      PROVE  [\A i \in Worker : Advance(i)]_vars
  <2>1. CASE Next
    BY <1>1, <1>2, <2>1
  <2>. QED BY <1>2, <2>1
<1>. HIDE DEF Bounded
<1>. QED BY <1>0, <1>2, AlwaysLInv, AlwaysNotEmpty, PTL DEF Spec

(* RerunsGoOn: where a worker would begin again never moves back, unless a *)
(* kill leaves its checkpoint file empty: however often a load is run and  *)
(* killed, it gets no further away from its end (_read_ckpt, write_text).       *)
THEOREM RerunsGoOn ==
  Spec => [][\A i \in Worker : i \in torn' \/ Reached(i) <= Reached(i)']_vars
<1>1. ASSUME LInv, [Next]_vars, NEW i \in Worker, i \notin torn'
      PROVE  Reached(i) <= Reached(i)'
  <2>1. /\ TypeOK /\ Place(i) /\ docId[i] \in Nat /\ ReadCkpt(i) \in Nat
        /\ (ckpt[i] # NoCkpt => ckpt[i] \in Nat) /\ NoCkpt \notin Nat /\ Reached(i) \in Nat
    BY <1>1, LoadTypes DEF LInv, WInv, Reached
  <2>2. ASSUME pc'[i] = pc[i], docId'[i] = docId[i], ckpt'[i] = ckpt[i]
        PROVE  Reached(i)' = Reached(i)
    BY <2>2 DEF Reached, ReadCkpt, First
  <2>3. ASSUME ckpt'[i] = ckpt[i], pc[i] # "writing", pc'[i] # "writing"
        PROVE  Reached(i)' = Reached(i)
    BY <2>3 DEF Reached, ReadCkpt, First
  <2>4. ASSUME NEW j \in Worker, j # i, Work(j) \/ \E ran \in SUBSET Doc : Kill(j, ran)
        PROVE  Reached(i)' = Reached(i)
    <3>1. pc'[i] = pc[i] /\ docId'[i] = docId[i] /\ ckpt'[i] = ckpt[i]
      BY <2>1, <2>4
      DEF Work, Begin, Send, Execute, ExecuteFail, CkptOpen, CkptWrite, Finish, Kill, TypeOK
    <3>. QED BY <2>2, <3>1
  <2>5. CASE Begin(i) \/ Send(i) \/ Execute(i) \/ Finish(i)
             \/ \E ran \in SUBSET InFlight(i) : ExecuteFail(i, ran)
    <3>1. ckpt'[i] = ckpt[i] /\ pc[i] # "writing" /\ pc'[i] # "writing"
      BY <2>1, <2>5 DEF Begin, Send, Execute, ExecuteFail, Finish, TypeOK
    <3>. QED BY <2>1, <2>3, <3>1
  <2>6. CASE CkptOpen(i)
    <3>1. /\ pc[i] = "opening" /\ pc'[i] = "writing" /\ docId'[i] = docId[i]
          /\ ReadCkpt(i) <= docId[i]
      BY <2>1, <2>6 DEF CkptOpen, TypeOK, Place
    <3>. QED BY <2>1, <3>1 DEF Reached
  <2>7. CASE CkptWrite(i)
    <3>1. /\ pc[i] = "writing" /\ pc'[i] = "loop" /\ ckpt'[i] = docId[i]
      BY <2>1, <2>7 DEF CkptWrite, TypeOK
    <3>2. Reached(i) = docId[i] /\ Reached(i)' = docId[i]
      BY <2>1, <3>1 DEF Reached, ReadCkpt
    <3>. QED BY <2>1, <3>2
  <2>8. CASE \E ran \in SUBSET Doc : Kill(i, ran)
    <3>1. ckpt'[i] = ckpt[i] /\ pc[i] # "writing" /\ pc'[i] # "writing"
      BY <1>1, <2>1, <2>8 DEF Kill, TypeOK
    <3>. QED BY <2>1, <2>3, <3>1
  <2>9. CASE RunLoad
    <3>1. ckpt'[i] = ckpt[i] /\ pc[i] # "writing" /\ pc'[i] # "writing"
      BY <2>1, <2>9 DEF RunLoad, TypeOK
    <3>. QED BY <2>1, <2>3, <3>1
  <2>10. CASE UNCHANGED vars
    BY <2>1, <2>2, <2>10 DEF vars
  <2>11. ASSUME NEW j \in Worker, Work(j) \/ \E ran \in SUBSET Doc : Kill(j, ran)
         PROVE  Reached(i) <= Reached(i)'
    <3>1. CASE j = i
      BY <2>5, <2>6, <2>7, <2>8, <2>11, <3>1 DEF Work
    <3>2. CASE j # i
      BY <2>1, <2>4, <2>11, <3>2
    <3>. QED BY <3>1, <3>2
  <2>. QED BY <1>1, <2>9, <2>10, <2>11 DEF Next
<1>2. ASSUME LInv, [Next]_vars
      PROVE  [\A i \in Worker : i \in torn' \/ Reached(i) <= Reached(i)']_vars
  BY <1>1, <1>2
<1>. QED BY <1>2, AlwaysLInv, PTL DEF Spec

-----------------------------------------------------------------------------
(* Every step of a run is a step of the loader or leaves it alone.         *)

LEMMA LoadCommandLoads ==
  ASSUME LoadCommandStep
  PROVE  [Next]_vars
<1>1. ASSUME NEW all \in BOOLEAN, NEW again \in BOOLEAN, StartLoad(all, again)
      PROVE  RunLoad
  BY <1>1 DEF StartLoad
<1>2. ASSUME NEW i \in Worker, LoadWork(i)
      PROVE  Work(i)
  <2>1. LoadOther(i) => Work(i)
    BY DEF LoadOther, Work
  <2>2. LoadExecute(i) => Work(i)
    BY DEF LoadExecute, Work
  <2>3. ASSUME NEW ran \in SUBSET InFlight(i), LoadExecuteFail(i, ran)
        PROVE  Work(i)
    BY <2>3 DEF LoadExecuteFail, Work
  <2>4. LoadFinish(i) => Work(i)
    BY DEF LoadFinish, Work
  <2>. QED BY <1>2, <2>1, <2>2, <2>3, <2>4 DEF LoadWork
<1>3. ASSUME NEW i \in Worker, NEW ran \in SUBSET Doc, LoadKill(i, ran)
      PROVE  Kill(i, ran)
  BY <1>3 DEF LoadKill
<1>4. ASSUME NEW S \in SUBSET Vertical, SetupFail(S) \/ DropIndexes(S)
      PROVE  UNCHANGED vars
  BY <1>4 DEF SetupFail, DropIndexes
<1>5. LoadEnds => UNCHANGED vars
  BY DEF LoadEnds
<1>. QED BY <1>1, <1>2, <1>3, <1>4, <1>5 DEF LoadCommandStep, Next

LEMMA MixedLeavesLoader == MixedStep => UNCHANGED vars
<1>1. ASSUME NEW again \in BOOLEAN, StartMixed(again) PROVE UNCHANGED vars
  BY <1>1 DEF StartMixed
<1>2. ASSUME NEW p \in Process, Operate(p) \/ PartEnds(p) \/ PartDies(p)
      PROVE  UNCHANGED vars
  BY <1>2 DEF Operate, PartEnds, PartDies
<1>3. ASSUME NEW S \in SUBSET (alive \cap Part), Interrupt(S)
      PROVE  UNCHANGED vars
  BY <1>3 DEF Interrupt
<1>4. ASSUME NEW w \in Writer, ReadFile(w) PROVE UNCHANGED vars
  BY <1>4 DEF ReadFile
<1>5. GoOnMixed \/ Join \/ ReportCommand \/ ReportEnds => UNCHANGED vars
  BY DEF GoOnMixed, Join, ReportCommand, ReportEnds
<1>. QED BY <1>1, <1>2, <1>3, <1>4, <1>5 DEF MixedStep

LEMMA RunStepLoads == [RunNext]_runVars => [Next]_vars
BY LoadCommandLoads, MixedLeavesLoader DEF RunNext, runVars

(* RunImplementsLoader: under every command of the orchestrator the loader *)
(* does what its own specification says (run_load, cmd_mixed).             *)
THEOREM RunImplementsLoader == RunSpec => LoadSpec
<1>1. RunInit => Init
  BY DEF RunInit
<1>. QED BY <1>1, RunStepLoads, PTL DEF RunSpec, LoadSpec, Spec

(* RunKeepsPromises: in a run of any commands neither a checkpoint nor a   *)
(* worker that is done promises a document that is not stored, and a       *)
(* resume repeats at most one batch (load_worker).                         *)
THEOREM RunKeepsPromises == RunSpec => [](PromisesKept /\ ResumeRedoesOneBatch)
BY RunImplementsLoader, PromisesAreKept, OneBatchRedone, PTL DEF LoadSpec

-----------------------------------------------------------------------------
(* What the processes count.                                               *)

StatTypes ==
  /\ window \in [Process -> Nat]
  /\ file \in [Writer -> Nat] /\ done \in [Writer -> Nat]
  /\ shown \in [Writer -> Nat]
  /\ alive \subseteq Process \ Worker
  /\ todo \subseteq Writer

\* A process of a mixed run that does not run has no open window.
ClosedWindows ==
  \A p \in Process \ Worker : p \notin alive => window[p] = 0

\* What is in files and windows has been recorded.
Recorded == \A w \in Writer : Sum(w) <= done[w]

StatInv == StatTypes /\ ClosedWindows /\ Recorded /\ NeverOverstates

LEMMA RunConstants == Workers \in Nat \ {0} /\ Parts \in Nat
BY LoadAssumption, RunAssumption DEF LoadAssumption, RunAssumption

LEMMA WriterTypes ==
  ASSUME NEW w \in Writer
  PROVE  /\ w \in Process /\ FileOf(w) = w
         /\ w \in Part => /\ OrphanOf(w) \in Process \ Writer
                          /\ FileOf(OrphanOf(w)) = w
         /\ w \in Part <=> w \notin Worker
BY RunConstants DEF Writer, Worker, Part, Process, FileOf, OrphanOf

LEMMA ProcessTypes ==
  ASSUME NEW p \in Process
  PROVE  /\ FileOf(p) \in Writer
         /\ p \in Writer => FileOf(p) = p
         /\ p \notin Writer => /\ FileOf(p) \in Part
                               /\ OrphanOf(FileOf(p)) = p
         /\ p \notin Worker => FileOf(p) \in Part
BY RunConstants DEF Writer, Worker, Part, Process, FileOf, OrphanOf

LEMMA SumTypes ==
  ASSUME StatTypes, NEW w \in Writer
  PROVE  Sum(w) \in Nat /\ file[w] <= Sum(w)
BY WriterTypes DEF StatTypes, Sum

\* What one process moves between its window and its file.
LEMMA OneCounts ==
  ASSUME StatTypes, NEW p \in Process,
         window' \in [Process -> Nat], file' \in [Writer -> Nat],
         \A q \in Process : q # p => window'[q] = window[q],
         \A v \in Writer : v # FileOf(p) => file'[v] = file[v]
  PROVE  /\ Sum(FileOf(p))' = Sum(FileOf(p)) + (window'[p] + file'[FileOf(p)])
                             - (window[p] + file[FileOf(p)])
         /\ \A v \in Writer : v # FileOf(p) => Sum(v)' = Sum(v)
<1> DEFINE w == FileOf(p)
<1>1. w \in Writer
  BY ProcessTypes
<1>2. /\ window[p] \in Nat /\ file[w] \in Nat
      /\ window'[p] \in Nat /\ file'[w] \in Nat
  BY <1>1 DEF StatTypes
<1>3. Sum(w)' = Sum(w) + (window'[p] + file'[w]) - (window[p] + file[w])
  <2>1. CASE p \in Writer
    <3>1. w = p /\ (w \in Part => OrphanOf(w) \in Process /\ OrphanOf(w) # p)
      BY <2>1, WriterTypes
    <3>2. CASE w \in Part
      <4>1. window'[OrphanOf(w)] = window[OrphanOf(w)]
            /\ window[OrphanOf(w)] \in Nat
        BY <3>1, <3>2 DEF StatTypes
      <4>. QED BY <1>2, <3>1, <3>2, <4>1 DEF Sum
    <3>3. CASE w \notin Part
      BY <1>2, <3>1, <3>3 DEF Sum
    <3>. QED BY <3>2, <3>3
  <2>2. CASE p \notin Writer
    <3>1. w \in Part /\ OrphanOf(w) = p /\ w # p /\ w \in Process
      BY <1>1, <2>2, ProcessTypes, WriterTypes
    <3>2. window'[w] = window[w] /\ window[w] \in Nat
      BY <3>1 DEF StatTypes
    <3>3. Sum(w) = file[w] + window[w] + window[p]
      BY <3>1 DEF Sum
    <3>4. Sum(w)' = file'[w] + window'[w] + window'[p]
      BY <3>1 DEF Sum
    <3> HIDE DEF w
    <3>. QED BY <1>2, <3>2, <3>3, <3>4
  <2>. QED BY <2>1, <2>2
<1>5. ASSUME NEW v \in Writer, v # w PROVE Sum(v)' = Sum(v)
  <2>1. v # p
    BY <1>5, ProcessTypes
  <2>2. v \in Part => OrphanOf(v) # p
    BY <1>5, WriterTypes
  <2>3. v \in Process /\ (v \in Part => OrphanOf(v) \in Process)
    BY WriterTypes
  <2>. QED BY <1>5, <2>1, <2>2, <2>3 DEF Sum
<1>. QED BY <1>3, <1>5

LEMMA RecordCounts ==
  ASSUME StatTypes, NEW p \in Process, NEW n \in Nat, Record(p, n)
  PROVE  /\ window' \in [Process -> Nat] /\ file' \in [Writer -> Nat]
         /\ done' \in [Writer -> Nat]
         /\ Sum(FileOf(p))' = Sum(FileOf(p)) + n
         /\ done'[FileOf(p)] = done[FileOf(p)] + n
         /\ \A v \in Writer : v # FileOf(p) => Sum(v)' = Sum(v) /\ done'[v] = done[v]
<1> DEFINE w == FileOf(p)
<1>1. w \in Writer /\ window[p] \in Nat /\ file[w] \in Nat /\ Sum(w) \in Nat
  BY ProcessTypes, SumTypes DEF StatTypes
<1>2. /\ done' \in [Writer -> Nat] /\ done'[w] = done[w] + n
      /\ \A v \in Writer : v # w => done'[v] = done[v]
  BY <1>1 DEF Record, StatTypes
<1>3. /\ window' \in [Process -> Nat] /\ file' \in [Writer -> Nat]
      /\ window'[p] + file'[w] = window[p] + file[w] + n
      /\ \A q \in Process : q # p => window'[q] = window[q]
      /\ \A v \in Writer : v # w => file'[v] = file[v]
  <2>1. CASE window' = [window EXCEPT ![p] = @ + n] /\ UNCHANGED file
    BY <1>1, <2>1 DEF StatTypes
  <2>2. CASE /\ file' = [file EXCEPT ![w] = @ + window[p] + n]
             /\ window' = [window EXCEPT ![p] = 0]
    BY <1>1, <2>2 DEF StatTypes
  <2>. QED BY <2>1, <2>2 DEF Record, Flushed
<1>4. Sum(w)' = Sum(w) + (window'[p] + file'[w]) - (window[p] + file[w])
      /\ \A v \in Writer : v # w => Sum(v)' = Sum(v)
  BY <1>3, OneCounts
<1>5. Sum(w)' = Sum(w) + n
  <2> HIDE DEF w
  <2>. QED BY <1>1, <1>3, <1>4
<1>. QED BY <1>2, <1>3, <1>4, <1>5

LEMMA CloseCounts ==
  ASSUME StatTypes, NEW p \in Process, Close(p)
  PROVE  /\ window' \in [Process -> Nat] /\ file' \in [Writer -> Nat]
         /\ \A v \in Writer : Sum(v)' = Sum(v)
<1> DEFINE w == FileOf(p)
<1>1. w \in Writer /\ window[p] \in Nat /\ file[w] \in Nat /\ Sum(w) \in Nat
  BY ProcessTypes, SumTypes DEF StatTypes
<1>2. /\ window' \in [Process -> Nat] /\ file' \in [Writer -> Nat]
      /\ window'[p] + file'[w] = window[p] + file[w]
      /\ \A q \in Process : q # p => window'[q] = window[q]
      /\ \A v \in Writer : v # w => file'[v] = file[v]
  BY <1>1 DEF Close, StatTypes
<1>3. Sum(w)' = Sum(w) + (window'[p] + file'[w]) - (window[p] + file[w])
      /\ \A v \in Writer : v # w => Sum(v)' = Sum(v)
  BY <1>2, OneCounts
<1>4. Sum(w)' = Sum(w)
  <2> HIDE DEF w
  <2>. QED BY <1>1, <1>2, <1>3
<1>. QED BY <1>2, <1>3, <1>4

LEMMA LostCounts ==
  ASSUME StatTypes, NEW p \in Process, Lost(p)
  PROVE  /\ window' \in [Process -> Nat] /\ file' \in [Writer -> Nat]
         /\ Sum(FileOf(p))' <= Sum(FileOf(p))
         /\ \A v \in Writer : v # FileOf(p) => Sum(v)' = Sum(v)
<1> DEFINE w == FileOf(p)
<1>1. w \in Writer /\ window[p] \in Nat /\ file[w] \in Nat /\ Sum(w) \in Nat
  BY ProcessTypes, SumTypes DEF StatTypes
<1>2. /\ window' \in [Process -> Nat] /\ file' \in [Writer -> Nat]
      /\ window'[p] = 0 /\ file'[w] = file[w]
      /\ \A q \in Process : q # p => window'[q] = window[q]
      /\ \A v \in Writer : v # w => file'[v] = file[v]
  BY <1>1 DEF Lost, StatTypes
<1>3. Sum(w)' = Sum(w) + (window'[p] + file'[w]) - (window[p] + file[w])
      /\ \A v \in Writer : v # w => Sum(v)' = Sum(v)
  BY <1>2, OneCounts
<1>4. Sum(w)' <= Sum(w)
  <2> HIDE DEF w
  <2>. QED BY <1>1, <1>2, <1>3
<1>. QED BY <1>2, <1>3, <1>4

-----------------------------------------------------------------------------
(* Each kind of step keeps the invariant and is a step of the tally.       *)

TallyStep == [Tally!Next]_(Tally!vars)

LEMMA SameSums ==
  ASSUME \A w \in Writer : Sum(w)' = Sum(w), UNCHANGED <<shown, hurt>>
  PROVE  TallyStep
<1>1. [w \in Writer |-> Sum(w)]' = [w \in Writer |-> Sum(w)]
  OBVIOUS
<1>. QED BY <1>1 DEF TallyStep, Tally!vars

\* Nothing is counted; parts may start.
LEMMA QuietCounts ==
  ASSUME StatInv, UNCHANGED <<window, file, done, shown, hurt>>,
         alive \subseteq alive', alive' \subseteq Process \ Worker,
         todo' \subseteq Writer
  PROVE  StatInv' /\ TallyStep
<1>1. ASSUME NEW w \in Writer PROVE Sum(w)' = Sum(w)
  BY DEF Sum
<1>2. StatTypes' /\ ClosedWindows'
  BY DEF StatInv, StatTypes, ClosedWindows
<1>3. Recorded' /\ NeverOverstates'
  BY <1>1 DEF StatInv, Recorded, NeverOverstates
<1>. QED BY <1>1, <1>2, <1>3, SameSums DEF StatInv

LEMMA RecordStep ==
  ASSUME StatInv, NEW p \in Process, NEW n \in Nat, Record(p, n),
         p \in alive \/ p \in Worker, UNCHANGED alive
  PROVE  StatInv' /\ TallyStep
<1> DEFINE w == FileOf(p)
<1>1. StatTypes /\ w \in Writer /\ UNCHANGED <<shown, todo, hurt>>
  BY ProcessTypes DEF StatInv, Record
<1>2. /\ window' \in [Process -> Nat] /\ file' \in [Writer -> Nat]
      /\ done' \in [Writer -> Nat]
      /\ Sum(w)' = Sum(w) + n /\ done'[w] = done[w] + n
      /\ \A v \in Writer : v # w => Sum(v)' = Sum(v) /\ done'[v] = done[v]
  BY <1>1, RecordCounts
<1>3. \A v \in Writer : Sum(v) \in Nat /\ done[v] \in Nat /\ shown[v] \in Nat
                        /\ Sum(v) <= done[v] /\ shown[v] <= done[v]
  BY <1>1, SumTypes DEF StatInv, StatTypes, Recorded, NeverOverstates
<1>4. StatTypes'
  BY <1>1, <1>2 DEF StatTypes
<1>5. ClosedWindows'
  <2>1. \A q \in Process : q # p => window'[q] = window[q]
    BY <1>1 DEF Record, Flushed, StatTypes
  <2>. QED BY <2>1 DEF StatInv, ClosedWindows
<1>6. Recorded' /\ NeverOverstates'
  <2> HIDE DEF w
  <2>1. ASSUME NEW v \in Writer
        PROVE  Sum(v)' <= done'[v] /\ shown'[v] <= done'[v]
    <3>1. CASE v = w
      BY <1>1, <1>2, <1>3, <3>1
    <3>2. CASE v # w
      BY <1>1, <1>2, <1>3, <3>2
    <3>. QED BY <3>1, <3>2
  <2>. QED BY <2>1 DEF Recorded, NeverOverstates
<1>7. TallyStep
  <2>1. CASE n = 0
    <3>1. \A v \in Writer : Sum(v)' = Sum(v)
      BY <1>1, <1>2, <1>3, <2>1
    <3>. QED BY <1>1, <3>1, SameSums
  <2>2. CASE n # 0
    <3>1. Sum(w)' > Sum(w)
      BY <1>1, <1>2, <1>3, <2>2
    <3>2. Tally!Count(w)
      BY <1>1, <1>2, <3>1 DEF Tally!Count
    <3>. QED BY <1>1, <3>2 DEF TallyStep, Tally!Next
  <2>. QED BY <2>1, <2>2
<1>. QED BY <1>4, <1>5, <1>6, <1>7 DEF StatInv

LEMMA CloseStep ==
  ASSUME StatInv, NEW p \in Process, Close(p), alive' = alive \ {p}
  PROVE  StatInv' /\ TallyStep
<1>1. StatTypes /\ UNCHANGED <<done, shown, todo, hurt>>
  BY DEF StatInv, Close
<1>2. /\ window' \in [Process -> Nat] /\ file' \in [Writer -> Nat]
      /\ \A v \in Writer : Sum(v)' = Sum(v)
  BY <1>1, CloseCounts
<1>3. StatTypes'
  BY <1>1, <1>2 DEF StatTypes
<1>4. ClosedWindows'
  <2>1. window'[p] = 0 /\ \A q \in Process : q # p => window'[q] = window[q]
    BY <1>1 DEF Close, StatTypes
  <2>. QED BY <2>1 DEF StatInv, ClosedWindows
<1>5. Recorded' /\ NeverOverstates'
  BY <1>1, <1>2 DEF StatInv, Recorded, NeverOverstates
<1>. QED BY <1>1, <1>2, <1>3, <1>4, <1>5, SameSums DEF StatInv

\* The writers W lose what they had open.
LEMMA LoseStep ==
  ASSUME NEW W \in SUBSET Writer, hurt' = hurt \cup W,
         shown' \in {shown, Zeros},
         \A v \in Writer : /\ Sum(v)' <= Sum(v)
                           /\ v \notin W => Sum(v)' = Sum(v)
  PROVE  TallyStep
<1>1. Tally!Zero = Zeros
  BY DEF Tally!Zero, Zeros
<1>2. Tally!Lose(W)
  BY <1>1 DEF Tally!Lose
<1>. QED BY <1>2 DEF TallyStep, Tally!Next

LEMMA LostStep ==
  ASSUME StatInv, NEW p \in Process, Lost(p), alive' = alive \ {p}
  PROVE  StatInv' /\ TallyStep
<1> DEFINE w == FileOf(p)
<1>1. StatTypes /\ UNCHANGED <<file, done, shown, todo>> /\ hurt' = hurt \cup {w}
      /\ w \in Writer
  BY ProcessTypes DEF StatInv, Lost
<1>2. /\ window' \in [Process -> Nat] /\ file' \in [Writer -> Nat]
      /\ Sum(w)' <= Sum(w)
      /\ \A v \in Writer : v # w => Sum(v)' = Sum(v)
  BY <1>1, LostCounts
<1>3. StatTypes'
  BY <1>1, <1>2 DEF StatTypes
<1>4. ClosedWindows'
  <2>1. window'[p] = 0 /\ \A q \in Process : q # p => window'[q] = window[q]
    BY <1>1 DEF Lost, StatTypes
  <2>. QED BY <2>1 DEF StatInv, ClosedWindows
<1>5. \A v \in Writer : Sum(v)' \in Nat /\ Sum(v) \in Nat /\ done[v] \in Nat
  <2>1. \A v \in Writer : Sum(v) \in Nat /\ done[v] \in Nat
    BY <1>1, SumTypes DEF StatTypes
  <2>2. \A v \in Writer : Sum(v)' \in Nat
    BY <1>3, WriterTypes DEF StatTypes, Sum
  <2>. QED BY <2>1, <2>2
<1>6. \A v \in Writer : Sum(v)' <= Sum(v)
  BY <1>2, <1>5
<1>7. Recorded' /\ NeverOverstates'
  <2>1. \A v \in Writer : Sum(v) <= done[v] /\ shown[v] <= done[v]
    BY DEF StatInv, Recorded, NeverOverstates
  <2>2. ASSUME NEW v \in Writer PROVE Sum(v)' <= done[v]
    BY <1>5, <1>6, <2>1
  <2>3. Recorded'
    BY <1>1, <2>2 DEF Recorded
  <2>4. NeverOverstates'
    BY <1>1, <2>1 DEF NeverOverstates
  <2>. QED BY <2>3, <2>4
<1>8. TallyStep
  <2>1. {w} \in SUBSET Writer /\ hurt' = hurt \cup {w} /\ shown' = shown
    BY <1>1
  <2>2. \A v \in Writer : v \notin {w} => Sum(v)' = Sum(v)
    BY <1>2
  <2>. QED BY <1>6, <2>1, <2>2, LoseStep
<1>. QED BY <1>3, <1>4, <1>7, <1>8 DEF StatInv

\* A run directory of its own.
LEMMA NewStep ==
  ASSUME StatInv, window' = [p \in Process |-> 0],
         file' = Zeros, done' = Zeros, shown' = Zeros, hurt' = {},
         alive' \subseteq Process \ Worker, UNCHANGED todo
  PROVE  StatInv' /\ TallyStep
<1>1. Zeros \in [Writer -> Nat] /\ \A w \in Writer : Zeros[w] = 0
  BY DEF Zeros
<1>2. StatTypes' /\ ClosedWindows'
  BY <1>1 DEF StatInv, StatTypes, ClosedWindows
<1>3. ASSUME NEW w \in Writer PROVE Sum(w)' = 0
  BY <1>1, WriterTypes DEF Sum
<1>4. Recorded' /\ NeverOverstates'
  BY <1>1, <1>3 DEF Recorded, NeverOverstates
<1>5. [w \in Writer |-> Sum(w)]' = Tally!Zero
  BY <1>3 DEF Tally!Zero
<1>6. Tally!NewRun
  BY <1>5 DEF Tally!NewRun, Tally!Zero, Zeros
<1>. QED BY <1>2, <1>4, <1>6 DEF StatInv, TallyStep, Tally!Next

LEMMA ClearStep ==
  ASSUME StatInv, ReportStarts, UNCHANGED <<alive, window, file, done, hurt>>
  PROVE  StatInv' /\ TallyStep
<1>1. shown' = Zeros /\ todo' = Writer
  BY DEF ReportStarts
<1>2. Zeros \in [Writer -> Nat] /\ \A w \in Writer : Zeros[w] = 0
  BY DEF Zeros
<1>3. StatTypes' /\ ClosedWindows'
  BY <1>1, <1>2 DEF StatInv, StatTypes, ClosedWindows
<1>4. \A w \in Writer : Sum(w)' = Sum(w)
  BY DEF Sum
<1>5. Recorded' /\ NeverOverstates'
  BY <1>1, <1>2, <1>4 DEF StatInv, StatTypes, Recorded, NeverOverstates
<1>6. Tally!Clear
  BY <1>1, <1>4 DEF Tally!Clear, Tally!Zero, Zeros
<1>. QED BY <1>3, <1>5, <1>6 DEF StatInv, TallyStep, Tally!Next

LEMMA ReadFileStep ==
  ASSUME StatInv, NEW w \in Writer, ReadFile(w)
  PROVE  StatInv' /\ TallyStep
<1>1. /\ UNCHANGED <<window, file, done, hurt, alive>>
      /\ shown' = [shown EXCEPT ![w] = file[w]] /\ todo' = todo \ {w}
  BY DEF ReadFile, partVars
<1>2. StatTypes /\ file[w] \in Nat /\ Sum(w) \in Nat /\ file[w] <= Sum(w)
  BY SumTypes DEF StatInv, StatTypes
<1>3. StatTypes' /\ ClosedWindows'
  BY <1>1, <1>2 DEF StatInv, StatTypes, ClosedWindows
<1>4. \A v \in Writer : Sum(v)' = Sum(v)
  BY <1>1 DEF Sum
<1>5. /\ shown'[w] = file[w]
      /\ \A v \in Writer : v # w => shown'[v] = shown[v]
  BY <1>1, <1>2 DEF StatTypes
<1>6. NeverOverstates'
  <2>1. file[w] <= done[w]
    <3>1. Sum(w) <= done[w] /\ done[w] \in Nat
      BY DEF StatInv, StatTypes, Recorded
    <3>. QED BY <1>2, <3>1
  <2>. QED BY <1>1, <1>5, <2>1 DEF StatInv, NeverOverstates
<1>7. Recorded'
  BY <1>1, <1>4 DEF StatInv, Recorded
<1>8. Tally!Show(w)
  <2>1. [v \in Writer |-> Sum(v)]' = [v \in Writer |-> Sum(v)]
    BY <1>4
  <2>2. shown' = [shown EXCEPT ![w] = shown'[w]]
    BY <1>1, <1>5
  <2>. QED BY <1>1, <1>2, <1>5, <2>1, <2>2 DEF Tally!Show
<1>. QED BY <1>3, <1>6, <1>7, <1>8 DEF StatInv, TallyStep, Tally!Next

LEMMA InterruptStep ==
  ASSUME StatInv, NEW S \in SUBSET (alive \cap Part), Interrupt(S)
  PROVE  StatInv' /\ TallyStep
<1>1. /\ UNCHANGED <<file, done>> /\ shown' = Zeros /\ todo' = Writer
      /\ alive' = (alive \ Part) \cup {OrphanOf(p) : p \in S}
      /\ hurt' = hurt \cup (alive \cap Part)
      /\ window' = [p \in Process |->
                      IF p \in Part THEN 0
                      ELSE IF FileOf(p) \in S /\ p \notin Writer
                      THEN window[FileOf(p)] ELSE window[p]]
  BY DEF Interrupt, ReportStarts
<1>2. StatTypes /\ Part \subseteq Writer
  BY DEF StatInv, Writer
<1>3. Zeros \in [Writer -> Nat] /\ \A w \in Writer : Zeros[w] = 0
  BY DEF Zeros
<1>4. window' \in [Process -> Nat]
  <2>1. ASSUME NEW p \in Process PROVE window[p] \in Nat /\ window[FileOf(p)] \in Nat
    BY <1>2, ProcessTypes, WriterTypes DEF StatTypes
  <2>. QED BY <1>1, <2>1
<1>5. \A p \in S : OrphanOf(p) \in Process \ Worker /\ FileOf(OrphanOf(p)) = p
  BY <1>2, WriterTypes DEF Writer
<1>6. StatTypes'
  BY <1>1, <1>2, <1>3, <1>4, <1>5 DEF StatTypes
<1>7. ClosedWindows'
  <2> SUFFICES ASSUME NEW p \in Process \ Worker, p \notin alive' PROVE window'[p] = 0
    BY DEF ClosedWindows
  <2>1. CASE p \in Part
    BY <1>1, <2>1
  <2>2. CASE p \notin Part
    <3>1. p \notin Writer /\ OrphanOf(FileOf(p)) = p /\ p \notin alive
      BY <1>1, <2>2, ProcessTypes DEF Writer
    <3>2. FileOf(p) \notin S /\ window[p] = 0
      BY <1>1, <3>1 DEF StatInv, ClosedWindows
    <3>. QED BY <1>1, <2>2, <3>2
  <2>. QED BY <2>1, <2>2
<1>8. ASSUME NEW w \in Writer
      PROVE  /\ Sum(w)' \in Nat /\ Sum(w)' <= Sum(w)
             /\ w \notin alive \cap Part => Sum(w)' = Sum(w)
  <2>1. w \in Process /\ file[w] \in Nat /\ window[w] \in Nat /\ file'[w] = file[w]
    BY <1>1, <1>2, WriterTypes DEF StatTypes
  <2>2. CASE w \in Part
    <3>1. /\ OrphanOf(w) \in Process \ Writer /\ FileOf(OrphanOf(w)) = w
          /\ OrphanOf(w) \notin Part /\ window[OrphanOf(w)] \in Nat
      BY <1>2, <2>2, WriterTypes DEF StatTypes
    <3>2. /\ Sum(w) = file[w] + window[w] + window[OrphanOf(w)]
          /\ Sum(w)' = file[w] + window'[w] + window'[OrphanOf(w)]
      BY <2>1, <2>2 DEF Sum
    <3>3. window'[w] = 0
      BY <1>1, <2>1, <2>2
    <3>4. window'[OrphanOf(w)] = IF w \in S THEN window[w] ELSE window[OrphanOf(w)]
      BY <1>1, <3>1
    <3>5. w \notin alive => window[w] = 0 /\ w \notin S
      BY <2>1, <2>2, WriterTypes DEF StatInv, ClosedWindows
    <3>. QED BY <2>1, <2>2, <3>1, <3>2, <3>3, <3>4, <3>5
  <2>3. CASE w \notin Part
    <3>1. window'[w] = window[w]
      BY <1>1, <2>1, <2>3
    <3>. QED BY <2>1, <2>3, <3>1 DEF Sum
  <2>. QED BY <2>2, <2>3
<1>9. Recorded' /\ NeverOverstates'
  <2>1. ASSUME NEW w \in Writer
        PROVE  Sum(w)' <= done[w] /\ 0 <= done[w]
    <3>1. Sum(w) <= done[w] /\ done[w] \in Nat /\ Sum(w) \in Nat
      BY <1>2, SumTypes DEF StatInv, StatTypes, Recorded
    <3>. QED BY <1>8, <3>1
  <2>. QED BY <1>1, <1>3, <2>1 DEF Recorded, NeverOverstates
<1>10. TallyStep
  <2>1. alive \cap Part \in SUBSET Writer
    BY <1>2
  <2>. QED BY <1>1, <1>8, <2>1, LoseStep
<1>. QED BY <1>6, <1>7, <1>9, <1>10 DEF StatInv

-----------------------------------------------------------------------------
(* Every step of a run is of one of these kinds.                           *)

LEMMA BatchSizeNat ==
  ASSUME LInv, NEW i \in Worker, pc[i] = "sent"
  PROVE  BatchSize(i) \in Nat
<1>1. TypeOK /\ First(i) <= docId[i] /\ docId[i] <= First(i + 1)
  BY DEF LInv, WInv, Below
<1>2. BatchEnd(i) \in Nat /\ docId[i] <= BatchEnd(i) /\ docId[i] \in Nat
  BY <1>1, BatchBounds, LoadTypes
<1>. QED BY <1>2 DEF BatchSize

LEMMA ProcessSets ==
  /\ Worker \subseteq Process /\ Part \subseteq Process \ Worker
  /\ Worker \cap (Process \ Worker) = {}
BY RunConstants DEF Worker, Part, Process

LEMMA LoadWorkStep ==
  ASSUME LInv, StatInv, NEW i \in Worker, LoadWork(i)
  PROVE  StatInv' /\ TallyStep
<1>1. i \in Process /\ i \notin alive /\ alive \subseteq Process \ Worker
  BY ProcessSets DEF StatInv, StatTypes
<1>2. CASE LoadOther(i)
  BY <1>1, <1>2, QuietCounts DEF LoadOther, Loading, partVars, statVars, StatInv,
     StatTypes
<1>3. CASE LoadExecute(i)
  <2>1. pc[i] = "sent" /\ Record(i, BatchSize(i)) /\ UNCHANGED alive
    BY <1>3 DEF LoadExecute, Loading, partVars, Execute
  <2>. QED BY <1>1, <2>1, BatchSizeNat, RecordStep
<1>4. ASSUME NEW ran \in SUBSET InFlight(i), LoadExecuteFail(i, ran)
      PROVE  StatInv' /\ TallyStep
  <2>1. pc[i] = "sent" /\ Record(i, BatchSize(i)) /\ UNCHANGED alive
    BY <1>4 DEF LoadExecuteFail, Loading, partVars, ExecuteFail
  <2>. QED BY <1>1, <2>1, BatchSizeNat, RecordStep
<1>5. CASE LoadFinish(i)
  <2>1. Close(i) /\ alive' = alive \ {i}
    BY <1>1, <1>5 DEF LoadFinish, Loading, partVars
  <2>. QED BY <1>1, <2>1, CloseStep
<1>. QED BY <1>2, <1>3, <1>4, <1>5 DEF LoadWork

LEMMA RunDirStep ==
  ASSUME StatInv, NEW again \in BOOLEAN, RunDir(again)
  PROVE  StatInv' /\ TallyStep
<1>1. CASE again
  BY <1>1, QuietCounts DEF RunDir, StatInv, StatTypes
<1>2. CASE ~again
  BY <1>2, NewStep DEF RunDir
<1>. QED BY <1>1, <1>2

LEMMA LoadCommandStats ==
  ASSUME LInv, StatInv, LoadCommandStep
  PROVE  StatInv' /\ TallyStep
<1>1. ASSUME NEW all \in BOOLEAN, NEW again \in BOOLEAN, StartLoad(all, again)
      PROVE  StatInv' /\ TallyStep
  <2>1. RunDir(again)
    BY <1>1 DEF StartLoad
  <2>. QED BY <2>1, RunDirStep
<1>2. ASSUME NEW S \in SUBSET Vertical, SetupFail(S) \/ DropIndexes(S)
      PROVE  StatInv' /\ TallyStep
  BY <1>2, QuietCounts DEF SetupFail, DropIndexes, statVars, partVars, StatInv,
     StatTypes
<1>3. ASSUME NEW i \in Worker, NEW ran \in SUBSET Doc, LoadKill(i, ran)
      PROVE  StatInv' /\ TallyStep
  <2>1. i \in Process /\ alive' = alive \ {i} /\ Lost(i)
    BY <1>3, ProcessSets DEF LoadKill, Loading, partVars, StatInv, StatTypes
  <2>. QED BY <2>1, LostStep
<1>4. CASE LoadEnds
  BY <1>4, QuietCounts DEF LoadEnds, statVars, partVars, StatInv, StatTypes
<1>. QED BY <1>1, <1>2, <1>3, <1>4, LoadWorkStep DEF LoadCommandStep

LEMMA MixedStats ==
  ASSUME StatInv, MixedStep
  PROVE  StatInv' /\ TallyStep
<1>1. ASSUME NEW again \in BOOLEAN, StartMixed(again)
      PROVE  StatInv' /\ TallyStep
  <2>1. CASE again
    BY <1>1, <2>1, ProcessSets, QuietCounts DEF StartMixed, statVars, StatInv,
       StatTypes
  <2>2. CASE ~again
    BY <1>1, <2>2, ProcessSets, NewStep DEF StartMixed
  <2>. QED BY <2>1, <2>2
<1>2. CASE GoOnMixed
  BY <1>2, ProcessSets, QuietCounts DEF GoOnMixed, statVars, StatInv, StatTypes
<1>3. ASSUME NEW p \in Process, Operate(p)
      PROVE  StatInv' /\ TallyStep
  BY <1>3, RecordStep DEF Operate, partVars
<1>4. ASSUME NEW p \in Process, PartEnds(p)
      PROVE  StatInv' /\ TallyStep
  BY <1>4, CloseStep DEF PartEnds
<1>5. ASSUME NEW p \in Process, PartDies(p)
      PROVE  StatInv' /\ TallyStep
  BY <1>5, LostStep DEF PartDies
<1>6. CASE Join \/ ReportCommand
  BY <1>6, ClearStep DEF Join, ReportCommand, partVars
<1>7. CASE ReportEnds
  BY <1>7, QuietCounts DEF ReportEnds, statVars, partVars, StatInv, StatTypes
<1>. QED BY <1>1, <1>2, <1>3, <1>4, <1>5, <1>6, <1>7, InterruptStep,
            ReadFileStep DEF MixedStep

LEMMA RunStats ==
  LInv /\ StatInv /\ [RunNext]_runVars => StatInv' /\ TallyStep
<1>1. LInv /\ StatInv /\ UNCHANGED runVars => StatInv' /\ TallyStep
  BY QuietCounts DEF runVars, statVars, partVars, StatInv, StatTypes
<1>. QED BY <1>1, LoadCommandStats, MixedStats DEF RunNext

LEMMA InitStats == RunInit => StatInv /\ Tally!Init
<1> SUFFICES ASSUME RunInit PROVE StatInv /\ Tally!Init
  OBVIOUS
<1>1. Zeros \in [Writer -> Nat] /\ \A w \in Writer : Zeros[w] = 0
  BY DEF Zeros
<1>2. StatTypes /\ ClosedWindows
  BY <1>1 DEF RunInit, StatTypes, ClosedWindows
<1>3. \A w \in Writer : Sum(w) = 0
  BY <1>1, WriterTypes DEF RunInit, Sum
<1>4. Recorded /\ NeverOverstates
  BY <1>1, <1>3 DEF RunInit, Recorded, NeverOverstates
<1>5. Tally!Init
  BY <1>3 DEF RunInit, Tally!Init, Tally!Zero, Zeros
<1>. QED BY <1>2, <1>4, <1>5 DEF StatInv

LEMMA AlwaysStats == RunSpec => [](LInv /\ StatInv)
<1>1. RunInit => LInv /\ StatInv
  BY InitLInv, InitStats DEF RunInit
<1>2. LInv /\ StatInv /\ [RunNext]_runVars => (LInv /\ StatInv)'
  BY RunStepLoads, NextLInv, RunStats
<1>. QED BY <1>1, <1>2, PTL DEF RunSpec

(* ReportNeverOverstates: for every number of workers and parts, and       *)
(* whoever dies, is cut off or writes on while it reads, a report never    *)
(* counts an operation that was not recorded, or one twice (flush, report).*)
THEOREM ReportNeverOverstates == RunSpec => []NeverOverstates
<1>1. StatInv => NeverOverstates
  BY DEF StatInv
<1>. QED BY <1>1, AlwaysStats, PTL

(* RunImplementsTally: windows, files and closes of all the processes are  *)
(* together one count per worker of which only the open window of a dead   *)
(* process is lost (StatsWriter, report).                                  *)
THEOREM RunImplementsTally == RunSpec => TallySpec
<1>1. LInv /\ StatInv /\ [RunNext]_runVars => [Tally!Next]_(Tally!vars)
  BY RunStats DEF TallyStep
<1>2. RunInit => Tally!Init
  BY InitStats
<1>. QED BY <1>1, <1>2, AlwaysStats, PTL DEF RunSpec, TallySpec, Tally!Spec

-----------------------------------------------------------------------------
(* That a report is exact: why nothing is open when it reads.              *)

Exact == \A w \in Writer \ hurt : Sum(w) = done[w]

\* A load worker has a window only while it runs.
LoadWindows ==
  \A i \in Worker :
    window[i] # 0 => main = "load" /\ pc[i] \notin {"off", "done"}

OrphansHurt == \A w \in Part : OrphanOf(w) \in alive => w \in hurt

PartsInMixed == main # "mixed" => alive \cap Part = {}

ShownSoFar ==
  main \in {"report", "reported"} =>
    \A w \in Writer \ hurt :
      w \notin todo \/ main = "reported" => shown[w] = done[w]

ExactInv == Exact /\ LoadWindows /\ OrphansHurt /\ PartsInMixed /\ ShownSoFar

LEMMA ExactRecord ==
  ASSUME StatTypes, Exact, NEW p \in Process, NEW n \in Nat, Record(p, n)
  PROVE  Exact'
<1>1. UNCHANGED hurt
  BY DEF Record
<1>2. ASSUME NEW w \in Writer \ hurt PROVE Sum(w)' = done'[w]
  <2>1. Sum(w) = done[w]
    BY DEF Exact
  <2>2. CASE w = FileOf(p)
    BY <2>1, <2>2, RecordCounts
  <2>3. CASE w # FileOf(p)
    BY <2>1, <2>3, RecordCounts
  <2>. QED BY <2>2, <2>3
<1>. QED BY <1>1, <1>2 DEF Exact

LEMMA ExactClose ==
  ASSUME StatTypes, Exact, NEW p \in Process, Close(p)
  PROVE  Exact'
<1>1. UNCHANGED <<done, hurt>> /\ \A v \in Writer : Sum(v)' = Sum(v)
  BY CloseCounts DEF Close
<1>. QED BY <1>1 DEF Exact

LEMMA ExactLost ==
  ASSUME StatTypes, Exact, NEW p \in Process, Lost(p)
  PROVE  Exact'
<1>1. UNCHANGED done /\ hurt' = hurt \cup {FileOf(p)}
      /\ \A v \in Writer : v # FileOf(p) => Sum(v)' = Sum(v)
  BY LostCounts DEF Lost
<1>. QED BY <1>1 DEF Exact

\* Only a process's own window changes.
LEMMA OwnWindow ==
  ASSUME StatTypes, NEW p \in Process,
         (\E n \in Nat : Record(p, n)) \/ Close(p) \/ Lost(p)
  PROVE  /\ \A q \in Process : q # p => window'[q] = window[q]
         /\ Close(p) \/ Lost(p) => window'[p] = 0
BY DEF StatTypes, Record, Flushed, Close, Lost

\* A load worker works.
LEMMA LoadExact ==
  ASSUME LInv, StatTypes, ExactInv, NEW i \in Worker, main = "load",
         UNCHANGED <<main, alive>>, Exact',
         \A q \in Process : q # i => window'[q] = window[q],
         \A j \in Worker : j # i => pc'[j] = pc[j],
         window'[i] # 0 => pc'[i] \notin {"off", "done"},
         hurt \subseteq hurt'
  PROVE  ExactInv'
<1>1. LoadWindows'
  BY ProcessSets DEF ExactInv, LoadWindows
<1>2. OrphansHurt' /\ PartsInMixed' /\ ShownSoFar'
  BY DEF ExactInv, OrphansHurt, PartsInMixed, ShownSoFar
<1>. QED BY <1>1, <1>2 DEF ExactInv

LEMMA LoadWorkExact ==
  ASSUME LInv, StatInv, ExactInv, NEW i \in Worker,
         \/ LoadWork(i)
         \/ \E ran \in SUBSET Doc : LoadKill(i, ran)
  PROVE  ExactInv'
<1>1. /\ StatTypes /\ TypeOK /\ i \in Process /\ Exact
      /\ window[i] # 0 => pc[i] \notin {"off", "done"}
  BY ProcessSets DEF StatInv, LInv, ExactInv, LoadWindows
<1>2. CASE LoadOther(i)
  <2>1. /\ main = "load" /\ UNCHANGED <<main, alive, window, file, done, shown, todo, hurt>>
        /\ Begin(i) \/ Send(i) \/ CkptOpen(i) \/ CkptWrite(i)
    BY <1>2 DEF LoadOther, Loading, mainVars, partVars, statVars
  <2>2. pc'[i] \notin {"off", "done"} /\ \A j \in Worker : j # i => pc'[j] = pc[j]
    BY <1>1, <2>1 DEF Begin, Send, CkptOpen, CkptWrite, TypeOK
  <2>3. Exact'
    BY <1>1, <2>1 DEF Exact, Sum
  <2>. QED BY <1>1, <2>1, <2>2, <2>3, LoadExact
<1>3. ASSUME LoadExecute(i) \/ \E ran \in SUBSET InFlight(i) : LoadExecuteFail(i, ran)
      PROVE  ExactInv'
  <2>1. /\ main = "load" /\ UNCHANGED <<main, alive>> /\ pc[i] = "sent"
        /\ Record(i, BatchSize(i))
        /\ Execute(i) \/ \E ran : ExecuteFail(i, ran)
    BY <1>3 DEF LoadExecute, LoadExecuteFail, Loading, mainVars, partVars, Execute,
       ExecuteFail
  <2>2. pc'[i] \notin {"off", "done"} /\ \A j \in Worker : j # i => pc'[j] = pc[j]
    BY <1>1, <2>1 DEF Execute, ExecuteFail, TypeOK
  <2>3. BatchSize(i) \in Nat
    BY <2>1, BatchSizeNat
  <2> DEFINE n == BatchSize(i)
  <2>4. n \in Nat /\ Record(i, n)
    BY <2>1, <2>3
  <2> HIDE DEF n
  <2>5. Exact'
    BY <1>1, <2>4, ExactRecord
  <2>6. \A q \in Process : q # i => window'[q] = window[q]
    BY <1>1, <2>4, OwnWindow
  <2>7. UNCHANGED hurt
    BY <2>4 DEF Record
  <2>. QED BY <1>1, <2>1, <2>2, <2>5, <2>6, <2>7, LoadExact
<1>4. CASE LoadFinish(i)
  <2>1. main = "load" /\ UNCHANGED <<main, alive>> /\ Close(i) /\ Finish(i)
    BY <1>4 DEF LoadFinish, Loading, mainVars, partVars
  <2>2. \A j \in Worker : j # i => pc'[j] = pc[j]
    BY <1>1, <2>1 DEF Finish, TypeOK
  <2>3. Exact' /\ UNCHANGED hurt
    BY <1>1, <2>1, ExactClose DEF Close
  <2>4. window'[i] = 0 /\ \A q \in Process : q # i => window'[q] = window[q]
    BY <1>1, <2>1, OwnWindow
  <2>. QED BY <1>1, <2>1, <2>2, <2>3, <2>4, LoadExact
<1>5. ASSUME NEW ran \in SUBSET Doc, LoadKill(i, ran) PROVE ExactInv'
  <2>1. main = "load" /\ UNCHANGED <<main, alive>> /\ Lost(i) /\ Kill(i, ran)
    BY <1>5 DEF LoadKill, Loading, mainVars, partVars
  <2>2. \A j \in Worker : j # i => pc'[j] = pc[j]
    BY <1>1, <2>1 DEF Kill, TypeOK
  <2>3. Exact' /\ hurt \subseteq hurt'
    BY <1>1, <2>1, ExactLost DEF Lost
  <2>4. window'[i] = 0 /\ \A q \in Process : q # i => window'[q] = window[q]
    BY <1>1, <2>1, OwnWindow
  <2>. QED BY <1>1, <2>1, <2>2, <2>3, <2>4, LoadExact
<1>. QED BY <1>2, <1>3, <1>4, <1>5 DEF LoadWork

LEMMA RunDirExact ==
  ASSUME StatInv, ExactInv, NEW again \in BOOLEAN, RunDir(again)
  PROVE  /\ Exact' /\ OrphansHurt'
         /\ alive' \subseteq alive
         /\ \A i \in Worker : window[i] = 0 => window'[i] = 0
<1>1. CASE again
  BY <1>1 DEF RunDir, ExactInv, Exact, OrphansHurt, Sum
<1>2. CASE ~again
  <2>1. window' = [p \in Process |-> 0] /\ file' = Zeros /\ done' = Zeros
        /\ alive' = {}
    BY <1>2 DEF RunDir
  <2>2. \A w \in Writer : Sum(w)' = 0 /\ done'[w] = 0
    BY <2>1, WriterTypes DEF Sum, Zeros
  <2>3. \A i \in Worker : window'[i] = 0
    BY <2>1, ProcessSets
  <2>. QED BY <2>1, <2>2, <2>3 DEF Exact, OrphansHurt
<1>. QED BY <1>1, <1>2

LEMMA LoadCommandExact ==
  ASSUME LInv, StatInv, ExactInv, LoadCommandStep
  PROVE  ExactInv'
<1>1. ASSUME NEW all \in BOOLEAN, NEW again \in BOOLEAN, StartLoad(all, again)
      PROVE  ExactInv'
  <2>1. /\ RunDir(again) /\ main' = "load" /\ main \in {"idle", "reported"}
        /\ pc' = [i \in Worker |-> "begin"]
    BY <1>1 DEF StartLoad, AtPrompt, RunLoad
  <2>2. \A i \in Worker : pc'[i] = "begin"
    BY <2>1
  <2>3. LoadWindows' /\ PartsInMixed' /\ ShownSoFar'
    BY <2>1, <2>2, RunDirExact DEF ExactInv, LoadWindows, PartsInMixed, ShownSoFar
  <2>. QED BY <2>1, <2>3, RunDirExact DEF ExactInv
<1>2. ASSUME NEW S \in SUBSET Vertical, SetupFail(S) \/ DropIndexes(S)
      PROVE  ExactInv'
  BY <1>2 DEF SetupFail, DropIndexes, vars, statVars, mainVars, partVars, ExactInv,
     Exact, Sum, LoadWindows, OrphansHurt, PartsInMixed, ShownSoFar
<1>3. CASE LoadEnds
  <2>1. /\ main = "load" /\ main' = "idle"
        /\ \A i \in Worker : pc[i] \in {"off", "done"}
        /\ UNCHANGED <<pc, window, file, done, shown, todo, hurt, alive>>
    BY <1>3 DEF LoadEnds, LoadOver, vars, statVars, partVars
  <2>. QED BY <2>1 DEF ExactInv, Exact, Sum, LoadWindows, OrphansHurt, PartsInMixed,
             ShownSoFar
<1>. QED BY <1>1, <1>2, <1>3, LoadWorkExact DEF LoadCommandStep

\* A process of a mixed run that runs beside a report is an orphan.
LEMMA OnlyOrphans ==
  ASSUME StatInv, ExactInv, NEW p \in alive, main # "mixed"
  PROVE  FileOf(p) \in hurt
<1>1. p \in Process /\ p \notin Worker /\ p \notin Part
  BY DEF StatInv, StatTypes, ExactInv, PartsInMixed
<1>2. p \notin Writer
  BY <1>1 DEF Writer
<1>. QED BY <1>1, <1>2, ProcessTypes DEF ExactInv, OrphansHurt

LEMMA PartExact ==
  ASSUME StatInv, ExactInv, NEW p \in alive, UNCHANGED <<main, pc, shown, todo>>,
         (\E n \in Nat : Record(p, n)) \/ Close(p) \/ Lost(p),
         alive' \subseteq alive
  PROVE  ExactInv'
<1>1. StatTypes /\ p \in Process \ Worker /\ Exact
  BY DEF StatInv, StatTypes, ExactInv
<1>2. Exact'
  BY <1>1, ExactRecord, ExactClose, ExactLost
<1>3. \A i \in Worker : window'[i] = window[i]
  BY <1>1, OwnWindow, ProcessSets
<1>4. hurt \subseteq hurt'
      /\ \A w \in Writer : w # FileOf(p) => done'[w] = done[w]
  BY <1>1, ProcessTypes DEF Record, Close, Lost, StatTypes
<1>5. LoadWindows' /\ OrphansHurt' /\ PartsInMixed'
  BY <1>3, <1>4 DEF ExactInv, LoadWindows, OrphansHurt, PartsInMixed
<1>6. ShownSoFar'
  <2> SUFFICES ASSUME main \in {"report", "reported"}, NEW w \in Writer \ hurt',
                      w \notin todo \/ main = "reported"
               PROVE  shown[w] = done'[w]
    BY DEF ShownSoFar
  <2>1. w \notin hurt /\ w # FileOf(p)
    BY <1>4, OnlyOrphans
  <2>. QED BY <1>4, <2>1 DEF ExactInv, ShownSoFar
<1>. QED BY <1>2, <1>5, <1>6 DEF ExactInv

\* What a writer has recorded is in its file when a report reads it.
LEMMA ReadAll ==
  ASSUME StatInv, ExactInv, main = "report", NEW w \in Writer \ hurt
  PROVE  file[w] = done[w]
<1>1. Sum(w) = done[w] /\ file[w] \in Nat /\ w \in Process
  BY WriterTypes DEF ExactInv, Exact, StatInv, StatTypes
<1>2. CASE w \in Part
  <2>1. w \notin alive /\ OrphanOf(w) \notin alive
    BY <1>2 DEF ExactInv, PartsInMixed, OrphansHurt
  <2>2. window[w] = 0 /\ window[OrphanOf(w)] = 0
    BY <1>1, <1>2, <2>1, WriterTypes, ProcessSets DEF StatInv, ClosedWindows, Writer
  <2>. QED BY <1>1, <1>2, <2>2 DEF Sum
<1>3. CASE w \notin Part
  <2>1. window[w] = 0
    BY <1>3, WriterTypes DEF ExactInv, LoadWindows
  <2>. QED BY <1>1, <1>3, <2>1 DEF Sum
<1>. QED BY <1>2, <1>3

LEMMA InterruptExact ==
  ASSUME StatInv, ExactInv, NEW S \in SUBSET (alive \cap Part), Interrupt(S)
  PROVE  ExactInv'
<1>1. /\ main' = "report" /\ UNCHANGED <<file, done, pc>> /\ todo' = Writer
      /\ alive' = (alive \ Part) \cup {OrphanOf(p) : p \in S}
      /\ hurt' = hurt \cup (alive \cap Part) /\ main = "mixed"
      /\ window' = [p \in Process |->
                      IF p \in Part THEN 0
                      ELSE IF FileOf(p) \in S /\ p \notin Writer
                      THEN window[FileOf(p)] ELSE window[p]]
  BY DEF Interrupt, ReportStarts, vars
<1>2. Part \subseteq Writer /\ Worker \subseteq Writer
  BY DEF Writer
<1>3. ASSUME NEW w \in Writer \ hurt' PROVE Sum(w)' = done'[w]
  <2>1. Sum(w) = done[w] /\ w \in Process /\ w \notin S
    BY <1>1, WriterTypes DEF ExactInv, Exact
  <2>2. CASE w \in Part
    <3>1. /\ window[w] = 0 /\ window'[w] = 0
          /\ OrphanOf(w) \in Process \ Writer /\ FileOf(OrphanOf(w)) = w
      BY <1>1, <2>1, <2>2, WriterTypes, ProcessSets DEF StatInv, ClosedWindows
    <3>2. window'[OrphanOf(w)] = window[OrphanOf(w)]
      BY <1>1, <1>2, <2>1, <3>1
    <3>. QED BY <1>1, <2>1, <2>2, <3>1, <3>2 DEF Sum
  <2>3. CASE w \notin Part
    <3>1. window'[w] = window[w]
      BY <1>1, <2>1, <2>3
    <3>. QED BY <1>1, <2>1, <2>3, <3>1 DEF Sum
  <2>. QED BY <2>2, <2>3
<1>4. LoadWindows'
  <2>1. \A i \in Worker : window'[i] = window[i]
    BY <1>1, <1>2, ProcessSets
  <2>. QED BY <1>1, <2>1 DEF ExactInv, LoadWindows
<1>5. OrphansHurt'
  <2> SUFFICES ASSUME NEW w \in Part, OrphanOf(w) \in alive' PROVE w \in hurt'
    BY DEF OrphansHurt
  <2>1. CASE OrphanOf(w) \in alive
    BY <1>1, <2>1 DEF ExactInv, OrphansHurt
  <2>2. CASE OrphanOf(w) \notin alive
    <3>1. PICK p \in S : OrphanOf(w) = OrphanOf(p)
      BY <1>1, <2>2
    <3>2. w = p
      BY <1>2, <3>1, WriterTypes
    <3>. QED BY <1>1, <3>2
  <2>. QED BY <2>1, <2>2
<1>6. PartsInMixed'
  <2>1. \A p \in S : OrphanOf(p) \notin Part
    BY <1>2, WriterTypes
  <2>. QED BY <1>1, <2>1 DEF PartsInMixed
<1>7. ShownSoFar'
  BY <1>1 DEF ShownSoFar
<1>. QED BY <1>3, <1>4, <1>5, <1>6, <1>7 DEF ExactInv, Exact

LEMMA MixedExact ==
  ASSUME StatInv, ExactInv, MixedStep
  PROVE  ExactInv'
<1>1. ASSUME NEW again \in BOOLEAN, StartMixed(again) PROVE ExactInv'
  <2>1. main \in {"idle", "reported"} /\ main' = "mixed" /\ UNCHANGED pc
    BY <1>1 DEF StartMixed, AtPrompt, vars
  <2>2. \A i \in Worker : window[i] = 0
    BY <2>1 DEF ExactInv, LoadWindows
  <2>3. CASE again
    <3>1. UNCHANGED <<window, file, done, hurt>> /\ alive' = alive \cup Part
      BY <1>1, <2>3 DEF StartMixed, statVars
    <3>2. \A w \in Part : OrphanOf(w) \notin Part
      BY WriterTypes DEF Writer
    <3>. QED BY <2>1, <2>2, <3>1, <3>2 DEF ExactInv, Exact, Sum, LoadWindows,
               OrphansHurt, PartsInMixed, ShownSoFar
  <2>4. CASE ~again
    <3>1. window' = [p \in Process |-> 0] /\ file' = Zeros /\ done' = Zeros
          /\ alive' = Part
      BY <1>1, <2>4 DEF StartMixed
    <3>2. \A w \in Part : OrphanOf(w) \notin Part
      BY WriterTypes DEF Writer
    <3>3. \A w \in Writer : Sum(w)' = 0 /\ done'[w] = 0
      BY <3>1, WriterTypes DEF Sum, Zeros
    <3>4. \A i \in Worker : window'[i] = 0
      BY <3>1, ProcessSets
    <3>. QED BY <2>1, <3>1, <3>2, <3>3, <3>4 DEF ExactInv, Exact, LoadWindows,
               OrphansHurt, PartsInMixed, ShownSoFar
  <2>. QED BY <2>3, <2>4
<1>2. CASE GoOnMixed
  <2>1. /\ main = "load" /\ main' = "mixed" /\ alive' = alive \cup Part
        /\ \A i \in Worker : pc[i] \in {"off", "done"}
        /\ UNCHANGED <<pc, window, file, done, hurt>>
    BY <1>2 DEF GoOnMixed, LoadOver, vars, statVars
  <2>2. \A w \in Part : OrphanOf(w) \notin Part
    BY WriterTypes DEF Writer
  <2>3. \A i \in Worker : window[i] = 0
    BY <2>1 DEF ExactInv, LoadWindows
  <2>. QED BY <2>1, <2>2, <2>3 DEF ExactInv, Exact, Sum, LoadWindows, OrphansHurt,
             PartsInMixed, ShownSoFar
<1>3. ASSUME NEW p \in Process, Operate(p) \/ PartEnds(p) \/ PartDies(p)
      PROVE  ExactInv'
  <2>1. /\ p \in alive /\ alive' \subseteq alive /\ UNCHANGED <<main, pc>>
        /\ Record(p, 1) \/ Close(p) \/ Lost(p)
    BY <1>3 DEF Operate, PartEnds, PartDies, mainVars, partVars, vars
  <2>2. UNCHANGED <<shown, todo>>
    BY <2>1 DEF Record, Close, Lost
  <2>. QED BY <2>1, <2>2, PartExact
<1>4. CASE Join \/ ReportCommand
  <2>1. /\ main' = "report" /\ todo' = Writer /\ alive \cap Part = {}
        /\ main \in {"mixed", "idle"}
        /\ UNCHANGED <<alive, window, file, done, hurt, pc>>
    BY <1>4 DEF Join, ReportCommand, ReportStarts, partVars, vars, ExactInv,
       PartsInMixed
  <2>2. \A i \in Worker : window[i] = 0
    BY <2>1 DEF ExactInv, LoadWindows
  <2>. QED BY <2>1, <2>2 DEF ExactInv, Exact, Sum, LoadWindows, OrphansHurt,
             PartsInMixed, ShownSoFar
<1>5. ASSUME NEW w \in Writer, ReadFile(w) PROVE ExactInv'
  <2>1. /\ main = "report" /\ shown' = [shown EXCEPT ![w] = file[w]]
        /\ todo' = todo \ {w}
        /\ UNCHANGED <<main, alive, window, file, done, hurt, pc>>
    BY <1>5 DEF ReadFile, mainVars, partVars, vars
  <2>2. ShownSoFar'
    <3> SUFFICES ASSUME NEW v \in Writer \ hurt, v \notin todo \/ v = w
                 PROVE  shown'[v] = done[v]
      BY <2>1 DEF ShownSoFar
    <3>1. CASE v = w
      BY <2>1, <3>1, ReadAll DEF StatInv, StatTypes
    <3>2. CASE v # w
      BY <2>1, <3>2 DEF ExactInv, ShownSoFar, StatInv, StatTypes
    <3>. QED BY <3>1, <3>2
  <2>. QED BY <2>1, <2>2 DEF ExactInv, Exact, Sum, LoadWindows, OrphansHurt,
             PartsInMixed
<1>6. CASE ReportEnds
  <2>1. /\ main = "report" /\ main' = "reported" /\ todo = {}
        /\ UNCHANGED <<alive, window, file, done, shown, todo, hurt, pc>>
    BY <1>6 DEF ReportEnds, statVars, partVars, vars
  <2>. QED BY <2>1 DEF ExactInv, Exact, Sum, LoadWindows, OrphansHurt, PartsInMixed,
             ShownSoFar
<1>. QED BY <1>1, <1>2, <1>3, <1>4, <1>5, <1>6, InterruptExact DEF MixedStep

LEMMA NextExact ==
  LInv /\ StatInv /\ ExactInv /\ [RunNext]_runVars => ExactInv'
<1>1. ExactInv /\ UNCHANGED runVars => ExactInv'
  BY DEF runVars, vars, statVars, mainVars, partVars, ExactInv, Exact, Sum,
     LoadWindows, OrphansHurt, PartsInMixed, ShownSoFar
<1>. QED BY <1>1, LoadCommandExact, MixedExact DEF RunNext

LEMMA InitExact == RunInit => ExactInv
<1> SUFFICES ASSUME RunInit PROVE ExactInv
  OBVIOUS
<1>1. \A w \in Writer : Sum(w) = 0 /\ done[w] = 0
  BY WriterTypes DEF RunInit, Sum, Zeros
<1>2. /\ \A i \in Worker : window[i] = 0
      /\ alive = {} /\ main = "idle"
  BY ProcessSets DEF RunInit
<1>. QED BY <1>1, <1>2 DEF ExactInv, Exact, LoadWindows, OrphansHurt, PartsInMixed,
           ShownSoFar

(* ReportIsExact: for every number of workers and parts, the report that   *)
(* ends a run counts once each operation recorded by a worker that neither *)
(* died nor was cut off (close() before the joins, report after them).     *)
THEOREM ReportIsExact == RunSpec => []ReportExact
<1>1. ExactInv => ReportExact
  BY DEF ExactInv, ShownSoFar, ReportExact
<1>. QED BY <1>1, InitExact, NextExact, AlwaysStats, PTL DEF RunSpec

(* ReportsAreTrue: no report shows more than was recorded, and the one     *)
(* that ends a run shows all of it, but for workers that died or were cut  *)
(* off (flush, close, report).                                             *)
THEOREM ReportsAreTrue == RunSpec => []ReportTrue
BY ReportNeverOverstates, ReportIsExact, PTL DEF ReportTrue

-----------------------------------------------------------------------------
(* Loaded documents are in their indexes.                                  *)

IndexInv ==
  /\ main = "load" => indexes = Vertical
  /\ SearchableUnlessDropped

LEMMA HasVertical == \A d \in Doc : VerticalOf(d) \in Vertical
BY LoadAssumption, RunAssumption DEF LoadAssumption, RunAssumption, Doc, VerticalOf,
   Vertical

LEMMA WriteIndexed ==
  ASSUME IndexInv, NEW D \in SUBSET Doc, IndexWrite(D), stored' = stored \cup D,
         main = "load", UNCHANGED main
  PROVE  IndexInv'
BY HasVertical DEF IndexInv, IndexWrite, SearchableUnlessDropped

LEMMA LoadIndexes ==
  ASSUME LInv, IndexInv, NEW i \in Worker,
         \/ LoadWork(i)
         \/ \E ran \in SUBSET Doc : LoadKill(i, ran)
  PROVE  IndexInv'
<1>1. pc[i] = "sent" => InFlight(i) \in SUBSET Doc
  <2>1. TypeOK /\ (pc[i] = "sent" => First(i) <= docId[i] /\ docId[i] <= First(i + 1))
    BY DEF LInv, WInv, Below
  <2>. QED BY <2>1, BatchBounds, LoadTypes
<1>2. CASE LoadOther(i)
  BY <1>2 DEF LoadOther, Loading, mainVars, fleetVars, Begin, Send, CkptOpen,
     CkptWrite, IndexInv, SearchableUnlessDropped
<1>3. CASE LoadExecute(i)
  BY <1>1, <1>3, WriteIndexed DEF LoadExecute, Loading, mainVars, Execute
<1>4. ASSUME NEW ran \in SUBSET InFlight(i), LoadExecuteFail(i, ran)
      PROVE  IndexInv'
  <2>1. ran \in SUBSET Doc
    BY <1>1, <1>4 DEF LoadExecuteFail, ExecuteFail
  <2>. QED BY <1>4, <2>1, WriteIndexed DEF LoadExecuteFail, Loading, mainVars,
             ExecuteFail
<1>5. CASE LoadFinish(i)
  BY <1>5 DEF LoadFinish, Loading, mainVars, fleetVars, Finish, IndexInv,
     SearchableUnlessDropped
<1>6. ASSUME NEW ran \in SUBSET Doc, LoadKill(i, ran) PROVE IndexInv'
  BY <1>6, WriteIndexed DEF LoadKill, Loading, mainVars, Kill
<1>. QED BY <1>2, <1>3, <1>4, <1>5, <1>6 DEF LoadWork

LEMMA LoadCommandIndexes ==
  ASSUME LInv, IndexInv, LoadCommandStep
  PROVE  IndexInv'
<1>1. ASSUME NEW all \in BOOLEAN, NEW again \in BOOLEAN, StartLoad(all, again)
      PROVE  IndexInv'
  BY <1>1 DEF StartLoad, CreateIndexes, RunLoad, IndexInv, SearchableUnlessDropped,
     Vertical
<1>2. ASSUME NEW S \in SUBSET Vertical, SetupFail(S) \/ DropIndexes(S)
      PROVE  IndexInv'
  BY <1>2 DEF SetupFail, DropIndexes, AtPrompt, vars, mainVars, IndexInv,
     SearchableUnlessDropped
<1>3. CASE LoadEnds
  BY <1>3 DEF LoadEnds, vars, fleetVars, IndexInv, SearchableUnlessDropped
<1>. QED BY <1>1, <1>2, <1>3, LoadIndexes DEF LoadCommandStep

LEMMA MixedIndexes ==
  ASSUME IndexInv, MixedStep
  PROVE  IndexInv'
<1>1. UNCHANGED <<stored, indexes, indexed, dropped>>
  <2>1. ASSUME NEW again \in BOOLEAN, StartMixed(again)
        PROVE  UNCHANGED fleetVars
    BY <2>1 DEF StartMixed
  <2>2. ASSUME NEW p \in Process, Operate(p) \/ PartEnds(p) \/ PartDies(p)
        PROVE  UNCHANGED fleetVars
    BY <2>2 DEF Operate, PartEnds, PartDies
  <2>3. ASSUME NEW S \in SUBSET (alive \cap Part), Interrupt(S)
        PROVE  UNCHANGED fleetVars
    BY <2>3 DEF Interrupt
  <2>4. ASSUME NEW w \in Writer, ReadFile(w) PROVE UNCHANGED fleetVars
    BY <2>4 DEF ReadFile
  <2>5. GoOnMixed \/ Join \/ ReportCommand \/ ReportEnds => UNCHANGED fleetVars
    BY DEF GoOnMixed, Join, ReportCommand, ReportEnds
  <2>6. UNCHANGED fleetVars
    BY <2>1, <2>2, <2>3, <2>4, <2>5 DEF MixedStep
  <2>. QED BY <2>6, MixedLeavesLoader DEF fleetVars, vars
<1>2. main' = "load" => main = "load"
  <2>1. ASSUME NEW again \in BOOLEAN, StartMixed(again) PROVE main' # "load"
    BY <2>1 DEF StartMixed
  <2>2. ASSUME NEW p \in Process, Operate(p) \/ PartEnds(p) \/ PartDies(p)
        PROVE  main' = main
    BY <2>2 DEF Operate, PartEnds, PartDies, mainVars
  <2>3. ASSUME NEW S \in SUBSET (alive \cap Part), Interrupt(S)
        PROVE  main' # "load"
    BY <2>3 DEF Interrupt, ReportStarts
  <2>4. ASSUME NEW w \in Writer, ReadFile(w) PROVE main' = main
    BY <2>4 DEF ReadFile, mainVars
  <2>5. GoOnMixed \/ Join \/ ReportCommand \/ ReportEnds => main' # "load"
    BY DEF GoOnMixed, Join, ReportCommand, ReportEnds, ReportStarts
  <2>. QED BY <2>1, <2>2, <2>3, <2>4, <2>5 DEF MixedStep
<1>. QED BY <1>1, <1>2 DEF IndexInv, SearchableUnlessDropped, Vertical

(* LoadedIsSearchable: for every number of documents, workers and indexes, *)
(* what the loader has stored is in its index, unless indexes were dropped *)
(* after it (create_indexes before run_load).                              *)
THEOREM LoadedIsSearchable == RunSpec => []SearchableUnlessDropped
<1>1. RunInit => IndexInv
  BY DEF RunInit, Init, IndexInv, SearchableUnlessDropped
<1>2. LInv /\ IndexInv /\ [RunNext]_runVars => IndexInv'
  <2>1. IndexInv /\ UNCHANGED runVars => IndexInv'
    BY DEF runVars, vars, fleetVars, mainVars, IndexInv, SearchableUnlessDropped,
       Vertical
  <2>. QED BY <2>1, LoadCommandIndexes, MixedIndexes DEF RunNext
<1>3. IndexInv => SearchableUnlessDropped
  BY DEF IndexInv
<1>. QED BY <1>1, <1>2, <1>3, AlwaysStats, PTL DEF RunSpec

-----------------------------------------------------------------------------
(* The types of the rest of the state.                                     *)

RestTypes ==
  /\ main \in {"idle", "load", "mixed", "report", "reported"}
  /\ fromAll \in BOOLEAN /\ runs \in 0 .. MaxRuns
  /\ indexes \subseteq Vertical /\ indexed \subseteq Doc /\ dropped \in BOOLEAN
  /\ deaths \in Nat /\ hurt \subseteq Writer

LEMMA LoadWorkTypes ==
  ASSUME RestTypes, TypeOK', NEW i \in Worker,
         \/ LoadWork(i)
         \/ \E ran \in SUBSET Doc : LoadKill(i, ran)
  PROVE  RestTypes'
<1>1. i \in Process /\ FileOf(i) \in Writer
  BY ProcessSets, ProcessTypes
<1>2. UNCHANGED <<main, fromAll, runs, deaths>>
  BY DEF LoadWork, LoadOther, LoadExecute, LoadExecuteFail, LoadFinish, LoadKill,
     Loading, mainVars, partVars
<1>3. stored' \subseteq Doc
  BY DEF TypeOK
<1>4. ASSUME NEW D, stored' = stored \cup D, IndexWrite(D)
      PROVE  indexes' = indexes /\ indexed' \subseteq Doc /\ dropped' = dropped
  BY <1>3, <1>4 DEF IndexWrite, RestTypes
<1>5. CASE LoadOther(i)
  BY <1>2, <1>5 DEF RestTypes, LoadOther, fleetVars, statVars
<1>6. CASE LoadExecute(i)
  <2>1. stored' = stored \cup InFlight(i) /\ IndexWrite(InFlight(i)) /\ hurt' = hurt
    BY <1>6 DEF LoadExecute, Execute, Record
  <2>. QED BY <1>2, <1>4, <2>1 DEF RestTypes
<1>7. ASSUME NEW ran, LoadExecuteFail(i, ran) PROVE RestTypes'
  <2>1. stored' = stored \cup ran /\ IndexWrite(ran) /\ hurt' = hurt
    BY <1>7 DEF LoadExecuteFail, ExecuteFail, Record
  <2>. QED BY <1>2, <1>4, <2>1 DEF RestTypes
<1>8. CASE LoadFinish(i)
  <2>1. UNCHANGED <<indexes, indexed, dropped, hurt>>
    BY <1>8 DEF LoadFinish, Close, fleetVars
  <2>. QED BY <1>2, <2>1 DEF RestTypes
<1>9. ASSUME NEW ran \in SUBSET Doc, LoadKill(i, ran) PROVE RestTypes'
  <2>1. stored' = stored \cup ran /\ IndexWrite(ran) /\ hurt' = hurt \cup {FileOf(i)}
    BY <1>9 DEF LoadKill, Kill, Lost
  <2>. QED BY <1>1, <1>2, <1>4, <2>1 DEF RestTypes
<1>. QED BY <1>5, <1>6, <1>7, <1>8, <1>9 DEF LoadWork

LEMMA LoadCommandTypes ==
  ASSUME RestTypes, TypeOK', LoadCommandStep
  PROVE  RestTypes'
<1>1. ASSUME NEW all \in BOOLEAN, NEW again \in BOOLEAN, StartLoad(all, again)
      PROVE  RestTypes'
  <2>1. hurt' \subseteq Writer
    BY <1>1 DEF StartLoad, RunDir, RestTypes
  <2>2. runs' \in 0 .. MaxRuns
    BY <1>1, RunAssumption DEF StartLoad, RestTypes, RunAssumption
  <2>3. /\ main' = "load" /\ fromAll' = all /\ indexes' = Vertical
        /\ UNCHANGED <<indexed, dropped, deaths>>
    BY <1>1 DEF StartLoad, CreateIndexes
  <2>. QED BY <2>1, <2>2, <2>3 DEF RestTypes, Vertical
<1>2. ASSUME NEW S \in SUBSET Vertical, SetupFail(S) PROVE RestTypes'
  BY <1>2 DEF SetupFail, RestTypes, statVars, mainVars, partVars, Vertical
<1>3. ASSUME NEW S \in SUBSET Vertical, DropIndexes(S) PROVE RestTypes'
  BY <1>3 DEF DropIndexes, RestTypes, statVars, mainVars, partVars, Vertical
<1>4. CASE LoadEnds
  BY <1>4 DEF LoadEnds, RestTypes, fleetVars, statVars, partVars, Vertical
<1>. QED BY <1>1, <1>2, <1>3, <1>4, LoadWorkTypes DEF LoadCommandStep

LEMMA MixedTypes ==
  ASSUME RestTypes, StatTypes, MixedStep
  PROVE  RestTypes'
<1>1. ASSUME NEW again \in BOOLEAN, StartMixed(again) PROVE RestTypes'
  <2>1. hurt' \subseteq Writer
    BY <1>1 DEF StartMixed, RestTypes, statVars
  <2>2. runs' \in 0 .. MaxRuns
    BY <1>1, RunAssumption DEF StartMixed, RestTypes, RunAssumption
  <2>3. /\ main' = "mixed" /\ fromAll' = FALSE
        /\ UNCHANGED <<indexes, indexed, dropped, deaths>>
    BY <1>1 DEF StartMixed, fleetVars
  <2>. QED BY <2>1, <2>2, <2>3 DEF RestTypes, Vertical
<1>2. CASE GoOnMixed
  BY <1>2 DEF GoOnMixed, RestTypes, fleetVars, statVars, Vertical
<1>3. ASSUME NEW p \in Process, Operate(p) \/ PartEnds(p) \/ PartDies(p)
      PROVE  RestTypes'
  <2>1. hurt' \subseteq Writer
    BY <1>3, ProcessTypes DEF Operate, PartEnds, PartDies, Record, Close, Lost, RestTypes
  <2>2. deaths' \in Nat
    BY <1>3 DEF Operate, PartEnds, PartDies, partVars, RestTypes
  <2>3. UNCHANGED <<main, fromAll, runs, indexes, indexed, dropped>>
    BY <1>3 DEF Operate, PartEnds, PartDies, fleetVars, mainVars
  <2>. QED BY <2>1, <2>2, <2>3 DEF RestTypes, Vertical
<1>4. CASE Join \/ ReportCommand
  BY <1>4 DEF Join, ReportCommand, ReportStarts, RestTypes, fleetVars, partVars,
     Vertical
<1>5. ASSUME NEW S \in SUBSET (alive \cap Part), Interrupt(S) PROVE RestTypes'
  <2>1. hurt' \subseteq Writer
    BY <1>5 DEF Interrupt, RestTypes, Writer
  <2>2. deaths' \in Nat /\ main' = "report"
    BY <1>5 DEF Interrupt, ReportStarts, RestTypes
  <2>3. UNCHANGED <<fromAll, runs, indexes, indexed, dropped>>
    BY <1>5 DEF Interrupt, fleetVars
  <2>. QED BY <2>1, <2>2, <2>3 DEF RestTypes, Vertical
<1>6. ASSUME NEW w \in Writer, ReadFile(w) PROVE RestTypes'
  BY <1>6 DEF ReadFile, RestTypes, fleetVars, mainVars, partVars, Vertical
<1>7. CASE ReportEnds
  BY <1>7 DEF ReportEnds, RestTypes, fleetVars, statVars, partVars, Vertical
<1>. QED BY <1>1, <1>2, <1>3, <1>4, <1>5, <1>6, <1>7 DEF MixedStep

(* RunTypeCorrect: every state of a run has the declared types, those of   *)
(* the loader included.                                                    *)
THEOREM RunTypeCorrect == RunSpec => []RunTypeOK
<1>1. RunInit => RestTypes
  <2> SUFFICES ASSUME RunInit PROVE RestTypes
    OBVIOUS
  <2>1. runs \in 0 .. MaxRuns /\ deaths \in Nat
    BY RunAssumption DEF RunInit, RunAssumption
  <2>2. fromAll \in BOOLEAN /\ dropped \in BOOLEAN
    BY Zenon DEF RunInit
  <2>3. main \in {"idle", "load", "mixed", "report", "reported"}
    BY DEF RunInit
  <2>4. indexes = {} /\ indexed = {} /\ hurt = {}
    BY DEF RunInit
  <2>. QED BY <2>1, <2>2, <2>3, <2>4, Zenon DEF RestTypes
<1>2. RestTypes /\ StatTypes /\ TypeOK' /\ [RunNext]_runVars => RestTypes'
  <2>1. RestTypes /\ UNCHANGED runVars => RestTypes'
    BY DEF RestTypes, runVars, fleetVars, statVars, mainVars, partVars, Vertical
  <2>. QED BY <2>1, LoadCommandTypes, MixedTypes DEF RunNext
<1>3. RestTypes /\ StatTypes /\ TypeOK => RunTypeOK
  BY DEF RestTypes, StatTypes, RunTypeOK
<1>4. LInv /\ StatInv => TypeOK /\ StatTypes
  BY DEF LInv, StatInv
<1>. QED BY <1>1, <1>2, <1>3, <1>4, AlwaysStats, PTL DEF RunSpec
=============================================================================
