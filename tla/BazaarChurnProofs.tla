-------------------------- MODULE BazaarChurnProofs --------------------------
(***************************************************************************)
(* For any number of documents and workers, and however often workers      *)
(* fail, stop or are killed: the stripes of two workers do not meet, and   *)
(* an id that a checkpoint has counted is not inserted again, unless its   *)
(* worker was killed while it wrote the file.                              *)
(***************************************************************************)
EXTENDS BazaarChurn, TLAPS

-----------------------------------------------------------------------------
(* The inductive invariant.                                                *)

Numbers == 0 .. MaxK - 1

\* Until its checkpoint is written, the worker is busy with its last number.
At(w) ==
  pc[w] \in {"insert", "opening", "writing"} =>
    k[w] - 1 \in Numbers /\ docId[w] = OwnId(w, k[w] - 1)

\* What was counted lies below the file, while there is one, and below k.
Counted(w) ==
  w \notin torn =>
    \A n \in Numbers : OwnId(w, n) \in acked =>
      /\ pc[w] # "writing" => n < ReadCkpt(w)
      /\ pc[w] # "off" => n < k[w]
      /\ pc[w] \in {"insert", "opening", "writing"} => n < k[w] - 1

Fresh == \A d \in Base : inserts[d] = 0

CInv ==
  /\ TypeOK /\ Fresh
  /\ \A w \in Worker : At(w) /\ Counted(w)

AckedStep ==
  \A w \in Worker \ torn : \A n \in 0 .. MaxK - 1 :
    OwnId(w, n) \in acked => inserts'[OwnId(w, n)] = inserts[OwnId(w, n)]

-----------------------------------------------------------------------------
(* The stripes.                                                            *)

LEMMA ChurnFacts ==
  /\ TotalDocs \in Nat /\ TotalDocs > 0 /\ Workers \in Nat /\ Workers > 0
  /\ NoCkpt \notin Nat /\ MaxK \in Nat
  /\ \A w \in Worker : w \in Nat /\ w < Workers
  /\ \A n \in Numbers : n \in Nat /\ n < MaxK /\ n + 1 <= MaxK
  /\ Gone = -1
BY ChurnAssumption DEF ChurnAssumption, Worker, Numbers, Gone

LEMMA LoadedIds == Base \subseteq Id
<1>1. MaxK * Workers \in Nat
  BY ChurnFacts
<1>. QED BY <1>1, ChurnFacts DEF Base, Id

LEMMA Stride ==
  ASSUME NEW m \in Nat, NEW n \in Nat, m < n
  PROVE  m * Workers + Workers <= n * Workers
<1>1. PICK c \in Nat : n = m + 1 + c
  <2>1. n - m - 1 \in Nat /\ n = m + 1 + (n - m - 1)
    OBVIOUS
  <2>. QED BY <2>1
<1>2. Workers \in Nat
  BY ChurnFacts
<1>3. n * Workers = m * Workers + Workers + c * Workers
  BY <1>1, <1>2
<1>4. c * Workers >= 0
  BY <1>1, <1>2
<1>5. m * Workers \in Nat /\ n * Workers \in Nat /\ c * Workers \in Nat
  BY <1>1, <1>2
<1>. QED BY <1>2, <1>3, <1>4, <1>5

LEMMA OwnIdInStripe ==
  ASSUME NEW w \in Worker, NEW n \in Numbers
  PROVE  OwnId(w, n) \in Id \ Base
<1>1. n * Workers + Workers <= MaxK * Workers
  BY Stride, ChurnFacts
<1>2. n * Workers \in Nat /\ MaxK * Workers \in Nat
  BY ChurnFacts
<1>3. /\ w \in Nat /\ w < Workers /\ Workers \in Nat /\ TotalDocs \in Nat
  BY ChurnFacts
<1>. DEFINE a == n * Workers  b == MaxK * Workers
<1>4. OwnId(w, n) = TotalDocs + w + a /\ Id = 0 .. TotalDocs + b - 1
  BY DEF OwnId, Id
<1>5. a \in Nat /\ b \in Nat /\ a + Workers <= b
  BY <1>1, <1>2
<1>. HIDE DEF a, b
<1>. QED BY <1>3, <1>4, <1>5 DEF Base

LEMMA StripesDisjoint ==
  ASSUME NEW v \in Worker, NEW w \in Worker, NEW m \in Numbers, NEW n \in Numbers,
         OwnId(v, m) = OwnId(w, n)
  PROVE  v = w /\ m = n
<1>. DEFINE a == m * Workers  b == n * Workers
<1>1. /\ v \in Nat /\ v < Workers /\ w \in Nat /\ w < Workers /\ Workers \in Nat
      /\ TotalDocs \in Nat /\ m \in Nat /\ n \in Nat
  BY ChurnFacts
<1>2. a \in Nat /\ b \in Nat
  BY <1>1
<1>3. TotalDocs + v + a = TotalDocs + w + b
  BY DEF OwnId
<1>4. m < n => a + Workers <= b
  BY <1>1, Stride
<1>5. n < m => b + Workers <= a
  BY <1>1, Stride
<1>6. m = n => a = b
  OBVIOUS
<1>. HIDE DEF a, b
<1>7. ~(m < n) /\ ~(n < m)
  BY <1>1, <1>2, <1>3, <1>4, <1>5
<1>. QED BY <1>1, <1>2, <1>3, <1>6, <1>7

LEMMA OwnIsStripe ==
  ASSUME TypeOK, NEW w \in Worker
  PROVE  /\ Own(w) \subseteq Id \ Base
         /\ \A v \in Worker, n \in Numbers : OwnId(v, n) \in Own(w) => v = w /\ n < k[w]
<1>1. k[w] \in 0 .. MaxK /\ MaxK \in Nat
  BY ChurnFacts DEF TypeOK
<1>2. \A x \in Own(w) : \E n \in Numbers : n < k[w] /\ x = OwnId(w, n)
  BY <1>1 DEF Own, Numbers
<1>. QED BY <1>2, OwnIdInStripe, StripesDisjoint

-----------------------------------------------------------------------------
(* A step of one worker.                                                   *)

LEMMA WorkerStep ==
  ASSUME CInv, NEW w \in Worker, TypeOK', At(w)', Counted(w)',
         \A v \in Worker \ {w} : /\ pc'[v] = pc[v] /\ k'[v] = k[v]
                                 /\ docId'[v] = docId[v] /\ ckpt'[v] = ckpt[v],
         torn \subseteq torn', torn' \subseteq torn \cup {w},
         acked' \subseteq acked \cup Own(w),
         \A d \in Id : inserts'[d] # inserts[d] => pc[w] = "insert" /\ d = docId[w]
  PROVE  CInv' /\ AckedStep
<1>1. TypeOK /\ At(w) /\ Counted(w)
  BY DEF CInv
<1>2. pc[w] = "insert" => k[w] - 1 \in Numbers /\ docId[w] = OwnId(w, k[w] - 1)
  BY <1>1 DEF At
<1>3. Fresh'
  <2>1. \A d \in Base : d \in Id
    BY LoadedIds
  <2>2. pc[w] = "insert" => docId[w] \notin Base
    BY <1>2, OwnIdInStripe
  <2>. QED BY <2>1, <2>2 DEF CInv, Fresh
<1>4. ASSUME NEW v \in Worker \ {w}
      PROVE  At(v)' /\ Counted(v)'
  <2>1. At(v) /\ Counted(v)
    BY DEF CInv
  <2>2. \A n \in Numbers : OwnId(v, n) \in acked' => OwnId(v, n) \in acked
    BY <1>1, OwnIsStripe
  <2>3. v \in torn' <=> v \in torn
    OBVIOUS
  <2>4. At(v)'
    BY <2>1 DEF At
  <2>5. Counted(v)'
    BY <2>1, <2>2, <2>3 DEF Counted, ReadCkpt
  <2>. QED BY <2>4, <2>5
<1>5. AckedStep
  <2>. SUFFICES ASSUME NEW v \in Worker \ torn, NEW n \in Numbers,
                       OwnId(v, n) \in acked,
                       inserts'[OwnId(v, n)] # inserts[OwnId(v, n)]
                PROVE  FALSE
    BY DEF AckedStep, Numbers
  <2>1. pc[w] = "insert" /\ OwnId(v, n) = OwnId(w, k[w] - 1) /\ k[w] - 1 \in Numbers
    BY <1>2, OwnIdInStripe
  <2>2. v = w /\ n = k[w] - 1
    BY <2>1, StripesDisjoint
  <2>3. n < k[w] - 1
    BY <1>1, <2>1, <2>2 DEF Counted
  <2>. QED BY <2>2, <2>3, ChurnFacts
<1>. QED BY <1>3, <1>4, <1>5 DEF CInv

\* The step of a worker inserts nothing, and counts nothing.
LEMMA PlainStep ==
  ASSUME CInv, NEW w \in Worker, TypeOK', At(w)', Counted(w)',
         \A v \in Worker \ {w} : /\ pc'[v] = pc[v] /\ k'[v] = k[v]
                                 /\ docId'[v] = docId[v] /\ ckpt'[v] = ckpt[v],
         UNCHANGED <<torn, acked, inserts>>
  PROVE  CInv' /\ AckedStep
BY WorkerStep

LEMMA InsertRuns ==
  ASSUME TypeOK, NEW d \in Id \ Base, NEW some, NEW withTtl,
         RunInsert(d, some, withTtl)
  PROVE  /\ ver' \in [Id -> Nat \cup {Gone}]
         /\ ttl' \subseteq {x \in Id \ Base : ver'[x] # Gone}
         /\ inserts' \in [Id -> Nat]
         /\ \A x \in Id : inserts'[x] # inserts[x] => x = d
<1>1. /\ ver \in [Id -> Nat \cup {Gone}] /\ inserts \in [Id -> Nat]
      /\ ttl \subseteq {x \in Id \ Base : ver[x] # Gone}
  BY DEF TypeOK
<1>2. CASE some = "none"
  BY <1>1, <1>2 DEF RunInsert, ServerIdle
<1>3. CASE some # "none"
  <2>1. ver' = [ver EXCEPT ![d] = 0] /\ inserts' = [inserts EXCEPT ![d] = @ + 1]
        /\ ttl' \subseteq ttl \cup {d}
    BY <1>3 DEF RunInsert, Put
  <2>2. 0 # Gone
    BY DEF Gone
  <2>3. ver'[d] = 0 /\ \A x \in Id \ {d} : ver'[x] = ver[x]
    BY <1>1, <2>1
  <2>4. ttl' \subseteq {x \in Id \ Base : ver'[x] # Gone}
    BY <1>1, <2>1, <2>2, <2>3
  <2>5. ver' \in [Id -> Nat \cup {Gone}]
    BY <1>1, <2>1
  <2>6. inserts' \in [Id -> Nat] /\ \A x \in Id : inserts'[x] # inserts[x] => x = d
    BY <1>1, <2>1
  <2>. QED BY <2>4, <2>5, <2>6
<1>. QED BY <1>2, <1>3

LEMMA PutRuns ==
  ASSUME TypeOK, NEW d \in Id, NEW v \in Nat, Put(d, v), ttl' = ttl
  PROVE  /\ ver' \in [Id -> Nat \cup {Gone}]
         /\ ttl' \subseteq {x \in Id \ Base : ver'[x] # Gone}
<1>1. /\ ver \in [Id -> Nat \cup {Gone}]
      /\ ttl \subseteq {x \in Id \ Base : ver[x] # Gone}
  BY DEF TypeOK
<1>2. ver' = [ver EXCEPT ![d] = v] /\ v # Gone
  BY DEF Put, Gone
<1>3. ver'[d] = v /\ \A x \in Id \ {d} : ver'[x] = ver[x]
  BY <1>1, <1>2
<1>. QED BY <1>1, <1>2, <1>3

LEMMA RemoveRuns ==
  ASSUME TypeOK, NEW d \in Id, Remove(d)
  PROVE  /\ ver' \in [Id -> Nat \cup {Gone}]
         /\ ttl' \subseteq {x \in Id \ Base : ver'[x] # Gone}
<1>1. /\ ver \in [Id -> Nat \cup {Gone}]
      /\ ttl \subseteq {x \in Id \ Base : ver[x] # Gone}
  BY DEF TypeOK
<1>2. ver' = [ver EXCEPT ![d] = Gone] /\ ttl' = ttl \ {d}
  BY DEF Remove
<1>3. \A x \in Id \ {d} : ver'[x] = ver[x]
  BY <1>1, <1>2
<1>. QED BY <1>1, <1>2, <1>3

\* TypeOK of a step, variable by variable.
LEMMA TypeParts ==
  TypeOK <=>
    /\ ver \in [Id -> Nat \cup {Gone}]
    /\ ttl \subseteq {d \in Id \ Base : ver[d] # Gone}
    /\ ckpt \in [Worker -> 0 .. MaxK \cup {NoCkpt}]
    /\ k \in [Worker -> 0 .. MaxK]
    /\ pc \in [Worker -> {"off", "loop", "insert", "opening", "writing", "update"}]
    /\ docId \in [Worker -> Id]
    /\ read \in [Worker -> Nat \cup {Gone}]
    /\ errors \in Nat /\ stops \in Nat /\ torn \subseteq Worker
    /\ acked \subseteq Id \ Base
    /\ inserts \in [Id -> Nat]
BY Zenon DEF TypeOK

\* ReadCkpt of a worker that is not in the middle of a write.
LEMMA CkptRead ==
  ASSUME TypeOK, NEW w \in Worker
  PROVE  ReadCkpt(w) \in 0 .. MaxK
<1>1. ckpt[w] \in 0 .. MaxK \cup {NoCkpt}
  BY DEF TypeOK
<1>. QED BY <1>1, ChurnFacts DEF ReadCkpt

-----------------------------------------------------------------------------
(* The actions.                                                            *)

LEMMA RunChurnStep ==
  ASSUME CInv, RunChurn
  PROVE  CInv' /\ AckedStep
<1>1. /\ \A w \in Worker : pc[w] = "off"
      /\ k' = [w \in Worker |-> ReadCkpt(w)]
      /\ pc' = [w \in Worker |-> "loop"]
      /\ UNCHANGED <<ver, ttl, ckpt, docId, read, errors, stops, torn, acked, inserts>>
  BY DEF RunChurn, ServerIdle, history
<1>2. TypeOK
  BY DEF CInv
<1>3. k' \in [Worker -> 0 .. MaxK]
  BY <1>1, <1>2, CkptRead
<1>4. TypeOK'
  BY <1>1, <1>2, <1>3, TypeParts DEF TypeOK
<1>5. Fresh' /\ AckedStep
  BY <1>1 DEF CInv, Fresh, AckedStep
<1>6. ASSUME NEW w \in Worker
      PROVE  At(w)' /\ Counted(w)'
  <2>1. Counted(w) /\ pc[w] = "off" /\ pc'[w] = "loop" /\ k'[w] = ReadCkpt(w)
        /\ ReadCkpt(w)' = ReadCkpt(w)
    BY <1>1 DEF CInv, ReadCkpt
  <2>. QED BY <1>1, <2>1 DEF At, Counted
<1>. QED BY <1>4, <1>5, <1>6 DEF CInv

LEMMA PickStep ==
  ASSUME CInv, NEW w \in Worker, InsertPick(w)
  PROVE  CInv' /\ AckedStep
<1>1. /\ pc[w] = "loop" /\ k[w] < MaxK
      /\ docId' = [docId EXCEPT ![w] = OwnId(w, k[w])]
      /\ k' = [k EXCEPT ![w] = @ + 1]
      /\ pc' = [pc EXCEPT ![w] = "insert"]
      /\ UNCHANGED <<ver, ttl, ckpt, read, errors, stops, torn, acked, inserts>>
  BY DEF InsertPick, ServerIdle, history
<1>2. TypeOK /\ Counted(w)
  BY DEF CInv
<1>3. k[w] \in Numbers /\ k[w] + 1 \in 0 .. MaxK /\ (k[w] + 1) - 1 = k[w]
  BY <1>1, <1>2, ChurnFacts DEF TypeOK, Numbers
<1>4. /\ k' \in [Worker -> 0 .. MaxK] /\ docId' \in [Worker -> Id]
      /\ pc' \in [Worker -> {"off", "loop", "insert", "opening", "writing", "update"}]
  BY <1>1, <1>2, <1>3, OwnIdInStripe DEF TypeOK
<1>5. TypeOK'
  BY <1>1, <1>2, <1>4 DEF TypeOK
<1>6. /\ pc'[w] = "insert" /\ k'[w] = k[w] + 1 /\ docId'[w] = OwnId(w, k[w])
      /\ \A v \in Worker \ {w} : /\ pc'[v] = pc[v] /\ k'[v] = k[v]
                                 /\ docId'[v] = docId[v] /\ ckpt'[v] = ckpt[v]
  BY <1>1, <1>2 DEF TypeOK
<1>7. At(w)'
  BY <1>3, <1>6 DEF At, OwnId, Numbers
<1>8. Counted(w)'
  <2>1. ReadCkpt(w)' = ReadCkpt(w) /\ k'[w] - 1 = k[w]
    BY <1>1, <1>3, <1>6 DEF ReadCkpt
  <2>2. \A n \in Numbers : n < k[w] => n < k[w] + 1
    BY <1>3, ChurnFacts
  <2>. QED BY <1>1, <1>2, <1>6, <2>1, <2>2 DEF Counted
<1>. QED BY <1>1, <1>5, <1>6, <1>7, <1>8, PlainStep

\* The insert, whether the worker goes on to the checkpoint, back to its
\* loop, or ends.
LEMMA InsertStep ==
  ASSUME CInv, NEW w \in Worker, pc[w] = "insert", NEW some, NEW withTtl,
         RunInsert(docId[w], some, withTtl),
         NEW next \in {"opening", "loop", "off"},
         pc' = [pc EXCEPT ![w] = next],
         read' \in [Worker -> Nat \cup {Gone}], errors' \in Nat, stops' \in Nat,
         UNCHANGED <<ckpt, k, docId, torn, acked>>
  PROVE  CInv' /\ AckedStep
<1>1. TypeOK /\ At(w) /\ Counted(w)
  BY DEF CInv
<1>2. docId[w] \in Id \ Base /\ k[w] - 1 \in Numbers /\ docId[w] = OwnId(w, k[w] - 1)
  BY <1>1, OwnIdInStripe DEF At
<1>3. /\ ver' \in [Id -> Nat \cup {Gone}]
      /\ ttl' \subseteq {x \in Id \ Base : ver'[x] # Gone}
      /\ inserts' \in [Id -> Nat]
      /\ \A x \in Id : inserts'[x] # inserts[x] => x = docId[w]
  BY <1>1, <1>2, InsertRuns
<1>4. pc' \in [Worker -> {"off", "loop", "insert", "opening", "writing", "update"}]
  BY <1>1 DEF TypeOK
<1>5. TypeOK'
  BY <1>1, <1>3, <1>4 DEF TypeOK
<1>6. pc'[w] = next /\ \A v \in Worker \ {w} : pc'[v] = pc[v]
  BY <1>1 DEF TypeOK
<1>7. At(w)'
  BY <1>2, <1>6 DEF At, OwnId
<1>8. Counted(w)'
  <2>1. ReadCkpt(w)' = ReadCkpt(w) /\ k' = k /\ torn' = torn /\ acked' = acked
    BY DEF ReadCkpt
  <2>. QED BY <1>1, <1>6, <2>1 DEF Counted
<1>. QED BY <1>3, <1>5, <1>6, <1>7, <1>8, WorkerStep

LEMMA OpenStep ==
  ASSUME CInv, NEW w \in Worker, CkptOpen(w)
  PROVE  CInv' /\ AckedStep
<1>1. /\ pc[w] = "opening"
      /\ ckpt' = [ckpt EXCEPT ![w] = NoCkpt]
      /\ pc' = [pc EXCEPT ![w] = "writing"]
      /\ UNCHANGED <<ver, ttl, k, docId, read, errors, stops, torn, acked, inserts>>
  BY DEF CkptOpen, ServerIdle, history
<1>2. TypeOK /\ At(w) /\ Counted(w)
  BY DEF CInv
<1>3. /\ ckpt' \in [Worker -> 0 .. MaxK \cup {NoCkpt}]
      /\ pc' \in [Worker -> {"off", "loop", "insert", "opening", "writing", "update"}]
  BY <1>1, <1>2 DEF TypeOK
<1>4. TypeOK'
  BY <1>1, <1>2, <1>3 DEF TypeOK
<1>5. pc'[w] = "writing" /\ \A v \in Worker \ {w} : pc'[v] = pc[v] /\ ckpt'[v] = ckpt[v]
  BY <1>1, <1>2 DEF TypeOK
<1>6. At(w)'
  BY <1>1, <1>2, <1>5 DEF At, OwnId
<1>7. Counted(w)'
  BY <1>1, <1>2, <1>5 DEF Counted
<1>. QED BY <1>1, <1>4, <1>5, <1>6, <1>7, PlainStep

LEMMA CkptStep ==
  ASSUME CInv, NEW w \in Worker, CkptWrite(w)
  PROVE  CInv' /\ AckedStep
<1>1. /\ pc[w] = "writing"
      /\ ckpt' = [ckpt EXCEPT ![w] = k[w]]
      /\ acked' = acked \cup Own(w)
      /\ pc' = [pc EXCEPT ![w] = "loop"]
      /\ UNCHANGED <<ver, ttl, k, docId, read, errors, stops, torn, inserts>>
  BY DEF CkptWrite, ServerIdle
<1>2. TypeOK /\ At(w) /\ Counted(w)
  BY DEF CInv
<1>3. /\ ckpt' \in [Worker -> 0 .. MaxK \cup {NoCkpt}]
      /\ pc' \in [Worker -> {"off", "loop", "insert", "opening", "writing", "update"}]
      /\ acked' \subseteq Id \ Base
  BY <1>1, <1>2, OwnIsStripe DEF TypeOK
<1>4. TypeOK'
  BY <1>1, <1>2, <1>3 DEF TypeOK
<1>5. /\ pc'[w] = "loop" /\ ckpt'[w] = k[w]
      /\ \A v \in Worker \ {w} : pc'[v] = pc[v] /\ ckpt'[v] = ckpt[v]
  BY <1>1, <1>2 DEF TypeOK
<1>6. At(w)'
  BY <1>5 DEF At
<1>7. Counted(w)'
  <2>. SUFFICES ASSUME w \notin torn, NEW n \in Numbers, OwnId(w, n) \in acked'
                PROVE  n < k[w]
    <3>1. k[w] # NoCkpt
      BY <1>2, ChurnFacts DEF TypeOK
    <3>2. ReadCkpt(w)' = k[w]
      BY <1>5, <3>1 DEF ReadCkpt
    <3>. QED BY <1>1, <1>5, <3>2 DEF Counted, OwnId
  <2>1. CASE OwnId(w, n) \in Own(w)
    BY <1>2, <2>1, OwnIsStripe
  <2>2. CASE OwnId(w, n) \in acked
    BY <1>1, <1>2, <2>2 DEF Counted
  <2>. QED BY <1>1, <2>1, <2>2
<1>. QED BY <1>1, <1>4, <1>5, <1>6, <1>7, WorkerStep

\* A worker goes where it neither has nor writes a number of its own.
LEMMA IdleStep ==
  ASSUME CInv, NEW w \in Worker, pc[w] # "off", pc[w] # "writing" \/ torn' = torn \cup {w},
         NEW next \in {"loop", "update", "off"}, pc' = [pc EXCEPT ![w] = next],
         next = "off" \/ pc[w] \in {"loop", "update"},
         ver' \in [Id -> Nat \cup {Gone}],
         ttl' \subseteq {x \in Id \ Base : ver'[x] # Gone},
         docId' \in [Worker -> Id], \A v \in Worker \ {w} : docId'[v] = docId[v],
         read' \in [Worker -> Nat \cup {Gone}], errors' \in Nat, stops' \in Nat,
         torn' \in {torn, torn \cup {w}},
         UNCHANGED <<ckpt, k, acked, inserts>>
  PROVE  CInv' /\ AckedStep
<1>1. TypeOK /\ Counted(w)
  BY DEF CInv
<1>2. pc' \in [Worker -> {"off", "loop", "insert", "opening", "writing", "update"}]
      /\ torn' \subseteq Worker
  BY <1>1 DEF TypeOK
<1>3. TypeOK'
  BY <1>1, <1>2 DEF TypeOK
<1>4. pc'[w] = next /\ \A v \in Worker \ {w} : pc'[v] = pc[v]
  BY <1>1 DEF TypeOK
<1>5. At(w)'
  BY <1>4 DEF At
<1>6. Counted(w)'
  <2>1. ReadCkpt(w)' = ReadCkpt(w)
    BY DEF ReadCkpt
  <2>. QED BY <1>1, <1>4, <2>1 DEF Counted
<1>. QED BY <1>3, <1>4, <1>5, <1>6, WorkerStep

LEMMA ReadStep ==
  ASSUME CInv, NEW w \in Worker, NEW d \in Base, UpdateRead(w, d)
  PROVE  CInv' /\ AckedStep
<1>1. TypeOK /\ d \in Id /\ ver[d] \in Nat \cup {Gone}
  BY LoadedIds DEF CInv, TypeOK
<1>2. /\ pc[w] = "loop"
      /\ docId' = [docId EXCEPT ![w] = d] /\ read' = [read EXCEPT ![w] = ver[d]]
      /\ pc' = [pc EXCEPT ![w] = "update"]
      /\ UNCHANGED <<ver, ttl, ckpt, k, errors, stops, torn, acked, inserts>>
  BY DEF UpdateRead, ServerIdle, history
<1>3. /\ docId' \in [Worker -> Id] /\ read' \in [Worker -> Nat \cup {Gone}]
      /\ \A v \in Worker \ {w} : docId'[v] = docId[v]
  BY <1>1, <1>2 DEF TypeOK
<1>4. /\ ver' \in [Id -> Nat \cup {Gone}] /\ errors' \in Nat /\ stops' \in Nat
      /\ ttl' \subseteq {x \in Id \ Base : ver'[x] # Gone}
  BY <1>1, <1>2 DEF TypeOK
<1>. QED BY <1>2, <1>3, <1>4, IdleStep

\* An update ends: its write ran or not.
LEMMA WriteStep ==
  ASSUME CInv, NEW w \in Worker, pc[w] = "update",
         \/ Put(docId[w], read[w] + 1) /\ ttl' = ttl
         \/ ServerIdle,
         NEW next \in {"loop", "off"}, pc' = [pc EXCEPT ![w] = next],
         read' = [read EXCEPT ![w] = Gone], errors' \in Nat, stops' \in Nat,
         UNCHANGED <<ckpt, k, docId, torn, acked, inserts>>
  PROVE  CInv' /\ AckedStep
<1>1. TypeOK /\ docId[w] \in Id /\ read[w] \in Nat \cup {Gone}
  BY DEF CInv, TypeOK
<1>2. read[w] + 1 \in Nat
  BY <1>1 DEF Gone
<1>3. /\ ver' \in [Id -> Nat \cup {Gone}]
      /\ ttl' \subseteq {x \in Id \ Base : ver'[x] # Gone}
  <2>1. CASE Put(docId[w], read[w] + 1) /\ ttl' = ttl
    BY <1>1, <1>2, <2>1, PutRuns
  <2>2. CASE ServerIdle
    BY <1>1, <2>2 DEF ServerIdle, TypeOK
  <2>. QED BY <2>1, <2>2
<1>4. docId' \in [Worker -> Id] /\ read' \in [Worker -> Nat \cup {Gone}]
  BY <1>1 DEF TypeOK
<1>. QED BY <1>3, <1>4, IdleStep

LEMMA EndStep ==
  ASSUME CInv, NEW w \in Worker, Ending(w)
  PROVE  CInv' /\ AckedStep
<1>1. TypeOK /\ stops \in Nat /\ errors \in Nat
  BY DEF CInv, TypeOK
<1>2. /\ ver \in [Id -> Nat \cup {Gone}] /\ docId \in [Worker -> Id]
      /\ ttl \subseteq {x \in Id \ Base : ver[x] # Gone}
      /\ read \in [Worker -> Nat \cup {Gone}]
      /\ [read EXCEPT ![w] = Gone] \in [Worker -> Nat \cup {Gone}]
  BY <1>1 DEF TypeOK
<1>3. CASE Stop(w)
  <2>1. /\ pc[w] = "loop" /\ stops' = stops + 1
        /\ pc' = [pc EXCEPT ![w] = "off"]
        /\ UNCHANGED <<ver, ttl, ckpt, k, docId, read, errors, torn, acked, inserts>>
    BY <1>3 DEF Stop, ServerIdle
  <2>2. stops' \in Nat
    BY <1>1, <2>1
  <2>. QED BY <1>1, <1>2, <2>1, <2>2, IdleStep
<1>4. ASSUME NEW some \in {"none", "doc", "all"}, NEW withTtl \in BOOLEAN,
             Kill(w, some, withTtl)
      PROVE  CInv' /\ AckedStep
  <2>1. /\ pc[w] \in {"insert", "opening", "writing", "update"} /\ stops' = stops + 1
        /\ torn' = IF pc[w] = "writing" THEN torn \cup {w} ELSE torn
        /\ read' = [read EXCEPT ![w] = Gone] /\ pc' = [pc EXCEPT ![w] = "off"]
        /\ UNCHANGED <<ckpt, k, docId, errors, acked>>
    BY <1>4 DEF Kill
  <2>2. stops' \in Nat
    BY <1>1, <2>1
  <2>3. CASE pc[w] = "insert"
    <3>1. RunInsert(docId[w], some, withTtl)
      BY <1>4, <2>3 DEF Kill
    <3>. QED BY <1>1, <1>2, <2>1, <2>2, <2>3, <3>1, InsertStep
  <2>4. CASE pc[w] = "update"
    <3>1. \/ Put(docId[w], read[w] + 1) /\ ttl' = ttl /\ inserts' = inserts
          \/ ServerIdle /\ inserts' = inserts
      BY <1>4, <2>4 DEF Kill
    <3>. QED BY <1>1, <1>2, <2>1, <2>2, <2>4, <3>1, WriteStep
  <2>5. CASE pc[w] \in {"opening", "writing"}
    <3>1. UNCHANGED <<ver, ttl, inserts>>
      BY <1>4, <2>5 DEF Kill, ServerIdle
    <3>. QED BY <1>1, <1>2, <2>1, <2>2, <2>5, <3>1, IdleStep
  <2>. QED BY <2>1, <2>3, <2>4, <2>5
<1>. QED BY <1>3, <1>4 DEF Ending

LEMMA RemoveStep ==
  ASSUME CInv, NEW d \in Id, Remove(d), UNCHANGED <<ckpt, local, history>>
  PROVE  CInv' /\ AckedStep
<1>1. UNCHANGED <<ckpt, k, pc, docId, read, errors, stops, torn, acked, inserts>>
  BY DEF local, history
<1>2. TypeOK'
  BY <1>1, RemoveRuns DEF CInv, TypeOK
<1>3. ASSUME NEW w \in Worker
      PROVE  At(w)' /\ Counted(w)'
  BY <1>1 DEF CInv, At, Counted, ReadCkpt
<1>. QED BY <1>1, <1>2, <1>3 DEF CInv, Fresh, AckedStep

LEMMA InsertingStep ==
  ASSUME CInv, NEW w \in Worker, Inserting(w)
  PROVE  CInv' /\ AckedStep
<1>1. read \in [Worker -> Nat \cup {Gone}] /\ errors \in Nat /\ stops \in Nat
  BY DEF CInv, TypeOK
<1>2. ASSUME NEW withTtl \in BOOLEAN, Insert(w, withTtl)
      PROVE  CInv' /\ AckedStep
  BY <1>1, <1>2, InsertStep DEF Insert
<1>3. ASSUME NEW some \in {"none", "doc", "all"}, NEW withTtl \in BOOLEAN,
             InsertFail(w, some, withTtl)
      PROVE  CInv' /\ AckedStep
  <2>1. /\ pc[w] = "insert" /\ RunInsert(docId[w], some, withTtl)
        /\ errors' = errors + 1 /\ pc' = [pc EXCEPT ![w] = "loop"]
        /\ UNCHANGED <<ckpt, k, docId, read, stops, torn, acked>>
    BY <1>3 DEF InsertFail
  <2>2. errors' \in Nat
    BY <1>1, <2>1
  <2>. QED BY <1>1, <2>1, <2>2, InsertStep
<1>. QED BY <1>2, <1>3, PickStep, OpenStep, CkptStep DEF Inserting

LEMMA UpdatingStep ==
  ASSUME CInv, NEW w \in Worker, Updating(w)
  PROVE  CInv' /\ AckedStep
<1>1. errors \in Nat /\ stops \in Nat
  BY DEF CInv, TypeOK
<1>2. CASE UpdateWrite(w)
  <2>1. UNCHANGED <<errors, stops, torn, acked, inserts>>
    BY <1>2 DEF UpdateWrite, history
  <2>. QED BY <1>1, <1>2, <2>1, WriteStep DEF UpdateWrite
<1>3. ASSUME NEW ran \in BOOLEAN, UpdateFail(w, ran)
      PROVE  CInv' /\ AckedStep
  <2>1. /\ pc[w] = "update"
        /\ \/ Put(docId[w], read[w] + 1) /\ ttl' = ttl
           \/ ServerIdle
        /\ read' = [read EXCEPT ![w] = Gone]
        /\ errors' = errors + 1 /\ pc' = [pc EXCEPT ![w] = "loop"]
        /\ UNCHANGED <<ckpt, k, docId, stops, torn, acked, inserts>>
    BY <1>3 DEF UpdateFail
  <2>2. errors' \in Nat
    BY <1>1, <2>1
  <2>. QED BY <1>1, <2>1, <2>2, WriteStep
<1>. QED BY <1>2, <1>3, ReadStep DEF Updating

LEMMA InitCInv == Init => CInv
<1>. SUFFICES ASSUME Init
              PROVE  CInv
  OBVIOUS
<1>1. Base \subseteq Id /\ 0 \in Id
  BY ChurnFacts DEF Base, Id
<1>2. TypeOK
  BY <1>1, ChurnFacts DEF Init, TypeOK
<1>3. Fresh
  BY <1>1 DEF Init, Fresh
<1>4. \A w \in Worker : At(w) /\ Counted(w)
  BY DEF Init, At, Counted
<1>. QED BY <1>2, <1>3, <1>4 DEF CInv

LEMMA NextCInv == CInv /\ [Next]_vars => CInv' /\ (AckedStep \/ UNCHANGED vars)
<1>. SUFFICES ASSUME CInv, [Next]_vars
              PROVE  CInv' /\ (AckedStep \/ UNCHANGED vars)
  OBVIOUS
<1>1. CASE UNCHANGED vars
  <2>1. UNCHANGED <<ver, ttl, ckpt, k, pc, docId, read, errors, stops, torn, acked,
                    inserts>>
    BY <1>1 DEF vars
  <2>2. TypeOK'
    BY <2>1 DEF CInv, TypeOK
  <2>3. \A w \in Worker : At(w)' /\ Counted(w)'
    BY <2>1 DEF CInv, At, Counted, ReadCkpt
  <2>. QED BY <1>1, <2>1, <2>2, <2>3 DEF CInv, Fresh
<1>2. ASSUME NEW d \in Id, Expire(d)
      PROVE  CInv' /\ AckedStep
  BY <1>2, RemoveStep DEF Expire
<1>3. ASSUME NEW w \in Worker, NEW d \in Base \cup Own(w), Delete(w, d)
      PROVE  CInv' /\ AckedStep
  <2>1. d \in Id
    BY OwnIsStripe, LoadedIds DEF CInv
  <2>. QED BY <1>3, <2>1, RemoveStep DEF Delete
<1>. QED
  BY <1>1, <1>2, <1>3, RunChurnStep, InsertingStep, UpdatingStep, EndStep DEF Next

LEMMA AlwaysCInv == Spec => []CInv
BY InitCInv, NextCInv, PTL DEF Spec

-----------------------------------------------------------------------------
(* ChurnHolds: every state is of the declared types, no worker inserts a   *)
(* loaded id, and no two insert one id (the interleaved stripes).          *)
THEOREM ChurnHolds == Spec => []ChurnInv
<1>1. CInv => OneInserter
  <2>. SUFFICES ASSUME CInv, NEW v \in Worker, NEW w \in Worker, v # w,
                       pc[v] = "insert", pc[w] \in {"insert", "opening", "writing"}
                PROVE  docId[v] # docId[w]
    BY DEF OneInserter, CInv, Fresh
  <2>. QED BY StripesDisjoint DEF CInv, At
<1>2. CInv => ChurnInv
  BY <1>1 DEF CInv, ChurnInv
<1>. QED BY <1>2, AlwaysCInv, PTL

(* CountedIdsStay: an id that a checkpoint has counted is not inserted     *)
(* again in any session, unless its worker was killed within write_text    *)
(* (k, its file and the restart).                                          *)
THEOREM CountedIdsStay == Spec => AckedNeverReused
<1>1. CInv /\ [Next]_vars => [AckedStep]_vars
  BY NextCInv
<1>2. AckedStep <=>
        \A w \in Worker \ torn : \A n \in 0 .. MaxK - 1 :
          OwnId(w, n) \in acked => inserts'[OwnId(w, n)] = inserts[OwnId(w, n)]
  BY DEF AckedStep
<1>. QED BY <1>1, <1>2, AlwaysCInv, PTL DEF Spec, AckedNeverReused
=============================================================================
