----------------------------- MODULE BazaarChurn -----------------------------
(***************************************************************************)
(* The steady-state writers of bazaar (use case 07, churn.py).  Each       *)
(* worker process inserts new listings with ids of its own stripe above    *)
(* the loaded ones, counts them in k, and checkpoints k in a file; it      *)
(* updates loaded listings (read the version, write the whole document at  *)
(* the next one), and deletes loaded listings or its own.  Some inserts    *)
(* carry a TTL.  Pipelines fail half-way, workers end at the deadline or   *)
(* are killed, and a restarted run goes on from the checkpoints.           *)
(***************************************************************************)
EXTENDS Integers, FiniteSets

CONSTANTS
  TotalDocs,  \* cfg.total_docs
  Workers,    \* cfg.churn_workers, the stride of the stripes
  NoCkpt,     \* a checkpoint file that is missing or has no number in it
  MaxK,       \* bound: inserts of a worker
  MaxVer,     \* bound: versions of a document
  MaxErrors,  \* bound: operations that fail
  MaxStops    \* bound: workers that stop or are killed

ASSUME ChurnAssumption ==
  /\ TotalDocs \in Nat \ {0}
  /\ Workers \in Nat \ {0}
  /\ NoCkpt \notin Nat
  /\ MaxK \in Nat /\ MaxVer \in Nat
  /\ MaxErrors \in Nat /\ MaxStops \in Nat

VARIABLES
  ver,     \* ver[d]: the version of document d in the database, or Gone
  ttl,     \* the documents that have a TTL
  ckpt,    \* ckpt[w]: what worker w's checkpoint file holds
  k,       \* k[w]: the number of w's next insert
  pc,      \* where worker w is
  docId,   \* doc_id of worker w
  read,    \* the version w has read, Gone if there is no document
  errors,  \* history: operations that have failed
  stops,   \* history: workers stopped or killed
  torn,    \* history: workers killed with their checkpoint file empty
  acked,   \* history: own ids below a checkpoint that was written
  inserts  \* history: inserts[d], how often the server ran an insert of d

local == <<k, pc, docId, read>>
history == <<errors, stops, torn, acked, inserts>>
vars == <<ver, ttl, ckpt, k, pc, docId, read, errors, stops, torn,
          acked, inserts>>

\* Mutant: the stripes are blocks that overlap.
OwnIdOverlaps(w, n) == TotalDocs + w + n

Gone == -1  \* the version of a document that does not exist
Worker == 0 .. Workers - 1
Base == 0 .. TotalDocs - 1
OwnId(w, n) == TotalDocs + w + n * Workers
Id == 0 .. TotalDocs + MaxK * Workers - 1
Own(w) == {OwnId(w, n) : n \in 0 .. k[w] - 1}

Init ==
  /\ ver = [d \in Id |-> IF d \in Base THEN 0 ELSE Gone]
  /\ ttl = {}
  /\ ckpt = [w \in Worker |-> NoCkpt]
  /\ k = [w \in Worker |-> 0]
  /\ pc = [w \in Worker |-> "off"]
  /\ docId = [w \in Worker |-> 0]
  /\ read = [w \in Worker |-> Gone]
  /\ errors = 0 /\ stops = 0 /\ torn = {} /\ acked = {}
  /\ inserts = [d \in Id |-> 0]

-----------------------------------------------------------------------------
(* What the server does.                                                   *)

\* HSET or JSON.SET of the whole document; a TTL the key has stays.
Put(d, v) == ver' = [ver EXCEPT ![d] = v]

Remove(d) ==
  /\ ver' = [ver EXCEPT ![d] = Gone]
  /\ ttl' = ttl \ {d}

ServerIdle == UNCHANGED <<ver, ttl>>

\* The pipeline of an insert: the document, then perhaps its TTL; "some" is
\* how much of it runs.
RunInsert(d, some, withTtl) ==
  IF some = "none" THEN ServerIdle /\ UNCHANGED inserts
  ELSE /\ Put(d, 0)
       /\ ttl' = IF some = "all" /\ withTtl THEN ttl \cup {d} ELSE ttl
       /\ inserts' = [inserts EXCEPT ![d] = @ + 1]

Expire(d) ==
  /\ d \in ttl
  /\ Remove(d)
  /\ UNCHANGED <<ckpt, local, history>>

-----------------------------------------------------------------------------
(* The loop of a worker.                                                   *)

ReadCkpt(w) == IF ckpt[w] = NoCkpt THEN 0 ELSE ckpt[w]

\* run_churn starts all workers together and waits for all of them.
RunChurn ==
  /\ \A w \in Worker : pc[w] = "off"
  /\ k' = [w \in Worker |-> ReadCkpt(w)]
  /\ pc' = [w \in Worker |-> "loop"]
  /\ ServerIdle
  /\ UNCHANGED <<ckpt, docId, read, history>>

InsertPick(w) ==
  /\ pc[w] = "loop"
  /\ k[w] < MaxK
  /\ docId' = [docId EXCEPT ![w] = OwnId(w, k[w])]
  /\ k' = [k EXCEPT ![w] = @ + 1]
  /\ pc' = [pc EXCEPT ![w] = "insert"]
  /\ ServerIdle
  /\ UNCHANGED <<ckpt, read, history>>

Insert(w, withTtl) ==
  /\ pc[w] = "insert"
  /\ RunInsert(docId[w], "all", withTtl)
  /\ pc' = [pc EXCEPT ![w] = "opening"]
  /\ UNCHANGED <<ckpt, k, docId, read, errors, stops, torn, acked>>

\* The insert raises: k has moved on, the checkpoint has not.
InsertFail(w, some, withTtl) ==
  /\ pc[w] = "insert"
  /\ errors < MaxErrors
  /\ RunInsert(docId[w], some, withTtl)
  /\ errors' = errors + 1
  /\ pc' = [pc EXCEPT ![w] = "loop"]
  /\ UNCHANGED <<ckpt, k, docId, read, stops, torn, acked>>

\* write_text() empties the file ...
CkptOpen(w) ==
  /\ pc[w] = "opening"
  /\ ckpt' = [ckpt EXCEPT ![w] = NoCkpt]
  /\ pc' = [pc EXCEPT ![w] = "writing"]
  /\ ServerIdle
  /\ UNCHANGED <<k, docId, read, history>>

\* Mutant: writes the number of the insert, not of the next one.
CkptWriteStale(w) ==
  /\ pc[w] = "writing"
  /\ ckpt' = [ckpt EXCEPT ![w] = k[w] - 1]
  /\ acked' = acked \cup Own(w)
  /\ pc' = [pc EXCEPT ![w] = "loop"]
  /\ ServerIdle
  /\ UNCHANGED <<k, docId, read, errors, stops, torn, inserts>>

\* ... and writes k.
CkptWrite(w) ==
  /\ pc[w] = "writing"
  /\ ckpt' = [ckpt EXCEPT ![w] = k[w]]
  /\ acked' = acked \cup Own(w)
  /\ pc' = [pc EXCEPT ![w] = "loop"]
  /\ ServerIdle
  /\ UNCHANGED <<k, docId, read, errors, stops, torn, inserts>>

UpdateRead(w, d) ==
  /\ pc[w] = "loop"
  /\ ver[d] < MaxVer
  /\ docId' = [docId EXCEPT ![w] = d]
  /\ read' = [read EXCEPT ![w] = ver[d]]
  /\ pc' = [pc EXCEPT ![w] = "update"]
  /\ ServerIdle
  /\ UNCHANGED <<ckpt, k, history>>

\* The next version, or version 0 of a listing that was gone ("relist").
UpdateWrite(w) ==
  /\ pc[w] = "update"
  /\ Put(docId[w], read[w] + 1)
  /\ read' = [read EXCEPT ![w] = Gone]
  /\ pc' = [pc EXCEPT ![w] = "loop"]
  /\ UNCHANGED <<ttl, ckpt, k, docId, history>>

\* The write raises, run by the server or not.
UpdateFail(w, ran) ==
  /\ pc[w] = "update"
  /\ errors < MaxErrors
  /\ IF ran THEN Put(docId[w], read[w] + 1) /\ UNCHANGED ttl ELSE ServerIdle
  /\ read' = [read EXCEPT ![w] = Gone]
  /\ errors' = errors + 1
  /\ pc' = [pc EXCEPT ![w] = "loop"]
  /\ UNCHANGED <<ckpt, k, docId, stops, torn, acked, inserts>>

\* UNLINK of a loaded listing or an own one, its reply lost or not.
Delete(w, d) ==
  /\ pc[w] = "loop"
  /\ Remove(d)
  /\ UNCHANGED <<ckpt, local, history>>

\* The deadline.
Stop(w) ==
  /\ pc[w] = "loop"
  /\ stops < MaxStops
  /\ stops' = stops + 1
  /\ pc' = [pc EXCEPT ![w] = "off"]
  /\ ServerIdle
  /\ UNCHANGED <<ckpt, k, docId, read, errors, torn, acked, inserts>>

\* The process is killed; of a pipeline it has sent the server runs some.
Kill(w, some, withTtl) ==
  /\ pc[w] \in {"insert", "opening", "writing", "update"}
  /\ stops < MaxStops
  /\ stops' = stops + 1
  /\ CASE pc[w] = "insert" -> RunInsert(docId[w], some, withTtl)
       [] pc[w] = "update" /\ some = "all" ->
            Put(docId[w], read[w] + 1) /\ UNCHANGED <<ttl, inserts>>
       [] OTHER -> some = "none" /\ ServerIdle /\ UNCHANGED inserts
  /\ torn' = IF pc[w] = "writing" THEN torn \cup {w} ELSE torn
  /\ read' = [read EXCEPT ![w] = Gone]
  /\ pc' = [pc EXCEPT ![w] = "off"]
  /\ UNCHANGED <<ckpt, k, docId, errors, acked>>

Inserting(w) ==
  \/ InsertPick(w)
  \/ \E withTtl \in BOOLEAN : Insert(w, withTtl)
  \/ \E some \in {"none", "doc", "all"}, withTtl \in BOOLEAN :
       InsertFail(w, some, withTtl)
  \/ CkptOpen(w)
  \/ CkptWrite(w)

Updating(w) ==
  \/ \E d \in Base : UpdateRead(w, d)
  \/ UpdateWrite(w)
  \/ \E ran \in BOOLEAN : UpdateFail(w, ran)

Ending(w) ==
  \/ Stop(w)
  \/ \E some \in {"none", "doc", "all"}, withTtl \in BOOLEAN :
       Kill(w, some, withTtl)

Next ==
  \/ RunChurn
  \/ \E d \in Id : Expire(d)
  \/ \E w \in Worker :
       \/ Inserting(w)
       \/ Updating(w)
       \/ \E d \in Base \cup Own(w) : Delete(w, d)
       \/ Ending(w)

Spec == Init /\ [][Next]_vars

-----------------------------------------------------------------------------
TypeOK ==
  /\ ver \in [Id -> Nat \cup {Gone}]
  /\ ttl \subseteq {d \in Id \ Base : ver[d] # Gone}
  /\ ckpt \in [Worker -> 0 .. MaxK \cup {NoCkpt}]
  /\ k \in [Worker -> 0 .. MaxK]
  /\ pc \in [Worker -> {"off", "loop", "insert", "opening", "writing",
                        "update"}]
  /\ docId \in [Worker -> Id]
  /\ read \in [Worker -> Nat \cup {Gone}]
  /\ errors \in Nat /\ stops \in Nat /\ torn \subseteq Worker
  /\ acked \subseteq Id \ Base
  /\ inserts \in [Id -> Nat]

(* AckedNeverReused: an id that a checkpoint has counted is never inserted *)
(* again, in this session or a later one, unless its worker was killed     *)
(* within write_text (k, ckpt and the restart).                            *)
AckedNeverReused ==
  [][\A w \in Worker \ torn : \A n \in 0 .. MaxK - 1 :
       OwnId(w, n) \in acked =>
         inserts'[OwnId(w, n)] = inserts[OwnId(w, n)]]_vars

(* OneInserter: no two workers insert the same id, and no worker inserts   *)
(* a loaded one (the interleaved stripes).                                 *)
OneInserter ==
  /\ \A d \in Base : inserts[d] = 0
  /\ \A v, w \in Worker :
       v # w /\ pc[v] = "insert" /\ pc[w] \in {"insert", "opening", "writing"}
         => docId[v] # docId[w]

(* ChurnInv: in states of the declared types, stripes do not meet (k and   *)
(* the id made of it).                                                     *)
ChurnInv == TypeOK /\ OneInserter

-----------------------------------------------------------------------------
(* NeverReusesId: "k checkpointed so a restarted churn run never reuses    *)
(* an id" (churn.py).                                                      *)
NeverReusesId == \A d \in Id : inserts[d] <= 1
=============================================================================
