----------------------------- MODULE BazaarLoad -----------------------------
(***************************************************************************)
(* The resumable bulk loader of bazaar (use case 07, load.py).  The ids    *)
(* 0 .. TotalDocs-1 are split into one contiguous range per worker; a      *)
(* worker writes its range in pipelined batches and checkpoints the next   *)
(* id in a file after each.  Workers are processes: they can be killed at  *)
(* any point, a batch can fail after the server has run part of it, and a  *)
(* new session starts every worker again from its checkpoint.              *)
(***************************************************************************)
EXTENDS Integers, FiniteSets

CONSTANTS
  TotalDocs,  \* cfg.total_docs
  Workers,    \* cfg.load_workers
  Batch,      \* BATCH
  NoCkpt,     \* a checkpoint file that is missing or has no number in it
  MaxErrors,  \* bound: batches that fail
  MaxKills    \* bound: workers that are killed

ASSUME LoadAssumption ==
  /\ TotalDocs \in Nat
  /\ Workers \in Nat \ {0}
  /\ Batch \in Nat \ {0}
  /\ NoCkpt \notin Nat
  /\ MaxErrors \in Nat /\ MaxKills \in Nat

VARIABLES
  stored,  \* the ids of the documents in the database
  ckpt,    \* ckpt[i]: what worker i's checkpoint file holds
  pc,      \* where worker i is
  docId,   \* doc_id of worker i
  errors,  \* history: batches that have failed
  kills,   \* history: workers killed
  torn     \* history: workers killed with their checkpoint file empty

vars == <<stored, ckpt, pc, docId, errors, kills, torn>>

Worker == 0 .. Workers - 1
Doc == 0 .. TotalDocs - 1

\* The range of a worker is First(i) .. First(i + 1) - 1.
First(i) == (i * TotalDocs) \div Workers
Range(i) == First(i) .. First(i + 1) - 1

SmallerOf(a, b) == IF a < b THEN a ELSE b
LargerOf(a, b) == IF a < b THEN b ELSE a

\* Mutant: the last batch of a range is as long as the others.
BatchEndUnbounded(i) == docId[i] + Batch

BatchEnd(i) == SmallerOf(docId[i] + Batch, First(i + 1))
InFlight(i) == docId[i] .. BatchEnd(i) - 1

Init ==
  /\ stored = {}
  /\ ckpt = [i \in Worker |-> NoCkpt]
  /\ pc = [i \in Worker |-> "off"]
  /\ docId = [i \in Worker |-> 0]
  /\ errors = 0 /\ kills = 0 /\ torn = {}

-----------------------------------------------------------------------------
\* A session starts when the last one is over.
RunLoad ==
  /\ \A i \in Worker : pc[i] \in {"off", "done"}
  /\ pc' = [i \in Worker |-> "begin"]
  /\ UNCHANGED <<stored, ckpt, docId, errors, kills, torn>>

ReadCkpt(i) == IF ckpt[i] = NoCkpt THEN First(i) ELSE ckpt[i]

Begin(i) ==
  /\ pc[i] = "begin"
  /\ docId' = [docId EXCEPT ![i] = LargerOf(First(i), ReadCkpt(i))]
  /\ pc' = [pc EXCEPT ![i] = "loop"]
  /\ UNCHANGED <<stored, ckpt, errors, kills, torn>>

\* Mutant: the checkpoint is written before the batch is sent.
SendCheckpointed(i) ==
  /\ pc[i] = "loop"
  /\ docId[i] < First(i + 1)
  /\ pc' = [pc EXCEPT ![i] = "sent"]
  /\ ckpt' = [ckpt EXCEPT ![i] = BatchEnd(i)]
  /\ UNCHANGED <<stored, docId, errors, kills, torn>>

Send(i) ==
  /\ pc[i] = "loop"
  /\ docId[i] < First(i + 1)
  /\ pc' = [pc EXCEPT ![i] = "sent"]
  /\ UNCHANGED <<stored, ckpt, docId, errors, kills, torn>>

\* pipe.execute() returns: the server has run the whole batch.
Execute(i) ==
  /\ pc[i] = "sent"
  /\ stored' = stored \cup InFlight(i)
  /\ docId' = [docId EXCEPT ![i] = BatchEnd(i)]
  /\ pc' = [pc EXCEPT ![i] = "opening"]
  /\ UNCHANGED <<ckpt, errors, kills, torn>>

\* Mutant: a batch that failed is given up.
ExecuteFailGivesUp(i, ran) ==
  /\ pc[i] = "sent"
  /\ errors < MaxErrors
  /\ ran \subseteq InFlight(i)
  /\ stored' = stored \cup ran
  /\ docId' = [docId EXCEPT ![i] = BatchEnd(i)]
  /\ errors' = errors + 1
  /\ pc' = [pc EXCEPT ![i] = "loop"]
  /\ UNCHANGED <<ckpt, kills, torn>>

\* pipe.execute() raises: the server has run some of the batch (it is not a
\* transaction), and the batch is tried again.
ExecuteFail(i, ran) ==
  /\ pc[i] = "sent"
  /\ errors < MaxErrors
  /\ ran \subseteq InFlight(i)
  /\ stored' = stored \cup ran
  /\ errors' = errors + 1
  /\ pc' = [pc EXCEPT ![i] = "loop"]
  /\ UNCHANGED <<ckpt, docId, kills, torn>>

\* write_text() empties the file ...
CkptOpen(i) ==
  /\ pc[i] = "opening"
  /\ ckpt' = [ckpt EXCEPT ![i] = NoCkpt]
  /\ pc' = [pc EXCEPT ![i] = "writing"]
  /\ UNCHANGED <<stored, docId, errors, kills, torn>>

\* Mutant: writes the id at which the batch began.
CkptWriteStale(i) ==
  /\ pc[i] = "writing"
  /\ ckpt' = [ckpt EXCEPT ![i] = LargerOf(First(i), docId[i] - Batch)]
  /\ pc' = [pc EXCEPT ![i] = "loop"]
  /\ UNCHANGED <<stored, docId, errors, kills, torn>>

\* ... and writes the number.
CkptWrite(i) ==
  /\ pc[i] = "writing"
  /\ ckpt' = [ckpt EXCEPT ![i] = docId[i]]
  /\ pc' = [pc EXCEPT ![i] = "loop"]
  /\ UNCHANGED <<stored, docId, errors, kills, torn>>

Finish(i) ==
  /\ pc[i] = "loop"
  /\ docId[i] >= First(i + 1)
  /\ pc' = [pc EXCEPT ![i] = "done"]
  /\ UNCHANGED <<stored, ckpt, docId, errors, kills, torn>>

\* A worker dies; of a batch it has sent the server runs some part.
Kill(i, ran) ==
  /\ pc[i] \notin {"off", "done"}
  /\ kills < MaxKills
  /\ ran \subseteq (IF pc[i] = "sent" THEN InFlight(i) ELSE {})
  /\ stored' = stored \cup ran
  /\ pc' = [pc EXCEPT ![i] = "off"]
  /\ kills' = kills + 1
  /\ torn' = IF pc[i] = "writing" THEN torn \cup {i} ELSE torn
  /\ UNCHANGED <<ckpt, docId, errors>>

Work(i) ==
  \/ Begin(i)
  \/ Send(i)
  \/ Execute(i)
  \/ \E ran \in SUBSET InFlight(i) : ExecuteFail(i, ran)
  \/ CkptOpen(i)
  \/ CkptWrite(i)
  \/ Finish(i)

Next ==
  \/ RunLoad
  \/ \E i \in Worker : Work(i)
  \/ \E i \in Worker, ran \in SUBSET Doc : Kill(i, ran)

Spec == Init /\ [][Next]_vars

-----------------------------------------------------------------------------
TypeOK ==
  /\ stored \subseteq Doc
  /\ ckpt \in [Worker -> Nat \cup {NoCkpt}]
  /\ pc \in [Worker -> {"off", "begin", "loop", "sent", "opening", "writing",
                        "done"}]
  /\ docId \in [Worker -> Nat]
  /\ errors \in Nat /\ kills \in Nat
  /\ torn \subseteq Worker

(* CkptBehindStore: a checkpoint never promises a document that is not     *)
(* stored, however a batch failed and whenever the worker was killed (the  *)
(* order of execute and write_text).                                       *)
CkptBehindStore ==
  \A i \in Worker :
    ckpt[i] # NoCkpt => First(i) .. ckpt[i] - 1 \subseteq stored

(* DoneIsLoaded: a worker that says "done" has stored its whole range, so  *)
(* a load that is over has stored every document.                          *)
DoneIsLoaded ==
  /\ \A i \in Worker : pc[i] = "done" => Range(i) \subseteq stored
  /\ (\A i \in Worker : pc[i] = "done") => stored = Doc

(* PromisesKept: so neither a checkpoint nor a worker that is done says    *)
(* that a document is stored which is not (load_worker, run_load).         *)
PromisesKept == CkptBehindStore /\ DoneIsLoaded

(* ResumeRedoesOneBatch: unless its worker was ever killed within          *)
(* write_text, a checkpoint has at most one batch stored beyond it, which  *)
(* the next session writes again.                                          *)
ResumeRedoesOneBatch ==
  \A i \in Worker \ torn :
    ckpt[i] # NoCkpt => stored \cap Range(i) \subseteq
                          First(i) .. ckpt[i] + Batch - 1

(* EventuallyLoaded: rerun after each kill, the load ends with every       *)
(* document stored and every worker done.                                  *)
EventuallyLoaded == <>[](stored = Doc /\ \A i \in Worker : pc[i] = "done")
=============================================================================
