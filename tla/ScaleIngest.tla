----------------------------- MODULE ScaleIngest -----------------------------
(***************************************************************************)
(* The bulk ingest of the ride and tide store (use case 01,                *)
(* scale_ingest.py).  Writer processes fill their own ranges of documents  *)
(* in pipelined batches and report to the parent through a queue; a batch  *)
(* that fails is dropped, in part or whole, and the writer goes on.  The   *)
(* parent adds up what the writers report until each has said its last.    *)
(* Errors are of one kind; the index follows the database at once.         *)
(***************************************************************************)
EXTENDS Integers, FiniteSets, Sequences

CONSTANTS
  Workers,  \* --workers
  Target,   \* --target
  Start,    \* --start, the first number of every writer
  Batch,    \* --batch
  MaxFails, \* bound: execute() calls that fail
  MaxEnds   \* bound: writers that crash or are killed

ASSUME IngestAssumption ==
  /\ Workers \in Nat \ {0} /\ Batch \in Nat \ {0}
  /\ Target \in Nat /\ Start \in Nat
  /\ MaxFails \in Nat /\ MaxEnds \in Nat

VARIABLES
  stored,   \* the documents <<writer, number>> in the database
  pc,       \* where writer w is
  next,     \* i of writer w
  pipe,     \* the numbers in w's pipeline
  done,     \* done of writer w
  errors,   \* how many failed batches writer w has counted
  queue,    \* queue[w]: the messages of writer w on their way to the parent
  progress, \* the parent's progress list
  finished, \* how many writers have said their last
  fails     \* history: how many execute() calls have failed

writerVars == <<pc, next, pipe, done, errors>>
parentVars == <<progress, finished>>
ingestVars == <<stored, writerVars, queue, parentVars, fails>>

Writer == 0 .. Workers - 1
PerWorker == Target \div Workers
End == Start + PerWorker
Doc == Writer \X (Start .. End - 1)

\* The numbers that fill whole batches; the flush after the loop takes the rest.
Whole == Start .. End - (PerWorker % Batch) - 1

Ended == {w \in Writer : pc[w] \in {"crashed", "killed"}}
Stored(w) == {n \in Start .. End - 1 : <<w, n>> \in stored}

IngestInit ==
  /\ stored = {}
  /\ pc = [w \in Writer |-> "loop"]
  /\ next = [w \in Writer |-> Start]
  /\ pipe = [w \in Writer |-> {}]
  /\ done = [w \in Writer |-> 0]
  /\ errors = [w \in Writer |-> 0]
  /\ queue = [w \in Writer |-> <<>>]
  /\ progress = [w \in Writer |-> 0] /\ finished = 0
  /\ fails = 0

\* Every process feeds the queue out of a buffer of its own: only the
\* messages of one writer keep their order.
Tell(kind, w, n) ==
  queue' = [queue EXCEPT ![w] = Append(@, [kind |-> kind, done |-> n])]

-----------------------------------------------------------------------------
(* A writer.                                                               *)

\* The loop fills the pipeline until it holds a batch, or ends.
Fill(w) ==
  /\ pc[w] = "loop"
  /\ LET full == next[w] + Batch <= End
         upTo == IF full THEN next[w] + Batch ELSE End
     IN /\ pipe' = [pipe EXCEPT ![w] = next[w] .. upTo - 1]
        /\ next' = [next EXCEPT ![w] = upTo]
        /\ pc' = [pc EXCEPT ![w] = IF full THEN "execute" ELSE "flush"]
  /\ UNCHANGED <<stored, done, errors, queue, parentVars, fails>>

\* The server runs an HSET that w has sent, if only after w gave up on it.
RunOne(w, n) ==
  /\ n \in Start .. next[w] - 1 /\ <<w, n>> \notin stored
  /\ stored' = stored \cup {<<w, n>>}
  /\ UNCHANGED <<writerVars, queue, parentVars, fails>>

\* A batch is through; now and then the writer says so.
Execute(w) ==
  /\ pc[w] = "execute" /\ pipe[w] \subseteq Stored(w)
  /\ done' = [done EXCEPT ![w] = @ + Batch]
  /\ pipe' = [pipe EXCEPT ![w] = {}]
  /\ pc' = [pc EXCEPT ![w] = "loop"]
  /\ UNCHANGED queue \/ Tell("progress", w, done'[w])
  /\ UNCHANGED <<stored, next, errors, parentVars, fails>>

\* Mutant: a failed batch is counted as written.
ExecuteFailCounts(w) ==
  /\ pc[w] = "execute" /\ fails < MaxFails
  /\ fails' = fails + 1
  /\ errors' = [errors EXCEPT ![w] = @ + 1]
  /\ IF errors[w] = 0 THEN Tell("error", w, done[w]) ELSE UNCHANGED queue
  /\ done' = [done EXCEPT ![w] = @ + Batch]
  /\ pipe' = [pipe EXCEPT ![w] = {}]
  /\ pc' = [pc EXCEPT ![w] = "loop"]
  /\ UNCHANGED <<stored, next, parentVars>>

\* execute() raises, whatever the server has run: the writer drops the batch.
ExecuteFail(w) ==
  /\ pc[w] = "execute" /\ fails < MaxFails
  /\ fails' = fails + 1
  /\ errors' = [errors EXCEPT ![w] = @ + 1]
  /\ IF errors[w] = 0 THEN Tell("error", w, done[w]) ELSE UNCHANGED queue
  /\ pipe' = [pipe EXCEPT ![w] = {}]
  /\ pc' = [pc EXCEPT ![w] = "loop"]
  /\ UNCHANGED <<stored, next, done, parentVars>>

\* Mutant: the last, partial batch is not executed.
FlushNothing(w) ==
  /\ pc[w] = "flush"
  /\ UNCHANGED fails
  /\ pipe' = [pipe EXCEPT ![w] = {}]
  /\ Tell("done", w, done[w])
  /\ pc' = [pc EXCEPT ![w] = "gone"]
  /\ UNCHANGED <<stored, next, done, errors, parentVars>>

\* The last execute(): it empties the pipeline before its length is added to
\* done, and its failure is passed over.
Flush(w) ==
  /\ pc[w] = "flush"
  /\ \/ pipe[w] \subseteq Stored(w) /\ UNCHANGED fails
     \/ pipe[w] # {} /\ fails < MaxFails /\ fails' = fails + 1
  /\ pipe' = [pipe EXCEPT ![w] = {}]
  /\ Tell("done", w, done[w])
  /\ pc' = [pc EXCEPT ![w] = "gone"]
  /\ UNCHANGED <<stored, next, done, errors, parentVars>>

\* Any other exception, connect()'s included, ends the writer with a message.
Crash(w) ==
  /\ pc[w] \in {"loop", "execute", "flush"} /\ Cardinality(Ended) < MaxEnds
  /\ Tell("crash", w, 0)
  /\ pc' = [pc EXCEPT ![w] = "crashed"]
  /\ UNCHANGED <<stored, next, pipe, done, errors, parentVars, fails>>

\* A writer is killed; what it has not yet pushed through the queue is lost.
Kill(w) ==
  /\ pc[w] \in {"loop", "execute", "flush"} /\ Cardinality(Ended) < MaxEnds
  /\ \E n \in 0 .. Len(queue[w]) :
       queue' = [queue EXCEPT ![w] = SubSeq(@, 1, n)]
  /\ pc' = [pc EXCEPT ![w] = "killed"]
  /\ UNCHANGED <<stored, next, pipe, done, errors, parentVars, fails>>

-----------------------------------------------------------------------------
(* The parent.                                                             *)

\* Mutant: a crash does not count as an end.
ReceiveIgnoresCrash(w) ==
  /\ finished < Workers /\ queue[w] # <<>>
  /\ LET msg == Head(queue[w])
     IN /\ IF msg.kind \in {"progress", "done"}
           THEN progress' = [progress EXCEPT ![w] = msg.done]
           ELSE UNCHANGED progress
        /\ IF msg.kind = "done"
           THEN finished' = finished + 1 ELSE UNCHANGED finished
  /\ queue' = [queue EXCEPT ![w] = Tail(@)]
  /\ UNCHANGED <<stored, writerVars, fails>>

Receive(w) ==
  /\ finished < Workers /\ queue[w] # <<>>
  /\ LET msg == Head(queue[w])
     IN /\ IF msg.kind \in {"progress", "done"}
           THEN progress' = [progress EXCEPT ![w] = msg.done]
           ELSE UNCHANGED progress
        /\ IF msg.kind \in {"done", "crash"}
           THEN finished' = finished + 1 ELSE UNCHANGED finished
  /\ queue' = [queue EXCEPT ![w] = Tail(@)]
  /\ UNCHANGED <<stored, writerVars, fails>>

IngestNext ==
  \/ \E w \in Writer : \/ Fill(w) \/ Execute(w) \/ ExecuteFail(w) \/ Flush(w)
                       \/ Crash(w) \/ Kill(w) \/ Receive(w)
  \/ \E d \in Doc : RunOne(d[1], d[2])

-----------------------------------------------------------------------------
IngestTypeOK ==
  /\ stored \subseteq Doc
  /\ pc \in [Writer -> {"loop", "execute", "flush", "gone", "crashed", "killed"}]
  /\ next \in [Writer -> Start .. End]
  /\ pipe \in [Writer -> SUBSET (Start .. End - 1)]
  /\ done \in [Writer -> Nat] /\ errors \in [Writer -> Nat]
  /\ queue \in [Writer -> Seq([kind : {"progress", "error", "done", "crash"},
                               done : Nat])]
  /\ progress \in [Writer -> Nat] /\ finished \in 0 .. Workers
  /\ fails \in Nat

(* NeverOverstates: what the parent shows as written is in the database,   *)
(* though batches fail half-way and messages arrive late (done, progress). *)
NeverOverstates ==
  \A w \in Writer : progress[w] <= done[w] /\ done[w] <= Cardinality(Stored(w))

(* LossIsCounted: done and the error summary of a writer that ended by     *)
(* itself account together for all whole batches, and if they show no      *)
(* error then all of those are stored; of the rest they say nothing, but   *)
(* without a failure it is stored too.                                     *)
LossIsCounted ==
  \A w \in Writer : pc[w] = "gone" =>
    /\ done[w] + Batch * errors[w] = Cardinality(Whole)
    /\ errors[w] = 0 => Whole \subseteq Stored(w)
    /\ fails = 0 => Stored(w) = Start .. End - 1

(* ParentNotStuck: when no writer is left, and none was killed, the        *)
(* messages under way let the parent's loop end.                           *)
ParentNotStuck ==
  (\A w \in Writer : pc[w] \in {"gone", "crashed"}) =>
    finished + Cardinality({w \in Writer : \E i \in DOMAIN queue[w] :
                              queue[w][i].kind \in {"done", "crash"}}) = Workers
=============================================================================
