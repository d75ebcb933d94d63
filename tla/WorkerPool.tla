----------------------------- MODULE WorkerPool -----------------------------
(***************************************************************************)
(* The goroutines of a chatstress run (use case 06, Runner.Run): the       *)
(* ingesters and mutators behind their rate limiters, the query workers    *)
(* that a supervisor adds and removes to follow the concurrency set in the *)
(* dashboard, the sampling loops, and their end when the context is        *)
(* cancelled.  What an operation does is ChatOracle's subject.             *)
(***************************************************************************)
EXTENDS Integers, Sequences, FiniteSets

CONSTANTS
  Mutators,    \* the ingesters, the editor, the deleter and the slider
  Loops,       \* metricLoop and gcLoop
  Concurrency, \* cfg.Query.Workers, the concurrency at the start
  MaxWorkers,  \* control's maxWorkers
  MaxIds,      \* bound: query workers ever spawned
  MaxChanges   \* bound: changes made in the dashboard

ASSUME PoolAssumption ==
  /\ MaxWorkers \in Nat \ {0}
  /\ Concurrency \in 1 .. MaxWorkers
  /\ MaxIds \in Nat /\ MaxChanges \in Nat
  /\ Mutators \cap (Loops \cup 0 .. MaxIds) = {}
  /\ Loops \cap 0 .. MaxIds = {}

VARIABLES
  ctx,         \* "live" or "cancelled"
  target,      \* Control.concurrency
  paused,      \* Control.paused
  changes,     \* history: changes made in the dashboard
  sup,         \* where the supervisor is
  workers,     \* the supervisor's list of cancel functions, by worker id
  nextID,      \* nextID
  cancelled,   \* the query workers whose own context is cancelled
  pc,          \* pc[w]: where goroutine w is
  afterPause,  \* history: operations w has begun since the last
               \* SetPaused(true), counted to 2
  run          \* whether Run has returned and closed the limiters

vars == <<ctx, target, paused, changes, sup, workers, nextID, cancelled, pc,
          afterPause, run>>

QueryId == 0 .. MaxIds - 1
Worker == Mutators \cup QueryId
Routine == Worker \cup Loops

Spawned == 0 .. nextID - 1
Alive == {w \in Spawned : pc[w] # "gone"}
Listed == {workers[i] : i \in DOMAIN workers}

\* ctx.Err() # nil in worker w.
Done(w) == ctx = "cancelled" \/ w \in cancelled

Init ==
  /\ ctx = "live"
  /\ target = Concurrency /\ paused = FALSE /\ changes = 0
  /\ sup = "start" /\ workers = <<>> /\ nextID = 0 /\ cancelled = {}
  /\ pc = [w \in Routine |-> IF w \in Mutators THEN "top"
                             ELSE IF w \in Loops THEN "select" ELSE "unborn"]
  /\ afterPause = [w \in Worker |-> 0]
  /\ run = "running"

-----------------------------------------------------------------------------
(* The dashboard and the main program.                                     *)

Clamp(v) == IF v < 1 THEN 1 ELSE IF v > MaxWorkers THEN MaxWorkers ELSE v

SetConcurrency(v) ==
  /\ changes < MaxChanges /\ run = "running"
  /\ target' = Clamp(v)
  /\ changes' = changes + 1
  /\ UNCHANGED <<ctx, paused, sup, workers, nextID, cancelled, pc, afterPause,
                 run>>

SetPaused(v) ==
  /\ changes < MaxChanges /\ run = "running"
  /\ paused' = v
  /\ afterPause' = IF v THEN [w \in Worker |-> 0] ELSE afterPause
  /\ changes' = changes + 1
  /\ UNCHANGED <<ctx, target, sup, workers, nextID, cancelled, pc, run>>

Cancel ==
  /\ ctx = "live"
  /\ ctx' = "cancelled"
  /\ UNCHANGED <<target, paused, changes, sup, workers, nextID, cancelled, pc,
                 afterPause, run>>

-----------------------------------------------------------------------------
(* The supervisor.                                                         *)

\* adjust: spawns until there are target workers, cancels the last ones
\* until there are no more.
Grown == workers \o [i \in 1 .. target - Len(workers) |-> nextID + i - 1]
Shrunk == SubSeq(workers, 1, target)

\* Mutant: forgets the workers it drops without cancelling the last of them.
AdjustKeepsLast ==
  IF Len(workers) < target
  THEN /\ nextID + target - Len(workers) <= MaxIds
       /\ workers' = Grown
       /\ nextID' = nextID + target - Len(workers)
       /\ pc' = [w \in Routine |-> IF w \in nextID .. nextID' - 1 THEN "top"
                                   ELSE pc[w]]
       /\ UNCHANGED cancelled
  ELSE /\ workers' = Shrunk
       /\ cancelled' = cancelled \cup {workers[i] : i \in target + 1 .. Len(workers) - 1}
       /\ UNCHANGED <<nextID, pc>>

\* Mutant: the pool only grows.
AdjustGrowOnly ==
  /\ Len(workers) < target
  /\ nextID + target - Len(workers) <= MaxIds
  /\ workers' = Grown
  /\ nextID' = nextID + target - Len(workers)
  /\ pc' = [w \in Routine |-> IF w \in nextID .. nextID' - 1 THEN "top"
                              ELSE pc[w]]
  /\ UNCHANGED cancelled

Adjust ==
  IF Len(workers) < target
  THEN /\ nextID + target - Len(workers) <= MaxIds
       /\ workers' = Grown
       /\ nextID' = nextID + target - Len(workers)
       /\ pc' = [w \in Routine |-> IF w \in nextID .. nextID' - 1 THEN "top"
                                   ELSE pc[w]]
       /\ UNCHANGED cancelled
  ELSE /\ workers' = Shrunk
       /\ cancelled' = cancelled \cup {workers[i] : i \in target + 1 .. Len(workers)}
       /\ UNCHANGED <<nextID, pc>>

\* At the start, then at each tick of 500 ms: also at a tick that select
\* prefers to a context that is done already.
SupAdjust ==
  /\ sup \in {"start", "select"}
  /\ Adjust
  /\ sup' = "select"
  /\ UNCHANGED <<ctx, target, paused, changes, afterPause, run>>

SupDone ==
  /\ sup = "select" /\ ctx = "cancelled"
  /\ sup' = "wait"
  /\ UNCHANGED <<ctx, target, paused, changes, workers, nextID, cancelled, pc,
                 afterPause, run>>

SupReturn ==
  /\ sup = "wait" /\ Alive = {}
  /\ sup' = "gone"
  /\ UNCHANGED <<ctx, target, paused, changes, workers, nextID, cancelled, pc,
                 afterPause, run>>

-----------------------------------------------------------------------------
(* The loop of a query worker, an ingester or a mutator.                   *)

Goto(w, place) ==
  /\ pc' = [pc EXCEPT ![w] = place]
  /\ UNCHANGED <<ctx, target, paused, changes, sup, workers, nextID,
                 cancelled, run>>

\* Mutant: a paused worker does not look at the context.
ReturnUnlessPaused(w) ==
  /\ pc[w] = "top" /\ Done(w) /\ ~paused
  /\ Goto(w, "gone") /\ UNCHANGED afterPause

Return(w) ==
  /\ pc[w] = "top" /\ Done(w)
  /\ Goto(w, "gone") /\ UNCHANGED afterPause

Idle(w) ==
  /\ pc[w] = "top" /\ ~Done(w) /\ paused
  /\ Goto(w, "sleep") /\ UNCHANGED afterPause

\* sleepCtx returns, by the timer or by the context.
Wake(w) ==
  /\ pc[w] = "sleep"
  /\ Goto(w, "top") /\ UNCHANGED afterPause

\* Mutant: the pause is not looked at.
PacePaused(w) ==
  /\ pc[w] = "top" /\ ~Done(w)
  /\ Goto(w, "pace") /\ UNCHANGED afterPause

\* On to lim.Wait or paceQuery.
Pace(w) ==
  /\ pc[w] = "top" /\ ~Done(w) /\ ~paused
  /\ Goto(w, "pace") /\ UNCHANGED afterPause

\* The permit is there, or the context is done; the operation begins.
Operate(w) ==
  /\ pc[w] = "pace"
  /\ afterPause' = IF paused THEN [afterPause EXCEPT ![w] = IF @ < 2 THEN @ + 1 ELSE 2]
                   ELSE afterPause
  /\ Goto(w, "op")

\* No live message to work on, or no query in the pool.
Nothing(w) ==
  /\ pc[w] = "pace"
  /\ Goto(w, IF w \in QueryId THEN "sleep" ELSE "top") /\ UNCHANGED afterPause

OperateEnds(w) ==
  /\ pc[w] = "op"
  /\ Goto(w, "top") /\ UNCHANGED afterPause

Work(w) ==
  \/ Return(w) \/ Idle(w) \/ Wake(w) \/ Pace(w)
  \/ Operate(w) \/ Nothing(w) \/ OperateEnds(w)

-----------------------------------------------------------------------------
(* metricLoop and gcLoop.                                                  *)

LoopTick(w) ==
  /\ pc[w] = "select"
  /\ Goto(w, "op") /\ UNCHANGED afterPause

LoopTickEnds(w) ==
  /\ pc[w] = "op"
  /\ Goto(w, "select") /\ UNCHANGED afterPause

LoopReturn(w) ==
  /\ pc[w] = "select" /\ ctx = "cancelled"
  /\ Goto(w, "gone") /\ UNCHANGED afterPause

\* wg.Wait() is over: Run closes the limiters and returns.
RunReturn ==
  /\ run = "running"
  /\ sup = "gone"
  /\ \A w \in Mutators \cup Loops : pc[w] = "gone"
  /\ run' = "returned"
  /\ UNCHANGED <<ctx, target, paused, changes, sup, workers, nextID, cancelled,
                 pc, afterPause>>

Next ==
  \/ \E v \in 0 .. MaxWorkers + 1 : SetConcurrency(v)
  \/ \E v \in BOOLEAN : SetPaused(v)
  \/ Cancel
  \/ SupAdjust \/ SupDone \/ SupReturn
  \/ \E w \in Worker : Work(w)
  \/ \E w \in Loops : LoopTick(w) \/ LoopTickEnds(w) \/ LoopReturn(w)
  \/ RunReturn

Spec == Init /\ [][Next]_vars

\* Every goroutine that can run does; timers, limiters and calls end; select
\* takes a context that is done sooner or later, whatever the ticks.
Fairness ==
  /\ \A w \in Worker : WF_vars(Work(w))
  /\ \A w \in Loops : WF_vars(LoopTickEnds(w)) /\ SF_vars(LoopReturn(w))
  /\ WF_vars(SupAdjust) /\ SF_vars(SupDone) /\ WF_vars(SupReturn)
  /\ WF_vars(RunReturn)

FairSpec == Spec /\ Fairness

-----------------------------------------------------------------------------
TypeOK ==
  /\ ctx \in {"live", "cancelled"}
  /\ target \in 1 .. MaxWorkers /\ paused \in BOOLEAN /\ changes \in Nat
  /\ sup \in {"start", "select", "wait", "gone"}
  /\ workers \in Seq(Spawned) /\ Len(workers) <= MaxWorkers
  /\ nextID \in 0 .. MaxIds
  /\ cancelled \subseteq Spawned
  /\ pc \in [Routine -> {"unborn", "top", "sleep", "pace", "op", "select",
                         "gone"}]
  /\ \A w \in QueryId : pc[w] = "unborn" <=> w \notin Spawned
  /\ afterPause \in [Worker -> 0 .. 2]
  /\ run \in {"running", "returned"}

(* PoolIsListed: the supervisor has lost no worker: the ones it lists are   *)
(* distinct, run (until ctx ends) and are not cancelled, and every other    *)
(* one that runs is cancelled (adjust, spawn, shrink).                      *)
PoolIsListed ==
  /\ \A i, j \in DOMAIN workers : i # j => workers[i] # workers[j]
  /\ Listed \cap cancelled = {}
  /\ ctx = "live" => Listed \subseteq Alive
  /\ Alive \ Listed \subseteq cancelled

(* DrainedBeforeClose: when Run closes the limiters no goroutine that could *)
(* wait for one, or call the server, is left (wg and wwg).                  *)
DrainedBeforeClose ==
  run = "returned" => Alive = {} /\ \A w \in Mutators \cup Loops : pc[w] = "gone"

(* PoolInv: from the spawn of a worker to the end of Run, no goroutine is  *)
(* lost (querySupervisor, Run).                                            *)
PoolInv == TypeOK /\ PoolIsListed /\ DrainedBeforeClose

(* OneOperationAfterPause: a worker begins at most one operation after a    *)
(* pause, the one whose permit it was waiting for.                          *)
OneOperationAfterPause == \A w \in Worker : afterPause[w] <= 1

(* ShutsDown: when the context is cancelled, paused or not, Run returns.    *)
ShutsDown == ctx = "cancelled" ~> run = "returned"

(* FollowsConcurrency: when the dashboard is left alone, the number of      *)
(* query workers becomes the concurrency set there.                         *)
FollowsConcurrency ==
  <>[](ctx = "live" /\ changes = MaxChanges) => <>[](Cardinality(Alive) = target)

(* PauseIdles: a pause that lasts ends every operation.                     *)
PauseIdles ==
  <>[](paused /\ ctx = "live") => <>[](\A w \in Worker : pc[w] # "op")
=============================================================================
