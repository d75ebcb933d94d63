-------------------------- MODULE WorkerPoolProofs --------------------------
(***************************************************************************)
(* For any number of mutators, loops and query workers, and any changes in *)
(* the dashboard: the supervisor loses no worker, nobody is left when Run  *)
(* closes the limiters, and a pause lets each worker begin one operation   *)
(* at most.                                                                *)
(***************************************************************************)
EXTENDS WorkerPool, SequenceTheorems, TLAPS

-----------------------------------------------------------------------------
(* The inductive invariant.                                                *)

\* The supervisor has returned only after all of its workers.
SupervisorLast ==
  /\ sup = "gone" => Alive = {}
  /\ run = "returned" => sup = "gone" /\ \A w \in Mutators \cup Loops : pc[w] = "gone"

\* A worker that waits for its permit has begun nothing since the pause.
Permits ==
  \A w \in Worker : /\ afterPause[w] <= 1
                    /\ paused /\ pc[w] = "pace" => afterPause[w] = 0

WPInv == TypeOK /\ PoolIsListed /\ SupervisorLast /\ Permits

LEMMA PoolConstants ==
  /\ MaxWorkers \in Nat /\ MaxWorkers >= 1 /\ MaxIds \in Nat
  /\ Concurrency \in 1 .. MaxWorkers
  /\ \A w \in Mutators \cup Loops : w \notin QueryId
  /\ \A w \in Worker : w \notin Loops
  /\ Worker \subseteq Routine /\ Loops \subseteq Routine /\ Mutators \subseteq Worker
BY PoolAssumption DEF PoolAssumption, QueryId, Worker, Routine

LEMMA InitWPInv == Init => WPInv
<1> SUFFICES ASSUME Init PROVE WPInv
  OBVIOUS
<1>1. Spawned = {} /\ Alive = {} /\ Listed = {} /\ cancelled = {} /\ DOMAIN workers = {}
  BY DEF Init, Spawned, Alive, Listed
<1>2. TypeOK
  <2>1. workers \in Seq(Spawned) /\ Len(workers) = 0
    BY DEF Init
  <2>2. paused \in BOOLEAN
    BY Zenon DEF Init
  <2>3. pc \in [Routine -> {"unborn", "top", "sleep", "pace", "op", "select", "gone"}]
    BY DEF Init
  <2>4. \A w \in QueryId : pc[w] = "unborn"
    BY PoolConstants DEF Init, Routine, Worker
  <2>5. afterPause \in [Worker -> 0 .. 2]
    BY DEF Init
  <2>6. target \in 1 .. MaxWorkers /\ changes \in Nat /\ nextID \in 0 .. MaxIds
    BY PoolConstants DEF Init
  <2>7. ctx = "live" /\ sup = "start" /\ run = "running"
    BY DEF Init
  <2>. QED BY <1>1, <2>1, <2>2, <2>3, <2>4, <2>5, <2>6, <2>7, PoolConstants DEF TypeOK
<1>3. PoolIsListed
  BY <1>1 DEF PoolIsListed
<1>4. SupervisorLast
  BY DEF Init, SupervisorLast
<1>5. Permits
  BY DEF Init, Permits
<1>. QED BY <1>2, <1>3, <1>4, <1>5 DEF WPInv

-----------------------------------------------------------------------------
(* A goroutine goes on.                                                    *)

\* Goroutine w, which was born and is not gone, is at another place.
LEMMA GotoPool ==
  ASSUME WPInv, NEW w \in Routine, NEW place \in {"top", "sleep", "pace", "op", "select", "gone"},
         Goto(w, place), pc[w] \notin {"unborn", "gone"},
         place = "gone" /\ w \in QueryId => Done(w),
         afterPause' \in [Worker -> 0 .. 2]
  PROVE  TypeOK' /\ PoolIsListed' /\ SupervisorLast'
<1>1. /\ pc' = [pc EXCEPT ![w] = place]
      /\ UNCHANGED <<ctx, target, paused, changes, sup, workers, nextID, cancelled, run>>
  BY DEF Goto
<1>2. TypeOK /\ pc \in [Routine -> {"unborn", "top", "sleep", "pace", "op", "select", "gone"}]
  BY DEF WPInv, TypeOK
<1>3. \A v \in Routine : pc'[v] = IF v = w THEN place ELSE pc[v]
  BY <1>1, <1>2
<1>4. Spawned' = Spawned /\ Listed' = Listed
  BY <1>1 DEF Spawned, Listed
<1>5. Spawned \subseteq QueryId
  BY <1>2, PoolConstants DEF TypeOK, Spawned, QueryId
<1>6. QueryId \subseteq Routine
  BY DEF Routine, Worker
<1>7. Alive' \subseteq Alive /\ \A v \in Alive : v \notin Alive' => v = w /\ place = "gone"
  BY <1>3, <1>4, <1>5, <1>6 DEF Alive
<1>8. TypeOK'
  <2>1. pc' \in [Routine -> {"unborn", "top", "sleep", "pace", "op", "select", "gone"}]
    BY <1>1, <1>2
  <2>2. \A v \in QueryId : pc'[v] = "unborn" <=> v \notin Spawned
    BY <1>2, <1>3, <1>6 DEF TypeOK
  <2>. QED BY <1>1, <1>2, <1>4, <2>1, <2>2 DEF TypeOK
<1>9. PoolIsListed'
  <2>1. PoolIsListed
    BY DEF WPInv
  <2>2. ctx = "live" /\ place = "gone" /\ w \in QueryId => w \in cancelled
    BY DEF Done
  <2>3. ctx = "live" => Listed \subseteq Alive'
    BY <1>5, <1>7, <2>1, <2>2 DEF PoolIsListed, Alive
  <2>. QED BY <1>1, <1>4, <1>7, <2>1, <2>3 DEF PoolIsListed
<1>10. SupervisorLast'
  <2>1. SupervisorLast
    BY DEF WPInv
  <2>2. sup = "gone" => Alive' = {}
    BY <1>7, <2>1 DEF SupervisorLast
  <2>3. run = "returned" => \A v \in Mutators \cup Loops : pc'[v] = "gone"
    <3> SUFFICES ASSUME run = "returned", NEW v \in Mutators \cup Loops PROVE pc'[v] = "gone"
      OBVIOUS
    <3>1. pc[v] = "gone" /\ v \in Routine
      BY <2>1, PoolConstants DEF SupervisorLast, Routine
    <3>. QED BY <1>3, <3>1
  <2>. QED BY <1>1, <2>1, <2>2, <2>3 DEF SupervisorLast
<1>. QED BY <1>8, <1>9, <1>10

\* The steps of a worker's loop that begin no operation.
LEMMA QuietWork ==
  ASSUME WPInv, NEW w \in Worker,
         Return(w) \/ Idle(w) \/ Wake(w) \/ Pace(w) \/ Nothing(w) \/ OperateEnds(w)
  PROVE  WPInv'
<1>1. PICK place \in {"top", "sleep", "pace", "op", "select", "gone"} :
        /\ Goto(w, place) /\ afterPause' = afterPause
        /\ pc[w] \notin {"unborn", "gone"}
        /\ place = "gone" => Done(w)
        /\ place = "pace" => ~paused
  BY DEF Return, Idle, Wake, Pace, Nothing, OperateEnds
<1>2. w \in Routine /\ afterPause \in [Worker -> 0 .. 2]
  BY DEF Routine, WPInv, TypeOK
<1>3. TypeOK' /\ PoolIsListed' /\ SupervisorLast'
  BY <1>1, <1>2, GotoPool
<1>4. Permits'
  <2> SUFFICES ASSUME NEW v \in Worker
               PROVE  /\ afterPause[v] <= 1
                      /\ paused /\ pc'[v] = "pace" => afterPause[v] = 0
    BY <1>1 DEF Goto, Permits
  <2>1. pc' = [pc EXCEPT ![w] = place] /\ v \in Routine
        /\ pc \in [Routine -> {"unborn", "top", "sleep", "pace", "op", "select", "gone"}]
    BY <1>1 DEF Goto, Routine, WPInv, TypeOK
  <2>2. /\ afterPause[v] <= 1
        /\ paused /\ pc[v] = "pace" => afterPause[v] = 0
    BY DEF WPInv, Permits
  <2>. QED BY <1>1, <2>1, <2>2
<1>. QED BY <1>3, <1>4 DEF WPInv

LEMMA OperateWork ==
  ASSUME WPInv, NEW w \in Worker, Operate(w)
  PROVE  WPInv'
<1>1. /\ pc[w] = "pace" /\ Goto(w, "op") /\ w \in Routine
      /\ afterPause \in [Worker -> 0 .. 2]
      /\ afterPause' = IF paused
                       THEN [afterPause EXCEPT ![w] = IF @ < 2 THEN @ + 1 ELSE 2]
                       ELSE afterPause
  BY DEF Operate, Routine, WPInv, TypeOK
<1>2. afterPause' \in [Worker -> 0 .. 2]
  <2>1. CASE paused
    <3>1. (IF afterPause[w] < 2 THEN afterPause[w] + 1 ELSE 2) \in 0 .. 2
      BY <1>1
    <3>. QED BY <1>1, <2>1, <3>1
  <2>. QED BY <1>1, <2>1
<1>3. TypeOK' /\ PoolIsListed' /\ SupervisorLast'
  BY <1>1, <1>2, GotoPool
<1>4. Permits'
  <2> SUFFICES ASSUME NEW v \in Worker
               PROVE  /\ afterPause'[v] <= 1
                      /\ paused /\ pc'[v] = "pace" => afterPause'[v] = 0
    BY <1>1 DEF Goto, Permits
  <2>1. /\ pc' = [pc EXCEPT ![w] = "op"] /\ v \in Routine
        /\ pc \in [Routine -> {"unborn", "top", "sleep", "pace", "op", "select", "gone"}]
    BY <1>1 DEF Goto, Routine, WPInv, TypeOK
  <2>2. /\ afterPause[v] <= 1
        /\ paused /\ pc[v] = "pace" => afterPause[v] = 0
        /\ paused => afterPause[w] = 0
    BY <1>1 DEF WPInv, Permits
  <2>3. CASE v = w
    BY <1>1, <2>1, <2>2, <2>3
  <2>4. CASE v # w
    BY <1>1, <2>1, <2>2, <2>4
  <2>. QED BY <2>3, <2>4
<1>. QED BY <1>3, <1>4 DEF WPInv

LEMMA LoopWork ==
  ASSUME WPInv, NEW w \in Loops, LoopTick(w) \/ LoopTickEnds(w) \/ LoopReturn(w)
  PROVE  WPInv'
<1>1. PICK place \in {"top", "sleep", "pace", "op", "select", "gone"} :
        /\ Goto(w, place) /\ afterPause' = afterPause
        /\ pc[w] \notin {"unborn", "gone"}
  BY DEF LoopTick, LoopTickEnds, LoopReturn
<1>2. w \in Routine /\ w \notin QueryId /\ w \notin Worker
      /\ afterPause \in [Worker -> 0 .. 2]
  BY PoolConstants DEF Routine, WPInv, TypeOK
<1>3. TypeOK' /\ PoolIsListed' /\ SupervisorLast'
  BY <1>1, <1>2, GotoPool
<1>4. Permits'
  <2>1. \A v \in Worker : pc'[v] = pc[v]
    BY <1>1, <1>2 DEF Goto, Routine, WPInv, TypeOK
  <2>. QED BY <1>1, <2>1 DEF Goto, WPInv, Permits
<1>. QED BY <1>3, <1>4 DEF WPInv

-----------------------------------------------------------------------------
(* The supervisor.                                                         *)

LEMMA AdjustGrows ==
  ASSUME WPInv, SupAdjust, Len(workers) < target
  PROVE  WPInv'
<1> DEFINE More == target - Len(workers)
           New == [i \in 1 .. More |-> nextID + i - 1]
<1>1. TypeOK /\ PoolIsListed /\ SupervisorLast /\ Permits
  BY DEF WPInv
<1>2. /\ nextID + target - Len(workers) <= MaxIds
      /\ workers' = workers \o New
      /\ nextID' = nextID + target - Len(workers)
      /\ pc' = [w \in Routine |-> IF w \in nextID .. nextID' - 1 THEN "top" ELSE pc[w]]
      /\ sup \in {"start", "select"} /\ sup' = "select"
      /\ UNCHANGED <<ctx, target, paused, changes, afterPause, run, cancelled>>
  BY DEF SupAdjust, Adjust, Grown
<1>3. /\ workers \in Seq(Spawned) /\ Len(workers) \in Nat /\ target \in 1 .. MaxWorkers
      /\ nextID \in 0 .. MaxIds /\ cancelled \subseteq Spawned
      /\ pc \in [Routine -> {"unborn", "top", "sleep", "pace", "op", "select", "gone"}]
  BY <1>1 DEF TypeOK
<1>4. More \in Nat /\ More >= 1 /\ nextID' = nextID + More /\ nextID' \in 0 .. MaxIds
      /\ MaxIds \in Nat /\ MaxWorkers \in Nat
  BY <1>2, <1>3, PoolConstants
<1>5. Spawned' = Spawned \cup (nextID .. nextID' - 1)
      /\ Spawned \cap (nextID .. nextID' - 1) = {} /\ Spawned' \subseteq QueryId
  BY <1>3, <1>4 DEF Spawned, QueryId
<1>6. New \in Seq(Spawned') /\ Len(New) = More /\ \A i \in 1 .. More : New[i] = nextID + i - 1
  BY <1>3, <1>4, <1>5
<1>7. /\ workers' \in Seq(Spawned') /\ Len(workers') = target
      /\ \A i \in 1 .. Len(workers) : workers'[i] = workers[i]
      /\ \A i \in Len(workers) + 1 .. target : workers'[i] = nextID + (i - Len(workers)) - 1
  <2>1. workers \in Seq(Spawned')
    BY <1>3, <1>5, SeqMonotonic, Zenon
  <2> HIDE DEF New, More
  <2>2. /\ workers \o New \in Seq(Spawned')
        /\ Len(workers \o New) = Len(workers) + Len(New)
        /\ \A i \in 1 .. Len(workers) + Len(New) :
             (workers \o New)[i] = IF i <= Len(workers) THEN workers[i]
                                   ELSE New[i - Len(workers)]
    BY <1>6, <2>1, ConcatProperties, Zenon
  <2>3. Len(workers) + More = target
    BY <1>3 DEF More
  <2>4. \A i \in 1 .. Len(workers) : workers'[i] = workers[i]
    BY <1>2, <1>3, <1>4, <1>6, <2>2
  <2>5. \A i \in Len(workers) + 1 .. target : workers'[i] = nextID + (i - Len(workers)) - 1
    <3> SUFFICES ASSUME NEW i \in Len(workers) + 1 .. target
                 PROVE  workers'[i] = nextID + (i - Len(workers)) - 1
      OBVIOUS
    <3>1. i - Len(workers) \in 1 .. More /\ i \in 1 .. Len(workers) + Len(New)
          /\ ~(i <= Len(workers))
      BY <1>3, <1>4, <1>6, <2>3
    <3>. QED BY <1>2, <1>6, <2>2, <3>1
  <2>. QED BY <1>2, <1>6, <2>2, <2>3, <2>4, <2>5
<1> HIDE DEF New, More
<1>8. DOMAIN workers = 1 .. Len(workers) /\ DOMAIN workers' = 1 .. target
  BY <1>3, <1>7
<1>9. \A w \in Routine : pc'[w] = IF w \in nextID .. nextID' - 1 THEN "top" ELSE pc[w]
  BY <1>2
<1>10. QueryId \subseteq Routine /\ QueryId \cap (Mutators \cup Loops) = {}
       /\ Mutators \cup Loops \subseteq Routine
  BY PoolConstants DEF Routine, Worker
<1>11. TypeOK'
  <2>1. pc' \in [Routine -> {"unborn", "top", "sleep", "pace", "op", "select", "gone"}]
    BY <1>2, <1>3
  <2>2. \A w \in QueryId : pc'[w] = "unborn" <=> w \notin Spawned'
    BY <1>1, <1>5, <1>9, <1>10 DEF TypeOK
  <2>3. Len(workers') <= MaxWorkers
    BY <1>3, <1>4, <1>7
  <2>4. cancelled' \subseteq Spawned'
    BY <1>2, <1>3, <1>5
  <2>. QED BY <1>1, <1>2, <1>4, <1>7, <2>1, <2>2, <2>3, <2>4 DEF TypeOK
<1>12. Listed' = Listed \cup (nextID .. nextID' - 1)
  <2>1. ASSUME NEW n \in nextID .. nextID' - 1 PROVE n \in Listed'
    <3>1. n - nextID + Len(workers) + 1 \in Len(workers) + 1 .. target
      BY <1>2, <1>3, <1>4
    <3>2. workers'[n - nextID + Len(workers) + 1] = n
      BY <1>3, <1>4, <1>7, <3>1
    <3>. QED BY <1>3, <1>8, <3>1, <3>2 DEF Listed
  <2>2. ASSUME NEW i \in DOMAIN workers PROVE workers[i] \in Listed'
    BY <1>2, <1>3, <1>4, <1>7, <1>8 DEF Listed
  <2>3. ASSUME NEW i \in DOMAIN workers' PROVE workers'[i] \in Listed \cup (nextID .. nextID' - 1)
    <3>1. CASE i \in 1 .. Len(workers)
      BY <1>7, <1>8, <3>1 DEF Listed
    <3>2. CASE i \in Len(workers) + 1 .. target
      BY <1>2, <1>3, <1>4, <1>7, <3>2
    <3>. QED BY <1>3, <1>8, <2>3, <3>1, <3>2
  <2>. QED BY <2>1, <2>2, <2>3 DEF Listed
<1>13. Alive' = Alive \cup (nextID .. nextID' - 1)
  BY <1>5, <1>9, <1>10 DEF Alive
<1>14. PoolIsListed'
  <2>1. ASSUME NEW i \in DOMAIN workers', NEW j \in DOMAIN workers', i # j
        PROVE  workers'[i] # workers'[j]
    <3>1. \A n \in 1 .. Len(workers) : workers[n] \in Spawned
      BY <1>3
    <3>2. CASE i \in 1 .. Len(workers) /\ j \in 1 .. Len(workers)
      BY <1>1, <1>7, <1>8, <2>1, <3>2 DEF PoolIsListed
    <3>3. CASE i \in Len(workers) + 1 .. target /\ j \in Len(workers) + 1 .. target
      BY <1>3, <1>7, <2>1, <3>3
    <3>4. CASE i \in 1 .. Len(workers) /\ j \in Len(workers) + 1 .. target
      BY <1>3, <1>7, <3>1, <3>4 DEF Spawned
    <3>5. CASE j \in 1 .. Len(workers) /\ i \in Len(workers) + 1 .. target
      BY <1>3, <1>7, <3>1, <3>5 DEF Spawned
    <3>. QED BY <1>3, <1>8, <3>2, <3>3, <3>4, <3>5
  <2>2. Listed' \cap cancelled' = {}
    BY <1>1, <1>2, <1>3, <1>5, <1>12 DEF PoolIsListed
  <2>3. ctx' = "live" => Listed' \subseteq Alive'
    BY <1>1, <1>2, <1>12, <1>13 DEF PoolIsListed
  <2>4. Alive' \ Listed' \subseteq cancelled'
    BY <1>1, <1>2, <1>12, <1>13 DEF PoolIsListed
  <2>. QED BY <2>1, <2>2, <2>3, <2>4 DEF PoolIsListed
<1>15. SupervisorLast'
  BY <1>1, <1>2 DEF SupervisorLast
<1>16. Permits'
  <2>1. \A w \in Worker : w \in Routine
    BY PoolConstants
  <2>2. \A w \in Worker : pc'[w] = "pace" => pc[w] = "pace"
    BY <1>9, <2>1
  <2>. QED BY <1>1, <1>2, <2>2 DEF Permits
<1>. QED BY <1>11, <1>14, <1>15, <1>16 DEF WPInv

LEMMA AdjustShrinks ==
  ASSUME WPInv, SupAdjust, ~(Len(workers) < target)
  PROVE  WPInv'
<1>1. TypeOK /\ PoolIsListed /\ SupervisorLast /\ Permits
  BY DEF WPInv
<1>2. /\ workers' = SubSeq(workers, 1, target)
      /\ cancelled' = cancelled \cup {workers[i] : i \in target + 1 .. Len(workers)}
      /\ sup \in {"start", "select"} /\ sup' = "select"
      /\ UNCHANGED <<ctx, target, paused, changes, afterPause, run, nextID, pc>>
  BY DEF SupAdjust, Adjust, Shrunk
<1>3. /\ workers \in Seq(Spawned) /\ Len(workers) \in Nat /\ target \in 1 .. MaxWorkers
      /\ target <= Len(workers) /\ cancelled \subseteq Spawned
      /\ Len(workers) <= MaxWorkers /\ MaxWorkers \in Nat
  BY <1>1, PoolConstants DEF TypeOK
<1>4. \A i \in 1 .. Len(workers) : workers[i] \in Spawned
  BY <1>3, ElementOfSeq
<1>5. /\ workers' \in Seq(Spawned) /\ Len(workers') = target
      /\ \A i \in 1 .. target : workers'[i] = workers[i]
  <2>1. 1 \in Int /\ target \in Int /\ \A i \in 1 .. target : workers[i] \in Spawned
    BY <1>3, <1>4
  <2>2. /\ SubSeq(workers, 1, target) \in Seq(Spawned)
        /\ Len(SubSeq(workers, 1, target)) = IF 1 <= target THEN target - 1 + 1 ELSE 0
        /\ \A i \in 1 .. target - 1 + 1 : SubSeq(workers, 1, target)[i] = workers[1 + i - 1]
    BY <2>1, SubSeqProperties
  <2>. QED BY <1>2, <1>3, <2>2
<1>6. DOMAIN workers = 1 .. Len(workers) /\ DOMAIN workers' = 1 .. target
      /\ 1 .. target \subseteq 1 .. Len(workers)
  BY <1>3, <1>5
<1>7. Spawned' = Spawned /\ Alive' = Alive
  BY <1>2 DEF Spawned, Alive
<1>8. Listed = Listed' \cup {workers[i] : i \in target + 1 .. Len(workers)}
  BY <1>3, <1>5, <1>6 DEF Listed
<1>9. Listed' \cap {workers[i] : i \in target + 1 .. Len(workers)} = {}
  BY <1>1, <1>3, <1>5, <1>6 DEF Listed, PoolIsListed
<1>10. TypeOK'
  <2>1. cancelled' \subseteq Spawned'
    BY <1>2, <1>3, <1>4, <1>7
  <2>2. workers' \in Seq(Spawned') /\ Len(workers') <= MaxWorkers
    BY <1>3, <1>5, <1>7
  <2>. QED BY <1>1, <1>2, <1>7, <2>1, <2>2 DEF TypeOK
<1>11. PoolIsListed'
  <2>1. \A i, j \in DOMAIN workers' : i # j => workers'[i] # workers'[j]
    BY <1>1, <1>5, <1>6 DEF PoolIsListed
  <2>2. Listed' \cap cancelled' = {}
    BY <1>1, <1>2, <1>8, <1>9 DEF PoolIsListed
  <2>3. ctx' = "live" => Listed' \subseteq Alive'
    BY <1>1, <1>2, <1>7, <1>8 DEF PoolIsListed
  <2>4. Alive' \ Listed' \subseteq cancelled'
    BY <1>1, <1>2, <1>7, <1>8 DEF PoolIsListed
  <2>. QED BY <2>1, <2>2, <2>3, <2>4 DEF PoolIsListed
<1>12. SupervisorLast' /\ Permits'
  BY <1>1, <1>2 DEF SupervisorLast, Permits
<1>. QED BY <1>10, <1>11, <1>12 DEF WPInv

-----------------------------------------------------------------------------
(* The dashboard, the main program, and the ends.                          *)

\* A step that leaves the workers and the supervisor's list alone.
LEMMA OtherSteps ==
  ASSUME WPInv,
         \/ \E v \in 0 .. MaxWorkers + 1 : SetConcurrency(v)
         \/ \E v \in BOOLEAN : SetPaused(v)
         \/ Cancel \/ SupDone \/ SupReturn \/ RunReturn
  PROVE  WPInv'
<1>1. TypeOK /\ PoolIsListed /\ SupervisorLast /\ Permits
  BY DEF WPInv
<1>2. UNCHANGED <<workers, nextID, cancelled, pc>> /\ ctx' \in {ctx, "cancelled"}
  BY DEF SetConcurrency, SetPaused, Cancel, SupDone, SupReturn, RunReturn
<1>3. Spawned' = Spawned /\ Alive' = Alive /\ Listed' = Listed
  BY <1>2 DEF Spawned, Alive, Listed
<1>4. PoolIsListed'
  BY <1>1, <1>2, <1>3 DEF PoolIsListed
<1>5. TypeOK'
  <2>1. target' \in 1 .. MaxWorkers /\ changes' \in Nat
    BY <1>1, PoolConstants
    DEF TypeOK, SetConcurrency, SetPaused, Cancel, SupDone, SupReturn, RunReturn, Clamp
  <2>2. paused' \in BOOLEAN
    BY <1>1 DEF TypeOK, SetConcurrency, SetPaused, Cancel, SupDone, SupReturn, RunReturn
  <2>3. afterPause' \in [Worker -> 0 .. 2]
    BY <1>1 DEF TypeOK, SetConcurrency, SetPaused, Cancel, SupDone, SupReturn, RunReturn
  <2>4. ctx' \in {"live", "cancelled"} /\ sup' \in {"start", "select", "wait", "gone"}
        /\ run' \in {"running", "returned"}
    BY <1>1 DEF TypeOK, SetConcurrency, SetPaused, Cancel, SupDone, SupReturn, RunReturn
  <2>. QED BY <1>1, <1>2, <1>3, <2>1, <2>2, <2>3, <2>4 DEF TypeOK
<1>6. SupervisorLast'
  BY <1>1, <1>2, <1>3
  DEF SupervisorLast, SetConcurrency, SetPaused, Cancel, SupDone, SupReturn, RunReturn
<1>7. Permits'
  <2>1. ASSUME NEW v \in BOOLEAN, SetPaused(v) PROVE Permits'
    BY <1>1, <2>1 DEF Permits, SetPaused
  <2>2. CASE UNCHANGED <<paused, afterPause>>
    BY <1>1, <1>2, <2>2 DEF Permits
  <2>. QED BY <2>1, <2>2 DEF SetConcurrency, Cancel, SupDone, SupReturn, RunReturn
<1>. QED BY <1>4, <1>5, <1>6, <1>7 DEF WPInv

LEMMA NextWPInv == WPInv /\ [Next]_vars => WPInv'
<1>1. WPInv /\ UNCHANGED vars => WPInv'
  BY DEF vars, WPInv, TypeOK, PoolIsListed, SupervisorLast, Permits, Spawned, Alive,
     Listed
<1>2. WPInv /\ Next => WPInv'
  BY QuietWork, OperateWork, LoopWork, AdjustGrows, AdjustShrinks, OtherSteps
  DEF Next, Work
<1>. QED BY <1>1, <1>2

LEMMA AlwaysWPInv == Spec => []WPInv
BY InitWPInv, NextWPInv, PTL DEF Spec

-----------------------------------------------------------------------------
(* PoolHolds: for any number of workers, however the concurrency changes   *)
(* and whenever the context ends, the supervisor lists exactly the workers *)
(* that are to run, and Run returns after all goroutines (querySupervisor, *)
(* Run).                                                                   *)
THEOREM PoolHolds == Spec => []PoolInv
<1>1. WPInv => PoolInv
  BY DEF WPInv, PoolInv, SupervisorLast, DrainedBeforeClose
<1>. QED BY <1>1, AlwaysWPInv, PTL

(* PauseIsPrompt: after a pause no worker begins more than the operation   *)
(* whose permit it was waiting for (queryer, ingester).                    *)
THEOREM PauseIsPrompt == Spec => []OneOperationAfterPause
<1>1. WPInv => OneOperationAfterPause
  BY DEF WPInv, Permits, OneOperationAfterPause
<1>. QED BY <1>1, AlwaysWPInv, PTL

-----------------------------------------------------------------------------
(* The end of a run, as far as it needs no fairness: somebody can always   *)
(* go on, and a worker that goes on comes closer to its end.               *)

\* The places of query workers and mutators, and of loops.
Places ==
  /\ \A w \in Worker : pc[w] # "select"
  /\ \A w \in Mutators : pc[w] # "unborn"
  /\ \A w \in Loops : pc[w] \in {"select", "op", "gone"}
  /\ sup = "start" => nextID = 0 /\ Len(workers) = 0

\* Steps that worker w has left at most, once its context has ended.
StepsLeft(w) ==
  CASE pc[w] = "unborn" -> 5
    [] pc[w] = "pace" -> 4
    [] pc[w] = "op" -> 3
    [] pc[w] = "sleep" -> 2
    [] pc[w] = "top" -> 1
    [] OTHER -> 0

\* Some goroutine has a step, whatever all the others do.
SomebodyGoesOn ==
  \/ \E w \in Worker : pc[w] \in {"sleep", "pace", "op"} \/ (pc[w] = "top" /\ Done(w))
  \/ \E w \in Loops : pc[w] \in {"select", "op"}
  \/ sup = "start" /\ nextID + target - Len(workers) <= MaxIds
  \/ sup = "select"
  \/ sup = "wait" /\ Alive = {}
  \/ sup = "gone" /\ \A w \in Mutators \cup Loops : pc[w] = "gone"

\* adjust starts new workers, and moves nobody else.
LEMMA AdjustSpawns ==
  ASSUME WPInv, SupAdjust
  PROVE  /\ sup' = "select"
         /\ \A w \in Routine : pc'[w] # pc[w] =>
              w \in QueryId /\ pc[w] = "unborn" /\ pc'[w] = "top"
<1>1. /\ nextID \in Nat /\ QueryId \subseteq Routine
      /\ MaxIds \in Nat /\ target \in Nat /\ Len(workers) \in Nat
      /\ \A w \in QueryId : pc[w] = "unborn" <=> w \notin Spawned
  BY PoolConstants DEF WPInv, TypeOK, Routine, Worker
<1>2. CASE Len(workers) < target
  <2>1. /\ nextID' = nextID + target - Len(workers) /\ nextID' <= MaxIds
        /\ pc' = [w \in Routine |-> IF w \in nextID .. nextID' - 1 THEN "top" ELSE pc[w]]
    BY <1>2 DEF SupAdjust, Adjust
  <2>2. \A w \in nextID .. nextID' - 1 : w \in QueryId /\ w \notin Spawned
    BY <1>1, <2>1 DEF QueryId, Spawned
  <2>. QED BY <1>1, <2>1, <2>2 DEF SupAdjust
<1>3. CASE ~(Len(workers) < target)
  BY <1>3 DEF SupAdjust, Adjust
<1>. QED BY <1>2, <1>3

LEMMA StepsAreNat == \A w \in Worker : StepsLeft(w) \in 0 .. 5
BY DEF StepsLeft

LEMMA InitPlaces == Init => Places
BY PoolConstants DEF Init, Places, Routine, Worker

LEMMA NextPlaces == WPInv /\ Places /\ [Next]_vars => Places'
<1>. SUFFICES ASSUME WPInv, Places, [Next]_vars
              PROVE  Places'
  OBVIOUS
<1>1. /\ pc \in [Routine -> {"unborn", "top", "sleep", "pace", "op", "select", "gone"}]
      /\ Worker \subseteq Routine /\ Loops \subseteq Routine /\ Mutators \subseteq Worker
      /\ \A w \in Worker : w \notin Loops
      /\ \A w \in Mutators \cup Loops : w \notin QueryId
  BY PoolConstants DEF WPInv, TypeOK
<1>2. ASSUME NEW w \in Worker, Work(w)
      PROVE  Places'
  <2>1. PICK place \in {"top", "sleep", "pace", "op", "gone"} :
          /\ pc' = [pc EXCEPT ![w] = place]
          /\ UNCHANGED <<sup, nextID, workers>>
    BY <1>2 DEF Work, Return, Idle, Wake, Pace, Operate, Nothing, OperateEnds, Goto
  <2>. QED BY <1>1, <2>1 DEF Places
<1>3. ASSUME NEW w \in Loops, LoopTick(w) \/ LoopTickEnds(w) \/ LoopReturn(w)
      PROVE  Places'
  <2>1. PICK place \in {"op", "select", "gone"} :
          /\ pc' = [pc EXCEPT ![w] = place]
          /\ UNCHANGED <<sup, nextID, workers>>
    BY <1>3 DEF LoopTick, LoopTickEnds, LoopReturn, Goto
  <2>. QED BY <1>1, <2>1 DEF Places
<1>4. CASE SupAdjust
  <2>1. /\ sup' = "select"
        /\ \A w \in Routine : pc'[w] # pc[w] => w \in QueryId /\ pc'[w] = "top"
    BY <1>4, AdjustSpawns
  <2>. QED BY <1>1, <2>1 DEF Places
<1>5. CASE \/ \E v \in 0 .. MaxWorkers + 1 : SetConcurrency(v)
           \/ \E v \in BOOLEAN : SetPaused(v)
           \/ Cancel \/ SupDone \/ SupReturn \/ RunReturn
  <2>1. UNCHANGED <<pc, nextID, workers>> /\ (sup' = "start" => sup = "start")
    BY <1>5 DEF SetConcurrency, SetPaused, Cancel, SupDone, SupReturn, RunReturn
  <2>. QED BY <2>1 DEF Places
<1>6. CASE UNCHANGED vars
  BY <1>6 DEF vars, Places
<1>. QED BY <1>2, <1>3, <1>4, <1>5, <1>6 DEF Next

LEMMA AlwaysPlaces == Spec => [](WPInv /\ Places)
BY InitWPInv, NextWPInv, InitPlaces, NextPlaces, PTL DEF Spec

(* NobodyWaitsForEverybody: until Run has returned, somebody can go on     *)
(* once the context is cancelled: the supervisor waits for its workers,    *)
(* Run for all, and none of them for either (Runner.Run, querySupervisor). *)
(* MaxIds has to leave room for the workers of the start.                  *)
THEOREM NobodyWaitsForEverybody ==
  ASSUME MaxWorkers <= MaxIds
  PROVE  Spec => [](ctx = "cancelled" /\ run = "running" => SomebodyGoesOn)
<1>1. ASSUME WPInv, Places, ctx = "cancelled", run = "running"
      PROVE  SomebodyGoesOn
  <2>1. TypeOK /\ \A w \in Worker : Done(w)
    BY <1>1 DEF WPInv, Done
  <2>2. CASE sup = "start"
    <3>1. nextID + target - Len(workers) <= MaxIds
      BY <1>1, <2>1, <2>2, PoolConstants DEF Places, TypeOK
    <3>. QED BY <2>2, <3>1 DEF SomebodyGoesOn
  <2>3. CASE sup = "wait" /\ Alive # {}
    <3>1. PICK w \in Alive : TRUE
      BY <2>3
    <3>2. w \in QueryId /\ w \in Worker
      BY <2>1, PoolConstants DEF Alive, Spawned, QueryId, Worker, TypeOK
    <3>3. pc[w] \in {"top", "sleep", "pace", "op"}
      BY <1>1, <2>1, <3>2 DEF TypeOK, Alive, Places, Routine
    <3>. QED BY <2>1, <3>2, <3>3 DEF SomebodyGoesOn
  <2>4. CASE sup = "gone" /\ \E w \in Mutators \cup Loops : pc[w] # "gone"
    <3>1. PICK w \in Mutators \cup Loops : pc[w] # "gone"
      BY <2>4
    <3>2. CASE w \in Loops
      BY <1>1, <3>1, <3>2 DEF Places, SomebodyGoesOn
    <3>3. CASE w \in Mutators
      <4>1. w \in Worker /\ pc[w] \in {"top", "sleep", "pace", "op"}
        BY <1>1, <2>1, <3>1, <3>3, PoolConstants DEF TypeOK, Places, Routine
      <4>. QED BY <2>1, <4>1 DEF SomebodyGoesOn
    <3>. QED BY <3>2, <3>3
  <2>. QED BY <2>1, <2>2, <2>3, <2>4 DEF TypeOK, SomebodyGoesOn
<1>. QED BY <1>1, AlwaysPlaces, PTL

(* WorkersWindDown: once the context is cancelled, each step of a worker   *)
(* brings it closer to its end, paused or not, resized or not: it begins   *)
(* at most the operation whose permit it was waiting for, and it is gone   *)
(* after four steps (queryer, ingester, sleepCtx).                         *)
THEOREM WorkersWindDown ==
  Spec => [][ctx = "cancelled" =>
               /\ \A w \in Worker : StepsLeft(w)' <= StepsLeft(w)
               /\ \A w \in Worker : Work(w) => StepsLeft(w)' < StepsLeft(w)]_vars
<1>1. ASSUME WPInv, Places, Next, ctx = "cancelled"
      PROVE  /\ \A w \in Worker : StepsLeft(w)' <= StepsLeft(w)
             /\ \A w \in Worker : Work(w) => StepsLeft(w)' < StepsLeft(w)
  <2>1. pc \in [Routine -> {"unborn", "top", "sleep", "pace", "op", "select", "gone"}]
        /\ Worker \subseteq Routine /\ \A w \in Worker : w \notin Loops /\ Done(w)
    BY <1>1, PoolConstants DEF WPInv, TypeOK, Done
  <2>2. ASSUME NEW w \in Worker, Work(w)
        PROVE  /\ StepsLeft(w)' < StepsLeft(w)
               /\ \A v \in Worker : v # w => pc'[v] = pc[v]
    <3>1. w \in Routine
      BY <2>1
    <3>2. \/ pc[w] = "top" /\ pc'[w] = "gone"
          \/ pc[w] = "sleep" /\ pc'[w] = "top"
          \/ pc[w] = "pace" /\ pc'[w] \in {"op", "sleep", "top"}
          \/ pc[w] = "op" /\ pc'[w] = "top"
      BY <2>1, <2>2, <3>1
      DEF Work, Return, Idle, Wake, Pace, Operate, Nothing, OperateEnds, Goto
    <3>3. \A v \in Worker : v # w => pc'[v] = pc[v]
      BY <2>1, <2>2 DEF Work, Return, Idle, Wake, Pace, Operate, Nothing, OperateEnds, Goto
    <3>. QED BY <3>2, <3>3 DEF StepsLeft
  <2>3. ASSUME NEW w \in Worker, pc'[w] = pc[w] \/ (pc[w] = "unborn" /\ pc'[w] = "top")
        PROVE  StepsLeft(w)' <= StepsLeft(w)
    <3>1. CASE pc'[w] = pc[w]
      <4>1. StepsLeft(w)' = StepsLeft(w)
        BY <3>1 DEF StepsLeft
      <4>. QED BY <4>1, StepsAreNat
    <3>2. CASE pc[w] = "unborn" /\ pc'[w] = "top"
      BY <3>2 DEF StepsLeft
    <3>. QED BY <2>3, <3>1, <3>2
  <2>4. CASE \E w \in Worker : Work(w)
    <3>1. PICK u \in Worker : Work(u)
      BY <2>4
    <3>2. ASSUME NEW v \in Worker
          PROVE  StepsLeft(v)' <= StepsLeft(v)
      <4>1. CASE v = u
        <5>1. StepsLeft(u)' < StepsLeft(u)
          BY <2>2, <3>1
        <5>2. StepsLeft(u) \in Nat /\ StepsLeft(u)' \in Nat
          BY StepsAreNat DEF StepsLeft
        <5>. QED BY <4>1, <5>1, <5>2
      <4>2. CASE v # u
        <5>1. pc'[v] = pc[v]
          BY <2>2, <3>1, <4>2
        <5>. QED BY <2>3, <5>1
      <4>. QED BY <4>1, <4>2
    <3>3. ASSUME NEW v \in Worker, Work(v)
          PROVE  StepsLeft(v)' < StepsLeft(v)
      BY <2>2, <3>3
    <3>. QED BY <3>2, <3>3
  <2>5. CASE ~ \E w \in Worker : Work(w)
    <3>1. ASSUME NEW w \in Worker
          PROVE  pc'[w] = pc[w] \/ (pc[w] = "unborn" /\ pc'[w] = "top")
      <4>1. CASE SupAdjust
        BY <1>1, <2>1, <4>1, AdjustSpawns
      <4>2. ASSUME NEW v \in Loops, LoopTick(v) \/ LoopTickEnds(v) \/ LoopReturn(v)
            PROVE  pc'[w] = pc[w]
        <5>1. PICK place \in {"op", "select", "gone"} : pc' = [pc EXCEPT ![v] = place]
          BY <4>2 DEF LoopTick, LoopTickEnds, LoopReturn, Goto
        <5>2. w # v /\ w \in Routine
          BY <2>1
        <5>. QED BY <2>1, <5>1, <5>2
      <4>3. CASE \/ \E v \in 0 .. MaxWorkers + 1 : SetConcurrency(v)
                 \/ \E v \in BOOLEAN : SetPaused(v)
                 \/ Cancel \/ SupDone \/ SupReturn \/ RunReturn
        <5>1. pc' = pc
          BY <4>3 DEF SetConcurrency, SetPaused, Cancel, SupDone, SupReturn, RunReturn
        <5>. QED BY <5>1
      <4>. QED BY <1>1, <2>5, <4>1, <4>2, <4>3 DEF Next
    <3>. QED BY <2>3, <2>5, <3>1
  <2>. QED BY <2>4, <2>5
<1>2. ASSUME WPInv, Places, [Next]_vars
      PROVE  [ctx = "cancelled" =>
               /\ \A w \in Worker : StepsLeft(w)' <= StepsLeft(w)
               /\ \A w \in Worker : Work(w) => StepsLeft(w)' < StepsLeft(w)]_vars
  BY <1>1, <1>2
<1>. QED BY <1>2, AlwaysPlaces, PTL DEF Spec
=============================================================================
