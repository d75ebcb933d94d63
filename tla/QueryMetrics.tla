---------------------------- MODULE QueryMetrics ----------------------------
(***************************************************************************)
(* The latency metrics of chatstress (use case 06): query workers record   *)
(* into a histogram of atomic buckets and into atomic counters, one after  *)
(* another, while the metric loop loads them one after another and turns   *)
(* the difference to its last snapshot into the percentiles of a window.   *)
(* Nothing is locked, so a snapshot need not be a state the histogram was  *)
(* ever in.                                                                *)
(***************************************************************************)
EXTENDS Integers, Sequences, FiniteSetsExt

CONSTANTS
  Queryer,    \* query goroutines
  Bounds,     \* latBoundsMs, the upper bounds of the buckets
  Latency,    \* the latencies that occur
  SlowMs,     \* query.slow_ms
  Rank,       \* the percentiles taken, as <<numerator, denominator>>
  MaxQueries  \* bound: so many queries are run

ASSUME BoundsAssumption ==
  /\ Bounds \in Seq(Nat) /\ Bounds # << >>
  /\ \A i, j \in DOMAIN Bounds : i < j => Bounds[i] < Bounds[j]

ASSUME NumbersAssumption ==
  /\ IsFiniteSet(Queryer)
  /\ Latency \subseteq Nat /\ SlowMs \in Nat /\ MaxQueries \in Nat
  /\ \A p \in Rank : p[1] \in Nat /\ p[2] \in Nat \ {0} /\ p[1] <= p[2]

Bucket == 1 .. Len(Bounds) + 1   \* the last one takes the overflow
Empty == [b \in Bucket |-> 0]

VARIABLES
  buckets,   \* Hist.buckets
  queries,   \* Counters.Queries
  slow,      \* Counters.SlowQueries
  worker,    \* worker[q] = [pc, d]: how far RecordQuery(d) has come
  loop,      \* the metric loop: [pc, next, q, snap]
  prevQ, prevBuckets,
  window,    \* delta, the counts of the last window
  begun,     \* history: the buckets when the last snapshot began
  windowed   \* history: the counts of all windows and of the first snapshot

loopVars == <<loop, prevQ, prevBuckets, window, begun, windowed>>
vars == <<buckets, queries, slow, worker, loopVars>>

Init ==
  /\ buckets = Empty /\ queries = 0 /\ slow = 0
  /\ worker = [q \in Queryer |-> [pc |-> "idle", d |-> 0]]
  /\ loop = [pc |-> "first", next |-> 1, q |-> 0, snap |-> Empty]
  /\ prevQ = 0 /\ prevBuckets = Empty /\ window = Empty
  /\ begun = Empty /\ windowed = Empty

-----------------------------------------------------------------------------
(* RecordQuery.                                                            *)

\* The first bucket whose bound is not below d.
BucketOf(d) ==
  Min({i \in DOMAIN Bounds : d <= Bounds[i]} \cup {Len(Bounds) + 1})

Started == queries + Cardinality({q \in Queryer : worker[q].pc = "recorded"})

\* Hist.Record.
Record(q, d) ==
  /\ worker[q].pc = "idle" /\ Started < MaxQueries
  /\ buckets' = [buckets EXCEPT ![BucketOf(d)] = @ + 1]
  /\ worker' = [worker EXCEPT ![q] = [pc |-> "recorded", d |-> d]]
  /\ UNCHANGED <<queries, slow, loopVars>>

CountQuery(q) ==
  /\ worker[q].pc = "recorded"
  /\ queries' = queries + 1
  /\ worker' = [worker EXCEPT ![q].pc = "counted"]
  /\ UNCHANGED <<buckets, slow, loopVars>>

CountSlow(q) ==
  /\ worker[q].pc = "counted"
  /\ slow' = IF worker[q].d >= SlowMs THEN slow + 1 ELSE slow
  /\ worker' = [worker EXCEPT ![q].pc = "idle"]
  /\ UNCHANGED <<buckets, queries, loopVars>>

-----------------------------------------------------------------------------
(* The metric loop.  Its first pass only sets prevQ and prevBuckets.       *)

LoadCounter ==
  /\ loop.pc \in {"first", "tick"}
  /\ loop' = [loop EXCEPT !.next = 1, !.q = queries,
                          !.pc = IF @ = "first" THEN "prime" ELSE "load"]
  /\ begun' = buckets
  /\ UNCHANGED <<buckets, queries, slow, worker, prevQ, prevBuckets, window,
                 windowed>>

\* Snapshot loads the next bucket.
LoadBucket ==
  /\ loop.pc \in {"prime", "load"} /\ loop.next \in Bucket
  /\ loop' = [loop EXCEPT !.snap[loop.next] = buckets[loop.next], !.next = @ + 1]
  /\ UNCHANGED <<buckets, queries, slow, worker, prevQ, prevBuckets, window,
                 begun, windowed>>

Delta == [b \in Bucket |-> loop.snap[b] - prevBuckets[b]]

\* Mutant: keeps the buckets as they are by now.
EndWindowReload ==
  /\ loop.pc \in {"prime", "load"} /\ loop.next \notin Bucket
  /\ window' = IF loop.pc = "load" THEN Delta ELSE window
  /\ windowed' = [b \in Bucket |-> windowed[b] + Delta[b]]
  /\ prevQ' = loop.q /\ prevBuckets' = buckets
  /\ loop' = [loop EXCEPT !.pc = "tick"]
  /\ UNCHANGED <<buckets, queries, slow, worker, begun>>

EndWindow ==
  /\ loop.pc \in {"prime", "load"} /\ loop.next \notin Bucket
  /\ window' = IF loop.pc = "load" THEN Delta ELSE window
  /\ windowed' = [b \in Bucket |-> windowed[b] + Delta[b]]
  /\ prevQ' = loop.q /\ prevBuckets' = loop.snap
  /\ loop' = [loop EXCEPT !.pc = "tick"]
  /\ UNCHANGED <<buckets, queries, slow, worker, begun>>

-----------------------------------------------------------------------------
(* PercentileOf.                                                           *)

Total(counts) == SumFunction(counts)
Cumulated(counts, b) == SumFunctionOnSet(counts, 1 .. b)

\* int64(p * total) rounds down.
Target(p, counts) == (p[1] * Total(counts)) \div p[2]

\* The bucket whose bound is the estimate; no counts, no estimate (0).
Percentile(counts, p) ==
  IF Total(counts) = 0 THEN 0
  ELSE Min({b \in Bucket : Cumulated(counts, b) >= Target(p, counts)})

-----------------------------------------------------------------------------
Next ==
  \/ \E q \in Queryer, d \in Latency : Record(q, d)
  \/ \E q \in Queryer : CountQuery(q)
  \/ \E q \in Queryer : CountSlow(q)
  \/ LoadCounter
  \/ LoadBucket
  \/ EndWindow

Spec == Init /\ [][Next]_vars

-----------------------------------------------------------------------------
TypeOK ==
  /\ buckets \in [Bucket -> Nat] /\ queries \in Nat /\ slow \in Nat
  /\ worker \in [Queryer -> [pc : {"idle", "recorded", "counted"},
                             d : Latency \cup {0}]]
  /\ loop \in [pc : {"first", "prime", "tick", "load"},
               next : 1 .. Len(Bounds) + 2, q : Nat, snap : [Bucket -> Nat]]
  /\ prevQ \in Nat /\ prevBuckets \in [Bucket -> Nat]
  /\ window \in [Bucket -> Nat]
  /\ begun \in [Bucket -> Nat] /\ windowed \in [Bucket -> Nat]

(* EveryQueryInOneWindow: what has been in a window, or in the first       *)
(* snapshot, is what the last snapshot has counted: no query that was      *)
(* recorded before that snapshot began is missed, none is counted twice,   *)
(* though the snapshot is torn (metricLoop's delta).                       *)
EveryQueryInOneWindow ==
  /\ windowed = prevBuckets
  /\ loop.pc = "tick" => \A b \in Bucket :
       begun[b] <= windowed[b] /\ windowed[b] <= buckets[b]

(* RateBehindWindow: the counter behind query_rate never runs ahead of the *)
(* buckets behind the percentiles: up to any sample, the rates account for *)
(* no query whose latency no window has shown (metricLoop loads the        *)
(* counters before the histogram, RecordQuery adds to it first).           *)
RateBehindWindow == prevQ <= Total(prevBuckets)

(* EstimateWithinOne: the bucket of an estimate leaves out less than one   *)
(* query of the share it is to cover (PercentileOf rounds its rank down).  *)
EstimateWithinOne ==
  \A p \in Rank :
    Total(window) > 0 =>
      /\ Percentile(window, p) \in Bucket
      /\ Cumulated(window, Percentile(window, p)) * p[2] + p[2] > p[1] * Total(window)

(* WindowInv: torn snapshots of torn records lose and repeat no query      *)
(* (Snapshot, RecordQuery, metricLoop), and no estimate is off by more     *)
(* than the rounding.                                                      *)
WindowInv ==
  TypeOK /\ EveryQueryInOneWindow /\ RateBehindWindow /\ EstimateWithinOne

-----------------------------------------------------------------------------
(* What the repository says, and the code does not keep.                   *)

(* UpperBoundEstimate: PercentileOf "returns an upper-bound estimate (ms)  *)
(* for percentile p" (metrics.go): a share p of the window is at or below  *)
(* it.                                                                     *)
UpperBoundEstimate ==
  \A p \in Rank :
    Total(window) > 0 =>
      Cumulated(window, Percentile(window, p)) * p[2] >= p[1] * Total(window)
=============================================================================
