----------------------------- MODULE ChatOracle -----------------------------
(***************************************************************************)
(* The "no stale hits" oracle of chatstress (use case 06) and every worker *)
(* that touches it: ingesters, query workers, the editor, the deleter, the *)
(* slider and the pruning metric loop.  Each worker talks to the server    *)
(* first and to the oracle afterwards, so each is split at the points      *)
(* where another goroutine, the server or a clock can move in between.     *)
(*                                                                         *)
(* The oracle lives on the client clock `now`, documents expire on the     *)
(* server clock `srv`; the two stay within Drift of each other.            *)
(* Times are natural numbers (the code's milliseconds).                    *)
(***************************************************************************)
EXTENDS Integers, FiniteSets

CONSTANTS
  Key,        \* message keys, one per sequence number
  Sampled,    \* the keys that tracks() accepts (hash below sampleThreshold)
  Ingester,   \* ingest goroutines
  Queryer,    \* query goroutines
  Active,     \* the mutators whose limiter grants permits, and "pruner" if the
              \* metric loop's ticker fires, within the span of this instance
  Pipeline,   \* messages per ingest batch
  TTL,        \* the retention tiers' TTLs
  Cap,        \* oracle.max_tracked
  Skew,       \* oracle.skew_ms
  Grace,      \* oracle.grace_ms
  Retain,     \* Oracle.retainMs
  Never,      \* math.MaxInt64, the expiry of a persistent message
  Drift,      \* how far apart client and server clocks may be
  SlideLag,   \* a slide takes less than this from LiveSample to Refresh
  DeleteLag,  \* a delete takes less than this from LiveSample to UNLINK
  DeindexLag, \* an unlinked document leaves the index sooner than this
  MaxNow,     \* bound: the client clock stops here
  NoKey       \* "no key"

ASSUME SetsAssumption ==
  /\ Sampled \subseteq Key
  /\ Active \subseteq {"editor", "deleter", "slider", "pruner"}
  /\ NoKey \notin Key
  /\ Ingester # {}

ASSUME NumbersAssumption ==
  /\ \A t \in TTL : t \in Nat /\ t > 0
  /\ Pipeline \in Nat \ {0}
  /\ Cap \in Nat /\ Retain \in Nat /\ Skew \in Nat /\ Grace \in Nat
  /\ Drift \in Nat
  /\ SlideLag \in Nat \ {0}
  /\ DeleteLag \in Nat \ {0}
  /\ DeindexLag \in Nat \ {0}
  /\ MaxNow \in Nat \ {0}
  /\ Never \in Nat /\ Never > MaxNow + Drift

VARIABLES
  now,       \* client clock
  srv,       \* server clock
  doc,       \* server and index: doc[k] = [st, exp, goneAt]
  phase,     \* how far the ingest of message k has come
  owner,     \* the ingester that carries message k
  ttl,       \* the TTL of message k, 0 for a persistent one
  after,     \* after[i]: the clock ingester i adds the TTLs to
  tracked,   \* the keys of the oracle's maps
  expireAt,  \* entry.expireAt
  deletedAt, \* entry.deletedAt, 0 if not deleted
  count,     \* Oracle.tracked, the atomic counter
  editor,    \* the key the editor is rewriting, or NoKey
  deleter,   \* [pc, key, at, stamp]
  slider,    \* [pc, key, at, ttl, stamp]
  query,     \* query[q] = [pc, t0, probe, res, hit]
  pruner,    \* [cutoff, todo, removed], one step per key
  expiredHits, deletedHits, probeHits,
             \* the keys Check or RecordProbe has counted as stale hits
  revived,   \* history: keys re-created by an edit after they were gone
  unacked    \* history: keys whose PEXPIRE was applied but its reply lost

clockVars  == <<now, srv>>
ingestVars == <<phase, owner, ttl, after>>
oracleVars == <<tracked, expireAt, deletedAt, count>>
hitVars    == <<expiredHits, deletedHits, probeHits>>
ghostVars  == <<revived, unacked>>
mutatorVars == <<editor, deleter, slider>>
vars == <<clockVars, doc, ingestVars, oracleVars, mutatorVars, query, pruner,
          hitVars, ghostVars>>

-----------------------------------------------------------------------------
(* The server, as the client code relies on it.                            *)

NoDoc == [st |-> "none", exp |-> 0, goneAt |-> 0]

\* A key that is past its expiry is gone for every command ...
Exists(k) == doc[k].st = "live" /\ srv < doc[k].exp

\* ... and filtered from every search; an unlinked document stays searchable
\* until the index has processed the deletion.
Visible(k) == doc[k].st # "none" /\ srv < doc[k].exp

-----------------------------------------------------------------------------
(* The oracle.                                                             *)

LiveSample(k) == k \in tracked /\ deletedAt[k] = 0 /\ expireAt[k] > now

\* Mutant: without the grace.
ExpiredSampleNoGrace(k) ==
  k \in tracked /\ deletedAt[k] = 0 /\ expireAt[k] <= now

ExpiredSample(k) ==
  k \in tracked /\ deletedAt[k] = 0 /\ expireAt[k] <= now - Grace

OracleAdd(k, exp) ==
  /\ tracked' = tracked \cup {k}
  /\ expireAt' = [expireAt EXCEPT ![k] = exp]
  /\ deletedAt' = [deletedAt EXCEPT ![k] = 0]
  /\ count' = IF k \in tracked THEN count ELSE count + 1

\* Mutant: refreshes a deleted entry too.
OracleRefreshDeleted(k, exp) ==
  /\ expireAt' = IF k \in tracked THEN [expireAt EXCEPT ![k] = exp]
                                  ELSE expireAt
  /\ UNCHANGED <<tracked, deletedAt, count>>

OracleRefresh(k, exp) ==
  /\ expireAt' = IF k \in tracked /\ deletedAt[k] = 0
                   THEN [expireAt EXCEPT ![k] = exp] ELSE expireAt
  /\ UNCHANGED <<tracked, deletedAt, count>>

OracleMarkDeleted(k, at) ==
  /\ deletedAt' = IF k \in tracked /\ deletedAt[k] = 0
                    THEN [deletedAt EXCEPT ![k] = at] ELSE deletedAt
  /\ UNCHANGED <<tracked, expireAt, count>>

\* Mutants: without the skew, without the grace.
StaleExpiredNoSkew(k, t0) == k \in tracked /\ expireAt[k] <= t0

StaleDeletedNoGrace(k, t0) ==
  /\ k \in tracked /\ expireAt[k] > t0 - Skew
  /\ deletedAt[k] # 0 /\ deletedAt[k] <= t0

\* Check's classification of a returned key against t0.
StaleExpired(k, t0) == k \in tracked /\ expireAt[k] <= t0 - Skew

StaleDeleted(k, t0) ==
  /\ k \in tracked
  /\ ~StaleExpired(k, t0)
  /\ deletedAt[k] # 0
  /\ deletedAt[k] <= t0 - Grace

\* Prune's verdict on an entry.
Gone(k, cutoff) ==
  \/ expireAt[k] > 0 /\ expireAt[k] <= cutoff
  \/ deletedAt[k] # 0 /\ deletedAt[k] <= cutoff

-----------------------------------------------------------------------------
Idle == [pc |-> "idle", key |-> NoKey, at |-> 0, stamp |-> 0]
IdleSlide == [pc |-> "idle", key |-> NoKey, at |-> 0, ttl |-> 0, stamp |-> 0]
IdleQuery ==
  [pc |-> "idle", t0 |-> 0, probe |-> NoKey, res |-> {}, hit |-> FALSE]
IdlePrune == [cutoff |-> 0, todo |-> {}, removed |-> 0]

\* The clocks of a running system are past 0; 1 keeps deletedAt = 0 distinct
\* from a deletion at the start.
Init ==
  /\ now = 1 /\ srv = 1
  /\ doc = [k \in Key |-> NoDoc]
  /\ phase = [k \in Key |-> "unused"]
  /\ owner = [k \in Key |-> CHOOSE i \in Ingester : TRUE]
  /\ ttl = [k \in Key |-> 0]
  /\ after = [i \in Ingester |-> 0]
  /\ tracked = {} /\ count = 0
  /\ expireAt = [k \in Key |-> 0]
  /\ deletedAt = [k \in Key |-> 0]
  /\ editor = NoKey
  /\ deleter = Idle
  /\ slider = IdleSlide
  /\ query = [q \in Queryer |-> IdleQuery]
  /\ pruner = IdlePrune
  /\ expiredHits = {} /\ deletedHits = {} /\ probeHits = {}
  /\ revived = {} /\ unacked = {}

-----------------------------------------------------------------------------
(* Time.                                                                   *)

\* The timing assumptions: nobody the code waits for is slower than its lag.
Prompt(n) ==
  /\ slider.pc # "idle" => n < slider.at + SlideLag
  /\ deleter.pc = "sampled" => n < deleter.at + DeleteLag
  /\ \A k \in Key : doc[k].st = "unlinked" => n < doc[k].goneAt + DeindexLag

Tick ==
  /\ \E n \in {now, now + 1}, s \in {srv, srv + 1} :
       /\ <<n, s>> # <<now, srv>>
       /\ n <= MaxNow
       /\ s <= n + Drift /\ n <= s + Drift
       /\ n > now => Prompt(n)
       /\ now' = n /\ srv' = s
  /\ UNCHANGED <<doc, ingestVars, oracleVars, mutatorVars, query, pruner,
                 hitVars, ghostVars>>

\* The index has processed the deletion of k.
Deindex(k) ==
  /\ doc[k].st = "unlinked"
  /\ doc' = [doc EXCEPT ![k] = NoDoc]
  /\ UNCHANGED <<clockVars, ingestVars, oracleVars, mutatorVars, query, pruner,
                 hitVars, ghostVars>>

-----------------------------------------------------------------------------
(* Ingester: a batch is pipelined HSETs and PEXPIREs, then one clock read, *)
(* then one Oracle.Add per message.                                        *)

Batch(i) == {k \in Key : owner[k] = i /\ phase[k] \notin {"unused", "done"}}

\* A new batch S; after[i] is nowMs, the clock read before the write.
IngestStart(i, S, t) ==
  /\ Batch(i) = {}
  /\ Cardinality(S) = Pipeline
  /\ \A k \in S : phase[k] = "unused"
  /\ phase' = [k \in Key |-> IF k \in S THEN "queued" ELSE phase[k]]
  /\ owner' = [k \in Key |-> IF k \in S THEN i ELSE owner[k]]
  /\ ttl' = [k \in Key |-> IF k \in S THEN t[k] ELSE ttl[k]]
  /\ after' = [after EXCEPT ![i] = now]
  /\ UNCHANGED <<clockVars, doc, oracleVars, mutatorVars, query, pruner,
                 hitVars, ghostVars>>

\* The server runs the HSET of k: until its PEXPIRE, k is persistent.
IngestHSet(k) ==
  /\ phase[k] = "queued"
  /\ doc' = [doc EXCEPT ![k] = [st |-> "live", exp |-> Never, goneAt |-> 0]]
  /\ phase' = [phase EXCEPT ![k] = IF ttl[k] = 0 THEN "written" ELSE "hset"]
  /\ UNCHANGED <<clockVars, owner, ttl, after, oracleVars, mutatorVars, query,
                 pruner, hitVars, ghostVars>>

IngestPExpire(k) ==
  /\ phase[k] = "hset"
  /\ doc' = [doc EXCEPT ![k].exp = srv + ttl[k]]
  /\ phase' = [phase EXCEPT ![k] = "written"]
  /\ UNCHANGED <<clockVars, owner, ttl, after, oracleVars, mutatorVars, query,
                 pruner, hitVars, ghostVars>>

\* Mutant: adds the TTLs to the clock read before the write.
IngestAckEarly(i) ==
  /\ Batch(i) # {}
  /\ \A k \in Batch(i) : phase[k] = "written"
  /\ phase' = [k \in Key |-> IF k \in Batch(i) THEN "acked" ELSE phase[k]]
  /\ UNCHANGED <<clockVars, doc, owner, ttl, after, oracleVars, mutatorVars,
                 query, pruner, hitVars, ghostVars>>

\* The replies are in: afterMs is read.
IngestAck(i) ==
  /\ Batch(i) # {}
  /\ \A k \in Batch(i) : phase[k] = "written"
  /\ phase' = [k \in Key |-> IF k \in Batch(i) THEN "acked" ELSE phase[k]]
  /\ after' = [after EXCEPT ![i] = now]
  /\ UNCHANGED <<clockVars, doc, owner, ttl, oracleVars, mutatorVars, query,
                 pruner, hitVars, ghostVars>>

\* IngestBatch failed, however much of it the server has run: the batch is
\* counted as errors and none of it is tracked.
IngestFail(i) ==
  /\ Batch(i) # {}
  /\ \A k \in Batch(i) : phase[k] \in {"queued", "hset", "written"}
  /\ phase' = [k \in Key |-> IF k \in Batch(i) THEN "done" ELSE phase[k]]
  /\ UNCHANGED <<clockVars, doc, owner, ttl, after, oracleVars, mutatorVars,
                 query, pruner, hitVars, ghostVars>>

\* Mutant: lets one entry too many in.
AddCheckOffByOne(k) ==
  /\ phase[k] = "acked"
  /\ \A j \in Batch(owner[k]) : phase[j] # "passed"
  /\ phase' = [phase EXCEPT ![k] =
                 IF k \in Sampled /\ count <= Cap THEN "passed" ELSE "done"]
  /\ UNCHANGED <<clockVars, doc, owner, ttl, after, oracleVars, mutatorVars,
                 query, pruner, hitVars, ghostVars>>

\* Add's tests, made without a lock: is k sampled, is there room?
AddCheck(k) ==
  /\ phase[k] = "acked"
  /\ \A j \in Batch(owner[k]) : phase[j] # "passed"
  /\ phase' = [phase EXCEPT ![k] =
                 IF k \in Sampled /\ count < Cap THEN "passed" ELSE "done"]
  /\ UNCHANGED <<clockVars, doc, owner, ttl, after, oracleVars, mutatorVars,
                 query, pruner, hitVars, ghostVars>>

\* Add's insertion, under the shard's lock.
AddInsert(k) ==
  /\ phase[k] = "passed"
  /\ OracleAdd(k, IF ttl[k] > 0 THEN after[owner[k]] + ttl[k] ELSE Never)
  /\ phase' = [phase EXCEPT ![k] = "done"]
  /\ UNCHANGED <<clockVars, doc, owner, ttl, after, mutatorVars, query, pruner,
                 hitVars, ghostVars>>

-----------------------------------------------------------------------------
(* Editor.  The token it stores in the oracle afterwards decides no check. *)

EditSample(k) ==
  /\ "editor" \in Active
  /\ editor = NoKey
  /\ LiveSample(k)
  /\ editor' = k
  /\ UNCHANGED <<clockVars, doc, ingestVars, oracleVars, deleter, slider, query,
                 pruner, hitVars, ghostVars>>

\* HSET of the body field alone: on a key that is gone it makes a new hash,
\* with no TTL and no other field.
EditBody ==
  /\ editor # NoKey
  /\ doc' = IF Exists(editor) THEN doc
            ELSE [doc EXCEPT ![editor] =
                    [st |-> "live", exp |-> Never, goneAt |-> 0]]
  /\ revived' = IF Exists(editor) THEN revived ELSE revived \cup {editor}
  /\ editor' = NoKey
  /\ UNCHANGED <<clockVars, ingestVars, oracleVars, deleter, slider, query,
                 pruner, hitVars, unacked>>

-----------------------------------------------------------------------------
(* Deleter.                                                                *)

DeleteSample(k) ==
  /\ "deleter" \in Active
  /\ deleter.pc = "idle"
  /\ LiveSample(k)
  /\ deleter' = [pc |-> "sampled", key |-> k, at |-> now, stamp |-> 0]
  /\ UNCHANGED <<clockVars, doc, ingestVars, oracleVars, editor, slider, query,
                 pruner, hitVars, ghostVars>>

Unlink(k) ==
  doc' = IF Exists(k)
           THEN [doc EXCEPT ![k] = [@ EXCEPT !.st = "unlinked", !.goneAt = now]]
         ELSE IF doc[k].st = "live" THEN [doc EXCEPT ![k] = NoDoc]
         ELSE doc

\* UNLINK runs and its reply arrives (it is no error that nothing was there).
DeleteRun ==
  /\ deleter.pc = "sampled"
  /\ Unlink(deleter.key)
  /\ deleter' = [deleter EXCEPT !.pc = "unlinked"]
  /\ UNCHANGED <<clockVars, ingestVars, oracleVars, editor, slider, query,
                 pruner, hitVars, ghostVars>>

\* The call fails: UNLINK did not run, or it did and the reply is lost.
DeleteFail ==
  /\ deleter.pc = "sampled"
  /\ UNCHANGED doc \/ Unlink(deleter.key)
  /\ deleter' = Idle
  /\ UNCHANGED <<clockVars, ingestVars, oracleVars, editor, slider, query,
                 pruner, hitVars, ghostVars>>

DeleteStamp ==
  /\ deleter.pc = "unlinked"
  /\ deleter' = [deleter EXCEPT !.pc = "stamped", !.stamp = now]
  /\ UNCHANGED <<clockVars, doc, ingestVars, oracleVars, editor, slider, query,
                 pruner, hitVars, ghostVars>>

MarkDeleted ==
  /\ deleter.pc = "stamped"
  /\ OracleMarkDeleted(deleter.key, deleter.stamp)
  /\ deleter' = Idle
  /\ UNCHANGED <<clockVars, doc, ingestVars, editor, slider, query, pruner,
                 hitVars, ghostVars>>

-----------------------------------------------------------------------------
(* Slider.                                                                 *)

SlideSample(k, t) ==
  /\ "slider" \in Active
  /\ slider.pc = "idle"
  /\ LiveSample(k)
  /\ slider' = [pc |-> "sampled", key |-> k, at |-> now, ttl |-> t, stamp |-> 0]
  /\ UNCHANGED <<clockVars, doc, ingestVars, oracleVars, editor, deleter, query,
                 pruner, hitVars, ghostVars>>

Extended(k, t) == [doc EXCEPT ![k].exp = srv + t]

\* PEXPIRE replies 1: the key was there.
SlideRun ==
  /\ slider.pc = "sampled"
  /\ Exists(slider.key)
  /\ doc' = Extended(slider.key, slider.ttl)
  /\ slider' = [slider EXCEPT !.pc = "extended"]
  /\ UNCHANGED <<clockVars, ingestVars, oracleVars, editor, deleter, query,
                 pruner, hitVars, ghostVars>>

\* Mutant: the slider keeps the key it gave up.
SlideMissKeepsKey ==
  /\ slider.pc = "sampled"
  /\ slider' = [slider EXCEPT !.pc = "idle"]
  /\ UNCHANGED <<clockVars, doc, ingestVars, oracleVars, editor, deleter, query,
                 pruner, hitVars, ghostVars>>

\* PEXPIRE replies 0, or fails before it ran.
SlideMiss ==
  /\ slider.pc = "sampled"
  /\ slider' = IdleSlide
  /\ UNCHANGED <<clockVars, doc, ingestVars, oracleVars, editor, deleter, query,
                 pruner, hitVars, ghostVars>>

\* PEXPIRE ran but the call fails: the slider goes on without Refresh.
SlideReplyLost ==
  /\ slider.pc = "sampled"
  /\ Exists(slider.key)
  /\ doc' = Extended(slider.key, slider.ttl)
  /\ slider' = IdleSlide
  /\ unacked' = unacked \cup {slider.key}
  /\ UNCHANGED <<clockVars, ingestVars, oracleVars, editor, deleter, query,
                 pruner, hitVars, revived>>

SlideStamp ==
  /\ slider.pc = "extended"
  /\ slider' = [slider EXCEPT !.pc = "stamped", !.stamp = now]
  /\ UNCHANGED <<clockVars, doc, ingestVars, oracleVars, editor, deleter, query,
                 pruner, hitVars, ghostVars>>

Refresh ==
  /\ slider.pc = "stamped"
  /\ OracleRefresh(slider.key, slider.stamp + slider.ttl)
  /\ slider' = IdleSlide
  /\ UNCHANGED <<clockVars, doc, ingestVars, editor, deleter, query, pruner,
                 hitVars, ghostVars>>

-----------------------------------------------------------------------------
(* Query worker: t0, the search, then Check on each returned key.  A probe *)
(* is the same for a query built from an expired entry.                    *)

ProbeSample(q, k) ==
  /\ query[q].pc = "idle"
  /\ ExpiredSample(k)
  /\ query' = [query EXCEPT ![q] = [@ EXCEPT !.pc = "probing", !.probe = k]]
  /\ UNCHANGED <<clockVars, doc, ingestVars, oracleVars, mutatorVars, pruner,
                 hitVars, ghostVars>>

QueryAsk(q) ==
  /\ query[q].pc \in {"idle", "probing"}
  /\ query' = [query EXCEPT ![q] = [@ EXCEPT !.pc = "asked", !.t0 = now]]
  /\ UNCHANGED <<clockVars, doc, ingestVars, oracleVars, mutatorVars, pruner,
                 hitVars, ghostVars>>

\* The documents a query can match: a probe names a channel, a field that a
\* document re-created by an edit does not have.
Matching(q) ==
  {k \in Key : Visible(k) /\ (query[q].probe # NoKey => k \notin revived)}

\* The server answers with some of the matching documents (LIMIT).
QueryAnswer(q, res) ==
  /\ query[q].pc = "asked"
  /\ res \subseteq Matching(q)
  /\ query' = [query EXCEPT ![q] =
                [@ EXCEPT !.pc = "answered",
                          !.res = res \ {query[q].probe},
                          !.hit = query[q].probe \in res]]
  /\ UNCHANGED <<clockVars, doc, ingestVars, oracleVars, mutatorVars, pruner,
                 hitVars, ghostVars>>

QueryFail(q) ==
  /\ query[q].pc = "asked"
  /\ query' = [query EXCEPT ![q] = IdleQuery]
  /\ UNCHANGED <<clockVars, doc, ingestVars, oracleVars, mutatorVars, pruner,
                 hitVars, ghostVars>>

Check(q, k) ==
  /\ k \in query[q].res
  /\ query' = [query EXCEPT ![q] = [@ EXCEPT !.res = query[q].res \ {k}]]
  /\ expiredHits' = IF StaleExpired(k, query[q].t0)
                      THEN expiredHits \cup {k} ELSE expiredHits
  /\ deletedHits' = IF StaleDeleted(k, query[q].t0)
                      THEN deletedHits \cup {k} ELSE deletedHits
  /\ UNCHANGED <<clockVars, doc, ingestVars, oracleVars, mutatorVars, pruner,
                 probeHits, ghostVars>>

\* All keys are checked; a probe is recorded (RecordProbe).
QueryDone(q) ==
  /\ query[q].pc = "answered"
  /\ query[q].res = {}
  /\ probeHits' = IF query[q].hit THEN probeHits \cup {query[q].probe}
                                  ELSE probeHits
  /\ query' = [query EXCEPT ![q] = IdleQuery]
  /\ UNCHANGED <<clockVars, doc, ingestVars, oracleVars, mutatorVars, pruner,
                 expiredHits, deletedHits, ghostVars>>

-----------------------------------------------------------------------------
(* Prune, called by the metric loop: `cutoff` is fixed at the start, the   *)
(* shards (here one per key) are locked in turn, the counter follows last. *)

\* Mutant: the retention added, not subtracted.
PruneStartAhead ==
  /\ "pruner" \in Active
  /\ pruner.todo = {} /\ pruner.removed = 0
  /\ pruner' = [cutoff |-> now + Retain, todo |-> Key, removed |-> 0]
  /\ UNCHANGED <<clockVars, doc, ingestVars, oracleVars, mutatorVars, query,
                 hitVars, ghostVars>>

PruneStart ==
  /\ "pruner" \in Active
  /\ pruner.todo = {} /\ pruner.removed = 0
  /\ pruner' = [cutoff |-> now - Retain, todo |-> Key, removed |-> 0]
  /\ UNCHANGED <<clockVars, doc, ingestVars, oracleVars, mutatorVars, query,
                 hitVars, ghostVars>>

PruneShard(k) ==
  /\ k \in pruner.todo
  /\ IF k \in tracked /\ Gone(k, pruner.cutoff)
       THEN /\ tracked' = tracked \ {k}
            /\ expireAt' = [expireAt EXCEPT ![k] = 0]
            /\ deletedAt' = [deletedAt EXCEPT ![k] = 0]
            /\ pruner' = [pruner EXCEPT !.todo = @ \ {k}, !.removed = @ + 1]
       ELSE /\ pruner' = [pruner EXCEPT !.todo = @ \ {k}]
            /\ UNCHANGED <<tracked, expireAt, deletedAt>>
  /\ UNCHANGED <<clockVars, doc, ingestVars, count, mutatorVars, query,
                 hitVars, ghostVars>>

PruneEnd ==
  /\ pruner.todo = {} /\ pruner.removed > 0
  /\ count' = count - pruner.removed
  /\ pruner' = [pruner EXCEPT !.removed = 0]
  /\ UNCHANGED <<clockVars, doc, ingestVars, tracked, expireAt, deletedAt,
                 mutatorVars, query, hitVars, ghostVars>>

-----------------------------------------------------------------------------
IngestStep ==
  \/ \E i \in Ingester, S \in SUBSET Key :
       \E t \in [S -> TTL] \cup {[k \in S |-> 0]} : IngestStart(i, S, t)
  \/ \E k \in Key : IngestHSet(k)
  \/ \E k \in Key : IngestPExpire(k)
  \/ \E i \in Ingester : IngestAck(i)
  \/ \E i \in Ingester : IngestFail(i)
  \/ \E k \in Key : AddCheck(k)
  \/ \E k \in Key : AddInsert(k)

EditStep ==
  \/ \E k \in Key : EditSample(k)
  \/ EditBody

DeleteStep ==
  \/ \E k \in Key : DeleteSample(k)
  \/ DeleteRun
  \/ DeleteFail
  \/ DeleteStamp
  \/ MarkDeleted

SlideStep ==
  \/ \E k \in Key, t \in TTL : SlideSample(k, t)
  \/ SlideRun
  \/ SlideMiss
  \/ SlideReplyLost
  \/ SlideStamp
  \/ Refresh

QueryStep ==
  \/ \E q \in Queryer, k \in Key : ProbeSample(q, k)
  \/ \E q \in Queryer : QueryAsk(q)
  \/ \E q \in Queryer, res \in SUBSET Key : QueryAnswer(q, res)
  \/ \E q \in Queryer : QueryFail(q)
  \/ \E q \in Queryer, k \in Key : Check(q, k)
  \/ \E q \in Queryer : QueryDone(q)

PruneStep ==
  \/ PruneStart
  \/ \E k \in Key : PruneShard(k)
  \/ PruneEnd

Next ==
  \/ Tick
  \/ \E k \in Key : Deindex(k)
  \/ IngestStep
  \/ EditStep
  \/ DeleteStep
  \/ SlideStep
  \/ QueryStep
  \/ PruneStep

Spec == Init /\ [][Next]_vars

-----------------------------------------------------------------------------
Phase == {"unused", "queued", "hset", "written", "acked", "passed", "done"}

DocType == [st : {"none", "live", "unlinked"}, exp : Nat, goneAt : Nat]
DeleterType == [pc : {"idle", "sampled", "unlinked", "stamped"},
                key : Key \cup {NoKey}, at : Nat, stamp : Nat]
SliderType == [pc : {"idle", "sampled", "extended", "stamped"},
               key : Key \cup {NoKey}, at : Nat, ttl : TTL \cup {0},
               stamp : Nat]
QueryType == [pc : {"idle", "probing", "asked", "answered"}, t0 : Nat,
              probe : Key \cup {NoKey}, res : SUBSET Key, hit : BOOLEAN]
PrunerType == [cutoff : Int, todo : SUBSET Key, removed : Nat]

TypeOK ==
  /\ now \in Nat /\ srv \in Nat
  /\ doc \in [Key -> DocType]
  /\ phase \in [Key -> Phase]
  /\ owner \in [Key -> Ingester]
  /\ ttl \in [Key -> TTL \cup {0}]
  /\ after \in [Ingester -> Nat]
  /\ tracked \subseteq Key
  /\ expireAt \in [Key -> Nat] /\ deletedAt \in [Key -> Nat]
  /\ count \in Int
  /\ editor \in Key \cup {NoKey}
  /\ deleter \in DeleterType
  /\ slider \in SliderType
  /\ query \in [Queryer -> QueryType]
  /\ pruner \in PrunerType
  /\ expiredHits \subseteq Key /\ deletedHits \subseteq Key
  /\ probeHits \subseteq Key
  /\ revived \subseteq Key /\ unacked \subseteq Key
  \* A busy worker has a key, and so has a hit.
  /\ (deleter.pc = "idle") <=> (deleter.key = NoKey)
  /\ (slider.pc = "idle") <=> (slider.key = NoKey)
  /\ \A q \in Queryer : query[q].hit => query[q].probe # NoKey

\* The timing under which the code's tolerances are enough.  Each is a fact
\* about the deployment, not about the code.
Tolerances ==
  /\ 2 * Drift <= Skew /\ 2 * Drift <= Grace
  /\ SlideLag <= Skew /\ SlideLag <= Grace
  /\ DeindexLag <= Grace
  /\ DeleteLag + DeindexLag <= Skew
  /\ Grace > 0

(* ExpiryUpperBound: the oracle's expireAt is an upper bound of the expiry *)
(* the server has stored, up to the clock drift, for every entry that is   *)
(* not deleted, while no slide of it is between PEXPIRE and Refresh        *)
(* (ingester's and slider's "afterMs" reads).                              *)
ExpiryUpperBound ==
  \A k \in tracked \ (revived \cup unacked) :
    /\ deletedAt[k] = 0
    /\ doc[k].st # "none"
    /\ ~(slider.key = k /\ slider.pc \in {"extended", "stamped"})
    => doc[k].exp <= expireAt[k] + Drift

(* NoFalseExpired: a server that filters expired documents is never        *)
(* charged with an expired hit, except for a key that an edit re-created   *)
(* or whose slide lost its reply (Check's first test, runItem's t0 rule).  *)
NoFalseExpired == expiredHits \subseteq revived \cup unacked

(* NoFalseDeleted: nor with a hit on a deleted document that leaves the    *)
(* index within the grace, except for a key that an edit re-created        *)
(* (Check's second test, MarkDeleted).                                     *)
NoFalseDeleted == deletedHits \subseteq revived

(* ProbeSound: nor by a probe of an expired entry, except for a key whose  *)
(* slide lost its reply (ExpiredSample's cutoff, RecordProbe).             *)
ProbeSound == probeHits \subseteq unacked

(* DeletedStays: a slide that is overtaken by a delete does not touch the  *)
(* entry, which keeps both times until Prune drops it (Refresh's guard).   *)
DeletedStays ==
  [][\A k \in tracked \cap tracked' :
       deletedAt[k] # 0 =>
         deletedAt'[k] = deletedAt[k] /\ expireAt'[k] = expireAt[k]]_vars

(* PruneForgetsOnlyDead: what Prune drops can no longer be returned by any *)
(* search, so no stale hit goes unnoticed by it (Prune's retention).       *)
PruneForgetsOnlyDead ==
  [][\A k \in tracked \ tracked' :
       Visible(k) => k \in revived \cup unacked]_vars

(* CountWithinCap: the atomic counter is the number of entries, except for *)
(* those that a running Prune has removed and not yet subtracted; and      *)
(* concurrent Adds, which pass the unlocked cap test together, take it     *)
(* over the cap by at most one entry per other ingester.                   *)
CountWithinCap ==
  /\ count = Cardinality(tracked) + pruner.removed
  /\ count <= Cap + Cardinality(Ingester) - 1

-----------------------------------------------------------------------------
(* What the repository says, and the code does not keep.                   *)

(* EditKeepsTTL: a body rewrite keeps the document's TTL (EditBody's       *)
(* comment): a tracked message with a TTL is never stored without one.     *)
EditKeepsTTL ==
  \A k \in tracked : ttl[k] > 0 /\ doc[k].st = "live" => doc[k].exp # Never
=============================================================================
