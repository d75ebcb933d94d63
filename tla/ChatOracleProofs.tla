-------------------------- MODULE ChatOracleProofs --------------------------
(***************************************************************************)
(* The oracle of chatstress is sound for every number of messages, workers *)
(* and clock ticks, under the timing that Tolerances names.                *)
(***************************************************************************)
EXTENDS ChatOracle, FiniteSetTheorems, TLAPS

-----------------------------------------------------------------------------
(* Type correctness.                                                       *)

LEMMA TTLNat == \A t \in TTL \cup {0} : t \in Nat
BY NumbersAssumption DEF NumbersAssumption

LEMMA Consts ==
  /\ Cap \in Nat /\ Retain \in Nat /\ Skew \in Nat /\ Grace \in Nat
  /\ Drift \in Nat /\ MaxNow \in Nat /\ MaxNow > 0 /\ Never \in Nat
  /\ Never > MaxNow + Drift
  /\ SlideLag \in Nat /\ DeleteLag \in Nat /\ DeindexLag \in Nat
  /\ SlideLag > 0 /\ DeleteLag > 0 /\ DeindexLag > 0
  /\ NoKey \notin Key
BY NumbersAssumption, SetsAssumption DEF NumbersAssumption, SetsAssumption

LEMMA InitType == Init => TypeOK
<1> USE SetsAssumption DEF SetsAssumption
<1>1. NoDoc \in DocType /\ Idle \in DeleterType /\ IdleSlide \in SliderType
      /\ IdleQuery \in QueryType /\ IdlePrune \in PrunerType
  BY DEF NoDoc, DocType, Idle, DeleterType, IdleSlide, SliderType, IdleQuery,
         QueryType, IdlePrune, PrunerType
<1>2. (CHOOSE i \in Ingester : TRUE) \in Ingester
  OBVIOUS
<1>3. Idle.pc = "idle" /\ Idle.key = NoKey /\ IdleSlide.pc = "idle"
      /\ IdleSlide.key = NoKey /\ IdleQuery.hit = FALSE
  BY DEF Idle, IdleSlide, IdleQuery
<1>. QED BY <1>1, <1>2, <1>3 DEF Init, TypeOK, Phase

\* Setting the fields of a document keeps its type.
LEMMA DocUpdate ==
  ASSUME NEW d \in [Key -> DocType], NEW k, NEW x \in Nat
  PROVE  /\ [d EXCEPT ![k].exp = x] \in [Key -> DocType]
         /\ [d EXCEPT ![k] = NoDoc] \in [Key -> DocType]
         /\ [d EXCEPT ![k] = [st |-> "live", exp |-> x, goneAt |-> 0]]
              \in [Key -> DocType]
         /\ [d EXCEPT ![k] = [@ EXCEPT !.st = "unlinked", !.goneAt = x]]
              \in [Key -> DocType]
BY DEF DocType, NoDoc

LEMMA TickType == TypeOK /\ (Tick \/ \E k \in Key : Deindex(k)) => TypeOK'
<1>1. ASSUME TypeOK, Tick PROVE TypeOK'
  BY <1>1 DEF TypeOK, Tick, ingestVars, oracleVars, mutatorVars, hitVars,
              ghostVars
<1>2. ASSUME TypeOK, NEW k \in Key, Deindex(k) PROVE TypeOK'
  <2>1. doc' \in [Key -> DocType]
    BY <1>2, DocUpdate DEF Deindex, TypeOK
  <2>. QED BY <1>2, <2>1 DEF TypeOK, Deindex, clockVars, ingestVars,
                 oracleVars, mutatorVars, hitVars, ghostVars
<1>. QED BY <1>1, <1>2

LEMMA IngestType == TypeOK /\ IngestStep => TypeOK'
<1> SUFFICES ASSUME TypeOK, IngestStep PROVE TypeOK'
  OBVIOUS
<1> USE DEF TypeOK, clockVars, oracleVars, mutatorVars, hitVars, ghostVars
<1>1. ASSUME NEW i \in Ingester, NEW S \in SUBSET Key,
             NEW t \in [S -> TTL] \cup {[k \in S |-> 0]}, IngestStart(i, S, t)
      PROVE  TypeOK'
  BY <1>1 DEF IngestStart, Phase
<1>2. ASSUME NEW k \in Key, IngestHSet(k) PROVE TypeOK'
  <2>1. doc' \in [Key -> DocType]
    BY <1>2, DocUpdate, Consts DEF IngestHSet
  <2>. QED BY <1>2, <2>1 DEF IngestHSet, Phase
<1>3. ASSUME NEW k \in Key, IngestPExpire(k) PROVE TypeOK'
  <2>1. srv + ttl[k] \in Nat
    BY TTLNat
  <2>2. doc' \in [Key -> DocType]
    BY <1>3, <2>1, DocUpdate DEF IngestPExpire
  <2>. QED BY <1>3, <2>2 DEF IngestPExpire, Phase
<1>4. ASSUME NEW i \in Ingester, IngestAck(i) PROVE TypeOK'
  BY <1>4 DEF IngestAck, Phase
<1>5. ASSUME NEW i \in Ingester, IngestFail(i) PROVE TypeOK'
  BY <1>5 DEF IngestFail, Phase
<1>6. ASSUME NEW k \in Key, AddCheck(k) PROVE TypeOK'
  BY <1>6 DEF AddCheck, Phase
<1>7. ASSUME NEW k \in Key, AddInsert(k) PROVE TypeOK'
  <2>1. (IF ttl[k] > 0 THEN after[owner[k]] + ttl[k] ELSE Never) \in Nat
    BY TTLNat, Consts
  <2>. QED BY <1>7, <2>1 DEF AddInsert, OracleAdd, Phase
<1>. QED
  BY <1>1, <1>2, <1>3, <1>4, <1>5, <1>6, <1>7 DEF IngestStep

LEMMA EditType == TypeOK /\ EditStep => TypeOK'
<1> SUFFICES ASSUME TypeOK, EditStep PROVE TypeOK'
  OBVIOUS
<1> USE DEF TypeOK, clockVars, ingestVars, oracleVars, hitVars, ghostVars
<1>1. ASSUME NEW k \in Key, EditSample(k) PROVE TypeOK'
  BY <1>1 DEF EditSample
<1>2. CASE EditBody
  <2>1. editor \in Key
    BY <1>2 DEF EditBody
  <2>2. doc' \in [Key -> DocType]
    BY <1>2, <2>1, DocUpdate, Consts DEF EditBody
  <2>. QED BY <1>2, <2>1, <2>2 DEF EditBody
<1>. QED BY <1>1, <1>2 DEF EditStep

LEMMA UnlinkType ==
  ASSUME TypeOK, NEW k, Unlink(k) PROVE doc' \in [Key -> DocType]
BY DocUpdate DEF Unlink, TypeOK

LEMMA DeleteType == TypeOK /\ DeleteStep => TypeOK'
<1> SUFFICES ASSUME TypeOK, DeleteStep PROVE TypeOK'
  OBVIOUS
<1> USE DEF TypeOK, clockVars, ingestVars, oracleVars, hitVars, ghostVars
<1>0. Idle \in DeleterType /\ Idle.pc = "idle" /\ Idle.key = NoKey
  BY DEF Idle, DeleterType
<1>1. ASSUME NEW k \in Key, DeleteSample(k) PROVE TypeOK'
  <2>1. /\ deleter' \in DeleterType
        /\ (deleter'.pc = "idle") <=> (deleter'.key = NoKey)
    BY <1>1, Consts DEF DeleteSample, DeleterType
  <2>. QED BY <1>1, <2>1 DEF DeleteSample
<1>2. CASE DeleteRun
  <2>1. /\ deleter' \in DeleterType
        /\ (deleter'.pc = "idle") <=> (deleter'.key = NoKey)
    BY <1>2, Consts DEF DeleteRun, DeleterType
  <2>2. doc' \in [Key -> DocType]
    BY <1>2, UnlinkType DEF DeleteRun, Unlink, DeleterType
  <2>. QED BY <1>2, <2>1, <2>2 DEF DeleteRun
<1>3. CASE DeleteFail
  <2>1. doc' \in [Key -> DocType]
    BY <1>3, UnlinkType DEF DeleteFail, Unlink, DeleterType
  <2>. QED BY <1>0, <1>3, <2>1 DEF DeleteFail
<1>4. CASE DeleteStamp
  <2>1. /\ deleter' \in DeleterType
        /\ (deleter'.pc = "idle") <=> (deleter'.key = NoKey)
    BY <1>4, Consts DEF DeleteStamp, DeleterType
  <2>. QED BY <1>4, <2>1 DEF DeleteStamp
<1>5. CASE MarkDeleted
  <2>1. deleter.stamp \in Nat
    BY DEF DeleterType
  <2>. QED BY <1>0, <1>5, <2>1 DEF MarkDeleted, OracleMarkDeleted
<1>. QED BY <1>1, <1>2, <1>3, <1>4, <1>5 DEF DeleteStep

LEMMA SlideType == TypeOK /\ SlideStep => TypeOK'
<1> SUFFICES ASSUME TypeOK, SlideStep PROVE TypeOK'
  OBVIOUS
<1> USE DEF TypeOK, clockVars, ingestVars, oracleVars, hitVars, ghostVars
<1>0. /\ IdleSlide \in SliderType
      /\ IdleSlide.pc = "idle" /\ IdleSlide.key = NoKey
  BY DEF IdleSlide, SliderType
<1>a. slider.ttl \in Nat /\ slider.stamp \in Nat
      /\ slider.key \in Key \cup {NoKey}
  BY TTLNat DEF SliderType
<1>b. srv + slider.ttl \in Nat /\ slider.stamp + slider.ttl \in Nat
  BY <1>a
<1>c. ASSUME doc' = Extended(slider.key, slider.ttl)
      PROVE  doc' \in [Key -> DocType]
  BY <1>b, <1>c, DocUpdate DEF Extended
<1>1. ASSUME NEW k \in Key, NEW t \in TTL, SlideSample(k, t) PROVE TypeOK'
  <2>1. /\ slider' \in SliderType
        /\ (slider'.pc = "idle") <=> (slider'.key = NoKey)
    BY <1>1, Consts DEF SlideSample, SliderType
  <2>. QED BY <1>1, <2>1 DEF SlideSample
<1>2. CASE SlideRun
  <2>1. /\ slider' \in SliderType
        /\ (slider'.pc = "idle") <=> (slider'.key = NoKey)
    BY <1>2, Consts DEF SlideRun, SliderType
  <2>2. doc' \in [Key -> DocType]
    BY <1>2, <1>a, <1>c DEF SlideRun, Extended
  <2>. QED BY <1>2, <2>1, <2>2 DEF SlideRun
<1>3. CASE SlideMiss
  BY <1>0, <1>3 DEF SlideMiss
<1>4. CASE SlideReplyLost
  <2>1. slider.key \in Key
    BY <1>4, <1>a DEF SlideReplyLost
  <2>2. doc' \in [Key -> DocType]
    BY <1>4, <1>a, <1>c DEF SlideReplyLost, Extended
  <2>. QED BY <1>0, <1>4, <2>1, <2>2 DEF SlideReplyLost
<1>5. CASE SlideStamp
  <2>1. /\ slider' \in SliderType
        /\ (slider'.pc = "idle") <=> (slider'.key = NoKey)
    BY <1>5, Consts DEF SlideStamp, SliderType
  <2>. QED BY <1>5, <2>1 DEF SlideStamp
<1>6. CASE Refresh
  BY <1>0, <1>6, <1>b DEF Refresh, OracleRefresh
<1>. QED BY <1>1, <1>2, <1>3, <1>4, <1>5, <1>6 DEF SlideStep

LEMMA QueryStepType == TypeOK /\ QueryStep => TypeOK'
<1> SUFFICES ASSUME TypeOK, QueryStep PROVE TypeOK'
  OBVIOUS
<1> USE DEF TypeOK, clockVars, ingestVars, oracleVars, mutatorVars, ghostVars
<1>a. \A q \in Queryer : query[q] \in QueryType
  OBVIOUS
<1>0. IdleQuery \in QueryType /\ IdleQuery.hit = FALSE
  BY DEF IdleQuery, QueryType
<1>1. ASSUME NEW q \in Queryer, NEW k \in Key, ProbeSample(q, k) PROVE TypeOK'
  <2>1. query' \in [Queryer -> QueryType]
    <3>1. [query[q] EXCEPT !.pc = "probing", !.probe = k] \in QueryType
      BY <1>a DEF QueryType
    <3>. QED BY <1>1, <3>1 DEF ProbeSample
  <2>2. \A r \in Queryer : query'[r].hit => query'[r].probe # NoKey
    BY <1>1, Consts DEF ProbeSample, QueryType
  <2>. QED BY <1>1, <2>1, <2>2 DEF ProbeSample, hitVars
<1>2. ASSUME NEW q \in Queryer, QueryAsk(q) PROVE TypeOK'
  <2>1. query' \in [Queryer -> QueryType]
    <3>1. [query[q] EXCEPT !.pc = "asked", !.t0 = now] \in QueryType
      BY <1>a DEF QueryType
    <3>. QED BY <1>2, <3>1 DEF QueryAsk
  <2>2. \A r \in Queryer : query'[r].hit => query'[r].probe # NoKey
    BY <1>2 DEF QueryAsk, QueryType
  <2>. QED BY <1>2, <2>1, <2>2 DEF QueryAsk, hitVars
<1>3. ASSUME NEW q \in Queryer, NEW res \in SUBSET Key, QueryAnswer(q, res)
      PROVE  TypeOK'
  <2>1. query' \in [Queryer -> QueryType]
    <3>a. /\ res \ {query[q].probe} \in SUBSET Key
          /\ (query[q].probe \in res) \in BOOLEAN
      OBVIOUS
    <3>1. [query[q] EXCEPT !.pc = "answered",
                                !.res = res \ {query[q].probe},
                                !.hit = query[q].probe \in res] \in QueryType
      BY <1>a, <3>a DEF QueryType
    <3>. QED BY <1>3, <3>1 DEF QueryAnswer
  <2>2. \A r \in Queryer : query'[r].hit => query'[r].probe # NoKey
    BY <1>3, Consts DEF QueryAnswer, QueryType
  <2>. QED BY <1>3, <2>1, <2>2 DEF QueryAnswer, hitVars
<1>4. ASSUME NEW q \in Queryer, QueryFail(q) PROVE TypeOK'
  BY <1>0, <1>4 DEF QueryFail, hitVars
<1>5. ASSUME NEW q \in Queryer, NEW k \in Key, Check(q, k) PROVE TypeOK'
  <2>1. query' \in [Queryer -> QueryType]
    <3>a. query[q].res \ {k} \in SUBSET Key
      BY <1>a DEF QueryType
    <3>1. [query[q] EXCEPT !.res = query[q].res \ {k}] \in QueryType
      BY <1>a, <3>a DEF QueryType
    <3>. QED BY <1>5, <3>1 DEF Check
  <2>2. \A r \in Queryer : query'[r].hit => query'[r].probe # NoKey
    BY <1>5 DEF Check, QueryType
  <2>. QED BY <1>5, <2>1, <2>2 DEF Check
<1>6. ASSUME NEW q \in Queryer, QueryDone(q) PROVE TypeOK'
  <2>1. query[q].probe \in Key \cup {NoKey}
    BY DEF QueryType
  <2>. QED BY <1>0, <1>6, <2>1 DEF QueryDone
<1>. QED BY <1>1, <1>2, <1>3, <1>4, <1>5, <1>6 DEF QueryStep

LEMMA PruneType == TypeOK /\ PruneStep => TypeOK'
<1> SUFFICES ASSUME TypeOK, PruneStep PROVE TypeOK'
  OBVIOUS
<1> USE DEF TypeOK, clockVars, ingestVars, mutatorVars, hitVars, ghostVars
<1>1. CASE PruneStart
  <2>1. pruner' \in PrunerType
    BY <1>1, Consts DEF PruneStart, PrunerType
  <2>. QED BY <1>1, <2>1 DEF PruneStart, oracleVars
<1>2. ASSUME NEW k \in Key, PruneShard(k) PROVE TypeOK'
  <2>1. pruner' \in PrunerType
    <3>. HIDE DEF TypeOK
    <3>1. pruner \in PrunerType
      BY DEF TypeOK
    <3>a. pruner.todo \ {k} \in SUBSET Key /\ pruner.removed + 1 \in Nat
      BY <3>1 DEF PrunerType
    <3>2. [pruner EXCEPT !.todo = @ \ {k}] \in PrunerType
      BY <3>1, <3>a DEF PrunerType
    <3>3. [pruner EXCEPT !.todo = @ \ {k}, !.removed = @ + 1] \in PrunerType
      BY <3>1, <3>a DEF PrunerType
    <3>. QED BY <1>2, <3>2, <3>3 DEF PruneShard
  <2>. QED BY <1>2, <2>1 DEF PruneShard
<1>3. CASE PruneEnd
  <2>1. pruner' \in PrunerType /\ pruner.removed \in Int
    BY <1>3 DEF PruneEnd, PrunerType
  <2>. QED BY <1>3, <2>1 DEF PruneEnd
<1>. QED BY <1>1, <1>2, <1>3 DEF PruneStep

LEMMA NextType == TypeOK /\ [Next]_vars => TypeOK'
<1> SUFFICES ASSUME TypeOK, [Next]_vars PROVE TypeOK'
  OBVIOUS
<1>1. CASE UNCHANGED vars
  BY <1>1 DEF TypeOK, vars, clockVars, ingestVars, oracleVars, mutatorVars,
              hitVars, ghostVars
<1>. QED BY <1>1, TickType, IngestType, EditType, DeleteType, SlideType,
            QueryStepType, PruneType DEF Next

(* The variables keep their types; a busy worker has a key.                *)
THEOREM TypeCorrect == Spec => []TypeOK
<1>. QED BY InitType, NextType, PTL DEF Spec

-----------------------------------------------------------------------------
(* The inductive invariant.                                                *)

Tainted == revived \cup unacked

(* The clocks stay together. *)
ClockInv ==
  /\ now <= srv + Drift /\ srv <= now + Drift
  /\ now <= MaxNow

(* What holds of a message until it is added: nobody but its ingester      *)
(* touches it, and the oracle's future expireAt bounds the stored expiry.  *)
IngestInv ==
  \A k \in Key :
    /\ k \in tracked => phase[k] = "done"
    /\ phase[k] \in {"unused", "queued"} => doc[k].st = "none"
    /\ doc[k].st = "unlinked" => phase[k] = "done"
    /\ phase[k] = "hset" => ttl[k] > 0
    /\ phase[k] = "written" /\ ttl[k] > 0 => doc[k].exp <= now + Drift + ttl[k]
    /\ phase[k] \in {"acked", "passed"} /\ ttl[k] > 0 =>
         doc[k].exp <= after[owner[k]] + Drift + ttl[k]
    /\ phase[k] \in {"written", "acked", "passed"} /\ ttl[k] = 0 =>
         doc[k].exp = Never

(* The mutators work on messages that are done with. *)
MutatorInv ==
  /\ editor # NoKey => phase[editor] = "done"
  /\ deleter.key # NoKey => phase[deleter.key] = "done"
  /\ slider.key # NoKey => phase[slider.key] = "done"
  /\ slider.key # NoKey => slider.ttl > 0

LagInv ==
  /\ slider.pc # "idle" => slider.at <= now /\ now < slider.at + SlideLag
  /\ deleter.pc = "sampled" => deleter.at <= now /\ now < deleter.at + DeleteLag
  /\ \A k \in Key : doc[k].st = "unlinked" =>
       doc[k].goneAt <= now /\ now < doc[k].goneAt + DeindexLag

(* k's slide is between PEXPIRE and Refresh. *)
Sliding(k) == slider.key = k /\ slider.pc \in {"extended", "stamped"}

SlideInv ==
  \A k \in Key : slider.key = k =>
    /\ k \in tracked => expireAt[k] > slider.at
    /\ slider.pc = "extended" /\ k \notin revived /\ doc[k].st # "none" =>
         doc[k].exp <= now + Drift + slider.ttl
    /\ slider.pc = "stamped" /\ k \notin revived /\ doc[k].st # "none" =>
         doc[k].exp <= slider.stamp + Drift + slider.ttl
    /\ Sliding(k) /\ k \in tracked /\ doc[k].st = "unlinked" =>
         expireAt[k] > doc[k].goneAt - DeleteLag

DeleteInv ==
  \A k \in Key : deleter.key = k =>
    /\ deleter.pc = "sampled" /\ k \in tracked /\ slider.key = k =>
         expireAt[k] > deleter.at
    /\ deleter.pc \in {"unlinked", "stamped"} /\ k \notin revived =>
         doc[k].st # "live"
    /\ deleter.pc = "stamped" /\ doc[k].st = "unlinked" =>
         doc[k].goneAt <= deleter.stamp

(* An entry marked deleted has no document, or one that is leaving. *)
DeletedInv ==
  \A k \in tracked \ revived : deletedAt[k] # 0 =>
    /\ doc[k].st # "live"
    /\ doc[k].st = "unlinked" => doc[k].goneAt <= deletedAt[k]

(* The heart of the matter: expireAt bounds the stored expiry, unless a    *)
(* slide is on its way, or was dropped because a delete overtook it.       *)
BoundInv ==
  \A k \in tracked \ Tainted : doc[k].st # "none" =>
    \/ doc[k].exp <= expireAt[k] + Drift
    \/ Sliding(k)
    \/ /\ doc[k].st = "unlinked"
       /\ deletedAt[k] # 0
       /\ expireAt[k] > doc[k].goneAt - DeleteLag

(* A returned key stays unobjectionable until it is checked, whatever the  *)
(* other workers do to its entry meanwhile.                                *)
AnswerInv ==
  \A q \in Queryer : \A k \in query[q].res :
    /\ k \in tracked /\ k \notin Tainted => expireAt[k] > query[q].t0 - Skew
    /\ k \in tracked /\ k \notin revived /\ deletedAt[k] # 0 =>
         deletedAt[k] > query[q].t0 - Grace
    /\ phase[k] \in {"acked", "passed"} /\ ttl[k] > 0 =>
         after[owner[k]] + ttl[k] > query[q].t0 - Skew
    /\ slider.pc = "stamped" /\ slider.key = k /\ k \notin Tainted =>
         slider.stamp + slider.ttl > query[q].t0 - Skew
    /\ deleter.pc = "stamped" /\ deleter.key = k /\ k \notin revived =>
         deleter.stamp > query[q].t0 - Grace

QueryInv ==
  \A q \in Queryer :
    /\ query[q].t0 <= now
    /\ query[q].pc # "answered" => query[q].res = {} /\ query[q].hit = FALSE

Dead(k) == doc[k].st = "none" \/ doc[k].exp <= srv

ProbeInv ==
  \A q \in Queryer : query[q].probe # NoKey =>
    /\ phase[query[q].probe] = "done"
    /\ query[q].probe \in Tainted \/ Dead(query[q].probe)

HitInv ==
  \A q \in Queryer : query[q].hit => query[q].probe \in unacked

PruneInv == pruner.todo # {} => pruner.cutoff <= now - Retain

Sound == NoFalseExpired /\ NoFalseDeleted /\ ProbeSound

(* The inductive invariant. *)
IInv ==
  /\ TypeOK
  /\ ClockInv /\ IngestInv /\ MutatorInv /\ LagInv
  /\ SlideInv /\ DeleteInv /\ DeletedInv /\ BoundInv
  /\ QueryInv /\ AnswerInv /\ ProbeInv /\ HitInv /\ PruneInv
  /\ Sound

-----------------------------------------------------------------------------
(* Facts every step below uses.                                            *)

LEMMA Types ==
  ASSUME TypeOK
  PROVE  /\ now \in Int /\ srv \in Int
         /\ \A k \in Key : /\ doc[k].exp \in Int /\ doc[k].goneAt \in Int
                           /\ expireAt[k] \in Int /\ deletedAt[k] \in Int
                           /\ ttl[k] \in Int /\ ttl[k] >= 0
                           /\ after[owner[k]] \in Int
         /\ slider.at \in Int /\ slider.stamp \in Int /\ slider.ttl \in Int
         /\ deleter.at \in Int /\ deleter.stamp \in Int
         /\ \A q \in Queryer : query[q].t0 \in Int
         /\ pruner.cutoff \in Int
<1> USE DEF TypeOK
<1>1. \A k \in Key : doc[k] \in DocType
  OBVIOUS
<1>2. \A k \in Key : doc[k].exp \in Int /\ doc[k].goneAt \in Int
  BY <1>1 DEF DocType
<1>3. \A k \in Key : ttl[k] \in Int /\ ttl[k] >= 0
  BY TTLNat
<1>4. slider.at \in Int /\ slider.stamp \in Int /\ slider.ttl \in Int
  BY TTLNat DEF SliderType
<1>5. deleter.at \in Int /\ deleter.stamp \in Int
  BY DEF DeleterType
<1>6. \A q \in Queryer : query[q].t0 \in Int
  BY DEF QueryType
<1>7. pruner.cutoff \in Int
  BY DEF PrunerType
<1>. QED BY <1>2, <1>3, <1>4, <1>5, <1>6, <1>7

\* A conjunct of the invariant holds on if its variables do not change.
LEMMA ClockFrame == ClockInv /\ UNCHANGED <<now, srv>> => ClockInv'
BY DEF ClockInv

LEMMA IngestFrame ==
  IngestInv /\ UNCHANGED <<now, doc, phase, owner, ttl, after, tracked>>
    => IngestInv'
BY DEF IngestInv

LEMMA MutatorFrame ==
  MutatorInv /\ UNCHANGED <<phase, editor, deleter, slider>> => MutatorInv'
BY DEF MutatorInv

LEMMA LagFrame == LagInv /\ UNCHANGED <<now, doc, deleter, slider>> => LagInv'
BY DEF LagInv

LEMMA SlideFrame ==
  SlideInv /\ UNCHANGED <<now, doc, tracked, expireAt, slider, revived>>
    => SlideInv'
BY DEF SlideInv, Sliding

LEMMA DeleteFrame ==
  DeleteInv /\ UNCHANGED <<doc, tracked, expireAt, deleter, slider, revived>>
    => DeleteInv'
BY DEF DeleteInv

LEMMA DeletedFrame ==
  DeletedInv /\ UNCHANGED <<doc, tracked, deletedAt, revived>> => DeletedInv'
BY DEF DeletedInv

LEMMA BoundFrame ==
  BoundInv /\ UNCHANGED <<doc, tracked, expireAt, deletedAt, slider, revived,
                          unacked>>
    => BoundInv'
BY DEF BoundInv, Sliding, Tainted

LEMMA AnswerFrame ==
  AnswerInv /\ UNCHANGED <<phase, owner, ttl, after, tracked, expireAt,
                           deletedAt, deleter, slider, query, revived, unacked>>
    => AnswerInv'
BY DEF AnswerInv, Tainted

LEMMA QueryFrame == QueryInv /\ UNCHANGED <<now, query>> => QueryInv'
BY DEF QueryInv

LEMMA ProbeFrame ==
  ProbeInv /\ UNCHANGED <<srv, doc, phase, query, revived, unacked>>
    => ProbeInv'
BY DEF ProbeInv, Dead, Tainted

LEMMA HitFrame == HitInv /\ UNCHANGED <<query, unacked>> => HitInv'
BY DEF HitInv

LEMMA PruneFrame == PruneInv /\ UNCHANGED <<now, pruner>> => PruneInv'
BY DEF PruneInv

LEMMA SoundFrame ==
  Sound /\ UNCHANGED <<expiredHits, deletedHits, probeHits, revived, unacked>>
    => Sound'
BY DEF Sound, NoFalseExpired, NoFalseDeleted, ProbeSound

-----------------------------------------------------------------------------
LEMMA InitInv == Init => IInv
<1> SUFFICES ASSUME Init PROVE IInv
  OBVIOUS
<1>1. TypeOK
  BY InitType
<1>2. Idle.pc = "idle" /\ Idle.key = NoKey /\ IdleSlide.pc = "idle"
      /\ IdleSlide.key = NoKey
  BY DEF Idle, IdleSlide
<1>3. IdleQuery.res = {} /\ IdleQuery.hit = FALSE /\ IdleQuery.probe = NoKey
      /\ IdleQuery.t0 = 0
  BY DEF IdleQuery
<1>4. IdlePrune.todo = {} /\ NoDoc.st = "none"
  BY DEF IdlePrune, NoDoc
<1>. USE <1>1, <1>2, <1>3, <1>4, Consts DEF Init
<1>5. ClockInv /\ MutatorInv /\ PruneInv
  BY DEF ClockInv, MutatorInv, PruneInv
<1>a. IngestInv
  BY DEF IngestInv
<1>6. LagInv
  BY DEF LagInv
<1>7. SlideInv /\ DeleteInv
  BY DEF SlideInv, DeleteInv
<1>8. DeletedInv /\ BoundInv
  BY DEF DeletedInv, BoundInv
<1>9. QueryInv /\ AnswerInv /\ ProbeInv /\ HitInv
  BY DEF QueryInv, AnswerInv, ProbeInv, HitInv
<1>10. Sound
  BY DEF Sound, NoFalseExpired, NoFalseDeleted, ProbeSound
<1>. QED BY <1>5, <1>a, <1>6, <1>7, <1>8, <1>9, <1>10 DEF IInv

-----------------------------------------------------------------------------
(* Time and the index.                                                     *)

LEMMA TickInv == ASSUME IInv, Tolerances, Tick PROVE IInv'
<1> USE DEF IInv
<1>1. TypeOK'
  BY NextType DEF Next
<1>2. /\ UNCHANGED <<doc, ingestVars, oracleVars, mutatorVars, query, pruner,
                     hitVars, ghostVars>>
      /\ now' \in Int /\ srv' \in Int
      /\ now <= now' /\ srv <= srv'
      /\ now' <= MaxNow /\ now' <= srv' + Drift /\ srv' <= now' + Drift
      /\ now' # now => Prompt(now')
  BY Types DEF Tick
<1>3. UNCHANGED <<phase, tracked, expireAt, deletedAt, deleter, slider, revived>>
  BY <1>2 DEF ingestVars, oracleVars, mutatorVars, ghostVars
<1>4. ClockInv'
  BY <1>2 DEF ClockInv
<1>5. IngestInv'
  BY <1>2, Types, Consts DEF IngestInv, ingestVars, oracleVars
<1>6. LagInv'
  BY <1>2, <1>3, Types, Consts DEF LagInv, Prompt
<1>7. SlideInv'
  BY <1>2, <1>3, Types, Consts DEF SlideInv, Sliding
<1>8. QueryInv'
  BY <1>2, Types DEF QueryInv
<1>9. ProbeInv'
  BY <1>2, <1>3, Types DEF ProbeInv, Dead, Tainted, ghostVars, TypeOK, QueryType
<1>10. PruneInv'
  BY <1>2, Types, Consts DEF PruneInv
<1>. QED
  BY <1>1, <1>2, <1>3, <1>4, <1>5, <1>6, <1>7, <1>8, <1>9, <1>10,
     MutatorFrame, DeleteFrame, DeletedFrame, BoundFrame, AnswerFrame, HitFrame,
     SoundFrame
  DEF ingestVars, oracleVars, mutatorVars, hitVars, ghostVars

LEMMA DeindexInv ==
  ASSUME IInv, Tolerances, NEW k \in Key, Deindex(k) PROVE IInv'
<1> USE DEF IInv
<1>1. TypeOK'
  BY NextType DEF Next
<1>2. /\ UNCHANGED <<clockVars, ingestVars, oracleVars, mutatorVars, query,
                     pruner, hitVars, ghostVars>>
      /\ UNCHANGED <<now, srv, phase, owner, ttl, after, tracked, expireAt,
                     deletedAt, deleter, slider, revived>>
      /\ \A j \in Key : j # k => doc'[j] = doc[j]
      /\ doc[k].st = "unlinked" /\ doc'[k].st = "none"
      /\ doc'[k].exp = 0
  BY DEF Deindex, NoDoc, TypeOK, clockVars, ingestVars, oracleVars, mutatorVars,
         ghostVars
<1>3. phase[k] # "written" /\ phase[k] # "acked" /\ phase[k] # "passed"
  BY <1>2 DEF IngestInv
<1>5. IngestInv'
  BY <1>2, <1>3 DEF IngestInv
<1>6. LagInv'
  BY <1>2 DEF LagInv
<1>7. SlideInv'
  BY <1>2 DEF SlideInv, Sliding
<1>8. DeleteInv'
  BY <1>2 DEF DeleteInv
<1>9. DeletedInv'
  BY <1>2, <1>1 DEF DeletedInv, TypeOK
<1>10. BoundInv'
  BY <1>2, <1>1 DEF BoundInv, Sliding, Tainted, ghostVars, TypeOK
<1>11. ProbeInv'
  BY <1>2, <1>1 DEF ProbeInv, Dead, Tainted, ghostVars, TypeOK, QueryType
<1>. QED
  BY <1>1, <1>2, <1>5, <1>6, <1>7, <1>8, <1>9, <1>10, <1>11,
     ClockFrame, MutatorFrame, AnswerFrame, QueryFrame, HitFrame, PruneFrame,
     SoundFrame
  DEF clockVars, ingestVars, oracleVars, mutatorVars, hitVars, ghostVars

-----------------------------------------------------------------------------
(* Ingesters: they touch only messages that nobody else knows of yet.      *)

LEMMA IngestStartInv ==
  ASSUME IInv, Tolerances, NEW i \in Ingester, NEW S \in SUBSET Key,
         NEW t \in [S -> TTL] \cup {[k \in S |-> 0]}, IngestStart(i, S, t)
  PROVE  IInv'
<1> USE DEF IInv
<1>1. TypeOK'
  BY NextType DEF Next, IngestStep
<1>2. /\ UNCHANGED <<clockVars, doc, oracleVars, mutatorVars, query, pruner,
                     hitVars, ghostVars>>
      /\ UNCHANGED <<now, tracked, slider, deleter, editor>>
      /\ \A k \in Key : k \notin S =>
           phase'[k] = phase[k] /\ owner'[k] = owner[k] /\ ttl'[k] = ttl[k]
      /\ \A k \in S : phase[k] = "unused" /\ phase'[k] = "queued"
      /\ \A j \in Ingester : j # i => after'[j] = after[j]
      /\ \A k \in Key : phase[k] \in {"acked", "passed"} => owner[k] # i
  BY DEF IngestStart, Batch, TypeOK, clockVars, oracleVars, mutatorVars
<1>3. \A k \in Key : owner[k] \in Ingester
  BY DEF TypeOK
<1>4. IngestInv'
  BY <1>2, <1>3 DEF IngestInv
<1>5. MutatorInv'
  BY <1>1, <1>2, Consts DEF MutatorInv, TypeOK, DeleterType, SliderType
<1>6. AnswerInv'
  BY <1>2, <1>3 DEF AnswerInv, Tainted, TypeOK, QueryType, oracleVars, ghostVars
<1>7. ProbeInv'
  BY <1>2 DEF ProbeInv, Dead, Tainted, TypeOK, QueryType, clockVars, ghostVars
<1>. QED
  BY <1>1, <1>2, <1>4, <1>5, <1>6, <1>7, ClockFrame, LagFrame, SlideFrame,
     DeleteFrame, DeletedFrame, BoundFrame, QueryFrame, HitFrame, PruneFrame,
     SoundFrame
  DEF clockVars, oracleVars, mutatorVars, hitVars, ghostVars

\* The two commands of one message, and its outcome in the index.
LEMMA IngestDocInv ==
  ASSUME IInv, Tolerances, NEW k \in Key, IngestHSet(k) \/ IngestPExpire(k)
  PROVE  IInv'
<1> USE DEF IInv
<1>1. TypeOK'
  BY NextType DEF Next, IngestStep
<1>2. /\ UNCHANGED <<clockVars, owner, ttl, after, oracleVars, mutatorVars,
                     query, pruner, hitVars, ghostVars>>
      /\ UNCHANGED <<now, srv, tracked, expireAt, deletedAt, slider, deleter,
                     editor, revived, unacked>>
      /\ \A j \in Key : j # k => phase'[j] = phase[j] /\ doc'[j] = doc[j]
      /\ phase[k] \in {"queued", "hset"} /\ phase'[k] \in {"hset", "written"}
  BY DEF IngestHSet, IngestPExpire, TypeOK, clockVars, oracleVars, mutatorVars,
         ghostVars
<1>3. /\ phase'[k] = "written" /\ ttl[k] > 0 => doc'[k].exp = srv + ttl[k]
      /\ phase'[k] = "written" /\ ttl[k] = 0 => doc'[k].exp = Never
      /\ doc'[k].st = doc[k].st \/ doc'[k].st = "live"
  <2>1. CASE IngestHSet(k)
    BY <2>1 DEF IngestHSet, TypeOK
  <2>2. CASE IngestPExpire(k)
    <3>1. ttl[k] # 0
      BY <2>2, Types DEF IngestPExpire, IngestInv
    <3>2. doc[k] \in DocType
      BY DEF TypeOK
    <3>. QED BY <2>2, <3>1, <3>2 DEF IngestPExpire, TypeOK, DocType
  <2>. QED BY <2>1, <2>2
<1>4. k \notin tracked /\ slider.key # k /\ deleter.key # k /\ editor # k
  BY <1>2, Consts DEF IngestInv, MutatorInv
<1>5. \A q \in Queryer : query[q].probe # k
  BY <1>2, Consts DEF ProbeInv
<1>6. IngestInv'
  <2>1. \A j \in Key : j # k => owner'[j] = owner[j] /\ ttl'[j] = ttl[j]
    BY <1>2
  <2>2. ttl[k] > 0 => ttl[k] # 0
    BY Types
  <2>3. phase'[k] = "hset" => ttl[k] > 0
    BY <1>2, Types DEF IngestHSet, IngestPExpire, IngestInv, TypeOK
  <2>4. phase'[k] = "written" /\ ttl[k] > 0 => doc'[k].exp <= now + Drift + ttl[k]
    BY <1>3, Types, Consts DEF ClockInv
  <2>5. doc'[k].st # "unlinked"
    BY <1>2, <1>3 DEF IngestInv
  <2>. QED BY <1>2, <1>3, <1>4, <2>3, <2>4, <2>5 DEF IngestInv
<1>7. MutatorInv'
  BY <1>2, <1>4, Consts DEF MutatorInv, TypeOK, DeleterType, SliderType
<1>8. LagInv'
  BY <1>2, <1>3 DEF LagInv, IngestInv
<1>9. SlideInv' /\ DeleteInv'
  BY <1>2, <1>4 DEF SlideInv, DeleteInv, Sliding
<1>10. DeletedInv'
  BY <1>2, <1>4 DEF DeletedInv, TypeOK
<1>11. BoundInv'
  BY <1>2, <1>4 DEF BoundInv, Sliding, Tainted, TypeOK
<1>12. AnswerInv'
  BY <1>2 DEF AnswerInv, Tainted, TypeOK, QueryType
<1>13. ProbeInv'
  BY <1>2, <1>5 DEF ProbeInv, Dead, Tainted, TypeOK, QueryType
<1>. QED
  BY <1>1, <1>2, <1>6, <1>7, <1>8, <1>9, <1>10, <1>11, <1>12, <1>13,
     ClockFrame, QueryFrame, HitFrame, PruneFrame, SoundFrame
  DEF hitVars

LEMMA IngestAckInv ==
  ASSUME IInv, Tolerances, NEW i \in Ingester, IngestAck(i) PROVE IInv'
<1> USE DEF IInv
<1>1. TypeOK'
  BY NextType DEF Next, IngestStep
<1>2. /\ UNCHANGED <<clockVars, doc, owner, ttl, oracleVars, mutatorVars, query,
                     pruner, hitVars, ghostVars>>
      /\ UNCHANGED <<now, tracked, slider, deleter, editor>>
      /\ \A k \in Key : \/ owner[k] # i /\ phase'[k] = phase[k]
                           /\ after'[owner[k]] = after[owner[k]]
                        \/ phase[k] \in {"unused", "done"} /\ phase'[k] = phase[k]
                        \/ phase[k] = "written" /\ phase'[k] = "acked"
                           /\ after'[owner[k]] = now
  <2>1. \A k \in Key : owner[k] \in Ingester
    BY DEF TypeOK
  <2>2. \A k \in Key : owner[k] # i =>
          phase'[k] = phase[k] /\ after'[owner[k]] = after[owner[k]]
    BY <2>1 DEF IngestAck, Batch, TypeOK
  <2>3. \A k \in Key : owner[k] = i /\ phase[k] \notin {"unused", "done"} =>
          phase[k] = "written" /\ phase'[k] = "acked" /\ after'[owner[k]] = now
    BY DEF IngestAck, Batch, TypeOK
  <2>4. \A k \in Key : phase[k] \in {"unused", "done"} => phase'[k] = phase[k]
    BY DEF IngestAck, Batch, TypeOK
  <2>. QED
    BY <2>2, <2>3, <2>4 DEF IngestAck, clockVars, oracleVars, mutatorVars
<1>4. IngestInv'
  BY <1>2, Types DEF IngestInv
<1>5. MutatorInv'
  BY <1>2, Consts DEF MutatorInv, TypeOK, DeleterType, SliderType
<1>6. AnswerInv'
  <2> SUFFICES ASSUME NEW q \in Queryer, NEW k \in query[q].res,
                      phase'[k] \in {"acked", "passed"}, ttl[k] > 0
               PROVE  after'[owner[k]] + ttl[k] > query[q].t0 - Skew
    BY <1>2 DEF AnswerInv, Tainted, oracleVars, ghostVars
  <2>1. k \in Key
    BY DEF TypeOK, QueryType
  <2>2. query[q].t0 <= now
    BY DEF QueryInv
  <2>3. CASE phase[k] = "written"
    BY <1>2, <2>1, <2>2, <2>3, Types, Consts
  <2>4. CASE phase[k] # "written"
    BY <1>2, <2>1, <2>4 DEF AnswerInv
  <2>. QED BY <2>3, <2>4
<1>7. ProbeInv'
  BY <1>2 DEF ProbeInv, Dead, Tainted, TypeOK, QueryType, clockVars, ghostVars
<1>. QED
  BY <1>1, <1>2, <1>4, <1>5, <1>6, <1>7, ClockFrame, LagFrame, SlideFrame,
     DeleteFrame, DeletedFrame, BoundFrame, QueryFrame, HitFrame, PruneFrame,
     SoundFrame
  DEF clockVars, oracleVars, mutatorVars, hitVars, ghostVars

\* A failed batch and a refused Add only end the ingest of their messages; a
\* passed cap check moves one on.
LEMMA IngestPhaseInv ==
  ASSUME IInv, Tolerances,
         (\E i \in Ingester : IngestFail(i)) \/ (\E k \in Key : AddCheck(k))
  PROVE  IInv'
<1> USE DEF IInv
<1>1. TypeOK'
  BY NextType DEF Next, IngestStep
<1>2. /\ UNCHANGED <<clockVars, doc, owner, ttl, after, oracleVars, mutatorVars,
                     query, pruner, hitVars, ghostVars>>
      /\ \A k \in Key : \/ phase'[k] = phase[k]
                        \/ phase'[k] = "done"
                        \/ phase[k] = "acked" /\ phase'[k] = "passed"
  BY DEF IngestFail, AddCheck, Batch, TypeOK
<1>3. UNCHANGED <<now, tracked, slider, deleter, editor>>
  BY <1>2 DEF clockVars, oracleVars, mutatorVars
<1>4. IngestInv'
  BY <1>2, <1>3 DEF IngestInv
<1>5. MutatorInv'
  BY <1>2, <1>3, Consts DEF MutatorInv, TypeOK, DeleterType, SliderType
<1>6. AnswerInv'
  BY <1>2, <1>3 DEF AnswerInv, Tainted, TypeOK, QueryType, oracleVars, ghostVars
<1>7. ProbeInv'
  BY <1>2 DEF ProbeInv, Dead, Tainted, TypeOK, QueryType, clockVars, ghostVars
<1>. QED
  BY <1>1, <1>2, <1>3, <1>4, <1>5, <1>6, <1>7, ClockFrame, LagFrame, SlideFrame,
     DeleteFrame, DeletedFrame, BoundFrame, QueryFrame, HitFrame, PruneFrame,
     SoundFrame
  DEF clockVars, oracleVars, mutatorVars, hitVars, ghostVars

\* A new entry starts with an expireAt that bounds the stored expiry.
LEMMA AddInsertInv ==
  ASSUME IInv, Tolerances, NEW k \in Key, AddInsert(k) PROVE IInv'
<1> USE DEF IInv
<1>1. TypeOK'
  BY NextType DEF Next, IngestStep
<1>2. /\ UNCHANGED <<clockVars, doc, owner, ttl, after, mutatorVars, query,
                     pruner, hitVars, ghostVars>>
      /\ UNCHANGED <<now, srv, slider, deleter, editor, revived, unacked>>
      /\ \A j \in Key : j # k =>
           /\ phase'[j] = phase[j]
           /\ expireAt'[j] = expireAt[j] /\ deletedAt'[j] = deletedAt[j]
      /\ tracked' = tracked \cup {k}
      /\ phase[k] = "passed" /\ phase'[k] = "done"
      /\ deletedAt'[k] = 0
      /\ ttl[k] > 0 => expireAt'[k] = after[owner[k]] + ttl[k]
      /\ ttl[k] = 0 => expireAt'[k] = Never
  BY Types DEF AddInsert, OracleAdd, TypeOK, clockVars, mutatorVars, ghostVars
<1>3. k \notin tracked /\ slider.key # k /\ deleter.key # k
  BY <1>2, Consts DEF IngestInv, MutatorInv
<1>4. IngestInv'
  BY <1>2 DEF IngestInv
<1>5. MutatorInv'
  BY <1>2, Consts DEF MutatorInv, TypeOK, DeleterType, SliderType
<1>6. SlideInv' /\ DeleteInv'
  BY <1>2, <1>3 DEF SlideInv, DeleteInv, Sliding
<1>7. DeletedInv'
  BY <1>2, <1>3 DEF DeletedInv, TypeOK
<1>8. doc[k].exp <= expireAt'[k] + Drift
  BY <1>2, Types, Consts DEF IngestInv
<1>9. BoundInv'
  BY <1>2, <1>3, <1>8 DEF BoundInv, Sliding, Tainted, TypeOK
<1>10. AnswerInv'
  <2>1. \A q \in Queryer : k \in query[q].res => expireAt'[k] > query[q].t0 - Skew
    BY <1>2, Types, Consts DEF AnswerInv, QueryInv, ClockInv
  <2>. QED BY <1>2, <1>3, <2>1 DEF AnswerInv, Tainted, TypeOK, QueryType
<1>11. ProbeInv'
  BY <1>2 DEF ProbeInv, Dead, Tainted, TypeOK, QueryType
<1>. QED
  BY <1>1, <1>2, <1>4, <1>5, <1>6, <1>7, <1>9, <1>10, <1>11, ClockFrame,
     LagFrame, QueryFrame, HitFrame, PruneFrame, SoundFrame
  DEF hitVars

LEMMA IngestStepInv == ASSUME IInv, Tolerances, IngestStep PROVE IInv'
BY IngestStartInv, IngestDocInv, IngestAckInv, IngestPhaseInv, AddInsertInv
   DEF IngestStep

-----------------------------------------------------------------------------
(* Editor and deleter.                                                     *)

LEMMA EditSampleInv ==
  ASSUME IInv, Tolerances, NEW k \in Key, EditSample(k) PROVE IInv'
<1> USE DEF IInv
<1>1. TypeOK'
  BY NextType DEF Next, EditStep
<1>2. MutatorInv'
  BY DEF MutatorInv, EditSample, LiveSample, IngestInv, ingestVars
<1>. QED
  BY <1>1, <1>2, ClockFrame, IngestFrame, LagFrame, SlideFrame, DeleteFrame,
     DeletedFrame, BoundFrame, AnswerFrame, QueryFrame, ProbeFrame, HitFrame,
     PruneFrame, SoundFrame
  DEF EditSample, clockVars, ingestVars, oracleVars, hitVars, ghostVars

\* An edit changes nothing that exists, or re-creates the key.
LEMMA EditBodyInv == ASSUME IInv, Tolerances, EditBody PROVE IInv'
<1> USE DEF IInv
<1> DEFINE k == editor
<1>1. TypeOK'
  BY NextType DEF Next, EditStep
<1>2. /\ UNCHANGED <<now, srv, phase, owner, ttl, after, tracked, expireAt,
                     deletedAt, count, deleter, slider, query, pruner,
                     expiredHits, deletedHits, probeHits, unacked>>
      /\ editor' = NoKey
      /\ k \in Key /\ phase[k] = "done"
      /\ \A j \in Key : j # k => doc'[j] = doc[j]
      /\ revived \subseteq revived'
      /\ \/ doc'[k] = doc[k]
         \/ doc'[k].st = "live" /\ k \in revived'
  BY DEF EditBody, MutatorInv, TypeOK, clockVars, ingestVars, oracleVars, hitVars
<1> HIDE DEF k
<1>3. IngestInv'
  BY <1>2 DEF IngestInv
<1>4. MutatorInv'
  BY <1>2, Consts DEF MutatorInv
<1>5. LagInv'
  BY <1>2 DEF LagInv
<1>6. SlideInv' /\ DeleteInv'
  BY <1>2 DEF SlideInv, DeleteInv, Sliding
<1>7. DeletedInv'
  BY <1>2 DEF DeletedInv, TypeOK
<1>8. BoundInv'
  BY <1>2 DEF BoundInv, Sliding, Tainted, TypeOK
<1>9. AnswerInv'
  BY <1>2 DEF AnswerInv, Tainted
<1>10. ProbeInv'
  BY <1>2 DEF ProbeInv, Dead, Tainted, TypeOK, QueryType
<1>11. Sound'
  BY <1>2 DEF Sound, NoFalseExpired, NoFalseDeleted, ProbeSound
<1>. QED
  BY <1>1, <1>2, <1>3, <1>4, <1>5, <1>6, <1>7, <1>8, <1>9, <1>10, <1>11,
     ClockFrame, QueryFrame, HitFrame, PruneFrame

LEMMA DeleteSampleInv ==
  ASSUME IInv, Tolerances, NEW k \in Key, DeleteSample(k) PROVE IInv'
<1> USE DEF IInv
<1>1. TypeOK'
  BY NextType DEF Next, DeleteStep
<1>2. /\ UNCHANGED <<now, srv, doc, phase, owner, ttl, after, tracked, expireAt,
                     deletedAt, count, editor, slider, query, pruner,
                     expiredHits, deletedHits, probeHits, revived, unacked>>
      /\ deleter'.pc = "sampled" /\ deleter'.key = k /\ deleter'.at = now
      /\ k \in tracked /\ expireAt[k] > now
  BY DEF DeleteSample, LiveSample, clockVars, ingestVars, oracleVars, hitVars,
         ghostVars
<1>3. MutatorInv'
  BY <1>2 DEF MutatorInv, IngestInv
<1>4. LagInv'
  BY <1>2, Types, Consts DEF LagInv
<1>5. DeleteInv'
  BY <1>2 DEF DeleteInv
<1>6. AnswerInv'
  BY <1>2 DEF AnswerInv, Tainted
<1>. QED
  BY <1>1, <1>2, <1>3, <1>4, <1>5, <1>6, ClockFrame, IngestFrame, SlideFrame,
     DeletedFrame, BoundFrame, QueryFrame, ProbeFrame, HitFrame, PruneFrame,
     SoundFrame

\* UNLINK: what was there starts to leave the index; a slide whose Refresh is
\* still to come was sampled before the entry's expiry, and so was the delete.
LEMMA UnlinkInv ==
  ASSUME IInv, Tolerances, DeleteRun \/ DeleteFail PROVE IInv'
<1> USE DEF IInv
<1> DEFINE k == deleter.key
<1>1. TypeOK'
  BY NextType DEF Next, DeleteStep
<1>2. /\ UNCHANGED <<now, srv, phase, owner, ttl, after, tracked, expireAt,
                     deletedAt, count, editor, slider, query, pruner,
                     expiredHits, deletedHits, probeHits, revived, unacked>>
      /\ deleter.pc = "sampled"
      /\ \/ deleter'.pc = "unlinked" /\ deleter'.key = k
         \/ deleter'.pc = "idle" /\ deleter'.key = NoKey
  BY DEF DeleteRun, DeleteFail, Idle, TypeOK, DeleterType, clockVars, ingestVars,
         oracleVars, hitVars, ghostVars
<1>3. k \in Key /\ phase[k] = "done"
  BY <1>2, Consts DEF TypeOK, DeleterType, MutatorInv
<1>4. Unlink(k) \/ (UNCHANGED doc /\ deleter'.pc = "idle")
  BY DEF DeleteRun, DeleteFail, Idle
<1>5. /\ \A j \in Key : j # k => doc'[j] = doc[j]
      /\ \/ doc'[k] = doc[k] /\ (doc[k].st # "live" \/ deleter'.pc = "idle")
         \/ doc'[k].st = "none"
         \/ /\ Exists(k)
            /\ doc'[k].st = "unlinked" /\ doc'[k].exp = doc[k].exp
            /\ doc'[k].goneAt = now
  <2>1. doc[k] \in DocType
    BY <1>3 DEF TypeOK
  <2>2. CASE Unlink(k)
    BY <1>3, <2>1, <2>2 DEF Unlink, Exists, NoDoc, TypeOK, DocType
  <2>. QED BY <1>4, <2>2
<1> HIDE DEF k
<1>6. IngestInv'
  BY <1>2, <1>3, <1>5 DEF IngestInv
<1>7. MutatorInv'
  BY <1>2, <1>3 DEF MutatorInv
<1>8. LagInv'
  BY <1>2, <1>3, <1>5, Types, Consts DEF LagInv
<1>9. SlideInv'
  <2>1. Exists(k) /\ k \in tracked /\ slider.key = k =>
          expireAt[k] > now - DeleteLag
    <3>1. k \in tracked /\ slider.key = k => expireAt[k] > deleter.at
      BY <1>2, <1>3 DEF DeleteInv, k
    <3>2. now < deleter.at + DeleteLag
      BY <1>2 DEF LagInv
    <3>. QED BY <1>3, <3>1, <3>2, Types, Consts
  <2>2. \A j \in Key : j # k => doc'[j] = doc[j]
    BY <1>5
  <2>3. doc'[k].st # "none" => doc'[k].exp = doc[k].exp /\ doc[k].st # "none"
    BY <1>5 DEF Exists
  <2>4. doc'[k].st = "unlinked" =>
          \/ doc[k].st = "unlinked" /\ doc'[k].goneAt = doc[k].goneAt
          \/ Exists(k) /\ doc'[k].goneAt = now
    BY <1>5
  <2>. QED BY <1>2, <1>3, <2>1, <2>2, <2>3, <2>4 DEF SlideInv, Sliding
<1>10. DeleteInv'
  BY <1>2, <1>3, <1>5, Consts DEF DeleteInv
<1>11. DeletedInv'
  BY <1>2, <1>3, <1>5 DEF DeletedInv, Exists, TypeOK
<1>12. BoundInv'
  BY <1>2, <1>3, <1>5 DEF BoundInv, Sliding, Tainted, Exists, TypeOK
<1>13. AnswerInv'
  BY <1>2 DEF AnswerInv, Tainted
<1>14. ProbeInv'
  BY <1>2, <1>3, <1>5, Types DEF ProbeInv, Dead, Tainted, Exists, TypeOK, QueryType
<1>. QED
  BY <1>1, <1>2, <1>6, <1>7, <1>8, <1>9, <1>10, <1>11, <1>12, <1>13, <1>14,
     ClockFrame, QueryFrame, HitFrame, PruneFrame, SoundFrame

LEMMA DeleteStampInv == ASSUME IInv, Tolerances, DeleteStamp PROVE IInv'
<1> USE DEF IInv
<1>1. TypeOK'
  BY NextType DEF Next, DeleteStep
<1>2. /\ UNCHANGED <<now, srv, doc, phase, owner, ttl, after, tracked, expireAt,
                     deletedAt, count, editor, slider, query, pruner,
                     expiredHits, deletedHits, probeHits, revived, unacked>>
      /\ deleter.pc = "unlinked" /\ deleter'.pc = "stamped"
      /\ deleter'.key = deleter.key /\ deleter'.stamp = now
  BY DEF DeleteStamp, TypeOK, DeleterType, clockVars, ingestVars, oracleVars,
         hitVars, ghostVars
<1>3. MutatorInv'
  BY <1>2 DEF MutatorInv
<1>4. LagInv'
  BY <1>2 DEF LagInv
<1>5. DeleteInv'
  BY <1>2 DEF DeleteInv, LagInv
<1>6. AnswerInv'
  <2>1. \A q \in Queryer : now > query[q].t0 - Grace
    BY Types, Consts DEF QueryInv, Tolerances
  <2>. QED BY <1>2, <2>1 DEF AnswerInv, Tainted
<1>. QED
  BY <1>1, <1>2, <1>3, <1>4, <1>5, <1>6, ClockFrame, IngestFrame, SlideFrame,
     DeletedFrame, BoundFrame, QueryFrame, ProbeFrame, HitFrame, PruneFrame,
     SoundFrame

LEMMA MarkDeletedInv == ASSUME IInv, Tolerances, MarkDeleted PROVE IInv'
<1> USE DEF IInv
<1> DEFINE k == deleter.key
<1>1. TypeOK'
  BY NextType DEF Next, DeleteStep
<1>2. /\ UNCHANGED <<now, srv, doc, phase, owner, ttl, after, tracked, expireAt,
                     count, editor, slider, query, pruner,
                     expiredHits, deletedHits, probeHits, revived, unacked>>
      /\ deleter.pc = "stamped"
      /\ deleter'.pc = "idle" /\ deleter'.key = NoKey
      /\ \A j \in Key : j # k => deletedAt'[j] = deletedAt[j]
      /\ \/ deletedAt'[k] = deletedAt[k]
         \/ deletedAt[k] = 0 /\ deletedAt'[k] = deleter.stamp
  BY DEF MarkDeleted, OracleMarkDeleted, Idle, TypeOK, clockVars, ingestVars,
         hitVars, ghostVars
<1>3. k \in Key
  BY <1>2, Consts DEF TypeOK, DeleterType
<1> HIDE DEF k
<1>4. MutatorInv'
  BY <1>2 DEF MutatorInv
<1>5. LagInv'
  BY <1>2 DEF LagInv
<1>6. DeleteInv'
  BY <1>2, Consts DEF DeleteInv
<1>7. DeletedInv'
  BY <1>2, <1>3 DEF DeletedInv, DeleteInv, TypeOK, k
<1>8. BoundInv'
  BY <1>2, <1>3 DEF BoundInv, Sliding, Tainted, TypeOK
<1>9. AnswerInv'
  <2>1. \A q \in Queryer : query[q].res \subseteq Key
    BY DEF TypeOK, QueryType
  <2>. QED BY <1>2, <1>3, <2>1 DEF AnswerInv, Tainted, k
<1>. QED
  BY <1>1, <1>2, <1>4, <1>5, <1>6, <1>7, <1>8, <1>9, ClockFrame, IngestFrame,
     SlideFrame, QueryFrame, ProbeFrame, HitFrame, PruneFrame, SoundFrame

LEMMA EditDeleteInv ==
  ASSUME IInv, Tolerances, EditStep \/ DeleteStep PROVE IInv'
BY EditSampleInv, EditBodyInv, DeleteSampleInv, UnlinkInv, DeleteStampInv,
   MarkDeletedInv DEF EditStep, DeleteStep

-----------------------------------------------------------------------------
(* Slider.                                                                 *)

LEMMA SlideSampleInv ==
  ASSUME IInv, Tolerances, NEW k \in Key, NEW t \in TTL, SlideSample(k, t)
  PROVE  IInv'
<1> USE DEF IInv
<1>1. TypeOK'
  BY NextType DEF Next, SlideStep
<1>2. /\ UNCHANGED <<now, srv, doc, phase, owner, ttl, after, tracked, expireAt,
                     deletedAt, count, editor, deleter, query, pruner,
                     expiredHits, deletedHits, probeHits, revived, unacked>>
      /\ slider.pc = "idle"
      /\ slider'.pc = "sampled" /\ slider'.key = k /\ slider'.at = now
      /\ slider'.ttl = t
      /\ k \in tracked /\ expireAt[k] > now
  BY DEF SlideSample, LiveSample, clockVars, ingestVars, oracleVars, hitVars,
         ghostVars
<1>3. MutatorInv'
  <2>1. t > 0
    BY NumbersAssumption DEF NumbersAssumption
  <2>2. phase[k] = "done"
    BY <1>2 DEF IngestInv
  <2>. QED BY <1>2, <2>1, <2>2 DEF MutatorInv
<1>4. LagInv'
  BY <1>2, Types, Consts DEF LagInv
<1>5. SlideInv'
  BY <1>2 DEF SlideInv, Sliding
<1>6. DeleteInv'
  BY <1>2, Types DEF DeleteInv, LagInv
<1>7. BoundInv'
  BY <1>2 DEF BoundInv, Sliding, Tainted
<1>8. AnswerInv'
  BY <1>2 DEF AnswerInv, Tainted
<1>. QED
  BY <1>1, <1>2, <1>3, <1>4, <1>5, <1>6, <1>7, <1>8, ClockFrame, IngestFrame,
     DeletedFrame, QueryFrame, ProbeFrame, HitFrame, PruneFrame, SoundFrame

\* PEXPIRE runs on a key that exists: its expiry moves, and either the slide
\* goes on to Refresh or the key is one whose reply was lost.
LEMMA ExtendInv ==
  ASSUME IInv, Tolerances, SlideRun \/ SlideReplyLost PROVE IInv'
<1> USE DEF IInv
<1> DEFINE k == slider.key
<1>1. TypeOK'
  BY NextType DEF Next, SlideStep
<1>2. /\ UNCHANGED <<now, srv, phase, owner, ttl, after, tracked, expireAt,
                     deletedAt, count, editor, deleter, query, pruner,
                     expiredHits, deletedHits, probeHits, revived>>
      /\ slider.pc = "sampled" /\ Exists(k)
      /\ \/ /\ slider'.pc = "extended" /\ slider'.key = k
            /\ slider'.at = slider.at /\ slider'.ttl = slider.ttl
            /\ unacked' = unacked
         \/ /\ slider'.pc = "idle" /\ slider'.key = NoKey
            /\ unacked' = unacked \cup {k}
  <2>1. CASE SlideRun
    BY <2>1 DEF SlideRun, TypeOK, SliderType, clockVars, ingestVars, oracleVars,
                hitVars, ghostVars
  <2>2. CASE SlideReplyLost
    BY <2>2 DEF SlideReplyLost, IdleSlide, clockVars, ingestVars, oracleVars,
                hitVars
  <2>. QED BY <2>1, <2>2
<1>3. k \in Key /\ phase[k] = "done"
  BY <1>2, Consts DEF TypeOK, SliderType, MutatorInv
<1>4. /\ \A j \in Key : j # k => doc'[j] = doc[j]
      /\ doc[k].st = "live" /\ doc'[k].st = "live"
      /\ doc'[k].exp = srv + slider.ttl
  <2>1. doc[k] \in DocType
    BY <1>3 DEF TypeOK
  <2>. QED
    BY <1>2, <1>3, <2>1
    DEF SlideRun, SlideReplyLost, Extended, Exists, TypeOK, DocType
<1>5. ~Dead(k)
  BY <1>2, <1>3, Types DEF Exists, Dead
<1> HIDE DEF k
<1>6. IngestInv'
  BY <1>2, <1>3, <1>4 DEF IngestInv
<1>7. MutatorInv'
  BY <1>2, <1>3 DEF MutatorInv, k
<1>8. LagInv'
  BY <1>2, <1>3, <1>4 DEF LagInv
<1>9. SlideInv'
  <2>1. doc'[k].exp <= now + Drift + slider.ttl
    BY <1>4, Types, Consts DEF ClockInv
  <2>2. \A j \in Key : slider'.key = j => j = k
    BY <1>2, Consts
  <2>3. slider'.key = k => slider'.pc = "extended" /\ slider'.ttl = slider.ttl
    BY <1>2, <1>3, Consts
  <2>4. slider'.key = k /\ k \in tracked => expireAt[k] > slider'.at
    BY <1>2, <1>3, Consts DEF SlideInv, k
  <2>5. slider'.key = k => /\ slider'.pc # "stamped"
                           /\ doc'[k].exp <= now + Drift + slider'.ttl
                           /\ doc'[k].st # "unlinked"
    BY <1>4, <2>1, <2>3
  <2>6. UNCHANGED <<now, tracked, expireAt, revived>>
    BY <1>2
  <2>. QED BY <2>2, <2>4, <2>5, <2>6 DEF SlideInv, Sliding
<1>10. DeleteInv'
  <2>1. UNCHANGED <<deleter, tracked, expireAt, revived>>
    BY <1>2
  <2>2. \A j \in Key : slider'.key = j => slider.key = j
    BY <1>2, Consts DEF k
  <2>3. \A j \in Key : doc'[j].st = doc[j].st
    BY <1>4
  <2>4. \A j \in Key : doc'[j].st = "unlinked" => doc'[j].goneAt = doc[j].goneAt
    BY <1>4
  <2>. QED BY <2>1, <2>2, <2>3, <2>4 DEF DeleteInv
<1>11. DeletedInv'
  BY <1>2, <1>3, <1>4 DEF DeletedInv, TypeOK
<1>12. BoundInv'
  BY <1>2, <1>3, <1>4 DEF BoundInv, Sliding, Tainted, TypeOK
<1>13. AnswerInv'
  BY <1>2 DEF AnswerInv, Tainted
<1>14. ProbeInv'
  BY <1>2, <1>3, <1>4, <1>5 DEF ProbeInv, Dead, Tainted, TypeOK, QueryType
<1>15. HitInv' /\ Sound'
  BY <1>2 DEF HitInv, Sound, NoFalseExpired, NoFalseDeleted, ProbeSound
<1>. QED
  BY <1>1, <1>2, <1>6, <1>7, <1>8, <1>9, <1>10, <1>11, <1>12, <1>13, <1>14,
     <1>15, ClockFrame, QueryFrame, PruneFrame

LEMMA SlideMissInv == ASSUME IInv, Tolerances, SlideMiss PROVE IInv'
<1> USE DEF IInv
<1>1. TypeOK'
  BY NextType DEF Next, SlideStep
<1>2. /\ UNCHANGED <<now, srv, doc, phase, owner, ttl, after, tracked, expireAt,
                     deletedAt, count, editor, deleter, query, pruner,
                     expiredHits, deletedHits, probeHits, revived, unacked>>
      /\ slider.pc = "sampled"
      /\ slider'.pc = "idle" /\ slider'.key = NoKey
  BY DEF SlideMiss, IdleSlide, clockVars, ingestVars, oracleVars, hitVars,
         ghostVars
<1>3. MutatorInv' /\ LagInv'
  BY <1>2 DEF MutatorInv, LagInv
<1>4. SlideInv' /\ DeleteInv'
  BY <1>2, Consts DEF SlideInv, DeleteInv, Sliding
<1>5. BoundInv'
  BY <1>2 DEF BoundInv, Sliding, Tainted
<1>6. AnswerInv'
  BY <1>2 DEF AnswerInv, Tainted
<1>. QED
  BY <1>1, <1>2, <1>3, <1>4, <1>5, <1>6, ClockFrame, IngestFrame, DeletedFrame,
     QueryFrame, ProbeFrame, HitFrame, PruneFrame, SoundFrame

LEMMA SlideStampInv == ASSUME IInv, Tolerances, SlideStamp PROVE IInv'
<1> USE DEF IInv
<1>1. TypeOK'
  BY NextType DEF Next, SlideStep
<1>2. /\ UNCHANGED <<now, srv, doc, phase, owner, ttl, after, tracked, expireAt,
                     deletedAt, count, editor, deleter, query, pruner,
                     expiredHits, deletedHits, probeHits, revived, unacked>>
      /\ slider.pc = "extended" /\ slider'.pc = "stamped"
      /\ slider'.key = slider.key /\ slider'.stamp = now
      /\ slider'.at = slider.at /\ slider'.ttl = slider.ttl
  BY DEF SlideStamp, TypeOK, SliderType, clockVars, ingestVars, oracleVars,
         hitVars, ghostVars
<1>3. MutatorInv' /\ LagInv'
  BY <1>2 DEF MutatorInv, LagInv
<1>4. SlideInv' /\ DeleteInv'
  BY <1>2 DEF SlideInv, DeleteInv, Sliding
<1>5. BoundInv'
  BY <1>2 DEF BoundInv, Sliding, Tainted
<1>6. AnswerInv'
  <2>1. \A q \in Queryer : slider.key # NoKey =>
          now + slider.ttl > query[q].t0 - Skew
    BY Types, Consts DEF QueryInv, MutatorInv
  <2>2. \A q \in Queryer : query[q].res \subseteq Key
    BY DEF TypeOK, QueryType
  <2>. QED BY <1>2, <2>1, <2>2, Consts DEF AnswerInv, Tainted
<1>. QED
  BY <1>1, <1>2, <1>3, <1>4, <1>5, <1>6, ClockFrame, IngestFrame, DeletedFrame,
     QueryFrame, ProbeFrame, HitFrame, PruneFrame, SoundFrame

\* Refresh restores the bound, or finds the entry deleted.
LEMMA RefreshInv == ASSUME IInv, Tolerances, Refresh PROVE IInv'
<1> USE DEF IInv
<1> DEFINE k == slider.key
<1>1. TypeOK'
  BY NextType DEF Next, SlideStep
<1>2. /\ UNCHANGED <<now, srv, doc, phase, owner, ttl, after, tracked,
                     deletedAt, count, editor, deleter, query, pruner,
                     expiredHits, deletedHits, probeHits, revived, unacked>>
      /\ slider.pc = "stamped"
      /\ slider'.pc = "idle" /\ slider'.key = NoKey
      /\ \A j \in Key : j # k => expireAt'[j] = expireAt[j]
      /\ \/ k \in tracked /\ deletedAt[k] # 0 /\ expireAt'[k] = expireAt[k]
         \/ k \notin tracked
         \/ expireAt'[k] = slider.stamp + slider.ttl
  BY DEF Refresh, OracleRefresh, IdleSlide, TypeOK, clockVars, ingestVars,
         hitVars, ghostVars
<1>3. k \in Key
  BY <1>2, Consts DEF TypeOK, SliderType
<1> HIDE DEF k
<1>4. MutatorInv' /\ LagInv'
  BY <1>2 DEF MutatorInv, LagInv
<1>5. SlideInv' /\ DeleteInv'
  BY <1>2, Consts DEF SlideInv, DeleteInv, Sliding
<1>6. BoundInv'
  <2> SUFFICES ASSUME k \in tracked, k \notin Tainted, doc[k].st # "none"
               PROVE  \/ doc[k].exp <= expireAt'[k] + Drift
                      \/ /\ doc[k].st = "unlinked"
                         /\ deletedAt[k] # 0
                         /\ expireAt'[k] > doc[k].goneAt - DeleteLag
    BY <1>2, <1>3 DEF BoundInv, Sliding, Tainted, TypeOK, k
  <2>1. CASE expireAt'[k] = slider.stamp + slider.ttl
    <3>1. doc[k].exp <= slider.stamp + Drift + slider.ttl
      BY <1>2, <1>3 DEF SlideInv, Tainted, k
    <3>. QED BY <1>3, <2>1, <3>1, Types, Consts
  <2>2. CASE deletedAt[k] # 0 /\ expireAt'[k] = expireAt[k]
    <3>1. doc[k] \in DocType
      BY <1>3 DEF TypeOK
    <3>2. doc[k].st = "unlinked"
      BY <2>2, <3>1 DEF DeletedInv, Tainted, DocType
    <3>3. expireAt[k] > doc[k].goneAt - DeleteLag
      BY <1>2, <1>3, <3>2 DEF SlideInv, Sliding, k
    <3>. QED BY <2>2, <3>2, <3>3
  <2>. QED BY <1>2, <2>1, <2>2
<1>7. AnswerInv'
  <2>1. \A q \in Queryer : query[q].res \subseteq Key
    BY DEF TypeOK, QueryType
  <2>. QED BY <1>2, <1>3, <2>1 DEF AnswerInv, Tainted, k
<1>. QED
  BY <1>1, <1>2, <1>4, <1>5, <1>6, <1>7, ClockFrame, IngestFrame, DeletedFrame,
     QueryFrame, ProbeFrame, HitFrame, PruneFrame, SoundFrame

LEMMA SlideStepInv == ASSUME IInv, Tolerances, SlideStep PROVE IInv'
BY SlideSampleInv, ExtendInv, SlideMissInv, SlideStampInv, RefreshInv
   DEF SlideStep

-----------------------------------------------------------------------------
(* Query workers.                                                          *)

\* What the stored expiry of a document that the index can still return says
\* about its entry.
LEMMA VisibleBound ==
  ASSUME IInv, Tolerances, NEW k \in tracked \ Tainted, Visible(k)
  PROVE  expireAt[k] > now - Skew
<1> USE DEF IInv
<1>1. k \in Key
  BY DEF TypeOK
<1>2. doc[k].st # "none" /\ srv < doc[k].exp
  BY DEF Visible
<1>3. CASE doc[k].exp <= expireAt[k] + Drift
  BY <1>1, <1>2, <1>3, Types, Consts DEF ClockInv, Tolerances
<1>4. CASE Sliding(k)
  <2>1. expireAt[k] > slider.at
    BY <1>1, <1>4 DEF SlideInv, Sliding
  <2>2. now < slider.at + SlideLag
    BY <1>4 DEF LagInv, Sliding
  <2>. QED BY <1>1, <2>1, <2>2, Types, Consts DEF Tolerances
<1>5. CASE doc[k].st = "unlinked" /\ expireAt[k] > doc[k].goneAt - DeleteLag
  <2>1. now < doc[k].goneAt + DeindexLag
    BY <1>1, <1>5 DEF LagInv
  <2>. QED BY <1>1, <1>5, <2>1, Types, Consts DEF Tolerances
<1>. QED BY <1>1, <1>2, <1>3, <1>4, <1>5 DEF BoundInv

\* The same for a document that is marked deleted.
LEMMA VisibleDeleted ==
  ASSUME IInv, Tolerances, NEW k \in tracked \ revived, Visible(k),
         deletedAt[k] # 0
  PROVE  deletedAt[k] > now - Grace
<1> USE DEF IInv
<1>1. k \in Key
  BY DEF TypeOK
<1>2. doc[k] \in DocType
  BY <1>1 DEF TypeOK
<1>3. doc[k].st = "unlinked" /\ doc[k].goneAt <= deletedAt[k]
  BY <1>2 DEF DeletedInv, Visible, DocType
<1>4. now < doc[k].goneAt + DeindexLag
  BY <1>1, <1>3 DEF LagInv
<1>. QED BY <1>1, <1>3, <1>4, Types, Consts DEF Tolerances

\* An entry that ExpiredSample accepts has no document left to find.
LEMMA ProbeSampleInv ==
  ASSUME IInv, Tolerances, NEW q \in Queryer, NEW k \in Key, ProbeSample(q, k)
  PROVE  IInv'
<1> USE DEF IInv
<1>1. TypeOK'
  BY NextType DEF Next, QueryStep
<1>2. /\ UNCHANGED <<now, srv, doc, phase, owner, ttl, after, tracked, expireAt,
                     deletedAt, count, editor, deleter, slider, pruner,
                     expiredHits, deletedHits, probeHits, revived, unacked>>
      /\ k \in tracked /\ deletedAt[k] = 0 /\ expireAt[k] <= now - Grace
      /\ query[q].pc = "idle"
  BY DEF ProbeSample, ExpiredSample, clockVars, ingestVars, oracleVars,
         mutatorVars, hitVars, ghostVars
<1>3. /\ \A r \in Queryer : r # q => query'[r] = query[r]
      /\ query'[q].pc = "probing" /\ query'[q].probe = k
      /\ query'[q].t0 = query[q].t0 /\ query'[q].res = query[q].res
      /\ query'[q].hit = query[q].hit
  <2>1. query[q] \in QueryType
    BY DEF TypeOK
  <2>. QED BY <2>1 DEF ProbeSample, TypeOK, QueryType
<1>4. k \in Tainted \/ Dead(k)
  <2> SUFFICES ASSUME k \notin Tainted, doc[k].st # "none" PROVE doc[k].exp <= srv
    BY DEF Dead
  <2>1. CASE doc[k].exp <= expireAt[k] + Drift
    BY <1>2, <2>1, Types, Consts DEF ClockInv, Tolerances
  <2>2. ~Sliding(k)
    <3> SUFFICES ASSUME Sliding(k) PROVE FALSE
      OBVIOUS
    <3>1. expireAt[k] > slider.at
      BY <1>2 DEF SlideInv, Sliding
    <3>2. now < slider.at + SlideLag
      BY DEF LagInv, Sliding
    <3>. QED BY <1>2, <3>1, <3>2, Types, Consts DEF Tolerances
  <2>. QED BY <1>2, <2>1, <2>2 DEF BoundInv
<1>5. QueryInv' /\ HitInv'
  BY <1>2, <1>3 DEF QueryInv, HitInv
<1>6. AnswerInv'
  BY <1>2, <1>3 DEF AnswerInv, Tainted
<1>7. ProbeInv'
  <2>1. phase[k] = "done"
    BY <1>2 DEF IngestInv
  <2>2. Dead(k) => Dead(k)'
    BY <1>2 DEF Dead
  <2>3. \A r \in Queryer : r # q => query'[r].probe = query[r].probe
    BY <1>3
  <2>. QED BY <1>2, <1>3, <1>4, <2>1, <2>2, <2>3 DEF ProbeInv, Dead, Tainted
<1>. QED
  BY <1>1, <1>2, <1>5, <1>6, <1>7, ClockFrame, IngestFrame, MutatorFrame,
     LagFrame, SlideFrame, DeleteFrame, DeletedFrame, BoundFrame, PruneFrame,
     SoundFrame

LEMMA QueryAskInv ==
  ASSUME IInv, Tolerances, NEW q \in Queryer, QueryAsk(q) PROVE IInv'
<1> USE DEF IInv
<1>1. TypeOK'
  BY NextType DEF Next, QueryStep
<1>2. UNCHANGED <<now, srv, doc, phase, owner, ttl, after, tracked, expireAt,
                  deletedAt, count, editor, deleter, slider, pruner,
                  expiredHits, deletedHits, probeHits, revived, unacked>>
  BY DEF QueryAsk, clockVars, ingestVars, oracleVars, mutatorVars, hitVars,
         ghostVars
<1>3. /\ \A r \in Queryer : r # q => query'[r] = query[r]
      /\ query'[q].t0 = now /\ query'[q].res = {} /\ query'[q].hit = FALSE
      /\ query'[q].probe = query[q].probe
  <2>1. query[q] \in QueryType /\ query[q].pc # "answered"
    BY DEF TypeOK, QueryAsk
  <2>2. query[q].res = {} /\ query[q].hit = FALSE
    BY <2>1 DEF QueryInv
  <2>. QED BY <2>1, <2>2 DEF QueryAsk, TypeOK, QueryType
<1>4. QueryInv' /\ HitInv'
  BY <1>2, <1>3, Types DEF QueryInv, HitInv
<1>5. AnswerInv'
  BY <1>2, <1>3 DEF AnswerInv, Tainted
<1>6. ProbeInv'
  BY <1>2, <1>3 DEF ProbeInv, Dead, Tainted
<1>. QED
  BY <1>1, <1>2, <1>4, <1>5, <1>6, ClockFrame, IngestFrame, MutatorFrame,
     LagFrame, SlideFrame, DeleteFrame, DeletedFrame, BoundFrame, PruneFrame,
     SoundFrame

\* The one step that looks at the index: what it returns is unobjectionable.
LEMMA QueryAnswerInv ==
  ASSUME IInv, Tolerances, NEW q \in Queryer, NEW res \in SUBSET Key,
         QueryAnswer(q, res)
  PROVE  IInv'
<1> USE DEF IInv
<1>1. TypeOK'
  BY NextType DEF Next, QueryStep
<1>2. /\ UNCHANGED <<now, srv, doc, phase, owner, ttl, after, tracked, expireAt,
                     deletedAt, count, editor, deleter, slider, pruner,
                     expiredHits, deletedHits, probeHits, revived, unacked>>
      /\ res \subseteq Matching(q)
  BY DEF QueryAnswer, clockVars, ingestVars, oracleVars, mutatorVars, hitVars,
         ghostVars
<1>3. /\ \A r \in Queryer : r # q => query'[r] = query[r]
      /\ query'[q].pc = "answered" /\ query'[q].t0 = query[q].t0
      /\ query'[q].probe = query[q].probe
      /\ query'[q].res \subseteq res
      /\ query'[q].hit = (query[q].probe \in res)
  <2>1. query[q] \in QueryType
    BY DEF TypeOK
  <2>. QED BY <2>1 DEF QueryAnswer, TypeOK, QueryType
<1>4. QueryInv'
  BY <1>2, <1>3 DEF QueryInv
<1>5. AnswerInv'
  <2>1. \A r \in Queryer : r # q => query'[r] = query[r]
    BY <1>3
  <2> SUFFICES ASSUME NEW k \in query'[q].res
               PROVE
         /\ k \in tracked /\ k \notin Tainted => expireAt[k] > now - Skew
         /\ k \in tracked /\ k \notin revived /\ deletedAt[k] # 0 =>
              deletedAt[k] > now - Grace
         /\ phase[k] \in {"acked", "passed"} /\ ttl[k] > 0 =>
              after[owner[k]] + ttl[k] > now - Skew
         /\ slider.pc = "stamped" /\ slider.key = k /\ k \notin Tainted =>
              slider.stamp + slider.ttl > now - Skew
         /\ deleter.pc = "stamped" /\ deleter.key = k /\ k \notin revived =>
              deleter.stamp > now - Grace
    <3>1. query[q].t0 <= now
      BY DEF QueryInv
    <3>2. \A k \in query'[q].res : k \in Key
      BY <1>2, <1>3 DEF Matching
    <3>. QED
      BY <1>2, <1>3, <2>1, <3>1, <3>2, Types, Consts DEF AnswerInv, Tainted
  <2>2. k \in Key /\ Visible(k)
    BY <1>2, <1>3 DEF Matching
  <2>3. doc[k] \in DocType /\ doc[k].st # "none" /\ srv < doc[k].exp
    BY <2>2 DEF TypeOK, Visible
  <2>4. k \in tracked /\ k \notin Tainted => expireAt[k] > now - Skew
    BY <2>2, VisibleBound
  <2>5. k \in tracked /\ k \notin revived /\ deletedAt[k] # 0 =>
          deletedAt[k] > now - Grace
    BY <2>2, VisibleDeleted
  <2>6. phase[k] \in {"acked", "passed"} /\ ttl[k] > 0 =>
          after[owner[k]] + ttl[k] > now - Skew
    <3>1. phase[k] \in {"acked", "passed"} /\ ttl[k] > 0 =>
            doc[k].exp <= after[owner[k]] + Drift + ttl[k]
      BY <2>2 DEF IngestInv
    <3>. QED BY <2>2, <2>3, <3>1, Types, Consts DEF ClockInv, Tolerances
  <2>7. slider.pc = "stamped" /\ slider.key = k /\ k \notin Tainted =>
          slider.stamp + slider.ttl > now - Skew
    <3>1. slider.pc = "stamped" /\ slider.key = k /\ k \notin Tainted =>
            doc[k].exp <= slider.stamp + Drift + slider.ttl
      BY <2>2, <2>3 DEF SlideInv, Tainted
    <3>. QED BY <2>2, <2>3, <3>1, Types, Consts DEF ClockInv, Tolerances
  <2>8. deleter.pc = "stamped" /\ deleter.key = k /\ k \notin revived =>
          deleter.stamp > now - Grace
    <3> SUFFICES ASSUME deleter.pc = "stamped", deleter.key = k, k \notin revived
                 PROVE  deleter.stamp > now - Grace
      OBVIOUS
    <3>1. doc[k].st # "live"
      BY <2>2 DEF DeleteInv
    <3>2. doc[k].st = "unlinked"
      BY <2>3, <3>1 DEF DocType
    <3>3. doc[k].goneAt <= deleter.stamp
      BY <2>2, <3>2 DEF DeleteInv
    <3>4. now < doc[k].goneAt + DeindexLag
      BY <2>2, <3>2 DEF LagInv
    <3>. QED BY <2>2, <3>3, <3>4, Types, Consts DEF Tolerances
  <2>. QED BY <2>4, <2>5, <2>6, <2>7, <2>8
<1>6. ProbeInv'
  BY <1>2, <1>3 DEF ProbeInv, Dead, Tainted
<1>7. HitInv'
  <2> SUFFICES ASSUME query[q].probe \in res PROVE query[q].probe \in unacked
    BY <1>2, <1>3 DEF HitInv
  <2> DEFINE p == query[q].probe
  <2>1. p \in Key /\ p # NoKey /\ Visible(p)
    BY <1>2, Consts DEF Matching
  <2>2. p \notin revived
    BY <1>2, <2>1 DEF Matching
  <2>3. ~Dead(p)
    BY <2>1, Types DEF Visible, Dead
  <2>. QED BY <2>1, <2>2, <2>3 DEF ProbeInv, Tainted
<1>. QED
  BY <1>1, <1>2, <1>4, <1>5, <1>6, <1>7, ClockFrame, IngestFrame, MutatorFrame,
     LagFrame, SlideFrame, DeleteFrame, DeletedFrame, BoundFrame, PruneFrame,
     SoundFrame

\* A query ends: its hit, if it is one, is a key whose slide lost its reply.
LEMMA QueryEndInv ==
  ASSUME IInv, Tolerances, NEW q \in Queryer, QueryFail(q) \/ QueryDone(q)
  PROVE  IInv'
<1> USE DEF IInv
<1>1. TypeOK'
  BY NextType DEF Next, QueryStep
<1>2. /\ UNCHANGED <<now, srv, doc, phase, owner, ttl, after, tracked, expireAt,
                     deletedAt, count, editor, deleter, slider, pruner,
                     expiredHits, deletedHits, revived, unacked>>
      /\ \/ probeHits' = probeHits
         \/ query[q].hit /\ probeHits' = probeHits \cup {query[q].probe}
      /\ query' = [query EXCEPT ![q] = IdleQuery]
  BY DEF QueryFail, QueryDone, clockVars, ingestVars, oracleVars, mutatorVars,
         hitVars, ghostVars
<1>3. /\ \A r \in Queryer : r # q => query'[r] = query[r]
      /\ query'[q].pc = "idle" /\ query'[q].t0 = 0 /\ query'[q].res = {}
      /\ query'[q].hit = FALSE /\ query'[q].probe = NoKey
  BY <1>2 DEF IdleQuery, TypeOK
<1>4. QueryInv' /\ HitInv'
  BY <1>2, <1>3 DEF QueryInv, HitInv, TypeOK
<1>5. AnswerInv'
  BY <1>2, <1>3 DEF AnswerInv, Tainted
<1>6. ProbeInv'
  BY <1>2, <1>3 DEF ProbeInv, Dead, Tainted
<1>7. Sound'
  BY <1>2 DEF Sound, NoFalseExpired, NoFalseDeleted, ProbeSound, HitInv
<1>. QED
  BY <1>1, <1>2, <1>4, <1>5, <1>6, <1>7, ClockFrame, IngestFrame, MutatorFrame,
     LagFrame, SlideFrame, DeleteFrame, DeletedFrame, BoundFrame, PruneFrame

LEMMA CheckInv ==
  ASSUME IInv, Tolerances, NEW q \in Queryer, NEW k \in Key, Check(q, k)
  PROVE  IInv'
<1> USE DEF IInv
<1>1. TypeOK'
  BY NextType DEF Next, QueryStep
<1>2. /\ UNCHANGED <<now, srv, doc, phase, owner, ttl, after, tracked, expireAt,
                     deletedAt, count, editor, deleter, slider, pruner,
                     probeHits, revived, unacked>>
      /\ k \in query[q].res
      /\ expiredHits' \subseteq expiredHits \cup {k}
      /\ expiredHits' # expiredHits => StaleExpired(k, query[q].t0)
      /\ deletedHits' \subseteq deletedHits \cup {k}
      /\ deletedHits' # deletedHits => StaleDeleted(k, query[q].t0)
  BY DEF Check, clockVars, ingestVars, oracleVars, mutatorVars, ghostVars
<1>3. /\ \A r \in Queryer : r # q => query'[r] = query[r]
      /\ query'[q].pc = query[q].pc /\ query'[q].t0 = query[q].t0
      /\ query'[q].probe = query[q].probe /\ query'[q].hit = query[q].hit
      /\ query'[q].res \subseteq query[q].res
  <2>1. query[q] \in QueryType
    BY DEF TypeOK
  <2>. QED BY <2>1 DEF Check, TypeOK, QueryType
<1>4. QueryInv' /\ HitInv'
  BY <1>2, <1>3 DEF QueryInv, HitInv
<1>5. AnswerInv'
  BY <1>2, <1>3 DEF AnswerInv, Tainted
<1>6. ProbeInv'
  BY <1>2, <1>3 DEF ProbeInv, Dead, Tainted
<1>7. Sound'
  <2>1. StaleExpired(k, query[q].t0) => k \in Tainted
    BY <1>2, Types, Consts DEF AnswerInv, StaleExpired
  <2>2. StaleDeleted(k, query[q].t0) => k \in revived
    BY <1>2, Types, Consts DEF AnswerInv, StaleDeleted
  <2>. QED
    BY <1>2, <2>1, <2>2
    DEF Sound, NoFalseExpired, NoFalseDeleted, ProbeSound, Tainted
<1>. QED
  BY <1>1, <1>2, <1>4, <1>5, <1>6, <1>7, ClockFrame, IngestFrame, MutatorFrame,
     LagFrame, SlideFrame, DeleteFrame, DeletedFrame, BoundFrame, PruneFrame

LEMMA QueryStepInv == ASSUME IInv, Tolerances, QueryStep PROVE IInv'
BY ProbeSampleInv, QueryAskInv, QueryAnswerInv, QueryEndInv, CheckInv
   DEF QueryStep

-----------------------------------------------------------------------------
(* The metric loop's Prune: it only forgets entries.                       *)

LEMMA PruneShardInv ==
  ASSUME IInv, Tolerances, NEW k \in Key, PruneShard(k) PROVE IInv'
<1> USE DEF IInv
<1>1. TypeOK'
  BY NextType DEF Next, PruneStep
<1>2. /\ UNCHANGED <<now, srv, doc, phase, owner, ttl, after, count, editor,
                     deleter, slider, query, expiredHits, deletedHits,
                     probeHits, revived, unacked>>
      /\ tracked' \subseteq tracked
      /\ \A j \in tracked' :
           expireAt'[j] = expireAt[j] /\ deletedAt'[j] = deletedAt[j]
  BY DEF PruneShard, TypeOK, clockVars, ingestVars, mutatorVars, hitVars,
         ghostVars
<1>3. pruner'.cutoff = pruner.cutoff /\ pruner.todo # {}
  BY DEF PruneShard, TypeOK, PrunerType
<1>4. IngestInv'
  BY <1>2 DEF IngestInv
<1>5. SlideInv'
  BY <1>2 DEF SlideInv, Sliding
<1>6. DeleteInv'
  BY <1>2 DEF DeleteInv
<1>7. DeletedInv'
  BY <1>2 DEF DeletedInv
<1>8. BoundInv'
  BY <1>2 DEF BoundInv, Sliding, Tainted
<1>9. AnswerInv'
  BY <1>2 DEF AnswerInv, Tainted
<1>10. PruneInv'
  BY <1>2, <1>3 DEF PruneInv
<1>. QED
  BY <1>1, <1>2, <1>4, <1>5, <1>6, <1>7, <1>8, <1>9, <1>10, ClockFrame,
     MutatorFrame, LagFrame, QueryFrame, ProbeFrame, HitFrame, SoundFrame

LEMMA PruneEndsInv ==
  ASSUME IInv, Tolerances, PruneStart \/ PruneEnd PROVE IInv'
<1> USE DEF IInv
<1>1. TypeOK'
  BY NextType DEF Next, PruneStep
<1>2. /\ UNCHANGED <<now, srv, doc, phase, owner, ttl, after, tracked, expireAt,
                     deletedAt, editor, deleter, slider, query, expiredHits,
                     deletedHits, probeHits, revived, unacked>>
      /\ pruner'.todo = {} \/ pruner'.cutoff = now - Retain
  <2>1. CASE PruneStart
    BY <2>1 DEF PruneStart, clockVars, ingestVars, oracleVars, mutatorVars,
                hitVars, ghostVars
  <2>2. CASE PruneEnd
    BY <2>2 DEF PruneEnd, TypeOK, PrunerType, clockVars, ingestVars, mutatorVars,
                hitVars, ghostVars
  <2>. QED BY <2>1, <2>2
<1>3. PruneInv'
  BY <1>2, Types, Consts DEF PruneInv
<1>. QED
  BY <1>1, <1>2, <1>3, ClockFrame, IngestFrame, MutatorFrame, LagFrame,
     SlideFrame, DeleteFrame, DeletedFrame, BoundFrame, AnswerFrame, QueryFrame,
     ProbeFrame, HitFrame, SoundFrame

-----------------------------------------------------------------------------
LEMMA StutterInv == IInv /\ UNCHANGED vars => IInv'
<1> SUFFICES ASSUME IInv, UNCHANGED vars PROVE IInv'
  OBVIOUS
<1> USE DEF IInv
<1>1. UNCHANGED <<now, srv, doc, phase, owner, ttl, after, tracked, expireAt,
                  deletedAt, count, editor, deleter, slider, query, pruner,
                  expiredHits, deletedHits, probeHits, revived, unacked>>
  BY DEF vars, clockVars, ingestVars, oracleVars, mutatorVars, hitVars, ghostVars
<1>2. TypeOK'
  BY NextType
<1>. QED
  BY <1>1, <1>2, ClockFrame, IngestFrame, MutatorFrame, LagFrame, SlideFrame,
     DeleteFrame, DeletedFrame, BoundFrame, AnswerFrame, QueryFrame, ProbeFrame,
     HitFrame, PruneFrame, SoundFrame

LEMMA NextInv == Tolerances /\ IInv /\ [Next]_vars => IInv'
BY TickInv, DeindexInv, IngestStepInv, EditDeleteInv, SlideStepInv,
   QueryStepInv, PruneShardInv, PruneEndsInv, StutterInv
   DEF Next, PruneStep

LEMMA Inductive == ASSUME Tolerances PROVE Spec => []IInv
<1>1. Init => IInv
  BY InitInv
<1>2. IInv /\ [Next]_vars => IInv'
  BY NextInv
<1>. QED BY <1>1, <1>2, PTL DEF Spec

-----------------------------------------------------------------------------
(* The theorems.                                                           *)

(* No query is ever charged with an expired hit that the server did not    *)
(* commit: runItem's Check over entries that ingesters, slider and deleter *)
(* change while the query is under way.                                    *)
THEOREM ExpiredHitsAreReal == ASSUME Tolerances PROVE Spec => []NoFalseExpired
<1>1. IInv => NoFalseExpired
  BY DEF IInv, Sound
<1>. QED BY <1>1, Inductive, PTL

(* Nor with a hit on a deleted document.                                   *)
THEOREM DeletedHitsAreReal == ASSUME Tolerances PROVE Spec => []NoFalseDeleted
<1>1. IInv => NoFalseDeleted
  BY DEF IInv, Sound
<1>. QED BY <1>1, Inductive, PTL

(* A probe of an expired entry that returns it is a stale hit (probe).     *)
THEOREM ProbesAreReal == ASSUME Tolerances PROVE Spec => []ProbeSound
<1>1. IInv => ProbeSound
  BY DEF IInv, Sound
<1>. QED BY <1>1, Inductive, PTL

(* Outside a slide's window the oracle's expireAt bounds the expiry that   *)
(* the server has stored, up to the clock drift.                           *)
THEOREM ExpiryBounded == ASSUME Tolerances PROVE Spec => []ExpiryUpperBound
<1>1. IInv => ExpiryUpperBound
  <2> SUFFICES ASSUME IInv, NEW k \in tracked \ Tainted, deletedAt[k] = 0,
                      doc[k].st # "none", ~Sliding(k)
               PROVE  doc[k].exp <= expireAt[k] + Drift
    BY DEF ExpiryUpperBound, Tainted, Sliding
  <2>. QED BY DEF IInv, BoundInv
<1>. QED BY <1>1, Inductive, PTL

(* Prune's retention is long enough: an entry it drops has no document     *)
(* left that a search could return.                                        *)
THEOREM PrunedAreDead ==
  ASSUME Tolerances, Retain >= Skew, Retain >= Grace
  PROVE  Spec => PruneForgetsOnlyDead
<1> DEFINE A == \A k \in tracked \ tracked' : Visible(k) => k \in Tainted
<1>1. IInv /\ [Next]_vars => A
  <2> SUFFICES ASSUME IInv, [Next]_vars, NEW k \in tracked, k \notin tracked',
                      Visible(k), k \notin Tainted
               PROVE  FALSE
    OBVIOUS
  <2>1. k \in Key
    BY DEF IInv, TypeOK
  <2>2. PruneShard(k)
    <3>1. ~UNCHANGED tracked
      OBVIOUS
    <3>2. ~IngestStep /\ ~SlideStep
      BY <3>1 DEF IngestStep, IngestStart, IngestHSet, IngestPExpire, IngestAck,
         IngestFail, AddCheck, AddInsert, OracleAdd, oracleVars,
         SlideStep, SlideSample, SlideRun, SlideMiss, SlideReplyLost, SlideStamp,
         Refresh, OracleRefresh
    <3>3. ~EditStep /\ ~DeleteStep
      BY <3>1 DEF EditStep, EditSample, EditBody, DeleteStep, DeleteSample,
         DeleteRun, DeleteFail, DeleteStamp, MarkDeleted, OracleMarkDeleted,
         oracleVars
    <3>4. ~QueryStep
      BY <3>1 DEF QueryStep, ProbeSample, QueryAsk, QueryAnswer, QueryFail,
         Check, QueryDone, oracleVars
    <3>5. ~Tick /\ ~(\E j \in Key : Deindex(j)) /\ ~UNCHANGED vars
      BY <3>1 DEF Tick, Deindex, oracleVars, vars
    <3>6. PruneStep
      BY <3>2, <3>3, <3>4, <3>5 DEF Next
    <3>. QED BY <3>1, <3>6 DEF PruneStep, PruneStart, PruneEnd, PruneShard,
         oracleVars
  <2>3. Gone(k, pruner.cutoff)
    BY <2>2 DEF PruneShard
  <2>4. pruner.cutoff <= now - Retain
    BY <2>2 DEF PruneShard, IInv, PruneInv
  <2>5. CASE expireAt[k] <= pruner.cutoff
    BY <2>1, <2>4, <2>5, VisibleBound, Types, Consts DEF IInv
  <2>6. CASE deletedAt[k] # 0 /\ deletedAt[k] <= pruner.cutoff
    BY <2>1, <2>4, <2>6, VisibleDeleted, Types, Consts DEF IInv, Tainted
  <2>. QED BY <2>3, <2>5, <2>6 DEF Gone
<1>2. A => (\A k \in tracked \ tracked' : Visible(k) => k \in revived \cup unacked)
  BY DEF Tainted
<1>. QED BY <1>1, <1>2, Inductive, PTL DEF Spec, PruneForgetsOnlyDead

\* An entry is only ever inserted by the ingest of its message, which is over.
Added == \A k \in tracked : phase[k] = "done"

LEMMA AddedStep == TypeOK /\ Added /\ [Next]_vars => Added'
<1> SUFFICES ASSUME TypeOK, Added, [Next]_vars PROVE Added'
  OBVIOUS
<1> USE DEF Added
<1>1. CASE IngestStep
  <2>1. ASSUME NEW i \in Ingester, NEW S \in SUBSET Key, NEW t,
               IngestStart(i, S, t)
        PROVE  Added'
    BY <2>1 DEF IngestStart, oracleVars, TypeOK
  <2>2. ASSUME NEW k \in Key, IngestHSet(k) \/ IngestPExpire(k) PROVE Added'
    BY <2>2 DEF IngestHSet, IngestPExpire, oracleVars, TypeOK
  <2>3. ASSUME NEW i \in Ingester, IngestAck(i) \/ IngestFail(i) PROVE Added'
    BY <2>3 DEF IngestAck, IngestFail, Batch, oracleVars, TypeOK
  <2>4. ASSUME NEW k \in Key, AddCheck(k) \/ AddInsert(k) PROVE Added'
    BY <2>4 DEF AddCheck, AddInsert, OracleAdd, oracleVars, TypeOK
  <2>. QED BY <1>1, <2>1, <2>2, <2>3, <2>4 DEF IngestStep
<1>2. CASE PruneStep
  BY <1>2 DEF PruneStep, PruneStart, PruneShard, PruneEnd, ingestVars, oracleVars
<1>3. CASE UNCHANGED <<tracked, phase>>
  BY <1>3
<1>4. EditStep \/ DeleteStep \/ SlideStep => UNCHANGED <<tracked, phase>>
  BY DEF EditStep, EditSample, EditBody, DeleteStep, DeleteSample, DeleteRun,
     DeleteFail, DeleteStamp, MarkDeleted, OracleMarkDeleted, SlideStep,
     SlideSample, SlideRun, SlideMiss, SlideReplyLost, SlideStamp, Refresh,
     OracleRefresh, oracleVars, ingestVars
<1>5. QueryStep => UNCHANGED <<tracked, phase>>
  BY DEF QueryStep, ProbeSample, QueryAsk, QueryAnswer, QueryFail, Check,
     QueryDone, oracleVars, ingestVars
<1>6. Tick \/ (\E j \in Key : Deindex(j)) \/ UNCHANGED vars =>
        UNCHANGED <<tracked, phase>>
  BY DEF Tick, Deindex, vars, oracleVars, ingestVars
<1>. QED BY <1>1, <1>2, <1>3, <1>4, <1>5, <1>6 DEF Next

(* A slide that a delete overtook leaves the entry alone, whatever the     *)
(* timing (Refresh's guard; and no message is added twice).                *)
THEOREM DeletedEntriesStay == Spec => DeletedStays
<1> DEFINE A == \A k \in tracked \cap tracked' : deletedAt[k] # 0 =>
                 deletedAt'[k] = deletedAt[k] /\ expireAt'[k] = expireAt[k]
<1>1. TypeOK /\ Added /\ [Next]_vars => A
  <2> SUFFICES ASSUME TypeOK, Added, [Next]_vars, NEW k \in tracked,
                      k \in tracked', deletedAt[k] # 0
               PROVE  deletedAt'[k] = deletedAt[k] /\ expireAt'[k] = expireAt[k]
    OBVIOUS
  <2>1. k \in Key
    BY DEF TypeOK
  <2>2. CASE UNCHANGED <<expireAt, deletedAt>>
    BY <2>2
  <2>3. CASE IngestStep
    <3>1. ASSUME NEW j \in Key, AddInsert(j) PROVE j # k
      BY <3>1 DEF AddInsert, Added
    <3>. QED
      BY <2>1, <2>3, <3>1 DEF IngestStep, IngestStart, IngestHSet, IngestPExpire,
         IngestAck, IngestFail, AddCheck, AddInsert, OracleAdd, oracleVars, TypeOK
  <2>4. CASE DeleteStep
    BY <2>1, <2>4 DEF DeleteStep, DeleteSample, DeleteRun, DeleteFail,
       DeleteStamp, MarkDeleted, OracleMarkDeleted, oracleVars, TypeOK
  <2>5. CASE SlideStep
    BY <2>1, <2>5 DEF SlideStep, SlideSample, SlideRun, SlideMiss,
       SlideReplyLost, SlideStamp, Refresh, OracleRefresh, oracleVars, TypeOK
  <2>6. CASE PruneStep
    BY <2>1, <2>6 DEF PruneStep, PruneStart, PruneShard, PruneEnd, oracleVars,
       TypeOK
  <2>7. EditStep \/ QueryStep => UNCHANGED <<expireAt, deletedAt>>
    BY DEF EditStep, EditSample, EditBody, QueryStep, ProbeSample, QueryAsk,
       QueryAnswer, QueryFail, Check, QueryDone, oracleVars
  <2>8. Tick \/ (\E j \in Key : Deindex(j)) \/ UNCHANGED vars =>
          UNCHANGED <<expireAt, deletedAt>>
    BY DEF Tick, Deindex, vars, oracleVars
  <2>. QED BY <2>2, <2>3, <2>4, <2>5, <2>6, <2>7, <2>8 DEF Next
<1>2. Init => Added
  BY DEF Init, Added
<1>. QED BY <1>1, <1>2, AddedStep, TypeCorrect, PTL DEF Spec, DeletedStays

-----------------------------------------------------------------------------
(* The counter and its cap.                                                *)

\* The messages that have passed the cap test and are not yet inserted.
Passing == {k \in Key : phase[k] = "passed"}

\* Each of them leaves room for the others that can be passing with it.
CountInv ==
  /\ Added
  /\ IsFiniteSet(tracked)
  /\ count = Cardinality(tracked) + pruner.removed
  /\ \A j, k \in Passing : owner[j] = owner[k] => j = k
  /\ count + Cardinality(Passing) <= Cap + Cardinality(Ingester) - 1

LEMMA PassingFew ==
  ASSUME TypeOK, IsFiniteSet(Ingester),
         \A j, k \in Passing : owner[j] = owner[k] => j = k
  PROVE  /\ IsFiniteSet(Passing) /\ Cardinality(Passing) \in Nat
         /\ Cardinality(Passing) <= Cardinality(Ingester)
<1>. DEFINE f == [k \in Passing |-> owner[k]]
<1>1. \A k \in Passing : owner[k] \in Ingester
  BY DEF Passing, TypeOK
<1>2. f \in Injection(Passing, Ingester)
  BY <1>1 DEF Injection, IsInjective
<1>. HIDE DEF f
<1>. QED BY <1>2, FS_Injection, FS_CardinalityType

LEMMA CountTypes ==
  ASSUME TypeOK, IsFiniteSet(Ingester)
  PROVE  /\ count \in Int /\ pruner.removed \in Nat /\ Cap \in Nat
         /\ Cardinality(Ingester) \in Nat /\ Cardinality(Ingester) > 0
<1>1. count \in Int /\ pruner.removed \in Nat
  BY DEF TypeOK, PrunerType
<1>2. Cardinality(Ingester) \in Nat /\ Cardinality(Ingester) # 0
  BY SetsAssumption, FS_CardinalityType, FS_EmptySet DEF SetsAssumption
<1>. QED BY <1>1, <1>2, NumbersAssumption DEF NumbersAssumption

LEMMA CountFrame ==
  ASSUME CountInv, UNCHANGED <<tracked, count>>, pruner'.removed = pruner.removed,
         Passing' = Passing, \A k \in Passing : owner'[k] = owner[k], Added'
  PROVE  CountInv'
BY DEF CountInv

LEMMA InitCount == ASSUME IsFiniteSet(Ingester), Init PROVE CountInv
<1>1. tracked = {} /\ count = 0 /\ pruner.removed = 0 /\ Passing = {} /\ Added
  BY DEF Init, IdlePrune, Passing, Added
<1>2. Cardinality({}) = 0 /\ IsFiniteSet({})
  BY FS_EmptySet
<1>3. TypeOK
  BY InitType
<1>. QED BY <1>1, <1>2, <1>3, CountTypes DEF CountInv

LEMMA AddCheckCount ==
  ASSUME TypeOK, IsFiniteSet(Ingester), CountInv, Added', NEW k \in Key, AddCheck(k)
  PROVE  CountInv'
<1>1. /\ phase[k] = "acked" /\ phase' \in [Key -> Phase]
      /\ \A j \in Key \ {k} : phase'[j] = phase[j]
      /\ UNCHANGED <<tracked, count, pruner, owner>>
  BY DEF AddCheck, oracleVars, TypeOK, Phase
<1>2. CASE phase'[k] # "passed"
  <2>1. Passing' = Passing
    BY <1>1, <1>2 DEF Passing
  <2>. QED BY <1>1, <2>1, CountFrame
<1>3. CASE phase'[k] = "passed"
  <2>1. count < Cap /\ \A j \in Passing : owner[j] # owner[k]
    BY <1>3 DEF AddCheck, TypeOK, Passing, Batch
  <2>2. Passing' = Passing \cup {k}
    BY <1>1, <1>3 DEF Passing
  <2>3. \A i, j \in Passing' : owner'[i] = owner'[j] => i = j
    BY <1>1, <2>1, <2>2 DEF CountInv
  <2>4. TypeOK'
    BY NextType DEF Next, IngestStep
  <2>5. Cardinality(Passing') \in Nat /\ Cardinality(Passing') <= Cardinality(Ingester)
    <3>. DEFINE f == [j \in Passing' |-> owner[j]]
    <3>1. f \in Injection(Passing', Ingester)
      BY <1>1, <2>3 DEF Injection, IsInjective, Passing, TypeOK
    <3>. HIDE DEF f
    <3>. QED BY <3>1, FS_Injection, FS_CardinalityType
  <2>6. count + Cardinality(Passing') <= Cap + Cardinality(Ingester) - 1
    BY <2>1, <2>5, CountTypes
  <2>. QED BY <1>1, <2>3, <2>6 DEF CountInv
<1>. QED BY <1>2, <1>3

LEMMA AddInsertCount ==
  ASSUME TypeOK, IsFiniteSet(Ingester), CountInv, Added', NEW k \in Key, AddInsert(k)
  PROVE  CountInv'
<1>1. /\ k \notin tracked /\ k \in Passing /\ tracked' = tracked \cup {k}
      /\ count' = count + 1 /\ UNCHANGED <<pruner, owner>>
  BY DEF AddInsert, OracleAdd, CountInv, Added, Passing
<1>2. Passing' = Passing \ {k}
  BY DEF AddInsert, Passing, TypeOK
<1>3. /\ IsFiniteSet(Passing) /\ Cardinality(Passing) \in Nat
  BY PassingFew DEF CountInv
<1>4. Cardinality(Passing') = Cardinality(Passing) - 1
  BY <1>1, <1>2, <1>3, FS_RemoveElement
<1>5. IsFiniteSet(tracked') /\ Cardinality(tracked') = Cardinality(tracked) + 1
  BY <1>1, FS_AddElement DEF CountInv
<1>6. Cardinality(tracked) \in Nat
  BY FS_CardinalityType DEF CountInv
<1>7. count' = Cardinality(tracked') + pruner'.removed
  BY <1>1, <1>5, <1>6, CountTypes DEF CountInv
<1>8. count' + Cardinality(Passing') <= Cap + Cardinality(Ingester) - 1
  BY <1>1, <1>3, <1>4, CountTypes DEF CountInv
<1>. QED BY <1>1, <1>2, <1>5, <1>7, <1>8 DEF CountInv

LEMMA PruneCount ==
  ASSUME TypeOK, IsFiniteSet(Ingester), CountInv, Added', PruneStep
  PROVE  CountInv'
<1>1. /\ UNCHANGED <<phase, owner>> /\ Passing' = Passing
  BY DEF PruneStep, PruneStart, PruneShard, PruneEnd, ingestVars, Passing
<1>2. CASE PruneStart
  BY <1>1, <1>2, CountFrame DEF PruneStart, oracleVars
<1>3. ASSUME NEW k \in Key, PruneShard(k) PROVE CountInv'
  <2>1. pruner \in PrunerType
    BY DEF TypeOK
  <2>2. CASE k \in tracked /\ Gone(k, pruner.cutoff)
    <3>1. /\ tracked' = tracked \ {k} /\ UNCHANGED count
          /\ pruner'.removed = pruner.removed + 1
      BY <1>3, <2>1, <2>2 DEF PruneShard, PrunerType
    <3>2. IsFiniteSet(tracked') /\ Cardinality(tracked') = Cardinality(tracked) - 1
      BY <2>2, <3>1, FS_RemoveElement DEF CountInv
    <3>3. Cardinality(tracked) \in Nat
      BY FS_CardinalityType DEF CountInv
    <3>4. count' = Cardinality(tracked') + pruner'.removed
      BY <3>1, <3>2, <3>3, CountTypes DEF CountInv
    <3>. QED BY <1>1, <3>1, <3>2, <3>4 DEF CountInv
  <2>3. CASE ~(k \in tracked /\ Gone(k, pruner.cutoff))
    <3>1. pruner'.removed = pruner.removed /\ UNCHANGED <<tracked, count>>
      BY <1>3, <2>1, <2>3 DEF PruneShard, PrunerType
    <3>. QED BY <1>1, <3>1, CountFrame
  <2>. QED BY <2>2, <2>3
<1>4. CASE PruneEnd
  <2>1. /\ count' = count - pruner.removed /\ UNCHANGED tracked
        /\ pruner'.removed = 0
    BY <1>4 DEF PruneEnd, TypeOK, PrunerType
  <2>2. Cardinality(tracked) \in Nat /\ Cardinality(Passing) \in Nat
    BY PassingFew, FS_CardinalityType DEF CountInv
  <2>3. count' = Cardinality(tracked') + pruner'.removed
    BY <2>1, <2>2, CountTypes DEF CountInv
  <2>4. count' + Cardinality(Passing) <= Cap + Cardinality(Ingester) - 1
    BY <2>1, <2>2, CountTypes DEF CountInv
  <2>. QED BY <1>1, <2>1, <2>3, <2>4 DEF CountInv
<1>. QED BY <1>2, <1>3, <1>4 DEF PruneStep

LEMMA IngestCount ==
  ASSUME TypeOK, IsFiniteSet(Ingester), CountInv, Added', IngestStep
  PROVE  CountInv'
<1>1. ASSUME UNCHANGED <<tracked, count, pruner>>, Passing' = Passing,
             \A k \in Passing : owner'[k] = owner[k]
      PROVE  CountInv'
  BY <1>1, CountFrame
<1>2. ASSUME NEW i \in Ingester, NEW S \in SUBSET Key, NEW t, IngestStart(i, S, t)
      PROVE  CountInv'
  <2>1. \A k \in Key : /\ phase'[k] = "passed" <=> phase[k] = "passed"
                       /\ phase[k] = "passed" => owner'[k] = owner[k]
    BY <1>2 DEF IngestStart
  <2>. QED BY <1>1, <1>2, <2>1 DEF IngestStart, oracleVars, Passing
<1>3. ASSUME NEW k \in Key, IngestHSet(k) \/ IngestPExpire(k)
      PROVE  CountInv'
  <2>1. \A j \in Key : phase'[j] = "passed" <=> phase[j] = "passed"
    BY <1>3 DEF IngestHSet, IngestPExpire, TypeOK
  <2>. QED BY <1>1, <1>3, <2>1 DEF IngestHSet, IngestPExpire, oracleVars, Passing
<1>4. ASSUME NEW i \in Ingester, IngestAck(i) \/ IngestFail(i)
      PROVE  CountInv'
  <2>1. \A j \in Key : phase'[j] = "passed" <=> phase[j] = "passed"
    BY <1>4 DEF IngestAck, IngestFail, TypeOK
  <2>. QED BY <1>1, <1>4, <2>1 DEF IngestAck, IngestFail, oracleVars, Passing
<1>. QED BY <1>2, <1>3, <1>4, AddCheckCount, AddInsertCount DEF IngestStep

LEMMA NextCount ==
  ASSUME TypeOK, IsFiniteSet(Ingester), CountInv, [Next]_vars
  PROVE  CountInv'
<1>1. Added'
  BY AddedStep DEF CountInv
<1>2. CASE UNCHANGED <<tracked, count, phase, owner>> /\ pruner'.removed = pruner.removed
  BY <1>1, <1>2, CountFrame DEF Passing
<1>3. CASE EditStep \/ QueryStep
  BY <1>2, <1>3 DEF EditStep, EditSample, EditBody, QueryStep, ProbeSample, QueryAsk,
     QueryAnswer, QueryFail, Check, QueryDone, oracleVars, ingestVars
<1>4. CASE DeleteStep \/ SlideStep
  BY <1>2, <1>4 DEF DeleteStep, DeleteSample, DeleteRun, DeleteFail, DeleteStamp,
     MarkDeleted, OracleMarkDeleted, SlideStep, SlideSample, SlideRun, SlideMiss,
     SlideReplyLost, SlideStamp, Refresh, OracleRefresh, oracleVars, ingestVars
<1>5. CASE Tick \/ (\E k \in Key : Deindex(k)) \/ UNCHANGED vars
  BY <1>2, <1>5 DEF Tick, Deindex, vars, oracleVars, ingestVars
<1>. QED BY <1>1, <1>3, <1>4, <1>5, IngestCount, PruneCount DEF Next

(* CounterIsCapped: for any number of ingesters that test the cap without  *)
(* a lock, the counter is the number of entries but for those a running    *)
(* Prune has yet to subtract, and exceeds the cap by at most one entry per *)
(* other ingester (Add, Prune).                                            *)
THEOREM CounterIsCapped ==
  ASSUME IsFiniteSet(Ingester)
  PROVE  Spec => []CountWithinCap
<1>1. TypeOK /\ CountInv => CountWithinCap
  <2>. SUFFICES ASSUME TypeOK, CountInv
                PROVE  count <= Cap + Cardinality(Ingester) - 1
    BY DEF CountInv, CountWithinCap
  <2>1. Cardinality(Passing) \in Nat
    BY PassingFew DEF CountInv
  <2>. QED BY <2>1, CountTypes DEF CountInv
<1>2. Init => CountInv
  BY InitCount
<1>3. TypeOK /\ CountInv /\ [Next]_vars => CountInv'
  BY NextCount
<1>. QED BY <1>1, <1>2, <1>3, TypeCorrect, PTL DEF Spec
=============================================================================
