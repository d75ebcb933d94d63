------------------------ MODULE BazaarVerifyProofs ------------------------
(***************************************************************************)
(* What a verify worker of bazaar reports of an index that works has a     *)
(* cause outside of the index, for every grace, pause and lag.             *)
(***************************************************************************)
EXTENDS BazaarVerify, TLAPS

-----------------------------------------------------------------------------
(* The inductive invariant.                                                *)

\* A lag that is still open began with the poll.
OwnLag ==
  pc \in {"ask", "reply"} /\ pending["own"] # Settled => pending["own"] >= age

\* A bad answer was given while the index could still lag.
BadAnswer == pc = "reply" /\ ~Passed => age <= ansAge + Lag

\* Unless churn interfered, a document that was missed once is there, and the
\* index has had the pause to catch up with it.
Missed ==
  ~touched =>
    /\ pc = "nap" /\ pending["base"] # Settled => pending["base"] >= age
    /\ pc \in {"reread", "again"} => pending["base"] = Settled
    /\ pc = "again" => ver["base"] # Gone

VInv == TypeOK /\ OwnLag /\ BadAnswer /\ Missed

PollHonest ==
  event' # event /\ event' \in {"insert_not_visible", "update_not_visible", "stale_hit"}
    => ansAge > Grace - Lag

MissHonest == event' # event /\ event' = "missing_from_search" => touched

-----------------------------------------------------------------------------
LEMMA VerifyNumbers ==
  /\ Grace \in Nat /\ Nap \in Nat /\ Lag \in Nat /\ Lag < Grace /\ Lag < Nap
  /\ MaxAge = Grace + Nap + 1 /\ MaxAge \in Nat /\ Gone = -1 /\ Settled = -1
  /\ "own" \in Document /\ "base" \in Document
BY VerifyAssumption DEF VerifyAssumption, MaxAge, Gone, Settled, Document

\* The types of what has a time in it.
LEMMA AgeTypes ==
  ASSUME TypeOK
  PROVE  /\ age \in 0 .. MaxAge /\ ansAge \in 0 .. MaxAge
         /\ pending["own"] \in Settled .. Lag /\ pending["base"] \in Settled .. Lag
BY VerifyNumbers DEF TypeOK

LEMMA WriteTypes ==
  ASSUME TypeOK, NEW d \in Document, NEW v \in {Gone, 0, 1}, Write(d, v)
  PROVE  /\ ver' \in [Document -> {Gone, 0, 1}] /\ ver'[d] = v
         /\ pending' \in [Document -> Settled .. Lag]
         /\ pending'[d] \in {Settled, 0}
         /\ \A e \in Document \ {d} : ver'[e] = ver[e] /\ pending'[e] = pending[e]
<1>1. (IF Lag = 0 THEN Settled ELSE 0) \in Settled .. Lag
  BY VerifyNumbers
<1>. QED BY <1>1 DEF Write, TypeOK

LEMMA InitVInv == Init => VInv
<1>. SUFFICES ASSUME Init PROVE VInv
  OBVIOUS
<1>1. TypeOK
  <2>1. ver \in [Document -> {Gone, 0, 1}]
    BY DEF Init
  <2>2. Settled \in Settled .. Lag /\ 0 \in 0 .. MaxAge
    BY VerifyNumbers
  <2>3. pending \in [Document -> Settled .. Lag]
    BY <2>2 DEF Init
  <2>. QED BY <2>1, <2>2, <2>3 DEF Init, TypeOK
<1>. QED BY <1>1 DEF Init, VInv, OwnLag, BadAnswer, Missed

-----------------------------------------------------------------------------
(* The server and the clock.                                               *)

LEMMA CatchUpStep ==
  ASSUME VInv, NEW d \in Document, CatchUp(d)
  PROVE  VInv' /\ PollHonest /\ MissHonest
<1>1. /\ pending' \in [Document -> Settled .. Lag]
      /\ \A e \in Document : pending'[e] = pending[e] \/ pending'[e] = Settled
      /\ UNCHANGED <<ver, pc, phase, age, answer, ansAge, event, touched>>
  BY VerifyNumbers DEF CatchUp, VInv, TypeOK
<1>2. TypeOK'
  BY <1>1 DEF VInv, TypeOK
<1>3. OwnLag' /\ BadAnswer' /\ Missed'
  BY <1>1, VerifyNumbers DEF VInv, OwnLag, BadAnswer, Missed, Passed
<1>. QED BY <1>1, <1>2, <1>3 DEF VInv, PollHonest, MissHonest

LEMMA TickStep ==
  ASSUME VInv, Tick
  PROVE  VInv' /\ PollHonest /\ MissHonest
<1>1. /\ pending \in [Document -> Settled .. Lag] /\ age \in 0 .. MaxAge
      /\ ansAge \in 0 .. MaxAge
  BY DEF VInv, TypeOK
<1>2. /\ \A d \in Document : pending[d] < Lag
      /\ \A d \in Document : pending'[d] = IF pending[d] = Settled THEN Settled
                                           ELSE pending[d] + 1
      /\ age' = IF age < MaxAge THEN age + 1 ELSE age
      /\ ansAge' = IF ansAge < MaxAge THEN ansAge + 1 ELSE ansAge
      /\ UNCHANGED <<ver, pc, phase, answer, event, touched>>
  BY DEF Tick, Older
<1>3. pending' \in [Document -> Settled .. Lag]
  <2>1. \A d \in Document :
          (IF pending[d] = Settled THEN Settled ELSE pending[d] + 1) \in Settled .. Lag
    BY <1>1, <1>2, VerifyNumbers
  <2>. QED BY <2>1 DEF Tick
<1>4. age' \in 0 .. MaxAge /\ ansAge' \in 0 .. MaxAge
  BY <1>1, <1>2, VerifyNumbers
<1>5. TypeOK'
  BY <1>2, <1>3, <1>4 DEF VInv, TypeOK
<1>6. \A d \in Document : /\ pending'[d] = Settled <=> pending[d] = Settled
                          /\ pending[d] # Settled /\ pending[d] >= age
                               => pending'[d] >= age'
  BY <1>1, <1>2, VerifyNumbers
<1>7. OwnLag' /\ Missed'
  BY <1>2, <1>6, VerifyNumbers DEF VInv, OwnLag, Missed
<1>8. age <= ansAge + Lag => age' <= ansAge' + Lag
  BY <1>1, <1>2, VerifyNumbers
<1>9. BadAnswer'
  BY <1>2, <1>8 DEF VInv, BadAnswer, Passed
<1>. QED BY <1>2, <1>5, <1>7, <1>9 DEF VInv, PollHonest, MissHonest

LEMMA ChurnStep ==
  ASSUME VInv, NEW v \in {Gone, 0}, Churn(v)
  PROVE  VInv' /\ PollHonest /\ MissHonest
<1>1. /\ ver' \in [Document -> {Gone, 0, 1}] /\ pending' \in [Document -> Settled .. Lag]
      /\ ver'["own"] = ver["own"] /\ pending'["own"] = pending["own"]
      /\ touched' = TRUE /\ UNCHANGED <<pc, phase, age, answer, ansAge, event>>
  BY WriteTypes, VerifyNumbers DEF Churn, VInv, Document
<1>2. TypeOK'
  BY <1>1 DEF VInv, TypeOK
<1>3. OwnLag' /\ BadAnswer' /\ Missed'
  BY <1>1 DEF VInv, OwnLag, BadAnswer, Missed, Passed
<1>. QED BY <1>1, <1>2, <1>3 DEF VInv, PollHonest, MissHonest

-----------------------------------------------------------------------------
(* The lifecycle probe.                                                    *)

\* A poll begins with a write of the probe's own document.
LEMMA PollBegins ==
  ASSUME VInv, NEW v \in {Gone, 0, 1}, Write("own", v), pc' = "ask", age' = 0,
         phase' \in {"insert", "update", "delete"},
         v = CASE phase' = "insert" -> 0 [] phase' = "update" -> 1
               [] phase' = "delete" -> Gone,
         UNCHANGED <<answer, ansAge, touched>>,
         event' \in {event, None, "insert_not_visible", "update_not_visible", "stale_hit"}
  PROVE  VInv'
<1>1. /\ ver' \in [Document -> {Gone, 0, 1}] /\ ver'["own"] = v
      /\ pending' \in [Document -> Settled .. Lag] /\ pending'["own"] \in {Settled, 0}
  BY WriteTypes, VerifyNumbers DEF VInv
<1>2. TypeOK'
  BY <1>1, VerifyNumbers DEF VInv, TypeOK
<1>3. OwnLag'
  BY <1>1 DEF OwnLag
<1>4. BadAnswer' /\ Missed'
  BY DEF BadAnswer, Missed
<1>. QED BY <1>2, <1>3, <1>4 DEF VInv

\* A poll that is over with a bad answer has waited for it.
LEMMA LateAnswer ==
  ASSUME VInv, pc = "reply", ~Passed, Late
  PROVE  ansAge > Grace - Lag
<1>1. age <= ansAge + Lag /\ age > Grace
  BY DEF VInv, BadAnswer, Late
<1>. QED BY <1>1, AgeTypes, VerifyNumbers DEF VInv

LEMMA AskStep ==
  ASSUME VInv, Ask
  PROVE  VInv' /\ PollHonest /\ MissHonest
<1>1. /\ pc = "ask" /\ pc' = "reply" /\ ansAge' = 0 /\ answer' \in BOOLEAN
      /\ answer' = (ver["own"] # Gone) \/ pending["own"] # Settled
      /\ UNCHANGED <<ver, pending, phase, age, event, touched>>
  BY DEF Ask, Finds
<1>2. TypeOK'
  BY <1>1, VerifyNumbers DEF VInv, TypeOK
<1>3. OwnLag' /\ Missed'
  BY <1>1 DEF VInv, OwnLag, Missed
<1>4. BadAnswer'
  <2>. SUFFICES ASSUME ~Passed'
                PROVE  age <= Lag
    BY <1>1, AgeTypes, VerifyNumbers DEF BadAnswer, VInv
  <2>1. (ver["own"] # Gone) = (phase # "delete")
    BY <1>1, VerifyNumbers DEF VInv, TypeOK
  <2>2. pending["own"] # Settled
    BY <1>1, <2>1 DEF Passed
  <2>3. pending["own"] >= age
    BY <1>1, <2>2 DEF VInv, OwnLag
  <2>. QED BY <2>3, AgeTypes, VerifyNumbers DEF VInv
<1>. QED BY <1>1, <1>2, <1>3, <1>4 DEF VInv, PollHonest, MissHonest

\* The iteration goes elsewhere, with nothing found yet.
LEMMA MovesOn ==
  ASSUME VInv, UNCHANGED <<ver, pending, phase, age, answer, ansAge, touched>>,
         pc' \in {"loop", "sample", "search"} \/ (pc' = "ask" /\ pc = "reply"),
         event' \in {event, "insert_not_visible", "update_not_visible", "stale_hit"}
  PROVE  VInv'
<1>1. TypeOK'
  BY DEF VInv, TypeOK
<1>2. OwnLag' /\ BadAnswer' /\ Missed'
  BY DEF VInv, OwnLag, BadAnswer, Missed
<1>. QED BY <1>1, <1>2 DEF VInv

LEMMA LifecycleStep ==
  ASSUME VInv, Lifecycle
  PROVE  VInv' /\ PollHonest /\ MissHonest
<1>1. CASE LifecycleInsert
  <2>1. VInv'
    BY <1>1, PollBegins DEF LifecycleInsert
  <2>. QED BY <1>1, <2>1 DEF LifecycleInsert, PollHonest, MissHonest, None
<1>2. CASE Ask
  BY <1>2, AskStep
<1>3. CASE PollAgain
  <2>1. VInv'
    BY <1>3, MovesOn DEF PollAgain
  <2>. QED BY <1>3, <2>1 DEF PollAgain, PollHonest, MissHonest
<1>4. ASSUME pc = "reply", Passed \/ Late, Report(EventOf)
      PROVE  /\ event' \in {event, "insert_not_visible", "update_not_visible", "stale_hit"}
             /\ PollHonest /\ MissHonest
  <2>1. EventOf \in {"insert_not_visible", "update_not_visible", "stale_hit"}
    BY DEF VInv, TypeOK, EventOf
  <2>2. event' = IF Passed THEN event ELSE EventOf
    BY <1>4 DEF Report
  <2>3. CASE Passed
    BY <2>2, <2>3 DEF PollHonest, MissHonest
  <2>4. CASE ~Passed
    <3>1. ansAge > Grace - Lag
      BY <1>4, <2>4, LateAnswer
    <3>. QED BY <2>1, <2>2, <2>4, <3>1 DEF PollHonest, MissHonest
  <2>. QED BY <2>3, <2>4
<1>5. CASE PollInsert
  <2>1. CASE Passed
    BY <1>4, <1>5, <2>1, PollBegins DEF PollInsert
  <2>2. CASE ~Passed
    <3>1. /\ Write("own", Gone) /\ pc' = "sample"
          /\ UNCHANGED <<phase, age, answer, ansAge, touched>>
      BY <1>5, <2>2 DEF PollInsert
    <3>2. /\ ver' \in [Document -> {Gone, 0, 1}] /\ pending' \in [Document -> Settled .. Lag]
      BY <3>1, WriteTypes, VerifyNumbers DEF VInv
    <3>3. event' \in {event, "insert_not_visible", "update_not_visible", "stale_hit"}
          /\ PollHonest /\ MissHonest
      BY <1>4, <1>5 DEF PollInsert
    <3>4. TypeOK'
      BY <3>1, <3>2, <3>3 DEF VInv, TypeOK
    <3>. QED BY <3>1, <3>3, <3>4 DEF VInv, OwnLag, BadAnswer, Missed
  <2>. QED BY <2>1, <2>2
<1>6. CASE PollUpdate
  <2>1. VInv'
    BY <1>4, <1>6, PollBegins DEF PollUpdate
  <2>. QED BY <1>4, <1>6, <2>1 DEF PollUpdate
<1>7. CASE PollDelete
  <2>1. VInv'
    BY <1>4, <1>7, MovesOn DEF PollDelete
  <2>. QED BY <1>4, <1>7, <2>1 DEF PollDelete
<1>. QED BY <1>1, <1>2, <1>3, <1>5, <1>6, <1>7 DEF Lifecycle

-----------------------------------------------------------------------------
(* The sample probe.                                                       *)

LEMMA SampleStep ==
  ASSUME VInv, Sample \/ VerifyError
  PROVE  VInv' /\ PollHonest /\ MissHonest
<1>1. CASE SampleRead \/ VerifyError
  <2>1. /\ pc' \in {"loop", "search"}
        /\ UNCHANGED <<ver, pending, phase, age, answer, ansAge, event, touched>>
    <3>1. CASE SampleRead
      BY <3>1 DEF SampleRead, Goto
    <3>2. CASE VerifyError
      BY <3>2 DEF VerifyError, Goto
    <3>. QED BY <1>1, <3>1, <3>2
  <2>2. TypeOK'
    BY <2>1 DEF VInv, TypeOK
  <2>3. VInv'
    BY <2>1, <2>2 DEF VInv, OwnLag, BadAnswer, Missed
  <2>. QED BY <2>1, <2>3 DEF PollHonest, MissHonest
<1>2. CASE SampleSearch
  <2>1. /\ pc' \in {"loop", "nap"} /\ age' = 0
        /\ UNCHANGED <<ver, pending, phase, answer, ansAge, event>>
        /\ touched' = FALSE
    BY <1>2 DEF SampleSearch
  <2>2. TypeOK'
    <3>1. 0 \in 0 .. MaxAge
      BY VerifyNumbers
    <3>. QED BY <2>1, <3>1 DEF VInv, TypeOK
  <2>3. pending["base"] # Settled => pending["base"] >= 0
    BY AgeTypes, VerifyNumbers DEF VInv
  <2>4. OwnLag' /\ BadAnswer' /\ Missed'
    BY <2>1, <2>3 DEF OwnLag, BadAnswer, Missed
  <2>. QED BY <2>1, <2>2, <2>4 DEF VInv, PollHonest, MissHonest
<1>3. CASE Wake
  <2>1. /\ pc = "nap" /\ age >= Nap /\ pc' = "reread"
        /\ UNCHANGED <<ver, pending, phase, age, answer, ansAge, event, touched>>
    BY <1>3 DEF Wake, Goto
  <2>2. TypeOK'
    BY <2>1 DEF VInv, TypeOK
  <2>3. ~touched => pending["base"] = Settled
    BY <2>1, AgeTypes, VerifyNumbers DEF VInv, Missed
  <2>. QED BY <2>1, <2>2, <2>3 DEF VInv, OwnLag, BadAnswer, Missed, PollHonest, MissHonest
<1>4. CASE SampleReread
  <2>1. /\ pc = "reread" /\ pc' = IF ver["base"] = Gone THEN "loop" ELSE "again"
        /\ UNCHANGED <<ver, pending, phase, age, answer, ansAge, event, touched>>
    BY <1>4 DEF SampleReread, Goto
  <2>2. TypeOK'
    BY <2>1 DEF VInv, TypeOK
  <2>. QED BY <2>1, <2>2 DEF VInv, OwnLag, BadAnswer, Missed, PollHonest, MissHonest
<1>5. CASE SampleSearchAgain
  <2>1. PICK found \in BOOLEAN :
          /\ found = (ver["base"] # Gone) \/ pending["base"] # Settled
          /\ event' = IF found THEN event ELSE "missing_from_search"
    BY <1>5 DEF SampleSearchAgain, Finds
  <2>2. /\ pc = "again" /\ pc' = "loop"
        /\ UNCHANGED <<ver, pending, phase, age, answer, ansAge, touched>>
    BY <1>5 DEF SampleSearchAgain
  <2>3. ~touched => found
    BY <2>1, <2>2 DEF VInv, Missed
  <2>4. TypeOK'
    BY <2>1, <2>2 DEF VInv, TypeOK
  <2>. QED BY <2>1, <2>2, <2>3, <2>4 DEF VInv, OwnLag, BadAnswer, Missed, PollHonest,
           MissHonest
<1>. QED BY <1>1, <1>2, <1>3, <1>4, <1>5 DEF Sample

LEMMA NextVInv == VInv /\ [Next]_vars => VInv' /\ PollHonest /\ MissHonest
<1>. SUFFICES ASSUME VInv, [Next]_vars
              PROVE  VInv' /\ PollHonest /\ MissHonest
  OBVIOUS
<1>1. CASE UNCHANGED vars
  <2>1. UNCHANGED <<ver, pending, pc, phase, age, answer, ansAge, event, touched>>
    BY <1>1 DEF vars
  <2>. QED BY <2>1 DEF VInv, TypeOK, OwnLag, BadAnswer, Missed, Passed, PollHonest,
           MissHonest
<1>. QED BY <1>1, CatchUpStep, TickStep, ChurnStep, LifecycleStep, SampleStep DEF Next

LEMMA AlwaysVInv == Spec => []VInv
<1>1. VInv /\ [Next]_vars => VInv'
  BY NextVInv
<1>. QED BY <1>1, InitVInv, PTL DEF Spec

-----------------------------------------------------------------------------
(* VerifyTypeCorrect: the variables keep their types, and while the probe  *)
(* polls its document is what the phase says.                              *)
THEOREM VerifyTypeCorrect == Spec => []TypeOK
<1>1. VInv => TypeOK
  BY DEF VInv
<1>. QED BY <1>1, AlwaysVInv, PTL

(* PollsReportSlowReplies: whatever lag below the grace the index has, a   *)
(* poll that reports went by an answer that was under way for longer than  *)
(* the grace leaves after the lag (_poll).                                 *)
THEOREM PollsReportSlowReplies == Spec => PollEventsNeedSlowReply
<1>1. VInv /\ [Next]_vars => [PollHonest]_vars
  BY NextVInv
<1>. QED BY <1>1, AlwaysVInv, PTL DEF Spec, PollEventsNeedSlowReply, PollHonest

(* MissesNeedChurn: whatever lag below the pause the index has, a document *)
(* is reported missing only if churn wrote it after the first search       *)
(* (sample_probe).                                                         *)
THEOREM MissesNeedChurn == Spec => MissingNeedsChurn
<1>1. VInv /\ [Next]_vars => [MissHonest]_vars
  BY NextVInv
<1>. QED BY <1>1, AlwaysVInv, PTL DEF Spec, MissingNeedsChurn, MissHonest
=============================================================================
