---------------------------- MODULE BazaarVerify ----------------------------
(***************************************************************************)
(* A verify worker of bazaar (use case 07, verify.py) against an index     *)
(* that works: it follows every write within Lag.  The lifecycle probe     *)
(* polls for what it has inserted, updated and deleted; the sample probe   *)
(* checks that a loaded document can be searched, while the churn workers  *)
(* rewrite and remove it.  Whatever the worker reports here is false.      *)
(*                                                                         *)
(* Clocks are ages that stop counting where it no longer matters.          *)
(***************************************************************************)
EXTENDS Integers

CONSTANTS
  Grace,  \* VISIBILITY_GRACE_S
  Nap,    \* the pause of the sample probe before its retry
  Lag     \* how long after a write a search may miss it, 0 if it never does

ASSUME VerifyAssumption ==
  /\ Grace \in Nat /\ Nap \in Nat /\ Lag \in Nat
  /\ Lag < Grace /\ Lag < Nap

VARIABLES
  ver,      \* ver[d]: the version of the document, or Gone
  pending,  \* pending[d]: how long ago a write was that the index lags, or Settled
  pc,       \* where the worker is
  phase,    \* what the lifecycle probe polls for
  age,      \* time since the poll or the pause began
  answer,   \* what the last search found
  ansAge,   \* time since the server computed it
  event,    \* the event the iteration has reported last
  touched   \* history: churn wrote the sampled document since the pause began

vars == <<ver, pending, pc, phase, age, answer, ansAge, event, touched>>

Gone == -1
Settled == -1
None == "none"
\* The document of the iteration's lifecycle probe, and the sampled one.
Document == {"own", "base"}
MaxAge == Grace + Nap + 1

Init ==
  /\ ver = [d \in Document |-> IF d = "own" THEN Gone ELSE 0]
  /\ pending = [d \in Document |-> Settled]
  /\ pc = "loop" /\ phase = "insert"
  /\ age = 0 /\ answer = FALSE /\ ansAge = 0
  /\ event = None /\ touched = FALSE

-----------------------------------------------------------------------------
(* The server.                                                             *)

Write(d, v) ==
  /\ ver' = [ver EXCEPT ![d] = v]
  /\ pending' = [pending EXCEPT ![d] = IF Lag = 0 THEN Settled ELSE 0]

\* A search finds what is there; of a write it has not caught up with it may
\* show the state before or after, or a document on its way between both.
Finds(d, found) == found = (ver[d] # Gone) \/ pending[d] # Settled

CatchUp(d) ==
  /\ pending[d] # Settled
  /\ pending' = [pending EXCEPT ![d] = Settled]
  /\ UNCHANGED <<ver, pc, phase, age, answer, ansAge, event, touched>>

Older(a, most) == IF a < most THEN a + 1 ELSE a

Tick ==
  /\ \A d \in Document : pending[d] < Lag
  /\ pending' = [d \in Document |->
                   IF pending[d] = Settled THEN Settled ELSE pending[d] + 1]
  /\ age' = Older(age, MaxAge)
  /\ ansAge' = Older(ansAge, MaxAge)
  /\ UNCHANGED <<ver, pc, phase, answer, event, touched>>

\* A churn worker updates, relists or deletes the sampled document.
Churn(v) ==
  /\ Write("base", v)
  /\ touched' = TRUE
  /\ UNCHANGED <<pc, phase, age, answer, ansAge, event>>

-----------------------------------------------------------------------------
(* lifecycle_probe and _poll.                                              *)

\* A fresh id; what an earlier iteration left behind has another one.
LifecycleInsert ==
  /\ pc = "loop"
  /\ Write("own", 0)
  /\ phase' = "insert" /\ pc' = "ask" /\ age' = 0
  /\ event' = None
  /\ UNCHANGED <<answer, ansAge, touched>>

Ask ==
  /\ pc = "ask"
  /\ \E found \in BOOLEAN : Finds("own", found) /\ answer' = found
  /\ ansAge' = 0
  /\ pc' = "reply"
  /\ UNCHANGED <<ver, pending, phase, age, event, touched>>

\* Mutant: the grace ends a moment early.
LateTooSoon == age >= Grace

Passed == answer = (phase # "delete")
Late == age > Grace

PollAgain ==
  /\ pc = "reply" /\ ~Passed /\ ~Late
  /\ pc' = "ask"
  /\ UNCHANGED <<ver, pending, phase, age, answer, ansAge, event, touched>>

EventOf == CASE phase = "insert" -> "insert_not_visible"
             [] phase = "update" -> "update_not_visible"
             [] phase = "delete" -> "stale_hit"

\* A poll that ran out of grace reports; an insert that never became visible
\* is unlinked and ends the probe.
Report(ev) == event' = IF Passed THEN event ELSE ev

PollInsert ==
  /\ pc = "reply" /\ phase = "insert" /\ (Passed \/ Late)
  /\ Report(EventOf)
  /\ IF Passed
     THEN Write("own", 1) /\ phase' = "update" /\ pc' = "ask" /\ age' = 0
     ELSE Write("own", Gone) /\ pc' = "sample" /\ UNCHANGED <<phase, age>>
  /\ UNCHANGED <<answer, ansAge, touched>>

\* Mutant: the document is not unlinked.
PollUpdateNoUnlink ==
  /\ pc = "reply" /\ phase = "update" /\ (Passed \/ Late)
  /\ Report(EventOf)
  /\ phase' = "delete" /\ pc' = "ask" /\ age' = 0
  /\ UNCHANGED <<ver, pending, answer, ansAge, touched>>

PollUpdate ==
  /\ pc = "reply" /\ phase = "update" /\ (Passed \/ Late)
  /\ Report(EventOf)
  /\ Write("own", Gone)
  /\ phase' = "delete" /\ pc' = "ask" /\ age' = 0
  /\ UNCHANGED <<answer, ansAge, touched>>

PollDelete ==
  /\ pc = "reply" /\ phase = "delete" /\ (Passed \/ Late)
  /\ Report(EventOf)
  /\ pc' = "sample"
  /\ UNCHANGED <<ver, pending, phase, age, answer, ansAge, touched>>

-----------------------------------------------------------------------------
(* sample_probe.                                                           *)

Goto(place) ==
  /\ pc' = place
  /\ UNCHANGED <<ver, pending, phase, age, answer, ansAge, event, touched>>

\* Mutant: a document that is gone is read again.
SampleReadAgain ==
  /\ pc = "sample"
  /\ Goto(IF ver["base"] = Gone THEN "sample" ELSE "search")

SampleRead ==
  /\ pc = "sample"
  /\ Goto(IF ver["base"] = Gone THEN "loop" ELSE "search")

SampleSearch ==
  /\ pc = "search"
  /\ \E found \in BOOLEAN :
       /\ Finds("base", found)
       /\ pc' = IF found THEN "loop" ELSE "nap"
  /\ age' = 0 /\ touched' = FALSE
  /\ UNCHANGED <<ver, pending, phase, answer, ansAge, event>>

\* Mutant: no pause before the retry.
WakeAtOnce ==
  /\ pc = "nap"
  /\ Goto("reread")

Wake ==
  /\ pc = "nap" /\ age >= Nap
  /\ Goto("reread")

SampleReread ==
  /\ pc = "reread"
  /\ Goto(IF ver["base"] = Gone THEN "loop" ELSE "again")

SampleSearchAgain ==
  /\ pc = "again"
  /\ \E found \in BOOLEAN :
       /\ Finds("base", found)
       /\ event' = IF found THEN event ELSE "missing_from_search"
  /\ pc' = "loop"
  /\ UNCHANGED <<ver, pending, phase, age, answer, ansAge, touched>>

\* Any call raises: the iteration is given up as it stands.
VerifyError ==
  /\ pc \in {"ask", "reply", "sample", "search", "reread", "again"}
  /\ Goto("loop")

Lifecycle ==
  LifecycleInsert \/ Ask \/ PollAgain \/ PollInsert \/ PollUpdate \/ PollDelete

Sample ==
  SampleRead \/ SampleSearch \/ Wake \/ SampleReread \/ SampleSearchAgain

Next ==
  \/ Lifecycle
  \/ Sample
  \/ VerifyError
  \/ Tick
  \/ \E d \in Document : CatchUp(d)
  \/ \E v \in {Gone, 0} : Churn(v)

Spec == Init /\ [][Next]_vars

\* Calls return (socket_timeout), time passes and the index catches up.
FairSpec ==
  /\ Spec
  /\ WF_vars(Lifecycle) /\ WF_vars(Sample) /\ WF_vars(Tick)
  /\ \A d \in Document : SF_vars(CatchUp(d))

-----------------------------------------------------------------------------
TypeOK ==
  /\ ver \in [Document -> {Gone, 0, 1}]
  /\ pending \in [Document -> Settled .. Lag]
  /\ pc \in {"loop", "ask", "reply", "sample", "search", "nap", "reread",
             "again"}
  /\ phase \in {"insert", "update", "delete"}
  /\ age \in 0 .. MaxAge /\ ansAge \in 0 .. MaxAge
  /\ answer \in BOOLEAN /\ touched \in BOOLEAN
  /\ event \in {None, "insert_not_visible", "update_not_visible", "stale_hit",
                "missing_from_search"}
  /\ pc \in {"ask", "reply"} =>
       ver["own"] = CASE phase = "insert" -> 0
                      [] phase = "update" -> 1
                      [] phase = "delete" -> Gone

(* PollEventsNeedSlowReply: on an index that works, _poll reports only if  *)
(* the answer it went by had been under way for longer than the grace      *)
(* leaves after the index's lag.                                           *)
PollEventsNeedSlowReply ==
  [][event' # event /\ event' \in {"insert_not_visible", "update_not_visible",
                                   "stale_hit"}
       => ansAge > Grace - Lag]_vars

(* MissingNeedsChurn: on an index that works, sample_probe reports a       *)
(* missing document only if churn wrote that document after the first      *)
(* search: the retry excuses the index's lag.                              *)
MissingNeedsChurn ==
  [][event' # event /\ event' = "missing_from_search" => touched]_vars

(* ProbesEnd: an iteration ends, however the searches answer.              *)
ProbesEnd == pc # "loop" ~> pc = "loop"
=============================================================================
