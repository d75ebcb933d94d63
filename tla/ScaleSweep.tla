----------------------------- MODULE ScaleSweep -----------------------------
(***************************************************************************)
(* The checks that run beside the bulk ingest (use case 01,                *)
(* bg_scan_test.py and verify_sweep.py).  The first creates a second index *)
(* over documents that exist, polls while the server scans them into it,   *)
(* and then compares the two indexes; the second looks sampled documents   *)
(* up in both.  The server is sound: a write is in both indexes at once,   *)
(* and the scan adds what was there before, one document after the other.  *)
(* The tools only read, so an execution runs one of them, or the stress.   *)
(***************************************************************************)
EXTENDS ScaleStress

CONSTANTS
  StallLimit, \* --stall-limit
  Slack,      \* the 5000 of the bracket
  Spots,      \* the documents the spot checks look up
  Points,     \* --points
  Canary      \* SC00000000042

ASSUME SweepAssumption ==
  /\ StallLimit \in Nat \ {0} /\ Slack \in Nat /\ Points \in Nat \ {0}
  /\ Spots \subseteq Nat \X Nat /\ Canary \in Nat \X Nat

VARIABLES
  tool,     \* the tool that is run, if any
  indexing, \* FT.INFO idx:scan: "absent", or whether the scan goes on
  backlog,  \* the documents the scan has not reached
  place,    \* where the tool is
  prev,     \* prev_docs of bg_scan
  stalls,   \* stall_polls
  a1, b,    \* the first two counts of the bracket
  quiet,    \* history: how often bg_scan has seen idx:scan since it last grew
  scanOn,   \* self.scan # None
  left,     \* how many points are to be looked up
  checked,  \* checked > 0
  point,    \* the document looked up in idx:main
  said      \* history: the violation or failure that the last step printed

scanVars == <<indexing, backlog>>
bgVars == <<prev, stalls, a1, b, quiet>>
sweepVars == <<scanOn, left, checked, point>>
toolVars == <<tool, scanVars, place, bgVars, sweepVars, said>>
allVars == <<vars, toolVars>>

\* What is in idx:scan.
Scanned == stored \ backlog

ToolInit ==
  /\ tool \in {"none", "stress", "bg_scan", "sweep"}
  /\ indexing = "absent" /\ backlog = {}
  /\ place = "start"
  /\ prev = 0 /\ stalls = 0 /\ a1 = 0 /\ b = 0 /\ quiet = 0
  /\ scanOn = FALSE /\ left = 0 /\ checked = FALSE /\ point = <<0, 0>>
  /\ said = {}
SweepInit == Init /\ ToolInit

-----------------------------------------------------------------------------
(* The second index.                                                       *)

\* FT.CREATE without SKIPINITIALSCAN.
CreateScan ==
  /\ tool \in {"bg_scan", "sweep"} /\ indexing = "absent"
  /\ indexing' = "yes" /\ backlog' = stored
  /\ quiet' = IF tool = "bg_scan" THEN 1 ELSE 0
  /\ place' = IF tool = "bg_scan" THEN "poll" ELSE place
  /\ said' = {}
  /\ UNCHANGED <<vars, tool, prev, stalls, a1, b, sweepVars>>

ScanDocument ==
  /\ indexing = "yes"
  /\ \E d \in backlog : backlog' = backlog \ {d}
  /\ quiet' = 0
  /\ said' = {}
  /\ UNCHANGED <<vars, tool, indexing, place, prev, stalls, a1, b, sweepVars>>

ScanEnds ==
  /\ indexing = "yes" /\ backlog = {}
  /\ indexing' = "no"
  /\ said' = {}
  /\ UNCHANGED <<vars, tool, backlog, place, bgVars, sweepVars>>

-----------------------------------------------------------------------------
(* bg_scan_test.py.                                                        *)

At(here, there) == place = here /\ place' = there
Say(kind, wrong) == said' = IF wrong THEN {<<kind, <<0, 0>>>>} ELSE {}
Said(kind) == <<kind, <<0, 0>>>> \in said
bgRest == <<vars, tool, scanVars, sweepVars>>

\* Mutant: the count of stalled polls goes on over a poll that saw progress.
StallsKept ==
  IF Cardinality(Scanned) = prev THEN stalls + 1 ELSE stalls

\* The count of polls without progress, before it is compared with its limit.
Stalls ==
  IF Cardinality(Scanned) = prev THEN stalls + 1 ELSE 0

\* Mutant: the count goes on after the violation is printed.
PollStallKept ==
  /\ At("poll", "poll") /\ indexing = "yes"
  /\ Say("stall", Stalls >= StallLimit)
  /\ stalls' = Stalls
  /\ prev' = Cardinality(Scanned)
  /\ quiet' = IF quiet = StallLimit THEN quiet ELSE quiet + 1
  /\ UNCHANGED <<bgRest, a1, b>>

\* A poll: both FT.INFOs and the stall check.
Poll ==
  /\ At("poll", "poll") /\ indexing = "yes"
  /\ Say("stall", Stalls >= StallLimit)
  /\ stalls' = IF Stalls >= StallLimit THEN 0 ELSE Stalls
  /\ prev' = Cardinality(Scanned)
  /\ quiet' = IF quiet = StallLimit THEN quiet ELSE quiet + 1
  /\ UNCHANGED <<bgRest, a1, b>>

LoopOver == prev' = 0 /\ stalls' = 0 /\ quiet' = 0

\* The poll that sees the scan complete; what the loop kept is not needed any more.
PollLast ==
  /\ At("poll", "a1") /\ indexing = "no"
  /\ LoopOver
  /\ said' = {}
  /\ UNCHANGED <<bgRest, a1, b>>

\* An FT.INFO fails: the next poll.
PollError ==
  /\ At("poll", "poll")
  /\ said' = {}
  /\ UNCHANGED <<bgRest, bgVars>>

FirstCount ==
  /\ At("a1", "b")
  /\ a1' = Cardinality(stored)
  /\ said' = {}
  /\ UNCHANGED <<bgRest, prev, stalls, b, quiet>>

ScanCounted ==
  /\ At("b", "a2")
  /\ b' = Cardinality(Scanned)
  /\ said' = {}
  /\ UNCHANGED <<bgRest, prev, stalls, a1, quiet>>

\* Mutant: compared with the first count alone.
CompareFirst ==
  /\ At("a2", "spots")
  /\ Say("bracket", b > a1 + Slack)
  /\ a1' = 0 /\ b' = 0
  /\ UNCHANGED <<bgRest, prev, stalls, quiet>>

\* a2, and the bracket.
Compare ==
  /\ At("a2", "spots")
  /\ Say("bracket", ~(a1 <= b + Slack /\ b <= Cardinality(stored) + Slack))
  /\ a1' = 0 /\ b' = 0
  /\ UNCHANGED <<bgRest, prev, stalls, quiet>>

\* The spot checks, each a query of its own, in any order; then the end.
Spot ==
  /\ place = "spots"
  /\ \/ /\ \E d \in Spots \ Scanned : said' = {<<"spot", d>>}
        /\ UNCHANGED place
     \/ place' = "end" /\ said' = {}
  /\ UNCHANGED <<bgRest, bgVars>>

-----------------------------------------------------------------------------
(* verify_sweep.py.                                                        *)

sweepRest == <<vars, tool, scanVars, bgVars>>

\* What a sweep forgets.
SweepOver == scanOn' = FALSE /\ left' = 0 /\ checked' = FALSE /\ point' = <<0, 0>>

\* Sweep.__init__: an FT.INFO of idx:scan that fails takes it for dropped.
SweepStart ==
  /\ tool = "sweep" /\ At("start", "S1")
  /\ Told
  /\ scanOn' \in {FALSE, indexing # "absent"}
  /\ left' = Points /\ checked' = FALSE
  /\ said' = {}
  /\ UNCHANGED <<sweepRest, point>>

\* S1: the full count is only printed; if it fails the canary is looked up.
S1 ==
  /\ place = "S1" /\ place' \in {"points", "canary"}
  /\ said' = {}
  /\ UNCHANGED <<sweepRest, sweepVars>>

CanaryLookup ==
  /\ At("canary", "points")
  /\ Say("S1", Canary \notin stored)
  /\ UNCHANGED <<sweepRest, sweepVars>>

\* A lookup of the canary or a query that fails: a failure, and the sweep ends.
SweepError ==
  /\ place \in {"canary", "points", "scan"} /\ place' = "start"
  /\ SweepOver
  /\ said' = {}
  /\ UNCHANGED sweepRest

\* make_product(randrange(workers), randrange(max_i)).
Sampled == {<<w, i>> : w \in Writer, i \in 0 .. Written - 1}

\* Mutant: a point that is not in idx:main is looked up in idx:scan as well.
PointNotSkipped ==
  /\ place = "points" /\ left > 0
  /\ left' = left - 1
  /\ \E d \in Sampled :
       /\ checked' = (checked \/ d \in stored) /\ point' = d
       /\ place' = IF scanOn THEN "scan" ELSE "points"
  /\ said' = {}
  /\ UNCHANGED <<sweepRest, scanOn>>

\* n_main of a point; one that is not found is skipped.
Point ==
  /\ place = "points" /\ left > 0
  /\ left' = left - 1
  /\ \E d \in Sampled :
       IF d \in stored
       THEN /\ checked' = TRUE /\ point' = d
            /\ place' = IF scanOn THEN "scan" ELSE "points"
       ELSE UNCHANGED <<checked, point, place>>
  /\ said' = {}
  /\ UNCHANGED <<sweepRest, scanOn>>

\* n_scan of the point.
PointScan ==
  /\ At("scan", "points")
  /\ Say("S2", point \notin Scanned)
  /\ point' = <<0, 0>>
  /\ UNCHANGED <<sweepRest, scanOn, left, checked>>

\* No point was found; the other checks and the end of the sweep.
SweepEnds ==
  /\ left = 0 /\ At("points", "start")
  /\ Say("blank", ~checked)
  /\ SweepOver
  /\ UNCHANGED sweepRest

-----------------------------------------------------------------------------
\* A write is in idx:scan at once, so it makes idx:scan grow.
Ingest ==
  /\ IngestNext /\ UNCHANGED stressVars
  /\ quiet' = IF stored' = stored THEN quiet ELSE 0
  /\ said' = {}
  /\ UNCHANGED <<tool, scanVars, place, prev, stalls, a1, b, sweepVars>>

SweepNext ==
  \/ Ingest
  \/ /\ tool = "stress"
     /\ CountBefore \/ CountCategory \/ CountAfter \/ Info \/ QueryError \/ Lookup
     /\ UNCHANGED toolVars
  \/ CreateScan \/ ScanDocument \/ ScanEnds
  \/ Poll \/ PollLast \/ PollError \/ FirstCount \/ ScanCounted \/ Compare \/ Spot
  \/ SweepStart \/ S1 \/ CanaryLookup \/ Point \/ PointScan
  \/ SweepError \/ SweepEnds

SweepSpec == SweepInit /\ [][SweepNext]_allVars

-----------------------------------------------------------------------------
SweepTypeOK ==
  /\ TypeOK
  /\ tool \in {"none", "stress", "bg_scan", "sweep"}
  /\ indexing \in {"absent", "yes", "no"} /\ backlog \subseteq stored
  /\ place \in {"start", "poll", "a1", "b", "a2", "spots", "end",
                "S1", "canary", "points", "scan"}
  /\ prev \in Nat /\ stalls \in 0 .. StallLimit - 1
  /\ a1 \in Nat /\ b \in Nat /\ quiet \in 0 .. StallLimit
  /\ scanOn \in BOOLEAN /\ left \in 0 .. Points /\ checked \in BOOLEAN
  /\ point \in Nat \X Nat
  /\ said \subseteq ({"stall", "bracket", "S1", "S2", "blank"} \X {<<0, 0>>})
                   \cup ({"spot"} \X Spots)

(* StallIsReal: bg_scan says that the scan made no progress only after as  *)
(* many polls, or the creation, since idx:scan last grew (stall_polls).    *)
StallIsReal ==
  [][Said("stall")' => quiet >= StallLimit]_allVars

(* CountsConverge: after the loop has seen the scan end, no write between  *)
(* the three counts lets the bracket report, without any slack.            *)
CountsConverge == ~Said("bracket")

(* BackfillNotBlamed: a document that the spot checks call a missing       *)
(* backfilled one is not in the database at all; so it is a hole of the    *)
(* ingest or not yet written, and never a document of the scan.            *)
BackfillNotBlamed == \A d \in Spots : <<"spot", d>> \in said => d \notin stored

(* BgScanFair: so what bg_scan says of counts and of documents is no fault *)
(* of the scan (the loop's end, the bracket, the spot checks).             *)
BgScanFair == CountsConverge /\ BackfillNotBlamed

(* AccusedOnlyWhileScanning: a sweep reports a document it has just found  *)
(* in idx:main as missing in idx:scan only while the scan goes on, though  *)
(* writers write and the scan may begin or end between the two counts.     *)
AccusedOnlyWhileScanning == Said("S2") => indexing = "yes"

(* AlarmsAreHoles: if the sweep finds none of its points, some writer's    *)
(* error summary is not empty, and if the canary is missing then that of   *)
(* its writer (S2's blank index, S1's canary), for a max_i known written.  *)
AlarmsAreHoles ==
  Start = 0 =>
    /\ Said("blank") => \E w \in Writer : errors[w] > 0
    /\ Said("S1") /\ Canary \in Sampled => errors[Canary[1]] > 0

(* MissesAreHoles: what I6 and the sweep do not find, of what is known to  *)
(* be written, is what a failed batch has left out.                        *)
MissesAreHoles == OnlyHolesMissed /\ AlarmsAreHoles
=============================================================================
