------------------------------ MODULE BazaarRun ------------------------------
(***************************************************************************)
(* The orchestrator of bazaar (use case 07, run.py) around the loader:     *)
(* `setup`, `load`, `mixed`, `all`, `drop` and `report`, the index fleet,  *)
(* and the statistics every worker process keeps (common.py's StatsWriter) *)
(* and a report adds up (report.py).  The workers of a mixed run are       *)
(* children of children: an interrupt of the orchestrator can leave them   *)
(* running, as orphans.                                                    *)
(***************************************************************************)
EXTENDS BazaarLoad

CONSTANTS
  Parts,     \* worker processes of a mixed run
  Verticals, \* number of indexes
  MaxOps,    \* bound: operations that a worker of a mixed run records
  MaxRuns    \* bound: commands that start workers, besides needed reloads

ASSUME RunAssumption ==
  Parts \in Nat /\ Verticals \in Nat \ {0} /\ MaxOps \in Nat /\ MaxRuns \in Nat

VARIABLES
  main,     \* what the orchestrator does
  fromAll,  \* the command is `all`: a mixed phase follows the load
  runs,     \* bound: commands that have started workers
  indexes,  \* the indexes that exist
  indexed,  \* the documents an index holds
  dropped,  \* history: indexes were dropped
  alive,    \* the running processes of mixed runs
  deaths,   \* history: processes of mixed runs that died, and interrupts
  window,   \* window[p]: operations in the open window of process p
  file,     \* file[w]: operations in the windows of w's file
  done,     \* history: done[w], the operations recorded in this run directory
  shown,    \* shown[w]: what the report counts of w
  todo,     \* the files that a running report has still to read
  hurt      \* history: writers that died or were cut off in this directory

fleetVars == <<indexes, indexed, dropped>>
statVars  == <<window, file, done, shown, todo, hurt>>
mainVars  == <<main, fromAll, runs>>
partVars  == <<alive, deaths>>
runVars   == <<vars, fleetVars, statVars, mainVars, partVars>>

\* Load workers, the workers of the running mixed run, and their orphaned
\* predecessors, which write to files of the same names.
Part == Workers .. Workers + Parts - 1
Writer == Worker \cup Part
OrphanOf(w) == w + Parts
Process == 0 .. Workers + 2 * Parts - 1
FileOf(p) == IF p \in Writer THEN p ELSE p - Parts

VerticalOf(d) == d % Verticals
Vertical == 0 .. Verticals - 1

Zeros == [w \in Writer |-> 0]

RunInit ==
  /\ Init
  /\ main = "idle" /\ fromAll = FALSE /\ runs = 0
  /\ indexes = {} /\ indexed = {} /\ dropped = FALSE
  /\ alive = {} /\ deaths = 0
  /\ window = [p \in Process |-> 0]
  /\ file = Zeros /\ done = Zeros /\ shown = Zeros
  /\ todo = {} /\ hurt = {}

-----------------------------------------------------------------------------
(* StatsWriter.                                                            *)

\* record() adds to the window and flushes it if it is old enough.
Flushed(p, n) ==
  \/ window' = [window EXCEPT ![p] = @ + n] /\ UNCHANGED file
  \/ /\ file' = [file EXCEPT ![FileOf(p)] = @ + window[p] + n]
     /\ window' = [window EXCEPT ![p] = 0]

Record(p, n) ==
  /\ Flushed(p, n)
  /\ done' = [done EXCEPT ![FileOf(p)] = @ + n]
  /\ UNCHANGED <<shown, todo, hurt>>

Close(p) ==
  /\ file' = [file EXCEPT ![FileOf(p)] = @ + window[p]]
  /\ window' = [window EXCEPT ![p] = 0]
  /\ UNCHANGED <<done, shown, todo, hurt>>

\* A process is gone without close().
Lost(p) ==
  /\ window' = [window EXCEPT ![p] = 0]
  /\ hurt' = hurt \cup {FileOf(p)}
  /\ UNCHANGED <<file, done, shown, todo>>

\* Mutant: a file is opened for writing, not for appending.
RunDirTruncates(again) ==
  IF again THEN /\ file' = Zeros
                /\ UNCHANGED <<window, done, shown, todo, hurt, alive>>
  ELSE /\ window' = [p \in Process |-> 0]
       /\ file' = Zeros /\ done' = Zeros /\ shown' = Zeros
       /\ hurt' = {} /\ alive' = {}
       /\ UNCHANGED todo

\* The run directory: a new one, or that of --run-name again, whose files are
\* appended to.  Orphans of another directory are out of sight.
RunDir(again) ==
  IF again THEN UNCHANGED <<window, file, done, shown, todo, hurt, alive>>
  ELSE /\ window' = [p \in Process |-> 0]
       /\ file' = Zeros /\ done' = Zeros /\ shown' = Zeros
       /\ hurt' = {} /\ alive' = {}
       /\ UNCHANGED todo

-----------------------------------------------------------------------------
(* The fleet.                                                              *)

\* A write of the documents D reaches the indexes that exist.
IndexWrite(D) ==
  /\ indexed' = indexed \cup {d \in D : VerticalOf(d) \in indexes}
  /\ UNCHANGED <<indexes, dropped>>

AtPrompt == main \in {"idle", "reported"}

\* Mutant: any error of FT.CREATE is taken for "already exists".
CreateIndexesLax == indexes' \in SUBSET Vertical /\ indexes \subseteq indexes'

\* create_indexes() leaves existing indexes as they are; a new one starts
\* empty (SKIPINITIALSCAN).
CreateIndexes == indexes' = Vertical

\* FT.CREATE or FT.DROPINDEX raises on the way: S are created or dropped.
SetupFail(S) ==
  /\ AtPrompt
  /\ indexes' = indexes \cup S
  /\ UNCHANGED <<vars, indexed, dropped, statVars, mainVars, partVars>>

DropIndexes(S) ==
  /\ AtPrompt
  /\ indexes' = indexes \ S
  /\ indexed' = {d \in indexed : VerticalOf(d) \notin S}
  /\ dropped' = TRUE
  /\ UNCHANGED <<vars, statVars, mainVars, partVars>>

-----------------------------------------------------------------------------
(* `load` and `all`.                                                       *)

\* cmd_setup and the start of run_load; the checkpoints are kept, whatever
\* became of the indexes.
StartLoad(all, again) ==
  /\ AtPrompt
  /\ runs < MaxRuns \/ \E i \in Worker : pc[i] = "off"
  /\ runs' = IF runs < MaxRuns THEN runs + 1 ELSE runs
  /\ CreateIndexes
  /\ RunLoad
  /\ main' = "load" /\ fromAll' = all
  /\ RunDir(again)
  /\ UNCHANGED <<indexed, dropped, deaths>>

BatchSize(i) == BatchEnd(i) - docId[i]
Loading(i) == main = "load" /\ UNCHANGED <<mainVars, partVars>>

LoadExecute(i) ==
  /\ Loading(i) /\ Execute(i)
  /\ IndexWrite(InFlight(i)) /\ Record(i, BatchSize(i))

LoadExecuteFail(i, ran) ==
  /\ Loading(i) /\ ExecuteFail(i, ran)
  /\ IndexWrite(ran) /\ Record(i, BatchSize(i))

LoadFinish(i) ==
  /\ Loading(i) /\ Finish(i)
  /\ Close(i) /\ UNCHANGED fleetVars

LoadKill(i, ran) ==
  /\ Loading(i) /\ kills + deaths < MaxKills /\ Kill(i, ran)
  /\ IndexWrite(ran) /\ Lost(i)

\* The steps of a load worker that record nothing.
LoadOther(i) ==
  /\ Loading(i)
  /\ Begin(i) \/ Send(i) \/ CkptOpen(i) \/ CkptWrite(i)
  /\ UNCHANGED <<fleetVars, statVars>>

LoadWork(i) ==
  \/ LoadOther(i)
  \/ LoadExecute(i)
  \/ \E ran \in SUBSET InFlight(i) : LoadExecuteFail(i, ran)
  \/ LoadFinish(i)

\* Mutant: waits for every worker to finish its range.
LoadOverAllDone == main = "load" /\ \A i \in Worker : pc[i] = "done"

LoadOver == main = "load" /\ \A i \in Worker : pc[i] \in {"off", "done"}

\* run_load joins its workers and does not ask how they ended.
LoadEnds ==
  /\ LoadOver /\ ~fromAll
  /\ main' = "idle"
  /\ UNCHANGED <<vars, fleetVars, statVars, fromAll, runs, partVars>>

-----------------------------------------------------------------------------
(* `mixed`.                                                                *)

\* The command `mixed` ...
StartMixed(again) ==
  /\ AtPrompt
  /\ runs < MaxRuns /\ runs' = runs + 1
  /\ fromAll' = FALSE /\ main' = "mixed"
  /\ IF again THEN /\ alive' = alive \cup Part
                   /\ UNCHANGED statVars
     ELSE /\ window' = [p \in Process |-> 0]
          /\ file' = Zeros /\ done' = Zeros /\ shown' = Zeros
          /\ hurt' = {} /\ alive' = Part
          /\ UNCHANGED todo
  /\ UNCHANGED <<vars, fleetVars, deaths>>

\* ... and the second half of `all`.
GoOnMixed ==
  /\ LoadOver /\ fromAll
  /\ main' = "mixed"
  /\ alive' = alive \cup Part
  /\ UNCHANGED <<vars, fleetVars, statVars, fromAll, runs, deaths>>

\* A worker of a mixed run does and records one operation.
Operate(p) ==
  /\ p \in alive
  /\ done[FileOf(p)] < MaxOps
  /\ Record(p, 1)
  /\ UNCHANGED <<vars, fleetVars, mainVars, partVars>>

\* Its deadline is over.
PartEnds(p) ==
  /\ p \in alive
  /\ alive' = alive \ {p}
  /\ Close(p)
  /\ UNCHANGED <<vars, fleetVars, mainVars, deaths>>

PartDies(p) ==
  /\ p \in alive
  /\ kills + deaths < MaxKills /\ deaths' = deaths + 1
  /\ alive' = alive \ {p}
  /\ Lost(p)
  /\ UNCHANGED <<vars, fleetVars, mainVars>>

ReportStarts ==
  /\ main' = "report"
  /\ todo' = Writer
  /\ shown' = Zeros

\* Mutant: joins one part only.
JoinFirst ==
  /\ main = "mixed"
  /\ Workers \notin alive
  /\ ReportStarts
  /\ UNCHANGED <<vars, fleetVars, fromAll, runs, partVars, window, file, done,
                 hurt>>

\* The parts are joined, and so are their workers.
Join ==
  /\ main = "mixed"
  /\ alive \cap Part = {}
  /\ ReportStarts
  /\ UNCHANGED <<vars, fleetVars, fromAll, runs, partVars, window, file, done,
                 hurt>>

\* KeyboardInterrupt: the parts are terminated; of their workers S go on as
\* orphans and the others were interrupted too.
Interrupt(S) ==
  /\ main = "mixed"
  /\ kills + deaths < MaxKills /\ deaths' = deaths + 1
  /\ \A p \in S : OrphanOf(p) \notin alive
  /\ alive' = (alive \ Part) \cup {OrphanOf(p) : p \in S}
  /\ window' = [p \in Process |->
                  IF p \in Part THEN 0
                  ELSE IF FileOf(p) \in S /\ p \notin Writer
                  THEN window[FileOf(p)] ELSE window[p]]
  /\ hurt' = hurt \cup (alive \cap Part)
  /\ ReportStarts
  /\ UNCHANGED <<vars, fleetVars, fromAll, runs, file, done>>

-----------------------------------------------------------------------------
(* report(): the files of the run directory one after the other.           *)

ReportCommand ==
  /\ main = "idle"
  /\ ReportStarts
  /\ UNCHANGED <<vars, fleetVars, fromAll, runs, partVars, window, file, done,
                 hurt>>

ReadFile(w) ==
  /\ main = "report" /\ w \in todo
  /\ shown' = [shown EXCEPT ![w] = file[w]]
  /\ todo' = todo \ {w}
  /\ UNCHANGED <<vars, fleetVars, mainVars, partVars, window, file, done, hurt>>

ReportEnds ==
  /\ main = "report" /\ todo = {}
  /\ main' = "reported"
  /\ UNCHANGED <<vars, fleetVars, statVars, fromAll, runs, partVars>>

-----------------------------------------------------------------------------
LoadCommandStep ==
  \/ \E all \in BOOLEAN, again \in BOOLEAN : StartLoad(all, again)
  \/ \E S \in SUBSET Vertical : SetupFail(S)
  \/ \E S \in SUBSET Vertical : DropIndexes(S)
  \/ \E i \in Worker : LoadWork(i)
  \/ \E i \in Worker, ran \in SUBSET Doc : LoadKill(i, ran)
  \/ LoadEnds

MixedStep ==
  \/ \E again \in BOOLEAN : StartMixed(again)
  \/ GoOnMixed
  \/ \E p \in Process : Operate(p)
  \/ \E p \in Process : PartEnds(p)
  \/ \E p \in Process : PartDies(p)
  \/ Join
  \/ \E S \in SUBSET (alive \cap Part) : Interrupt(S)
  \/ ReportCommand
  \/ \E w \in Writer : ReadFile(w)
  \/ ReportEnds

RunNext == LoadCommandStep \/ MixedStep

RunSpec == RunInit /\ [][RunNext]_runVars

\* Processes that can go on do, a mixed run has a duration, and a load that
\* was killed is run again ("rerun after any crash").
RunFairSpec ==
  /\ RunSpec
  /\ \A i \in Worker : WF_runVars(LoadWork(i))
  /\ WF_runVars(LoadEnds) /\ WF_runVars(GoOnMixed) /\ WF_runVars(Join)
  /\ \A p \in Process : WF_runVars(PartEnds(p))
  /\ WF_runVars(ReportEnds)
  /\ \A w \in Writer : WF_runVars(ReadFile(w))
  /\ WF_runVars(\E all \in BOOLEAN, again \in BOOLEAN : StartLoad(all, again))

-----------------------------------------------------------------------------
RunTypeOK ==
  /\ TypeOK
  /\ main \in {"idle", "load", "mixed", "report", "reported"}
  /\ fromAll \in BOOLEAN /\ runs \in 0 .. MaxRuns
  /\ indexes \subseteq Vertical /\ indexed \subseteq Doc /\ dropped \in BOOLEAN
  /\ alive \subseteq Process \ Worker /\ deaths \in Nat
  /\ window \in [Process -> Nat]
  /\ file \in [Writer -> Nat] /\ done \in [Writer -> Nat]
  /\ shown \in [Writer -> Nat]
  /\ todo \subseteq Writer /\ hurt \subseteq Writer

(* LoadSpec: under the orchestrator the loader still behaves as the        *)
(* specification of the loader alone, so what is proved of that holds here *)
(* (run_load, one session after the other).                                *)
LoadSpec == Spec

(* SearchableUnlessDropped: every document the loader has stored is in its *)
(* index, unless indexes were dropped after a load, which leaves both the  *)
(* keys and the loader's checkpoints (schema.py, "indexes must be created  *)
(* before loading"; a load that setup could not prepare does not begin).   *)
SearchableUnlessDropped == stored \subseteq indexed \/ dropped

(* ReportExact: the report that ends a run counts every operation that a   *)
(* worker has recorded in this directory, once, unless that worker died or *)
(* was cut off by an interrupt (close() before the end, the joins before   *)
(* the report, files appended to under the same --run-name).               *)
ReportExact ==
  main = "reported" => \A w \in Writer \ hurt : shown[w] = done[w]

(* NeverOverstates: whoever writes while it reads, a report never counts   *)
(* an operation twice (flush()'s reset).                                   *)
NeverOverstates == \A w \in Writer : shown[w] <= done[w]

(* ReportTrue: a report shows nothing twice, and the one that ends a run   *)
(* misses nothing but of those that died or were cut off (flush, close,    *)
(* the joins, report).                                                     *)
ReportTrue == NeverOverstates /\ ReportExact

(* ReportComes: `all` and a mixed run with a duration end in their report, *)
(* whatever died on the way (the joins of run_load and cmd_mixed).         *)
ReportComes ==
  main = "mixed" \/ (main = "load" /\ fromAll) ~> main = "reported"

Sum(w) ==
  file[w] + window[w] + (IF w \in Part THEN window[OrphanOf(w)] ELSE 0)

Tally == INSTANCE BazaarTally WITH counted <- [w \in Writer |-> Sum(w)]

(* TallySpec: the windows, files and closes of many processes implement    *)
(* one count per worker, which loses only what a worker had open when it   *)
(* died.                                                                   *)
TallySpec == Tally!Spec
=============================================================================
