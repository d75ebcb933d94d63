---------------------------- MODULE MCScaleSweep ----------------------------
(* Instances of ScaleSweep, with the modules it extends, for TLC.          *)
EXTENDS ScaleSweep
MCCategoryOf == [d \in Doc |-> 1 + ((d[1] + d[2]) % 2)]
MCSpots == {<<0, 1>>}
MCCanary == <<0, 1>>

(* A state of the ingest that it can reach: writer 0 is still to run, each *)
(* of the others has ended with numbers stored.                            *)
Others(end, numbers) ==
  /\ stored = (Writer \ {0}) \X numbers
  /\ pc = [w \in Writer |-> IF w = 0 THEN "loop" ELSE end]
  /\ next = [w \in Writer |-> IF w = 0 \/ numbers = {} THEN Start ELSE End]
  /\ pipe = [w \in Writer |-> {}]
  /\ done = [w \in Writer |-> IF w = 0 \/ numbers = {} THEN 0
                              ELSE Cardinality(Whole)]
  /\ errors = [w \in Writer |-> 0]
  /\ queue = [w \in Writer |-> <<>>] /\ fails = 0
  /\ progress = done
  /\ finished = IF end = "gone" THEN Workers - 1 ELSE 0

(* Without a tool all writers run from their start.  Beside a tool the     *)
(* others have written all they had to, or were killed before they wrote.  *)
MCInit ==
  \/ SweepInit /\ tool = "none"
  \/ /\ ToolInit
     /\ at = Idle /\ before = 0 /\ parts = 0 /\ reports = {} /\ misses = {}
     /\ \/ tool \in {"stress", "sweep"} /\ Others("gone", Start .. End - 1)
        \/ tool = "bg_scan" /\ Others("killed", {})

MCSpec == MCInit /\ [][SweepNext]_allVars
=============================================================================
