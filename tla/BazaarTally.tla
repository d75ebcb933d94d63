---------------------------- MODULE BazaarTally ----------------------------
(***************************************************************************)
(* What the statistics of a bazaar run promise (use case 07, common.py and *)
(* report.py): an operation is counted once and at once, a count is lost   *)
(* only with the process that took it, and a report shows what was counted *)
(* when it looked, or less where a window was still open.                  *)
(***************************************************************************)
EXTENDS Naturals

CONSTANT Writer  \* the worker processes, each with a file of its own

VARIABLES
  counted,  \* counted[w]: the operations of w that are not lost
  shown,    \* shown[w]: what the last report says of w
  hurt      \* the workers that died or were cut off

vars == <<counted, shown, hurt>>

Zero == [w \in Writer |-> 0]

Init == counted = Zero /\ shown = Zero /\ hurt = {}

Count(w) ==
  /\ counted'[w] > counted[w]
  /\ \A v \in Writer \ {w} : counted'[v] = counted[v]
  /\ UNCHANGED <<shown, hurt>>

\* The report of an interrupted run begins at the interrupt.
Lose(W) ==
  /\ \A w \in Writer : /\ counted'[w] <= counted[w]
                       /\ w \notin W => counted'[w] = counted[w]
  /\ hurt' = hurt \cup W
  /\ shown' \in {shown, Zero}

Clear == shown' = Zero /\ UNCHANGED <<counted, hurt>>

Show(w) ==
  /\ shown'[w] <= counted[w]
  /\ shown' = [shown EXCEPT ![w] = shown'[w]]
  /\ UNCHANGED <<counted, hurt>>

NewRun == counted' = Zero /\ shown' = Zero /\ hurt' = {}

Next ==
  \/ \E w \in Writer : Count(w) \/ Show(w)
  \/ \E W \in SUBSET Writer : Lose(W)
  \/ Clear
  \/ NewRun

Spec == Init /\ [][Next]_vars
=============================================================================
