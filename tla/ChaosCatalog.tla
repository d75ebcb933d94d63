---------------------------- MODULE ChaosCatalog ----------------------------
(***************************************************************************)
(* What a run of the chaos mode (use case 01) promises: a catalog of its   *)
(* own products, written one product at a time and each at once, and an    *)
(* alarm that is raised only where something is wrong.                     *)
(***************************************************************************)
CONSTANTS
  Number,   \* the product numbers a run may hand out
  Content,  \* what a product may hold
  Nothing   \* no product

VARIABLES
  catalog,    \* catalog[n]: what the run has stored under number n
  alarm,      \* some check has failed
  pointAlarm, \* a check of a single product has failed
  flawed,     \* the index has misbehaved since it was created
  shared      \* or it held other documents when the run began

vars == <<catalog, alarm, pointAlarm, flawed, shared>>

Empty == [n \in Number |-> Nothing]

Init ==
  /\ catalog = Empty
  /\ ~alarm /\ ~pointAlarm /\ ~flawed /\ ~shared

\* A product is added or changed, or deleted; the server may go wrong at it.
Store(n, c) ==
  /\ catalog' = [catalog EXCEPT ![n] = c]
  /\ flawed' \in {flawed, TRUE}
  /\ UNCHANGED <<alarm, pointAlarm, shared>>

Raise ==
  /\ flawed \/ shared
  /\ alarm'
  /\ pointAlarm' \in (IF flawed THEN BOOLEAN ELSE {pointAlarm})
  /\ UNCHANGED <<catalog, flawed, shared>>

\* The run ends and forgets its catalog.
End ==
  /\ catalog' = Empty
  /\ ~alarm' /\ ~pointAlarm'
  /\ UNCHANGED <<flawed, shared>>

\* Between runs the index may be created anew and other documents be added.
Change ==
  /\ catalog = Empty /\ ~alarm /\ ~pointAlarm
  /\ flawed' \in {flawed, FALSE}
  /\ shared' \in BOOLEAN
  /\ UNCHANGED <<catalog, alarm, pointAlarm>>

Next ==
  \/ \E n \in Number, c \in Content \cup {Nothing} : Store(n, c)
  \/ Raise
  \/ End
  \/ Change

Spec == Init /\ [][Next]_vars
=============================================================================
