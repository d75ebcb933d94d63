----------------------------- MODULE ScaleStress -----------------------------
(***************************************************************************)
(* Query stress beside the bulk ingest (use case 01, stress_queries.py     *)
(* with the writers of ScaleIngest).  Without a mirror to compare with, a  *)
(* round makes several counts while the writers run and reports those that *)
(* no monotonic write load explains, and looks a document up that should   *)
(* have been written.  The index works here: what is reported is false,    *)
(* unless the ingest has lost the document.                                *)
(***************************************************************************)
EXTENDS ScaleIngest

CONSTANTS
  Categories, \* how many values FACET_VOCAB["category"] has
  CategoryOf, \* the one make_product gives a document
  Written     \* --written-per-worker

ASSUME StressAssumption ==
  /\ Categories \in Nat /\ Written \in Nat
  /\ CategoryOf \in [Doc -> 1 .. Categories]

VARIABLES
  at,      \* where the round is: the number of the category it counts next,
           \* or one of the places below
  before,  \* total_before
  parts,   \* sum(parts.values()) so far
  reports, \* history: the violations printed of I1 and I2
  misses   \* history: the documents I6 has reported

Idle == 0
After == Categories + 1
InfoNext == Categories + 2
LookupNext == Categories + 3

stressVars == <<at, before, parts, reports, misses>>
vars == <<ingestVars, stressVars>>

Init ==
  /\ IngestInit
  /\ at = Idle /\ before = 0 /\ parts = 0
  /\ reports = {} /\ misses = {}

Count(c) == Cardinality({d \in stored : CategoryOf[d] = c})

\* total_before.
CountBefore ==
  /\ at = Idle
  /\ before' = Cardinality(stored) /\ parts' = 0
  /\ at' = 1
  /\ UNCHANGED <<ingestVars, reports, misses>>

CountCategory ==
  /\ at \in 1 .. Categories
  /\ parts' = parts + Count(at)
  /\ at' = at + 1
  /\ UNCHANGED <<ingestVars, before, reports, misses>>

Check(inv, ok) == reports' = IF ok THEN reports ELSE reports \cup {inv}

\* Mutant: compared with total_before alone.
CountAfterExact ==
  /\ at = After
  /\ Check("I1", before = parts)
  /\ at' = InfoNext
  /\ UNCHANGED <<ingestVars, before, parts, misses>>

\* total_after, and I1.
CountAfter ==
  /\ at = After
  /\ Check("I1", before <= parts /\ parts <= Cardinality(stored))
  /\ at' = InfoNext
  /\ UNCHANGED <<ingestVars, before, parts, misses>>

\* num_docs, and I2.
Info ==
  /\ at = InfoNext
  /\ Check("I2", Cardinality(stored) >= before)
  /\ at' = LookupNext
  /\ UNCHANGED <<ingestVars, before, parts, misses>>

\* A count or FT.INFO fails: the round goes on without the comparison.
QueryError ==
  /\ at \in 1 .. InfoNext
  /\ at' = LookupNext
  /\ UNCHANGED <<ingestVars, before, parts, reports, misses>>

\* Told() is what the user knows who passes --written-per-worker.
Told == \A w \in Writer : progress[w] >= Written

\* Mutant: one document too far.
LookupBeyond ==
  /\ at = LookupNext
  /\ \/ UNCHANGED misses
     \/ \E w \in Writer, i \in 0 .. Written :
          /\ Told /\ <<w, i>> \in Doc
          /\ misses' = IF <<w, i>> \in stored THEN misses
                       ELSE misses \cup {<<w, i>>}
  /\ at' = Idle
  /\ UNCHANGED <<ingestVars, before, parts, reports>>

\* I6, when it is enabled and the query does not fail.
Lookup ==
  /\ at = LookupNext
  /\ \/ UNCHANGED misses
     \/ \E w \in Writer, i \in 0 .. Written - 1 :
          /\ Told
          /\ misses' = IF <<w, i>> \in stored THEN misses
                       ELSE misses \cup {<<w, i>>}
  /\ at' = Idle
  /\ UNCHANGED <<ingestVars, before, parts, reports>>

Next ==
  \/ IngestNext /\ UNCHANGED stressVars
  \/ CountBefore \/ CountCategory \/ CountAfter \/ Info \/ QueryError \/ Lookup

Spec == Init /\ [][Next]_vars

-----------------------------------------------------------------------------
TypeOK ==
  /\ IngestTypeOK
  /\ at \in Idle .. LookupNext
  /\ before \in Nat /\ parts \in Nat
  /\ reports \subseteq {"I1", "I2"}
  /\ misses \subseteq Writer \X Nat

(* CountsNeverAccuse: whatever the writers store between the counts of a   *)
(* round, a working index is not reported (I1's bracket, I2).              *)
CountsNeverAccuse == reports = {}

(* OnlyHolesMissed: a document reported by I6 is one of a writer whose     *)
(* error summary is not empty, if it started at 0 (I6, written).           *)
OnlyHolesMissed == Start = 0 => \A d \in misses : errors[d[1]] > 0
=============================================================================
