---------------------------- MODULE ScaleProofs ----------------------------
(***************************************************************************)
(* The checks beside the ingest accuse no sound index, and what the ingest *)
(* shows as written is written, for every number of writers and documents  *)
(* and every batch size: first for the query stress alone (Spec), then for *)
(* all tools (SweepSpec).                                                  *)
(***************************************************************************)
EXTENDS ScaleSweep, FiniteSetTheorems, SequenceTheorems, TLAPS

-----------------------------------------------------------------------------
(* What all steps of the writers have in common: documents are only added. *)

Grows == stored \subseteq stored' /\ stored' \subseteq Doc

LEMMA WritersAdd ==
  ASSUME stored \subseteq Doc, IngestNext
  PROVE  Grows
<1>1. ASSUME NEW w \in Writer,
             \/ Fill(w) \/ Execute(w) \/ ExecuteFail(w) \/ Flush(w)
             \/ Crash(w) \/ Kill(w) \/ Receive(w)
      PROVE  UNCHANGED stored
  BY <1>1 DEF Fill, Execute, ExecuteFail, Flush, Crash, Kill, Receive
<1>2. ASSUME NEW d \in Doc, RunOne(d[1], d[2])
      PROVE  stored' = stored \cup {d}
  BY <1>2 DEF RunOne, Doc
<1>. QED BY <1>1, <1>2 DEF IngestNext, Grows

LEMMA DocFinite == IsFiniteSet(Doc)
<1>1. Workers \in Int /\ Start \in Int /\ PerWorker \in Int
  BY IngestAssumption DEF IngestAssumption, PerWorker
<1>2. IsFiniteSet(Writer)
  BY <1>1, FS_Interval DEF Writer
<1>3. IsFiniteSet(Start .. End - 1)
  BY <1>1, FS_Interval DEF End
<1>. QED BY <1>2, <1>3, FS_Product DEF Doc

\* How many documents are in S, and what a larger set has.
LEMMA SizeOf ==
  ASSUME NEW S \in SUBSET Doc
  PROVE  /\ IsFiniteSet(S) /\ Cardinality(S) \in Nat
         /\ \A T \in SUBSET S : Cardinality(T) \in Nat
                                /\ Cardinality(T) <= Cardinality(S)
<1>1. IsFiniteSet(S)
  BY DocFinite, FS_Subset
<1>. QED BY <1>1, FS_Subset, FS_CardinalityType

-----------------------------------------------------------------------------
(* The documents of a set that a round has counted when it is to count     *)
(* category c, and those it has yet to count.                              *)
Counted(S, c) == {d \in S : CategoryOf[d] < c}
Uncounted(S, c) == {d \in S : CategoryOf[d] >= c}
Of(S, c) == {d \in S : CategoryOf[d] = c}

LEMMA CategoryType ==
  /\ Categories \in Nat
  /\ \A d \in Doc : CategoryOf[d] \in 1 .. Categories
BY StressAssumption DEF StressAssumption

LEMMA Ends ==
  ASSUME NEW S \in SUBSET Doc
  PROVE  /\ Counted(S, 1) = {} /\ Uncounted(S, 1) = S
         /\ Counted(S, After) = S /\ Uncounted(S, After) = {}
BY CategoryType DEF Counted, Uncounted, After

LEMMA Splits ==
  ASSUME NEW S \in SUBSET Doc, NEW c \in 1 .. Categories
  PROVE  /\ Cardinality(Counted(S, c + 1)) =
              Cardinality(Counted(S, c)) + Cardinality(Of(S, c))
         /\ Cardinality(Uncounted(S, c)) =
              Cardinality(Of(S, c)) + Cardinality(Uncounted(S, c + 1))
<1> DEFINE A == Counted(S, c)
           B == Of(S, c)
           C == Uncounted(S, c + 1)
<1>1. /\ A \in SUBSET S /\ B \in SUBSET S /\ C \in SUBSET S
      /\ A \cap B = {} /\ B \cap C = {}
      /\ Counted(S, c + 1) = A \cup B /\ Uncounted(S, c) = B \cup C
  BY CategoryType DEF Counted, Uncounted, Of
<1>2. /\ IsFiniteSet(A) /\ IsFiniteSet(B) /\ IsFiniteSet(C)
      /\ Cardinality(A) \in Nat /\ Cardinality(B) \in Nat
      /\ Cardinality(C) \in Nat
  BY <1>1, SizeOf
<1>. HIDE DEF A, B, C
<1>3. Cardinality(A \cup B) = Cardinality(A) + Cardinality(B)
  BY <1>1, <1>2, FS_Union, FS_EmptySet
<1>4. Cardinality(B \cup C) = Cardinality(B) + Cardinality(C)
  <2>1. Cardinality(B \cup C) =
          Cardinality(B) + Cardinality(C) - Cardinality(B \cap C)
    BY <1>2, FS_Union
  <2>2. Cardinality(B \cap C) = 0
    BY <1>1, FS_EmptySet
  <2>. QED BY <1>2, <2>1, <2>2
<1>. QED BY <1>1, <1>3, <1>4 DEF A, B, C

LEMMA Monotone ==
  ASSUME NEW T \in SUBSET Doc, NEW S \in SUBSET T, NEW c \in Nat
  PROVE  /\ Cardinality(S) <= Cardinality(T)
         /\ Cardinality(Counted(S, c)) <= Cardinality(Counted(T, c))
         /\ Cardinality(Uncounted(S, c)) <= Cardinality(Uncounted(T, c))
<1>1. /\ Counted(S, c) \subseteq Counted(T, c)
      /\ Uncounted(S, c) \subseteq Uncounted(T, c)
      /\ Counted(T, c) \subseteq Doc /\ Uncounted(T, c) \subseteq Doc
  BY DEF Counted, Uncounted
<1>. QED BY <1>1, SizeOf

-----------------------------------------------------------------------------
(* The inductive invariant: what has been counted so far is in the index,  *)
(* and all that was there at the start is in the sum or still to come.     *)

Places ==
  /\ stored \subseteq Doc
  /\ at \in Idle .. LookupNext
  /\ before \in Nat /\ parts \in Nat

Bracket ==
  at \in 1 .. After =>
    /\ parts <= Cardinality(Counted(stored, at))
    /\ before <= parts + Cardinality(Uncounted(stored, at))

InfoBound == at = InfoNext => before <= Cardinality(stored)

SInv == Places /\ Bracket /\ InfoBound /\ CountsNeverAccuse

LEMMA PlaceTypes ==
  /\ Idle = 0 /\ After = Categories + 1
  /\ InfoNext = Categories + 2 /\ LookupNext = Categories + 3
BY DEF Idle, After, InfoNext, LookupNext

LEMMA InitSInv == Init => SInv
BY CategoryType, PlaceTypes
   DEF Init, IngestInit, SInv, Places, Bracket, InfoBound, CountsNeverAccuse

\* The writers act.
LEMMA WritersSInv ==
  ASSUME SInv, Grows, UNCHANGED stressVars
  PROVE  SInv'
<1>. USE DEF SInv
<1>1. Places'
  BY DEF Places, Grows, stressVars
<1>2. /\ Cardinality(stored) \in Nat /\ Cardinality(stored') \in Nat
      /\ Cardinality(stored) <= Cardinality(stored')
  BY SizeOf, Monotone DEF Places, Grows
<1>3. Bracket'
  <2> SUFFICES ASSUME at \in 1 .. After, at' = at, parts' = parts,
                      before' = before
               PROVE  /\ parts <= Cardinality(Counted(stored', at))
                      /\ before <= parts + Cardinality(Uncounted(stored', at))
    BY CategoryType, PlaceTypes DEF Bracket, stressVars, Counted, Uncounted
  <2>1. at \in Nat
    BY CategoryType, PlaceTypes
  <2>2. /\ Cardinality(Counted(stored, at)) <= Cardinality(Counted(stored', at))
        /\ Cardinality(Uncounted(stored, at)) <=
             Cardinality(Uncounted(stored', at))
    BY <2>1, Monotone DEF Places, Grows
  <2>3. /\ Cardinality(Counted(stored, at)) \in Nat
        /\ Cardinality(Uncounted(stored, at)) \in Nat
        /\ Cardinality(Counted(stored', at)) \in Nat
        /\ Cardinality(Uncounted(stored', at)) \in Nat
    BY SizeOf DEF Places, Grows, Counted, Uncounted
  <2>. QED BY <2>2, <2>3 DEF Places, Bracket
<1>4. InfoBound'
  BY <1>2 DEF InfoBound, Places, stressVars
<1>5. CountsNeverAccuse'
  BY DEF CountsNeverAccuse, stressVars
<1>. QED BY <1>1, <1>3, <1>4, <1>5

\* A step of the round that only moves it.
LEMMA MovesSInv ==
  ASSUME SInv, UNCHANGED <<stored, before, parts, reports>>,
         at' \in {Idle, LookupNext}
  PROVE  SInv'
BY CategoryType, PlaceTypes
   DEF SInv, Places, Bracket, InfoBound, CountsNeverAccuse

LEMMA CountBeforeSInv == SInv /\ CountBefore => SInv'
<1> SUFFICES ASSUME SInv, CountBefore PROVE SInv'
  OBVIOUS
<1>. USE DEF SInv
<1>1. /\ stored' = stored /\ at' = 1 /\ parts' = 0 /\ reports' = reports
      /\ before' = Cardinality(stored)
  BY DEF CountBefore, ingestVars
<1>2. stored \in SUBSET Doc /\ Cardinality(stored) \in Nat
  BY SizeOf DEF Places
<1>3. Places'
  BY <1>1, <1>2, CategoryType, PlaceTypes DEF Places
<1>4. Cardinality(Counted(stored, 1)) = 0 /\ Uncounted(stored, 1) = stored
  BY <1>2, Ends, FS_EmptySet
<1>5. Bracket'
  BY <1>1, <1>2, <1>4 DEF Bracket, Counted, Uncounted
<1>6. InfoBound' /\ CountsNeverAccuse'
  BY <1>1, CategoryType, PlaceTypes DEF InfoBound, CountsNeverAccuse
<1>. QED BY <1>3, <1>5, <1>6

LEMMA CountCategorySInv == SInv /\ CountCategory => SInv'
<1> SUFFICES ASSUME SInv, CountCategory PROVE SInv'
  OBVIOUS
<1>. USE DEF SInv
<1>1. /\ stored' = stored /\ at' = at + 1 /\ reports' = reports
      /\ parts' = parts + Cardinality(Of(stored, at)) /\ before' = before
      /\ at \in 1 .. Categories
  BY DEF CountCategory, ingestVars, Count, Of
<1>2. /\ stored \in SUBSET Doc /\ Cardinality(Of(stored, at)) \in Nat
      /\ Cardinality(Counted(stored, at)) \in Nat
      /\ Cardinality(Uncounted(stored, at + 1)) \in Nat
  BY SizeOf DEF Places, Of, Counted, Uncounted
<1>3. Places'
  BY <1>1, <1>2, CategoryType, PlaceTypes DEF Places
<1>4. /\ parts <= Cardinality(Counted(stored, at))
      /\ before <= parts + Cardinality(Uncounted(stored, at))
  BY <1>1, CategoryType, PlaceTypes DEF Bracket
<1>5. /\ parts + Cardinality(Of(stored, at)) <=
           Cardinality(Counted(stored, at + 1))
      /\ before <= parts + Cardinality(Of(stored, at))
                     + Cardinality(Uncounted(stored, at + 1))
  BY <1>1, <1>2, <1>4, Splits DEF Places
<1>6. Bracket'
  BY <1>1, <1>5 DEF Bracket, Counted, Uncounted
<1>7. InfoBound' /\ CountsNeverAccuse'
  BY <1>1, CategoryType, PlaceTypes DEF InfoBound, CountsNeverAccuse
<1>. QED BY <1>3, <1>6, <1>7

LEMMA CountAfterSInv == SInv /\ CountAfter => SInv'
<1> SUFFICES ASSUME SInv, CountAfter PROVE SInv'
  OBVIOUS
<1>. USE DEF SInv
<1>1. /\ stored' = stored /\ at = After /\ at' = InfoNext
      /\ parts' = parts /\ before' = before
  BY DEF CountAfter, ingestVars
<1>2. stored \in SUBSET Doc /\ Cardinality(stored) \in Nat
  BY SizeOf DEF Places
<1>3. Counted(stored, After) = stored /\ Cardinality(Uncounted(stored, After)) = 0
  BY <1>2, Ends, FS_EmptySet
<1>4. before <= parts /\ parts <= Cardinality(stored)
  BY <1>1, <1>3, CategoryType, PlaceTypes DEF Bracket, Places
<1>5. CountsNeverAccuse'
  BY <1>4 DEF CountAfter, Check, CountsNeverAccuse
<1>6. Places' /\ Bracket'
  BY <1>1, CategoryType, PlaceTypes DEF Places, Bracket
<1>7. InfoBound'
  BY <1>1, <1>2, <1>4 DEF InfoBound, Places
<1>. QED BY <1>5, <1>6, <1>7

LEMMA InfoSInv == SInv /\ Info => SInv'
<1> SUFFICES ASSUME SInv, Info PROVE SInv'
  OBVIOUS
<1>1. at = InfoNext /\ at' = LookupNext /\ UNCHANGED <<stored, before, parts>>
  BY DEF Info, ingestVars
<1>2. before <= Cardinality(stored)
  BY <1>1 DEF SInv, InfoBound
<1>3. stored \subseteq Doc /\ before \in Nat
  BY DEF SInv, Places
<1>4. Cardinality(stored) >= before
  BY <1>2, <1>3, SizeOf
<1>5. UNCHANGED reports
  BY <1>4 DEF Info, Check
<1>. QED BY <1>1, <1>5, MovesSInv

LEMMA NextSInv == SInv /\ [Next]_vars => SInv'
<1> SUFFICES ASSUME SInv, [Next]_vars PROVE SInv'
  OBVIOUS
<1>1. CASE IngestNext /\ UNCHANGED stressVars
  BY <1>1, WritersAdd, WritersSInv DEF SInv, Places
<1>2. CASE CountBefore
  BY <1>2, CountBeforeSInv
<1>3. CASE CountCategory
  BY <1>3, CountCategorySInv
<1>4. CASE CountAfter
  BY <1>4, CountAfterSInv
<1>5. CASE Info
  BY <1>5, InfoSInv
<1>6. CASE QueryError
  BY <1>6, MovesSInv DEF QueryError, ingestVars
<1>7. CASE Lookup
  BY <1>7, MovesSInv DEF Lookup, ingestVars
<1>8. CASE UNCHANGED vars
  <2>1. Grows /\ UNCHANGED stressVars
    BY <1>8 DEF vars, ingestVars, Grows, SInv, Places
  <2>. QED BY <2>1, WritersSInv
<1>. QED BY <1>1, <1>2, <1>3, <1>4, <1>5, <1>6, <1>7, <1>8 DEF Next

(* BracketHolds: for every number of writers, documents and categories, a  *)
(* round reports neither I1 nor I2 of an index that works (round).         *)
THEOREM BracketHolds == Spec => []CountsNeverAccuse
<1>1. SInv => CountsNeverAccuse
  BY DEF SInv
<1>. QED BY <1>1, InitSInv, NextSInv, PTL DEF Spec

-----------------------------------------------------------------------------
(* What the ingest counts.                                                 *)

Busy == {"loop", "execute", "flush"}
Message == [kind : {"progress", "error", "done", "crash"}, done : Nat]
Last(msg) == msg.kind \in {"done", "crash"}
Rest == PerWorker % Batch

\* The number up to which w has dealt with its range, written or dropped.
Top(w) == Start + done[w] + Batch * errors[w]
Landed(w) == {n \in Stored(w) : n < Top(w)}

Aligned(n) == \E q \in Nat : n = Start + Batch * q

Standing(w) ==
  /\ Top(w) <= End
  /\ pc[w] = "loop" => pipe[w] = {} /\ Top(w) = next[w] /\ Aligned(next[w])
  /\ pc[w] = "execute" => /\ Top(w) = next[w] - Batch /\ Aligned(next[w])
                          /\ pipe[w] = Top(w) .. next[w] - 1
  /\ pc[w] = "flush" => Top(w) = End - Rest /\ pipe[w] = Top(w) .. End - 1
  /\ pc[w] = "gone" => Top(w) = End - Rest

Accounts(w) ==
  /\ done[w] <= Cardinality(Landed(w))
  /\ errors[w] = 0 => Start .. Start + done[w] - 1 \subseteq Stored(w)
  /\ fails = 0 => errors[w] = 0
  /\ pc[w] = "gone" /\ fails = 0 => End - Rest .. End - 1 \subseteq Stored(w)

Messages(w) ==
  /\ progress[w] <= done[w]
  /\ \A i \in 1 .. Len(queue[w]) :
       /\ queue[w][i].done <= done[w]
       /\ Last(queue[w][i]) => i = Len(queue[w]) /\ pc[w] \in {"gone", "crashed"}

EndUnderWay(w) == \E i \in DOMAIN queue[w] : queue[w][i].kind \in {"done", "crash"}
Heard == {w \in Writer : pc[w] \in {"gone", "crashed"} /\ ~EndUnderWay(w)}

WriterInv(w) == Standing(w) /\ Accounts(w) /\ Messages(w)

IngestInv ==
  /\ IngestTypeOK
  /\ \A w \in Writer : WriterInv(w)
  /\ finished = Cardinality(Heard)

-----------------------------------------------------------------------------
LEMMA IngestNumbers ==
  /\ Workers \in Nat /\ Workers > 0 /\ Batch \in Nat /\ Batch > 0
  /\ Start \in Nat /\ PerWorker \in Nat /\ End \in Nat /\ End = Start + PerWorker
  /\ Rest \in Nat /\ Rest < Batch /\ Rest <= PerWorker
<1>1. /\ Workers \in Nat /\ Workers > 0 /\ Batch \in Nat /\ Batch > 0
      /\ Start \in Nat /\ Target \in Nat
  BY IngestAssumption DEF IngestAssumption
<1>2. PerWorker \in Nat
  BY <1>1 DEF PerWorker
<1>. HIDE DEF PerWorker
<1>3. Rest \in Nat /\ Rest < Batch
  BY <1>1, <1>2 DEF Rest
<1>4. Rest <= PerWorker
  <2>1. CASE PerWorker < Batch
    BY <1>1, <1>2, <2>1 DEF Rest
  <2>2. CASE PerWorker >= Batch
    BY <1>1, <1>2, <1>3, <2>2
  <2>. QED BY <1>1, <1>2, <2>1, <2>2
<1>. QED BY <1>1, <1>2, <1>3, <1>4 DEF End

LEMMA BatchStep ==
  ASSUME NEW m \in Nat, NEW n \in Nat, m < n
  PROVE  Batch * m + Batch <= Batch * n
<1>1. PICK c \in Nat : n = m + 1 + c
  <2>1. n - m - 1 \in Nat /\ n = m + 1 + (n - m - 1)
    OBVIOUS
  <2>. QED BY <2>1
<1>2. Batch \in Nat
  BY IngestNumbers
<1>3. Batch * n = Batch * m + Batch + Batch * c
  BY <1>1, <1>2
<1>4. Batch * c \in Nat /\ Batch * m \in Nat
  BY <1>1, <1>2
<1>. QED BY <1>2, <1>3, <1>4

\* A range whose next batch would not fit has the rest left.
LEMMA RestIsLeft ==
  ASSUME NEW n \in Start .. End, Aligned(n), n + Batch > End
  PROVE  End - n = Rest
<1>1. PICK q \in Nat : n = Start + Batch * q
  BY DEF Aligned
<1>. DEFINE k == PerWorker \div Batch
<1>2. k \in Nat /\ PerWorker = Batch * k + Rest
  BY IngestNumbers DEF Rest
<1>. HIDE DEF k
<1>3. q < k => Batch * q + Batch <= Batch * k
  BY <1>1, <1>2, BatchStep
<1>4. k < q => Batch * k + Batch <= Batch * q
  BY <1>1, <1>2, BatchStep
<1>5. Batch * q \in Nat /\ Batch * k \in Nat
  BY <1>1, <1>2, IngestNumbers
<1>6. Batch * q <= PerWorker /\ PerWorker < Batch * q + Batch
  BY <1>1, <1>5, IngestNumbers
<1>7. ~(q < k) /\ ~(k < q)
  BY <1>2, <1>3, <1>4, <1>5, <1>6, IngestNumbers
<1>8. q = k
  BY <1>1, <1>2, <1>7
<1>. QED BY <1>1, <1>2, <1>5, <1>8, IngestNumbers

LEMMA MoreBatches ==
  /\ \A e \in Nat : Batch * e \in Nat /\ Batch * (e + 1) = Batch * e + Batch
  /\ \A n : Aligned(n) => Aligned(n + Batch)
  /\ Aligned(Start)
<1>1. \A e \in Nat : Batch * e \in Nat /\ Batch * (e + 1) = Batch * e + Batch
  BY IngestNumbers
<1>2. ASSUME NEW n, Aligned(n)
      PROVE  Aligned(n + Batch)
  <2>1. PICK q \in Nat : n = Start + Batch * q
    BY <1>2 DEF Aligned
  <2>2. n + Batch = Start + Batch * (q + 1) /\ q + 1 \in Nat
    BY <1>1, <2>1, IngestNumbers
  <2>. QED BY <2>2 DEF Aligned
<1>3. Start = Start + Batch * 0
  BY IngestNumbers
<1>. QED BY <1>1, <1>2, <1>3 DEF Aligned

\* Of one writer, the types that IngestTypeOK gives it.
LEMMA WriterTypes ==
  ASSUME IngestTypeOK, NEW w \in Writer
  PROVE  /\ next[w] \in Start .. End /\ pipe[w] \subseteq Start .. End - 1
         /\ done[w] \in Nat /\ errors[w] \in Nat /\ progress[w] \in Nat
         /\ queue[w] \in Seq(Message) /\ Top(w) \in Nat /\ Start <= Top(w)
         /\ Stored(w) \subseteq Start .. End - 1 /\ fails \in Nat
<1>1. /\ next[w] \in Start .. End /\ pipe[w] \subseteq Start .. End - 1
      /\ done[w] \in Nat /\ errors[w] \in Nat /\ progress[w] \in Nat
      /\ queue[w] \in Seq(Message) /\ fails \in Nat
  BY DEF IngestTypeOK, Message
<1>2. Batch * errors[w] \in Nat
  BY <1>1, MoreBatches
<1>3. Top(w) \in Nat /\ Start <= Top(w)
  <2>. DEFINE e == Batch * errors[w]
  <2>1. Top(w) = Start + done[w] + e /\ e \in Nat
    BY <1>2 DEF Top
  <2>. HIDE DEF e
  <2>. QED BY <1>1, <2>1, IngestNumbers
<1>4. Stored(w) \subseteq Start .. End - 1
  BY DEF Stored
<1>. QED BY <1>1, <1>3, <1>4

LEMMA MessageTypes ==
  ASSUME IngestTypeOK, NEW w \in Writer, NEW i \in 1 .. Len(queue[w])
  PROVE  queue[w][i].done \in Nat
<1>1. queue[w] \in Seq(Message)
  BY WriterTypes
<1>2. queue[w][i] \in Message
  BY <1>1
<1>. QED BY <1>2 DEF Message

LEMMA NumbersFinite ==
  ASSUME NEW w
  PROVE  /\ IsFiniteSet(Stored(w)) /\ Cardinality(Stored(w)) \in Nat
         /\ \A S \in SUBSET Stored(w) :
              /\ IsFiniteSet(S) /\ Cardinality(S) \in Nat
              /\ Cardinality(S) <= Cardinality(Stored(w))
<1>1. IsFiniteSet(Start .. End - 1) /\ Stored(w) \subseteq Start .. End - 1
  BY IngestNumbers, FS_Interval DEF Stored
<1>2. IsFiniteSet(Stored(w))
  BY <1>1, FS_Subset
<1>. QED BY <1>2, FS_Subset, FS_CardinalityType

\* More stored numbers below a higher top: none of the old ones is missing.
LEMMA WrittenGrows ==
  ASSUME IngestTypeOK, NEW w \in Writer, stored \subseteq stored',
         Top(w)' \in Nat, Top(w) <= Top(w)'
  PROVE  /\ Stored(w) \subseteq Stored(w)' /\ Landed(w) \subseteq Landed(w)'
         /\ Cardinality(Landed(w)) \in Nat /\ Cardinality(Landed(w)') \in Nat
         /\ Cardinality(Landed(w)) <= Cardinality(Landed(w)')
<1>1. Top(w) \in Nat /\ Stored(w) \subseteq Start .. End - 1 /\ Start \in Nat /\ End \in Nat
  BY WriterTypes, IngestNumbers
<1>2. Stored(w) \subseteq Stored(w)' /\ Stored(w)' \subseteq Start .. End - 1
  BY DEF Stored
<1>3. Landed(w) \subseteq Landed(w)' /\ Landed(w)' \subseteq Stored(w)'
  BY <1>1, <1>2 DEF Landed
<1>4. IsFiniteSet(Start .. End - 1)
  BY <1>1, FS_Interval
<1>5. IsFiniteSet(Landed(w)')
  BY <1>2, <1>3, <1>4, FS_Subset
<1>. QED BY <1>2, <1>3, <1>5, FS_Subset, FS_CardinalityType

-----------------------------------------------------------------------------
(* Frames.                                                                 *)

SameWriter(v) ==
  /\ pc'[v] = pc[v] /\ next'[v] = next[v] /\ pipe'[v] = pipe[v]
  /\ done'[v] = done[v] /\ errors'[v] = errors[v]
  /\ queue'[v] = queue[v] /\ progress'[v] = progress[v]

\* A step of others; the server may run what v has sent.
LEMMA Unmoved ==
  ASSUME IngestTypeOK, NEW v \in Writer, WriterInv(v), SameWriter(v),
         stored \subseteq stored', fails' = 0 => fails = 0
  PROVE  WriterInv(v)'
<1>1. Top(v)' = Top(v) /\ Top(v) \in Nat
  BY WriterTypes DEF Top, SameWriter
<1>2. Standing(v)'
  BY <1>1 DEF SameWriter, WriterInv, Standing
<1>3. Accounts(v)'
  <2>1. Cardinality(Landed(v)) <= Cardinality(Landed(v)')
        /\ Stored(v) \subseteq Stored(v)'
        /\ Cardinality(Landed(v)) \in Nat /\ Cardinality(Landed(v)') \in Nat
    BY <1>1, WrittenGrows
  <2>2. done[v] \in Nat /\ done[v] <= Cardinality(Landed(v))
    BY WriterTypes DEF WriterInv, Accounts
  <2>3. done'[v] <= Cardinality(Landed(v)')
    BY <2>1, <2>2 DEF SameWriter
  <2>4. errors'[v] = 0 => Start .. Start + done'[v] - 1 \subseteq Stored(v)'
    BY <2>1 DEF SameWriter, WriterInv, Accounts
  <2>5. fails' = 0 => errors'[v] = 0
    BY DEF SameWriter, WriterInv, Accounts
  <2>6. pc'[v] = "gone" /\ fails' = 0 => End - Rest .. End - 1 \subseteq Stored(v)'
    BY <2>1 DEF SameWriter, WriterInv, Accounts
  <2>. QED BY <2>3, <2>4, <2>5, <2>6 DEF Accounts
<1>4. Messages(v)'
  BY DEF SameWriter, WriterInv, Messages
<1>. QED BY <1>2, <1>3, <1>4 DEF WriterInv

LEMMA WriterSteps ==
  ASSUME IngestInv, NEW w \in Writer, IngestTypeOK',
         \A v \in Writer \ {w} : SameWriter(v),
         stored \subseteq stored', fails' = 0 => fails = 0,
         WriterInv(w)', finished' = Cardinality(Heard')
  PROVE  IngestInv'
<1>1. \A v \in Writer \ {w} : WriterInv(v)'
  BY Unmoved DEF IngestInv
<1>. QED BY <1>1 DEF IngestInv

LEMMA HeardSame ==
  ASSUME NEW w \in Writer, \A v \in Writer \ {w} : SameWriter(v),
         w \in Heard' <=> w \in Heard
  PROVE  Heard' = Heard
BY DEF Heard, EndUnderWay, SameWriter

LEMMA EndIsLast ==
  ASSUME IngestTypeOK, NEW w \in Writer
  PROVE  /\ DOMAIN queue[w] = 1 .. Len(queue[w]) /\ Len(queue[w]) \in Nat
         /\ EndUnderWay(w) <=> \E i \in 1 .. Len(queue[w]) : Last(queue[w][i])
<1>1. queue[w] \in Seq(Message)
  BY WriterTypes
<1>. QED BY <1>1 DEF EndUnderWay, Last

LEMMA Tells ==
  ASSUME IngestTypeOK, NEW w \in Writer, NEW n \in Nat,
         NEW kind \in {"progress", "error", "done", "crash"}, Tell(kind, w, n)
  PROVE  /\ queue' \in [Writer -> Seq(Message)]
         /\ Len(queue[w]) \in Nat /\ Len(queue'[w]) = Len(queue[w]) + 1
         /\ \A i \in 1 .. Len(queue[w]) : queue'[w][i] = queue[w][i]
         /\ queue'[w][Len(queue[w]) + 1].kind = kind
         /\ queue'[w][Len(queue[w]) + 1].done = n
         /\ \A v \in Writer \ {w} : queue'[v] = queue[v]
<1>. DEFINE msg == [kind |-> kind, done |-> n]
<1>1. msg \in Message /\ msg.kind = kind /\ msg.done = n
  BY DEF Message
<1>2. queue \in [Writer -> Seq(Message)]
  BY DEF IngestTypeOK, Message
<1>3. queue' = [queue EXCEPT ![w] = Append(queue[w], msg)]
  BY DEF Tell
<1>. HIDE DEF msg
<1>4. /\ Append(queue[w], msg) \in Seq(Message)
      /\ Len(Append(queue[w], msg)) = Len(queue[w]) + 1
      /\ \A i \in 1 .. Len(queue[w]) : Append(queue[w], msg)[i] = queue[w][i]
      /\ Append(queue[w], msg)[Len(queue[w]) + 1] = msg
  BY <1>1, <1>2, AppendProperties
<1>5. queue'[w] = Append(queue[w], msg) /\ \A v \in Writer \ {w} : queue'[v] = queue[v]
  BY <1>2, <1>3
<1>6. Len(queue[w]) \in Nat
  BY <1>2
<1>. QED BY <1>1, <1>2, <1>3, <1>4, <1>5, <1>6

\* What w has told keeps its messages, if done only grows.
LEMMA TellsMore ==
  ASSUME IngestTypeOK, NEW w \in Writer, WriterInv(w), NEW n \in Nat,
         NEW kind \in {"progress", "error", "done", "crash"}, Tell(kind, w, n),
         done'[w] \in Nat, done[w] <= done'[w], n <= done'[w],
         progress' = progress, pc[w] \in Busy,
         kind \in {"done", "crash"} => pc'[w] \in {"gone", "crashed"}
  PROVE  Messages(w)'
<1>1. /\ Len(queue[w]) \in Nat /\ Len(queue'[w]) = Len(queue[w]) + 1
      /\ \A i \in 1 .. Len(queue[w]) : queue'[w][i] = queue[w][i]
      /\ queue'[w][Len(queue[w]) + 1].kind = kind
      /\ queue'[w][Len(queue[w]) + 1].done = n
  BY Tells
<1>2. progress'[w] <= done'[w]
  BY WriterTypes DEF WriterInv, Messages
<1>3. ASSUME NEW i \in 1 .. Len(queue'[w])
      PROVE  /\ queue'[w][i].done <= done'[w]
             /\ Last(queue'[w][i]) => i = Len(queue'[w]) /\ pc'[w] \in {"gone", "crashed"}
  <2>1. CASE i \in 1 .. Len(queue[w])
    <3>1. queue'[w][i] = queue[w][i] /\ queue[w][i].done <= done[w] /\ ~Last(queue[w][i])
      BY <1>1, <2>1 DEF WriterInv, Messages, Busy
    <3>2. queue[w][i].done \in Nat /\ done[w] \in Nat
      BY <2>1, WriterTypes, MessageTypes
    <3>3. queue'[w][i].done <= done'[w]
      BY <3>1, <3>2
    <3>. QED BY <3>1, <3>3
  <2>2. CASE i = Len(queue[w]) + 1
    BY <1>1, <2>2 DEF Last
  <2>. QED BY <1>1, <2>1, <2>2
<1>. QED BY <1>2, <1>3 DEF Messages

\* Without a message.
LEMMA TellsNothing ==
  ASSUME IngestTypeOK, NEW w \in Writer, WriterInv(w), queue' = queue,
         done'[w] \in Nat, done[w] <= done'[w],
         progress' = progress, pc[w] \in Busy
  PROVE  Messages(w)'
<1>1. progress'[w] <= done'[w]
  BY WriterTypes DEF WriterInv, Messages
<1>2. ASSUME NEW i \in 1 .. Len(queue[w])
      PROVE  queue[w][i].done <= done'[w] /\ ~Last(queue[w][i])
  <2>1. queue[w][i].done <= done[w] /\ ~Last(queue[w][i])
    BY DEF WriterInv, Messages, Busy
  <2>2. queue[w][i].done \in Nat /\ done[w] \in Nat
    BY WriterTypes, MessageTypes
  <2>3. queue[w][i].done <= done'[w]
    BY <2>1, <2>2
  <2>. QED BY <2>1, <2>3
<1>. QED BY <1>1, <1>2 DEF Messages

-----------------------------------------------------------------------------
(* The actions of the ingest.                                              *)

PcType == [Writer -> {"loop", "execute", "flush", "gone", "crashed", "killed"}]

\* IngestTypeOK, variable by variable.
LEMMA IngestTypes ==
  IngestTypeOK <=>
    /\ stored \subseteq Doc /\ pc \in PcType
    /\ next \in [Writer -> Start .. End]
    /\ pipe \in [Writer -> SUBSET (Start .. End - 1)]
    /\ done \in [Writer -> Nat] /\ errors \in [Writer -> Nat]
    /\ queue \in [Writer -> Seq(Message)]
    /\ progress \in [Writer -> Nat] /\ finished \in 0 .. Workers
    /\ fails \in Nat
BY DEF IngestTypeOK, PcType, Message

\* While the writer is busy and goes on, or is killed, the parent hears no end.
LEMMA StaysUnheard ==
  ASSUME NEW w \in Writer, pc[w] \in Busy, \A v \in Writer \ {w} : SameWriter(v),
         pc'[w] \notin {"gone", "crashed"}
  PROVE  Heard' = Heard
<1>1. w \notin Heard /\ w \notin Heard'
  BY DEF Heard, Busy
<1>. QED BY <1>1, HeardSame

LEMMA FillStep ==
  ASSUME IngestInv, NEW w \in Writer, Fill(w)
  PROVE  IngestInv'
<1>. DEFINE full == next[w] + Batch <= End
            upTo == IF full THEN next[w] + Batch ELSE End
<1>1. /\ pc[w] = "loop"
      /\ pipe' = [pipe EXCEPT ![w] = next[w] .. upTo - 1]
      /\ next' = [next EXCEPT ![w] = upTo]
      /\ pc' = [pc EXCEPT ![w] = IF full THEN "execute" ELSE "flush"]
      /\ UNCHANGED <<stored, done, errors, queue, progress, finished, fails>>
  BY DEF Fill, parentVars
<1>2. IngestTypeOK /\ WriterInv(w) /\ finished = Cardinality(Heard)
  BY DEF IngestInv
<1>3. next[w] \in Start .. End /\ upTo \in Start .. End /\ next[w] \in Nat
  BY <1>2, WriterTypes, IngestNumbers
<1>4. next[w] .. upTo - 1 \subseteq Start .. End - 1
  BY <1>3, IngestNumbers
<1>5. IngestTypeOK'
  <2>1. pc' \in PcType
    BY <1>1, <1>2, IngestTypes DEF PcType
  <2>2. next' \in [Writer -> Start .. End]
    BY <1>1, <1>2, <1>3, IngestTypes
  <2>3. pipe' \in [Writer -> SUBSET (Start .. End - 1)]
    BY <1>1, <1>2, <1>4, IngestTypes
  <2>. QED BY <1>1, <1>2, <2>1, <2>2, <2>3, IngestTypes DEF IngestTypeOK, PcType, Message
<1>6. /\ pc'[w] = IF full THEN "execute" ELSE "flush"
      /\ next'[w] = upTo /\ pipe'[w] = next[w] .. upTo - 1
      /\ \A v \in Writer \ {w} : SameWriter(v)
  BY <1>1, <1>2, IngestTypes DEF SameWriter, PcType
<1>7. Top(w)' = Top(w) /\ Top(w) = next[w] /\ Aligned(next[w]) /\ Top(w) <= End
  BY <1>1, <1>2 DEF Top, WriterInv, Standing
<1>8. Standing(w)'
  <2>1. CASE full
    <3>1. Aligned(upTo) /\ Top(w) = upTo - Batch
      BY <1>3, <1>7, <2>1, MoreBatches, IngestNumbers
    <3>. QED BY <1>6, <1>7, <2>1, <3>1 DEF Standing, Aligned
  <2>2. CASE ~full
    <3>1. End - next[w] = Rest
      BY <1>3, <1>7, <2>2, RestIsLeft, IngestNumbers
    <3>2. Top(w) = End - Rest
      BY <1>3, <1>7, <3>1, IngestNumbers
    <3>. QED BY <1>6, <1>7, <2>2, <3>2 DEF Standing, End, Rest, PerWorker
  <2>. QED BY <2>1, <2>2
<1>9. Accounts(w)'
  <2>1. Landed(w)' = Landed(w) /\ Stored(w)' = Stored(w)
    BY <1>1, <1>7 DEF Landed, Stored
  <2>. QED BY <1>1, <1>2, <1>6, <2>1 DEF WriterInv, Accounts
<1>10. Messages(w)'
  <2>1. done'[w] \in Nat /\ done[w] <= done'[w]
    BY <1>1, <1>2, WriterTypes
  <2>. QED BY <1>1, <1>2, <2>1, TellsNothing DEF Busy
<1>11. Heard' = Heard
  BY <1>1, <1>6, StaysUnheard DEF Busy
<1>. QED BY <1>1, <1>2, <1>5, <1>6, <1>8, <1>9, <1>10, <1>11, WriterSteps DEF WriterInv

\* The end of a batch, written or dropped.
LEMMA BatchEnds ==
  ASSUME IngestTypeOK, NEW w \in Writer, Standing(w), pc[w] = "execute",
         pc'[w] = "loop", pipe'[w] = {}, next'[w] = next[w],
         Top(w)' = Top(w) + Batch
  PROVE  /\ Standing(w)' /\ Top(w)' = next[w] /\ Top(w)' \in Nat /\ Top(w) <= Top(w)'
         /\ pipe[w] = Top(w) .. Top(w)' - 1
<1>1. /\ next[w] \in Start .. End /\ Top(w) \in Nat
      /\ Top(w) = next[w] - Batch /\ Aligned(next[w])
      /\ pipe[w] = Top(w) .. next[w] - 1
  BY WriterTypes DEF Standing
<1>2. Top(w)' = next[w]
  BY <1>1, IngestNumbers
<1>3. Top(w)' \in Nat /\ Top(w) <= Top(w)' /\ Top(w)' <= End
  BY <1>1, <1>2, IngestNumbers
<1>4. Standing(w)'
  BY <1>1, <1>2, <1>3 DEF Standing, Aligned, End, PerWorker
<1>. QED BY <1>1, <1>2, <1>3, <1>4

LEMMA ExecuteStep ==
  ASSUME IngestInv, NEW w \in Writer, Execute(w)
  PROVE  IngestInv'
<1>1. /\ pc[w] = "execute" /\ pipe[w] \subseteq Stored(w)
      /\ done' = [done EXCEPT ![w] = @ + Batch]
      /\ pipe' = [pipe EXCEPT ![w] = {}]
      /\ pc' = [pc EXCEPT ![w] = "loop"]
      /\ queue' = queue \/ Tell("progress", w, done'[w])
      /\ UNCHANGED <<stored, next, errors, progress, finished, fails>>
  BY DEF Execute, parentVars
<1>2. IngestTypeOK /\ WriterInv(w) /\ finished = Cardinality(Heard)
  BY DEF IngestInv
<1>3. /\ pc'[w] = "loop" /\ pipe'[w] = {} /\ next'[w] = next[w]
      /\ done'[w] = done[w] + Batch /\ errors'[w] = errors[w]
  BY <1>1, <1>2, IngestTypes DEF PcType
<1>4. done[w] \in Nat /\ done'[w] \in Nat /\ done[w] <= done'[w] /\ errors[w] \in Nat
  BY <1>2, <1>3, WriterTypes, IngestNumbers
<1>5. /\ queue' \in [Writer -> Seq(Message)]
      /\ \A v \in Writer \ {w} : queue'[v] = queue[v]
  BY <1>1, <1>2, <1>4, Tells, IngestTypes
<1>6. IngestTypeOK'
  <2>1. pc' \in PcType
    BY <1>1, <1>2, IngestTypes DEF PcType
  <2>2. pipe' \in [Writer -> SUBSET (Start .. End - 1)] /\ done' \in [Writer -> Nat]
    BY <1>1, <1>2, <1>4, IngestTypes, IngestNumbers
  <2>. QED
    BY <1>1, <1>2, <1>5, <2>1, <2>2, IngestTypes DEF IngestTypeOK, PcType, Message
<1>7. \A v \in Writer \ {w} : SameWriter(v)
  BY <1>1, <1>2, <1>5, IngestTypes DEF SameWriter, PcType
<1>8. Top(w)' = Top(w) + Batch
  <2>. DEFINE e == Batch * errors[w]
  <2>1. e \in Nat
    BY <1>4, MoreBatches
  <2>2. Top(w) = Start + done[w] + e /\ Top(w)' = Start + (done[w] + Batch) + e
    BY <1>3 DEF Top
  <2>. HIDE DEF e
  <2>. QED BY <1>4, <2>1, <2>2, IngestNumbers
<1>9. /\ Standing(w)' /\ Top(w)' = next[w] /\ Top(w)' \in Nat /\ Top(w) <= Top(w)'
      /\ pipe[w] = Top(w) .. Top(w)' - 1
  BY <1>1, <1>2, <1>3, <1>8, BatchEnds DEF WriterInv
<1>10. Accounts(w)'
  <2>1. /\ done[w] <= Cardinality(Landed(w)) /\ (fails = 0 => errors[w] = 0)
        /\ errors[w] = 0 => Start .. Start + done[w] - 1 \subseteq Stored(w)
    BY <1>2 DEF WriterInv, Accounts
  <2>2. Stored(w)' = Stored(w) /\ Stored(w) \subseteq Nat /\ Top(w) \in Nat
    BY <1>1, <1>2, WriterTypes, IngestNumbers DEF Stored
  <2>3. Landed(w)' = Landed(w) \cup pipe[w] /\ Landed(w) \cap pipe[w] = {}
    BY <1>1, <1>9, <2>2 DEF Landed
  <2>4. IsFiniteSet(Landed(w)) /\ Cardinality(Landed(w)) \in Nat
    BY NumbersFinite DEF Landed
  <2>5. IsFiniteSet(pipe[w]) /\ Cardinality(pipe[w]) = Batch
    <3>. DEFINE lo == Top(w)  hi == Top(w) + Batch - 1
    <3>1. lo \in Int /\ hi \in Int /\ ~(lo > hi) /\ hi - lo + 1 = Batch
      BY <2>2, IngestNumbers
    <3>2. pipe[w] = lo .. hi
      <4>1. Top(w)' - 1 = hi
        BY <1>8, <1>9, <2>2, IngestNumbers
      <4>. QED BY <1>9, <4>1
    <3>. HIDE DEF lo, hi
    <3>. QED BY <3>1, <3>2, FS_Interval
  <2>6. Cardinality(Landed(w)') = Cardinality(Landed(w)) + Batch
    <3>1. Cardinality(Landed(w) \cap pipe[w]) = 0
      BY <2>3, FS_EmptySet
    <3>2. Cardinality(Landed(w) \cup pipe[w]) = Cardinality(Landed(w)) + Batch - 0
      BY <2>4, <2>5, <3>1, FS_Union
    <3>. QED BY <2>3, <2>4, <3>2, IngestNumbers
  <2>7. done'[w] <= Cardinality(Landed(w)')
    BY <1>3, <1>4, <2>1, <2>4, <2>6, IngestNumbers
  <2>8. errors[w] = 0 => Start .. Start + done'[w] - 1 \subseteq Stored(w)'
    <3>. SUFFICES ASSUME errors[w] = 0, NEW n \in Start .. Start + done'[w] - 1
                  PROVE  n \in Stored(w)
      BY <2>2
    <3>1. Batch * errors[w] = 0
      BY IngestNumbers
    <3>2. Top(w) = Start + done[w]
      BY <1>4, <3>1, IngestNumbers DEF Top
    <3>3. CASE n < Top(w)
      BY <1>4, <2>1, <2>2, <3>2, <3>3, IngestNumbers
    <3>4. CASE n >= Top(w)
      BY <1>1, <1>3, <1>4, <1>8, <1>9, <2>2, <3>2, <3>4, IngestNumbers
    <3>. QED BY <2>2, <3>3, <3>4, IngestNumbers
  <2>. QED BY <1>1, <1>3, <2>1, <2>7, <2>8 DEF Accounts
<1>11. Messages(w)'
  <2>1. CASE queue' = queue
    BY <1>1, <1>2, <1>4, <2>1, TellsNothing DEF Busy
  <2>2. CASE Tell("progress", w, done'[w])
    <3>1. done'[w] <= done'[w]
      BY <1>4
    <3>. QED BY <1>1, <1>2, <1>4, <2>2, <3>1, TellsMore DEF Busy
  <2>. QED BY <1>1, <2>1, <2>2
<1>12. Heard' = Heard
  BY <1>1, <1>3, <1>7, StaysUnheard DEF Busy
<1>. QED BY <1>1, <1>2, <1>6, <1>7, <1>9, <1>10, <1>11, <1>12, WriterSteps DEF WriterInv

LEMMA ExecuteFailStep ==
  ASSUME IngestInv, NEW w \in Writer, ExecuteFail(w)
  PROVE  IngestInv'
<1>1. /\ pc[w] = "execute" /\ fails' = fails + 1
      /\ errors' = [errors EXCEPT ![w] = @ + 1]
      /\ pipe' = [pipe EXCEPT ![w] = {}]
      /\ pc' = [pc EXCEPT ![w] = "loop"]
      /\ Tell("error", w, done[w]) \/ queue' = queue
      /\ UNCHANGED <<stored, next, done, progress, finished>>
  BY DEF ExecuteFail, parentVars
<1>2. IngestTypeOK /\ WriterInv(w) /\ finished = Cardinality(Heard)
  BY DEF IngestInv
<1>3. /\ pc'[w] = "loop" /\ pipe'[w] = {} /\ next'[w] = next[w]
      /\ done'[w] = done[w] /\ errors'[w] = errors[w] + 1
  BY <1>1, <1>2, IngestTypes DEF PcType
<1>4. done[w] \in Nat /\ errors[w] \in Nat /\ fails \in Nat /\ done[w] <= done[w]
      /\ errors'[w] # 0 /\ fails' # 0 /\ fails' \in Nat
  BY <1>1, <1>2, <1>3, WriterTypes
<1>5. /\ queue' \in [Writer -> Seq(Message)]
      /\ \A v \in Writer \ {w} : queue'[v] = queue[v]
  BY <1>1, <1>2, <1>4, Tells, IngestTypes
<1>6. IngestTypeOK'
  <2>1. pc' \in PcType
    BY <1>1, <1>2, IngestTypes DEF PcType
  <2>2. pipe' \in [Writer -> SUBSET (Start .. End - 1)] /\ errors' \in [Writer -> Nat]
    BY <1>1, <1>2, <1>4, IngestTypes
  <2>. QED
    BY <1>1, <1>2, <1>4, <1>5, <2>1, <2>2, IngestTypes DEF IngestTypeOK, PcType, Message
<1>7. \A v \in Writer \ {w} : SameWriter(v)
  BY <1>1, <1>2, <1>5, IngestTypes DEF SameWriter, PcType
<1>8. Top(w)' = Top(w) + Batch
  <2>. DEFINE e == Batch * errors[w]
  <2>1. e \in Nat /\ Batch * (errors[w] + 1) = e + Batch
    BY <1>4, MoreBatches
  <2>2. Top(w) = Start + done[w] + e /\ Top(w)' = Start + done[w] + (e + Batch)
    BY <1>3, <2>1 DEF Top
  <2>. HIDE DEF e
  <2>. QED BY <1>4, <2>1, <2>2, IngestNumbers
<1>9. Standing(w)' /\ Top(w)' \in Nat /\ Top(w) <= Top(w)'
  BY <1>1, <1>2, <1>3, <1>8, BatchEnds DEF WriterInv
<1>10. Accounts(w)'
  <2>1. done[w] <= Cardinality(Landed(w))
    BY <1>2 DEF WriterInv, Accounts
  <2>2. Cardinality(Landed(w)) <= Cardinality(Landed(w)')
        /\ Cardinality(Landed(w)) \in Nat /\ Cardinality(Landed(w)') \in Nat
    BY <1>1, <1>2, <1>9, WrittenGrows
  <2>3. done'[w] <= Cardinality(Landed(w)')
    BY <1>3, <1>4, <2>1, <2>2
  <2>. QED BY <1>3, <1>4, <2>3 DEF Accounts
<1>11. Messages(w)'
  BY <1>1, <1>2, <1>3, <1>4, TellsNothing, TellsMore DEF Busy
<1>12. Heard' = Heard
  BY <1>1, <1>3, <1>7, StaysUnheard DEF Busy
<1>. QED BY <1>1, <1>2, <1>4, <1>6, <1>7, <1>9, <1>10, <1>11, <1>12, WriterSteps DEF WriterInv

\* A step that ends the writer, with or without a word.
LEMMA EndStep ==
  ASSUME IngestInv, NEW w \in Writer, pc[w] \in Busy,
         NEW over \in {"gone", "crashed", "killed"}, pc' = [pc EXCEPT ![w] = over],
         \/ over = "gone" /\ Tell("done", w, done[w])
         \/ over = "crashed" /\ Tell("crash", w, 0)
         \/ over = "killed" /\ \E n \in 0 .. Len(queue[w]) :
                                 queue' = [queue EXCEPT ![w] = SubSeq(@, 1, n)],
         over = "gone" => /\ pc[w] = "flush"
                          /\ pipe[w] \subseteq Stored(w) \/ fails' # 0,
         fails' \in {fails, fails + 1},
         pipe' \in [Writer -> SUBSET (Start .. End - 1)],
         \A v \in Writer \ {w} : pipe'[v] = pipe[v],
         UNCHANGED <<stored, next, done, errors, progress, finished>>
  PROVE  IngestInv'
<1>1. IngestTypeOK /\ WriterInv(w) /\ finished = Cardinality(Heard)
  BY DEF IngestInv
<1>2. /\ done[w] \in Nat /\ fails \in Nat /\ 0 <= done[w] /\ done[w] <= done[w]
      /\ queue[w] \in Seq(Message) /\ Len(queue[w]) \in Nat
  BY <1>1, WriterTypes
<1>3. pc'[w] = over /\ \A v \in Writer \ {w} : pc'[v] = pc[v]
  BY <1>1, IngestTypes DEF PcType
<1>4. fails' \in Nat /\ (fails' = 0 => fails = 0)
  BY <1>2
<1>5. ASSUME NEW n \in 0 .. Len(queue[w]), queue' = [queue EXCEPT ![w] = SubSeq(@, 1, n)]
      PROVE  /\ queue' \in [Writer -> Seq(Message)]
             /\ \A v \in Writer \ {w} : queue'[v] = queue[v]
             /\ Len(queue'[w]) = n
             /\ \A i \in 1 .. n : queue'[w][i] = queue[w][i]
  <2>. DEFINE s == SubSeq(queue[w], 1, n)
  <2>1. \A i \in 1 .. n : queue[w][i] \in Message
    BY <1>2, <1>5
  <2>2. s \in Seq(Message) /\ Len(s) = n
        /\ \A i \in 1 .. n : s[i] = queue[w][i]
    <3>1. 1 \in Int /\ n \in Int
      BY <1>2
    <3>2. /\ s \in Seq(Message) /\ Len(s) = IF 1 <= n THEN n - 1 + 1 ELSE 0
          /\ \A i \in 1 .. n - 1 + 1 : s[i] = queue[w][1 + i - 1]
      BY <2>1, <3>1, SubSeqProperties
    <3>. HIDE DEF s
    <3>. QED BY <1>2, <3>1, <3>2
  <2>3. queue' = [queue EXCEPT ![w] = s]
    BY <1>5
  <2>. HIDE DEF s
  <2>. QED BY <1>1, <2>2, <2>3, IngestTypes
<1>6. queue' \in [Writer -> Seq(Message)] /\ \A v \in Writer \ {w} : queue'[v] = queue[v]
  BY <1>1, <1>2, <1>5, Tells
<1>7. IngestTypeOK'
  <2>1. pc' \in PcType
    BY <1>1, IngestTypes DEF PcType
  <2>. QED BY <1>1, <1>4, <1>6, <2>1, IngestTypes DEF IngestTypeOK, PcType, Message
<1>8. \A v \in Writer \ {w} : SameWriter(v)
  BY <1>3, <1>6 DEF SameWriter
<1>9. Top(w)' = Top(w)
  BY DEF Top
<1>10. Standing(w)'
  BY <1>1, <1>3, <1>9 DEF WriterInv, Standing, End, Rest, PerWorker
<1>11. Accounts(w)'
  <2>1. Landed(w)' = Landed(w) /\ Stored(w)' = Stored(w)
    BY <1>9 DEF Landed, Stored
  <2>2. pc'[w] = "gone" /\ fails' = 0 => End - Rest .. End - 1 \subseteq Stored(w)
    BY <1>1, <1>3 DEF WriterInv, Standing
  <2>. QED BY <1>1, <1>4, <2>1, <2>2 DEF WriterInv, Accounts
<1>12. Messages(w)'
  <2>1. CASE over = "killed"
    <3>1. PICK n \in 0 .. Len(queue[w]) : queue' = [queue EXCEPT ![w] = SubSeq(@, 1, n)]
      BY <2>1
    <3>2. Len(queue'[w]) = n /\ \A i \in 1 .. n : queue'[w][i] = queue[w][i]
      BY <1>5, <3>1
    <3>3. \A i \in 1 .. n : queue[w][i].done <= done[w] /\ ~Last(queue[w][i])
      BY <1>1, <1>2 DEF WriterInv, Messages, Busy
    <3>4. progress[w] <= done[w]
      BY <1>1 DEF WriterInv, Messages
    <3>. QED BY <3>2, <3>3, <3>4 DEF Messages
  <2>2. CASE over = "gone" /\ Tell("done", w, done[w])
    BY <1>1, <1>2, <1>3, <2>2, TellsMore
  <2>3. CASE over = "crashed" /\ Tell("crash", w, 0)
    BY <1>1, <1>2, <1>3, <2>3, TellsMore
  <2>. QED BY <2>1, <2>2, <2>3
<1>13. Heard' = Heard
  <2>1. CASE over = "killed"
    BY <1>3, <1>8, <2>1, StaysUnheard
  <2>2. ASSUME NEW kind \in {"done", "crash"}, NEW n \in Nat, Tell(kind, w, n)
        PROVE  Heard' = Heard
    <3>1. /\ Len(queue[w]) + 1 \in 1 .. Len(queue'[w])
          /\ Last(queue'[w][Len(queue[w]) + 1])
      BY <1>1, <1>2, <2>2, Tells DEF Last
    <3>2. EndUnderWay(w)'
      <4>1. queue'[w] \in Seq(Message)
        BY <1>6
      <4>2. Len(queue[w]) + 1 \in DOMAIN queue'[w]
        BY <3>1, <4>1
      <4>. QED BY <3>1, <4>2 DEF EndUnderWay, Last
    <3>3. w \notin Heard /\ w \notin Heard'
      BY <3>2 DEF Heard, Busy
    <3>. QED BY <1>8, <3>3, HeardSame
  <2>3. CASE over = "gone" /\ Tell("done", w, done[w])
    BY <1>2, <2>2, <2>3
  <2>4. CASE over = "crashed" /\ Tell("crash", w, 0)
    BY <2>2, <2>4
  <2>. QED BY <2>1, <2>3, <2>4
<1>. QED
  BY <1>1, <1>4, <1>7, <1>8, <1>10, <1>11, <1>12, <1>13, WriterSteps DEF WriterInv

LEMMA EndingStep ==
  ASSUME IngestInv, NEW w \in Writer, Flush(w) \/ Crash(w) \/ Kill(w)
  PROVE  IngestInv'
<1>1. /\ IngestTypeOK /\ pipe \in [Writer -> SUBSET (Start .. End - 1)]
      /\ fails \in Nat
  BY IngestTypes DEF IngestInv
<1>2. CASE Flush(w)
  <2>1. /\ pc[w] = "flush" /\ Tell("done", w, done[w])
        /\ pipe' = [pipe EXCEPT ![w] = {}]
        /\ pc' = [pc EXCEPT ![w] = "gone"]
        /\ \/ pipe[w] \subseteq Stored(w) /\ fails' = fails
           \/ fails' = fails + 1
        /\ UNCHANGED <<stored, next, done, errors, progress, finished>>
    BY <1>2 DEF Flush, parentVars
  <2>2. /\ pipe' \in [Writer -> SUBSET (Start .. End - 1)]
        /\ \A v \in Writer \ {w} : pipe'[v] = pipe[v]
    BY <1>1, <2>1
  <2>3. pipe[w] \subseteq Stored(w) \/ fails' # 0
    BY <1>1, <2>1
  <2>. QED BY <2>1, <2>2, <2>3, EndStep DEF Busy
<1>3. CASE Crash(w)
  BY <1>1, <1>3, EndStep DEF Crash, Busy, parentVars
<1>4. CASE Kill(w)
  BY <1>1, <1>4, EndStep DEF Kill, Busy, parentVars
<1>. QED BY <1>2, <1>3, <1>4

LEMMA ReceiveStep ==
  ASSUME IngestInv, NEW w \in Writer, Receive(w)
  PROVE  IngestInv'
<1>. DEFINE msg == Head(queue[w])
<1>1. /\ finished < Workers /\ queue[w] # <<>>
      /\ progress' = IF msg.kind \in {"progress", "done"}
                     THEN [progress EXCEPT ![w] = msg.done] ELSE progress
      /\ finished' = IF Last(msg) THEN finished + 1 ELSE finished
      /\ queue' = [queue EXCEPT ![w] = Tail(@)]
      /\ UNCHANGED <<stored, pc, next, pipe, done, errors, fails>>
  BY DEF Receive, writerVars, Last
<1>2. IngestTypeOK /\ WriterInv(w) /\ finished = Cardinality(Heard)
  BY DEF IngestInv
<1>3. /\ queue[w] \in Seq(Message) /\ Len(queue[w]) \in Nat /\ Len(queue[w]) > 0
      /\ finished \in 0 .. Workers /\ Workers \in Nat
  BY <1>1, <1>2, WriterTypes, IngestTypes, IngestNumbers
<1>4. /\ msg \in Message /\ msg = queue[w][1]
      /\ Tail(queue[w]) \in Seq(Message) /\ Len(Tail(queue[w])) = Len(queue[w]) - 1
      /\ \A i \in 1 .. Len(queue[w]) - 1 : Tail(queue[w])[i] = queue[w][i + 1]
  <2>1. msg = queue[w][1]
    BY <1>3
  <2>. QED BY <1>1, <1>3, <2>1, HeadTailProperties
<1>5. msg.done \in Nat /\ msg.done <= done[w] /\ progress[w] <= done[w]
      /\ (Last(msg) => Len(queue[w]) = 1 /\ pc[w] \in {"gone", "crashed"})
  <2>1. 1 \in 1 .. Len(queue[w])
    BY <1>3
  <2>2. queue[w][1].done \in Nat
    BY <1>2, <2>1, MessageTypes
  <2>3. /\ queue[w][1].done <= done[w] /\ progress[w] <= done[w]
        /\ Last(queue[w][1]) => 1 = Len(queue[w]) /\ pc[w] \in {"gone", "crashed"}
    BY <1>2, <2>1 DEF WriterInv, Messages
  <2>. QED BY <1>4, <2>2, <2>3
<1>6. /\ queue' \in [Writer -> Seq(Message)] /\ progress' \in [Writer -> Nat]
      /\ queue'[w] = Tail(queue[w]) /\ progress'[w] <= done[w]
      /\ \A v \in Writer \ {w} : queue'[v] = queue[v] /\ progress'[v] = progress[v]
  <2>1. /\ queue' \in [Writer -> Seq(Message)] /\ queue'[w] = Tail(queue[w])
        /\ \A v \in Writer \ {w} : queue'[v] = queue[v]
    <3>. DEFINE t == Tail(queue[w])
    <3>1. queue' = [queue EXCEPT ![w] = t] /\ t \in Seq(Message)
      BY <1>1, <1>4
    <3>. HIDE DEF t
    <3>2. /\ queue' \in [Writer -> Seq(Message)] /\ queue'[w] = t
          /\ \A v \in Writer \ {w} : queue'[v] = queue[v]
      BY <1>2, <3>1, IngestTypes
    <3>. QED BY <3>2 DEF t
  <2>2. /\ progress' \in [Writer -> Nat] /\ progress'[w] <= done[w]
        /\ \A v \in Writer \ {w} : progress'[v] = progress[v]
    <3>. HIDE DEF msg
    <3>. QED BY <1>1, <1>2, <1>5, IngestTypes
  <2>. QED BY <2>1, <2>2
<1>7. finished' \in 0 .. Workers
  BY <1>1, <1>3
<1>8. IngestTypeOK'
  BY <1>1, <1>2, <1>6, <1>7, IngestTypes DEF IngestTypeOK, PcType, Message
<1>9. \A v \in Writer \ {w} : SameWriter(v)
  BY <1>1, <1>6 DEF SameWriter
<1>10. Top(w)' = Top(w) /\ Standing(w)'
  BY <1>1, <1>2 DEF Top, WriterInv, Standing, Aligned, End, Rest, PerWorker
<1>11. Accounts(w)'
  <2>1. Landed(w)' = Landed(w) /\ Stored(w)' = Stored(w)
    BY <1>1, <1>10 DEF Landed, Stored
  <2>. QED BY <1>1, <1>2, <2>1 DEF WriterInv, Accounts, End, Rest, PerWorker
<1>12. Messages(w)'
  <2>. SUFFICES ASSUME NEW i \in 1 .. Len(queue'[w])
                PROVE  /\ queue'[w][i].done <= done[w]
                       /\ Last(queue'[w][i]) => i = Len(queue'[w])
                                                /\ pc[w] \in {"gone", "crashed"}
    BY <1>1, <1>6 DEF Messages
  <2>1. /\ i + 1 \in 1 .. Len(queue[w]) /\ queue'[w][i] = queue[w][i + 1]
        /\ Len(queue'[w]) = Len(queue[w]) - 1
    BY <1>3, <1>4, <1>6
  <2>2. /\ queue[w][i + 1].done <= done[w]
        /\ Last(queue[w][i + 1]) => i + 1 = Len(queue[w]) /\ pc[w] \in {"gone", "crashed"}
    BY <1>2, <2>1 DEF WriterInv, Messages
  <2>. QED BY <1>3, <2>1, <2>2
<1>13. EndUnderWay(w)' <=> \E i \in 1 .. Len(queue[w]) - 1 : Last(queue[w][i + 1])
  <2>1. Len(queue'[w]) = Len(queue[w]) - 1
        /\ \A i \in 1 .. Len(queue[w]) - 1 : queue'[w][i] = queue[w][i + 1]
    BY <1>4, <1>6
  <2>2. DOMAIN queue'[w] = 1 .. Len(queue'[w])
    BY <1>6
  <2>. QED BY <2>1, <2>2 DEF EndUnderWay, Last
<1>14. EndUnderWay(w) <=> \E i \in 1 .. Len(queue[w]) : Last(queue[w][i])
  BY <1>2, EndIsLast
<1>15. finished' = Cardinality(Heard')
  <2>1. CASE Last(msg)
    <3>1. w \notin Heard /\ w \in Heard'
      BY <1>1, <1>3, <1>4, <1>5, <1>13, <1>14, <2>1 DEF Heard
    <3>2. Heard' = Heard \cup {w}
      BY <1>9, <3>1 DEF Heard, EndUnderWay, SameWriter
    <3>3. IsFiniteSet(Heard)
      <4>1. IsFiniteSet(Writer)
        BY IngestNumbers, FS_Interval DEF Writer
      <4>. QED BY <4>1, FS_Subset DEF Heard
    <3>. QED BY <1>1, <1>2, <2>1, <3>1, <3>2, <3>3, FS_AddElement
  <2>2. CASE ~Last(msg)
    <3>1. EndUnderWay(w)' <=> EndUnderWay(w)
      <4>1. ASSUME NEW i \in 1 .. Len(queue[w]), Last(queue[w][i])
            PROVE  i - 1 \in 1 .. Len(queue[w]) - 1 /\ (i - 1) + 1 = i
        BY <1>3, <1>4, <2>2, <4>1
      <4>2. \A i \in 1 .. Len(queue[w]) - 1 : i + 1 \in 1 .. Len(queue[w])
        BY <1>3
      <4>. QED BY <1>13, <1>14, <4>1, <4>2
    <3>2. w \in Heard' <=> w \in Heard
      BY <1>1, <3>1 DEF Heard
    <3>3. Heard' = Heard
      BY <1>9, <3>2, HeardSame
    <3>. QED BY <1>1, <1>2, <2>2, <3>3
  <2>. QED BY <2>1, <2>2
<1>. QED
  BY <1>1, <1>8, <1>9, <1>10, <1>11, <1>12, <1>15, WriterSteps DEF WriterInv

LEMMA RunOneStep ==
  ASSUME IngestInv, NEW d \in Doc, RunOne(d[1], d[2])
  PROVE  IngestInv'
<1>1. /\ d[1] \in Writer /\ stored' = stored \cup {d}
      /\ UNCHANGED <<pc, next, pipe, done, errors, queue, progress, finished, fails>>
  BY DEF RunOne, Doc, writerVars, parentVars
<1>2. IngestTypeOK /\ finished = Cardinality(Heard)
  BY DEF IngestInv
<1>3. IngestTypeOK'
  BY <1>1, <1>2 DEF IngestTypeOK
<1>4. \A v \in Writer : SameWriter(v)
  BY <1>1 DEF SameWriter
<1>5. WriterInv(d[1])'
  BY <1>1, <1>2, <1>4, Unmoved DEF IngestInv
<1>6. Heard' = Heard
  BY <1>1 DEF Heard, EndUnderWay
<1>. QED BY <1>1, <1>2, <1>3, <1>4, <1>5, <1>6, WriterSteps

LEMMA InitIngestInv == IngestInit => IngestInv
<1>. SUFFICES ASSUME IngestInit
              PROVE  IngestInv
  OBVIOUS
<1>1. IngestTypeOK
  BY IngestNumbers DEF IngestInit, IngestTypeOK
<1>2. ASSUME NEW w \in Writer
      PROVE  WriterInv(w)
  <2>1. /\ pc[w] = "loop" /\ pipe[w] = {} /\ next[w] = Start /\ done[w] = 0
        /\ errors[w] = 0 /\ queue[w] = <<>> /\ progress[w] = 0
    BY DEF IngestInit
  <2>2. Top(w) = Start
    BY <2>1, IngestNumbers DEF Top
  <2>3. Standing(w)
    BY <2>1, <2>2, IngestNumbers, MoreBatches DEF Standing
  <2>4. Landed(w) = {}
    BY <2>2, IngestNumbers DEF Landed, Stored
  <2>5. Accounts(w)
    BY <2>1, <2>4, IngestNumbers, FS_EmptySet DEF Accounts
  <2>6. Messages(w)
    BY <2>1 DEF Messages
  <2>. QED BY <2>3, <2>5, <2>6 DEF WriterInv
<1>3. Heard = {} /\ finished = 0
  BY DEF IngestInit, Heard
<1>. QED BY <1>1, <1>2, <1>3, FS_EmptySet DEF IngestInv

LEMMA NextIngestInv == IngestInv /\ [IngestNext]_ingestVars => IngestInv'
<1>. SUFFICES ASSUME IngestInv, [IngestNext]_ingestVars
              PROVE  IngestInv'
  OBVIOUS
<1>1. CASE \E w \in Writer : Fill(w)
  BY <1>1, FillStep
<1>2. CASE \E w \in Writer : Execute(w)
  BY <1>2, ExecuteStep
<1>3. CASE \E w \in Writer : ExecuteFail(w)
  BY <1>3, ExecuteFailStep
<1>4. CASE \E w \in Writer : Flush(w) \/ Crash(w) \/ Kill(w)
  BY <1>4, EndingStep
<1>5. CASE \E w \in Writer : Receive(w)
  BY <1>5, ReceiveStep
<1>6. CASE \E d \in Doc : RunOne(d[1], d[2])
  BY <1>6, RunOneStep
<1>7. CASE UNCHANGED ingestVars
  <2>1. UNCHANGED <<stored, pc, next, pipe, done, errors, queue, progress,
                    finished, fails>>
    BY <1>7 DEF ingestVars, writerVars, parentVars
  <2>2. IngestTypeOK' /\ Heard' = Heard
    BY <2>1 DEF IngestInv, IngestTypeOK, Heard, EndUnderWay
  <2>3. \A w \in Writer : WriterInv(w)'
    BY <2>1, Unmoved DEF IngestInv, SameWriter
  <2>. QED BY <2>1, <2>2, <2>3 DEF IngestInv
<1>. QED BY <1>1, <1>2, <1>3, <1>4, <1>5, <1>6, <1>7 DEF IngestNext

LEMMA AlwaysIngestInv == Spec => []IngestInv
<1>1. Init => IngestInv
  BY InitIngestInv DEF Init
<1>2. IngestInv /\ [Next]_vars => IngestInv'
  <2>1. [Next]_vars => [IngestNext]_ingestVars
    BY DEF Next, vars, CountBefore, CountCategory, CountAfter, Info, QueryError, Lookup
  <2>. QED BY <2>1, NextIngestInv
<1>. QED BY <1>1, <1>2, PTL DEF Spec

-----------------------------------------------------------------------------
(* What the counts of the ingest are worth.                                *)

LEMMA NothingOverstated == IngestInv => NeverOverstates
<1>. SUFFICES ASSUME IngestInv, NEW w \in Writer
              PROVE  progress[w] <= done[w] /\ done[w] <= Cardinality(Stored(w))
  BY DEF NeverOverstates
<1>1. progress[w] <= done[w] /\ done[w] <= Cardinality(Landed(w)) /\ done[w] \in Nat
  BY WriterTypes DEF IngestInv, WriterInv, Messages, Accounts
<1>2. Landed(w) \in SUBSET Stored(w)
  BY DEF Landed
<1>3. /\ Cardinality(Landed(w)) <= Cardinality(Stored(w))
      /\ Cardinality(Landed(w)) \in Nat /\ Cardinality(Stored(w)) \in Nat
  BY <1>2, NumbersFinite
<1>. QED BY <1>1, <1>3

LEMMA EveryLossCounted == IngestInv => LossIsCounted
<1>. SUFFICES ASSUME IngestInv, NEW w \in Writer, pc[w] = "gone"
              PROVE  /\ done[w] + Batch * errors[w] = Cardinality(Whole)
                     /\ errors[w] = 0 => Whole \subseteq Stored(w)
                     /\ fails = 0 => Stored(w) = Start .. End - 1
  BY DEF LossIsCounted
<1>1. /\ done[w] \in Nat /\ errors[w] \in Nat /\ Stored(w) \subseteq Start .. End - 1
      /\ Start \in Nat /\ PerWorker \in Nat /\ End = Start + PerWorker
      /\ Rest \in Nat /\ Rest <= PerWorker
  BY WriterTypes, IngestNumbers DEF IngestInv
<1>2. Whole = Start .. End - Rest - 1
  BY DEF Whole, Rest
<1>. HIDE DEF PerWorker, Rest, End, Whole
<1>3. Cardinality(Whole) = PerWorker - Rest
  <2>1. Start \in Int /\ End - Rest - 1 \in Int
    BY <1>1
  <2>2. Cardinality(Whole) = IF Start > End - Rest - 1 THEN 0
                             ELSE (End - Rest - 1) - Start + 1
    BY <1>2, <2>1, FS_Interval
  <2>. QED BY <1>1, <2>2
<1>4. Top(w) = End - Rest /\ Accounts(w)
  BY DEF IngestInv, WriterInv, Standing
<1>. DEFINE e == Batch * errors[w]
<1>5. e \in Nat /\ (errors[w] = 0 => e = 0)
  <2>1. e \in Nat
    BY <1>1, MoreBatches
  <2>2. Batch * 0 = 0
    BY IngestNumbers
  <2>. QED BY <2>1, <2>2
<1>6. Start + done[w] + e = End - Rest
  BY <1>4 DEF Top
<1>. HIDE DEF e
<1>7. done[w] + e = PerWorker - Rest
  BY <1>1, <1>5, <1>6
<1>8. errors[w] = 0 => Whole \subseteq Stored(w)
  <2>. SUFFICES ASSUME errors[w] = 0
                PROVE  Whole \subseteq Stored(w)
    OBVIOUS
  <2>1. Start + done[w] = End - Rest
    BY <1>1, <1>5, <1>6
  <2>2. Start .. Start + done[w] - 1 \subseteq Stored(w)
    BY <1>4 DEF Accounts
  <2>3. End - Rest - 1 = Start + done[w] - 1
    BY <1>1, <2>1
  <2>. QED BY <1>2, <2>2, <2>3
<1>9. fails = 0 => Stored(w) = Start .. End - 1
  <2>. SUFFICES ASSUME fails = 0
                PROVE  Start .. End - 1 \subseteq Stored(w)
    BY <1>1
  <2>1. Whole \subseteq Stored(w) /\ End - Rest .. End - 1 \subseteq Stored(w)
    BY <1>4, <1>8 DEF Accounts
  <2>2. \A n \in Start .. End - 1 : n \in Whole \/ n \in End - Rest .. End - 1
    BY <1>1, <1>2
  <2>. QED BY <2>1, <2>2
<1>. QED BY <1>3, <1>7, <1>8, <1>9 DEF e

LEMMA EveryEndIsHeard == IngestInv => ParentNotStuck
<1>. DEFINE Telling == {w \in Writer : \E i \in DOMAIN queue[w] :
                          queue[w][i].kind \in {"done", "crash"}}
<1>. SUFFICES ASSUME IngestInv, \A w \in Writer : pc[w] \in {"gone", "crashed"}
              PROVE  finished + Cardinality(Telling) = Workers
  BY DEF ParentNotStuck
<1>1. Telling = {w \in Writer : EndUnderWay(w)}
  BY DEF EndUnderWay
<1>. HIDE DEF Telling
<1>2. Heard \cup Telling = Writer /\ Heard \cap Telling = {}
  BY <1>1 DEF Heard
<1>3. IsFiniteSet(Writer) /\ Cardinality(Writer) = Workers
  <2>1. Workers \in Nat /\ Workers > 0 /\ 0 \in Int /\ Workers - 1 \in Int
    BY IngestNumbers
  <2>2. Writer = 0 .. Workers - 1
    BY DEF Writer
  <2>3. /\ IsFiniteSet(Writer)
        /\ Cardinality(Writer) = IF 0 > Workers - 1 THEN 0 ELSE Workers - 1 - 0 + 1
    BY <2>1, <2>2, FS_Interval
  <2>. QED BY <2>1, <2>3
<1>4. IsFiniteSet(Heard) /\ IsFiniteSet(Telling)
  BY <1>2, <1>3, FS_Subset
<1>5. Cardinality(Writer) =
        Cardinality(Heard) + Cardinality(Telling) - Cardinality(Heard \cap Telling)
  BY <1>2, <1>4, FS_Union
<1>6. Cardinality(Heard \cap Telling) = 0
  BY <1>2, FS_EmptySet
<1>7. Cardinality(Heard) \in Nat /\ Cardinality(Telling) \in Nat
  BY <1>4, FS_CardinalityType
<1>. QED BY <1>3, <1>5, <1>6, <1>7 DEF IngestInv

(* ShownIsStored: what the parent shows as written is in the database,     *)
(* whatever fails or is killed (done and progress of scale_ingest.py).     *)
THEOREM ShownIsStored == Spec => []NeverOverstates
BY AlwaysIngestInv, NothingOverstated, PTL

(* LossesAreCounted: what a writer that ended by itself counts as written  *)
(* and as failed accounts for all its whole batches (error_count).         *)
THEOREM LossesAreCounted == Spec => []LossIsCounted
BY AlwaysIngestInv, EveryLossCounted, PTL

(* ParentEnds: when no writer is left, and none was killed, each has been  *)
(* heard or is about to be, and the parent's loop ends (finished).         *)
THEOREM ParentEnds == Spec => []ParentNotStuck
BY AlwaysIngestInv, EveryEndIsHeard, PTL

-----------------------------------------------------------------------------
(* To the ingest and the stress the other tools are not there.             *)

LEMMA ToolsOnlyRead ==
  ASSUME \/ CreateScan \/ ScanDocument \/ ScanEnds
         \/ Poll \/ PollLast \/ PollError \/ FirstCount \/ ScanCounted
         \/ Compare \/ Spot
         \/ SweepStart \/ S1 \/ CanaryLookup \/ Point \/ PointScan
         \/ SweepError \/ SweepEnds
  PROVE  UNCHANGED vars
<1>1. CreateScan \/ ScanDocument \/ ScanEnds => UNCHANGED vars
  BY DEF CreateScan, ScanDocument, ScanEnds
<1>2. Poll \/ PollLast \/ PollError \/ FirstCount \/ ScanCounted => UNCHANGED vars
  BY DEF Poll, PollLast, PollError, FirstCount, ScanCounted, bgRest
<1>3. Compare \/ Spot => UNCHANGED vars
  BY DEF Compare, Spot, bgRest
<1>4. SweepStart \/ S1 \/ CanaryLookup \/ Point => UNCHANGED vars
  BY DEF SweepStart, S1, CanaryLookup, Point, sweepRest
<1>5. PointScan \/ SweepError \/ SweepEnds => UNCHANGED vars
  BY DEF PointScan, SweepError, SweepEnds, sweepRest
<1>. QED BY <1>1, <1>2, <1>3, <1>4, <1>5

LEMMA SweepStepStresses == [SweepNext]_allVars => [Next]_vars
<1>1. Ingest => [Next]_vars
  BY DEF Ingest, Next
<1>2. tool = "stress" /\ (CountBefore \/ CountCategory \/ CountAfter \/ Info
                          \/ QueryError \/ Lookup) => Next
  BY DEF Next
<1>. QED BY <1>1, <1>2, ToolsOnlyRead DEF SweepNext, allVars

(* SweepImplementsStress: whatever tool runs beside the ingest, it and the *)
(* query stress behave as their own specification says (the tools read).   *)
THEOREM SweepImplementsStress == SweepSpec => Spec
<1>1. SweepInit => Init
  BY DEF SweepInit
<1>. QED BY <1>1, SweepStepStresses, PTL DEF SweepSpec, Spec

(* StressBesideSweeps: a round of query stress accuses no working index    *)
(* either when other tools may run instead (round).                        *)
THEOREM StressBesideSweeps == SweepSpec => []CountsNeverAccuse
BY SweepImplementsStress, BracketHolds, PTL

(* IngestBesideSweeps: what the ingest shows and counts stays true beside  *)
(* any tool, and its parent's loop can end (progress, done, finished).     *)
THEOREM IngestBesideSweeps ==
  SweepSpec => [](NeverOverstates /\ LossIsCounted /\ ParentNotStuck)
BY SweepImplementsStress, ShownIsStored, LossesAreCounted, ParentEnds, PTL

-----------------------------------------------------------------------------
(* The tools accuse no sound index.                                        *)

ScanTypes ==
  /\ stored \subseteq Doc /\ backlog \subseteq stored
  /\ indexing \in {"absent", "yes", "no"}
  /\ indexing # "yes" => backlog = {}
  /\ prev \in Nat /\ stalls \in 0 .. StallLimit - 1
  /\ quiet \in 0 .. StallLimit
  /\ a1 \in Nat /\ b \in Nat

\* After its loop bg_scan knows the scan to be complete.
Complete == place \in {"a1", "b", "a2", "spots", "end"} => indexing = "no"

CountedSoFar ==
  /\ place = "b" => a1 <= Cardinality(stored)
  /\ place = "a2" => a1 <= b /\ b <= Cardinality(stored)

\* stall_polls counts no poll before the one since which idx:scan is as it was.
StallsSeen ==
  place = "poll" =>
    /\ prev <= Cardinality(Scanned)
    /\ Cardinality(Scanned) = prev => stalls + 1 <= quiet

PointFound ==
  /\ scanOn => indexing # "absent"
  /\ place = "scan" => point \in stored /\ indexing # "absent"

\* Nothing is known of the scan before it is there.
Fresh == indexing = "absent" => place # "poll" /\ prev = 0 /\ stalls = 0

StallSaid == Said("stall") => quiet >= StallLimit
Honest ==
  CountsConverge /\ BackfillNotBlamed /\ AccusedOnlyWhileScanning /\ StallSaid

ScanInv ==
  /\ ScanTypes /\ Complete /\ Fresh
  /\ CountedSoFar /\ StallsSeen /\ PointFound /\ Honest

LEMMA SweepConstants == StallLimit \in Nat \ {0} /\ Slack \in Nat
BY SweepAssumption DEF SweepAssumption

LEMMA Silent == said' = {} => Honest'
BY DEF Honest, CountsConverge, BackfillNotBlamed, AccusedOnlyWhileScanning, StallSaid, Said

LEMMA InitScanInv == SweepInit => ScanInv
<1> SUFFICES ASSUME SweepInit PROVE ScanInv
  OBVIOUS
<1>1. ScanTypes
  BY SweepConstants DEF SweepInit, Init, IngestInit, ToolInit, ScanTypes
<1>2. Complete /\ Fresh /\ CountedSoFar /\ StallsSeen /\ PointFound
  BY DEF SweepInit, ToolInit, Complete, Fresh, CountedSoFar, StallsSeen, PointFound
<1>3. Honest
  BY DEF SweepInit, ToolInit, Honest, CountsConverge, BackfillNotBlamed,
     AccusedOnlyWhileScanning, StallSaid, Said
<1>. QED BY <1>1, <1>2, <1>3 DEF ScanInv

\* How large the two indexes are.
LEMMA Sizes ==
  ASSUME ScanTypes
  PROVE  /\ Scanned \subseteq stored /\ Cardinality(Scanned) \in Nat
         /\ Cardinality(stored) \in Nat /\ IsFiniteSet(stored)
         /\ Cardinality(Scanned) <= Cardinality(stored)
         /\ indexing = "no" => Scanned = stored
<1>1. stored \in SUBSET Doc /\ Scanned \in SUBSET stored
  BY DEF ScanTypes, Scanned
<1>. QED BY <1>1, SizeOf DEF ScanTypes, Scanned

LEMMA GrowsMore ==
  ASSUME NEW T \in SUBSET Doc, NEW S \in SUBSET T
  PROVE  /\ Cardinality(S) \in Nat /\ Cardinality(T) \in Nat
         /\ Cardinality(S) <= Cardinality(T)
         /\ S # T => Cardinality(S) < Cardinality(T)
<1>1. IsFiniteSet(T) /\ Cardinality(T) \in Nat /\ Cardinality(S) \in Nat
      /\ Cardinality(S) <= Cardinality(T)
  BY SizeOf
<1>2. ASSUME S # T PROVE Cardinality(S) # Cardinality(T)
  BY <1>1, <1>2, FS_Subset
<1>. QED BY <1>1, <1>2

\* idx:scan may have grown, by a write or by the scan.
LEMMA GrowthScanInv ==
  ASSUME ScanInv, Grows, backlog' \subseteq backlog,
         UNCHANGED <<indexing, place, prev, stalls, a1, b, sweepVars>>,
         said' = {}, quiet' \in {0, quiet},
         Scanned' = Scanned => quiet' = quiet
  PROVE  ScanInv'
<1>1. ScanTypes
  BY DEF ScanInv
<1>2. ScanTypes'
  BY <1>1, SweepConstants DEF ScanTypes, Grows
<1>3. stored' \in SUBSET Doc /\ stored \in SUBSET stored'
  BY DEF Grows
<1>4. Scanned \in SUBSET Scanned' /\ Scanned' \in SUBSET Doc
  BY <1>3 DEF Scanned
<1>5. Cardinality(stored) <= Cardinality(stored') /\ Cardinality(stored) \in Nat
      /\ Cardinality(stored') \in Nat
  BY <1>3, GrowsMore
<1>6. /\ Cardinality(Scanned) \in Nat /\ Cardinality(Scanned') \in Nat
      /\ Cardinality(Scanned) <= Cardinality(Scanned')
      /\ Scanned # Scanned' => Cardinality(Scanned) < Cardinality(Scanned')
  BY <1>4, GrowsMore
<1>7. Complete' /\ Fresh' /\ PointFound'
  BY <1>3 DEF ScanInv, Complete, Fresh, PointFound, sweepVars
<1>8. CountedSoFar'
  BY <1>1, <1>5 DEF ScanInv, ScanTypes, CountedSoFar
<1>9. StallsSeen'
  <2>1. CASE Scanned' = Scanned
    BY <2>1 DEF ScanInv, StallsSeen
  <2>2. CASE Scanned' # Scanned
    BY <1>1, <1>6, <2>2 DEF ScanInv, ScanTypes, StallsSeen
  <2>. QED BY <2>1, <2>2
<1>. QED BY <1>2, <1>7, <1>8, <1>9, Silent DEF ScanInv

LEMMA IngestScanInv == ScanInv /\ Ingest => ScanInv'
<1> SUFFICES ASSUME ScanInv, Ingest PROVE ScanInv'
  OBVIOUS
<1>1. Grows /\ UNCHANGED <<scanVars, place, prev, stalls, a1, b, sweepVars>>
      /\ said' = {} /\ quiet' = IF stored' = stored THEN quiet ELSE 0
  BY WritersAdd DEF Ingest, ScanInv, ScanTypes
<1>2. Scanned' = Scanned => stored' = stored
  <2>1. backlog \subseteq stored /\ stored \subseteq stored' /\ backlog' = backlog
    BY <1>1 DEF ScanInv, ScanTypes, Grows, scanVars
  <2>. QED BY <2>1 DEF Scanned
<1>. QED BY <1>1, <1>2, GrowthScanInv DEF scanVars

LEMMA ScanStepsScanInv ==
  ScanInv /\ (CreateScan \/ ScanDocument \/ ScanEnds) => ScanInv'
<1>1. ASSUME ScanInv, ScanDocument PROVE ScanInv'
  <2>1. /\ UNCHANGED <<stored, indexing, place, prev, stalls, a1, b, sweepVars>>
        /\ said' = {} /\ quiet' = 0
    BY <1>1 DEF ScanDocument, vars, ingestVars
  <2>2. PICK d \in backlog : backlog' = backlog \ {d}
    BY <1>1 DEF ScanDocument
  <2>3. Grows /\ Scanned' # Scanned
    BY <1>1, <2>1, <2>2 DEF Grows, ScanInv, ScanTypes, Scanned
  <2>. QED BY <1>1, <2>1, <2>2, <2>3, GrowthScanInv
<1>2. ASSUME ScanInv, ScanEnds PROVE ScanInv'
  <2>1. /\ UNCHANGED <<stored, backlog, place, bgVars, sweepVars>>
        /\ indexing' = "no" /\ backlog = {} /\ said' = {}
    BY <1>2 DEF ScanEnds, vars, ingestVars
  <2>2. /\ ScanTypes' /\ Complete' /\ Fresh' /\ CountedSoFar' /\ PointFound'
    BY <1>2, <2>1 DEF ScanInv, ScanTypes, Complete, Fresh, CountedSoFar, PointFound,
       bgVars, sweepVars
  <2>3. StallsSeen'
    BY <1>2, <2>1 DEF ScanInv, StallsSeen, Scanned, bgVars
  <2>. QED BY <2>1, <2>2, <2>3, Silent DEF ScanInv
<1>3. ASSUME ScanInv, CreateScan PROVE ScanInv'
  <2>1. /\ UNCHANGED <<stored, prev, stalls, a1, b, sweepVars>>
        /\ indexing = "absent" /\ indexing' = "yes" /\ backlog' = stored
        /\ \/ quiet' = 1 /\ place' = "poll"
           \/ quiet' = 0 /\ place' = place
        /\ said' = {}
    BY <1>3 DEF CreateScan, vars, ingestVars
  <2>2. ScanTypes'
    BY <1>3, <2>1, SweepConstants DEF ScanInv, ScanTypes
  <2>3. Fresh' /\ CountedSoFar' /\ PointFound'
    BY <1>3, <2>1 DEF ScanInv, Fresh, CountedSoFar, PointFound, sweepVars
  <2>4. Complete'
    BY <1>3, <2>1 DEF ScanInv, Complete
  <2>5. StallsSeen'
    <3>1. CASE place' = "poll"
      <4>1. quiet' = 1 /\ prev' = 0 /\ stalls' = 0
        BY <1>3, <2>1, <3>1 DEF ScanInv, Fresh
      <4>2. Scanned' = {}
        BY <2>1 DEF Scanned
      <4>3. Cardinality({}) = 0
        BY FS_EmptySet
      <4>. QED BY <4>1, <4>2, <4>3 DEF StallsSeen
    <3>. QED BY <3>1 DEF StallsSeen
  <2>. QED BY <2>1, <2>2, <2>3, <2>4, <2>5, Silent DEF ScanInv
<1>. QED BY <1>1, <1>2, <1>3

\* The steps of bg_scan's loop.
LEMMA LoopScanInv == ScanInv /\ (Poll \/ PollLast \/ PollError) => ScanInv'
<1> SUFFICES ASSUME ScanInv, Poll \/ PollLast \/ PollError PROVE ScanInv'
  OBVIOUS
<1>1. UNCHANGED <<stored, scanVars, a1, b, sweepVars>> /\ place = "poll"
  BY DEF Poll, PollLast, PollError, bgRest, bgVars, vars, ingestVars, At
<1>2. Scanned' = Scanned /\ Cardinality(Scanned) \in Nat
  BY <1>1, Sizes DEF ScanInv, Scanned, scanVars
<1>3. PointFound'
  <2>1. place' \in {"poll", "a1"}
    BY DEF Poll, PollLast, PollError, At
  <2>. QED BY <1>1, <2>1 DEF ScanInv, PointFound, scanVars, sweepVars
<1>4. CASE Poll
  <2>1. /\ place' = "poll" /\ indexing = "yes"
        /\ stalls' = IF Stalls >= StallLimit THEN 0 ELSE Stalls
        /\ prev' = Cardinality(Scanned)
        /\ quiet' = IF quiet = StallLimit THEN quiet ELSE quiet + 1
        /\ said' \subseteq {<<"stall", <<0, 0>>>>}
    BY <1>4 DEF Poll, At, Say
  <2>2. Stalls \in Nat
    BY <1>2, SweepConstants DEF ScanInv, ScanTypes, Stalls
  <2>3. ScanTypes'
    BY <1>1, <1>2, <2>1, <2>2, SweepConstants DEF ScanInv, ScanTypes, scanVars
  <2>4. Complete' /\ Fresh' /\ CountedSoFar'
    BY <1>1, <2>1 DEF Complete, Fresh, CountedSoFar, scanVars
  <2>5. Stalls <= quiet
    BY <1>1, <1>2, SweepConstants DEF ScanInv, ScanTypes, StallsSeen, Stalls
  <2>6. stalls' + 1 <= quiet'
    BY <2>1, <2>2, <2>5, SweepConstants DEF ScanInv, ScanTypes
  <2>7. StallsSeen'
    BY <1>2, <2>1, <2>6 DEF StallsSeen
  <2>8. StallSaid'
    <3>1. CASE Stalls >= StallLimit
      BY <2>1, <2>2, <2>5, <3>1, SweepConstants DEF ScanInv, ScanTypes, StallSaid
    <3>2. CASE ~(Stalls >= StallLimit)
      BY <1>4, <3>2 DEF Poll, Say, StallSaid, Said
    <3>. QED BY <3>1, <3>2
  <2>9. Honest'
    BY <2>1, <2>8 DEF Honest, CountsConverge, BackfillNotBlamed,
       AccusedOnlyWhileScanning, Said
  <2>. QED BY <1>3, <2>3, <2>4, <2>7, <2>9 DEF ScanInv
<1>5. CASE PollLast
  <2>1. /\ place' = "a1" /\ indexing = "no" /\ said' = {}
        /\ prev' = 0 /\ stalls' = 0 /\ quiet' = 0
    BY <1>5 DEF PollLast, At, LoopOver
  <2>2. ScanTypes'
    BY <1>1, <2>1, SweepConstants DEF ScanInv, ScanTypes, scanVars
  <2>3. Complete' /\ Fresh' /\ CountedSoFar' /\ StallsSeen'
    BY <1>1, <2>1 DEF Complete, Fresh, CountedSoFar, StallsSeen, scanVars
  <2>. QED BY <1>3, <2>1, <2>2, <2>3, Silent DEF ScanInv
<1>6. CASE PollError
  <2>1. place' = "poll" /\ said' = {} /\ UNCHANGED bgVars
    BY <1>6 DEF PollError, At
  <2>2. ScanTypes' /\ Fresh' /\ StallsSeen'
    BY <1>1, <1>2, <2>1
    DEF ScanInv, ScanTypes, Fresh, StallsSeen, scanVars, bgVars
  <2>3. Complete' /\ CountedSoFar'
    BY <2>1 DEF Complete, CountedSoFar
  <2>. QED BY <1>3, <2>1, <2>2, <2>3, Silent DEF ScanInv
<1>. QED BY <1>4, <1>5, <1>6

\* The three counts: each of them can only have grown since the one before.
LEMMA CountsScanInv ==
  ScanInv /\ (FirstCount \/ ScanCounted \/ Compare) => ScanInv'
<1> SUFFICES ASSUME ScanInv, FirstCount \/ ScanCounted \/ Compare PROVE ScanInv'
  OBVIOUS
<1>1. /\ UNCHANGED <<stored, scanVars, prev, stalls, quiet, sweepVars>>
      /\ place \in {"a1", "b", "a2"} /\ place' \in {"b", "a2", "spots"}
  BY DEF FirstCount, ScanCounted, Compare, bgRest, vars, ingestVars, At
<1>2. /\ Cardinality(stored) \in Nat /\ indexing = "no" /\ Scanned = stored
      /\ Scanned' = Scanned
  BY <1>1, Sizes DEF ScanInv, Complete, Scanned, scanVars
<1>3. Complete' /\ Fresh' /\ StallsSeen' /\ PointFound'
  BY <1>1, <1>2 DEF ScanInv, Complete, Fresh, StallsSeen, PointFound, scanVars,
     sweepVars
<1>4. CASE FirstCount
  <2>1. place' = "b" /\ a1' = Cardinality(stored) /\ b' = b /\ said' = {}
    BY <1>4 DEF FirstCount, At
  <2>2. ScanTypes' /\ CountedSoFar'
    BY <1>1, <1>2, <2>1 DEF ScanInv, ScanTypes, CountedSoFar, scanVars
  <2>. QED BY <1>3, <2>1, <2>2, Silent DEF ScanInv
<1>5. CASE ScanCounted
  <2>1. /\ place = "b" /\ place' = "a2" /\ a1' = a1
        /\ b' = Cardinality(Scanned) /\ said' = {}
    BY <1>5 DEF ScanCounted, At
  <2>2. ScanTypes' /\ CountedSoFar'
    BY <1>1, <1>2, <2>1 DEF ScanInv, ScanTypes, CountedSoFar, scanVars
  <2>. QED BY <1>3, <2>1, <2>2, Silent DEF ScanInv
<1>6. CASE Compare
  <2>1. /\ place = "a2" /\ place' = "spots" /\ a1' = 0 /\ b' = 0
        /\ Say("bracket", ~(a1 <= b + Slack /\ b <= Cardinality(stored) + Slack))
    BY <1>6 DEF Compare, At
  <2>2. a1 <= b + Slack /\ b <= Cardinality(stored) + Slack
    BY <1>2, <2>1, SweepConstants DEF ScanInv, ScanTypes, CountedSoFar
  <2>3. said' = {}
    BY <2>1, <2>2 DEF Say
  <2>4. ScanTypes' /\ CountedSoFar'
    BY <1>1, <2>1 DEF ScanInv, ScanTypes, CountedSoFar, scanVars
  <2>. QED BY <1>3, <2>3, <2>4, Silent DEF ScanInv
<1>. QED BY <1>4, <1>5, <1>6

LEMMA SpotScanInv == ScanInv /\ Spot => ScanInv'
<1> SUFFICES ASSUME ScanInv, Spot PROVE ScanInv'
  OBVIOUS
<1>1. /\ UNCHANGED <<stored, scanVars, bgVars, sweepVars>>
      /\ place = "spots" /\ place' \in {"spots", "end"}
      /\ \/ said' = {}
         \/ \E d \in Spots \ Scanned : said' = {<<"spot", d>>}
  BY DEF Spot, bgRest, vars, ingestVars
<1>2. Scanned = stored
  BY <1>1, Sizes DEF ScanInv, Complete
<1>3. ScanTypes' /\ Fresh' /\ PointFound'
  BY <1>1 DEF ScanInv, ScanTypes, Fresh, PointFound, scanVars, bgVars, sweepVars
<1>4. Complete' /\ CountedSoFar' /\ StallsSeen'
  BY <1>1 DEF ScanInv, Complete, CountedSoFar, StallsSeen, scanVars
<1>5. Honest'
  <2>1. CASE said' = {}
    BY <2>1, Silent
  <2>2. CASE \E d \in Spots \ Scanned : said' = {<<"spot", d>>}
    BY <1>1, <1>2, <2>2 DEF Honest, CountsConverge, BackfillNotBlamed,
       AccusedOnlyWhileScanning, StallSaid, Said
  <2>. QED BY <1>1, <2>1, <2>2
<1>. QED BY <1>3, <1>4, <1>5 DEF ScanInv

\* The sweep: it keeps nothing but whether there is a second index and its point.
LEMMA SweepStepsScanInv ==
  ScanInv /\ (SweepStart \/ S1 \/ CanaryLookup \/ Point \/ PointScan
              \/ SweepError \/ SweepEnds) => ScanInv'
<1> SUFFICES ASSUME ScanInv,
                    SweepStart \/ S1 \/ CanaryLookup \/ Point \/ PointScan
                    \/ SweepError \/ SweepEnds
             PROVE  ScanInv'
  OBVIOUS
<1>1. /\ UNCHANGED <<stored, scanVars, bgVars>>
      /\ place' \in {"start", "S1", "canary", "points", "scan"}
  <2>1. SweepStart \/ S1 \/ CanaryLookup => UNCHANGED sweepRest
                                           /\ place' \in {"S1", "canary", "points"}
    BY DEF SweepStart, S1, CanaryLookup, At
  <2>2. Point => UNCHANGED sweepRest /\ place' \in {"points", "scan"}
    BY DEF Point
  <2>3. PointScan \/ SweepError \/ SweepEnds => UNCHANGED sweepRest
                                               /\ place' \in {"points", "start"}
    BY DEF PointScan, SweepError, SweepEnds, At
  <2>. QED BY <2>1, <2>2, <2>3 DEF sweepRest, vars, ingestVars
<1>2. ScanTypes'
  BY <1>1 DEF ScanInv, ScanTypes, scanVars, bgVars
<1>3. Complete' /\ CountedSoFar' /\ StallsSeen'
  BY <1>1 DEF Complete, CountedSoFar, StallsSeen
<1>4. Fresh'
  BY <1>1 DEF ScanInv, Fresh, scanVars, bgVars
<1>5. PointFound'
  <2>1. CASE SweepStart
    BY <1>1, <2>1 DEF SweepStart, At, PointFound, scanVars
  <2>2. CASE S1 \/ CanaryLookup
    BY <1>1, <2>2 DEF ScanInv, S1, CanaryLookup, At, PointFound, scanVars, sweepVars
  <2>3. CASE Point
    BY <1>1, <2>3 DEF ScanInv, Point, PointFound, scanVars
  <2>4. CASE PointScan
    BY <1>1, <2>4 DEF ScanInv, PointScan, At, PointFound, scanVars
  <2>5. CASE SweepError \/ SweepEnds
    BY <1>1, <2>5 DEF SweepError, SweepEnds, SweepOver, At, PointFound
  <2>. QED BY <2>1, <2>2, <2>3, <2>4, <2>5
<1>6. Honest'
  <2>1. CASE SweepStart \/ S1 \/ SweepError \/ Point
    BY <2>1, Silent DEF SweepStart, S1, SweepError, Point
  <2>2. CASE CanaryLookup \/ SweepEnds
    <3>1. said' \subseteq {<<"S1", <<0, 0>>>>, <<"blank", <<0, 0>>>>}
      BY <2>2 DEF CanaryLookup, SweepEnds, Say
    <3>. QED BY <3>1 DEF Honest, CountsConverge, BackfillNotBlamed,
                AccusedOnlyWhileScanning, StallSaid, Said
  <2>3. CASE PointScan
    <3>1. /\ said' \subseteq {<<"S2", <<0, 0>>>>} /\ place = "scan"
          /\ point \in Scanned => said' = {}
      BY <2>3 DEF PointScan, Say, At
    <3>2. indexing = "no" => said' = {}
      BY <3>1, Sizes DEF ScanInv, PointFound
    <3>. QED BY <1>1, <3>1, <3>2 DEF Honest, CountsConverge, BackfillNotBlamed,
                AccusedOnlyWhileScanning, StallSaid, Said, scanVars, ScanInv, PointFound,
                ScanTypes
  <2>. QED BY <2>1, <2>2, <2>3
<1>. QED BY <1>2, <1>3, <1>4, <1>5, <1>6 DEF ScanInv

LEMMA NextScanInv == ScanInv /\ [SweepNext]_allVars => ScanInv'
<1> SUFFICES ASSUME ScanInv, [SweepNext]_allVars PROVE ScanInv'
  OBVIOUS
<1>1. CASE UNCHANGED <<stored, toolVars>>
  <2>1. ScanTypes' /\ Complete' /\ Fresh'
    BY <1>1 DEF ScanInv, ScanTypes, Complete, Fresh, toolVars, scanVars, bgVars
  <2>2. CountedSoFar' /\ StallsSeen'
    BY <1>1 DEF ScanInv, CountedSoFar, StallsSeen, Scanned, toolVars, scanVars, bgVars
  <2>3. PointFound' /\ Honest'
    BY <1>1 DEF ScanInv, PointFound, Honest, CountsConverge, BackfillNotBlamed,
       AccusedOnlyWhileScanning, StallSaid, Said, toolVars, scanVars, bgVars, sweepVars
  <2>. QED BY <2>1, <2>2, <2>3 DEF ScanInv
<1>2. CASE /\ CountBefore \/ CountCategory \/ CountAfter \/ Info \/ QueryError \/ Lookup
           /\ UNCHANGED toolVars
  <2>1. UNCHANGED stored
    BY <1>2 DEF CountBefore, CountCategory, CountAfter, Info, QueryError, Lookup,
       ingestVars
  <2>. QED BY <1>1, <1>2, <2>1
<1>3. CASE UNCHANGED allVars
  BY <1>1, <1>3 DEF allVars, vars, ingestVars
<1>. QED
  BY <1>2, <1>3, IngestScanInv, ScanStepsScanInv, LoopScanInv, CountsScanInv,
     SpotScanInv, SweepStepsScanInv DEF SweepNext

LEMMA ScanInvAlways == SweepSpec => []ScanInv
BY InitScanInv, NextScanInv, PTL DEF SweepSpec

(* BracketBesideWrites: once it has seen the scan end, bg_scan reports no  *)
(* difference of the counts, whatever writers write between them (main).   *)
THEOREM BracketBesideWrites == SweepSpec => []CountsConverge
<1>1. ScanInv => CountsConverge
  BY DEF ScanInv, Honest
<1>. QED BY <1>1, ScanInvAlways, PTL

(* SpotsBlameNoScan: a document the spot checks call missing is not in the *)
(* database, so that no scan could have added it (main).                   *)
THEOREM SpotsBlameNoScan == SweepSpec => []BackfillNotBlamed
<1>1. ScanInv => BackfillNotBlamed
  BY DEF ScanInv, Honest
<1>. QED BY <1>1, ScanInvAlways, PTL

(* BgScanIsFair: neither its counts nor its spot checks blame a background *)
(* scan that works, with any slack (main).                                 *)
THEOREM BgScanIsFair == SweepSpec => []BgScanFair
BY BracketBesideWrites, SpotsBlameNoScan, PTL DEF BgScanFair

(* SweepAccusesRunningScans: a document in idx:main that a sweep misses in *)
(* idx:scan is one that the scan has yet to reach (Sweep.run).             *)
THEOREM SweepAccusesRunningScans == SweepSpec => []AccusedOnlyWhileScanning
<1>1. ScanInv => AccusedOnlyWhileScanning
  BY DEF ScanInv, Honest
<1>. QED BY <1>1, ScanInvAlways, PTL

(* StallsAreReal: the stall check does not report an index that has grown  *)
(* at one of its last polls (stall_polls).                                 *)
THEOREM StallsAreReal == SweepSpec => StallIsReal
<1>1. ScanInv /\ [SweepNext]_allVars => (Said("stall")' => quiet >= StallLimit)
                                       \/ UNCHANGED allVars
  <2> SUFFICES ASSUME ScanInv, SweepNext, Said("stall")' PROVE quiet >= StallLimit
    BY DEF allVars, toolVars
  <2>1. CASE Poll
    <3>1. Stalls >= StallLimit /\ place = "poll"
      BY <2>1 DEF Poll, Say, Said, At
    <3>2. Cardinality(Scanned) \in Nat
      BY Sizes DEF ScanInv
    <3>. QED BY <3>1, <3>2, SweepConstants DEF ScanInv, ScanTypes, StallsSeen, Stalls
  <2>2. CASE UNCHANGED <<said, quiet>>
    BY <2>2 DEF ScanInv, Honest, StallSaid, Said
  <2>3. said' # {}
    BY DEF Said
  <2>4. CASE \/ Ingest \/ CreateScan \/ ScanDocument \/ ScanEnds
             \/ PollLast \/ PollError \/ FirstCount \/ ScanCounted
    BY <2>3, <2>4 DEF Ingest, CreateScan, ScanDocument, ScanEnds, PollLast, PollError,
       FirstCount, ScanCounted
  <2>5. CASE Compare \/ Spot
    <3>1. \/ said' \subseteq {<<"bracket", <<0, 0>>>>}
          \/ \E d \in Spots \ Scanned : said' = {<<"spot", d>>}
      BY <2>5 DEF Compare, Spot, Say
    <3>2. CASE said' \subseteq {<<"bracket", <<0, 0>>>>}
      BY <3>2 DEF Said
    <3>3. CASE \E d \in Spots \ Scanned : said' = {<<"spot", d>>}
      <4>1. PICK d \in Spots \ Scanned : said' = {<<"spot", d>>}
        BY <3>3
      <4>. QED BY <4>1 DEF Said
    <3>. QED BY <3>1, <3>2, <3>3
  <2>6. CASE SweepStart \/ S1 \/ CanaryLookup \/ Point
    <3>1. said' \subseteq {<<"S1", <<0, 0>>>>}
      BY <2>6 DEF SweepStart, S1, CanaryLookup, Point, Say
    <3>. QED BY <3>1 DEF Said
  <2>7. CASE PointScan \/ SweepError \/ SweepEnds
    BY <2>7 DEF PointScan, SweepError, SweepEnds, Say, Said
  <2>. QED BY <2>1, <2>2, <2>4, <2>5, <2>6, <2>7 DEF SweepNext, toolVars, bgVars
<1>. QED BY <1>1, ScanInvAlways, PTL DEF SweepSpec, StallIsReal

-----------------------------------------------------------------------------
(* What is missing has been lost by the ingest.                            *)

Lossy == \E w \in Writer : errors[w] > 0

\* Told, when the tool was started; the parent's list need not be looked at again.
DoneEnough == \A w \in Writer : done[w] >= Written

Blank ==
  /\ place \in {"S1", "canary"} => left = Points
  /\ place \in {"points", "scan"} /\ left < Points /\ ~checked /\ Start = 0 => Lossy

HoleInv ==
  /\ IngestInv
  /\ misses \subseteq Writer \X Nat
  /\ OnlyHolesMissed
  /\ place \in {"S1", "canary", "points", "scan"} => DoneEnough
  /\ Blank
  /\ AlarmsAreHoles

LEMMA HoleConstants == Written \in Nat /\ Points \in Nat \ {0}
BY StressAssumption, SweepAssumption DEF StressAssumption, SweepAssumption

LEMMA ToldIsDone == IngestInv /\ Told => DoneEnough
<1>. SUFFICES ASSUME IngestInv, Told, NEW w \in Writer
              PROVE  done[w] >= Written
  BY DEF DoneEnough
<1>1. progress[w] >= Written /\ progress[w] <= done[w]
      /\ progress[w] \in Nat /\ done[w] \in Nat
  BY WriterTypes DEF Told, IngestInv, WriterInv, Messages
<1>. QED BY <1>1, HoleConstants

\* A document that is known written and is not there.
LEMMA MissingIsLost ==
  ASSUME IngestInv, DoneEnough, Start = 0, NEW w \in Writer,
         NEW i \in 0 .. Written - 1, <<w, i>> \notin stored
  PROVE  errors[w] > 0
<1>1. done[w] \in Nat /\ errors[w] \in Nat /\ done[w] >= Written
  BY WriterTypes DEF IngestInv, DoneEnough
<1>2. i \in Start .. Start + done[w] - 1
  BY <1>1, HoleConstants
<1>3. i \notin Stored(w)
  BY DEF Stored
<1>4. errors[w] # 0
  BY <1>2, <1>3 DEF IngestInv, WriterInv, Accounts
<1>. QED BY <1>1, <1>4

LEMMA CountsGrow ==
  ASSUME IngestInv, [IngestNext]_ingestVars, NEW w \in Writer
  PROVE  /\ done[w] <= done'[w] /\ done'[w] \in Nat /\ done[w] \in Nat
         /\ errors[w] > 0 => errors'[w] > 0
<1>1. /\ done \in [Writer -> Nat] /\ errors \in [Writer -> Nat]
      /\ Batch \in Nat
  BY IngestTypes, IngestNumbers DEF IngestInv
<1>2. CASE UNCHANGED <<done, errors>>
  BY <1>1, <1>2
<1>3. CASE \E v \in Writer : Execute(v)
  BY <1>1, <1>3 DEF Execute
<1>4. CASE \E v \in Writer : ExecuteFail(v)
  BY <1>1, <1>4 DEF ExecuteFail
<1>5. CASE \E v \in Writer : Fill(v) \/ Flush(v) \/ Crash(v) \/ Kill(v) \/ Receive(v)
  BY <1>2, <1>5 DEF Fill, Flush, Crash, Kill, Receive, writerVars
<1>6. CASE \E d \in Doc : RunOne(d[1], d[2])
  BY <1>2, <1>6 DEF RunOne, writerVars
<1>7. CASE UNCHANGED ingestVars
  BY <1>2, <1>7 DEF ingestVars, writerVars
<1>. QED BY <1>3, <1>4, <1>5, <1>6, <1>7 DEF IngestNext

\* The ingest goes on, whatever the tools do not see of it.
LEMMA IngestHoleInv ==
  ASSUME HoleInv, [IngestNext]_ingestVars,
         UNCHANGED <<misses, place, left, checked>>, said' = {} \/ said' = said
  PROVE  HoleInv'
<1>1. IngestInv'
  BY NextIngestInv DEF HoleInv
<1>2. \A w \in Writer : /\ done[w] >= Written => done'[w] >= Written
                        /\ errors[w] > 0 => errors'[w] > 0
  BY CountsGrow, HoleConstants DEF HoleInv
<1>3. misses' \subseteq Writer \X Nat /\ OnlyHolesMissed'
  BY <1>2 DEF HoleInv, OnlyHolesMissed
<1>4. place' \in {"S1", "canary", "points", "scan"} => DoneEnough'
  BY <1>2 DEF HoleInv, DoneEnough
<1>5. Blank'
  BY <1>2 DEF HoleInv, Blank, Lossy
<1>6. AlarmsAreHoles'
  <2>1. /\ Said("blank")' => Said("blank")
        /\ Said("S1")' => Said("S1")
    BY DEF Said
  <2>2. Canary \in Sampled => Canary[1] \in Writer
    BY DEF Sampled
  <2>. QED BY <1>2, <2>1, <2>2 DEF HoleInv, AlarmsAreHoles, Sampled
<1>. QED BY <1>1, <1>3, <1>4, <1>5, <1>6 DEF HoleInv

LEMMA StressHoleInv ==
  ASSUME HoleInv, UNCHANGED toolVars,
         CountBefore \/ CountCategory \/ CountAfter \/ Info \/ QueryError \/ Lookup
  PROVE  HoleInv'
<1>1. CASE UNCHANGED <<ingestVars, misses>>
  BY <1>1, IngestHoleInv DEF toolVars, sweepVars
<1>2. CASE Lookup
  <2>1. UNCHANGED ingestVars
    BY <1>2 DEF Lookup
  <2>2. CASE \E w \in Writer, i \in 0 .. Written - 1 :
               Told /\ <<w, i>> \notin stored /\ misses' = misses \cup {<<w, i>>}
    <3>1. PICK w \in Writer, i \in 0 .. Written - 1 :
            Told /\ <<w, i>> \notin stored /\ misses' = misses \cup {<<w, i>>}
      BY <2>2
    <3>2. Start = 0 => errors[w] > 0
      BY <3>1, ToldIsDone, MissingIsLost DEF HoleInv
    <3>3. i \in Nat
      BY HoleConstants
    <3>4. UNCHANGED <<errors, done, stored>>
      BY <2>1 DEF ingestVars, writerVars
    <3>5. misses' \subseteq Writer \X Nat /\ OnlyHolesMissed'
      BY <3>1, <3>2, <3>3, <3>4 DEF HoleInv, OnlyHolesMissed
    <3>6. IngestInv'
      BY <2>1, NextIngestInv DEF HoleInv
    <3>7. /\ place' \in {"S1", "canary", "points", "scan"} => DoneEnough'
          /\ Blank' /\ AlarmsAreHoles'
      BY <3>4 DEF HoleInv, DoneEnough, Blank, Lossy, AlarmsAreHoles, Said, toolVars,
         sweepVars
    <3>. QED BY <3>5, <3>6, <3>7 DEF HoleInv
  <2>. QED BY <1>1, <1>2, <2>1, <2>2 DEF Lookup
<1>. QED
  BY <1>1, <1>2 DEF CountBefore, CountCategory, CountAfter, Info, QueryError

\* A step of bg_scan or of its index says nothing of a hole and starts no sweep.
LEMMA BgScanHoleInv ==
  ASSUME HoleInv,
         \/ CreateScan \/ ScanDocument \/ ScanEnds \/ Poll \/ PollLast \/ PollError
         \/ FirstCount \/ ScanCounted \/ Compare \/ Spot
  PROVE  HoleInv'
<1>1. UNCHANGED <<ingestVars, misses, left, checked>>
  BY DEF CreateScan, ScanDocument, ScanEnds, Poll, PollLast, PollError,
     FirstCount, ScanCounted, Compare, Spot, bgRest, sweepVars, vars, stressVars
<1>2. place' = place \/ place' \notin {"S1", "canary", "points", "scan"}
  BY DEF CreateScan, ScanDocument, ScanEnds, Poll, PollLast, PollError,
     FirstCount, ScanCounted, Compare, Spot, At
<1>3. ~Said("blank")' /\ ~Said("S1")'
  <2>1. CASE Spot
    BY <2>1 DEF Spot, Said
  <2>2. CASE Poll \/ Compare
    BY <2>2 DEF Poll, Compare, Say, Said
  <2>3. CASE \/ CreateScan \/ ScanDocument \/ ScanEnds \/ PollLast \/ PollError
             \/ FirstCount \/ ScanCounted
    BY <2>3 DEF CreateScan, ScanDocument, ScanEnds, PollLast, PollError,
       FirstCount, ScanCounted, Said
  <2>. QED BY <2>1, <2>2, <2>3
<1>4. UNCHANGED <<errors, done>>
  BY <1>1 DEF ingestVars, writerVars
<1>5. IngestInv'
  BY <1>1, NextIngestInv DEF HoleInv
<1>6. misses' \subseteq Writer \X Nat /\ OnlyHolesMissed' /\ AlarmsAreHoles'
  BY <1>1, <1>3, <1>4 DEF HoleInv, OnlyHolesMissed, AlarmsAreHoles
<1>7. /\ place' \in {"S1", "canary", "points", "scan"} => DoneEnough'
      /\ Blank'
  BY <1>1, <1>2, <1>4 DEF HoleInv, DoneEnough, Blank, Lossy
<1>. QED BY <1>5, <1>6, <1>7 DEF HoleInv

LEMMA SweepHoleInv ==
  ASSUME HoleInv,
         \/ SweepStart \/ S1 \/ CanaryLookup \/ Point \/ PointScan
         \/ SweepError \/ SweepEnds
  PROVE  HoleInv'
<1>1. UNCHANGED <<ingestVars, misses>>
  BY DEF SweepStart, S1, CanaryLookup, Point, PointScan, SweepError, SweepEnds,
     sweepRest, vars, stressVars
<1>2. UNCHANGED <<errors, done, stored>>
  BY <1>1 DEF ingestVars, writerVars
<1>3. IngestInv' /\ misses' \subseteq Writer \X Nat /\ OnlyHolesMissed'
  BY <1>1, <1>2, NextIngestInv DEF HoleInv, OnlyHolesMissed
<1>4. (DoneEnough => DoneEnough') /\ (Lossy <=> Lossy')
  BY <1>2 DEF DoneEnough, Lossy
<1>5. place' \in {"S1", "canary", "points", "scan"} => DoneEnough
  BY ToldIsDone DEF HoleInv, SweepStart, S1, CanaryLookup, Point, PointScan,
     SweepError, SweepEnds, At
<1>6. Blank'
  <2>1. CASE SweepStart \/ S1 \/ CanaryLookup
    <3>1. left' = Points
      BY <2>1 DEF HoleInv, SweepStart, S1, CanaryLookup, At, Blank, sweepVars
    <3>2. ~(left' < Points)
      BY <3>1, HoleConstants
    <3>. QED BY <3>1, <3>2 DEF Blank
  <2>2. CASE Point
    <3>1. PICK d \in Sampled :
            IF d \in stored
            THEN checked' = TRUE /\ place' \in {"scan", "points"}
            ELSE UNCHANGED <<checked, place>>
      BY <2>2 DEF Point
    <3>2. CASE d \in stored
      BY <3>1, <3>2 DEF Blank
    <3>3. CASE d \notin stored
      <4>1. PICK w \in Writer, i \in 0 .. Written - 1 : d = <<w, i>>
        BY DEF Sampled
      <4>2. Start = 0 => Lossy
        BY <2>2, <3>3, <4>1, MissingIsLost DEF HoleInv, Point, Lossy
      <4>3. place' = "points"
        BY <2>2, <3>1, <3>3 DEF Point
      <4>. QED BY <1>4, <4>2, <4>3 DEF Blank
    <3>. QED BY <3>2, <3>3
  <2>3. CASE PointScan
    BY <1>4, <2>3 DEF HoleInv, PointScan, At, Blank
  <2>4. CASE SweepError \/ SweepEnds
    BY <2>4 DEF SweepError, SweepEnds, At, Blank
  <2>. QED BY <2>1, <2>2, <2>3, <2>4
<1>7. AlarmsAreHoles'
  <2>. SUFFICES ASSUME Start = 0
                PROVE  /\ Said("blank")' => Lossy'
                       /\ Said("S1")' /\ Canary \in Sampled => errors'[Canary[1]] > 0
    BY DEF AlarmsAreHoles, Lossy, Sampled
  <2>1. CASE SweepStart \/ S1 \/ Point \/ SweepError
    BY <2>1 DEF SweepStart, S1, Point, SweepError, Said
  <2>2. CASE PointScan
    BY <2>2 DEF PointScan, Say, Said
  <2>3. CASE CanaryLookup
    <3>1. ~Said("blank")' /\ (Said("S1")' => Canary \notin stored)
      BY <2>3 DEF CanaryLookup, Say, Said
    <3>2. ASSUME Canary \in Sampled, Canary \notin stored
          PROVE  errors[Canary[1]] > 0
      <4>1. PICK w \in Writer, i \in 0 .. Written - 1 : Canary = <<w, i>>
        BY <3>2 DEF Sampled
      <4>2. DoneEnough
        BY <2>3 DEF CanaryLookup, At, HoleInv
      <4>. QED BY <3>2, <4>1, <4>2, MissingIsLost DEF HoleInv
    <3>. QED BY <1>2, <3>1, <3>2
  <2>4. CASE SweepEnds
    <3>1. ~Said("S1")' /\ (Said("blank")' => ~checked)
      BY <2>4 DEF SweepEnds, Say, Said
    <3>2. place = "points" /\ left < Points
      BY <2>4, HoleConstants DEF SweepEnds, At
    <3>. QED BY <1>4, <3>1, <3>2 DEF HoleInv, Blank
  <2>. QED BY <2>1, <2>2, <2>3, <2>4
<1>. QED BY <1>3, <1>4, <1>5, <1>6, <1>7 DEF HoleInv

LEMMA InitHoleInv == SweepInit => HoleInv
<1>. SUFFICES ASSUME SweepInit PROVE HoleInv
  OBVIOUS
<1>1. IngestInv /\ misses = {} /\ place = "start" /\ said = {}
  BY InitIngestInv DEF SweepInit, Init, ToolInit
<1>. QED BY <1>1 DEF HoleInv, OnlyHolesMissed, Blank, AlarmsAreHoles, Said

LEMMA NextHoleInv == HoleInv /\ [SweepNext]_allVars => HoleInv'
<1>. SUFFICES ASSUME HoleInv, [SweepNext]_allVars
              PROVE  HoleInv'
  OBVIOUS
<1>1. CASE Ingest
  BY <1>1, IngestHoleInv DEF Ingest, stressVars, sweepVars
<1>2. CASE UNCHANGED allVars
  BY <1>2, IngestHoleInv DEF allVars, vars, toolVars, stressVars, sweepVars
<1>. QED
  BY <1>1, <1>2, StressHoleInv, BgScanHoleInv, SweepHoleInv DEF SweepNext

(* MissesHaveCauses: with writers that start at 0, whatever I6, the canary *)
(* or the blank check of a sweep reports missing was lost by a batch that  *)
(* its writer has counted as failed (I6, S1, S2).                          *)
THEOREM MissesHaveCauses == SweepSpec => []MissesAreHoles
<1>1. HoleInv => MissesAreHoles
  BY DEF HoleInv, MissesAreHoles
<1>. QED BY <1>1, InitHoleInv, NextHoleInv, PTL DEF SweepSpec

-----------------------------------------------------------------------------
(* The types of what the tools keep.                                       *)

Saying == ({"stall", "bracket", "S1", "S2", "blank"} \X {<<0, 0>>}) \cup ({"spot"} \X Spots)

Place == {"start", "poll", "a1", "b", "a2", "spots", "end", "S1", "canary", "points", "scan"}

ToolTypes ==
  /\ tool \in {"none", "stress", "bg_scan", "sweep"}
  /\ place \in Place
  /\ scanOn \in BOOLEAN /\ left \in 0 .. Points /\ checked \in BOOLEAN
  /\ point \in Nat \X Nat
  /\ said \subseteq Saying

LEMMA SayingFacts ==
  /\ {} \subseteq Saying
  /\ \A kind \in {"stall", "bracket", "S1", "S2", "blank"} : <<kind, <<0, 0>>>> \in Saying
  /\ \A d \in Spots : <<"spot", d>> \in Saying
BY DEF Saying

LEMMA SampledType == Sampled \subseteq Nat \X Nat
BY HoleConstants, IngestNumbers DEF Sampled, Writer

LEMMA PointFacts ==
  /\ 0 \in 0 .. Points /\ Points \in 0 .. Points /\ Points \in Nat
  /\ <<0, 0>> \in Nat \X Nat
BY HoleConstants

LEMMA InitToolTypes == SweepInit => ToolTypes
BY PointFacts, SayingFacts DEF SweepInit, ToolInit, ToolTypes, Place

\* What the ingest, the stress, the second index and bg_scan leave alone.
LEMMA OutsideToolTypes ==
  ASSUME ToolTypes, UNCHANGED <<tool, sweepVars>>, place' \in Place, said' \subseteq Saying
  PROVE  ToolTypes'
BY DEF ToolTypes, sweepVars

LEMMA ScanToolTypes ==
  ASSUME ToolTypes,
         \/ Ingest \/ UNCHANGED toolVars
         \/ CreateScan \/ ScanDocument \/ ScanEnds
  PROVE  ToolTypes'
<1>1. CASE Ingest
  BY <1>1, SayingFacts, OutsideToolTypes DEF Ingest, ToolTypes
<1>2. CASE UNCHANGED toolVars
  BY <1>2, OutsideToolTypes DEF toolVars, ToolTypes
<1>3. CASE CreateScan
  BY <1>3, SayingFacts, OutsideToolTypes DEF CreateScan, ToolTypes, Place
<1>4. CASE ScanDocument \/ ScanEnds
  BY <1>4, SayingFacts, OutsideToolTypes DEF ScanDocument, ScanEnds, ToolTypes
<1>. QED BY <1>1, <1>2, <1>3, <1>4

LEMMA BgScanToolTypes ==
  ASSUME ToolTypes,
         \/ Poll \/ PollLast \/ PollError \/ FirstCount \/ ScanCounted \/ Compare \/ Spot
  PROVE  ToolTypes'
<1>1. CASE Poll \/ PollLast \/ PollError
  BY <1>1, SayingFacts, OutsideToolTypes
     DEF Poll, PollLast, PollError, At, Say, bgRest, Place
<1>2. CASE FirstCount \/ ScanCounted \/ Compare
  BY <1>2, SayingFacts, OutsideToolTypes
     DEF FirstCount, ScanCounted, Compare, At, Say, bgRest, Place
<1>3. CASE Spot
  BY <1>3, SayingFacts, OutsideToolTypes DEF Spot, bgRest, ToolTypes, Place
<1>. QED BY <1>1, <1>2, <1>3

LEMMA SweepToolTypes ==
  ASSUME ToolTypes,
         \/ SweepStart \/ S1 \/ CanaryLookup \/ Point \/ PointScan
         \/ SweepError \/ SweepEnds
  PROVE  ToolTypes'
<1>1. tool' = tool
  BY DEF SweepStart, S1, CanaryLookup, Point, PointScan, SweepError, SweepEnds, sweepRest
<1>2. said' \subseteq Saying
  BY SayingFacts
     DEF SweepStart, S1, CanaryLookup, Point, PointScan, SweepError, SweepEnds, Say
<1>3. place' \in Place
  BY DEF SweepStart, S1, CanaryLookup, Point, PointScan, SweepError, SweepEnds, At,
         Place, ToolTypes
<1>4. scanOn' \in BOOLEAN /\ left' \in 0 .. Points /\ checked' \in BOOLEAN
      /\ point' \in Nat \X Nat
  <2>1. CASE SweepStart
    <3>1. scanOn' = FALSE \/ scanOn' = (indexing # "absent")
      BY <2>1 DEF SweepStart
    <3>2. scanOn' \in BOOLEAN
      BY <3>1
    <3>. QED BY <2>1, <3>2, PointFacts DEF SweepStart, ToolTypes
  <2>2. CASE S1 \/ CanaryLookup
    BY <2>2 DEF S1, CanaryLookup, sweepVars, ToolTypes
  <2>3. CASE Point
    <3>1. left' \in 0 .. Points
      BY <2>3, PointFacts DEF Point, ToolTypes
    <3>2. scanOn' \in BOOLEAN /\ checked' \in BOOLEAN /\ point' \in Nat \X Nat
      BY <2>3, SampledType DEF Point, ToolTypes
    <3>. QED BY <3>1, <3>2
  <2>4. CASE PointScan
    BY <2>4, PointFacts DEF PointScan, ToolTypes
  <2>5. CASE SweepError \/ SweepEnds
    BY <2>5, PointFacts DEF SweepError, SweepEnds, SweepOver
  <2>. QED BY <2>1, <2>2, <2>3, <2>4, <2>5
<1>. QED BY <1>1, <1>2, <1>3, <1>4 DEF ToolTypes

LEMMA NextToolTypes == ToolTypes /\ [SweepNext]_allVars => ToolTypes'
<1>. SUFFICES ASSUME ToolTypes, [SweepNext]_allVars
              PROVE  ToolTypes'
  OBVIOUS
<1>1. CASE UNCHANGED allVars
  BY <1>1, ScanToolTypes DEF allVars
<1>. QED BY <1>1, ScanToolTypes, BgScanToolTypes, SweepToolTypes DEF SweepNext

(* SweepTypeCorrect: whatever writers and tools do, every variable keeps   *)
(* its type; for the ingest, the stress and the scan this is part of the   *)
(* invariants above, and for stall_polls it is that the stall check starts *)
(* again before its limit (bg_scan_test.py).                               *)
THEOREM SweepTypeCorrect == SweepSpec => []SweepTypeOK
<1>1. SweepSpec => []IngestInv
  BY SweepImplementsStress, AlwaysIngestInv, PTL
<1>2. SweepSpec => []SInv
  BY SweepImplementsStress, InitSInv, NextSInv, PTL DEF Spec
<1>3. SweepSpec => []HoleInv
  BY InitHoleInv, NextHoleInv, PTL DEF SweepSpec
<1>4. SweepSpec => []ToolTypes
  BY InitToolTypes, NextToolTypes, PTL DEF SweepSpec
<1>5. IngestInv /\ SInv /\ HoleInv /\ ScanInv /\ ToolTypes => SweepTypeOK
  <2>. SUFFICES ASSUME IngestInv, SInv, HoleInv, ScanInv, ToolTypes
                PROVE  SweepTypeOK
    OBVIOUS
  <2>1. TypeOK
    BY DEF IngestInv, SInv, Places, CountsNeverAccuse, HoleInv, TypeOK
  <2>. QED BY <2>1 DEF ScanInv, ScanTypes, ToolTypes, Saying, Place, SweepTypeOK
<1>. QED BY <1>1, <1>2, <1>3, <1>4, <1>5, ScanInvAlways, PTL
=============================================================================
