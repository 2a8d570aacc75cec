------------------------ MODULE ExternalSorterProofs ------------------------
(***************************************************************************)
(* Proofs about ExternalSorter, for any memory limit, thresholds, sizes of *)
(* pages and arrays, number of partitions and of spill threads.            *)
(***************************************************************************)
EXTENDS ExternalSorter, SequenceTheorems, TLAPS

SorterStates == {"active", "queued", "writing", "done", "failed"}

SpillSorter ==
    [rows : Seq(Nat), pages : Nat, room : Int, array : Nat, state : SorterStates]

ReturnPoints == {"grow", "page", "initialPage"}

InsertPoints == {"next", "insert", "spill", "close", "final"} \cup ReturnPoints

SorterTypeOK ==
    /\ parts \in Seq(Nat)
    /\ pc \in InsertPoints \cup {"wait", "merge", "committed", "failed"}
    /\ pc \in {"spill", "wait"} => ret \in ReturnPoints
    /\ sorters \in Seq(SpillSorter)
    /\ active \in DOMAIN sorters
    /\ tasks \in Seq(Nat)

(* While records are inserted: the active sorter is nobody else's, its     *)
(* records have pages and its pointers an array.  With a page but no       *)
(* record there is room in the page.                                       *)
ActiveInv ==
    pc \in InsertPoints =>
        /\ Active.state = "active"
        /\ ~spilling
        /\ Active.array > 0
        /\ Len(Active.rows) <= ArrayRows * Active.array
        /\ Active.rows # <<>> \/ Active.room > 0 => Active.pages > 0
        /\ Active.rows = <<>> /\ Active.pages > 0 => Active.room > 0

(* What each step before an insertion has established for the next *)
PointInv ==
    /\ pc \in {"page", "initialPage", "insert"} => HasSpace
    /\ pc = "spill" /\ ret = "initialPage" => Active.room <= 0
    /\ pc = "initialPage" => Active.pages = 0
    /\ pc = "insert" => Active.pages > 0

(* A sorter on the thread pool has its memory, and the task has its future *)
(* until the spill is finished.                                            *)
QueueInv ==
    pc # "failed" =>
        /\ \A i \in DOMAIN sorters : sorters[i].state \in {"queued", "writing"} =>
              /\ sorters[i].pages > 0 /\ sorters[i].array > 0
              /\ \E k \in DOMAIN tasks : tasks[k] = i
        /\ pc \in {"final", "merge", "committed"} => tasks = <<>>

SorterInv ==
    /\ SorterTypeOK
    /\ ActiveInv
    /\ PointInv
    /\ QueueInv
    /\ reason # "assertion"

-----------------------------------------------------------------------------
(* Facts about the operators *)

(* Dropping one task from the queue keeps every other. *)
LEMMA RemovalKeeps ==
    ASSUME NEW S, NEW s \in Seq(S), NEW k \in DOMAIN s
    PROVE  LET rest == SubSeq(s, 1, k - 1) \o SubSeq(s, k + 1, Len(s))
           IN  /\ rest \in Seq(S)
               /\ \A j \in DOMAIN s : j # k => \E m \in DOMAIN rest : rest[m] = s[j]
<1> DEFINE a == SubSeq(s, 1, k - 1)
           b == SubSeq(s, k + 1, Len(s))
<1>1. k \in 1 .. Len(s) /\ Len(s) \in Nat /\ DOMAIN s = 1 .. Len(s)
    BY LenProperties
<1>2. /\ a \in Seq(S) /\ Len(a) = k - 1
      /\ \A i \in 1 .. k - 1 : a[i] = s[i]
    BY <1>1, SubSeqProperties
<1>3. /\ b \in Seq(S) /\ Len(b) = Len(s) - k
      /\ \A i \in 1 .. Len(s) - k : b[i] = s[k + i]
    BY <1>1, SubSeqProperties
<1> HIDE DEF a, b
<1>4. /\ a \o b \in Seq(S) /\ Len(a \o b) = Len(s) - 1
      /\ \A i \in 1 .. Len(s) - 1 :
            (a \o b)[i] = IF i <= k - 1 THEN a[i] ELSE b[i - (k - 1)]
  <2>1. Len(a) + Len(b) = Len(s) - 1
    BY <1>1, <1>2, <1>3
  <2>2. /\ a \o b \in Seq(S) /\ Len(a \o b) = Len(a) + Len(b)
        /\ \A i \in 1 .. Len(a) + Len(b) :
              (a \o b)[i] = IF i <= Len(a) THEN a[i] ELSE b[i - Len(a)]
    BY Zenon, <1>2, <1>3, ConcatProperties
  <2>3. Len(a) = k - 1
    BY <1>2
  <2> QED BY <2>1, <2>2, <2>3
<1>5. ASSUME NEW j \in 1 .. Len(s), j # k
      PROVE  \E m \in 1 .. Len(s) - 1 : (a \o b)[m] = s[j]
  <2>1. CASE j < k
    <3>1. j \in 1 .. Len(s) - 1 /\ j <= k - 1 /\ j \in 1 .. k - 1
        BY <1>1, <2>1
    <3>2. (a \o b)[j] = a[j]
        BY <1>4, <3>1
    <3>3. a[j] = s[j]
        BY <1>2, <3>1
    <3> QED BY Zenon, <3>1, <3>2, <3>3
  <2>2. CASE j > k
    <3>1. j - 1 \in 1 .. Len(s) - 1 /\ ~(j - 1 <= k - 1)
        BY <1>1, <2>2
    <3>2. (a \o b)[j - 1] = b[j - 1 - (k - 1)]
        BY Zenon, <1>4, <3>1
    <3>3. j - k \in 1 .. Len(s) - k /\ j - 1 - (k - 1) = j - k /\ k + (j - k) = j
        BY <1>1, <2>2
    <3>4. b[j - k] = s[j]
        BY <1>3, <3>3
    <3> QED BY Zenon, <3>1, <3>2, <3>3, <3>4
  <2>3. j < k \/ j > k
    BY <1>1, <1>5
  <2> QED BY Zenon, <2>1, <2>2, <2>3
<1>6. DOMAIN (a \o b) = 1 .. Len(s) - 1
    BY <1>4, LenProperties
<1> QED BY Zenon, <1>1, <1>4, <1>5, <1>6 DEF a, b

(* The pointer array grows: twice the memory of the sorter has room for    *)
(* more pointers than the old array could hold.                            *)
LEMMA ArrayGrows ==
    ASSUME NEW pages \in Nat, NEW array \in Nat, array > 0
    PROVE  /\ ArrayRows * array \in Nat
           /\ 0 < ArrayRows * array
           /\ 2 * (pages + array) \in Nat
           /\ ArrayRows * array < ArrayRows * (2 * (pages + array))
<1>1. ArrayRows \in Nat /\ ArrayRows > 0
    BY SorterAssumption
<1>2. ArrayRows * array \in Nat /\ 0 < ArrayRows * array
    BY <1>1
<1>3. ArrayRows * (2 * (pages + array)) = 2 * (ArrayRows * pages) + 2 * (ArrayRows * array)
    BY <1>1
<1>4. ArrayRows * pages \in Nat
    BY <1>1
<1> QED BY <1>2, <1>3, <1>4

(* A sorter with one field changed is still a sorter. *)
LEMMA FieldTypes ==
    ASSUME NEW s \in SpillSorter
    PROVE  /\ \A q \in Seq(Nat) : [s EXCEPT !.rows = q] \in SpillSorter
           /\ \A n \in Nat : [s EXCEPT !.pages = n] \in SpillSorter
           /\ \A r \in Int : [s EXCEPT !.room = r] \in SpillSorter
           /\ \A n \in Nat : [s EXCEPT !.array = n] \in SpillSorter
           /\ \A t \in SorterStates : [s EXCEPT !.state = t] \in SpillSorter
    BY Zenon DEF SpillSorter

(* A sorter whose memory is freed is a sorter in the same state. *)
LEMMA FreedTypes ==
    ASSUME NEW s \in SpillSorter
    PROVE  Freed(s) \in SpillSorter /\ Freed(s).state = s.state
<1> DEFINE t == [s EXCEPT !.pages = 0]
           u == [t EXCEPT !.room = 0]
           v == [u EXCEPT !.array = 0]
<1>1. t \in SpillSorter
    BY FieldTypes
<1>2. u \in SpillSorter
  <2> HIDE DEF t
  <2> QED BY <1>1, FieldTypes
<1>3. v \in SpillSorter
  <2> HIDE DEF u
  <2> QED BY Zenon, <1>2, FieldTypes
<1>4. Freed(s) = v
    BY DEF Freed
<1>5. Freed(s).state = s.state
    BY DEF Freed, SpillSorter
<1> QED BY <1>3, <1>4, <1>5

(* freeMemory changes no sorter but for its memory. *)
LEMMA FreeMemoryTypes ==
    ASSUME SorterTypeOK, FreeMemory
    PROVE  sorters' \in Seq(SpillSorter) /\ DOMAIN sorters' = DOMAIN sorters
<1>1. Len(sorters) \in Nat /\ DOMAIN sorters = 1 .. Len(sorters)
    BY LenProperties DEF SorterTypeOK
<1>2. \A i \in DOMAIN sorters : sorters[i] \in SpillSorter /\ Freed(sorters[i]) \in SpillSorter
    BY <1>1, ElementOfSeq, FreedTypes DEF SorterTypeOK
<1>3. sorters' \in [1 .. Len(sorters) -> SpillSorter]
    BY <1>1, <1>2 DEF FreeMemory
<1> QED BY <1>1, <1>3, IsASeq

(* One sorter changes, the others stay. *)
LEMMA OneSorterTypes ==
    ASSUME SorterTypeOK, NEW i \in DOMAIN sorters, NEW s \in SpillSorter,
           sorters' = [sorters EXCEPT ![i] = s]
    PROVE  /\ sorters' \in Seq(SpillSorter) /\ DOMAIN sorters' = DOMAIN sorters
           /\ sorters'[i] = s
           /\ \A j \in DOMAIN sorters : j # i => sorters'[j] = sorters[j]
    BY ExceptSeq, LenProperties DEF SorterTypeOK

(* Every sorter of the list, the active one and a new one have the type. *)
LEMMA SorterTypes ==
    ASSUME SorterTypeOK
    PROVE  /\ \A i \in DOMAIN sorters : sorters[i] \in SpillSorter
           /\ Active \in SpillSorter
           /\ NewSpillSorter \in SpillSorter
<1>1. \A i \in DOMAIN sorters : sorters[i] \in SpillSorter
    BY ElementOfSeq, LenProperties DEF SorterTypeOK
<1>2. NewSpillSorter \in SpillSorter
  <2>1. <<>> \in Seq(Nat)
    BY EmptySeq
  <2> QED BY <2>1 DEF NewSpillSorter, SpillSorter, SorterStates
<1> QED BY <1>1, <1>2 DEF SorterTypeOK, Active

-----------------------------------------------------------------------------
(* Steps that many actions share *)

(* An exception frees the memory and nothing is inserted any more. *)
LEMMA FailStep ==
    ASSUME SorterInv, NEW why, Fail(why), why # "assertion",
           UNCHANGED <<parts, ret, active, tasks>>
    PROVE  SorterInv'
<1>1. sorters' \in Seq(SpillSorter) /\ DOMAIN sorters' = DOMAIN sorters
    BY FreeMemoryTypes DEF Fail, SorterInv
<1>2. pc' = "failed" /\ reason' # "assertion"
    BY DEF Fail
<1>3. SorterTypeOK'
    BY <1>1, <1>2 DEF SorterInv, SorterTypeOK
<1> QED BY <1>2, <1>3 DEF SorterInv, ActiveInv, PointInv, QueueInv, InsertPoints, ReturnPoints

(* The active sorter changes but stays active: no spill is concerned. *)
LEMMA ActiveChanges ==
    ASSUME SorterInv, NEW s \in SpillSorter, s.state = "active",
           sorters' = [sorters EXCEPT ![active] = s],
           UNCHANGED <<active, tasks>>,
           pc' \in InsertPoints \ {"final"}, pc # "failed"
    PROVE  /\ Active' = s
           /\ sorters' \in Seq(SpillSorter) /\ active' \in DOMAIN sorters'
           /\ QueueInv'
<1>1. /\ sorters' \in Seq(SpillSorter) /\ DOMAIN sorters' = DOMAIN sorters
      /\ sorters'[active] = s
      /\ \A j \in DOMAIN sorters : j # active => sorters'[j] = sorters[j]
    BY OneSorterTypes DEF SorterInv, SorterTypeOK
<1>2. QueueInv'
    BY <1>1 DEF SorterInv, QueueInv, InsertPoints, ReturnPoints
<1> QED BY <1>1, <1>2 DEF Active, SorterInv, SorterTypeOK

(* The state of another sorter changes, or of the active one while the     *)
(* task waits in spill.                                                    *)
LEMMA JobChanges ==
    ASSUME SorterInv, NEW i \in DOMAIN sorters, NEW s \in SpillSorter,
           sorters[i].state \in {"queued", "writing"},
           sorters' = [sorters EXCEPT ![i] = s],
           \/ s.state \in {"done", "failed"}
           \/ s.state = "writing" /\ s.pages = sorters[i].pages /\ s.array = sorters[i].array,
           UNCHANGED <<parts, pc, ret, active, spilling, tasks, reason>>
    PROVE  SorterInv'
<1>1. /\ sorters' \in Seq(SpillSorter) /\ DOMAIN sorters' = DOMAIN sorters
      /\ sorters'[i] = s
      /\ \A j \in DOMAIN sorters : j # i => sorters'[j] = sorters[j]
    BY Zenon, OneSorterTypes DEF SorterInv
<1>2. SorterTypeOK'
    BY <1>1 DEF SorterInv, SorterTypeOK
<1>3. pc \in InsertPoints => Active' = Active
    BY <1>1 DEF SorterInv, SorterTypeOK, ActiveInv, Active
<1>4. ActiveInv'
    BY <1>3 DEF SorterInv, ActiveInv
<1>5. PointInv'
    BY <1>3 DEF SorterInv, PointInv, HasSpace, InsertPoints, ReturnPoints
<1>6. QueueInv'
    BY <1>1 DEF SorterInv, QueueInv
<1> QED BY <1>2, <1>4, <1>5, <1>6 DEF SorterInv

(* The task moves on and no sorter changes. *)
LEMMA SortersStay ==
    ASSUME SorterInv, UNCHANGED <<sorters, active, tasks>>, pc # "failed",
           pc' \in InsertPoints \ {"final"}
    PROVE  /\ Active' = Active
           /\ QueueInv'
    BY DEF SorterInv, QueueInv, Active, InsertPoints, ReturnPoints

-----------------------------------------------------------------------------
(* One lemma for each action *)

(* The next record finds the active sorter as the last one left it. *)
LEMMA NextRecordStep == SorterInv /\ NextRecord => SorterInv'
<1> SUFFICES ASSUME SorterInv, NextRecord PROVE SorterInv'
    OBVIOUS
<1>1. parts' \in Seq(Nat)
  <2>1. PICK p \in Partitions : parts' = Append(parts, p)
    BY DEF NextRecord
  <2>2. p \in Nat
    BY <2>1, SorterAssumption DEF Partitions
  <2> QED BY <2>1, <2>2, AppendProperties DEF SorterInv, SorterTypeOK
<1>2. pc = "next" /\ pc' \in {"spill", "grow"} /\ (pc' = "spill" => ret' = "grow")
    BY DEF NextRecord, Call
<1>3. UNCHANGED <<sorters, active, tasks, spilling, reason>>
    BY DEF NextRecord
<1>4. Active' = Active /\ QueueInv'
    BY <1>2, <1>3, SortersStay DEF InsertPoints, ReturnPoints
<1>5. SorterTypeOK'
    BY <1>1, <1>2, <1>3 DEF SorterInv, SorterTypeOK, InsertPoints, ReturnPoints
<1>6. ActiveInv'
    BY <1>2, <1>3, <1>4 DEF SorterInv, ActiveInv, InsertPoints
<1>7. PointInv'
    BY <1>2 DEF PointInv
<1> QED BY <1>3, <1>4, <1>5, <1>6, <1>7 DEF SorterInv

(* The end of the input changes no sorter and a failing input frees them. *)
LEMMA InputStep == SorterInv /\ (InputEnds \/ InputFails) => SorterInv'
<1> SUFFICES ASSUME SorterInv, InputEnds \/ InputFails PROVE SorterInv'
    OBVIOUS
<1>1. CASE InputEnds
  <2>1. pc = "next" /\ pc' = "close" /\ UNCHANGED <<parts, ret, sorters, active, tasks, spilling, reason>>
    BY <1>1 DEF InputEnds
  <2>2. Active' = Active /\ QueueInv'
    BY <2>1, SortersStay DEF InsertPoints
  <2>3. SorterTypeOK'
    BY <2>1 DEF SorterInv, SorterTypeOK, InsertPoints
  <2>4. ActiveInv'
    BY <2>1, <2>2 DEF SorterInv, ActiveInv, InsertPoints
  <2> QED BY <2>1, <2>2, <2>3, <2>4 DEF SorterInv, PointInv
<1>2. CASE InputFails
    BY <1>2, FailStep DEF InputFails
<1> QED BY <1>1, <1>2

(* growPointerArrayIfNecessary leaves room for a pointer, or spills first. *)
LEMMA GrowStep == SorterInv /\ GrowPointerArray => SorterInv'
<1> SUFFICES ASSUME SorterInv, GrowPointerArray PROVE SorterInv'
    OBVIOUS
<1> DEFINE wanted == 2 * (Active.pages + Active.array)
<1>1. Active \in SpillSorter /\ Active.pages \in Nat /\ Active.array \in Nat /\ Len(Active.rows) \in Nat
    BY SorterTypes, LenProperties DEF SorterInv, SpillSorter
<1>2. pc = "grow" /\ UNCHANGED <<parts, active, tasks, spilling, reason>>
    BY DEF GrowPointerArray
<1>3. /\ Active.state = "active" /\ ~spilling /\ Active.array > 0
      /\ Len(Active.rows) <= ArrayRows * Active.array
      /\ Active.rows # <<>> \/ Active.room > 0 => Active.pages > 0
      /\ Active.rows = <<>> /\ Active.pages > 0 => Active.room > 0
    BY <1>2 DEF SorterInv, ActiveInv, InsertPoints, ReturnPoints
<1>4. \/ HasSpace /\ pc' = "page" /\ UNCHANGED <<ret, sorters>>
      \/ pc' = "spill" /\ ret' = "page" /\ UNCHANGED sorters
      \/ pc' = "page" /\ UNCHANGED ret /\ sorters' = [sorters EXCEPT ![active].array = wanted]
    BY DEF GrowPointerArray, Call
<1>5. CASE UNCHANGED sorters /\ (\/ HasSpace /\ pc' = "page" /\ UNCHANGED ret
                                 \/ pc' = "spill" /\ ret' = "page")
  <2>1. Active' = Active /\ QueueInv' /\ HasSpace' = HasSpace
    BY <1>2, <1>4, <1>5, SortersStay DEF InsertPoints, ReturnPoints, HasSpace
  <2>2. SorterTypeOK'
    BY <1>2, <1>4, <1>5 DEF SorterInv, SorterTypeOK, InsertPoints, ReturnPoints
  <2>3. ActiveInv'
    BY <1>2, <1>3, <2>1 DEF ActiveInv
  <2>4. CASE HasSpace /\ pc' = "page"
    BY <1>2, <2>1, <2>2, <2>3, <2>4 DEF SorterInv, PointInv
  <2>5. CASE pc' = "spill" /\ ret' = "page"
    BY <1>2, <2>1, <2>2, <2>3, <2>5 DEF SorterInv, PointInv
  <2> QED BY <1>5, <2>4, <2>5
<1>6. CASE pc' = "page" /\ UNCHANGED ret /\ sorters' = [sorters EXCEPT ![active].array = wanted]
  <2> DEFINE s == [Active EXCEPT !.array = wanted]
  <2>1. wanted \in Nat /\ ArrayRows * Active.array < ArrayRows * wanted /\ wanted > 0
    BY <1>1, <1>3, ArrayGrows
  <2> HIDE DEF wanted
  <2>2. s \in SpillSorter
    BY <1>1, <2>1, FieldTypes
  <2>3. /\ s.rows = Active.rows /\ s.pages = Active.pages /\ s.room = Active.room
        /\ s.array = wanted /\ s.state = "active"
    BY <1>1, <1>3 DEF SpillSorter
  <2>4. sorters' = [sorters EXCEPT ![active] = s]
    BY <1>6 DEF Active
  <2> HIDE DEF s
  <2>5. /\ Active' = s /\ QueueInv'
        /\ sorters' \in Seq(SpillSorter) /\ active' \in DOMAIN sorters'
    BY Zenon, <1>2, <1>6, <2>2, <2>3, <2>4, ActiveChanges DEF InsertPoints, ReturnPoints
  <2>6. Len(s.rows) < ArrayRows * s.array /\ Len(s.rows) <= ArrayRows * s.array
    <3>1. ArrayRows * Active.array \in Nat /\ ArrayRows * wanted \in Nat
        BY <1>1, <2>1, SorterAssumption
    <3> QED BY <1>1, <1>3, <2>1, <2>3, <3>1
  <2>7. SorterTypeOK'
    BY <1>2, <1>6, <2>5 DEF SorterInv, SorterTypeOK, InsertPoints, ReturnPoints
  <2>8. ActiveInv'
    BY <1>2, <1>3, <2>1, <2>3, <2>5, <2>6 DEF ActiveInv
  <2>9. PointInv'
    BY <1>6, <2>5, <2>6 DEF PointInv, HasSpace
  <2> QED BY <1>2, <2>5, <2>7, <2>8, <2>9 DEF SorterInv
<1> QED BY <1>4, <1>5, <1>6

(* A page for the active sorter, from acquireNewPageIfNecessary or         *)
(* initialCurrentPage                                                      *)
LEMMA NewPageStep ==
    ASSUME SorterInv, NewPage, pc \in {"page", "initialPage"}, pc' = "insert",
           UNCHANGED <<parts, active, spilling, tasks, reason>>
    PROVE  SorterInv'
<1> DEFINE t == [Active EXCEPT !.pages = Active.pages + 1]
           s == [t EXCEPT !.room = PageRows]
<1>1. /\ Active \in SpillSorter /\ Active.pages \in Nat
      /\ Active.state = "active" /\ ~spilling /\ Active.array > 0
      /\ Len(Active.rows) <= ArrayRows * Active.array
      /\ HasSpace
    BY SorterTypes DEF SorterInv, SpillSorter, ActiveInv, PointInv, InsertPoints, ReturnPoints
<1>2. PageRows \in Nat /\ PageRows > 0
    BY SorterAssumption
<1>3. t \in SpillSorter
    BY <1>1, FieldTypes
<1>4. s \in SpillSorter
  <2> HIDE DEF t
  <2> QED BY <1>2, <1>3, FieldTypes
<1>5. /\ s.rows = Active.rows /\ s.pages = Active.pages + 1 /\ s.room = PageRows
      /\ s.array = Active.array /\ s.state = "active"
    BY <1>1 DEF SpillSorter
<1>6. sorters' = [sorters EXCEPT ![active] = s]
    BY Zenon DEF NewPage, Active
<1> HIDE DEF s
<1>7. /\ Active' = s /\ QueueInv'
      /\ sorters' \in Seq(SpillSorter) /\ active' \in DOMAIN sorters'
    BY Zenon, <1>4, <1>5, <1>6, ActiveChanges DEF InsertPoints
<1>8. SorterTypeOK'
    BY <1>7 DEF SorterInv, SorterTypeOK, InsertPoints
<1>9. ActiveInv'
    BY <1>1, <1>2, <1>5, <1>7 DEF ActiveInv
<1>10. PointInv'
    BY <1>1, <1>5, <1>7 DEF PointInv, HasSpace
<1> QED BY <1>7, <1>8, <1>9, <1>10 DEF SorterInv

(* acquireNewPageIfNecessary leaves a page with room, or spills first. *)
LEMMA AcquireStep == SorterInv /\ AcquirePage => SorterInv'
<1> SUFFICES ASSUME SorterInv, AcquirePage PROVE SorterInv'
    OBVIOUS
<1>1. pc = "page" /\ UNCHANGED <<parts, active, spilling, tasks, reason>>
    BY DEF AcquirePage
<1>2. \/ Active.room > 0 /\ pc' = "insert" /\ UNCHANGED <<ret, sorters>>
      \/ pc' = "insert" /\ NewPage
      \/ ~(Active.room > 0) /\ pc' = "spill" /\ ret' = "initialPage" /\ UNCHANGED sorters
    BY DEF AcquirePage, Call
<1>3. CASE pc' = "insert" /\ NewPage
    BY <1>1, <1>3, NewPageStep
<1>4. CASE UNCHANGED sorters /\ (\/ Active.room > 0 /\ pc' = "insert" /\ UNCHANGED ret
                                 \/ ~(Active.room > 0) /\ pc' = "spill" /\ ret' = "initialPage")
  <2>1. Active' = Active /\ QueueInv' /\ HasSpace' = HasSpace
    BY <1>1, <1>4, SortersStay DEF InsertPoints, HasSpace
  <2>2. SorterTypeOK'
    BY <1>1, <1>4 DEF SorterInv, SorterTypeOK, InsertPoints, ReturnPoints
  <2>3. ActiveInv'
    BY <1>1, <2>1 DEF SorterInv, ActiveInv, InsertPoints, ReturnPoints
  <2>4. Active.room \in Int /\ (Active.room > 0 => Active.pages > 0) /\ HasSpace
    BY <1>1, SorterTypes DEF SorterInv, ActiveInv, PointInv, SpillSorter, InsertPoints, ReturnPoints
  <2>5. PointInv'
    BY <1>4, <2>1, <2>4 DEF PointInv
  <2> QED BY <1>1, <2>1, <2>2, <2>3, <2>5 DEF SorterInv
<1> QED BY <1>2, <1>3, <1>4

(* initialCurrentPage never finds a page: its assertion holds. *)
LEMMA InitialPageStep == SorterInv /\ InitialPage => SorterInv'
<1> SUFFICES ASSUME SorterInv, InitialPage PROVE SorterInv'
    OBVIOUS
<1>1. pc = "initialPage" /\ UNCHANGED <<parts, ret, active, spilling, tasks>>
    BY DEF InitialPage
<1>2. Active.pages = 0
    BY <1>1 DEF SorterInv, PointInv
<1>3. \/ pc' = "insert" /\ NewPage /\ UNCHANGED reason
      \/ Fail("memory")
    BY <1>2 DEF InitialPage
<1>4. CASE pc' = "insert" /\ NewPage /\ UNCHANGED reason
    BY <1>1, <1>4, NewPageStep
<1>5. CASE Fail("memory")
    BY <1>1, <1>5, FailStep
<1> QED BY <1>3, <1>4, <1>5

(* insertRecord always has room for the pointer: its assertion holds. *)
LEMMA InsertStep == SorterInv /\ InsertRecord => SorterInv'
<1> SUFFICES ASSUME SorterInv, InsertRecord PROVE SorterInv'
    OBVIOUS
<1> DEFINE t == [Active EXCEPT !.rows = Append(Active.rows, Len(parts))]
           s == [t EXCEPT !.room = Active.room - 1]
<1>1. pc = "insert" /\ UNCHANGED <<parts, ret, active, spilling, tasks>>
    BY DEF InsertRecord
<1>2. /\ Active \in SpillSorter /\ Active.rows \in Seq(Nat) /\ Active.room \in Int
      /\ Active.pages > 0 /\ Active.state = "active" /\ ~spilling /\ Active.array > 0
      /\ HasSpace
    BY <1>1, SorterTypes DEF SorterInv, SpillSorter, ActiveInv, PointInv, InsertPoints
<1>3. /\ sorters' = [sorters EXCEPT ![active].rows = Append(@, Len(parts)), ![active].room = @ - 1]
      /\ pc' = "next" /\ UNCHANGED reason
    BY Zenon, <1>2 DEF InsertRecord
<1>4. /\ Append(Active.rows, Len(parts)) \in Seq(Nat)
      /\ Len(Append(Active.rows, Len(parts))) = Len(Active.rows) + 1
      /\ Append(Active.rows, Len(parts)) # <<>>
      /\ Len(Active.rows) \in Nat
  <2>1. Len(parts) \in Nat /\ Len(Active.rows) \in Nat
    BY <1>2, LenProperties DEF SorterInv, SorterTypeOK
  <2>2. /\ Append(Active.rows, Len(parts)) \in Seq(Nat)
        /\ Len(Append(Active.rows, Len(parts))) = Len(Active.rows) + 1
        /\ Append(Active.rows, Len(parts)) # <<>>
    BY <1>2, <2>1, AppendProperties
  <2> QED BY <2>1, <2>2
<1>5. t \in SpillSorter
    BY Zenon, <1>2, <1>4, FieldTypes
<1>6. s \in SpillSorter
  <2> HIDE DEF t
  <2>1. Active.room - 1 \in Int
    BY <1>2
  <2> QED BY <1>5, <2>1, FieldTypes
<1>7. /\ s.rows = Append(Active.rows, Len(parts)) /\ s.pages = Active.pages
      /\ s.array = Active.array /\ s.state = "active"
    BY <1>2 DEF SpillSorter
<1>8. sorters' = [sorters EXCEPT ![active] = s]
    BY Zenon, <1>3 DEF Active
<1> HIDE DEF s
<1>9. /\ Active' = s /\ QueueInv'
      /\ sorters' \in Seq(SpillSorter) /\ active' \in DOMAIN sorters'
    BY Zenon, <1>1, <1>3, <1>6, <1>7, <1>8, ActiveChanges DEF InsertPoints
<1>10. Len(s.rows) <= ArrayRows * s.array
  <2>1. ArrayRows * Active.array \in Int
    BY <1>2, SorterAssumption DEF SpillSorter
  <2> QED BY <1>2, <1>4, <1>7, <2>1 DEF HasSpace
<1>11. SorterTypeOK'
    BY <1>1, <1>3, <1>9 DEF SorterInv, SorterTypeOK, InsertPoints
<1>12. ActiveInv'
    BY <1>1, <1>2, <1>4, <1>7, <1>9, <1>10 DEF ActiveInv
<1>13. PointInv'
    BY <1>3 DEF PointInv
<1> QED BY <1>2, <1>3, <1>9, <1>11, <1>12, <1>13 DEF SorterInv

(* spill returns at once only if there is nothing to spill. *)
LEMMA SkipStep == SorterInv /\ SpillSkip => SorterInv'
<1> SUFFICES ASSUME SorterInv, SpillSkip PROVE SorterInv'
    OBVIOUS
<1>1. pc = "spill" /\ pc' = ret /\ UNCHANGED <<parts, ret, sorters, active, spilling, tasks, reason>>
    BY DEF SpillSkip
<1>2. /\ Active \in SpillSorter /\ Active.array \in Nat /\ Active.pages \in Nat /\ Active.room \in Int
      /\ Active.array > 0 /\ ~spilling
      /\ Active.rows = <<>> /\ Active.pages > 0 => Active.room > 0
    BY <1>1, SorterTypes DEF SorterInv, SpillSorter, ActiveInv, InsertPoints
<1>3. Active.rows = <<>> /\ ret \in ReturnPoints
    BY <1>1, <1>2 DEF SpillSkip, SorterInv, SorterTypeOK
<1>4. Active' = Active /\ QueueInv' /\ HasSpace' = HasSpace
    BY <1>1, <1>3, SortersStay DEF InsertPoints, ReturnPoints, HasSpace
<1>5. HasSpace
  <2>1. Len(Active.rows) = 0
    BY <1>3, EmptySeq
  <2> QED BY <1>2, <2>1, ArrayGrows DEF HasSpace
<1>6. pc' = "initialPage" => Active.pages = 0
    BY <1>1, <1>2, <1>3 DEF SorterInv, PointInv
<1>7. SorterTypeOK'
    BY <1>1, <1>3 DEF SorterInv, SorterTypeOK, InsertPoints, ReturnPoints
<1>8. ActiveInv'
    BY <1>1, <1>4 DEF SorterInv, ActiveInv, InsertPoints
<1>9. PointInv'
    BY <1>1, <1>3, <1>4, <1>5, <1>6 DEF PointInv, ReturnPoints
<1> QED BY <1>1, <1>4, <1>7, <1>8, <1>9 DEF SorterInv

(* What a new sorter has *)
LEMMA NewSorterFacts ==
    /\ NewSpillSorter.rows = <<>> /\ NewSpillSorter.pages = 0 /\ NewSpillSorter.room = 0
    /\ NewSpillSorter.array = 1 /\ NewSpillSorter.state = "active"
    /\ Len(NewSpillSorter.rows) < ArrayRows * NewSpillSorter.array
    /\ Len(NewSpillSorter.rows) <= ArrayRows * NewSpillSorter.array
<1>1. /\ NewSpillSorter.rows = <<>> /\ NewSpillSorter.pages = 0 /\ NewSpillSorter.room = 0
      /\ NewSpillSorter.array = 1 /\ NewSpillSorter.state = "active"
    BY DEF NewSpillSorter
<1>2. ArrayRows \in Nat /\ ArrayRows > 0
    BY SorterAssumption
<1>3. Len(NewSpillSorter.rows) = 0
    BY <1>1, EmptySeq
<1> QED BY <1>1, <1>2, <1>3

(* A synchronous spill frees the active sorter, which nobody else uses. *)
LEMMA SyncStep == SorterInv /\ SpillSync => SorterInv'
<1> SUFFICES ASSUME SorterInv, SpillSync PROVE SorterInv'
    OBVIOUS
<1>1. pc = "spill" /\ UNCHANGED <<parts, ret, active, tasks>>
    BY DEF SpillSync
<1>2. \/ Fail("bounds") \/ Fail("disk")
      \/ /\ sorters' = [sorters EXCEPT ![active] = NewSpillSorter]
         /\ pc' = ret /\ UNCHANGED <<spilling, reason>>
    BY DEF SpillSync
<1>3. CASE Fail("bounds") \/ Fail("disk")
    BY <1>1, <1>3, FailStep
<1>4. CASE /\ sorters' = [sorters EXCEPT ![active] = NewSpillSorter]
           /\ pc' = ret /\ UNCHANGED <<spilling, reason>>
  <2>1. ret \in ReturnPoints /\ ~spilling
    BY <1>1 DEF SorterInv, SorterTypeOK, ActiveInv, InsertPoints
  <2>2. /\ Active' = NewSpillSorter /\ QueueInv'
        /\ sorters' \in Seq(SpillSorter) /\ active' \in DOMAIN sorters'
    BY Zenon, <1>1, <1>4, <2>1, ActiveChanges, SorterTypes, NewSorterFacts
       DEF SorterInv, InsertPoints, ReturnPoints
  <2>3. SorterTypeOK'
    BY <1>1, <1>4, <2>1, <2>2 DEF SorterInv, SorterTypeOK, InsertPoints, ReturnPoints
  <2>4. ActiveInv'
    BY <1>4, <2>1, <2>2, NewSorterFacts DEF ActiveInv
  <2>5. PointInv'
    BY <1>4, <2>1, <2>2, NewSorterFacts DEF PointInv, HasSpace, ReturnPoints
  <2> QED BY <1>4, <2>2, <2>3, <2>4, <2>5 DEF SorterInv
<1> QED BY <1>2, <1>3, <1>4

(* The sorter that is handed to the pool has records, hence pages. *)
LEMMA SubmitStep == SorterInv /\ SpillSubmit => SorterInv'
<1> SUFFICES ASSUME SorterInv, SpillSubmit PROVE SorterInv'
    OBVIOUS
<1> DEFINE s == [Active EXCEPT !.state = "queued"]
<1>1. /\ pc = "spill" /\ pc' = "wait" /\ tasks' = Append(tasks, active)
      /\ UNCHANGED <<parts, ret, active, reason>>
      /\ sorters' = [sorters EXCEPT ![active].state = "queued"]
      /\ Active.rows # <<>>
    BY DEF SpillSubmit
<1>2. Active \in SpillSorter /\ Active.pages > 0 /\ Active.array > 0
    BY <1>1, SorterTypes DEF SorterInv, ActiveInv, InsertPoints
<1>3. s \in SpillSorter
    BY Zenon, <1>2, FieldTypes DEF SorterStates
<1>4. s.pages = Active.pages /\ s.array = Active.array /\ s.state = "queued"
    BY <1>2 DEF SpillSorter
<1>5. sorters' = [sorters EXCEPT ![active] = s]
    BY <1>1 DEF Active
<1> HIDE DEF s
<1>6. /\ sorters' \in Seq(SpillSorter) /\ DOMAIN sorters' = DOMAIN sorters
      /\ sorters'[active] = s
      /\ \A j \in DOMAIN sorters : j # active => sorters'[j] = sorters[j]
    BY <1>3, <1>5, OneSorterTypes DEF SorterInv, SorterTypeOK
<1>7. active \in Nat /\ tasks \in Seq(Nat)
    BY LenProperties DEF SorterInv, SorterTypeOK
<1>8. /\ tasks' \in Seq(Nat)
      /\ \A k \in DOMAIN tasks : k \in DOMAIN tasks' /\ tasks'[k] = tasks[k]
      /\ \E k \in DOMAIN tasks' : tasks'[k] = active
  <2>1. /\ tasks' \in Seq(Nat) /\ Len(tasks') = Len(tasks) + 1
        /\ \A k \in 1 .. Len(tasks) : tasks'[k] = tasks[k]
        /\ tasks'[Len(tasks) + 1] = active
    BY <1>1, <1>7, AppendProperties
  <2>2. DOMAIN tasks = 1 .. Len(tasks) /\ DOMAIN tasks' = 1 .. Len(tasks) + 1 /\ Len(tasks) \in Nat
    BY <1>7, <2>1, LenProperties
  <2> QED BY <2>1, <2>2
<1>9. SorterTypeOK'
    BY <1>1, <1>6, <1>8 DEF SorterInv, SorterTypeOK
<1>10. ASSUME NEW i \in DOMAIN sorters', sorters'[i].state \in {"queued", "writing"}
       PROVE  /\ sorters'[i].pages > 0 /\ sorters'[i].array > 0
              /\ \E k \in DOMAIN tasks' : tasks'[k] = i
  <2>1. CASE i = active
    BY <1>2, <1>4, <1>6, <1>8, <2>1
  <2>2. CASE i # active
    <3>1. sorters'[i] = sorters[i] /\ i \in DOMAIN sorters
        BY <1>6, <2>2
    <3>2. /\ sorters[i].pages > 0 /\ sorters[i].array > 0
          /\ \E k \in DOMAIN tasks : tasks[k] = i
        BY Zenon, <1>1, <1>10, <3>1 DEF SorterInv, QueueInv
    <3> QED BY <1>8, <3>1, <3>2
  <2> QED BY <2>1, <2>2
<1>11. QueueInv'
    BY <1>1, <1>10 DEF QueueInv
<1> QED BY <1>1, <1>9, <1>11 DEF SorterInv, ActiveInv, PointInv, InsertPoints, ReturnPoints

(* Only finished spills leave the queue. *)
LEMMA DropStep == SorterInv /\ DropFinished => SorterInv'
<1> SUFFICES ASSUME SorterInv, DropFinished PROVE SorterInv'
    OBVIOUS
<1>1. pc = "wait" /\ UNCHANGED <<parts, pc, ret, sorters, active, spilling, reason>>
    BY DEF DropFinished
<1>2. PICK k \in DOMAIN tasks : IsDone(tasks[k]) /\ tasks' = SubSeq(tasks, 1, k - 1) \o SubSeq(tasks, k + 1, Len(tasks))
    BY Zenon DEF DropFinished
<1>3. /\ tasks' \in Seq(Nat)
      /\ \A j \in DOMAIN tasks : j # k => \E m \in DOMAIN tasks' : tasks'[m] = tasks[j]
    BY Zenon, <1>2, RemovalKeeps DEF SorterInv, SorterTypeOK
<1>4. SorterTypeOK'
    BY <1>1, <1>3 DEF SorterInv, SorterTypeOK
<1>5. ASSUME NEW i \in DOMAIN sorters, sorters[i].state \in {"queued", "writing"}
      PROVE  /\ sorters[i].pages > 0 /\ sorters[i].array > 0
             /\ \E m \in DOMAIN tasks' : tasks'[m] = i
  <2>1. /\ sorters[i].pages > 0 /\ sorters[i].array > 0
        /\ \E j \in DOMAIN tasks : tasks[j] = i
    BY <1>1, <1>5 DEF SorterInv, QueueInv
  <2>2. PICK j \in DOMAIN tasks : tasks[j] = i
    BY <2>1
  <2>3. j # k
    BY <1>2, <1>5, <2>2 DEF IsDone
  <2> QED BY <1>3, <2>1, <2>2, <2>3
<1>6. QueueInv'
    BY <1>1, <1>5 DEF QueueInv
<1> QED BY <1>1, <1>4, <1>6 DEF SorterInv, ActiveInv, PointInv, InsertPoints, ReturnPoints

(* A new active sorter takes the place of the one that was submitted. *)
LEMMA NextSorterStep == SorterInv /\ NextSorter => SorterInv'
<1> SUFFICES ASSUME SorterInv, NextSorter PROVE SorterInv'
    OBVIOUS
<1>1. pc = "wait" /\ UNCHANGED <<parts, ret, tasks>>
    BY DEF NextSorter
<1>2. \/ Fail("memory") /\ UNCHANGED active
      \/ /\ sorters' = Append(sorters, NewSpillSorter) /\ active' = Len(sorters) + 1
         /\ spilling' = FALSE /\ pc' = ret /\ UNCHANGED reason
    BY DEF NextSorter
<1>3. CASE Fail("memory") /\ UNCHANGED active
    BY <1>1, <1>3, FailStep
<1>4. CASE /\ sorters' = Append(sorters, NewSpillSorter) /\ active' = Len(sorters) + 1
           /\ spilling' = FALSE /\ pc' = ret /\ UNCHANGED reason
  <2>1. ret \in ReturnPoints
    BY <1>1 DEF SorterInv, SorterTypeOK
  <2>2. /\ sorters' \in Seq(SpillSorter) /\ Len(sorters') = Len(sorters) + 1
        /\ \A j \in 1 .. Len(sorters) : sorters'[j] = sorters[j]
        /\ sorters'[Len(sorters) + 1] = NewSpillSorter
    BY <1>4, AppendProperties, SorterTypes DEF SorterInv, SorterTypeOK
  <2>3. /\ DOMAIN sorters = 1 .. Len(sorters) /\ DOMAIN sorters' = 1 .. Len(sorters) + 1
        /\ Len(sorters) \in Nat
    BY <2>2, LenProperties DEF SorterInv, SorterTypeOK
  <2>4. Active' = NewSpillSorter /\ active' \in DOMAIN sorters'
    BY <1>4, <2>2, <2>3 DEF Active
  <2>5. \A j \in DOMAIN sorters' : \/ j \in DOMAIN sorters /\ sorters'[j] = sorters[j]
                                   \/ sorters'[j].state = "active"
    BY <2>2, <2>3, NewSorterFacts
  <2>6. SorterTypeOK'
    BY <1>1, <1>4, <2>1, <2>2, <2>4 DEF SorterInv, SorterTypeOK, InsertPoints, ReturnPoints
  <2>7. ActiveInv'
    BY <1>4, <2>4, NewSorterFacts DEF ActiveInv
  <2>8. PointInv'
    BY <1>4, <2>1, <2>4, NewSorterFacts DEF PointInv, HasSpace, ReturnPoints
  <2>9. QueueInv'
    BY <1>1, <1>4, <2>1, <2>5 DEF SorterInv, QueueInv, ReturnPoints
  <2> QED BY <1>4, <2>6, <2>7, <2>8, <2>9 DEF SorterInv
<1> QED BY Zenon, <1>2, <1>3, <1>4

(* closeAndGetSpills drops only spills that are finished from the queue. *)
LEMMA CloseStep == SorterInv /\ CloseGet => SorterInv'
<1> SUFFICES ASSUME SorterInv, CloseGet PROVE SorterInv'
    OBVIOUS
<1>1. pc = "close" /\ UNCHANGED <<parts, ret, active, spilling>>
    BY DEF CloseGet
<1>2. \/ tasks = <<>> /\ pc' = "final" /\ UNCHANGED <<tasks, sorters, reason>>
      \/ /\ tasks # <<>> /\ sorters[Head(tasks)].state = "done" /\ tasks' = Tail(tasks)
         /\ UNCHANGED <<pc, sorters, reason>>
      \/ Fail("disk") /\ UNCHANGED tasks
    BY DEF CloseGet
<1>3. CASE tasks = <<>> /\ pc' = "final" /\ UNCHANGED <<tasks, sorters, reason>>
  <2>1. SorterTypeOK'
    BY <1>1, <1>3 DEF SorterInv, SorterTypeOK, InsertPoints
  <2>2. ActiveInv'
    BY <1>1, <1>3 DEF SorterInv, ActiveInv, Active, InsertPoints
  <2>3. QueueInv'
    BY <1>1, <1>3 DEF SorterInv, QueueInv
  <2> QED BY <1>3, <2>1, <2>2, <2>3 DEF SorterInv, PointInv
<1>4. CASE /\ tasks # <<>> /\ sorters[Head(tasks)].state = "done" /\ tasks' = Tail(tasks)
           /\ UNCHANGED <<pc, sorters, reason>>
  <2>1. /\ tasks' \in Seq(Nat) /\ Len(tasks') = Len(tasks) - 1
        /\ \A i \in 1 .. Len(tasks') : tasks'[i] = tasks[i + 1]
    BY <1>4, HeadTailProperties DEF SorterInv, SorterTypeOK
  <2>2. /\ DOMAIN tasks = 1 .. Len(tasks) /\ Len(tasks) \in Nat
        /\ DOMAIN tasks' = 1 .. Len(tasks) - 1
    BY <2>1, LenProperties DEF SorterInv, SorterTypeOK
  <2>3. ASSUME NEW j \in DOMAIN tasks, j # 1
        PROVE  \E m \in DOMAIN tasks' : tasks'[m] = tasks[j]
    <3>1. j - 1 \in 1 .. Len(tasks') /\ (j - 1) + 1 = j /\ j - 1 \in DOMAIN tasks'
        BY <2>1, <2>2, <2>3
    <3> QED BY <2>1, <3>1
  <2>4. ASSUME NEW i \in DOMAIN sorters, sorters[i].state \in {"queued", "writing"}
        PROVE  /\ sorters[i].pages > 0 /\ sorters[i].array > 0
               /\ \E m \in DOMAIN tasks' : tasks'[m] = i
    <3>1. /\ sorters[i].pages > 0 /\ sorters[i].array > 0
          /\ \E j \in DOMAIN tasks : tasks[j] = i
        BY <1>1, <2>4 DEF SorterInv, QueueInv
    <3>2. PICK j \in DOMAIN tasks : tasks[j] = i
        BY <3>1
    <3>3. Head(tasks) = tasks[1]
        OBVIOUS
    <3>4. j # 1
        BY <1>4, <2>4, <3>2, <3>3
    <3> QED BY <2>3, <3>1, <3>2, <3>4
  <2>5. QueueInv'
    BY <1>1, <1>4, <2>4 DEF QueueInv
  <2>6. SorterTypeOK'
    BY <1>1, <1>4, <2>1 DEF SorterInv, SorterTypeOK
  <2>7. ActiveInv' /\ PointInv'
    BY Zenon, <1>1, <1>4 DEF SorterInv, ActiveInv, PointInv, Active, HasSpace
  <2> QED BY <1>4, <2>5, <2>6, <2>7 DEF SorterInv
<1>5. CASE Fail("disk") /\ UNCHANGED tasks
    BY <1>1, <1>5, FailStep
<1> QED BY <1>2, <1>3, <1>4, <1>5

(* When the last file is written no spill is left on the pool, so that     *)
(* freeMemory takes no memory from one.                                    *)
LEMMA FinalStep == SorterInv /\ FinalWrite => SorterInv'
<1> SUFFICES ASSUME SorterInv, FinalWrite PROVE SorterInv'
    OBVIOUS
<1>1. pc = "final" /\ UNCHANGED <<parts, ret, active, spilling, tasks>>
    BY DEF FinalWrite
<1>2. \/ Fail("bounds") \/ Fail("disk")
      \/ FreeMemory /\ pc' = "merge" /\ UNCHANGED reason
    BY DEF FinalWrite
<1>3. CASE Fail("bounds") \/ Fail("disk")
    BY <1>1, <1>3, FailStep
<1>4. CASE FreeMemory /\ pc' = "merge" /\ UNCHANGED reason
  <2>1. sorters' \in Seq(SpillSorter) /\ DOMAIN sorters' = DOMAIN sorters
    BY <1>4, FreeMemoryTypes DEF SorterInv
  <2>2. \A i \in DOMAIN sorters : sorters'[i].state = sorters[i].state
    BY <1>4, SorterTypes, FreedTypes DEF FreeMemory, SorterInv
  <2>3. tasks = <<>> /\ DOMAIN tasks = {}
    BY <1>1 DEF SorterInv, QueueInv
  <2>4. \A i \in DOMAIN sorters : sorters[i].state \notin {"queued", "writing"}
    BY <1>1, <2>3 DEF SorterInv, QueueInv
  <2>5. SorterTypeOK'
    BY <1>1, <1>4, <2>1 DEF SorterInv, SorterTypeOK
  <2>6. QueueInv'
    BY <1>1, <1>4, <2>1, <2>2, <2>3, <2>4 DEF QueueInv
  <2> QED BY <1>4, <2>5, <2>6 DEF SorterInv, ActiveInv, PointInv, InsertPoints, ReturnPoints
<1> QED BY <1>2, <1>3, <1>4

(* The merge of the spill files touches no sorter. *)
LEMMA MergeStep == SorterInv /\ Merge => SorterInv'
<1> SUFFICES ASSUME SorterInv, Merge PROVE SorterInv'
    OBVIOUS
<1>1. pc = "merge" /\ UNCHANGED <<parts, ret, active, spilling, tasks>>
    BY DEF Merge
<1>2. \/ Fail("disk")
      \/ pc' = "committed" /\ sorters' = sorters /\ reason' = reason
    BY Zenon DEF Merge
<1>3. CASE Fail("disk")
    BY <1>1, <1>3, FailStep
<1>4. CASE pc' = "committed" /\ sorters' = sorters /\ reason' = reason
    BY <1>1, <1>4 DEF SorterInv, SorterTypeOK, ActiveInv, PointInv, QueueInv, InsertPoints, ReturnPoints
<1> QED BY <1>2, <1>3, <1>4

(* A spill on the pool frees its own sorter, and only when it is done. *)
LEMMA JobStep ==
    ASSUME SorterInv, NEW i \in DOMAIN sorters, Job(i)
    PROVE  SorterInv'
<1>1. sorters[i] \in SpillSorter
    BY SorterTypes DEF SorterInv
<1>2. UNCHANGED <<parts, pc, ret, active, spilling, tasks, reason>>
    BY DEF Job, JobBegin, JobEnd, JobFails
<1>3. sorters[i].state \in {"queued", "writing"}
    BY DEF Job, JobBegin, JobEnd, JobFails
<1>4. \/ sorters' = [sorters EXCEPT ![i].state = "writing"]
      \/ sorters' = [sorters EXCEPT ![i].state = "failed"]
      \/ sorters' = [sorters EXCEPT ![i] = Freed([@ EXCEPT !.state = "done"])]
    BY DEF Job, JobBegin, JobEnd, JobFails
<1>5. ASSUME NEW t \in {"writing", "failed"}, sorters' = [sorters EXCEPT ![i].state = t]
      PROVE  SorterInv'
  <2> DEFINE s == [sorters[i] EXCEPT !.state = t]
  <2>1. s \in SpillSorter
    BY Zenon, <1>1, <1>5, FieldTypes DEF SorterStates
  <2>2. s.state = t /\ s.pages = sorters[i].pages /\ s.array = sorters[i].array
    BY <1>1 DEF SpillSorter
  <2>3. sorters' = [sorters EXCEPT ![i] = s]
    BY <1>5
  <2> HIDE DEF s
  <2> QED BY Zenon, <1>2, <1>3, <1>5, <2>1, <2>2, <2>3, JobChanges
<1>6. CASE sorters' = [sorters EXCEPT ![i] = Freed([@ EXCEPT !.state = "done"])]
  <2> DEFINE d == [sorters[i] EXCEPT !.state = "done"]
             s == Freed(d)
  <2>1. d \in SpillSorter /\ d.state = "done"
    BY Zenon, <1>1, FieldTypes DEF SpillSorter, SorterStates
  <2>2. s \in SpillSorter /\ s.state = "done"
    <3> HIDE DEF d
    <3> QED BY <2>1, FreedTypes
  <2>3. sorters' = [sorters EXCEPT ![i] = s]
    BY <1>6
  <2> HIDE DEF s
  <2> QED BY Zenon, <1>2, <1>3, <2>2, <2>3, JobChanges
<1> QED BY <1>4, <1>5, <1>6

-----------------------------------------------------------------------------

(* A new external sorter satisfies the invariant. *)
LEMMA InitSorterInv == Init => SorterInv
<1> SUFFICES ASSUME Init PROVE SorterInv
    OBVIOUS
<1>1. /\ parts = <<>> /\ pc = "next" /\ sorters = <<NewSpillSorter>> /\ active = 1
      /\ tasks = <<>> /\ spilling = FALSE /\ reason = "none"
    BY DEF Init
<1>2. NewSpillSorter \in SpillSorter
  <2>1. <<>> \in Seq(Nat)
    BY EmptySeq
  <2> QED BY <2>1 DEF NewSpillSorter, SpillSorter, SorterStates
<1>3. /\ sorters \in Seq(SpillSorter) /\ DOMAIN sorters = {1} /\ sorters[1] = NewSpillSorter
    BY <1>1, <1>2
<1>4. SorterTypeOK
    BY <1>1, <1>3 DEF SorterTypeOK, InsertPoints
<1>5. Active = NewSpillSorter
    BY <1>1, <1>3 DEF Active
<1>6. ActiveInv
    BY <1>1, <1>5, NewSorterFacts DEF ActiveInv
<1>7. QueueInv
    BY <1>1, <1>3, NewSorterFacts DEF QueueInv
<1> QED BY <1>1, <1>4, <1>6, <1>7 DEF SorterInv, PointInv

(* The invariant of the sorter holds in every state that a write reaches. *)
THEOREM SorterInvariant == Spec => []SorterInv
<1>1. SorterInv /\ [Next]_vars => SorterInv'
  <2> SUFFICES ASSUME SorterInv, [Next]_vars PROVE SorterInv'
    OBVIOUS
  <2>1. CASE TaskStep
    BY <2>1, NextRecordStep, InputStep, GrowStep, AcquireStep, InitialPageStep, InsertStep,
       SkipStep, SyncStep, SubmitStep, DropStep, NextSorterStep, CloseStep, FinalStep, MergeStep
       DEF TaskStep
  <2>2. CASE \E i \in DOMAIN sorters : Job(i)
    BY Zenon, <2>2, JobStep
  <2>3. CASE UNCHANGED vars
    BY Zenon, <2>3 DEF vars, SorterInv, SorterTypeOK, ActiveInv, PointInv, QueueInv, Active, HasSpace
  <2> QED BY <2>1, <2>2, <2>3 DEF Next
<1> QED BY InitSorterInv, <1>1, PTL DEF Spec

(* While the task runs, neither freeMemory nor a later spill takes the     *)
(* pages or the pointer array from a sorter that the shuffle thread pool   *)
(* is still spilling, for any number of spill threads and any memory.      *)
THEOREM NoUseAfterFreeHolds == Spec => []NoUseAfterFree
<1>1. SorterInv => NoUseAfterFree
    BY DEF SorterInv, QueueInv, NoUseAfterFree
<1> QED BY SorterInvariant, <1>1, PTL

(* The assertions of initialCurrentPage (there is no current page) and of  *)
(* insertRecord (the pointer array has room) never fail: a spill that      *)
(* returns without spilling left nothing to spill.                         *)
THEOREM AssertionsHold == Spec => [](reason # "assertion")
<1>1. SorterInv => reason # "assertion"
    BY DEF SorterInv
<1> QED BY SorterInvariant, <1>1, PTL

=============================================================================
