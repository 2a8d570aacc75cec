------------------------ MODULE ExternalSorterMemory ------------------------
(* The memory that the sorters of a write hold together, for any limit.     *)
EXTENDS ExternalSorterProofs, FiniteSetTheorems

Size(s) == s.pages + s.array

(* What the sorters hold was granted within the limit. *)
LimitInv ==
    /\ conf.limit \in Nat
    /\ IsFiniteSet(Units(sorters))
    /\ Used(sorters) <= conf.limit

(* Only the active sorter is in state "active", and not even that one      *)
(* while its spill is submitted; a sorter whose spill has ended well holds *)
(* nothing, and none holds anything once the files are merged.             *)
HeldInv ==
    /\ pc = "wait" => Active.state # "active"
    /\ \A i \in DOMAIN sorters :
          /\ sorters[i].state = "active" => i = active
          /\ sorters[i].state = "done" \/ pc \in {"merge", "committed"} => Size(sorters[i]) = 0

(* A sorter occupies a number of units. *)
LEMMA SizeType ==
    ASSUME NEW s \in SpillSorter
    PROVE  Size(s) \in Nat /\ s.pages + s.array = Size(s) /\ s.state \in SorterStates
    BY DEF Size, SpillSorter

(* Up to n more units are n more units in all. *)
LEMMA UnitsGrow ==
    ASSUME NEW ss, NEW tt, NEW i, NEW a \in Nat, NEW n \in Nat, IsFiniteSet(Units(ss)),
           Units(tt) \subseteq Units(ss) \cup ({i} \X (a + 1 .. a + n))
    PROVE  IsFiniteSet(Units(tt)) /\ Used(ss) \in Nat /\ Used(tt) \in Nat /\ Used(tt) <= Used(ss) + n
<1> DEFINE more == a + 1 .. a + n
           extra == {i} \X more
<1>1. IsFiniteSet(more) /\ Cardinality(more) = n
  <2>1. a + 1 \in Int /\ a + n \in Int /\ (IF a + 1 > a + n THEN 0 ELSE (a + n) - (a + 1) + 1) = n
    OBVIOUS
  <2> QED BY <2>1, FS_Interval
<1>2. IsFiniteSet({i}) /\ Cardinality({i}) = 1
    BY Zenon, FS_Singleton
<1> HIDE DEF more
<1>3. IsFiniteSet(extra) /\ Cardinality(extra) = n
  <2>1. IsFiniteSet(extra) /\ Cardinality(extra) = Cardinality({i}) * Cardinality(more)
    BY <1>1, <1>2, FS_Product
  <2> QED BY <1>1, <1>2, <2>1
<1>4. Units(tt) \subseteq Units(ss) \cup extra
    BY DEF more
<1> HIDE DEF extra
<1>5. /\ IsFiniteSet(Units(ss) \cup extra)
      /\ Cardinality(Units(ss) \cup extra)
            = Cardinality(Units(ss)) + Cardinality(extra) - Cardinality(Units(ss) \cap extra)
    BY <1>3, FS_Union
<1>6. IsFiniteSet(Units(ss) \cap extra)
    BY <1>3, FS_Subset
<1>7. Cardinality(Units(ss)) \in Nat /\ Cardinality(Units(ss) \cap extra) \in Nat
    BY <1>6, FS_CardinalityType
<1>8. IsFiniteSet(Units(tt)) /\ Cardinality(Units(tt)) <= Cardinality(Units(ss) \cup extra)
    BY <1>4, <1>5, FS_Subset
<1>9. Cardinality(Units(tt)) \in Nat
    BY <1>8, FS_CardinalityType
<1> QED BY <1>3, <1>5, <1>7, <1>8, <1>9 DEF Used

(* No sorter grows but the i-th, which had a units or more and gets n more, *)
(* or is new.                                                              *)
GrowsBy(i, a, n) ==
    \A j \in DOMAIN sorters' :
        \/ j \in DOMAIN sorters /\ Size(sorters'[j]) <= Size(sorters[j])
        \/ /\ j = i /\ Size(sorters'[j]) <= a + n
           /\ a = 0 \/ (j \in DOMAIN sorters /\ a <= Size(sorters[j]))

(* At most one sorter grows, by no more than what fits: the limit is kept. *)
LEMMA SorterGrows ==
    ASSUME SorterTypeOK, SorterTypeOK', LimitInv, UNCHANGED conf,
           NEW i, NEW a \in Nat, NEW n \in Nat, n = 0 \/ Fits(sorters, n), GrowsBy(i, a, n)
    PROVE  LimitInv'
<1>1. /\ \A j \in DOMAIN sorters : Size(sorters[j]) \in Nat
                                   /\ sorters[j].pages + sorters[j].array = Size(sorters[j])
      /\ \A j \in DOMAIN sorters' : Size(sorters'[j]) \in Nat
                                    /\ sorters'[j].pages + sorters'[j].array = Size(sorters'[j])
  <2>1. ASSUME NEW ss \in Seq(SpillSorter), NEW j \in DOMAIN ss
        PROVE  Size(ss[j]) \in Nat /\ ss[j].pages + ss[j].array = Size(ss[j])
    BY <2>1, ElementOfSeq, LenProperties, SizeType
  <2> QED BY Zenon, <2>1 DEF SorterTypeOK
<1>2. ASSUME NEW u \in Units(sorters')
      PROVE  u \in Units(sorters) \cup ({i} \X (a + 1 .. a + n))
  <2>1. PICK j \in DOMAIN sorters' : u \in {j} \X (1 .. Size(sorters'[j]))
    BY Zenon, <1>1, <1>2 DEF Units
  <2>2. PICK m \in 1 .. Size(sorters'[j]) : u = <<j, m>>
    BY <2>1
  <2>3. CASE j \in DOMAIN sorters /\ m <= Size(sorters[j])
    <3>1. m \in 1 .. Size(sorters[j])
      BY <1>1, <2>2, <2>3
    <3>2. u \in {j} \X (1 .. sorters[j].pages + sorters[j].array)
      BY <1>1, <2>2, <2>3, <3>1
    <3> QED BY Zenon, <2>3, <3>2 DEF Units
  <2>4. CASE ~(j \in DOMAIN sorters /\ m <= Size(sorters[j]))
    <3>1. j = i /\ m \in a + 1 .. a + n
      BY <1>1, <2>2, <2>4 DEF GrowsBy
    <3> QED BY <2>2, <3>1
  <2> QED BY <2>3, <2>4
<1>3. IsFiniteSet(Units(sorters')) /\ Used(sorters) \in Nat /\ Used(sorters') \in Nat
      /\ Used(sorters') <= Used(sorters) + n
    BY Zenon, <1>2, UnitsGrow DEF LimitInv
<1> QED BY <1>3 DEF LimitInv, Fits

(* No sorter grows: the limit is kept. *)
LEMMA NoSorterGrows ==
    ASSUME SorterTypeOK, SorterTypeOK', LimitInv, UNCHANGED conf,
           \A j \in DOMAIN sorters' : j \in DOMAIN sorters /\ Size(sorters'[j]) <= Size(sorters[j])
    PROVE  LimitInv'
<1>1. GrowsBy(0, 0, 0) /\ 0 \in Nat
    BY DEF GrowsBy
<1> QED BY Zenon, <1>1, SorterGrows

-----------------------------------------------------------------------------
(* Steps that many actions share *)

(* What freeMemory leaves with the sorters *)
LEMMA FreeMemoryFacts ==
    ASSUME SorterTypeOK, FreeMemory
    PROVE  /\ DOMAIN sorters' = DOMAIN sorters
           /\ \A j \in DOMAIN sorters :
                 /\ sorters'[j].state = sorters[j].state
                 /\ Size(sorters'[j]) = 0 \/ sorters'[j] = sorters[j]
                 /\ j = active \/ sorters[j].state \in {"queued", "writing", "failed"}
                       => Size(sorters'[j]) = 0
<1>1. DOMAIN sorters' = DOMAIN sorters
    BY FreeMemoryTypes
<1>2. ASSUME NEW j \in DOMAIN sorters
      PROVE  /\ sorters'[j].state = sorters[j].state
             /\ Size(sorters'[j]) = 0 \/ sorters'[j] = sorters[j]
             /\ j = active \/ sorters[j].state \in {"queued", "writing", "failed"}
                   => Size(sorters'[j]) = 0
  <2>1. sorters[j] \in SpillSorter
    BY <1>2, SorterTypes
  <2>2. Freed(sorters[j]).state = sorters[j].state /\ Size(Freed(sorters[j])) = 0
    BY <2>1 DEF Freed, Size, SpillSorter
  <2>3. sorters'[j] = IF j = active \/ sorters[j].state \in {"queued", "writing", "failed"}
                      THEN Freed(sorters[j]) ELSE sorters[j]
    BY <1>2 DEF FreeMemory
  <2> QED BY <2>2, <2>3
<1> QED BY <1>1, <1>2

(* freeMemory takes no memory. *)
LEMMA FreeMemoryLimit ==
    ASSUME SorterTypeOK, SorterTypeOK', LimitInv, UNCHANGED conf, FreeMemory
    PROVE  LimitInv'
<1>1. \A j \in DOMAIN sorters : Size(sorters[j]) \in Nat
    BY SorterTypes, SizeType
<1>2. \A j \in DOMAIN sorters' : j \in DOMAIN sorters /\ Size(sorters'[j]) <= Size(sorters[j])
    BY <1>1, FreeMemoryFacts
<1> QED BY <1>2, NoSorterGrows

(* An exception frees the memory. *)
LEMMA FailMemory ==
    ASSUME SorterTypeOK, SorterTypeOK', LimitInv, HeldInv, UNCHANGED <<conf, active>>,
           NEW why, Fail(why)
    PROVE  LimitInv' /\ HeldInv'
<1>1. pc' = "failed" /\ FreeMemory
    BY DEF Fail
<1>2. LimitInv'
    BY <1>1, FreeMemoryLimit
<1>3. HeldInv'
    BY <1>1, FreeMemoryFacts DEF HeldInv
<1> QED BY <1>2, <1>3

(* No sorter changes. *)
LEMMA MemoryStays ==
    ASSUME LimitInv, HeldInv, UNCHANGED <<conf, sorters, active>>,
           pc' = "wait" => pc = "wait",
           pc' \in {"merge", "committed"} => pc \in {"merge", "committed"}
    PROVE  LimitInv' /\ HeldInv'
<1>1. LimitInv'
    BY Zenon DEF LimitInv, Used, Units
<1>2. HeldInv'
    BY DEF HeldInv, Active
<1> QED BY <1>1, <1>2

(* The active sorter changes, and grows by no more than what fits. *)
LEMMA ActiveMemory ==
    ASSUME SorterTypeOK, SorterTypeOK', LimitInv, HeldInv, UNCHANGED <<conf, active>>,
           NEW s \in SpillSorter, sorters' = [sorters EXCEPT ![active] = s],
           NEW n \in Nat, n = 0 \/ Fits(sorters, n), Size(s) <= Size(Active) + n,
           s.state # "done", pc' = "wait" => s.state # "active",
           pc' \notin {"merge", "committed"}
    PROVE  LimitInv' /\ HeldInv'
<1>1. active \in DOMAIN sorters
    BY DEF SorterTypeOK
<1>2. /\ DOMAIN sorters' = DOMAIN sorters /\ sorters'[active] = s
      /\ \A j \in DOMAIN sorters : j # active => sorters'[j] = sorters[j]
    BY <1>1, OneSorterTypes
<1>3. \A j \in DOMAIN sorters : Size(sorters[j]) \in Nat
    BY SorterTypes, SizeType
<1>4. Size(Active) \in Nat /\ Active = sorters[active] /\ Size(s) \in Nat
    BY <1>1, <1>3, SizeType DEF Active
<1>5. GrowsBy(active, Size(Active), n)
    BY <1>2, <1>3, <1>4 DEF GrowsBy
<1>6. LimitInv'
    BY Zenon, <1>4, <1>5, SorterGrows
<1>7. HeldInv'
    BY <1>2 DEF HeldInv, Active
<1> QED BY <1>6, <1>7

(* A spill on the thread pool advances: at its end it holds nothing. *)
LEMMA JobMemory ==
    ASSUME SorterInv, SorterTypeOK', LimitInv, HeldInv, UNCHANGED <<conf, pc, active>>,
           NEW i \in DOMAIN sorters, sorters[i].state \in {"queued", "writing"},
           NEW s \in SpillSorter, sorters' = [sorters EXCEPT ![i] = s],
           Size(s) <= Size(sorters[i]), s.state # "active",
           s.state = "done" => Size(s) = 0
    PROVE  LimitInv' /\ HeldInv'
<1>1. /\ DOMAIN sorters' = DOMAIN sorters /\ sorters'[i] = s
      /\ \A j \in DOMAIN sorters : j # i => sorters'[j] = sorters[j]
    BY OneSorterTypes DEF SorterInv
<1>2. \A j \in DOMAIN sorters : Size(sorters[j]) \in Nat
    BY SorterTypes, SizeType DEF SorterInv
<1>3. \A j \in DOMAIN sorters' : j \in DOMAIN sorters /\ Size(sorters'[j]) <= Size(sorters[j])
    BY <1>1, <1>2
<1>4. LimitInv'
    BY <1>3, NoSorterGrows DEF SorterInv
<1>5. pc \notin {"merge", "committed"}
    BY DEF SorterInv, QueueInv
<1>6. HeldInv'
    BY <1>1, <1>5 DEF HeldInv, Active
<1> QED BY <1>4, <1>6

-----------------------------------------------------------------------------
(* One lemma for each action *)

(* The active sorter while records are inserted *)
LEMMA ActiveFacts ==
    ASSUME SorterInv, pc \in InsertPoints
    PROVE  /\ Active \in SpillSorter /\ Active.pages \in Nat /\ Active.array \in Nat
           /\ Active.state = "active" /\ Active.array > 0 /\ Size(Active) \in Nat
    BY SorterTypes, SizeType DEF SorterInv, ActiveInv, SpillSorter

(* Steps that touch no memory *)
LEMMA QuietMemory ==
    ASSUME SorterInv, LimitInv, HeldInv, NextRecord \/ InputEnds \/ SpillSkip \/ DropFinished
    PROVE  LimitInv' /\ HeldInv'
<1>1. UNCHANGED <<conf, sorters, active>>
    BY Zenon DEF NextRecord, InputEnds, SpillSkip, DropFinished
<1>2. pc' \in {"grow", "spill", "close"} \cup ReturnPoints \/ pc' = pc
    BY DEF NextRecord, InputEnds, SpillSkip, DropFinished, Call, SorterInv, SorterTypeOK
<1> QED BY <1>1, <1>2, MemoryStays DEF ReturnPoints

(* The larger array is allocated only if it fits beside the old one. *)
LEMMA GrowMemory ==
    ASSUME SorterInv, SorterTypeOK', LimitInv, HeldInv, GrowPointerArray
    PROVE  LimitInv' /\ HeldInv'
<1> DEFINE wanted == 2 * (Active.pages + Active.array)
           s == [Active EXCEPT !.array = wanted]
<1>1. pc = "grow" /\ UNCHANGED <<conf, active>> /\ pc' \in {"page", "spill"}
    BY DEF GrowPointerArray, Call
<1>2. \/ UNCHANGED sorters
      \/ Fits(sorters, wanted) /\ sorters' = [sorters EXCEPT ![active].array = wanted]
    BY DEF GrowPointerArray
<1>3. CASE UNCHANGED sorters
    BY <1>1, <1>3, MemoryStays
<1>4. CASE Fits(sorters, wanted) /\ sorters' = [sorters EXCEPT ![active].array = wanted]
  <2>1. /\ Active \in SpillSorter /\ Active.pages \in Nat /\ Active.array \in Nat
        /\ Active.state = "active"
    BY Zenon, <1>1, ActiveFacts DEF InsertPoints, ReturnPoints
  <2>2. wanted \in Nat
    BY <2>1
  <2> HIDE DEF wanted
  <2>3. s \in SpillSorter
    BY <2>1, <2>2, FieldTypes
  <2>4. s.pages = Active.pages /\ s.array = wanted /\ s.state = "active"
    BY <2>1 DEF SpillSorter
  <2>5. Size(s) <= Size(Active) + wanted
    BY <2>1, <2>2, <2>4 DEF Size
  <2>6. sorters' = [sorters EXCEPT ![active] = s]
    BY <1>4 DEF Active
  <2> HIDE DEF s
  <2> QED BY Zenon, <1>1, <1>4, <2>2, <2>3, <2>4, <2>5, <2>6, ActiveMemory DEF SorterInv
<1> QED BY <1>2, <1>3, <1>4

(* A page is allocated only if it fits. *)
LEMMA PageMemory ==
    ASSUME SorterInv, SorterTypeOK', LimitInv, HeldInv, NewPage, Fits(sorters, 1),
           pc \in {"page", "initialPage"}, pc' = "insert", UNCHANGED <<conf, active>>
    PROVE  LimitInv' /\ HeldInv'
<1> DEFINE t == [Active EXCEPT !.pages = Active.pages + 1]
           s == [t EXCEPT !.room = PageRows]
<1>1. /\ Active \in SpillSorter /\ Active.pages \in Nat /\ Active.array \in Nat
      /\ Active.state = "active"
    BY Zenon, ActiveFacts DEF InsertPoints, ReturnPoints
<1>2. t \in SpillSorter
  <2>1. Active.pages + 1 \in Nat
    BY <1>1
  <2> QED BY Zenon, <1>1, <2>1, FieldTypes
<1>3. s \in SpillSorter
  <2> HIDE DEF t
  <2> QED BY <1>2, SorterAssumption, FieldTypes
<1>4. s.pages = Active.pages + 1 /\ s.array = Active.array /\ s.state = "active"
    BY <1>1 DEF SpillSorter
<1>5. Size(s) <= Size(Active) + 1
    BY <1>1, <1>4 DEF Size
<1>6. sorters' = [sorters EXCEPT ![active] = s]
    BY Zenon DEF NewPage, Active
<1> HIDE DEF s
<1> QED BY Zenon, <1>3, <1>4, <1>5, <1>6, ActiveMemory DEF SorterInv

(* acquireNewPageIfNecessary and initialCurrentPage *)
LEMMA AcquireMemory ==
    ASSUME SorterInv, SorterTypeOK', LimitInv, HeldInv, AcquirePage \/ InitialPage
    PROVE  LimitInv' /\ HeldInv'
<1>1. pc \in {"page", "initialPage"} /\ UNCHANGED <<conf, active>>
    BY DEF AcquirePage, InitialPage
<1>2. \/ UNCHANGED sorters /\ pc' \in {"insert", "spill"}
      \/ NewPage /\ Fits(sorters, 1) /\ pc' = "insert"
      \/ Fail("memory") \/ Fail("assertion")
    BY DEF AcquirePage, InitialPage, Call
<1>3. CASE UNCHANGED sorters /\ pc' \in {"insert", "spill"}
    BY <1>1, <1>3, MemoryStays
<1>4. CASE NewPage /\ Fits(sorters, 1) /\ pc' = "insert"
    BY <1>1, <1>4, PageMemory
<1>5. CASE Fail("memory") \/ Fail("assertion")
    BY Zenon, <1>1, <1>5, FailMemory DEF SorterInv
<1> QED BY <1>2, <1>3, <1>4, <1>5

(* A record takes room in the page that the sorter has. *)
LEMMA InsertMemory ==
    ASSUME SorterInv, SorterTypeOK', LimitInv, HeldInv, InsertRecord
    PROVE  LimitInv' /\ HeldInv'
<1> DEFINE s == sorters'[active]
<1>1. pc = "insert" /\ UNCHANGED <<conf, active>> /\ active \in DOMAIN sorters
    BY DEF InsertRecord, SorterInv, SorterTypeOK
<1>2. \/ /\ sorters' = [sorters EXCEPT ![active].rows = Append(@, Len(parts)), ![active].room = @ - 1]
         /\ pc' = "next"
      \/ Fail("assertion")
    BY Zenon DEF InsertRecord
<1>3. CASE Fail("assertion")
    BY <1>1, <1>3, FailMemory DEF SorterInv
<1>4. CASE /\ sorters' = [sorters EXCEPT ![active].rows = Append(@, Len(parts)), ![active].room = @ - 1]
           /\ pc' = "next"
  <2>1. Active \in SpillSorter /\ Active.state = "active" /\ Size(Active) \in Nat
    BY Zenon, <1>1, ActiveFacts DEF InsertPoints
  <2>2. s.pages = Active.pages /\ s.array = Active.array /\ s.state = "active"
    BY <1>1, <1>4, <2>1 DEF Active, SpillSorter
  <2>3. s \in SpillSorter
    BY <1>1, ElementOfSeq, LenProperties DEF SorterTypeOK
  <2>4. sorters' = [sorters EXCEPT ![active] = s]
    BY Zenon, <1>1, <1>4
  <2>5. Size(s) <= Size(Active) + 0
    BY <2>1, <2>2 DEF Size
  <2> HIDE DEF s
  <2> QED BY Zenon, <1>1, <1>4, <2>2, <2>3, <2>4, <2>5, ActiveMemory DEF SorterInv
<1> QED BY Zenon, <1>2, <1>3, <1>4

(* A synchronous spill leaves an array of one unit, no more than there was. *)
LEMMA SyncMemory ==
    ASSUME SorterInv, SorterTypeOK', LimitInv, HeldInv, SpillSync
    PROVE  LimitInv' /\ HeldInv'
<1>1. pc = "spill" /\ UNCHANGED <<conf, active>> /\ ret \in ReturnPoints
    BY DEF SpillSync, SorterInv, SorterTypeOK
<1>2. \/ sorters' = [sorters EXCEPT ![active] = NewSpillSorter] /\ pc' = ret
      \/ Fail("bounds") \/ Fail("disk")
    BY Zenon DEF SpillSync
<1>3. CASE Fail("bounds") \/ Fail("disk")
    BY Zenon, <1>1, <1>3, FailMemory DEF SorterInv
<1>4. CASE sorters' = [sorters EXCEPT ![active] = NewSpillSorter] /\ pc' = ret
  <2>1. Active.pages \in Nat /\ Active.array \in Nat /\ Active.array > 0
    BY Zenon, <1>1, ActiveFacts DEF InsertPoints
  <2>2. Size(NewSpillSorter) <= Size(Active) + 0
    BY <2>1, NewSorterFacts DEF Size
  <2>3. NewSpillSorter \in SpillSorter /\ NewSpillSorter.state = "active"
    BY SorterTypes, NewSorterFacts DEF SorterInv
  <2>4. pc' \notin {"wait", "merge", "committed"}
    BY <1>1, <1>4 DEF ReturnPoints
  <2> QED BY Zenon, <1>1, <1>4, <2>2, <2>3, <2>4, ActiveMemory DEF SorterInv
<1> QED BY <1>2, <1>3, <1>4

(* A sorter that is submitted keeps its memory. *)
LEMMA SubmitMemory ==
    ASSUME SorterInv, SorterTypeOK', LimitInv, HeldInv, SpillSubmit
    PROVE  LimitInv' /\ HeldInv'
<1> DEFINE s == [Active EXCEPT !.state = "queued"]
<1>1. /\ pc = "spill" /\ pc' = "wait" /\ UNCHANGED <<conf, active>>
      /\ sorters' = [sorters EXCEPT ![active].state = "queued"]
    BY Zenon DEF SpillSubmit
<1>2. Active \in SpillSorter /\ Size(Active) \in Nat
    BY <1>1, ActiveFacts DEF InsertPoints
<1>3. s \in SpillSorter
    BY Zenon, <1>2, FieldTypes DEF SorterStates
<1>4. s.pages = Active.pages /\ s.array = Active.array /\ s.state = "queued"
    BY <1>2 DEF SpillSorter
<1>5. Size(s) <= Size(Active) + 0
    BY <1>2, <1>4 DEF Size
<1>6. sorters' = [sorters EXCEPT ![active] = s]
    BY <1>1 DEF Active
<1> HIDE DEF s
<1> QED BY Zenon, <1>1, <1>3, <1>4, <1>5, <1>6, ActiveMemory DEF SorterInv

(* The array of the next sorter is allocated only if it fits. *)
LEMMA NextSorterMemory ==
    ASSUME SorterInv, SorterTypeOK', LimitInv, HeldInv, NextSorter
    PROVE  LimitInv' /\ HeldInv'
<1>1. pc = "wait" /\ UNCHANGED conf /\ ret \in ReturnPoints
    BY DEF NextSorter, SorterInv, SorterTypeOK
<1>2. \/ Fail("memory") /\ UNCHANGED active
      \/ /\ Fits(sorters, 1) /\ sorters' = Append(sorters, NewSpillSorter)
         /\ active' = Len(sorters) + 1 /\ pc' = ret
    BY Zenon DEF NextSorter
<1>3. CASE Fail("memory") /\ UNCHANGED active
    BY <1>1, <1>3, FailMemory DEF SorterInv
<1>4. CASE /\ Fits(sorters, 1) /\ sorters' = Append(sorters, NewSpillSorter)
           /\ active' = Len(sorters) + 1 /\ pc' = ret
  <2>1. /\ Len(sorters') = Len(sorters) + 1
        /\ \A j \in 1 .. Len(sorters) : sorters'[j] = sorters[j]
        /\ sorters'[Len(sorters) + 1] = NewSpillSorter
    BY <1>4, AppendProperties, SorterTypes DEF SorterInv, SorterTypeOK
  <2>2. /\ DOMAIN sorters = 1 .. Len(sorters) /\ DOMAIN sorters' = 1 .. Len(sorters) + 1
        /\ Len(sorters) \in Nat
    BY Zenon, <2>1, LenProperties DEF SorterInv, SorterTypeOK
  <2>3. \A j \in DOMAIN sorters' : \/ j \in DOMAIN sorters /\ sorters'[j] = sorters[j]
                                   \/ j = active' /\ sorters'[j] = NewSpillSorter
    BY <1>4, <2>1, <2>2
  <2>4. \A j \in DOMAIN sorters : Size(sorters[j]) \in Nat
    BY SorterTypes, SizeType DEF SorterInv
  <2>5. Size(NewSpillSorter) = 1 /\ NewSpillSorter.state = "active"
    BY NewSorterFacts DEF Size
  <2>7. LimitInv'
    <3>1. GrowsBy(Len(sorters) + 1, 0, 1) /\ 0 \in Nat /\ 1 \in Nat
      BY <1>4, <2>3, <2>4, <2>5 DEF GrowsBy
    <3> QED BY Zenon, <1>1, <1>4, <3>1, SorterGrows DEF SorterInv
  <2>8. \A j \in DOMAIN sorters : sorters[j].state # "active"
    BY <1>1 DEF HeldInv, Active
  <2>9. HeldInv'
    BY <1>1, <1>4, <2>3, <2>5, <2>8 DEF HeldInv, ReturnPoints
  <2> QED BY <2>7, <2>9
<1> QED BY <1>2, <1>3, <1>4

(* A spill on the thread pool *)
LEMMA JobsMemory ==
    ASSUME SorterInv, SorterTypeOK', LimitInv, HeldInv, NEW i \in DOMAIN sorters, Job(i)
    PROVE  LimitInv' /\ HeldInv'
<1>1. UNCHANGED <<conf, pc, active>> /\ sorters[i].state \in {"queued", "writing"}
    BY DEF Job, JobBegin, JobEnd, JobFails
<1>2. \/ sorters' = [sorters EXCEPT ![i].state = "writing"]
      \/ sorters' = [sorters EXCEPT ![i].state = "failed"]
      \/ sorters' = [sorters EXCEPT ![i] = Freed([@ EXCEPT !.state = "done"])]
    BY DEF Job, JobBegin, JobEnd, JobFails
<1>3. sorters[i] \in SpillSorter /\ Size(sorters[i]) \in Nat
    BY SorterTypes, SizeType DEF SorterInv
<1>4. ASSUME NEW t \in {"writing", "failed"}, sorters' = [sorters EXCEPT ![i].state = t]
      PROVE  LimitInv' /\ HeldInv'
  <2> DEFINE s == [sorters[i] EXCEPT !.state = t]
  <2>1. s \in SpillSorter
    BY Zenon, <1>3, <1>4, FieldTypes DEF SorterStates
  <2>2. s.pages = sorters[i].pages /\ s.array = sorters[i].array /\ s.state = t
    BY Zenon, <1>3 DEF SpillSorter
  <2>3. sorters' = [sorters EXCEPT ![i] = s]
    BY <1>4
  <2>4. Size(s) <= Size(sorters[i]) /\ s.state \notin {"active", "done"}
    BY <1>3, <1>4, <2>2 DEF Size
  <2> HIDE DEF s
  <2> QED BY Zenon, <1>1, <2>1, <2>3, <2>4, JobMemory
<1>5. CASE sorters' = [sorters EXCEPT ![i] = Freed([@ EXCEPT !.state = "done"])]
  <2> DEFINE d == [sorters[i] EXCEPT !.state = "done"]
             s == Freed(d)
  <2>1. d \in SpillSorter /\ d.state = "done"
    BY Zenon, <1>3 DEF SpillSorter, SorterStates
  <2>2. sorters' = [sorters EXCEPT ![i] = s]
    BY <1>5
  <2> HIDE DEF d
  <2>3. s \in SpillSorter /\ s.state = "done"
    BY <2>1, FreedTypes
  <2>4. Size(s) = 0
    BY <2>1 DEF Freed, Size, SpillSorter
  <2> HIDE DEF s
  <2>5. Size(s) <= Size(sorters[i]) /\ s.state # "active"
    BY <1>3, <2>3, <2>4
  <2> QED BY Zenon, <1>1, <2>2, <2>3, <2>4, <2>5, JobMemory
<1> QED BY Zenon, <1>2, <1>4, <1>5

(* closeAndWriteOutput: the final freeMemory leaves nothing allocated. *)
LEMMA CloseMemory ==
    ASSUME SorterInv, SorterTypeOK', LimitInv, HeldInv,
           InputFails \/ CloseGet \/ FinalWrite \/ Merge
    PROVE  LimitInv' /\ HeldInv'
<1>1. UNCHANGED <<conf, active>>
    BY Zenon DEF InputFails, CloseGet, FinalWrite, Merge
<1>2. \/ \E why : Fail(why)
      \/ UNCHANGED sorters /\ (pc' = "final" \/ pc' = pc \/ (pc = "merge" /\ pc' = "committed"))
      \/ FreeMemory /\ pc' = "merge"
    BY Zenon DEF InputFails, CloseGet, FinalWrite, Merge
<1>3. CASE \E why : Fail(why)
    BY Zenon, <1>1, <1>3, FailMemory DEF SorterInv
<1>4. CASE UNCHANGED sorters /\ (pc' = "final" \/ pc' = pc \/ (pc = "merge" /\ pc' = "committed"))
    BY Zenon, <1>1, <1>4, MemoryStays
<1>5. CASE FreeMemory /\ pc' = "merge"
  <2>1. LimitInv'
    BY <1>1, <1>5, FreeMemoryLimit DEF SorterInv
  <2>2. /\ DOMAIN sorters' = DOMAIN sorters
        /\ \A j \in DOMAIN sorters :
              /\ sorters'[j].state = sorters[j].state
              /\ Size(sorters'[j]) = 0 \/ sorters'[j] = sorters[j]
              /\ j = active \/ sorters[j].state \in {"queued", "writing", "failed"}
                    => Size(sorters'[j]) = 0
    BY Zenon, <1>5, FreeMemoryFacts DEF SorterInv
  <2>3. \A j \in DOMAIN sorters : sorters[j].state \in SorterStates
    BY SorterTypes, SizeType DEF SorterInv
  <2>4. \A j \in DOMAIN sorters' : Size(sorters'[j]) = 0
    BY Zenon, <2>2, <2>3 DEF HeldInv, SorterStates
  <2>5. HeldInv'
    BY <1>1, <1>5, <2>2, <2>4 DEF HeldInv
  <2> QED BY <2>1, <2>5
<1> QED BY Zenon, <1>2, <1>3, <1>4, <1>5

(* A new external sorter has one array of one unit. *)
LEMMA InitMemory == Init => LimitInv /\ HeldInv
<1> SUFFICES ASSUME Init PROVE LimitInv /\ HeldInv
    BY Zenon
<1>1. /\ conf.limit \in Limits /\ pc = "next" /\ sorters = <<NewSpillSorter>> /\ active = 1
    BY DEF Init
<1>2. DOMAIN sorters = {1} /\ sorters[1] = NewSpillSorter
    BY <1>1
<1>3. NewSpillSorter.pages + NewSpillSorter.array = 1 /\ NewSpillSorter.state = "active"
    BY NewSorterFacts
<1>4. Units(sorters) = {1} \X (1 .. 1)
    BY <1>2, <1>3 DEF Units
<1>5. Units(sorters) = {<<1, 1>>}
    BY <1>4
<1>6. IsFiniteSet(Units(sorters)) /\ Used(sorters) = 1
    BY Zenon, <1>5, FS_Singleton DEF Used
<1>7. conf.limit \in Nat /\ 1 <= conf.limit
    BY <1>1, SorterAssumption
<1> QED BY Zenon, <1>1, <1>2, <1>3, <1>6, <1>7 DEF LimitInv, HeldInv

(* The sorters of a write together never hold more memory than the         *)
(* allocator has granted, and when the spill files are merged all pages    *)
(* and arrays have been given back, for any memory limit and any number of *)
(* asynchronous spills.                                                    *)
THEOREM MemoryReturnedHolds == Spec => []MemoryReturned
<1>1. SorterInv /\ SorterInv' /\ LimitInv /\ HeldInv /\ [Next]_vars => LimitInv' /\ HeldInv'
  <2> SUFFICES ASSUME SorterInv, SorterTypeOK', LimitInv, HeldInv, [Next]_vars
               PROVE  LimitInv' /\ HeldInv'
    BY DEF SorterInv
  <2>1. CASE TaskStep
    BY Zenon, <2>1, QuietMemory, GrowMemory, AcquireMemory, InsertMemory, SyncMemory,
       SubmitMemory, NextSorterMemory, CloseMemory DEF TaskStep
  <2>2. CASE \E i \in DOMAIN sorters : Job(i)
    BY Zenon, <2>2, JobsMemory
  <2>3. CASE UNCHANGED vars
    BY Zenon, <2>3, MemoryStays DEF vars
  <2> QED BY Zenon, <2>1, <2>2, <2>3 DEF Next
<1>2. SorterInv /\ LimitInv /\ HeldInv => MemoryReturned
  <2> SUFFICES ASSUME SorterInv, LimitInv, HeldInv PROVE MemoryReturned
    OBVIOUS
  <2>1. ASSUME pc \in {"merge", "committed"} PROVE Used(sorters) = 0
    <3>1. \A i \in DOMAIN sorters : sorters[i].pages + sorters[i].array = 0
      BY <2>1 DEF HeldInv, Size
    <3>2. Units(sorters) = {}
      BY <3>1 DEF Units
    <3> QED BY <3>2, FS_EmptySet DEF Used
  <2> QED BY <2>1 DEF LimitInv, MemoryReturned
<1> QED BY SorterInvariant, InitMemory, <1>1, <1>2, PTL DEF Spec

=============================================================================
