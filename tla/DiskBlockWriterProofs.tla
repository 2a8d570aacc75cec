------------------------ MODULE DiskBlockWriterProofs ------------------------
(* Theorems about the hash-based columnar shuffle: the invariants Inv,     *)
(* MemoryInv and RowsInv, and what follows from them.                      *)
EXTENDS DiskBlockWriterMemory, DiskBlockWriterRows, FiniteSetTheorems

LEMMA NextInv == Inv /\ [Next]_vars => Inv'
<1> SUFFICES ASSUME Inv, [Next]_vars PROVE Inv'
  OBVIOUS
<1>1. IsFiniteSet(Writers) /\ currentWriters \subseteq Writers
  BY ConfigAssumption, InvParts, Zenon DEF TypeOK
<1>2. Cardinality(currentWriters) \in Nat
  BY <1>1, FS_Subset, FS_CardinalityType, Zenon
<1> QED
  BY <1>2, StepInv, Zenon

(* Inv is an invariant: who holds which monitor and flag, and how the      *)
(* buffers of a writer follow each other, as Inv says.                     *)
THEOREM InvHolds == Spec => []Inv
BY InitInv, NextInv, PTL DEF Spec

-----------------------------------------------------------------------------
(* The pages the allocator has handed out are those the buffers hold. *)
CountInv ==
    /\ freePages \in Nat
    /\ IsFiniteSet(PagesIn(Buffers))
    /\ freePages + Cardinality(PagesIn(Buffers)) = TotalPages

LEMMA FreeCount ==
    ASSUME CountInv, NEW S \in SUBSET Buffers, FreeMemory(S), conf' = conf
    PROVE  CountInv'
<1> DEFINE held == PagesIn(Buffers)
           given == PagesIn(S)
<1>1. held' = held \ given /\ given \subseteq held
  BY FreedPages, Zenon
<1>2. freePages' = freePages + Cardinality(given)
  BY Zenon DEF FreeMemory
<1>3. IsFiniteSet(held) /\ freePages \in Nat /\ freePages + Cardinality(held) = TotalPages
  BY Zenon DEF CountInv
<1> HIDE DEF held, given
<1>4. /\ IsFiniteSet(held \ given)
      /\ Cardinality(held \ given) = Cardinality(held) - Cardinality(held \cap given)
  BY <1>3, FS_Difference, Zenon
<1>5. held \cap given = given
  BY <1>1, Zenon
<1>6. Cardinality(held) \in Nat /\ Cardinality(given) \in Nat
  BY <1>1, <1>3, FS_Subset, FS_CardinalityType, Zenon
<1>7. Cardinality(held \ given) = Cardinality(held) - Cardinality(given)
  BY <1>4, <1>5, Zenon
<1>8. freePages' + Cardinality(held \ given) = TotalPages /\ freePages' \in Nat
  <2>1. /\ freePages + Cardinality(given) + (Cardinality(held) - Cardinality(given)) = TotalPages
        /\ freePages + Cardinality(given) \in Nat
    BY <1>3, <1>6, CountFreed, Zenon
  <2> QED
    BY <1>2, <1>7, <2>1, Zenon
<1> QED
  BY <1>1, <1>4, <1>8, ConfSame, Zenon DEF CountInv, held

LEMMA StoreCount ==
    ASSUME CountInv, PageInv, NEW b \in Buffers, freePages > 0, conf' = conf,
           pages' = [pages EXCEPT ![b] = @ + 1], freePages' = freePages - 1
    PROVE  CountInv'
<1> DEFINE held == PagesIn(Buffers)
           new == <<b, pages[b] + 1>>
<1>1. held' = held \cup {new} /\ new \notin held
  BY NewPage, Zenon
<1>2. IsFiniteSet(held) /\ freePages \in Nat /\ freePages + Cardinality(held) = TotalPages
  BY Zenon DEF CountInv
<1> HIDE DEF held, new
<1>3. /\ IsFiniteSet(held \cup {new}) /\ Cardinality(held \cup {new}) = Cardinality(held) + 1
      /\ Cardinality(held) \in Nat
  BY <1>1, <1>2, FS_AddElement, FS_CardinalityType, Zenon
<1>4. freePages' + Cardinality(held \cup {new}) = TotalPages /\ freePages' \in Nat
  BY <1>2, <1>3, CountTaken, Zenon
<1> QED
  BY <1>1, <1>3, <1>4, ConfSame, Zenon DEF CountInv, held

MemoryInv == PageInv /\ CountInv

LEMMA InitMemory == Init => MemoryInv
<1> SUFFICES ASSUME Init PROVE CountInv
  BY InitPages, Zenon DEF MemoryInv
<1>1. \A b \in Buffers : pages[b] = 0
  BY Zenon DEF Init
<1>2. PagesIn(Buffers) = {}
  BY <1>1 DEF PagesIn
<1>3. freePages = TotalPages /\ TotalPages \in Nat
  BY InitInv, ConfFacts, InvParts, Zenon DEF Init
<1> QED
  BY <1>2, <1>3, FS_EmptySet DEF CountInv

LEMMA NextMemory == Inv /\ Inv' /\ MemoryInv /\ [Next]_vars => MemoryInv'
<1> SUFFICES ASSUME Inv, Inv', MemoryInv, [Next]_vars PROVE MemoryInv'
  OBVIOUS
<1>1. PageInv /\ CountInv /\ freePages \in Nat
  BY Zenon DEF MemoryInv, CountInv
<1>2. PageInv' /\ PageStep /\ conf' = conf
  BY <1>1, NextPages, Zenon
<1>3. CASE UNCHANGED <<pages, freePages>>
  BY <1>1, <1>2, <1>3, ConfSame, Zenon DEF MemoryInv, CountInv, PagesIn
<1>4. CASE ~UNCHANGED <<pages, freePages>>
  BY <1>1, <1>2, <1>4, FreeCount, StoreCount, Zenon DEF MemoryInv, PageStep
<1> QED
  BY <1>3, <1>4, Zenon

(* MemoryInv is an invariant: pages hold the rows of their buffer, and     *)
(* none is lost between buffers and allocator.                             *)
THEOREM MemoryInvHolds == Spec => []MemoryInv
BY InvHolds, InitMemory, NextMemory, PTL DEF Spec

(* The pages of a task that has not failed are not freed while rows live   *)
(* in them, whoever frees them.                                            *)
THEOREM NoUseAfterFreeHolds == Spec => []NoUseAfterFree
<1>1. Inv /\ MemoryInv => NoUseAfterFree
  BY RowsInPages, Zenon DEF MemoryInv
<1> QED
  BY <1>1, InvHolds, MemoryInvHolds, PTL

(* Pages are neither lost nor counted twice, and all of them are back when *)
(* every task has ended and the pool is idle.                              *)
THEOREM PagesConservedHolds == Spec => []PagesConserved
<1>1. Inv /\ MemoryInv => PagesConserved
  <2> SUFFICES ASSUME Inv, MemoryInv PROVE PagesConserved
    OBVIOUS
  <2>1. freePages \in Nat /\ freePages + Cardinality(PagesIn(Buffers)) = TotalPages
    BY Zenon DEF MemoryInv, CountInv
  <2>2. ASSUME Ended, NoJobPending PROVE freePages = TotalPages
    <3>1. Cardinality(PagesIn(Buffers)) = 0
      BY <2>2, NoPagesAtEnd, FS_EmptySet, Zenon DEF MemoryInv
    <3> QED
      BY <2>1, <3>1
  <2> QED
    BY <2>1, <2>2, Zenon DEF PagesConserved
<1> QED
  BY <1>1, InvHolds, MemoryInvHolds, PTL

-----------------------------------------------------------------------------
(* The rows *)

(* RowsInv is an invariant: no row is in two places, none but the last is  *)
(* missing, close waits for the spill tasks of its writer, and without     *)
(* asynchronous spilling the checksum is carried on.                       *)
THEOREM RowsInvHolds == Spec => []RowsInv
BY InvHolds, InitRows, NextRows, PTL DEF Spec

(* A set without two elements *)
LEMMA AtMostOne ==
    ASSUME NEW S, \A x, y \in S : x = y
    PROVE  /\ Cardinality(S) \in {0, 1}
           /\ S # {} => Cardinality(S) = 1
           /\ S = {} => Cardinality(S) = 0
<1>1. CASE S = {}
  BY <1>1, FS_EmptySet
<1>2. CASE S # {}
  <2>1. PICK x : S = {x}
    BY <1>2
  <2> QED
    BY <1>2, <2>1, FS_Singleton
<1> QED
  BY <1>1, <1>2

(* A sequence that enumerates 1 .. n has length n. *)
LEMMA RangeLen ==
    ASSUME NEW s \in Seq(Nat), NoRepeat(s), NEW n \in Nat, Range(s) = 1 .. n
    PROVE  Len(s) = n
<1>1. /\ Len(s) \in Nat
      /\ s \in Surjection(1 .. Len(s), 1 .. n) /\ s \in Injection(1 .. Len(s), 1 .. n)
  BY Enumeration, Zenon
<1>2. ASSUME NEW m \in Nat PROVE IsFiniteSet(1 .. m) /\ Cardinality(1 .. m) = m
  <2>1. IsFiniteSet(1 .. m) /\ Cardinality(1 .. m) = IF 1 > m THEN 0 ELSE m - 1 + 1
    BY FS_Interval
  <2> QED
    BY <2>1
<1>3. Cardinality(1 .. n) = Cardinality(1 .. Len(s))
  BY <1>1, <1>2, FS_Surjection, Zenon
<1> QED
  BY <1>1, <1>2, <1>3, Zenon

(* A row that insertRow has returned for is in exactly one place, once: in *)
(* the file or in one of the writer's buffers, whoever spills.             *)
THEOREM NoRowLostOrRepeatedHolds == Spec => []NoRowLostOrRepeated
<1>1. Inv /\ RowsInv => NoRowLostOrRepeated
  <2> SUFFICES ASSUME Inv, RowsInv, NEW w \in Writers, NEW r \in 1 .. insertRecords[w]
               PROVE  Copies(w, r) <= 1 /\ (r < insertRecords[w] => Copies(w, r) = 1)
    BY Zenon DEF NoRowLostOrRepeated
  <2> DEFINE A == FileCopies(w, r)
             B == BufferCopies(w, r)
  <2>1. /\ \A i, j \in A : i = j
        /\ \A x, y \in B : x = y
        /\ A = {} \/ B = {}
        /\ r < insertRecords[w] => A # {} \/ B # {}
    BY RowCopies, Zenon
  <2>2. Copies(w, r) = Cardinality(A) + Cardinality(B)
    BY Zenon DEF Copies, FileCopies, BufferCopies
  <2> HIDE DEF A, B
  <2>3. /\ Cardinality(A) \in {0, 1} /\ (A # {} => Cardinality(A) = 1) /\ (A = {} => Cardinality(A) = 0)
        /\ Cardinality(B) \in {0, 1} /\ (B # {} => Cardinality(B) = 1) /\ (B = {} => Cardinality(B) = 0)
    BY <2>1, AtMostOne, Zenon
  <2> QED
    BY <2>1, <2>2, <2>3, OneCopy, Zenon
<1> QED
  BY <1>1, InvHolds, RowsInvHolds, PTL

(* The file of a closed writer holds every inserted row exactly once, and  *)
(* nothing else, unless one of its asynchronous spill tasks has failed.    *)
THEOREM ClosedFileCompleteHolds == Spec => []ClosedFileComplete
<1>1. Inv /\ RowsInv => ClosedFileComplete
  <2> SUFFICES ASSUME Inv, RowsInv, NEW w \in Writers, w \notin currentWriters,
                      \A c \in BuffersOf(w) : job[c] # "failed"
               PROVE  FileComplete(w)
    BY Zenon DEF ClosedFileComplete
  <2>1. Range(file[w]) = 1 .. insertRecords[w]
    BY ClosedRows, Zenon
  <2>2. insertRecords[w] \in 0 .. MaxRows /\ file[w] \in Seq(Nat) /\ NoRepeat(file[w])
    BY InvParts, Zenon DEF BufferTypes, RowsInv, OnceInv
  <2>3. insertRecords[w] \in Nat
    BY <2>2, ConfigAssumption
  <2> QED
    BY <2>1, <2>2, <2>3, RangeLen, Zenon DEF FileComplete
<1> QED
  BY <1>1, InvHolds, RowsInvHolds, PTL

(* With synchronous spilling the checksum of a closed writer covers its    *)
(* whole file.                                                             *)
THEOREM ChecksumCoversFileHolds == Spec => []ChecksumCoversFile
<1>1. RowsInv => ChecksumCoversFile
  BY Zenon DEF RowsInv, SyncInv, ChecksumCoversFile
<1> QED
  BY <1>1, RowsInvHolds, PTL

=============================================================================
