-------------------- MODULE BoundedShuffleAllocatorProofs --------------------
(* For every number of blocks, page-table size and memory budget: the      *)
(* allocator's types and budget, and the resolution of record pointers.    *)
EXTENDS BoundedShuffleAllocator, FiniteSetTheorems, TLAPS

(* The page table, the bit set and the pageNumber fields agree; a block    *)
(* fits in the offset range of a pointer.                                  *)
PageTableConsistent ==
    /\ \A b \in Blocks : Live(b) =>
          /\ pageTable[pageNumber[b]] = b
          /\ size[b] <= MaximumPageSize
    /\ \A p \in PageNumbers : p \in allocatedPages <=> pageTable[p] # Null

IInv == TypeOK /\ PageTableConsistent

(* What is granted never exceeds the request, nor what is left. *)
LEMMA AcquireMemoryBound ==
    ASSUME TypeOK, NEW required \in Nat
    PROVE  /\ AcquireMemory(required) \in Nat
           /\ AcquireMemory(required) <= required
           /\ allocatedMemory + AcquireMemory(required) <= TotalMemory
BY SizesAssumption DEF AcquireMemory, TypeOK

(* The initial table is empty and so is the set of live blocks. *)
LEMMA InitIInv == Init => IInv
BY SizesAssumption
   DEF Init, IInv, TypeOK, PageTableConsistent, Live, PageNumbers, NO_PAGE

(* A refused allocation leaves the table alone and gives its grant back. *)
LEMMA AllocateFailsIInv ==
    ASSUME IInv, NEW required \in Nat, AllocateFails(required)
    PROVE  IInv'
<1>1. allocatedMemory' = allocatedMemory
  BY AcquireMemoryBound DEF AllocateFails, IInv, TypeOK
<1>2. /\ UNCHANGED <<pageTable, allocatedPages, pageNumber, size>>
      /\ outcome' \in [call : {"TooLargePage", "OutOfMemory", "TooManyPages"},
                       required : Nat]
  BY DEF AllocateFails, Fails
<1>3. TypeOK'
  BY <1>1, <1>2 DEF IInv, TypeOK
<1>4. PageTableConsistent'
  BY <1>2 DEF IInv, PageTableConsistent, Live
<1> QED
  BY <1>3, <1>4 DEF IInv

(* A new block gets a page number no live block has. *)
LEMMA AllocateMemoryBlockIInv ==
    ASSUME IInv, NEW b \in Blocks, NEW required \in Nat,
           AllocateMemoryBlock(b, required)
    PROVE  IInv'
<1>1. PICK p \in PageNumbers :
         /\ IsNextClearBit(p)
         /\ pageTable' = [pageTable EXCEPT ![p] = b]
         /\ allocatedPages' = allocatedPages \cup {p}
         /\ pageNumber' = [pageNumber EXCEPT ![b] = p]
  BY Zenon DEF AllocateMemoryBlock
<1>2. AcquireMemory(required) = required /\ required <= MaximumPageSize
  BY AcquireMemoryBound, SizesAssumption DEF AllocateMemoryBlock, IInv
<1>3. TypeOK'
  <2>1. allocatedMemory' \in Int /\ allocatedMemory' <= TotalMemory
    BY AcquireMemoryBound, SizesAssumption DEF AllocateMemoryBlock, IInv, TypeOK
  <2>2. /\ pageTable' \in [PageNumbers -> Blocks \cup {Null}]
        /\ allocatedPages' \subseteq PageNumbers
        /\ pageNumber' \in [Blocks -> PageNumbers \cup {NO_PAGE, FREED_PAGE}]
    BY <1>1 DEF IInv, TypeOK
  <2>3. size' \in [Blocks -> Nat]
    BY <1>2 DEF AllocateMemoryBlock, IInv, TypeOK
  <2>4. outcome' \in [call : {"allocated"}, required : Nat]
    BY DEF AllocateMemoryBlock
  <2> QED
    BY <2>1, <2>2, <2>3, <2>4 DEF TypeOK
<1>4. pageTable[p] = Null
  BY <1>1 DEF IsNextClearBit, IInv, PageTableConsistent
<1>5. PageTableConsistent'
  <2>1. ASSUME NEW c \in Blocks, Live(c)'
        PROVE  pageTable'[pageNumber'[c]] = c /\ size'[c] <= MaximumPageSize
    <3>1. CASE c = b
      BY <1>1, <1>2, <3>1 DEF AllocateMemoryBlock, IInv, TypeOK
    <3>2. CASE c # b
      <4>1. pageNumber'[c] = pageNumber[c] /\ size'[c] = size[c]
        BY <1>1, <3>2 DEF AllocateMemoryBlock, IInv, TypeOK
      <4>2. Live(c) /\ pageTable[pageNumber[c]] = c
        BY <2>1, <4>1 DEF Live, IInv, PageTableConsistent
      <4>3. pageNumber[c] # p
        BY <4>2, <1>4, NullAssumption
      <4> QED
        BY <1>1, <2>1, <4>1, <4>2, <4>3 DEF IInv, TypeOK, PageTableConsistent, Live
    <3> QED
      BY <3>1, <3>2
  <2>2. \A q \in PageNumbers : q \in allocatedPages' <=> pageTable'[q] # Null
    BY <1>1, NullAssumption DEF IInv, TypeOK, PageTableConsistent
  <2> QED
    BY <2>1, <2>2 DEF PageTableConsistent
<1> QED
  BY <1>3, <1>5 DEF IInv

(* Freeing clears exactly the entry of the freed block. *)
LEMMA FreeIInv ==
    ASSUME IInv, NEW b \in Blocks, Free(b)
    PROVE  IInv'
<1>1. CASE pageNumber[b] = FREED_PAGE
  <2>1. UNCHANGED <<allocatedMemory, pageTable, allocatedPages, pageNumber, size>>
    BY <1>1, SizesAssumption DEF Free, Live, FREED_PAGE, PageNumbers
  <2>2. outcome' \in [call : {"alreadyFreed"}, required : Nat]
    BY <1>1, SizesAssumption DEF Free, Live, FREED_PAGE, PageNumbers
  <2>3. TypeOK'
    BY <2>1, <2>2 DEF IInv, TypeOK
  <2> QED
    BY <2>1, <2>3 DEF IInv, PageTableConsistent, Live
<1>2. CASE Live(b)
  <2>1. /\ allocatedMemory' = allocatedMemory - size[b]
        /\ pageTable' = [pageTable EXCEPT ![pageNumber[b]] = Null]
        /\ allocatedPages' = allocatedPages \ {pageNumber[b]}
        /\ pageNumber' = [pageNumber EXCEPT ![b] = FREED_PAGE]
        /\ outcome' = [call |-> "freed", required |-> 0]
        /\ size' = size
    BY <1>2, SizesAssumption DEF Free, Live, FREED_PAGE, PageNumbers
  <2>2. allocatedMemory' \in Int /\ allocatedMemory' <= TotalMemory
    BY <2>1, SizesAssumption DEF IInv, TypeOK
  <2>3. TypeOK'
    BY <2>1, <2>2, <1>2 DEF IInv, TypeOK, Live
  <2>4. ASSUME NEW c \in Blocks, Live(c)'
        PROVE  pageTable'[pageNumber'[c]] = c /\ size'[c] <= MaximumPageSize
    <3>1. c # b
      BY <2>1, <2>4, SizesAssumption DEF Live, IInv, TypeOK, FREED_PAGE, PageNumbers
    <3>2. pageNumber'[c] = pageNumber[c] /\ Live(c)
      BY <2>1, <2>4, <3>1 DEF Live, IInv, TypeOK
    <3>3. pageNumber[c] # pageNumber[b]
      BY <1>2, <3>1, <3>2 DEF IInv, PageTableConsistent
    <3> QED
      BY <2>1, <3>2, <3>3 DEF IInv, TypeOK, PageTableConsistent, Live
  <2>5. \A q \in PageNumbers : q \in allocatedPages' <=> pageTable'[q] # Null
    BY <1>2, <2>1 DEF IInv, TypeOK, PageTableConsistent, Live
  <2> QED
    BY <2>3, <2>4, <2>5 DEF IInv, PageTableConsistent
<1> QED
  BY <1>1, <1>2 DEF Free

(* IInv is inductive. *)
LEMMA NextIInv == IInv /\ [Next]_vars => IInv'
<1> SUFFICES ASSUME IInv, [Next]_vars PROVE IInv'
  OBVIOUS
<1>1. ASSUME NEW required \in Nat, AllocateBytes(required) PROVE IInv'
  BY <1>1, AllocateFailsIInv, AllocateMemoryBlockIInv DEF AllocateBytes
<1>2. ASSUME NEW required \in Requests, Allocate(required) \/ AllocateArray(required)
      PROVE  IInv'
  <2>1. required \in Nat /\ PageSize \in Nat
    BY SizesAssumption
  <2>2. PICK bytes \in Nat : AllocateBytes(bytes)
    BY <1>2, <2>1 DEF Allocate, AllocateArray
  <2> QED
    BY <1>1, <2>2
<1>3. ASSUME NEW b \in Blocks, Free(b) PROVE IInv'
  BY <1>3, FreeIInv
<1>4. CASE UNCHANGED vars
  BY <1>4 DEF IInv, TypeOK, PageTableConsistent, Live, vars
<1> QED
  BY <1>2, <1>3, <1>4 DEF Next

(* The types hold and totalMemory is never exceeded, for every budget. *)
THEOREM AllocatorTypeOK == Spec => []TypeOK
<1>1. IInv => TypeOK
  BY DEF IInv
<1> QED
  BY <1>1, InitIInv, NextIInv, PTL DEF Spec

-----------------------------------------------------------------------------
(* The counter.  Blocks may be any set, so that the bytes are finite is    *)
(* part of the invariant.                                                  *)
CountInv == IsFiniteSet(LiveBytes) /\ AccountingExact

(* A block has as many bytes as its size says. *)
LEMMA BlockBytes ==
    ASSUME NEW b, NEW n \in Nat
    PROVE  /\ IsFiniteSet({b} \X (0 .. n - 1))
           /\ Cardinality({b} \X (0 .. n - 1)) = n
<1>1. IsFiniteSet({b}) /\ Cardinality({b}) = 1
  BY Zenon, FS_Singleton
<1>2. IsFiniteSet(0 .. n - 1) /\ Cardinality(0 .. n - 1) = n
  BY FS_Interval
<1> QED
  BY <1>1, <1>2, FS_Product

(* The bytes of a new block are added to the live ones and to the counter. *)
LEMMA AllocateCount ==
    ASSUME IInv, CountInv, NEW b \in Blocks, NEW required \in Nat,
           AllocateMemoryBlock(b, required)
    PROVE  CountInv'
<1> DEFINE got == AcquireMemory(required)
           new == {b} \X (0 .. got - 1)
<1>1. PICK p \in PageNumbers : pageNumber' = [pageNumber EXCEPT ![b] = p]
  BY Zenon DEF AllocateMemoryBlock
<1>2. /\ pageNumber[b] = NO_PAGE
      /\ allocatedMemory' = allocatedMemory + got
      /\ size' = [size EXCEPT ![b] = got]
  BY DEF AllocateMemoryBlock
<1>3. got \in Nat
  BY AcquireMemoryBound DEF IInv
<1>4. ~Live(b)
  BY <1>2, SizesAssumption DEF Live, NO_PAGE, PageNumbers
<1>5. Live(b)' /\ \A c \in Blocks : c # b => (Live(c)' <=> Live(c)) /\ size'[c] = size[c]
  BY <1>1, <1>2 DEF Live, IInv, TypeOK
<1>6. size'[b] = got
  BY <1>2, <1>3 DEF IInv, TypeOK
<1>7. LiveBytes' = LiveBytes \cup new
  BY <1>4, <1>5, <1>6 DEF LiveBytes
<1>8. LiveBytes \cap new = {}
  BY <1>4 DEF LiveBytes
<1>9. IsFiniteSet(new) /\ Cardinality(new) = got
  BY Zenon, <1>3, BlockBytes
<1> HIDE DEF new, got
<1>10. /\ IsFiniteSet(LiveBytes \cup new)
       /\ Cardinality(LiveBytes \cup new)
             = Cardinality(LiveBytes) + Cardinality(new) - Cardinality(LiveBytes \cap new)
  BY <1>9, FS_Union DEF CountInv
<1>11. Cardinality(LiveBytes \cup new) = Cardinality(LiveBytes) + got
  <2>1. Cardinality(LiveBytes) \in Nat
    BY FS_CardinalityType DEF CountInv
  <2>2. Cardinality(LiveBytes \cap new) = 0
    BY <1>8, FS_EmptySet
  <2> QED
    BY <1>3, <1>9, <1>10, <2>1, <2>2
<1> QED
  BY <1>2, <1>7, <1>10, <1>11 DEF CountInv, AccountingExact

(* The bytes of a freed block are taken from both, once. *)
LEMMA FreeCount ==
    ASSUME IInv, CountInv, NEW b \in Blocks, Free(b)
    PROVE  CountInv'
<1> DEFINE old == {b} \X (0 .. size[b] - 1)
<1>1. CASE pageNumber[b] = FREED_PAGE
  <2>1. UNCHANGED <<allocatedMemory, pageNumber, size>>
    BY <1>1, SizesAssumption DEF Free, Live, FREED_PAGE, PageNumbers
  <2> QED
    BY <2>1 DEF CountInv, AccountingExact, LiveBytes, Live
<1>2. CASE Live(b)
  <2>1. /\ allocatedMemory' = allocatedMemory - size[b]
        /\ pageNumber' = [pageNumber EXCEPT ![b] = FREED_PAGE]
        /\ size' = size
    BY <1>2, SizesAssumption DEF Free, Live, FREED_PAGE, PageNumbers
  <2>2. ~Live(b)' /\ \A c \in Blocks : c # b => (Live(c)' <=> Live(c))
    BY <2>1, SizesAssumption DEF Live, IInv, TypeOK, FREED_PAGE, PageNumbers
  <2>3. LiveBytes' = LiveBytes \ old
    BY <1>2, <2>1, <2>2 DEF LiveBytes
  <2>4. LiveBytes \cap old = old
    BY <1>2 DEF LiveBytes
  <2>5. size[b] \in Nat
    BY DEF IInv, TypeOK
  <2>6. Cardinality(old) = size[b]
    BY Zenon, <2>5, BlockBytes
  <2> HIDE DEF old
  <2>7. /\ IsFiniteSet(LiveBytes \ old)
        /\ Cardinality(LiveBytes \ old) = Cardinality(LiveBytes) - Cardinality(LiveBytes \cap old)
    BY Zenon, FS_Difference DEF CountInv
  <2> QED
    BY <2>1, <2>3, <2>4, <2>6, <2>7 DEF CountInv, AccountingExact
<1> QED
  BY <1>1, <1>2 DEF Free

(* A refused allocation gives back what it was granted. *)
LEMMA AllocateFailsCount ==
    ASSUME IInv, CountInv, NEW required \in Nat, AllocateFails(required)
    PROVE  CountInv'
<1>1. allocatedMemory' = allocatedMemory
  BY AcquireMemoryBound DEF AllocateFails, IInv, TypeOK
<1>2. UNCHANGED <<pageNumber, size>>
  BY DEF AllocateFails, Fails
<1> QED
  BY <1>1, <1>2 DEF CountInv, AccountingExact, LiveBytes, Live

(* allocatedMemory is exactly the number of bytes in live blocks: refused  *)
(* grants, full page tables and blocks freed twice never make it drift.    *)
THEOREM AccountingExactHolds == Spec => []AccountingExact
<1>1. Init => CountInv
  <2> SUFFICES ASSUME Init PROVE CountInv
    OBVIOUS
  <2>1. LiveBytes = {}
    BY SizesAssumption DEF Init, LiveBytes, Live, PageNumbers, NO_PAGE
  <2> QED
    BY <2>1, FS_EmptySet DEF Init, CountInv, AccountingExact
<1>2. IInv /\ CountInv /\ [Next]_vars => CountInv'
  <2> SUFFICES ASSUME IInv, CountInv, [Next]_vars PROVE CountInv'
    OBVIOUS
  <2>1. ASSUME NEW required \in Nat, AllocateBytes(required) PROVE CountInv'
    BY <2>1, AllocateFailsCount, AllocateCount DEF AllocateBytes
  <2>2. ASSUME NEW required \in Requests, Allocate(required) \/ AllocateArray(required)
        PROVE  CountInv'
    <3>1. required \in Nat /\ PageSize \in Nat
      BY SizesAssumption
    <3>2. PICK bytes \in Nat : AllocateBytes(bytes)
      BY <2>2, <3>1 DEF Allocate, AllocateArray
    <3> QED
      BY <2>1, <3>2
  <2>3. ASSUME NEW b \in Blocks, Free(b) PROVE CountInv'
    BY <2>3, FreeCount
  <2>4. CASE UNCHANGED vars
    BY <2>4 DEF CountInv, AccountingExact, LiveBytes, Live, vars
  <2> QED
    BY <2>2, <2>3, <2>4 DEF Next
<1>3. CountInv => AccountingExact
  BY DEF CountInv
<1> QED
  BY <1>1, <1>2, <1>3, InitIInv, NextIInv, PTL DEF Spec

-----------------------------------------------------------------------------
(* Packing a page number and an offset loses neither. *)
LEMMA PointerRoundTrip ==
    ASSUME NEW page \in Nat, NEW offset \in Nat, offset < OffsetRange
    PROVE  LET pointer == page * OffsetRange + (offset % OffsetRange)
           IN  /\ DecodePageNumber(pointer) = page
               /\ DecodeOffset(pointer) = offset
<1> DEFINE pointer == page * OffsetRange + (offset % OffsetRange)
<1>1. OffsetRange \in Nat /\ OffsetRange > 0
  BY SizesAssumption
<1>2. offset % OffsetRange = offset
  BY <1>1
<1>3. pointer \div OffsetRange = page
  BY <1>1, <1>2
<1>4. pointer % OffsetRange = offset
  BY <1>1, <1>2, <1>3
<1> QED
  BY <1>3, <1>4 DEF DecodePageNumber, DecodeOffset

(* A pointer into a live block is resolved by getOffsetInPage to that      *)
(* block and offset in every reachable state.                              *)
THEOREM PointersAlwaysResolve == Spec => []PointersResolve
<1>1. IInv => PointersResolve
  <2> SUFFICES ASSUME IInv, NEW b \in Blocks, Live(b),
                      NEW offset \in 0 .. size[b] - 1
               PROVE  GetOffsetInPage(EncodePageNumberAndOffset(b, offset)) = <<b, offset>>
    BY DEF PointersResolve
  <2>1. pageNumber[b] \in Nat /\ pageTable[pageNumber[b]] = b
    BY SizesAssumption DEF Live, PageNumbers, IInv, PageTableConsistent
  <2>2. offset \in Nat /\ offset < OffsetRange
    BY SizesAssumption DEF IInv, TypeOK, PageTableConsistent
  <2> QED
    BY <2>1, <2>2, PointerRoundTrip DEF GetOffsetInPage, EncodePageNumberAndOffset
<1> QED
  BY <1>1, InitIInv, NextIInv, PTL DEF Spec

=============================================================================
