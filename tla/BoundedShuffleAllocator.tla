----------------------- MODULE BoundedShuffleAllocator -----------------------
(***************************************************************************)
(* CometBoundedShuffleMemoryAllocator: the process-wide allocator of the   *)
(* off-heap pages that hold serialized rows for the JVM columnar shuffle   *)
(* when Spark itself runs on-heap.  Every public method is synchronized,   *)
(* so a call is one step whichever thread (task thread or asynchronous     *)
(* spill thread) makes it.                                                 *)
(*                                                                         *)
(* A MemoryBlock object is a member of Blocks.  Its pageNumber field is    *)
(* NO_PAGE before it is handed out, a page-table index while it is live,   *)
(* and FREED_PAGE afterwards.                                              *)
(***************************************************************************)
EXTENDS Integers, FiniteSets

CONSTANTS
    Blocks,          \* identities of the MemoryBlock objects
    Null,            \* an empty page-table entry
    PageSize,        \* pageSize
    TotalMemory,     \* totalMemory
    PageTableSize,   \* PAGE_TABLE_SIZE (1 << 13 in the code)
    MaximumPageSize, \* TaskMemoryManager.MAXIMUM_PAGE_SIZE_BYTES
    OffsetRange,     \* 2 ^ OFFSET_BITS (2 ^ 51 in the code)
    Requests         \* the sizes callers ask for

ASSUME SizesAssumption ==
    /\ PageSize \in Nat \ {0}
    /\ TotalMemory \in Nat
    /\ PageTableSize \in Nat \ {0}
    /\ OffsetRange \in Nat \ {0}
    /\ MaximumPageSize \in 0 .. OffsetRange
    /\ Requests \subseteq Nat \ {0}

ASSUME NullAssumption == Null \notin Blocks

NO_PAGE == -1
FREED_PAGE == -3
PageNumbers == 0 .. PageTableSize - 1

VARIABLES
    allocatedMemory, \* allocatedMemory
    pageTable,       \* pageTable
    allocatedPages,  \* allocatedPages, the BitSet as the set of its set bits
    pageNumber,      \* block.pageNumber
    size,            \* block.size()
    outcome          \* what the last call returned or threw

vars == <<allocatedMemory, pageTable, allocatedPages, pageNumber, size, outcome>>

Live(b) == pageNumber[b] \in PageNumbers

Init ==
    /\ allocatedMemory = 0
    /\ pageTable = [p \in PageNumbers |-> Null]
    /\ allocatedPages = {}
    /\ pageNumber = [b \in Blocks |-> NO_PAGE]
    /\ size = [b \in Blocks |-> 0]
    /\ outcome = [call |-> "none", required |-> 0]

-----------------------------------------------------------------------------
(* Mutant: the request is granted without looking at what is left. *)
AcquireMemoryUnbounded(required) == required

(* What _acquireMemory reserves; it throws when nothing at all is left. *)
AcquireMemory(required) ==
    IF required <= TotalMemory - allocatedMemory
    THEN required
    ELSE TotalMemory - allocatedMemory

(* Mutant: the bit after the number of pages in use. *)
IsNextClearBitByCount(p) == p = Cardinality(allocatedPages)

(* allocatedPages.nextClearBit(0): a BitSet has no last bit. *)
IsNextClearBit(p) ==
    /\ p \in Nat \ allocatedPages
    /\ \A q \in 0 .. p - 1 : q \in allocatedPages

Fails(kind, required) ==
    /\ outcome' = [call |-> kind, required |-> required]
    /\ UNCHANGED <<pageTable, allocatedPages, pageNumber, size>>

(* Mutant: a refused short grant stays in allocatedMemory. *)
AllocateFailsKeepingGrant(required) ==
    /\ required <= MaximumPageSize
    /\ AcquireMemory(required) < required
    /\ Fails("OutOfMemory", required)
    /\ allocatedMemory' = allocatedMemory + AcquireMemory(required)

(* allocateMemoryBlock when one of its checks throws.  A short grant has   *)
(* already been added to allocatedMemory, and is taken off again.          *)
AllocateFails(required) ==
    \/ /\ required > MaximumPageSize
       /\ Fails("TooLargePage", required)
       /\ UNCHANGED allocatedMemory
    \/ /\ required <= MaximumPageSize
       /\ allocatedMemory >= TotalMemory
       /\ Fails("OutOfMemory", required)
       /\ UNCHANGED allocatedMemory
    \/ LET got == AcquireMemory(required)
           reserved == allocatedMemory + got
       IN  /\ required <= MaximumPageSize
           /\ allocatedMemory < TotalMemory
           /\ got < required
           /\ Fails("OutOfMemory", required)
           /\ allocatedMemory' = reserved - got
    \/ LET got == AcquireMemory(required)
           reserved == allocatedMemory + got
       IN  /\ required <= MaximumPageSize
           /\ allocatedMemory < TotalMemory
           /\ got = required
           /\ PageNumbers \subseteq allocatedPages
           /\ Fails("TooManyPages", required)
           /\ allocatedMemory' = reserved - got

AllocateMemoryBlock(b, required) ==
    LET got == AcquireMemory(required)
    IN  /\ required <= MaximumPageSize
        /\ allocatedMemory < TotalMemory
        /\ got >= required
        /\ pageNumber[b] = NO_PAGE
        /\ \E p \in PageNumbers :
              /\ IsNextClearBit(p)
              /\ pageTable' = [pageTable EXCEPT ![p] = b]
              /\ allocatedPages' = allocatedPages \cup {p}
              /\ pageNumber' = [pageNumber EXCEPT ![b] = p]
        /\ allocatedMemory' = allocatedMemory + got
        /\ size' = [size EXCEPT ![b] = got]
        /\ outcome' = [call |-> "allocated", required |-> required]

AllocateBytes(required) ==
    \/ AllocateFails(required)
    \/ \E b \in Blocks : AllocateMemoryBlock(b, required)

(* allocate(required): a data page is never smaller than pageSize. *)
Allocate(required) ==
    AllocateBytes(IF PageSize >= required THEN PageSize ELSE required)

(* allocateArray(size): the pointer array of an in-memory sorter.  The     *)
(* factor 8 (bytes of a long) is the unit in which Requests counts.        *)
AllocateArray(required) == AllocateBytes(required)

(* free(block) and freeArray(array): any holder of the block may call it,  *)
(* also a second time.                                                     *)
Free(b) ==
    \/ /\ pageNumber[b] = FREED_PAGE
       /\ outcome' = [call |-> "alreadyFreed", required |-> 0]
       /\ UNCHANGED <<allocatedMemory, pageTable, allocatedPages, pageNumber, size>>
    \/ /\ Live(b)
       /\ allocatedMemory' = allocatedMemory - size[b]
       /\ pageTable' = [pageTable EXCEPT ![pageNumber[b]] = Null]
       /\ allocatedPages' = allocatedPages \ {pageNumber[b]}
       /\ pageNumber' = [pageNumber EXCEPT ![b] = FREED_PAGE]
       /\ outcome' = [call |-> "freed", required |-> 0]
       /\ UNCHANGED size

Next ==
    \/ \E required \in Requests : Allocate(required) \/ AllocateArray(required)
    \/ \E b \in Blocks : Free(b)

Spec == Init /\ [][Next]_vars

-----------------------------------------------------------------------------
(* Pointers: a record pointer packs a page number and an offset. *)
EncodePageNumberAndOffset(b, offset) ==
    pageNumber[b] * OffsetRange + (offset % OffsetRange)

DecodeOffset(pointer) == pointer % OffsetRange

DecodePageNumber(pointer) == pointer \div OffsetRange

(* getOffsetInPage: the block found in the page table, and the offset in it. *)
GetOffsetInPage(pointer) ==
    <<pageTable[DecodePageNumber(pointer)], DecodeOffset(pointer)>>

-----------------------------------------------------------------------------
(* Every variable has the type of the field it models, and no grant takes *)
(* allocatedMemory past the configured totalMemory.                        *)
TypeOK ==
    /\ allocatedMemory \in Int
    /\ allocatedMemory <= TotalMemory
    /\ pageTable \in [PageNumbers -> Blocks \cup {Null}]
    /\ allocatedPages \subseteq PageNumbers
    /\ pageNumber \in [Blocks -> PageNumbers \cup {NO_PAGE, FREED_PAGE}]
    /\ size \in [Blocks -> Nat]
    /\ outcome \in [call : {"none", "TooLargePage", "OutOfMemory", "TooManyPages",
                            "allocated", "alreadyFreed", "freed"},
                     required : Nat]

(* The bytes of the live blocks, each given by its block and its offset *)
LiveBytes == UNION {{b} \X (0 .. size[b] - 1) : b \in {c \in Blocks : Live(c)}}

(* The allocator's counter is exactly what its live blocks occupy: neither *)
(* a short grant that was refused, nor a full page table, nor a block      *)
(* freed twice (once by an asynchronous spill, once by the cleanup of the  *)
(* task) makes allocatedMemory drift, which would shrink or stretch the    *)
(* budget of every later shuffle of the executor.                          *)
AccountingExact ==
    allocatedMemory = Cardinality(LiveBytes)

(* A pointer into a live block, packed by encodePageNumberAndOffset, is    *)
(* resolved by getOffsetInPage to that block and that offset, however the  *)
(* page numbers were reused before: no two live blocks share a page number *)
(* and no entry of the page table is stale.                                *)
PointersResolve ==
    \A b \in Blocks : Live(b) =>
        \A offset \in 0 .. size[b] - 1 :
            GetOffsetInPage(EncodePageNumberAndOffset(b, offset)) = <<b, offset>>

=============================================================================
