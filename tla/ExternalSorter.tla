--------------------------- MODULE ExternalSorter ---------------------------
(***************************************************************************)
(* The sort-based JVM shuffle write of one task: CometUnsafeShuffleWriter  *)
(* inserts records into CometShuffleExternalSorter, which keeps them in    *)
(* memory pages with a pointer array, spills them sorted by partition,     *)
(* in the task's thread or on the shuffle thread pool, and merges the      *)
(* spill files into the map output.                                        *)
(*                                                                         *)
(* Records have one size.  Memory is counted in units: a page is one unit  *)
(* and holds PageRows records, a unit of pointer array holds ArrayRows     *)
(* pointers and the initial array is one unit.                             *)
(***************************************************************************)
EXTENDS Integers, Sequences, FiniteSets, Functions

CONSTANTS
    Modes,           \* "sync" and "async" spilling
    Limits,          \* memory the allocator may hand out, in units
    NumPartitions,
    Thresholds,      \* numElementsForSpillThreshold
    PageRows, ArrayRows,
    MaxArray,        \* units of the largest array that fits a page
    ThreadNum,       \* threadNum of asynchronous spilling
    Checksums,       \* settings of spark.shuffle.checksum.enabled
    MayFail,         \* input, spills and merge may fail
    MaxRecords       \* bound: records of the input

ASSUME SorterAssumption ==
    /\ Modes \subseteq {"sync", "async"}
    /\ Limits \cup Thresholds \subseteq Nat \ {0}
    /\ {NumPartitions, PageRows, ArrayRows, ThreadNum} \subseteq Nat \ {0}
    /\ Checksums \cup {MayFail} \subseteq BOOLEAN

VARIABLES
    conf,      \* configuration of the task: mode, limit, threshold, checksum
    parts,     \* partition of each record read from the input
    pc,
    ret,       \* where spill() returns to
    sorters,   \* every SpillSorter: rows, pages, room, array, state
    active,    \* activeSpillSorter
    spilling,
    tasks,     \* asyncSpillTasks
    spills,    \* spill files: rows of each partition
    output,    \* rows of each partition of the committed map output
    reason     \* why the write failed

vars == <<conf, parts, pc, ret, sorters, active, spilling, tasks, spills, output, reason>>

Partitions == 0 .. NumPartitions - 1

NewSpillSorter ==
    [rows |-> <<>>, pages |-> 0, room |-> 0, array |-> 1, state |-> "active"]

Init ==
    /\ conf \in [mode : Modes, limit : Limits, threshold : Thresholds, checksum : Checksums]
    /\ parts = <<>>
    /\ pc = "next"
    /\ ret = "none"
    /\ sorters = <<NewSpillSorter>>
    /\ active = 1
    /\ spilling = FALSE
    /\ tasks = <<>>
    /\ spills = <<>>
    /\ output = [p \in Partitions |-> <<>>]
    /\ reason = "none"

-----------------------------------------------------------------------------

(* The units of memory that the sorters have, as a set, and their number *)
Units(ss) == UNION {{i} \X (1 .. ss[i].pages + ss[i].array) : i \in DOMAIN ss}

Used(ss) == Cardinality(Units(ss))

Fits(ss, n) == Used(ss) + n <= conf.limit

Active == sorters[active]

HasSpace == Len(Active.rows) < ArrayRows * Active.array

Freed(s) == [s EXCEPT !.pages = 0, !.room = 0, !.array = 0]

(* freeMemory: the active sorter and the spilling ones; a sorter that has  *)
(* finished its spill is in spillingSorters no more.                       *)
FreeMemory ==
    sorters' = [i \in DOMAIN sorters |->
                   IF i = active \/ sorters[i].state \in {"queued", "writing", "failed"}
                   THEN Freed(sorters[i]) ELSE sorters[i]]

(* An exception ends write, which calls cleanupResources. *)
Fail(why) ==
    /\ pc' = "failed"
    /\ reason' = why
    /\ FreeMemory
    /\ spills' = <<>>

(* spill() is called and returns to the given point. *)
Call(point) == pc' = "spill" /\ ret' = point

-----------------------------------------------------------------------------
(* write and insertRecord *)

NextRecord ==
    /\ pc = "next"
    /\ Len(parts) < MaxRecords
    /\ \E p \in Partitions : parts' = Append(parts, p)
    /\ IF Len(Active.rows) >= conf.threshold
         THEN Call("grow")
         ELSE pc' = "grow" /\ UNCHANGED ret
    /\ UNCHANGED <<conf, sorters, active, spilling, tasks, spills, output, reason>>

InputEnds ==
    /\ pc = "next"
    /\ pc' = "close"
    /\ UNCHANGED <<conf, parts, ret, sorters, active, spilling, tasks, spills, output, reason>>

InputFails ==
    /\ MayFail
    /\ pc = "next"
    /\ Fail("input")
    /\ UNCHANGED <<conf, parts, ret, active, spilling, tasks, output>>

(* growPointerArrayIfNecessary: twice the memory of the sorter, its pages  *)
(* included; the old array is freed after the new one is allocated.        *)
GrowPointerArray ==
    /\ pc = "grow"
    /\ LET wanted == 2 * (Active.pages + Active.array)
       IN  IF HasSpace
             THEN pc' = "page" /\ UNCHANGED <<ret, sorters>>
           ELSE IF wanted > MaxArray \/ ~Fits(sorters, wanted)
             THEN Call("page") /\ UNCHANGED sorters
           ELSE /\ sorters' = [sorters EXCEPT ![active].array = wanted]
                /\ pc' = "page"
                /\ UNCHANGED ret
    /\ UNCHANGED <<conf, parts, active, spilling, tasks, spills, output, reason>>

NewPage == sorters' = [sorters EXCEPT ![active].pages = @ + 1, ![active].room = PageRows]

(* Mutant: after the spill the page is acquired as before. *)
AcquirePageRetry ==
    /\ pc = "page"
    /\ IF Active.room > 0
         THEN pc' = "insert" /\ UNCHANGED <<ret, sorters>>
       ELSE IF Fits(sorters, 1)
         THEN pc' = "insert" /\ NewPage /\ UNCHANGED ret
       ELSE Call("page") /\ UNCHANGED sorters
    /\ UNCHANGED <<conf, parts, active, spilling, tasks, spills, output, reason>>

(* acquireNewPageIfNecessary *)
AcquirePage ==
    /\ pc = "page"
    /\ IF Active.room > 0
         THEN pc' = "insert" /\ UNCHANGED <<ret, sorters>>
       ELSE IF Fits(sorters, 1)
         THEN pc' = "insert" /\ NewPage /\ UNCHANGED ret
       ELSE Call("initialPage") /\ UNCHANGED sorters
    /\ UNCHANGED <<conf, parts, active, spilling, tasks, spills, output, reason>>

(* initialCurrentPage, which asserts that there is no current page *)
InitialPage ==
    /\ pc = "initialPage"
    /\ \/ /\ Active.pages = 0 /\ Fits(sorters, 1)
          /\ pc' = "insert"
          /\ NewPage
          /\ UNCHANGED <<spills, reason>>
       \/ Active.pages = 0 /\ ~Fits(sorters, 1) /\ Fail("memory")
       \/ Active.pages # 0 /\ Fail("assertion")
    /\ UNCHANGED <<conf, parts, ret, active, spilling, tasks, output>>

(* insertRecord of the active sorter, which needs room for the pointer *)
InsertRecord ==
    /\ pc = "insert"
    /\ \/ /\ HasSpace
          /\ sorters' = [sorters EXCEPT ![active].rows = Append(@, Len(parts)),
                                        ![active].room = @ - 1]
          /\ pc' = "next"
          /\ UNCHANGED <<spills, reason>>
       \/ ~HasSpace /\ Fail("assertion")
    /\ UNCHANGED <<conf, parts, ret, active, spilling, tasks, output>>

-----------------------------------------------------------------------------
(* writeSortedFileNative *)

(* The rows of a sorter, sorted by partition; the sort is stable. *)
SpillFile(rows) == [p \in Partitions |-> SelectSeq(rows, LAMBDA r : parts[r] = p)]

(* At each change of partition the checksum of the one before is stored in *)
(* an array that is empty when checksums are disabled.                     *)
OutOfBounds(rows) ==
    ~conf.checksum /\ Cardinality({parts[r] : r \in Range(rows)}) > 1

(* A sorter without records adds no file. *)
Spilled(rows) == IF rows = <<>> THEN spills ELSE Append(spills, SpillFile(rows))

-----------------------------------------------------------------------------
(* spill *)

SpillSkip ==
    /\ pc = "spill"
    /\ spilling \/ Active.rows = <<>>
    /\ pc' = ret
    /\ UNCHANGED <<conf, parts, ret, sorters, active, spilling, tasks, spills, output, reason>>

(* Write, free the pages and reset the pointer array.  A failure leaves    *)
(* spilling set.  After the pages and the array are freed, the initial     *)
(* array always fits.                                                      *)
SpillSync ==
    /\ pc = "spill" /\ conf.mode = "sync"
    /\ ~spilling /\ Active.rows # <<>>
    /\ \/ /\ ~OutOfBounds(Active.rows)
          /\ sorters' = [sorters EXCEPT ![active] = NewSpillSorter]
          /\ spills' = Spilled(Active.rows)
          /\ pc' = ret
          /\ UNCHANGED <<spilling, reason>>
       \/ spilling' = TRUE /\ OutOfBounds(Active.rows) /\ Fail("bounds")
       \/ spilling' = TRUE /\ MayFail /\ Fail("disk")
    /\ UNCHANGED <<conf, parts, ret, active, tasks, output>>

(* Mutant: the memory is freed as soon as the spill is submitted. *)
SpillSubmitFrees ==
    /\ pc = "spill" /\ conf.mode = "async"
    /\ ~spilling /\ Active.rows # <<>>
    /\ spilling' = TRUE
    /\ sorters' = [sorters EXCEPT ![active] = Freed([@ EXCEPT !.state = "queued"])]
    /\ tasks' = Append(tasks, active)
    /\ pc' = "wait"
    /\ UNCHANGED <<conf, parts, ret, active, spills, output, reason>>

SpillSubmit ==
    /\ pc = "spill" /\ conf.mode = "async"
    /\ ~spilling /\ Active.rows # <<>>
    /\ spilling' = TRUE
    /\ sorters' = [sorters EXCEPT ![active].state = "queued"]
    /\ tasks' = Append(tasks, active)
    /\ pc' = "wait"
    /\ UNCHANGED <<conf, parts, ret, active, spills, output, reason>>

IsDone(i) == sorters[i].state \in {"done", "failed"}

(* While the queue is full its first finished task is dropped, unseen. *)
DropFinished ==
    /\ pc = "wait"
    /\ Len(tasks) = ThreadNum
    /\ \E k \in DOMAIN tasks :
          /\ IsDone(tasks[k])
          /\ \A j \in 1 .. k - 1 : ~IsDone(tasks[j])
          /\ tasks' = SubSeq(tasks, 1, k - 1) \o SubSeq(tasks, k + 1, Len(tasks))
    /\ UNCHANGED <<conf, parts, pc, ret, sorters, active, spilling, spills, output, reason>>

(* The next active sorter; its array may not fit and then spilling stays set. *)
NextSorter ==
    /\ pc = "wait"
    /\ Len(tasks) # ThreadNum
    /\ \/ /\ Fits(sorters, 1)
          /\ sorters' = Append(sorters, NewSpillSorter)
          /\ active' = Len(sorters) + 1
          /\ spilling' = FALSE
          /\ pc' = ret
          /\ UNCHANGED <<spills, reason>>
       \/ ~Fits(sorters, 1) /\ Fail("memory") /\ UNCHANGED <<active, spilling>>
    /\ UNCHANGED <<conf, parts, ret, tasks, output>>

-----------------------------------------------------------------------------
(* A spill on the shuffle thread pool, which starts tasks in their order *)

JobBegin(i) ==
    /\ sorters[i].state = "queued"
    /\ \A j \in 1 .. i - 1 : sorters[j].state # "queued"
    /\ sorters' = [sorters EXCEPT ![i].state = "writing"]
    /\ UNCHANGED <<conf, parts, pc, ret, active, spilling, tasks, spills, output, reason>>

(* Mutant: the pointer array is not freed. *)
JobEndKeepsArray(i) ==
    /\ sorters[i].state = "writing"
    /\ IF OutOfBounds(sorters[i].rows)
         THEN sorters' = [sorters EXCEPT ![i].state = "failed"] /\ UNCHANGED spills
         ELSE /\ sorters' = [sorters EXCEPT ![i].state = "done", ![i].pages = 0]
              /\ spills' = Spilled(sorters[i].rows)
    /\ UNCHANGED <<conf, parts, pc, ret, active, spilling, tasks, output, reason>>

(* The file is written and added to spills, then the memory is freed. *)
JobEnd(i) ==
    /\ sorters[i].state = "writing"
    /\ IF OutOfBounds(sorters[i].rows)
         THEN sorters' = [sorters EXCEPT ![i].state = "failed"] /\ UNCHANGED spills
         ELSE /\ sorters' = [sorters EXCEPT ![i] = Freed([@ EXCEPT !.state = "done"])]
              /\ spills' = Spilled(sorters[i].rows)
    /\ UNCHANGED <<conf, parts, pc, ret, active, spilling, tasks, output, reason>>

JobFails(i) ==
    /\ MayFail
    /\ sorters[i].state = "writing"
    /\ sorters' = [sorters EXCEPT ![i].state = "failed"]
    /\ UNCHANGED <<conf, parts, pc, ret, active, spilling, tasks, spills, output, reason>>

Job(i) == JobBegin(i) \/ JobEnd(i) \/ JobFails(i)

-----------------------------------------------------------------------------
(* closeAndWriteOutput *)

(* Mutant: the tasks are not waited for. *)
CloseGetNoWait ==
    /\ pc = "close"
    /\ tasks' = <<>>
    /\ pc' = "final"
    /\ UNCHANGED <<conf, parts, ret, sorters, active, spilling, spills, output, reason>>

(* closeAndGetSpills: get() of each task that is still in the queue *)
CloseGet ==
    /\ pc = "close"
    /\ \/ /\ tasks = <<>>
          /\ pc' = "final"
          /\ UNCHANGED <<tasks, sorters, spills, reason>>
       \/ /\ tasks # <<>> /\ sorters[Head(tasks)].state = "done"
          /\ tasks' = Tail(tasks)
          /\ UNCHANGED <<pc, sorters, spills, reason>>
       \/ /\ tasks # <<>> /\ sorters[Head(tasks)].state = "failed"
          /\ Fail("disk")
          /\ UNCHANGED tasks
    /\ UNCHANGED <<conf, parts, ret, active, spilling, output>>

(* The records in memory become the last file. *)
FinalWrite ==
    /\ pc = "final"
    /\ \/ /\ ~OutOfBounds(Active.rows)
          /\ spills' = Spilled(Active.rows)
          /\ FreeMemory
          /\ pc' = "merge"
          /\ UNCHANGED reason
       \/ OutOfBounds(Active.rows) /\ Fail("bounds")
       \/ MayFail /\ Active.rows # <<>> /\ Fail("disk")
    /\ UNCHANGED <<conf, parts, ret, active, spilling, tasks, output>>

(* The rows that the first k spill files have of a partition, in turn *)
Merged(p) ==
    LET upTo[k \in 0 .. Len(spills)] == IF k = 0 THEN <<>> ELSE upTo[k - 1] \o spills[k][p]
    IN  upTo[Len(spills)]

(* mergeSpills: every partition from all files in turn; the files are      *)
(* deleted afterwards.                                                     *)
Merge ==
    /\ pc = "merge"
    /\ \/ /\ output' = [p \in Partitions |-> Merged(p)]
          /\ spills' = <<>>
          /\ pc' = "committed"
          /\ UNCHANGED <<sorters, reason>>
       \/ MayFail /\ Fail("disk") /\ UNCHANGED output
    /\ UNCHANGED <<conf, parts, ret, active, spilling, tasks>>

-----------------------------------------------------------------------------

TaskStep ==
    \/ NextRecord \/ InputEnds \/ InputFails
    \/ GrowPointerArray \/ AcquirePage \/ InitialPage \/ InsertRecord
    \/ SpillSkip \/ SpillSync \/ SpillSubmit \/ DropFinished \/ NextSorter
    \/ CloseGet \/ FinalWrite \/ Merge

Ended == pc \in {"committed", "failed"}

JobsEnded == \A i \in DOMAIN sorters : sorters[i].state \notin {"queued", "writing"}

Next ==
    \/ TaskStep
    \/ \E i \in DOMAIN sorters : Job(i)
    \/ Ended /\ JobsEnded /\ UNCHANGED vars

(* The task's thread and the thread pool both keep running. *)
Spec ==
    /\ Init /\ [][Next]_vars
    /\ WF_vars(TaskStep)
    /\ WF_vars(\E i \in DOMAIN sorters : Job(i))

-----------------------------------------------------------------------------
(* Properties *)

RowsOf(p) == {r \in DOMAIN parts : parts[r] = p}

(* The committed map output has every record exactly once, in its          *)
(* partition, whatever was spilled and merged; without asynchronous spills *)
(* the order of insertion is kept as well.  A failed asynchronous spill    *)
(* that was dropped from the full queue is left out: nobody sees its       *)
(* exception.                                                              *)
CommittedComplete ==
    pc = "committed" /\ (\A i \in DOMAIN sorters : sorters[i].state # "failed") => \A p \in Partitions :
        /\ Range(output[p]) = RowsOf(p)
        /\ Len(output[p]) = Cardinality(RowsOf(p))
        /\ conf.mode = "sync" => \A i, j \in DOMAIN output[p] : i < j => output[p][i] < output[p][j]

(* While the task runs, the pages and the pointer array that an            *)
(* asynchronous spill reads are not freed under it.                        *)
NoUseAfterFree ==
    \A i \in DOMAIN sorters :
        sorters[i].state \in {"queued", "writing"} /\ pc # "failed" =>
            sorters[i].pages > 0 /\ sorters[i].array > 0

(* All sorters together never hold more than the allocator has granted,    *)
(* and when the output is merged all pages and arrays have been given      *)
(* back: after a successful write nobody calls cleanupResources.           *)
MemoryReturned ==
    /\ Used(sorters) <= conf.limit
    /\ pc \in {"merge", "committed"} => Used(sorters) = 0

(* Every write ends, also when the memory is too small for one page and    *)
(* when the queue of asynchronous spills is full; and it fails only        *)
(* because its input, the disk or the memory failed, never on an assertion *)
(* of the sorter, and with checksums never on an index out of bounds.      *)
EveryWriteEnds ==
    <>(\/ pc = "committed"
       \/ /\ pc = "failed"
          /\ \/ reason \in {"input", "memory", "disk"}
             \/ reason = "bounds" /\ ~conf.checksum)

=============================================================================
