--------------------------- MODULE DiskBlockWriter ---------------------------
(***************************************************************************)
(* The hash-based JVM columnar shuffle: CometBypassMergeSortShuffleWriter  *)
(* drives one CometDiskBlockWriter per partition.  Each of them buffers    *)
(* rows in the pages of its active ArrowIPCWriter and writes them to its   *)
(* file through native code: when a threshold is reached (on the task      *)
(* thread, or handed to the shuffle thread pool), when memory runs out (on *)
(* behalf of any writer of the executor), and at the end.                  *)
(*                                                                         *)
(* A buffer <<w, g>> is the g-th ArrowIPCWriter of CometDiskBlockWriter w. *)
(* A row is its index among the rows inserted into w.  All rows have the   *)
(* same size, RowsPerPage of them fill a page, and every page comes from   *)
(* the one CometBoundedShuffleMemoryAllocator of the executor.  Locks are  *)
(* explicit: the monitor of a writer, the monitor of its File, and the     *)
(* monitor of the static list currentWriters.                              *)
(***************************************************************************)
EXTENDS Integers, Sequences, FiniteSets, Functions

CONSTANTS
    Tasks,           \* task threads
    Writers,         \* CometDiskBlockWriters
    None,            \* nobody holds the lock
    MaxRows,         \* bound: rows inserted into one writer
    RowsPerPage,
    Configs          \* the configurations of the executor that are considered

ASSUME ConfigAssumption ==
    /\ IsFiniteSet(Writers)
    /\ None \notin Tasks
    /\ MaxRows \in Nat
    /\ RowsPerPage \in Nat \ {0}
    /\ \A c \in Configs :
         /\ c.owner \in [Writers -> Tasks]
         /\ c.pages \in Nat
         /\ c.threshold \in Nat \ {0}
         /\ c.threads \in Nat
         /\ c.fails \in BOOLEAN

VARIABLE conf        \* the configuration of this behaviour

OwnerOf == conf.owner            \* the task that created each writer
TotalPages == conf.pages         \* pages the allocator may hand out
SpillThreshold == conf.threshold \* min(numElementsForSpillThreshold, columnarBatchSize)
AsyncThreadNum == conf.threads   \* asyncThreadNum; 0 when isAsync is false
WriteMayFail == conf.fails       \* whether native writes may throw

isAsync == AsyncThreadNum > 0
Buffers == Writers \X (0 .. MaxRows)
WritersOf(t) == {w \in Writers : OwnerOf[w] = t}

VARIABLES
    \* fields of each CometDiskBlockWriter
    active,          \* activeWriter
    spilling,        \* spilling
    asyncSpillTasks, \* asyncSpillTasks, as the set of buffers being spilled
    spillingWriters, \* spillingWriters
    insertRecords,   \* insertRecords
    outputRecords,   \* outputRecords
    file,            \* the rows written to the file, in order
    \* fields of each ArrowIPCWriter
    rows,            \* the rows of rowPartition, also while they are written
    taken,           \* rowPartition's arrays were taken by getRowAddresses
    pages,           \* number of allocatedPages
    room,            \* rows that still fit into currentPage
    checksum,        \* NO_CHECKSUM (-1) or the rows the checksum covers
    job,             \* the asynchronous spill task of the buffer
    \* shared state
    currentWriters,  \* the static list
    freePages,       \* what the allocator can still hand out
    monitor, fileLock, listLock,
    \* the task threads
    pc, target, victim, toSpill, freed, reason

writerVars == <<active, spilling, asyncSpillTasks, spillingWriters>>
recordVars == <<insertRecords, outputRecords, file>>
bufferVars == <<rows, taken, checksum>>
memoryVars == <<pages, room, freePages>>
lockVars == <<monitor, fileLock, listLock>>
threadVars == <<pc, target, victim, toSpill, freed, reason>>
vars == <<conf, writerVars, recordVars, bufferVars, memoryVars, job, currentWriters,
          lockVars, threadVars>>

NO_CHECKSUM == <<-1>>
ActiveBuffer(w) == <<w, active[w]>>
NumRecords(b) == IF taken[b] THEN 0 ELSE Len(rows[b])

Init ==
    /\ conf \in Configs
    /\ active = [w \in Writers |-> 0]
    /\ spilling = [w \in Writers |-> FALSE]
    /\ asyncSpillTasks = [w \in Writers |-> {}]
    /\ spillingWriters = [w \in Writers |-> {}]
    /\ insertRecords = [w \in Writers |-> 0]
    /\ outputRecords = [w \in Writers |-> 0]
    /\ file = [w \in Writers |-> <<>>]
    /\ rows = [b \in Buffers |-> <<>>]
    /\ taken = [b \in Buffers |-> FALSE]
    /\ pages = [b \in Buffers |-> 0]
    /\ room = [b \in Buffers |-> 0]
    /\ checksum = [b \in Buffers |-> IF b[2] = 0 THEN <<>> ELSE NO_CHECKSUM]
    /\ job = [b \in Buffers |-> "none"]
    /\ currentWriters = Writers
    /\ freePages = TotalPages
    /\ monitor = [w \in Writers |-> None]
    /\ fileLock = [w \in Writers |-> None]
    /\ listLock = None
    /\ pc = [t \in Tasks |-> "insert"]
    /\ target = [t \in Tasks |-> None]
    /\ victim = [t \in Tasks |-> None]
    /\ toSpill = [t \in Tasks |-> <<>>]
    /\ freed = [t \in Tasks |-> 0]
    /\ reason = [t \in Tasks |-> "none"]

-----------------------------------------------------------------------------
(* Building blocks of the handlers. *)

(* ArrowIPCWriter.doSpilling up to the native call: under the lock of the  *)
(* file the rows are counted as output and taken out of the row partition. *)
BeginWrite(agent, b) ==
    /\ fileLock[b[1]] = None
    /\ ~taken[b]
    /\ fileLock' = [fileLock EXCEPT ![b[1]] = agent]
    /\ outputRecords' = [outputRecords EXCEPT ![b[1]] = @ + Len(rows[b])]
    /\ taken' = [taken EXCEPT ![b] = TRUE]

(* Mutant: the row partition is not reset. *)
EndWriteNoReset(b) ==
    /\ file' = [file EXCEPT ![b[1]] = @ \o rows[b]]
    /\ taken' = [taken EXCEPT ![b] = FALSE]
    /\ fileLock' = [fileLock EXCEPT ![b[1]] = None]
    /\ UNCHANGED <<checksum, rows>>

(* Mutant: every write starts a new checksum. *)
EndWriteChecksumRestarts(b) ==
    /\ file' = [file EXCEPT ![b[1]] = @ \o rows[b]]
    /\ checksum' = [checksum EXCEPT ![b] = rows[b]]
    /\ rows' = [rows EXCEPT ![b] = <<>>]
    /\ taken' = [taken EXCEPT ![b] = FALSE]
    /\ fileLock' = [fileLock EXCEPT ![b[1]] = None]

(* The native call returned: the rows are in the file, the checksum that   *)
(* was passed in is extended, or started when it was NO_CHECKSUM.          *)
EndWrite(b) ==
    /\ file' = [file EXCEPT ![b[1]] = @ \o rows[b]]
    /\ checksum' = [checksum EXCEPT ![b] =
                       IF @ = NO_CHECKSUM THEN <<>> ELSE @ \o rows[b]]
    /\ rows' = [rows EXCEPT ![b] = <<>>]
    /\ taken' = [taken EXCEPT ![b] = FALSE]
    /\ fileLock' = [fileLock EXCEPT ![b[1]] = None]

(* The pages that the buffers of a set hold, each given by its buffer and  *)
(* its number in the buffer                                                *)
PagesIn(S) == UNION {{b} \X (1 .. pages[b]) : b \in S}

(* SpillWriter.freeMemory for the buffers of a set. *)
FreeMemory(S) ==
    /\ freePages' = freePages + Cardinality(PagesIn(S))
    /\ pages' = [b \in Buffers |-> IF b \in S THEN 0 ELSE pages[b]]
    /\ room' = [b \in Buffers |-> IF b \in S THEN 0 ELSE room[b]]

(* An exception leaves every synchronized block the thread is in. *)
Throw(t, why) ==
    /\ pc' = [pc EXCEPT ![t] = "failed"]
    /\ reason' = [reason EXCEPT ![t] = why]
    /\ monitor' = [w \in Writers |-> IF monitor[w] = t THEN None ELSE monitor[w]]
    /\ fileLock' = [w \in Writers |-> IF fileLock[w] = t THEN None ELSE fileLock[w]]
    /\ listLock' = IF listLock = t THEN None ELSE listLock
    /\ UNCHANGED <<target, victim, toSpill, freed>>

Goto(t, label) ==
    /\ pc' = [pc EXCEPT ![t] = label]
    /\ UNCHANGED <<target, victim, toSpill, freed, reason>>

-----------------------------------------------------------------------------
(* insertRow *)

(* The row is counted and serialized before the monitor is taken. *)
BeginInsert(t, w) ==
    /\ pc[t] = "insert"
    /\ OwnerOf[w] = t
    /\ insertRecords[w] < MaxRows
    /\ insertRecords' = [insertRecords EXCEPT ![w] = @ + 1]
    /\ pc' = [pc EXCEPT ![t] = "lock"]
    /\ target' = [target EXCEPT ![t] = w]
    /\ UNCHANGED <<writerVars, outputRecords, file, bufferVars, memoryVars, job,
                   currentWriters, lockVars, victim, toSpill, freed, reason>>

(* Entering the synchronized block.  At the threshold doSpill(false) is    *)
(* called; when the spilling flag is already set it does nothing, and the  *)
(* check that the active writer is empty now throws.                       *)
InsertLock(t) ==
    LET w == target[t]
        full == NumRecords(ActiveBuffer(w)) >= SpillThreshold
    IN  /\ pc[t] = "lock"
        /\ monitor[w] = None
        /\ \/ /\ ~full
              /\ monitor' = [monitor EXCEPT ![w] = t]
              /\ pc' = [pc EXCEPT ![t] = "page"]
              /\ UNCHANGED <<spilling, victim, reason, fileLock, listLock>>
           \/ /\ full /\ ~spilling[w]
              /\ monitor' = [monitor EXCEPT ![w] = t]
              /\ spilling' = [spilling EXCEPT ![w] = TRUE]
              /\ pc' = [pc EXCEPT ![t] = IF isAsync THEN "asyncWait" ELSE "spillFile"]
              /\ victim' = [victim EXCEPT ![t] = w]
              /\ UNCHANGED <<reason, fileLock, listLock>>
           \/ /\ full /\ spilling[w]
              /\ Throw(t, "notEmpty")
              /\ UNCHANGED spilling
        /\ UNCHANGED <<active, asyncSpillTasks, spillingWriters, recordVars, bufferVars,
                       memoryVars, job, currentWriters, target, toSpill, freed>>

(* The loop that waits until fewer than asyncThreadNum tasks are pending:  *)
(* a finished task is dropped, whether it succeeded or not.                *)
AsyncWait(t) ==
    LET w == target[t]
    IN  /\ pc[t] = "asyncWait"
        /\ Cardinality(asyncSpillTasks[w]) = AsyncThreadNum
        /\ \E b \in asyncSpillTasks[w] :
              /\ job[b] \in {"done", "failed"}
              /\ asyncSpillTasks' = [asyncSpillTasks EXCEPT ![w] = @ \ {b}]
        /\ UNCHANGED <<active, spilling, spillingWriters, recordVars, bufferVars,
                       memoryVars, job, currentWriters, lockVars, threadVars>>

(* Mutant: the pages are freed when the writer is handed over. *)
AsyncSubmitFrees(t) ==
    LET w == target[t]
        b == ActiveBuffer(w)
    IN  /\ pc[t] = "asyncWait"
        /\ Cardinality(asyncSpillTasks[w]) # AsyncThreadNum
        /\ active' = [active EXCEPT ![w] = @ + 1]
        /\ spillingWriters' = [spillingWriters EXCEPT ![w] = @ \cup {b}]
        /\ asyncSpillTasks' = [asyncSpillTasks EXCEPT ![w] = @ \cup {b}]
        /\ job' = [job EXCEPT ![b] = "queued"]
        /\ spilling' = [spilling EXCEPT ![w] = FALSE]
        /\ FreeMemory({b})
        /\ Goto(t, "page")
        /\ UNCHANGED <<recordVars, bufferVars, currentWriters, lockVars>>

(* Mutant: the flag is not reset after an asynchronous spill. *)
AsyncSubmitKeepsFlag(t) ==
    LET w == target[t]
        b == ActiveBuffer(w)
    IN  /\ pc[t] = "asyncWait"
        /\ Cardinality(asyncSpillTasks[w]) # AsyncThreadNum
        /\ active' = [active EXCEPT ![w] = @ + 1]
        /\ spillingWriters' = [spillingWriters EXCEPT ![w] = @ \cup {b}]
        /\ asyncSpillTasks' = [asyncSpillTasks EXCEPT ![w] = @ \cup {b}]
        /\ job' = [job EXCEPT ![b] = "queued"]
        /\ Goto(t, "page")
        /\ UNCHANGED <<spilling, recordVars, bufferVars, memoryVars, currentWriters,
                       lockVars>>

(* The active writer is handed to the pool and replaced by a new one. *)
AsyncSubmit(t) ==
    LET w == target[t]
        b == ActiveBuffer(w)
    IN  /\ pc[t] = "asyncWait"
        /\ Cardinality(asyncSpillTasks[w]) # AsyncThreadNum
        /\ active' = [active EXCEPT ![w] = @ + 1]
        /\ spillingWriters' = [spillingWriters EXCEPT ![w] = @ \cup {b}]
        /\ asyncSpillTasks' = [asyncSpillTasks EXCEPT ![w] = @ \cup {b}]
        /\ job' = [job EXCEPT ![b] = "queued"]
        /\ spilling' = [spilling EXCEPT ![w] = FALSE]
        /\ Goto(t, "page")
        /\ UNCHANGED <<recordVars, bufferVars, memoryVars, currentWriters, lockVars>>

(* insertRecord into the current page, or into a page just allocated, and  *)
(* the end of the synchronized block.  A row partition whose arrays were   *)
(* taken by a write that failed has no list to add the row to.             *)
StoreRow(t, b, newPages) ==
    /\ pages' = [pages EXCEPT ![b] = @ + newPages]
    /\ room' = [room EXCEPT ![b] = (IF newPages = 1 THEN RowsPerPage ELSE @) - 1]
    /\ freePages' = freePages - newPages
    /\ \/ /\ ~taken[b]
          /\ rows' = [rows EXCEPT ![b] = Append(@, insertRecords[b[1]])]
          /\ monitor' = [monitor EXCEPT ![b[1]] = None]
          /\ Goto(t, "insert")
          /\ UNCHANGED <<fileLock, listLock>>
       \/ /\ taken[b]
          /\ Throw(t, "nullRows")
          /\ UNCHANGED rows
    /\ UNCHANGED <<writerVars, recordVars, taken, checksum, job, currentWriters>>

(* acquireNewPageIfNecessary *)
AcquirePage(t) ==
    LET b == ActiveBuffer(target[t])
    IN  /\ pc[t] = "page"
        /\ \/ room[b] > 0 /\ StoreRow(t, b, 0)
           \/ room[b] = 0 /\ freePages > 0 /\ StoreRow(t, b, 1)
           \/ /\ room[b] = 0 /\ freePages = 0
              /\ Goto(t, "spillLock")
              /\ UNCHANGED <<writerVars, recordVars, bufferVars, memoryVars, job,
                             currentWriters, lockVars>>

(* initialCurrentPage, after a spill made room or failed to *)
InitialPage(t) ==
    LET b == ActiveBuffer(target[t])
    IN  /\ pc[t] = "initPage"
        /\ \/ freePages > 0 /\ StoreRow(t, b, 1)
           \/ /\ freePages = 0
              /\ Throw(t, "outOfMemory")
              /\ UNCHANGED <<writerVars, recordVars, bufferVars, memoryVars, job,
                             currentWriters>>

-----------------------------------------------------------------------------
(* ArrowIPCWriter.spill: out of memory, so spill writers, largest first,   *)
(* until one page's worth is freed.  currentWriters is a static list.      *)

LargestFirst(S) ==
    {s \in Bijection(1 .. Cardinality(S), S) :
        \A i, j \in 1 .. Cardinality(S) :
            i < j => pages[ActiveBuffer(s[i])] >= pages[ActiveBuffer(s[j])]}

SpillLock(t) ==
    /\ pc[t] = "spillLock"
    /\ listLock = None
    /\ listLock' = t
    /\ toSpill' \in {[toSpill EXCEPT ![t] = s] : s \in LargestFirst(currentWriters)}
    /\ freed' = [freed EXCEPT ![t] = 0]
    /\ pc' = [pc EXCEPT ![t] = "spillNext"]
    /\ UNCHANGED <<writerVars, recordVars, bufferVars, memoryVars, job, currentWriters,
                   monitor, fileLock, target, victim, reason>>

SpillEnough(t) ==
    /\ pc[t] = "spillNext"
    /\ toSpill[t] = <<>> \/ freed[t] > 0
    /\ listLock' = None
    /\ Goto(t, "initPage")
    /\ UNCHANGED <<writerVars, recordVars, bufferVars, memoryVars, job, currentWriters,
                   monitor, fileLock>>

(* doSpill(true) on the next writer: its flag and its row count are read   *)
(* before its monitor is taken.  What it used counts as freed either way.  *)
SpillNext(t) ==
    LET v == Head(toSpill[t])
        b == ActiveBuffer(v)
    IN  /\ pc[t] = "spillNext"
        /\ toSpill[t] # <<>> /\ freed[t] = 0
        /\ toSpill' = [toSpill EXCEPT ![t] = Tail(@)]
        /\ freed' = [freed EXCEPT ![t] = @ + pages[b]]
        /\ \/ /\ spilling[v] \/ NumRecords(b) = 0
              /\ UNCHANGED <<spilling, pc, victim>>
           \/ /\ ~spilling[v] /\ NumRecords(b) > 0
              /\ spilling' = [spilling EXCEPT ![v] = TRUE]
              /\ victim' = [victim EXCEPT ![t] = v]
              /\ pc' = [pc EXCEPT ![t] = "spillMonitor"]
        /\ UNCHANGED <<active, asyncSpillTasks, spillingWriters, recordVars, bufferVars,
                       memoryVars, job, currentWriters, lockVars, target, reason>>

(* synchronized (CometDiskBlockWriter.this), reentrant for the own writer *)
SpillMonitor(t) ==
    /\ pc[t] = "spillMonitor"
    /\ monitor[victim[t]] \in {None, t}
    /\ monitor' = [monitor EXCEPT ![victim[t]] = t]
    /\ Goto(t, "spillFile")
    /\ UNCHANGED <<writerVars, recordVars, bufferVars, memoryVars, job, currentWriters,
                   fileLock, listLock>>

SpillFile(t) ==
    LET b == ActiveBuffer(victim[t])
    IN  /\ pc[t] = "spillFile"
        /\ \/ /\ BeginWrite(t, b)
              /\ Goto(t, "spillWrite")
              /\ UNCHANGED <<monitor, listLock>>
           \/ /\ fileLock[victim[t]] = None /\ taken[b]
              /\ Throw(t, "nullRows")
              /\ UNCHANGED <<outputRecords, taken>>
        /\ UNCHANGED <<writerVars, insertRecords, file, rows, checksum, memoryVars, job,
                       currentWriters>>

(* The native call of a synchronous spill returns or throws.  An exception *)
(* leaves the spilling flag set.                                           *)
SpillWrite(t) ==
    LET b == ActiveBuffer(victim[t])
    IN  /\ pc[t] = "spillWrite"
        /\ \/ /\ EndWrite(b)
              /\ Goto(t, "spillFree")
              /\ UNCHANGED <<monitor, listLock>>
           \/ /\ WriteMayFail
              /\ Throw(t, "writeFailed")
              /\ UNCHANGED <<file, bufferVars>>
        /\ UNCHANGED <<writerVars, insertRecords, outputRecords, memoryVars, job,
                       currentWriters>>

(* The pages are freed and the synchronized block ends. *)
SpillFree(t) ==
    LET v == victim[t]
    IN  /\ pc[t] = "spillFree"
        /\ FreeMemory({ActiveBuffer(v)})
        /\ monitor' = [monitor EXCEPT ![v] = IF v = target[t] THEN t ELSE None]
        /\ Goto(t, "spillDone")
        /\ UNCHANGED <<writerVars, recordVars, bufferVars, job, currentWriters, fileLock,
                       listLock>>

(* The flag is reset after the monitor was released.  A spill at the       *)
(* threshold goes on with the insertion, a spill for memory with the next  *)
(* writer of the list.                                                     *)
SpillDone(t) ==
    /\ pc[t] = "spillDone"
    /\ spilling' = [spilling EXCEPT ![victim[t]] = FALSE]
    /\ Goto(t, IF listLock = t THEN "spillNext" ELSE "page")
    /\ UNCHANGED <<active, asyncSpillTasks, spillingWriters, recordVars, bufferVars,
                   memoryVars, job, currentWriters, lockVars>>

-----------------------------------------------------------------------------
(* The asynchronous spill task of a buffer, on a thread of the pool. *)

JobBegin(b) ==
    /\ job[b] = "queued"
    /\ BeginWrite(b, b)
    /\ job' = [job EXCEPT ![b] = "writing"]
    /\ UNCHANGED <<writerVars, insertRecords, file, rows, checksum, memoryVars,
                   currentWriters, monitor, listLock, threadVars>>

(* Mutant: a finished spill task keeps its pages. *)
JobEndKeepsPages(b) ==
    /\ job[b] = "writing"
    /\ EndWrite(b)
    /\ job' = [job EXCEPT ![b] = "done"]
    /\ spillingWriters' = [spillingWriters EXCEPT ![b[1]] = @ \ {b}]
    /\ UNCHANGED <<active, spilling, asyncSpillTasks, insertRecords, outputRecords,
                   memoryVars, currentWriters, monitor, listLock, threadVars>>

(* Mutant: a finished spill task keeps the file locked. *)
JobEndKeepsFileLock(b) ==
    /\ job[b] = "writing"
    /\ file' = [file EXCEPT ![b[1]] = @ \o rows[b]]
    /\ rows' = [rows EXCEPT ![b] = <<>>]
    /\ taken' = [taken EXCEPT ![b] = FALSE]
    /\ job' = [job EXCEPT ![b] = "done"]
    /\ FreeMemory({b})
    /\ spillingWriters' = [spillingWriters EXCEPT ![b[1]] = @ \ {b}]
    /\ UNCHANGED <<active, spilling, asyncSpillTasks, insertRecords, outputRecords,
                   checksum, currentWriters, lockVars, threadVars>>

JobEnd(b) ==
    /\ job[b] = "writing"
    /\ \/ /\ EndWrite(b)
          /\ job' = [job EXCEPT ![b] = "done"]
       \/ /\ WriteMayFail
          /\ job' = [job EXCEPT ![b] = "failed"]
          /\ fileLock' = [fileLock EXCEPT ![b[1]] = None]
          /\ UNCHANGED <<file, bufferVars>>
    /\ FreeMemory({b})
    /\ spillingWriters' = [spillingWriters EXCEPT ![b[1]] = @ \ {b}]
    /\ UNCHANGED <<active, spilling, asyncSpillTasks, insertRecords, outputRecords,
                   currentWriters, monitor, listLock, threadVars>>

-----------------------------------------------------------------------------
(* The end of CometBypassMergeSortShuffleWriter.write: close each writer. *)

FinishRecords(t) ==
    /\ pc[t] = "insert"
    /\ Goto(t, "closing")
    /\ UNCHANGED <<writerVars, recordVars, bufferVars, memoryVars, job, currentWriters,
                   lockVars>>

CloseNext(t, w) ==
    /\ pc[t] = "closing"
    /\ OwnerOf[w] = t
    /\ w \in currentWriters
    /\ pc' = [pc EXCEPT ![t] = "closeGet"]
    /\ target' = [target EXCEPT ![t] = w]
    /\ UNCHANGED <<writerVars, recordVars, bufferVars, memoryVars, job, currentWriters,
                   lockVars, victim, toSpill, freed, reason>>

(* Mutant: close does not wait for the pending spill tasks. *)
CloseGetNoWait(t) ==
    /\ pc[t] = "closeGet"
    /\ Goto(t, "closeFile")
    /\ UNCHANGED <<writerVars, recordVars, bufferVars, memoryVars, job, currentWriters,
                   lockVars>>

(* Future.get on every remaining task, in the order they were submitted *)
CloseGet(t) ==
    LET S == asyncSpillTasks[target[t]]
    IN  /\ pc[t] = "closeGet"
        /\ \/ /\ \A b \in S : job[b] = "done"
              /\ Goto(t, "closeFile")
              /\ UNCHANGED <<monitor, fileLock, listLock>>
           \/ /\ \E b \in S : /\ job[b] = "failed"
                              /\ \A c \in S : c[2] < b[2] => job[c] = "done"
              /\ Throw(t, "asyncFailed")
        /\ UNCHANGED <<writerVars, recordVars, bufferVars, memoryVars, job, currentWriters>>

(* The last write, without the writer's monitor *)
CloseFile(t) ==
    LET b == ActiveBuffer(target[t])
    IN  /\ pc[t] = "closeFile"
        /\ \/ /\ BeginWrite(t, b)
              /\ Goto(t, "closeWrite")
              /\ UNCHANGED <<monitor, listLock>>
           \/ /\ fileLock[target[t]] = None /\ taken[b]
              /\ Throw(t, "nullRows")
              /\ UNCHANGED <<outputRecords, taken>>
        /\ UNCHANGED <<writerVars, insertRecords, file, rows, checksum, memoryVars, job,
                       currentWriters>>

CloseWrite(t) ==
    /\ pc[t] = "closeWrite"
    /\ \/ /\ EndWrite(ActiveBuffer(target[t]))
          /\ Goto(t, "closeCheck")
          /\ UNCHANGED <<monitor, listLock>>
       \/ /\ WriteMayFail
          /\ Throw(t, "writeFailed")
          /\ UNCHANGED <<file, bufferVars>>
    /\ UNCHANGED <<writerVars, insertRecords, outputRecords, memoryVars, job,
                   currentWriters>>

CloseCheck(t) ==
    LET w == target[t]
    IN  /\ pc[t] = "closeCheck"
        /\ \/ /\ outputRecords[w] = insertRecords[w]
              /\ FreeMemory({ActiveBuffer(w)})
              /\ Goto(t, "closeList")
              /\ UNCHANGED lockVars
           \/ /\ outputRecords[w] # insertRecords[w]
              /\ Throw(t, "wrongCount")
              /\ UNCHANGED memoryVars
        /\ UNCHANGED <<writerVars, recordVars, bufferVars, job, currentWriters>>

CloseList(t) ==
    /\ pc[t] = "closeList"
    /\ listLock = None
    /\ currentWriters' = currentWriters \ {target[t]}
    /\ Goto(t, "closing")
    /\ UNCHANGED <<writerVars, recordVars, bufferVars, memoryVars, job, lockVars>>

Finish(t) ==
    /\ pc[t] = "closing"
    /\ WritersOf(t) \cap currentWriters = {}
    /\ Goto(t, "done")
    /\ UNCHANGED <<writerVars, recordVars, bufferVars, memoryVars, job, currentWriters,
                   lockVars>>

(* stop(false): frees the pages of every writer of the failed task, takes  *)
(* no lock, waits for no task, and leaves currentWriters alone.            *)
Stop(t) ==
    LET W == WritersOf(t)
    IN  /\ pc[t] = "failed"
        /\ FreeMemory({ActiveBuffer(w) : w \in W} \cup UNION {spillingWriters[w] : w \in W})
        /\ Goto(t, "stopped")
        /\ UNCHANGED <<writerVars, recordVars, bufferVars, job, currentWriters, lockVars>>

-----------------------------------------------------------------------------
Ended == \A t \in Tasks : pc[t] \in {"done", "stopped"}
NoJobPending == \A b \in Buffers : job[b] \notin {"queued", "writing"}

Terminated == Ended /\ NoJobPending /\ UNCHANGED vars

TaskStep(t) ==
    /\ UNCHANGED conf
    /\ \/ \E w \in Writers : BeginInsert(t, w) \/ CloseNext(t, w)
       \/ InsertLock(t) \/ AsyncWait(t) \/ AsyncSubmit(t) \/ AcquirePage(t) \/ InitialPage(t)
       \/ SpillLock(t) \/ SpillEnough(t) \/ SpillNext(t) \/ SpillMonitor(t)
       \/ SpillFile(t) \/ SpillWrite(t) \/ SpillFree(t) \/ SpillDone(t)
       \/ FinishRecords(t) \/ CloseGet(t) \/ CloseFile(t) \/ CloseWrite(t) \/ CloseCheck(t)
       \/ CloseList(t) \/ Finish(t) \/ Stop(t)

JobStep(b) == UNCHANGED conf /\ (JobBegin(b) \/ JobEnd(b))

Next ==
    \/ \E t \in Tasks : TaskStep(t)
    \/ \E b \in Buffers : JobStep(b)
    \/ Terminated

Spec == Init /\ [][Next]_vars

(* Threads and pool workers are scheduled, native calls return. *)
Fairness ==
    /\ \A t \in Tasks : WF_vars(TaskStep(t))
    /\ \A b \in Buffers : WF_vars(JobStep(b))

FairSpec == Spec /\ Fairness

-----------------------------------------------------------------------------
(* Properties *)

BuffersOf(w) == {b \in Buffers : b[1] = w}
Copies(w, r) ==
    Cardinality({i \in DOMAIN file[w] : file[w][i] = r})
      + Cardinality({x \in BuffersOf(w) \X (1 .. MaxRows) :
                        x[2] \in DOMAIN rows[x[1]] /\ rows[x[1]][x[2]] = r})

(* A row that insertRow has returned for is in exactly one place, once: in *)
(* the file, or in one of the writer's buffers.  Spills by the owner, by   *)
(* the pool and by other tasks neither lose nor repeat rows.               *)
NoRowLostOrRepeated ==
    \A w \in Writers : \A r \in 1 .. insertRecords[w] :
        /\ Copies(w, r) <= 1
        /\ r < insertRecords[w] => Copies(w, r) = 1

(* Once close has removed the writer from currentWriters its file holds    *)
(* every inserted row exactly once, and nothing else: "it writes all the   *)
(* rows for a partition into a single file".                               *)
FileComplete(w) ==
    /\ Len(file[w]) = insertRecords[w]
    /\ Range(file[w]) = 1 .. insertRecords[w]

(* A closed file is complete, unless an asynchronous spill failed and was  *)
(* dropped from asyncSpillTasks before close could see its exception.      *)
ClosedFileComplete ==
    \A w \in Writers \ currentWriters :
        FileComplete(w) \/ \E b \in BuffersOf(w) : job[b] = "failed"

(* Pages are neither lost nor counted twice, and once every task ended     *)
(* (close, or stop(false) after a failure) and the pool is idle the        *)
(* allocator has all of them back.                                         *)
PagesConserved ==
    /\ freePages + Cardinality(PagesIn(Buffers)) = TotalPages
    /\ Ended /\ NoJobPending => freePages = TotalPages

(* The pages of a running task are not freed while rows that live in them  *)
(* wait for the next write or are being written by native code.            *)
NoUseAfterFree ==
    \A b \in Buffers :
        /\ pc[OwnerOf[b[1]]] \notin {"failed", "stopped"}
        /\ rows[b] # <<>> /\ job[b] # "failed"
        => pages[b] * RowsPerPage >= Len(rows[b])

\* All writers of the executor belong to one task
OneTask == \A v, w \in Writers : OwnerOf[v] = OwnerOf[w]

(* A task that has the executor to itself fails only because a native      *)
(* write failed or, with asynchronous spilling, because the pages are held *)
(* by spills that have not finished: the internal checks of insertRow and  *)
(* close never fire, and spilling always frees a page when it is           *)
(* synchronous.  The allocator must be able to hand out one page at all.   *)
OnlyRealFailures ==
    OneTask /\ TotalPages > 0 => \A t \in Tasks :
        \/ reason[t] \in {"none", "writeFailed", "asyncFailed"}
        \/ isAsync /\ reason[t] = "outOfMemory"

(* With synchronous spilling the checksum getChecksum returns for a closed *)
(* partition writer covers the whole file: the value of each spill is      *)
(* passed on to the next.                                                  *)
ChecksumCoversFile ==
    ~isAsync => \A w \in Writers \ currentWriters : checksum[ActiveBuffer(w)] = file[w]

(* A task that has the executor to itself ends, and every spill task is    *)
(* finished: no wait, for a monitor, a file or a spill task, lasts forever. *)
EveryTaskEnds == OneTask => <>(Ended /\ NoJobPending)

(* ArrowIPCWriter.spill returns: it spills writers "until required memory  *)
(* is acquired".                                                           *)
SpillReturns ==
    \A t \in Tasks : pc[t] = "spillLock" ~> pc[t] \in {"insert", "failed", "stopped"}

=============================================================================
