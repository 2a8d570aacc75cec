----------------------- MODULE DiskBlockWriterInvariant -----------------------
(* The invariant Inv of the hash-based columnar shuffle: who works on       *)
(* which writer under which monitor and flag, and how the buffers of a      *)
(* writer follow each other.  It is preserved action by action.             *)
EXTENDS DiskBlockWriter, TLAPS

(* Where a task is in insertRow, in close, and between setting and         *)
(* resetting the spilling flag of the writer it spills.                    *)
Inserting == {"lock", "page", "asyncWait", "spillLock", "spillNext", "spillMonitor",
              "spillFile", "spillWrite", "spillFree", "spillDone", "initPage"}
Closing == {"closeGet", "closeFile", "closeWrite", "closeCheck", "closeList"}
Flagged == {"asyncWait", "spillMonitor", "spillFile", "spillWrite", "spillFree",
            "spillDone"}
Labels == Inserting \cup Closing \cup {"insert", "closing", "done", "failed", "stopped"}

Jobs == {"none", "queued", "writing", "done", "failed"}

(* The writer the task is inserting a row into: counted, not stored yet *)
Pending(w) == pc[OwnerOf[w]] \in Inserting /\ target[OwnerOf[w]] = w

BufferTypes ==
    /\ active \in [Writers -> 0 .. MaxRows]
    /\ insertRecords \in [Writers -> 0 .. MaxRows]
    /\ rows \in [Buffers -> Seq(1 .. MaxRows)]
    /\ job \in [Buffers -> Jobs]
    /\ asyncSpillTasks \in [Writers -> SUBSET Buffers]
    /\ spillingWriters \in [Writers -> SUBSET Buffers]

ControlTypes ==
    /\ pc \in [Tasks -> Labels]
    /\ target \in [Tasks -> Writers \cup {None}]
    /\ victim \in [Tasks -> Writers \cup {None}]
    /\ monitor \in [Writers -> Tasks \cup {None}]
    /\ spilling \in [Writers -> BOOLEAN]

TypeOK ==
    /\ conf \in Configs
    /\ BufferTypes
    /\ ControlTypes
    /\ currentWriters \subseteq Writers
    /\ toSpill \in [Tasks -> Seq(Writers)]

(* Who works on which writer, and which monitor and flag it has meanwhile *)
TaskInv ==
    \A t \in Tasks :
        /\ pc[t] \in Inserting \cup Closing => target[t] \in Writers /\ OwnerOf[target[t]] = t
        /\ pc[t] \in Inserting \ {"lock"} => monitor[target[t]] = t
        /\ pc[t] \in Flagged => victim[t] \in Writers /\ spilling[victim[t]]
        /\ pc[t] \in {"spillFile", "spillWrite", "spillFree"} => monitor[victim[t]] = t
        /\ pc[t] = "asyncWait" => victim[t] = target[t] /\ isAsync

(* The spilling flag of a writer excludes a second spill of it. *)
FlagInv ==
    \A t, u \in Tasks :
        pc[t] \in Flagged /\ pc[u] \in Flagged /\ victim[t] = victim[u] => t = u

(* The static list holds every writer that rows are still inserted into. *)
ListInv ==
    \A w \in Writers :
        /\ pc[OwnerOf[w]] \in Inserting \cup {"insert"} => w \in currentWriters
        /\ pc[OwnerOf[w]] = "done" => w \notin currentWriters

ControlInv == TaskInv /\ FlagInv /\ ListInv

(* Buffers are used one after the other; each one but the active one has   *)
(* been handed to the pool; the ones to come are untouched.                *)
BufferOrder ==
    \A b \in Buffers :
        /\ job[b] = "none" <=> b[2] >= active[b[1]]
        /\ b[2] > active[b[1]] => rows[b] = <<>>
        /\ job[b] \in {"queued", "writing"} => b \in asyncSpillTasks[b[1]]
        /\ job[b] = "done" => rows[b] = <<>>
        /\ Len(rows[b]) <= MaxRows

(* No writer uses more buffers than it has got rows. *)
BufferCount ==
    \A w \in Writers :
        /\ \A b \in asyncSpillTasks[w] \cup spillingWriters[w] : b[1] = w
        /\ active[w] + Len(rows[ActiveBuffer(w)]) <= insertRecords[w]
        /\ Pending(w) => active[w] + Len(rows[ActiveBuffer(w)]) < insertRecords[w]

(* Whether there are rows in the buffer at each point of a spill or close. *)
BufferPhase ==
    \A t \in Tasks :
        /\ pc[t] = "asyncWait" => rows[ActiveBuffer(target[t])] # <<>>
        /\ pc[t] = "spillFree" => rows[ActiveBuffer(victim[t])] = <<>>
        /\ pc[t] \in {"closeCheck", "closeList"} => rows[ActiveBuffer(target[t])] = <<>>

BufferInv == BufferOrder /\ BufferCount /\ BufferPhase

Inv == TypeOK /\ ControlInv /\ BufferInv


-----------------------------------------------------------------------------
(* Facts about constants, buffers and configurations *)

LEMMA BufferFacts ==
    /\ \A b \in Buffers : b[1] \in Writers /\ b[2] \in 0 .. MaxRows
    /\ \A b, c \in Buffers : b[1] = c[1] /\ b[2] = c[2] => b = c
    /\ \A w \in Writers : \A g \in 0 .. MaxRows : <<w, g>> \in Buffers
BY DEF Buffers

LEMMA ConfFacts ==
    ASSUME TypeOK
    PROVE  /\ OwnerOf \in [Writers -> Tasks]
           /\ TotalPages \in Nat
           /\ SpillThreshold \in Nat \ {0}
           /\ AsyncThreadNum \in Nat
BY Zenon, ConfigAssumption DEF TypeOK, BufferTypes, ControlTypes, OwnerOf, TotalPages, SpillThreshold, AsyncThreadNum

LEMMA ConfSame ==
    ASSUME conf' = conf
    PROVE  OwnerOf' = OwnerOf /\ isAsync' = isAsync /\ TotalPages' = TotalPages
BY Zenon DEF OwnerOf, isAsync, AsyncThreadNum, TotalPages

(* The active buffer of a writer is one of its buffers. *)
LEMMA ActiveFacts ==
    ASSUME TypeOK, NEW w \in Writers
    PROVE  /\ ActiveBuffer(w) \in Buffers
           /\ ActiveBuffer(w)[1] = w /\ ActiveBuffer(w)[2] = active[w]
BY BufferFacts DEF ActiveBuffer, TypeOK, BufferTypes, ControlTypes

(* The conjuncts of the invariant *)
LEMMA InvParts ==
    ASSUME Inv
    PROVE  /\ TypeOK /\ BufferTypes /\ ControlTypes
           /\ TaskInv /\ FlagInv /\ ListInv
           /\ BufferOrder /\ BufferCount /\ BufferPhase
BY Zenon DEF Inv, TypeOK, BufferTypes, ControlTypes, ControlInv, BufferInv

(* What a step that moves one task does to the others *)
LEMMA PcMove ==
    ASSUME Inv, NEW t \in Tasks, NEW label, pc' = [pc EXCEPT ![t] = label]
    PROVE  \A u \in Tasks : pc'[u] = IF u = t THEN label ELSE pc[u]
BY InvParts DEF ControlTypes

(* Two tasks never work on one writer at a time. *)
LEMMA OtherWriter ==
    ASSUME Inv, NEW t \in Tasks, NEW u \in Tasks, u # t, NEW w \in Writers
    PROVE  /\ OwnerOf[w] = t /\ pc[u] \in Inserting \cup Closing => target[u] \in Writers /\ target[u] # w
           /\ monitor[w] = t /\ pc[u] \in {"spillFile", "spillWrite", "spillFree"} =>
                victim[u] \in Writers /\ victim[u] # w
BY InvParts DEF TaskInv, Flagged

(* No row becomes pending but by a step to the insertion of one. *)
LEMMA PendingMove ==
    ASSUME Inv, conf' = conf, NEW t \in Tasks, NEW label, pc' = [pc EXCEPT ![t] = label],
           target' = target, label \in Inserting => pc[t] \in Inserting
    PROVE  \A v \in Writers : Pending(v)' => Pending(v) /\ (label \notin Inserting => OwnerOf[v] # t)
<1>1. \A v \in Writers : OwnerOf[v] \in Tasks /\ OwnerOf'[v] = OwnerOf[v]
  BY ConfSame, ConfFacts, InvParts, Zenon
<1> QED
  BY Zenon, <1>1, InvParts DEF ControlTypes, Pending

LEMMA NextFits ==
    ASSUME NEW a \in Nat, NEW n \in Nat, NEW m \in Nat, NEW k \in Nat, a + n < m, m <= k
    PROVE  a + (n + 1) <= m /\ n + 1 <= k
OBVIOUS

LEMMA RowFits ==
    ASSUME NEW s \in Seq(1 .. MaxRows), NEW a \in 0 .. MaxRows, NEW i \in 0 .. MaxRows, a + Len(s) < i
    PROVE  Len(s) \in Nat /\ i \in 1 .. MaxRows /\ a \in Nat /\ i \in Nat /\ i <= MaxRows
BY ConfigAssumption

LEMMA AppendLen ==
    ASSUME NEW S, NEW s \in Seq(S), NEW e \in S
    PROVE  Len(Append(s, e)) = Len(s) + 1
OBVIOUS

-----------------------------------------------------------------------------
(* The invariant Inv, action by action *)

bufferState == <<active, asyncSpillTasks, spillingWriters, insertRecords, rows, job>>
controlState == <<spilling, currentWriters, monitor, target, victim>>

(* What a step of task t to a label must establish for t, must leave alone *)
(* for the other tasks, and may do to the static list.                     *)
Holds(t, label) ==
    /\ label \in Inserting \cup Closing => target'[t] \in Writers /\ OwnerOf[target'[t]] = t
    /\ label \in Inserting \ {"lock"} => monitor'[target'[t]] = t
    /\ label \in Flagged => victim'[t] \in Writers /\ spilling'[victim'[t]]
    /\ label \in {"spillFile", "spillWrite", "spillFree"} => monitor'[victim'[t]] = t
    /\ label = "asyncWait" => victim'[t] = target'[t] /\ isAsync

Spares(t, label) ==
    /\ \A u \in Tasks \ {t} : target'[u] = target[u] /\ victim'[u] = victim[u]
    /\ \A v \in Writers : monitor[v] \in Tasks \ {t} => monitor'[v] = monitor[v]
    /\ \A u \in Tasks \ {t} : pc[u] \in Flagged =>
         spilling'[victim[u]] /\ (label \in Flagged => victim[u] # victim'[t])

Lists(t, label) ==
    /\ label \in Inserting \cup {"insert"} =>
         pc[t] \in Inserting \cup {"insert"} /\ currentWriters' = currentWriters
    /\ label = "done" => WritersOf(t) \cap currentWriters = {}
    /\ currentWriters' \subseteq currentWriters
    /\ \A w \in currentWriters \ currentWriters' : OwnerOf[w] = t

LEMMA ControlStep ==
    ASSUME NEW t \in Tasks, NEW label, Inv, conf' = conf, pc' = [pc EXCEPT ![t] = label],
           Holds(t, label), Spares(t, label), Lists(t, label)
    PROVE  ControlInv'
<1>1. pc'[t] = label /\ \A u \in Tasks \ {t} : pc'[u] = pc[u]
  BY Zenon, InvParts DEF ControlTypes
<1>2. OwnerOf' = OwnerOf /\ isAsync' = isAsync /\ \A v \in Writers : OwnerOf[v] \in Tasks
  BY ConfSame, ConfFacts, InvParts, Zenon
<1>3. TaskInv'
  <2>1. ASSUME NEW u \in Tasks
        PROVE  /\ pc'[u] \in Inserting \cup Closing => target'[u] \in Writers /\ OwnerOf'[target'[u]] = u
               /\ pc'[u] \in Inserting \ {"lock"} => monitor'[target'[u]] = u
               /\ pc'[u] \in Flagged => victim'[u] \in Writers /\ spilling'[victim'[u]]
               /\ pc'[u] \in {"spillFile", "spillWrite", "spillFree"} => monitor'[victim'[u]] = u
               /\ pc'[u] = "asyncWait" => victim'[u] = target'[u] /\ isAsync'
    <3>1. CASE u = t
      BY <1>1, <1>2, <3>1, Zenon DEF Holds
    <3>2. CASE u # t
      <4>1. /\ pc[u] \in Inserting \ {"lock"} => pc[u] \in Inserting \cup Closing
            /\ pc[u] \in {"spillFile", "spillWrite", "spillFree"} => pc[u] \in Flagged
        BY Zenon DEF Flagged
      <4> QED
        BY <1>1, <1>2, <3>2, <4>1, InvParts DEF TaskInv, Spares
    <3> QED
      BY <3>1, <3>2, Zenon
  <2> QED
    BY <2>1, Zenon DEF TaskInv
<1>4. FlagInv'
  <2>1. ASSUME NEW u \in Tasks, NEW v \in Tasks, pc'[u] \in Flagged, pc'[v] \in Flagged,
               victim'[u] = victim'[v]
        PROVE  u = v
    <3>1. CASE u # t /\ v # t
      BY <1>1, <2>1, <3>1, InvParts, Zenon DEF FlagInv, Spares
    <3>2. CASE u = t \/ v = t
      BY <1>1, <2>1, <3>2 DEF Spares
    <3> QED
      BY <3>1, <3>2, Zenon
  <2> QED
    BY <2>1, Zenon DEF FlagInv
<1>5. ListInv'
  <2>1. ASSUME NEW w \in Writers
        PROVE  /\ pc'[OwnerOf'[w]] \in Inserting \cup {"insert"} => w \in currentWriters'
               /\ pc'[OwnerOf'[w]] = "done" => w \notin currentWriters'
    <3>1. CASE OwnerOf[w] = t
      BY Zenon, <1>1, <1>2, <3>1, InvParts DEF ListInv, Lists, WritersOf
    <3>2. CASE OwnerOf[w] # t
      BY Zenon, <1>1, <1>2, <3>2, InvParts DEF ListInv, Lists
    <3> QED
      BY <3>1, <3>2, Zenon
  <2> QED
    BY <2>1, Zenon DEF ListInv
<1> QED
  BY <1>3, <1>4, <1>5, Zenon DEF ControlInv

(* A step of one task that leaves the buffers alone *)
LEMMA QuietBuffers ==
    ASSUME NEW t \in Tasks, NEW label, Inv, conf' = conf,
           pc' = [pc EXCEPT ![t] = label],
           UNCHANGED bufferState, target' = target,
           \A u \in Tasks : u # t => victim'[u] = victim[u],
           label \in Inserting => pc[t] \in Inserting,
           label = "asyncWait" => rows[ActiveBuffer(target[t])] # <<>>,
           label # "spillFree",
           label \in {"closeCheck", "closeList"} => pc[t] = "closeCheck"
    PROVE  BufferInv'
<1>1. pc'[t] = label /\ \A u \in Tasks : u # t => pc'[u] = pc[u]
  BY Zenon, InvParts DEF ControlTypes
<1>2. UNCHANGED <<active, asyncSpillTasks, spillingWriters, insertRecords, rows, job>>
  BY Zenon DEF bufferState
<1>3. \A v \in Writers : Pending(v)' => Pending(v)
  BY PendingMove, Zenon
<1>4. BufferOrder'
  BY <1>2, InvParts, Zenon DEF BufferOrder
<1>5. BufferCount'
  BY <1>2, <1>3, InvParts, Zenon DEF BufferCount, ActiveBuffer
<1>6. BufferPhase'
  <2>1. ASSUME NEW u \in Tasks
        PROVE  /\ pc'[u] = "asyncWait" => rows'[ActiveBuffer(target[u])'] # <<>>
               /\ pc'[u] = "spillFree" => rows'[ActiveBuffer(victim[u])'] = <<>>
               /\ pc'[u] \in {"closeCheck", "closeList"} => rows'[ActiveBuffer(target[u])'] = <<>>
    <3>1. CASE u = t
      BY Zenon, <1>1, <1>2, <3>1, InvParts DEF BufferPhase, ActiveBuffer
    <3>2. CASE u # t
      BY Zenon, <1>1, <1>2, <3>2, InvParts DEF BufferPhase, ActiveBuffer
    <3> QED
      BY <3>1, <3>2, Zenon
  <2> QED
    BY <2>1, Zenon DEF BufferPhase
<1> QED
  BY <1>4, <1>5, <1>6, Zenon DEF BufferInv

LEMMA InitInv == Init => Inv
<1> SUFFICES ASSUME Init PROVE Inv
  BY Zenon
<1>1. TypeOK
  <2>1. \A t \in Tasks : toSpill[t] \in Seq(Writers)
    BY DEF Init
  <2> QED
    BY <2>1, ConfigAssumption DEF Init, TypeOK, BufferTypes, ControlTypes, Labels, Jobs
<1>2. ControlInv
  BY Zenon, <1>1, ConfFacts DEF Init, ControlInv, TaskInv, FlagInv, ListInv, Inserting, Closing, Flagged
<1>3. BufferInv
  <2>1. \A b \in Buffers : rows[b] = <<>> /\ job[b] = "none"
    BY Zenon DEF Init
  <2>2. \A w \in Writers : active[w] = 0 /\ asyncSpillTasks[w] = {} /\ spillingWriters[w] = {} /\ insertRecords[w] = 0
    BY Zenon DEF Init
  <2>3. \A t \in Tasks : pc[t] = "insert"
    BY Zenon DEF Init
  <2> QED
    BY <1>1, <2>1, <2>2, <2>3, ConfFacts, ActiveFacts, BufferFacts, ConfigAssumption
       DEF BufferInv, BufferOrder, BufferCount, BufferPhase, Pending, Inserting
<1> QED
  BY <1>1, <1>2, <1>3, Zenon DEF Inv

(* A task moves on, and changes no flag, monitor or buffer. *)
LEMMA MoveInv ==
    ASSUME NEW t \in Tasks, NEW label, Inv, conf' = conf,
           pc' = [pc EXCEPT ![t] = label],
           toSpill' \in [Tasks -> Seq(Writers)],
           UNCHANGED <<bufferState, controlState>>,
           \/ pc[t] = "page" /\ label = "spillLock"
           \/ pc[t] = "spillLock" /\ label = "spillNext"
           \/ pc[t] = "spillNext" /\ label = "initPage"
           \/ pc[t] = "spillFile" /\ label = "spillWrite"
           \/ pc[t] = "insert" /\ label = "closing"
           \/ pc[t] = "closing" /\ label = "done" /\ WritersOf(t) \cap currentWriters = {}
           \/ pc[t] = "closeGet" /\ label = "closeFile"
           \/ pc[t] = "closeFile" /\ label = "closeWrite"
           \/ pc[t] = "closeCheck" /\ label = "closeList"
           \/ pc[t] = "failed" /\ label = "stopped"
    PROVE  Inv'
<1>0. /\ label \in Labels
      /\ label \in Inserting => pc[t] \in Inserting \ {"lock"}
      /\ label \in Closing => pc[t] \in Closing
      /\ label \in Flagged => pc[t] \in Flagged
      /\ label \in {"spillFile", "spillWrite", "spillFree"} => pc[t] = "spillFile"
      /\ label \in {"closeCheck", "closeList"} => pc[t] = "closeCheck"
      /\ label \notin {"asyncWait", "spillFree", "insert"}
      /\ label = "done" => WritersOf(t) \cap currentWriters = {}
  BY Zenon DEF Labels, Inserting, Closing, Flagged
<1>1. TypeOK'
  BY Zenon, <1>0, InvParts DEF TypeOK, BufferTypes, ControlTypes, bufferState, controlState
<1>2. ControlInv'
  <2>1. UNCHANGED <<spilling, currentWriters, monitor, target, victim>>
    BY Zenon DEF controlState
  <2>2. Holds(t, label)
    BY Zenon, <1>0, <2>1, InvParts DEF Holds, TaskInv
  <2>3. Spares(t, label)
    BY Zenon, <1>0, <2>1, InvParts DEF Spares, TaskInv, FlagInv
  <2>4. Lists(t, label)
    BY <1>0, <2>1, Zenon DEF Lists
  <2> QED
    BY <2>2, <2>3, <2>4, ControlStep, Zenon
<1>3. BufferInv'
  BY <1>0, QuietBuffers, Zenon DEF controlState
<1> QED
  BY <1>1, <1>2, <1>3, Zenon DEF Inv

(* A thrown exception only releases monitors of the task that ends. *)
LEMMA ThrowInv ==
    ASSUME NEW t \in Tasks, NEW why, Throw(t, why), Inv, conf' = conf,
           UNCHANGED <<bufferState, spilling, currentWriters>>
    PROVE  Inv'
<1>0. /\ pc' = [pc EXCEPT ![t] = "failed"]
      /\ monitor' = [w \in Writers |-> IF monitor[w] = t THEN None ELSE monitor[w]]
      /\ UNCHANGED <<target, victim, toSpill>>
  BY Zenon DEF Throw
<1>1. TypeOK'
  BY Zenon, <1>0, InvParts DEF TypeOK, BufferTypes, ControlTypes, Labels, bufferState
<1>2. ControlInv'
  <2>h. Holds(t, "failed")
    BY Zenon, <1>0 DEF Holds, Inserting, Closing, Flagged
  <2>s. Spares(t, "failed")
    BY Zenon, <1>0, ConfigAssumption, InvParts DEF Spares, TaskInv, Flagged
  <2>l. Lists(t, "failed")
    BY Zenon, <1>0 DEF Lists, Inserting
  <2> QED
    BY <1>0, <2>h, <2>s, <2>l, ControlStep, Zenon
<1>3. BufferInv'
  <2>1. "failed" \notin Inserting \cup {"asyncWait", "spillFree", "closeCheck", "closeList"}
    BY Zenon DEF Inserting
  <2> QED
    BY <1>0, <2>1, QuietBuffers, Zenon
<1> QED
  BY <1>1, <1>2, <1>3, Zenon DEF Inv

LEMMA BeginInsertInv ==
    ASSUME NEW t \in Tasks, NEW w \in Writers, BeginInsert(t, w), Inv, conf' = conf
    PROVE  Inv'
<1>0. /\ pc[t] = "insert" /\ OwnerOf[w] = t /\ insertRecords[w] < MaxRows
      /\ insertRecords' = [insertRecords EXCEPT ![w] = @ + 1]
      /\ pc' = [pc EXCEPT ![t] = "lock"]
      /\ target' = [target EXCEPT ![t] = w]
      /\ UNCHANGED <<active, asyncSpillTasks, spillingWriters, rows, job, spilling,
                     currentWriters, monitor, victim, toSpill>>
  BY Zenon DEF BeginInsert, writerVars, bufferVars, lockVars
<1>1. TypeOK'
  BY <1>0, ConfigAssumption, InvParts DEF TypeOK, BufferTypes, ControlTypes, Labels, Inserting
<1>2. ControlInv'
  <2>h. Holds(t, "lock")
    BY Zenon, <1>0, InvParts DEF Holds, Inserting, Closing, Flagged, ControlTypes
  <2>s. Spares(t, "lock")
    BY <1>0, InvParts DEF Spares, TaskInv, ControlTypes, Flagged
  <2>l. Lists(t, "lock")
    BY Zenon, <1>0 DEF Lists, Inserting
  <2> QED
    BY <1>0, <2>h, <2>s, <2>l, ControlStep, Zenon
<1>3. BufferInv'
  <2>1. \A v \in Writers : insertRecords'[v] = IF v = w THEN insertRecords[v] + 1 ELSE insertRecords[v]
    BY Zenon, <1>0, InvParts DEF BufferTypes
  <2>2. \A v \in Writers : ActiveBuffer(v)' = ActiveBuffer(v) /\ Len(rows[ActiveBuffer(v)]) \in Nat
    BY <1>0, ActiveFacts, InvParts DEF ControlTypes, ActiveBuffer
  <2>3. \A v \in Writers : Pending(v)' => v = w \/ Pending(v)
    BY Zenon, <1>0, ConfSame, ConfFacts, InvParts DEF ControlTypes, Pending
  <2>4. \A v \in Writers : active[v] \in Nat /\ insertRecords[v] \in Nat
    BY InvParts DEF BufferTypes
  <2>5. \A u \in Tasks : pc'[u] # "lock" => u # t /\ pc'[u] = pc[u] /\ target'[u] = target[u] /\ victim'[u] = victim[u]
    BY Zenon, <1>0, InvParts DEF ControlTypes
  <2> QED
    BY SMTT(30), <1>0, <2>1, <2>2, <2>3, <2>4, <2>5, InvParts DEF BufferInv, BufferOrder, BufferCount, BufferPhase, ActiveBuffer
<1> QED
  BY <1>1, <1>2, <1>3, Zenon DEF Inv

LEMMA InsertLockInv ==
    ASSUME NEW t \in Tasks, InsertLock(t), Inv, conf' = conf
    PROVE  Inv'
<1> DEFINE w == target[t]
<1>0. /\ pc[t] = "lock" /\ monitor[w] = None
      /\ UNCHANGED <<bufferState, currentWriters, target, toSpill>>
  BY Zenon DEF InsertLock, recordVars, bufferVars, bufferState
<1>1. w \in Writers /\ OwnerOf[w] = t
  BY Zenon, <1>0, InvParts DEF ControlInv, TaskInv, FlagInv, ListInv, Inserting
<1>2. CASE /\ monitor' = [monitor EXCEPT ![w] = t]
           /\ pc' = [pc EXCEPT ![t] = "page"]
           /\ UNCHANGED <<spilling, victim>>
  <2>1. TypeOK'
    BY Zenon, <1>0, <1>1, <1>2, InvParts DEF TypeOK, BufferTypes, ControlTypes, Labels, Inserting, bufferState
  <2>2. ControlInv'
    <3>1. monitor'[w] = t /\ \A v \in Writers : v # w => monitor'[v] = monitor[v]
      BY Zenon, <1>1, <1>2, InvParts DEF ControlTypes
    <3>2. None \notin Tasks
      BY Zenon, ConfigAssumption
    <3>h. Holds(t, "page")
      BY Zenon, <1>0, <1>1, <1>2, <3>1 DEF Holds, Inserting, Closing, Flagged
    <3>s. Spares(t, "page")
      BY Zenon, <1>0, <1>1, <1>2, <3>1, <3>2, InvParts DEF Spares, TaskInv, Flagged
    <3>l. Lists(t, "page")
      BY Zenon, <1>0, <1>1, <1>2 DEF Lists, Inserting
    <3> QED
      BY <1>0, <1>1, <1>2, <3>h, <3>s, <3>l, ControlStep, Zenon
  <2>3. BufferInv'
    BY <1>0, <1>1, <1>2, QuietBuffers, Zenon DEF Inserting
  <2> QED
    BY <2>1, <2>2, <2>3, Zenon DEF Inv
<1>3. CASE /\ NumRecords(ActiveBuffer(w)) >= SpillThreshold
           /\ ~spilling[w]
           /\ monitor' = [monitor EXCEPT ![w] = t]
           /\ spilling' = [spilling EXCEPT ![w] = TRUE]
           /\ pc' = [pc EXCEPT ![t] = IF isAsync THEN "asyncWait" ELSE "spillFile"]
           /\ victim' = [victim EXCEPT ![t] = w]
  <2>1. TypeOK'
    BY Zenon, <1>0, <1>1, <1>3, InvParts DEF TypeOK, BufferTypes, ControlTypes, Labels, Inserting, bufferState
  <2>2. ControlInv'
    <3>1. monitor'[w] = t /\ \A v \in Writers : v # w => monitor'[v] = monitor[v]
      BY Zenon, <1>1, <1>3, InvParts DEF ControlTypes
    <3>2. None \notin Tasks
      BY ConfigAssumption
    <3>3. /\ victim'[t] = w /\ \A u \in Tasks \ {t} : victim'[u] = victim[u]
          /\ spilling'[w] /\ \A v \in Writers : spilling[v] => spilling'[v]
      BY Zenon, <1>1, <1>3, InvParts DEF ControlTypes
    <3>4. PICK label \in {"asyncWait", "spillFile"} :
             pc' = [pc EXCEPT ![t] = label] /\ (label = "asyncWait" => isAsync)
      BY <1>3, Zenon
    <3>h. Holds(t, label)
      BY Zenon, <1>0, <1>1, <3>3, <3>4, <3>1 DEF Holds, Inserting, Closing, Flagged
    <3>s. Spares(t, label)
      BY <1>0, <1>1, <3>3, <3>4, <1>3, <3>1, <3>2, InvParts DEF Spares, TaskInv
    <3>l. Lists(t, label)
      BY Zenon, <1>0, <1>1, <3>3, <3>4 DEF Lists, Inserting
    <3> QED
      BY <1>0, <1>1, <3>3, <3>4, <3>h, <3>s, <3>l, ControlStep, Zenon
  <2>3. rows[ActiveBuffer(w)] # <<>>
    BY <1>3, ConfFacts, InvParts DEF NumRecords
  <2>4. PICK label \in {"asyncWait", "spillFile"} : pc' = [pc EXCEPT ![t] = label]
    BY Zenon, <1>3
  <2>5. \A u \in Tasks : u # t => victim'[u] = victim[u]
    BY Zenon, <1>3, InvParts DEF ControlTypes
  <2>6. BufferInv'
    BY Zenon, <1>0, <1>1, <2>3, <2>4, <2>5, QuietBuffers DEF Inserting
  <2> QED
    BY <2>1, <2>2, <2>6, Zenon DEF Inv
<1>4. CASE Throw(t, "notEmpty") /\ UNCHANGED spilling
  BY Zenon, <1>0, <1>4, ThrowInv
<1> QED
  BY Zenon, <1>2, <1>3, <1>4 DEF InsertLock

LEMMA AsyncWaitInv ==
    ASSUME NEW t \in Tasks, AsyncWait(t), Inv, conf' = conf
    PROVE  Inv'
<1> DEFINE w == target[t]
<1>0. /\ pc[t] = "asyncWait"
      /\ UNCHANGED <<active, spillingWriters, insertRecords, rows, job, controlState, pc, toSpill>>
  BY Zenon DEF AsyncWait, recordVars, bufferVars, lockVars, threadVars, controlState
<1>1. w \in Writers
  BY Zenon, <1>0, InvParts DEF ControlInv, TaskInv, FlagInv, ListInv, Inserting
<1>2. PICK b \in asyncSpillTasks[w] : /\ job[b] \in {"done", "failed"}
                                      /\ asyncSpillTasks' = [asyncSpillTasks EXCEPT ![w] = @ \ {b}]
  BY Zenon DEF AsyncWait
<1>3. TypeOK'
  BY Zenon, <1>0, <1>1, <1>2, InvParts DEF TypeOK, BufferTypes, ControlTypes, controlState
<1>4. ControlInv'
  BY <1>0, ConfSame, InvParts DEF ControlInv, TaskInv, FlagInv, ListInv, controlState
<1>5. \A v \in Writers : asyncSpillTasks'[v] \subseteq asyncSpillTasks[v]
  BY Zenon, <1>0, <1>1, <1>2, InvParts DEF BufferTypes
<1>6. \A v \in Writers : Pending(v)' => Pending(v)
  BY <1>0, ConfSame, Zenon DEF Pending, controlState
<1>7. \A c \in Buffers : job[c] \in {"queued", "writing"} => c \in asyncSpillTasks'[c[1]]
  <2>1. \A c \in Buffers : job[c] \in {"queued", "writing"} => c # b /\ c \in asyncSpillTasks[c[1]]
    BY Zenon, <1>2, InvParts DEF BufferOrder
  <2> QED
    BY Zenon, <1>1, <1>2, <2>1, BufferFacts, InvParts DEF BufferTypes
<1>8. BufferOrder'
  BY <1>0, <1>7, InvParts, Zenon DEF BufferOrder
<1>9. BufferCount'
  BY <1>0, <1>5, <1>6, InvParts, Zenon DEF BufferCount, ActiveBuffer
<1>10. BufferPhase'
  BY <1>0, InvParts, Zenon DEF BufferPhase, ActiveBuffer, controlState
<1> QED
  BY <1>3, <1>4, <1>8, <1>9, <1>10, Zenon DEF Inv, BufferInv

LEMMA AsyncSubmitInv ==
    ASSUME NEW t \in Tasks, AsyncSubmit(t), Inv, conf' = conf
    PROVE  Inv'
<1> DEFINE w == target[t]
           b == ActiveBuffer(w)
<1>0. /\ pc[t] = "asyncWait"
      /\ active' = [active EXCEPT ![w] = @ + 1]
      /\ spillingWriters' = [spillingWriters EXCEPT ![w] = @ \cup {b}]
      /\ asyncSpillTasks' = [asyncSpillTasks EXCEPT ![w] = @ \cup {b}]
      /\ job' = [job EXCEPT ![b] = "queued"]
      /\ spilling' = [spilling EXCEPT ![w] = FALSE]
      /\ pc' = [pc EXCEPT ![t] = "page"]
      /\ UNCHANGED <<insertRecords, rows, currentWriters, monitor, target, victim, toSpill>>
  BY Zenon DEF AsyncSubmit, Goto, recordVars, bufferVars, lockVars
<1>1. /\ w \in Writers /\ OwnerOf[w] = t /\ victim[t] = w /\ monitor[w] = t
      /\ b \in Buffers /\ b[1] = w /\ b[2] = active[w]
  BY Zenon, <1>0, ActiveFacts, InvParts DEF ControlInv, TaskInv, FlagInv, ListInv, Inserting
<1>2. rows[b] # <<>> /\ rows[b] \in Seq(1 .. MaxRows)
  BY Zenon, <1>0, <1>1, InvParts DEF BufferOrder, BufferCount, BufferPhase, BufferTypes
<1>3. Len(rows[b]) \in Nat /\ Len(rows[b]) > 0
  BY <1>2
<1>4. active[w] + Len(rows[b]) < insertRecords[w]
  BY Zenon, <1>0, <1>1, InvParts DEF BufferOrder, BufferCount, BufferPhase, Pending, Inserting
<1>5. active[w] \in Nat /\ insertRecords[w] \in Nat /\ active[w] + 1 < insertRecords[w]
  BY <1>1, <1>3, <1>4, InvParts DEF BufferTypes
<1>6. TypeOK'
  <2>1. active[w] + 1 \in 0 .. MaxRows
    BY <1>1, <1>5, ConfigAssumption, InvParts DEF BufferTypes
  <2>2. "page" \in Labels /\ "queued" \in Jobs
    BY Zenon DEF Labels, Inserting, Jobs
  <2> QED
    BY <1>0, <1>1, <2>1, <2>2, InvParts, Zenon DEF TypeOK, BufferTypes, ControlTypes
<1>7. /\ \A u \in Tasks : pc'[u] = IF u = t THEN "page" ELSE pc[u]
      /\ \A v \in Writers : active'[v] = IF v = w THEN active[v] + 1 ELSE active[v]
      /\ \A c \in Buffers : job'[c] = IF c = b THEN "queued" ELSE job[c]
  BY Zenon, <1>0, <1>1, InvParts DEF BufferTypes, ControlTypes
<1>8. ControlInv'
  <2>1. \A v \in Writers : v # w => spilling'[v] = spilling[v]
    BY Zenon, <1>0, InvParts DEF ControlTypes
  <2>2. "page" \notin Flagged /\ \A u \in Tasks \ {t} : pc[u] \in Flagged => victim[u] # w
    BY Zenon, <1>0, <1>1, InvParts DEF FlagInv, Flagged
  <2>h. Holds(t, "page")
    BY Zenon, <1>0, <1>1 DEF Holds, Inserting, Closing, Flagged
  <2>s. Spares(t, "page")
    BY <1>0, <1>1, <2>1, <2>2, InvParts DEF Spares, TaskInv
  <2>l. Lists(t, "page")
    BY Zenon, <1>0, <1>1 DEF Lists, Inserting
  <2> QED
    BY <1>0, <1>1, <2>h, <2>s, <2>l, ControlStep, Zenon
<1>9. BufferInv'
  <2> DEFINE next == <<w, active[w] + 1>>
  <2>1. \A c \in Buffers : c[1] = w /\ c[2] = active[w] => c = b
    BY Zenon, <1>1, BufferFacts
  <2>2. \A c \in Buffers : job[c] = "none" <=> c[2] >= active[c[1]]
    BY Zenon, InvParts DEF BufferOrder
  <2>3. \A c \in Buffers : c[1] \in Writers /\ c[2] \in Nat /\ active[c[1]] \in Nat
    BY BufferFacts, InvParts DEF BufferTypes
  <2>4. \A c \in Buffers : job'[c] = "none" <=> c[2] >= active'[c[1]]
    BY <1>1, <1>7, <2>1, <2>2, <2>3
  <2>5. \A c \in Buffers : c[2] > active'[c[1]] => rows[c] = <<>>
    BY <1>1, <1>7, <2>3, InvParts DEF BufferOrder
  <2>6. \A v \in Writers : \A c \in asyncSpillTasks'[v] \cup spillingWriters'[v] : c[1] = v
    BY Zenon, <1>0, <1>1, InvParts DEF BufferTypes, BufferOrder, BufferCount, BufferPhase
  <2>7. \A c \in Buffers : job'[c] \in {"queued", "writing"} => c \in asyncSpillTasks'[c[1]]
    BY <1>0, <1>1, <1>7, <2>3, InvParts DEF BufferTypes, BufferOrder, BufferCount, BufferPhase
  <2>8. /\ ActiveBuffer(w)' = next
        /\ next \in Buffers /\ next[1] = w /\ next[2] = active[w] + 1
    BY Zenon, <1>0, <1>1, <1>6, <1>7, BufferFacts DEF ActiveBuffer, TypeOK, BufferTypes, ControlTypes
  <2>9. rows[next] = <<>>
    BY <1>5, <2>8, InvParts DEF BufferOrder
  <2>10. \A v \in Writers : ActiveBuffer(v)' = IF v = w THEN next ELSE ActiveBuffer(v)
    BY Zenon, <1>7 DEF ActiveBuffer
  <2>11. \A v \in Writers : Pending(v)' => Pending(v)
    BY <1>0, PendingMove, Zenon DEF Inserting
  <2> HIDE DEF next
  <2>12. \A v \in Writers :
           /\ active'[v] + Len(rows'[ActiveBuffer(v)']) <= insertRecords'[v]
           /\ Pending(v)' => active'[v] + Len(rows'[ActiveBuffer(v)']) < insertRecords'[v]
    <3>1. active[w] + 1 + Len(rows[next]) <= insertRecords[w] /\ active[w] + 1 + Len(rows[next]) < insertRecords[w]
      BY <1>5, <2>9
    <3>2. ASSUME NEW v \in Writers
          PROVE  /\ active'[v] + Len(rows'[ActiveBuffer(v)']) <= insertRecords'[v]
                 /\ Pending(v)' => active'[v] + Len(rows'[ActiveBuffer(v)']) < insertRecords'[v]
      <4>1. CASE v = w
        BY <1>0, <1>7, <2>10, <3>1, <4>1
      <4>2. CASE v # w
        BY Zenon, <1>0, <1>7, <2>10, <2>11, <4>2, InvParts DEF BufferCount
      <4> QED
        BY <4>1, <4>2, Zenon
    <3> QED
      BY <3>2, Zenon
  <2>13. ASSUME NEW u \in Tasks
         PROVE  /\ pc'[u] = "asyncWait" => rows'[ActiveBuffer(target[u])'] # <<>>
                /\ pc'[u] = "spillFree" => rows'[ActiveBuffer(victim[u])'] = <<>>
                /\ pc'[u] \in {"closeCheck", "closeList"} => rows'[ActiveBuffer(target[u])'] = <<>>
    <3>1. CASE u = t
      BY Zenon, <3>1, <1>7
    <3>2. CASE u # t
      <4>1. pc[u] \in Inserting \cup Closing => target[u] \in Writers /\ target[u] # w
        BY <3>2, <1>1, OtherWriter, Zenon
      <4>2. pc[u] = "spillFree" => victim[u] \in Writers /\ victim[u] # w
        BY Zenon, <3>2, <1>0, <1>1, InvParts DEF ControlInv, TaskInv, FlagInv, ListInv, Flagged
      <4>3. /\ pc[u] \in Inserting \cup Closing => ActiveBuffer(target[u])' = ActiveBuffer(target[u])
            /\ pc[u] = "spillFree" => ActiveBuffer(victim[u])' = ActiveBuffer(victim[u])
        BY Zenon, <1>0, <2>10, <4>1, <4>2
      <4> QED
        BY <3>2, <1>0, <1>7, <4>3, InvParts DEF BufferPhase, Inserting, Closing
    <3> QED
      BY Zenon, <3>1, <3>2
  <2>14. BufferOrder'
    BY SMTT(30), <1>0, <1>1, <1>7, <2>4, <2>5, <2>7, InvParts DEF BufferOrder
  <2>15. BufferCount'
    BY Zenon, <2>6, <2>12 DEF BufferCount
  <2>16. BufferPhase'
    BY Zenon, <2>13 DEF BufferPhase
  <2> QED
    BY Zenon, <2>14, <2>15, <2>16 DEF BufferInv
<1> QED
  BY <1>6, <1>8, <1>9, Zenon DEF Inv

(* The row is stored, and the monitor is left. *)
LEMMA StoreRowInv ==
    ASSUME NEW t \in Tasks, NEW n, pc[t] \in {"page", "initPage"},
           StoreRow(t, ActiveBuffer(target[t]), n), Inv, conf' = conf
    PROVE  Inv'
<1> DEFINE w == target[t]
           b == ActiveBuffer(w)
<1>1. /\ w \in Writers /\ OwnerOf[w] = t /\ monitor[w] = t
      /\ b \in Buffers /\ b[1] = w /\ b[2] = active[w]
  BY Zenon, ActiveFacts, InvParts DEF ControlInv, TaskInv, Inserting
<1>2. CASE /\ rows' = [rows EXCEPT ![b] = Append(@, insertRecords[w])]
           /\ monitor' = [monitor EXCEPT ![w] = None]
           /\ Goto(t, "insert")
  <2>0. /\ pc' = [pc EXCEPT ![t] = "insert"]
        /\ UNCHANGED <<active, asyncSpillTasks, spillingWriters, insertRecords, job, spilling,
                       currentWriters, target, victim, toSpill>>
    BY Zenon, <1>2 DEF StoreRow, Goto, writerVars, recordVars
  <2>1. active[w] + Len(rows[b]) < insertRecords[w]
    BY Zenon, <1>1, InvParts DEF BufferInv, BufferCount, Pending, Inserting
  <2>2. /\ rows[b] \in Seq(1 .. MaxRows) /\ Len(rows[b]) \in Nat
        /\ insertRecords[w] \in 1 .. MaxRows /\ active[w] \in Nat
        /\ insertRecords[w] \in Nat /\ insertRecords[w] <= MaxRows
    <3>1. rows[b] \in Seq(1 .. MaxRows) /\ insertRecords[w] \in 0 .. MaxRows /\ active[w] \in 0 .. MaxRows
      BY <1>1, InvParts, Zenon DEF BufferTypes
    <3> QED
      BY <2>1, <3>1, RowFits, Zenon
  <2>3. TypeOK'
    BY SMTT(30), <1>1, <1>2, <2>0, <2>2, InvParts DEF TypeOK, BufferTypes, ControlTypes, Labels
  <2>4. /\ \A u \in Tasks : pc'[u] = IF u = t THEN "insert" ELSE pc[u]
        /\ \A v \in Writers : monitor'[v] = IF v = w THEN None ELSE monitor[v]
        /\ \A c \in Buffers : c # b => rows'[c] = rows[c]
        /\ rows'[b] = Append(rows[b], insertRecords[w])
    BY Zenon, <1>1, <1>2, <2>0, InvParts DEF BufferTypes, ControlTypes
  <2>5. ControlInv'
    <3>1. "insert" \notin Inserting \cup Closing \cup Flagged
      BY Zenon DEF Inserting, Closing, Flagged
    <3>h. Holds(t, "insert")
      BY <3>1, Zenon DEF Holds
    <3>s. Spares(t, "insert")
      <4>1. \A u \in Tasks : pc[u] \in Flagged => spilling[victim[u]]
        BY InvParts, Zenon DEF TaskInv
      <4>2. \A v \in Writers : monitor[v] \in Tasks \ {t} => monitor'[v] = monitor[v]
        BY <1>1, <2>4, Zenon
      <4> QED
        BY <2>0, <3>1, <4>1, <4>2, Zenon DEF Spares
    <3>l. Lists(t, "insert")
      BY Zenon, <1>1, <1>2, <2>0, <2>4 DEF Lists, Inserting
    <3> QED
      BY <1>1, <1>2, <2>0, <2>4, <3>h, <3>s, <3>l, ControlStep, Zenon
  <2>6. BufferInv'
    <3>0. active[w] + (Len(rows[b]) + 1) <= insertRecords[w] /\ Len(rows[b]) + 1 <= MaxRows
      BY <2>1, <2>2, NextFits, ConfigAssumption, Zenon
    <3>1. Len(rows'[b]) = Len(rows[b]) + 1
      <4>1. Len(Append(rows[b], insertRecords[w])) = Len(rows[b]) + 1
        BY Zenon, <2>2, AppendLen
      <4> QED
        BY <2>4, <4>1, Zenon
    <3>2. \A v \in Writers : ActiveBuffer(v)' = ActiveBuffer(v) /\ (v # w => ActiveBuffer(v) # b)
      BY Zenon, <1>1, <2>0, ActiveFacts, InvParts DEF ActiveBuffer
    <3>3. \A v \in Writers : Pending(v)' => Pending(v) /\ v # w
      <4>1. "insert" \notin Inserting
        BY Zenon DEF Inserting
      <4> QED
        BY <1>1, <2>0, <4>1, PendingMove, Zenon
    <3>4. \A v \in Writers :
             /\ active[v] + Len(rows'[ActiveBuffer(v)]) <= insertRecords[v]
             /\ Pending(v)' => active[v] + Len(rows'[ActiveBuffer(v)]) < insertRecords[v]
      <4>1. ASSUME NEW v \in Writers, v # w
            PROVE  rows'[ActiveBuffer(v)] = rows[ActiveBuffer(v)]
        BY Zenon, <4>1, <2>4, <3>2, ActiveFacts, InvParts
      <4>2. active[w] + Len(rows'[ActiveBuffer(w)]) <= insertRecords[w]
        BY <3>0, <3>1, Zenon
      <4> QED
        BY Zenon, <3>3, <4>1, <4>2, InvParts DEF BufferInv, BufferCount
    <3>5. \A u \in Tasks :
             /\ pc'[u] = "asyncWait" => rows'[ActiveBuffer(target[u])] # <<>>
             /\ pc'[u] = "spillFree" => rows'[ActiveBuffer(victim[u])] = <<>>
             /\ pc'[u] \in {"closeCheck", "closeList"} => rows'[ActiveBuffer(target[u])] = <<>>
      <4> SUFFICES ASSUME NEW u \in Tasks, u # t
                   PROVE  /\ pc[u] = "asyncWait" => rows'[ActiveBuffer(target[u])] # <<>>
                          /\ pc[u] = "spillFree" => rows'[ActiveBuffer(victim[u])] = <<>>
                          /\ pc[u] \in {"closeCheck", "closeList"} => rows'[ActiveBuffer(target[u])] = <<>>
        BY Zenon, <2>4
      <4>1. pc[u] \in Inserting \cup Closing => target[u] \in Writers /\ target[u] # w
        BY <1>1, OtherWriter, Zenon
      <4>2. pc[u] = "spillFree" => victim[u] \in Writers /\ victim[u] # w
        BY Zenon, <1>1, InvParts DEF ControlInv, TaskInv, Flagged
      <4> QED
        BY Zenon, <2>4, <3>2, <4>1, <4>2, ActiveFacts, InvParts DEF BufferInv, BufferPhase, Inserting, Closing
    <3>6. \A c \in Buffers : /\ c[2] > active[c[1]] => c # b
                             /\ job[c] = "done" => c # b
                             /\ Len(rows'[c]) <= MaxRows
      <4>1. Len(rows'[b]) <= MaxRows
        BY <3>0, <3>1, Zenon
      <4>2. job[b] = "none"
        BY <1>1, <2>2, InvParts DEF BufferOrder
      <4>3. \A c \in Buffers : /\ c[2] > active[c[1]] => c # b
                               /\ job[c] = "done" => c # b
        BY <1>1, <2>2, <4>2
      <4> QED
        BY <2>4, <4>1, <4>3, InvParts, Zenon DEF BufferOrder
    <3>7. BufferOrder'
      BY Zenon, <2>0, <2>4, <3>6, InvParts DEF BufferOrder
    <3>8. BufferCount'
      BY Zenon, <2>0, <3>2, <3>4, InvParts DEF BufferInv, BufferCount
    <3>9. BufferPhase'
      BY Zenon, <2>0, <3>5 DEF BufferPhase, ActiveBuffer
    <3> QED
      BY Zenon, <3>7, <3>8, <3>9 DEF BufferInv
  <2> QED
    BY <2>3, <2>5, <2>6, Zenon DEF Inv
<1>3. CASE Throw(t, "nullRows") /\ UNCHANGED rows
  <2>1. UNCHANGED <<bufferState, spilling, currentWriters>>
    BY Zenon, <1>3 DEF StoreRow, bufferState, writerVars, recordVars
  <2> QED
    BY Zenon, <1>3, <2>1, ThrowInv
<1> QED
  BY Zenon, <1>1, <1>2, <1>3 DEF StoreRow

(* The flag of a writer is read and set before its monitor is taken. *)
LEMMA SpillNextInv ==
    ASSUME NEW t \in Tasks, SpillNext(t), Inv, conf' = conf
    PROVE  Inv'
<1> DEFINE v == Head(toSpill[t])
<1>0. /\ pc[t] = "spillNext" /\ toSpill[t] # <<>>
      /\ toSpill' = [toSpill EXCEPT ![t] = Tail(@)]
      /\ UNCHANGED <<bufferState, currentWriters, monitor, target>>
  BY Zenon DEF SpillNext, recordVars, bufferVars, lockVars, bufferState
<1>1. v \in Writers /\ toSpill' \in [Tasks -> Seq(Writers)]
  BY <1>0, InvParts DEF TypeOK, BufferTypes, ControlTypes
<1>2. CASE UNCHANGED <<spilling, pc, victim>>
  <2>1. UNCHANGED <<active, asyncSpillTasks, spillingWriters, insertRecords, rows, job>>
    BY <1>0, Zenon DEF bufferState
  <2>2. TypeOK'
    BY <1>0, <1>1, <1>2, <2>1, InvParts, Zenon DEF TypeOK, BufferTypes, ControlTypes
  <2>3. ControlInv'
    <3>1. TaskInv'
      BY <1>0, <1>2, ConfSame, InvParts DEF TaskInv
    <3>2. FlagInv' /\ ListInv'
      BY <1>0, <1>2, ConfSame, InvParts, Zenon DEF FlagInv, ListInv
    <3> QED
      BY <3>1, <3>2, Zenon DEF ControlInv
  <2>4. BufferInv'
    <3>1. \A w : (Pending(w)' <=> Pending(w)) /\ ActiveBuffer(w)' = ActiveBuffer(w)
      BY <1>0, <1>2, <2>1, ConfSame, Zenon DEF Pending, ActiveBuffer
    <3>2. BufferOrder'
      BY <2>1, InvParts, Zenon DEF BufferOrder
    <3>3. BufferCount'
      BY <2>1, <3>1, InvParts, Zenon DEF BufferCount
    <3>4. BufferPhase'
      BY <1>0, <1>2, <2>1, <3>1, InvParts, Zenon DEF BufferPhase
    <3> QED
      BY <3>2, <3>3, <3>4, Zenon DEF BufferInv
  <2> QED
    BY <2>2, <2>3, <2>4, Zenon DEF Inv
<1>3. CASE /\ ~spilling[v]
           /\ spilling' = [spilling EXCEPT ![v] = TRUE]
           /\ victim' = [victim EXCEPT ![t] = v]
           /\ pc' = [pc EXCEPT ![t] = "spillMonitor"]
  <2>1. TypeOK'
    BY SMTT(30), <1>0, <1>1, <1>3, InvParts DEF TypeOK, BufferTypes, ControlTypes, Labels, Inserting, bufferState
  <2>3. \A u \in Tasks : /\ pc'[u] = IF u = t THEN "spillMonitor" ELSE pc[u]
                         /\ victim'[u] = IF u = t THEN v ELSE victim[u]
    BY Zenon, <1>3, InvParts DEF ControlTypes
  <2>2. ControlInv'
    <3>1. \A w \in Writers : w = v \/ spilling[w] => spilling'[w]
      BY Zenon, <1>1, <1>3, InvParts DEF ControlTypes
    <3>2. target[t] \in Writers /\ OwnerOf[target[t]] = t /\ monitor[target[t]] = t
      BY Zenon, <1>0, InvParts DEF TaskInv, Inserting
    <3>h. Holds(t, "spillMonitor")
      BY <1>0, <1>1, <1>3, <2>3, <3>1, <3>2 DEF Holds, Inserting, Closing, Flagged
    <3>s. Spares(t, "spillMonitor")
      BY <1>0, <1>1, <1>3, <2>3, <3>1, InvParts DEF Spares, TaskInv
    <3>l. Lists(t, "spillMonitor")
      BY Zenon, <1>0, <1>1, <1>3, <2>3 DEF Lists, Inserting
    <3> QED
      BY <1>0, <1>1, <1>3, <2>3, <3>h, <3>s, <3>l, ControlStep, Zenon
  <2>4. BufferInv'
    BY Zenon, <1>0, <1>3, <2>3, QuietBuffers DEF Inserting
  <2> QED
    BY <2>1, <2>2, <2>4, Zenon DEF Inv
<1> QED
  BY <1>2, <1>3 DEF SpillNext

(* Entering the synchronized block of doSpill, which is reentrant *)
LEMMA SpillMonitorInv ==
    ASSUME NEW t \in Tasks, SpillMonitor(t), Inv, conf' = conf
    PROVE  Inv'
<1> DEFINE v == victim[t]
<1>0. /\ pc[t] = "spillMonitor" /\ monitor[v] \in {None, t}
      /\ monitor' = [monitor EXCEPT ![v] = t]
      /\ pc' = [pc EXCEPT ![t] = "spillFile"]
      /\ UNCHANGED <<bufferState, spilling, currentWriters, target, victim, toSpill>>
  BY Zenon DEF SpillMonitor, Goto, writerVars, recordVars, bufferVars, bufferState
<1>1. v \in Writers
  BY Zenon, <1>0, InvParts DEF ControlInv, TaskInv, FlagInv, ListInv, Flagged
<1>2. TypeOK'
  BY Zenon, <1>0, <1>1, InvParts DEF TypeOK, BufferTypes, ControlTypes, Labels, Inserting, bufferState
<1>3. ControlInv'
  <2>1. \A w \in Writers : monitor'[w] = IF w = v THEN t ELSE monitor[w]
    BY Zenon, <1>0, <1>1, InvParts DEF ControlTypes
  <2>2. /\ target[t] \in Writers /\ OwnerOf[target[t]] = t /\ monitor[target[t]] = t
        /\ spilling[v]
    BY Zenon, <1>0, InvParts DEF TaskInv, Inserting, Flagged
  <2>h. Holds(t, "spillFile")
    BY Zenon, <1>0, <1>1, <2>1, <2>2 DEF Holds, Inserting, Closing, Flagged
  <2>s. Spares(t, "spillFile")
    BY <1>0, <1>1, <2>1, ConfigAssumption, InvParts DEF Spares, TaskInv, FlagInv, Flagged
  <2>l. Lists(t, "spillFile")
    BY Zenon, <1>0, <1>1, <2>1 DEF Lists, Inserting
  <2> QED
    BY <1>0, <1>1, <2>1, <2>h, <2>s, <2>l, ControlStep, Zenon
<1>4. BufferInv'
  BY Zenon, <1>0, QuietBuffers DEF Inserting
<1> QED
  BY <1>2, <1>3, <1>4, Zenon DEF Inv

(* A buffer that was written is empty. *)
LEMMA EmptiedInv ==
    ASSUME Inv, NEW b \in Buffers, rows' = [rows EXCEPT ![b] = <<>>],
           UNCHANGED <<active, insertRecords>>
    PROVE  /\ \A c \in Buffers : rows'[c] = IF c = b THEN <<>> ELSE rows[c]
           /\ \A c \in Buffers : Len(rows'[c]) <= Len(rows[c]) /\ Len(rows'[c]) <= MaxRows
           /\ rows' \in [Buffers -> Seq(1 .. MaxRows)]
           /\ \A w \in Writers :
                /\ ActiveBuffer(w)' = ActiveBuffer(w)
                /\ active[w] + Len(rows'[ActiveBuffer(w)]) <= insertRecords[w]
                /\ Pending(w) => active[w] + Len(rows'[ActiveBuffer(w)]) < insertRecords[w]
<1>1. \A c \in Buffers : rows'[c] = IF c = b THEN <<>> ELSE rows[c]
  BY Zenon, InvParts DEF BufferTypes
<1>2. \A c \in Buffers : Len(rows[c]) \in Nat /\ Len(rows[c]) <= MaxRows
  BY InvParts DEF ControlTypes, BufferInv, BufferOrder
<1>3. \A c \in Buffers : Len(rows'[c]) \in Nat /\ Len(rows'[c]) <= Len(rows[c]) /\ Len(rows'[c]) <= MaxRows
  BY <1>1, <1>2, ConfigAssumption
<1>4. rows' \in [Buffers -> Seq(1 .. MaxRows)]
  BY InvParts DEF BufferTypes
<1>5. \A w \in Writers : /\ ActiveBuffer(w) \in Buffers /\ ActiveBuffer(w)' = ActiveBuffer(w)
                         /\ active[w] \in Nat /\ insertRecords[w] \in Nat
  BY ActiveFacts, InvParts DEF BufferTypes, ActiveBuffer
<1> QED
  BY <1>1, <1>2, <1>3, <1>4, <1>5, InvParts DEF BufferInv, BufferCount

(* The native write of a synchronous spill *)
LEMMA SpillWriteInv ==
    ASSUME NEW t \in Tasks, SpillWrite(t), Inv, conf' = conf
    PROVE  Inv'
<1> DEFINE v == victim[t]
           b == ActiveBuffer(v)
<1>0. /\ pc[t] = "spillWrite"
      /\ UNCHANGED <<active, asyncSpillTasks, spillingWriters, insertRecords, job, spilling,
                     currentWriters>>
  BY Zenon DEF SpillWrite, writerVars
<1>1. v \in Writers /\ b \in Buffers /\ b[1] = v
  BY Zenon, <1>0, ActiveFacts, InvParts DEF ControlInv, TaskInv, FlagInv, ListInv, Flagged
<1>2. CASE EndWrite(b) /\ Goto(t, "spillFree") /\ UNCHANGED monitor
  <2>0. /\ rows' = [rows EXCEPT ![b] = <<>>]
        /\ pc' = [pc EXCEPT ![t] = "spillFree"]
        /\ UNCHANGED <<monitor, target, victim, toSpill>>
    BY Zenon, <1>2 DEF EndWrite, Goto
  <2>1. TypeOK'
    BY Zenon, <1>0, <1>1, <2>0, EmptiedInv, InvParts DEF TypeOK, BufferTypes, ControlTypes, Labels, Inserting
  <2>2. ControlInv'
    <3>1. /\ target[t] \in Writers /\ OwnerOf[target[t]] = t /\ monitor[target[t]] = t
          /\ spilling[v] /\ monitor[v] = t
      BY Zenon, <1>0, InvParts DEF TaskInv, Inserting, Flagged
    <3>h. Holds(t, "spillFree")
      BY Zenon, <1>0, <1>1, <2>0, <3>1 DEF Holds, Inserting, Closing, Flagged
    <3>s. Spares(t, "spillFree")
      BY Zenon, <1>0, <1>1, <2>0, InvParts DEF Spares, TaskInv, FlagInv, Flagged
    <3>l. Lists(t, "spillFree")
      BY Zenon, <1>0, <1>1, <2>0 DEF Lists, Inserting
    <3> QED
      BY <1>0, <1>1, <2>0, <3>h, <3>s, <3>l, ControlStep, Zenon
  <2>3. \A u \in Tasks : pc'[u] = IF u = t THEN "spillFree" ELSE pc[u]
    BY Zenon, <2>0, InvParts DEF ControlTypes
  <2>4. \A w \in Writers : Pending(w)' => Pending(w)
    BY Zenon, <1>0, <2>0, PendingMove DEF Inserting
  <2>5. BufferOrder'
    BY Zenon, <1>0, <1>1, <2>0, EmptiedInv, InvParts DEF BufferInv, BufferOrder
  <2>6. BufferCount'
    BY Zenon, <1>0, <1>1, <2>0, <2>4, EmptiedInv, InvParts DEF BufferInv, BufferCount
  <2>7. \A u \in Tasks : pc'[u] = "asyncWait" => target[u] \in Writers /\ target[u] # v
    BY <1>0, <2>3, InvParts DEF ControlInv, TaskInv, FlagInv, ListInv, Inserting, Flagged
  <2>8. \A u \in Tasks : /\ pc'[u] = "spillFree" => victim[u] \in Writers
                         /\ pc'[u] \in {"closeCheck", "closeList"} => target[u] \in Writers
    BY Zenon, <1>1, <2>3, InvParts DEF ControlInv, TaskInv, FlagInv, ListInv, Closing, Flagged
  <2>9. BufferPhase'
    <3>1. /\ \A u \in Tasks : /\ ActiveBuffer(target[u])' = ActiveBuffer(target[u])
                              /\ ActiveBuffer(victim[u])' = ActiveBuffer(victim[u])
          /\ \A w \in Writers : w # v => ActiveBuffer(w) # b
          /\ \A c \in Buffers : rows'[c] = IF c = b THEN <<>> ELSE rows[c]
      BY Zenon, <1>0, <1>1, <2>0, EmptiedInv, ActiveFacts, InvParts DEF ActiveBuffer
    <3> QED
      BY <2>3, <2>7, <2>8, <3>1, ActiveFacts, InvParts DEF BufferInv, BufferPhase
  <2> QED
    BY <2>1, <2>2, <2>5, <2>6, <2>9, Zenon DEF Inv, BufferInv
<1>3. CASE Throw(t, "writeFailed") /\ UNCHANGED bufferVars
  BY Zenon, <1>0, <1>3, ThrowInv DEF bufferVars, bufferState
<1> QED
  BY Zenon, <1>2, <1>3 DEF SpillWrite

(* The last write of close *)
LEMMA CloseWriteInv ==
    ASSUME NEW t \in Tasks, CloseWrite(t), Inv, conf' = conf
    PROVE  Inv'
<1> DEFINE v == target[t]
           b == ActiveBuffer(v)
<1>0. /\ pc[t] = "closeWrite"
      /\ UNCHANGED <<active, asyncSpillTasks, spillingWriters, insertRecords, job, spilling,
                     currentWriters>>
  BY Zenon DEF CloseWrite, writerVars
<1>1. v \in Writers /\ OwnerOf[v] = t /\ b \in Buffers /\ b[1] = v
  BY Zenon, <1>0, ActiveFacts, InvParts DEF ControlInv, TaskInv, FlagInv, ListInv, Closing
<1>2. CASE EndWrite(b) /\ Goto(t, "closeCheck") /\ UNCHANGED monitor
  <2>0. /\ rows' = [rows EXCEPT ![b] = <<>>]
        /\ pc' = [pc EXCEPT ![t] = "closeCheck"]
        /\ UNCHANGED <<monitor, target, victim, toSpill>>
    BY Zenon, <1>2 DEF EndWrite, Goto
  <2>1. TypeOK'
    BY Zenon, <1>0, <1>1, <2>0, EmptiedInv, InvParts DEF TypeOK, BufferTypes, ControlTypes, Labels, Closing
  <2>2. ControlInv'
    <3>1. target[t] \in Writers /\ OwnerOf[target[t]] = t
      BY Zenon, <1>0, InvParts DEF TaskInv, Closing
    <3>h. Holds(t, "closeCheck")
      BY Zenon, <1>0, <1>1, <2>0, <3>1 DEF Holds, Inserting, Closing, Flagged
    <3>s. Spares(t, "closeCheck")
      BY Zenon, <1>0, <1>1, <2>0, InvParts DEF Spares, TaskInv, FlagInv, Flagged
    <3>l. Lists(t, "closeCheck")
      BY Zenon, <1>0, <1>1, <2>0 DEF Lists, Inserting
    <3> QED
      BY <1>0, <1>1, <2>0, <3>h, <3>s, <3>l, ControlStep, Zenon
  <2>3. \A u \in Tasks : pc'[u] = IF u = t THEN "closeCheck" ELSE pc[u]
    BY Zenon, <2>0, InvParts DEF ControlTypes
  <2>4. \A w \in Writers : Pending(w)' => Pending(w)
    BY Zenon, <1>0, <2>0, PendingMove DEF Inserting
  <2>5. BufferOrder'
    BY Zenon, <1>0, <1>1, <2>0, EmptiedInv, InvParts DEF BufferInv, BufferOrder
  <2>6. BufferCount'
    BY Zenon, <1>0, <1>1, <2>0, <2>4, EmptiedInv, InvParts DEF BufferInv, BufferCount
  <2>7. \A u \in Tasks : pc'[u] = "asyncWait" => target[u] \in Writers /\ target[u] # v
    BY <1>0, <1>1, <2>3, InvParts DEF ControlInv, TaskInv, FlagInv, ListInv, Inserting
  <2>8. \A u \in Tasks : /\ pc'[u] = "spillFree" => victim[u] \in Writers
                         /\ pc'[u] \in {"closeCheck", "closeList"} => target[u] \in Writers
    BY Zenon, <1>1, <2>3, InvParts DEF ControlInv, TaskInv, FlagInv, ListInv, Closing, Flagged
  <2>9. BufferPhase'
    <3>1. /\ \A u \in Tasks : /\ ActiveBuffer(target[u])' = ActiveBuffer(target[u])
                              /\ ActiveBuffer(victim[u])' = ActiveBuffer(victim[u])
          /\ \A w \in Writers : w # v => ActiveBuffer(w) # b
          /\ \A c \in Buffers : rows'[c] = IF c = b THEN <<>> ELSE rows[c]
      BY Zenon, <1>0, <1>1, <2>0, EmptiedInv, ActiveFacts, InvParts DEF ActiveBuffer
    <3> QED
      BY <2>3, <2>7, <2>8, <3>1, ActiveFacts, InvParts DEF BufferInv, BufferPhase
  <2> QED
    BY <2>1, <2>2, <2>5, <2>6, <2>9, Zenon DEF Inv, BufferInv
<1>3. CASE Throw(t, "writeFailed") /\ UNCHANGED bufferVars
  BY Zenon, <1>0, <1>3, ThrowInv DEF bufferVars, bufferState
<1> QED
  BY Zenon, <1>2, <1>3 DEF CloseWrite

(* The asynchronous spill of a buffer ends. *)
LEMMA JobEndInv ==
    ASSUME NEW b \in Buffers, JobEnd(b), Inv, conf' = conf
    PROVE  Inv'
<1>0. /\ job[b] = "writing"
      /\ spillingWriters' = [spillingWriters EXCEPT ![b[1]] = @ \ {b}]
      /\ UNCHANGED <<active, asyncSpillTasks, insertRecords, controlState, pc, toSpill>>
  BY Zenon DEF JobEnd, threadVars, controlState
<1>1. PICK end \in {"done", "failed"} :
         /\ job' = [job EXCEPT ![b] = end]
         /\ \/ rows' = [rows EXCEPT ![b] = <<>>]
            \/ end = "failed" /\ rows' = rows
  BY Zenon DEF JobEnd, EndWrite, bufferVars
<1>2. b[1] \in Writers /\ b[2] \in Nat /\ b[2] < active[b[1]]
  BY <1>0, BufferFacts, InvParts DEF BufferTypes, BufferInv, BufferOrder
<1>3. /\ \A c \in Buffers : job'[c] = IF c = b THEN end ELSE job[c]
      /\ \A c \in Buffers : c # b => rows'[c] = rows[c]
      /\ end = "done" => rows'[b] = <<>>
      /\ rows' \in [Buffers -> Seq(1 .. MaxRows)]
  <2>1. \A c \in Buffers : job'[c] = IF c = b THEN end ELSE job[c]
    BY Zenon, <1>1, InvParts DEF BufferTypes
  <2>2. CASE rows' = [rows EXCEPT ![b] = <<>>]
    BY Zenon, <1>0, <2>1, <2>2, EmptiedInv
  <2>3. CASE end = "failed" /\ rows' = rows
    BY Zenon, <2>1, <2>3, InvParts DEF BufferTypes
  <2> QED
    BY Zenon, <1>1, <2>2, <2>3
<1>4. \A w \in Writers : ActiveBuffer(w) # b /\ ActiveBuffer(w)' = ActiveBuffer(w)
  BY <1>0, <1>2, ActiveFacts, InvParts DEF ControlTypes, ActiveBuffer
<1>5. TypeOK'
  BY Zenon, <1>0, <1>1, <1>2, <1>3, InvParts DEF TypeOK, BufferTypes, ControlTypes, Jobs, controlState
<1>6. ControlInv'
  BY <1>0, ConfSame, InvParts DEF ControlInv, TaskInv, FlagInv, ListInv, controlState
<1>7. BufferOrder'
  <2>1. Len(rows'[b]) <= MaxRows
    BY Zenon, <1>0, <1>1, EmptiedInv, InvParts DEF BufferInv, BufferOrder
  <2>2. end # "none" /\ end \notin {"queued", "writing"}
    BY Zenon, <1>1
  <2>3. ~(b[2] >= active[b[1]]) /\ ~(b[2] > active[b[1]])
    BY <1>2, InvParts DEF BufferTypes
  <2> QED
    BY Zenon, <1>0, <1>3, <2>1, <2>2, <2>3, InvParts DEF BufferInv, BufferOrder
<1>8. BufferCount'
  <2>1. \A w \in Writers : \A c \in spillingWriters'[w] : c \in spillingWriters[w]
    BY <1>0, InvParts DEF ControlTypes
  <2>2. \A w \in Writers : Pending(w)' => Pending(w)
    BY Zenon, <1>0, ConfSame DEF Pending, controlState
  <2> QED
    BY <1>0, <1>3, <1>4, <2>1, <2>2, ActiveFacts, InvParts DEF BufferInv, BufferCount
<1>9. BufferPhase'
  <2>1. \A u \in Tasks : /\ pc[u] = "spillFree" => victim[u] \in Writers
                         /\ pc[u] \in {"asyncWait", "closeCheck", "closeList"} => target[u] \in Writers
    BY Zenon, InvParts DEF ControlInv, TaskInv, FlagInv, ListInv, Inserting, Closing, Flagged
  <2> QED
    BY <1>0, <1>3, <1>4, <2>1, ActiveFacts, InvParts DEF BufferInv, BufferPhase, controlState
<1> QED
  BY <1>5, <1>6, <1>7, <1>8, <1>9, Zenon DEF Inv, BufferInv

LEMMA JobBeginInv ==
    ASSUME NEW b \in Buffers, JobBegin(b), Inv, conf' = conf
    PROVE  Inv'
<1>0. /\ job[b] = "queued" /\ job' = [job EXCEPT ![b] = "writing"]
      /\ UNCHANGED <<active, asyncSpillTasks, spillingWriters, insertRecords, rows, controlState,
                     pc, toSpill>>
  BY Zenon DEF JobBegin, threadVars, writerVars, controlState
<1>1. \A c \in Buffers : job'[c] = IF c = b THEN "writing" ELSE job[c]
  BY Zenon, <1>0, InvParts DEF BufferTypes
<1>2. TypeOK'
  BY Zenon, <1>0, InvParts DEF TypeOK, BufferTypes, ControlTypes, Jobs, controlState
<1>3. ControlInv'
  BY <1>0, ConfSame, InvParts DEF ControlInv, TaskInv, FlagInv, ListInv, controlState
<1>4. BufferInv'
  BY SMTT(30), <1>0, <1>1, ConfSame, InvParts DEF BufferInv, BufferOrder, BufferCount, BufferPhase, Pending, ActiveBuffer, controlState
<1> QED
  BY <1>2, <1>3, <1>4, Zenon DEF Inv

(* The monitor is left after the pages are freed, except the own one. *)
LEMMA SpillFreeInv ==
    ASSUME NEW t \in Tasks, SpillFree(t), Inv, conf' = conf
    PROVE  Inv'
<1> DEFINE v == victim[t]
<1>0. /\ pc[t] = "spillFree"
      /\ monitor' = [monitor EXCEPT ![v] = IF v = target[t] THEN t ELSE None]
      /\ pc' = [pc EXCEPT ![t] = "spillDone"]
      /\ UNCHANGED <<bufferState, spilling, currentWriters, target, victim, toSpill>>
  BY Zenon DEF SpillFree, Goto, writerVars, recordVars, bufferVars, bufferState
<1>1. v \in Writers /\ monitor[v] = t
  BY Zenon, <1>0, InvParts DEF ControlInv, TaskInv, FlagInv, ListInv, Flagged
<1>2. TypeOK'
  BY Zenon, <1>0, <1>1, InvParts DEF TypeOK, BufferTypes, ControlTypes, Labels, Inserting, bufferState
<1>3. ControlInv'
  <2>1. /\ \A w \in Writers : w # v => monitor'[w] = monitor[w]
        /\ v = target[t] => monitor'[v] = t
    BY Zenon, <1>0, <1>1, InvParts DEF ControlTypes
  <2>2. /\ target[t] \in Writers /\ OwnerOf[target[t]] = t /\ monitor[target[t]] = t
        /\ spilling[v]
    BY Zenon, <1>0, InvParts DEF TaskInv, Inserting, Flagged
  <2>h. Holds(t, "spillDone")
    BY <1>0, <1>1, <2>1, <2>2 DEF Holds, Inserting, Closing, Flagged
  <2>s. Spares(t, "spillDone")
    BY <1>0, <1>1, <2>1, InvParts DEF Spares, TaskInv, FlagInv, Flagged
  <2>l. Lists(t, "spillDone")
    BY Zenon, <1>0, <1>1, <2>1 DEF Lists, Inserting
  <2> QED
    BY <1>0, <1>1, <2>1, <2>h, <2>s, <2>l, ControlStep, Zenon
<1>4. BufferInv'
  BY Zenon, <1>0, QuietBuffers DEF Inserting
<1> QED
  BY <1>2, <1>3, <1>4, Zenon DEF Inv

(* The flag is reset; no other task was between setting and resetting it. *)
LEMMA SpillDoneInv ==
    ASSUME NEW t \in Tasks, SpillDone(t), Inv, conf' = conf
    PROVE  Inv'
<1>0. /\ pc[t] = "spillDone"
      /\ spilling' = [spilling EXCEPT ![victim[t]] = FALSE]
      /\ UNCHANGED <<bufferState, currentWriters, monitor, target, victim, toSpill>>
  BY Zenon DEF SpillDone, Goto, recordVars, bufferVars, lockVars, bufferState
<1>1. PICK label \in {"spillNext", "page"} : pc' = [pc EXCEPT ![t] = label]
  BY Zenon DEF SpillDone, Goto
<1>2. TypeOK'
  BY Zenon, <1>0, <1>1, InvParts DEF TypeOK, BufferTypes, ControlTypes, Labels, Inserting, bufferState
<1>3. ControlInv'
  <2>1. target[t] \in Writers /\ OwnerOf[target[t]] = t /\ monitor[target[t]] = t
    BY Zenon, <1>0, InvParts DEF TaskInv, Inserting
  <2>2. \A w \in Writers : w # victim[t] => spilling'[w] = spilling[w]
    BY Zenon, <1>0, InvParts DEF ControlTypes
  <2>3. label \notin Flagged /\ \A u \in Tasks \ {t} : pc[u] \in Flagged => victim[u] # victim[t]
    BY Zenon, <1>0, <1>1, InvParts DEF FlagInv, Flagged
  <2>h. Holds(t, label)
    BY Zenon, <1>0, <1>1, <2>1 DEF Holds, Inserting, Closing, Flagged
  <2>s. Spares(t, label)
    BY <1>0, <1>1, <2>2, <2>3, InvParts DEF Spares, TaskInv
  <2>l. Lists(t, label)
    BY Zenon, <1>0, <1>1 DEF Lists, Inserting
  <2> QED
    BY <1>0, <1>1, <2>h, <2>s, <2>l, ControlStep, Zenon
<1>4. BufferInv'
  BY Zenon, <1>0, <1>1, QuietBuffers DEF Inserting
<1> QED
  BY <1>2, <1>3, <1>4, Zenon DEF Inv

LEMMA CloseNextInv ==
    ASSUME NEW t \in Tasks, NEW w \in Writers, CloseNext(t, w), Inv, conf' = conf
    PROVE  Inv'
<1>0. /\ pc[t] = "closing" /\ OwnerOf[w] = t
      /\ pc' = [pc EXCEPT ![t] = "closeGet"]
      /\ target' = [target EXCEPT ![t] = w]
      /\ UNCHANGED <<bufferState, spilling, currentWriters, monitor, victim, toSpill>>
  BY Zenon DEF CloseNext, writerVars, recordVars, bufferVars, lockVars, bufferState
<1>1. TypeOK'
  BY Zenon, <1>0, InvParts DEF TypeOK, BufferTypes, ControlTypes, Labels, Closing, bufferState
<1>2. ControlInv'
  <2>1. target'[t] = w /\ \A u \in Tasks \ {t} : target'[u] = target[u]
    BY Zenon, <1>0, InvParts DEF ControlTypes
  <2>h. Holds(t, "closeGet")
    BY Zenon, <1>0, <2>1 DEF Holds, Inserting, Closing, Flagged
  <2>s. Spares(t, "closeGet")
    BY Zenon, <1>0, <2>1, InvParts DEF Spares, TaskInv, Flagged
  <2>l. Lists(t, "closeGet")
    BY Zenon, <1>0, <2>1 DEF Lists, Inserting
  <2> QED
    BY <1>0, <2>1, <2>h, <2>s, <2>l, ControlStep, Zenon
<1>3. BufferInv'
  <2>1. \A u \in Tasks : u # t => pc'[u] = pc[u] /\ target'[u] = target[u]
    BY Zenon, <1>0, InvParts DEF ControlTypes
  <2>2. pc'[t] = "closeGet"
    BY Zenon, <1>0, PcMove
  <2>3. \A v \in Writers : ActiveBuffer(v)' = ActiveBuffer(v) /\ (Pending(v)' => Pending(v))
    <3>1. \A v \in Writers : OwnerOf[v] \in Tasks /\ OwnerOf'[v] = OwnerOf[v]
      BY ConfSame, ConfFacts, InvParts, Zenon
    <3> QED
      BY <1>0, <2>1, <2>2, <3>1 DEF Pending, Inserting, ActiveBuffer, bufferState
  <2>4. BufferOrder'
    BY <1>0, InvParts, Zenon DEF BufferOrder, bufferState
  <2>5. BufferCount'
    BY <1>0, <2>3, InvParts, Zenon DEF BufferCount, bufferState
  <2>6. BufferPhase'
    BY Zenon, <1>0, <2>1, <2>2, InvParts DEF BufferPhase, ActiveBuffer, bufferState
  <2> QED
    BY <2>4, <2>5, <2>6, Zenon DEF BufferInv
<1> QED
  BY <1>1, <1>2, <1>3, Zenon DEF Inv

(* A closed writer leaves currentWriters; its owner inserts nothing more. *)
LEMMA CloseListInv ==
    ASSUME NEW t \in Tasks, CloseList(t), Inv, conf' = conf
    PROVE  Inv'
<1>0. /\ pc[t] = "closeList"
      /\ currentWriters' = currentWriters \ {target[t]}
      /\ pc' = [pc EXCEPT ![t] = "closing"]
      /\ UNCHANGED <<bufferState, spilling, monitor, target, victim, toSpill>>
  BY Zenon DEF CloseList, Goto, writerVars, recordVars, bufferVars, lockVars, bufferState
<1>1. TypeOK'
  BY Zenon, <1>0, InvParts DEF TypeOK, BufferTypes, ControlTypes, Labels, bufferState
<1>2. ControlInv'
  <2>1. OwnerOf[target[t]] = t
    BY Zenon, <1>0, InvParts DEF TaskInv, Closing
  <2>h. Holds(t, "closing")
    BY Zenon, <1>0, <2>1 DEF Holds, Inserting, Closing, Flagged
  <2>s. Spares(t, "closing")
    BY Zenon, <1>0, <2>1, InvParts DEF Spares, TaskInv, Flagged
  <2>l. Lists(t, "closing")
    BY Zenon, <1>0, <2>1 DEF Lists, Inserting
  <2> QED
    BY <1>0, <2>1, <2>h, <2>s, <2>l, ControlStep, Zenon
<1>3. BufferInv'
  BY Zenon, <1>0, QuietBuffers DEF Inserting
<1> QED
  BY <1>1, <1>2, <1>3, Zenon DEF Inv

LEMMA StopInv ==
    ASSUME NEW t \in Tasks, Stop(t), Inv, conf' = conf
    PROVE  Inv'
BY MoveInv, Zenon, InvParts DEF Stop, Goto, writerVars, recordVars, bufferVars, lockVars, bufferState, controlState, TypeOK, BufferTypes, ControlTypes

LEMMA EndInv ==
    ASSUME NEW t \in Tasks, SpillEnough(t) \/ FinishRecords(t) \/ Finish(t), Inv, conf' = conf
    PROVE  Inv'
BY MoveInv, Zenon, InvParts DEF SpillEnough, FinishRecords, Finish, Goto, writerVars, recordVars, bufferVars, lockVars, bufferState, controlState, TypeOK, BufferTypes, ControlTypes

LEMMA AcquirePageInv ==
    ASSUME NEW t \in Tasks, AcquirePage(t), Inv, conf' = conf
    PROVE  Inv'
<1>1. CASE pc[t] = "page" /\ Goto(t, "spillLock")
           /\ UNCHANGED <<writerVars, recordVars, bufferVars, job, currentWriters, lockVars>>
  BY <1>1, MoveInv, Zenon, InvParts DEF Goto, writerVars, recordVars, bufferVars, lockVars, bufferState, controlState, TypeOK, BufferTypes, ControlTypes
<1>2. ASSUME NEW n, StoreRow(t, ActiveBuffer(target[t]), n) PROVE Inv'
  <2>1. pc[t] = "page"
    BY Zenon DEF AcquirePage
  <2> QED
    BY <1>2, <2>1, StoreRowInv
<1> QED
  BY <1>1, <1>2, Zenon DEF AcquirePage

LEMMA InitialPageInv ==
    ASSUME NEW t \in Tasks, InitialPage(t), Inv, conf' = conf
    PROVE  Inv'
<1>1. CASE Throw(t, "outOfMemory")
           /\ UNCHANGED <<writerVars, recordVars, bufferVars, job, currentWriters>>
  BY Zenon, <1>1, ThrowInv DEF writerVars, recordVars, bufferVars, bufferState
<1>2. CASE StoreRow(t, ActiveBuffer(target[t]), 1)
  <2>1. pc[t] = "initPage"
    BY Zenon DEF InitialPage
  <2> QED
    BY <1>2, <2>1, StoreRowInv
<1> QED
  BY <1>1, <1>2, Zenon DEF InitialPage

LEMMA SpillFileInv ==
    ASSUME NEW t \in Tasks, SpillFile(t), Inv, conf' = conf
    PROVE  Inv'
<1>1. CASE Throw(t, "nullRows")
  BY Zenon, <1>1, ThrowInv DEF SpillFile, writerVars, bufferState
<1>2. CASE Goto(t, "spillWrite") /\ UNCHANGED monitor
  BY <1>2, MoveInv, Zenon, InvParts DEF SpillFile, Goto, writerVars, bufferState, controlState, TypeOK, BufferTypes, ControlTypes
<1> QED
  BY Zenon, <1>1, <1>2 DEF SpillFile

LEMMA CloseFileInv ==
    ASSUME NEW t \in Tasks, CloseFile(t), Inv, conf' = conf
    PROVE  Inv'
<1>1. CASE Throw(t, "nullRows")
  BY Zenon, <1>1, ThrowInv DEF CloseFile, writerVars, bufferState
<1>2. CASE Goto(t, "closeWrite") /\ UNCHANGED monitor
  BY <1>2, MoveInv, Zenon, InvParts DEF CloseFile, Goto, writerVars, bufferState, controlState, TypeOK, BufferTypes, ControlTypes
<1> QED
  BY Zenon, <1>1, <1>2 DEF CloseFile

LEMMA CloseGetInv ==
    ASSUME NEW t \in Tasks, CloseGet(t), Inv, conf' = conf
    PROVE  Inv'
<1>1. CASE Throw(t, "asyncFailed")
  BY Zenon, <1>1, ThrowInv DEF CloseGet, writerVars, recordVars, bufferVars, bufferState
<1>2. CASE Goto(t, "closeFile") /\ UNCHANGED monitor
  BY <1>2, MoveInv, Zenon, InvParts DEF CloseGet, Goto, writerVars, recordVars, bufferVars, bufferState, controlState, TypeOK, BufferTypes, ControlTypes
<1> QED
  BY Zenon, <1>1, <1>2 DEF CloseGet

LEMMA CloseCheckInv ==
    ASSUME NEW t \in Tasks, CloseCheck(t), Inv, conf' = conf
    PROVE  Inv'
<1>1. CASE Throw(t, "wrongCount")
  BY Zenon, <1>1, ThrowInv DEF CloseCheck, writerVars, recordVars, bufferVars, bufferState
<1>2. CASE Goto(t, "closeList") /\ UNCHANGED lockVars
  BY <1>2, MoveInv, Zenon, InvParts DEF CloseCheck, Goto, writerVars, recordVars, bufferVars, lockVars, bufferState, controlState, TypeOK, BufferTypes, ControlTypes
<1> QED
  BY Zenon, <1>1, <1>2 DEF CloseCheck

LEMMA StutterInv ==
    ASSUME UNCHANGED vars, Inv
    PROVE  Inv'
<1>1. UNCHANGED <<conf, bufferState, controlState, pc, toSpill>>
  BY Zenon DEF vars, writerVars, recordVars, bufferVars, lockVars, threadVars, bufferState, controlState
<1>2. TypeOK'
  BY Zenon, <1>1, InvParts DEF TypeOK, BufferTypes, ControlTypes, bufferState, controlState
<1>3. ControlInv'
  BY <1>1, ConfSame, InvParts DEF ControlInv, TaskInv, FlagInv, ListInv, controlState
<1>4. BufferInv'
  BY Zenon, <1>1, ConfSame, InvParts
     DEF BufferInv, BufferOrder, BufferCount, BufferPhase, Pending, ActiveBuffer, bufferState, controlState
<1> QED
  BY <1>2, <1>3, <1>4, Zenon DEF Inv

(* The list of writers to spill is read from currentWriters. *)
LEMMA SpillLockInv ==
    ASSUME NEW t \in Tasks, SpillLock(t), Inv, conf' = conf, Cardinality(currentWriters) \in Nat
    PROVE  Inv'
<1>1. PICK s \in LargestFirst(currentWriters) : toSpill' = [toSpill EXCEPT ![t] = s]
  BY Zenon DEF SpillLock
<1>2. s \in [1 .. Cardinality(currentWriters) -> Writers]
  BY <1>1, InvParts DEF LargestFirst, Bijection, Injection, TypeOK
<1>3. ASSUME NEW n \in Nat, NEW f \in [1 .. n -> Writers] PROVE f \in Seq(Writers)
  OBVIOUS
<1>4. toSpill' \in [Tasks -> Seq(Writers)]
  BY <1>1, <1>2, <1>3, InvParts, Zenon DEF TypeOK
<1> QED
  BY <1>4, MoveInv, Zenon
     DEF SpillLock, writerVars, recordVars, bufferVars, bufferState, controlState

LEMMA StepInv ==
    ASSUME Inv, [Next]_vars, Cardinality(currentWriters) \in Nat
    PROVE  Inv'
<1>1. ASSUME NEW b \in Buffers, JobStep(b) PROVE Inv'
  BY <1>1, JobBeginInv, JobEndInv, Zenon DEF JobStep
<1>2. ASSUME NEW t \in Tasks, TaskStep(t) PROVE Inv'
  BY <1>2, BeginInsertInv, CloseNextInv, InsertLockInv, AsyncWaitInv, AsyncSubmitInv,
     AcquirePageInv, InitialPageInv, SpillLockInv, EndInv, SpillNextInv, SpillMonitorInv,
     SpillFileInv, SpillWriteInv, SpillFreeInv, SpillDoneInv, CloseGetInv, CloseFileInv,
     CloseWriteInv, CloseCheckInv, CloseListInv, StopInv, Zenon DEF TaskStep
<1> QED
  BY <1>1, <1>2, StutterInv, Zenon DEF Next, Terminated

=============================================================================
