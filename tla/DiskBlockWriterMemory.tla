------------------------ MODULE DiskBlockWriterMemory ------------------------
(* The pages of the buffers: what a step does to them.                     *)
EXTENDS DiskBlockWriterInvariant

-----------------------------------------------------------------------------
(* Pages.  A buffer of a task that has not failed has room for its rows in *)
(* its pages; only the active buffer and those with the pool have any;     *)
(* a closed writer, and one of a stopped task, have none.                  *)
PageInv ==
    /\ pages \in [Buffers -> Nat] /\ room \in [Buffers -> Nat]
    /\ \A b \in Buffers :
         /\ pc[OwnerOf[b[1]]] \notin {"failed", "stopped"} /\ job[b] # "failed" =>
              Len(rows[b]) + room[b] <= pages[b] * RowsPerPage
         /\ b[2] > active[b[1]] => pages[b] = 0 /\ room[b] = 0
         /\ b[2] < active[b[1]] /\ pages[b] > 0 => job[b] \in {"queued", "writing"}
    /\ \A w \in Writers :
         w \notin currentWriters \/ pc[OwnerOf[w]] = "stopped" => pages[ActiveBuffer(w)] = 0
    /\ \A t \in Tasks : pc[t] = "closeList" => pages[ActiveBuffer(target[t])] = 0

(* What a step does with the pages and with what the allocator has left *)
PageStep ==
    \/ UNCHANGED <<pages, freePages>>
    \/ \E S \in SUBSET Buffers : FreeMemory(S)
    \/ \E b \in Buffers : /\ freePages > 0
                          /\ pages' = [pages EXCEPT ![b] = @ + 1]
                          /\ freePages' = freePages - 1

(* What a step may do that hands out and frees no page *)
Quiet ==
    /\ UNCHANGED <<conf, active, pages, room, freePages>>
    /\ \A b \in Buffers :
         /\ rows'[b] = rows[b] \/ rows'[b] = <<>>
         /\ job[b] = "failed" <=> job'[b] = "failed"
         /\ job[b] \in {"queued", "writing"} => job'[b] \in {"queued", "writing"}
    /\ \A t \in Tasks :
         /\ pc[t] \in {"failed", "stopped"} => pc'[t] \in {"failed", "stopped"}
         /\ pc'[t] = "stopped" => pc[t] = "stopped"
         /\ pc'[t] = "closeList" => pc[t] = "closeList" /\ target'[t] = target[t]
    /\ \A w \in Writers :
         w \notin currentWriters' => w \notin currentWriters \/ pages[ActiveBuffer(w)] = 0

LEMMA QuietPages ==
    ASSUME Inv, Inv', PageInv, Quiet
    PROVE  PageInv'
<1>0. OwnerOf' = OwnerOf /\ OwnerOf \in [Writers -> Tasks]
  BY Zenon, ConfSame, ConfFacts, InvParts DEF Quiet
<1>1. \A w : ActiveBuffer(w)' = ActiveBuffer(w)
  BY Zenon DEF Quiet, ActiveBuffer
<1>2. \A b \in Buffers : Len(rows'[b]) <= Len(rows[b]) /\ Len(rows'[b]) \in Nat /\ Len(rows[b]) \in Nat
  BY InvParts DEF Quiet, ControlTypes
<1>3. ASSUME NEW b \in Buffers
      PROVE  /\ pc'[OwnerOf[b[1]]] \notin {"failed", "stopped"} /\ job'[b] # "failed" =>
                  Len(rows'[b]) + room[b] <= pages[b] * RowsPerPage
             /\ b[2] > active[b[1]] => pages[b] = 0 /\ room[b] = 0
             /\ b[2] < active[b[1]] /\ pages[b] > 0 => job'[b] \in {"queued", "writing"}
  <2>1. b[1] \in Writers /\ OwnerOf[b[1]] \in Tasks
    BY <1>0, BufferFacts
  <2>2. room[b] \in Nat /\ pages[b] \in Nat /\ pages[b] * RowsPerPage \in Nat
    BY ConfigAssumption DEF PageInv
  <2>3. /\ pc'[OwnerOf[b[1]]] \notin {"failed", "stopped"} => pc[OwnerOf[b[1]]] \notin {"failed", "stopped"}
        /\ job'[b] # "failed" => job[b] # "failed"
        /\ job[b] \in {"queued", "writing"} => job'[b] \in {"queued", "writing"}
    BY Zenon, <2>1 DEF Quiet
  <2>4. /\ pc[OwnerOf[b[1]]] \notin {"failed", "stopped"} /\ job[b] # "failed" =>
             Len(rows[b]) + room[b] <= pages[b] * RowsPerPage
        /\ b[2] > active[b[1]] => pages[b] = 0 /\ room[b] = 0
        /\ b[2] < active[b[1]] /\ pages[b] > 0 => job[b] \in {"queued", "writing"}
    BY Zenon DEF PageInv
  <2>5. Len(rows'[b]) + room[b] <= Len(rows[b]) + room[b]
    BY <1>2, <2>2
  <2> QED
    BY <1>2, <2>2, <2>3, <2>4, <2>5
<1>4. \A w \in Writers :
         w \notin currentWriters' \/ pc'[OwnerOf[w]] = "stopped" => pages[ActiveBuffer(w)] = 0
  BY Zenon, <1>0 DEF Quiet, PageInv
<1>5. \A t \in Tasks : pc'[t] = "closeList" => pages[ActiveBuffer(target'[t])] = 0
  BY Zenon DEF Quiet, PageInv
<1> QED
  BY <1>0, <1>1, <1>3, <1>4, <1>5 DEF Quiet, PageInv

(* Freeing pages takes them from empty buffers, from buffers whose write   *)
(* failed, and from the buffers of a failed task.                          *)
LEMMA FreePages ==
    ASSUME Inv, Inv', PageInv, NEW S, FreeMemory(S),
           UNCHANGED <<conf, active, currentWriters, target>>,
           \A b \in Buffers :
             /\ rows'[b] = rows[b] \/ rows'[b] = <<>>
             /\ job[b] = "failed" => job'[b] = "failed"
             /\ b \notin S => job'[b] = job[b]
             /\ b \in S => \/ rows'[b] = <<>>
                           \/ job'[b] = "failed"
                           \/ pc'[OwnerOf[b[1]]] \in {"failed", "stopped"},
           \A t \in Tasks :
             /\ pc[t] \in {"failed", "stopped"} => pc'[t] \in {"failed", "stopped"}
             /\ pc'[t] = "stopped" =>
                  \/ pc[t] = "stopped"
                  \/ \A w \in WritersOf(t) : ActiveBuffer(w) \in S
             /\ pc'[t] = "closeList" => pc[t] = "closeList" \/ ActiveBuffer(target[t]) \in S
    PROVE  PageInv'
<1>0. OwnerOf' = OwnerOf /\ OwnerOf \in [Writers -> Tasks]
  BY Zenon, ConfSame, ConfFacts, InvParts
<1>1. \A w : ActiveBuffer(w)' = ActiveBuffer(w)
  BY Zenon DEF ActiveBuffer
<1>2. \A b \in Buffers : Len(rows'[b]) <= Len(rows[b]) /\ Len(rows'[b]) \in Nat /\ Len(rows[b]) \in Nat
  BY InvParts DEF ControlTypes
<1>3. /\ \A b \in Buffers : /\ pages'[b] = IF b \in S THEN 0 ELSE pages[b]
                            /\ room'[b] = IF b \in S THEN 0 ELSE room[b]
      /\ pages' \in [Buffers -> Nat] /\ room' \in [Buffers -> Nat]
  BY Zenon DEF FreeMemory, PageInv
<1>4. ASSUME NEW b \in Buffers
      PROVE  /\ pc'[OwnerOf[b[1]]] \notin {"failed", "stopped"} /\ job'[b] # "failed" =>
                  Len(rows'[b]) + room'[b] <= pages'[b] * RowsPerPage
             /\ b[2] > active[b[1]] => pages'[b] = 0 /\ room'[b] = 0
             /\ b[2] < active[b[1]] /\ pages'[b] > 0 => job'[b] \in {"queued", "writing"}
  <2>1. b[1] \in Writers /\ OwnerOf[b[1]] \in Tasks
    BY Zenon, <1>0, BufferFacts
  <2>2. room[b] \in Nat /\ pages[b] \in Nat /\ pages[b] * RowsPerPage \in Nat /\ 0 * RowsPerPage = 0
    BY ConfigAssumption DEF PageInv
  <2>3. CASE b \in S
    <3>1. pages'[b] = 0 /\ room'[b] = 0
      BY Zenon, <1>3, <2>3
    <3>2. rows'[b] = <<>> => Len(rows'[b]) = 0
      OBVIOUS
    <3> QED
      BY <2>2, <2>3, <3>1, <3>2, <1>0
  <2>4. CASE b \notin S
    <3>1. pages'[b] = pages[b] /\ room'[b] = room[b] /\ job'[b] = job[b]
      BY Zenon, <1>3, <2>4
    <3>2. /\ pc[OwnerOf[b[1]]] \notin {"failed", "stopped"} /\ job[b] # "failed" =>
                Len(rows[b]) + room[b] <= pages[b] * RowsPerPage
          /\ b[2] > active[b[1]] => pages[b] = 0 /\ room[b] = 0
          /\ b[2] < active[b[1]] /\ pages[b] > 0 => job[b] \in {"queued", "writing"}
      BY Zenon DEF PageInv
    <3>3. pc'[OwnerOf[b[1]]] \notin {"failed", "stopped"} => pc[OwnerOf[b[1]]] \notin {"failed", "stopped"}
      BY <2>1, Zenon
    <3>4. Len(rows[b]) + room[b] <= pages[b] * RowsPerPage => Len(rows'[b]) + room[b] <= pages[b] * RowsPerPage
      BY <1>2, <2>2
    <3> QED
      BY <3>1, <3>2, <3>3, <3>4, Zenon
  <2> QED
    BY Zenon, <2>3, <2>4
<1>5. \A w \in Writers :
         w \notin currentWriters \/ pc'[OwnerOf[w]] = "stopped" => pages'[ActiveBuffer(w)] = 0
  BY <1>0, <1>3, ActiveFacts, InvParts DEF PageInv, WritersOf
<1>6. \A t \in Tasks : pc'[t] = "closeList" => pages'[ActiveBuffer(target[t])] = 0
  <2>1. \A t \in Tasks : pc'[t] = "closeList" => target'[t] \in Writers
    BY Zenon DEF Inv, ControlInv, TaskInv, Closing
  <2> QED
    BY <1>3, <2>1, ActiveFacts, InvParts DEF PageInv
<1> QED
  BY Zenon, <1>0, <1>1, <1>3, <1>4, <1>5, <1>6 DEF PageInv

(* A new active buffer has no pages; the one handed over keeps its own. *)
LEMMA AsyncSubmitPages ==
    ASSUME NEW t \in Tasks, AsyncSubmit(t), Inv, Inv', PageInv, conf' = conf
    PROVE  PageInv'
<1> DEFINE w == target[t]
           b == ActiveBuffer(w)
<1>0. /\ pc[t] = "asyncWait"
      /\ active' = [active EXCEPT ![w] = @ + 1]
      /\ job' = [job EXCEPT ![b] = "queued"]
      /\ pc' = [pc EXCEPT ![t] = "page"]
      /\ UNCHANGED <<rows, pages, room, currentWriters, target>>
  BY Zenon DEF AsyncSubmit, Goto, recordVars, bufferVars, memoryVars
<1>1. /\ w \in Writers /\ OwnerOf[w] = t
      /\ b \in Buffers /\ b[1] = w /\ b[2] = active[w]
  BY Zenon, <1>0, ActiveFacts, InvParts DEF TaskInv, Inserting
<1>2. OwnerOf' = OwnerOf /\ OwnerOf \in [Writers -> Tasks]
  BY Zenon, ConfSame, ConfFacts, InvParts
<1>3. /\ \A u \in Tasks : pc'[u] = IF u = t THEN "page" ELSE pc[u]
      /\ \A v \in Writers : active'[v] = IF v = w THEN active[v] + 1 ELSE active[v]
      /\ \A c \in Buffers : job'[c] = IF c = b THEN "queued" ELSE job[c]
  BY Zenon, <1>0, <1>1, InvParts DEF BufferTypes, ControlTypes
<1>4. \A c \in Buffers : /\ c[1] \in Writers /\ c[2] \in Nat /\ active[c[1]] \in Nat
                         /\ c[1] = w /\ c[2] = active[w] => c = b
  <2>1. \A c \in Buffers : c[1] = w /\ c[2] = active[w] => c = b
    BY Zenon, <1>1, BufferFacts
  <2>2. \A c \in Buffers : c[1] \in Writers /\ c[2] \in Nat
    BY BufferFacts
  <2> QED
    BY <2>1, <2>2, InvParts DEF BufferTypes
<1>5. job[b] = "none"
  BY <1>1, <1>4, InvParts DEF BufferOrder
<1>6. \A c \in Buffers :
         /\ pc'[OwnerOf[c[1]]] \notin {"failed", "stopped"} /\ job'[c] # "failed" =>
              Len(rows[c]) + room[c] <= pages[c] * RowsPerPage
         /\ c[2] > active'[c[1]] => pages[c] = 0 /\ room[c] = 0
         /\ c[2] < active'[c[1]] /\ pages[c] > 0 => job'[c] \in {"queued", "writing"}
  <2>1. \A c \in Buffers :
           pc'[OwnerOf[c[1]]] \notin {"failed", "stopped"} /\ job'[c] # "failed" =>
              pc[OwnerOf[c[1]]] \notin {"failed", "stopped"} /\ job[c] # "failed"
    BY Zenon, <1>0, <1>2, <1>3, <1>4, <1>5
  <2>2. \A c \in Buffers : c[2] > active'[c[1]] => c[2] > active[c[1]]
    BY <1>3, <1>4, <1>1
  <2>3. \A c \in Buffers : c[2] < active'[c[1]] => c[2] < active[c[1]] \/ c = b
    BY <1>3, <1>4, <1>1
  <2> QED
    BY Zenon, <1>3, <2>1, <2>2, <2>3 DEF PageInv
<1>7. \A v \in Writers :
         v \notin currentWriters \/ pc'[OwnerOf[v]] = "stopped" => v # w /\ pages[ActiveBuffer(v)] = 0
  <2>1. w \in currentWriters
    BY Zenon, <1>0, <1>1, InvParts DEF ListInv, Inserting
  <2> QED
    BY <1>1, <1>2, <1>3, <2>1, Zenon DEF PageInv
<1>8. \A v \in Writers : v # w => ActiveBuffer(v)' = ActiveBuffer(v)
  BY Zenon, <1>3 DEF ActiveBuffer
<1>9. \A u \in Tasks : pc'[u] = "closeList" => target[u] \in Writers /\ target[u] # w /\ pages[ActiveBuffer(target[u])] = 0
  BY <1>1, <1>3, InvParts DEF PageInv, TaskInv, Closing
<1>10. \A u \in Tasks : pc'[u] = "closeList" => pages'[ActiveBuffer(target[u])'] = 0
  BY Zenon, <1>0, <1>8, <1>9
<1> QED
  BY Zenon, <1>0, <1>2, <1>6, <1>7, <1>8, <1>10 DEF PageInv

(* A row is stored where there is room for it, if need be in a new page. *)
LEMMA StoreRowPages ==
    ASSUME NEW t \in Tasks, NEW n \in {0, 1}, pc[t] \in {"page", "initPage"},
           n = 0 => room[ActiveBuffer(target[t])] > 0,
           StoreRow(t, ActiveBuffer(target[t]), n), Inv, Inv', PageInv, conf' = conf
    PROVE  PageInv'
<1> DEFINE w == target[t]
           b == ActiveBuffer(w)
<1>0. /\ pages' = [pages EXCEPT ![b] = @ + n]
      /\ room' = [room EXCEPT ![b] = (IF n = 1 THEN RowsPerPage ELSE @) - 1]
      /\ UNCHANGED <<active, job, currentWriters, target>>
  BY Zenon DEF StoreRow, Goto, Throw, writerVars
<1>1. /\ w \in Writers /\ OwnerOf[w] = t
      /\ b \in Buffers /\ b[1] = w /\ b[2] = active[w]
  BY Zenon, ActiveFacts, InvParts DEF TaskInv, Inserting
<1>2. OwnerOf' = OwnerOf /\ OwnerOf \in [Writers -> Tasks]
  BY Zenon, ConfSame, ConfFacts, InvParts
<1>3. PICK label \in {"insert", "failed"} :
         /\ pc' = [pc EXCEPT ![t] = label]
         /\ label = "insert" => rows' = [rows EXCEPT ![b] = Append(@, insertRecords[w])]
         /\ label = "failed" => rows' = rows
  BY Zenon, <1>1 DEF StoreRow, Goto, Throw
<1>4. \A u \in Tasks : pc'[u] = IF u = t THEN label ELSE pc[u]
  BY <1>3, PcMove, Zenon
<1>5. pages[b] \in Nat /\ room[b] \in Nat /\ RowsPerPage \in Nat \ {0}
  BY Zenon, <1>1, ConfigAssumption DEF PageInv
<1>6. /\ pages'[b] = pages[b] + n
      /\ room'[b] = (IF n = 1 THEN RowsPerPage ELSE room[b]) - 1
      /\ \A c \in Buffers : c # b => pages'[c] = pages[c] /\ room'[c] = room[c]
  BY Zenon, <1>0, <1>1 DEF PageInv
<1>7. pages' \in [Buffers -> Nat] /\ room' \in [Buffers -> Nat]
  <2>1. pages'[b] \in Nat /\ room'[b] \in Nat
    BY SMTT(30), <1>5, <1>6
  <2> QED
    BY Zenon, <1>0, <1>1, <1>6, <2>1 DEF PageInv
<1>8. /\ \A c \in Buffers : c # b => rows'[c] = rows[c]
      /\ label = "insert" => Len(rows'[b]) = Len(rows[b]) + 1
  <2>1. rows[b] \in Seq(1 .. MaxRows)
    BY Zenon, <1>1, InvParts DEF BufferTypes
  <2>2. CASE label = "insert"
    BY SMTT(30), <1>1, <1>3, <2>1, <2>2, InvParts DEF BufferTypes
  <2>3. CASE label = "failed"
    BY Zenon, <1>3, <2>3
  <2> QED
    BY Zenon, <2>2, <2>3
<1>9. Len(rows[b]) + room[b] <= pages[b] * RowsPerPage
  <2>1. active[w] \in Nat /\ job[b] = "none"
    BY SMTT(30), <1>1, InvParts DEF BufferTypes, BufferOrder
  <2> QED
    BY Zenon, <1>1, <2>1 DEF PageInv
<1>10. label = "insert" => Len(rows'[b]) + room'[b] <= pages'[b] * RowsPerPage
  <2>1. Len(rows[b]) \in Nat
    BY SMTT(30), <1>1, InvParts DEF ControlTypes
  <2>2. (pages[b] + 1) * RowsPerPage = pages[b] * RowsPerPage + RowsPerPage /\ pages[b] * RowsPerPage \in Nat
    BY <1>5
  <2>3. CASE n = 0
    <3>1. pages'[b] = pages[b] /\ room'[b] = room[b] - 1
      BY <1>5, <1>6, <2>3
    <3> DEFINE cap == pages[b] * RowsPerPage
    <3>2. cap \in Nat /\ Len(rows[b]) + room[b] <= cap /\ pages'[b] * RowsPerPage = cap
      BY <1>9, <2>2, <3>1
    <3> HIDE DEF cap
    <3> QED
      BY <1>5, <1>8, <2>1, <3>1, <3>2
  <2>4. CASE n = 1
    <3>1. pages'[b] = pages[b] + 1 /\ room'[b] = RowsPerPage - 1
      BY Zenon, <1>6, <2>4
    <3> DEFINE cap == pages[b] * RowsPerPage
    <3>2. pages'[b] * RowsPerPage = cap + RowsPerPage
      BY Zenon, <2>2, <3>1
    <3>3. cap \in Nat /\ Len(rows[b]) + room[b] <= cap
      BY Zenon, <1>9, <2>2
    <3> HIDE DEF cap
    <3>4. Len(rows[b]) + 1 + (RowsPerPage - 1) <= cap + RowsPerPage
      BY <1>5, <2>1, <3>3
    <3> QED
      BY Zenon, <1>8, <3>1, <3>2, <3>4
  <2> QED
    BY Zenon, <2>3, <2>4
<1>11. \A c \in Buffers :
         /\ pc'[OwnerOf[c[1]]] \notin {"failed", "stopped"} /\ job[c] # "failed" =>
              Len(rows'[c]) + room'[c] <= pages'[c] * RowsPerPage
         /\ c[2] > active[c[1]] => pages'[c] = 0 /\ room'[c] = 0
         /\ c[2] < active[c[1]] /\ pages'[c] > 0 => job[c] \in {"queued", "writing"}
  <2>1. active[w] \in Nat /\ \A c \in Buffers : c[1] \in Writers
    BY SMTT(30), <1>1, BufferFacts, InvParts DEF ControlTypes
  <2>2. \A c \in Buffers : pc'[OwnerOf[c[1]]] \notin {"failed", "stopped"} =>
           /\ pc[OwnerOf[c[1]]] \notin {"failed", "stopped"}
           /\ c = b => label = "insert"
    BY Zenon, <1>1, <1>2, <1>4, <2>1
  <2>3. ASSUME NEW c \in Buffers, c # b
        PROVE  /\ pages'[c] = pages[c] /\ room'[c] = room[c] /\ rows'[c] = rows[c]
               /\ pc[OwnerOf[c[1]]] \notin {"failed", "stopped"} /\ job[c] # "failed" =>
                    Len(rows[c]) + room[c] <= pages[c] * RowsPerPage
               /\ c[2] > active[c[1]] => pages[c] = 0 /\ room[c] = 0
               /\ c[2] < active[c[1]] /\ pages[c] > 0 => job[c] \in {"queued", "writing"}
    BY <2>3, <1>6, <1>8, Zenon DEF PageInv
  <2>4. ~(b[2] > active[b[1]]) /\ ~(b[2] < active[b[1]])
    BY <1>1, <2>1
  <2> QED
    BY <1>10, <2>2, <2>3, <2>4, Zenon
<1>12. \A v \in Writers :
         v \notin currentWriters \/ pc'[OwnerOf[v]] = "stopped" => v # w /\ pages[ActiveBuffer(v)] = 0
  <2>1. w \in currentWriters
    BY Zenon, <1>1, InvParts DEF ListInv, Inserting
  <2> QED
    BY Zenon, <1>1, <1>2, <1>4, <2>1 DEF PageInv
<1>13. \A v \in Writers : /\ ActiveBuffer(v)' = ActiveBuffer(v)
                          /\ v # w => ActiveBuffer(v) \in Buffers /\ ActiveBuffer(v) # b
  BY Zenon, <1>0, <1>1, ActiveFacts, InvParts DEF ActiveBuffer
<1>14. \A u \in Tasks : pc'[u] = "closeList" => target[u] \in Writers /\ target[u] # w /\ pages[ActiveBuffer(target[u])] = 0
  <2>1. \A u \in Tasks : pc'[u] = "closeList" => u # t /\ pc[u] = "closeList"
    BY Zenon, <1>3, <1>4
  <2>2. \A u \in Tasks : pc[u] = "closeList" => target[u] \in Writers /\ OwnerOf[target[u]] = u
    BY Zenon, InvParts DEF TaskInv, Closing
  <2>3. \A u \in Tasks : pc[u] = "closeList" => pages[ActiveBuffer(target[u])] = 0
    BY Zenon DEF PageInv
  <2>4. \A u \in Tasks : target[u] = w /\ OwnerOf[target[u]] = u => u = t
    BY Zenon, <1>1
  <2> QED
    BY <2>1, <2>2, <2>3, <2>4, Zenon
<1>15. \A u \in Tasks : pc'[u] = "closeList" => pages'[ActiveBuffer(target[u])'] = 0
  BY <1>0, <1>6, <1>13, <1>14
<1> QED
  BY SMTT(30), <1>0, <1>2, <1>6, <1>7, <1>11, <1>12, <1>13, <1>15 DEF PageInv

(* A task moves on, perhaps after a write, and no page changes hands. *)
LEMMA QuietMove ==
    ASSUME Inv, NEW t \in Tasks, NEW label, label \notin {"stopped", "closeList"},
           pc[t] \notin {"failed", "stopped"},
           pc' = [pc EXCEPT ![t] = label],
           UNCHANGED <<conf, active, pages, room, freePages, job>>,
           rows' = rows \/ \E b \in Buffers : rows' = [rows EXCEPT ![b] = <<>>],
           target' = target \/ \E w \in Writers : target' = [target EXCEPT ![t] = w],
           \A w \in Writers : w \notin currentWriters' => w \notin currentWriters \/ pages[ActiveBuffer(w)] = 0
    PROVE  Quiet
<1>1. \A b \in Buffers : rows'[b] = rows[b] \/ rows'[b] = <<>>
  BY Zenon, InvParts DEF BufferTypes
<1>2. \A u \in Tasks : /\ pc'[u] = IF u = t THEN label ELSE pc[u]
                       /\ u # t => target'[u] = target[u]
  BY Zenon, InvParts DEF ControlTypes
<1> QED
  BY Zenon, <1>1, <1>2 DEF Quiet

LEMMA QuietGoto ==
    ASSUME Inv, NEW t \in Tasks, NEW S, "stopped" \notin S, "closeList" \notin S,
           pc[t] \notin {"failed", "stopped"},
           \E label \in S : pc' = [pc EXCEPT ![t] = label],
           UNCHANGED <<conf, active, pages, room, freePages, job, rows, target, currentWriters>>
    PROVE  Quiet
BY QuietMove, Zenon

(* The steps of a task that neither allocate nor free *)
LEMMA QuietInsertLock ==
    ASSUME Inv, NEW t \in Tasks, InsertLock(t), conf' = conf
    PROVE  Quiet
<1>1. /\ pc[t] = "lock"
      /\ \E label \in {"page", "asyncWait", "spillFile", "failed"} : pc' = [pc EXCEPT ![t] = label]
      /\ UNCHANGED <<active, pages, room, freePages, job, rows, target, currentWriters>>
  BY Zenon DEF InsertLock, Throw, bufferVars, memoryVars
<1> QED
  BY <1>1, QuietGoto, Zenon

LEMMA QuietSpillLock ==
    ASSUME Inv, NEW t \in Tasks, SpillLock(t), conf' = conf
    PROVE  Quiet
<1>1. /\ pc[t] = "spillLock"
      /\ \E label \in {"spillNext"} : pc' = [pc EXCEPT ![t] = label]
      /\ UNCHANGED <<active, pages, room, freePages, job, rows, target, currentWriters>>
  BY Zenon DEF SpillLock, writerVars, bufferVars, memoryVars
<1> QED
  BY <1>1, QuietGoto, Zenon

LEMMA QuietSpillEnough ==
    ASSUME Inv, NEW t \in Tasks, SpillEnough(t), conf' = conf
    PROVE  Quiet
<1>1. /\ pc[t] = "spillNext"
      /\ \E label \in {"initPage"} : pc' = [pc EXCEPT ![t] = label]
      /\ UNCHANGED <<active, pages, room, freePages, job, rows, target, currentWriters>>
  BY Zenon DEF SpillEnough, Goto, writerVars, bufferVars, memoryVars
<1> QED
  BY <1>1, QuietGoto, Zenon

LEMMA QuietSpillMonitor ==
    ASSUME Inv, NEW t \in Tasks, SpillMonitor(t), conf' = conf
    PROVE  Quiet
<1>1. /\ pc[t] = "spillMonitor"
      /\ \E label \in {"spillFile"} : pc' = [pc EXCEPT ![t] = label]
      /\ UNCHANGED <<active, pages, room, freePages, job, rows, target, currentWriters>>
  BY Zenon DEF SpillMonitor, Goto, writerVars, bufferVars, memoryVars
<1> QED
  BY <1>1, QuietGoto, Zenon

LEMMA QuietSpillFile ==
    ASSUME Inv, NEW t \in Tasks, SpillFile(t), conf' = conf
    PROVE  Quiet
<1>1. /\ pc[t] = "spillFile"
      /\ \E label \in {"spillWrite", "failed"} : pc' = [pc EXCEPT ![t] = label]
      /\ UNCHANGED <<active, pages, room, freePages, job, rows, target, currentWriters>>
  BY Zenon DEF SpillFile, Goto, Throw, writerVars, memoryVars
<1> QED
  BY <1>1, QuietGoto, Zenon

LEMMA QuietSpillDone ==
    ASSUME Inv, NEW t \in Tasks, SpillDone(t), conf' = conf
    PROVE  Quiet
<1>1. /\ pc[t] = "spillDone"
      /\ \E label \in {"spillNext", "page"} : pc' = [pc EXCEPT ![t] = label]
      /\ UNCHANGED <<active, pages, room, freePages, job, rows, target, currentWriters>>
  BY Zenon DEF SpillDone, Goto, bufferVars, memoryVars
<1> QED
  BY <1>1, QuietGoto, Zenon

LEMMA QuietFinishRecords ==
    ASSUME Inv, NEW t \in Tasks, FinishRecords(t), conf' = conf
    PROVE  Quiet
<1>1. /\ pc[t] = "insert"
      /\ \E label \in {"closing"} : pc' = [pc EXCEPT ![t] = label]
      /\ UNCHANGED <<active, pages, room, freePages, job, rows, target, currentWriters>>
  BY Zenon DEF FinishRecords, Goto, writerVars, bufferVars, memoryVars
<1> QED
  BY <1>1, QuietGoto, Zenon

LEMMA QuietFinish ==
    ASSUME Inv, NEW t \in Tasks, Finish(t), conf' = conf
    PROVE  Quiet
<1>1. /\ pc[t] = "closing"
      /\ \E label \in {"done"} : pc' = [pc EXCEPT ![t] = label]
      /\ UNCHANGED <<active, pages, room, freePages, job, rows, target, currentWriters>>
  BY Zenon DEF Finish, Goto, writerVars, bufferVars, memoryVars
<1> QED
  BY <1>1, QuietGoto, Zenon

LEMMA QuietCloseGet ==
    ASSUME Inv, NEW t \in Tasks, CloseGet(t), conf' = conf
    PROVE  Quiet
<1>1. /\ pc[t] = "closeGet"
      /\ \E label \in {"closeFile", "failed"} : pc' = [pc EXCEPT ![t] = label]
      /\ UNCHANGED <<active, pages, room, freePages, job, rows, target, currentWriters>>
  BY Zenon DEF CloseGet, Goto, Throw, writerVars, bufferVars, memoryVars
<1> QED
  BY <1>1, QuietGoto, Zenon

LEMMA QuietCloseFile ==
    ASSUME Inv, NEW t \in Tasks, CloseFile(t), conf' = conf
    PROVE  Quiet
<1>1. /\ pc[t] = "closeFile"
      /\ \E label \in {"closeWrite", "failed"} : pc' = [pc EXCEPT ![t] = label]
      /\ UNCHANGED <<active, pages, room, freePages, job, rows, target, currentWriters>>
  BY Zenon DEF CloseFile, Goto, Throw, writerVars, memoryVars
<1> QED
  BY <1>1, QuietGoto, Zenon

LEMMA QuietTarget ==
    ASSUME Inv, NEW t \in Tasks, NEW w \in Writers, BeginInsert(t, w) \/ CloseNext(t, w),
           conf' = conf
    PROVE  Quiet
<1>1. /\ pc[t] \in {"insert", "closing"}
      /\ \E label \in {"lock", "closeGet"} : pc' = [pc EXCEPT ![t] = label]
      /\ target' = [target EXCEPT ![t] = w]
      /\ UNCHANGED <<active, pages, room, freePages, job, rows, currentWriters>>
  BY Zenon DEF BeginInsert, CloseNext, writerVars, bufferVars, memoryVars
<1> QED
  BY <1>1, QuietMove, Zenon

LEMMA QuietAsyncWait ==
    ASSUME NEW t \in Tasks, AsyncWait(t), conf' = conf
    PROVE  Quiet
<1>1. UNCHANGED <<active, pages, room, freePages, job, rows, target, currentWriters, pc>>
  BY Zenon DEF AsyncWait, bufferVars, memoryVars, threadVars
<1> QED
  BY Zenon, <1>1 DEF Quiet

LEMMA QuietSpillNext ==
    ASSUME Inv, NEW t \in Tasks, SpillNext(t), conf' = conf
    PROVE  Quiet
<1>1. /\ pc[t] = "spillNext"
      /\ \/ UNCHANGED pc
         \/ \E label \in {"spillMonitor"} : pc' = [pc EXCEPT ![t] = label]
      /\ UNCHANGED <<active, pages, room, freePages, job, rows, target, currentWriters>>
  BY Zenon DEF SpillNext, bufferVars, memoryVars
<1>2. CASE UNCHANGED pc
  BY Zenon, <1>1, <1>2 DEF Quiet
<1> QED
  BY <1>1, <1>2, QuietGoto, Zenon

LEMMA QuietSpillWrite ==
    ASSUME Inv, NEW t \in Tasks, SpillWrite(t), conf' = conf
    PROVE  Quiet
<1>1. /\ pc[t] = "spillWrite"
      /\ \E label \in {"spillFree", "failed"} : pc' = [pc EXCEPT ![t] = label]
      /\ UNCHANGED <<active, pages, room, freePages, job, target, currentWriters>>
  BY Zenon DEF SpillWrite, Goto, Throw, writerVars, memoryVars
<1>2. ActiveBuffer(victim[t]) \in Buffers
  BY Zenon, <1>1, ActiveFacts, InvParts DEF TaskInv, Flagged
<1>3. rows' = rows \/ rows' = [rows EXCEPT ![ActiveBuffer(victim[t])] = <<>>]
  BY Zenon DEF SpillWrite, EndWrite, bufferVars
<1> QED
  BY <1>1, <1>2, <1>3, QuietMove, Zenon

LEMMA QuietCloseWrite ==
    ASSUME Inv, NEW t \in Tasks, CloseWrite(t), conf' = conf
    PROVE  Quiet
<1>1. /\ pc[t] = "closeWrite"
      /\ \E label \in {"closeCheck", "failed"} : pc' = [pc EXCEPT ![t] = label]
      /\ UNCHANGED <<active, pages, room, freePages, job, target, currentWriters>>
  BY Zenon DEF CloseWrite, Goto, Throw, writerVars, memoryVars
<1>2. ActiveBuffer(target[t]) \in Buffers
  BY Zenon, <1>1, ActiveFacts, InvParts DEF TaskInv, Closing
<1>3. rows' = rows \/ rows' = [rows EXCEPT ![ActiveBuffer(target[t])] = <<>>]
  BY Zenon DEF CloseWrite, EndWrite, bufferVars
<1> QED
  BY <1>1, <1>2, <1>3, QuietMove, Zenon

LEMMA QuietCloseList ==
    ASSUME Inv, PageInv, NEW t \in Tasks, CloseList(t), conf' = conf
    PROVE  Quiet
<1>1. /\ pc[t] = "closeList"
      /\ pc' = [pc EXCEPT ![t] = "closing"]
      /\ currentWriters' = currentWriters \ {target[t]}
      /\ UNCHANGED <<active, pages, room, freePages, job, rows, target>>
  BY Zenon DEF CloseList, Goto, writerVars, bufferVars, memoryVars
<1>2. pages[ActiveBuffer(target[t])] = 0
  BY Zenon, <1>1 DEF PageInv
<1> QED
  BY <1>1, <1>2, QuietMove, Zenon

(* Each step, with what it does to the pages *)
LEMMA QuietStep ==
    ASSUME Inv, Inv', PageInv, Quiet
    PROVE  PageInv' /\ PageStep
<1>1. PageStep
  BY Zenon DEF Quiet, PageStep
<1> QED
  BY Zenon, <1>1, QuietPages

LEMMA JobBeginPages ==
    ASSUME Inv, NEW b \in Buffers, JobBegin(b), conf' = conf
    PROVE  Quiet
<1>1. /\ job[b] = "queued"
      /\ \A c \in Buffers : job'[c] = IF c = b THEN "writing" ELSE job[c]
      /\ UNCHANGED <<active, pages, room, freePages, rows, pc, target, currentWriters>>
  BY Zenon, InvParts DEF JobBegin, writerVars, memoryVars, threadVars, BufferTypes
<1> QED
  BY Zenon, <1>1 DEF Quiet

LEMMA JobEndPages ==
    ASSUME Inv, Inv', PageInv, NEW b \in Buffers, JobEnd(b), conf' = conf
    PROVE  PageInv' /\ PageStep
<1>1. /\ FreeMemory({b}) /\ job[b] = "writing"
      /\ UNCHANGED <<active, currentWriters, target, pc>>
  BY Zenon DEF JobEnd, threadVars
<1>2. PICK end \in {"done", "failed"} :
         /\ job' = [job EXCEPT ![b] = end]
         /\ \/ rows' = [rows EXCEPT ![b] = <<>>]
            \/ end = "failed" /\ rows' = rows
  BY Zenon DEF JobEnd, EndWrite, bufferVars
<1>3. /\ \A c \in Buffers : job'[c] = IF c = b THEN end ELSE job[c]
      /\ \A c \in Buffers : rows'[c] = rows[c] \/ rows'[c] = <<>>
      /\ rows'[b] = <<>> \/ end = "failed"
  BY Zenon, <1>2, InvParts DEF BufferTypes
<1>4. PageInv'
  BY Zenon, <1>1, <1>3, FreePages
<1> QED
  BY Zenon, <1>1, <1>4 DEF PageStep

LEMMA AsyncSubmitStep ==
    ASSUME Inv, Inv', PageInv, NEW t \in Tasks, AsyncSubmit(t), conf' = conf
    PROVE  PageInv' /\ PageStep
<1>1. PageStep
  BY Zenon DEF AsyncSubmit, memoryVars, PageStep
<1> QED
  BY Zenon, <1>1, AsyncSubmitPages

LEMMA StoreRowStep ==
    ASSUME NEW t \in Tasks, NEW n \in {0, 1}, pc[t] \in {"page", "initPage"},
           n = 0 => room[ActiveBuffer(target[t])] > 0,
           n = 1 => freePages > 0,
           StoreRow(t, ActiveBuffer(target[t]), n), Inv, Inv', PageInv, conf' = conf,
           freePages \in Nat
    PROVE  PageInv' /\ PageStep
<1>1. PageInv'
  BY Zenon, StoreRowPages
<1>2. ActiveBuffer(target[t]) \in Buffers
  BY Zenon, ActiveFacts, InvParts DEF TaskInv, Inserting
<1>3. /\ pages' = [pages EXCEPT ![ActiveBuffer(target[t])] = @ + n]
      /\ freePages' = freePages - n
  BY Zenon DEF StoreRow
<1>4. CASE n = 0
  <2>1. UNCHANGED <<pages, freePages>>
    BY <1>2, <1>3, <1>4 DEF PageInv
  <2> QED
    BY Zenon, <1>1, <2>1 DEF PageStep
<1>5. CASE n = 1
  <2>1. /\ freePages > 0
        /\ pages' = [pages EXCEPT ![ActiveBuffer(target[t])] = @ + 1]
        /\ freePages' = freePages - 1
    BY Zenon, <1>3, <1>5
  <2> QED
    BY <1>1, <1>2, <2>1, Zenon DEF PageStep
<1> QED
  BY Zenon, <1>4, <1>5

LEMMA AcquirePagePages ==
    ASSUME Inv, Inv', PageInv, NEW t \in Tasks, AcquirePage(t), conf' = conf, freePages \in Nat
    PROVE  PageInv' /\ PageStep
<1>1. pc[t] = "page"
  BY Zenon DEF AcquirePage
<1>2. CASE room[ActiveBuffer(target[t])] > 0 /\ StoreRow(t, ActiveBuffer(target[t]), 0)
  BY <1>1, <1>2, StoreRowStep
<1>3. CASE freePages > 0 /\ StoreRow(t, ActiveBuffer(target[t]), 1)
  BY <1>1, <1>3, StoreRowStep
<1>4. CASE Goto(t, "spillLock")
           /\ UNCHANGED <<writerVars, recordVars, bufferVars, memoryVars, job, currentWriters>>
  <2>1. /\ \E label \in {"spillLock"} : pc' = [pc EXCEPT ![t] = label]
        /\ UNCHANGED <<active, pages, room, freePages, job, rows, target, currentWriters>>
    BY Zenon, <1>4 DEF Goto, writerVars, bufferVars, memoryVars
  <2> QED
    BY <1>1, <2>1, QuietGoto, QuietStep, Zenon
<1> QED
  BY Zenon, <1>2, <1>3, <1>4 DEF AcquirePage

LEMMA InitialPagePages ==
    ASSUME Inv, Inv', PageInv, NEW t \in Tasks, InitialPage(t), conf' = conf, freePages \in Nat
    PROVE  PageInv' /\ PageStep
<1>1. pc[t] = "initPage"
  BY Zenon DEF InitialPage
<1>2. CASE freePages > 0 /\ StoreRow(t, ActiveBuffer(target[t]), 1)
  BY <1>1, <1>2, StoreRowStep
<1>3. CASE Throw(t, "outOfMemory")
           /\ UNCHANGED <<writerVars, recordVars, bufferVars, memoryVars, job, currentWriters>>
  <2>1. /\ \E label \in {"failed"} : pc' = [pc EXCEPT ![t] = label]
        /\ UNCHANGED <<active, pages, room, freePages, job, rows, target, currentWriters>>
    BY Zenon, <1>3 DEF Throw, writerVars, bufferVars, memoryVars
  <2> QED
    BY <1>1, <2>1, QuietGoto, QuietStep, Zenon
<1> QED
  BY Zenon, <1>2, <1>3 DEF InitialPage

LEMMA SpillFreePages ==
    ASSUME Inv, Inv', PageInv, NEW t \in Tasks, SpillFree(t), conf' = conf
    PROVE  PageInv' /\ PageStep
<1>1. /\ pc[t] = "spillFree" /\ FreeMemory({ActiveBuffer(victim[t])})
      /\ pc' = [pc EXCEPT ![t] = "spillDone"]
      /\ UNCHANGED <<active, rows, job, currentWriters, target>>
  BY Zenon DEF SpillFree, Goto, writerVars, bufferVars
<1>2. ActiveBuffer(victim[t]) \in Buffers /\ rows[ActiveBuffer(victim[t])] = <<>>
  BY Zenon, <1>1, ActiveFacts, InvParts DEF TaskInv, Flagged, BufferPhase
<1>3. \A u \in Tasks : pc'[u] = IF u = t THEN "spillDone" ELSE pc[u]
  BY <1>1, PcMove, Zenon
<1>4. PageInv'
  BY SMTT(30), <1>1, <1>2, <1>3, FreePages
<1> QED
  BY Zenon, <1>1, <1>2, <1>4 DEF PageStep

LEMMA CloseCheckPages ==
    ASSUME Inv, Inv', PageInv, NEW t \in Tasks, CloseCheck(t), conf' = conf
    PROVE  PageInv' /\ PageStep
<1>1. /\ pc[t] = "closeCheck"
      /\ UNCHANGED <<active, rows, job, currentWriters, target>>
  BY Zenon DEF CloseCheck, Goto, Throw, writerVars, bufferVars
<1>2. CASE Throw(t, "wrongCount") /\ UNCHANGED memoryVars
  <2>1. /\ \E label \in {"failed"} : pc' = [pc EXCEPT ![t] = label]
        /\ UNCHANGED <<pages, room, freePages>>
    BY Zenon, <1>2 DEF Throw, memoryVars
  <2> QED
    BY <1>1, <2>1, QuietGoto, QuietStep, Zenon
<1>3. CASE FreeMemory({ActiveBuffer(target[t])}) /\ Goto(t, "closeList")
  <2>1. ActiveBuffer(target[t]) \in Buffers /\ rows[ActiveBuffer(target[t])] = <<>>
    BY Zenon, <1>1, ActiveFacts, InvParts DEF TaskInv, Closing, BufferPhase
  <2>2. \A u \in Tasks : pc'[u] = IF u = t THEN "closeList" ELSE pc[u]
    BY <1>3, PcMove, Zenon DEF Goto
  <2>3. PageInv'
    BY Zenon, <1>1, <1>3, <2>1, <2>2, FreePages
  <2> QED
    BY Zenon, <1>3, <2>1, <2>3 DEF PageStep
<1> QED
  BY Zenon, <1>2, <1>3 DEF CloseCheck

LEMMA StopPages ==
    ASSUME Inv, Inv', PageInv, NEW t \in Tasks, Stop(t), conf' = conf
    PROVE  PageInv' /\ PageStep
<1> DEFINE W == WritersOf(t)
           S == {ActiveBuffer(w) : w \in W} \cup UNION {spillingWriters[w] : w \in W}
<1>1. /\ pc[t] = "failed" /\ FreeMemory(S)
      /\ pc' = [pc EXCEPT ![t] = "stopped"]
      /\ UNCHANGED <<active, rows, job, currentWriters, target>>
  BY Zenon DEF Stop, Goto, writerVars, bufferVars
<1>2. W \subseteq Writers /\ \A w \in W : OwnerOf[w] = t
  BY Zenon DEF WritersOf
<1>3. \A w \in W : ActiveBuffer(w) \in S
  BY Zenon
<1>4. \A b \in S : b \in Buffers /\ OwnerOf[b[1]] = t
  <2>1. \A w \in W : ActiveBuffer(w) \in Buffers /\ ActiveBuffer(w)[1] = w
    BY Zenon, <1>2, ActiveFacts, InvParts
  <2>2. \A w \in W : spillingWriters[w] \subseteq Buffers
    BY Zenon, <1>2, InvParts DEF BufferTypes
  <2>3. \A w \in W : \A b \in spillingWriters[w] : b[1] = w
    BY Zenon, <1>2, InvParts DEF BufferCount
  <2> QED
    BY <1>2, <2>1, <2>2, <2>3
<1> HIDE DEF S, W
<1>5. \A u \in Tasks : pc'[u] = IF u = t THEN "stopped" ELSE pc[u]
  BY <1>1, PcMove, Zenon
<1>6. PageInv'
  BY SMTT(30), <1>1, <1>3, <1>4, <1>5, FreePages, ConfSame DEF W
<1> QED
  BY Zenon, <1>1, <1>4, <1>6 DEF PageStep

LEMMA TaskPages ==
    ASSUME Inv, Inv', PageInv, NEW t \in Tasks, TaskStep(t), freePages \in Nat
    PROVE  PageInv' /\ PageStep
<1>1. conf' = conf
  BY Zenon DEF TaskStep
<1> QED
  BY <1>1, QuietStep, AsyncSubmitStep, AcquirePagePages, InitialPagePages, SpillFreePages,
     CloseCheckPages, StopPages, QuietInsertLock, QuietSpillLock, QuietSpillEnough,
     QuietSpillMonitor, QuietSpillFile, QuietSpillDone, QuietFinishRecords, QuietFinish,
     QuietCloseGet, QuietCloseFile, QuietTarget, QuietAsyncWait, QuietSpillNext,
     QuietSpillWrite, QuietCloseWrite, QuietCloseList, Zenon DEF TaskStep

(* PageInv is preserved, and every step either leaves the pages alone,     *)
(* frees those of a set of buffers, or takes one for a buffer.             *)
LEMMA NextPages ==
    ASSUME Inv, Inv', PageInv, [Next]_vars, freePages \in Nat
    PROVE  PageInv' /\ PageStep /\ conf' = conf
<1>1. CASE UNCHANGED vars
  <2>1. Quiet /\ conf' = conf
    BY Zenon, <1>1 DEF Quiet, vars, writerVars, bufferVars, memoryVars, threadVars
  <2> QED
    BY Zenon, <2>1, QuietStep
<1>2. ASSUME NEW b \in Buffers, JobStep(b) PROVE PageInv' /\ PageStep /\ conf' = conf
  BY <1>2, JobBeginPages, QuietStep, JobEndPages, Zenon DEF JobStep
<1>3. ASSUME NEW t \in Tasks, TaskStep(t) PROVE PageInv' /\ PageStep /\ conf' = conf
  BY Zenon, <1>3, TaskPages DEF TaskStep
<1> QED
  BY Zenon, <1>1, <1>2, <1>3 DEF Next, Terminated

-----------------------------------------------------------------------------
(* What follows from the pages of the buffers *)

LEMMA InitPages == Init => PageInv
<1> SUFFICES ASSUME Init PROVE PageInv
  OBVIOUS
<1>1. \A b \in Buffers : pages[b] = 0 /\ room[b] = 0 /\ rows[b] = <<>>
  BY Zenon DEF Init
<1>2. pages \in [Buffers -> Nat] /\ room \in [Buffers -> Nat]
  BY DEF Init
<1>3. Inv
  BY InitInv, Zenon
<1>4. \A b \in Buffers : Len(rows[b]) = 0 /\ pages[b] * RowsPerPage = 0
  BY <1>1, ConfigAssumption
<1>5. \A t \in Tasks : pc[t] # "closeList"
  BY DEF Init
<1> QED
  BY <1>1, <1>2, <1>3, <1>4, <1>5, ActiveFacts DEF PageInv, Inv

(* The pages of a buffer hold its rows. *)
LEMMA RowsInPages == Inv /\ PageInv => NoUseAfterFree
<1> SUFFICES ASSUME Inv, PageInv, NEW b \in Buffers,
                    pc[OwnerOf[b[1]]] \notin {"failed", "stopped"}, job[b] # "failed"
             PROVE  pages[b] * RowsPerPage >= Len(rows[b])
  BY Zenon DEF NoUseAfterFree
<1> DEFINE cap == pages[b] * RowsPerPage
<1>1. rows[b] \in Seq(1 .. MaxRows) /\ room[b] \in Nat /\ pages[b] \in Nat
  BY InvParts, Zenon DEF BufferTypes, PageInv
<1>2. Len(rows[b]) \in Nat /\ cap \in Nat
  BY <1>1, ConfigAssumption
<1>3. Len(rows[b]) + room[b] <= cap
  BY Zenon DEF PageInv
<1> HIDE DEF cap
<1>4. cap >= Len(rows[b])
  BY <1>1, <1>2, <1>3
<1> QED
  BY <1>4, Zenon DEF cap

(* At the end no buffer has a page. *)
LEMMA NoPagesAtEnd ==
    ASSUME Inv, PageInv, Ended, NoJobPending
    PROVE  PagesIn(Buffers) = {}
<1>1. ASSUME NEW b \in Buffers PROVE pages[b] = 0
  <2>0. b[1] \in Writers /\ b[2] \in Nat /\ active[b[1]] \in Nat /\ OwnerOf[b[1]] \in Tasks
    BY BufferFacts, ConfFacts, InvParts DEF BufferTypes
  <2>1. CASE b[2] > active[b[1]]
    BY <2>1, Zenon DEF PageInv
  <2>2. CASE b[2] < active[b[1]]
    <3>1. pages[b] \in Nat /\ ~(pages[b] > 0)
      BY <2>2, Zenon DEF NoJobPending, PageInv
    <3> QED
      BY <3>1
  <2>3. CASE b[2] = active[b[1]]
    <3>1. ActiveBuffer(b[1]) \in Buffers /\ ActiveBuffer(b[1])[1] = b[1]
          /\ ActiveBuffer(b[1])[2] = active[b[1]]
      BY <2>0, ActiveFacts, InvParts, Zenon
    <3>2. b = ActiveBuffer(b[1])
      BY <2>3, <3>1, BufferFacts, Zenon
    <3>3. pc[OwnerOf[b[1]]] \in {"done", "stopped"}
      BY <2>0, Zenon DEF Ended
    <3>4. b[1] \notin currentWriters \/ pc[OwnerOf[b[1]]] = "stopped"
      BY <2>0, <3>3, InvParts, Zenon DEF ListInv
    <3> QED
      BY <2>0, <3>2, <3>4, Zenon DEF PageInv
  <2> QED
    BY <2>0, <2>1, <2>2, <2>3
<1> QED
  BY <1>1 DEF PagesIn

(* The pages that freeing the buffers of S, or one more page for b, leaves *)
LEMMA FreedPages ==
    ASSUME NEW S \in SUBSET Buffers, FreeMemory(S)
    PROVE  /\ PagesIn(Buffers)' = PagesIn(Buffers) \ PagesIn(S)
           /\ PagesIn(S) \subseteq PagesIn(Buffers)
<1>1. \A b \in Buffers : pages'[b] = IF b \in S THEN 0 ELSE pages[b]
  BY DEF FreeMemory
<1>2. PagesIn(Buffers)' = UNION {{b} \X (1 .. pages'[b]) : b \in Buffers \ S}
  BY <1>1 DEF PagesIn
<1>3. PagesIn(Buffers) \ PagesIn(S) = UNION {{b} \X (1 .. pages[b]) : b \in Buffers \ S}
  BY DEF PagesIn
<1>4. UNION {{b} \X (1 .. pages'[b]) : b \in Buffers \ S}
        = UNION {{b} \X (1 .. pages[b]) : b \in Buffers \ S}
  BY <1>1
<1>5. PagesIn(S) \subseteq PagesIn(Buffers)
  BY DEF PagesIn
<1> QED
  BY <1>2, <1>3, <1>4, <1>5, Zenon

LEMMA NewPage ==
    ASSUME PageInv, NEW b \in Buffers, pages' = [pages EXCEPT ![b] = @ + 1]
    PROVE  /\ PagesIn(Buffers)' = PagesIn(Buffers) \cup {<<b, pages[b] + 1>>}
           /\ <<b, pages[b] + 1>> \notin PagesIn(Buffers)
<1>1. pages[b] \in Nat /\ pages'[b] = pages[b] + 1 /\ \A c \in Buffers : c # b => pages'[c] = pages[c]
  BY DEF PageInv
<1>2. 1 .. pages'[b] = (1 .. pages[b]) \cup {pages[b] + 1}
  BY <1>1
<1>3. PagesIn(Buffers)' = PagesIn(Buffers) \cup {<<b, pages[b] + 1>>}
  BY <1>1, <1>2 DEF PagesIn
<1> QED
  BY <1>1, <1>3 DEF PagesIn

LEMMA CountFreed ==
    ASSUME NEW free \in Nat, NEW held \in Nat, NEW given \in Nat, NEW total, free + held = total
    PROVE  free + given + (held - given) = total /\ free + given \in Nat
OBVIOUS

LEMMA CountTaken ==
    ASSUME NEW free \in Nat, NEW held \in Nat, NEW total, free + held = total, free > 0
    PROVE  (free - 1) + (held + 1) = total /\ free - 1 \in Nat
OBVIOUS

=============================================================================
