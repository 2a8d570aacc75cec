------------------------- MODULE DiskBlockWriterRows -------------------------
(* The invariant RowsInv: where the rows of a writer are, in its file and   *)
(* in its buffers.  It is preserved action by action.                       *)
EXTENDS DiskBlockWriterInvariant

\* No element occurs twice in the sequence s
NoRepeat(s) == \A i, j \in DOMAIN s : s[i] = s[j] => i = j

\* The rows in the file and in the buffers of writer w
Held(w) == Range(file[w]) \cup UNION {Range(rows[b]) : b \in BuffersOf(w)}

(* The last row counted is not stored: insertRow is at work on it or has   *)
(* thrown.                                                                 *)
Unstored(w) ==
    \/ Pending(w)
    \/ pc[OwnerOf[w]] \in {"failed", "stopped"} /\ w \in currentWriters

(* No row is twice in the file, in a buffer, or in two of them. *)
OnceInv ==
    /\ file \in [Writers -> Seq(Nat)]
    /\ \A w \in Writers : NoRepeat(file[w])
    /\ \A b \in Buffers : NoRepeat(rows[b]) /\ Range(rows[b]) \cap Range(file[b[1]]) = {}
    /\ \A b, c \in Buffers : b[1] = c[1] /\ b # c => Range(rows[b]) \cap Range(rows[c]) = {}

(* The rows counted are there, but for one that is not stored yet. *)
StoredInv ==
    \A w \in Writers :
        /\ \A r \in Held(w) : r \in 1 .. insertRecords[w] /\ (Pending(w) => r # insertRecords[w])
        /\ \A r \in 1 .. insertRecords[w] : r \in Held(w) \/ (r = insertRecords[w] /\ Unstored(w))

(* Once close has waited for the spill tasks of a writer no task is left,  *)
(* and once it has removed the writer its active buffer is empty.          *)
Settling == {"closeFile", "closeWrite", "closeCheck", "closeList"}
Settled(w) ==
    \/ w \notin currentWriters
    \/ pc[OwnerOf[w]] \in Settling /\ target[OwnerOf[w]] = w
ClosedInv ==
    \A w \in Writers :
        /\ Settled(w) => \A b \in Buffers : b[1] = w => job[b] \notin {"queued", "writing"}
        /\ w \notin currentWriters => rows[ActiveBuffer(w)] = <<>>

(* Without asynchronous spilling the only buffer of a writer carries the   *)
(* checksum of the whole file on.                                          *)
SyncInv ==
    /\ DOMAIN checksum = Buffers
    /\ ~isAsync => \A w \in Writers : active[w] = 0 /\ checksum[ActiveBuffer(w)] = file[w]

RowsInv == OnceInv /\ StoredInv /\ ClosedInv /\ SyncInv

(* Two sequences without common or repeated elements, one after the other *)
LEMMA ConcatOnce ==
    ASSUME NEW s \in Seq(Nat), NEW q \in Seq(Nat), NoRepeat(s), NoRepeat(q),
           Range(s) \cap Range(q) = {}
    PROVE  /\ s \o q \in Seq(Nat) /\ NoRepeat(s \o q)
           /\ Range(s \o q) = Range(s) \cup Range(q)
<1> DEFINE c == s \o q
<1>1. /\ Len(s) \in Nat /\ Len(q) \in Nat /\ Len(c) = Len(s) + Len(q) /\ c \in Seq(Nat)
      /\ DOMAIN s = 1 .. Len(s) /\ DOMAIN q = 1 .. Len(q) /\ DOMAIN c = 1 .. Len(c)
  OBVIOUS
<1>2. /\ \A i \in DOMAIN s : i \in DOMAIN c /\ c[i] = s[i]
      /\ \A i \in DOMAIN q : Len(s) + i \in DOMAIN c /\ c[Len(s) + i] = q[i]
  OBVIOUS
<1>3. \A i \in DOMAIN c : \/ i \in DOMAIN s /\ c[i] = s[i]
                          \/ i - Len(s) \in DOMAIN q /\ c[i] = q[i - Len(s)]
  OBVIOUS
<1> HIDE DEF c
<1>4. NoRepeat(c)
  <2> SUFFICES ASSUME NEW i \in DOMAIN c, NEW j \in DOMAIN c, c[i] = c[j] PROVE i = j
    BY DEF NoRepeat
  <2>1. CASE i \in DOMAIN s /\ c[i] = s[i] /\ j \in DOMAIN s /\ c[j] = s[j]
    BY <2>1 DEF NoRepeat
  <2>2. CASE i - Len(s) \in DOMAIN q /\ c[i] = q[i - Len(s)]
             /\ j - Len(s) \in DOMAIN q /\ c[j] = q[j - Len(s)]
    <3>1. i - Len(s) = j - Len(s)
      BY <2>2, Zenon DEF NoRepeat
    <3> QED
      BY <1>1, <3>1
  <2>3. CASE i \in DOMAIN s /\ c[i] = s[i] /\ j - Len(s) \in DOMAIN q /\ c[j] = q[j - Len(s)]
    BY <2>3, Zenon DEF Range
  <2>4. CASE j \in DOMAIN s /\ c[j] = s[j] /\ i - Len(s) \in DOMAIN q /\ c[i] = q[i - Len(s)]
    BY <2>4, Zenon DEF Range
  <2> QED
    BY <1>3, <2>1, <2>2, <2>3, <2>4, Zenon
<1>5. Range(c) = Range(s) \cup Range(q)
  <2>1. \A x \in Range(c) : x \in Range(s) \cup Range(q)
    BY <1>3, Zenon DEF Range
  <2>2. \A x \in Range(s) \cup Range(q) : x \in Range(c)
    BY <1>2, Zenon DEF Range
  <2> QED
    BY <2>1, <2>2
<1> QED
  BY <1>1, <1>4, <1>5 DEF c

(* A sequence of one element *)
LEMMA OneRow ==
    ASSUME NEW s \in Seq(Nat), NEW e \in Nat
    PROVE  /\ <<e>> \in Seq(Nat) /\ NoRepeat(<<e>>) /\ Range(<<e>>) = {e}
           /\ Append(s, e) = s \o <<e>>
<1>1. <<e>> \in Seq(Nat) /\ DOMAIN <<e>> = {1} /\ <<e>>[1] = e /\ Append(s, e) = s \o <<e>>
  OBVIOUS
<1> QED
  BY <1>1 DEF NoRepeat, Range

(* Where the rows of a writer are *)
LEMMA HeldRows ==
    ASSUME NEW w
    PROVE  /\ \A x : x \in Held(w) <=>
                 \/ x \in Range(file[w])
                 \/ \E c \in Buffers : c[1] = w /\ x \in Range(rows[c])
           /\ \A x : x \in Held(w)' <=>
                 \/ x \in Range(file'[w])
                 \/ \E c \in Buffers : c[1] = w /\ x \in Range(rows'[c])
BY DEF Held, BuffersOf

(* The rows of a buffer move to the file of its writer. *)
LEMMA WrittenRows ==
    ASSUME Inv, OnceInv, NEW b \in Buffers,
           file' = [file EXCEPT ![b[1]] = @ \o rows[b]], rows' = [rows EXCEPT ![b] = <<>>]
    PROVE  OnceInv' /\ \A w \in Writers : Held(w)' = Held(w)
<1> DEFINE f == file[b[1]] \o rows[b]
<1>1. b[1] \in Writers /\ file[b[1]] \in Seq(Nat) /\ rows[b] \in Seq(Nat)
  <2>1. rows[b] \in Seq(1 .. MaxRows)
    BY InvParts, Zenon DEF BufferTypes
  <2> QED
    BY <2>1, BufferFacts, ConfigAssumption DEF OnceInv
<1>2. f \in Seq(Nat) /\ NoRepeat(f) /\ Range(f) = Range(file[b[1]]) \cup Range(rows[b])
  <2>1. /\ NoRepeat(file[b[1]]) /\ NoRepeat(rows[b])
        /\ Range(file[b[1]]) \cap Range(rows[b]) = {}
    BY <1>1, Zenon DEF OnceInv
  <2> QED
    BY <1>1, <2>1, ConcatOnce, Zenon
<1>3. /\ \A w \in Writers : file'[w] = IF w = b[1] THEN f ELSE file[w]
      /\ \A c \in Buffers : rows'[c] = IF c = b THEN <<>> ELSE rows[c]
      /\ file' \in [Writers -> Seq(Nat)]
  BY <1>1, <1>2, InvParts, Zenon DEF OnceInv, BufferTypes
<1> HIDE DEF f
<1>4. Range(<<>>) = {} /\ NoRepeat(<<>>)
  BY DEF Range, NoRepeat
<1>5. OnceInv'
  <2>1. \A w \in Writers : NoRepeat(file'[w])
    BY <1>2, <1>3, Zenon DEF OnceInv
  <2>2. ASSUME NEW c \in Buffers
        PROVE  NoRepeat(rows'[c]) /\ Range(rows'[c]) \cap Range(file'[c[1]]) = {}
    <3>1. c[1] \in Writers
      BY BufferFacts
    <3>2. CASE c = b
      BY <1>3, <1>4, <3>2, Zenon
    <3>3. CASE c # b /\ c[1] = b[1]
      <4>1. rows'[c] = rows[c] /\ file'[c[1]] = f
        BY <1>3, <3>1, <3>3, Zenon
      <4>2. Range(rows[c]) \cap Range(file[b[1]]) = {} /\ Range(rows[c]) \cap Range(rows[b]) = {}
        BY <3>3, Zenon DEF OnceInv
      <4> QED
        BY <1>2, <4>1, <4>2, Zenon DEF OnceInv
    <3>4. CASE c # b /\ c[1] # b[1]
      BY <1>3, <3>1, <3>4, Zenon DEF OnceInv
    <3> QED
      BY <3>2, <3>3, <3>4, Zenon
  <2>3. ASSUME NEW c \in Buffers, NEW d \in Buffers, c[1] = d[1], c # d
        PROVE  Range(rows'[c]) \cap Range(rows'[d]) = {}
    <3>1. Range(rows[c]) \cap Range(rows[d]) = {}
      BY <2>3, Zenon DEF OnceInv
    <3>2. CASE c = b \/ d = b
      BY <1>3, <1>4, <3>2, Zenon
    <3>3. CASE c # b /\ d # b
      BY <1>3, <3>1, <3>3, Zenon
    <3> QED
      BY <3>2, <3>3, Zenon
  <2> QED
    BY <1>3, <2>1, <2>2, <2>3, Zenon DEF OnceInv
<1>6. ASSUME NEW w \in Writers PROVE Held(w)' = Held(w)
  <2>1. CASE w = b[1]
    <3>2. file'[w] = f /\ file[w] = file[b[1]]
      BY <1>3, <2>1, Zenon
    <3>3. \A x : x \in Range(f) <=> x \in Range(file[w]) \/ x \in Range(rows[b])
      BY <1>2, <3>2, Zenon
    <3>4. ASSUME NEW x \in Held(w)' PROVE x \in Held(w)
      <4>1. CASE x \in Range(file'[w])
        BY <2>1, <3>2, <3>3, <4>1, HeldRows, Zenon
      <4>2. CASE \E c \in Buffers : c[1] = w /\ x \in Range(rows'[c])
        <5>1. PICK c \in Buffers : c[1] = w /\ x \in Range(rows'[c])
          BY <4>2, Zenon
        <5>2. c # b /\ rows'[c] = rows[c]
          BY <1>3, <1>4, <5>1
        <5> QED
          BY <5>1, <5>2, HeldRows, Zenon
      <4> QED
        BY <3>4, <4>1, <4>2, HeldRows, Zenon
    <3>5. ASSUME NEW x \in Held(w) PROVE x \in Held(w)'
      <4>1. CASE x \in Range(file[w])
        BY <3>2, <3>3, <4>1, HeldRows, Zenon
      <4>2. CASE \E c \in Buffers : c[1] = w /\ x \in Range(rows[c])
        <5>1. PICK c \in Buffers : c[1] = w /\ x \in Range(rows[c])
          BY <4>2, Zenon
        <5>2. CASE c = b
          BY <3>2, <3>3, <5>1, <5>2, HeldRows, Zenon
        <5>3. CASE c # b
          <6>1. rows'[c] = rows[c]
            BY <1>3, <5>3, Zenon
          <6> QED
            BY <5>1, <6>1, HeldRows, Zenon
        <5> QED
          BY <5>2, <5>3, Zenon
      <4> QED
        BY <3>5, <4>1, <4>2, HeldRows, Zenon
    <3> QED
      BY <3>4, <3>5
  <2>2. CASE w # b[1]
    <3>1. \A c \in BuffersOf(w) : rows'[c] = rows[c]
      BY <1>3, <2>2, Zenon DEF BuffersOf
    <3> QED
      BY <1>3, <2>2, <3>1 DEF Held, BuffersOf
  <2> QED
    BY <2>1, <2>2, Zenon
<1> QED
  BY <1>5, <1>6, Zenon

(* A row joins a buffer. *)
LEMMA AddedRow ==
    ASSUME Inv, OnceInv, NEW b \in Buffers, NEW e \in 1 .. MaxRows, e \notin Held(b[1]),
           rows' = [rows EXCEPT ![b] = Append(@, e)], file' = file
    PROVE  /\ OnceInv'
           /\ \A w \in Writers : Held(w)' = IF w = b[1] THEN Held(w) \cup {e} ELSE Held(w)
<1> DEFINE q == Append(rows[b], e)
<1>1. rows[b] \in Seq(Nat) /\ b[1] \in Writers /\ b \in BuffersOf(b[1]) /\ e \in Nat
  <2>1. rows[b] \in Seq(1 .. MaxRows) /\ b[1] \in Writers /\ b \in BuffersOf(b[1])
    BY InvParts, BufferFacts, Zenon DEF BufferTypes, BuffersOf
  <2> QED
    BY <2>1, ConfigAssumption
<1>2. e \notin Range(rows[b]) /\ e \notin Range(file[b[1]])
      /\ \A c \in Buffers : c[1] = b[1] => e \notin Range(rows[c])
  BY <1>1, Zenon DEF Held, BuffersOf
<1>3. NoRepeat(q) /\ Range(q) = Range(rows[b]) \cup {e}
  <2>0. /\ <<e>> \in Seq(Nat) /\ NoRepeat(<<e>>) /\ Range(<<e>>) = {e}
        /\ q = rows[b] \o <<e>>
    BY <1>1, OneRow
  <2>1. Range(rows[b]) \cap Range(<<e>>) = {}
    BY <1>2, <2>0
  <2>2. NoRepeat(rows[b] \o <<e>>) /\ Range(rows[b] \o <<e>>) = Range(rows[b]) \cup Range(<<e>>)
    BY <1>1, <2>0, <2>1, ConcatOnce, Zenon DEF OnceInv
  <2> QED
    BY <2>0, <2>2, Zenon
<1>4. \A c \in Buffers : rows'[c] = IF c = b THEN q ELSE rows[c]
  BY InvParts, Zenon DEF BufferTypes
<1> HIDE DEF q
<1>5. OnceInv'
  <2>2. ASSUME NEW c \in Buffers
        PROVE  NoRepeat(rows'[c]) /\ Range(rows'[c]) \cap Range(file[c[1]]) = {}
    <3>1. CASE c = b
      <4>1. Range(rows[b]) \cap Range(file[b[1]]) = {}
        BY Zenon DEF OnceInv
      <4> QED
        BY <1>2, <1>3, <1>4, <3>1, <4>1, Zenon
    <3>2. CASE c # b
      BY <1>4, <3>2, Zenon DEF OnceInv
    <3> QED
      BY <3>1, <3>2, Zenon
  <2>3. ASSUME NEW c \in Buffers, NEW d \in Buffers, c[1] = d[1], c # d
        PROVE  Range(rows'[c]) \cap Range(rows'[d]) = {}
    <3>1. Range(rows[c]) \cap Range(rows[d]) = {}
      BY <2>3, Zenon DEF OnceInv
    <3>2. CASE c = b
      BY <1>2, <1>3, <1>4, <2>3, <3>1, <3>2, Zenon
    <3>3. CASE d = b
      BY <1>2, <1>3, <1>4, <2>3, <3>1, <3>3, Zenon
    <3>4. CASE c # b /\ d # b
      BY <1>4, <3>1, <3>4, Zenon
    <3> QED
      BY <3>2, <3>3, <3>4, Zenon
  <2> QED
    BY <2>2, <2>3, Zenon DEF OnceInv
<1>6. ASSUME NEW w \in Writers
      PROVE  Held(w)' = IF w = b[1] THEN Held(w) \cup {e} ELSE Held(w)
  <2>1. CASE w = b[1]
    <3>1. BuffersOf(w) \subseteq Buffers /\ b \in BuffersOf(w)
      BY <1>1, <2>1, Zenon DEF BuffersOf
    <3>2. Held(w)' = Held(w) \cup {e}
      BY <1>3, <1>4, <3>1 DEF Held
    <3> QED
      BY <2>1, <3>2, Zenon
  <2>2. CASE w # b[1]
    <3>1. \A c \in BuffersOf(w) : rows'[c] = rows[c]
      BY <1>4, <2>2, Zenon DEF BuffersOf
    <3>2. Held(w)' = Held(w)
      BY <3>1 DEF Held, BuffersOf
    <3> QED
      BY <2>2, <3>2, Zenon
  <2> QED
    BY <2>1, <2>2, Zenon
<1> QED
  BY <1>5, <1>6, Zenon

-----------------------------------------------------------------------------
(* What the steps of a task do to the rows that are pending *)

rowState == <<insertRecords, file, rows, checksum, active, job>>

(* A step of task t that begins no insertion and stores no row *)
Moves(t, label) ==
    /\ pc' = [pc EXCEPT ![t] = label] /\ target' = target
    /\ label \in Inserting => pc[t] \in Inserting
    /\ pc[t] \in Inserting => label \in Inserting \cup {"failed"}
    /\ pc[t] = "failed" => label = "stopped"
    /\ pc[t] # "stopped"
    /\ label \in Settling =>
         \/ pc[t] \in Settling
         \/ pc[t] = "closeGet" /\ \A b \in asyncSpillTasks[target[t]] : job[b] = "done"
    /\ \/ currentWriters' = currentWriters
       \/ pc[t] = "closeList" /\ currentWriters' = currentWriters \ {target[t]}

(* The rows that are not stored stay the same, but for a task that fails. *)
LEMMA StoredMove ==
    ASSUME Inv, StoredInv, conf' = conf, insertRecords' = insertRecords,
           \A w \in Writers : Held(w)' = Held(w), NEW t \in Tasks, NEW label, Moves(t, label)
    PROVE  StoredInv'
<1>1. \A u \in Tasks : pc'[u] = IF u = t THEN label ELSE pc[u]
  BY PcMove, Zenon DEF Moves
<1>2. \A w \in Writers : OwnerOf[w] \in Tasks /\ OwnerOf'[w] = OwnerOf[w]
  BY ConfSame, ConfFacts, InvParts, Zenon
<1>3. \A w \in Writers : Pending(w)' => Pending(w)
  BY PendingMove, Zenon DEF Moves
<1>4. ASSUME NEW w \in Writers, Unstored(w) PROVE Unstored(w)'
  <2>1. CASE OwnerOf[w] # t
    <3>1. pc'[OwnerOf[w]] = pc[OwnerOf[w]] /\ target' = target /\ OwnerOf'[w] = OwnerOf[w]
      BY <1>1, <1>2, <2>1, Zenon DEF Moves
    <3>2. w \in currentWriters => w \in currentWriters'
      <4>1. pc[t] = "closeList" => OwnerOf[target[t]] = t
        BY InvParts DEF TaskInv, Closing
      <4> QED
        BY <2>1, <4>1, Zenon DEF Moves
    <3> QED
      BY <1>4, <3>1, <3>2, Zenon DEF Unstored, Pending
  <2>2. CASE OwnerOf[w] = t
    <3>1. pc'[OwnerOf'[w]] = label /\ target' = target /\ OwnerOf'[w] = t
      BY <1>1, <1>2, <2>2, Zenon DEF Moves
    <3>2. CASE Pending(w)
      <4>1. pc[t] \in Inserting /\ target[t] = w /\ label \in Inserting \cup {"failed"}
        BY <2>2, <3>2, Zenon DEF Pending, Moves
      <4>2. currentWriters' = currentWriters /\ w \in currentWriters
        BY <2>2, <4>1, InvParts DEF Moves, ListInv, Inserting
      <4>3. CASE label \in Inserting
        BY <3>1, <4>1, <4>3, Zenon DEF Unstored, Pending
      <4>4. CASE label = "failed"
        BY <3>1, <4>2, <4>4, Zenon DEF Unstored
      <4> QED
        BY <4>1, <4>3, <4>4, Zenon
    <3>3. CASE pc[t] \in {"failed", "stopped"} /\ w \in currentWriters
      <4>1. label = "stopped" /\ currentWriters' = currentWriters
        BY <3>3 DEF Moves
      <4> QED
        BY <3>1, <3>3, <4>1, Zenon DEF Unstored
    <3> QED
      BY <1>4, <2>2, <3>2, <3>3, Zenon DEF Unstored
  <2> QED
    BY <2>1, <2>2, Zenon
<1> QED
  BY <1>3, <1>4, Zenon DEF StoredInv

(* What close has settled stays settled. *)
LEMMA ClosedMove ==
    ASSUME Inv, ClosedInv, conf' = conf, UNCHANGED <<active, job>>,
           NEW t \in Tasks, NEW label, Moves(t, label),
           \A b \in Buffers : rows[b] = <<>> => rows'[b] = <<>>
    PROVE  ClosedInv'
<1>1. \A u \in Tasks : pc'[u] = IF u = t THEN label ELSE pc[u]
  BY PcMove, Zenon DEF Moves
<1>2. \A w \in Writers : OwnerOf[w] \in Tasks /\ OwnerOf'[w] = OwnerOf[w]
  BY ConfSame, ConfFacts, InvParts, Zenon
<1>3. ASSUME NEW w \in Writers, w \notin currentWriters'
      PROVE  Settled(w) /\ rows'[ActiveBuffer(w)'] = <<>>
  <2>1. ActiveBuffer(w) \in Buffers /\ ActiveBuffer(w)' = ActiveBuffer(w)
    BY ActiveFacts, InvParts, Zenon DEF ActiveBuffer
  <2>2. CASE w \notin currentWriters
    BY <2>1, <2>2, Zenon DEF ClosedInv, Settled
  <2>3. CASE w \in currentWriters
    <3>1. pc[t] = "closeList" /\ w = target[t]
      BY <1>3, <2>3, Zenon DEF Moves
    <3>2. OwnerOf[w] = t /\ rows[ActiveBuffer(w)] = <<>>
      BY <3>1, InvParts DEF TaskInv, BufferPhase, Closing
    <3> QED
      BY <2>1, <3>1, <3>2 DEF Settled, Settling
  <2> QED
    BY <2>2, <2>3, Zenon
<1>4. ASSUME NEW w \in Writers, Settled(w)', NEW b \in Buffers, b[1] = w
      PROVE  job[b] \notin {"queued", "writing"}
  <2>1. CASE Settled(w)
    BY <1>4, <2>1, Zenon DEF ClosedInv
  <2>2. CASE ~Settled(w)
    <3>1. w \in currentWriters' /\ pc'[OwnerOf'[w]] \in Settling /\ target'[OwnerOf'[w]] = w
      BY <1>3, <1>4, <2>2, Zenon DEF Settled
    <3>2. OwnerOf[w] = t /\ label \in Settling /\ target[t] = w /\ pc[t] \notin Settling
      BY <1>1, <1>2, <2>2, <3>1 DEF Settled, Moves
    <3>3. \A c \in asyncSpillTasks[w] : job[c] = "done"
      BY <3>2, Zenon DEF Moves
    <3> QED
      BY <1>4, <3>3, InvParts DEF BufferOrder
  <2> QED
    BY <2>1, <2>2, Zenon
<1> QED
  BY <1>3, <1>4, Zenon DEF ClosedInv

(* A step that leaves the rows alone *)
LEMMA QuietRows ==
    ASSUME Inv, RowsInv, conf' = conf, UNCHANGED rowState,
           NEW t \in Tasks, NEW label, Moves(t, label)
    PROVE  RowsInv'
<1>1. UNCHANGED <<insertRecords, file, rows, checksum, active, job>>
  BY Zenon DEF rowState
<1>2. OnceInv' /\ \A w \in Writers : Held(w)' = Held(w)
  BY <1>1, Zenon DEF RowsInv, OnceInv, Held, BuffersOf
<1>3. StoredInv'
  BY <1>1, <1>2, StoredMove, Zenon DEF RowsInv
<1>4. ClosedInv'
  BY <1>1, ClosedMove, Zenon DEF RowsInv
<1>5. SyncInv'
  BY <1>1, ConfSame, Zenon DEF RowsInv, SyncInv, ActiveBuffer
<1> QED
  BY <1>2, <1>3, <1>4, <1>5, Zenon DEF RowsInv

(* A task writes the active buffer of a writer to its file. *)
LEMMA WriteStep ==
    ASSUME Inv, RowsInv, conf' = conf, NEW t \in Tasks, NEW label, Moves(t, label),
           NEW v \in Writers, EndWrite(ActiveBuffer(v)), UNCHANGED <<insertRecords, active, job>>
    PROVE  RowsInv'
<1> DEFINE b == ActiveBuffer(v)
<1>1. b \in Buffers /\ b[1] = v
  BY ActiveFacts, InvParts, Zenon
<1> HIDE DEF b
<1>2. /\ file' = [file EXCEPT ![b[1]] = @ \o rows[b]] /\ rows' = [rows EXCEPT ![b] = <<>>]
      /\ checksum' = [checksum EXCEPT ![b] = IF @ = NO_CHECKSUM THEN <<>> ELSE @ \o rows[b]]
  BY Zenon DEF EndWrite, b
<1>3. OnceInv' /\ \A w \in Writers : Held(w)' = Held(w)
  BY <1>1, <1>2, WrittenRows, Zenon DEF RowsInv
<1>4. StoredInv'
  BY <1>3, StoredMove, Zenon DEF RowsInv
<1>5. \A c \in Buffers : rows[c] = <<>> => rows'[c] = <<>>
  BY <1>2, InvParts, Zenon DEF BufferTypes
<1>6. ClosedInv'
  BY <1>5, ClosedMove, Zenon DEF RowsInv
<1>7. SyncInv'
  <2>0. DOMAIN checksum = Buffers /\ DOMAIN checksum' = Buffers
    BY <1>2, Zenon DEF RowsInv, SyncInv
  <2> SUFFICES ASSUME ~isAsync, NEW w \in Writers
               PROVE  active[w] = 0 /\ checksum'[ActiveBuffer(w)] = file'[w]
    BY <2>0, ConfSame, Zenon DEF SyncInv, ActiveBuffer
  <2>1. active[w] = 0 /\ checksum[ActiveBuffer(w)] = file[w] /\ file[w] \in Seq(Nat)
    BY Zenon DEF RowsInv, SyncInv, OnceInv
  <2>2. CASE w = v
    <3>1. checksum[b] = file[v] /\ file[v] # NO_CHECKSUM
      <4>1. ASSUME NEW q \in Seq(Nat) PROVE q # <<-1>>
        <5>1. q = <<-1>> => 1 \in DOMAIN q /\ q[1] = -1
          OBVIOUS
        <5>2. 1 \in DOMAIN q => q[1] \in Nat
          OBVIOUS
        <5> QED
          BY <5>1, <5>2
      <4> QED
        BY <2>1, <2>2, <4>1, Zenon DEF b, NO_CHECKSUM
    <3>2. checksum'[b] = file[v] \o rows[b] /\ file'[v] = file[v] \o rows[b]
      BY <1>1, <1>2, <3>1, Zenon DEF RowsInv, OnceInv, SyncInv
    <3> QED
      BY <2>1, <2>2, <3>2, Zenon DEF b
  <2>3. CASE w # v
    <3>1. ActiveBuffer(w) # b
      BY <2>3, ActiveFacts, InvParts, <1>1, Zenon
    <3>2. checksum'[ActiveBuffer(w)] = checksum[ActiveBuffer(w)] /\ file'[w] = file[w]
      BY <1>1, <1>2, <2>3, <3>1, ActiveFacts, InvParts, Zenon DEF RowsInv, OnceInv, SyncInv
    <3> QED
      BY <2>1, <3>2, Zenon
  <2> QED
    BY <2>2, <2>3, Zenon
<1> QED
  BY <1>3, <1>4, <1>6, <1>7, Zenon DEF RowsInv

-----------------------------------------------------------------------------
(* The steps of a task *)

(* A row is counted: until it is stored it is the only one missing. *)
LEMMA BeginInsertRows ==
    ASSUME NEW t \in Tasks, NEW w \in Writers, BeginInsert(t, w), Inv, RowsInv, conf' = conf
    PROVE  RowsInv'
<1>1. /\ pc[t] = "insert" /\ OwnerOf[w] = t
      /\ insertRecords' = [insertRecords EXCEPT ![w] = @ + 1]
      /\ pc' = [pc EXCEPT ![t] = "lock"] /\ target' = [target EXCEPT ![t] = w]
      /\ UNCHANGED <<file, rows, checksum, active, job, currentWriters>>
  BY Zenon DEF BeginInsert, writerVars, bufferVars
<1>2. /\ \A u \in Tasks : pc'[u] = IF u = t THEN "lock" ELSE pc[u]
      /\ \A u \in Tasks : target'[u] = IF u = t THEN w ELSE target[u]
      /\ \A v \in Writers : insertRecords'[v] = IF v = w THEN insertRecords[v] + 1 ELSE insertRecords[v]
      /\ insertRecords[w] \in Nat
  BY <1>1, InvParts, ConfigAssumption DEF ControlTypes, BufferTypes
<1>3. \A v \in Writers : OwnerOf[v] \in Tasks /\ OwnerOf'[v] = OwnerOf[v]
  BY ConfSame, ConfFacts, InvParts, Zenon
<1>4. OnceInv' /\ \A v \in Writers : Held(v)' = Held(v)
  BY <1>1, Zenon DEF RowsInv, OnceInv, Held, BuffersOf
<1>5. \A v \in Writers : v # w => /\ Pending(v)' => Pending(v)
                                  /\ Unstored(v) => Unstored(v)'
  BY <1>1, <1>2, <1>3 DEF Pending, Unstored, Inserting
<1>6. Pending(w)' /\ Unstored(w)' /\ ~Unstored(w)
  BY <1>1, <1>2, <1>3 DEF Pending, Unstored, Inserting
<1>7. StoredInv'
  <2>1. ASSUME NEW v \in Writers
        PROVE  /\ \A r \in Held(v) : r \in 1 .. insertRecords'[v] /\ (Pending(v)' => r # insertRecords'[v])
               /\ \A r \in 1 .. insertRecords'[v] : r \in Held(v) \/ (r = insertRecords'[v] /\ Unstored(v)')
    <3>1. CASE v = w
      <4>1. /\ \A r \in Held(w) : r \in 1 .. insertRecords[w]
            /\ \A r \in 1 .. insertRecords[w] : r \in Held(w)
        BY <1>6, Zenon DEF RowsInv, StoredInv
      <4> QED
        BY <1>2, <1>6, <3>1, <4>1
    <3>2. CASE v # w
      <4>1. insertRecords'[v] = insertRecords[v]
        BY <1>2, <3>2, Zenon
      <4> QED
        BY <1>5, <3>2, <4>1, Zenon DEF RowsInv, StoredInv
    <3> QED
      BY <3>1, <3>2, Zenon
  <2> QED
    BY <1>4, <2>1, Zenon DEF StoredInv
<1>8. ClosedInv'
  <2>1. \A v \in Writers : Settled(v)' => Settled(v)
    BY <1>1, <1>2, <1>3 DEF Settled, Settling
  <2> QED
    BY <1>1, <2>1, Zenon DEF RowsInv, ClosedInv, ActiveBuffer
<1>9. SyncInv'
  BY <1>1, ConfSame, Zenon DEF RowsInv, SyncInv, ActiveBuffer
<1> QED
  BY <1>4, <1>7, <1>8, <1>9, Zenon DEF RowsInv

(* close begins with a writer: nothing is pending. *)
LEMMA CloseNextRows ==
    ASSUME NEW t \in Tasks, NEW w \in Writers, CloseNext(t, w), Inv, RowsInv, conf' = conf
    PROVE  RowsInv'
<1>1. /\ pc[t] = "closing"
      /\ pc' = [pc EXCEPT ![t] = "closeGet"] /\ target' = [target EXCEPT ![t] = w]
      /\ UNCHANGED <<insertRecords, file, rows, checksum, active, job, currentWriters>>
  BY Zenon DEF CloseNext, writerVars, bufferVars, recordVars
<1>2. /\ \A u \in Tasks : pc'[u] = IF u = t THEN "closeGet" ELSE pc[u]
      /\ \A u \in Tasks : u # t => target'[u] = target[u]
  BY <1>1, InvParts DEF ControlTypes
<1>3. \A v \in Writers : OwnerOf[v] \in Tasks /\ OwnerOf'[v] = OwnerOf[v]
  BY ConfSame, ConfFacts, InvParts, Zenon
<1>4. OnceInv' /\ \A v \in Writers : Held(v)' = Held(v)
  BY <1>1, Zenon DEF RowsInv, OnceInv, Held, BuffersOf
<1>5. \A v \in Writers : /\ Pending(v)' => Pending(v)
                         /\ Unstored(v) => Unstored(v)'
                         /\ Settled(v)' => Settled(v)
  BY <1>1, <1>2, <1>3 DEF Pending, Unstored, Settled, Inserting, Settling
<1>6. StoredInv'
  BY <1>1, <1>4, <1>5, Zenon DEF RowsInv, StoredInv
<1>7. ClosedInv'
  BY <1>1, <1>5, Zenon DEF RowsInv, ClosedInv, ActiveBuffer
<1>8. SyncInv'
  BY <1>1, ConfSame, Zenon DEF RowsInv, SyncInv, ActiveBuffer
<1> QED
  BY <1>4, <1>6, <1>7, <1>8, Zenon DEF RowsInv

(* The steps between two labels that can neither make a row pending nor    *)
(* settle a writer                                                         *)
Leads(from, label) ==
    /\ label \in Inserting => from \in Inserting
    /\ from \in Inserting => label \in Inserting \cup {"failed"}
    /\ from = "failed" => label = "stopped"
    /\ from # "stopped"
    /\ label \in Settling => from \in Settling

LEMMA LeadsFacts ==
    /\ \A from \in Inserting : \A label \in Inserting : Leads(from, label)
    /\ \A from \in Inserting \cup Closing : Leads(from, "failed")
    /\ Leads("insert", "closing") /\ Leads("closeFile", "closeWrite")
    /\ Leads("closeWrite", "closeCheck") /\ Leads("closeCheck", "closeList")
    /\ Leads("closeList", "closing") /\ Leads("closing", "done") /\ Leads("failed", "stopped")
BY DEF Leads, Inserting, Closing, Settling

LEMMA InsertingFacts ==
    /\ \A x \in {"lock", "page", "asyncWait", "spillLock", "spillNext", "spillMonitor",
              "spillFile", "spillWrite", "spillFree", "spillDone", "initPage"} : x \in Inserting
    /\ \A x \in {"closeGet", "closeFile", "closeWrite", "closeCheck", "closeList"} : x \in Closing
BY Zenon DEF Inserting, Closing

LEMMA MoveRows ==
    ASSUME Inv, RowsInv, conf' = conf, UNCHANGED rowState, UNCHANGED <<target, currentWriters>>,
           NEW t \in Tasks, NEW label, pc' = [pc EXCEPT ![t] = label], Leads(pc[t], label)
    PROVE  RowsInv'
<1>1. Moves(t, label)
  BY Zenon DEF Moves, Leads
<1> QED
  BY <1>1, QuietRows, Zenon

(* A task stays where it is. *)
LEMMA StayRows ==
    ASSUME Inv, RowsInv, conf' = conf, UNCHANGED rowState, UNCHANGED <<target, currentWriters>>,
           NEW t \in Tasks, pc' = pc, pc[t] \in Inserting
    PROVE  RowsInv'
<1>1. pc' = [pc EXCEPT ![t] = pc[t]]
  BY InvParts DEF ControlTypes
<1>2. Leads(pc[t], pc[t])
  BY LeadsFacts, Zenon
<1> QED
  BY <1>1, <1>2, MoveRows, Zenon

(* A task throws. *)
LEMMA ThrowRows ==
    ASSUME Inv, RowsInv, conf' = conf, UNCHANGED rowState, UNCHANGED currentWriters,
           NEW t \in Tasks, NEW why, Throw(t, why), pc[t] \in Inserting \cup Closing
    PROVE  RowsInv'
<1>1. pc' = [pc EXCEPT ![t] = "failed"] /\ target' = target
  BY Zenon DEF Throw
<1>2. Leads(pc[t], "failed")
  BY LeadsFacts, Zenon
<1> QED
  BY <1>1, <1>2, MoveRows, Zenon

(* A task moves on within insertRow. *)
LEMMA InsertingRows ==
    ASSUME Inv, RowsInv, conf' = conf, UNCHANGED rowState, UNCHANGED <<target, currentWriters>>,
           NEW t \in Tasks, NEW label \in Inserting, pc' = [pc EXCEPT ![t] = label],
           pc[t] \in Inserting
    PROVE  RowsInv'
BY LeadsFacts, MoveRows, Zenon

LEMMA InsertLockRows ==
    ASSUME NEW t \in Tasks, InsertLock(t), Inv, RowsInv, conf' = conf
    PROVE  RowsInv'
<1>1. UNCHANGED rowState /\ UNCHANGED <<target, currentWriters>> /\ pc[t] \in Inserting
  BY InsertingFacts, Zenon DEF InsertLock, rowState, recordVars, bufferVars
<1>2. \/ \E label \in Inserting : pc' = [pc EXCEPT ![t] = label]
      \/ Throw(t, "notEmpty")
  BY InsertingFacts, Zenon DEF InsertLock
<1> QED
  BY <1>1, <1>2, InsertingRows, ThrowRows, Zenon

LEMMA SpillFileRows ==
    ASSUME NEW t \in Tasks, SpillFile(t), Inv, RowsInv, conf' = conf
    PROVE  RowsInv'
<1>1. UNCHANGED rowState /\ UNCHANGED <<target, currentWriters>> /\ pc[t] \in Inserting
  BY InsertingFacts, Zenon DEF SpillFile, Throw, Goto, rowState, writerVars
<1>2. \/ \E label \in Inserting : pc' = [pc EXCEPT ![t] = label]
      \/ Throw(t, "nullRows")
  BY InsertingFacts, Zenon DEF SpillFile, Goto
<1> QED
  BY <1>1, <1>2, InsertingRows, ThrowRows, Zenon

(* The steps of a spill that only concern its control *)
LEMMA SpillRows ==
    ASSUME NEW t \in Tasks, Inv, RowsInv, conf' = conf,
           \/ AsyncWait(t) \/ SpillLock(t) \/ SpillEnough(t) \/ SpillNext(t)
           \/ SpillMonitor(t) \/ SpillFree(t) \/ SpillDone(t)
    PROVE  RowsInv'
<1>1. UNCHANGED rowState /\ UNCHANGED <<target, currentWriters>> /\ pc[t] \in Inserting
  BY InsertingFacts, Zenon
     DEF AsyncWait, SpillLock, SpillEnough, SpillNext, SpillMonitor, SpillFree, SpillDone, Goto,
         rowState, writerVars, recordVars, bufferVars, threadVars
<1>2. pc' = pc \/ \E label \in Inserting : pc' = [pc EXCEPT ![t] = label]
  BY InsertingFacts, Zenon
     DEF AsyncWait, SpillLock, SpillEnough, SpillNext, SpillMonitor, SpillFree, SpillDone, Goto, threadVars
<1> QED
  BY <1>1, <1>2, InsertingRows, StayRows, Zenon

(* The steps that end a task *)
LEMMA EndRows ==
    ASSUME NEW t \in Tasks, Inv, RowsInv, conf' = conf,
           FinishRecords(t) \/ Finish(t) \/ Stop(t)
    PROVE  RowsInv'
<1>1. UNCHANGED rowState /\ UNCHANGED <<target, currentWriters>>
  BY Zenon DEF FinishRecords, Finish, Stop, Goto, rowState, writerVars, recordVars, bufferVars
<1>2. \E label : pc' = [pc EXCEPT ![t] = label] /\ Leads(pc[t], label)
  BY LeadsFacts, Zenon DEF FinishRecords, Finish, Stop, Goto
<1> QED
  BY <1>1, <1>2, MoveRows, Zenon

(* The steps of close but for its write *)
LEMMA CloseRows ==
    ASSUME NEW t \in Tasks, Inv, RowsInv, conf' = conf,
           CloseFile(t) \/ CloseCheck(t)
    PROVE  RowsInv'
<1>1. UNCHANGED rowState /\ UNCHANGED <<target, currentWriters>> /\ pc[t] \in Closing
  BY InsertingFacts, Zenon
     DEF CloseFile, CloseCheck, Throw, Goto, rowState, writerVars, recordVars, bufferVars
<1>2. \/ \E label : pc' = [pc EXCEPT ![t] = label] /\ Leads(pc[t], label)
      \/ \E why : Throw(t, why)
  BY LeadsFacts, Zenon DEF CloseFile, CloseCheck, Goto
<1> QED
  BY <1>1, <1>2, MoveRows, ThrowRows, Zenon

(* close has waited for the spill tasks, or one of them failed. *)
LEMMA CloseGetRows ==
    ASSUME NEW t \in Tasks, Inv, RowsInv, conf' = conf, CloseGet(t)
    PROVE  RowsInv'
<1>1. UNCHANGED rowState /\ UNCHANGED <<target, currentWriters>> /\ pc[t] = "closeGet"
      /\ pc[t] \in Closing
  BY InsertingFacts, Zenon DEF CloseGet, Throw, Goto, rowState, writerVars, recordVars, bufferVars
<1>2. CASE (\A b \in asyncSpillTasks[target[t]] : job[b] = "done") /\ Goto(t, "closeFile")
  <2>1. pc' = [pc EXCEPT ![t] = "closeFile"]
    BY Zenon, <1>1, <1>2 DEF CloseGet, Goto
  <2>2. Moves(t, "closeFile")
    BY <1>1, <1>2, <2>1 DEF Moves, Inserting, Settling
  <2> QED
    BY <1>1, <2>2, QuietRows, Zenon
<1> QED
  BY <1>1, <1>2, ThrowRows, Zenon DEF CloseGet

(* The writer leaves the static list. *)
LEMMA CloseListRows ==
    ASSUME NEW t \in Tasks, Inv, RowsInv, conf' = conf, CloseList(t)
    PROVE  RowsInv'
<1>1. /\ UNCHANGED rowState /\ target' = target /\ pc[t] = "closeList"
      /\ pc' = [pc EXCEPT ![t] = "closing"] /\ currentWriters' = currentWriters \ {target[t]}
  BY Zenon DEF CloseList, Goto, rowState, writerVars, recordVars, bufferVars
<1>2. Moves(t, "closing")
  BY <1>1 DEF Moves, Inserting, Settling
<1> QED
  BY <1>1, <1>2, QuietRows, Zenon

(* A spill on a task thread writes the rows of its victim. *)
LEMMA SpillWriteRows ==
    ASSUME NEW t \in Tasks, Inv, RowsInv, conf' = conf, SpillWrite(t)
    PROVE  RowsInv'
<1>1. pc[t] = "spillWrite" /\ pc[t] \in Inserting /\ UNCHANGED <<currentWriters, insertRecords, active, job>>
  BY InsertingFacts, Zenon DEF SpillWrite, writerVars
<1>2. CASE EndWrite(ActiveBuffer(victim[t])) /\ Goto(t, "spillFree")
  <2>1. victim[t] \in Writers
    BY <1>1, InvParts DEF TaskInv, Flagged
  <2>2. pc' = [pc EXCEPT ![t] = "spillFree"] /\ target' = target
    BY <1>2, Zenon DEF Goto
  <2>3. Moves(t, "spillFree")
    BY <1>1, <2>2, LeadsFacts, InsertingFacts, Zenon DEF Moves, Leads
  <2> QED
    BY <1>1, <1>2, <2>1, <2>3, WriteStep, Zenon
<1>3. CASE Throw(t, "writeFailed") /\ UNCHANGED <<file, bufferVars>>
  <2>1. UNCHANGED rowState
    BY <1>1, <1>3, Zenon DEF rowState, bufferVars
  <2> QED
    BY <1>1, <1>3, <2>1, ThrowRows, Zenon
<1> QED
  BY <1>2, <1>3, Zenon DEF SpillWrite

(* close writes the last rows. *)
LEMMA CloseWriteRows ==
    ASSUME NEW t \in Tasks, Inv, RowsInv, conf' = conf, CloseWrite(t)
    PROVE  RowsInv'
<1>1. pc[t] = "closeWrite" /\ pc[t] \in Closing /\ UNCHANGED <<currentWriters, insertRecords, active, job>>
  BY InsertingFacts, Zenon DEF CloseWrite, writerVars
<1>2. CASE EndWrite(ActiveBuffer(target[t])) /\ Goto(t, "closeCheck")
  <2>1. target[t] \in Writers
    BY <1>1, InvParts, Zenon DEF TaskInv
  <2>2. pc' = [pc EXCEPT ![t] = "closeCheck"] /\ target' = target
    BY <1>2, Zenon DEF Goto
  <2>3. Moves(t, "closeCheck")
    BY <1>1, <2>2, LeadsFacts, Zenon DEF Moves, Leads
  <2> QED
    BY <1>1, <1>2, <2>1, <2>3, WriteStep, Zenon
<1>3. CASE Throw(t, "writeFailed") /\ UNCHANGED <<file, bufferVars>>
  <2>1. UNCHANGED rowState
    BY <1>1, <1>3, Zenon DEF rowState, bufferVars
  <2> QED
    BY <1>1, <1>3, <2>1, ThrowRows, Zenon
<1> QED
  BY <1>2, <1>3, Zenon DEF CloseWrite

(* The active buffer is handed to the pool. *)
LEMMA AsyncSubmitRows ==
    ASSUME NEW t \in Tasks, Inv, RowsInv, conf' = conf, AsyncSubmit(t)
    PROVE  RowsInv'
<1> DEFINE w == target[t]
           b == ActiveBuffer(w)
<1>1. /\ pc[t] = "asyncWait" /\ pc' = [pc EXCEPT ![t] = "page"]
      /\ active' = [active EXCEPT ![w] = @ + 1] /\ job' = [job EXCEPT ![b] = "queued"]
      /\ UNCHANGED <<insertRecords, file, rows, checksum, target, currentWriters>>
  BY Zenon DEF AsyncSubmit, Goto, recordVars, bufferVars
<1>2. w \in Writers /\ OwnerOf[w] = t /\ isAsync /\ w \in currentWriters
  BY <1>1, InvParts DEF TaskInv, ListInv, Inserting
<1>3. b \in Buffers /\ b[1] = w
  BY <1>2, ActiveFacts, InvParts, Zenon
<1> HIDE DEF w, b
<1>4. OnceInv' /\ \A v \in Writers : Held(v)' = Held(v)
  BY <1>1, Zenon DEF RowsInv, OnceInv, Held, BuffersOf
<1>5. Moves(t, "page")
  BY <1>1, LeadsFacts, InsertingFacts, Zenon DEF Moves, Leads
<1>6. StoredInv'
  BY <1>1, <1>4, <1>5, StoredMove, Zenon DEF RowsInv
<1>7. ClosedInv'
  <2>1. \A u \in Tasks : pc'[u] = IF u = t THEN "page" ELSE pc[u]
    BY <1>1, PcMove, Zenon
  <2>2. \A v \in Writers : OwnerOf[v] \in Tasks /\ OwnerOf'[v] = OwnerOf[v]
    BY ConfSame, ConfFacts, InvParts, Zenon
  <2>3. \A v \in Writers : Settled(v)' => Settled(v) /\ v # w
    BY <1>1, <1>2, <2>1, <2>2 DEF Settled, Settling
  <2>4. \A v \in Writers : v # w => ActiveBuffer(v)' = ActiveBuffer(v)
    BY <1>1, <1>2, InvParts, Zenon DEF ActiveBuffer, BufferTypes
  <2>5. \A c \in Buffers : c[1] # w => job'[c] = job[c]
    BY <1>1, <1>3, InvParts, Zenon DEF BufferTypes
  <2>6. ASSUME NEW v \in Writers, Settled(v)', NEW c \in Buffers, c[1] = v
        PROVE  job'[c] \notin {"queued", "writing"}
    BY <2>3, <2>5, <2>6, Zenon DEF RowsInv, ClosedInv
  <2>7. ASSUME NEW v \in Writers, v \notin currentWriters' PROVE rows'[ActiveBuffer(v)'] = <<>>
    BY <1>1, <1>2, <2>4, <2>7, Zenon DEF RowsInv, ClosedInv
  <2> QED
    BY <2>6, <2>7, Zenon DEF ClosedInv
<1>8. SyncInv'
  BY <1>1, <1>2, ConfSame, Zenon DEF RowsInv, SyncInv
<1> QED
  BY <1>4, <1>6, <1>7, <1>8, Zenon DEF RowsInv

(* A spill task of the pool makes progress: its writer is not settled. *)
LEMMA JobRows ==
    ASSUME Inv, RowsInv, conf' = conf, UNCHANGED <<pc, target, currentWriters, insertRecords, active>>,
           NEW b \in Buffers, job[b] \in {"queued", "writing"}, NEW x, job' = [job EXCEPT ![b] = x],
           \A c \in Buffers : rows[c] = <<>> => rows'[c] = <<>>, DOMAIN checksum' = Buffers,
           OnceInv', \A w \in Writers : Held(w)' = Held(w)
    PROVE  RowsInv'
<1>1. b[1] \in Writers /\ ~Settled(b[1]) /\ active[b[1]] # 0
  <2>1. b[1] \in Writers /\ b[2] \in Nat
    BY BufferFacts
  <2>2. ~(b[2] >= active[b[1]]) /\ active[b[1]] \in Nat
    BY <2>1, InvParts DEF BufferOrder, BufferTypes
  <2>3. ~Settled(b[1])
    BY <2>1, Zenon DEF RowsInv, ClosedInv
  <2> QED
    BY <2>1, <2>2, <2>3
<1>2. \A w \in Writers : /\ Pending(w)' <=> Pending(w)
                         /\ Unstored(w)' <=> Unstored(w)
                         /\ Settled(w)' <=> Settled(w)
                         /\ ActiveBuffer(w)' = ActiveBuffer(w) /\ ActiveBuffer(w) \in Buffers
  BY ConfSame, ActiveFacts, InvParts, Zenon DEF Pending, Unstored, Settled, ActiveBuffer
<1>3. StoredInv'
  BY <1>2, Zenon DEF RowsInv, StoredInv
<1>4. ClosedInv'
  <2>1. \A c \in Buffers : c # b => job'[c] = job[c]
    BY InvParts, Zenon DEF BufferTypes
  <2>2. ASSUME NEW w \in Writers, Settled(w)', NEW c \in Buffers, c[1] = w
        PROVE  job'[c] \notin {"queued", "writing"}
    BY <1>1, <1>2, <2>1, <2>2, Zenon DEF RowsInv, ClosedInv
  <2>3. ASSUME NEW w \in Writers, w \notin currentWriters' PROVE rows'[ActiveBuffer(w)'] = <<>>
    BY <1>2, <2>3, Zenon DEF RowsInv, ClosedInv
  <2> QED
    BY <2>2, <2>3, Zenon DEF ClosedInv
<1>5. SyncInv'
  BY <1>1, ConfSame, Zenon DEF RowsInv, SyncInv
<1> QED
  BY <1>3, <1>4, <1>5, Zenon DEF RowsInv

LEMMA JobBeginRows ==
    ASSUME Inv, RowsInv, conf' = conf, NEW b \in Buffers, JobBegin(b)
    PROVE  RowsInv'
<1>1. /\ job[b] \in {"queued", "writing"} /\ job' = [job EXCEPT ![b] = "writing"]
      /\ UNCHANGED <<pc, target, currentWriters, insertRecords, active, file, rows, checksum>>
  BY Zenon DEF JobBegin, writerVars, threadVars
<1>2. OnceInv' /\ \A w \in Writers : Held(w)' = Held(w)
  BY <1>1, Zenon DEF RowsInv, OnceInv, Held, BuffersOf
<1>3. DOMAIN checksum' = Buffers
  BY <1>1, Zenon DEF RowsInv, SyncInv
<1> QED
  BY <1>1, <1>2, <1>3, JobRows, Zenon

LEMMA JobEndRows ==
    ASSUME Inv, RowsInv, conf' = conf, NEW b \in Buffers, JobEnd(b)
    PROVE  RowsInv'
<1>1. /\ job[b] \in {"queued", "writing"} /\ \E x : job' = [job EXCEPT ![b] = x]
      /\ UNCHANGED <<pc, target, currentWriters, insertRecords, active>>
  BY Zenon DEF JobEnd, threadVars
<1>2. CASE EndWrite(b)
  <2>1. /\ file' = [file EXCEPT ![b[1]] = @ \o rows[b]] /\ rows' = [rows EXCEPT ![b] = <<>>]
        /\ checksum' = [checksum EXCEPT ![b] = IF @ = NO_CHECKSUM THEN <<>> ELSE @ \o rows[b]]
    BY <1>2, Zenon DEF EndWrite
  <2>2. OnceInv' /\ \A w \in Writers : Held(w)' = Held(w)
    BY <2>1, WrittenRows, Zenon DEF RowsInv
  <2>3. DOMAIN checksum' = Buffers /\ \A c \in Buffers : rows[c] = <<>> => rows'[c] = <<>>
    BY <2>1, InvParts, Zenon DEF RowsInv, SyncInv, BufferTypes
  <2> QED
    BY <1>1, <2>2, <2>3, JobRows, Zenon
<1>3. CASE UNCHANGED <<file, bufferVars>>
  <2>1. UNCHANGED <<file, rows, checksum>>
    BY <1>3, Zenon DEF bufferVars
  <2>2. OnceInv' /\ \A w \in Writers : Held(w)' = Held(w)
    BY <2>1, Zenon DEF RowsInv, OnceInv, Held, BuffersOf
  <2>3. DOMAIN checksum' = Buffers
    BY <2>1, Zenon DEF RowsInv, SyncInv
  <2> QED
    BY <1>1, <2>1, <2>2, <2>3, JobRows, Zenon
<1> QED
  BY <1>2, <1>3, Zenon DEF JobEnd

(* The row is stored and is pending no more. *)
LEMMA StoreRowRows ==
    ASSUME NEW t \in Tasks, Inv, RowsInv, conf' = conf, pc[t] \in Inserting,
           NEW n, StoreRow(t, ActiveBuffer(target[t]), n)
    PROVE  RowsInv'
<1>0. PICK w \in Writers : w = target[t]
  BY InvParts, Zenon DEF TaskInv
<1> DEFINE b == ActiveBuffer(w)
           e == insertRecords[w]
<1>1. w \in Writers /\ OwnerOf[w] = t /\ w \in currentWriters /\ Pending(w)
  BY <1>0, InvParts DEF TaskInv, ListInv, Pending
<1>2. b \in Buffers /\ b[1] = w
  BY <1>1, ActiveFacts, InvParts, Zenon
<1>3. UNCHANGED <<insertRecords, file, checksum, active, job, currentWriters, target>>
  BY Zenon DEF StoreRow, Goto, Throw, writerVars, recordVars
<1>4. CASE UNCHANGED rows /\ Throw(t, "nullRows")
  BY <1>3, <1>4, ThrowRows, Zenon DEF rowState
<1>5. CASE rows' = [rows EXCEPT ![b] = Append(@, insertRecords[b[1]])] /\ Goto(t, "insert")
  <2>1. pc' = [pc EXCEPT ![t] = "insert"] /\ rows' = [rows EXCEPT ![b] = Append(@, e)]
    BY <1>2, <1>5, Zenon DEF Goto
  <2>2. e \in 1 .. MaxRows /\ e \notin Held(w)
    <3>1. rows[b] \in Seq(1 .. MaxRows) /\ active[w] \in 0 .. MaxRows /\ e \in 0 .. MaxRows
      BY <1>1, <1>2, InvParts, Zenon DEF BufferTypes
    <3>2. active[w] + Len(rows[b]) < e
      BY <1>1, InvParts, Zenon DEF BufferCount
    <3>3. e \notin Held(w)
      BY <1>1, Zenon DEF RowsInv, StoredInv
    <3> HIDE DEF b, e
    <3> QED
      BY <3>1, <3>2, <3>3, RowFits
  <2> HIDE DEF b, e
  <2>3. /\ OnceInv'
        /\ \A v \in Writers : Held(v)' = IF v = w THEN Held(v) \cup {e} ELSE Held(v)
    BY <1>2, <1>3, <2>1, <2>2, AddedRow, Zenon DEF RowsInv
  <2>4. \A u \in Tasks : pc'[u] = IF u = t THEN "insert" ELSE pc[u]
    BY <2>1, PcMove, Zenon
  <2>5. \A v \in Writers : OwnerOf[v] \in Tasks /\ OwnerOf'[v] = OwnerOf[v]
    BY ConfSame, ConfFacts, InvParts, Zenon
  <2>6. "insert" \notin Inserting \cup Settling \cup {"failed", "stopped"}
    BY DEF Inserting, Settling
  <2>7. ~Pending(w)'
    BY <1>1, <2>4, <2>5, <2>6, Zenon DEF Pending
  <2>8. ASSUME NEW v \in Writers, v # w
        PROVE  (Pending(v)' => Pending(v)) /\ (Unstored(v) => Unstored(v)')
    <3>1. OwnerOf[v] = t => ~Unstored(v)
      <4>1. OwnerOf[v] = t => ~Pending(v)
        BY <1>0, <2>8, Zenon DEF Pending
      <4>2. pc[t] \notin {"failed", "stopped"}
        BY DEF Inserting
      <4> QED
        BY <4>1, <4>2, Zenon DEF Unstored
    <3>2. OwnerOf[v] # t => pc'[OwnerOf'[v]] = pc[OwnerOf[v]] /\ target'[OwnerOf'[v]] = target[OwnerOf[v]]
      BY <1>3, <2>4, <2>5, Zenon
    <3>3. OwnerOf[v] = t => ~Pending(v)'
      BY <2>4, <2>5, <2>6, Zenon DEF Pending
    <3> QED
      BY <1>3, <3>1, <3>2, <3>3, Zenon DEF Pending, Unstored
  <2>9. StoredInv'
    <3>1. ASSUME NEW v \in Writers
          PROVE  /\ \A x \in Held(v)' : x \in 1 .. insertRecords'[v] /\ (Pending(v)' => x # insertRecords'[v])
                 /\ \A x \in 1 .. insertRecords'[v] : x \in Held(v)' \/ (x = insertRecords'[v] /\ Unstored(v)')
      <4>1. CASE v = w
        <5>1. Held(w)' = Held(w) \cup {e} /\ insertRecords'[w] = e
          BY <1>1, <1>3, <2>3, Zenon DEF e
        <5>2. e \in 1 .. e
          BY <2>2
        <5>3. /\ \A x \in Held(w) : x \in 1 .. e
              /\ \A x \in 1 .. e : x \in Held(w) \/ x = e
          BY <1>1, Zenon DEF RowsInv, StoredInv, e
        <5> QED
          BY <2>7, <4>1, <5>1, <5>2, <5>3, Zenon
      <4>2. CASE v # w
        <5>1. Held(v)' = Held(v) /\ insertRecords'[v] = insertRecords[v]
          BY <1>3, <2>3, <4>2, Zenon
        <5> QED
          BY <2>8, <4>2, <5>1, Zenon DEF RowsInv, StoredInv
      <4> QED
        BY <4>1, <4>2, Zenon
    <3> QED
      BY <3>1, Zenon DEF StoredInv
  <2>10. ClosedInv'
    <3>1. \A v \in Writers : Settled(v)' => Settled(v)
      BY <1>3, <2>4, <2>5, <2>6, Zenon DEF Settled
    <3>2. \A v \in Writers : v # w => ActiveBuffer(v)' = ActiveBuffer(v) /\ rows'[ActiveBuffer(v)] = rows[ActiveBuffer(v)]
      BY <1>2, <1>3, <2>1, ActiveFacts, InvParts, Zenon DEF ActiveBuffer, BufferTypes
    <3>3. ASSUME NEW v \in Writers, Settled(v)', NEW c \in Buffers, c[1] = v
          PROVE  job'[c] \notin {"queued", "writing"}
      BY <1>3, <3>1, <3>3, Zenon DEF RowsInv, ClosedInv
    <3>4. ASSUME NEW v \in Writers, v \notin currentWriters' PROVE rows'[ActiveBuffer(v)'] = <<>>
      BY <1>1, <1>3, <3>2, <3>4, Zenon DEF RowsInv, ClosedInv
    <3> QED
      BY <3>3, <3>4, Zenon DEF ClosedInv
  <2>11. SyncInv'
    BY <1>3, ConfSame, Zenon DEF RowsInv, SyncInv, ActiveBuffer
  <2> QED
    BY <2>3, <2>9, <2>10, <2>11, Zenon DEF RowsInv
<1> QED
  BY <1>0, <1>4, <1>5, Zenon DEF StoreRow

LEMMA PageRows ==
    ASSUME NEW t \in Tasks, Inv, RowsInv, conf' = conf, AcquirePage(t) \/ InitialPage(t)
    PROVE  RowsInv'
<1>1. pc[t] \in Inserting
  BY InsertingFacts, Zenon DEF AcquirePage, InitialPage
<1>2. CASE \E n : StoreRow(t, ActiveBuffer(target[t]), n)
  BY <1>1, <1>2, StoreRowRows, Zenon
<1>3. CASE Goto(t, "spillLock") /\ UNCHANGED <<writerVars, recordVars, bufferVars, job, currentWriters>>
  BY <1>1, <1>3, InsertingFacts, InsertingRows, Zenon
     DEF Goto, rowState, writerVars, recordVars, bufferVars
<1>4. CASE Throw(t, "outOfMemory") /\ UNCHANGED <<writerVars, recordVars, bufferVars, job, currentWriters>>
  BY <1>1, <1>4, ThrowRows, Zenon DEF rowState, writerVars, recordVars, bufferVars
<1> QED
  BY <1>2, <1>3, <1>4, Zenon DEF AcquirePage, InitialPage

LEMMA InitRows == Init => RowsInv
<1> SUFFICES ASSUME Init PROVE RowsInv
  OBVIOUS
<1>1. Inv
  BY InitInv, Zenon
<1>2. /\ \A w \in Writers : file[w] = <<>> /\ insertRecords[w] = 0 /\ active[w] = 0
      /\ \A b \in Buffers : rows[b] = <<>> /\ job[b] = "none"
      /\ file \in [Writers -> Seq(Nat)] /\ currentWriters = Writers
      /\ \A t \in Tasks : pc[t] = "insert"
  BY DEF Init
<1>3. Range(<<>>) = {} /\ NoRepeat(<<>>)
  BY DEF Range, NoRepeat
<1>4. OnceInv
  BY <1>2, <1>3, BufferFacts, Zenon DEF OnceInv
<1>5. StoredInv
  <2>1. \A w \in Writers : Held(w) = {}
    BY <1>2, <1>3 DEF Held, BuffersOf
  <2>2. \A w \in Writers : 1 .. insertRecords[w] = {}
    BY <1>2
  <2> QED
    BY <2>1, <2>2, Zenon DEF StoredInv
<1>6. ClosedInv
  <2>1. \A w \in Writers : ~Settled(w)
    BY <1>1, <1>2, ConfFacts, InvParts DEF Settled, Settling
  <2> QED
    BY <1>2, <2>1, Zenon DEF ClosedInv
<1>7. SyncInv
  <2>1. checksum = [b \in Buffers |-> IF b[2] = 0 THEN <<>> ELSE NO_CHECKSUM]
    BY Zenon DEF Init
  <2>2. DOMAIN checksum = Buffers /\ \A b \in Buffers : b[2] = 0 => checksum[b] = <<>>
    BY <2>1, Zenon
  <2>3. \A w \in Writers : ActiveBuffer(w) \in Buffers /\ ActiveBuffer(w)[2] = 0
    BY <1>1, <1>2, ActiveFacts, InvParts, Zenon
  <2> QED
    BY <1>2, <2>2, <2>3, Zenon DEF SyncInv
<1> QED
  BY <1>4, <1>5, <1>6, <1>7, Zenon DEF RowsInv

LEMMA StutterRows ==
    ASSUME RowsInv, UNCHANGED vars
    PROVE  RowsInv'
<1>1. UNCHANGED <<conf, insertRecords, file, rows, checksum, active, job, currentWriters, pc, target>>
  BY Zenon DEF vars, writerVars, recordVars, bufferVars, threadVars
<1>2. OnceInv' /\ \A w : Held(w)' = Held(w)
  BY <1>1, Zenon DEF RowsInv, OnceInv, Held, BuffersOf
<1>3. \A w : /\ Pending(w)' <=> Pending(w)
             /\ Unstored(w)' <=> Unstored(w)
             /\ Settled(w)' <=> Settled(w)
             /\ ActiveBuffer(w)' = ActiveBuffer(w)
  BY <1>1, ConfSame, Zenon DEF Pending, Unstored, Settled, ActiveBuffer
<1>4. StoredInv' /\ ClosedInv'
  BY <1>1, <1>2, <1>3, Zenon DEF RowsInv, StoredInv, ClosedInv
<1>5. SyncInv'
  BY <1>1, <1>3, ConfSame, Zenon DEF RowsInv, SyncInv
<1> QED
  BY <1>2, <1>4, <1>5, Zenon DEF RowsInv

LEMMA NextRows == Inv /\ RowsInv /\ [Next]_vars => RowsInv'
<1> SUFFICES ASSUME Inv, RowsInv, [Next]_vars PROVE RowsInv'
  OBVIOUS
<1>1. ASSUME NEW t \in Tasks, TaskStep(t) PROVE RowsInv'
  BY <1>1, BeginInsertRows, CloseNextRows, InsertLockRows, SpillRows, AsyncSubmitRows, PageRows,
     SpillFileRows, SpillWriteRows, EndRows, CloseGetRows, CloseRows, CloseWriteRows, CloseListRows,
     Zenon DEF TaskStep
<1>2. ASSUME NEW b \in Buffers, JobStep(b) PROVE RowsInv'
  BY <1>2, JobBeginRows, JobEndRows, Zenon DEF JobStep
<1>3. CASE UNCHANGED vars
  BY <1>3, StutterRows, Zenon
<1> QED
  BY <1>1, <1>2, <1>3, Zenon DEF Next, Terminated

-----------------------------------------------------------------------------
(* Where the copies of a row are *)

FileCopies(w, r) == {i \in DOMAIN file[w] : file[w][i] = r}
BufferCopies(w, r) ==
    {x \in BuffersOf(w) \X (1 .. MaxRows) :
        x[2] \in DOMAIN rows[x[1]] /\ rows[x[1]][x[2]] = r}

(* A row has at most one copy, and one as soon as the next row is counted. *)
LEMMA RowCopies ==
    ASSUME Inv, RowsInv, NEW w \in Writers, NEW r \in 1 .. insertRecords[w]
    PROVE  /\ \A i, j \in FileCopies(w, r) : i = j
           /\ \A x, y \in BufferCopies(w, r) : x = y
           /\ FileCopies(w, r) = {} \/ BufferCopies(w, r) = {}
           /\ r < insertRecords[w] => FileCopies(w, r) # {} \/ BufferCopies(w, r) # {}
<1> DEFINE A == FileCopies(w, r)
           B == BufferCopies(w, r)
<1>1. \A i, j \in A : i = j
  BY Zenon DEF RowsInv, OnceInv, NoRepeat, FileCopies
<1>2. ASSUME NEW x \in B
      PROVE  /\ x[1] \in Buffers /\ x[1][1] = w /\ r \in Range(rows[x[1]])
             /\ x[2] \in DOMAIN rows[x[1]] /\ rows[x[1]][x[2]] = r /\ x = <<x[1], x[2]>>
  BY DEF BufferCopies, BuffersOf, Range
<1>3. ASSUME NEW x \in B, NEW y \in B PROVE x = y
  <2>1. x[1] = y[1]
    BY <1>2, Zenon DEF RowsInv, OnceInv
  <2>2. /\ x[1] \in Buffers /\ x[2] \in DOMAIN rows[x[1]] /\ y[2] \in DOMAIN rows[x[1]]
        /\ rows[x[1]][x[2]] = rows[x[1]][y[2]]
    BY <1>2, <2>1, Zenon
  <2>3. x[2] = y[2]
    BY <2>2, Zenon DEF RowsInv, OnceInv, NoRepeat
  <2> QED
    BY <1>2, <2>1, <2>3, Zenon
<1>4. ASSUME NEW i \in A, NEW x \in B PROVE FALSE
  <2>1. r \in Range(file[w])
    BY Zenon DEF Range, FileCopies
  <2> QED
    BY <1>2, <2>1, Zenon DEF RowsInv, OnceInv
<1>5. ASSUME r < insertRecords[w] PROVE A # {} \/ B # {}
  <2>1. r \in Held(w)
    <3>1. r # insertRecords[w]
      BY <1>5, InvParts DEF BufferTypes
    <3> QED
      BY <3>1, Zenon DEF RowsInv, StoredInv
  <2>2. CASE r \in Range(file[w])
    BY <2>2, Zenon DEF Range, FileCopies
  <2>3. CASE \E c \in Buffers : c[1] = w /\ r \in Range(rows[c])
    <3>1. PICK c \in Buffers : c[1] = w /\ r \in Range(rows[c])
      BY <2>3, Zenon
    <3>2. PICK i \in DOMAIN rows[c] : rows[c][i] = r
      BY <3>1, Zenon DEF Range
    <3>3. rows[c] \in Seq(1 .. MaxRows) /\ Len(rows[c]) <= MaxRows
      BY InvParts, Zenon DEF BufferTypes, BufferOrder
    <3>4. i \in 1 .. MaxRows
      BY <3>2, <3>3, ConfigAssumption
    <3>5. <<c, i>> \in B
      BY <3>1, <3>2, <3>4 DEF BuffersOf, BufferCopies
    <3> QED
      BY <3>5, Zenon
  <2> QED
    BY <2>1, <2>2, <2>3, HeldRows, Zenon
<1> HIDE DEF A, B
<1> QED
  BY <1>1, <1>3, <1>4, <1>5, Zenon DEF A, B

(* A sequence that enumerates 1 .. n *)
LEMMA Enumeration ==
    ASSUME NEW s \in Seq(Nat), NoRepeat(s), NEW n \in Nat, Range(s) = 1 .. n
    PROVE  /\ Len(s) \in Nat
           /\ s \in Surjection(1 .. Len(s), 1 .. n) /\ s \in Injection(1 .. Len(s), 1 .. n)
<1>1. Len(s) \in Nat /\ DOMAIN s = 1 .. Len(s) /\ s \in [1 .. Len(s) -> Range(s)]
  BY DEF Range
<1>2. s \in Surjection(1 .. Len(s), 1 .. n)
  BY <1>1 DEF Surjection, Range
<1>3. s \in Injection(1 .. Len(s), 1 .. n)
  BY <1>1 DEF Injection, IsInjective, NoRepeat
<1> QED
  BY <1>1, <1>2, <1>3, Zenon

LEMMA OneCopy ==
    ASSUME NEW a \in {0, 1}, NEW b \in {0, 1}, a = 0 \/ b = 0
    PROVE  a + b <= 1 /\ (a = 1 \/ b = 1 => a + b = 1)
OBVIOUS

(* The buffers of a closed writer are empty, unless a spill task failed.   *)
LEMMA ClosedRows ==
    ASSUME Inv, RowsInv, NEW w \in Writers, w \notin currentWriters,
           \A c \in BuffersOf(w) : job[c] # "failed"
    PROVE  Range(file[w]) = 1 .. insertRecords[w]
<1>1. ASSUME NEW c \in Buffers, c[1] = w PROVE rows[c] = <<>>
  <2>0. c[2] \in Nat /\ active[w] \in Nat /\ c \in BuffersOf(w)
    BY <1>1, BufferFacts, InvParts DEF BufferTypes, BuffersOf
  <2>1. CASE c[2] > active[w]
    BY <1>1, <2>1, InvParts, Zenon DEF BufferOrder
  <2>2. CASE c[2] = active[w]
    <3>0. ActiveBuffer(w) \in Buffers /\ ActiveBuffer(w)[1] = w /\ ActiveBuffer(w)[2] = active[w]
      BY ActiveFacts, InvParts, Zenon
    <3>1. c = ActiveBuffer(w)
      BY <1>1, <2>2, <3>0, BufferFacts
    <3> QED
      BY <3>1, Zenon DEF RowsInv, ClosedInv
  <2>3. CASE ~(c[2] >= active[w])
    <3>1. job[c] \in Jobs /\ job[c] # "none"
      BY <1>1, <2>3, InvParts, Zenon DEF BufferOrder, BufferTypes
    <3>2. job[c] \notin {"queued", "writing"}
      BY <1>1, Zenon DEF RowsInv, ClosedInv, Settled
    <3>3. job[c] = "done"
      BY <2>0, <3>1, <3>2, Zenon DEF Jobs
    <3> QED
      BY <3>3, InvParts, Zenon DEF BufferOrder
  <2> QED
    BY <2>0, <2>1, <2>2, <2>3
<1>2. Range(<<>>) = {}
  BY DEF Range
<1>3. \A x : x \in Held(w) <=> x \in Range(file[w])
  <2>1. \A x : x \in Held(w) <=> \/ x \in Range(file[w])
                                \/ \E c \in Buffers : c[1] = w /\ x \in Range(rows[c])
    BY HeldRows, Zenon
  <2>2. ASSUME NEW c \in Buffers, c[1] = w PROVE Range(rows[c]) = {}
    BY <1>1, <1>2, <2>2, Zenon
  <2> QED
    BY <2>1, <2>2, Zenon
<1>4. ~Unstored(w)
  <2>1. pc[OwnerOf[w]] \in Inserting => w \in currentWriters
    BY InvParts, Zenon DEF ListInv
  <2> QED
    BY <2>1, Zenon DEF Unstored, Pending
<1>5. \A x : x \in Range(file[w]) <=> x \in 1 .. insertRecords[w]
  BY <1>3, <1>4, Zenon DEF RowsInv, StoredInv
<1> QED
  BY <1>5, Zenon

=============================================================================
