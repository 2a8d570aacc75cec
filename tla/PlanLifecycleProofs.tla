------------------------- MODULE PlanLifecycleProofs -------------------------
(***************************************************************************)
(* Proofs about PlanLifecycle, for all sets of attempts and plans.         *)
(***************************************************************************)
EXTENDS PlanLifecycle, FiniteSetTheorems, TLAPS

(* A context exists exactly while its iterator is not closed, and only     *)
(* existing iterators have listeners or a fetched batch.                   *)
CtxInv ==
    /\ \A p \in Plans :
          /\ iter[p] = "ready" => ctx[p] = IF closed[p] THEN "freed" ELSE "live"
          /\ iter[p] # "ready" => ctx[p] = "none" /\ ~closed[p] /\ nextBatch[p] = 0
    /\ \A p \in listeners : iter[p] = "ready"
    /\ ~invalidCall

(* Only the batch that the next call would close first can be open. *)
BatchInv ==
    \A p \in Plans :
        /\ open[p] \subseteq {nextBatch[p], prevBatch[p]} \ {0}
        /\ nextBatch[p] # 0 => nextBatch[p] = produced[p] /\ prevBatch[p] = 0
        /\ prevBatch[p] # 0 => prevBatch[p] = produced[p]

(* While the attempt runs the fetched and the returned batch are open, and *)
(* the current batch is an older one than the fetched batch.               *)
OpenInv ==
    \A p \in Plans :
        /\ currentBatch[p] <= produced[p]
        /\ nextBatch[p] # 0 => currentBatch[p] < produced[p]
        /\ attempt[AttemptOf[p]] = "running" =>
              {nextBatch[p], prevBatch[p]} \ {0} \subseteq open[p]

(* The listener of a plan runs once, after the last call of the iterator.  *)
(* Until then the subqueries stay registered; it leaves them behind only   *)
(* with a context that releasePlan failed to drop.                         *)
ListenerInv ==
    \A p \in Listened :
        /\ p \in listeners => p \in subqueries /\ attempt[AttemptOf[p]] # "ended"
        /\ iter[p] # "ready" => p \notin subqueries
        /\ iter[p] = "ready" /\ p \notin listeners =>
              /\ attempt[AttemptOf[p]] # "running"
              /\ p \in subqueries <=> ~closed[p]
              /\ ~closed[p] => rootOp[p] /\ "release" \in Failures

(* The count is exact, and the pool of a live plan is the one in the map. *)
PoolInv ==
    /\ \A a \in Attempts :
          /\ numPlans[a] = Cardinality(Counted(a))
          /\ numPlans[a] > 0 => poolId[a] > 0
    /\ \A a, b \in Attempts : poolId[a] = poolId[b] /\ poolId[a] > 0 => a = b
    /\ \A p \in Plans :
          /\ ctx[p] = "live" => poolOf[p] = poolId[AttemptOf[p]]
          /\ iter[p] = "none" => poolOf[p] = 0

-----------------------------------------------------------------------------
(* What CloseSucceeds does to the context, the flag and the pools *)
LEMMA CloseTypes ==
    ASSUME TypeOK, NEW p \in Plans, CloseSucceeds(p)
    PROVE  /\ ctx' \in [Plans -> {"none", "live", "freed"}]
           /\ closed' \in [Plans -> BOOLEAN]
           /\ numPlans' \in [Attempts -> Nat]
           /\ UNCHANGED <<poolId, poolOf, poolsCreated>>
<1> USE DEF TypeOK, CloseSucceeds, ReleasePlan
<1>1. ctx' \in [Plans -> {"none", "live", "freed"}]
    OBVIOUS
<1>2. closed' \in [Plans -> BOOLEAN]
    OBVIOUS
<1>3. AttemptOf[p] \in Attempts
    BY Zenon, ConfigAssumption
<1>4. numPlans' \in [Attempts -> Nat]
    BY <1>3
<1> QED BY <1>1, <1>2, <1>4

(* The type invariant holds: every field keeps its type, and pool numbers  *)
(* never run ahead of the pools create_memory_pool has created.            *)
LEMMA TypeStep == TypeOK /\ [Next]_vars => TypeOK'
<1> SUFFICES ASSUME TypeOK, [Next]_vars PROVE TypeOK'
    OBVIOUS
<1> USE ConfigAssumption
<1>1. CASE UNCHANGED vars
    BY <1>1 DEF TypeOK, vars, iterVars, poolVars
<1>2. ASSUME NEW p \in Plans, Create(p) PROVE TypeOK'
    BY <1>2 DEF TypeOK, Create, CreateMemoryPool, iterVars
<1>3. ASSUME NEW p \in Plans, CreateFails(p) PROVE TypeOK'
  <2>1. CASE CreateMemoryPool(p)
    BY <1>3, <2>1 DEF TypeOK, CreateFails, CreateMemoryPool, Fail, iterVars
  <2>2. CASE UNCHANGED poolVars
    BY <1>3, <2>2 DEF TypeOK, CreateFails, Fail, iterVars, poolVars
  <2> QED BY <1>3, <2>1, <2>2 DEF CreateFails, poolVars
<1>4. ASSUME NEW p \in Plans, Take(p) PROVE TypeOK'
    BY <1>4 DEF TypeOK, Take, poolVars
<1>5. ASSUME NEW p \in Plans, RunListener(p) PROVE TypeOK'
  <2>1. CASE closed[p]
    BY <1>5, <2>1 DEF TypeOK, RunListener, iterVars, poolVars
  <2>2. CASE ~closed[p] /\ CloseSucceeds(p)
    <3>1. /\ ctx' \in [Plans -> {"none", "live", "freed"}]
          /\ closed' \in [Plans -> BOOLEAN]
          /\ numPlans' \in [Attempts -> Nat]
          /\ UNCHANGED <<poolId, poolOf, poolsCreated>>
        BY <2>2, CloseTypes
    <3>2. invalidCall' \in BOOLEAN
        BY Zenon, <1>5, <2>2 DEF TypeOK, RunListener
    <3>3. /\ listeners' \subseteq Listened
          /\ subqueries' \subseteq Listened
          /\ open' \in [Plans -> SUBSET Nat]
          /\ currentBatch' \in [Plans -> Nat]
          /\ UNCHANGED <<attempt, iter, rootOp, stream, nextBatch, prevBatch, produced>>
        BY <1>5, <2>2 DEF TypeOK, RunListener
    <3> QED BY <3>1, <3>2, <3>3 DEF TypeOK
  <2>3. CASE ~closed[p] /\ CloseThrows(p, rootOp[p])
    BY <1>5, <2>3 DEF TypeOK, RunListener, CloseThrows, poolVars, iterVars
  <2> QED BY <1>5, <2>1, <2>2, <2>3 DEF RunListener
<1>6. ASSUME NEW p \in Plans, NEW call \in {"hasNext", "next"}, FetchBatch(p, call)
      PROVE  TypeOK'
    BY <1>6 DEF TypeOK, FetchBatch, ExecutePlan, CanFetch, ClosedBefore, poolVars
<1>7. ASSUME NEW p \in Plans, NEW call \in {"hasNext", "next"}, FetchEof(p, call)
      PROVE  TypeOK'
  <2>1. CASE CloseSucceeds(p)
    <3>1. /\ ctx' \in [Plans -> {"none", "live", "freed"}]
          /\ closed' \in [Plans -> BOOLEAN]
          /\ numPlans' \in [Attempts -> Nat]
          /\ UNCHANGED <<poolId, poolOf, poolsCreated>>
        BY <2>1, CloseTypes
    <3>2. attempt' \in [Attempts -> {"running", "completing", "ended"}]
        BY Zenon, <1>7 DEF TypeOK, FetchEof, Fail
    <3> QED BY Zenon, <1>7, <3>1, <3>2 DEF TypeOK, FetchEof, ExecutePlan, CanFetch
  <2>2. CASE CloseThrows(p, TRUE)
    BY <1>7, <2>2 DEF TypeOK, FetchEof, ExecutePlan, CanFetch, CloseThrows, Fail, poolVars
  <2> QED BY Zenon, <1>7, <2>1, <2>2 DEF FetchEof
<1>8. ASSUME NEW p \in Plans, NEW call \in {"hasNext", "next"}, NEW kind \in Kinds,
             FetchError(p, call, kind)
      PROVE  TypeOK'
    BY <1>8 DEF TypeOK, FetchError, ExecutePlan, CanFetch, Fail, poolVars
<1>9. ASSUME NEW a \in Attempts, TaskReturns(a) \/ AttemptEnds(a) PROVE TypeOK'
    BY <1>9 DEF TypeOK, TaskReturns, AttemptEnds, iterVars, poolVars
<1> QED BY <1>1, <1>2, <1>3, <1>4, <1>5, <1>6, <1>7, <1>8, <1>9 DEF Next, Terminated

-----------------------------------------------------------------------------
LEMMA CtxStep == TypeOK /\ CtxInv /\ [Next]_vars => CtxInv'
<1> SUFFICES ASSUME TypeOK, CtxInv, [Next]_vars PROVE CtxInv'
    OBVIOUS
<1> USE DEF TypeOK, CtxInv
<1>1. CASE UNCHANGED vars
    BY <1>1 DEF vars, iterVars, poolVars
<1>2. ASSUME NEW p \in Plans, Create(p) PROVE CtxInv'
    BY <1>2 DEF Create, CreateMemoryPool, iterVars
<1>3. ASSUME NEW p \in Plans, CreateFails(p) PROVE CtxInv'
    BY <1>3 DEF CreateFails, iterVars
<1>4. ASSUME NEW p \in Plans, Take(p) PROVE CtxInv'
    BY <1>4 DEF Take, poolVars
<1>5. ASSUME NEW p \in Plans, RunListener(p) PROVE CtxInv'
  <2>1. CASE closed[p]
    BY <1>5, <2>1 DEF RunListener, iterVars, poolVars
  <2>2. CASE ~closed[p] /\ CloseSucceeds(p)
    BY <1>5, <2>2 DEF RunListener, CloseSucceeds, ReleasePlan
  <2>3. CASE ~closed[p] /\ CloseThrows(p, rootOp[p])
    BY <1>5, <2>3 DEF RunListener, CloseThrows, poolVars
  <2> QED BY Zenon, <1>5, <2>1, <2>2, <2>3 DEF RunListener
<1>6. ASSUME NEW p \in Plans, NEW call \in {"hasNext", "next"}, FetchBatch(p, call)
      PROVE  CtxInv'
    BY <1>6 DEF FetchBatch, CanFetch, poolVars
<1>7. ASSUME NEW p \in Plans, NEW call \in {"hasNext", "next"}, FetchEof(p, call)
      PROVE  CtxInv'
  <2>1. CASE CloseSucceeds(p)
    BY Zenon, <1>7, <2>1 DEF FetchEof, CanFetch, CloseSucceeds, ReleasePlan
  <2>2. CASE CloseThrows(p, TRUE)
    BY <1>7, <2>2 DEF FetchEof, CanFetch, CloseThrows, poolVars
  <2> QED BY Zenon, <1>7, <2>1, <2>2 DEF FetchEof
<1>8. ASSUME NEW p \in Plans, NEW call \in {"hasNext", "next"}, NEW kind \in Kinds,
             FetchError(p, call, kind)
      PROVE  CtxInv'
    BY <1>8 DEF FetchError, CanFetch, poolVars
<1>9. ASSUME NEW a \in Attempts, TaskReturns(a) \/ AttemptEnds(a) PROVE CtxInv'
    BY <1>9 DEF TaskReturns, AttemptEnds, iterVars, poolVars
<1> QED BY <1>1, <1>2, <1>3, <1>4, <1>5, <1>6, <1>7, <1>8, <1>9 DEF Next, Terminated

LEMMA BatchStep == TypeOK /\ CtxInv /\ BatchInv /\ [Next]_vars => BatchInv'
<1> SUFFICES ASSUME TypeOK, CtxInv, BatchInv, [Next]_vars PROVE BatchInv'
    OBVIOUS
<1> USE DEF TypeOK, BatchInv
<1>1. CASE UNCHANGED vars
    BY <1>1 DEF vars, iterVars
<1>2. ASSUME NEW p \in Plans, Create(p) \/ CreateFails(p) PROVE BatchInv'
    BY <1>2 DEF Create, CreateFails, iterVars
<1>3. ASSUME NEW p \in Plans, Take(p) PROVE BatchInv'
    BY <1>3 DEF Take
<1>4. ASSUME NEW p \in Plans, RunListener(p) PROVE BatchInv'
  <2>1. CASE closed[p]
    BY <1>4, <2>1 DEF RunListener, iterVars
  <2>2. CASE ~closed[p]
    BY <1>4, <2>2 DEF RunListener
  <2> QED BY <2>1, <2>2
<1>5. ASSUME NEW p \in Plans, NEW call \in {"hasNext", "next"}, FetchBatch(p, call)
      PROVE  BatchInv'
  <2>1. open[p] \ ClosedBefore(p, call) = {}
    BY Zenon, <1>5 DEF FetchBatch, CanFetch, ClosedBefore
  <2>2. open' = [open EXCEPT ![p] = {produced[p] + 1}]
    BY Zenon, <1>5, <2>1 DEF FetchBatch
  <2>3. produced[p] + 1 # 0
    BY ConfigAssumption
  <2> QED BY <1>5, <2>2, <2>3 DEF FetchBatch
<1>6. ASSUME NEW p \in Plans, NEW call \in {"hasNext", "next"}, FetchEof(p, call)
      PROVE  BatchInv'
    BY <1>6 DEF FetchEof, CanFetch
<1>7. ASSUME NEW p \in Plans, NEW call \in {"hasNext", "next"}, NEW kind \in Kinds,
             FetchError(p, call, kind)
      PROVE  BatchInv'
    BY <1>7 DEF FetchError, CanFetch, ClosedBefore
<1>8. ASSUME NEW a \in Attempts, TaskReturns(a) \/ AttemptEnds(a) PROVE BatchInv'
    BY <1>8 DEF TaskReturns, AttemptEnds, iterVars
<1> HIDE DEF TypeOK, BatchInv
<1> QED BY Zenon, <1>1, <1>2, <1>3, <1>4, <1>5, <1>6, <1>7, <1>8 DEF Next, Terminated

(* Only the call that replaces a batch closes it while the attempt runs. *)
LEMMA OpenStep == TypeOK /\ CtxInv /\ BatchInv /\ OpenInv /\ [Next]_vars => OpenInv'
<1> SUFFICES ASSUME TypeOK, CtxInv, BatchInv, OpenInv, [Next]_vars PROVE OpenInv'
    OBVIOUS
<1> USE ConfigAssumption DEF TypeOK, OpenInv
<1>1. CASE UNCHANGED vars
    BY <1>1 DEF vars, iterVars
<1>2. ASSUME NEW p \in Plans, Create(p) \/ CreateFails(p) PROVE OpenInv'
    BY <1>2 DEF Create, CreateFails, Fail, iterVars
<1>3. ASSUME NEW p \in Plans, Take(p) PROVE OpenInv'
    BY <1>3 DEF Take, BatchInv
<1>4. ASSUME NEW p \in Plans, RunListener(p) PROVE OpenInv'
  <2>1. CASE closed[p]
    BY Zenon, <1>4, <2>1 DEF RunListener, iterVars
  <2>2. CASE ~closed[p]
    BY <1>4, <2>2 DEF RunListener
  <2> QED BY Zenon, <2>1, <2>2
<1>5. ASSUME NEW p \in Plans, NEW call \in {"hasNext", "next"}, FetchBatch(p, call)
      PROVE  OpenInv'
    BY <1>5 DEF FetchBatch, CanFetch
<1>6. ASSUME NEW p \in Plans, NEW call \in {"hasNext", "next"}, FetchEof(p, call)
      PROVE  OpenInv'
  <2>1. /\ open' = [open EXCEPT ![p] = @ \ {prevBatch[p], currentBatch[p]}]
        /\ prevBatch' = [prevBatch EXCEPT ![p] = 0]
        /\ currentBatch' = [currentBatch EXCEPT ![p] = 0]
        /\ nextBatch[p] = 0
        /\ UNCHANGED <<nextBatch, produced>>
    BY Zenon, <1>6 DEF FetchEof, CanFetch
  <2>2. \A a \in Attempts : attempt'[a] = "running" => attempt[a] = "running"
    BY Zenon, <1>6 DEF FetchEof, Fail
  <2> QED BY <2>1, <2>2
<1>7. ASSUME NEW p \in Plans, NEW call \in {"hasNext", "next"}, NEW kind \in Kinds,
             FetchError(p, call, kind)
      PROVE  OpenInv'
    BY <1>7 DEF FetchError, CanFetch, Fail
<1>8. ASSUME NEW a \in Attempts, TaskReturns(a) \/ AttemptEnds(a) PROVE OpenInv'
    BY <1>8 DEF TaskReturns, AttemptEnds, iterVars
<1> HIDE DEF TypeOK, OpenInv
<1> QED BY Zenon, <1>1, <1>2, <1>3, <1>4, <1>5, <1>6, <1>7, <1>8 DEF Next, Terminated

(* No call of the iterator follows its listener. *)
LEMMA ListenerStep == TypeOK /\ CtxInv /\ ListenerInv /\ [Next]_vars => ListenerInv'
<1> SUFFICES ASSUME TypeOK, CtxInv, ListenerInv, [Next]_vars PROVE ListenerInv'
    OBVIOUS
<1> USE ConfigAssumption DEF TypeOK, ListenerInv
<1>1. CASE UNCHANGED vars
    BY Zenon, <1>1 DEF vars, iterVars
<1>2. ASSUME NEW p \in Plans, Create(p) PROVE ListenerInv'
    BY <1>2 DEF Create, CtxInv, iterVars
<1>3. ASSUME NEW p \in Plans, CreateFails(p) PROVE ListenerInv'
    BY <1>3 DEF CreateFails, Fail, iterVars, CtxInv
<1>4. ASSUME NEW p \in Plans, Take(p) PROVE ListenerInv'
    BY Zenon, <1>4 DEF Take
<1>5. ASSUME NEW p \in Plans, RunListener(p) PROVE ListenerInv'
  <2>1. CASE closed[p]
    BY <1>5, <2>1 DEF RunListener, iterVars, CtxInv
  <2>2. CASE ~closed[p] /\ CloseSucceeds(p)
    <3>1. /\ p \in listeners /\ iter[p] = "ready" /\ attempt[AttemptOf[p]] = "completing"
          /\ listeners' = listeners \ {p} /\ subqueries' = subqueries \ {p}
          /\ closed' = [closed EXCEPT ![p] = TRUE]
          /\ UNCHANGED <<attempt, iter, rootOp>>
        BY <1>5, <2>2 DEF RunListener, CloseSucceeds, CloseThrows, CtxInv
    <3> QED BY Zenon, <3>1
  <2>3. CASE ~closed[p] /\ CloseThrows(p, rootOp[p])
    <3>1. /\ p \in listeners /\ iter[p] = "ready" /\ attempt[AttemptOf[p]] = "completing"
          /\ listeners' = listeners \ {p} /\ rootOp[p] /\ "release" \in Failures
          /\ UNCHANGED <<attempt, iter, rootOp, closed, subqueries>>
        BY <1>5, <2>3 DEF RunListener, CloseThrows, CloseSucceeds, CtxInv
    <3> QED BY <2>3, <3>1
  <2> QED BY Zenon, <1>5, <2>1, <2>2, <2>3 DEF RunListener
<1>6. ASSUME NEW p \in Plans, NEW call \in {"hasNext", "next"}, FetchBatch(p, call)
      PROVE  ListenerInv'
    BY Zenon, <1>6 DEF FetchBatch, CanFetch, ExecutePlan
<1>7. ASSUME NEW p \in Plans, NEW call \in {"hasNext", "next"}, FetchEof(p, call)
      PROVE  ListenerInv'
  <2>1. CASE CloseSucceeds(p)
    <3>1. /\ iter[p] = "ready" /\ attempt[AttemptOf[p]] = "running"
          /\ closed' = [closed EXCEPT ![p] = TRUE]
          /\ rootOp' = [rootOp EXCEPT ![p] = TRUE]
          /\ UNCHANGED <<listeners, subqueries, iter>>
        BY Zenon, <1>7, <2>1 DEF FetchEof, CanFetch, ExecutePlan, CloseSucceeds
    <3>2. \A a \in Attempts : /\ attempt'[a] = "running" => attempt[a] = "running"
                              /\ attempt'[a] = "ended" => attempt[a] = "ended"
        BY Zenon, <1>7 DEF FetchEof, Fail
    <3> QED BY <3>1, <3>2
  <2>2. CASE CloseThrows(p, TRUE)
    BY <1>7, <2>2 DEF FetchEof, CanFetch, ExecutePlan, CloseThrows, Fail
  <2> QED BY Zenon, <1>7, <2>1, <2>2 DEF FetchEof
<1>8. ASSUME NEW p \in Plans, NEW call \in {"hasNext", "next"}, NEW kind \in Kinds,
             FetchError(p, call, kind)
      PROVE  ListenerInv'
    BY <1>8 DEF FetchError, CanFetch, ExecutePlan, Fail
<1>9. ASSUME NEW a \in Attempts, TaskReturns(a) \/ AttemptEnds(a) PROVE ListenerInv'
    BY <1>9 DEF TaskReturns, AttemptEnds, iterVars
<1> HIDE DEF TypeOK, ListenerInv
<1> QED BY Zenon, <1>1, <1>2, <1>3, <1>4, <1>5, <1>6, <1>7, <1>8, <1>9 DEF Next, Terminated

-----------------------------------------------------------------------------
LEMMA CountedFinite ==
    ASSUME NEW a \in Attempts
    PROVE  /\ IsFiniteSet(Counted(a))
           /\ Cardinality(Counted(a)) \in Nat
BY Zenon, ConfigAssumption, FS_Subset, FS_CardinalityType DEF Counted

LEMMA LiveIsCounted ==
    ASSUME TypeOK, PoolInv, NEW p \in Plans, ctx[p] = "live"
    PROVE  /\ AttemptOf[p] \in Attempts
           /\ numPlans[AttemptOf[p]] > 0
<1>1. AttemptOf[p] \in Attempts
    BY ConfigAssumption
<1>2. p \in Counted(AttemptOf[p])
    BY DEF Counted
<1>3. Cardinality(Counted(AttemptOf[p])) # 0
    BY <1>1, <1>2, CountedFinite, FS_EmptySet
<1> QED BY <1>1, <1>3, CountedFinite DEF PoolInv

(* A step that leaves contexts and pools alone keeps PoolInv. *)
LEMMA PoolUnchanged ==
    ASSUME PoolInv, UNCHANGED ctx, UNCHANGED iter, UNCHANGED poolVars
    PROVE  PoolInv'
BY DEF PoolInv, Counted, poolVars

(* create_memory_pool, in a createPlan that succeeds or fails later *)
LEMMA PoolCreate ==
    ASSUME TypeOK, CtxInv, PoolInv, NEW p \in Plans, iter[p] = "none", CreateMemoryPool(p),
           \/ ctx' = [ctx EXCEPT ![p] = "live"] /\ iter' = [iter EXCEPT ![p] = "ready"]
           \/ UNCHANGED ctx /\ iter' = [iter EXCEPT ![p] = "failed"]
    PROVE  PoolInv'
<1> DEFINE a0 == AttemptOf[p]
<1> USE DEF TypeOK
<1>0. a0 \in Attempts /\ ctx[p] = "none"
    BY Zenon, ConfigAssumption DEF CtxInv
<1>1. poolOf'[p] = poolId'[a0] /\ poolId'[a0] > 0
    BY <1>0 DEF PoolInv, CreateMemoryPool
<1>2. \A q \in Plans \ {p} : poolOf'[q] = poolOf[q]
    BY DEF CreateMemoryPool
<1>3. Counted(a0)' = Counted(a0) \cup {p} /\ p \notin Counted(a0)
    BY <1>0, <1>1, <1>2 DEF Counted
<1>4. Cardinality(Counted(a0)') = Cardinality(Counted(a0)) + 1
  <2>1. IsFiniteSet(Counted(a0))
    BY <1>0, CountedFinite
  <2>2. Cardinality(Counted(a0) \cup {p}) = Cardinality(Counted(a0)) + 1
    BY Zenon, <1>3, <2>1, FS_AddElement
  <2> QED BY Zenon, <1>3, <2>2
<1>5. \A a \in Attempts \ {a0} : Counted(a)' = Counted(a)
    BY <1>2 DEF Counted
<1>6. numPlans' = [numPlans EXCEPT ![a0] = @ + 1]
    BY Zenon DEF CreateMemoryPool
<1>7. ASSUME NEW a \in Attempts PROVE numPlans'[a] = Cardinality(Counted(a)')
  <2>1. CASE a = a0
    BY <1>4, <1>6, <2>1 DEF PoolInv
  <2>2. CASE a # a0
    BY <1>5, <1>6, <2>2 DEF PoolInv
  <2> QED BY Zenon, <2>1, <2>2
<1>8. ASSUME NEW a \in Attempts PROVE numPlans'[a] > 0 => poolId'[a] > 0
    BY <1>0 DEF PoolInv, CreateMemoryPool
<1>9. ASSUME NEW a \in Attempts, NEW b \in Attempts
      PROVE  poolId'[a] = poolId'[b] /\ poolId'[a] > 0 => a = b
    BY <1>0 DEF PoolInv, CreateMemoryPool
<1>10. ASSUME NEW q \in Plans, q # p, ctx'[q] = "live" PROVE poolOf'[q] = poolId'[AttemptOf[q]]
  <2>1. ctx[q] = "live"
    BY <1>10
  <2>2. AttemptOf[q] \in Attempts /\ numPlans[AttemptOf[q]] > 0
    BY Zenon, <2>1, LiveIsCounted
  <2>3. poolId'[AttemptOf[q]] = poolId[AttemptOf[q]]
    BY <1>0, <2>2 DEF CreateMemoryPool
  <2> QED BY Zenon, <1>2, <1>10, <2>1, <2>3 DEF PoolInv
<1>11. ASSUME NEW q \in Plans, iter'[q] = "none" PROVE poolOf'[q] = 0
    BY <1>2, <1>11 DEF PoolInv
<1> QED BY Zenon, <1>1, <1>7, <1>8, <1>9, <1>10, <1>11 DEF PoolInv

LEMMA CardinalityRemove ==
    ASSUME NEW S, NEW x \in S, IsFiniteSet(S)
    PROVE  Cardinality(S \ {x}) = Cardinality(S) - 1
BY FS_RemoveElement

(* releasePlan of a live context *)
LEMMA PoolRelease ==
    ASSUME TypeOK, PoolInv, NEW p \in Plans, ctx[p] = "live", iter[p] = "ready",
           ReleasePlan(p), UNCHANGED iter
    PROVE  PoolInv'
<1> DEFINE a0 == AttemptOf[p]
<1> USE DEF TypeOK
<1>0. a0 \in Attempts /\ numPlans[a0] > 0
    BY Zenon, LiveIsCounted
<1>1. Counted(a0)' = Counted(a0) \ {p} /\ p \in Counted(a0)
    BY Zenon DEF Counted, ReleasePlan
<1>2. Cardinality(Counted(a0)') = Cardinality(Counted(a0)) - 1
  <2>1. IsFiniteSet(Counted(a0))
    BY <1>0, CountedFinite
  <2>2. Cardinality(Counted(a0) \ {p}) = Cardinality(Counted(a0)) - 1
    BY <1>1, <2>1, CardinalityRemove
  <2> QED BY <1>1, <2>2
<1>3. \A a \in Attempts \ {a0} : Counted(a)' = Counted(a)
    BY Zenon DEF Counted, ReleasePlan
<1>4. numPlans' = [numPlans EXCEPT ![a0] = @ - 1]
    BY Zenon, <1>0 DEF ReleasePlan
<1>5. ASSUME NEW a \in Attempts
      PROVE  /\ numPlans'[a] = Cardinality(Counted(a)')
             /\ numPlans'[a] > 0 => poolId'[a] > 0
  <2>1. poolId' = poolId
    BY DEF ReleasePlan
  <2>2. CASE a = a0
    BY Zenon, <1>0, <1>2, <1>4, <2>1, <2>2 DEF PoolInv
  <2>3. CASE a # a0
    BY <1>3, <1>4, <2>1, <2>3 DEF PoolInv
  <2> QED BY Zenon, <2>2, <2>3
<1>6. \A a, b \in Attempts : poolId'[a] = poolId'[b] /\ poolId'[a] > 0 => a = b
    BY Zenon DEF PoolInv, ReleasePlan
<1>7. \A q \in Plans : /\ ctx'[q] = "live" => poolOf'[q] = poolId'[AttemptOf[q]]
                       /\ iter'[q] = "none" => poolOf'[q] = 0
    BY Zenon DEF PoolInv, ReleasePlan
<1> QED BY Zenon, <1>5, <1>6, <1>7 DEF PoolInv

LEMMA PoolStep == TypeOK /\ CtxInv /\ PoolInv /\ [Next]_vars => PoolInv'
<1> SUFFICES ASSUME TypeOK, CtxInv, PoolInv, [Next]_vars PROVE PoolInv'
    OBVIOUS
<1>1. CASE UNCHANGED vars
    BY Zenon, <1>1, PoolUnchanged DEF vars
<1>2. ASSUME NEW p \in Plans, Create(p) PROVE PoolInv'
    BY Zenon, <1>2, PoolCreate DEF Create
<1>3. ASSUME NEW p \in Plans, CreateFails(p) PROVE PoolInv'
  <2>1. CASE CreateMemoryPool(p)
    BY Zenon, <1>3, <2>1, PoolCreate DEF CreateFails
  <2>2. CASE UNCHANGED poolVars
    <3>1. \A a \in Attempts : Counted(a)' = Counted(a)
        BY <1>3, <2>2 DEF TypeOK, PoolInv, CreateFails, Counted, poolVars
    <3> QED BY <1>3, <2>2, <3>1 DEF TypeOK, PoolInv, CreateFails, poolVars
  <2> QED BY <1>3, <2>1, <2>2 DEF CreateFails
<1>4. ASSUME NEW p \in Plans, Take(p) PROVE PoolInv'
    BY Zenon, <1>4, PoolUnchanged DEF Take
<1>5. ASSUME NEW p \in Plans, RunListener(p) PROVE PoolInv'
  <2>1. CASE closed[p]
    BY Zenon, <1>5, <2>1, PoolUnchanged DEF RunListener
  <2>2. CASE ~closed[p] /\ CloseSucceeds(p)
    BY Zenon, <1>5, <2>2, PoolRelease DEF RunListener, CloseSucceeds, CtxInv
  <2>3. CASE ~closed[p] /\ CloseThrows(p, rootOp[p])
    BY Zenon, <1>5, <2>3, PoolUnchanged DEF RunListener, CloseThrows
  <2> QED BY Zenon, <1>5, <2>1, <2>2, <2>3 DEF RunListener
<1>6. ASSUME NEW p \in Plans, NEW call \in {"hasNext", "next"}, FetchBatch(p, call)
      PROVE  PoolInv'
    BY <1>6, PoolUnchanged DEF FetchBatch
<1>7. ASSUME NEW p \in Plans, NEW call \in {"hasNext", "next"}, FetchEof(p, call)
      PROVE  PoolInv'
  <2>1. CASE CloseSucceeds(p)
    BY Zenon, <1>7, <2>1, PoolRelease DEF FetchEof, CanFetch, CloseSucceeds, CtxInv
  <2>2. CASE CloseThrows(p, TRUE)
    BY Zenon, <1>7, <2>2, PoolUnchanged DEF FetchEof, CloseThrows
  <2> QED BY Zenon, <1>7, <2>1, <2>2 DEF FetchEof
<1>8. ASSUME NEW p \in Plans, NEW call \in {"hasNext", "next"}, NEW kind \in Kinds,
             FetchError(p, call, kind)
      PROVE  PoolInv'
    BY Zenon, <1>8, PoolUnchanged DEF FetchError
<1>9. ASSUME NEW a \in Attempts, TaskReturns(a) \/ AttemptEnds(a) PROVE PoolInv'
    BY Zenon, <1>9, PoolUnchanged DEF TaskReturns, AttemptEnds
<1> QED BY <1>1, <1>2, <1>3, <1>4, <1>5, <1>6, <1>7, <1>8, <1>9 DEF Next, Terminated

-----------------------------------------------------------------------------
(* The inductive invariant *)
PlanInv == TypeOK /\ CtxInv /\ BatchInv /\ OpenInv /\ ListenerInv /\ PoolInv

LEMMA InitPlanInv == Init => PlanInv
<1> SUFFICES ASSUME Init PROVE PlanInv
    OBVIOUS
<1> USE ConfigAssumption
<1>1. TypeOK
  <2>1. closed \in [Plans -> BOOLEAN] /\ rootOp \in [Plans -> BOOLEAN]
        /\ stream \in [Plans -> BOOLEAN] /\ invalidCall \in BOOLEAN
    BY Zenon DEF Init
  <2>2. produced \in [Plans -> 0 .. MaxBatches] /\ poolsCreated \in Nat
        /\ poolId \in [Attempts -> 0 .. poolsCreated]
        /\ poolOf \in [Plans -> 0 .. poolsCreated]
    BY DEF Init
  <2>3. /\ attempt \in [Attempts -> {"running", "completing", "ended"}]
        /\ listeners \subseteq Listened /\ subqueries \subseteq Listened
        /\ iter \in [Plans -> {"none", "failed", "ready"}]
        /\ nextBatch \in [Plans -> Nat] /\ prevBatch \in [Plans -> Nat]
        /\ currentBatch \in [Plans -> Nat] /\ open \in [Plans -> SUBSET Nat]
        /\ ctx \in [Plans -> {"none", "live", "freed"}]
        /\ numPlans \in [Attempts -> Nat]
    BY Zenon DEF Init
  <2> QED BY Zenon, <2>1, <2>2, <2>3 DEF TypeOK
<1>2. CtxInv /\ BatchInv
    BY Zenon DEF Init, CtxInv, BatchInv
<1>5. OpenInv /\ ListenerInv
    BY DEF Init, OpenInv, ListenerInv
<1>3. \A a \in Attempts : Counted(a) = {}
    BY DEF Init, Counted
<1>4. PoolInv
  <2>1. \A a \in Attempts : Cardinality(Counted(a)) = 0
    BY <1>3, FS_EmptySet
  <2>2. /\ \A a \in Attempts : numPlans[a] = 0 /\ poolId[a] = 0
        /\ \A p \in Plans : ctx[p] = "none" /\ poolOf[p] = 0
    BY DEF Init
  <2> QED BY <2>1, <2>2 DEF PoolInv
<1> QED BY <1>1, <1>2, <1>4, <1>5 DEF PlanInv

(* The invariant the safety theorems below rest on holds in every state    *)
(* that the plans of an executor reach.                                    *)
THEOREM PlanInvariant == Spec => []PlanInv
<1>1. PlanInv /\ [Next]_vars => PlanInv'
    BY TypeStep, CtxStep, BatchStep, OpenStep, ListenerStep, PoolStep DEF PlanInv
<1> QED BY InitPlanInv, <1>1, PTL DEF Spec

(* The fields keep their types, and no plan uses a pool that               *)
(* create_memory_pool has not created.                                     *)
THEOREM TypeCorrect == Spec => []TypeOK
<1>1. PlanInv => TypeOK
    BY DEF PlanInv
<1> QED BY PlanInvariant, <1>1, PTL

(* hasNext, next and close never pass a dropped ExecutionContext to        *)
(* executePlan or releasePlan, whatever native call fails.                 *)
THEOREM NoCallAfterReleaseHolds == Spec => []NoCallAfterRelease
<1>1. PlanInv => NoCallAfterRelease
    BY Zenon DEF PlanInv, CtxInv, NoCallAfterRelease
<1> QED BY PlanInvariant, <1>1, PTL

(* When executePlan has produced a batch, all earlier ones are closed. *)
THEOREM EarlierBatchesClosedHolds == Spec => []EarlierBatchesClosed
<1>1. PlanInv => EarlierBatchesClosed
    BY DEF PlanInv, BatchInv, EarlierBatchesClosed
<1> QED BY PlanInvariant, <1>1, PTL

(* The batch that next() returned is not closed under its consumer: only   *)
(* the next call of the iterator closes it while the attempt runs.         *)
THEOREM ReturnedBatchOpenHolds == Spec => []ReturnedBatchOpen
<1>1. PlanInv => ReturnedBatchOpen
    BY DEF PlanInv, OpenInv, ReturnedBatchOpen
<1> QED BY PlanInvariant, <1>1, PTL

(* An attempt that has ended leaves neither a native context nor subquery  *)
(* entries behind, except for executed plans whose releasePlan threw.      *)
THEOREM ReleasedAtEndHolds == Spec => []ReleasedAtEnd
<1>1. ASSUME PlanInv, NEW p \in Listened, attempt[AttemptOf[p]] = "ended"
      PROVE  /\ p \in subqueries <=> ctx[p] = "live"
             /\ ctx[p] = "live" => rootOp[p] /\ "release" \in Failures
  <2>1. p \in Plans /\ p \notin listeners
    BY Zenon, <1>1, ConfigAssumption DEF PlanInv, ListenerInv
  <2>2. CASE iter[p] = "ready"
    BY Zenon, <1>1, <2>1, <2>2 DEF PlanInv, CtxInv, ListenerInv
  <2>3. CASE iter[p] # "ready"
    BY Zenon, <1>1, <2>1, <2>3 DEF PlanInv, CtxInv, ListenerInv
  <2> QED BY Zenon, <2>2, <2>3
<1>2. PlanInv => ReleasedAtEnd
    BY Zenon, <1>1 DEF ReleasedAtEnd
<1> QED BY PlanInvariant, <1>2, PTL

(* Live plans share a pool exactly when they belong to the same attempt,   *)
(* even after failures that leave the count of plans too high.             *)
THEOREM OnePoolPerAttemptHolds == Spec => []OnePoolPerAttempt
<1>1. ASSUME PlanInv, NEW p \in Plans, ctx[p] = "live"
      PROVE  /\ AttemptOf[p] \in Attempts
             /\ poolOf[p] = poolId[AttemptOf[p]]
             /\ poolId[AttemptOf[p]] > 0
    BY Zenon, <1>1, LiveIsCounted DEF PlanInv, PoolInv
<1>2. PlanInv => OnePoolPerAttempt
    BY <1>1 DEF PlanInv, PoolInv, OnePoolPerAttempt
<1> QED BY PlanInvariant, <1>2, PTL

(* num_plans counts the live plans, and those whose createPlan failed      *)
(* after create_memory_pool; nothing else keeps a pool in the registry.    *)
THEOREM PoolCountExactHolds == Spec => []PoolCountExact
<1>1. PlanInv => PoolCountExact
    BY Zenon DEF PlanInv, PoolInv, PoolCountExact
<1> QED BY PlanInvariant, <1>1, PTL

=============================================================================
