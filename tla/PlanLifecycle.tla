---------------------------- MODULE PlanLifecycle ----------------------------
(***************************************************************************)
(* The life of native plans: a CometExecIterator creates a native          *)
(* ExecutionContext, pulls batches from it, and releases it at the end of  *)
(* its output or when the task attempt completes.  Plans of one attempt    *)
(* share a memory pool (pool types ..._task_shared), which is kept in the  *)
(* static map TASK_SHARED_MEMORY_POOLS with a count of its plans.          *)
(*                                                                         *)
(* The plans of an attempt run on its thread, each consuming the output of *)
(* others, so their calls interleave.  A batch is the number of its        *)
(* production; 0 stands for null or None.                                  *)
(***************************************************************************)
EXTENDS Integers, FiniteSets

CONSTANTS
    Attempts,    \* task attempts of one executor
    Plans,       \* CometExecIterators
    AttemptOf,   \* the attempt that creates each plan
    Listened,    \* plans closed by a task completion listener
    MaxBatches,  \* bound: batches one plan produces
    Failures     \* native failures that may happen

ASSUME ConfigAssumption ==
    /\ IsFiniteSet(Plans)
    /\ AttemptOf \in [Plans -> Attempts]
    /\ Listened \subseteq Plans
    /\ MaxBatches \in Nat
    /\ Failures \subseteq {"create", "createLate", "execute", "release"}

VARIABLES
    attempt,       \* phase of each attempt
    listeners,     \* plans whose completion listener has not run
    subqueries,    \* plans with entries in CometScalarSubquery.subqueryMap
    \* CometExecIterator
    iter,          \* whether the object exists
    closed, nextBatch, prevBatch, currentBatch,
    open,          \* batches whose Arrow memory has not been released
    produced,      \* number of batches produced
    \* ExecutionContext
    ctx, rootOp, stream,
    invalidCall,   \* a native call was made with the address of a dropped context
    \* TASK_SHARED_MEMORY_POOLS
    numPlans,      \* num_plans of the attempt's entry, 0 when it has none
    poolId,        \* the pool in the attempt's entry
    poolOf,        \* the pool each plan was created with
    poolsCreated

iterVars == <<closed, nextBatch, prevBatch, currentBatch, open, produced>>
batchVars == <<nextBatch, prevBatch, currentBatch, open, produced>>
poolVars == <<numPlans, poolId, poolOf, poolsCreated>>
vars == <<attempt, listeners, subqueries, iter, iterVars, ctx, rootOp, stream,
          invalidCall, poolVars>>

Init ==
    /\ attempt = [a \in Attempts |-> "running"]
    /\ listeners = {}
    /\ subqueries = {}
    /\ iter = [p \in Plans |-> "none"]
    /\ closed = [p \in Plans |-> FALSE]
    /\ nextBatch = [p \in Plans |-> 0]
    /\ prevBatch = [p \in Plans |-> 0]
    /\ currentBatch = [p \in Plans |-> 0]
    /\ open = [p \in Plans |-> {}]
    /\ produced = [p \in Plans |-> 0]
    /\ ctx = [p \in Plans |-> "none"]
    /\ rootOp = [p \in Plans |-> FALSE]
    /\ stream = [p \in Plans |-> FALSE]
    /\ invalidCall = FALSE
    /\ numPlans = [a \in Attempts |-> 0]
    /\ poolId = [a \in Attempts |-> 0]
    /\ poolOf = [p \in Plans |-> 0]
    /\ poolsCreated = 0

(* An exception in the task's thread ends the attempt. *)
Fail(p) == attempt' = [attempt EXCEPT ![AttemptOf[p]] = "completing"]

-----------------------------------------------------------------------------
(* Creation *)

(* Mutant: a plan that finds the entry is not counted. *)
CreateMemoryPoolCountsOnce(p) ==
    LET a == AttemptOf[p]
        fresh == numPlans[a] = 0
    IN  /\ numPlans' = [numPlans EXCEPT ![a] = 1]
        /\ poolsCreated' = IF fresh THEN poolsCreated + 1 ELSE poolsCreated
        /\ poolId' = [poolId EXCEPT ![a] = IF fresh THEN poolsCreated + 1 ELSE @]
        /\ poolOf' = [poolOf EXCEPT ![p] = IF fresh THEN poolsCreated + 1 ELSE poolId[a]]

(* Mutant: the entry of the attempt is replaced. *)
CreateMemoryPoolReplaces(p) ==
    /\ numPlans' = [numPlans EXCEPT ![AttemptOf[p]] = @ + 1]
    /\ poolsCreated' = poolsCreated + 1
    /\ poolId' = [poolId EXCEPT ![AttemptOf[p]] = poolsCreated + 1]
    /\ poolOf' = [poolOf EXCEPT ![p] = poolsCreated + 1]

(* create_memory_pool: the attempt's entry, inserted when absent; the plan *)
(* is counted.                                                             *)
CreateMemoryPool(p) ==
    LET a == AttemptOf[p]
        fresh == numPlans[a] = 0
    IN  /\ numPlans' = [numPlans EXCEPT ![a] = @ + 1]
        /\ poolsCreated' = IF fresh THEN poolsCreated + 1 ELSE poolsCreated
        /\ poolId' = [poolId EXCEPT ![a] = IF fresh THEN poolsCreated + 1 ELSE @]
        /\ poolOf' = [poolOf EXCEPT ![p] = IF fresh THEN poolsCreated + 1 ELSE poolId[a]]

(* createPlan succeeds.  The operator registers subqueries and a           *)
(* completion listener for the iterator, the plans of getCometIterator     *)
(* callers that do not register one are outside Listened.                  *)
Create(p) ==
    /\ attempt[AttemptOf[p]] = "running"
    /\ iter[p] = "none"
    /\ CreateMemoryPool(p)
    /\ ctx' = [ctx EXCEPT ![p] = "live"]
    /\ iter' = [iter EXCEPT ![p] = "ready"]
    /\ subqueries' = IF p \in Listened THEN subqueries \cup {p} ELSE subqueries
    /\ listeners' = IF p \in Listened THEN listeners \cup {p} ELSE listeners
    /\ UNCHANGED <<attempt, iterVars, rootOp, stream, invalidCall>>

(* createPlan throws before or after it obtained the memory pool. *)
CreateFails(p) ==
    /\ attempt[AttemptOf[p]] = "running"
    /\ iter[p] = "none"
    /\ \/ "create" \in Failures /\ UNCHANGED poolVars
       \/ "createLate" \in Failures /\ CreateMemoryPool(p)
    /\ iter' = [iter EXCEPT ![p] = "failed"]
    /\ Fail(p)
    /\ UNCHANGED <<listeners, subqueries, iterVars, ctx, rootOp, stream, invalidCall>>

-----------------------------------------------------------------------------
(* executePlan, releasePlan and close *)

Kinds == {"batch", "eof", "planError", "executeError", "pollError"}

(* One executePlan call.  The first call plans the query and then creates  *)
(* the stream; when creating the stream failed, root_op is set without a   *)
(* stream, and a later call fails.                                         *)
ExecutePlan(p, kind) ==
    /\ kind \in {"planError", "executeError"} => ~rootOp[p]
    /\ rootOp[p] /\ ~stream[p] => kind = "pollError"
    /\ kind \in {"planError", "executeError", "pollError"} => "execute" \in Failures
    /\ kind = "batch" => produced[p] < MaxBatches
    /\ rootOp' = [rootOp EXCEPT ![p] = kind # "planError"]
    /\ stream' = [stream EXCEPT ![p] = kind \notin {"planError", "executeError"}
                                         /\ (rootOp[p] => @)]

(* releasePlan: the context is dropped after its pool was released. *)
ReleasePlan(p) ==
    /\ ctx' = [ctx EXCEPT ![p] = "freed"]
    /\ numPlans' = [numPlans EXCEPT ![AttemptOf[p]] = IF @ > 0 THEN @ - 1 ELSE @]
    /\ UNCHANGED <<poolId, poolOf, poolsCreated>>

(* Mutant: a plan that was never executed is not released. *)
CloseSucceedsIfExecuted(p) ==
    /\ IF rootOp[p] THEN ReleasePlan(p) ELSE UNCHANGED <<ctx, poolVars>>
    /\ closed' = [closed EXCEPT ![p] = TRUE]

(* The body of close for an iterator that is not closed.  updating the     *)
(* metrics may throw, before anything was released.                        *)
CloseSucceeds(p) ==
    /\ ReleasePlan(p)
    /\ closed' = [closed EXCEPT ![p] = TRUE]

CloseThrows(p, hasRoot) ==
    /\ "release" \in Failures
    /\ hasRoot
    /\ UNCHANGED <<ctx, poolVars, closed>>

-----------------------------------------------------------------------------
(* hasNext and next.  next() without a fetched batch closes the current    *)
(* batch and then does what hasNext does.                                  *)

(* Mutant: hasNext does not look at closed. *)
CanFetchIgnoringClosed(p) ==
    /\ attempt[AttemptOf[p]] = "running"
    /\ iter[p] = "ready"
    /\ nextBatch[p] = 0

CanFetch(p) ==
    /\ attempt[AttemptOf[p]] = "running"
    /\ iter[p] = "ready"
    /\ ~closed[p]
    /\ nextBatch[p] = 0

(* Mutant: the previous batch stays open. *)
ClosedBeforeNothing(p, call) == {0}

(* Batches closed before executePlan is called *)
ClosedBefore(p, call) ==
    IF call = "next" THEN {prevBatch[p], currentBatch[p]} ELSE {prevBatch[p]}

FetchBatch(p, call) ==
    LET n == produced[p] + 1
    IN  /\ CanFetch(p)
        /\ ExecutePlan(p, "batch")
        /\ invalidCall' = (invalidCall \/ ctx[p] # "live")
        /\ produced' = [produced EXCEPT ![p] = n]
        /\ open' = [open EXCEPT ![p] = (@ \ ClosedBefore(p, call)) \cup {n}]
        /\ nextBatch' = [nextBatch EXCEPT ![p] = IF call = "next" THEN 0 ELSE n]
        /\ prevBatch' = [prevBatch EXCEPT ![p] = IF call = "next" THEN n ELSE 0]
        /\ currentBatch' = [currentBatch EXCEPT ![p] = IF call = "next" THEN n ELSE @]
        /\ UNCHANGED <<attempt, listeners, subqueries, iter, closed, ctx, poolVars>>

(* The end of the output closes the iterator; next() then throws. *)
FetchEof(p, call) ==
    /\ CanFetch(p)
    /\ ExecutePlan(p, "eof")
    /\ invalidCall' = (invalidCall \/ ctx[p] # "live")
    /\ open' = [open EXCEPT ![p] = @ \ {prevBatch[p], currentBatch[p]}]
    /\ prevBatch' = [prevBatch EXCEPT ![p] = 0]
    /\ currentBatch' = [currentBatch EXCEPT ![p] = 0]
    /\ \/ /\ CloseSucceeds(p)
          /\ IF call = "next" THEN Fail(p) ELSE UNCHANGED attempt
       \/ /\ CloseThrows(p, TRUE)
          /\ Fail(p)
    /\ UNCHANGED <<listeners, subqueries, iter, nextBatch, produced>>

FetchError(p, call, kind) ==
    /\ CanFetch(p)
    /\ kind \in {"planError", "executeError", "pollError"}
    /\ ExecutePlan(p, kind)
    /\ invalidCall' = (invalidCall \/ ctx[p] # "live")
    /\ open' = [open EXCEPT ![p] = @ \ ClosedBefore(p, call)]
    /\ prevBatch' = [prevBatch EXCEPT ![p] = 0]
    /\ currentBatch' = [currentBatch EXCEPT ![p] = IF call = "next" THEN 0 ELSE @]
    /\ Fail(p)
    /\ UNCHANGED <<listeners, subqueries, iter, closed, nextBatch, produced, ctx, poolVars>>

(* Mutant: the current batch is closed after it was replaced. *)
TakeClosesTaken(p) ==
    /\ attempt[AttemptOf[p]] = "running"
    /\ nextBatch[p] # 0
    /\ open' = [open EXCEPT ![p] = @ \ {nextBatch[p]}]
    /\ currentBatch' = [currentBatch EXCEPT ![p] = nextBatch[p]]
    /\ prevBatch' = [prevBatch EXCEPT ![p] = nextBatch[p]]
    /\ nextBatch' = [nextBatch EXCEPT ![p] = 0]
    /\ UNCHANGED <<attempt, listeners, subqueries, iter, closed, produced, ctx, rootOp,
                   stream, invalidCall, poolVars>>

(* next() after hasNext() *)
Take(p) ==
    /\ attempt[AttemptOf[p]] = "running"
    /\ nextBatch[p] # 0
    /\ open' = [open EXCEPT ![p] = @ \ {currentBatch[p]}]
    /\ currentBatch' = [currentBatch EXCEPT ![p] = nextBatch[p]]
    /\ prevBatch' = [prevBatch EXCEPT ![p] = nextBatch[p]]
    /\ nextBatch' = [nextBatch EXCEPT ![p] = 0]
    /\ UNCHANGED <<attempt, listeners, subqueries, iter, closed, produced, ctx, rootOp,
                   stream, invalidCall, poolVars>>

-----------------------------------------------------------------------------
(* Completion of an attempt: the task's function returns, at any point of  *)
(* the iterators, and Spark runs the listeners; an exception of one does   *)
(* not keep the others from running.                                       *)

TaskReturns(a) ==
    /\ attempt[a] = "running"
    /\ attempt' = [attempt EXCEPT ![a] = "completing"]
    /\ UNCHANGED <<listeners, subqueries, iter, iterVars, ctx, rootOp, stream,
                   invalidCall, poolVars>>

(* it.close(), then cleanSubqueries *)
RunListener(p) ==
    /\ attempt[AttemptOf[p]] = "completing"
    /\ p \in listeners
    /\ listeners' = listeners \ {p}
    /\ \/ /\ closed[p]
          /\ subqueries' = subqueries \ {p}
          /\ UNCHANGED <<iterVars, ctx, poolVars, invalidCall>>
       \/ /\ ~closed[p]
          /\ invalidCall' = (invalidCall \/ ctx[p] # "live")
          /\ open' = [open EXCEPT ![p] = @ \ {currentBatch[p]}]
          /\ currentBatch' = [currentBatch EXCEPT ![p] = 0]
          /\ \/ CloseSucceeds(p) /\ subqueries' = subqueries \ {p}
             \/ CloseThrows(p, rootOp[p]) /\ UNCHANGED subqueries
          /\ UNCHANGED <<nextBatch, prevBatch, produced>>
    /\ UNCHANGED <<attempt, iter, rootOp, stream>>

AttemptEnds(a) ==
    /\ attempt[a] = "completing"
    /\ \A p \in listeners : AttemptOf[p] # a
    /\ attempt' = [attempt EXCEPT ![a] = "ended"]
    /\ UNCHANGED <<listeners, subqueries, iter, iterVars, ctx, rootOp, stream,
                   invalidCall, poolVars>>

Terminated ==
    /\ \A a \in Attempts : attempt[a] = "ended"
    /\ UNCHANGED vars

-----------------------------------------------------------------------------
Next ==
    \/ \E p \in Plans :
          \/ Create(p) \/ CreateFails(p) \/ Take(p) \/ RunListener(p)
          \/ \E call \in {"hasNext", "next"} :
                \/ FetchBatch(p, call) \/ FetchEof(p, call)
                \/ \E kind \in Kinds : FetchError(p, call, kind)
    \/ \E a \in Attempts : TaskReturns(a) \/ AttemptEnds(a)
    \/ Terminated

Spec == Init /\ [][Next]_vars

-----------------------------------------------------------------------------
(* Properties *)

(* Types; a plan's pool is one that create_memory_pool has created. *)
TypeOK ==
    /\ attempt \in [Attempts -> {"running", "completing", "ended"}]
    /\ listeners \subseteq Listened
    /\ subqueries \subseteq Listened
    /\ iter \in [Plans -> {"none", "failed", "ready"}]
    /\ closed \in [Plans -> BOOLEAN]
    /\ nextBatch \in [Plans -> Nat]
    /\ prevBatch \in [Plans -> Nat]
    /\ currentBatch \in [Plans -> Nat]
    /\ open \in [Plans -> SUBSET Nat]
    /\ produced \in [Plans -> 0 .. MaxBatches]
    /\ ctx \in [Plans -> {"none", "live", "freed"}]
    /\ rootOp \in [Plans -> BOOLEAN]
    /\ stream \in [Plans -> BOOLEAN]
    /\ invalidCall \in BOOLEAN
    /\ numPlans \in [Attempts -> Nat]
    /\ poolsCreated \in Nat
    /\ poolId \in [Attempts -> 0 .. poolsCreated]
    /\ poolOf \in [Plans -> 0 .. poolsCreated]

LivePlans(a) == {p \in Plans : AttemptOf[p] = a /\ ctx[p] = "live"}

(* executePlan and releasePlan are never called with the address of a      *)
(* context that releasePlan has dropped, nor of one never created.         *)
NoCallAfterRelease == ~invalidCall

(* The plans num_plans stands for: the live ones, and those whose          *)
(* createPlan failed after create_memory_pool.                             *)
Counted(a) ==
    {p \in Plans : AttemptOf[p] = a /\ (ctx[p] = "live" \/ (iter[p] = "failed" /\ poolOf[p] > 0))}

(* num_plans counts exactly those plans: no release is missed or applied   *)
(* twice, and the entry leaves the map when the last of them is released.  *)
PoolCountExact == \A a \in Attempts : numPlans[a] = Cardinality(Counted(a))

(* All live plans of an attempt draw on the one pool in its map entry, and *)
(* plans of different attempts on different pools.                         *)
OnePoolPerAttempt ==
    \A p, q \in Plans :
        ctx[p] = "live" /\ ctx[q] = "live"
        => (AttemptOf[p] = AttemptOf[q] <=> poolOf[p] = poolOf[q])

(* Native code may overwrite buffers shared between batches: whenever a    *)
(* batch has been produced, every earlier one of the iterator is closed.   *)
EarlierBatchesClosed ==
    \A p \in Plans : open[p] \subseteq {produced[p]}

(* The batch returned by next() stays open until the following call of     *)
(* hasNext() or next(), or until the iterator is closed.                   *)
ReturnedBatchOpen ==
    \A p \in Plans :
        prevBatch[p] # 0 /\ attempt[AttemptOf[p]] = "running" => prevBatch[p] \in open[p]

(* When an attempt has ended, its listeners have released every native     *)
(* context and every subquery entry, except that both stay behind together *)
(* for an executed plan whose releasePlan threw.                           *)
ReleasedAtEnd ==
    \A p \in Listened :
        attempt[AttemptOf[p]] = "ended" =>
            /\ p \in subqueries <=> ctx[p] = "live"
            /\ ctx[p] = "live" => rootOp[p] /\ "release" \in Failures

=============================================================================
