----------------------------- MODULE MemoryPools -----------------------------
(***************************************************************************)
(* The native memory pools that draw on Spark's off-heap memory:           *)
(* CometUnifiedMemoryPool and CometFairMemoryPool, with the                *)
(* CometTaskMemoryManager they call through JNI.                           *)
(*                                                                         *)
(* Consumers are DataFusion reservations, each used by one thread.  The    *)
(* unified pool calls Spark and updates its counter in two steps; the fair *)
(* pool does both under its mutex.                                         *)
(***************************************************************************)
EXTENDS Integers, Functions

CONSTANTS
    Consumers,    \* memory reservations of the plan
    PoolTypes,    \* pool types explored: "greedy_unified", "fair_unified"
    SparkMemory,  \* what Spark grants to the consumer of one plan at most
    PoolSize      \* pool_size of the fair pool

ASSUME PoolAssumption ==
    /\ PoolTypes \subseteq {"greedy_unified", "fair_unified"}
    /\ SparkMemory \in Nat
    /\ PoolSize \in Nat

VARIABLES
    poolType,
    granted,    \* CometTaskMemoryManager.used
    used,       \* used of the pool
    num,        \* number of registered consumers of the fair pool
    size,       \* size of each reservation
    registered, \* consumers that have a reservation
    op,         \* step of the pool call in progress
    amount,     \* argument of that call
    got,        \* bytes acquired by it
    refused,    \* consumers whose last try_grow failed
    panicked    \* a checked operation of the pool failed

callVars == <<op, amount, got, refused>>
poolVars == <<poolType, granted, used, num, size, registered, callVars, panicked>>

PoolInit ==
    /\ poolType \in PoolTypes
    /\ granted = 0
    /\ used = 0
    /\ num = 0
    /\ size = [c \in Consumers |-> 0]
    /\ registered = {}
    /\ op = [c \in Consumers |-> "idle"]
    /\ amount = [c \in Consumers |-> 0]
    /\ got = [c \in Consumers |-> 0]
    /\ refused = {}
    /\ panicked = FALSE

-----------------------------------------------------------------------------
(* Registration; the unified pool does not count consumers. *)

Register(c) ==
    /\ c \notin registered
    /\ registered' = registered \cup {c}
    /\ num' = IF poolType = "fair_unified" THEN num + 1 ELSE num
    /\ UNCHANGED <<poolType, granted, used, size, callVars, panicked>>

(* The last owner of a registration drops it after its reservation is freed. *)
Unregister(c) ==
    /\ c \in registered
    /\ op[c] = "idle"
    /\ size[c] = 0
    /\ registered' = registered \ {c}
    /\ num' = IF poolType = "fair_unified" THEN num - 1 ELSE num
    /\ refused' = refused \ {c}
    /\ UNCHANGED <<poolType, granted, used, size, op, amount, got, panicked>>

(* The call of a consumer returns; its locals are gone. *)
Return(c) ==
    /\ op' = [op EXCEPT ![c] = "idle"]
    /\ amount' = [amount EXCEPT ![c] = 0]
    /\ got' = [got EXCEPT ![c] = 0]

(* acquireMemory: Spark grants the request, or less of it. *)
Grants(n) == {g \in 0 .. n : granted + g <= SparkMemory}

-----------------------------------------------------------------------------
(* CometUnifiedMemoryPool *)

(* try_grow, the call of acquire_from_spark *)
UnifiedAcquire(c, n) ==
    /\ poolType = "greedy_unified"
    /\ c \in registered
    /\ op[c] = "idle"
    /\ \E g \in Grants(n) :
          /\ granted' = granted + g
          /\ got' = [got EXCEPT ![c] = g]
    /\ op' = [op EXCEPT ![c] = "acquired"]
    /\ amount' = [amount EXCEPT ![c] = n]
    /\ UNCHANGED <<poolType, used, num, size, registered, refused, panicked>>

(* Mutant: a grant that is too small is not given back. *)
UnifiedGrowKeepsShortGrant(c) ==
    /\ op[c] = "acquired"
    /\ Return(c)
    /\ IF got[c] < amount[c]
         THEN /\ refused' = refused \cup {c}
              /\ UNCHANGED <<granted, used, size>>
         ELSE /\ used' = used + got[c]
              /\ size' = [size EXCEPT ![c] = @ + amount[c]]
              /\ refused' = refused \ {c}
              /\ UNCHANGED granted
    /\ UNCHANGED <<poolType, num, registered, panicked>>

(* Mutant: the pool does not add what it acquired to its counter. *)
UnifiedGrowUncounted(c) ==
    /\ op[c] = "acquired"
    /\ Return(c)
    /\ IF got[c] < amount[c]
         THEN /\ granted' = granted - got[c]
              /\ refused' = refused \cup {c}
              /\ UNCHANGED size
         ELSE /\ size' = [size EXCEPT ![c] = @ + amount[c]]
              /\ refused' = refused \ {c}
              /\ UNCHANGED granted
    /\ UNCHANGED <<poolType, used, num, registered, panicked>>

(* try_grow, after Spark has answered: a short grant is given back. *)
UnifiedGrow(c) ==
    /\ op[c] = "acquired"
    /\ Return(c)
    /\ IF got[c] < amount[c]
         THEN /\ granted' = granted - got[c]
              /\ refused' = refused \cup {c}
              /\ UNCHANGED <<used, size>>
         ELSE /\ used' = used + got[c]
              /\ size' = [size EXCEPT ![c] = @ + amount[c]]
              /\ refused' = refused \ {c}
              /\ UNCHANGED granted
    /\ UNCHANGED <<poolType, num, registered, panicked>>

(* shrink, the call of release_to_spark *)
UnifiedRelease(c, n) ==
    /\ poolType = "greedy_unified"
    /\ op[c] = "idle"
    /\ n \in 1 .. size[c]
    /\ granted' = granted - n
    /\ op' = [op EXCEPT ![c] = "released"]
    /\ amount' = [amount EXCEPT ![c] = n]
    /\ UNCHANGED <<poolType, used, num, size, registered, got, refused, panicked>>

(* shrink, the checked subtraction *)
UnifiedShrink(c) ==
    /\ op[c] = "released"
    /\ Return(c)
    /\ IF used >= amount[c]
         THEN /\ used' = used - amount[c]
              /\ size' = [size EXCEPT ![c] = @ - amount[c]]
              /\ UNCHANGED panicked
         ELSE /\ panicked' = TRUE
              /\ UNCHANGED <<used, size>>
    /\ UNCHANGED <<poolType, granted, num, registered, refused>>

-----------------------------------------------------------------------------
(* CometFairMemoryPool: each call runs under the mutex of the pool. *)

(* try_grow: refused over the fair limit, or when Spark's grant is short. *)
FairGrow(c, n) ==
    /\ poolType = "fair_unified"
    /\ c \in registered
    /\ op[c] = "idle"
    /\ num > 0
    /\ \E g \in Grants(n) :
          LET fits == size[c] + n <= PoolSize \div num /\ g = n
              more == IF fits THEN n ELSE 0
          IN  /\ granted' = granted + more
              /\ used' = used + more
              /\ size' = [size EXCEPT ![c] = @ + more]
              /\ refused' = IF fits THEN refused \ {c} ELSE refused \cup {c}
    /\ UNCHANGED <<poolType, num, registered, op, amount, got, panicked>>

(* shrink; the subtraction is checked *)
FairShrink(c, n) ==
    /\ poolType = "fair_unified"
    /\ op[c] = "idle"
    /\ n \in 1 .. size[c]
    /\ IF used >= n
         THEN /\ granted' = granted - n
              /\ used' = used - n
              /\ size' = [size EXCEPT ![c] = @ - n]
              /\ UNCHANGED panicked
         ELSE /\ panicked' = TRUE
              /\ granted' = granted - n
              /\ UNCHANGED <<used, size>>
    /\ UNCHANGED <<poolType, num, registered, callVars>>

-----------------------------------------------------------------------------
(* MemoryReservation *)

TryGrow(c, n) == UnifiedAcquire(c, n) \/ FairGrow(c, n)

Shrink(c, n) == UnifiedRelease(c, n) \/ FairShrink(c, n)

PoolStep(c) == UnifiedGrow(c) \/ UnifiedShrink(c)

-----------------------------------------------------------------------------
(* Properties *)

Total(f, S) == FoldFunctionOnSet(+, 0, f, S)

(* The pool's counter is the sum of the reservations, and Spark's account  *)
(* of the plan differs from it only by the calls in progress: a failed     *)
(* try_grow leaves nothing behind and nothing is released twice.  So no    *)
(* checked operation of a pool panics: shrink never releases more than was *)
(* counted, and the fair limit is never divided by zero.                   *)
PoolAccountingExact ==
    /\ used = Total(size, Consumers)
    /\ granted = used + Total(got, {c \in Consumers : op[c] = "acquired"})
                      - Total(amount, {c \in Consumers : op[c] = "released"})
    /\ ~panicked
    /\ poolType = "fair_unified" /\ registered # {} => num > 0

=============================================================================
