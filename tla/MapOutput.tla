------------------------------ MODULE MapOutput ------------------------------
(***************************************************************************)
(* What a shuffle writer promises: it consumes rows, each with a key, and  *)
(* commits a map output in which every reduce partition has exactly the    *)
(* rows routed to it, in the order they were consumed; or it fails and     *)
(* commits nothing.                                                        *)
(***************************************************************************)
EXTENDS Integers, Sequences

CONSTANTS
    Keys,
    Schemes,
    Partitions,
    Route(_, _)   \* partition of a key under a scheme

VARIABLES
    scheme,  \* partitioning scheme of the shuffle
    keys,    \* keys of the rows consumed, row i has keys[i]
    status,  \* "writing", "committed" or "failed"
    output   \* rows of each partition of the committed map output

vars == <<scheme, keys, status, output>>

None == [p \in Partitions |-> <<>>]

Init ==
    /\ scheme \in Schemes
    /\ keys = <<>>
    /\ status = "writing"
    /\ output = None

Consume ==
    /\ status = "writing"
    /\ Len(keys') >= Len(keys)
    /\ SubSeq(keys', 1, Len(keys)) = keys
    /\ \A i \in DOMAIN keys' : keys'[i] \in Keys
    /\ UNCHANGED <<scheme, status, output>>

(* The rows routed to a partition, in the order of consumption *)
Routed(p) ==
    SelectSeq([i \in DOMAIN keys |-> i], LAMBDA i : Route(scheme, keys[i]) = p)

Commit ==
    /\ status = "writing"
    /\ status' = "committed"
    /\ output' = [p \in Partitions |-> Routed(p)]
    /\ UNCHANGED <<scheme, keys>>

Fail ==
    /\ status = "writing"
    /\ status' = "failed"
    /\ UNCHANGED <<scheme, keys, output>>

Next == Consume \/ Commit \/ Fail

Spec == Init /\ [][Next]_vars

=============================================================================
