-------------------------- MODULE AggregateBuffers --------------------------
(***************************************************************************)
(* What Comet's aggregate accumulators (native/spark-expr/src/agg_funcs)   *)
(* share: 128-bit decimal arithmetic at a reduced width, the per-group     *)
(* buffers of a GroupsAccumulator, and the way a prefix of the groups is   *)
(* taken out of them when DataFusion asks for an emission.                 *)
(*                                                                         *)
(* An i128 is an integer in -(I128Max + 1) .. I128Max; a decimal precision *)
(* is given by the largest unscaled value it admits.  The two are kept in  *)
(* the proportion of 2^127 to 10^38 - 1 by the instances.  An Option is    *)
(* <<>> or <<x>>, and so is a nullable array element.                      *)
(***************************************************************************)
EXTENDS Integers, Sequences, SequencesExt

CONSTANT I128Max

Wrap(x) == ((x + I128Max + 1) % (2 * (I128Max + 1))) - (I128Max + 1)

FitsI128(x) == x \in -(I128Max + 1) .. I128Max

overflowing_add(a, b) == [value |-> Wrap(a + b), overflow |-> ~FitsI128(a + b)]

is_valid_decimal_precision(value, precision) == value \in -precision .. precision

\* EmitTo::All is <<>>, EmitTo::First(n) is <<n>>
take_needed(s, emit) == IF emit = <<>> THEN s ELSE SubSeq(s, 1, emit[1])

left_behind(s, emit) == IF emit = <<>> THEN <<>> ELSE SubSeq(s, emit[1] + 1, Len(s))

\* The variant that leaves the emitted bits in the builder.
KeepsEmittedBits(state, emit) ==
    [taken |-> take_needed(state, emit), state |-> IF emit = <<>> THEN <<>> ELSE state]

build_bool_state(state, emit) ==
    [taken |-> take_needed(state, emit), state |-> left_behind(state, emit)]

resize(v, n, x) == v \o [i \in 1 .. (n - Len(v)) |-> x]

ensure_bit_capacity(b, n) == resize(b, n, TRUE)

AllNull(values) == \A i \in DOMAIN values : values[i] = <<>>

SumOf(s) == FoldLeft(LAMBDA a, x : a + x, 0, s)

\* The non-null elements of a nullable array, in order: iter().flatten()
NonNull(values) ==
    LET Keep == SelectSeq(values, LAMBDA v : v # <<>>)
    IN  [i \in DOMAIN Keep |-> Keep[i][1]]

=============================================================================
