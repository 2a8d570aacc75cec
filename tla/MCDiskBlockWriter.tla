-------------------------- MODULE MCDiskBlockWriter --------------------------
(* Instances of DiskBlockWriter for TLC: one or two tasks with two writers. *)
EXTENDS DiskBlockWriter, TLC

CONSTANTS t1, t2, w1, w2

SharedOwner == [w \in {w1, w2} |-> t1]
SeparateOwners == w1 :> t1 @@ w2 :> t2

Config(owner, n, threshold, threads, fails) ==
    [owner |-> owner, pages |-> n, threshold |-> threshold, threads |-> threads,
     fails |-> fails]

\* One task whose threshold spills run on the shuffle thread pool, and two
\* tasks that spill each other's writers, while native writes may fail
MCConfigs == {Config(SharedOwner, 3, 1, 1, TRUE), Config(SeparateOwners, 2, 2, 0, TRUE)}

\* Two tasks that run out of memory together
MCScarce == {Config(SeparateOwners, 2, 3, 0, FALSE)}

=============================================================================
