---------------------------- MODULE MCFuzzBridge ----------------------------
(* FuzzBridge for TLC. *)
EXTENDS FuzzBridge, TLC

CONSTANTS f1, f2, i1, i2

MCConns == Fuzzers \X (1..Runs) \X (0..(MAX_TRIES + 1))

MCOwner == [c \in MCConns |-> c[1]]

\* Every fuzzer may run every input.
SameCorpus == [f \in Fuzzers |-> Inputs]

Symmetry == Permutations(Inputs)
=============================================================================
