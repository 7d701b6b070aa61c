-------------------------- MODULE MCNfuzzerServer --------------------------
(* NfuzzerServer for TLC: the connections of one fuzzer instance.          *)
EXTENDS NfuzzerServer, TLC

CONSTANTS f1

OneOwner == [c \in Conns |-> f1]
=============================================================================
