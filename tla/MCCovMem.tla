------------------------------ MODULE MCCovMem ------------------------------
(* CovMem for TLC. *)
EXTENDS CovMem, Bitwise

MCXor == [p \in EDGES \X EDGES |-> p[1] ^^ p[2]]
=============================================================================
