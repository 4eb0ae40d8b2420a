------------------------------- MODULE MC_DbTx -------------------------------
(* A request that calls WithTx three times.                               *)
EXTENDS DbTx

MCCalls == 3

=============================================================================
