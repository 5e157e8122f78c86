-------------------------- MODULE MCExecutorRound --------------------------
(* ExecutorRound on small instances: the constants the configurations use. *)
EXTENDS ExecutorRound

FaultsNone == {}
FaultsSlow == {"late", "partial"}
FaultsAmbiguous == {"ambiguous"}
=============================================================================
