--------------------------- MODULE MCHedgeEngine ---------------------------
(* HedgeEngine on small instances: the constants the configurations use. *)
EXTENDS HedgeEngine

FaultsNone == {}
FaultsAmbiguous == {"ambiguous"}
FaultsBlind == {"blind"}
=============================================================================
