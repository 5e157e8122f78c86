----------------------------- MODULE MCVenueCalls -----------------------------
(* Instances of VenueCalls for TLC. *)
EXTENDS VenueCalls

\* How an accepted order fills is LiveExecutor's matter.
FaultsNone == {}
=============================================================================
