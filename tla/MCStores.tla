------------------------------ MODULE MCStores ------------------------------
(***************************************************************************)
(* Stores for TLC, with the values of MCLifecycle and MCMemory.            *)
(***************************************************************************)
EXTENDS Stores, MCLifecycle, MCMemory
=============================================================================
