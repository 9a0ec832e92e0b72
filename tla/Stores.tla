------------------------------- MODULE Stores -------------------------------
(***************************************************************************)
(* Where the events of a database are kept: the Store on disk, through     *)
(* seal, retire_wal and reopening, and the volatile tier.  They share no   *)
(* memory; a behaviour is one of one of them.                              *)
(***************************************************************************)
EXTENDS Lifecycle, Memory

VARIABLE part       \* which of them this behaviour is about

storeVars == <<part, vars, memoryVars>>

StoresInit == part \in {"disk", "memory"} /\ Init /\ MemoryInit

StoresNext ==
    \/ part = "disk" /\ Orderly /\ UNCHANGED <<part, memoryVars>>
    \/ part = "memory" /\ MemoryNext /\ UNCHANGED <<part, vars>>

StoresSpec == StoresInit /\ [][StoresNext]_storeVars
=============================================================================
