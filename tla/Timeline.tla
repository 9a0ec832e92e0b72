------------------------------ MODULE Timeline ------------------------------
(***************************************************************************)
(* The write-ahead log, and what is built over it: branches,               *)
(* reconstruction, causal tracing, the schemas of payloads, the mirror     *)
(* that feeds a store and the backups of its files.  They share no memory; *)
(* a behaviour is one of one of them.                                      *)
(***************************************************************************)
EXTENDS Wal, Branch, Replay, Causal, Schema, Mirror, Backup

VARIABLE part       \* which of them this behaviour is about

timelineVars ==
    <<part, walVars, branchVars, replayVars, causalVars, schemaVars, mirrorVars,
      backupVars>>

Init ==
    /\ part \in {"wal", "branch", "replay", "causal", "schema", "mirror", "backup"}
    /\ WalInit
    /\ BranchInit
    /\ ReplayInit /\ (part # "replay" => reducer = "raw")
    /\ CausalInit /\ SchemaInit /\ MirrorInit /\ BackupInit

Next ==
    \/ /\ part = "wal" /\ WalNext
       /\ UNCHANGED <<part, branchVars, replayVars, causalVars, schemaVars, mirrorVars,
                      backupVars>>
    \/ /\ part = "branch" /\ BranchNext
       /\ UNCHANGED <<part, walVars, replayVars, causalVars, schemaVars, mirrorVars, backupVars>>
    \/ /\ part = "replay" /\ ReplayNext
       /\ UNCHANGED <<part, walVars, branchVars, causalVars, schemaVars, mirrorVars, backupVars>>
    \/ /\ part = "causal" /\ CausalNext
       /\ UNCHANGED <<part, walVars, branchVars, replayVars, schemaVars, mirrorVars, backupVars>>
    \/ /\ part = "schema" /\ SchemaNext
       /\ UNCHANGED <<part, walVars, branchVars, replayVars, causalVars, mirrorVars, backupVars>>
    \/ /\ part = "mirror" /\ MirrorNext
       /\ UNCHANGED <<part, walVars, branchVars, replayVars, causalVars, schemaVars, backupVars>>
    \/ /\ part = "backup" /\ BackupNext
       /\ UNCHANGED <<part, walVars, branchVars, replayVars, causalVars, schemaVars, mirrorVars>>

Spec == Init /\ [][Next]_timelineVars
=============================================================================
