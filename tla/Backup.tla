------------------------------- MODULE Backup -------------------------------
(***************************************************************************)
(* BackupManager (crates/temnion-storage/src/lifecycle.rs, M43) beside a   *)
(* store that keeps running: create_backup takes no lock and copies one    *)
(* file after the other.  Events are 0, 1, 2 ... and every append is a     *)
(* frame of one event, so that a segment file is named by its event.       *)
(***************************************************************************)
EXTENDS Integers, FiniteSets, TLC, HistoryFilter

CONSTANTS
    MaxAppends,     \* bound: events appended
    MaxBackups      \* bound: backups begun

VARIABLES
    live,       \* the files of the store: name -> content
    retiring,   \* retire_wal has compacted the WAL and not saved the manifest
    backups,    \* backups begun so far
    copying,    \* a create_backup that is running, if one is
    copies,     \* the files in the backup directory
    written,    \* its backup_manifest.bin, if there is one
    spoiled,    \* a copy was changed behind the manager's back
    restored    \* what restore_backup made of it last

backupVars == <<live, retiring, backups, copying, copies, written, spoiled, restored>>

(* The names of events.wal and segments/manifest.bin; others are segments. *)
EventsWal == -1
ManifestBin == -2

(* The contents: a WAL from one sequence up to another, perhaps with half  *)
(* a frame at its end; a segment manifest; a segment.                      *)
WalFile(first, next, torn) == [first |-> first, next |-> next, torn |-> torn]
ManifestFile(sealedEvents, retiredTo) == [sealed |-> sealedEvents, retired |-> retiredTo]

BackupInit ==
    /\ live = [name \in {EventsWal} |-> WalFile(0, 0, FALSE)]
    /\ retiring = FALSE
    /\ backups = 0 /\ copying = None /\ copies = <<>> /\ written = None
    /\ spoiled = FALSE /\ restored = None

(* load_if_exists.                                                         *)
SegmentManifest(dir) == IF ManifestBin \in DOMAIN dir THEN dir[ManifestBin] ELSE ManifestFile({}, 0)

NextSequence == live[EventsWal].next

-----------------------------------------------------------------------------
(* The store: append writes, then has written; seal exports every event of *)
(* the WAL; retire_wal drops the sealed ones and records it last.          *)
AppendWrites ==
    /\ ~live[EventsWal].torn /\ ~retiring /\ NextSequence < MaxAppends
    /\ live' = [live EXCEPT ![EventsWal].torn = TRUE]
    /\ UNCHANGED <<retiring, backups, copying, copies, written, spoiled>>

AppendDone ==
    /\ live[EventsWal].torn
    /\ live' = [live EXCEPT ![EventsWal].torn = FALSE, ![EventsWal].next = @ + 1]
    /\ UNCHANGED <<retiring, backups, copying, copies, written, spoiled>>

(* What a backup that is running has to know for the property: the store   *)
(* sealed or retired meanwhile.                                            *)
Disturbed == copying' = {[c EXCEPT !.quiet = FALSE] : c \in copying}

Seal ==
    /\ ~live[EventsWal].torn /\ ~retiring
    /\ live[EventsWal].first < NextSequence
    /\ LET events == live[EventsWal].first..NextSequence - 1
           manifest == SegmentManifest(live)
       IN  live' = Put([name \in DOMAIN live \union events |->
                            IF name \in events THEN name ELSE live[name]],
                       ManifestBin, [manifest EXCEPT !.sealed = @ \union events])
    /\ Disturbed
    /\ UNCHANGED <<retiring, backups, copies, written, spoiled>>

RetireCompacts ==
    /\ ~live[EventsWal].torn /\ ~retiring
    /\ live[EventsWal].first \in SegmentManifest(live).sealed
    /\ live' = [live EXCEPT ![EventsWal].first = CHOOSE s \in @..NextSequence :
                    /\ s \notin live[ManifestBin].sealed
                    /\ @..s - 1 \subseteq live[ManifestBin].sealed]
    /\ retiring' = TRUE
    /\ Disturbed
    /\ UNCHANGED <<backups, copies, written, spoiled>>

RetireSaves ==
    /\ retiring
    /\ retiring' = FALSE
    /\ live' = [live EXCEPT ![ManifestBin].retired = live[EventsWal].first]
    /\ Disturbed
    /\ UNCHANGED <<backups, copies, written, spoiled>>

-----------------------------------------------------------------------------
(* create_backup: the files that are there when it starts, and of the ones *)
(* that appear while it lists them any.  A checksum is taken of the copy.  *)
BackupBegins ==
    /\ copying = None /\ backups < MaxBackups
    /\ backups' = backups + 1
    /\ copying' = Some([names |-> DOMAIN live, entries |-> <<>>, since |-> NextSequence,
                        quiet |-> ~retiring])
    /\ UNCHANGED <<live, retiring, copies, written, spoiled>>

BackupCopies(name) ==
    /\ name \in DOMAIN live
    /\ \E c \in copying :
          /\ name \notin DOMAIN c.entries
          /\ copying' = Some([c EXCEPT !.entries = Put(@, name, live[name])])
    /\ copies' = Put(copies, name, live[name])
    /\ UNCHANGED <<live, retiring, backups, written, spoiled>>

BackupEnds ==
    \E c \in copying :
        /\ c.names \subseteq DOMAIN c.entries
        /\ written' = Some([entries |-> c.entries, since |-> c.since, quiet |-> c.quiet])
        /\ copying' = None
        /\ spoiled' = FALSE
        /\ UNCHANGED <<live, retiring, backups, copies>>

(* The process stops half way: new copies under the old manifest.          *)
BackupStops ==
    /\ copying # None
    /\ copying' = None
    /\ UNCHANGED <<live, retiring, backups, copies, written, spoiled>>

(* A copy loses its last frame, or is removed.                             *)
Spoil(name) ==
    /\ ~spoiled /\ written # None /\ copying = None /\ name \in DOMAIN copies
    /\ spoiled' = TRUE
    /\ copies' \in {[n \in DOMAIN copies \ {name} |-> copies[n]]} \union
          (IF name = EventsWal /\ copies[name].first < copies[name].next
           THEN {[copies EXCEPT ![name].next = @ - 1]} ELSE {})
    /\ UNCHANGED <<live, retiring, backups, copying, written>>

-----------------------------------------------------------------------------
(* Mutant: only the presence of the files is looked at.                    *)
VerifyBackup_Present(manifest) == DOMAIN manifest.entries \subseteq DOMAIN copies

(* verify_backup: every listed file is there, with the size and checksum   *)
(* it had.                                                                 *)
VerifyBackup(manifest) ==
    /\ DOMAIN manifest.entries \subseteq DOMAIN copies
    /\ \A name \in DOMAIN manifest.entries : copies[name] = manifest.entries[name]

(* Store::open in strict mode: no half frame, and the records go on from   *)
(* what the segment manifest says was retired.                             *)
Opens(dir) ==
    /\ EventsWal \in DOMAIN dir
    /\ ~dir[EventsWal].torn
    /\ dir[EventsWal].first < dir[EventsWal].next => dir[EventsWal].first = SegmentManifest(dir).retired

Opened(dir) ==
    LET w == dir[EventsWal]
        manifest == SegmentManifest(dir)
        inWal == w.first..w.next - 1
        next == IF inWal = {} THEN manifest.retired ELSE w.next
    IN  [next |-> next,
         reads |-> {e \in 0..next - 1 : e \in inWal \/ (e \in manifest.sealed /\ e \in DOMAIN dir)},
         unbacked |-> {e \in manifest.sealed : e \notin DOMAIN dir}]

(* restore_backup into an empty directory.                                 *)
RestoreBackup ==
    \E manifest \in written :
        /\ VerifyBackup(manifest)
        /\ LET dir == [name \in DOMAIN manifest.entries |-> copies[name]]
           IN  /\ Opens(dir)
               /\ restored' = Some([store |-> Opened(dir), of |-> manifest])
        /\ UNCHANGED <<live, retiring, backups, copying, copies, written, spoiled>>

(* The restored store is looked at once and then given up.                 *)
BackupNext ==
    \/ RestoreBackup
    \/ /\ restored' = None
       /\ \/ AppendWrites \/ AppendDone \/ Seal \/ RetireCompacts \/ RetireSaves
          \/ BackupBegins \/ BackupEnds \/ BackupStops
          \/ \E name \in ManifestBin..MaxAppends : BackupCopies(name) \/ Spoil(name)

-----------------------------------------------------------------------------
(* A backup that restores, and during which the store only appended, holds *)
(* everything that was acknowledged before it began, without a hole, and   *)
(* every segment its manifest counts on: whatever copy was damaged or lost *)
(* later, and however a later backup into the same directory was cut off.  *)
RestoredIsComplete ==
    \A r \in restored : r.of.quiet =>
        /\ r.store.next >= r.of.since
        /\ r.store.reads = 0..r.store.next - 1
        /\ r.store.unbacked = {}
=============================================================================
