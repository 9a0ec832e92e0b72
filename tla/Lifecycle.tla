------------------------------ MODULE Lifecycle ------------------------------
(***************************************************************************)
(* The rest of the Store's life: seal exports every WAL frame as an        *)
(* immutable segment and registers it in segments/manifest.bin, retire_wal *)
(* drops the sealed prefix of the WAL in place, and get reads an event     *)
(* back from either place.                                                 *)
(*                                                                         *)
(* A segment is the sequence of its records; its file is named after the   *)
(* first and the last sequence.  manifest.bin is replaced by a rename that *)
(* no directory sync follows, so a power loss may bring back the last one  *)
(* that a sync of the segments directory covered (savedManifest).          *)
(* Records are taken to be equally long where retire_wal overwrites.       *)
(***************************************************************************)
EXTENDS Wal, FiniteSetsExt

CONSTANT HoldSets   \* the held_sequences callers may pass to retire_wal

VARIABLES
    segments,       \* the published .tsf files
    sealed,         \* manifest.bin: sealed_segments as <<first, last>>
    savedManifest,  \* the manifest whose directory entry was last synchronized
    job             \* where the lock holder's seal or retire_wal is

lifecycleVars == <<segments, sealed, savedManifest, job>>
vars == <<walVars, lifecycleVars>>

NoJob == [step |-> "none"]
RangeOf(records) == <<records[1].seq, records[Len(records)].seq>>
Manifest == [sealed |-> sealed, retired |-> retired]

(* Mutant: the end of the range is not looked at.                          *)
IsSequenceSealedOpen(ranges, s) == \E r \in ranges : r[1] <= s

(* SegmentManifest::is_sequence_sealed.                                    *)
IsSequenceSealed(ranges, s) == \E r \in ranges : r[1] <= s /\ s <= r[2]

(* The frame table of a Store: a frame that starts after position pos of   *)
(* the file ends at FrameEnd and holds the sequences of FrameRange.        *)
FirstInWal(s) == s.nextSequence - Max({0} \union s.frames)
FrameEnd(s, pos) == Min({e \in s.frames : e > pos})
FrameRange(s, pos) == <<FirstInWal(s) + pos, FirstInWal(s) + FrameEnd(s, pos) - 1>>

(* read_indexed_frame: the bytes of the file there, checked against the    *)
(* frame table.                                                            *)
FrameAt(s, pos) == SubSeq(wal, pos + 1, FrameEnd(s, pos))
Readable(s, pos) ==
    /\ FrameEnd(s, pos) <= Len(wal)
    /\ RangeOf(FrameAt(s, pos)) = FrameRange(s, pos)

Idle(p) == store[p].step = "idle" /\ job = NoJob

-----------------------------------------------------------------------------
(* Store::seal: load the manifest, then export frame after frame.          *)
SealBegin(p) ==
    /\ Idle(p)
    /\ job' = [step |-> "sealing", at |-> 0, sealed |-> sealed]
    /\ UNCHANGED <<walVars, segments, sealed, savedManifest>>

(* One frame: published under a new name, or found with equal content.     *)
(* Publishing synchronizes the directory, and with it manifest.bin.        *)
SealFrame(p) ==
    /\ store[p].step = "idle"
    /\ job.step = "sealing"
    /\ \E e \in store[p].frames : e > job.at
    /\ Readable(store[p], job.at)
    /\ LET frame == FrameAt(store[p], job.at)
           same == {s \in segments : RangeOf(s) = RangeOf(frame)}
       IN  /\ same \subseteq {frame}
           /\ segments' = segments \union {frame}
           /\ savedManifest' = IF same = {} THEN Manifest ELSE savedManifest
           /\ job' = [job EXCEPT !.at = @ + Len(frame),
                                 !.sealed = @ \union {RangeOf(frame)}]
    /\ UNCHANGED <<walVars, sealed>>

(* SegmentManifest::save at the end of seal.                               *)
SealSave(p) ==
    /\ store[p].step = "idle"
    /\ job.step = "sealing"
    /\ \A e \in store[p].frames : e <= job.at
    /\ sealed' = job.sealed
    /\ job' = NoJob
    /\ UNCHANGED <<walVars, segments, savedManifest>>

(* An I/O error, or a segment that differs from the WAL: seal returns the  *)
(* error and the manifest is not saved.                                    *)
SealFail(p) ==
    /\ store[p].step = "idle"
    /\ job.step = "sealing"
    /\ job' = NoJob
    /\ UNCHANGED <<walVars, segments, sealed, savedManifest>>

-----------------------------------------------------------------------------
(* Mutant: only the first sequence of a frame is compared with the holds.  *)
BlockedByFirst(s, holds, pos) ==
    LET r == FrameRange(s, pos)
    IN  \/ ~IsSequenceSealed(sealed, r[1])
        \/ ~IsSequenceSealed(sealed, r[2])
        \/ r[1] \in holds

(* The frame after pos is not sealed at both ends, or one of its sequences *)
(* is held.                                                                *)
Blocked(s, holds, pos) ==
    LET r == FrameRange(s, pos)
    IN  \/ ~IsSequenceSealed(sealed, r[1])
        \/ ~IsSequenceSealed(sealed, r[2])
        \/ \E sequence \in r[1]..r[2] : sequence \in holds

(* The end of the longest prefix of frames that may go (eligible_count).   *)
Eligible(s, holds) ==
    Max({0} \union {e \in s.frames :
            \A pos \in {0} \union s.frames : pos < e => ~Blocked(s, holds, pos)})

Shifted(positions, cut) == {e - cut : e \in {x \in positions : x > cut}}

(* Store::retire_wal: the remaining frames are read and written over the   *)
(* retired ones; the old bytes behind them are still there.                *)
RetireWrite(p, holds) ==
    LET s == store[p]
        cut == Eligible(s, holds)
        kept == SubSeq(wal, cut + 1, Len(wal))
    IN  /\ Idle(p)
        /\ cut > 0
        /\ \A e \in s.frames : e > cut => e <= Len(wal)
        /\ wal' = kept \o SubSeq(wal, Len(kept) + 1, Len(wal))
        /\ ends' = Shifted(ends, cut) \union {e \in ends : e > Len(kept)}
        /\ job' = [step |-> "overwritten", cut |-> cut, kept |-> Len(kept),
                   upTo |-> FirstInWal(s) + cut - 1, holds |-> holds, old |-> wal]
        /\ UNCHANGED <<file, tail, synced, syncedTail, retired, lock, store, acked,
                       segments, sealed, savedManifest>>

(* set_len drops them.                                                     *)
RetireTruncate(p) ==
    /\ store[p].step = "idle"
    /\ job.step = "overwritten"
    /\ wal' = SubSeq(wal, 1, job.kept)
    /\ ends' = ends \intersect 1..job.kept
    /\ job' = [job EXCEPT !.step = "truncated"]
    /\ UNCHANGED <<file, tail, synced, syncedTail, retired, lock, store, acked,
                   segments, sealed, savedManifest>>

(* sync_all, then the frame table, the summaries and end_offset.           *)
RetireSync(p) ==
    /\ store[p].step = "idle"
    /\ job.step = "truncated"
    /\ SyncAll
    /\ store' = [store EXCEPT ![p].frames = Shifted(@, job.cut)]
    /\ job' = [job EXCEPT !.step = "compacted"]
    /\ UNCHANGED <<file, wal, ends, tail, retired, lock, acked,
                   segments, sealed, savedManifest>>

(* Mutant: the number of events of this call is recorded.                  *)
RetireSaveCount(p) ==
    /\ store[p].step = "idle"
    /\ job.step = "compacted"
    /\ retired' = job.cut
    /\ job' = NoJob
    /\ UNCHANGED <<diskVars, lock, store, acked, segments, sealed, savedManifest>>

(* retired_up_to_sequence is set and the manifest saved, last of all.      *)
RetireSave(p) ==
    /\ store[p].step = "idle"
    /\ job.step = "compacted"
    /\ retired' = job.upTo + 1
    /\ job' = NoJob
    /\ UNCHANGED <<diskVars, lock, store, acked, segments, sealed, savedManifest>>

-----------------------------------------------------------------------------
(* An I/O error inside retire_wal: returned, and the writer not poisoned.  *)
RetireFail(p) ==
    /\ store[p].step = "idle"
    /\ job.step \in {"overwritten", "truncated", "compacted"}
    /\ job' = NoJob
    /\ UNCHANGED <<walVars, segments, sealed, savedManifest>>

(* The process dies outside retire_wal, or inside it.                      *)
CrashOrderly(p) ==
    /\ job.step \in {"none", "sealing"}
    /\ Crash(p)
    /\ job' = NoJob
    /\ UNCHANGED <<segments, sealed, savedManifest>>

CrashInRetire(p) ==
    /\ job.step \notin {"none", "sealing"}
    /\ Crash(p)
    /\ job' = NoJob
    /\ UNCHANGED <<segments, sealed, savedManifest>>

(* append finds the file longer or shorter than end_offset, which only a   *)
(* failed retire_wal can cause: the writer is poisoned.                    *)
AppendForeign(p) ==
    /\ Idle(p)
    /\ ~EndsAtOffset(store[p])
    /\ store' = [store EXCEPT ![p].step = "poisoned"]
    /\ UNCHANGED <<diskVars, retired, lock, acked, lifecycleVars>>

(* The machine stops outside retire_wal; the manifest may be the old one.  *)
PowerLossManifest ==
    /\ job.step \in {"none", "sealing"}
    /\ PowerLossFile
    /\ \E m \in {Manifest, savedManifest} :
          /\ sealed' = m.sealed
          /\ retired' = m.retired
          /\ savedManifest' = m
    /\ job' = NoJob
    /\ UNCHANGED <<acked, segments>>

-----------------------------------------------------------------------------
Init ==
    /\ WalInit
    /\ segments = {}
    /\ sealed = {}
    /\ savedManifest = Manifest
    /\ job = NoJob

(* create, open, append and close, while no seal or retire_wal is running. *)
LogStep(p) ==
    /\ job = NoJob
    /\ \/ CreateFile(p) \/ CreateHeader(p)
       \/ OpenClean(p) \/ OpenTruncate(p) \/ OpenTruncateSync(p)
       \/ \E events \in Batches : AppendBegin(p, events)
       \/ AppendWritten(p) \/ AppendSync(p) \/ AppendPublish(p) \/ AppendFail(p)
       \/ Close(p)
    /\ UNCHANGED lifecycleVars

LifecycleStep(p) ==
    \/ SealBegin(p) \/ SealFrame(p) \/ SealSave(p) \/ SealFail(p)
    \/ \E holds \in HoldSets : RetireWrite(p, holds)
    \/ RetireTruncate(p) \/ RetireSync(p) \/ RetireSave(p)

(* Processes may die and appends may fail, but no failure hits retire_wal  *)
(* and the machine keeps running.                                          *)
Orderly ==
    \E p \in Procs : LogStep(p) \/ LifecycleStep(p) \/ CrashOrderly(p)

Spec == Init /\ [][Orderly]_vars

(* A process dies, or an I/O call fails, inside retire_wal as well.        *)
RetireFaults == \E p \in Procs : RetireFail(p) \/ CrashInRetire(p) \/ AppendForeign(p)

RetireFaultSpec == Init /\ [][Orderly \/ RetireFaults]_vars

(* The machine stops, outside retire_wal only.                             *)
PowerSpec == Init /\ [][Orderly \/ PowerLossManifest]_vars

-----------------------------------------------------------------------------
(* Store::get: from the WAL if a frame starts at or before the sequence,   *)
(* else from the segment the manifest names.                               *)
GetEvent(s, sequence) ==
    IF sequence >= s.nextSequence THEN {}
    ELSE IF s.frames # {} /\ sequence >= FirstInWal(s)
    THEN LET i == sequence - FirstInWal(s) + 1
         IN  {wal[j] : j \in {i} \intersect 1..Len(wal)}
    ELSE LET covering == {r \in sealed : r[1] <= sequence /\ sequence <= r[2]}
         IN  {e \in UNION {{seg[i] : i \in DOMAIN seg} :
                     seg \in {g \in segments : RangeOf(g) \in covering}} :
                 e.seq = sequence}

(* Whenever a Store is open and at rest, get returns every acknowledged    *)
(* event, with the content that was acknowledged, whether it is in the WAL *)
(* or was retired to a segment.                                            *)
AckedReadable ==
    \A p \in Procs : Idle(p) =>
        \A e \in acked : GetEvent(store[p], e.seq) = {e}

(* A Store that can append never hands out a sequence again.               *)
ResumesSequence ==
    \A p \in Procs : Idle(p) => \A e \in acked : e.seq < store[p].nextSequence

(* While retire_wal compacts, every sequence its caller holds that was in  *)
(* the WAL is still in it, and everything cut off is in a segment.         *)
RetireKeepsHeldAndUnsealed ==
    job.step \in {"overwritten", "truncated", "compacted"} =>
        \A i \in DOMAIN job.old :
            \/ \E j \in DOMAIN wal : wal[j] = job.old[i]
            \/ /\ job.old[i].seq \notin job.holds
               /\ \E s \in segments : \E j \in DOMAIN s : s[j] = job.old[i]

(* An acknowledged event is always somewhere on disk: retire_wal gives up  *)
(* a WAL record only for the copy in a segment.                            *)
NothingLost ==
    \A e \in acked :
        \/ \E i \in DOMAIN wal : wal[i] = e
        \/ \E s \in segments : \E i \in DOMAIN s : s[i] = e

(* Known time never goes back and stays on one clock within the epoch.     *)
KnownTimeNondecreasing ==
    \A e, f \in acked : e.seq < f.seq =>
        e.known.clock = f.known.clock /\ e.known.ticks <= f.known.ticks

=============================================================================
