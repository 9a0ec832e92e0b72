--------------------------- MODULE LifecycleProofs ---------------------------
(***************************************************************************)
(* The write-ahead log keeps its promises for any processes, events, batch *)
(* sizes and sequence limit (WalSpec); and sealing and retiring lose       *)
(* nothing, for any reference holds too, as long as no failure hits        *)
(* retire_wal itself (Spec).                                               *)
(***************************************************************************)
EXTENDS Lifecycle, SequenceTheorems, WellFoundedInduction, TLAPS

-----------------------------------------------------------------------------
(* The write-ahead log alone (WalSpec).                                    *)

(* Only the holder of the lock has a Store.                                *)
OwnerInv == \A p \in Procs : store[p].step # "closed" => lock = p

(* The shape of the file: frames end inside it and at its end, all of it   *)
(* would be accepted by open, and nothing is in it before the header is.   *)
FileInv ==
    /\ retired = 0
    /\ synced <= Len(wal)
    /\ ends \subseteq 1..Len(wal)
    /\ Len(wal) \in ends \union {0}
    /\ ValidRun(0, NoTime, wal)
    /\ file # "ready" => wal = <<>> /\ tail = "none" /\ syncedTail = "none"

(* What the fields of a Store say of the file, at each of its steps.       *)
Describes(s) ==
    s.nextSequence = Len(wal) /\ s.frames = ends /\ s.lastKnown = LastKnown(wal, NoTime)

EndsWithBatch(s) ==
    /\ s.nextSequence + Len(s.batch) = Len(wal)
    /\ \A i \in 1..Len(s.batch) : wal[s.nextSequence + i] = s.batch[i]
    /\ ends = s.frames \union {Len(wal)}

StoreInv(s) ==
    /\ s.step \notin {"closed", "creating"} => file = "ready"
    /\ s.step = "creating" => file = "partial" /\ s.batch = <<>> /\ Describes(s)
    /\ s.step \in {"idle", "truncating"} => tail = "none" /\ s.batch = <<>> /\ Describes(s)
    /\ s.step = "writing" => /\ tail = "torn" /\ Describes(s) /\ s.batch # <<>>
                             /\ ValidRun(s.nextSequence, s.lastKnown, s.batch)
    /\ s.step \in {"written", "synced"} => tail = "none" /\ s.batch # <<>> /\ EndsWithBatch(s)
    /\ s.step = "synced" => synced = Len(wal)

AckedInv == \A e \in acked : e.seq < synced /\ wal[e.seq + 1] = e

(* The inductive invariant.                                                *)
WalInv ==
    /\ WalTypeOK
    /\ OwnerInv
    /\ FileInv
    /\ \A p \in Procs : StoreInv(store[p])
    /\ AckedInv

-----------------------------------------------------------------------------
(* The operators the log is built from.  First: last_known is a Timestamp  *)
(* or None.                                                                *)
LEMMA LastKnownType ==
    ASSUME NEW r \in Seq(StoredEvent), NEW t \in Timestamp \union {NoTime}
    PROVE  LastKnown(r, t) \in Timestamp \union {NoTime}
<1>1. CASE r = <<>>
  BY <1>1 DEF LastKnown
<1>2. CASE r # <<>>
  <2>1. Len(r) \in 1..Len(r)
    BY <1>2, EmptySeq
  <2>2. r[Len(r)] \in StoredEvent
    BY <2>1, ElementOfSeq
  <2>3. QED
    BY <1>2, <2>2 DEF LastKnown, StoredEvent
<1>3. QED
  BY <1>1, <1>2

(* The records append builds from a batch of WriteEvents: one StoredEvent  *)
(* each.                                                                   *)
LEMMA StoredType ==
    ASSUME NEW n \in Nat, NEW events \in Batches
    PROVE  /\ Stored(n, events) \in Seq(StoredEvent)
           /\ Len(Stored(n, events)) = Len(events)
           /\ Stored(n, events) # <<>>
<1>1. PICK m \in 1..MaxRecords : events \in [1..m -> Events]
  BY ConstantsAssumption DEF Batches
<1>2. DOMAIN events = 1..m /\ \A i \in 1..m : events[i] \in WriteEvent
  BY <1>1, ConstantsAssumption
<1>3. m \in Nat /\ m >= 1
  BY <1>1, ConstantsAssumption
<1>4. \A i \in 1..m : [seq |-> n + i - 1, known |-> events[i].known,
                       causes |-> events[i].causes, payload |-> events[i].payload]
                      \in StoredEvent
  BY <1>2, <1>3 DEF WriteEvent, StoredEvent
<1>5. Stored(n, events) \in [1..m -> StoredEvent]
  BY <1>2, <1>4 DEF Stored
<1>6. events \in Seq(Events) /\ Len(events) = m
  BY <1>1, <1>3
<1>7. QED
  BY <1>3, <1>5, <1>6

(* A frame that append validated against last_known extends the file to    *)
(* one that open validates from its start.                                 *)
LEMMA ValidRunConcat ==
    ASSUME NEW r \in Seq(StoredEvent), NEW b \in Seq(StoredEvent),
           NEW t \in Timestamp \union {NoTime},
           ValidRun(0, t, r), ValidRun(Len(r), LastKnown(r, t), b)
    PROVE  ValidRun(0, t, r \o b)
<1> SUFFICES ASSUME NEW i \in 1..(Len(r) + Len(b))
             PROVE  ValidRecord(i - 1, KnownBefore(r \o b, i, t), (r \o b)[i])
  BY DEF ValidRun
<1>1. CASE i <= Len(r)
  <2>1. (r \o b)[i] = r[i] /\ (i > 1 => (r \o b)[i - 1] = r[i - 1])
    BY <1>1
  <2>2. ValidRecord(0 + i - 1, KnownBefore(r, i, t), r[i])
    BY <1>1 DEF ValidRun
  <2>3. KnownBefore(r \o b, i, t) = KnownBefore(r, i, t) /\ 0 + i - 1 = i - 1
    BY <2>1 DEF KnownBefore
  <2>4. QED
    BY <2>1, <2>2, <2>3
<1>2. CASE i > Len(r)
  <2> DEFINE j == i - Len(r)
  <2>1. j \in 1..Len(b) /\ (r \o b)[i] = b[j]
    BY <1>2
  <2>2. ValidRecord(Len(r) + j - 1, KnownBefore(b, j, LastKnown(r, t)), b[j])
    BY <2>1 DEF ValidRun
  <2>3. Len(r) + j - 1 = i - 1
    OBVIOUS
  <2>4. KnownBefore(r \o b, i, t) = KnownBefore(b, j, LastKnown(r, t))
    <3>1. CASE j = 1 /\ Len(r) = 0
      BY <3>1 DEF KnownBefore, LastKnown
    <3>2. CASE j = 1 /\ Len(r) # 0
      <4>1. i # 1 /\ (r \o b)[i - 1] = r[Len(r)] /\ r # <<>>
        BY <3>2
      <4>2. QED
        BY <3>2, <4>1 DEF KnownBefore, LastKnown
    <3>3. CASE j # 1
      <4>1. i # 1 /\ (r \o b)[i - 1] = b[j - 1]
        BY <3>3, <2>1
      <4>2. QED
        BY <3>3, <4>1 DEF KnownBefore
    <3>4. QED
      BY <3>1, <3>2, <3>3
  <2>5. QED
    BY <2>1, <2>2, <2>3, <2>4
<1>3. QED
  BY <1>1, <1>2

(* What a power loss leaves of a valid file is valid.                      *)
LEMMA ValidRunPrefix ==
    ASSUME NEW r \in Seq(StoredEvent), NEW t, NEW k \in 0..Len(r), ValidRun(0, t, r)
    PROVE  ValidRun(0, t, SubSeq(r, 1, k))
<1> SUFFICES ASSUME NEW i \in 1..k
             PROVE  ValidRecord(0 + i - 1, KnownBefore(SubSeq(r, 1, k), i, t), SubSeq(r, 1, k)[i])
  BY DEF ValidRun
<1>1. SubSeq(r, 1, k)[i] = r[i] /\ (i > 1 => SubSeq(r, 1, k)[i - 1] = r[i - 1])
  OBVIOUS
<1>2. KnownBefore(SubSeq(r, 1, k), i, t) = KnownBefore(r, i, t)
  BY <1>1 DEF KnownBefore
<1>3. QED
  BY <1>1, <1>2 DEF ValidRun

-----------------------------------------------------------------------------
(* The invariant holds before anything is created ...                      *)
LEMMA WalInitInv == WalInit => WalInv
  BY ConstantsAssumption
  DEF WalInit, WalInv, WalTypeOK, OwnerInv, FileInv, StoreInv, AckedInv,
      ValidRun, Closed, OpenStore, Store, Steps

(* ... and every step of Store, every crash and every power loss keeps it. *)
LEMMA WalStepInv == WalInv /\ [WalNext]_walVars => WalInv'
<1> SUFFICES ASSUME WalInv, [WalNext]_walVars PROVE WalInv'
    OBVIOUS
<1> USE ConstantsAssumption
<1>0. /\ WalTypeOK /\ OwnerInv /\ FileInv /\ AckedInv
      /\ \A q \in Procs : StoreInv(store[q])
  BY DEF WalInv
<1>a. Len(wal) \in Nat /\ \A e \in acked : e.seq \in Nat
  BY <1>0 DEF WalTypeOK, StoredEvent
<1>b. \A i \in 1..Len(wal) : wal[i].seq = i - 1
  BY <1>0, <1>a DEF FileInv, ValidRun, ValidRecord, WalTypeOK
<1>1. ASSUME NEW p \in Procs, CreateFile(p) PROVE WalInv'
  <2>1. WalTypeOK'
    BY <1>0, <1>1 DEF CreateFile, Acquire, OpenStore, WalTypeOK, Store, Steps
  <2>2. OwnerInv'
    BY <1>0, <1>1 DEF CreateFile, Acquire, OpenStore, OwnerInv, WalTypeOK, Store
  <2>3. FileInv'
    BY <1>0, <1>1 DEF CreateFile, Acquire, OpenStore, FileInv, StoreInv, WalTypeOK, Store
  <2>4. \A q \in Procs : StoreInv(store[q])'
    BY <1>0, <1>1 DEF CreateFile, Acquire, OpenStore, OwnerInv, FileInv, StoreInv, Describes, EndsWithBatch, WalTypeOK, Store, LastKnown
  <2>5. AckedInv'
    BY <1>0, <1>1 DEF CreateFile, Acquire, OpenStore, AckedInv, FileInv, StoreInv, EndsWithBatch, WalTypeOK, Store
  <2>6. QED
    BY <2>1, <2>2, <2>3, <2>4, <2>5 DEF WalInv
<1>2. ASSUME NEW p \in Procs, CreateHeader(p) PROVE WalInv'
  <2>1. WalTypeOK'
    BY <1>0, <1>2 DEF CreateHeader, WalTypeOK, Store, Steps
  <2>2. OwnerInv'
    BY <1>0, <1>2 DEF CreateHeader, OwnerInv, WalTypeOK, Store
  <2>3. FileInv'
    BY <1>0, <1>2 DEF CreateHeader, FileInv, StoreInv, WalTypeOK, Store
  <2>4. \A q \in Procs : StoreInv(store[q])'
    BY <1>0, <1>2 DEF CreateHeader, OwnerInv, FileInv, StoreInv, Describes, EndsWithBatch, WalTypeOK, Store
  <2>5. AckedInv'
    BY <1>0, <1>2 DEF CreateHeader, AckedInv, FileInv, StoreInv, EndsWithBatch, WalTypeOK, Store
  <2>6. QED
    BY <2>1, <2>2, <2>3, <2>4, <2>5 DEF WalInv
<1>3. ASSUME NEW p \in Procs, OpenClean(p) PROVE WalInv'
  <2>0. LastKnown(wal, NoTime) \in Timestamp \union {NoTime}
    BY <1>0, LastKnownType DEF WalTypeOK
  <2>1. WalTypeOK'
    BY <1>0, <1>3, <2>0 DEF OpenClean, Acquire, Recovered, OpenStore, diskVars, WalTypeOK, Store, Steps
  <2>2. OwnerInv'
    BY <1>0, <1>3, <2>0 DEF OpenClean, Acquire, Recovered, OpenStore, diskVars, OwnerInv, WalTypeOK, Store
  <2>3. FileInv'
    BY <1>0, <1>3, <2>0 DEF OpenClean, Acquire, Recovered, OpenStore, diskVars, FileInv, StoreInv, WalTypeOK, Store
  <2>4. \A q \in Procs : StoreInv(store[q])'
    BY <1>0, <1>3, <2>0 DEF OpenClean, Acquire, Recovered, OpenStore, diskVars, OwnerInv, FileInv, StoreInv, Describes, EndsWithBatch, WalTypeOK, Store
  <2>5. AckedInv'
    BY <1>0, <1>3, <2>0 DEF OpenClean, Acquire, Recovered, OpenStore, diskVars, AckedInv, FileInv, StoreInv, EndsWithBatch, WalTypeOK, Store
  <2>6. QED
    BY <2>1, <2>2, <2>3, <2>4, <2>5 DEF WalInv
<1>4. ASSUME NEW p \in Procs, OpenTruncate(p) PROVE WalInv'
  <2>0. LastKnown(wal, NoTime) \in Timestamp \union {NoTime}
    BY <1>0, LastKnownType DEF WalTypeOK
  <2>1. WalTypeOK'
    BY <1>0, <1>4, <2>0 DEF OpenTruncate, Acquire, Recovered, OpenStore, WalTypeOK, Store, Steps
  <2>2. OwnerInv'
    BY <1>0, <1>4, <2>0 DEF OpenTruncate, Acquire, Recovered, OpenStore, OwnerInv, WalTypeOK, Store
  <2>3. FileInv'
    BY <1>0, <1>4, <2>0 DEF OpenTruncate, Acquire, Recovered, OpenStore, FileInv, StoreInv, WalTypeOK, Store
  <2>4. \A q \in Procs : StoreInv(store[q])'
    <3>1. \A q \in Procs : q # p => store'[q].step = "closed"
      BY <1>0, <1>4 DEF OpenTruncate, Acquire, OwnerInv, WalTypeOK
    <3>2. store'[p] = Recovered("truncating")
      BY <1>0, <1>4 DEF OpenTruncate, Acquire, WalTypeOK
    <3>3. StoreInv(store[p])'
      BY <1>0, <1>4, <3>2 DEF OpenTruncate, Recovered, OpenStore, StoreInv, Describes, FileInv
    <3>4. QED
      BY <3>1, <3>3 DEF StoreInv
  <2>5. AckedInv'
    BY <1>0, <1>4, <2>0 DEF OpenTruncate, Acquire, Recovered, OpenStore, AckedInv, FileInv, StoreInv, EndsWithBatch, WalTypeOK, Store
  <2>6. QED
    BY <2>1, <2>2, <2>3, <2>4, <2>5 DEF WalInv
<1>5. ASSUME NEW p \in Procs, OpenTruncateSync(p) PROVE WalInv'
  <2>1. WalTypeOK'
    <3>1. store' \in [Procs -> Store]
      BY <1>0, <1>5 DEF OpenTruncateSync, SyncAll, WalTypeOK, Store, Steps
    <3>2. QED
      BY <1>0, <1>a, <1>5, <3>1 DEF OpenTruncateSync, SyncAll, WalTypeOK
  <2>2. OwnerInv'
    BY <1>0, <1>5 DEF OpenTruncateSync, SyncAll, OwnerInv, WalTypeOK, Store
  <2>3. FileInv'
    BY <1>0, <1>5 DEF OpenTruncateSync, SyncAll, FileInv, StoreInv, WalTypeOK, Store
  <2>4. \A q \in Procs : StoreInv(store[q])'
    BY <1>0, <1>5 DEF OpenTruncateSync, SyncAll, OwnerInv, FileInv, StoreInv, Describes, EndsWithBatch, WalTypeOK, Store
  <2>5. AckedInv'
    BY <1>0, <1>a, <1>5 DEF OpenTruncateSync, SyncAll, AckedInv, FileInv, WalTypeOK
  <2>6. QED
    BY <2>1, <2>2, <2>3, <2>4, <2>5 DEF WalInv
<1>6. ASSUME NEW p \in Procs, NEW events \in Batches, AppendBegin(p, events) PROVE WalInv'
  <2>0. LET records == Stored(store[p].nextSequence, events)
        IN  records \in Seq(StoredEvent) /\ records # <<>>
    BY <1>0, StoredType DEF WalTypeOK, Store
  <2>1. WalTypeOK'
    <3>1. store' \in [Procs -> Store]
      <4> DEFINE records == Stored(store[p].nextSequence, events)
                 begun == [store[p] EXCEPT !.step = "writing", !.batch = records]
      <4>1. begun \in Store
        BY <1>0, <2>0 DEF WalTypeOK, Store, Steps
      <4>2. store' = [store EXCEPT ![p] = begun]
        BY <1>0, <1>6 DEF AppendBegin, WalTypeOK, Store
      <4>3. QED
        BY <1>0, <4>1, <4>2 DEF WalTypeOK
    <3>2. QED
      BY <1>0, <1>a, <1>6, <3>1, <2>0 DEF AppendBegin, WalTypeOK
  <2>2. OwnerInv'
    BY <1>0, <1>6, <2>0 DEF AppendBegin, OwnerInv, WalTypeOK, Store
  <2>3. FileInv'
    BY <1>0, <1>6, <2>0 DEF AppendBegin, FileInv, StoreInv, WalTypeOK, Store
  <2>4. \A q \in Procs : StoreInv(store[q])'
    BY <1>0, <1>6, <2>0 DEF AppendBegin, OwnerInv, FileInv, StoreInv, Describes, EndsWithBatch, WalTypeOK, Store
  <2>5. AckedInv'
    BY <1>0, <1>6, <2>0 DEF AppendBegin, AckedInv, FileInv, StoreInv, EndsWithBatch, WalTypeOK, Store
  <2>6. QED
    BY <2>1, <2>2, <2>3, <2>4, <2>5 DEF WalInv
<1>7. ASSUME NEW p \in Procs, AppendWritten(p) PROVE WalInv'
  <2>0. /\ store[p].batch \in Seq(StoredEvent) /\ store[p].batch # <<>>
        /\ wal' \in Seq(StoredEvent) /\ Len(wal') = Len(wal) + Len(store[p].batch)
        /\ \A i \in 1..Len(wal) : wal'[i] = wal[i]
        /\ \A i \in 1..Len(store[p].batch) : wal'[Len(wal) + i] = store[p].batch[i]
    BY <1>0, <1>7 DEF AppendWritten, StoreInv, WalTypeOK, Store
  <2>1. WalTypeOK'
    <3>1. store' \in [Procs -> Store]
      BY <1>0, <1>7 DEF AppendWritten, WalTypeOK, Store, Steps
    <3>2. Len(wal') \in Nat
      BY <2>0
    <3>3. QED
      BY <1>0, <1>7, <2>0, <3>1, <3>2 DEF AppendWritten, WalTypeOK
  <2>2. OwnerInv'
    BY <1>0, <1>7, <2>0 DEF AppendWritten, OwnerInv, WalTypeOK, Store
  <2>3. FileInv'
    BY <1>0, <1>7, <2>0, ValidRunConcat DEF AppendWritten, FileInv, StoreInv, WalTypeOK, Store, Describes
  <2>4. \A q \in Procs : StoreInv(store[q])'
    <3>1. \A q \in Procs : q # p => store'[q].step = "closed"
      BY <1>0, <1>7 DEF AppendWritten, OwnerInv, WalTypeOK
    <3>2. /\ store'[p].step = "written" /\ store'[p].batch = store[p].batch
          /\ store'[p].nextSequence = store[p].nextSequence
          /\ store'[p].frames = store[p].frames
      BY <1>0, <1>7 DEF AppendWritten, WalTypeOK, Store
    <3>3. Describes(store[p]) /\ file = "ready"
      BY <1>0, <1>7 DEF AppendWritten, StoreInv
    <3>4. StoreInv(store[p])'
      BY <1>7, <1>a, <2>0, <3>2, <3>3 DEF AppendWritten, StoreInv, Describes, EndsWithBatch
    <3>5. QED
      BY <3>1, <3>4 DEF StoreInv
  <2>5. AckedInv'
    BY <1>0, <1>a, <1>7, <2>0 DEF AppendWritten, AckedInv, FileInv, WalTypeOK
  <2>6. QED
    BY <2>1, <2>2, <2>3, <2>4, <2>5 DEF WalInv
<1>8. ASSUME NEW p \in Procs, AppendSync(p) PROVE WalInv'
  <2>1. WalTypeOK'
    <3>1. store' \in [Procs -> Store]
      BY <1>0, <1>8 DEF AppendSync, SyncAll, WalTypeOK, Store, Steps
    <3>2. QED
      BY <1>0, <1>a, <1>8, <3>1 DEF AppendSync, SyncAll, WalTypeOK
  <2>2. OwnerInv'
    BY <1>0, <1>8 DEF AppendSync, SyncAll, OwnerInv, WalTypeOK, Store
  <2>3. FileInv'
    BY <1>0, <1>8 DEF AppendSync, SyncAll, FileInv, StoreInv, WalTypeOK, Store
  <2>4. \A q \in Procs : StoreInv(store[q])'
    BY <1>0, <1>8 DEF AppendSync, SyncAll, OwnerInv, FileInv, StoreInv, Describes, EndsWithBatch, WalTypeOK, Store
  <2>5. AckedInv'
    BY <1>0, <1>a, <1>8 DEF AppendSync, SyncAll, AckedInv, FileInv, WalTypeOK
  <2>6. QED
    BY <2>1, <2>2, <2>3, <2>4, <2>5 DEF WalInv
<1>9. ASSUME NEW p \in Procs, AppendPublish(p) PROVE WalInv'
  <2>1. WalTypeOK'
    BY <1>0, <1>9, LastKnownType DEF AppendPublish, OpenStore, diskVars, WalTypeOK, Store, Steps
  <2>2. OwnerInv'
    BY <1>0, <1>9, LastKnownType DEF AppendPublish, OpenStore, diskVars, OwnerInv, WalTypeOK, Store
  <2>3. FileInv'
    BY <1>0, <1>9, LastKnownType DEF AppendPublish, OpenStore, diskVars, FileInv, StoreInv, WalTypeOK, Store
  <2>4. \A q \in Procs : StoreInv(store[q])'
    <3>1. \A q \in Procs : q # p => store'[q].step = "closed"
      BY <1>0, <1>9 DEF AppendPublish, OwnerInv, WalTypeOK
    <3>2. /\ store[p].batch \in Seq(StoredEvent) /\ store[p].batch # <<>>
          /\ EndsWithBatch(store[p]) /\ file = "ready" /\ tail = "none"
      BY <1>0, <1>9 DEF AppendPublish, StoreInv, WalTypeOK, Store
    <3>3. LastKnown(store[p].batch, store[p].lastKnown) = LastKnown(wal, NoTime)
      <4>1. Len(store[p].batch) \in Nat \ {0} /\ store[p].nextSequence \in Nat
        BY <1>0, <3>2, EmptySeq DEF WalTypeOK, Store
      <4>2. wal[Len(wal)] = store[p].batch[Len(store[p].batch)] /\ Len(wal) # 0
        BY <1>a, <3>2, <4>1 DEF EndsWithBatch
      <4>3. QED
        BY <3>2, <4>2 DEF LastKnown
    <3>4. StoreInv(store[p])'
      BY <1>0, <1>9, <3>2, <3>3
      DEF AppendPublish, OpenStore, diskVars, StoreInv, Describes, EndsWithBatch, WalTypeOK
    <3>5. QED
      BY <3>1, <3>4 DEF StoreInv
  <2>5. AckedInv'
    <3>1. /\ store[p].batch \in Seq(StoredEvent) /\ store[p].nextSequence \in Nat
          /\ EndsWithBatch(store[p]) /\ synced = Len(wal)
      BY <1>0, <1>9 DEF AppendPublish, StoreInv, WalTypeOK, Store
    <3>2. \A i \in DOMAIN store[p].batch :
             LET e == store[p].batch[i]
             IN  e.seq < synced /\ wal[e.seq + 1] = e
      <4> SUFFICES ASSUME NEW i \in 1..Len(store[p].batch)
                   PROVE  LET e == store[p].batch[i]
                          IN  e.seq < synced /\ wal[e.seq + 1] = e
        BY <3>1
      <4> DEFINE k == store[p].nextSequence + i
      <4>1. k \in 1..Len(wal) /\ wal[k] = store[p].batch[i]
        BY <1>a, <3>1 DEF EndsWithBatch
      <4>2. wal[k].seq = k - 1
        BY <1>b, <4>1
      <4> HIDE DEF k
      <4>3. QED
        BY <1>a, <3>1, <4>1, <4>2
    <3>3. QED
      BY <1>0, <1>9, <3>2 DEF AppendPublish, diskVars, AckedInv
  <2>6. QED
    BY <2>1, <2>2, <2>3, <2>4, <2>5 DEF WalInv
<1>10. ASSUME NEW p \in Procs, AppendFail(p) PROVE WalInv'
  <2>1. WalTypeOK'
    <3>1. store' \in [Procs -> Store]
      <4>1. <<>> \in Seq(StoredEvent)
        BY EmptySeq
      <4>2. [store[p] EXCEPT !.step = "poisoned", !.batch = <<>>] \in Store
        BY <1>0, <4>1 DEF WalTypeOK, Store, Steps
      <4>3. store' = [store EXCEPT ![p] = [store[p] EXCEPT !.step = "poisoned", !.batch = <<>>]]
        BY <1>0, <1>10 DEF AppendFail, WalTypeOK, Store
      <4>4. QED
        BY <1>0, <4>2, <4>3 DEF WalTypeOK
    <3>2. QED
      BY <1>0, <1>a, <1>10, <3>1 DEF AppendFail, diskVars, WalTypeOK
  <2>2. OwnerInv'
    BY <1>0, <1>10 DEF AppendFail, diskVars, OwnerInv, WalTypeOK, Store
  <2>3. FileInv'
    BY <1>0, <1>10 DEF AppendFail, diskVars, FileInv, StoreInv, WalTypeOK, Store
  <2>4. \A q \in Procs : StoreInv(store[q])'
    BY <1>0, <1>10 DEF AppendFail, diskVars, OwnerInv, FileInv, StoreInv, Describes, EndsWithBatch, WalTypeOK, Store
  <2>5. AckedInv'
    BY <1>0, <1>10 DEF AppendFail, diskVars, AckedInv, FileInv, StoreInv, EndsWithBatch, WalTypeOK, Store
  <2>6. QED
    BY <2>1, <2>2, <2>3, <2>4, <2>5 DEF WalInv
<1>11. ASSUME NEW p \in Procs, Close(p) PROVE WalInv'
  <2>1. WalTypeOK'
    BY <1>0, <1>11 DEF Close, Drop, Closed, OpenStore, diskVars, WalTypeOK, Store, Steps
  <2>2. OwnerInv'
    BY <1>0, <1>11 DEF Close, Drop, Closed, OpenStore, diskVars, OwnerInv, WalTypeOK, Store
  <2>3. FileInv'
    BY <1>0, <1>11 DEF Close, Drop, Closed, OpenStore, diskVars, FileInv, StoreInv, WalTypeOK, Store
  <2>4. \A q \in Procs : StoreInv(store[q])'
    BY <1>0, <1>11 DEF Close, Drop, Closed, OpenStore, diskVars, OwnerInv, FileInv, StoreInv, Describes, EndsWithBatch, WalTypeOK, Store
  <2>5. AckedInv'
    BY <1>0, <1>11 DEF Close, Drop, Closed, OpenStore, diskVars, AckedInv, FileInv, StoreInv, EndsWithBatch, WalTypeOK, Store
  <2>6. QED
    BY <2>1, <2>2, <2>3, <2>4, <2>5 DEF WalInv
<1>12. ASSUME NEW p \in Procs, Crash(p) PROVE WalInv'
  <2>1. WalTypeOK'
    BY <1>0, <1>12 DEF Crash, Drop, Closed, OpenStore, WalTypeOK, Store, Steps
  <2>2. OwnerInv'
    BY <1>0, <1>12 DEF Crash, Drop, Closed, OpenStore, OwnerInv, WalTypeOK, Store
  <2>3. FileInv'
    BY <1>0, <1>12 DEF Crash, Drop, Closed, OpenStore, FileInv, StoreInv, WalTypeOK, Store
  <2>4. \A q \in Procs : StoreInv(store[q])'
    BY <1>0, <1>12 DEF Crash, Drop, Closed, OpenStore, OwnerInv, FileInv, StoreInv, Describes, EndsWithBatch, WalTypeOK, Store
  <2>5. AckedInv'
    BY <1>0, <1>12 DEF Crash, Drop, Closed, OpenStore, AckedInv, FileInv, StoreInv, EndsWithBatch, WalTypeOK, Store
  <2>6. QED
    BY <2>1, <2>2, <2>3, <2>4, <2>5 DEF WalInv
<1>13. ASSUME PowerLoss PROVE WalInv'
  <2>0. PICK kept \in ends \union {0} :
          /\ synced <= kept
          /\ wal' = SubSeq(wal, 1, kept)
          /\ ends' = ends \intersect 1..kept
          /\ synced' = kept
    BY <1>13 DEF PowerLoss, PowerLossFile
  <2>a. /\ kept \in 0..Len(wal)
        /\ wal' \in Seq(StoredEvent) /\ Len(wal') = kept
        /\ \A i \in 1..kept : wal'[i] = wal[i]
    BY <1>0, <1>a, <2>0, SubSeqProperties DEF FileInv, WalTypeOK
  <2>1. WalTypeOK'
    <3>1. store' \in [Procs -> Store]
      BY <1>13 DEF PowerLoss, PowerLossFile, Closed, OpenStore, Store, Steps
    <3>2. tail' \in {"none", "torn"} /\ syncedTail' \in {"none", "torn"}
      BY <1>13 DEF PowerLoss, PowerLossFile
    <3>3. QED
      BY <1>0, <1>13, <2>0, <2>a, <3>1, <3>2 DEF PowerLoss, PowerLossFile, WalTypeOK
  <2>2. OwnerInv'
    BY <1>0, <1>13 DEF PowerLoss, PowerLossFile, Closed, OpenStore, OwnerInv, WalTypeOK, Store
  <2>3. FileInv'
    <3>1. ValidRun(0, NoTime, wal')
      BY <1>0, <2>0, <2>a, ValidRunPrefix DEF FileInv, WalTypeOK
    <3>2. ends' \subseteq 1..Len(wal') /\ Len(wal') \in ends' \union {0}
      BY <1>a, <2>0, <2>a
    <3>3. file' # "ready" => wal' = <<>> /\ tail' = "none" /\ syncedTail' = "none"
      <4>1. file' # "ready" => file # "ready"
        BY <1>0, <1>13 DEF PowerLoss, PowerLossFile, StoreInv
      <4>2. ASSUME file # "ready" PROVE kept = 0 /\ Len(wal) = 0
        BY <1>0, <2>a, <4>2 DEF FileInv
      <4>3. file # "ready" => tail' = "none"
        BY <1>0, <1>13, <4>2 DEF PowerLoss, PowerLossFile, FileInv
      <4>4. file # "ready" => wal' = <<>>
        BY <2>a, <4>2, EmptySeq
      <4>5. QED
        BY <1>13, <4>1, <4>3, <4>4 DEF PowerLoss, PowerLossFile
    <3>4. QED
      BY <1>0, <1>13, <2>0, <2>a, <3>1, <3>2, <3>3 DEF PowerLoss, PowerLossFile, FileInv
  <2>4. \A q \in Procs : StoreInv(store[q])'
    BY <1>0, <1>13 DEF PowerLoss, PowerLossFile, Closed, OpenStore, OwnerInv, FileInv, StoreInv, Describes, EndsWithBatch, WalTypeOK, Store
  <2>5. AckedInv'
    BY <1>0, <1>a, <1>13, <2>0, <2>a DEF PowerLoss, PowerLossFile, AckedInv, WalTypeOK
  <2>6. QED
    BY <2>1, <2>2, <2>3, <2>4, <2>5 DEF WalInv
<1>14. CASE UNCHANGED walVars
  BY <1>0, <1>14 DEF WalInv, WalTypeOK, OwnerInv, FileInv, StoreInv, AckedInv, Describes, EndsWithBatch, walVars, diskVars
<1>15. QED
  BY <1>1, <1>2, <1>3, <1>4, <1>5, <1>6, <1>7, <1>8, <1>9, <1>10, <1>11, <1>12, <1>13, <1>14
  DEF WalNext, Writer

(* Every reachable state of the log satisfies the inductive invariant.     *)
THEOREM WalInvariant == WalSpec => []WalInv
  BY WalInitInv, WalStepInv, PTL DEF WalSpec

(* The fields and files keep their types.                                  *)
THEOREM WalTypeCorrect == WalSpec => []WalTypeOK
<1>1. WalInv => WalTypeOK
  BY DEF WalInv
<1>2. QED
  BY <1>1, WalInvariant, PTL

(* Two Stores are never open on one directory (lock_directory).            *)
THEOREM WalSingleWriter == WalSpec => []SingleWriter
<1>1. WalInv => SingleWriter
  BY DEF WalInv, OwnerInv, SingleWriter
<1>2. QED
  BY <1>1, WalInvariant, PTL

(* A receipt of append is never revoked: the event stays on stable storage *)
(* under its sequence, whatever fails.                                     *)
THEOREM WalAckedDurable == WalSpec => []AckedDurable
<1>1. WalInv => AckedDurable
  BY DEF WalInv, WalTypeOK, StoredEvent, FileInv, AckedInv, AckedDurable
<1>2. QED
  BY <1>1, WalInvariant, PTL

(* The Store's fields agree with its file whenever it can be used, so the  *)
(* "WAL changed outside the locked writer" branch of append is dead.       *)
THEOREM WalMemoryMatchesFile == WalSpec => []MemoryMatchesFile
<1>1. WalInv => MemoryMatchesFile
  <2> SUFFICES ASSUME WalInv, NEW p \in Procs, store[p].step = "idle"
               PROVE  tail = "none" /\ store[p] = Recovered("idle")
    BY DEF MemoryMatchesFile
  <2>1. store[p] \in Store /\ StoreInv(store[p]) /\ retired = 0 /\ Len(wal) \in Nat
    BY DEF WalInv, WalTypeOK, FileInv
  <2>2. QED
    BY <2>1 DEF StoreInv, Describes, Recovered, OpenStore, Store
<1>2. QED
  BY <1>1, WalInvariant, PTL

(* Recovery with TruncateIncompleteTail is always possible.                *)
THEOREM WalAlwaysRecoverable == WalSpec => []AlwaysRecoverable
<1>1. WalInv => AlwaysRecoverable
  BY DEF WalInv, WalTypeOK, FileInv, AlwaysRecoverable
<1>2. QED
  BY <1>1, WalInvariant, PTL

(* The write-ahead log implements the durable log its callers rely on.     *)
THEOREM WalImplementsDurableLog == WalSpec => ImplementsDurableLog
<1>1. WalInit => Promise!Init
  BY DEF WalInit, Promise!Init
<1>2. WalInv /\ WalInv' /\ [WalNext]_walVars => [Promise!Next]_<<wal, acked>>
  <2> SUFFICES ASSUME WalInv, WalInv', [WalNext]_walVars, <<wal, acked>>' # <<wal, acked>>
               PROVE  Promise!Next
    BY DEF Promise!Next
  <2>0. /\ WalTypeOK /\ FileInv /\ AckedInv
        /\ \A q \in Procs : StoreInv(store[q])
    BY DEF WalInv
  <2>a. WalTypeOK' /\ FileInv' /\ AckedInv'
    BY DEF WalInv
  <2>b. \/ \E p \in Procs : AppendWritten(p)
        \/ \E p \in Procs : AppendPublish(p)
        \/ PowerLoss
    BY DEF WalNext, Writer, walVars, diskVars, CreateFile, CreateHeader, OpenClean,
           OpenTruncate, OpenTruncateSync, AppendBegin, AppendSync, AppendFail,
           Close, Crash
  <2>1. ASSUME NEW p \in Procs, AppendWritten(p) PROVE Promise!Extend
    <3>1. store[p].batch \in Seq(StoredEvent) /\ store[p].batch # <<>>
      BY <2>0, <2>1 DEF AppendWritten, StoreInv, WalTypeOK, Store
    <3>2. /\ Len(wal') = Len(wal) + Len(store[p].batch)
          /\ \A i \in 1..Len(wal) : wal'[i] = wal[i]
      BY <2>0, <2>1, <3>1, ConcatProperties DEF AppendWritten, WalTypeOK
    <3>3. Len(store[p].batch) \in Nat \ {0} /\ Len(wal) \in Nat
      BY <2>0, <3>1, EmptySeq DEF WalTypeOK
    <3>4. \A i \in 1..Len(wal') : wal'[i].seq = i - 1
      BY <2>a, LenProperties DEF FileInv, ValidRun, ValidRecord, WalTypeOK
    <3>5. QED
      BY <2>1, <3>2, <3>3, <3>4 DEF AppendWritten, Promise!Extend, Promise!IsPrefixOf
  <2>2. ASSUME NEW p \in Procs, AppendPublish(p) PROVE Promise!Acknowledge
    BY <2>0, <2>a, <2>2
    DEF AppendPublish, diskVars, AckedInv, FileInv, WalTypeOK, StoredEvent, Promise!Acknowledge
  <2>3. ASSUME PowerLoss PROVE Promise!Lose
    <3>1. PICK kept \in ends \union {0} : synced <= kept /\ wal' = SubSeq(wal, 1, kept)
      BY <2>3 DEF PowerLoss, PowerLossFile
    <3>2. /\ kept \in 0..Len(wal) /\ Len(wal') = kept
          /\ \A i \in 1..kept : wal'[i] = wal[i]
      BY <2>0, <3>1, SubSeqProperties DEF FileInv, WalTypeOK
    <3>3. \A e \in acked : e.seq < Len(wal')
      <4>1. Len(wal') \in Nat /\ synced <= Len(wal')
        BY <2>0, <3>1, <3>2 DEF WalTypeOK
      <4>2. QED
        BY <2>0, <4>1 DEF AckedInv, WalTypeOK, StoredEvent
    <3>4. Promise!IsPrefixOf(wal', wal)
      BY <3>2 DEF Promise!IsPrefixOf
    <3>5. acked' = acked
      BY <2>3 DEF PowerLoss, PowerLossFile
    <3>6. QED
      BY <3>3, <3>4, <3>5 DEF Promise!Lose
  <2>4. QED
    BY <2>b, <2>1, <2>2, <2>3 DEF Promise!Next
<1>3. QED
  BY <1>1, <1>2, WalInvariant, PTL DEF WalSpec, ImplementsDurableLog, Promise!Spec

-----------------------------------------------------------------------------
(* The log that is sealed and retired (Spec).                              *)

RetireSteps == {"overwritten", "truncated", "compacted"}

JobType ==
    \/ job = NoJob
    \/ job \in [step : {"sealing"}, at : Nat, sealed : SUBSET (Nat \X Nat)]
    \/ job \in [step : RetireSteps, cut : Nat, kept : Nat, upTo : Nat, holds : HoldSets,
                old : Seq(StoredEvent)]

LifeType ==
    /\ WalTypeOK
    /\ segments \in SUBSET Seq(StoredEvent)
    /\ sealed \in SUBSET (Nat \X Nat)
    /\ JobType

(* Only the holder of the lock has a Store, and only an idle one seals or  *)
(* retires.                                                                *)
HolderInv ==
    /\ \A p \in Procs : store[p].step # "closed" => lock = p
    /\ job # NoJob => lock \in Procs /\ store[lock].step = "idle" /\ file = "ready"

(* A log that open accepts: from sequence first on, in whole frames.       *)
Shape(first, records, cuts) ==
    /\ ValidRun(first, NoTime, records)
    /\ cuts \subseteq 1..Len(records)
    /\ Len(records) \in cuts \union {0}

(* A range of the manifest is that of a published segment; and, because    *)
(* seal goes through the frames in order, all before it is sealed too.     *)
Backed(ranges) == \A r \in ranges : \E g \in segments : RangeOf(g) = r
DownClosed(ranges) ==
    \A s, t \in Nat : IsSequenceSealed(ranges, s) /\ t <= s => IsSequenceSealed(ranges, t)
SealedBelow(ranges, n) == \A t \in Nat : t < n => IsSequenceSealed(ranges, t)

SegmentsFit(first, records) ==
    /\ \A g \in segments :
          /\ g # <<>>
          /\ \A i \in 1..Len(g) :
                g[i].seq = g[1].seq + (i - 1) /\ g[i].seq < first + Len(records)
    /\ Backed(sealed) /\ DownClosed(sealed) /\ SealedBelow(sealed, first)

(* Every copy of a record, in the WAL, in a segment or in a receipt, is    *)
(* the same record.                                                        *)
Copies(records) ==
    {records[i] : i \in 1..Len(records)} \union acked
        \union UNION {{g[i] : i \in 1..Len(g)} : g \in segments}

CopiesAgree(first, records) ==
    /\ \A a, b \in Copies(records) : a.seq = b.seq => a = b
    /\ \A e \in acked : e.seq < first + Len(records)

LogInv(first, records, cuts) ==
    Shape(first, records, cuts) /\ SegmentsFit(first, records) /\ CopiesAgree(first, records)

(* What a Store's fields say of the log, at each of its steps.             *)
Tells(s, first, records) ==
    /\ s.nextSequence = first + Len(records)
    /\ records # <<>> => s.lastKnown = records[Len(records)].known

EndsIn(s) ==
    /\ s.nextSequence + Len(s.batch) = retired + Len(wal)
    /\ retired <= s.nextSequence
    /\ \A i \in 1..Len(s.batch) : wal[(s.nextSequence - retired) + i] = s.batch[i]
    /\ ends = s.frames \union {Len(wal)}

StoreStep(s) ==
    /\ s.step \notin {"closed", "creating"} => file = "ready"
    /\ s.step = "creating" => file = "partial" /\ Tells(s, retired, wal) /\ s.frames = ends
    /\ s.step \in {"idle", "truncating"} =>
          tail = "none" /\ Tells(s, retired, wal) /\ s.frames = ends
    /\ s.step = "writing" =>
          /\ tail = "torn" /\ Tells(s, retired, wal) /\ s.frames = ends
          /\ s.batch # <<>> /\ ValidRun(s.nextSequence, s.lastKnown, s.batch)
    /\ s.step \in {"written", "synced"} => tail = "none" /\ s.batch # <<>> /\ EndsIn(s)

FileShape == file # "ready" => wal = <<>> /\ retired = 0 /\ tail = "none"

SealingInv ==
    job.step = "sealing" =>
        /\ job.at \in ends \union {0}
        /\ Backed(job.sealed) /\ DownClosed(job.sealed)
        /\ SealedBelow(job.sealed, retired + job.at)

(* Outside retire_wal.                                                     *)
RestInv ==
    /\ LogInv(retired, wal, ends)
    /\ FileShape
    /\ \A p \in Procs : StoreStep(store[p])
    /\ SealingInv

(* Inside retire_wal: what it keeps is a log; what it cuts off is not held *)
(* and is in a segment; the Store has the old frame table until the sync.  *)
Kept == SubSeq(job.old, job.cut + 1, Len(job.old))
KeptEnds == ends \intersect 1..job.kept

CutInv ==
    /\ job.cut \in 1..Len(job.old) /\ job.kept = Len(job.old) - job.cut
    /\ tail = "none"
    /\ job.step = "overwritten" => wal = Kept \o SubSeq(job.old, job.kept + 1, Len(job.old))
    /\ job.step # "overwritten" => wal = Kept /\ ends \subseteq 1..job.kept
    /\ \A i \in 1..job.cut :
          /\ job.old[i].seq \notin job.holds
          /\ \E g \in segments : \E j \in 1..Len(g) : g[j] = job.old[i]

HolderCuts(s) ==
    /\ Tells(s, job.upTo + 1, Kept)
    /\ KeptEnds = IF job.step = "compacted" THEN s.frames ELSE Shifted(s.frames, job.cut)

CuttingInv ==
    LogInv(job.upTo + 1, Kept, KeptEnds) /\ CutInv /\ HolderCuts(store[lock])

(* The inductive invariant.                                                *)
LifeInv ==
    /\ LifeType /\ HolderInv
    /\ job.step \in RetireSteps => CuttingInv
    /\ job.step \notin RetireSteps => RestInv

-----------------------------------------------------------------------------
(* Steps that leave the log, the segments and the manifest alone.          *)
LEMMA SameLog ==
    ASSUME RestInv, UNCHANGED <<wal, ends, retired, acked, segments, sealed>>,
           LifeType', HolderInv', job'.step \notin RetireSteps, FileShape',
           (\A p \in Procs : StoreStep(store[p]))', SealingInv'
    PROVE  LifeInv'
<1>1. LogInv(retired, wal, ends)'
  BY DEF RestInv, LogInv, Shape, SegmentsFit, CopiesAgree, Copies, Backed
<1>2. RestInv'
  BY <1>1 DEF RestInv
<1>3. QED
  BY <1>2 DEF LifeInv

(* What is known at a step of create, open, append or close.               *)
LEMMA AtLogStep ==
    ASSUME LifeInv, job = NoJob
    PROVE  /\ WalTypeOK /\ LifeType /\ HolderInv /\ RestInv /\ FileShape
           /\ \A p \in Procs : StoreStep(store[p])
           /\ \A p \in Procs : store[p].step # "closed" => lock = p
           /\ Len(wal) \in Nat
<1>1. job.step \notin RetireSteps
  BY DEF NoJob, RetireSteps
<1>2. RestInv /\ LifeType /\ HolderInv
  BY <1>1 DEF LifeInv
<1>3. QED
  BY <1>2, LenProperties DEF RestInv, LifeType, HolderInv, WalTypeOK

(* Such a step is one of the rest when the Store it leaves fits the log.   *)
LEMMA LogStepRest ==
    ASSUME LifeInv, job = NoJob, UNCHANGED <<wal, ends, retired, acked, lifecycleVars>>,
           WalTypeOK', \A p \in Procs : store'[p].step # "closed" => lock' = p,
           FileShape', (\A p \in Procs : StoreStep(store[p]))'
    PROVE  LifeInv'
<1>1. job' = NoJob /\ UNCHANGED <<segments, sealed>>
  BY DEF lifecycleVars
<1>2. job'.step \notin RetireSteps /\ job'.step # "sealing"
  BY <1>1 DEF NoJob, RetireSteps
<1>3. LifeType'
  BY <1>1, AtLogStep DEF LifeType, JobType
<1>4. HolderInv' /\ SealingInv'
  BY <1>1, <1>2 DEF HolderInv, SealingInv
<1>5. QED
  BY <1>1, <1>2, <1>3, <1>4, AtLogStep, SameLog

(* create, open, append up to its frame and after it, and close.           *)
LEMMA LogStepsInv ==
    ASSUME LifeInv, job = NoJob, NEW p \in Procs, UNCHANGED lifecycleVars,
           \/ CreateFile(p) \/ CreateHeader(p)
           \/ OpenClean(p) \/ OpenTruncate(p) \/ OpenTruncateSync(p)
           \/ \E events \in Batches : AppendBegin(p, events)
           \/ AppendSync(p) \/ AppendFail(p)
           \/ Close(p)
    PROVE  LifeInv'
<1> USE ConstantsAssumption
<1>0. /\ WalTypeOK /\ FileShape /\ RestInv
      /\ \A q \in Procs : StoreStep(store[q])
      /\ \A q \in Procs : store[q].step # "closed" => lock = q
      /\ Len(wal) \in Nat
  BY AtLogStep
<1>1. CASE CreateFile(p)
  <2>1. WalTypeOK'
    BY <1>0, <1>1 DEF CreateFile, Acquire, OpenStore, WalTypeOK, Store, Steps
  <2>2. \A q \in Procs : store'[q].step # "closed" => lock' = q
    BY <1>0, <1>1 DEF CreateFile, Acquire, OpenStore, WalTypeOK, Store
  <2>3. FileShape'
    BY <1>0, <1>1 DEF CreateFile, Acquire, OpenStore, FileShape, StoreStep, WalTypeOK, Store
  <2>4. (\A q \in Procs : StoreStep(store[q]))'
    <3>1. \A q \in Procs : q # p => store'[q].step = "closed"
      BY <1>0, <1>1 DEF CreateFile, Acquire, WalTypeOK
    <3>2. store'[p] = OpenStore("creating", 0, {}, NoTime)
      BY <1>0, <1>1 DEF CreateFile, Acquire, WalTypeOK
    <3>3. wal = <<>> /\ retired = 0 /\ ends = {}
      BY <1>0, <1>1 DEF CreateFile, FileShape, RestInv, LogInv, Shape
    <3>4. StoreStep(store[p])'
      BY <1>1, <3>2, <3>3 DEF CreateFile, OpenStore, StoreStep, Tells
    <3>5. QED
      BY <3>1, <3>4 DEF StoreStep
  <2>5. QED
    BY <1>1, <2>1, <2>2, <2>3, <2>4, LogStepRest DEF CreateFile, lifecycleVars
<1>2. CASE CreateHeader(p)
  <2>1. WalTypeOK'
    BY <1>0, <1>2 DEF CreateHeader, WalTypeOK, Store, Steps
  <2>2. \A q \in Procs : store'[q].step # "closed" => lock' = q
    BY <1>0, <1>2 DEF CreateHeader, WalTypeOK, Store
  <2>3. FileShape'
    BY <1>0, <1>2 DEF CreateHeader, FileShape, StoreStep, WalTypeOK, Store
  <2>4. (\A q \in Procs : StoreStep(store[q]))'
    <3>1. \A q \in Procs : q # p => store'[q].step = "closed"
      BY <1>0, <1>2 DEF CreateHeader, WalTypeOK
    <3>2. /\ store'[p].step = "idle" /\ store'[p].nextSequence = store[p].nextSequence
          /\ store'[p].frames = store[p].frames /\ store'[p].lastKnown = store[p].lastKnown
      BY <1>0, <1>2 DEF CreateHeader, WalTypeOK, Store
    <3>3. StoreStep(store[p]) /\ store[p].step = "creating" /\ file = "partial"
      BY <1>0, <1>2 DEF CreateHeader, StoreStep
    <3>4. StoreStep(store[p])'
      BY <1>0, <1>2, <3>2, <3>3 DEF CreateHeader, FileShape, StoreStep, Tells
    <3>5. QED
      BY <3>1, <3>4 DEF StoreStep
  <2>5. QED
    BY <1>2, <2>1, <2>2, <2>3, <2>4, LogStepRest DEF CreateHeader, lifecycleVars
<1>3. CASE OpenClean(p)
  <2>0. LastKnown(wal, NoTime) \in Timestamp \union {NoTime}
    BY <1>0, LastKnownType DEF WalTypeOK
  <2>1. WalTypeOK'
    BY <1>0, <1>3, <2>0 DEF OpenClean, Acquire, Recovered, OpenStore, diskVars, WalTypeOK, Store, Steps
  <2>2. \A q \in Procs : store'[q].step # "closed" => lock' = q
    BY <1>0, <1>3, <2>0 DEF OpenClean, Acquire, Recovered, OpenStore, diskVars, WalTypeOK, Store
  <2>3. FileShape'
    BY <1>0, <1>3, <2>0 DEF OpenClean, Acquire, Recovered, OpenStore, diskVars, FileShape, StoreStep, WalTypeOK, Store
  <2>4. (\A q \in Procs : StoreStep(store[q]))'
    <3>1. \A q \in Procs : q # p => store'[q].step = "closed"
      BY <1>0, <1>3 DEF OpenClean, Acquire, WalTypeOK
    <3>2. store'[p] = Recovered("idle")
      BY <1>0, <1>3 DEF OpenClean, Acquire, WalTypeOK
    <3>3. Shape(retired, wal, ends)
      BY <1>0 DEF RestInv, LogInv
    <3>4. StoreStep(store[p])'
      BY <1>0, <1>3, <3>2, <3>3 DEF OpenClean, diskVars, Recovered, OpenStore, StoreStep, Tells, LastKnown
    <3>5. QED
      BY <3>1, <3>4 DEF StoreStep
  <2>5. QED
    BY <1>3, <2>1, <2>2, <2>3, <2>4, LogStepRest DEF OpenClean, diskVars, lifecycleVars
<1>4. CASE OpenTruncate(p)
  <2>0. LastKnown(wal, NoTime) \in Timestamp \union {NoTime}
    BY <1>0, LastKnownType DEF WalTypeOK
  <2>1. WalTypeOK'
    BY <1>0, <1>4, <2>0 DEF OpenTruncate, Acquire, Recovered, OpenStore, WalTypeOK, Store, Steps
  <2>2. \A q \in Procs : store'[q].step # "closed" => lock' = q
    BY <1>0, <1>4, <2>0 DEF OpenTruncate, Acquire, Recovered, OpenStore, WalTypeOK, Store
  <2>3. FileShape'
    BY <1>0, <1>4, <2>0 DEF OpenTruncate, Acquire, Recovered, OpenStore, FileShape, StoreStep, WalTypeOK, Store
  <2>4. (\A q \in Procs : StoreStep(store[q]))'
    <3>1. \A q \in Procs : q # p => store'[q].step = "closed"
      BY <1>0, <1>4 DEF OpenTruncate, Acquire, WalTypeOK
    <3>2. store'[p] = Recovered("truncating")
      BY <1>0, <1>4 DEF OpenTruncate, Acquire, WalTypeOK
    <3>3. Shape(retired, wal, ends)
      BY <1>0 DEF RestInv, LogInv
    <3>4. StoreStep(store[p])'
      BY <1>0, <1>4, <3>2, <3>3 DEF OpenTruncate, diskVars, Recovered, OpenStore, StoreStep, Tells, LastKnown
    <3>5. QED
      BY <3>1, <3>4 DEF StoreStep
  <2>5. QED
    BY <1>4, <2>1, <2>2, <2>3, <2>4, LogStepRest DEF OpenTruncate, lifecycleVars
<1>5. CASE OpenTruncateSync(p)
  <2>1. WalTypeOK'
    <3>1. store' \in [Procs -> Store]
      BY <1>0, <1>5 DEF OpenTruncateSync, SyncAll, WalTypeOK, Store, Steps
    <3>2. QED
      BY <1>0, <1>5, <3>1 DEF OpenTruncateSync, SyncAll, WalTypeOK
  <2>2. \A q \in Procs : store'[q].step # "closed" => lock' = q
    BY <1>0, <1>5 DEF OpenTruncateSync, SyncAll, WalTypeOK, Store
  <2>3. FileShape'
    BY <1>0, <1>5 DEF OpenTruncateSync, SyncAll, FileShape, StoreStep, WalTypeOK, Store
  <2>4. (\A q \in Procs : StoreStep(store[q]))'
    BY <1>0, <1>5 DEF OpenTruncateSync, SyncAll, FileShape, StoreStep, Tells, EndsIn, WalTypeOK, Store
  <2>5. QED
    BY <1>5, <2>1, <2>2, <2>3, <2>4, LogStepRest DEF OpenTruncateSync, lifecycleVars
<1>6. ASSUME NEW events \in Batches, AppendBegin(p, events)
      PROVE  LifeInv'
  <2> DEFINE records == Stored(store[p].nextSequence, events)
             begun == [store[p] EXCEPT !.step = "writing", !.batch = records]
  <2>0. store[p] \in Store /\ store[p].nextSequence \in Nat
    BY <1>0 DEF WalTypeOK, Store
  <2>1. records \in Seq(StoredEvent) /\ records # <<>>
    BY <2>0, StoredType
  <2>2. /\ store[p].step = "idle" /\ tail' = "torn"
        /\ ValidRun(store[p].nextSequence, store[p].lastKnown, records)
        /\ UNCHANGED <<file, wal, ends, synced, syncedTail, retired, lock, acked>>
    BY <1>6 DEF AppendBegin
  <2>3. store' = [store EXCEPT ![p] = begun]
    BY <1>0, <1>6 DEF AppendBegin, WalTypeOK, Store
  <2> HIDE DEF records
  <2>4. begun \in Store /\ begun.step = "writing" /\ begun.batch = records
        /\ begun.nextSequence = store[p].nextSequence /\ begun.frames = store[p].frames
        /\ begun.lastKnown = store[p].lastKnown
    BY <2>0, <2>1 DEF Store, Steps
  <2> HIDE DEF begun
  <2>5. WalTypeOK'
    BY <1>0, <2>2, <2>3, <2>4 DEF WalTypeOK
  <2>6. \A q \in Procs : store'[q].step # "closed" => lock' = q
    BY <1>0, <2>2, <2>3, <2>4 DEF WalTypeOK
  <2>7. FileShape'
    BY <1>0, <2>2 DEF FileShape, StoreStep
  <2>8. (\A q \in Procs : StoreStep(store[q]))'
    <3>1. \A q \in Procs : q # p => store'[q].step = "closed"
      BY <1>0, <2>2, <2>3 DEF WalTypeOK
    <3>2. store'[p] = begun
      BY <1>0, <2>3 DEF WalTypeOK
    <3>3. StoreStep(store[p])
      BY <1>0
    <3>4. StoreStep(store[p])'
      BY <2>1, <2>2, <2>4, <3>2, <3>3 DEF StoreStep, Tells
    <3>5. QED
      BY <3>1, <3>4 DEF StoreStep
  <2>9. QED
    BY <2>2, <2>5, <2>6, <2>7, <2>8, LogStepRest
<1>7. CASE AppendSync(p)
  <2>1. WalTypeOK'
    <3>1. store' \in [Procs -> Store]
      BY <1>0, <1>7 DEF AppendSync, SyncAll, WalTypeOK, Store, Steps
    <3>2. QED
      BY <1>0, <1>7, <3>1 DEF AppendSync, SyncAll, WalTypeOK
  <2>2. \A q \in Procs : store'[q].step # "closed" => lock' = q
    BY <1>0, <1>7 DEF AppendSync, SyncAll, WalTypeOK, Store
  <2>3. FileShape'
    BY <1>0, <1>7 DEF AppendSync, SyncAll, FileShape, StoreStep, WalTypeOK, Store
  <2>4. (\A q \in Procs : StoreStep(store[q]))'
    BY <1>0, <1>7 DEF AppendSync, SyncAll, FileShape, StoreStep, Tells, EndsIn, WalTypeOK, Store
  <2>5. QED
    BY <1>7, <2>1, <2>2, <2>3, <2>4, LogStepRest DEF AppendSync, lifecycleVars
<1>8. CASE AppendFail(p)
  <2>1. WalTypeOK'
    <3>1. <<>> \in Seq(StoredEvent)
      BY EmptySeq
    <3>2. [store[p] EXCEPT !.step = "poisoned", !.batch = <<>>] \in Store
      BY <1>0, <3>1 DEF WalTypeOK, Store, Steps
    <3>3. store' = [store EXCEPT ![p] = [store[p] EXCEPT !.step = "poisoned", !.batch = <<>>]]
      BY <1>0, <1>8 DEF AppendFail, WalTypeOK, Store
    <3>4. QED
      BY <1>0, <1>8, <3>2, <3>3 DEF AppendFail, diskVars, WalTypeOK
  <2>2. \A q \in Procs : store'[q].step # "closed" => lock' = q
    BY <1>0, <1>8 DEF AppendFail, diskVars, WalTypeOK, Store
  <2>3. FileShape'
    BY <1>0, <1>8 DEF AppendFail, diskVars, FileShape, StoreStep, WalTypeOK, Store
  <2>4. (\A q \in Procs : StoreStep(store[q]))'
    BY <1>0, <1>8 DEF AppendFail, diskVars, FileShape, StoreStep, Tells, EndsIn, WalTypeOK, Store
  <2>5. QED
    BY <1>8, <2>1, <2>2, <2>3, <2>4, LogStepRest DEF AppendFail, diskVars, lifecycleVars
<1>9. CASE Close(p)
  <2>1. WalTypeOK'
    BY <1>0, <1>9 DEF Close, Drop, Closed, OpenStore, diskVars, WalTypeOK, Store, Steps
  <2>2. \A q \in Procs : store'[q].step # "closed" => lock' = q
    BY <1>0, <1>9 DEF Close, Drop, Closed, OpenStore, diskVars, WalTypeOK, Store
  <2>3. FileShape'
    BY <1>0, <1>9 DEF Close, Drop, Closed, OpenStore, diskVars, FileShape, StoreStep, WalTypeOK, Store
  <2>4. (\A q \in Procs : StoreStep(store[q]))'
    BY <1>0, <1>9 DEF Close, Drop, Closed, OpenStore, diskVars, FileShape, StoreStep, Tells, EndsIn, WalTypeOK, Store
  <2>5. QED
    BY <1>9, <2>1, <2>2, <2>3, <2>4, LogStepRest DEF Close, diskVars, lifecycleVars
<1>10. QED
  BY <1>1, <1>2, <1>3, <1>4, <1>5, <1>6, <1>7, <1>8, <1>9

(* The process dies outside retire_wal.                                    *)
LEMMA CrashInv ==
    ASSUME LifeInv, NEW p \in Procs, CrashOrderly(p)
    PROVE  LifeInv'
<1> USE ConstantsAssumption
<1>1. /\ job.step \in {"none", "sealing"} /\ Crash(p) /\ job' = NoJob
      /\ UNCHANGED <<segments, sealed>> /\ job.step \notin RetireSteps
  BY DEF CrashOrderly, RetireSteps
<1>2. /\ WalTypeOK /\ FileShape /\ RestInv /\ LifeType
      /\ \A q \in Procs : StoreStep(store[q])
      /\ \A q \in Procs : store[q].step # "closed" => lock = q
  BY <1>1 DEF LifeInv, RestInv, LifeType, HolderInv
<1>3. WalTypeOK'
  BY <1>1, <1>2 DEF Crash, Drop, Closed, OpenStore, WalTypeOK, Store, Steps
<1>4. LifeType'
  BY <1>1, <1>2, <1>3 DEF LifeType, JobType
<1>5. \A q \in Procs : store'[q].step = "closed"
  BY <1>1, <1>2 DEF Crash, Drop, Closed, OpenStore, WalTypeOK
<1>6. HolderInv' /\ job'.step \notin RetireSteps /\ SealingInv'
  BY <1>1, <1>5 DEF HolderInv, SealingInv, NoJob, RetireSteps
<1>7. (\A q \in Procs : StoreStep(store[q]))'
  BY <1>5 DEF StoreStep
<1>8. FileShape'
  BY <1>1, <1>2 DEF Crash, FileShape, StoreStep
<1>9. UNCHANGED <<wal, ends, retired, acked, segments, sealed>>
  BY <1>1 DEF Crash
<1>10. QED
  BY <1>2, <1>4, <1>6, <1>7, <1>8, <1>9, SameLog

-----------------------------------------------------------------------------
(* Runs of records.  A run names its records by consecutive sequences.     *)
LEMMA RunSeq ==
    ASSUME NEW first \in Nat, NEW t, NEW r \in Seq(StoredEvent), ValidRun(first, t, r)
    PROVE  \A i \in 1..Len(r) : r[i].seq = first + (i - 1)
BY DEF ValidRun, ValidRecord

(* A frame that append validated against the last record extends the run.  *)
LEMMA RunJoin ==
    ASSUME NEW first \in Nat, NEW r \in Seq(StoredEvent), NEW b \in Seq(StoredEvent), NEW t,
           ValidRun(first, NoTime, r), ValidRun(first + Len(r), t, b),
           r # <<>> => t = r[Len(r)].known
    PROVE  ValidRun(first, NoTime, r \o b)
<1>0. DOMAIN (r \o b) = 1..(Len(r) + Len(b)) /\ Len(r) \in Nat /\ Len(b) \in Nat
  OBVIOUS
<1> SUFFICES ASSUME NEW i \in 1..(Len(r) + Len(b))
             PROVE  ValidRecord(first + i - 1, KnownBefore(r \o b, i, NoTime), (r \o b)[i])
  BY <1>0, Zenon DEF ValidRun
<1>1. CASE i <= Len(r)
  <2>1. (r \o b)[i] = r[i] /\ (i > 1 => (r \o b)[i - 1] = r[i - 1])
    BY <1>1
  <2>2. ValidRecord(first + i - 1, KnownBefore(r, i, NoTime), r[i])
    BY <1>1 DEF ValidRun
  <2>3. KnownBefore(r \o b, i, NoTime) = KnownBefore(r, i, NoTime)
    BY <2>1 DEF KnownBefore
  <2>4. QED
    BY <2>1, <2>2, <2>3
<1>2. CASE i > Len(r)
  <2> DEFINE j == i - Len(r)
  <2>1. j \in 1..Len(b) /\ (r \o b)[i] = b[j]
    BY <1>2
  <2>2. ValidRecord(first + Len(r) + j - 1, KnownBefore(b, j, t), b[j])
    <3>1. j \in DOMAIN b
      BY <2>1
    <3> HIDE DEF j
    <3>2. QED
      BY <3>1, Zenon DEF ValidRun
  <2>3. first + Len(r) + j - 1 = first + i - 1
    OBVIOUS
  <2>4. CASE r = <<>> /\ j = 1
    <3>1. i = 1
      BY <2>4
    <3>2. ValidRecord(first + i - 1, t, b[j])
      BY <2>2, <2>3, <2>4 DEF KnownBefore
    <3>3. KnownBefore(r \o b, i, NoTime) = NoTime
      BY <3>1 DEF KnownBefore
    <3>4. QED
      BY <2>1, <3>2, <3>3 DEF ValidRecord
  <2>5. CASE ~(r = <<>> /\ j = 1)
    <3>1. KnownBefore(r \o b, i, NoTime) = KnownBefore(b, j, t)
      <4>1. CASE j = 1
        <5>1. i # 1 /\ (r \o b)[i - 1] = r[Len(r)] /\ r # <<>>
          BY <2>5, <4>1
        <5>2. QED
          BY <4>1, <5>1 DEF KnownBefore
      <4>2. CASE j # 1
        <5>1. i # 1 /\ (r \o b)[i - 1] = b[j - 1]
          BY <2>1, <4>2
        <5>2. QED
          BY <4>2, <5>1 DEF KnownBefore
      <4>3. QED
        BY <4>1, <4>2
    <3>2. QED
      BY <2>1, <2>2, <2>3, <3>1
  <2>6. QED
    BY <2>4, <2>5
<1>3. QED
  BY <1>1, <1>2

(* What is left of a run after its beginning is cut off is a run.          *)
LEMMA RunSuffix ==
    ASSUME NEW first \in Nat, NEW r \in Seq(StoredEvent), NEW cut \in 0..Len(r),
           ValidRun(first, NoTime, r)
    PROVE  ValidRun(first + cut, NoTime, SubSeq(r, cut + 1, Len(r)))
<1> DEFINE s == SubSeq(r, cut + 1, Len(r))
<1>1. s \in Seq(StoredEvent) /\ Len(s) = Len(r) - cut
  OBVIOUS
<1>2. ASSUME NEW i \in 1..Len(s)
      PROVE  ValidRecord((first + cut) + i - 1, KnownBefore(s, i, NoTime), s[i])
  <2> DEFINE j == cut + i
  <2>0. i \in 1..(Len(r) - cut) /\ cut \in Nat /\ Len(r) \in Nat
    BY <1>1
  <2>1. j \in 1..Len(r) /\ s[i] = r[j] /\ (i # 1 => s[i - 1] = r[j - 1])
    <3>1. j \in 1..Len(r)
      BY <2>0
    <3>2. s[i] = r[(cut + 1) + i - 1] /\ (cut + 1) + i - 1 = j
      BY <2>0
    <3>3. ASSUME i # 1
          PROVE  s[i - 1] = r[(cut + 1) + (i - 1) - 1] /\ (cut + 1) + (i - 1) - 1 = j - 1
      BY <2>0, <3>3
    <3>4. QED
      BY <3>1, <3>2, <3>3
  <2>2. ValidRecord(first + j - 1, KnownBefore(r, j, NoTime), r[j])
    BY <2>1 DEF ValidRun
  <2>3. first + j - 1 = (first + cut) + i - 1
    BY <2>1
  <2>4. KnownBefore(s, i, NoTime) \in {NoTime, KnownBefore(r, j, NoTime)}
    <3>1. CASE i = 1
      BY <3>1 DEF KnownBefore
    <3>2. CASE i # 1
      <4>1. j # 1
        BY <3>2
      <4>2. QED
        BY <2>1, <3>2, <4>1 DEF KnownBefore
    <3>3. QED
      BY <3>1, <3>2
  <2>5. ValidRecord(first + j - 1, KnownBefore(s, i, NoTime), s[i])
    BY <2>1, <2>2, <2>4 DEF ValidRecord
  <2>6. QED
    BY <2>3, <2>5
<1>3. DOMAIN s = 1..Len(s)
  BY <1>1
<1>4. QED
  BY <1>2, <1>3 DEF ValidRun

(* Every copy of a record is below the end of the log.                     *)
LEMMA CopiesBelow ==
    ASSUME NEW first \in Nat, NEW records \in Seq(StoredEvent), NEW cuts,
           LogInv(first, records, cuts), acked \in SUBSET StoredEvent,
           segments \in SUBSET Seq(StoredEvent), NEW c \in Copies(records)
    PROVE  c.seq \in Nat /\ c.seq < first + Len(records)
<1>1. Len(records) \in Nat /\ Shape(first, records, cuts)
      /\ SegmentsFit(first, records) /\ CopiesAgree(first, records)
  BY LenProperties DEF LogInv
<1>2. \A e \in StoredEvent : e.seq \in Nat
  BY DEF StoredEvent
<1>3. CASE c \in acked
  BY <1>1, <1>2, <1>3 DEF CopiesAgree
<1>4. ASSUME NEW i \in 1..Len(records), c = records[i]
      PROVE  c.seq \in Nat /\ c.seq < first + Len(records)
  <2>1. records[i].seq = first + (i - 1)
    BY <1>1, RunSeq DEF Shape
  <2>2. QED
    BY <1>1, <1>4, <2>1
<1>5. ASSUME NEW g \in segments, NEW i \in 1..Len(g), c = g[i]
      PROVE  c.seq \in Nat /\ c.seq < first + Len(records)
  <2>1. g[i] \in StoredEvent
    BY ElementOfSeq
  <2>2. QED
    BY <1>1, <1>2, <1>5, <2>1 DEF SegmentsFit
<1>6. QED
  BY <1>3, <1>4, <1>5 DEF Copies

(* A run appended at the end of the log: the copies still agree, because   *)
(* its sequences are new.                                                  *)
LEMMA LogJoin ==
    ASSUME NEW first \in Nat, NEW r \in Seq(StoredEvent), NEW cuts, LogInv(first, r, cuts),
           NEW b \in Seq(StoredEvent), b # <<>>, NEW t, ValidRun(first + Len(r), t, b),
           r # <<>> => t = r[Len(r)].known,
           acked \in SUBSET StoredEvent, segments \in SUBSET Seq(StoredEvent)
    PROVE  LogInv(first, r \o b, cuts \union {Len(r \o b)})
<1> DEFINE rb == r \o b
<1>0. /\ rb \in Seq(StoredEvent) /\ Len(rb) = Len(r) + Len(b)
      /\ Len(r) \in Nat /\ Len(b) \in Nat \ {0}
      /\ \A i \in 1..Len(rb) : rb[i] = IF i <= Len(r) THEN r[i] ELSE b[i - Len(r)]
  BY ConcatProperties, LenProperties, EmptySeq
<1>1. Shape(first, r, cuts) /\ SegmentsFit(first, r) /\ CopiesAgree(first, r)
  BY DEF LogInv
<1>2. Shape(first, rb, cuts \union {Len(rb)})
  <2>1. ValidRun(first, NoTime, rb)
    BY <1>1, RunJoin DEF Shape
  <2> HIDE DEF rb
  <2>2. cuts \union {Len(rb)} \subseteq 1..Len(rb)
    <3>1. \A e \in cuts : e \in 1..Len(r)
      BY <1>1 DEF Shape
    <3>2. \A e \in 1..Len(r) : e \in 1..Len(rb)
      BY <1>0
    <3>3. QED
      BY <1>0, <3>1, <3>2
  <2>3. QED
    BY <2>1, <2>2 DEF Shape
<1>3. SegmentsFit(first, rb)
  <2>1. \A g \in segments : \A i \in 1..Len(g) : g[i].seq \in Nat
    <3>1. \A g \in segments : \A i \in 1..Len(g) : g[i] \in StoredEvent
      BY ElementOfSeq
    <3>2. QED
      BY <3>1 DEF StoredEvent
  <2> HIDE DEF rb
  <2>2. QED
    BY <1>0, <1>1, <2>1 DEF SegmentsFit
<1>4. CopiesAgree(first, rb)
  <2>1. \A e \in acked : e.seq < first + Len(rb)
    <3>1. \A e \in acked : e.seq \in Nat /\ e.seq < first + Len(r)
      BY <1>1 DEF CopiesAgree, StoredEvent
    <3> HIDE DEF rb
    <3>2. QED
      BY <1>0, <3>1
  <2>2. ASSUME NEW c \in Copies(rb)
        PROVE  \/ c \in Copies(r) /\ c.seq \in Nat /\ c.seq < first + Len(r)
               \/ \E i \in 1..Len(b) : c = b[i] /\ c.seq = (first + Len(r)) + (i - 1)
    <3>1. ASSUME c \in Copies(r)
          PROVE  c.seq \in Nat /\ c.seq < first + Len(r)
      BY <3>1, CopiesBelow
    <3>2. ASSUME NEW i \in 1..Len(rb), c = rb[i], c \notin Copies(r)
          PROVE  \E j \in 1..Len(b) : c = b[j] /\ c.seq = (first + Len(r)) + (j - 1)
      <4>1. ~(i <= Len(r))
        BY <1>0, <3>2 DEF Copies
      <4>2. i - Len(r) \in 1..Len(b) /\ c = b[i - Len(r)]
        BY <1>0, <3>2, <4>1
      <4>3. \A j \in 1..Len(b) : b[j].seq = (first + Len(r)) + (j - 1)
        <5>1. first + Len(r) \in Nat
          BY <1>0
        <5>2. QED
          BY <5>1, RunSeq
      <4>4. QED
        BY <4>2, <4>3
    <3> HIDE DEF rb
    <3>3. QED
      BY <3>1, <3>2 DEF Copies
  <2>3. ASSUME NEW x \in Copies(rb), NEW y \in Copies(rb), x.seq = y.seq
        PROVE  x = y
    <3>1. CASE x \in Copies(r) /\ x.seq \in Nat /\ x.seq < first + Len(r)
      <4>1. CASE y \in Copies(r)
        BY <1>1, <2>3, <3>1, <4>1 DEF CopiesAgree
      <4>2. ASSUME NEW i \in 1..Len(b), y.seq = (first + Len(r)) + (i - 1)
            PROVE  FALSE
        BY <1>0, <2>3, <3>1, <4>2
      <4>3. QED
        BY <2>2, <4>1, <4>2
    <3>2. ASSUME NEW i \in 1..Len(b), x = b[i], x.seq = (first + Len(r)) + (i - 1)
          PROVE  x = y
      <4>1. ASSUME y.seq \in Nat, y.seq < first + Len(r)
            PROVE  FALSE
        BY <1>0, <2>3, <3>2, <4>1
      <4>2. ASSUME NEW j \in 1..Len(b), y = b[j], y.seq = (first + Len(r)) + (j - 1)
            PROVE  x = y
        <5>1. i = j
          BY <1>0, <2>3, <3>2, <4>2
        <5>2. QED
          BY <3>2, <4>2, <5>1
      <4>3. QED
        BY <2>2, <4>1, <4>2
    <3>3. QED
      BY <2>2, <3>1, <3>2
  <2>4. QED
    BY <2>1, <2>3 DEF CopiesAgree
<1>5. QED
  BY <1>2, <1>3, <1>4 DEF LogInv

(* append writes the frame of its batch.                                   *)
LEMMA AppendWrittenInv ==
    ASSUME LifeInv, job = NoJob, NEW p \in Procs, UNCHANGED lifecycleVars, AppendWritten(p)
    PROVE  LifeInv'
<1> USE ConstantsAssumption
<1>0. /\ WalTypeOK /\ LifeType /\ RestInv
      /\ \A q \in Procs : StoreStep(store[q])
      /\ \A q \in Procs : store[q].step # "closed" => lock = q
      /\ Len(wal) \in Nat
  BY AtLogStep
<1> DEFINE b == store[p].batch
<1>1. /\ store[p].step = "writing" /\ wal' = wal \o b /\ ends' = ends \union {Len(wal')}
      /\ tail' = "none" /\ store' = [store EXCEPT ![p].step = "written"]
      /\ UNCHANGED <<file, synced, syncedTail, retired, lock, acked>>
  BY DEF AppendWritten
<1>2. /\ Tells(store[p], retired, wal) /\ store[p].frames = ends /\ b # <<>> /\ file = "ready"
      /\ ValidRun(store[p].nextSequence, store[p].lastKnown, b)
  BY <1>0, <1>1 DEF StoreStep
<1>3. /\ b \in Seq(StoredEvent) /\ wal \in Seq(StoredEvent) /\ retired \in Nat
      /\ acked \in SUBSET StoredEvent /\ segments \in SUBSET Seq(StoredEvent)
      /\ store[p].nextSequence \in Nat
  BY <1>0 DEF WalTypeOK, LifeType, Store
<1> HIDE DEF b
<1>4. /\ wal' \in Seq(StoredEvent) /\ Len(wal') = Len(wal) + Len(b) /\ Len(b) \in Nat
      /\ \A i \in 1..Len(b) : wal'[Len(wal) + i] = b[i]
  BY <1>1, <1>3
<1>5. LogInv(retired, wal, ends)'
  <2>1. LogInv(retired, wal \o b, ends \union {Len(wal \o b)})
    BY <1>0, <1>2, <1>3, LogJoin DEF RestInv, Tells
  <2>2. UNCHANGED <<segments, sealed, acked, retired>>
    BY <1>1 DEF lifecycleVars
  <2>3. LogInv(retired, wal', ends')
    BY <1>1, <2>1
  <2>4. QED
    BY <2>2, <2>3 DEF LogInv, Shape, SegmentsFit, CopiesAgree, Copies, Backed
<1>6. WalTypeOK'
  <2>1. store' \in [Procs -> Store]
    BY <1>0, <1>1 DEF WalTypeOK, Store, Steps
  <2>2. ends' \in SUBSET Nat
    BY <1>0, <1>1, <1>4 DEF WalTypeOK
  <2>3. QED
    BY <1>0, <1>1, <1>4, <2>1, <2>2 DEF WalTypeOK
<1>7. (\A q \in Procs : StoreStep(store[q]))'
  <2>1. \A q \in Procs : q # p => store'[q].step = "closed"
    BY <1>0, <1>1 DEF WalTypeOK
  <2>2. /\ store'[p].step = "written" /\ store'[p].batch = b
        /\ store'[p].nextSequence = store[p].nextSequence
        /\ store'[p].frames = store[p].frames
    BY <1>0, <1>1 DEF WalTypeOK, Store, b
  <2>3. EndsIn(store[p])'
    <3>1. store[p].nextSequence = retired + Len(wal)
      BY <1>2 DEF Tells
    <3>2. ASSUME NEW i \in 1..Len(b)
          PROVE  wal'[(store[p].nextSequence - retired) + i] = b[i]
      <4>1. (store[p].nextSequence - retired) + i = Len(wal) + i
        BY <1>0, <1>3, <3>1
      <4>2. QED
        BY <1>4, <4>1
    <3>3. /\ store[p].nextSequence + Len(b) = retired + Len(wal')
          /\ retired <= store[p].nextSequence
      BY <1>0, <1>3, <1>4, <3>1
    <3>4. ends' = store[p].frames \union {Len(wal')}
      BY <1>1, <1>2
    <3>5. QED
      BY <1>1, <2>2, <3>2, <3>3, <3>4 DEF EndsIn
  <2>4. StoreStep(store[p])'
    BY <1>1, <1>2, <2>2, <2>3 DEF StoreStep
  <2>5. QED
    BY <2>1, <2>4 DEF StoreStep
<1>8. job' = NoJob /\ UNCHANGED <<segments, sealed>>
  BY DEF lifecycleVars
<1>9. HolderInv' /\ LifeType' /\ FileShape' /\ SealingInv'
  <2>1. \A q \in Procs : store'[q].step # "closed" => lock' = q
    BY <1>0, <1>1 DEF WalTypeOK
  <2>2. QED
    BY <1>0, <1>1, <1>2, <1>6, <1>8, <2>1
    DEF HolderInv, LifeType, JobType, FileShape, SealingInv, NoJob
<1>10. QED
  BY <1>5, <1>7, <1>8, <1>9 DEF LifeInv, RestInv, NoJob, RetireSteps

(* append returns the receipt of the records at the end of the log.        *)
LEMMA AppendPublishInv ==
    ASSUME LifeInv, job = NoJob, NEW p \in Procs, UNCHANGED lifecycleVars, AppendPublish(p)
    PROVE  LifeInv'
<1> USE ConstantsAssumption
<1>0. /\ WalTypeOK /\ LifeType /\ RestInv
      /\ \A q \in Procs : StoreStep(store[q])
      /\ \A q \in Procs : store[q].step # "closed" => lock = q
      /\ Len(wal) \in Nat
  BY AtLogStep
<1> DEFINE s == store[p]
           b == s.batch
           last == LastKnown(b, s.lastKnown)
           opened == OpenStore("idle", s.nextSequence + Len(b), s.frames \union {Len(wal)}, last)
<1>1. /\ s.step = "synced" /\ store' = [store EXCEPT ![p] = opened]
      /\ acked' = acked \union {b[i] : i \in DOMAIN b}
      /\ UNCHANGED <<file, wal, ends, tail, synced, syncedTail, retired, lock>>
  BY DEF AppendPublish, diskVars
<1>2. /\ s \in Store /\ b \in Seq(StoredEvent) /\ s.nextSequence \in Nat /\ s.frames \in SUBSET Nat
      /\ s.lastKnown \in Timestamp \union {NoTime}
      /\ b # <<>> /\ EndsIn(s) /\ file = "ready" /\ tail = "none"
  BY <1>0, <1>1 DEF WalTypeOK, StoreStep, Store
<1>3. Len(b) \in Nat \ {0} /\ DOMAIN b = 1..Len(b)
  BY <1>2, EmptySeq, LenProperties
<1>4. \A i \in 1..Len(b) : (s.nextSequence - retired) + i \in 1..Len(wal)
                           /\ wal[(s.nextSequence - retired) + i] = b[i]
  BY <1>0, <1>2, <1>3 DEF EndsIn, WalTypeOK
<1>5. /\ opened \in Store /\ opened.step = "idle" /\ opened.nextSequence = s.nextSequence + Len(b)
      /\ opened.frames = s.frames \union {Len(wal)} /\ opened.lastKnown = last
  <2>1. last \in Timestamp \union {NoTime}
    BY <1>2, LastKnownType
  <2>2. <<>> \in Seq(StoredEvent)
    BY EmptySeq
  <2> HIDE DEF s, b, last
  <2>3. QED
    BY <1>0, <1>2, <1>3, <2>1, <2>2 DEF OpenStore, Store, Steps
<1>6. wal # <<>> /\ last = wal[Len(wal)].known
  <2>1. wal[Len(wal)] = b[Len(b)] /\ Len(wal) # 0
    <3>1. Len(b) \in 1..Len(b) /\ (s.nextSequence - retired) + Len(b) = Len(wal)
      BY <1>0, <1>2, <1>3 DEF EndsIn, WalTypeOK
    <3> HIDE DEF s, b
    <3>2. QED
      BY <1>3, <1>4, <3>1
  <2>2. QED
    BY <1>2, <2>1 DEF LastKnown
<1>7. WalTypeOK'
  <2>1. {b[i] : i \in DOMAIN b} \subseteq StoredEvent
    BY <1>2, <1>3, ElementOfSeq
  <2> HIDE DEF s, b, opened
  <2>2. QED
    BY <1>0, <1>1, <1>5, <2>1 DEF WalTypeOK
<1>8. UNCHANGED <<segments, sealed>> /\ job' = NoJob
  BY DEF lifecycleVars
<1>9. LogInv(retired, wal, ends)'
  <2>1. Shape(retired, wal, ends) /\ SegmentsFit(retired, wal) /\ CopiesAgree(retired, wal)
    BY <1>0 DEF RestInv, LogInv
  <2>2. \A i \in DOMAIN b : \E j \in 1..Len(wal) : b[i] = wal[j] /\ wal[j].seq < retired + Len(wal)
    <3>1. \A j \in 1..Len(wal) : wal[j].seq = retired + (j - 1)
      BY <1>0, <2>1, RunSeq DEF Shape, WalTypeOK
    <3>2. \A j \in 1..Len(wal) : wal[j].seq < retired + Len(wal)
      BY <1>0, <3>1 DEF WalTypeOK
    <3> HIDE DEF s, b
    <3>3. QED
      BY <1>3, <1>4, <3>2
  <2> HIDE DEF s, b, opened
  <2>3. \A c : c \in Copies(wal)' => c \in Copies(wal)
    BY <1>1, <1>8, <2>2 DEF Copies
  <2>4. CopiesAgree(retired, wal)'
    BY <1>1, <2>1, <2>2, <2>3 DEF CopiesAgree
  <2>5. QED
    BY <1>1, <1>8, <2>1, <2>4 DEF LogInv, Shape, SegmentsFit, Backed
<1>10. (\A q \in Procs : StoreStep(store[q]))'
  <2>1. \A q \in Procs : q # p => store'[q].step = "closed"
    BY <1>0, <1>1 DEF WalTypeOK
  <2>2. store'[p] = opened
    BY <1>0, <1>1 DEF WalTypeOK
  <2> HIDE DEF opened, last, s
  <2>3. /\ store'[p].nextSequence = retired' + Len(wal') /\ store'[p].frames = ends'
        /\ store'[p].lastKnown = wal'[Len(wal')].known /\ store'[p].step = "idle"
    BY <1>1, <1>2, <1>5, <1>6, <2>2 DEF EndsIn
  <2>4. StoreStep(store[p])'
    BY <1>1, <1>2, <2>3 DEF StoreStep, Tells
  <2>5. QED
    BY <2>1, <2>4 DEF StoreStep
<1>11. HolderInv' /\ LifeType' /\ FileShape' /\ SealingInv'
  <2>1. \A q \in Procs : store'[q].step # "closed" => lock' = q
    BY <1>0, <1>1 DEF WalTypeOK
  <2>2. QED
    BY <1>0, <1>1, <1>2, <1>7, <1>8, <2>1
    DEF HolderInv, LifeType, JobType, FileShape, SealingInv, NoJob
<1>12. QED
  BY <1>8, <1>9, <1>10, <1>11 DEF LifeInv, RestInv, NoJob, RetireSteps

-----------------------------------------------------------------------------
(* The frame table.  Sets of naturals have a least element, bounded ones a *)
(* greatest.                                                               *)
LEMMA MinIsLeast ==
    ASSUME NEW S \in SUBSET Nat, S # {}
    PROVE  Min(S) \in S /\ \A y \in S : Min(S) <= y
<1>1. PICK x \in S : \A y \in S : ~(<<y, x>> \in OpToRel(<, Nat))
  BY NatLessThanWellFounded, WFMin, Zenon
<1>2. \A y \in S : ~(y < x)
  BY <1>1 DEF OpToRel
<1>3. \A y \in S : x <= y
  BY <1>2
<1>4. QED
  BY <1>3 DEF Min

LEMMA MaxIsGreatest ==
    ASSUME NEW n \in Nat, NEW S \in SUBSET (0..n), S # {}
    PROVE  Max(S) \in S /\ \A y \in S : y <= Max(S)
<1> DEFINE T == {n - x : x \in S}
<1>1. T \in SUBSET Nat /\ T # {}
  <2>1. \A x \in S : n - x \in Nat
    OBVIOUS
  <2>2. QED
    BY <2>1, Zenon
<1>2. PICK t \in T : \A y \in T : t <= y
  <2> HIDE DEF T
  <2>1. QED
    BY <1>1, MinIsLeast
<1>3. PICK x \in S : t = n - x
  OBVIOUS
<1>4. ASSUME NEW y \in S PROVE x >= y
  <2>1. n - y \in T /\ t <= n - y
    BY <1>2
  <2>2. QED
    BY <1>3, <2>1
<1>5. Max(S) \in S /\ \A y \in S : Max(S) >= y
  BY <1>4 DEF Max
<1>6. QED
  BY <1>5

(* FirstInWal is where the log starts.                                     *)
LEMMA FirstIsFirst ==
    ASSUME NEW first \in Nat, NEW records \in Seq(StoredEvent), NEW s,
           Shape(first, records, s.frames), Tells(s, first, records)
    PROVE  FirstInWal(s) = first
<1>0. Len(records) \in Nat
  BY LenProperties
<1> DEFINE S == {0} \union s.frames
<1>1. S \in SUBSET (0..Len(records)) /\ S # {} /\ Len(records) \in S
  BY <1>0 DEF Shape
<1> HIDE DEF S
<1>2. Max(S) \in S /\ \A y \in S : y <= Max(S)
  BY <1>0, <1>1, MaxIsGreatest
<1>3. Max(S) = Len(records)
  <2>1. Max(S) \in 0..Len(records) /\ Len(records) <= Max(S)
    BY <1>1, <1>2
  <2>2. QED
    BY <1>0, <2>1
<1>4. QED
  BY <1>0, <1>3 DEF FirstInWal, Tells, S

(* The frame after a position.                                             *)
LEMMA NextFrame ==
    ASSUME NEW first \in Nat, NEW records \in Seq(StoredEvent), NEW s,
           Shape(first, records, s.frames), NEW pos \in Nat, NEW e \in s.frames, e > pos
    PROVE  /\ FrameEnd(s, pos) \in s.frames
           /\ FrameEnd(s, pos) \in 1..Len(records)
           /\ pos < FrameEnd(s, pos) /\ FrameEnd(s, pos) <= e
<1> DEFINE S == {x \in s.frames : x > pos}
<1>1. S \in SUBSET Nat /\ e \in S /\ S # {}
  BY DEF Shape
<1> HIDE DEF S
<1>2. Min(S) \in S /\ \A y \in S : Min(S) <= y
  BY <1>1, MinIsLeast
<1>3. Min(S) \in s.frames /\ pos < Min(S) /\ Min(S) <= e
  BY <1>1, <1>2 DEF S
<1>4. Min(S) \in 1..Len(records)
  BY <1>3 DEF Shape
<1>5. QED
  BY <1>3, <1>4 DEF FrameEnd, S

(* What a step of seal or retire_wal starts from.                          *)
LEMMA AtRestStep ==
    ASSUME LifeInv, NEW p \in Procs, store[p].step = "idle", job.step \notin RetireSteps
    PROVE  /\ LifeType /\ WalTypeOK /\ HolderInv /\ RestInv /\ SealingInv /\ FileShape
           /\ lock = p /\ file = "ready" /\ tail = "none"
           /\ Tells(store[p], retired, wal) /\ store[p].frames = ends
           /\ Shape(retired, wal, ends) /\ Shape(retired, wal, store[p].frames)
           /\ SegmentsFit(retired, wal) /\ CopiesAgree(retired, wal)
           /\ wal \in Seq(StoredEvent) /\ Len(wal) \in Nat /\ retired \in Nat
           /\ segments \in SUBSET Seq(StoredEvent) /\ acked \in SUBSET StoredEvent
           /\ sealed \in SUBSET (Nat \X Nat)
           /\ \A q \in Procs : StoreStep(store[q])
<1>1. LifeType /\ HolderInv /\ RestInv
  BY DEF LifeInv
<1>2. /\ LogInv(retired, wal, ends) /\ SealingInv /\ FileShape /\ StoreStep(store[p])
      /\ \A q \in Procs : StoreStep(store[q])
  BY <1>1 DEF RestInv
<1>3. lock = p /\ WalTypeOK
  BY <1>1 DEF HolderInv, LifeType
<1>4. tail = "none" /\ file = "ready" /\ Tells(store[p], retired, wal) /\ store[p].frames = ends
  BY <1>2 DEF StoreStep
<1>5. /\ wal \in Seq(StoredEvent) /\ Len(wal) \in Nat /\ retired \in Nat
      /\ segments \in SUBSET Seq(StoredEvent) /\ acked \in SUBSET StoredEvent
      /\ sealed \in SUBSET (Nat \X Nat)
  BY <1>1, LenProperties DEF LifeType, WalTypeOK
<1>6. Shape(retired, wal, ends) /\ SegmentsFit(retired, wal) /\ CopiesAgree(retired, wal)
  BY <1>2 DEF LogInv
<1>7. Shape(retired, wal, store[p].frames)
  BY <1>4, <1>6
<1>8. QED
  BY <1>1, <1>2, <1>3, <1>4, <1>5, <1>6, <1>7

(* seal starts, fails or saves the manifest: the log and the segments stay. *)
LEMMA SealBeginInv ==
    ASSUME LifeInv, NEW p \in Procs, SealBegin(p)
    PROVE  LifeInv'
<1>1. /\ store[p].step = "idle" /\ job = NoJob
      /\ job' = [step |-> "sealing", at |-> 0, sealed |-> sealed]
      /\ UNCHANGED <<file, wal, ends, tail, synced, syncedTail, retired, lock, store, acked>>
      /\ UNCHANGED <<segments, sealed>>
  BY DEF SealBegin, Idle, walVars, diskVars
<1>2. job.step \notin RetireSteps /\ job'.step = "sealing" /\ job'.step \notin RetireSteps
      /\ job'.at = 0 /\ job'.sealed = sealed
  BY <1>1 DEF NoJob, RetireSteps
<1>3. /\ LifeType /\ WalTypeOK /\ HolderInv /\ RestInv /\ FileShape /\ lock = p
      /\ file = "ready" /\ SegmentsFit(retired, wal) /\ retired \in Nat
      /\ sealed \in SUBSET (Nat \X Nat) /\ \A q \in Procs : StoreStep(store[q])
  BY <1>1, <1>2, AtRestStep
<1>4. LifeType'
  <2>1. WalTypeOK'
    BY <1>1, <1>3 DEF WalTypeOK
  <2>2. JobType'
    BY <1>1, <1>3 DEF JobType
  <2>3. QED
    BY <1>1, <1>3, <2>1, <2>2 DEF LifeType
<1>5. HolderInv'
  BY <1>1, <1>3 DEF HolderInv
<1>6. SealingInv'
  <2>1. Backed(sealed)' /\ DownClosed(sealed) /\ SealedBelow(sealed, retired)
    BY <1>1, <1>3 DEF SegmentsFit, Backed
  <2>2. retired + 0 = retired
    BY <1>3
  <2>3. QED
    BY <1>1, <1>2, <2>1, <2>2 DEF SealingInv, Backed
<1>7. FileShape' /\ (\A q \in Procs : StoreStep(store[q]))'
  BY <1>1, <1>3 DEF FileShape, StoreStep, Tells, EndsIn
<1>8. QED
  BY <1>1, <1>2, <1>3, <1>4, <1>5, <1>6, <1>7, SameLog

LEMMA SealFailInv ==
    ASSUME LifeInv, NEW p \in Procs, SealFail(p)
    PROVE  LifeInv'
<1>1. /\ store[p].step = "idle" /\ job.step = "sealing" /\ job' = NoJob
      /\ UNCHANGED <<file, wal, ends, tail, synced, syncedTail, retired, lock, store, acked>>
      /\ UNCHANGED <<segments, sealed>>
  BY DEF SealFail, walVars, diskVars
<1>2. job.step \notin RetireSteps /\ job'.step \notin RetireSteps /\ job'.step # "sealing"
  BY <1>1 DEF NoJob, RetireSteps
<1>3. /\ LifeType /\ WalTypeOK /\ HolderInv /\ RestInv /\ FileShape
      /\ \A q \in Procs : StoreStep(store[q])
  BY <1>1, <1>2, AtRestStep
<1>4. LifeType' /\ HolderInv' /\ SealingInv'
  BY <1>1, <1>2, <1>3 DEF LifeType, WalTypeOK, JobType, HolderInv, SealingInv
<1>5. FileShape' /\ (\A q \in Procs : StoreStep(store[q]))'
  BY <1>1, <1>3 DEF FileShape, StoreStep, Tells, EndsIn
<1>6. QED
  BY <1>1, <1>2, <1>3, <1>4, <1>5, SameLog

LEMMA SealSaveInv ==
    ASSUME LifeInv, NEW p \in Procs, SealSave(p)
    PROVE  LifeInv'
<1>1. /\ store[p].step = "idle" /\ job.step = "sealing" /\ job' = NoJob /\ sealed' = job.sealed
      /\ UNCHANGED <<file, wal, ends, tail, synced, syncedTail, retired, lock, store, acked>>
      /\ UNCHANGED segments
  BY DEF SealSave, walVars, diskVars
<1>2. job.step \notin RetireSteps /\ job'.step \notin RetireSteps /\ job'.step # "sealing"
  BY <1>1 DEF NoJob, RetireSteps
<1>3. /\ LifeType /\ WalTypeOK /\ HolderInv /\ RestInv /\ FileShape /\ SealingInv
      /\ Shape(retired, wal, ends) /\ SegmentsFit(retired, wal) /\ CopiesAgree(retired, wal)
      /\ \A q \in Procs : StoreStep(store[q])
      /\ retired \in Nat
  BY <1>1, <1>2, AtRestStep
<1>4. job.at \in Nat /\ job.sealed \in SUBSET (Nat \X Nat)
  BY <1>1, <1>3 DEF LifeType, JobType, NoJob, RetireSteps
<1>5. LifeType' /\ HolderInv' /\ SealingInv'
  BY <1>1, <1>2, <1>3, <1>4 DEF LifeType, WalTypeOK, JobType, HolderInv, SealingInv
<1>6. FileShape' /\ (\A q \in Procs : StoreStep(store[q]))'
  BY <1>1, <1>3 DEF FileShape, StoreStep, Tells, EndsIn
<1>7. SegmentsFit(retired, wal)'
  <2>1. Backed(job.sealed) /\ DownClosed(job.sealed) /\ SealedBelow(job.sealed, retired + job.at)
    BY <1>1, <1>3 DEF SealingInv
  <2>2. SealedBelow(job.sealed, retired)
    BY <1>3, <1>4, <2>1 DEF SealedBelow
  <2>3. QED
    BY <1>1, <1>3, <2>1, <2>2 DEF SegmentsFit, Backed
<1>8. LogInv(retired, wal, ends)'
  BY <1>1, <1>3, <1>7 DEF LogInv, Shape, CopiesAgree, Copies
<1>9. QED
  BY <1>2, <1>5, <1>6, <1>8 DEF LifeInv, RestInv

(* The sealed ranges stay closed downwards when the next one is added.     *)
LEMMA SealNext ==
    ASSUME NEW ranges \in SUBSET (Nat \X Nat), NEW a \in Nat, NEW z \in Nat,
           DownClosed(ranges), SealedBelow(ranges, a)
    PROVE  /\ DownClosed(ranges \union {<<a, z>>})
           /\ SealedBelow(ranges \union {<<a, z>>}, z + 1)
<1> DEFINE more == ranges \union {<<a, z>>}
<1>1. ASSUME NEW t \in Nat
      PROVE  IsSequenceSealed(more, t) <=> IsSequenceSealed(ranges, t) \/ (a <= t /\ t <= z)
  <2> DEFINE q == <<a, z>>
  <2>1. q[1] = a /\ q[2] = z /\ more = ranges \union {q}
    OBVIOUS
  <2> HIDE DEF q, more
  <2>2. QED
    BY <2>1 DEF IsSequenceSealed
<1> HIDE DEF more
<1>2. DownClosed(more)
  <2> SUFFICES ASSUME NEW x \in Nat, NEW t \in Nat, IsSequenceSealed(more, x), t <= x
               PROVE  IsSequenceSealed(more, t)
    BY DEF DownClosed
  <2>1. CASE IsSequenceSealed(ranges, x)
    BY <1>1, <2>1 DEF DownClosed
  <2>2. CASE a <= x /\ x <= z
    <3>1. CASE t < a
      BY <1>1, <3>1 DEF SealedBelow
    <3>2. CASE ~(t < a)
      BY <1>1, <2>2, <3>2
    <3>3. QED
      BY <3>1, <3>2
  <2>3. QED
    BY <1>1, <2>1, <2>2
<1>3. SealedBelow(more, z + 1)
  <2> SUFFICES ASSUME NEW t \in Nat, t < z + 1
               PROVE  IsSequenceSealed(more, t)
    BY DEF SealedBelow
  <2>1. CASE t < a
    BY <1>1, <2>1 DEF SealedBelow
  <2>2. CASE ~(t < a)
    BY <1>1, <2>2
  <2>3. QED
    BY <2>1, <2>2
<1>4. QED
  BY <1>2, <1>3 DEF more

(* The records of a frame.                                                 *)
LEMMA FrameSlice ==
    ASSUME NEW r \in Seq(StoredEvent), NEW a \in Nat, NEW e \in 1..Len(r), a < e,
           NEW frame, frame = SubSeq(r, a + 1, e)
    PROVE  /\ frame \in Seq(StoredEvent) /\ frame # <<>> /\ Len(frame) = e - a
           /\ Len(frame) \in Nat
           /\ \A i \in 1..Len(frame) : a + i \in 1..Len(r) /\ frame[i] = r[a + i]
<1>1. Len(r) \in Nat /\ a + 1 \in 1..Len(r)
  OBVIOUS
<1>2. Len(frame) = e - a
  BY <1>1
<1>3. \A i \in 1..(e - a) : frame[i] = r[(a + 1) + i - 1] /\ (a + 1) + i - 1 = a + i
  BY <1>1
<1>4. \A k \in 1..Len(r) : r[k] \in StoredEvent
  BY ElementOfSeq
<1>5. frame \in Seq(StoredEvent)
  BY <1>1, <1>4
<1>6. \A i \in 1..(e - a) : a + i \in 1..Len(r)
  BY <1>1
<1>7. frame # <<>>
  BY <1>1, <1>2, <1>5
<1>8. QED
  BY <1>1, <1>2, <1>3, <1>5, <1>6, <1>7

(* seal exports a frame of the WAL as a segment of the same records.       *)
LEMMA SealFrameInv ==
    ASSUME LifeInv, NEW p \in Procs, SealFrame(p)
    PROVE  LifeInv'
<1> DEFINE s == store[p]
           e == FrameEnd(s, job.at)
           frame == FrameAt(s, job.at)
<1>1. /\ store[p].step = "idle" /\ job.step = "sealing"
      /\ \E x \in s.frames : x > job.at
      /\ segments' = segments \union {frame}
      /\ job' = [job EXCEPT !.at = @ + Len(frame), !.sealed = @ \union {RangeOf(frame)}]
      /\ UNCHANGED <<file, wal, ends, tail, synced, syncedTail, retired, lock, store, acked>>
      /\ UNCHANGED sealed
  BY DEF SealFrame, walVars, diskVars
<1>2. job.step \notin RetireSteps
  BY <1>1 DEF RetireSteps
<1>3. /\ LifeType /\ WalTypeOK /\ HolderInv /\ RestInv /\ SealingInv /\ FileShape
      /\ lock = p /\ file = "ready" /\ store[p].frames = ends
      /\ Shape(retired, wal, ends) /\ Shape(retired, wal, store[p].frames)
      /\ SegmentsFit(retired, wal) /\ CopiesAgree(retired, wal)
      /\ wal \in Seq(StoredEvent) /\ Len(wal) \in Nat /\ retired \in Nat
      /\ segments \in SUBSET Seq(StoredEvent)
      /\ \A q \in Procs : StoreStep(store[q])
  BY <1>1, <1>2, AtRestStep
<1>4. job \in [step : {"sealing"}, at : Nat, sealed : SUBSET (Nat \X Nat)]
  BY <1>1, <1>3 DEF LifeType, JobType, NoJob, RetireSteps
<1>5. job.at \in Nat /\ job.sealed \in SUBSET (Nat \X Nat)
  BY <1>4
<1>6. e \in ends /\ e \in 1..Len(wal) /\ job.at < e
  BY <1>1, <1>3, <1>5, NextFrame
<1>7. /\ frame \in Seq(StoredEvent) /\ frame # <<>> /\ Len(frame) = e - job.at
      /\ Len(frame) \in Nat
      /\ \A i \in 1..Len(frame) : job.at + i \in 1..Len(wal) /\ frame[i] = wal[job.at + i]
  <2>1. frame = SubSeq(wal, job.at + 1, e)
    BY DEF FrameAt
  <2> DEFINE at == job.at
  <2> HIDE DEF frame, e
  <2>2. /\ wal \in Seq(StoredEvent) /\ at \in Nat /\ e \in 1..Len(wal) /\ at < e
        /\ frame = SubSeq(wal, at + 1, e)
    BY <1>3, <1>5, <1>6, <2>1
  <2> HIDE DEF at
  <2>3. /\ frame \in Seq(StoredEvent) /\ frame # <<>> /\ Len(frame) = e - at
        /\ Len(frame) \in Nat
        /\ \A i \in 1..Len(frame) : at + i \in 1..Len(wal) /\ frame[i] = wal[at + i]
    BY <2>2, FrameSlice
  <2>4. QED
    BY <2>3 DEF at
<1> HIDE DEF frame, e, s
<1>8. \A i \in 1..Len(frame) : frame[i].seq = (retired + job.at) + (i - 1)
  <2>1. \A i \in 1..Len(wal) : wal[i].seq = retired + (i - 1)
    BY <1>3, RunSeq DEF Shape
  <2>2. ASSUME NEW i \in 1..Len(frame)
        PROVE  frame[i].seq = (retired + job.at) + (i - 1)
    <3>1. frame[i].seq = retired + ((job.at + i) - 1)
      BY <1>7, <2>1
    <3>2. retired + ((job.at + i) - 1) = (retired + job.at) + (i - 1)
      BY <1>3, <1>5, <1>7
    <3>3. QED
      BY <3>1, <3>2
  <2>3. QED
    BY <2>2
<1> DEFINE a == retired + job.at
           z == (retired + e) - 1
<1>9. /\ a \in Nat /\ z \in Nat /\ z + 1 = retired + e /\ RangeOf(frame) = <<a, z>>
  <2>1. a \in Nat /\ z \in Nat /\ z + 1 = retired + e
    BY <1>3, <1>5, <1>6
  <2>2. 1 \in 1..Len(frame) /\ Len(frame) \in 1..Len(frame)
    BY <1>5, <1>6, <1>7
  <2>3. frame[1].seq = a /\ frame[Len(frame)].seq = a + (Len(frame) - 1)
    BY <1>8, <2>1, <2>2
  <2>4. a + (Len(frame) - 1) = z
    BY <1>3, <1>5, <1>6, <1>7
  <2> HIDE DEF a, z
  <2>5. QED
    BY <2>1, <2>3, <2>4 DEF RangeOf
<1> HIDE DEF a, z
<1>10. /\ job' \in [step : {"sealing"}, at : Nat, sealed : SUBSET (Nat \X Nat)]
       /\ job'.step = "sealing" /\ job'.at = e /\ job'.sealed = job.sealed \union {<<a, z>>}
  <2>1. job.at + Len(frame) = e /\ e \in Nat
    BY <1>3, <1>5, <1>6, <1>7
  <2>2. job' = [job EXCEPT !.at = e, !.sealed = job.sealed \union {<<a, z>>}]
    BY <1>1, <1>9, <2>1
  <2>3. job.sealed \union {<<a, z>>} \in SUBSET (Nat \X Nat)
    BY <1>5, <1>9
  <2>4. QED
    BY <1>4, <2>1, <2>2, <2>3
<1>11. SealingInv'
  <2>1. Backed(job.sealed) /\ DownClosed(job.sealed) /\ SealedBelow(job.sealed, a)
    BY <1>1, <1>3 DEF SealingInv, a
  <2>2. /\ DownClosed(job.sealed \union {<<a, z>>})
        /\ SealedBelow(job.sealed \union {<<a, z>>}, z + 1)
    BY <1>5, <1>9, <2>1, SealNext
  <2>3. \A r \in job.sealed \union {<<a, z>>} : \E g \in segments' : RangeOf(g) = r
    BY <1>1, <1>9, <2>1 DEF Backed
  <2>4. QED
    BY <1>1, <1>6, <1>9, <1>10, <2>2, <2>3 DEF SealingInv, Backed
<1>12. SegmentsFit(retired, wal)'
  <2>1. ASSUME NEW i \in 1..Len(frame)
        PROVE  frame[i].seq = frame[1].seq + (i - 1) /\ frame[i].seq < retired + Len(wal)
    <3>1. 1 \in 1..Len(frame) /\ frame[1].seq = a + (1 - 1) /\ frame[i].seq = a + (i - 1)
      BY <1>7, <1>8 DEF a
    <3>2. a + (i - 1) < retired + Len(wal)
      BY <1>3, <1>5, <1>6, <1>7 DEF a
    <3>3. QED
      BY <1>9, <3>1, <3>2
  <2>2. Backed(sealed)'
    BY <1>1, <1>3 DEF SegmentsFit, Backed
  <2>3. \A g \in segments' : /\ g # <<>>
                             /\ \A i \in 1..Len(g) : /\ g[i].seq = g[1].seq + (i - 1)
                                                     /\ g[i].seq < retired + Len(wal)
    BY <1>1, <1>3, <1>7, <2>1 DEF SegmentsFit
  <2>4. QED
    BY <1>1, <1>3, <2>2, <2>3 DEF SegmentsFit
<1>13. CopiesAgree(retired, wal)'
  <2>1. ASSUME NEW c \in Copies(wal)' PROVE c \in Copies(wal)
    BY <1>1, <1>7 DEF Copies
  <2>2. QED
    BY <1>1, <1>3, <2>1 DEF CopiesAgree
<1>14. LogInv(retired, wal, ends)'
  BY <1>1, <1>3, <1>12, <1>13 DEF LogInv, Shape
<1>15. LifeType' /\ HolderInv'
  <2>1. WalTypeOK' /\ HolderInv'
    BY <1>1, <1>3 DEF WalTypeOK, HolderInv
  <2>2. QED
    BY <1>1, <1>3, <1>7, <1>10, <2>1 DEF LifeType, JobType
<1>16. FileShape' /\ (\A q \in Procs : StoreStep(store[q]))'
  BY <1>1, <1>3 DEF FileShape, StoreStep, Tells, EndsIn
<1>17. QED
  BY <1>10, <1>11, <1>14, <1>15, <1>16 DEF LifeInv, RestInv, RetireSteps

-----------------------------------------------------------------------------
(* A record whose sequence is sealed is in a segment.                      *)
LEMMA SealedCopy ==
    ASSUME NEW first \in Nat, NEW records \in Seq(StoredEvent),
           SegmentsFit(first, records), CopiesAgree(first, records),
           sealed \in SUBSET (Nat \X Nat), segments \in SUBSET Seq(StoredEvent),
           NEW c \in Copies(records), c.seq \in Nat, IsSequenceSealed(sealed, c.seq)
    PROVE  \E g \in segments : \E j \in 1..Len(g) :
              RangeOf(g) \in sealed /\ g[j] = c
                  /\ RangeOf(g)[1] <= c.seq /\ c.seq <= RangeOf(g)[2]
<1>1. PICK r \in sealed : r[1] <= c.seq /\ c.seq <= r[2]
  BY DEF IsSequenceSealed
<1>2. r[1] \in Nat /\ r[2] \in Nat
  OBVIOUS
<1>3. PICK g \in segments : RangeOf(g) = r
  BY DEF SegmentsFit, Backed
<1>4. g \in Seq(StoredEvent) /\ g # <<>> /\ Len(g) \in Nat \ {0}
  BY EmptySeq, LenProperties DEF SegmentsFit
<1>5. g[1].seq = r[1] /\ g[Len(g)].seq = r[2]
  BY <1>3 DEF RangeOf
<1>6. \A i \in 1..Len(g) : g[i].seq = r[1] + (i - 1)
  BY <1>5 DEF SegmentsFit
<1>7. r[2] = r[1] + (Len(g) - 1)
  BY <1>4, <1>5, <1>6
<1> DEFINE j == (c.seq - r[1]) + 1
<1>8. j \in 1..Len(g) /\ r[1] + (j - 1) = c.seq
  BY <1>1, <1>2, <1>4, <1>7
<1> HIDE DEF j
<1>9. g[j].seq = c.seq /\ g[j] \in Copies(records)
  BY <1>6, <1>8 DEF Copies
<1>10. g[j] = c
  BY <1>9 DEF CopiesAgree
<1>11. QED
  BY <1>1, <1>3, <1>8, <1>10

(* A frame that is not blocked is sealed as a whole and free of holds.     *)
LEMMA UnblockedFrame ==
    ASSUME NEW first \in Nat, NEW records \in Seq(StoredEvent), NEW s, NEW holds,
           Shape(first, records, s.frames), Tells(s, first, records), DownClosed(sealed),
           NEW pos \in Nat, NEW e \in s.frames, e > pos, ~Blocked(s, holds, pos),
           NEW i \in Nat, pos < i, i <= FrameEnd(s, pos)
    PROVE  IsSequenceSealed(sealed, first + (i - 1)) /\ first + (i - 1) \notin holds
<1> DEFINE end == FrameEnd(s, pos)
           a == first + pos
           z == first + (end - 1)
<1>1. end \in Nat /\ pos < end /\ FirstInWal(s) = first
  BY NextFrame, FirstIsFirst
<1> HIDE DEF end
<1>2. FrameRange(s, pos) = <<a, z>>
  <2>1. first + end - 1 = z
    BY <1>1
  <2>2. QED
    BY <1>1, <2>1 DEF FrameRange, end
<1>3. a \in Nat /\ z \in Nat /\ first + (i - 1) \in a..z /\ first + (i - 1) \in Nat
      /\ first + (i - 1) <= z
  BY <1>1 DEF end
<1>4. IsSequenceSealed(sealed, z) /\ ~\E x \in a..z : x \in holds
  <2> DEFINE q == <<a, z>>
  <2>1. q[1] = a /\ q[2] = z /\ FrameRange(s, pos) = q
    BY <1>2
  <2> HIDE DEF q, a, z
  <2>2. QED
    BY <2>1 DEF Blocked
<1> HIDE DEF a, z
<1>5. QED
  BY <1>3, <1>4 DEF DownClosed

(* What retire_wal may cut off: whole frames, all sealed and none held.    *)
LEMMA EligiblePrefix ==
    ASSUME NEW first \in Nat, NEW records \in Seq(StoredEvent), NEW s, NEW holds,
           Shape(first, records, s.frames), Tells(s, first, records), DownClosed(sealed),
           NEW cut, cut = Eligible(s, holds), cut > 0
    PROVE  /\ cut \in s.frames /\ cut \in 1..Len(records)
           /\ \A i \in 1..cut : /\ IsSequenceSealed(sealed, first + (i - 1))
                                /\ first + (i - 1) \notin holds
<1> DEFINE free == {e \in s.frames :
                      \A pos \in {0} \union s.frames : pos < e => ~Blocked(s, holds, pos)}
           S == {0} \union free
<1>0. Len(records) \in Nat /\ s.frames \subseteq 1..Len(records)
  BY LenProperties DEF Shape
<1>1. S \in SUBSET (0..Len(records)) /\ S # {}
  BY <1>0
<1>2. cut \in S
  <2>1. cut = Max(S)
    BY DEF Eligible
  <2> HIDE DEF S
  <2>2. QED
    BY <1>0, <1>1, <2>1, MaxIsGreatest
<1>3. cut \in s.frames /\ cut \in 1..Len(records)
      /\ \A pos \in {0} \union s.frames : pos < cut => ~Blocked(s, holds, pos)
  BY <1>0, <1>2
<1>4. ASSUME NEW i \in 1..cut
      PROVE  IsSequenceSealed(sealed, first + (i - 1)) /\ first + (i - 1) \notin holds
  <2> DEFINE before == {x \in {0} \union s.frames : x < i}
  <2>1. before \in SUBSET (0..Len(records)) /\ 0 \in before /\ before # {}
    BY <1>0, <1>4
  <2> DEFINE pos == Max(before)
  <2>2. pos \in before /\ \A y \in before : y <= pos
    <3> HIDE DEF before
    <3>1. QED
      BY <1>0, <2>1, MaxIsGreatest
  <2>3. pos \in {0} \union s.frames /\ pos < i /\ pos \in Nat
    BY <1>0, <2>2
  <2>4. \A x \in s.frames : x < i => x <= pos
    BY <2>2
  <2> HIDE DEF pos, before
  <2>5. pos < cut /\ ~Blocked(s, holds, pos)
    BY <1>3, <2>3
  <2>6. FrameEnd(s, pos) \in s.frames /\ FrameEnd(s, pos) \in Nat /\ pos < FrameEnd(s, pos)
    BY <1>3, <2>3, <2>5, NextFrame
  <2>7. i <= FrameEnd(s, pos)
    BY <1>3, <2>3, <2>4, <2>6
  <2>8. QED
    BY <1>3, <2>3, <2>5, <2>7, UnblockedFrame
<1>5. QED
  BY <1>3, <1>4

(* The arithmetic of a cut, and the frame ends it leaves.                  *)
LEMMA CutLength ==
    ASSUME NEW a \in Nat, NEW n \in Nat, NEW c \in 1..n, NEW m, m = n - c
    PROVE  a + n = (a + c) + m
OBVIOUS

LEMMA ShiftedEnds ==
    ASSUME NEW n \in Nat, NEW c \in 1..n, NEW m, m = n - c,
           NEW cuts, cuts \subseteq 1..n, n \in cuts \union {0}
    PROVE  Shifted(cuts, c) \subseteq 1..m /\ m \in Shifted(cuts, c) \union {0}
<1>1. \A e \in cuts : e > c => e - c \in 1..m
  OBVIOUS
<1>2. Shifted(cuts, c) \subseteq 1..m
  BY <1>1 DEF Shifted
<1>3. m # 0 => n \in cuts /\ n > c
  OBVIOUS
<1>4. QED
  BY <1>2, <1>3 DEF Shifted

(* The records after a cut, and the file they are written over.            *)
LEMMA AfterCut ==
    ASSUME NEW r \in Seq(StoredEvent), NEW cut \in 1..Len(r),
           NEW k, k = SubSeq(r, cut + 1, Len(r))
    PROVE  /\ k \in Seq(StoredEvent) /\ Len(k) = Len(r) - cut /\ Len(k) \in Nat
           /\ \A i \in 1..Len(k) : cut + i \in 1..Len(r) /\ k[i] = r[cut + i]
<1>1. Len(r) \in Nat /\ Len(k) = Len(r) - cut /\ Len(k) \in Nat /\ k \in Seq(StoredEvent)
  OBVIOUS
<1>2. \A i \in 1..(Len(r) - cut) : k[i] = r[(cut + 1) + i - 1] /\ (cut + 1) + i - 1 = cut + i
  BY <1>1
<1>3. QED
  BY <1>1, <1>2

LEMMA Overwritten ==
    ASSUME NEW r \in Seq(StoredEvent), NEW k \in Seq(StoredEvent), Len(k) <= Len(r)
    PROVE  k \o SubSeq(r, Len(k) + 1, Len(r)) \in Seq(StoredEvent)
<1> DEFINE rest == SubSeq(r, Len(k) + 1, Len(r))
<1>1. Len(r) \in Nat /\ Len(k) \in Nat
  OBVIOUS
<1>2. rest \in Seq(StoredEvent)
  BY <1>1
<1> HIDE DEF rest
<1>3. QED
  BY <1>2 DEF rest

(* A log without its beginning is a log, if what goes is sealed.           *)
LEMMA CutLog ==
    ASSUME NEW first \in Nat, NEW r \in Seq(StoredEvent), NEW cuts, LogInv(first, r, cuts),
           NEW cut \in 1..Len(r), SealedBelow(sealed, first + cut),
           NEW k \in Seq(StoredEvent), Len(k) = Len(r) - cut,
           \A i \in 1..Len(k) : cut + i \in 1..Len(r) /\ k[i] = r[cut + i],
           ValidRun(first + cut, NoTime, k)
    PROVE  /\ Shifted(cuts, cut) \subseteq 1..Len(k)
           /\ LogInv(first + cut, k, Shifted(cuts, cut))
<1>0. Len(r) \in Nat /\ Len(k) \in Nat
      /\ Shape(first, r, cuts) /\ SegmentsFit(first, r) /\ CopiesAgree(first, r)
  BY LenProperties DEF LogInv
<1>1. first + Len(r) = (first + cut) + Len(k)
  BY <1>0, CutLength
<1>2. Shifted(cuts, cut) \subseteq 1..Len(k) /\ Len(k) \in Shifted(cuts, cut) \union {0}
  BY <1>0, ShiftedEnds DEF Shape
<1>3. Shape(first + cut, k, Shifted(cuts, cut))
  BY <1>2 DEF Shape
<1>4. SegmentsFit(first + cut, k)
  BY <1>0, <1>1 DEF SegmentsFit
<1>5. CopiesAgree(first + cut, k)
  <2>1. ASSUME NEW c \in Copies(k) PROVE c \in Copies(r)
    BY DEF Copies
  <2>2. QED
    BY <1>0, <1>1, <2>1 DEF CopiesAgree
<1>6. QED
  BY <1>2, <1>3, <1>4, <1>5 DEF LogInv

(* retire_wal writes the remaining frames over the retired ones.           *)
LEMMA RetireWriteInv ==
    ASSUME LifeInv, NEW p \in Procs, NEW holds \in HoldSets, RetireWrite(p, holds)
    PROVE  LifeInv'
<1> DEFINE s == store[p]
           cut == Eligible(s, holds)
           kept == SubSeq(wal, cut + 1, Len(wal))
           upTo == FirstInWal(s) + cut - 1
<1>1. /\ s.step = "idle" /\ job = NoJob /\ cut > 0
      /\ wal' = kept \o SubSeq(wal, Len(kept) + 1, Len(wal))
      /\ ends' = Shifted(ends, cut) \union {e \in ends : e > Len(kept)}
      /\ job' = [step |-> "overwritten", cut |-> cut, kept |-> Len(kept),
                 upTo |-> upTo, holds |-> holds, old |-> wal]
      /\ UNCHANGED <<file, tail, synced, syncedTail, retired, lock, store, acked>>
      /\ UNCHANGED <<segments, sealed>>
  BY DEF RetireWrite, Idle
<1>2. job.step \notin RetireSteps
  BY <1>1 DEF NoJob, RetireSteps
<1>3. /\ LifeType /\ WalTypeOK /\ HolderInv /\ RestInv
      /\ lock = p /\ file = "ready" /\ tail = "none"
      /\ Tells(s, retired, wal) /\ s.frames = ends
      /\ Shape(retired, wal, ends) /\ Shape(retired, wal, s.frames)
      /\ SegmentsFit(retired, wal) /\ CopiesAgree(retired, wal)
      /\ wal \in Seq(StoredEvent) /\ Len(wal) \in Nat /\ retired \in Nat
      /\ segments \in SUBSET Seq(StoredEvent) /\ acked \in SUBSET StoredEvent
      /\ sealed \in SUBSET (Nat \X Nat)
  BY <1>1, <1>2, AtRestStep
<1>4. /\ cut \in 1..Len(wal)
      /\ \A i \in 1..cut : /\ IsSequenceSealed(sealed, retired + (i - 1))
                           /\ retired + (i - 1) \notin holds
  <2>1. DownClosed(sealed)
    BY <1>3 DEF SegmentsFit
  <2> HIDE DEF s, cut
  <2>2. cut = Eligible(s, holds)
    BY DEF cut
  <2>3. QED
    BY <1>1, <1>3, <2>1, <2>2, EligiblePrefix
<1>5. upTo + 1 = retired + cut /\ upTo \in Nat
  <2>1. FirstInWal(s) = retired
    BY <1>3, FirstIsFirst
  <2> HIDE DEF cut, s
  <2>2. QED
    BY <1>3, <1>4, <2>1
<1> HIDE DEF cut, upTo, s
<1>6. SealedBelow(sealed, retired + cut)
  <2> SUFFICES ASSUME NEW t \in Nat, t < retired + cut
               PROVE  IsSequenceSealed(sealed, t)
    BY DEF SealedBelow
  <2>1. CASE t < retired
    BY <1>3, <2>1 DEF SegmentsFit, SealedBelow
  <2>2. CASE ~(t < retired)
    <3> DEFINE i == (t - retired) + 1
    <3>1. i \in 1..cut /\ retired + (i - 1) = t
      BY <1>3, <1>4, <2>2
    <3> HIDE DEF i
    <3>2. QED
      BY <1>4, <3>1
  <2>3. QED
    BY <2>1, <2>2
<1> HIDE DEF kept
<1>7. /\ kept \in Seq(StoredEvent) /\ Len(kept) = Len(wal) - cut /\ Len(kept) \in Nat
      /\ \A i \in 1..Len(kept) : cut + i \in 1..Len(wal) /\ kept[i] = wal[cut + i]
      /\ Shifted(ends, cut) \subseteq 1..Len(kept)
      /\ LogInv(retired + cut, kept, Shifted(ends, cut))
  <2>1. LogInv(retired, wal, ends) /\ kept = SubSeq(wal, cut + 1, Len(wal))
    BY <1>3 DEF LogInv, kept
  <2>2. /\ kept \in Seq(StoredEvent) /\ Len(kept) = Len(wal) - cut /\ Len(kept) \in Nat
        /\ \A i \in 1..Len(kept) : cut + i \in 1..Len(wal) /\ kept[i] = wal[cut + i]
    BY <1>3, <1>4, <2>1, AfterCut
  <2>3. ValidRun(retired + cut, NoTime, kept)
    <3>1. cut \in 0..Len(wal) /\ ValidRun(retired, NoTime, wal)
      BY <1>3, <1>4 DEF Shape
    <3>2. QED
      BY <1>3, <2>1, <3>1, RunSuffix
  <2>4. LogInv(retired, wal, ends)
    BY <2>1
  <2>5. QED
    BY <1>3, <1>4, <1>6, <2>2, <2>3, <2>4, CutLog
<1>8. /\ wal' \in Seq(StoredEvent) /\ ends' \in SUBSET Nat
      /\ ends' \intersect 1..Len(kept) = Shifted(ends, cut)
  <2>1. ends \in SUBSET Nat /\ Len(kept) <= Len(wal)
    BY <1>3, <1>4, <1>7 DEF WalTypeOK
  <2>2. wal' \in Seq(StoredEvent)
    BY <1>1, <1>3, <1>7, <2>1, Overwritten
  <2> DEFINE low == Shifted(ends, cut)
  <2>3. /\ low \in SUBSET (1..Len(kept))
        /\ \A e \in ends' : e \in low \/ (e \in ends /\ e > Len(kept))
        /\ \A e \in low : e \in ends'
    BY <1>1, <1>7
  <2> HIDE DEF low
  <2>4. ends' \in SUBSET Nat /\ ends' \intersect 1..Len(kept) = low
    <3> DEFINE n == Len(kept)
               marks == ends'
               cuts == ends
    <3>1. /\ n \in Nat /\ low \in SUBSET (1..n) /\ cuts \in SUBSET Nat
          /\ \A e \in marks : e \in low \/ (e \in cuts /\ e > n)
          /\ \A e \in low : e \in marks
      BY <1>7, <2>1, <2>3
    <3> HIDE DEF n, marks, cuts
    <3>2. marks \in SUBSET Nat /\ marks \intersect 1..n = low
      <4>1. (\A e \in low : e \in Nat) /\ \A e \in cuts : e \in Nat
        BY <3>1
      <4>2. \A e \in marks : e \in Nat
        BY <3>1, <4>1, Zenon
      <4>3. \A e \in marks : e \in 1..n => e \in low
        BY <3>1
      <4>4. \A e \in low : e \in marks /\ e \in 1..n
        BY <3>1
      <4>5. QED
        BY <4>2, <4>3, <4>4, Zenon
    <3>3. QED
      BY <3>2 DEF n, marks
  <2>5. QED
    BY <2>2, <2>4 DEF low
<1>9. /\ job'.step = "overwritten" /\ job'.cut = cut /\ job'.kept = Len(kept)
      /\ job'.upTo = upTo /\ job'.holds = holds /\ job'.old = wal
  BY <1>1
<1>10. Kept' = kept /\ KeptEnds' = Shifted(ends, cut)
  BY <1>8, <1>9 DEF Kept, KeptEnds, kept
<1>11. LogInv(job.upTo + 1, Kept, KeptEnds)'
  <2>1. LogInv(job'.upTo + 1, Kept', KeptEnds')
    BY <1>5, <1>7, <1>9, <1>10
  <2>2. QED
    BY <1>1, <2>1 DEF LogInv, Shape, SegmentsFit, CopiesAgree, Copies, Backed
<1>12. CutInv'
  <2>1. ASSUME NEW i \in 1..cut
        PROVE  /\ wal[i].seq \notin holds
               /\ \E g \in segments : \E j \in 1..Len(g) : g[j] = wal[i]
    <3>1. i \in 1..Len(wal) /\ wal[i].seq = retired + (i - 1) /\ wal[i].seq \in Nat
      <4>1. i \in 1..Len(wal)
        BY <1>3, <1>4
      <4>2. QED
        BY <1>3, <4>1, RunSeq DEF Shape
    <3>2. wal[i] \in Copies(wal) /\ IsSequenceSealed(sealed, wal[i].seq)
      BY <1>4, <3>1 DEF Copies
    <3>3. QED
      BY <1>3, <1>4, <3>1, <3>2, SealedCopy
  <2>2. wal' = Kept' \o SubSeq(job'.old, job'.kept + 1, Len(job'.old))
    BY <1>1, <1>9, <1>10
  <2>3. tail' = "none"
    BY <1>1, <1>3
  <2>4. \A i \in 1..job'.cut :
          /\ job'.old[i].seq \notin job'.holds
          /\ \E g \in segments' : \E j \in 1..Len(g) : g[j] = job'.old[i]
    BY <1>1, <1>9, <2>1
  <2>5. job'.cut \in 1..Len(job'.old) /\ job'.kept = Len(job'.old) - job'.cut
    BY <1>4, <1>7, <1>9
  <2>6. QED
    BY <1>9, <2>2, <2>3, <2>4, <2>5 DEF CutInv
<1>13. HolderCuts(store[lock])'
  <2>1. store'[lock'] = s
    BY <1>1, <1>3 DEF s
  <2>2. Tells(s, job'.upTo + 1, Kept')
    <3>1. s.nextSequence = retired + Len(wal)
      BY <1>3 DEF Tells
    <3>2. s.nextSequence = (job'.upTo + 1) + Len(kept)
      BY <1>3, <1>4, <1>5, <1>7, <1>9, <3>1
    <3>3. ASSUME kept # <<>>
          PROVE  s.lastKnown = kept[Len(kept)].known
      <4>1. Len(kept) \in 1..Len(kept)
        BY <1>7, <3>3
      <4>2. kept[Len(kept)] = wal[Len(wal)] /\ Len(wal) # 0
        BY <1>3, <1>4, <1>7, <4>1
      <4>3. wal # <<>>
        BY <1>3, <4>2
      <4>4. QED
        BY <1>3, <4>2, <4>3 DEF Tells
    <3>4. QED
      BY <1>10, <3>2, <3>3 DEF Tells
  <2>3. KeptEnds' = Shifted(s.frames, job'.cut)
    BY <1>3, <1>9, <1>10
  <2>4. QED
    BY <1>9, <2>1, <2>2, <2>3 DEF HolderCuts, Tells
<1>14. LifeType' /\ HolderInv'
  <2>1. WalTypeOK'
    BY <1>1, <1>3, <1>8 DEF WalTypeOK
  <2>2. JobType'
    <3>1. job' \in [step : RetireSteps, cut : Nat, kept : Nat, upTo : Nat, holds : HoldSets,
                    old : Seq(StoredEvent)]
      <4>1. cut \in Nat /\ "overwritten" \in RetireSteps
        BY <1>4 DEF RetireSteps
      <4> DEFINE k == Len(kept)
      <4>2. k \in Nat
        BY <1>7
      <4> HIDE DEF k
      <4>3. job' = [step |-> "overwritten", cut |-> cut, kept |-> k,
                    upTo |-> upTo, holds |-> holds, old |-> wal]
        BY <1>1 DEF k
      <4>4. QED
        BY <1>3, <1>5, <4>1, <4>2, <4>3
    <3>2. QED
      BY <3>1 DEF JobType
  <2>3. HolderInv'
    BY <1>1, <1>3 DEF HolderInv, s
  <2>4. QED
    BY <1>1, <1>3, <2>1, <2>2, <2>3 DEF LifeType
<1>15. QED
  BY <1>9, <1>11, <1>12, <1>13, <1>14 DEF LifeInv, CuttingInv, RetireSteps

-----------------------------------------------------------------------------
(* What the later steps of retire_wal start from.                          *)
LEMMA AtCutStep ==
    ASSUME LifeInv, NEW p \in Procs, store[p].step = "idle", job.step \in RetireSteps
    PROVE  /\ LifeType /\ WalTypeOK /\ HolderInv /\ lock = p /\ file = "ready" /\ tail = "none"
           /\ job \in [step : RetireSteps, cut : Nat, kept : Nat, upTo : Nat,
                       holds : HoldSets, old : Seq(StoredEvent)]
           /\ job.cut \in 1..Len(job.old) /\ job.cut \in Nat /\ job.upTo \in Nat
           /\ Kept \in Seq(StoredEvent) /\ Len(Kept) = job.kept /\ job.kept \in Nat
           /\ job.kept = Len(job.old) - job.cut /\ Len(job.old) \in Nat
           /\ LogInv(job.upTo + 1, Kept, KeptEnds) /\ CutInv /\ HolderCuts(store[p])
<1>1. LifeType /\ WalTypeOK /\ HolderInv /\ CuttingInv /\ lock = p
  BY DEF LifeInv, HolderInv, LifeType
<1>2. job \in [step : RetireSteps, cut : Nat, kept : Nat, upTo : Nat,
               holds : HoldSets, old : Seq(StoredEvent)]
  BY <1>1 DEF LifeType, JobType, NoJob, RetireSteps
<1>3. file = "ready"
  BY <1>1 DEF HolderInv, NoJob, RetireSteps
<1>4. LogInv(job.upTo + 1, Kept, KeptEnds) /\ CutInv /\ HolderCuts(store[p])
  BY <1>1 DEF CuttingInv
<1>5. job.cut \in 1..Len(job.old) /\ job.kept = Len(job.old) - job.cut /\ tail = "none"
  BY <1>4 DEF CutInv
<1>6. job.old \in Seq(StoredEvent) /\ job.upTo \in Nat
  BY <1>2
<1>7. Kept \in Seq(StoredEvent) /\ Len(Kept) = job.kept /\ job.kept \in Nat
      /\ Len(job.old) \in Nat /\ job.cut \in Nat
  <2> DEFINE old == job.old
             cut == job.cut
             k == Kept
  <2>1. old \in Seq(StoredEvent) /\ cut \in 1..Len(old) /\ k = SubSeq(old, cut + 1, Len(old))
    BY <1>5, <1>6 DEF Kept
  <2> HIDE DEF old, cut, k
  <2>2. k \in Seq(StoredEvent) /\ Len(k) = Len(old) - cut /\ Len(k) \in Nat
        /\ Len(old) \in Nat /\ cut \in Nat
    BY <2>1, AfterCut
  <2>3. QED
    BY <1>5, <2>2 DEF old, cut, k
<1>8. QED
  BY <1>1, <1>2, <1>3, <1>4, <1>5, <1>6, <1>7

(* set_len.                                                                *)
LEMMA RetireTruncateInv ==
    ASSUME LifeInv, NEW p \in Procs, RetireTruncate(p)
    PROVE  LifeInv'
<1>1. /\ store[p].step = "idle" /\ job.step = "overwritten"
      /\ wal' = SubSeq(wal, 1, job.kept) /\ ends' = ends \intersect 1..job.kept
      /\ job' = [job EXCEPT !.step = "truncated"]
      /\ UNCHANGED <<file, tail, synced, syncedTail, retired, lock, store, acked>>
      /\ UNCHANGED <<segments, sealed>>
  BY DEF RetireTruncate
<1>2. /\ LifeType /\ WalTypeOK /\ HolderInv /\ lock = p /\ file = "ready" /\ tail = "none"
      /\ job \in [step : RetireSteps, cut : Nat, kept : Nat, upTo : Nat,
                  holds : HoldSets, old : Seq(StoredEvent)]
      /\ Kept \in Seq(StoredEvent) /\ Len(Kept) = job.kept /\ job.kept \in Nat
      /\ Len(job.old) \in Nat /\ job.cut \in 1..Len(job.old) /\ job.kept = Len(job.old) - job.cut
      /\ LogInv(job.upTo + 1, Kept, KeptEnds) /\ CutInv /\ HolderCuts(store[p])
  BY <1>1, AtCutStep DEF RetireSteps
<1>3. /\ job' \in [step : RetireSteps, cut : Nat, kept : Nat, upTo : Nat,
                   holds : HoldSets, old : Seq(StoredEvent)]
      /\ job'.step = "truncated" /\ job'.cut = job.cut /\ job'.kept = job.kept
      /\ job'.upTo = job.upTo /\ job'.holds = job.holds /\ job'.old = job.old
  BY <1>1, <1>2 DEF RetireSteps
<1>4. wal' = Kept
  <2>1. wal = Kept \o SubSeq(job.old, job.kept + 1, Len(job.old))
    BY <1>1, <1>2 DEF CutInv
  <2> DEFINE old == job.old
             n == job.kept
             k == Kept
             rest == SubSeq(old, n + 1, Len(old))
  <2>2. /\ old \in Seq(StoredEvent) /\ n \in Nat /\ n <= Len(old) /\ Len(old) \in Nat
        /\ k \in Seq(StoredEvent) /\ Len(k) = n
        /\ wal = k \o rest /\ wal' = SubSeq(wal, 1, n)
    BY <1>1, <1>2, <2>1
  <2> HIDE DEF old, n, k
  <2>3. rest \in Seq(StoredEvent)
    BY <2>2
  <2> HIDE DEF rest
  <2>4. SubSeq(k \o rest, 1, n) = k
    BY <2>2, <2>3
  <2>5. QED
    BY <2>2, <2>4 DEF k
<1>5. Kept' = Kept /\ KeptEnds' = KeptEnds /\ ends' = KeptEnds
  BY <1>1, <1>3 DEF Kept, KeptEnds
<1>6. LogInv(job.upTo + 1, Kept, KeptEnds)'
  <2>1. LogInv(job'.upTo + 1, Kept', KeptEnds')
    BY <1>2, <1>3, <1>5
  <2>2. QED
    BY <1>1, <2>1 DEF LogInv, Shape, SegmentsFit, CopiesAgree, Copies, Backed
<1>7. CutInv'
  <2>1. wal' = Kept' /\ ends' \subseteq 1..job'.kept
    BY <1>3, <1>4, <1>5 DEF KeptEnds
  <2>2. \A i \in 1..job'.cut :
          /\ job'.old[i].seq \notin job'.holds
          /\ \E g \in segments' : \E j \in 1..Len(g) : g[j] = job'.old[i]
    <3>1. \A i \in 1..job.cut :
            /\ job.old[i].seq \notin job.holds
            /\ \E g \in segments : \E j \in 1..Len(g) : g[j] = job.old[i]
      BY <1>2 DEF CutInv
    <3>2. segments' = segments
      BY <1>1
    <3>3. QED
      BY <1>3, <3>1, <3>2
  <2>3. job'.cut \in 1..Len(job'.old) /\ job'.kept = Len(job'.old) - job'.cut /\ tail' = "none"
    BY <1>1, <1>2, <1>3
  <2>4. QED
    BY <1>3, <2>1, <2>2, <2>3 DEF CutInv
<1>8. HolderCuts(store[lock])'
  BY <1>1, <1>2, <1>3, <1>5 DEF HolderCuts, Tells
<1>9. LifeType' /\ HolderInv'
  <2>1. WalTypeOK'
    <3>1. wal' \in Seq(StoredEvent) /\ ends' \in SUBSET Nat
      BY <1>1, <1>2, <1>4 DEF WalTypeOK
    <3>2. QED
      BY <1>1, <1>2, <3>1 DEF WalTypeOK
  <2>2. JobType'
    BY <1>3 DEF JobType
  <2>3. HolderInv'
    BY <1>1, <1>2 DEF HolderInv
  <2>4. QED
    BY <1>1, <1>2, <2>1, <2>2, <2>3 DEF LifeType
<1>10. QED
  BY <1>3, <1>6, <1>7, <1>8, <1>9 DEF LifeInv, CuttingInv, RetireSteps

(* sync_all, and the new frame table.                                      *)
LEMMA RetireSyncInv ==
    ASSUME LifeInv, NEW p \in Procs, RetireSync(p)
    PROVE  LifeInv'
<1> DEFINE frames == Shifted(store[p].frames, job.cut)
           cutStore == [store[p] EXCEPT !.frames = frames]
<1>1. /\ store[p].step = "idle" /\ job.step = "truncated" /\ SyncAll
      /\ store' = [store EXCEPT ![p].frames = Shifted(@, job.cut)]
      /\ job' = [job EXCEPT !.step = "compacted"]
      /\ UNCHANGED <<file, wal, ends, tail, retired, lock, acked>>
      /\ UNCHANGED <<segments, sealed>>
  BY DEF RetireSync
<1>2. /\ LifeType /\ WalTypeOK /\ HolderInv /\ lock = p /\ file = "ready" /\ tail = "none"
      /\ job \in [step : RetireSteps, cut : Nat, kept : Nat, upTo : Nat,
                  holds : HoldSets, old : Seq(StoredEvent)]
      /\ job.cut \in Nat
      /\ LogInv(job.upTo + 1, Kept, KeptEnds) /\ CutInv /\ HolderCuts(store[p])
  BY <1>1, AtCutStep DEF RetireSteps
<1>3. /\ job' \in [step : RetireSteps, cut : Nat, kept : Nat, upTo : Nat,
                   holds : HoldSets, old : Seq(StoredEvent)]
      /\ job'.step = "compacted" /\ job'.cut = job.cut /\ job'.kept = job.kept
      /\ job'.upTo = job.upTo /\ job'.holds = job.holds /\ job'.old = job.old
  BY <1>1, <1>2 DEF RetireSteps
<1>4. Kept' = Kept /\ KeptEnds' = KeptEnds
  BY <1>1, <1>3 DEF Kept, KeptEnds
<1>5. KeptEnds = frames /\ frames \in SUBSET Nat
  <2>1. KeptEnds = frames
    BY <1>1, <1>2 DEF HolderCuts
  <2>2. KeptEnds \in SUBSET Nat
    BY <1>2 DEF KeptEnds, WalTypeOK
  <2>3. QED
    BY <2>1, <2>2
<1>6. store' = [store EXCEPT ![p] = cutStore]
  BY <1>1, <1>2 DEF WalTypeOK, Store
<1> HIDE DEF frames
<1>7. /\ cutStore \in Store /\ cutStore.step = store[p].step /\ cutStore.frames = frames
      /\ cutStore.nextSequence = store[p].nextSequence
      /\ cutStore.lastKnown = store[p].lastKnown
  <2>1. store[p] \in Store
    BY <1>2 DEF WalTypeOK
  <2>2. QED
    BY <1>5, <2>1 DEF Store
<1> HIDE DEF cutStore
<1>8. store'[p] = cutStore /\ \A q \in Procs : store'[q].step = store[q].step
  BY <1>2, <1>6, <1>7 DEF WalTypeOK
<1>9. LogInv(job.upTo + 1, Kept, KeptEnds)'
  <2>1. LogInv(job'.upTo + 1, Kept', KeptEnds')
    BY <1>2, <1>3, <1>4
  <2>2. QED
    BY <1>1, <2>1 DEF LogInv, Shape, SegmentsFit, CopiesAgree, Copies, Backed
<1>10. CutInv'
  BY <1>1, <1>2, <1>3, <1>4 DEF CutInv
<1>11. HolderCuts(store[lock])'
  <2>1. Tells(store[p], job.upTo + 1, Kept)
    BY <1>2 DEF HolderCuts
  <2>2. store'[lock'] = cutStore
    BY <1>1, <1>2, <1>8
  <2>3. Tells(cutStore, job'.upTo + 1, Kept')
    BY <1>3, <1>4, <1>7, <2>1 DEF Tells
  <2>4. QED
    BY <1>3, <1>4, <1>5, <1>7, <2>2, <2>3 DEF HolderCuts, Tells
<1>12. LifeType' /\ HolderInv'
  <2>1. WalTypeOK'
    <3>1. store' \in [Procs -> Store]
      BY <1>2, <1>6, <1>7 DEF WalTypeOK
    <3>2. QED
      BY <1>1, <1>2, <3>1 DEF WalTypeOK, SyncAll
  <2>2. JobType'
    BY <1>3 DEF JobType
  <2>3. HolderInv'
    BY <1>1, <1>2, <1>8 DEF HolderInv
  <2>4. QED
    BY <1>1, <1>2, <2>1, <2>2, <2>3 DEF LifeType
<1>13. QED
  BY <1>3, <1>9, <1>10, <1>11, <1>12 DEF LifeInv, CuttingInv, RetireSteps

(* The manifest now says where the log starts.                             *)
LEMMA RetireSaveInv ==
    ASSUME LifeInv, NEW p \in Procs, RetireSave(p)
    PROVE  LifeInv'
<1>1. /\ store[p].step = "idle" /\ job.step = "compacted"
      /\ retired' = job.upTo + 1 /\ job' = NoJob
      /\ UNCHANGED <<file, wal, ends, tail, synced, syncedTail, lock, store, acked>>
      /\ UNCHANGED <<segments, sealed>>
  BY DEF RetireSave, diskVars
<1>2. /\ LifeType /\ WalTypeOK /\ HolderInv /\ lock = p /\ file = "ready" /\ tail = "none"
      /\ job.upTo \in Nat
      /\ LogInv(job.upTo + 1, Kept, KeptEnds) /\ CutInv /\ HolderCuts(store[p])
  BY <1>1, AtCutStep DEF RetireSteps
<1>3. job'.step \notin RetireSteps /\ job'.step # "sealing"
  BY <1>1 DEF NoJob, RetireSteps
<1>4. wal = Kept /\ ends = KeptEnds /\ store[p].frames = ends /\ Tells(store[p], retired', wal)
  <2>1. wal = Kept /\ ends \subseteq 1..job.kept
    BY <1>1, <1>2 DEF CutInv
  <2>2. ends = KeptEnds
    BY <2>1 DEF KeptEnds
  <2>3. QED
    BY <1>1, <1>2, <2>1, <2>2 DEF HolderCuts
<1>5. LogInv(retired, wal, ends)'
  <2>1. LogInv(retired', wal', ends')
    BY <1>1, <1>2, <1>4
  <2>2. QED
    BY <1>1, <2>1 DEF LogInv, Shape, SegmentsFit, CopiesAgree, Copies, Backed
<1>6. (\A q \in Procs : StoreStep(store[q]))'
  <2>1. \A q \in Procs : q # p => store'[q].step = "closed"
    BY <1>1, <1>2 DEF HolderInv
  <2>2. StoreStep(store[p])'
    BY <1>1, <1>2, <1>4 DEF StoreStep, Tells
  <2>3. QED
    BY <2>1, <2>2 DEF StoreStep
<1>7. LifeType' /\ HolderInv' /\ FileShape' /\ SealingInv'
  <2>1. WalTypeOK'
    BY <1>1, <1>2 DEF WalTypeOK
  <2>2. QED
    BY <1>1, <1>2, <1>3, <2>1 DEF LifeType, JobType, HolderInv, FileShape, SealingInv
<1>8. QED
  BY <1>3, <1>5, <1>6, <1>7 DEF LifeInv, RestInv

-----------------------------------------------------------------------------
LEMMA LifeInitInv == Init => LifeInv
<1> SUFFICES ASSUME Init PROVE LifeInv
  OBVIOUS
<1> USE ConstantsAssumption DEF Init, WalInit
<1>1. Closed \in Store /\ Closed.step = "closed"
  BY EmptySeq DEF Closed, OpenStore, Store, Steps
<1>2. LifeType
  <2>1. WalTypeOK
    BY <1>1, EmptySeq DEF WalTypeOK
  <2>2. QED
    BY <2>1 DEF LifeType, JobType
<1>3. HolderInv /\ FileShape /\ SealingInv /\ job.step \notin RetireSteps
  BY <1>1 DEF HolderInv, FileShape, SealingInv, NoJob, RetireSteps
<1>4. \A p \in Procs : StoreStep(store[p])
  BY <1>1 DEF StoreStep
<1>5. LogInv(retired, wal, ends)
  BY DEF LogInv, Shape, ValidRun, SegmentsFit, Backed, DownClosed, SealedBelow,
         IsSequenceSealed, CopiesAgree, Copies
<1>6. QED
  BY <1>2, <1>3, <1>4, <1>5 DEF LifeInv, RestInv

LEMMA LifeStepInv == LifeInv /\ [Orderly]_vars => LifeInv'
<1> SUFFICES ASSUME LifeInv, [Orderly]_vars PROVE LifeInv'
  OBVIOUS
<1>1. ASSUME NEW p \in Procs, LogStep(p)
      PROVE  LifeInv'
  BY <1>1, LogStepsInv, AppendWrittenInv, AppendPublishInv, Zenon DEF LogStep
<1>2. ASSUME NEW p \in Procs, LifecycleStep(p)
      PROVE  LifeInv'
  BY <1>2, SealBeginInv, SealFrameInv, SealSaveInv, SealFailInv, RetireWriteInv,
     RetireTruncateInv, RetireSyncInv, RetireSaveInv, Zenon DEF LifecycleStep
<1>3. ASSUME NEW p \in Procs, CrashOrderly(p)
      PROVE  LifeInv'
  BY <1>3, CrashInv
<1>4. CASE UNCHANGED vars
  <2>1. UNCHANGED <<file, wal, ends, tail, synced, syncedTail, retired, lock, store, acked>>
        /\ UNCHANGED <<segments, sealed, job>>
    BY <1>4 DEF vars, walVars, diskVars, lifecycleVars
  <2>2. LifeType' = LifeType /\ HolderInv' = HolderInv
    BY <2>1 DEF LifeType, WalTypeOK, JobType, HolderInv
  <2>3. CuttingInv' = CuttingInv
    BY <2>1 DEF CuttingInv, LogInv, Shape, SegmentsFit, CopiesAgree, Copies, Backed, Kept,
                KeptEnds, CutInv, HolderCuts, Tells
  <2>4. RestInv' = RestInv
    BY <2>1 DEF RestInv, LogInv, Shape, SegmentsFit, CopiesAgree, Copies, Backed, FileShape,
                StoreStep, Tells, EndsIn, SealingInv
  <2>5. QED
    BY <2>1, <2>2, <2>3, <2>4 DEF LifeInv
<1>5. QED
  BY <1>1, <1>2, <1>3, <1>4 DEF Orderly

(* Every state the Store reaches satisfies the inductive invariant.        *)
THEOREM LifecycleInvariant == Spec => []LifeInv
  BY LifeInitInv, LifeStepInv, PTL DEF Spec

-----------------------------------------------------------------------------
(* The sequences get looks for: in the log, or else sealed.                *)
LEMMA AckedPlace ==
    ASSUME NEW first \in Nat, NEW records \in Seq(StoredEvent), NEW cuts,
           LogInv(first, records, cuts), acked \in SUBSET StoredEvent, NEW e \in acked
    PROVE  /\ e.seq \in Nat /\ e.seq < first + Len(records) /\ e \in Copies(records)
           /\ e.seq >= first => /\ (e.seq - first) + 1 \in 1..Len(records)
                                /\ records[(e.seq - first) + 1] = e
           /\ e.seq < first => IsSequenceSealed(sealed, e.seq)
<1>1. Len(records) \in Nat /\ Shape(first, records, cuts)
      /\ SegmentsFit(first, records) /\ CopiesAgree(first, records)
  BY LenProperties DEF LogInv
<1>2. e.seq \in Nat /\ e.seq < first + Len(records) /\ e \in Copies(records)
  BY <1>1 DEF CopiesAgree, Copies, StoredEvent
<1>3. ASSUME e.seq >= first
      PROVE  (e.seq - first) + 1 \in 1..Len(records) /\ records[(e.seq - first) + 1] = e
  <2> DEFINE i == (e.seq - first) + 1
  <2>1. i \in 1..Len(records) /\ first + (i - 1) = e.seq
    BY <1>1, <1>2, <1>3
  <2> HIDE DEF i
  <2>2. records[i].seq = e.seq
    BY <1>1, <2>1, RunSeq DEF Shape
  <2>3. records[i] \in Copies(records)
    BY <2>1 DEF Copies
  <2>4. records[i] = e
    BY <1>1, <1>2, <2>2, <2>3 DEF CopiesAgree
  <2>5. QED
    BY <2>1, <2>4 DEF i
<1>4. e.seq < first => IsSequenceSealed(sealed, e.seq)
  BY <1>1, <1>2 DEF SegmentsFit, SealedBelow
<1>5. QED
  BY <1>2, <1>3, <1>4

(* get returns exactly the acknowledged event, from the WAL or a segment:  *)
(* sealing and retiring never make an event unreadable, doubled or stale.  *)
THEOREM LifecycleAckedReadable == Spec => []AckedReadable
<1>1. LifeInv => AckedReadable
  <2> SUFFICES ASSUME LifeInv, NEW p \in Procs, Idle(p), NEW e \in acked
               PROVE  GetEvent(store[p], e.seq) = {e}
    BY DEF AckedReadable
  <2> DEFINE s == store[p]
             q == e.seq
  <2>1. s.step = "idle" /\ job.step \notin RetireSteps
    BY DEF Idle, NoJob, RetireSteps
  <2>2. /\ Tells(s, retired, wal) /\ s.frames = ends
        /\ Shape(retired, wal, ends) /\ Shape(retired, wal, s.frames)
        /\ SegmentsFit(retired, wal) /\ CopiesAgree(retired, wal)
        /\ wal \in Seq(StoredEvent) /\ Len(wal) \in Nat /\ retired \in Nat
        /\ segments \in SUBSET Seq(StoredEvent) /\ acked \in SUBSET StoredEvent
        /\ sealed \in SUBSET (Nat \X Nat)
    BY <2>1, AtRestStep
  <2>3. LogInv(retired, wal, ends)
    BY <2>2 DEF LogInv
  <2>4. /\ q \in Nat /\ q < retired + Len(wal) /\ e \in Copies(wal)
        /\ q >= retired => (q - retired) + 1 \in 1..Len(wal) /\ wal[(q - retired) + 1] = e
        /\ q < retired => IsSequenceSealed(sealed, q)
    BY <2>2, <2>3, AckedPlace
  <2>5. FirstInWal(s) = retired /\ s.nextSequence = retired + Len(wal)
    BY <2>2, FirstIsFirst DEF Tells
  <2>6. ~(q >= s.nextSequence)
    BY <2>2, <2>4, <2>5
  <2>7. CASE s.frames # {} /\ q >= retired
    <3> DEFINE i == (q - retired) + 1
    <3>1. GetEvent(s, q) = {wal[j] : j \in {i} \intersect 1..Len(wal)}
      BY <2>5, <2>6, <2>7 DEF GetEvent
    <3>2. i \in 1..Len(wal) /\ wal[i] = e
      BY <2>4, <2>7
    <3> HIDE DEF i, s, q
    <3>3. GetEvent(s, q) = {e}
      BY <3>1, <3>2
    <3>4. QED
      BY <3>3 DEF s, q
  <2>8. CASE ~(s.frames # {} /\ q >= retired)
    <3>1. q < retired
      <4>1. ASSUME s.frames = {} PROVE Len(wal) = 0
        BY <2>2, <4>1 DEF Shape
      <4>2. QED
        BY <2>2, <2>4, <2>8, <4>1
    <3> DEFINE covering == {r \in sealed : r[1] <= q /\ q <= r[2]}
               found == UNION {{g[i] : i \in DOMAIN g} :
                                  g \in {h \in segments : RangeOf(h) \in covering}}
    <3>2. GetEvent(s, q) = {x \in found : x.seq = q}
      BY <2>5, <2>6, <2>8 DEF GetEvent
    <3>3. \A x \in found : x \in Copies(wal)
      <4>1. \A g \in segments : DOMAIN g = 1..Len(g)
        BY <2>2, LenProperties
      <4>2. QED
        BY <4>1 DEF Copies
    <3>4. e \in found
      <4>1. PICK g \in segments : \E j \in 1..Len(g) :
                RangeOf(g) \in sealed /\ g[j] = e
                    /\ RangeOf(g)[1] <= e.seq /\ e.seq <= RangeOf(g)[2]
        BY <2>2, <2>4, <3>1, SealedCopy
      <4>2. PICK j \in 1..Len(g) : g[j] = e
        BY <4>1
      <4>3. RangeOf(g) \in covering /\ j \in DOMAIN g
        BY <2>2, <4>1, LenProperties
      <4> HIDE DEF covering
      <4>4. QED
        BY <4>2, <4>3
    <3> HIDE DEF found
    <3>5. {x \in found : x.seq = q} = {e}
      BY <2>2, <2>4, <3>3, <3>4 DEF CopiesAgree
    <3>6. QED
      BY <3>2, <3>5
  <2>9. QED
    BY <2>7, <2>8
<1>2. QED
  BY <1>1, LifecycleInvariant, PTL

(* An open Store continues behind every acknowledged sequence, also when   *)
(* the whole WAL was retired and only the manifest tells where it was.     *)
THEOREM LifecycleResumesSequence == Spec => []ResumesSequence
<1>1. LifeInv => ResumesSequence
  <2> SUFFICES ASSUME LifeInv, NEW p \in Procs, Idle(p), NEW e \in acked
               PROVE  e.seq < store[p].nextSequence
    BY DEF ResumesSequence
  <2>1. store[p].step = "idle" /\ job.step \notin RetireSteps
    BY DEF Idle, NoJob, RetireSteps
  <2>2. Tells(store[p], retired, wal) /\ CopiesAgree(retired, wal)
    BY <2>1, AtRestStep
  <2>3. QED
    BY <2>2 DEF Tells, CopiesAgree
<1>2. QED
  BY <1>1, LifecycleInvariant, PTL

(* While retire_wal compacts the file in place, each record it started     *)
(* with is still in it, or is not held and has its copy in a segment.      *)
THEOREM LifecycleRetireKeeps == Spec => []RetireKeepsHeldAndUnsealed
<1>1. LifeInv => RetireKeepsHeldAndUnsealed
  <2> SUFFICES ASSUME LifeInv, job.step \in RetireSteps, NEW i \in DOMAIN job.old
               PROVE  \/ \E j \in DOMAIN wal : wal[j] = job.old[i]
                      \/ /\ job.old[i].seq \notin job.holds
                         /\ \E g \in segments : \E j \in DOMAIN g : g[j] = job.old[i]
    BY DEF RetireKeepsHeldAndUnsealed, RetireSteps
  <2>1. LifeType /\ HolderInv /\ CutInv
    BY DEF LifeInv, CuttingInv
  <2>2. lock \in Procs /\ store[lock].step = "idle"
    BY <2>1 DEF HolderInv, NoJob, RetireSteps
  <2>3. /\ job.old \in Seq(StoredEvent) /\ Len(job.old) \in Nat
        /\ job.cut \in 1..Len(job.old) /\ job.kept = Len(job.old) - job.cut
        /\ Kept \in Seq(StoredEvent) /\ Len(Kept) = job.kept /\ job.kept \in Nat
        /\ wal \in Seq(StoredEvent) /\ segments \in SUBSET Seq(StoredEvent)
    BY <2>1, <2>2, AtCutStep DEF LifeType, WalTypeOK
  <2>4. i \in 1..Len(job.old)
    BY <2>3, LenProperties
  <2>5. CASE i <= job.cut
    <3>1. i \in 1..job.cut
      BY <2>3, <2>4, <2>5
    <3>2. \A g \in segments : DOMAIN g = 1..Len(g)
      BY <2>3, LenProperties
    <3>3. QED
      BY <2>1, <3>1, <3>2 DEF CutInv
  <2>6. CASE ~(i <= job.cut)
    <3> DEFINE old == job.old
               cut == job.cut
               k == Kept
               j == i - cut
    <3>1. old \in Seq(StoredEvent) /\ cut \in 1..Len(old) /\ k = SubSeq(old, cut + 1, Len(old))
      BY <2>3 DEF Kept
    <3>2. j \in 1..Len(k) /\ cut + j = i
      BY <2>3, <2>4, <2>6
    <3> HIDE DEF old, cut, k, j
    <3>3. k[j] = old[i]
      BY <3>1, <3>2, AfterCut
    <3>4. j \in DOMAIN wal /\ wal[j] = k[j]
      <4>1. CASE job.step = "overwritten"
        <5> DEFINE rest == SubSeq(job.old, job.kept + 1, Len(job.old))
        <5>1. wal = k \o rest
          BY <2>1, <4>1 DEF CutInv, k
        <5>2. rest \in Seq(StoredEvent)
          BY <2>3
        <5> HIDE DEF rest
        <5>3. k \in Seq(StoredEvent)
          BY <2>3 DEF k
        <5>4. QED
          BY <3>2, <5>1, <5>2, <5>3
      <4>2. CASE job.step # "overwritten"
        <5>1. wal = k /\ k \in Seq(StoredEvent)
          BY <2>1, <2>3, <4>2 DEF CutInv, k
        <5>2. QED
          BY <3>2, <5>1, LenProperties
      <4>3. QED
        BY <4>1, <4>2
    <3>5. QED
      BY <3>3, <3>4 DEF old
  <2>7. QED
    BY <2>5, <2>6
<1>2. QED
  BY <1>1, LifecycleInvariant, PTL

(* An acknowledged event is on disk at every moment, also while retire_wal *)
(* has the file half rewritten.                                            *)
THEOREM LifecycleNothingLost == Spec => []NothingLost
<1>1. LifeInv => NothingLost
  <2> SUFFICES ASSUME LifeInv, NEW e \in acked
               PROVE  \/ \E i \in DOMAIN wal : wal[i] = e
                      \/ \E g \in segments : \E i \in DOMAIN g : g[i] = e
    BY DEF NothingLost
  <2>1. /\ wal \in Seq(StoredEvent) /\ retired \in Nat /\ acked \in SUBSET StoredEvent
        /\ segments \in SUBSET Seq(StoredEvent) /\ sealed \in SUBSET (Nat \X Nat)
        /\ \A g \in segments : DOMAIN g = 1..Len(g)
    BY LenProperties DEF LifeInv, LifeType, WalTypeOK
  <2>2. ASSUME NEW first \in Nat, NEW records \in Seq(StoredEvent), NEW cuts,
               LogInv(first, records, cuts),
               \A i \in 1..Len(records) : \E j \in DOMAIN wal : wal[j] = records[i]
        PROVE  \/ \E i \in DOMAIN wal : wal[i] = e
               \/ \E g \in segments : \E i \in DOMAIN g : g[i] = e
    <3>1. /\ e.seq \in Nat /\ e \in Copies(records)
          /\ e.seq >= first => /\ (e.seq - first) + 1 \in 1..Len(records)
                               /\ records[(e.seq - first) + 1] = e
          /\ e.seq < first => IsSequenceSealed(sealed, e.seq)
      BY <2>1, <2>2, AckedPlace
    <3>2. CASE e.seq >= first
      BY <2>2, <3>1, <3>2
    <3>3. CASE e.seq < first
      <4>1. SegmentsFit(first, records) /\ CopiesAgree(first, records)
        BY <2>2 DEF LogInv
      <4>2. \E g \in segments : \E j \in 1..Len(g) : g[j] = e
        BY <2>1, <2>2, <3>1, <3>3, <4>1, SealedCopy
      <4>3. QED
        BY <2>1, <4>2
    <3>4. QED
      BY <3>1, <3>2, <3>3
  <2>3. CASE job.step \notin RetireSteps
    <3>1. LogInv(retired, wal, ends)
      BY <2>3 DEF LifeInv, RestInv
    <3>2. \A i \in 1..Len(wal) : \E j \in DOMAIN wal : wal[j] = wal[i]
      BY <2>1, LenProperties
    <3>3. QED
      BY <2>1, <2>2, <3>1, <3>2
  <2>4. CASE job.step \in RetireSteps
    <3>1. HolderInv /\ LifeType /\ CuttingInv
      BY <2>4 DEF LifeInv
    <3>2. lock \in Procs /\ store[lock].step = "idle"
      BY <2>4, <3>1 DEF HolderInv, NoJob, RetireSteps
    <3>3. /\ job.upTo \in Nat /\ Kept \in Seq(StoredEvent) /\ Len(Kept) = job.kept
          /\ job.kept \in Nat /\ job.old \in Seq(StoredEvent)
          /\ LogInv(job.upTo + 1, Kept, KeptEnds) /\ CutInv
      BY <2>4, <3>2, AtCutStep
    <3> DEFINE k == Kept
               rest == SubSeq(job.old, job.kept + 1, Len(job.old))
    <3>4. rest \in Seq(StoredEvent)
      BY <3>3
    <3>5. wal = k \o rest \/ wal = k
      BY <3>3 DEF CutInv
    <3>6. k \in Seq(StoredEvent)
      BY <3>3
    <3> HIDE DEF k, rest
    <3>7. \A i \in 1..Len(k) : \E j \in DOMAIN wal : wal[j] = k[i]
      <4>1. \A i \in 1..Len(k) : i \in DOMAIN wal /\ wal[i] = k[i]
        BY <3>4, <3>5, <3>6
      <4>2. QED
        BY <4>1
    <3>8. job.upTo + 1 \in Nat
      BY <3>3
    <3>9. QED
      BY <2>2, <3>3, <3>6, <3>7, <3>8 DEF k
  <2>5. QED
    BY <2>3, <2>4
<1>2. QED
  BY <1>1, LifecycleInvariant, PTL

==============================================================================
