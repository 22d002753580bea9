------------------------------- MODULE Store -------------------------------
(***************************************************************************)
(* kv.Store over storage.FileWAL and storage.FileSnapshot: a write is      *)
(* appended to the log file and synced, applied to the map and, every      *)
(* snapshotInterval writes, followed by a snapshot.  Store.mu is held from *)
(* the first step of a write to its return, so one write is under way at a *)
(* time; any of its steps may fail and the process or the machine may stop *)
(* between two of them.                                                    *)
(***************************************************************************)
EXTENDS Naturals, Sequences

CONSTANTS
    Key, Value,
    LongValue,          \* the values whose line is over bufio.MaxScanTokenSize
    Absent,             \* no value: what a delete leaves
    Fragment, Garbled,  \* a line that ends in the middle; two run together
    snapshotInterval,
    MaxWrites,          \* bound: writes in a behaviour
    MaxFaults,          \* bound: writes of a file that fail
    MaxCrashes,         \* bound: crashes of the process or the machine
    Tears               \* whether a line can be cut short

ASSUME StoreAssumption ==
    /\ LongValue \subseteq Value
    /\ Absent \notin Value
    /\ Fragment # Garbled
    /\ {Fragment, Garbled} \intersect [key : Key, value : Value \union {Absent}] = {}
    /\ snapshotInterval \in Nat \ {0}
    /\ MaxWrites \in Nat /\ MaxFaults \in Nat /\ MaxCrashes \in Nat
    /\ Tears \in BOOLEAN

VARIABLES
    data, writeCount,   \* the Store
    pc,                 \* "idle", a step of a write, "down" or "failed"
    wal,                \* the lines of the log file
    synced,             \* how many of them Sync has put on the disk
    snap,               \* the snapshot file
    told,               \* history: the writes begun, and which returned nil
    faults, crashes     \* for the bounds

vars == <<data, writeCount, pc, wal, synced, snap, told, faults, crashes>>

\* storage.Entry: a delete is the entry whose value is Absent.
Entry == [key : Key, value : Value \union {Absent}]

State == [Key -> Value \union {Absent}]

Empty == [k \in Key |-> Absent]

\* The file is absent or has no bytes: Load returns an empty map for both.
NoSnapshot == Empty

Init ==
    /\ data = Empty
    /\ writeCount = 0
    /\ pc = "idle"
    /\ wal = <<>>
    /\ synced = 0
    /\ snap = NoSnapshot
    /\ told = <<>>
    /\ faults = 0
    /\ crashes = 0

\* Mutant: a delete leaves an empty string.
applyStoresEmpty(state, e) ==
    [state EXCEPT ![e.key] = IF e.value = Absent THEN "" ELSE e.value]

applyLocked(state, e) == [state EXCEPT ![e.key] = e.value]

AppendLine(lines, line) ==
    IF lines # <<>> /\ lines[Len(lines)] = Fragment
      THEN Append(SubSeq(lines, 1, Len(lines) - 1), Garbled)
      ELSE Append(lines, line)

CurrentEntry == [key |-> told[Len(told)].key, value |-> told[Len(told)].value]

\* The write under way returns nil.
ReturnsNil == [told EXCEPT ![Len(told)].ok = TRUE]

-----------------------------------------------------------------------------

\* Mutant: the map is updated before the entry is appended.
WriteAppliedFirst ==
    /\ pc = "idle"
    /\ Len(told) < MaxWrites
    /\ \E e \in Entry :
         /\ told' = Append(told, [key |-> e.key, value |-> e.value, ok |-> FALSE])
         /\ data' = applyLocked(data, e)
         /\ \/ /\ wal' = AppendLine(wal, e)
               /\ pc' = "sync"
               /\ UNCHANGED faults
            \/ /\ faults < MaxFaults
               /\ faults' = faults + 1
               /\ UNCHANGED <<wal, pc>>
    /\ UNCHANGED <<writeCount, synced, snap, crashes>>

\* Upsert or Delete, up to FileWAL.Append's Write.  A Write that fails may
\* have written a part of the line.
Write ==
    /\ pc = "idle"
    /\ Len(told) < MaxWrites
    /\ \E e \in Entry :
         /\ told' = Append(told, [key |-> e.key, value |-> e.value, ok |-> FALSE])
         /\ \/ /\ wal' = AppendLine(wal, e)
               /\ pc' = "sync"
               /\ UNCHANGED faults
            \/ /\ faults < MaxFaults
               /\ faults' = faults + 1
               /\ \/ UNCHANGED wal
                  \/ Tears /\ wal' = AppendLine(wal, Fragment)
               /\ UNCHANGED pc
    /\ UNCHANGED <<data, writeCount, synced, snap, crashes>>

\* Mutant: Append returns what Write returned.
NoSync ==
    /\ pc = "sync"
    /\ pc' = "apply"
    /\ UNCHANGED <<data, writeCount, wal, synced, snap, told, crashes, faults>>

Sync ==
    /\ pc = "sync"
    /\ \/ /\ synced' = Len(wal)
          /\ pc' = "apply"
          /\ UNCHANGED faults
       \/ /\ faults < MaxFaults
          /\ faults' = faults + 1
          /\ pc' = "idle"
          /\ UNCHANGED synced
    /\ UNCHANGED <<data, writeCount, wal, snap, told, crashes>>

\* persistAndApplyLocked once the entry is on the disk
ApplyEntry ==
    /\ pc = "apply"
    /\ data' = applyLocked(data, CurrentEntry)
    /\ writeCount' = writeCount + 1
    /\ IF writeCount' % snapshotInterval = 0
         THEN pc' = "save" /\ UNCHANGED told
         ELSE pc' = "idle" /\ told' = ReturnsNil
    /\ UNCHANGED <<wal, synced, snap, faults, crashes>>

\* FileSnapshot.Save's WriteFile.  Only Rename reads the temporary file, and
\* the map it is a copy of does not change before.
WriteTmp ==
    /\ pc = "save"
    /\ \/ pc' = "rename" /\ UNCHANGED faults
       \/ /\ faults < MaxFaults
          /\ faults' = faults + 1
          /\ pc' = "idle"
    /\ UNCHANGED <<data, writeCount, wal, synced, snap, told, crashes>>

\* The new snapshot replaces the old one as a whole.
Rename ==
    /\ pc = "rename"
    /\ \/ /\ snap' = data
          /\ told' = ReturnsNil
          /\ UNCHANGED faults
       \/ /\ faults < MaxFaults
          /\ faults' = faults + 1
          /\ UNCHANGED <<snap, told>>
    /\ pc' = "idle"
    /\ UNCHANGED <<data, writeCount, wal, synced, crashes>>

-----------------------------------------------------------------------------

Running == pc \notin {"down", "failed"}

\* The process ends; what it has written to files stays with the kernel.
Kill ==
    /\ Running
    /\ crashes < MaxCrashes
    /\ crashes' = crashes + 1
    /\ pc' = "down"
    /\ data' = Empty
    /\ writeCount' = 0
    /\ UNCHANGED <<wal, synced, snap, told, faults>>

\* The machine stops.  Lines that Sync has not covered may be gone or cut
\* short, and the snapshot, which Save never syncs, may have lost its bytes.
PowerLoss ==
    /\ Running
    /\ crashes < MaxCrashes
    /\ crashes' = crashes + 1
    /\ pc' = "down"
    /\ data' = Empty
    /\ writeCount' = 0
    /\ \E n \in synced..Len(wal) :
         \/ wal' = SubSeq(wal, 1, n)
         \/ Tears /\ n < Len(wal) /\ wal' = Append(SubSeq(wal, 1, n), Fragment)
    /\ snap' \in {snap, NoSnapshot}
    /\ UNCHANGED <<synced, told, faults>>

\* FileWAL.Load: the scanner refuses a line that is too long, Unmarshal one
\* that is not a whole entry.
CanLoad(lines) ==
    \A k \in DOMAIN lines :
        lines[k] \in Entry /\ lines[k].value \notin LongValue

\* The map NewStoreFromDisk builds: the snapshot, then every line of the log
Restored(snapshot, lines) ==
    LET state[n \in 0..Len(lines)] ==
          IF n = 0 THEN snapshot ELSE applyLocked(state[n - 1], lines[n])
    IN  state[Len(lines)]

\* cmd/node and cmd/simplekvs end with log.Fatalf when the log does not load.
NewStoreFromDisk ==
    /\ pc = "down"
    /\ IF CanLoad(wal)
         THEN pc' = "idle" /\ data' = Restored(snap, wal)
         ELSE pc' = "failed" /\ UNCHANGED data
    /\ UNCHANGED <<writeCount, wal, synced, snap, told, faults, crashes>>

Next ==
    \/ Write \/ Sync \/ ApplyEntry \/ WriteTmp \/ Rename
    \/ Kill \/ PowerLoss \/ NewStoreFromDisk

Spec == Init /\ [][Next]_vars

-----------------------------------------------------------------------------

TypeOK ==
    /\ data \in State
    /\ writeCount \in 0..MaxWrites
    /\ pc \in {"idle", "sync", "apply", "save", "rename", "down", "failed"}
    /\ \A k \in DOMAIN wal : wal[k] \in Entry \union {Fragment, Garbled}
    /\ synced \in 0..Len(wal)
    /\ snap \in State
    /\ \A k \in DOMAIN told : told[k].ok \in BOOLEAN

\* The writes of a key that no later write with a nil result has replaced
Candidates(k) ==
    {j \in DOMAIN told :
       /\ told[j].key = k
       /\ ~\E l \in (j + 1)..Len(told) : told[l].key = k /\ told[l].ok}

(***************************************************************************)
(* Through write errors, failed syncs, crashes and restarts in any order,  *)
(* a key reads as the last write to it that returned nil, or as a later    *)
(* one whose caller got an error or no answer: what Upsert and Delete have *)
(* confirmed is never lost and never undone.                               *)
(***************************************************************************)
AckedDurable ==
    pc = "idle" =>
      \A k \in Key :
        \/ \E j \in Candidates(k) : data[k] = told[j].value
        \/ data[k] = Absent /\ \A j \in Candidates(k) : ~told[j].ok

\* The values a restart may find: of the writes that are left open, and none
\* if no write of the key is confirmed
Open(k) ==
    {told[j].value : j \in Candidates(k)}
      \union IF \E j \in DOMAIN told : told[j].key = k /\ told[j].ok
               THEN {} ELSE {Absent}

Promise == INSTANCE DurableMap
             WITH running <- Running, view <- data, open <- [k \in Key |-> Open(k)]

(***************************************************************************)
(* The store on its files is a durable map: whatever fails or crashes in   *)
(* between, a step of the store is a step of the promise or none.  Get     *)
(* shows a write at once and as a whole, a confirmed write is final, and a *)
(* restart picks for each key one of the values that were left open.       *)
(***************************************************************************)
StoreIsDurableMap == Promise!Spec

(***************************************************************************)
(* The snapshot never holds a write the synced log lacks, so a restart     *)
(* that finds the snapshot empty or gone reads the same map: Save needs no *)
(* sync of its own, and replaying the whole log over it does no harm.      *)
(***************************************************************************)
SnapshotRedundant ==
    CanLoad(SubSeq(wal, 1, synced)) =>
      LET lines == SubSeq(wal, 1, synced)
      IN  Restored(snap, lines) = Restored(NoSnapshot, lines)
=============================================================================
