--------------------------- MODULE ApplyPipeline ---------------------------
(***************************************************************************)
(* From commitIndex to the key-value store of one node: every goroutine    *)
(* that advances commitIndex calls applyCommitted, which claims the        *)
(* entries under n.mu and pushes them onto the buffered applyCh after      *)
(* releasing it; kv.RunApplyLoop takes them off.  An entry is its index.   *)
(***************************************************************************)
EXTENDS Naturals, Sequences, FiniteSets, SequencesExt

CONSTANTS
    Caller,         \* goroutines that can be inside applyCommitted at once
    ApplyChCap,     \* capacity of applyCh (256 in cmd/node)
    MaxIndex,       \* bound: entries committed in a behaviour
    MaxFailures     \* bound: commands the store fails to apply

ASSUME PipelineAssumption ==
    /\ IsFiniteSet(Caller)
    /\ ApplyChCap \in Nat \ {0}
    /\ MaxIndex \in Nat
    /\ MaxFailures \in Nat

VARIABLES
    commitIndex, lastApplied,
    pc,             \* pc[g]: "idle", "lock" (before n.mu.Lock), "push"
    toApply,        \* toApply[g]: what the call of g has still to push
    applyCh,
    applied,        \* the commands the store has executed, in that order
    failed,         \* the commands store.Apply returned an error for
    stopped,        \* stopCh is closed
    overlapped      \* history: two calls have been pushing at the same time

vars == <<commitIndex, lastApplied, pc, toApply, applyCh, applied, failed,
          stopped, overlapped>>

Init ==
    /\ commitIndex = 0
    /\ lastApplied = 0
    /\ pc = [g \in Caller |-> "idle"]
    /\ toApply = [g \in Caller |-> <<>>]
    /\ applyCh = <<>>
    /\ applied = <<>>
    /\ failed = {}
    /\ stopped = FALSE
    /\ overlapped = FALSE

-----------------------------------------------------------------------------

\* Replicate, sendHeartbeatToPeer or HandleAppendEntries sets commitIndex
\* under n.mu and has applyCommitted called once it is released.  The first
\* two call it even when commitIndex is where it was; a call that finds
\* nothing to claim changes nothing and is left out.
Commit(g) ==
    /\ pc[g] = "idle"
    /\ \E k \in commitIndex..MaxIndex :
         /\ k > lastApplied
         /\ commitIndex' = k
    /\ pc' = [pc EXCEPT ![g] = "lock"]
    /\ UNCHANGED <<lastApplied, toApply, applyCh, applied, failed, stopped,
                   overlapped>>

Pushing(g) == pc[g] = "push" /\ toApply[g] # <<>>

\* Mutant: lastApplied is left to whoever pushes.
CollectUnclaimed(g) ==
    /\ pc[g] = "lock"
    /\ toApply' = [toApply EXCEPT ![g] =
         [k \in 1..(commitIndex - lastApplied) |-> lastApplied + k]]
    /\ pc' = [pc EXCEPT ![g] = "push"]
    /\ overlapped' = (overlapped \/ \E h \in Caller \ {g} : Pushing(h))
    /\ UNCHANGED <<lastApplied, commitIndex, applyCh, applied, failed, stopped>>

\* Mutant: the loop runs while lastApplied <= commitIndex.
CollectOneMore(g) ==
    /\ pc[g] = "lock"
    /\ toApply' = [toApply EXCEPT ![g] =
         [k \in 1..(commitIndex + 1 - lastApplied) |-> lastApplied + k]]
    /\ lastApplied' = commitIndex + 1
    /\ pc' = [pc EXCEPT ![g] = "push"]
    /\ overlapped' = (overlapped \/ \E h \in Caller \ {g} : Pushing(h))
    /\ UNCHANGED <<commitIndex, applyCh, applied, failed, stopped>>

\* applyCommitted's critical section
Collect(g) ==
    /\ pc[g] = "lock"
    /\ toApply' = [toApply EXCEPT ![g] =
         [k \in 1..(commitIndex - lastApplied) |-> lastApplied + k]]
    /\ lastApplied' = commitIndex
    /\ pc' = [pc EXCEPT ![g] = "push"]
    /\ overlapped' = (overlapped \/ \E h \in Caller \ {g} : Pushing(h))
    /\ UNCHANGED <<commitIndex, applyCh, applied, failed, stopped>>

\* Mutant: the queue is filled from the end of the batch.
PushLast(g) ==
    /\ Pushing(g)
    /\ Len(applyCh) < ApplyChCap
    /\ applyCh' = Append(applyCh, Last(toApply[g]))
    /\ toApply' = [toApply EXCEPT ![g] = Front(@)]
    /\ UNCHANGED <<commitIndex, lastApplied, pc, applied, failed, stopped,
                   overlapped>>

\* Mutant: a select with a default: what does not fit is dropped.
PushOrDrop(g) ==
    /\ Pushing(g)
    /\ applyCh' = IF Len(applyCh) < ApplyChCap
                    THEN Append(applyCh, Head(toApply[g])) ELSE applyCh
    /\ toApply' = [toApply EXCEPT ![g] = Tail(@)]
    /\ UNCHANGED <<commitIndex, lastApplied, pc, applied, failed, stopped,
                   overlapped>>

\* The send of the select: it waits for room in applyCh.
Push(g) ==
    /\ Pushing(g)
    /\ Len(applyCh) < ApplyChCap
    /\ applyCh' = Append(applyCh, Head(toApply[g]))
    /\ toApply' = [toApply EXCEPT ![g] = Tail(@)]
    /\ UNCHANGED <<commitIndex, lastApplied, pc, applied, failed, stopped,
                   overlapped>>

\* The loop is over, or its select takes the closed stopCh.
Return(g) ==
    /\ pc[g] = "push"
    /\ toApply[g] = <<>> \/ stopped
    /\ pc' = [pc EXCEPT ![g] = "idle"]
    /\ toApply' = [toApply EXCEPT ![g] = <<>>]
    /\ UNCHANGED <<commitIndex, lastApplied, applyCh, applied, failed, stopped,
                   overlapped>>

\* One round of RunApplyLoop.  A command store.Apply fails on (its write
\* ahead log or its snapshot could not be written) is logged and skipped.
RunApplyLoop ==
    /\ applyCh # <<>>
    /\ applyCh' = Tail(applyCh)
    /\ \/ /\ applied' = Append(applied, Head(applyCh))
          /\ UNCHANGED failed
       \/ /\ Cardinality(failed) < MaxFailures
          /\ failed' = failed \union {Head(applyCh)}
          /\ UNCHANGED applied
    /\ UNCHANGED <<commitIndex, lastApplied, pc, toApply, stopped, overlapped>>

Stop ==
    /\ stopped' = TRUE
    /\ UNCHANGED <<commitIndex, lastApplied, pc, toApply, applyCh, applied,
                   failed, overlapped>>

Next ==
    \/ \E g \in Caller : Commit(g) \/ Collect(g) \/ Push(g) \/ Return(g)
    \/ RunApplyLoop
    \/ Stop

Spec == Init /\ [][Next]_vars

(***************************************************************************)
(* A goroutine that can run does run, and a sender that waits on a channel *)
(* gets the slot its consumer frees: Go's channels serve waiting senders   *)
(* in the order they came, so a send that is enabled again and again is    *)
(* made.  Nobody has to commit or to stop the node.                        *)
(***************************************************************************)
FairSpec ==
    /\ Spec
    /\ \A g \in Caller :
         /\ WF_vars(Collect(g))
         /\ SF_vars(Push(g))
         /\ WF_vars(toApply[g] = <<>> /\ Return(g))
    /\ WF_vars(RunApplyLoop)

-----------------------------------------------------------------------------

TypeOK ==
    /\ commitIndex \in 0..MaxIndex
    /\ lastApplied \in 0..MaxIndex
    /\ pc \in [Caller -> {"idle", "lock", "push"}]
    /\ toApply \in [Caller -> Seq(1..MaxIndex)]
    /\ applyCh \in Seq(1..MaxIndex)
    /\ Len(applyCh) <= ApplyChCap
    /\ applied \in Seq(1..MaxIndex)
    /\ failed \in SUBSET (1..MaxIndex)
    /\ stopped \in BOOLEAN
    /\ overlapped \in BOOLEAN

\* How many times an entry is on its way to the store or has got there
Copies(idx) ==
    Cardinality({g \in Caller : Contains(toApply[g], idx)})
    + Cardinality({k \in DOMAIN applyCh : applyCh[k] = idx})
    + Cardinality({k \in DOMAIN applied : applied[k] = idx})
    + Cardinality({idx} \intersect failed)

(***************************************************************************)
(* However the calls of applyCommitted interleave, an entry is claimed by  *)
(* one of them and reaches the store once: none is applied twice, and none *)
(* up to lastApplied is skipped, unless Stop cuts a call short.            *)
(***************************************************************************)
AppliedOnce ==
    \A idx \in 1..MaxIndex :
      /\ Copies(idx) <= 1
      /\ ~stopped => (Copies(idx) = 1 <=> idx <= lastApplied)

(***************************************************************************)
(* The store executes commands in log order as long as no two calls of     *)
(* applyCommitted have had entries to push at the same time: an inversion  *)
(* needs that overlap.                                                     *)
(***************************************************************************)
InOrderUnlessOverlapping ==
    ~overlapped =>
      \A j, k \in DOMAIN applied : j < k => applied[j] < applied[k]

(***************************************************************************)
(* An entry that is committed reaches the store (or its store.Apply        *)
(* fails), however small applyCh is, unless the node is stopped: senders   *)
(* that wait on a full applyCh never wait for each other.                  *)
(***************************************************************************)
CommittedIsApplied ==
    \A idx \in 1..MaxIndex :
      (commitIndex >= idx) ~>
        (Contains(applied, idx) \/ idx \in failed \/ stopped)

(***************************************************************************)
(* A node that has nothing left to apply holds the last committed write of *)
(* a key that every entry writes: it is behind only while it lags.         *)
(***************************************************************************)
CaughtUpIsCurrent ==
    (/\ \A g \in Caller : pc[g] = "idle"
     /\ applyCh = <<>> /\ failed = {} /\ ~stopped /\ applied # <<>>)
      => Last(applied) = lastApplied
=============================================================================
