--------------------------- MODULE PipelineProofs ---------------------------
(***************************************************************************)
(* applyCommitted, applyCh and RunApplyLoop lose and duplicate nothing,    *)
(* and keep the order of the log while no two calls overlap, for any       *)
(* number of callers and entries and any capacity of applyCh.              *)
(*                                                                         *)
(* An entry up to lastApplied is in one place: with the call that claimed  *)
(* it, in the channel, applied or failed.  A step moves the first entry of *)
(* one place to the end of the next.                                       *)
(***************************************************************************)
EXTENDS ApplyPipeline, SequenceTheorems, FiniteSetTheorems, TLAPS

Increasing(s) == \A j, k \in 1..Len(s) : j < k => s[j] < s[k]

Distinct(s) == \A j, k \in 1..Len(s) : s[j] = s[k] => j = k

\* Only a call between its critical section and its return holds entries.
HoldersPush == \A g \in Caller : pc[g] # "push" => toApply[g] = <<>>

\* Whatever is under way or done was claimed under n.mu.
Claimed ==
    /\ lastApplied <= commitIndex
    /\ \A g \in Caller : Range(toApply[g]) \subseteq 1..lastApplied
    /\ Range(applyCh) \subseteq 1..lastApplied
    /\ Range(applied) \subseteq 1..lastApplied
    /\ failed \subseteq 1..lastApplied

\* No entry is in two places.
Separate ==
    /\ \A g \in Caller : Increasing(toApply[g])
    /\ Distinct(applyCh)
    /\ Distinct(applied)
    /\ \A g, h \in Caller :
         g # h => Range(toApply[g]) \intersect Range(toApply[h]) = {}
    /\ \A g \in Caller :
         Range(toApply[g]) \intersect (Range(applyCh) \union Range(applied) \union failed) = {}
    /\ Range(applyCh) \intersect (Range(applied) \union failed) = {}
    /\ Range(applied) \intersect failed = {}

\* Every claimed entry is somewhere.
NoneSkipped ==
    ~stopped =>
      \A idx \in 1..lastApplied :
        \/ \E g \in Caller : idx \in Range(toApply[g])
        \/ idx \in Range(applyCh) \union Range(applied) \union failed

\* One call holds entries, and they come after what it has pushed.
Ordered ==
    ~overlapped =>
      /\ Increasing(applyCh)
      /\ Increasing(applied)
      /\ \A g, h \in Caller : g = h \/ toApply[g] = <<>> \/ toApply[h] = <<>>
      /\ \A g \in Caller : \A x \in Range(toApply[g]) :
           \A y \in Range(applyCh) \union Range(applied) : y < x
      /\ \A x \in Range(applyCh), y \in Range(applied) : y < x

PipelineInv ==
    TypeOK /\ HoldersPush /\ Claimed /\ Separate /\ NoneSkipped /\ Ordered

-----------------------------------------------------------------------------

\* A send adds one entry to a channel, behind the others.
LEMMA AppendedEntry ==
    ASSUME NEW s \in Seq(Nat), NEW x \in Nat
    PROVE  /\ Append(s, x) \in Seq(Nat)
           /\ Range(Append(s, x)) = Range(s) \union {x}
           /\ (Distinct(s) /\ x \notin Range(s)) => Distinct(Append(s, x))
           /\ (Increasing(s) /\ \A y \in Range(s) : y < x) => Increasing(Append(s, x))
<1> DEFINE t == Append(s, x)
<1>1. /\ t \in Seq(Nat) /\ Len(t) = Len(s) + 1 /\ t[Len(s) + 1] = x
      /\ \A k \in 1..Len(s) : t[k] = s[k]
      /\ Len(s) \in Nat
  BY AppendProperties
<1>2. /\ Range(s) = {s[k] : k \in 1..Len(s)}
      /\ Range(t) = {t[k] : k \in 1..Len(t)}
  BY <1>1, RangeEquality, Zenon
<1> HIDE DEF t
<1>3. Range(t) = Range(s) \union {x}
  <2>1. \A k \in 1..Len(t) : k \in 1..Len(s) \/ k = Len(s) + 1
    BY <1>1
  <2>2. \A k \in 1..Len(s) : k \in 1..Len(t)
    BY <1>1
  <2>3. Len(s) + 1 \in 1..Len(t)
    BY <1>1
  <2> QED BY <1>1, <1>2, <2>1, <2>2, <2>3, Zenon
<1>4. \A k \in 1..Len(t) : (k \in 1..Len(s) /\ t[k] = s[k] /\ s[k] \in Range(s))
                              \/ (k = Len(s) + 1 /\ t[k] = x)
  BY <1>1, <1>2
<1>5. ASSUME Distinct(s), x \notin Range(s) PROVE Distinct(t)
  BY <1>4, <1>5 DEF Distinct
<1>6. ASSUME Increasing(s), \A y \in Range(s) : y < x PROVE Increasing(t)
  <2> SUFFICES ASSUME NEW j \in 1..Len(t), NEW k \in 1..Len(t), j < k
               PROVE  t[j] < t[k]
    BY DEF Increasing
  <2>1. j \in 1..Len(s)
    BY <1>1
  <2> QED BY <1>4, <1>6, <2>1 DEF Increasing
<1> QED BY <1>1, <1>3, <1>5, <1>6 DEF t

\* A receive takes the first entry of a channel, and a push that of a batch.
LEMMA RemovedEntry ==
    ASSUME NEW s \in Seq(Nat), s # <<>>
    PROVE  /\ Head(s) \in Nat
           /\ Tail(s) \in Seq(Nat)
           /\ Range(s) = Range(Tail(s)) \union {Head(s)}
           /\ Distinct(s) => Distinct(Tail(s)) /\ Head(s) \notin Range(Tail(s))
           /\ Increasing(s) =>
                Increasing(Tail(s)) /\ \A y \in Range(Tail(s)) : Head(s) < y
<1> DEFINE t == Tail(s)
<1>1. /\ t \in Seq(Nat) /\ Len(t) = Len(s) - 1 /\ Head(s) = s[1] /\ Head(s) \in Nat
      /\ \A k \in 1..Len(t) : t[k] = s[k + 1]
      /\ Len(s) \in Nat /\ Len(s) > 0
  BY HeadTailProperties, EmptySeq
<1>2. /\ Range(s) = {s[k] : k \in 1..Len(s)}
      /\ Range(t) = {t[k] : k \in 1..Len(t)}
  BY <1>1, RangeEquality, Zenon
<1> HIDE DEF t
<1>3. Range(s) = Range(t) \union {s[1]}
  <2>1. \A k \in 1..Len(s) : k = 1 \/ (k - 1 \in 1..Len(t) /\ t[k - 1] = s[k])
    BY <1>1
  <2>2. \A k \in 1..Len(t) : k + 1 \in 1..Len(s) /\ t[k] = s[k + 1]
    BY <1>1
  <2>3. 1 \in 1..Len(s)
    BY <1>1
  <2>4. Range(s) \subseteq Range(t) \union {s[1]}
    BY <1>2, <2>1
  <2>5. Range(t) \subseteq Range(s) /\ s[1] \in Range(s)
    BY <1>2, <2>2, <2>3, Zenon
  <2> QED BY <2>4, <2>5
<1>4. \A k \in 1..Len(t) : k + 1 \in 1..Len(s) /\ 1 < k + 1 /\ t[k] = s[k + 1]
  BY <1>1
<1>5. 1 \in 1..Len(s)
  BY <1>1
<1>6. ASSUME Distinct(s) PROVE Distinct(t) /\ s[1] \notin Range(t)
  <2>1. \A k \in 1..Len(t) : s[1] # t[k]
    BY <1>4, <1>5, <1>6 DEF Distinct
  <2>2. ASSUME NEW j \in 1..Len(t), NEW k \in 1..Len(t), t[j] = t[k]
        PROVE  j = k
    <3>1. j + 1 \in 1..Len(s) /\ k + 1 \in 1..Len(s) /\ s[j + 1] = s[k + 1]
      BY <1>4, <2>2
    <3>2. j + 1 = k + 1
      BY <1>6, <3>1 DEF Distinct
    <3> QED BY <3>2
  <2> QED BY <1>2, <2>1, <2>2 DEF Distinct
<1>7. ASSUME Increasing(s) PROVE Increasing(t) /\ \A y \in Range(t) : s[1] < y
  <2>1. \A k \in 1..Len(t) : s[1] < t[k]
    BY <1>4, <1>5, <1>7 DEF Increasing
  <2>2. ASSUME NEW j \in 1..Len(t), NEW k \in 1..Len(t), j < k
        PROVE  t[j] < t[k]
    <3>1. j + 1 < k + 1
      BY <2>2
    <3> QED BY <1>4, <1>7, <3>1 DEF Increasing
  <2> QED BY <1>2, <2>1, <2>2 DEF Increasing
<1> QED BY <1>1, <1>3, <1>6, <1>7 DEF t

\* What increases has no entry twice.
LEMMA IncreasingIsDistinct ==
    ASSUME NEW s \in Seq(Nat), Increasing(s)
    PROVE  Distinct(s)
<1>1. \A j \in 1..Len(s) : s[j] \in Nat
  OBVIOUS
<1>2. Len(s) \in Nat
  OBVIOUS
<1> QED BY <1>1, <1>2 DEF Increasing, Distinct

\* applyCommitted's loop collects the entries above lastApplied in order.
LEMMA CollectedEntries ==
    ASSUME NEW a \in Nat, NEW c \in Nat, a <= c
    PROVE  LET s == [k \in 1..(c - a) |-> a + k]
           IN  /\ s \in Seq(Nat)
               /\ Increasing(s)
               /\ Range(s) = (a + 1)..c
<1> DEFINE n == c - a
<1> DEFINE s == [k \in 1..n |-> a + k]
<1>1. n \in Nat /\ s \in [1..n -> Nat]
  OBVIOUS
<1>2. s \in Seq(Nat) /\ Len(s) = n
  BY <1>1
<1>3. Increasing(s)
  BY <1>1, <1>2 DEF Increasing
<1>4. Range(s) = (a + 1)..c
  <2>1. \A x \in (a + 1)..c : x - a \in 1..n /\ s[x - a] = x
    BY <1>1
  <2>2. \A k \in 1..n : s[k] \in (a + 1)..c
    BY <1>1
  <2> QED BY <2>1, <2>2, Zenon DEF Range
<1> QED BY <1>2, <1>3, <1>4

-----------------------------------------------------------------------------

\* Entries are naturals, which is all the lemmas above ask of a sequence.
LEMMA EntriesAreNaturals ==
    ASSUME TypeOK
    PROVE  /\ \A g \in Caller : toApply[g] \in Seq(Nat)
           /\ applyCh \in Seq(Nat) /\ applied \in Seq(Nat)
           /\ commitIndex \in Nat /\ lastApplied \in Nat
<1>1. 1..MaxIndex \subseteq Nat /\ MaxIndex \in Nat
  BY PipelineAssumption
<1>2. /\ \A g \in Caller : toApply[g] \in Seq(1..MaxIndex)
      /\ applyCh \in Seq(1..MaxIndex) /\ applied \in Seq(1..MaxIndex)
      /\ commitIndex \in 0..MaxIndex /\ lastApplied \in 0..MaxIndex
  BY DEF TypeOK
<1> QED BY <1>1, <1>2, SeqMonotonic

\* Sequences of claimed entries have the type the invariant asks for.
LEMMA ClaimedType ==
    ASSUME NEW s \in Seq(Nat), NEW n \in 0..MaxIndex, Range(s) \subseteq 1..n
    PROVE  s \in Seq(1..MaxIndex)
<1>1. MaxIndex \in Nat
  BY PipelineAssumption
<1>2. s \in Seq(Range(s))
  BY SeqOfRange
<1>3. Range(s) \subseteq 1..MaxIndex
  BY <1>1
<1> QED BY <1>2, <1>3, SeqMonotonic, Zenon

\* The empty sequence has no elements, in order and all different.
LEMMA EmptyRange == Range(<<>>) = {} /\ Increasing(<<>>) /\ Distinct(<<>>)
<1>1. Len(<<>>) = 0 /\ <<>> \in Seq(Nat)
  BY EmptySeq
<1>2. Range(<<>>) = {(<<>>)[k] : k \in 1..Len(<<>>)}
  BY <1>1, RangeEquality, Zenon
<1>3. 1..0 = {}
  OBVIOUS
<1> QED BY <1>1, <1>2, <1>3 DEF Increasing, Distinct

\* NewServer starts with nothing committed, queued or applied.
LEMMA PipelineInit == Init => PipelineInv
<1> SUFFICES ASSUME Init PROVE PipelineInv
  OBVIOUS
<1> USE DEF Init
<1>1. TypeOK
  <2>1. <<>> \in Seq(1..MaxIndex) /\ Len(<<>>) = 0
    BY EmptySeq
  <2>2. toApply \in [Caller -> Seq(1..MaxIndex)]
    BY <2>1
  <2>3. applyCh \in Seq(1..MaxIndex) /\ applied \in Seq(1..MaxIndex) /\ Len(applyCh) = 0
    BY <2>1
  <2>4. /\ commitIndex \in 0..MaxIndex /\ lastApplied \in 0..MaxIndex
        /\ 0 <= ApplyChCap
    BY PipelineAssumption
  <2>5. Len(applyCh) <= ApplyChCap
    BY <2>3, <2>4
  <2> QED BY <2>2, <2>3, <2>4, <2>5, Zenon DEF TypeOK
<1>2. HoldersPush /\ Claimed /\ Separate /\ Ordered
  BY EmptyRange DEF HoldersPush, Claimed, Separate, Ordered
<1>3. NoneSkipped
  BY DEF NoneSkipped
<1> QED BY <1>1, <1>2, <1>3 DEF PipelineInv

\* Commit moves commitIndex only.
LEMMA PipelineCommit ==
    ASSUME PipelineInv, NEW g \in Caller, Commit(g)
    PROVE  PipelineInv'
<1> USE DEF PipelineInv, Commit
<1>1. commitIndex' \in 0..MaxIndex /\ commitIndex' >= commitIndex
  BY PipelineAssumption DEF TypeOK
<1>2. TypeOK'
  BY <1>1 DEF TypeOK
<1>3. HoldersPush'
  BY DEF HoldersPush, TypeOK
<1>4. Claimed'
  BY <1>1, EntriesAreNaturals DEF Claimed
<1>5. Separate' /\ NoneSkipped' /\ Ordered'
  BY Zenon DEF Separate, NoneSkipped, Ordered, Increasing, Distinct
<1> QED BY <1>2, <1>3, <1>4, <1>5

\* Collect gives the entries above lastApplied to one call.
LEMMA PipelineCollect ==
    ASSUME PipelineInv, NEW g \in Caller, Collect(g)
    PROVE  PipelineInv'
<1> DEFINE s == [k \in 1..(commitIndex - lastApplied) |-> lastApplied + k]
<1>1. /\ TypeOK /\ HoldersPush /\ Claimed /\ Separate /\ NoneSkipped /\ Ordered
      /\ commitIndex \in Nat /\ lastApplied \in Nat /\ lastApplied <= commitIndex
      /\ commitIndex \in 0..MaxIndex
  BY EntriesAreNaturals DEF PipelineInv, Claimed, TypeOK
<1>2. s \in Seq(Nat) /\ Increasing(s) /\ Range(s) = (lastApplied + 1)..commitIndex
  BY <1>1, CollectedEntries
<1>3. /\ toApply' = [toApply EXCEPT ![g] = s] /\ toApply[g] = <<>>
      /\ lastApplied' = commitIndex /\ pc' = [pc EXCEPT ![g] = "push"]
      /\ overlapped' = (overlapped \/ \E h \in Caller \ {g} : Pushing(h))
      /\ UNCHANGED <<commitIndex, applyCh, applied, failed, stopped>>
  BY <1>1 DEF Collect, HoldersPush
<1> HIDE DEF s
<1>4. s \in Seq(1..MaxIndex)
  <2>1. Range(s) \subseteq 1..commitIndex
    BY <1>1, <1>2
  <2> QED BY <1>1, <1>2, <2>1, ClaimedType
<1>5. /\ toApply'[g] = s
      /\ \A h \in Caller : h # g => toApply'[h] = toApply[h]
      /\ \A h \in Caller : h # g => pc'[h] = pc[h]
      /\ pc'[g] = "push"
  BY <1>1, <1>3 DEF TypeOK
<1>6. TypeOK'
  <2>1. toApply' \in [Caller -> Seq(1..MaxIndex)] /\ pc' \in [Caller -> {"idle", "lock", "push"}]
    BY <1>1, <1>3, <1>4 DEF TypeOK
  <2>2. overlapped' \in BOOLEAN
    BY <1>1, <1>3, Zenon DEF TypeOK
  <2> QED BY <1>1, <1>3, <2>1, <2>2 DEF TypeOK
<1>7. HoldersPush'
  BY <1>1, <1>5 DEF HoldersPush
<1>8. Claimed'
  <2>1. 1..lastApplied \subseteq 1..commitIndex /\ Range(s) \subseteq 1..commitIndex
    BY <1>1, <1>2
  <2>2. \A h \in Caller : Range(toApply'[h]) \subseteq 1..commitIndex
    BY <1>1, <1>5, <2>1 DEF Claimed
  <2> QED BY <1>1, <1>3, <2>1, <2>2 DEF Claimed
<1>9. \A x \in Range(s) : x \notin 1..lastApplied
  BY <1>1, <1>2
<1>10. Separate'
  <2>1. /\ Range(s) \intersect (Range(applyCh) \union Range(applied) \union failed) = {}
        /\ \A h \in Caller : Range(s) \intersect Range(toApply[h]) = {}
    BY <1>1, <1>9, Zenon DEF Claimed
  <2>2. \A h \in Caller : Increasing(toApply'[h])
    BY <1>1, <1>2, <1>5 DEF Separate
  <2>3. \A h, i \in Caller :
          h # i => Range(toApply'[h]) \intersect Range(toApply'[i]) = {}
    BY <1>1, <1>5, <2>1 DEF Separate
  <2>4. \A h \in Caller : Range(toApply'[h]) \intersect
          (Range(applyCh) \union Range(applied) \union failed) = {}
    BY <1>1, <1>5, <2>1 DEF Separate
  <2> QED BY <1>1, <1>3, <2>2, <2>3, <2>4, Zenon DEF Separate
<1>11. NoneSkipped'
  <2> SUFFICES ASSUME ~stopped, NEW idx \in 1..commitIndex
               PROVE  \/ \E h \in Caller : idx \in Range(toApply'[h])
                      \/ idx \in Range(applyCh) \union Range(applied) \union failed
    BY <1>3 DEF NoneSkipped
  <2>1. CASE idx \in 1..lastApplied
    <3>1. \A h \in Caller : idx \in Range(toApply[h]) => h # g
      BY <1>3, EmptyRange
    <3> QED BY <1>1, <1>5, <2>1, <3>1 DEF NoneSkipped
  <2>2. CASE idx \notin 1..lastApplied
    BY <1>1, <1>2, <1>5, <2>2
  <2> QED BY <2>1, <2>2
<1>12. Ordered'
  <2> SUFFICES ASSUME ~overlapped' PROVE Ordered'
    BY DEF Ordered
  <2>1. ~overlapped /\ \A h \in Caller : h # g => toApply'[h] = <<>>
    BY <1>1, <1>3, <1>5, Zenon DEF Pushing, HoldersPush
  <2>2. \A h, i \in Caller : h = i \/ toApply'[h] = <<>> \/ toApply'[i] = <<>>
    BY <2>1
  <2>3. \A x \in Range(s) : \A y \in Range(applyCh) \union Range(applied) : y < x
    BY <1>1, <1>2 DEF Claimed
  <2>4. \A h \in Caller : \A x \in Range(toApply'[h]) :
          \A y \in Range(applyCh) \union Range(applied) : y < x
    BY <1>5, <2>1, <2>3, EmptyRange
  <2> QED BY <1>1, <1>3, <2>1, <2>2, <2>4 DEF Ordered
<1> QED BY <1>6, <1>7, <1>8, <1>10, <1>11, <1>12 DEF PipelineInv

\* Push moves the first entry of a batch into the channel.
LEMMA PipelinePush ==
    ASSUME PipelineInv, NEW g \in Caller, Push(g)
    PROVE  PipelineInv'
<1> DEFINE x == Head(toApply[g])
<1> DEFINE t == Tail(toApply[g])
<1>1. /\ TypeOK /\ HoldersPush /\ Claimed /\ Separate /\ NoneSkipped /\ Ordered
      /\ toApply[g] \in Seq(Nat) /\ applyCh \in Seq(Nat)
      /\ lastApplied \in 0..MaxIndex
  BY EntriesAreNaturals DEF PipelineInv, TypeOK
<1>2. /\ toApply[g] # <<>> /\ pc[g] = "push"
      /\ Len(applyCh) < ApplyChCap
      /\ applyCh' = Append(applyCh, x) /\ toApply' = [toApply EXCEPT ![g] = t]
      /\ UNCHANGED <<commitIndex, lastApplied, pc, applied, failed, stopped, overlapped>>
  BY DEF Push, Pushing
<1>3. /\ x \in Nat /\ t \in Seq(Nat) /\ Range(toApply[g]) = Range(t) \union {x}
      /\ Increasing(t) /\ \A y \in Range(t) : x < y
  BY <1>1, <1>2, RemovedEntry DEF Separate
<1>4. x \notin Range(t)
  BY <1>1, <1>2, <1>3, IncreasingIsDistinct, RemovedEntry DEF Separate
<1> HIDE DEF x, t
<1>5. /\ applyCh' \in Seq(Nat) /\ Range(applyCh') = Range(applyCh) \union {x}
      /\ Len(applyCh') = Len(applyCh) + 1 /\ Len(applyCh) \in Nat
  BY <1>1, <1>2, <1>3, AppendedEntry, AppendProperties
<1>6. /\ toApply'[g] = t
      /\ \A h \in Caller : h # g => toApply'[h] = toApply[h]
  BY <1>1, <1>2 DEF TypeOK
<1>7. Claimed'
  <2>1. /\ Range(t) \subseteq 1..lastApplied
        /\ Range(applyCh') \subseteq 1..lastApplied
    BY <1>1, <1>3, <1>5 DEF Claimed
  <2>2. \A h \in Caller : Range(toApply'[h]) \subseteq 1..lastApplied
    BY <1>1, <1>6, <2>1 DEF Claimed
  <2> QED BY <1>1, <1>2, <2>1, <2>2 DEF Claimed
<1>8. TypeOK'
  <2>1. applyCh' \in Seq(1..MaxIndex) /\ t \in Seq(1..MaxIndex)
    BY <1>1, <1>2, <1>3, <1>5, <1>6, <1>7, ClaimedType, Zenon DEF Claimed
  <2>2. Len(applyCh') <= ApplyChCap
    BY <1>2, <1>5, PipelineAssumption
  <2> QED BY <1>1, <1>2, <2>1, <2>2 DEF TypeOK
<1>9. HoldersPush'
  BY <1>1, <1>2, <1>6 DEF HoldersPush
<1>10. Separate'
  <2>1. x \notin Range(applyCh) \union Range(applied) \union failed
    BY <1>1, <1>3 DEF Separate
  <2>2. Distinct(applyCh')
    BY <1>1, <1>2, <1>3, <2>1, AppendedEntry DEF Separate
  <2>3. \A h \in Caller : /\ Range(toApply'[h]) \subseteq Range(toApply[h])
                          /\ x \notin Range(toApply'[h])
                          /\ Increasing(toApply'[h])
    BY <1>1, <1>3, <1>4, <1>6, Zenon DEF Separate
  <2>4. \A h, i \in Caller :
          h # i => Range(toApply'[h]) \intersect Range(toApply'[i]) = {}
    BY <1>1, <2>3, Zenon DEF Separate
  <2>5. \A h \in Caller : Range(toApply'[h]) \intersect
          (Range(applyCh') \union Range(applied) \union failed) = {}
    BY <1>1, <1>5, <2>3 DEF Separate
  <2>6. Range(applyCh') \intersect (Range(applied) \union failed) = {}
    BY <1>1, <1>5, <2>1 DEF Separate
  <2> QED BY <1>1, <1>2, <2>2, <2>3, <2>4, <2>5, <2>6, Zenon DEF Separate
<1>11. NoneSkipped'
  <2>1. \A h \in Caller, idx \in 1..lastApplied :
          idx \in Range(toApply[h]) => idx \in Range(toApply'[h]) \union Range(applyCh')
    BY <1>3, <1>5, <1>6
  <2>2. Range(applyCh) \subseteq Range(applyCh')
    BY <1>5
  <2> QED BY <1>1, <1>2, <2>1, <2>2 DEF NoneSkipped
<1>12. Ordered'
  <2> SUFFICES ASSUME ~overlapped PROVE Ordered'
    BY <1>2 DEF Ordered
  <2>1. \A y \in Range(applyCh) \union Range(applied) : y < x
    BY <1>1, <1>3 DEF Ordered
  <2>2. Increasing(applyCh')
    BY <1>1, <1>2, <1>3, <2>1, AppendedEntry DEF Ordered
  <2>3. \A h \in Caller : h # g => toApply'[h] = <<>>
    BY <1>1, <1>2, <1>6 DEF Ordered
  <2>4. \A h, i \in Caller : h = i \/ toApply'[h] = <<>> \/ toApply'[i] = <<>>
    BY <2>3
  <2>5. \A z \in Range(t) : \A y \in Range(applyCh') \union Range(applied) : y < z
    BY <1>1, <1>3, <1>5 DEF Ordered
  <2>6. \A h \in Caller : \A z \in Range(toApply'[h]) :
          \A y \in Range(applyCh') \union Range(applied) : y < z
    BY <1>6, <2>3, <2>5, EmptyRange
  <2>7. \A z \in Range(applyCh'), y \in Range(applied) : y < z
    BY <1>1, <1>5, <2>1 DEF Ordered
  <2> QED BY <1>1, <1>2, <2>2, <2>4, <2>6, <2>7 DEF Ordered
<1> QED BY <1>7, <1>8, <1>9, <1>10, <1>11, <1>12 DEF PipelineInv

\* Return drops what a stopped node's call had not pushed.
LEMMA PipelineReturn ==
    ASSUME PipelineInv, NEW g \in Caller, Return(g)
    PROVE  PipelineInv'
<1>1. /\ TypeOK /\ HoldersPush /\ Claimed /\ Separate /\ NoneSkipped /\ Ordered
      /\ toApply[g] = <<>> \/ stopped
      /\ pc' = [pc EXCEPT ![g] = "idle"] /\ toApply' = [toApply EXCEPT ![g] = <<>>]
      /\ UNCHANGED <<commitIndex, lastApplied, applyCh, applied, failed, stopped,
                     overlapped>>
  BY DEF PipelineInv, Return
<1>2. /\ toApply'[g] = <<>> /\ pc'[g] = "idle"
      /\ \A h \in Caller : h # g => toApply'[h] = toApply[h] /\ pc'[h] = pc[h]
  BY <1>1 DEF TypeOK
<1>3. TypeOK'
  BY <1>1, EmptySeq DEF TypeOK
<1>4. HoldersPush'
  BY <1>1, <1>2 DEF HoldersPush
<1>5. \A h \in Caller : /\ Range(toApply'[h]) \subseteq Range(toApply[h])
                        /\ Increasing(toApply'[h])
  BY <1>1, <1>2, EmptyRange DEF Separate
<1>6. Claimed'
  BY <1>1, <1>5 DEF Claimed
<1>7. Separate'
  <2>1. \A h, i \in Caller :
          h # i => Range(toApply'[h]) \intersect Range(toApply'[i]) = {}
    BY <1>1, <1>5, Zenon DEF Separate
  <2>2. \A h \in Caller : Range(toApply'[h]) \intersect
          (Range(applyCh) \union Range(applied) \union failed) = {}
    BY <1>1, <1>5 DEF Separate
  <2> QED BY <1>1, <1>5, <2>1, <2>2 DEF Separate
<1>8. NoneSkipped'
  <2>1. ASSUME ~stopped PROVE \A h \in Caller : toApply'[h] = toApply[h]
    BY <1>1, <1>2, <2>1
  <2> QED BY <1>1, <2>1 DEF NoneSkipped
<1>9. Ordered'
  <2>1. \A h \in Caller : toApply[h] = <<>> => toApply'[h] = <<>>
    BY <1>2
  <2> QED BY <1>1, <1>5, <2>1 DEF Ordered
<1> QED BY <1>3, <1>4, <1>6, <1>7, <1>8, <1>9 DEF PipelineInv

\* RunApplyLoop takes the first entry off the channel; it is applied or fails.
LEMMA PipelineRunApplyLoop ==
    ASSUME PipelineInv, RunApplyLoop
    PROVE  PipelineInv'
<1> DEFINE x == Head(applyCh)
<1>1. /\ TypeOK /\ HoldersPush /\ Claimed /\ Separate /\ NoneSkipped /\ Ordered
      /\ applyCh \in Seq(Nat) /\ applied \in Seq(Nat) /\ lastApplied \in 0..MaxIndex
  BY EntriesAreNaturals DEF PipelineInv, TypeOK
<1>2. /\ applyCh # <<>> /\ applyCh' = Tail(applyCh)
      /\ UNCHANGED <<commitIndex, lastApplied, pc, toApply, stopped, overlapped>>
  BY DEF RunApplyLoop
<1>3. \/ applied' = Append(applied, x) /\ failed' = failed
      \/ failed' = failed \union {x} /\ applied' = applied
  BY DEF RunApplyLoop
<1>4. /\ x \in Nat /\ applyCh' \in Seq(Nat)
      /\ Range(applyCh) = Range(applyCh') \union {x}
      /\ Distinct(applyCh') /\ x \notin Range(applyCh')
      /\ Increasing(applyCh) =>
           Increasing(applyCh') /\ \A y \in Range(applyCh') : x < y
  BY <1>1, <1>2, RemovedEntry DEF Separate
<1>5. Len(applyCh') <= Len(applyCh) /\ Len(applyCh') \in Nat /\ Len(applyCh) \in Nat
  BY <1>1, <1>2, HeadTailProperties
<1> HIDE DEF x
<1>6. x \notin Range(applied) \union failed
  BY <1>1, <1>4 DEF Separate
<1>7. /\ applied' \in Seq(Nat) /\ Distinct(applied')
      /\ Range(applied') \union failed' = Range(applied) \union failed \union {x}
      /\ Range(applied') \subseteq Range(applied) \union {x}
      /\ Range(applied') \intersect failed' = {}
  <2>1. CASE applied' = Append(applied, x) /\ failed' = failed
    BY <1>1, <1>4, <1>6, <2>1, AppendedEntry DEF Separate
  <2>2. CASE failed' = failed \union {x} /\ applied' = applied
    BY <1>1, <1>6, <2>2 DEF Separate
  <2> QED BY <1>3, <2>1, <2>2
<1>8. Claimed'
  <2>1. Range(applyCh') \union Range(applied') \union failed' \subseteq 1..lastApplied
    BY <1>1, <1>4, <1>7, Zenon DEF Claimed
  <2> QED BY <1>1, <1>2, <2>1 DEF Claimed
<1>9. TypeOK'
  <2>1. applyCh' \in Seq(1..MaxIndex) /\ applied' \in Seq(1..MaxIndex)
    BY <1>1, <1>2, <1>4, <1>7, <1>8, ClaimedType, Zenon DEF Claimed
  <2>2. Len(applyCh') <= ApplyChCap
    BY <1>1, <1>5, PipelineAssumption DEF TypeOK
  <2>3. failed' \in SUBSET (1..MaxIndex)
    BY <1>1, <1>2, <1>8, PipelineAssumption DEF Claimed
  <2> QED BY <1>1, <1>2, <2>1, <2>2, <2>3 DEF TypeOK
<1>10. HoldersPush'
  BY <1>1, <1>2 DEF HoldersPush
<1>11. Separate'
  <2>1. \A g \in Caller : Range(toApply[g]) \intersect
          (Range(applyCh') \union Range(applied') \union failed') = {}
    BY <1>1, <1>4, <1>7 DEF Separate
  <2>2. Range(applyCh') \intersect (Range(applied') \union failed') = {}
    BY <1>1, <1>4, <1>7 DEF Separate
  <2> QED BY <1>1, <1>2, <1>4, <1>7, <2>1, <2>2, Zenon DEF Separate
<1>12. NoneSkipped'
  BY <1>1, <1>2, <1>4, <1>7 DEF NoneSkipped
<1>13. Ordered'
  <2> SUFFICES ASSUME ~overlapped PROVE Ordered'
    BY <1>2 DEF Ordered
  <2>1. \A y \in Range(applied) : y < x
    BY <1>1, <1>4 DEF Ordered
  <2>2. Increasing(applied')
    BY <1>1, <1>3, <1>4, <2>1, AppendedEntry, Zenon DEF Ordered
  <2>3. Increasing(applyCh') /\ \A z \in Range(applyCh') : x < z
    BY <1>1, <1>4 DEF Ordered
  <2>4. \A z \in Range(applyCh'), y \in Range(applied') : y < z
    BY <1>1, <1>4, <1>7, <2>3 DEF Ordered
  <2>5. \A g \in Caller : \A z \in Range(toApply[g]) :
          \A y \in Range(applyCh') \union Range(applied') : y < z
    BY <1>1, <1>4, <1>7 DEF Ordered
  <2> QED BY <1>1, <1>2, <2>2, <2>3, <2>4, <2>5 DEF Ordered
<1> QED BY <1>8, <1>9, <1>10, <1>11, <1>12, <1>13 DEF PipelineInv

\* Every step of the pipeline keeps the invariant.
LEMMA PipelineNext == PipelineInv /\ [Next]_vars => PipelineInv'
<1> SUFFICES ASSUME PipelineInv, [Next]_vars PROVE PipelineInv'
  OBVIOUS
<1>1. CASE \E g \in Caller : Commit(g) \/ Collect(g) \/ Push(g) \/ Return(g)
  BY <1>1, PipelineCommit, PipelineCollect, PipelinePush, PipelineReturn
<1>2. CASE RunApplyLoop
  BY <1>2, PipelineRunApplyLoop
<1>3. CASE Stop
  BY <1>3 DEF Stop, PipelineInv, TypeOK, HoldersPush, Claimed, Separate, NoneSkipped,
              Ordered, Increasing, Distinct
<1>4. CASE UNCHANGED vars
  BY <1>4 DEF vars, PipelineInv, TypeOK, HoldersPush, Claimed, Separate, NoneSkipped,
              Ordered, Increasing, Distinct
<1> QED BY <1>1, <1>2, <1>3, <1>4 DEF Next

\* What the invariant says of the number of copies of an entry
LEMMA CopiesCounted ==
    ASSUME PipelineInv, NEW idx \in 1..MaxIndex
    PROVE  \/ /\ Copies(idx) = 0
              /\ \A g \in Caller : idx \notin Range(toApply[g])
              /\ idx \notin Range(applyCh) \union Range(applied) \union failed
           \/ Copies(idx) = 1 /\ idx <= lastApplied
<1> DEFINE A == {g \in Caller : Contains(toApply[g], idx)}
           B == {k \in DOMAIN applyCh : applyCh[k] = idx}
           C == {k \in DOMAIN applied : applied[k] = idx}
           D == {idx} \intersect failed
<1>1. /\ TypeOK /\ Claimed /\ Separate
      /\ \A g \in Caller : toApply[g] \in Seq(Nat)
      /\ applyCh \in Seq(Nat) /\ applied \in Seq(Nat) /\ lastApplied \in Nat
  BY EntriesAreNaturals DEF PipelineInv
<1>2. ASSUME NEW g \in Caller
      PROVE  Contains(toApply[g], idx) <=> idx \in Range(toApply[g])
  <2>1. Range(toApply[g]) = {toApply[g][k] : k \in 1..Len(toApply[g])}
    BY <1>1, RangeEquality, Zenon
  <2> QED BY <2>1 DEF Contains
<1>3. /\ DOMAIN applyCh = 1..Len(applyCh) /\ DOMAIN applied = 1..Len(applied)
  BY <1>1, LenProperties
<1>4. A = {} \/ \E g \in Caller : A = {g} /\ idx \in Range(toApply[g])
  <2>1. \A g, h \in A : g = h
    BY <1>1, <1>2, Zenon DEF Separate
  <2> QED BY <1>2, <2>1
<1>5. B = {} \/ \E k : B = {k} /\ idx \in Range(applyCh)
  <2>1. \A j, k \in B : j = k
    BY <1>1, <1>3 DEF Separate, Distinct
  <2>2. \A k \in B : idx \in Range(applyCh)
    BY DEF Range
  <2> QED BY <2>1, <2>2
<1>6. C = {} \/ \E k : C = {k} /\ idx \in Range(applied)
  <2>1. \A j, k \in C : j = k
    BY <1>1, <1>3 DEF Separate, Distinct
  <2>2. \A k \in C : idx \in Range(applied)
    BY DEF Range
  <2> QED BY <2>1, <2>2
<1>7. D = {} \/ (D = {idx} /\ idx \in failed)
  OBVIOUS
<1>8. /\ A = {} => \A g \in Caller : idx \notin Range(toApply[g])
      /\ B = {} => idx \notin Range(applyCh)
      /\ C = {} => idx \notin Range(applied)
      /\ D = {} => idx \notin failed
  BY <1>2 DEF Range
<1>9. Copies(idx) = Cardinality(A) + Cardinality(B) + Cardinality(C) + Cardinality(D)
  BY DEF Copies
<1>10. /\ A = {} \/ (B = {} /\ C = {} /\ D = {})
       /\ B = {} \/ (C = {} /\ D = {})
       /\ C = {} \/ D = {}
  BY <1>1, <1>4, <1>5, <1>6, <1>7, Zenon DEF Separate
<1>11. (A # {} \/ B # {} \/ C # {} \/ D # {}) => idx \in 1..lastApplied
  BY <1>1, <1>4, <1>5, <1>6, <1>7, Zenon DEF Claimed
<1> HIDE DEF A, B, C, D
<1>12. /\ Cardinality(A) = IF A = {} THEN 0 ELSE 1
       /\ Cardinality(B) = IF B = {} THEN 0 ELSE 1
       /\ Cardinality(C) = IF C = {} THEN 0 ELSE 1
       /\ Cardinality(D) = IF D = {} THEN 0 ELSE 1
  BY <1>4, <1>5, <1>6, <1>7, FS_EmptySet, FS_Singleton, Zenon
<1>13. CASE A = {} /\ B = {} /\ C = {} /\ D = {}
  <2>1. Copies(idx) = 0
    BY <1>9, <1>12, <1>13
  <2> QED BY <1>8, <1>13, <2>1
<1>14. CASE A # {} \/ B # {} \/ C # {} \/ D # {}
  <2>1. Copies(idx) = 1
    BY <1>9, <1>10, <1>12, <1>14
  <2> QED BY <1>1, <1>11, <1>14, <2>1
<1> QED BY <1>13, <1>14

(***************************************************************************)
(* Whatever the number of callers, the log and the channel's capacity, no  *)
(* index applyCommitted, applyCh or RunApplyLoop has in hand is outside    *)
(* the log, and the buffered channel never holds more than it can.         *)
(***************************************************************************)
THEOREM PipelineTypes == Spec => []TypeOK
<1>1. PipelineInv => TypeOK
  BY DEF PipelineInv
<1> QED BY <1>1, PipelineInit, PipelineNext, PTL DEF Spec

(***************************************************************************)
(* However the calls of applyCommitted interleave, no entry is applied     *)
(* twice, and none that was claimed is skipped unless Stop cuts a call     *)
(* short.                                                                  *)
(***************************************************************************)
THEOREM EntriesAppliedOnce == Spec => []AppliedOnce
<1>1. PipelineInv => AppliedOnce
  <2> SUFFICES ASSUME PipelineInv, NEW idx \in 1..MaxIndex
               PROVE  /\ Copies(idx) <= 1
                      /\ ~stopped => (Copies(idx) = 1 <=> idx <= lastApplied)
    BY DEF AppliedOnce
  <2>1. Copies(idx) = 0 \/ Copies(idx) = 1
    BY CopiesCounted
  <2>2. ASSUME ~stopped, idx <= lastApplied PROVE Copies(idx) = 1
    <3>1. idx \in 1..lastApplied
      BY <2>2, EntriesAreNaturals DEF PipelineInv
    <3> QED BY <2>2, <3>1, CopiesCounted DEF PipelineInv, NoneSkipped
  <2>3. ASSUME Copies(idx) = 1 PROVE idx <= lastApplied
    BY <2>3, CopiesCounted
  <2> QED BY <2>1, <2>2, <2>3
<1> QED BY <1>1, PipelineInit, PipelineNext, PTL DEF Spec

(***************************************************************************)
(* The store executes commands in the order of the log unless two calls of *)
(* applyCommitted have been pushing at the same time.                      *)
(***************************************************************************)
THEOREM InOrder == Spec => []InOrderUnlessOverlapping
<1>1. PipelineInv => InOrderUnlessOverlapping
  <2> SUFFICES ASSUME PipelineInv PROVE InOrderUnlessOverlapping
    OBVIOUS
  <2>1. DOMAIN applied = 1..Len(applied)
    BY EntriesAreNaturals, LenProperties DEF PipelineInv
  <2> QED BY <2>1 DEF PipelineInv, Ordered, Increasing, InOrderUnlessOverlapping
<1> QED BY <1>1, PipelineInit, PipelineNext, PTL DEF Spec
=============================================================================
