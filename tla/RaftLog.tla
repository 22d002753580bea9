------------------------------ MODULE RaftLog ------------------------------
(***************************************************************************)
(* The in-memory log of raft/log.go.  A log is the sequence of the entries *)
(* after the sentinel {Term: 0, Index: 0} that newLogStore puts at the     *)
(* front, so the empty sequence is a fresh log and the sentinel shows only *)
(* in LastIndex, LastTerm and TermAt.                                      *)
(*                                                                         *)
(* The code finds an entry by scanning for its Index field.  The operators *)
(* below go to the position equal to that index.  The two agree on a log   *)
(* in which every entry sits at its own index (Contiguous); that the       *)
(* protocol keeps logs so is the invariant Raft!LogsContiguous, and that   *)
(* the scans and the operators agree is checked by module LogStore.        *)
(***************************************************************************)
EXTENDS Naturals, Sequences

LastIndex(l) == Len(l)

LastTerm(l) == IF l = <<>> THEN 0 ELSE l[Len(l)].term

HasEntry(l, index) == index \in 1..Len(l)

\* entryAt(index).Term, with 0 for "no such entry", as the callers use it.
TermAt(l, index) == IF HasEntry(l, index) THEN l[index].term ELSE 0

\* What is left of l after truncateAfter(index).
TruncateAfter(l, index) ==
    IF index < Len(l) THEN SubSeq(l, 1, index) ELSE l

EntriesFrom(l, index) == SubSeq(l, index, Len(l))

\* The entries replicateToPeer collects one entryAt at a time.
EntriesBetween(l, first, last) ==
    SubSeq(l, first, IF last < Len(l) THEN last ELSE Len(l))

(***************************************************************************)
(* The loop of HandleAppendEntries over args.Entries.  An entry the log    *)
(* already has with the same term is skipped; the first one that is        *)
(* missing or conflicts cuts the log below its index, and from there on    *)
(* every entry is appended.                                                *)
(***************************************************************************)
Unmatched(l, entries) ==
    {k \in 1..Len(entries) :
        \/ ~HasEntry(l, entries[k].index)
        \/ TermAt(l, entries[k].index) # entries[k].term}

FirstUnmatched(l, entries) ==
    CHOOSE k \in Unmatched(l, entries) :
        \A m \in Unmatched(l, entries) : k <= m

\* Mutant: conflicting entries are not truncated.
MergeWithoutTruncating(l, entries) ==
    l \o SelectSeq(entries, LAMBDA e : e.index > Len(l))

\* Mutant: everything after prevLogIndex is cut, conflict or not.
MergeAlwaysTruncating(l, entries) ==
    IF entries = <<>> THEN l
    ELSE TruncateAfter(l, entries[1].index - 1) \o entries

MergeEntries(l, entries) ==
    IF Unmatched(l, entries) = {}
      THEN l
      ELSE LET k == FirstUnmatched(l, entries)
           IN  TruncateAfter(l, entries[k].index - 1)
                 \o SubSeq(entries, k, Len(entries))

\* Mutant: any log will do.
AnyLogOK(l, lastTerm, lastIndex) == TRUE

(***************************************************************************)
(* The up-to-date comparison of HandleRequestVote: may a candidate whose   *)
(* log ends in <<lastTerm, lastIndex>> get the vote of a node with log l?  *)
(***************************************************************************)
LogOK(l, lastTerm, lastIndex) ==
    \/ lastTerm > LastTerm(l)
    \/ lastTerm = LastTerm(l) /\ lastIndex >= LastIndex(l)

Contiguous(l) == \A k \in 1..Len(l) : l[k].index = k
=============================================================================
