------------------------------ MODULE LogStore ------------------------------
(***************************************************************************)
(* raft/log.go as it is written: a slice with a sentinel at the front, and *)
(* every access a scan for an Index field.  MCRaft checks RaftLog, which   *)
(* the protocol modules use, against it.                                   *)
(***************************************************************************)
EXTENDS Naturals, Sequences, SequencesExt

Sentinel == [term |-> 0, index |-> 0]

newLogStore == <<Sentinel>>

\* lastIndexAndTerm and lastIndex
lastEntry(s) == s[Len(s)]

\* entryAt as the set of at most one entry it finds.  SelectInSeq is the first
\* position a scan from the front stops at, 0 for none.
entryAt(s, index) ==
    LET k == SelectInSeq(s, LAMBDA e : e.index = index)
    IN  IF k = 0 THEN {} ELSE {s[k]}

\* Mutant: the entry at index is cut as well.
truncateFrom(s, index) ==
    LET k == SelectInSeq(s, LAMBDA e : e.index >= index)
    IN  IF k = 0 THEN s ELSE SubSeq(s, 1, k - 1)

truncateAfter(s, index) ==
    LET k == SelectInSeq(s, LAMBDA e : e.index > index)
    IN  IF k = 0 THEN s ELSE SubSeq(s, 1, k - 1)

entriesFrom(s, index) ==
    LET k == SelectInSeq(s, LAMBDA e : e.index >= index)
    IN  IF k = 0 THEN <<>> ELSE SubSeq(s, k, Len(s))

\* replicateToPeer's collection of the entries of a range of indexes
collect(s, first, last) ==
    FoldLeft(LAMBDA acc, idx : acc \o SetToSeq(entryAt(s, idx)),
             <<>>, [k \in 1..(last + 1 - first) |-> first + k - 1])

\* Mutant: the conflicting entry itself is kept.
receiveEntryAfter(s, e) ==
    IF entryAt(s, e.index) = {} THEN Append(s, e)
    ELSE IF \A old \in entryAt(s, e.index) : old.term # e.term
           THEN Append(truncateAfter(s, e.index), e)
           ELSE s

\* One round of HandleAppendEntries' loop over args.Entries
receiveEntry(s, e) ==
    IF entryAt(s, e.index) = {} THEN Append(s, e)
    ELSE IF \A old \in entryAt(s, e.index) : old.term # e.term
           THEN Append(truncateAfter(s, e.index - 1), e)
           ELSE s

receiveEntries(s, batch) == FoldLeft(receiveEntry, s, batch)
=============================================================================
