----------------------------- MODULE RaftProofs -----------------------------
(***************************************************************************)
(* The steps of Raft and RaftCrash, for any set of commands and any        *)
(* bounds: they keep the types of the variables, what makes elections      *)
(* safe, and logs without holes.  LogProofs goes on to what the logs hold, *)
(* CompletenessProofs to what happens to acknowledged entries, and         *)
(* RaftTheorems puts the lemmas of the three together.                     *)
(***************************************************************************)
EXTENDS RaftCrash, TLAPS

-----------------------------------------------------------------------------
(* Counting *)

(***************************************************************************)
(* What the proofs use of the numbers and of the sizes of sets of nodes.   *)
(* RaftTheorems proves both from the library, whose own theorems stay out  *)
(* of the proofs of the steps; TypeInv hands them to every lemma.          *)
(***************************************************************************)
WellOrdered == \A U \in SUBSET Nat : U # {} => \E k \in U : \A m \in U : k <= m

\* The sizes of sets of nodes
Sizes ==
    /\ \A V \in SUBSET Server :
          /\ Cardinality(V) \in Nat
          /\ \A n \in Server \ V : Cardinality(V \union {n}) = Cardinality(V) + 1
    /\ \A V, W \in SUBSET Server :
          /\ V \subseteq W => Cardinality(V) <= Cardinality(W)
          /\ Cardinality(V) + Cardinality(W) > Cardinality(Server)
               => V \intersect W # {}

-----------------------------------------------------------------------------
(* Sequences *)

\* An index of a log is at most the length of the log.
LEMMA IndexBounds == \A n \in Nat : \A k \in 1..n : k \in Nat /\ 1 <= k /\ k <= n
  OBVIOUS

\* loopCandidate increments its term.
LEMMA NextTerm == \A t \in Nat : t + 1 \in Nat /\ t + 1 > t /\ t + 1 >= t
  OBVIOUS

\* A vote cast in the node's own term.
LEMMA SameTerm == \A t \in Nat : t <= t
  OBVIOUS

\* A vote of an earlier term: the node's term only rises, and where it comes
\* back to the vote's it never left it.
LEMMA TermsBetween ==
    \A t, u, v \in Nat : (t <= u /\ v >= u) => t <= v /\ (t = v => t = u)
  OBVIOUS

\* The entries of a log from nextIndex on: the k-th sent is the one k - 1 places
\* further.
LEMMA SentIndex ==
    \A n, next \in Nat : \A k \in 1..(n - next + 1) :
      next >= 1 => next + k - 1 \in 1..n /\ next + k - 1 = next - 1 + k
  OBVIOUS

\* The index below that of the k-th entry of a batch after prevLogIndex p
LEMMA BatchIndex == \A p, k \in Nat : (p + k) - 1 = p + k - 1
  OBVIOUS

\* The domain and the elements of a sequence
LEMMA LenFacts ==
    ASSUME NEW S, NEW l \in Seq(S)
    PROVE  /\ Len(l) \in Nat
           /\ DOMAIN l = 1..Len(l)
           /\ l \in [1..Len(l) -> S]
  OBVIOUS

\* Sequences with the same elements are the same.
LEMMA SameSeq ==
    ASSUME NEW S, NEW l \in Seq(S), NEW m \in Seq(S),
           Len(l) = Len(m), \A k \in 1..Len(l) : l[k] = m[k]
    PROVE  l = m
  OBVIOUS

\* Replicate appends an entry to its log.
LEMMA AppendFacts ==
    ASSUME NEW S, NEW l \in Seq(S), NEW e \in S
    PROVE  /\ Append(l, e) \in Seq(S)
           /\ Len(Append(l, e)) = Len(l) + 1
           /\ \A k \in 1..Len(l) : Append(l, e)[k] = l[k]
           /\ Append(l, e)[Len(l) + 1] = e
  OBVIOUS

\* HandleAppendEntries appends what is left of a batch.
LEMMA ConcatFacts ==
    ASSUME NEW S, NEW l \in Seq(S), NEW m \in Seq(S)
    PROVE  /\ l \o m \in Seq(S)
           /\ Len(l \o m) = Len(l) + Len(m)
           /\ \A k \in 1..(Len(l) + Len(m)) :
                (l \o m)[k] = IF k <= Len(l) THEN l[k] ELSE m[k - Len(l)]
  OBVIOUS

\* A stretch of a log, as truncateAfter and the senders take it
LEMMA SubSeqFacts ==
    ASSUME NEW S, NEW l, NEW a \in Int, NEW b \in Int, \A k \in a..b : l[k] \in S
    PROVE  /\ SubSeq(l, a, b) \in Seq(S)
           /\ Len(SubSeq(l, a, b)) = IF a <= b THEN b - a + 1 ELSE 0
           /\ \A k \in 1..(b - a + 1) : SubSeq(l, a, b)[k] = l[a + k - 1]
  OBVIOUS

\* Taking the first element off a queue
LEMMA TailFacts ==
    ASSUME NEW S, NEW q \in Seq(S), q # <<>>
    PROVE  /\ Head(q) \in S
           /\ Tail(q) \in Seq(S)
           /\ Len(Tail(q)) = Len(q) - 1
  OBVIOUS

-----------------------------------------------------------------------------
(* What the operations take from a log *)

\* truncateAfter, entriesFrom and the collection loop of replicateToPeer
\* return entries of the log they are given.
LEMMA TruncateAfterType ==
    ASSUME NEW S, NEW l \in Seq(S), NEW index \in Int
    PROVE  TruncateAfter(l, index) \in Seq(S)
<1>1. \A k \in 1..Len(l) : l[k] \in S
  OBVIOUS
<1>2. CASE index < Len(l)
  BY <1>1, <1>2, SubSeqFacts DEF TruncateAfter
<1>3. CASE ~(index < Len(l))
  BY <1>3 DEF TruncateAfter
<1> QED BY <1>2, <1>3

\* What a heartbeat sends from a log is a sequence of entries.
LEMMA EntriesFromType ==
    ASSUME NEW S, NEW l \in Seq(S), NEW index \in Nat, index >= 1
    PROVE  /\ EntriesFrom(l, index) \in Seq(S)
           /\ index <= Len(l) =>
                /\ Len(EntriesFrom(l, index)) = Len(l) - index + 1
                /\ \A k \in 1..Len(EntriesFrom(l, index)) :
                      EntriesFrom(l, index)[k] = l[index + k - 1]
<1>1. \A k \in index..Len(l) : l[k] \in S
  OBVIOUS
<1> QED BY <1>1, SubSeqFacts DEF EntriesFrom

\* What replicateToPeer collects from a log is a sequence of entries.
LEMMA EntriesBetweenType ==
    ASSUME NEW S, NEW l \in Seq(S), NEW first \in Nat, first >= 1,
           NEW last \in Nat
    PROVE  /\ EntriesBetween(l, first, last) \in Seq(S)
           /\ \A k \in 1..Len(EntriesBetween(l, first, last)) :
                 EntriesBetween(l, first, last)[k] = l[first + k - 1]
           /\ Len(EntriesBetween(l, first, last)) > 0
                => first + Len(EntriesBetween(l, first, last)) <= Len(l) + 1
<1> DEFINE n == IF last < Len(l) THEN last ELSE Len(l)
<1>1. n \in Nat /\ n <= Len(l)
  OBVIOUS
<1>2. \A k \in first..n : l[k] \in S
  BY <1>1
<1> HIDE DEF n
<1>3. /\ SubSeq(l, first, n) \in Seq(S)
      /\ Len(SubSeq(l, first, n)) = IF first <= n THEN n - first + 1 ELSE 0
      /\ \A k \in 1..(n - first + 1) :
            SubSeq(l, first, n)[k] = l[first + k - 1]
  BY <1>1, <1>2, SubSeqFacts
<1>4. EntriesBetween(l, first, last) = SubSeq(l, first, n)
  BY DEF EntriesBetween, n
<1> QED BY <1>1, <1>3, <1>4

-----------------------------------------------------------------------------
(* What HandleAppendEntries makes of a log *)

\* The position HandleAppendEntries' loop starts appending at: the first
\* entry of the batch that the log lacks.
LEMMA FirstUnmatchedIsFirst ==
    ASSUME WellOrdered, NEW l, NEW entries, Len(entries) \in Nat,
           Unmatched(l, entries) # {}
    PROVE  /\ FirstUnmatched(l, entries) \in Unmatched(l, entries)
           /\ FirstUnmatched(l, entries) \in 1..Len(entries)
           /\ \A m \in 1..Len(entries) :
                 m < FirstUnmatched(l, entries) => m \notin Unmatched(l, entries)
<1>1. Unmatched(l, entries) \subseteq 1..Len(entries)
  BY DEF Unmatched
<1>2. Unmatched(l, entries) \in SUBSET Nat
  BY <1>1
<1>3. \E k \in Unmatched(l, entries) : \A m \in Unmatched(l, entries) : k <= m
  BY <1>2 DEF WellOrdered
<1>4. /\ FirstUnmatched(l, entries) \in Unmatched(l, entries)
      /\ \A m \in Unmatched(l, entries) : FirstUnmatched(l, entries) <= m
  BY <1>3 DEF FirstUnmatched
<1> QED BY <1>1, <1>4

\* What the loop over args.Entries leaves is a log again.
LEMMA MergeType ==
    ASSUME WellOrdered, NEW S, NEW l \in Seq(S), NEW entries \in Seq(S),
           \A e \in S : e.index \in Nat
    PROVE  MergeEntries(l, entries) \in Seq(S)
<1> DEFINE k == FirstUnmatched(l, entries)
<1>1. CASE Unmatched(l, entries) = {}
  BY <1>1 DEF MergeEntries
<1>2. CASE Unmatched(l, entries) # {}
  <2>1. k \in 1..Len(entries)
    BY <1>2, FirstUnmatchedIsFirst
  <2> HIDE DEF k
  <2>2. entries[k] \in S /\ entries[k].index - 1 \in Int
    BY <2>1
  <2>3. TruncateAfter(l, entries[k].index - 1) \in Seq(S)
    BY <2>2, TruncateAfterType, Zenon
  <2>4. SubSeq(entries, k, Len(entries)) \in Seq(S)
    BY <2>1, SubSeqFacts
  <2>5. TruncateAfter(l, entries[k].index - 1)
          \o SubSeq(entries, k, Len(entries)) \in Seq(S)
    BY <2>3, <2>4, ConcatFacts
  <2> QED BY <1>2, <2>5 DEF MergeEntries, k
<1> QED BY <1>1, <1>2

\* l and m are the same up to k.
Agree(l, m, k) == k <= Len(l) /\ k <= Len(m) /\ \A j \in 1..k : l[j] = m[j]

(***************************************************************************)
(* What HandleAppendEntries makes of log l when a stretch of the leader's  *)
(* log w arrives that passes the log check: l, if it agrees with w to the  *)
(* end of the stretch, and otherwise w cut off there.                      *)
(***************************************************************************)
LEMMA MergeFollowsLeader ==
    ASSUME WellOrdered, NEW S, NEW l \in Seq(S), NEW w \in Seq(S),
           Contiguous(w),
           \A k \in 1..Len(l) :
              k <= Len(w) /\ l[k].term = w[k].term => Agree(l, w, k),
           NEW prev \in Nat, NEW entries \in Seq(S),
           prev + Len(entries) <= Len(w),
           \A k \in 1..Len(entries) : entries[k] = w[prev + k],
           prev > 0 => prev <= Len(l) /\ l[prev].term = w[prev].term
    PROVE  /\ MergeEntries(l, entries) \in Seq(S)
           /\ Agree(MergeEntries(l, entries), w, prev + Len(entries))
           /\ \/ MergeEntries(l, entries) = l
              \/ /\ Len(MergeEntries(l, entries)) = prev + Len(entries)
                 /\ ~Agree(l, w, prev + Len(entries))
<1> DEFINE n == Len(entries)
<1>1. Len(l) \in Nat /\ n \in Nat /\ Len(w) \in Nat
  BY LenFacts
<1>2. \A k \in 1..n : entries[k].index = prev + k /\ prev + k \in 1..Len(w)
  <2> TAKE k \in 1..n
  <2>1. prev + k \in 1..Len(w) /\ entries[k] = w[prev + k]
    BY <1>1
  <2> QED BY <2>1 DEF Contiguous
<1>3. ASSUME NEW k \in 0..n,
             k > 0 => prev + k <= Len(l) /\ l[prev + k].term = w[prev + k].term
      PROVE  Agree(l, w, prev + k)
  <2>1. CASE prev + k = 0
    BY <1>1, <2>1 DEF Agree
  <2>2. CASE prev + k > 0
    <3>1. /\ prev + k \in 1..Len(l) /\ prev + k <= Len(w)
          /\ l[prev + k].term = w[prev + k].term
      BY <1>1, <1>3, <2>2
    <3> QED BY <3>1
  <2> QED BY <1>1, <2>1, <2>2
<1>4. ASSUME NEW k \in 1..n, k \notin Unmatched(l, entries)
      PROVE  prev + k <= Len(l) /\ l[prev + k].term = w[prev + k].term
  <2>1. HasEntry(l, prev + k) /\ TermAt(l, prev + k) = entries[k].term
    BY <1>2, <1>4 DEF Unmatched
  <2> QED BY <1>1, <2>1 DEF HasEntry, TermAt
<1>5. CASE Unmatched(l, entries) = {}
  <2>1. MergeEntries(l, entries) = l
    BY <1>5 DEF MergeEntries
  <2>2. n > 0 => prev + n <= Len(l) /\ l[prev + n].term = w[prev + n].term
    BY <1>1, <1>4, <1>5
  <2>3. Agree(l, w, prev + n)
    BY <1>1, <1>3, <2>2
  <2> QED BY <2>1, <2>3
<1>6. CASE Unmatched(l, entries) # {}
  <2> DEFINE k == FirstUnmatched(l, entries)
             m == prev + k - 1
             t == TruncateAfter(l, entries[k].index - 1)
             s == SubSeq(entries, k, n)
  <2>1. /\ k \in 1..n /\ k \in Unmatched(l, entries)
        /\ \A j \in 1..n : j < k => j \notin Unmatched(l, entries)
    BY <1>1, <1>6, FirstUnmatchedIsFirst
  <2>2. MergeEntries(l, entries) = t \o s
    BY <1>6, Zenon DEF MergeEntries
  <2> HIDE DEF k
  <2>3. m = prev + (k - 1) /\ k - 1 \in 0..n /\ m \in Nat /\ m < prev + n
    BY <1>1, <2>1
  <2>4. Agree(l, w, m)
    <3>1. k - 1 > 0 => /\ prev + (k - 1) <= Len(l)
                       /\ l[prev + (k - 1)].term = w[prev + (k - 1)].term
      <4> SUFFICES ASSUME k - 1 > 0
                   PROVE  /\ prev + (k - 1) <= Len(l)
                          /\ l[prev + (k - 1)].term = w[prev + (k - 1)].term
        OBVIOUS
      <4>1. k - 1 \in 1..n /\ k - 1 < k
        BY <1>1, <2>1
      <4> QED BY <1>4, <2>1, <4>1
    <3> QED BY <1>3, <2>3, <3>1
  <2>5. ~Agree(l, w, prev + n)
    <3>1. prev + k \in 1..(prev + n) /\ entries[k] = w[prev + k]
      BY <1>1, <2>1
    <3>2. ~HasEntry(l, prev + k) \/ TermAt(l, prev + k) # w[prev + k].term
      BY <1>2, <2>1, <3>1 DEF Unmatched
    <3> QED BY <1>1, <3>1, <3>2 DEF Agree, HasEntry, TermAt
  <2>6. entries[k].index - 1 = m
    BY <1>1, <1>2, <2>1
  <2>7. t \in Seq(S) /\ Len(t) = m /\ \A j \in 1..m : t[j] = w[j]
    <3>1. t = TruncateAfter(l, m) /\ m <= Len(l)
      BY <2>4, <2>6 DEF Agree
    <3>2. \A j \in 1..m : l[j] \in S /\ l[j] = w[j]
      BY <1>1, <2>3, <2>4, <3>1 DEF Agree
    <3>3. m \in Int /\ 1 \in Int /\ m - 1 + 1 = m
      BY <2>3
    <3>4. /\ SubSeq(l, 1, m) \in Seq(S) /\ Len(SubSeq(l, 1, m)) = m
          /\ \A j \in 1..m : SubSeq(l, 1, m)[j] = l[j]
      BY <2>3, <3>2, <3>3, SubSeqFacts
    <3>5. CASE m < Len(l)
      BY <3>1, <3>2, <3>4, <3>5, Zenon DEF TruncateAfter
    <3>6. CASE m = Len(l)
      <4>1. ~(m < Len(l))
        BY <1>1, <3>6
      <4>2. t = l
        BY <3>1, <4>1 DEF TruncateAfter
      <4> QED BY <3>2, <3>6, <4>2
    <3> QED BY <1>1, <2>3, <3>1, <3>5, <3>6
  <2>8. /\ s \in Seq(S) /\ Len(s) = n - k + 1
        /\ \A j \in 1..(n - k + 1) : s[j] = entries[k + j - 1]
    <3>1. \A j \in k..n : entries[j] \in S
      BY <1>1, <2>1
    <3> QED BY <1>1, <2>1, <3>1, SubSeqFacts
  <2> HIDE DEF t, s
  <2>9. /\ t \o s \in Seq(S) /\ Len(t \o s) = Len(t) + Len(s)
        /\ \A j \in 1..(Len(t) + Len(s)) :
              (t \o s)[j] = IF j <= Len(t) THEN t[j] ELSE s[j - Len(t)]
    <3>1. t \in Seq(S) /\ s \in Seq(S)
      BY <2>7, <2>8
    <3> HIDE DEF n, m
    <3> QED BY <3>1, ConcatFacts
  <2>10. Len(t) + Len(s) = prev + n
    <3>1. m + (n - k + 1) = prev + n
      BY <1>1, <2>1
    <3>2. Len(t) = m /\ Len(s) = n - k + 1
      BY <2>7, <2>8
    <3> QED BY <3>1, <3>2
  <2>11. ASSUME NEW j \in 1..(prev + n) PROVE (t \o s)[j] = w[j]
    <3>1. (t \o s)[j] = IF j <= m THEN t[j] ELSE s[j - m]
      <4>1. j \in 1..(Len(t) + Len(s)) /\ Len(t) = m
        BY <2>7, <2>10
      <4> HIDE DEF m
      <4> QED BY <2>9, <4>1
    <3>2. CASE j <= m
      <4>1. j \in 1..m
        BY <2>3, <3>2
      <4> QED BY <2>7, <3>1, <3>2, <4>1
    <3>3. CASE ~(j <= m)
      <4>1. /\ j - m \in 1..(n - k + 1) /\ k + (j - m) - 1 \in 1..n
            /\ prev + (k + (j - m) - 1) = j
        BY <1>1, <2>1, <2>3, <3>3
      <4>2. s[j - m] = entries[k + (j - m) - 1]
        BY <2>8, <4>1
      <4>3. entries[k + (j - m) - 1] = w[j]
        BY <4>1
      <4> QED BY <3>1, <3>3, <4>2, <4>3
    <3> QED BY <3>2, <3>3, Zenon
  <2>12. Agree(t \o s, w, prev + n)
    BY <1>1, <2>9, <2>10, <2>11 DEF Agree
  <2> QED BY <2>2, <2>5, <2>9, <2>10, <2>12
<1> QED BY <1>5, <1>6

-----------------------------------------------------------------------------
(* Type correctness *)

(***************************************************************************)
(* TypeOK is not inductive: r.prevIndex is nextIndex - 1, a call's node is *)
(* used to index the node fields, and an answer is filed under the command *)
(* of its request.  Types are kept because of what ties these together:    *)
(***************************************************************************)

\* becomeLeader has set nextIndex before anything reads it, and the guards on
\* nextIndex-- keep it positive.
NextPositive ==
    \A i \in Server : (state[i] = Leader \/ pc[i] = "leader") =>
        \A p \in Peers(i) : nextIndex[i][p] >= 1

\* Heartbeat goroutines exist only inside loopLeader, one per peer.
HeartbeatsOfLeader ==
    \A i \in Server : /\ hbReady[i] \subseteq Peers(i)
                      /\ hbReady[i] # {} => pc[i] = "leader"

\* The goroutines of a Replicate call talk to the peers of its node.
CallOfNode(c) ==
    IF call[c].st = "none"
      THEN call[c].ready = {}
      ELSE /\ call[c].node \in Server
           /\ call[c].ready \subseteq Peers(call[c].node)

\* An exchange is with a peer, and one of replicateToPeer has its call.
ExchangeOfCall(r) ==
    /\ r.src # r.dst
    /\ r.caller = "replicate" =>
         /\ r.cmd \in Cmd
         /\ call[r.cmd].st # "none"
         /\ call[r.cmd].node = r.src

TypeInv ==
    /\ WellOrdered /\ Sizes
    /\ TypeOK
    /\ NextPositive
    /\ HeartbeatsOfLeader
    /\ \A c \in Cmd : CallOfNode(c)
    /\ \A r \in aeRpcs : ExchangeOfCall(r)

\* NewNode starts every node with well-typed fields.
LEMMA TypeInit == WellOrdered /\ Sizes /\ Init => TypeInv
<1> SUFFICES ASSUME WellOrdered, Sizes, Init PROVE TypeInv
  OBVIOUS
<1> USE ServerAssumption, BoundAssumption DEF Init
<1>1. TypeOK
  <2>1. call \in [Cmd -> Call]
    BY DEF Call
  <2>2. \A i \in Server : Len(stepDownCh[i]) <= StepDownCap
    OBVIOUS
  <2>3. state \in [Server -> {Follower, Candidate, Leader}]
    OBVIOUS
  <2>4. log \in [Server -> Seq(Entry)] /\ stepDownCh \in [Server -> Seq(Nat)]
    OBVIOUS
  <2> QED BY <2>1, <2>2, <2>3, <2>4, Zenon DEF TypeOK
<1>2. NextPositive /\ HeartbeatsOfLeader
  BY DEF NextPositive, HeartbeatsOfLeader, Follower, Leader
<1>3. \A c \in Cmd : CallOfNode(c)
  BY DEF CallOfNode
<1> QED BY <1>1, <1>2, <1>3 DEF TypeInv

\* The fields of one node, and what lastIndexAndTerm makes of its log.
LEMMA NodeTypes ==
    ASSUME TypeOK, NEW i \in Server
    PROVE  /\ currentTerm[i] \in Nat
           /\ votedFor[i] \in Server \union {None}
           /\ state[i] \in {Follower, Candidate, Leader}
           /\ log[i] \in Seq(Entry)
           /\ LastIndex(log[i]) \in Nat
           /\ LastTerm(log[i]) \in Nat
           /\ commitIndex[i] \in Nat
           /\ nextIndex[i] \in [Server -> Nat]
           /\ matchIndex[i] \in [Server -> Nat]
<1>1. log[i] \in Seq(Entry)
  BY DEF TypeOK
<1>2. LastTerm(log[i]) \in Nat
  <2>1. CASE log[i] # <<>>
    <3>1. log[i][Len(log[i])] \in Entry
      BY <1>1, <2>1
    <3> QED BY <2>1, <3>1 DEF LastTerm, Entry
  <2> QED BY <2>1 DEF LastTerm
<1>3. LastIndex(log[i]) \in Nat
  BY <1>1 DEF LastIndex
<1> QED BY <1>1, <1>2, <1>3 DEF TypeOK

\* Every step of a node, a goroutine or a handler keeps TypeInv.
LEMMA TypeNext == TypeInv /\ [Next]_vars => TypeInv'

\* The largest element of a bounded set of naturals: what advanceCommitIndex
\* finds when it walks down from the end of the log.
<1>GreatestElement.
    ASSUME WellOrdered, NEW U \in SUBSET Nat, U # {},
           NEW n \in Nat, \A u \in U : u <= n
    PROVE  \E k \in U : \A m \in U : m <= k
  <2> USE <1>GreatestElement
  <2> DEFINE V == {n - u : u \in U}
  <2>1. V \in SUBSET Nat
    OBVIOUS
  <2>2. V # {}
    BY Zenon
  <2>3. PICK v \in V : \A m \in V : v <= m
    BY <2>1, <2>2, Zenon DEF WellOrdered
  <2>4. PICK k \in U : v = n - k
    OBVIOUS
  <2>5. \A m \in U : m <= k
    <3> TAKE m \in U
    <3>1. n - m \in V
      OBVIOUS
    <3>2. n - k <= n - m
      BY <2>3, <2>4, <3>1, Zenon
    <3> QED BY <3>2
  <2> QED BY <2>5

\* advanceCommitIndex sets commitIndex to a natural number.
<1>advanceCommitIndexType.
    ASSUME WellOrdered, TypeOK, NEW i \in Server, NEW match
    PROVE  /\ advanceCommitIndex(i, match) \in Nat
           /\ advanceCommitIndex(i, match) >= commitIndex[i]
  <2> USE <1>advanceCommitIndexType
  <2>1. CASE Committable(i, match) = {}
    BY <2>1 DEF advanceCommitIndex, TypeOK
  <2>2. CASE Committable(i, match) # {}
    <3>1. /\ Committable(i, match) \in SUBSET Nat
          /\ LastIndex(log[i]) \in Nat
          /\ \A u \in Committable(i, match) : /\ u <= LastIndex(log[i])
                                              /\ u > commitIndex[i]
      BY DEF Committable, TypeOK, LastIndex
    <3>2. \E k \in Committable(i, match) :
             \A m \in Committable(i, match) : m <= k
      BY <2>2, <3>1, <1>GreatestElement, Zenon
    <3>3. advanceCommitIndex(i, match) \in Committable(i, match)
      BY <2>2, <3>2 DEF advanceCommitIndex
    <3> QED BY <3>1, <3>3 DEF TypeOK
  <2> QED BY <2>1, <2>2

\* becomeFollower keeps the types of a node's term, vote and role.
<1>becomeFollowerType.
    ASSUME TypeOK, NEW i \in Server, NEW term \in Nat, becomeFollower(i, term)
    PROVE  /\ currentTerm' \in [Server -> Nat]
           /\ votedFor' \in [Server -> Server \union {None}]
           /\ state' \in [Server -> {Follower, Candidate, Leader}]
           /\ \A j \in Server : state'[j] = Leader => state[j] = Leader
  BY <1>becomeFollowerType, Zenon
  DEF TypeOK, becomeFollower, TermAfter, VoteAfter, Follower, Leader

\* Going from one role loop to the next keeps TypeInv.
<1>EnterType.
    ASSUME TypeOK, NEW i \in Server,
           NEW role \in {Follower, Candidate, Leader}, Enter(i, role)
    PROVE  /\ pc' \in [Server -> {"follower", "campaign", "candidate", "leader"}]
           /\ campaign' \in [Server -> Nat]
           /\ votes' \in [Server -> SUBSET Server]
           /\ pc'[i] = "leader" => role = Leader
           /\ \A j \in Server \ {i} : pc'[j] = pc[j]
  <2> USE <1>EnterType
  <2>1. pc' \in [Server -> {"follower", "campaign", "candidate", "leader"}]
    BY DEF TypeOK, Enter, Follower, Candidate, Leader
  <2>2. campaign' \in [Server -> Nat] /\ votes' \in [Server -> SUBSET Server]
    BY Zenon DEF TypeOK, Enter
  <2>3. /\ pc'[i] = "leader" => role = Leader
        /\ \A j \in Server \ {i} : pc'[j] = pc[j]
    BY DEF TypeOK, Enter, Follower, Candidate, Leader
  <2> QED BY <2>1, <2>2, <2>3

\* A step-down signal leaves stepDownCh a bounded queue of terms.
<1>signalStepDownType.
    ASSUME TypeOK, NEW i \in Server, NEW term \in Nat, signalStepDown(i, term)
    PROVE  /\ stepDownCh' \in [Server -> Seq(Nat)]
           /\ \A j \in Server : Len(stepDownCh'[j]) <= StepDownCap
  <2> USE <1>signalStepDownType
  <2>1. /\ Append(stepDownCh[i], term) \in Seq(Nat)
        /\ Len(Append(stepDownCh[i], term)) = Len(stepDownCh[i]) + 1
        /\ Len(stepDownCh[i]) \in Nat
    BY AppendFacts DEF TypeOK
  <2> DEFINE ch == IF Len(stepDownCh[i]) < StepDownCap
                     THEN Append(stepDownCh[i], term) ELSE stepDownCh[i]
  <2>2. ch \in Seq(Nat) /\ Len(ch) <= StepDownCap
    BY <2>1, BoundAssumption DEF TypeOK
  <2>3. stepDownCh' = [stepDownCh EXCEPT ![i] = ch]
    BY DEF signalStepDown
  <2> HIDE DEF ch
  <2> QED BY <2>2, <2>3 DEF TypeOK

\* HandleAppendEntries' change of term, vote and role keeps their types.
<1>AcceptLeaderType.
    ASSUME TypeOK, NEW r \in aeRpcs, AcceptLeader(r)
    PROVE  /\ currentTerm' \in [Server -> Nat]
           /\ votedFor' \in [Server -> Server \union {None}]
           /\ state' \in [Server -> {Follower, Candidate, Leader}]
           /\ \A j \in Server : state'[j] = Leader => state[j] = Leader
  <2> USE <1>AcceptLeaderType
  <2>1. r.dst \in Server /\ r.term \in Nat
    BY Zenon DEF TypeOK, AERpc
  <2> QED BY <2>1 DEF TypeOK, AcceptLeader, VoteAfter, Follower, Candidate, Leader

\* Marking an exchange as answered keeps the set of exchanges well typed.
<1>AnswerType.
    ASSUME TypeInv, NEW r \in aeRpcs, NEW term \in Nat, NEW success \in BOOLEAN,
           Answer(r, term, success), UNCHANGED call
    PROVE  /\ aeRpcs' \subseteq AERpc
           /\ (\A q \in aeRpcs : ExchangeOfCall(q))'
  <2> USE <1>AnswerType
  <2>0. r \in AERpc
    BY DEF TypeInv, TypeOK
  <2>1. [r EXCEPT !.done = TRUE, !.replyTerm = term, !.success = success]
           \in AERpc
    BY <2>0, Zenon DEF AERpc
  <2>2. aeRpcs' \subseteq AERpc
    BY <2>1 DEF TypeInv, TypeOK, Answer
  <2>3. ASSUME NEW q \in aeRpcs' PROVE ExchangeOfCall(q)'
    <3>1. CASE q \in aeRpcs
      BY <3>1 DEF TypeInv, ExchangeOfCall
    <3>2. CASE q = [r EXCEPT !.done = TRUE, !.replyTerm = term,
                             !.success = success]
      <4>1. /\ q.src = r.src /\ q.dst = r.dst
            /\ q.caller = r.caller /\ q.cmd = r.cmd
        BY <3>2 DEF TypeInv, TypeOK, AERpc
      <4> QED BY <4>1 DEF TypeInv, ExchangeOfCall
    <3> QED BY <3>1, <3>2 DEF Answer
  <2> QED BY <2>2, <2>3

\* The run goroutine's steps keep the types.
<1>TypeRunGoroutine.
    ASSUME TypeInv, NEW i \in Server, RunGoroutine(i)
    PROVE  TypeInv'
  <2> USE <1>TypeRunGoroutine
  <2> USE DEF TypeInv
  <2> USE DEF nodeVars, logVars, peerVars, loopVars, history
  <2>1. CASE ElectionTimeout(i)
    <3> USE <2>1 DEF ElectionTimeout
    <3>1. state' \in [Server -> {Follower, Candidate, Leader}]
      BY DEF TypeOK
    <3>2. TypeOK'
      BY <3>1, <1>EnterType, Zenon DEF TypeOK
    <3>3. \A j \in Server : /\ state'[j] = Leader => state[j] = Leader
                            /\ pc'[j] = "leader" => pc[j] = "leader"
      BY <1>EnterType, Zenon DEF TypeOK, Candidate, Leader
    <3>4. NextPositive'
      BY <3>3, Zenon DEF NextPositive
    <3>5. HeartbeatsOfLeader'
      BY <1>EnterType DEF HeartbeatsOfLeader
    <3> QED BY <3>2, <3>4, <3>5 DEF CallOfNode, ExchangeOfCall
  <2>2. CASE StepDown(i)
    <3> USE <2>2 DEF StepDown
    <3>1. Head(stepDownCh[i]) \in Nat /\ Tail(stepDownCh[i]) \in Seq(Nat)
          /\ Len(Tail(stepDownCh[i])) <= StepDownCap
      BY TailFacts, BoundAssumption DEF TypeOK
    <3>2. TypeOK'
      <4>1. /\ stepDownCh' \in [Server -> Seq(Nat)]
            /\ \A j \in Server : Len(stepDownCh'[j]) <= StepDownCap
        BY <3>1, Zenon DEF TypeOK
      <4> QED BY <3>1, <4>1, <1>becomeFollowerType, <1>EnterType, Zenon DEF TypeOK
    <3>3. NextPositive'
      BY <3>1, <1>becomeFollowerType, <1>EnterType, Zenon
      DEF NextPositive, Follower, Leader
    <3>4. HeartbeatsOfLeader'
      BY <1>EnterType, Zenon DEF HeartbeatsOfLeader, HeartbeatsDone
    <3> QED BY <3>2, <3>3, <3>4 DEF CallOfNode, ExchangeOfCall
  <2>3. CASE StartCampaign(i)
    <3>0. /\ currentTerm[i] \in Nat
          /\ LastIndex(log[i]) \in Nat
          /\ LastTerm(log[i]) \in Nat
      BY NodeTypes, Zenon
    <3> USE <2>3 DEF StartCampaign
    <3>1. voteRpcs' \subseteq VoteRpc
      <4>1. /\ currentTerm[i] + 1 \in Nat
            /\ LastIndex(log[i]) \in Nat
            /\ LastTerm(log[i]) \in Nat
        BY <3>0, NextTerm, Zenon
      <4>2. ASSUME NEW p \in Peers(i)
            PROVE  [src |-> i, dst |-> p, term |-> currentTerm[i] + 1,
                    lastIndex |-> LastIndex(log[i]),
                    lastTerm |-> LastTerm(log[i]), done |-> FALSE,
                    replyTerm |-> 0, granted |-> FALSE] \in VoteRpc
        BY <4>1, Zenon DEF VoteRpc, Peers
      <4> QED BY <4>2, Zenon DEF TypeOK
    <3>2. /\ currentTerm' \in [Server -> Nat]
          /\ votedFor' \in [Server -> Server \union {None}]
          /\ pc' \in [Server -> {"follower", "campaign", "candidate", "leader"}]
          /\ campaign' \in [Server -> Nat]
          /\ votes' \in [Server -> SUBSET Server]
      <4>1. currentTerm' \in [Server -> Nat] /\ campaign' \in [Server -> Nat]
        BY <3>0, NextTerm, Zenon DEF TypeOK
      <4>2. votedFor' \in [Server -> Server \union {None}]
        BY DEF TypeOK
      <4>3. pc' \in [Server -> {"follower", "campaign", "candidate", "leader"}]
        BY Zenon DEF TypeOK
      <4>4. votes' \in [Server -> SUBSET Server]
        BY DEF TypeOK
      <4> QED BY <4>1, <4>2, <4>3, <4>4, Zenon
    <3>3. TypeOK'
      BY <3>1, <3>2, Zenon DEF TypeOK
    <3>4. NextPositive' /\ HeartbeatsOfLeader'
      BY Zenon DEF TypeOK, NextPositive, HeartbeatsOfLeader
    <3> QED BY <3>3, <3>4 DEF CallOfNode, ExchangeOfCall
  <2>4. CASE CampaignOver(i)
    <3> USE <2>4 DEF CampaignOver
    <3>1. state[i] \in {Follower, Candidate, Leader}
      BY NodeTypes
    <3>2. TypeOK'
      BY <3>1, <1>EnterType, Zenon DEF TypeOK
    <3>3. NextPositive'
      BY <3>1, <1>EnterType, Zenon DEF NextPositive
    <3>4. HeartbeatsOfLeader'
      BY <3>1, <1>EnterType, Zenon DEF HeartbeatsOfLeader
    <3> QED BY <3>2, <3>3, <3>4, Zenon DEF CallOfNode, ExchangeOfCall
  <2>5. CASE Tick(i)
    <3> USE <2>5 DEF Tick
    <3>1. state[i] \in {Follower, Candidate, Leader}
      BY NodeTypes, Zenon
    <3>2. CASE state[i] = Leader
      <4>1. hbReady' \in [Server -> SUBSET Server]
        <5>1. Peers(i) \in SUBSET Server
          BY Zenon DEF Peers
        <5> QED BY <3>2, <5>1, Zenon DEF TypeOK
      <4>2. TypeOK'
        BY <3>2, <4>1, Zenon DEF TypeOK
      <4>3. HeartbeatsOfLeader'
        <5>1. /\ hbReady' = [hbReady EXCEPT ![i] = Peers(i)]
              /\ pc' = pc /\ pc[i] = "leader"
          BY <3>2, Zenon
        <5>2. hbReady \in [Server -> SUBSET Server]
          BY Zenon DEF TypeOK
        <5>3. ASSUME NEW j \in Server
              PROVE  /\ hbReady'[j] \subseteq Peers(j)
                     /\ hbReady'[j] # {} => pc'[j] = "leader"
          <6>1. CASE j = i
            BY <5>1, <5>2, <6>1
          <6>2. CASE j # i
            BY <5>1, <5>2, <6>2, Zenon DEF HeartbeatsOfLeader
          <6> QED BY <6>1, <6>2
        <5> QED BY <5>3 DEF HeartbeatsOfLeader
      <4> QED BY <3>2, <4>2, <4>3 DEF NextPositive, CallOfNode, ExchangeOfCall
    <3>3. CASE state[i] # Leader
      <4>1. TypeOK'
        BY <3>1, <3>3, <1>EnterType, Zenon DEF TypeOK
      <4>2. NextPositive'
        BY <3>1, <3>3, <1>EnterType, Zenon DEF NextPositive
      <4>3. HeartbeatsOfLeader'
        BY <3>1, <3>3, <1>EnterType, Zenon DEF HeartbeatsOfLeader, HeartbeatsDone
      <4> QED BY <3>3, <4>1, <4>2, <4>3 DEF CallOfNode, ExchangeOfCall
    <3> QED BY <3>2, <3>3
  <2>6. ASSUME NEW r \in voteRpcs, VoteHigherTerm(i, r) PROVE TypeInv'
    <3> USE <2>6 DEF VoteHigherTerm, VoteAnswer
    <3>1. r.replyTerm \in Nat
      BY DEF TypeOK, VoteRpc
    <3>2. TypeOK'
      <4>1. /\ currentTerm' \in [Server -> Nat]
            /\ votedFor' \in [Server -> Server \union {None}]
            /\ state' \in [Server -> {Follower, Candidate, Leader}]
        BY <3>1, <1>becomeFollowerType
      <4>2. /\ pc' \in [Server -> {"follower", "campaign", "candidate", "leader"}]
            /\ campaign' \in [Server -> Nat]
            /\ votes' \in [Server -> SUBSET Server]
        BY <1>EnterType, Zenon
      <4> QED BY <4>1, <4>2, Zenon DEF TypeOK
    <3>3. NextPositive'
      BY <3>1, <1>becomeFollowerType, <1>EnterType DEF NextPositive, Follower, Leader
    <3>4. HeartbeatsOfLeader'
      BY <1>EnterType, Zenon DEF HeartbeatsOfLeader
    <3> QED BY <3>2, <3>3, <3>4 DEF CallOfNode, ExchangeOfCall
  <2>7. ASSUME NEW r \in voteRpcs, VoteCounted(i, r) PROVE TypeInv'
    <3> USE <2>7 DEF VoteCounted
    <3>1. votes' \in [Server -> SUBSET Server]
      <4>1. r.dst \in Server
        BY DEF TypeOK, VoteRpc
      <4> QED BY <4>1, Zenon DEF TypeOK
    <3>2. TypeOK'
      BY <3>1, Zenon DEF TypeOK
    <3> QED BY <3>2, Zenon DEF NextPositive, HeartbeatsOfLeader, CallOfNode,
                        ExchangeOfCall
  <2>8. ASSUME NEW r \in voteRpcs, VoteWins(i, r) PROVE TypeInv'
    <3> USE <2>8 DEF VoteWins, VoteAnswer
    <3>1. state[i] \in {Follower, Candidate, Leader}
      BY NodeTypes
    <3>2. CASE StillCandidate(i)
      <4> USE <3>2
      <4>1. LastIndex(log[i]) \in Nat
        BY NodeTypes, Zenon
      <4> DEFINE next == [p \in Server |-> IF p = i THEN nextIndex[i][p]
                                           ELSE LastIndex(log[i]) + 1]
                 match == [p \in Server |-> IF p = i THEN matchIndex[i][p] ELSE 0]
      <4>2. /\ nextIndex' \in [Server -> [Server -> Nat]]
            /\ matchIndex' \in [Server -> [Server -> Nat]]
        <5>1. next \in [Server -> Nat] /\ match \in [Server -> Nat]
          BY NodeTypes
        <5>2. /\ nextIndex' = [nextIndex EXCEPT ![i] = next]
              /\ matchIndex' = [matchIndex EXCEPT ![i] = match]
          OBVIOUS
        <5> HIDE DEF next, match
        <5> QED BY <5>1, <5>2 DEF TypeOK
      <4>3. state' \in [Server -> {Follower, Candidate, Leader}]
        BY Zenon DEF TypeOK
      <4>4. elected' \subseteq (Nat \X Server)
        <5>1. <<currentTerm[i], i>> \in Nat \X Server
          BY NodeTypes, Zenon
        <5>2. elected \subseteq Nat \X Server
          BY Zenon DEF TypeOK
        <5>3. elected' = elected \union {<<currentTerm[i], i>>}
          OBVIOUS
        <5> QED BY <5>1, <5>2, <5>3, Zenon
      <4>5. TypeOK'
        BY <4>2, <4>3, <4>4, <1>EnterType, Zenon DEF TypeOK
      <4>6. NextPositive'
        <5> SUFFICES ASSUME NEW j \in Server,
                            state'[j] = Leader \/ pc'[j] = "leader",
                            NEW p \in Peers(j)
                     PROVE  nextIndex'[j][p] >= 1
          BY DEF NextPositive
        <5>1. CASE j = i
          <6>1. p \in Server /\ p # i
            BY <5>1, Zenon DEF Peers
          <6>2. nextIndex'[i][p] = LastIndex(log[i]) + 1
            BY <6>1 DEF TypeOK
          <6> QED BY <4>1, <5>1, <6>2
        <5>2. CASE j # i
          <6>1. state'[j] = state[j] /\ nextIndex'[j] = nextIndex[j]
            BY <5>2, Zenon DEF TypeOK
          <6>2. pc'[j] = pc[j]
            BY <5>2, <1>EnterType, Zenon
          <6> QED BY <6>1, <6>2, Zenon DEF NextPositive
        <5> QED BY <5>1, <5>2
      <4>7. HeartbeatsOfLeader'
        BY <1>EnterType DEF HeartbeatsOfLeader
      <4> QED BY <4>5, <4>6, <4>7 DEF CallOfNode, ExchangeOfCall
    <3>3. CASE ~StillCandidate(i)
      <4> USE <3>3
      <4>1. TypeOK'
        BY <3>1, <1>EnterType, Zenon DEF TypeOK
      <4>2. NextPositive'
        BY <3>1, <1>EnterType DEF NextPositive
      <4>3. HeartbeatsOfLeader'
        BY <3>1, <1>EnterType DEF HeartbeatsOfLeader
      <4> QED BY <4>1, <4>2, <4>3 DEF CallOfNode, ExchangeOfCall
    <3> QED BY <3>2, <3>3
  <2> QED BY <2>1, <2>2, <2>3, <2>4, <2>5, <2>6, <2>7, <2>8, Zenon DEF RunGoroutine

\* The request a heartbeat or replicateToPeer goroutine builds is well formed.
<1>AERequestType.
    ASSUME TypeOK, NEW caller \in {"heartbeat", "replicate"},
           NEW c \in Cmd \union {None}, NEW i \in Server, NEW p \in Server,
           NEW term \in Nat, NEW prevIndex \in Nat, NEW entries \in Seq(Entry),
           NEW leaderCommit \in Nat
    PROVE  AERequest(caller, c, i, p, term, prevIndex, entries, leaderCommit)
             \in AERpc
  <2> USE <1>AERequestType
  <2>1. TermAt(log[i], prevIndex) \in Nat
    <3>1. log[i] \in Seq(Entry)
      BY NodeTypes
    <3>2. CASE HasEntry(log[i], prevIndex)
      <4>1. log[i][prevIndex] \in Entry
        BY <3>1, <3>2 DEF HasEntry
      <4> QED BY <3>2, <4>1 DEF TermAt, Entry
    <3> QED BY <3>2 DEF TermAt
  <2> QED BY <2>1 DEF AERequest, AERpc

\* Sending AppendEntries keeps the types: heartbeats.
<1>TypeSendHeartbeat.
    ASSUME TypeInv, NEW i \in Server, NEW p \in Server,
           sendHeartbeatToPeer(i, p)
    PROVE  TypeInv'
  <2> USE <1>TypeSendHeartbeat
  <2> USE DEF nodeVars, logVars, peerVars, loopVars
  <2> DEFINE entries == IF Behind(i, p) THEN EntriesFrom(log[i], nextIndex[i][p])
                                        ELSE <<>>
             q == AERequest("heartbeat", None, i, p, currentTerm[i],
                            HeartbeatPrevIndex(i, p), entries, commitIndex[i])
  <2>1. /\ aeRpcs' = aeRpcs \union {q}
        /\ hbReady' = [hbReady EXCEPT ![i] = @ \ {p}]
        /\ usurped' \in BOOLEAN
        /\ p \in hbReady[i]
        /\ UNCHANGED <<nodeVars, logVars, peerVars, loopVars, elected,
                       stepDownCh, call, voteRpcs>>
    BY DEF sendHeartbeatToPeer
  <2>2. pc[i] = "leader" /\ p # i
    BY <2>1, Zenon DEF TypeInv, HeartbeatsOfLeader, Peers
  <2>3. nextIndex[i][p] \in Nat /\ nextIndex[i][p] >= 1
    <3>1. p \in Peers(i)
      BY <2>2, Zenon DEF Peers
    <3> QED BY <2>2, <3>1, NodeTypes, Zenon DEF TypeInv, NextPositive
  <2>4. HeartbeatPrevIndex(i, p) \in Nat /\ entries \in Seq(Entry)
    <3>1. log[i] \in Seq(Entry)
      BY NodeTypes DEF TypeInv
    <3>2. EntriesFrom(log[i], nextIndex[i][p]) \in Seq(Entry)
      BY <2>3, <3>1, EntriesFromType
    <3> QED BY <2>3, <3>2 DEF HeartbeatPrevIndex
  <2> HIDE DEF entries
  <2>5. q \in AERpc
    BY <2>4, <1>AERequestType, NodeTypes, Zenon DEF TypeInv
  <2>6. q.src = i /\ q.dst = p /\ q.caller = "heartbeat"
    BY DEF AERequest
  <2> HIDE DEF q
  <2>7. TypeOK'
    <3>1. hbReady' \in [Server -> SUBSET Server]
      BY <2>1, Zenon DEF TypeInv, TypeOK
    <3>2. aeRpcs' \subseteq AERpc
      BY <2>1, <2>5 DEF TypeInv, TypeOK
    <3> QED BY <2>1, <3>1, <3>2, Zenon DEF TypeInv, TypeOK
  <2>8. NextPositive' /\ HeartbeatsOfLeader'
    BY <2>1, Zenon DEF TypeInv, TypeOK, NextPositive, HeartbeatsOfLeader
  <2>9. ASSUME NEW r \in aeRpcs' PROVE ExchangeOfCall(r)'
    BY <2>1, <2>2, <2>6, Zenon DEF TypeInv, ExchangeOfCall
  <2> QED BY <2>1, <2>7, <2>8, <2>9, Zenon DEF TypeInv, CallOfNode

\* Replicate's critical section keeps the types.
<1>TypeReplicate.
    ASSUME TypeInv, NEW i \in Server, NEW c \in Cmd, Replicate(i, c)
    PROVE  TypeInv'
  <2> USE <1>TypeReplicate
  <2> USE DEF nodeVars, loopVars, history
  <2> DEFINE index == LastIndex(log[i]) + 1
             e == [term |-> currentTerm[i], index |-> index, cmd |-> c]
             new == [st |-> "open", node |-> i, index |-> index,
                     term |-> currentTerm[i], commit |-> commitIndex[i],
                     ready |-> Peers(i), acks |-> {}]
  <2>1. /\ call[c].st = "none"
        /\ log' = [log EXCEPT ![i] = Append(log[i], e)]
        /\ matchIndex' = [matchIndex EXCEPT ![i][i] = index]
        /\ call' = [call EXCEPT ![c] = new]
        /\ UNCHANGED <<nodeVars, commitIndex, nextIndex, loopVars, history,
                       stepDownCh, hbReady, voteRpcs, aeRpcs>>
    BY Zenon DEF Replicate
  <2>2. index \in Nat /\ e \in Entry /\ new \in Call
    <3>1. Peers(i) \in SUBSET Server
      BY Zenon DEF Peers
    <3>2. LastIndex(log[i]) \in Nat /\ currentTerm[i] \in Nat
          /\ commitIndex[i] \in Nat
      BY NodeTypes DEF TypeInv
    <3>3. index \in Nat
      BY <3>2
    <3> HIDE DEF index
    <3>4. e \in Entry
      BY <3>2, <3>3, Zenon DEF Entry
    <3>5. new \in Call
      BY <3>1, <3>2, <3>3, Zenon DEF Call
    <3> QED BY <3>3, <3>4, <3>5
  <2>3. new.st = "open" /\ new.node = i /\ new.ready = Peers(i)
    OBVIOUS
  <2> HIDE DEF index, e, new
  <2>4. TypeOK'
    <3>1. Append(log[i], e) \in Seq(Entry)
      BY <2>2, NodeTypes, AppendFacts, Zenon DEF TypeInv
    <3>2. log' \in [Server -> Seq(Entry)]
      BY <2>1, <3>1, Zenon DEF TypeInv, TypeOK
    <3>3. matchIndex' \in [Server -> [Server -> Nat]]
      BY <2>1, <2>2, Zenon DEF TypeInv, TypeOK
    <3>4. call' \in [Cmd -> Call]
      BY <2>1, <2>2 DEF TypeInv, TypeOK
    <3> QED BY <2>1, <3>2, <3>3, <3>4, Zenon DEF TypeInv, TypeOK
  <2>5. NextPositive' /\ HeartbeatsOfLeader'
    BY <2>1 DEF TypeInv, NextPositive, HeartbeatsOfLeader
  <2>6. ASSUME NEW d \in Cmd PROVE CallOfNode(d)'
    BY <2>1, <2>3, Zenon DEF TypeInv, TypeOK, CallOfNode
  <2>7. ASSUME NEW r \in aeRpcs' PROVE ExchangeOfCall(r)'
    BY <2>1 DEF TypeInv, TypeOK, ExchangeOfCall
  <2> QED BY <2>4, <2>5, <2>6, <2>7 DEF TypeInv

\* Sending AppendEntries keeps the types: replicateToPeer.
<1>TypeReplicateToPeer.
    ASSUME TypeInv, NEW c \in Cmd, NEW p \in Server, replicateToPeer(c, p)
    PROVE  TypeInv'
  <2> USE <1>TypeReplicateToPeer
  <2> USE DEF nodeVars, logVars, peerVars, loopVars, history
  <2> DEFINE i == call[c].node
             next == nextIndex[i][p]
             entries == EntriesBetween(log[i], next, call[c].index)
             q == AERequest("replicate", c, i, p, call[c].term, next - 1,
                            entries, call[c].commit)
  <2>1. /\ p \in call[c].ready
        /\ call' = [call EXCEPT ![c].ready = @ \ {p}]
        /\ UNCHANGED <<nodeVars, logVars, peerVars, loopVars, history,
                       stepDownCh, hbReady, voteRpcs>>
    BY DEF replicateToPeer
  <2>2. \/ aeRpcs' = aeRpcs
        \/ aeRpcs' = aeRpcs \union {q} /\ state[i] = Leader
    BY DEF replicateToPeer
  <2>3. /\ call[c] \in Call /\ call[c].st # "none"
        /\ i \in Server /\ p \in Peers(i) /\ p # i
    BY <2>1, Zenon DEF TypeInv, TypeOK, CallOfNode, Peers
  <2>4. ASSUME state[i] = Leader PROVE q \in AERpc
    <3>1. next \in Nat /\ next >= 1
      BY <2>3, <2>4, NodeTypes, Zenon DEF TypeInv, NextPositive
    <3>2. call[c].index \in Nat /\ call[c].term \in Nat /\ call[c].commit \in Nat
      BY <2>3, Zenon DEF Call
    <3>3. entries \in Seq(Entry)
      <4> HIDE DEF next, i
      <4> QED BY <2>3, <3>1, <3>2, NodeTypes, EntriesBetweenType, Zenon DEF TypeInv
    <3>4. next - 1 \in Nat
      BY <3>1
    <3> HIDE DEF entries, next, i
    <3> QED BY <2>3, <3>2, <3>3, <3>4, <1>AERequestType DEF TypeInv
  <2>5. q.src = i /\ q.dst = p /\ q.cmd = c
    BY Zenon DEF AERequest
  <2> HIDE DEF q, i
  <2>6. /\ \A d \in Cmd : /\ call'[d].st = call[d].st
                          /\ call'[d].node = call[d].node
                          /\ call'[d].ready \subseteq call[d].ready
        /\ call' \in [Cmd -> Call]
    BY <2>1, <2>3, Zenon DEF TypeInv, TypeOK, Call
  <2>7. TypeOK'
    <3>1. aeRpcs' \subseteq AERpc
      BY <2>2, <2>4 DEF TypeInv, TypeOK
    <3> QED BY <2>1, <2>6, <3>1, Zenon DEF TypeInv, TypeOK
  <2>8. NextPositive' /\ HeartbeatsOfLeader'
    BY <2>1, Zenon DEF TypeInv, NextPositive, HeartbeatsOfLeader
  <2>9. ASSUME NEW d \in Cmd PROVE CallOfNode(d)'
    BY <2>6 DEF TypeInv, CallOfNode
  <2>10. ASSUME NEW r \in aeRpcs' PROVE ExchangeOfCall(r)'
    <3>1. CASE r \in aeRpcs
      BY <2>6, <3>1 DEF TypeInv, ExchangeOfCall
    <3>2. CASE r = q
      BY <2>3, <2>5, <2>6, <3>2 DEF ExchangeOfCall, i
    <3> QED BY <2>2, <3>1, <3>2, Zenon
  <2> QED BY <2>7, <2>8, <2>9, <2>10 DEF TypeInv

\* Replicate's majority keeps the types.
<1>TypeReplicateCommit.
    ASSUME TypeInv, NEW c \in Cmd, ReplicateCommit(c)
    PROVE  TypeInv'
  <2> USE <1>TypeReplicateCommit
  <2> USE DEF nodeVars, peerVars, loopVars, history
  <2>1. call[c] \in Call /\ call[c].st = "open" /\ call[c].node \in Server
    BY DEF ReplicateCommit, TypeInv, TypeOK, CallOfNode
  <2>2. /\ call' \in [Cmd -> Call]
        /\ \A d \in Cmd : /\ call'[d].st = "none" <=> call[d].st = "none"
                          /\ call'[d].node = call[d].node
                          /\ call'[d].ready = call[d].ready
    BY <2>1, Zenon DEF ReplicateCommit, TypeInv, TypeOK, Call
  <2>3. commitIndex' \in [Server -> Nat]
    <3>1. call[c].index \in Nat
      BY <2>1 DEF Call
    <3> QED BY <2>1, <3>1 DEF ReplicateCommit, TypeInv, TypeOK
  <2>4. UNCHANGED <<nodeVars, log, peerVars, loopVars, history, stepDownCh,
                    hbReady, voteRpcs, aeRpcs>>
    BY Zenon DEF ReplicateCommit
  <2>5. TypeOK'
    BY <2>2, <2>3, <2>4 DEF TypeInv, TypeOK
  <2>6. NextPositive' /\ HeartbeatsOfLeader'
    BY <2>4, Zenon DEF TypeInv, NextPositive, HeartbeatsOfLeader
  <2>7. ASSUME NEW d \in Cmd PROVE CallOfNode(d)'
    BY <2>2, Zenon DEF TypeInv, CallOfNode
  <2>8. ASSUME NEW r \in aeRpcs' PROVE ExchangeOfCall(r)'
    BY <2>2, <2>4, Zenon DEF TypeInv, ExchangeOfCall
  <2> QED BY <2>5, <2>6, <2>7, <2>8 DEF TypeInv

\* HandleAppendEntries keeps the types.
<1>TypeHandleAppendEntries.
    ASSUME TypeInv, NEW r \in aeRpcs, HandleAppendEntries(r)
    PROVE  TypeInv'
  <2> USE <1>TypeHandleAppendEntries
  <2> USE DEF nodeVars, logVars, peerVars, loopVars, history
  <2>1. /\ r \in AERpc /\ r.dst \in Server /\ r.term \in Nat
        /\ r.entries \in Seq(Entry) /\ r.leaderCommit \in Nat
    BY Zenon DEF TypeInv, TypeOK, AERpc
  <2>2. UNCHANGED <<peerVars, loopVars, history, stepDownCh, hbReady, call,
                    voteRpcs>>
    BY Zenon DEF HandleAppendEntries, AppendStale, AppendMismatch, AppendSuccess
  <2>3. \E term \in Nat, success \in BOOLEAN : Answer(r, term, success)
    BY <2>1, NodeTypes, Zenon
       DEF TypeInv, HandleAppendEntries, AppendStale, AppendMismatch, AppendSuccess
  <2>4. /\ aeRpcs' \subseteq AERpc
        /\ (\A q \in aeRpcs : ExchangeOfCall(q))'
    BY <2>2, <2>3, <1>AnswerType
  <2>5. /\ currentTerm' \in [Server -> Nat]
        /\ votedFor' \in [Server -> Server \union {None}]
        /\ state' \in [Server -> {Follower, Candidate, Leader}]
        /\ \A j \in Server : state'[j] = Leader => state[j] = Leader
    <3>1. CASE AppendStale(r)
      BY <3>1 DEF AppendStale, TypeInv, TypeOK
    <3>2. CASE AcceptLeader(r)
      BY <3>2, <1>AcceptLeaderType, Zenon DEF TypeInv
    <3> QED BY <3>1, <3>2, Zenon
            DEF HandleAppendEntries, AppendMismatch, AppendSuccess
  <2>6. log' \in [Server -> Seq(Entry)] /\ commitIndex' \in [Server -> Nat]
    <3>1. CASE AppendSuccess(r)
      <4> DEFINE l == MergeEntries(log[r.dst], r.entries)
      <4>1. l \in Seq(Entry)
        <5>1. \A e \in Entry : e.index \in Nat
          BY DEF Entry
        <5>2. log[r.dst] \in Seq(Entry)
          BY <2>1, NodeTypes, Zenon DEF TypeInv
        <5> QED BY <2>1, <5>1, <5>2, MergeType, Zenon DEF TypeInv
      <4>2. CommitAfter(r.dst, r.leaderCommit, l) \in Nat
        <5> HIDE DEF l
        <5>1. commitIndex[r.dst] \in Nat
          BY <2>1, NodeTypes, Zenon DEF TypeInv
        <5>2. Len(l) \in Nat
          BY <4>1, LenFacts, Zenon
        <5> QED BY <2>1, <5>1, <5>2 DEF CommitAfter, LastIndex
      <4>3. /\ log' = [log EXCEPT ![r.dst] = l]
            /\ commitIndex' = [commitIndex EXCEPT
                                 ![r.dst] = CommitAfter(r.dst, r.leaderCommit, l)]
        BY <3>1 DEF AppendSuccess
      <4> HIDE DEF l
      <4> QED BY <2>1, <4>1, <4>2, <4>3 DEF TypeInv, TypeOK
    <3>2. CASE AppendStale(r) \/ AppendMismatch(r)
      BY <3>2, Zenon DEF AppendStale, AppendMismatch, TypeInv, TypeOK
    <3> QED BY <3>1, <3>2, Zenon DEF HandleAppendEntries
  <2>7. TypeOK'
    BY <2>2, <2>4, <2>5, <2>6, Zenon DEF TypeInv, TypeOK
  <2>8. NextPositive' /\ HeartbeatsOfLeader'
    BY <2>2, <2>5, Zenon DEF TypeInv, NextPositive, HeartbeatsOfLeader
  <2> QED BY <2>2, <2>4, <2>7, <2>8, Zenon DEF TypeInv, CallOfNode

\* An exchange that fails keeps the types.
<1>TypeAppendEntriesError.
    ASSUME TypeInv, NEW r \in aeRpcs, AppendEntriesError(r)
    PROVE  TypeInv'
  <2> USE <1>TypeAppendEntriesError
  <2> USE DEF nodeVars, logVars, peerVars, loopVars, history
  <2> DEFINE q == [r EXCEPT !.caller = "gone", !.cmd = None]
  <2>1. /\ aeRpcs' = aeRpcs \ {r} \/ aeRpcs' = (aeRpcs \ {r}) \union {q}
        /\ UNCHANGED <<nodeVars, logVars, peerVars, loopVars, history,
                       stepDownCh, hbReady, call, voteRpcs>>
    BY DEF AppendEntriesError
  <2>2. r \in AERpc
    BY DEF TypeInv, TypeOK
  <2>3. q \in AERpc /\ q.src = r.src /\ q.dst = r.dst /\ q.caller = "gone"
    BY <2>2, Zenon DEF AERpc
  <2> HIDE DEF q
  <2>4. TypeOK'
    <3>1. aeRpcs' \subseteq AERpc
      BY <2>1, <2>3, Zenon DEF TypeInv, TypeOK
    <3> QED BY <2>1, <3>1, Zenon DEF TypeInv, TypeOK
  <2>5. ASSUME NEW s \in aeRpcs' PROVE ExchangeOfCall(s)'
    BY <2>1, <2>3, Zenon DEF TypeInv, ExchangeOfCall
  <2> QED BY <2>1, <2>4, <2>5, Zenon
          DEF TypeInv, NextPositive, HeartbeatsOfLeader, CallOfNode

\* A heartbeat goroutine's use of its answer keeps the types.
<1>TypeHeartbeatReply.
    ASSUME TypeInv, NEW r \in aeRpcs, HeartbeatReply(r)
    PROVE  TypeInv'
  <2> USE <1>TypeHeartbeatReply
  <2> USE DEF nodeVars, loopVars, history
  <2> DEFINE i == r.src
             p == r.dst
             newMatch == r.prevIndex + Len(r.entries)
             ahead == newMatch > matchIndex[i][p]
             match == IF ahead THEN [matchIndex[i] EXCEPT ![p] = newMatch]
                               ELSE matchIndex[i]
  <2>1. /\ i \in Server /\ p \in Server /\ r.replyTerm \in Nat
        /\ r.prevIndex \in Nat /\ r.entries \in Seq(Entry)
    BY Zenon DEF TypeInv, TypeOK, AERpc
  <2>2. newMatch \in Nat
    BY <2>1
  <2>3. /\ aeRpcs' = aeRpcs \ {r}
        /\ UNCHANGED <<nodeVars, log, loopVars, history, hbReady, call, voteRpcs>>
    BY Zenon DEF HeartbeatReply
  <2>4. /\ nextIndex[i] \in [Server -> Nat] /\ matchIndex[i] \in [Server -> Nat]
    BY <2>1, NodeTypes, Zenon DEF TypeInv
  <2>5. match \in [Server -> Nat]
    BY <2>1, <2>2, <2>4, Zenon
  <2>6. advanceCommitIndex(i, match) \in Nat
    BY <2>1, <1>advanceCommitIndexType, Zenon DEF TypeInv
  <2>7. \/ signalStepDown(i, r.replyTerm) /\ UNCHANGED <<peerVars, commitIndex>>
        \/ UNCHANGED <<peerVars, commitIndex, stepDownCh>>
        \/ /\ matchIndex' = [matchIndex EXCEPT ![i] = match]
           /\ nextIndex' = [nextIndex EXCEPT
                              ![i][p] = IF ahead THEN newMatch + 1 ELSE @]
           /\ commitIndex' = [commitIndex EXCEPT
                                ![i] = advanceCommitIndex(i, match)]
           /\ UNCHANGED stepDownCh
        \/ /\ nextIndex' = [nextIndex EXCEPT
                              ![i][p] = IF CanLower(@) THEN @ - 1 ELSE @]
           /\ UNCHANGED <<matchIndex, commitIndex, stepDownCh>>
    BY Zenon DEF HeartbeatReply
  <2> HIDE DEF i, p, newMatch, ahead, match
  <2>8. /\ nextIndex' \in [Server -> [Server -> Nat]]
        /\ \A j, k \in Server :
              nextIndex[j][k] >= 1 => nextIndex'[j][k] >= 1
    <3>1. CASE UNCHANGED nextIndex
      BY <3>1 DEF TypeInv, TypeOK
    <3>2. CASE \E v \in Nat : /\ nextIndex' = [nextIndex EXCEPT ![i][p] = v]
                              /\ nextIndex[i][p] >= 1 => v >= 1
      <4>1. PICK v \in Nat : /\ nextIndex' = [nextIndex EXCEPT ![i][p] = v]
                             /\ nextIndex[i][p] >= 1 => v >= 1
        BY <3>2, Zenon
      <4> QED BY <2>1, <4>1, Zenon DEF TypeInv, TypeOK
    <3>3. \/ UNCHANGED nextIndex
          \/ \E v \in Nat : /\ nextIndex' = [nextIndex EXCEPT ![i][p] = v]
                            /\ nextIndex[i][p] >= 1 => v >= 1
      <4>1. nextIndex[i][p] \in Nat
        BY <2>1, <2>4
      <4>2. CASE nextIndex' = [nextIndex EXCEPT
                                 ![i][p] = IF ahead THEN newMatch + 1 ELSE @]
        <5>1. PICK v \in Nat : v = IF ahead THEN newMatch + 1 ELSE nextIndex[i][p]
          BY <2>2, <4>1
        <5>2. nextIndex' = [nextIndex EXCEPT ![i][p] = v]
          BY <4>2, <5>1, Zenon
        <5>3. nextIndex[i][p] >= 1 => v >= 1
          BY <2>2, <5>1
        <5> QED BY <5>2, <5>3, Zenon
      <4>3. CASE nextIndex' = [nextIndex EXCEPT
                                 ![i][p] = IF CanLower(@) THEN @ - 1 ELSE @]
        <5>1. PICK v \in Nat :
                v = IF CanLower(nextIndex[i][p]) THEN nextIndex[i][p] - 1
                                                 ELSE nextIndex[i][p]
          BY <4>1 DEF CanLower
        <5>2. nextIndex' = [nextIndex EXCEPT ![i][p] = v]
          BY <4>3, <5>1, Zenon
        <5>3. nextIndex[i][p] >= 1 => v >= 1
          BY <4>1, <5>1 DEF CanLower
        <5> QED BY <5>2, <5>3, Zenon
      <4> QED BY <2>7, <4>2, <4>3, Zenon DEF peerVars
    <3> QED BY <3>1, <3>2, <3>3
  <2>9. /\ matchIndex' \in [Server -> [Server -> Nat]]
        /\ commitIndex' \in [Server -> Nat]
    <3>1. \/ UNCHANGED <<matchIndex, commitIndex>>
          \/ \E m \in [Server -> Nat], n \in Nat :
                /\ matchIndex' = [matchIndex EXCEPT ![i] = m]
                /\ commitIndex' = [commitIndex EXCEPT ![i] = n]
      BY <2>5, <2>6, <2>7 DEF peerVars
    <3>2. CASE UNCHANGED <<matchIndex, commitIndex>>
      BY <3>2 DEF TypeInv, TypeOK
    <3>3. CASE \E m \in [Server -> Nat], n \in Nat :
                  /\ matchIndex' = [matchIndex EXCEPT ![i] = m]
                  /\ commitIndex' = [commitIndex EXCEPT ![i] = n]
      <4>1. PICK m \in [Server -> Nat], n \in Nat :
                  /\ matchIndex' = [matchIndex EXCEPT ![i] = m]
                  /\ commitIndex' = [commitIndex EXCEPT ![i] = n]
        BY <3>3, Zenon
      <4> QED BY <2>1, <4>1, Zenon DEF TypeInv, TypeOK
    <3> QED BY <3>1, <3>2, <3>3
  <2>10. /\ stepDownCh' \in [Server -> Seq(Nat)]
         /\ \A j \in Server : Len(stepDownCh'[j]) <= StepDownCap
    <3>1. CASE signalStepDown(i, r.replyTerm)
      BY <2>1, <3>1, <1>signalStepDownType DEF TypeInv
    <3>2. CASE UNCHANGED stepDownCh
      BY <3>2, Zenon DEF TypeInv, TypeOK
    <3> QED BY <2>7, <3>1, <3>2
  <2>11. TypeOK'
    BY <2>3, <2>8, <2>9, <2>10, Zenon DEF TypeInv, TypeOK
  <2>12. NextPositive'
    BY <2>3, <2>8, Zenon DEF TypeInv, NextPositive, Peers
  <2> QED BY <2>3, <2>11, <2>12, Zenon
          DEF TypeInv, HeartbeatsOfLeader, CallOfNode, ExchangeOfCall

\* replicateToPeer's use of its answer keeps the types.
<1>TypeReplicateReply.
    ASSUME TypeInv, NEW r \in aeRpcs, ReplicateReply(r)
    PROVE  TypeInv'
  <2> USE <1>TypeReplicateReply
  <2> USE DEF nodeVars, logVars, loopVars, history
  <2> DEFINE i == r.src
             p == r.dst
             c == r.cmd
  <2>1. /\ i \in Server /\ p \in Peers(i) /\ p \in Server
        /\ r.replyTerm \in Nat
    BY Zenon DEF TypeInv, TypeOK, AERpc, ExchangeOfCall, Peers
  <2>2. c \in Cmd /\ call[c] \in Call /\ call[c].st # "none" /\ call[c].node = i
    BY Zenon DEF ReplicateReply, TypeInv, TypeOK, ExchangeOfCall
  <2>3. /\ aeRpcs' = aeRpcs \ {r}
        /\ UNCHANGED <<nodeVars, logVars, loopVars, history, hbReady, voteRpcs>>
    BY DEF ReplicateReply
  <2>4. /\ nextIndex[i] \in [Server -> Nat] /\ matchIndex[i] \in [Server -> Nat]
        /\ call[c].index \in Nat
    BY <2>1, <2>2, NodeTypes, Zenon DEF TypeInv, Call
  <2>5. \/ signalStepDown(i, r.replyTerm) /\ UNCHANGED <<peerVars, call>>
        \/ /\ matchIndex' = [matchIndex EXCEPT
                ![i][p] = IF call[c].index > @ THEN call[c].index ELSE @]
           /\ nextIndex' = [nextIndex EXCEPT ![i][p] = call[c].index + 1]
           /\ call' = [call EXCEPT ![c].acks = @ \union {p}]
           /\ UNCHANGED stepDownCh
        \/ /\ CanLower(nextIndex[i][p])
           /\ nextIndex' = [nextIndex EXCEPT ![i][p] = @ - 1]
           /\ call' = [call EXCEPT ![c].ready = @ \union {p}]
           /\ UNCHANGED <<matchIndex, stepDownCh>>
        \/ UNCHANGED <<peerVars, call, stepDownCh>>
    BY DEF ReplicateReply
  <2> HIDE DEF i, p, c
  <2>6. /\ nextIndex' \in [Server -> [Server -> Nat]]
        /\ \A j, k \in Server :
              nextIndex[j][k] >= 1 => nextIndex'[j][k] >= 1
    <3>1. CASE UNCHANGED nextIndex
      BY <3>1 DEF TypeInv, TypeOK
    <3>2. CASE \E v \in Nat : /\ nextIndex' = [nextIndex EXCEPT ![i][p] = v]
                              /\ nextIndex[i][p] >= 1 => v >= 1
      <4>1. PICK v \in Nat : /\ nextIndex' = [nextIndex EXCEPT ![i][p] = v]
                             /\ nextIndex[i][p] >= 1 => v >= 1
        BY <3>2, Zenon
      <4> QED BY <2>1, <4>1, Zenon DEF TypeInv, TypeOK
    <3>3. \/ UNCHANGED nextIndex
          \/ \E v \in Nat : /\ nextIndex' = [nextIndex EXCEPT ![i][p] = v]
                            /\ nextIndex[i][p] >= 1 => v >= 1
      <4>1. nextIndex[i][p] \in Nat
        BY <2>1, <2>4, Zenon
      <4> QED BY <2>4, <2>5, <4>1 DEF CanLower, peerVars
    <3> QED BY <3>1, <3>2, <3>3
  <2>7. matchIndex' \in [Server -> [Server -> Nat]]
    <3>1. CASE UNCHANGED matchIndex
      BY <3>1 DEF TypeInv, TypeOK
    <3>2. CASE \E v \in Nat : matchIndex' = [matchIndex EXCEPT ![i][p] = v]
      <4>1. PICK v \in Nat : matchIndex' = [matchIndex EXCEPT ![i][p] = v]
        BY <3>2, Zenon
      <4> QED BY <2>1, <4>1, Zenon DEF TypeInv, TypeOK
    <3>3. \/ UNCHANGED matchIndex
          \/ \E v \in Nat : matchIndex' = [matchIndex EXCEPT ![i][p] = v]
      <4>1. matchIndex[i][p] \in Nat
        BY <2>1, <2>4
      <4> QED BY <2>4, <2>5, <4>1 DEF peerVars
    <3> QED BY <3>1, <3>2, <3>3
  <2>8. /\ call' \in [Cmd -> Call]
        /\ \A d \in Cmd :
              /\ call'[d].st = call[d].st
              /\ call'[d].node = call[d].node
              /\ \/ call'[d].ready = call[d].ready
                 \/ d = c /\ call'[d].ready = call[d].ready \union {p}
    <3>1. CASE UNCHANGED call
      BY <3>1, Zenon DEF TypeInv, TypeOK
    <3>2. CASE call' = [call EXCEPT ![c].acks = @ \union {p}]
      <4>1. [call[c] EXCEPT !.acks = @ \union {p}] \in Call
        BY <2>1, <2>2 DEF Call
      <4>2. call' = [call EXCEPT ![c] = [call[c] EXCEPT !.acks = @ \union {p}]]
        BY <3>2, Zenon
      <4>3. call \in [Cmd -> Call]
        BY DEF TypeInv, TypeOK
      <4>4. call' \in [Cmd -> Call]
        BY <2>2, <4>1, <4>2, <4>3
      <4> QED BY <2>2, <4>2, <4>3, <4>4 DEF Call
    <3>3. CASE call' = [call EXCEPT ![c].ready = @ \union {p}]
      BY <2>1, <2>2, <3>3, Zenon DEF TypeInv, TypeOK, Call
    <3> QED BY <2>5, <3>1, <3>2, <3>3, Zenon
  <2>9. /\ stepDownCh' \in [Server -> Seq(Nat)]
        /\ \A j \in Server : Len(stepDownCh'[j]) <= StepDownCap
    <3>1. CASE signalStepDown(i, r.replyTerm)
      BY <2>1, <3>1, <1>signalStepDownType DEF TypeInv
    <3>2. CASE UNCHANGED stepDownCh
      BY <3>2 DEF TypeInv, TypeOK
    <3> QED BY <2>5, <3>1, <3>2
  <2>10. TypeOK'
    BY <2>3, <2>6, <2>7, <2>8, <2>9, Zenon DEF TypeInv, TypeOK
  <2>11. NextPositive'
    BY <2>3, <2>6, Zenon DEF TypeInv, NextPositive, Peers
  <2>12. ASSUME NEW d \in Cmd PROVE CallOfNode(d)'
    <3>1. CallOfNode(d) /\ CallOfNode(c)
      BY <2>2, Zenon DEF TypeInv
    <3>2. CASE d = c
      BY <2>1, <2>2, <2>8, <3>1, <3>2, Zenon DEF CallOfNode
    <3>3. CASE d # c
      <4>1. /\ call'[d].st = call[d].st
            /\ call'[d].node = call[d].node
            /\ call'[d].ready = call[d].ready
        BY <2>8, <3>3, Zenon
      <4> QED BY <3>1, <4>1, Zenon DEF CallOfNode
    <3> QED BY <3>2, <3>3, Zenon
  <2>13. ASSUME NEW q \in aeRpcs' PROVE ExchangeOfCall(q)'
    BY <2>3, <2>8, Zenon DEF TypeInv, ExchangeOfCall
  <2> QED BY <2>3, <2>10, <2>11, <2>12, <2>13, Zenon DEF TypeInv, HeartbeatsOfLeader

\* HandleRequestVote keeps the types.
<1>TypeHandleRequestVote.
    ASSUME TypeInv, NEW r \in voteRpcs, HandleRequestVote(r)
    PROVE  TypeInv'
  <2> USE <1>TypeHandleRequestVote
  <2> USE DEF nodeVars, logVars, peerVars, loopVars, history
  <2>1. r \in VoteRpc /\ r.dst \in Server /\ r.src \in Server /\ r.term \in Nat
    BY Zenon DEF TypeInv, TypeOK, VoteRpc
  <2>2. /\ TermAfter(r.dst, r.term) \in Nat
        /\ VoteAfter(r.dst, r.term) \in Server \union {None}
    BY <2>1, NodeTypes, Zenon DEF TypeInv, TermAfter, VoteAfter
  <2>3. GrantsVote(r) \in BOOLEAN
    BY DEF GrantsVote
  <2> DEFINE q == [r EXCEPT !.done = TRUE, !.replyTerm = TermAfter(r.dst, r.term),
                            !.granted = GrantsVote(r)]
  <2>4. q \in VoteRpc
    BY <2>1, <2>2, <2>3, Zenon DEF VoteRpc
  <2>5. /\ currentTerm' = [currentTerm EXCEPT ![r.dst] = TermAfter(r.dst, r.term)]
        /\ state' = [state EXCEPT
                       ![r.dst] = IF r.term > currentTerm[r.dst] THEN Follower
                                  ELSE @]
        /\ votedFor' = [votedFor EXCEPT
                          ![r.dst] = IF GrantsVote(r) THEN r.src
                                     ELSE VoteAfter(r.dst, r.term)]
        /\ voteRpcs' = (voteRpcs \ {r}) \union {q}
        /\ UNCHANGED <<logVars, peerVars, loopVars, history, stepDownCh,
                       hbReady, call, aeRpcs>>
    BY DEF HandleRequestVote
  <2> HIDE DEF q
  <2>6. /\ currentTerm' \in [Server -> Nat]
        /\ votedFor' \in [Server -> Server \union {None}]
    BY <2>1, <2>2, <2>5, Zenon DEF TypeInv, TypeOK
  <2>7. /\ state' \in [Server -> {Follower, Candidate, Leader}]
        /\ \A j \in Server : state'[j] = Leader => state[j] = Leader
    BY <2>1, <2>5, Zenon DEF TypeInv, TypeOK, Follower, Leader
  <2>8. TypeOK'
    BY <2>4, <2>5, <2>6, <2>7, Zenon DEF TypeInv, TypeOK
  <2>9. NextPositive'
    BY <2>5, <2>7, Zenon DEF TypeInv, NextPositive
  <2> QED BY <2>5, <2>8, <2>9, Zenon
          DEF TypeInv, HeartbeatsOfLeader, CallOfNode, ExchangeOfCall
<1> SUFFICES ASSUME TypeInv, [Next]_vars PROVE TypeInv'
  OBVIOUS
<1>1. CASE UNCHANGED vars
  BY <1>1, Zenon DEF vars, nodeVars, logVars, peerVars, loopVars, history, TypeInv,
              TypeOK, NextPositive, HeartbeatsOfLeader, CallOfNode,
              ExchangeOfCall
<1>2. CASE Next
  BY <1>2, <1>TypeRunGoroutine, <1>TypeSendHeartbeat, <1>TypeReplicate,
     <1>TypeReplicateCommit, <1>TypeReplicateToPeer, <1>TypeHandleAppendEntries,
     <1>TypeAppendEntriesError, <1>TypeHeartbeatReply, <1>TypeReplicateReply,
     <1>TypeHandleRequestVote DEF Next
<1> QED BY <1>1, <1>2

-----------------------------------------------------------------------------
(* Elections *)

(***************************************************************************)
(* No term has two leaders, for any finite set of nodes.                   *)
(*                                                                         *)
(* Voted says who has voted for whom, read off the RequestVote exchanges:  *)
(* a candidate for itself in loopCandidate, a peer in HandleRequestVote.   *)
(* A vote is for the voter's term, or one it has left for good             *)
(* (TermsAndVotesStable), so nobody votes twice in a term; a leader has    *)
(* the votes of a majority; and two majorities share a voter.              *)
(***************************************************************************)

Voted(n, c, t) ==
    \E r \in voteRpcs : /\ r.src = c /\ r.term = t
                        /\ n = c \/ (r.dst = n /\ r.granted)

IsQuorum(Q) == Q \subseteq Server /\ 2 * Cardinality(Q) > Cardinality(Server)

\* A RequestVote exchange is with a peer, and not granted before it is handled.
VoteRequestsOK ==
    \A r \in voteRpcs : r.src # r.dst /\ (r.granted => r.done)

\* A vote is still votedFor while its term lasts.
VotesRemembered ==
    \A n, c \in Server, t \in Nat : Voted(n, c, t) =>
        /\ t <= currentTerm[n]
        /\ t = currentTerm[n] => votedFor[n] = c

VotesOnce ==
    \A n, c, d \in Server, t \in Nat :
        (Voted(n, c, t) /\ Voted(n, d, t)) => c = d

\* The votes loopCandidate has counted were cast, for its campaign.
CountedVotesCast ==
    \A i \in Server : \A p \in votes[i] : p # i /\ Voted(p, i, campaign[i])

LeadersHaveQuorum ==
    \A e \in elected : \E Q : IsQuorum(Q) /\ \A n \in Q : Voted(n, e[2], e[1])

ElectionInv ==
    /\ VoteRequestsOK
    /\ VotesRemembered
    /\ VotesOnce
    /\ CountedVotesCast
    /\ LeadersHaveQuorum

-----------------------------------------------------------------------------

\* What [][...]_vars in TermsAndVotesStable says of one step.
LEMMA StableStep ==
    TypeInv /\ [Next]_vars =>
        \A j \in Server :
           /\ currentTerm'[j] >= currentTerm[j]
           /\ (currentTerm'[j] = currentTerm[j] /\ votedFor[j] # None)
                => votedFor'[j] = votedFor[j]

\* The case analysis behind the next steps: one node gets the term t and the
\* vote v.
<1>UpdateStable.
    ASSUME TypeOK, NEW i \in Server, NEW j \in Server, NEW t \in Nat, NEW v,
           currentTerm' = [currentTerm EXCEPT ![i] = t],
           votedFor' = [votedFor EXCEPT ![i] = v],
           t >= currentTerm[i],
           t > currentTerm[i] \/ votedFor[i] = None \/ v = votedFor[i]
    PROVE  /\ currentTerm'[j] >= currentTerm[j]
           /\ (currentTerm'[j] = currentTerm[j] /\ votedFor[j] # None)
                => votedFor'[j] = votedFor[j]
  <2> USE <1>UpdateStable
  <2>1. /\ currentTerm \in [Server -> Nat]
        /\ votedFor \in [Server -> Server \union {None}]
    BY Zenon DEF TypeOK
  <2>2. CASE j = i
    <3>1. currentTerm'[j] = t /\ votedFor'[j] = v
      BY <2>1, <2>2
    <3>2. currentTerm[j] \in Nat
      BY <2>1
    <3> QED BY <2>2, <3>1, <3>2
  <2>3. CASE j # i
    <3>1. currentTerm'[j] = currentTerm[j] /\ votedFor'[j] = votedFor[j]
      BY <2>1, <2>3
    <3>2. currentTerm[j] \in Nat
      BY <2>1
    <3> QED BY <3>1, <3>2
  <2> QED BY <2>2, <2>3, Zenon

\* becomeFollower, however old the term it is given, keeps term and vote.
<1>becomeFollowerStable.
    ASSUME TypeOK, NEW i \in Server, NEW term \in Nat, becomeFollower(i, term),
           NEW j \in Server
    PROVE  /\ currentTerm'[j] >= currentTerm[j]
           /\ (currentTerm'[j] = currentTerm[j] /\ votedFor[j] # None)
                => votedFor'[j] = votedFor[j]
  <2> USE <1>becomeFollowerStable
  <2>1. currentTerm[i] \in Nat
    BY NodeTypes
  <2>2. /\ TermAfter(i, term) \in Nat
        /\ TermAfter(i, term) >= currentTerm[i]
        /\ \/ TermAfter(i, term) > currentTerm[i]
           \/ VoteAfter(i, term) = votedFor[i]
    BY <2>1 DEF TermAfter, VoteAfter
  <2>3. /\ currentTerm' = [currentTerm EXCEPT ![i] = TermAfter(i, term)]
        /\ votedFor' = [votedFor EXCEPT ![i] = VoteAfter(i, term)]
    BY DEF becomeFollower
  <2> QED BY <2>2, <2>3, <1>UpdateStable, Zenon
<1> SUFFICES ASSUME TypeInv, [Next]_vars, NEW j \in Server
             PROVE  /\ currentTerm'[j] >= currentTerm[j]
                    /\ (currentTerm'[j] = currentTerm[j] /\ votedFor[j] # None)
                         => votedFor'[j] = votedFor[j]
  OBVIOUS
<1> DEFINE Stable == /\ currentTerm'[j] >= currentTerm[j]
                     /\ (currentTerm'[j] = currentTerm[j] /\ votedFor[j] # None)
                          => votedFor'[j] = votedFor[j]
<1>1. currentTerm \in [Server -> Nat] /\ TypeOK
  BY Zenon DEF TypeInv, TypeOK
<1>2. CASE UNCHANGED <<currentTerm, votedFor>>
  BY <1>1, <1>2
<1>3. ASSUME NEW i \in Server, StepDown(i) PROVE Stable
  <2>1. Head(stepDownCh[i]) \in Nat
    BY <1>1, <1>3, TailFacts, Zenon DEF StepDown, TypeOK
  <2> QED BY <1>1, <1>3, <2>1, <1>becomeFollowerStable, Zenon DEF StepDown
<1>4. ASSUME NEW i \in Server, StartCampaign(i) PROVE Stable
  <2>1. currentTerm[i] + 1 \in Nat /\ currentTerm[i] + 1 > currentTerm[i]
    BY <1>1, NextTerm, Zenon
  <2>2. /\ currentTerm' = [currentTerm EXCEPT ![i] = currentTerm[i] + 1]
        /\ votedFor' = [votedFor EXCEPT ![i] = i]
    BY <1>4 DEF StartCampaign
  <2>3. currentTerm[i] + 1 >= currentTerm[i]
    BY <1>1, NextTerm, Zenon
  <2> QED BY <1>1, <2>1, <2>2, <2>3, <1>UpdateStable
<1>5. ASSUME NEW i \in Server, NEW r \in voteRpcs, VoteHigherTerm(i, r)
      PROVE  Stable
  <2>1. r.replyTerm \in Nat
    BY <1>1 DEF TypeOK, VoteRpc
  <2> QED BY <1>1, <1>5, <2>1, <1>becomeFollowerStable, Zenon DEF VoteHigherTerm
<1>6. ASSUME NEW r \in voteRpcs, HandleRequestVote(r) PROVE Stable
  <2>1. r.dst \in Server /\ r.term \in Nat
    BY <1>1, Zenon DEF TypeOK, VoteRpc
  <2>2. /\ currentTerm' = [currentTerm EXCEPT
                             ![r.dst] = TermAfter(r.dst, r.term)]
        /\ votedFor' = [votedFor EXCEPT
                          ![r.dst] = IF GrantsVote(r) THEN r.src
                                     ELSE VoteAfter(r.dst, r.term)]
    BY <1>6, Zenon DEF HandleRequestVote
  <2>3. GrantsVote(r) => VoteAfter(r.dst, r.term) \in {None, r.src}
    BY DEF GrantsVote, AlreadyVoted
  <2>4. votedFor \in [Server -> Server \union {None}]
    BY <1>1 DEF TypeOK
  <2>5. CASE j # r.dst
    BY <1>1, <2>1, <2>2, <2>4, <2>5
  <2>6. CASE j = r.dst
    <3>1. /\ currentTerm'[j] = TermAfter(j, r.term)
          /\ votedFor'[j] = IF GrantsVote(r) THEN r.src
                            ELSE VoteAfter(j, r.term)
      BY <1>1, <2>1, <2>2, <2>4, <2>6, Zenon
    <3>2. CASE GrantsVote(r)
      BY <1>1, <2>1, <2>3, <2>6, <3>1, <3>2 DEF TermAfter, VoteAfter
    <3>3. CASE ~GrantsVote(r)
      BY <1>1, <2>1, <2>6, <3>1, <3>3 DEF TermAfter, VoteAfter
    <3> QED BY <3>2, <3>3, Zenon
  <2> QED BY <2>5, <2>6
<1>7. ASSUME NEW r \in aeRpcs, AcceptLeader(r) PROVE Stable
  <2>1. r.dst \in Server /\ r.term \in Nat
    BY <1>1, Zenon DEF TypeOK, AERpc
  <2>2. /\ r.term >= currentTerm[r.dst]
        /\ currentTerm' = [currentTerm EXCEPT ![r.dst] = r.term]
        /\ votedFor' = [votedFor EXCEPT ![r.dst] = VoteAfter(r.dst, r.term)]
    BY <1>7, Zenon DEF AcceptLeader
  <2>3. \/ r.term > currentTerm[r.dst]
        \/ VoteAfter(r.dst, r.term) = votedFor[r.dst]
    BY Zenon DEF VoteAfter
  <2> QED BY <1>1, <2>1, <2>2, <2>3, <1>UpdateStable
<1>8. \/ UNCHANGED <<currentTerm, votedFor>>
      \/ \E i \in Server : StepDown(i) \/ StartCampaign(i)
      \/ \E i \in Server, r \in voteRpcs : VoteHigherTerm(i, r)
      \/ \E r \in voteRpcs : HandleRequestVote(r)
      \/ \E r \in aeRpcs : AcceptLeader(r)
  <2> USE DEF nodeVars
  <2>1. CASE UNCHANGED vars
    BY <2>1 DEF vars
  <2>2. ASSUME NEW i \in Server, RunGoroutine(i) PROVE <1>8
    BY <2>2, Zenon
    DEF RunGoroutine, ElectionTimeout, CampaignOver, Tick, VoteCounted,
                VoteWins
  <2>3. ASSUME NEW i \in Server, \/ \E p \in Server : sendHeartbeatToPeer(i, p)
                                 \/ \E c \in Cmd : Replicate(i, c)
        PROVE  <1>8
    BY <2>3, Zenon DEF sendHeartbeatToPeer, Replicate
  <2>4. ASSUME NEW c \in Cmd, \/ ReplicateCommit(c)
                              \/ \E p \in Server : replicateToPeer(c, p)
        PROVE  <1>8
    BY <2>4 DEF ReplicateCommit, replicateToPeer
  <2>5. ASSUME NEW r \in aeRpcs, \/ HandleAppendEntries(r)
                                 \/ AppendEntriesError(r)
                                 \/ HeartbeatReply(r) \/ ReplicateReply(r)
        PROVE  <1>8
    BY <2>5, Zenon
    DEF HandleAppendEntries, AppendStale, AppendMismatch, AppendSuccess,
                AppendEntriesError, HeartbeatReply, ReplicateReply
  <2> QED BY <2>1, <2>2, <2>3, <2>4, <2>5 DEF Next
<1> QED BY <1>2, <1>3, <1>4, <1>5, <1>6, <1>7, <1>8, Zenon

-----------------------------------------------------------------------------

\* A step that casts no vote, counts none and elects nobody.
NoVoteStep ==
    /\ UNCHANGED <<voteRpcs, elected>>
    /\ \A i \in Server :
         votes'[i] = {} \/ (votes'[i] = votes[i] /\ campaign'[i] = campaign[i])

\* A change of role loop drops the votes counted or leaves them to the same campaign.
LEMMA EnterForgets ==
    ASSUME TypeOK, NEW i \in Server, NEW role, Enter(i, role)
    PROVE  \A j \in Server : \/ votes'[j] = {}
                             \/ /\ votes'[j] = votes[j]
                                /\ campaign'[j] = campaign[j]
BY Zenon DEF TypeOK, Enter

\* The steps the election argument has to look at.
LEMMA VoteSteps ==
    ASSUME TypeOK, [Next]_vars
    PROVE  \/ NoVoteStep
           \/ \E i \in Server : StartCampaign(i)
           \/ \E i \in Server, r \in voteRpcs : VoteCounted(i, r)
           \/ \E i \in Server, r \in voteRpcs : VoteWins(i, r)
           \/ \E r \in voteRpcs : HandleRequestVote(r)
<1> USE DEF nodeVars, loopVars, history
<1>1. CASE UNCHANGED <<voteRpcs, elected, votes, campaign>>
  BY <1>1, Zenon DEF NoVoteStep
<1>2. ASSUME NEW i \in Server,
             \/ ElectionTimeout(i) \/ StepDown(i) \/ CampaignOver(i)
             \/ \E r \in voteRpcs : VoteHigherTerm(i, r)
      PROVE  NoVoteStep
  <2>1. UNCHANGED <<voteRpcs, elected>> /\ \E role : Enter(i, role)
    BY <1>2, Zenon DEF ElectionTimeout, StepDown, CampaignOver, VoteHigherTerm
  <2> QED BY <2>1, EnterForgets DEF NoVoteStep
<1>3. ASSUME NEW i \in Server, Tick(i) PROVE NoVoteStep
  <2>1. /\ UNCHANGED <<voteRpcs, elected>>
        /\ UNCHANGED <<votes, campaign>> \/ \E role : Enter(i, role)
    BY <1>3 DEF Tick
  <2> QED BY <2>1, EnterForgets, Zenon DEF NoVoteStep
<1>4. ASSUME NEW i \in Server, \/ \E p \in Server : sendHeartbeatToPeer(i, p)
                               \/ \E c \in Cmd : Replicate(i, c)
      PROVE  UNCHANGED <<voteRpcs, elected, votes, campaign>>
  BY <1>4, Zenon DEF sendHeartbeatToPeer, Replicate
<1>5. ASSUME NEW c \in Cmd, \/ ReplicateCommit(c)
                            \/ \E p \in Server : replicateToPeer(c, p)
      PROVE  UNCHANGED <<voteRpcs, elected, votes, campaign>>
  BY <1>5 DEF ReplicateCommit, replicateToPeer
<1>6. ASSUME NEW r \in aeRpcs, \/ HandleAppendEntries(r)
                               \/ AppendEntriesError(r)
                               \/ HeartbeatReply(r) \/ ReplicateReply(r)
      PROVE  UNCHANGED <<voteRpcs, elected, votes, campaign>>
  BY <1>6, Zenon
  DEF HandleAppendEntries, AppendStale, AppendMismatch, AppendSuccess,
              AppendEntriesError, HeartbeatReply, ReplicateReply
<1>7. CASE UNCHANGED vars
  BY <1>1, <1>7, Zenon DEF vars
<1> QED BY <1>1, <1>2, <1>3, <1>4, <1>5, <1>6, <1>7 DEF Next, RunGoroutine

\* The request StartCampaign sends to p.
VoteRequest(i, p) ==
    [src |-> i, dst |-> p, term |-> currentTerm[i] + 1,
     lastIndex |-> LastIndex(log[i]), lastTerm |-> LastTerm(log[i]),
     done |-> FALSE, replyTerm |-> 0, granted |-> FALSE]

\* NewNode starts with no votes and no leader.
LEMMA ElectionInit == Init => ElectionInv
BY DEF Init, ElectionInv, VoteRequestsOK, VotesRemembered, VotesOnce,
       CountedVotesCast, LeadersHaveQuorum, Voted

\* The votes of becomeLeader's caller: its own, those counted before and the
\* one that made a majority.
LEMMA WinnersQuorum ==
    ASSUME Sizes, TypeOK, VoteRequestsOK, CountedVotesCast,
           NEW i \in Server, NEW r \in voteRpcs, VoteWins(i, r)
    PROVE  \E Q : IsQuorum(Q) /\ \A n \in Q : Voted(n, i, campaign[i])
<1> DEFINE Q == (votes[i] \union {r.dst}) \union {i}
<1>1. /\ r.src = i /\ r.term = campaign[i] /\ r.granted
      /\ r.dst \notin votes[i]
      /\ Cardinality(votes[i]) + 2 >= Majority
  BY DEF VoteWins, VoteAnswer
<1>2. r.dst \in Server /\ r.dst # i /\ i \notin votes[i]
  BY <1>1, Zenon DEF TypeOK, VoteRpc, VoteRequestsOK, CountedVotesCast
<1>3. votes[i] \in SUBSET Server /\ Server \in SUBSET Server
  BY Zenon DEF TypeOK
<1>4. Cardinality(votes[i] \union {r.dst}) = Cardinality(votes[i]) + 1
  BY <1>1, <1>2, <1>3, Zenon DEF Sizes
<1>5. Cardinality(Q) = Cardinality(votes[i] \union {r.dst}) + 1
  <2>1. votes[i] \union {r.dst} \in SUBSET Server
    BY <1>2, <1>3, Zenon
  <2>2. i \in Server \ (votes[i] \union {r.dst})
    BY <1>2, Zenon
  <2> QED BY <2>1, <2>2, Zenon DEF Sizes
<1>6. /\ Cardinality(votes[i]) \in Nat /\ Cardinality(Server) \in Nat
  BY <1>3, Zenon DEF Sizes
<1>7. 2 * Cardinality(Q) > Cardinality(Server)
  <2> HIDE DEF Q
  <2> QED BY <1>1, <1>4, <1>5, <1>6 DEF Majority
<1>8. Q \subseteq Server
  BY <1>2, <1>3, Zenon
<1>9. ASSUME NEW n \in Q PROVE Voted(n, i, campaign[i])
  <2>1. CASE n \in votes[i]
    BY <2>1, Zenon DEF CountedVotesCast
  <2>2. CASE n = r.dst \/ n = i
    BY <1>1, <2>2, Zenon DEF Voted
  <2> QED BY <2>1, <2>2, Zenon
<1>10. IsQuorum(Q)
  BY <1>7, <1>8 DEF IsQuorum
<1> HIDE DEF Q
<1> QED BY <1>9, <1>10, Zenon

\* Every step keeps the facts that make elections safe.
LEMMA ElectionNext ==
    TypeInv /\ TypeInv' /\ ElectionInv /\ [Next]_vars => ElectionInv'

\* A vote once cast is never taken back, and a new one is for the voter's term.
<1>VotedStep.
    ASSUME TypeInv, VoteRequestsOK, [Next]_vars,
           NEW n \in Server, NEW c \in Server, NEW t \in Nat
    PROVE  /\ Voted(n, c, t) => Voted(n, c, t)'
           /\ Voted(n, c, t)' => \/ Voted(n, c, t)
                                 \/ t = currentTerm'[n] /\ votedFor'[n] = c
  <2> USE <1>VotedStep
  <2>1. TypeOK
    BY Zenon DEF TypeInv
  <2>2. CASE UNCHANGED voteRpcs
    BY <2>2, Zenon DEF Voted
  <2>3. ASSUME NEW i \in Server, StartCampaign(i)
        PROVE  /\ Voted(n, c, t) => Voted(n, c, t)'
               /\ Voted(n, c, t)' => \/ Voted(n, c, t)
                                     \/ t = currentTerm'[n] /\ votedFor'[n] = c
    <3>1. voteRpcs' = voteRpcs \union {VoteRequest(i, p) : p \in Peers(i)}
      BY <2>3, Zenon DEF StartCampaign, VoteRequest
    <3>2. \A p : /\ VoteRequest(i, p).src = i
                 /\ VoteRequest(i, p).term = currentTerm[i] + 1
                 /\ VoteRequest(i, p).granted = FALSE
      BY Zenon DEF VoteRequest
    <3>3. currentTerm'[i] = currentTerm[i] + 1 /\ votedFor'[i] = i
      BY <2>1, <2>3, Zenon DEF StartCampaign, TypeOK
    <3> QED BY <3>1, <3>2, <3>3 DEF Voted
  <2>4. ASSUME NEW r \in voteRpcs, HandleRequestVote(r)
        PROVE  /\ Voted(n, c, t) => Voted(n, c, t)'
               /\ Voted(n, c, t)' => \/ Voted(n, c, t)
                                     \/ t = currentTerm'[n] /\ votedFor'[n] = c
    <3> DEFINE q == [r EXCEPT !.done = TRUE,
                              !.replyTerm = TermAfter(r.dst, r.term),
                              !.granted = GrantsVote(r)]
    <3>1. r \in VoteRpc /\ r.dst \in Server /\ r.term \in Nat
      BY <2>1, Zenon DEF TypeOK, VoteRpc
    <3>2. /\ q.src = r.src /\ q.dst = r.dst /\ q.term = r.term
          /\ q.granted = GrantsVote(r)
      BY <3>1 DEF VoteRpc
    <3>3. voteRpcs' = (voteRpcs \ {r}) \union {q} /\ ~r.done
      BY <2>4 DEF HandleRequestVote
    <3>4. ~r.granted
      BY <3>3, Zenon DEF VoteRequestsOK
    <3>5. GrantsVote(r) =>
            currentTerm'[r.dst] = r.term /\ votedFor'[r.dst] = r.src
      <4>1. /\ currentTerm'[r.dst] = TermAfter(r.dst, r.term)
            /\ votedFor'[r.dst] = IF GrantsVote(r) THEN r.src
                                  ELSE VoteAfter(r.dst, r.term)
        BY <2>1, <2>4, <3>1, Zenon DEF HandleRequestVote, TypeOK
      <4>2. GrantsVote(r) => r.term >= currentTerm[r.dst]
        BY DEF GrantsVote
      <4> QED BY <2>1, <3>1, <4>1, <4>2, NodeTypes DEF TermAfter
    <3> HIDE DEF q
    <3> QED BY <3>2, <3>3, <3>4, <3>5, Zenon DEF Voted
  <2>5. \/ UNCHANGED voteRpcs
        \/ \E i \in Server : StartCampaign(i)
        \/ \E r \in voteRpcs : HandleRequestVote(r)
    BY <2>1, VoteSteps, Zenon DEF NoVoteStep, VoteCounted, VoteWins
  <2> QED BY <2>2, <2>3, <2>4, <2>5, Zenon
<1> SUFFICES ASSUME TypeInv, TypeInv', ElectionInv, [Next]_vars
             PROVE  ElectionInv'
  OBVIOUS
<1>1. /\ Sizes /\ TypeOK /\ VoteRequestsOK /\ VotesRemembered /\ VotesOnce
      /\ CountedVotesCast /\ LeadersHaveQuorum
  BY Zenon DEF TypeInv, ElectionInv
<1>2. ASSUME NEW n \in Server
      PROVE  /\ currentTerm[n] \in Nat /\ currentTerm'[n] \in Nat
             /\ campaign[n] \in Nat /\ votes[n] \subseteq Server
  BY Zenon DEF TypeInv, TypeOK
<1>3. VoteRequestsOK'
  <2>1. CASE UNCHANGED voteRpcs
    BY <1>1, <2>1, Zenon DEF VoteRequestsOK
  <2>2. ASSUME NEW i \in Server, StartCampaign(i) PROVE VoteRequestsOK'
    <3>1. voteRpcs' = voteRpcs \union {VoteRequest(i, p) : p \in Peers(i)}
      BY <2>2, Zenon DEF StartCampaign, VoteRequest
    <3>2. \A p \in Peers(i) :
             /\ VoteRequest(i, p).src # VoteRequest(i, p).dst
             /\ VoteRequest(i, p).granted = FALSE
      BY Zenon DEF VoteRequest, Peers
    <3> QED BY <1>1, <3>1, <3>2, Zenon DEF VoteRequestsOK
  <2>3. ASSUME NEW r \in voteRpcs, HandleRequestVote(r) PROVE VoteRequestsOK'
    <3> DEFINE q == [r EXCEPT !.done = TRUE,
                              !.replyTerm = TermAfter(r.dst, r.term),
                              !.granted = GrantsVote(r)]
    <3>1. r \in VoteRpc
      BY <1>1 DEF TypeOK
    <3>2. q.src = r.src /\ q.dst = r.dst /\ q.done
      BY <3>1 DEF VoteRpc
    <3>3. voteRpcs' = (voteRpcs \ {r}) \union {q}
      BY <2>3, Zenon DEF HandleRequestVote
    <3> HIDE DEF q
    <3> QED BY <1>1, <3>2, <3>3, Zenon DEF VoteRequestsOK
  <2> QED BY <1>1, <2>1, <2>2, <2>3, VoteSteps
          DEF NoVoteStep, VoteCounted, VoteWins
<1>4. VotesRemembered'
  <2> SUFFICES ASSUME NEW n \in Server, NEW c \in Server, NEW t \in Nat,
                      Voted(n, c, t)'
               PROVE  /\ t <= currentTerm'[n]
                      /\ t = currentTerm'[n] => votedFor'[n] = c
    BY DEF VotesRemembered
  <2>1. CASE t = currentTerm'[n] /\ votedFor'[n] = c
    BY <2>1, SameTerm, Zenon
  <2>2. CASE Voted(n, c, t)
    <3>1. t <= currentTerm[n] /\ (t = currentTerm[n] => votedFor[n] = c)
      BY <1>1, <2>2 DEF VotesRemembered
    <3>2. c # None
      BY ServerAssumption, Zenon
    <3>3. /\ currentTerm'[n] >= currentTerm[n]
          /\ (currentTerm'[n] = currentTerm[n] /\ votedFor[n] # None)
               => votedFor'[n] = votedFor[n]
      BY <1>2, StableStep, Zenon
    <3>4. currentTerm[n] \in Nat /\ currentTerm'[n] \in Nat
      BY <1>2, Zenon DEF TypeInv, TypeOK
    <3>5. t <= currentTerm'[n] /\ (t = currentTerm'[n] => t = currentTerm[n])
      BY <3>1, <3>3, <3>4, TermsBetween, Zenon
    <3> QED BY <3>1, <3>2, <3>3, <3>5, Zenon
  <2> QED BY <1>1, <2>1, <2>2, <1>VotedStep
<1>5. VotesOnce'
  <2> SUFFICES ASSUME NEW n \in Server, NEW c \in Server, NEW d \in Server,
                      NEW t \in Nat, Voted(n, c, t)', Voted(n, d, t)'
               PROVE  c = d
    BY DEF VotesOnce
  <2>1. CASE Voted(n, c, t) /\ Voted(n, d, t)
    BY <1>1, <2>1, Zenon DEF VotesOnce
  <2>2. CASE t = currentTerm'[n]
    BY <1>4, <2>2 DEF VotesRemembered
  <2> QED BY <1>1, <2>1, <2>2, <1>VotedStep, Zenon
<1>6. CountedVotesCast'
  <2> SUFFICES ASSUME NEW i \in Server, NEW p \in votes'[i]
               PROVE  p # i /\ Voted(p, i, campaign[i])'
    BY Zenon DEF CountedVotesCast
  <2>1. CASE p \in votes[i] /\ campaign'[i] = campaign[i]
    <3>1. p # i /\ Voted(p, i, campaign[i])
      BY <1>1, <2>1, Zenon DEF CountedVotesCast
    <3> QED BY <1>1, <1>2, <2>1, <3>1, <1>VotedStep, Zenon
  <2>2. ASSUME NEW j \in Server, NEW r \in voteRpcs, VoteCounted(j, r)
        PROVE  \/ p \in votes[i] /\ campaign'[i] = campaign[i]
               \/ p # i /\ Voted(p, i, campaign[i])'
    <3>1. /\ r.src = j /\ r.term = campaign[j] /\ r.granted
          /\ votes' = [votes EXCEPT ![j] = @ \union {r.dst}]
          /\ UNCHANGED <<campaign, voteRpcs>>
      BY <2>2, Zenon DEF VoteCounted, VoteAnswer
    <3>2. r.src # r.dst
      BY <1>1, Zenon DEF VoteRequestsOK
    <3>3. votes \in [Server -> SUBSET Server]
      BY <1>1, Zenon DEF TypeOK
    <3> QED BY <3>1, <3>2, <3>3 DEF Voted
  <2>3. \/ votes'[i] = {}
        \/ votes'[i] = votes[i] /\ campaign'[i] = campaign[i]
        \/ \E j \in Server, r \in voteRpcs : VoteCounted(j, r)
    <3>1. votes \in [Server -> SUBSET Server] /\ campaign \in [Server -> Nat]
      BY <1>1 DEF TypeOK
    <3>2. ASSUME NEW j \in Server, StartCampaign(j)
          PROVE  \/ votes'[i] = {}
                 \/ votes'[i] = votes[i] /\ campaign'[i] = campaign[i]
      BY <3>1, <3>2, Zenon DEF StartCampaign
    <3>3. ASSUME NEW j \in Server, NEW r \in voteRpcs, VoteWins(j, r)
          PROVE  \/ votes'[i] = {}
                 \/ votes'[i] = votes[i] /\ campaign'[i] = campaign[i]
      BY <1>1, <3>3, EnterForgets DEF VoteWins
    <3>4. ASSUME NEW r \in voteRpcs, HandleRequestVote(r)
          PROVE  votes'[i] = votes[i] /\ campaign'[i] = campaign[i]
      BY <3>4 DEF HandleRequestVote, loopVars
    <3> QED BY <1>1, <3>2, <3>3, <3>4, VoteSteps, Zenon DEF NoVoteStep
  <2> QED BY <2>1, <2>2, <2>3, Zenon
<1>7. LeadersHaveQuorum'
  <2> SUFFICES ASSUME NEW e \in elected'
               PROVE  \E Q : IsQuorum(Q) /\ \A n \in Q : Voted(n, e[2], e[1])'
    BY Zenon DEF LeadersHaveQuorum, IsQuorum
  <2>1. e[1] \in Nat /\ e[2] \in Server
    BY Zenon DEF TypeInv, TypeOK
  <2>2. \E Q : IsQuorum(Q) /\ \A n \in Q : Voted(n, e[2], e[1])
    <3>1. CASE e \in elected
      BY <1>1, <3>1 DEF LeadersHaveQuorum
    <3>2. CASE e \notin elected
      <4>1. PICK i \in Server, r \in voteRpcs : VoteWins(i, r)
        BY <1>1, <3>2, VoteSteps, Zenon
           DEF NoVoteStep, StartCampaign, VoteCounted, HandleRequestVote, history
      <4>2. e = <<currentTerm[i], i>> /\ currentTerm[i] = campaign[i]
        BY <3>2, <4>1 DEF VoteWins, StillCandidate
      <4> QED BY <1>1, <4>1, <4>2, WinnersQuorum, Zenon
    <3> QED BY <3>1, <3>2
  <2>3. PICK Q : IsQuorum(Q) /\ \A n \in Q : Voted(n, e[2], e[1])
    BY <2>2
  <2>4. \A n \in Q : Voted(n, e[2], e[1])'
    BY <1>1, <2>1, <2>3, <1>VotedStep DEF IsQuorum
  <2> QED BY <2>3, <2>4
<1> QED BY <1>3, <1>4, <1>5, <1>6, <1>7 DEF ElectionInv

\* Two quorums share a voter, who voted once.
LEMMA QuorumsMakeElectionsSafe ==
    TypeInv /\ ElectionInv => ElectionSafety
<1> SUFFICES ASSUME TypeInv, ElectionInv, NEW a \in elected, NEW b \in elected,
                    a[1] = b[1]
             PROVE  a[2] = b[2]
  BY DEF ElectionSafety
<1>1. a[1] \in Nat /\ a[2] \in Server /\ b[2] \in Server
  BY Zenon DEF TypeInv, TypeOK
<1>2. PICK P : IsQuorum(P) /\ \A n \in P : Voted(n, a[2], a[1])
  BY Zenon DEF ElectionInv, LeadersHaveQuorum
<1>3. PICK Q : IsQuorum(Q) /\ \A n \in Q : Voted(n, b[2], b[1])
  BY Zenon DEF ElectionInv, LeadersHaveQuorum
<1>4. P \in SUBSET Server /\ Q \in SUBSET Server /\ Server \in SUBSET Server
  BY <1>2, <1>3, Zenon DEF IsQuorum
<1>5. P \intersect Q # {}
  <2>1. Sizes
    BY Zenon DEF TypeInv
  <2>2. /\ Cardinality(P) \in Nat /\ Cardinality(Q) \in Nat
        /\ Cardinality(Server) \in Nat
    BY <1>4, <2>1, Zenon DEF Sizes
  <2>3. Cardinality(P) + Cardinality(Q) > Cardinality(Server)
    BY <1>2, <1>3, <2>2 DEF IsQuorum
  <2> QED BY <1>4, <2>1, <2>3, Zenon DEF Sizes
<1>6. PICK n \in P \intersect Q : TRUE
  BY <1>5
<1>7. n \in Server /\ Voted(n, a[2], a[1]) /\ Voted(n, b[2], a[1])
  BY <1>2, <1>3, <1>6 DEF IsQuorum
<1> QED BY <1>1, <1>7 DEF ElectionInv, VotesOnce

-----------------------------------------------------------------------------
(* Restarts *)

(***************************************************************************)
(* Logs of nodes that may be restarted, for any cluster and any number of  *)
(* restarts: an entry's position is its index.  RaftLog, which finds       *)
(* entries by position where raft/log.go scans for the index, rests on it. *)
(***************************************************************************)

\* The entries of a request follow prevLogIndex without a hole.
Batch(r) == \A k \in 1..Len(r.entries) : r.entries[k].index = r.prevIndex + k

NoHoles == LogsContiguous /\ \A r \in aeRpcs : Batch(r)

CrashInv == TypeInv /\ NoHoles

-----------------------------------------------------------------------------

\* A request whose caller gives up has the entries it had.
LEMMA GoneBatch ==
    ASSUME NEW r \in AERpc
    PROVE  LET g == [r EXCEPT !.caller = "gone", !.cmd = None]
           IN  g \in AERpc /\ g.entries = r.entries /\ g.prevIndex = r.prevIndex
               /\ g.src = r.src /\ g.dst = r.dst /\ g.caller = "gone"
BY Zenon DEF AERpc

\* No step of a running node leaves a hole in a log.
LEMMA NoHolesNext ==
    CrashInv /\ [Next]_vars => NoHoles'

\* The loop over args.Entries leaves no hole and doubles nothing, if the log
\* reaches prevLogIndex.
<1>MergeContiguous.
    ASSUME WellOrdered, NEW S, NEW l \in Seq(S), NEW entries \in Seq(S),
           Contiguous(l), NEW prev \in Nat, prev <= Len(l),
           \A k \in 1..Len(entries) : entries[k].index = prev + k
    PROVE  Contiguous(MergeEntries(l, entries))
  <2> USE <1>MergeContiguous
  <2>1. CASE Unmatched(l, entries) = {}
    BY <2>1, Zenon DEF MergeEntries
  <2>2. CASE Unmatched(l, entries) # {}
    <3> DEFINE k == FirstUnmatched(l, entries)
               m == prev + k - 1
               n == Len(entries)
               t == TruncateAfter(l, entries[k].index - 1)
               s == SubSeq(entries, k, n)
    <3>1. Len(l) \in Nat /\ n \in Nat
      BY LenFacts, Zenon
    <3>2. k \in 1..n /\ \A j \in 1..n : j < k => j \notin Unmatched(l, entries)
      BY <2>2, <3>1, FirstUnmatchedIsFirst
    <3>3. MergeEntries(l, entries) = t \o s
      BY <2>2, Zenon DEF MergeEntries
    <3> HIDE DEF k
    <3>4. m \in Nat /\ m <= Len(l)
      <4>1. CASE k = 1
        BY <4>1
      <4>2. CASE k # 1
        <5>1. k - 1 \in 1..n /\ k - 1 < k
          BY <3>1, <3>2, <4>2
        <5>2. HasEntry(l, entries[k - 1].index)
          BY <3>2, <5>1, Zenon DEF Unmatched
        <5>3. entries[k - 1].index = m
          BY <3>1, <3>2, <5>1, Zenon
        <5> QED BY <3>1, <5>2, <5>3 DEF HasEntry
      <4> QED BY <4>1, <4>2
    <3>5. entries[k].index - 1 = m
      <4>1. entries[k].index = prev + k
        BY <3>2, Zenon
      <4>2. k \in Nat
        BY <3>1, <3>2, IndexBounds, Zenon
      <4> QED BY <4>1, <4>2, BatchIndex, Zenon
    <3>6. t \in Seq(S) /\ Len(t) = m /\ \A j \in 1..m : t[j] = l[j]
      <4>1. t = TruncateAfter(l, m)
        BY <3>5, Zenon
      <4>2. \A j \in 1..m : l[j] \in S
        BY <3>1, <3>4
      <4>3. m \in Int /\ 1 \in Int /\ m - 1 + 1 = m
        BY <3>4
      <4>4. /\ SubSeq(l, 1, m) \in Seq(S) /\ Len(SubSeq(l, 1, m)) = m
            /\ \A j \in 1..m : SubSeq(l, 1, m)[j] = l[j]
        BY <3>4, <4>2, <4>3, SubSeqFacts
      <4>5. CASE m < Len(l)
        BY <4>1, <4>4, <4>5, Zenon DEF TruncateAfter
      <4>6. CASE m = Len(l)
        <5>1. ~(m < Len(l))
          BY <3>1, <4>6
        <5>2. t = l
          BY <4>1, <5>1, Zenon DEF TruncateAfter
        <5> QED BY <4>6, <5>2
      <4> QED BY <3>1, <3>4, <4>5, <4>6
    <3>7. /\ s \in Seq(S) /\ Len(s) = n - k + 1
          /\ \A j \in 1..(n - k + 1) : s[j] = entries[k + j - 1]
      <4>1. \A j \in k..n : entries[j] \in S
        BY <3>1, <3>2
      <4> QED BY <3>1, <3>2, <4>1, SubSeqFacts
    <3> HIDE DEF t, s
    <3>8. /\ Len(t \o s) = m + (n - k + 1)
          /\ \A j \in 1..(m + (n - k + 1)) :
                (t \o s)[j] = IF j <= m THEN t[j] ELSE s[j - m]
      <4>1. /\ Len(t \o s) = Len(t) + Len(s)
            /\ \A j \in 1..(Len(t) + Len(s)) :
                  (t \o s)[j] = IF j <= Len(t) THEN t[j] ELSE s[j - Len(t)]
        BY <3>6, <3>7, ConcatFacts, Zenon
      <4>2. Len(t) = m /\ Len(s) = n - k + 1
        BY <3>6, <3>7, Zenon
      <4> HIDE DEF m, n
      <4> QED BY <4>1, <4>2
    <3>9. ASSUME NEW j \in 1..(m + (n - k + 1)) PROVE (t \o s)[j].index = j
      <4>1. CASE j <= m
        <5>1. j \in 1..m /\ j \in 1..Len(l)
          BY <3>1, <3>4, <4>1
        <5> QED BY <3>6, <3>8, <4>1, <5>1, Zenon DEF Contiguous
      <4>2. CASE ~(j <= m)
        <5>1. /\ j - m \in 1..(n - k + 1) /\ k + (j - m) - 1 \in 1..n
              /\ prev + (k + (j - m) - 1) = j
          BY <3>1, <3>2, <3>4, <4>2
        <5>2. (t \o s)[j] = entries[k + (j - m) - 1]
          BY <3>7, <3>8, <4>2, <5>1
        <5> QED BY <5>1, <5>2, Zenon
      <4> QED BY <4>1, <4>2, Zenon
    <3> QED BY <3>3, <3>8, <3>9 DEF Contiguous
  <2> QED BY <2>1, <2>2, Zenon

\* Steps that leave the logs and send nothing new
<1>BatchesKept.
    ASSUME NoHoles, UNCHANGED log,
           \A r \in aeRpcs' : \E q \in aeRpcs :
              r.entries = q.entries /\ r.prevIndex = q.prevIndex
    PROVE  NoHoles'
  BY <1>BatchesKept, Zenon DEF NoHoles, LogsContiguous, Batch

\* A heartbeat and a replicateToPeer send a stretch of the sender's log.
<1>SentBatch.
    ASSUME NEW l \in Seq(Entry), Contiguous(l), NEW next \in Nat, next >= 1,
           NEW last \in Nat
    PROVE  /\ \A k \in 1..Len(EntriesBetween(l, next, last)) :
                 EntriesBetween(l, next, last)[k].index = next - 1 + k
           /\ next <= Len(l) => \A k \in 1..Len(EntriesFrom(l, next)) :
                 EntriesFrom(l, next)[k].index = next - 1 + k
  <2> USE <1>SentBatch
  <2>1. Len(l) \in Nat
    BY LenFacts, Zenon
  <2>2. ASSUME NEW k \in 1..Len(EntriesBetween(l, next, last))
        PROVE  EntriesBetween(l, next, last)[k].index = next - 1 + k
    <3> DEFINE e == EntriesBetween(l, next, last)
    <3>1. /\ e \in Seq(Entry) /\ e[k] = l[next + k - 1]
          /\ Len(e) > 0 => next + Len(e) <= Len(l) + 1
      BY EntriesBetweenType, Zenon
    <3>2. Len(e) \in Nat
      BY <3>1, LenFacts
    <3> HIDE DEF e
    <3>3. k \in 1..Len(e)
      BY DEF e
    <3>4. next + k - 1 \in 1..Len(l) /\ next + k - 1 = next - 1 + k
      BY <2>1, <3>1, <3>2, <3>3
    <3> QED BY <3>1, <3>4, Zenon DEF Contiguous, e
  <2>3. ASSUME next <= Len(l), NEW k \in 1..Len(EntriesFrom(l, next))
        PROVE  EntriesFrom(l, next)[k].index = next - 1 + k
    <3>1. /\ Len(EntriesFrom(l, next)) = Len(l) - next + 1
          /\ EntriesFrom(l, next)[k] = l[next + k - 1]
      BY <2>3, EntriesFromType, Zenon
    <3>2. next + k - 1 \in 1..Len(l) /\ next + k - 1 = next - 1 + k
      BY <2>1, <3>1, SentIndex, Zenon
    <3> QED BY <3>1, <3>2, Zenon DEF Contiguous
  <2> QED BY <2>2, <2>3

\* sendHeartbeatToPeer, with prevLogIndex 0 if it sends nothing
<1>LogSendHeartbeat.
    ASSUME CrashInv, NEW i \in Server, NEW p \in Server, sendHeartbeatToPeer(i, p)
    PROVE  NoHoles'
  <2> USE <1>LogSendHeartbeat
  <2> DEFINE next == nextIndex[i][p]
             entries == IF Behind(i, p) THEN EntriesFrom(log[i], next) ELSE <<>>
             q == AERequest("heartbeat", None, i, p, currentTerm[i],
                            HeartbeatPrevIndex(i, p), entries, commitIndex[i])
  <2>1. aeRpcs' = aeRpcs \union {q} /\ log' = log /\ p \in hbReady[i]
    BY Zenon DEF sendHeartbeatToPeer, logVars
  <2>2. next \in Nat /\ next >= 1
    <3>1. pc[i] = "leader" /\ p \in Peers(i)
      BY <2>1, Zenon DEF CrashInv, TypeInv, HeartbeatsOfLeader
    <3> QED BY <3>1, NodeTypes, Zenon DEF CrashInv, TypeInv, NextPositive
  <2>3. log[i] \in Seq(Entry) /\ Contiguous(log[i]) /\ 0 \in Nat
    BY NodeTypes, Zenon DEF CrashInv, TypeInv, NoHoles, LogsContiguous
  <2>4. q.entries = entries /\ q.prevIndex = HeartbeatPrevIndex(i, p)
    BY Zenon DEF AERequest
  <2>5. Batch(q)
    <3>1. CASE Behind(i, p)
      <4>1. next <= Len(log[i])
        BY <3>1 DEF Behind, LastIndex
      <4>2. \A k \in 1..Len(EntriesFrom(log[i], next)) :
               EntriesFrom(log[i], next)[k].index = next - 1 + k
        BY <2>2, <2>3, <4>1, <1>SentBatch, Zenon
      <4>3. q.entries = EntriesFrom(log[i], next) /\ q.prevIndex = next - 1
        BY <2>4, <3>1, Zenon DEF HeartbeatPrevIndex
      <4> HIDE DEF q, next
      <4> QED BY <4>2, <4>3 DEF Batch
    <3>2. CASE ~Behind(i, p)
      <4>1. q.entries = <<>>
        BY <2>4, <3>2, Zenon
      <4> HIDE DEF q
      <4> QED BY <4>1 DEF Batch
    <3> QED BY <3>1, <3>2, Zenon
  <2> HIDE DEF q
  <2> QED BY <2>1, <2>5 DEF CrashInv, NoHoles, LogsContiguous, Batch

\* replicateToPeer sends a stretch of a log without holes.
<1>LogReplicateToPeer.
    ASSUME CrashInv, NEW c \in Cmd, NEW p \in Server, replicateToPeer(c, p)
    PROVE  NoHoles'
  <2> USE <1>LogReplicateToPeer
  <2> DEFINE i == call[c].node
             next == nextIndex[i][p]
             entries == EntriesBetween(log[i], next, call[c].index)
             q == AERequest("replicate", c, i, p, call[c].term, next - 1,
                            entries, call[c].commit)
  <2>1. log' = log /\ p \in call[c].ready
    BY Zenon DEF replicateToPeer, logVars
  <2>2. \/ aeRpcs' = aeRpcs
        \/ aeRpcs' = aeRpcs \union {q} /\ state[i] = Leader
    BY DEF replicateToPeer
  <2>3. CASE aeRpcs' = aeRpcs
    BY <2>1, <2>3, <1>BatchesKept, Zenon DEF CrashInv
  <2>4. CASE aeRpcs' = aeRpcs \union {q} /\ state[i] = Leader
    <3>1. call[c] \in Call /\ i \in Server /\ p \in Peers(i)
      BY <2>1, Zenon DEF CrashInv, TypeInv, TypeOK, CallOfNode
    <3>2. next \in Nat /\ next >= 1 /\ call[c].index \in Nat
      BY <2>4, <3>1, NodeTypes, Zenon DEF CrashInv, TypeInv, NextPositive, Call
    <3>3. log[i] \in Seq(Entry) /\ Contiguous(log[i])
      BY <3>1, NodeTypes, Zenon DEF CrashInv, TypeInv, NoHoles, LogsContiguous
    <3>4. \A k \in 1..Len(entries) : entries[k].index = next - 1 + k
      BY <3>2, <3>3, <1>SentBatch, Zenon
    <3>5. q.entries = entries /\ q.prevIndex = next - 1
      BY Zenon DEF AERequest
    <3> HIDE DEF entries, next, q
    <3>6. Batch(q)
      BY <3>4, <3>5, Zenon DEF Batch
    <3> QED BY <2>1, <2>4, <3>6 DEF CrashInv, NoHoles, LogsContiguous, Batch
  <2> QED BY <2>2, <2>3, <2>4, Zenon

\* Replicate appends at LastIndex + 1.
<1>LogReplicate.
    ASSUME CrashInv, NEW i \in Server, NEW c \in Cmd, Replicate(i, c)
    PROVE  NoHoles'
  <2> USE <1>LogReplicate
  <2> DEFINE e == [term |-> currentTerm[i], index |-> Len(log[i]) + 1, cmd |-> c]
  <2>1. log' = [log EXCEPT ![i] = Append(log[i], e)] /\ aeRpcs' = aeRpcs
    BY Zenon DEF Replicate, LastIndex
  <2>2. /\ log \in [Server -> Seq(Entry)] /\ log[i] \in Seq(Entry)
        /\ Len(log[i]) \in Nat /\ currentTerm[i] \in Nat
    BY NodeTypes, LenFacts DEF CrashInv, TypeInv, TypeOK
  <2>3. e \in Entry /\ e.index = Len(log[i]) + 1
    <3>1. Len(log[i]) + 1 \in Nat
      BY <2>2
    <3>2. e \in Entry
      BY <2>2, <3>1, Zenon DEF Entry
    <3> QED BY <3>2, Zenon
  <2> HIDE DEF e
  <2>4. Contiguous(Append(log[i], e))
    <3>1. Contiguous(log[i])
      BY Zenon DEF CrashInv, NoHoles, LogsContiguous
    <3>2. /\ Len(Append(log[i], e)) = Len(log[i]) + 1
          /\ \A k \in 1..Len(log[i]) : Append(log[i], e)[k] = log[i][k]
          /\ Append(log[i], e)[Len(log[i]) + 1] = e
      BY <2>2, <2>3, AppendFacts
    <3> QED BY <2>2, <2>3, <3>1, <3>2 DEF Contiguous
  <2>5. \A j \in Server : Contiguous(log'[j])
    BY <2>1, <2>2, <2>4 DEF CrashInv, NoHoles, LogsContiguous
  <2> QED BY <2>1, <2>5, Zenon DEF CrashInv, NoHoles, LogsContiguous, Batch

\* An answered exchange has the entries it had.
<1>AnsweredBatch.
    ASSUME CrashInv, NEW r \in aeRpcs, NEW term, NEW success,
           Answer(r, term, success)
    PROVE  \A s \in aeRpcs' : \E q \in aeRpcs :
              s.entries = q.entries /\ s.prevIndex = q.prevIndex
  <2> USE <1>AnsweredBatch
  <2>1. r \in AERpc
    BY DEF CrashInv, TypeInv, TypeOK
  <2> DEFINE d == [r EXCEPT !.done = TRUE, !.replyTerm = term, !.success = success]
  <2>2. d.entries = r.entries /\ d.prevIndex = r.prevIndex
    BY <2>1 DEF AERpc
  <2>3. aeRpcs' \subseteq aeRpcs \union {d}
    BY DEF Answer
  <2> HIDE DEF d
  <2> QED BY <2>2, <2>3

\* HandleAppendEntries leaves no hole behind.
<1>LogHandleAppendEntries.
    ASSUME CrashInv, NEW r \in aeRpcs, HandleAppendEntries(r)
    PROVE  NoHoles'
  <2> USE <1>LogHandleAppendEntries
  <2>1. CASE AppendStale(r) \/ AppendMismatch(r)
    <3>1. log' = log /\ \E term, success : Answer(r, term, success)
      BY <2>1, Zenon DEF AppendStale, AppendMismatch, logVars
    <3> QED BY <3>1, <1>AnsweredBatch, <1>BatchesKept DEF CrashInv
  <2>2. CASE AppendSuccess(r)
    <3> DEFINE i == r.dst
               l == MergeEntries(log[i], r.entries)
    <3>1. log' = [log EXCEPT ![i] = l] /\ PrevMatches(r) /\ Answer(r, r.term, TRUE)
      BY <2>2, Zenon DEF AppendSuccess
    <3>2. /\ i \in Server /\ r.entries \in Seq(Entry) /\ r.prevIndex \in Nat
          /\ log \in [Server -> Seq(Entry)] /\ log[i] \in Seq(Entry)
      BY Zenon DEF CrashInv, TypeInv, TypeOK, AERpc
    <3>3. Contiguous(log[i]) /\ Batch(r)
      BY <3>2 DEF CrashInv, NoHoles, LogsContiguous
    <3>4. r.prevIndex <= Len(log[i])
      <4>1. Len(log[i]) \in Nat
        BY <3>2, LenFacts, Zenon
      <4> QED BY <3>1, <3>2, <4>1 DEF PrevMatches, HasEntry
    <3>5. Contiguous(l)
      BY <3>2, <3>3, <3>4, <1>MergeContiguous, Zenon
         DEF Batch, CrashInv, TypeInv
    <3> HIDE DEF l
    <3>6. \A j \in Server : Contiguous(log'[j])
      BY <3>1, <3>2, <3>5 DEF CrashInv, NoHoles, LogsContiguous
    <3>7. \A s \in aeRpcs' : \E q \in aeRpcs :
             s.entries = q.entries /\ s.prevIndex = q.prevIndex
      BY <3>1, <1>AnsweredBatch, Zenon
    <3>8. \A s \in aeRpcs' : Batch(s)
      BY <3>7 DEF CrashInv, NoHoles, Batch
    <3> QED BY <3>6, <3>8 DEF NoHoles, LogsContiguous, Batch
  <2> QED BY <2>1, <2>2, Zenon DEF HandleAppendEntries
<1> SUFFICES ASSUME CrashInv, [Next]_vars PROVE NoHoles'
  OBVIOUS
<1> USE DEF logVars
<1>1. ASSUME UNCHANGED <<log, aeRpcs>> PROVE NoHoles'
  BY <1>1, <1>BatchesKept DEF CrashInv
<1>2. CASE UNCHANGED vars
  BY <1>1, <1>2 DEF vars
<1>3. ASSUME NEW i \in Server, RunGoroutine(i) PROVE NoHoles'
  BY <1>1, <1>3, Zenon DEF RunGoroutine, ElectionTimeout, StepDown, StartCampaign,
     CampaignOver, Tick, VoteHigherTerm, VoteCounted, VoteWins
<1>4. ASSUME NEW c \in Cmd, ReplicateCommit(c) PROVE NoHoles'
  BY <1>1, <1>4 DEF ReplicateCommit
<1>5. ASSUME NEW r \in voteRpcs, HandleRequestVote(r) PROVE NoHoles'
  BY <1>1, <1>5 DEF HandleRequestVote
<1>6. ASSUME NEW r \in aeRpcs, HeartbeatReply(r) \/ ReplicateReply(r) PROVE NoHoles'
  <2>1. log' = log /\ aeRpcs' \subseteq aeRpcs
    BY <1>6 DEF HeartbeatReply, ReplicateReply
  <2> QED BY <2>1, <1>BatchesKept, Zenon DEF CrashInv
<1>7. ASSUME NEW r \in aeRpcs, AppendEntriesError(r) PROVE NoHoles'
  <2> DEFINE g == [r EXCEPT !.caller = "gone", !.cmd = None]
  <2>1. log' = log /\ aeRpcs' \subseteq aeRpcs \union {g}
    BY <1>7 DEF AppendEntriesError
  <2>2. r \in AERpc
    BY DEF CrashInv, TypeInv, TypeOK
  <2>3. g.entries = r.entries /\ g.prevIndex = r.prevIndex
    BY <2>2, GoneBatch, Zenon
  <2> HIDE DEF g
  <2> QED BY <2>1, <2>3, <1>BatchesKept DEF CrashInv
<1> QED BY <1>2, <1>3, <1>4, <1>5, <1>6, <1>7, <1>LogSendHeartbeat, <1>LogReplicate,
           <1>LogReplicateToPeer, <1>LogHandleAppendEntries DEF Next

-----------------------------------------------------------------------------

\* A new process has an empty log and no goroutines, and what the old one
\* sent is as it was.
LEMMA CrashRestart ==
    ASSUME CrashInv, NEW i \in Server, Restart(i)
    PROVE  CrashInv'
<1> DEFINE Gone(r) == [r EXCEPT !.caller = "gone", !.cmd = None]
<1>1. /\ TypeOK /\ NextPositive /\ HeartbeatsOfLeader
      /\ \A c \in Cmd : CallOfNode(c)
      /\ \A r \in aeRpcs : ExchangeOfCall(r) /\ r \in AERpc /\ Batch(r)
      /\ LogsContiguous
  BY Zenon DEF CrashInv, TypeInv, TypeOK, NoHoles
<1>2. ASSUME NEW s \in aeRpcs'
      PROVE  \/ s \in aeRpcs /\ (s.src # i \/ s.caller = "gone")
             \/ \E r \in aeRpcs : s = Gone(r)
  BY Zenon DEF Restart
<1>3. ASSUME NEW s \in aeRpcs', NEW r \in aeRpcs, s = Gone(r)
      PROVE  /\ s \in AERpc /\ s.entries = r.entries /\ s.prevIndex = r.prevIndex
             /\ s.src = r.src /\ s.dst = r.dst /\ s.caller = "gone"
  BY <1>1, <1>3, GoneBatch, Zenon
<1> HIDE DEF Gone
<1>4. aeRpcs' \subseteq AERpc
  BY <1>1, <1>2, <1>3
<1>5. /\ currentTerm' \in [Server -> Nat]
      /\ votedFor' \in [Server -> Server \union {None}]
      /\ state' \in [Server -> {Follower, Candidate, Leader}]
      /\ commitIndex' \in [Server -> Nat]
  BY <1>1, Zenon DEF Restart, TypeOK
<1>6. /\ log' = [log EXCEPT ![i] = <<>>] /\ log \in [Server -> Seq(Entry)]
      /\ stepDownCh' = [stepDownCh EXCEPT ![i] = <<>>]
      /\ stepDownCh \in [Server -> Seq(Nat)] /\ StepDownCap \in Nat
      /\ \A j \in Server : Len(stepDownCh[j]) <= StepDownCap
  BY <1>1, BoundAssumption, Zenon DEF Restart, TypeOK
<1>7. /\ log' \in [Server -> Seq(Entry)] /\ stepDownCh' \in [Server -> Seq(Nat)]
      /\ \A j \in Server : Len(stepDownCh'[j]) <= StepDownCap
      /\ \A j \in Server : log'[j] = IF j = i THEN <<>> ELSE log[j]
  BY <1>6
<1>8. /\ nextIndex' \in [Server -> [Server -> Nat]]
      /\ matchIndex' \in [Server -> [Server -> Nat]]
      /\ \A j \in Server : j # i => nextIndex'[j] = nextIndex[j]
  BY <1>1, Zenon DEF Restart, TypeOK
<1>9. /\ pc' \in [Server -> {"follower", "campaign", "candidate", "leader"}]
      /\ campaign' \in [Server -> Nat]
      /\ votes' \in [Server -> SUBSET Server]
      /\ hbReady' \in [Server -> SUBSET Server]
  BY <1>1, Zenon DEF Restart, TypeOK
<1>10. ASSUME NEW c \in Cmd
       PROVE  /\ call'[c] \in Call /\ call'[c].st = call[c].st
              /\ call'[c].node = call[c].node
              /\ call'[c].ready = IF call[c].node = i THEN {} ELSE call[c].ready
  <2>1. call[c] \in Call
    BY <1>1 DEF TypeOK
  <2>2. call'[c] = IF call[c].node = i /\ call[c].st = "open"
                     THEN [call[c] EXCEPT !.ready = {}, !.acks = {}]
                     ELSE IF call[c].node = i THEN [call[c] EXCEPT !.ready = {}]
                     ELSE call[c]
    BY Zenon DEF Restart
  <2> QED BY <2>1, <2>2, Zenon DEF Call
<1>11. call' \in [Cmd -> Call]
  <2>1. DOMAIN call' = Cmd /\ call' = [c \in Cmd |-> call'[c]]
    BY Zenon DEF Restart
  <2> QED BY <1>10, <2>1
<1>12. voteRpcs' \subseteq VoteRpc /\ UNCHANGED <<elected, usurped>>
  BY <1>1, Zenon DEF Restart, TypeOK, history
<1>13. TypeOK'
  BY <1>1, <1>4, <1>5, <1>7, <1>8, <1>9, <1>11, <1>12, Zenon DEF TypeOK
<1>14. NextPositive' /\ HeartbeatsOfLeader'
  <2>1. /\ state'[i] = Follower /\ pc'[i] = "follower" /\ hbReady'[i] = {}
        /\ \A j \in Server : j # i => /\ state'[j] = state[j] /\ pc'[j] = pc[j]
                                     /\ hbReady'[j] = hbReady[j]
    BY <1>1, Zenon DEF Restart, TypeOK
  <2> QED BY <1>1, <1>8, <2>1, Zenon
          DEF NextPositive, HeartbeatsOfLeader, Follower, Leader
<1>15. \A c \in Cmd : CallOfNode(c)'
  BY <1>1, <1>10, Zenon DEF CallOfNode
<1>16. ASSUME NEW s \in aeRpcs' PROVE ExchangeOfCall(s)' /\ Batch(s)
  BY <1>1, <1>2, <1>3, <1>10 DEF ExchangeOfCall, Batch
<1>17. \A j \in Server : Contiguous(log'[j])
  <2>1. Contiguous(<<>>)
    BY DEF Contiguous
  <2> QED BY <1>1, <1>7, <2>1, Zenon DEF LogsContiguous
<1> QED BY <1>13, <1>14, <1>15, <1>16, <1>17
        DEF CrashInv, TypeInv, NoHoles, LogsContiguous, Batch

\* A cluster that has just been started has no holes.
LEMMA CrashInvInit == WellOrdered /\ Sizes /\ CrashInit => CrashInv
<1> SUFFICES ASSUME WellOrdered, Sizes, Init PROVE CrashInv
  BY DEF CrashInit
<1>1. TypeInv
  BY TypeInit
<1>2. \A i \in Server : log[i] = <<>>
  BY Zenon DEF Init
<1>3. NoHoles
  <2>1. Contiguous(<<>>)
    BY DEF Contiguous
  <2>2. aeRpcs = {}
    BY Zenon DEF Init
  <2> QED BY <1>2, <2>1, <2>2, Zenon DEF NoHoles, LogsContiguous
<1> QED BY <1>1, <1>3 DEF CrashInv

\* The invariant holds through restarts too.
LEMMA CrashInvNext == CrashInv /\ [CrashNext]_crashVars => CrashInv'
<1> SUFFICES ASSUME CrashInv, [CrashNext]_crashVars PROVE CrashInv'
  OBVIOUS
<1>1. CASE [Next]_vars
  BY <1>1, TypeNext, NoHolesNext DEF CrashInv
<1>2. CASE \E i \in Server : Restart(i)
  BY <1>2, CrashRestart
<1> QED BY <1>1, <1>2 DEF CrashNext, crashVars
=============================================================================
