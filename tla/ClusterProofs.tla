--------------------------- MODULE ClusterProofs ---------------------------
(***************************************************************************)
(* The steps of a shard's nodes, whatever calls them, for any finite set   *)
(* of nodes: elections, heartbeats, writes, nodes that stop and nodes that *)
(* start again with an empty log.  ClientProofs adds the router and puts   *)
(* the theorems together.                                                  *)
(*                                                                         *)
(* A majority that a term or an entry needs is not remembered anywhere:    *)
(* the invariant says that there is one which has come to the term, or     *)
(* which holds the entry, and forgotten says for which terms and entries a *)
(* restart may have undone that.                                           *)
(***************************************************************************)
EXTENDS Cluster, TLAPS

(***************************************************************************)
(* What the proofs use of the numbers and of finite sets of nodes.         *)
(* ClientProofs proves it from the library, whose own theorems stay out of *)
(* the proofs of the steps; ClusterInv hands it to every lemma.            *)
(***************************************************************************)
WellOrdered == \A U \in SUBSET Nat : U # {} => \E k \in U : \A m \in U : k <= m

\* The sizes of sets of nodes
Sizes ==
    /\ \A V \in SUBSET Node :
          /\ Cardinality(V) \in Nat
          /\ \A n \in Node \ V : Cardinality(V \union {n}) = Cardinality(V) + 1
    /\ \A V, W \in SUBSET Node :
          /\ V \subseteq W => Cardinality(V) <= Cardinality(W)
          /\ Cardinality(V) + Cardinality(W) > Cardinality(Node)
               => V \intersect W # {}

\* Of some nodes' terms one is the highest.
Highest ==
    \A f \in [Node -> Nat], Q \in SUBSET Node :
       Q # {} => \E q \in Q : \A r \in Q : f[q] >= f[r]

\* Entries as Replicate makes them: no leader has term 0.
Entry == [index : Nat, term : Nat \ {0}, cmd : Cmd]

\* The nodes with any writes at any node at any time, and with stops and
\* restarts
OpenNext ==
    \/ ClusterNext
    \/ \E i \in Node, cmd \in Cmd, code \in {200, 503} : handleWrite(i, cmd, code)
    \/ \E i \in Node : Stop(i)
    \/ \E i \in Node \ up : Start(i)

\* A cluster with any clients
OpenSpec == ClusterInit /\ [][OpenNext]_clusterVars

-----------------------------------------------------------------------------

\* The types of the state, and only nodes that run lead
ClusterTypeOK ==
    /\ up \in SUBSET Node
    /\ currentTerm \in [Node -> Nat]
    /\ log \in [Node -> Seq(Entry)]
    /\ leaders \in SUBSET up
    /\ committed \in SUBSET Entry
    /\ lastApplied \in [Node -> Nat]
    /\ data \in [Node -> [Key -> Nat]]
    /\ forgotten \in [writes : SUBSET Nat, term : Nat]

\* An entry's position is its index, terms do not fall along a log, and none
\* is past the term of the node.
LogsInOrder ==
    \A n \in Node :
      /\ Contiguous(log[n])
      /\ \A k \in 1..Len(log[n]) : log[n][k].term \in 1..currentTerm[n]
      /\ \A k, m \in 1..Len(log[n]) : k <= m => log[n][k].term <= log[n][m].term

\* A set of nodes that Replicate or an election takes for a majority
IsMajority(Q) == Q \subseteq Node /\ Cardinality(Q) >= Majority

\* A majority has come to term t or gone past it.
Reached(t) == \E Q : IsMajority(Q) /\ \A q \in Q : currentTerm[q] >= t

\* A term that has, or had, a leader was reached by a majority, and still is
\* if no restart took a vote in it back.
LeaderTermsReached ==
    \A i \in leaders : /\ currentTerm[i] >= 1
                       /\ currentTerm[i] > forgotten.term => Reached(currentTerm[i])

\* So was a term that has an entry.
EntryTermsReached ==
    \A n \in Node : \A k \in 1..Len(log[n]) :
      log[n][k].term > forgotten.term => Reached(log[n][k].term)

\* Whatever there is of a leader's term came from its log.
LeaderHasItsTerm ==
    \A i \in leaders, n \in Node : \A k \in 1..Len(log[n]) :
      (log[n][k].term = currentTerm[i] /\ currentTerm[i] > forgotten.term) =>
        HasEntry(log[i], k) /\ log[i][k] = log[n][k]

\* Logs that have entries of the same term after term F agree on that term's,
\* and on the terms of the entries below.
Match(F, l, w) ==
    \A k \in 1..Len(l), m \in 1..Len(w) :
      (l[k].term = w[m].term /\ w[m].term > F /\ m <= k) =>
        l[m] = w[m] /\ \A j \in 1..m : l[j].term = w[j].term

\* All logs match, in the terms no restart has touched.
TermsMatch == \A a, b \in Node : Match(forgotten.term, log[a], log[b])

\* Entry e is in the log of node n, at its index.
Holds(n, e) == HasEntry(log[n], e.index) /\ log[n][e.index] = e

\* A majority that has come to the term of e has it.
OnQuorum(e) ==
    \E Q : IsMajority(Q) /\ \A q \in Q : currentTerm[q] >= e.term /\ Holds(q, e)

\* A committed entry is on a majority that will not vote in its term again,
\* and whoever has, or may make, an entry of a later term has it.
CommittedHeld ==
    \A e \in committed : Kept(e) =>
      /\ OnQuorum(e)
      /\ \A n \in Node : (\E k \in 1..Len(log[n]) : log[n][k].term > e.term) => Holds(n, e)
      /\ \A i \in leaders : currentTerm[i] >= e.term => Holds(i, e)

\* The inductive invariant of the cluster
ClusterInv ==
    /\ WellOrdered /\ Sizes /\ Highest
    /\ ClusterTypeOK
    /\ LogsInOrder
    /\ LeaderTermsReached
    /\ EntryTermsReached
    /\ OneLeaderUnlessForgotten
    /\ LeaderHasItsTerm
    /\ TermsMatch
    /\ CommittedHeld

-----------------------------------------------------------------------------
(* Logs *)

\* The domain and the elements of a sequence
LEMMA LenFacts ==
    ASSUME NEW S, NEW l \in Seq(S)
    PROVE  /\ Len(l) \in Nat
           /\ DOMAIN l = 1..Len(l)
           /\ l \in [1..Len(l) -> S]
  OBVIOUS

\* Sequences with the same elements are the same.
LEMMA SameSeq ==
    ASSUME NEW S, NEW l \in Seq(S), NEW m \in Seq(S),
           Len(l) = Len(m), \A k \in 1..Len(l) : l[k] = m[k]
    PROVE  l = m
  OBVIOUS

\* Replicate appends an entry to its log.
LEMMA AppendFacts ==
    ASSUME NEW S, NEW l \in Seq(S), NEW e \in S
    PROVE  /\ Append(l, e) \in Seq(S)
           /\ Len(Append(l, e)) = Len(l) + 1
           /\ \A k \in 1..Len(l) : Append(l, e)[k] = l[k]
           /\ Append(l, e)[Len(l) + 1] = e
  OBVIOUS

\* HandleAppendEntries appends what is left of a batch.
LEMMA ConcatFacts ==
    ASSUME NEW S, NEW l \in Seq(S), NEW m \in Seq(S)
    PROVE  /\ l \o m \in Seq(S)
           /\ Len(l \o m) = Len(l) + Len(m)
           /\ \A k \in 1..(Len(l) + Len(m)) :
                (l \o m)[k] = IF k <= Len(l) THEN l[k] ELSE m[k - Len(l)]
  OBVIOUS

\* A stretch of a log, as truncateAfter and the senders take it
LEMMA SubSeqFacts ==
    ASSUME NEW S, NEW l, NEW a \in Int, NEW b \in Int, \A k \in a..b : l[k] \in S
    PROVE  /\ SubSeq(l, a, b) \in Seq(S)
           /\ Len(SubSeq(l, a, b)) = IF a <= b THEN b - a + 1 ELSE 0
           /\ \A k \in 1..(b - a + 1) : SubSeq(l, a, b)[k] = l[a + k - 1]
  OBVIOUS

\* The position HandleAppendEntries' loop starts appending at: the first
\* entry of the batch that the log lacks.
LEMMA FirstUnmatchedIsFirst ==
    ASSUME WellOrdered, NEW l, NEW entries, Len(entries) \in Nat,
           Unmatched(l, entries) # {}
    PROVE  /\ FirstUnmatched(l, entries) \in Unmatched(l, entries)
           /\ FirstUnmatched(l, entries) \in 1..Len(entries)
           /\ \A m \in 1..Len(entries) :
                 m < FirstUnmatched(l, entries) => m \notin Unmatched(l, entries)
<1>1. Unmatched(l, entries) \subseteq 1..Len(entries)
  BY DEF Unmatched
<1>2. Unmatched(l, entries) \in SUBSET Nat
  BY <1>1
<1>3. \E k \in Unmatched(l, entries) : \A m \in Unmatched(l, entries) : k <= m
  BY <1>2 DEF WellOrdered
<1>4. /\ FirstUnmatched(l, entries) \in Unmatched(l, entries)
      /\ \A m \in Unmatched(l, entries) : FirstUnmatched(l, entries) <= m
  BY <1>3 DEF FirstUnmatched
<1> QED BY <1>1, <1>4

\* What HandleAppendEntries makes of a log when it is sent a whole log: each
\* entry of that has a counterpart of its term, taken over or there before,
\* and what was there beyond it stays only if nothing was missing.
LEMMA MergeWhole ==
    ASSUME WellOrdered, NEW S, NEW l \in Seq(S), NEW es \in Seq(S),
           Contiguous(l), Contiguous(es), NEW w, w = MergeEntries(l, es)
    PROVE  /\ w \in Seq(S) /\ Contiguous(w)
           /\ \A k \in 1..Len(es) :
                /\ k \in 1..Len(w) /\ w[k].term = es[k].term
                /\ w[k] = es[k] \/ (k \in 1..Len(l) /\ w[k] = l[k])
           /\ w = l \/ Len(w) = Len(es)
<1> DEFINE n == Len(es)
<1>1. Len(l) \in Nat /\ n \in Nat
  BY LenFacts
<1>2. \A k \in 1..n : es[k].index = k
  BY DEF Contiguous
<1>3. ASSUME NEW k \in 1..n, k \notin Unmatched(l, es)
      PROVE  k \in 1..Len(l) /\ l[k].term = es[k].term
  BY <1>2, <1>3 DEF Unmatched, HasEntry, TermAt
<1>4. CASE Unmatched(l, es) = {}
  <2>1. w = l
    BY <1>4 DEF MergeEntries
  <2> QED BY <1>3, <1>4, <2>1
<1>5. CASE Unmatched(l, es) # {}
  <2> DEFINE k == FirstUnmatched(l, es)
             t == TruncateAfter(l, es[k].index - 1)
             s == SubSeq(es, k, n)
  <2>1. k \in 1..n /\ \A j \in 1..n : j < k => j \notin Unmatched(l, es)
    BY <1>1, <1>5, FirstUnmatchedIsFirst
  <2>2. w = t \o s
    BY <1>5, Zenon DEF MergeEntries
  <2> HIDE DEF k
  <2>3. es[k].index - 1 = k - 1 /\ k - 1 \in Nat
    BY <1>2, <2>1
  <2>4. \A j \in 1..(k - 1) : j \in 1..Len(l) /\ l[j].term = es[j].term
    <3> TAKE j \in 1..(k - 1)
    <3>1. j \in 1..n /\ j < k
      BY <1>1, <2>1
    <3> QED BY <1>3, <2>1, <3>1
  <2>5. k - 1 <= Len(l)
    BY <1>1, <2>3, <2>4
  <2>6. t \in Seq(S) /\ Len(t) = k - 1 /\ \A j \in 1..(k - 1) : t[j] = l[j]
    <3>1. t = TruncateAfter(l, k - 1)
      BY <2>3
    <3>2. \A j \in 1..(k - 1) : l[j] \in S
      BY <2>4
    <3>3. /\ SubSeq(l, 1, k - 1) \in Seq(S)
          /\ Len(SubSeq(l, 1, k - 1)) = IF 1 <= k - 1 THEN (k - 1) - 1 + 1 ELSE 0
          /\ \A j \in 1..((k - 1) - 1 + 1) : SubSeq(l, 1, k - 1)[j] = l[1 + j - 1]
      BY <2>3, <3>2, SubSeqFacts
    <3>4. CASE k - 1 < Len(l)
      <4>1. t = SubSeq(l, 1, k - 1)
        BY <3>1, <3>4, Zenon DEF TruncateAfter
      <4>2. (k - 1) - 1 + 1 = k - 1 /\ \A j \in 1..(k - 1) : 1 + j - 1 = j
        BY <2>3
      <4>3. Len(SubSeq(l, 1, k - 1)) = k - 1
        BY <2>3, <3>3
      <4>4. \A j \in 1..(k - 1) : SubSeq(l, 1, k - 1)[j] = l[j]
        BY <3>3, <4>2
      <4> QED BY <3>3, <4>1, <4>3, <4>4, Zenon
    <3>5. CASE ~(k - 1 < Len(l))
      <4>1. t = l
        BY <3>1, <3>5 DEF TruncateAfter
      <4> QED BY <1>1, <2>3, <2>5, <3>5, <4>1
    <3> QED BY <3>4, <3>5
  <2>7. /\ s \in Seq(S) /\ Len(s) = n - k + 1
        /\ \A j \in 1..(n - k + 1) : s[j] = es[k + j - 1]
    <3>1. \A j \in k..n : es[j] \in S
      BY <1>1, <2>1
    <3> QED BY <1>1, <2>1, <3>1, SubSeqFacts
  <2> HIDE DEF t, s
  <2>8. /\ w \in Seq(S) /\ Len(w) = n
        /\ \A j \in 1..n : w[j] = IF j <= k - 1 THEN t[j] ELSE s[j - (k - 1)]
    <3>1. Len(t) + Len(s) = n
      BY <1>1, <2>1, <2>6, <2>7
    <3>2. /\ t \o s \in Seq(S)
          /\ Len(t \o s) = Len(t) + Len(s)
          /\ \A i \in 1..(Len(t) + Len(s)) :
                (t \o s)[i] = IF i <= Len(t) THEN t[i] ELSE s[i - Len(t)]
      BY <2>6, <2>7, ConcatFacts, Zenon
    <3> QED BY <2>2, <2>6, <3>1, <3>2
  <2>9. ASSUME NEW j \in 1..n
        PROVE  /\ w[j].term = es[j].term
               /\ w[j] = es[j] \/ (j \in 1..Len(l) /\ w[j] = l[j])
               /\ w[j].index = j
    <3>1. CASE j <= k - 1
      <4>1. j \in 1..(k - 1) /\ w[j] = l[j]
        BY <2>3, <2>6, <2>8, <3>1
      <4> QED BY <2>4, <4>1 DEF Contiguous
    <3>2. CASE ~(j <= k - 1)
      <4>1. j - (k - 1) \in 1..(n - k + 1) /\ k + (j - (k - 1)) - 1 = j
        BY <1>1, <2>1, <3>2
      <4>2. w[j] = es[j]
        BY <2>7, <2>8, <3>2, <4>1
      <4> QED BY <1>2, <4>2
    <3> QED BY <3>1, <3>2
  <2> QED BY <2>8, <2>9, Zenon DEF Contiguous
<1> QED BY <1>4, <1>5

\* Two majorities share a node.
LEMMA MajoritiesMeet ==
    ASSUME Sizes, NEW Q, IsMajority(Q), NEW R, IsMajority(R)
    PROVE  \E n \in Node : n \in Q /\ n \in R
<1>1. Q \in SUBSET Node /\ R \in SUBSET Node /\ Node \in SUBSET Node
  BY Zenon DEF IsMajority
<1>2. /\ Cardinality(Q) \in Nat /\ Cardinality(R) \in Nat
      /\ Cardinality(Node) \in Nat
  BY <1>1, Zenon DEF Sizes
<1>3. Cardinality(Q) + Cardinality(R) > Cardinality(Node)
  BY <1>2 DEF IsMajority, Majority
<1>4. Q \intersect R # {}
  BY <1>1, <1>3, Zenon DEF Sizes
<1> QED BY <1>1, <1>4, Zenon

\* A log put together from logs that match: its terms are those of one, and
\* every entry is where one has it.
Blend(Src, w) ==
    /\ \E x \in Src : Len(w) = Len(x) /\ \A k \in 1..Len(w) : w[k].term = x[k].term
    /\ \A k \in 1..Len(w) : \E x \in Src : k \in 1..Len(x) /\ w[k] = x[k]

\* Logs put together from logs that match, match.
LEMMA BlendsMatch ==
    ASSUME NEW F \in Nat, NEW Src, \A x \in Src : x \in Seq(Entry),
           \A x, y \in Src : Match(F, x, y),
           NEW v \in Seq(Entry), NEW w \in Seq(Entry), Blend(Src, v), Blend(Src, w)
    PROVE  Match(F, v, w)
<1> SUFFICES ASSUME NEW k \in 1..Len(v), NEW m \in 1..Len(w),
                    v[k].term = w[m].term, w[m].term > F, m <= k
             PROVE  v[m] = w[m] /\ \A j \in 1..m : v[j].term = w[j].term
  BY DEF Match
<1>1. m \in 1..Len(v) /\ Len(v) \in Nat /\ Len(w) \in Nat
  BY LenFacts
<1>2. PICK x \in Src : Len(v) = Len(x) /\ \A n \in 1..Len(v) : v[n].term = x[n].term
  BY Zenon DEF Blend
<1>3. PICK y \in Src : Len(w) = Len(y) /\ \A n \in 1..Len(w) : w[n].term = y[n].term
  BY DEF Blend
<1>4. k \in 1..Len(x) /\ m \in 1..Len(y) /\ x[k].term = y[m].term /\ y[m].term > F
  BY <1>2, <1>3
<1>5. x[m] = y[m] /\ \A j \in 1..m : x[j].term = y[j].term
  BY <1>4 DEF Match
<1>6. \A j \in 1..m : v[j].term = w[j].term
  <2> TAKE j \in 1..m
  <2>1. j \in 1..Len(v) /\ j \in 1..Len(w)
    BY <1>1
  <2> QED BY <1>2, <1>3, <1>5, <2>1
<1>7. v[m].term = w[m].term /\ m \in 1..m
  BY <1>1, <1>6
<1>8. PICK a \in Src : m \in 1..Len(a) /\ v[m] = a[m]
  BY <1>1 DEF Blend
<1>9. PICK b \in Src : m \in 1..Len(b) /\ w[m] = b[m]
  BY Zenon DEF Blend
<1>10. a[m].term = b[m].term /\ b[m].term > F /\ m <= m
  BY <1>7, <1>8, <1>9
<1>11. a[m] = b[m]
  BY <1>8, <1>9, <1>10, Zenon DEF Match
<1> QED BY <1>6, <1>8, <1>9, <1>11

-----------------------------------------------------------------------------
(* HandleAppendEntries at some peers *)

\* What leader i sends: its log, and what it appends under its term.
Sent(i, es) ==
    /\ es \in Seq(Entry) /\ Contiguous(es) /\ Len(log[i]) <= Len(es)
    /\ \A k \in 1..Len(log[i]) : es[k] = log[i][k]
    /\ \A k \in 1..Len(es) : k \notin 1..Len(log[i]) => es[k].term = currentTerm[i]

\* What becomes of log l when es arrives
Took(w, l, es) ==
    /\ Contiguous(w)
    /\ \A k \in 1..Len(es) :
         /\ k \in 1..Len(w) /\ w[k].term = es[k].term
         /\ w[k] = es[k] \/ (k \in 1..Len(l) /\ w[k] = l[k])
    /\ w = l \/ Len(w) = Len(es)

\* What Deliver leaves behind, with es in the log of i and in those of P as
\* HandleAppendEntries took it
Delivered(i, P, es) ==
    /\ i \in leaders /\ i \in Node /\ i \notin P /\ P \subseteq Node
    /\ log' \in [Node -> Seq(Entry)] /\ currentTerm' \in [Node -> Nat]
    /\ log'[i] = es /\ currentTerm'[i] = currentTerm[i]
    /\ \A n \in P : /\ Took(log'[n], log[n], es)
                    /\ currentTerm[n] <= currentTerm[i] /\ currentTerm'[n] = currentTerm[i]
    /\ \A n \in Node \ (P \union {i}) :
         log'[n] = log[n] /\ currentTerm'[n] = currentTerm[n]
    /\ leaders' = leaders \ P
    /\ committed' = committed \union Committable(i, log', currentTerm')

\* The merge of HandleAppendEntries does what Delivered says.
LEMMA DeliverIsDelivered ==
    ASSUME WellOrdered, ClusterTypeOK, LogsInOrder,
           NEW i \in Node, NEW P \in SUBSET Node, NEW es,
           Sent(i, es), Deliver(i, P, es)
    PROVE  Delivered(i, P, es)
<1> DEFINE logs == [q \in Node |-> IF q = i THEN es
                                   ELSE IF q \in P THEN MergeEntries(log[q], es)
                                   ELSE log[q]]
           terms == [q \in Node |-> IF q \in P THEN currentTerm[i] ELSE currentTerm[q]]
<1>1. /\ i \in leaders /\ P \subseteq Reachable(i)
      /\ log' = logs /\ currentTerm' = terms
      /\ leaders' = leaders \ P
      /\ committed' = committed \union Committable(i, log', currentTerm')
  BY DEF Deliver
<1>2. currentTerm \in [Node -> Nat] /\ log \in [Node -> Seq(Entry)]
  BY DEF ClusterTypeOK
<1>3. i \notin P /\ \A n \in P : currentTerm[n] <= currentTerm[i]
  BY <1>1 DEF Reachable
<1>4. es \in Seq(Entry) /\ Contiguous(es)
  BY DEF Sent
<1>5. ASSUME NEW n \in P
      PROVE  log'[n] \in Seq(Entry) /\ Took(log'[n], log[n], es)
  <2>1. n \in Node /\ log'[n] = MergeEntries(log[n], es)
    BY <1>1, <1>3
  <2>2. log[n] \in Seq(Entry) /\ Contiguous(log[n])
    BY <1>2, <2>1 DEF LogsInOrder
  <2> QED BY <1>4, <2>1, <2>2, MergeWhole DEF Took
<1>6. log' \in [Node -> Seq(Entry)]
  <2>1. \A n \in Node : log'[n] \in Seq(Entry)
    BY <1>1, <1>2, <1>4, <1>5, Zenon
  <2> QED BY <1>1, <2>1
<1>7. currentTerm' \in [Node -> Nat]
  BY <1>1, <1>2
<1>8. log'[i] = es /\ currentTerm'[i] = currentTerm[i]
  BY <1>1, <1>3
<1>9. \A n \in P : currentTerm'[n] = currentTerm[i]
  BY <1>1
<1>10. \A n \in Node \ (P \union {i}) :
         log'[n] = log[n] /\ currentTerm'[n] = currentTerm[n]
  BY <1>1
<1> QED BY <1>1, <1>3, <1>5, <1>6, <1>7, <1>8, <1>9, <1>10, Zenon
        DEF Delivered

\* An entry of a log after the step was at the same place before it, there
\* or at the leader, or the leader has just appended it.
LEMMA Origin ==
    ASSUME ClusterTypeOK, NEW i, NEW P, NEW es, Sent(i, es), Delivered(i, P, es),
           NEW n \in Node, NEW k \in 1..Len(log'[n])
    PROVE  \/ k \in 1..Len(log[n]) /\ log'[n][k] = log[n][k]
           \/ k \in 1..Len(log[i]) /\ log'[n][k] = log[i][k]
           \/ /\ k \in 1..Len(es) /\ k \notin 1..Len(log[i])
              /\ log'[n][k] = es[k] /\ es[k].term = currentTerm[i]
<1>1. ASSUME k \in 1..Len(es), log'[n][k] = es[k]
      PROVE  \/ k \in 1..Len(log[i]) /\ log'[n][k] = log[i][k]
             \/ /\ k \in 1..Len(es) /\ k \notin 1..Len(log[i])
                /\ log'[n][k] = es[k] /\ es[k].term = currentTerm[i]
  BY <1>1 DEF Sent
<1>2. CASE n = i
  BY <1>1, <1>2 DEF Delivered
<1>3. CASE n \in P
  <2>1. Took(log'[n], log[n], es)
    BY <1>3 DEF Delivered
  <2>2. CASE log'[n] = log[n]
    BY <2>2
  <2>3. CASE Len(log'[n]) = Len(es)
    BY <1>1, <2>1, <2>3 DEF Took
  <2> QED BY <2>1, <2>2, <2>3 DEF Took
<1>4. CASE n \notin P /\ n # i
  BY <1>4 DEF Delivered
<1> QED BY <1>2, <1>3, <1>4

\* Terms only grow, so what a majority has reached stays reached.
LEMMA ReachedStays ==
    ASSUME NEW t \in Nat, Reached(t), currentTerm \in [Node -> Nat],
           currentTerm' \in [Node -> Nat],
           \A n \in Node : currentTerm'[n] >= currentTerm[n]
    PROVE  Reached(t)'
<1>1. PICK Q : IsMajority(Q) /\ \A q \in Q : currentTerm[q] >= t
  BY DEF Reached
<1>2. \A q \in Q : currentTerm'[q] >= t
  <2> TAKE q \in Q
  <2>1. q \in Node
    BY <1>1 DEF IsMajority
  <2>2. currentTerm[q] >= t /\ currentTerm'[q] >= currentTerm[q]
    BY <1>1, <2>1
  <2> QED BY <2>1, <2>2
<1> QED BY <1>1, <1>2 DEF Reached

\* A heartbeat or a write raises terms and ends leaderships, and no more.
LEMMA DeliveredTerms ==
    ASSUME ClusterTypeOK, NEW i, NEW P, NEW es, Delivered(i, P, es)
    PROVE  /\ \A n \in Node : currentTerm'[n] >= currentTerm[n]
           /\ \A j \in leaders' : j \in leaders /\ j \in Node /\ j \notin P
                                  /\ currentTerm'[j] = currentTerm[j]
<1>1. currentTerm \in [Node -> Nat] /\ leaders \subseteq Node
  BY DEF ClusterTypeOK
<1>2. ASSUME NEW n \in Node PROVE currentTerm'[n] >= currentTerm[n]
  <2>1. currentTerm[n] \in Nat /\ currentTerm[i] \in Nat
    BY <1>1 DEF Delivered
  <2>2. CASE n = i \/ n \notin P
    <3>1. currentTerm'[n] = currentTerm[n]
      BY <2>2 DEF Delivered
    <3> QED BY <2>1, <3>1
  <2>3. CASE n \in P
    <3>1. currentTerm'[n] = currentTerm[i] /\ currentTerm[n] <= currentTerm[i]
      BY <2>3 DEF Delivered
    <3> QED BY <2>1, <3>1
  <2> QED BY <2>2, <2>3
<1>3. ASSUME NEW j \in leaders'
      PROVE  j \in leaders /\ j \in Node /\ j \notin P /\ currentTerm'[j] = currentTerm[j]
  BY <1>1 DEF Delivered
<1> QED BY <1>2, <1>3

\* The logs stay in order when they take entries.
LEMMA DeliveredInOrder ==
    ASSUME ClusterInv, NEW i, NEW P, NEW es, Sent(i, es), Delivered(i, P, es)
    PROVE  LogsInOrder'
<1>1. /\ currentTerm \in [Node -> Nat] /\ log \in [Node -> Seq(Entry)]
      /\ i \in leaders /\ i \in Node /\ currentTerm[i] >= 1
  BY DEF ClusterInv, ClusterTypeOK, Delivered, LeaderTermsReached
<1>2. \A n \in Node :
         /\ \A k \in 1..Len(log[n]) : log[n][k].term \in 1..currentTerm[n]
         /\ \A k, m \in 1..Len(log[n]) : k <= m => log[n][k].term <= log[n][m].term
  BY DEF ClusterInv, LogsInOrder
<1>3. Len(log[i]) \in Nat /\ Len(es) \in Nat /\ Len(log[i]) <= Len(es)
  BY <1>1 DEF Sent
<1>4. \A k \in 1..Len(es) : es[k].term \in 1..currentTerm[i]
  BY <1>1, <1>2 DEF Sent
<1>5. ASSUME NEW k \in 1..Len(es), NEW m \in 1..Len(es), k <= m
      PROVE  es[k].term <= es[m].term
  <2>1. CASE m \in 1..Len(log[i])
    <3>1. k \in 1..Len(log[i])
      BY <1>3, <1>5, <2>1
    <3> QED BY <1>1, <1>2, <1>5, <2>1, <3>1 DEF Sent
  <2>2. CASE m \notin 1..Len(log[i])
    <3>1. es[m].term = currentTerm[i]
      BY <2>2 DEF Sent
    <3> QED BY <1>1, <1>4, <3>1
  <2> QED BY <2>1, <2>2
<1>6. ASSUME NEW n \in Node
      PROVE  /\ Contiguous(log'[n])
             /\ \A k \in 1..Len(log'[n]) : log'[n][k].term \in 1..currentTerm'[n]
             /\ \A k, m \in 1..Len(log'[n]) : k <= m => log'[n][k].term <= log'[n][m].term
  <2>1. CASE n = i
    <3>1. log'[n] = es /\ currentTerm'[n] = currentTerm[i] /\ Contiguous(es)
      BY <2>1 DEF Delivered, Sent
    <3> QED BY <1>4, <1>5, <3>1
  <2>2. CASE n \in P
    <3>1. /\ Took(log'[n], log[n], es) /\ currentTerm[n] <= currentTerm[i]
          /\ currentTerm'[n] = currentTerm[i]
      BY <2>2 DEF Delivered
    <3>2. CASE log'[n] = log[n]
      <4>1. \A k \in 1..Len(log[n]) : log[n][k].term \in 1..currentTerm[i]
        BY <1>1, <1>2, <3>1
      <4> QED BY <1>2, <3>1, <3>2, <4>1, Zenon DEF Took
    <3>3. CASE Len(log'[n]) = Len(es)
      <4>1. \A k \in 1..Len(log'[n]) : log'[n][k].term = es[k].term
        BY <3>1, <3>3 DEF Took
      <4> QED BY <1>4, <1>5, <3>1, <3>3, <4>1 DEF Took
    <3> QED BY <3>1, <3>2, <3>3 DEF Took
  <2>3. CASE n \notin P /\ n # i
    <3>1. log'[n] = log[n] /\ currentTerm'[n] = currentTerm[n]
      BY <2>3 DEF Delivered
    <3> QED BY <1>2, <3>1 DEF ClusterInv, LogsInOrder
  <2> QED BY <2>1, <2>2, <2>3
<1> QED BY <1>6 DEF LogsInOrder

\* Taking entries keeps the majorities of the terms, and the one leader of each.
LEMMA DeliveredReached ==
    ASSUME ClusterInv, NEW i, NEW P, NEW es, Sent(i, es), Delivered(i, P, es),
           forgotten' = forgotten
    PROVE  LeaderTermsReached' /\ EntryTermsReached' /\ OneLeaderUnlessForgotten'
<1> USE DEF ClusterInv
<1>1. /\ currentTerm \in [Node -> Nat] /\ log \in [Node -> Seq(Entry)]
      /\ currentTerm' \in [Node -> Nat] /\ i \in leaders /\ i \in Node
  BY DEF ClusterTypeOK, Delivered
<1>2. \A n \in Node : currentTerm'[n] >= currentTerm[n]
  BY DeliveredTerms
<1>3. \A j \in leaders' : j \in leaders /\ j \in Node /\ currentTerm'[j] = currentTerm[j]
  BY DeliveredTerms
<1>4. \A t \in Nat : Reached(t) => Reached(t)'
  BY <1>1, <1>2, ReachedStays
<1>5. LeaderTermsReached'
  <2> SUFFICES ASSUME NEW j \in leaders'
               PROVE  /\ currentTerm'[j] >= 1
                      /\ currentTerm'[j] > forgotten'.term => Reached(currentTerm[j])'
    BY <1>3 DEF LeaderTermsReached
  <2>1. PICK t \in Nat : t = currentTerm[j]
    BY <1>1, <1>3
  <2>2. t >= 1 /\ (t > forgotten.term => Reached(t))
    BY <1>3, <2>1 DEF LeaderTermsReached
  <2>3. currentTerm'[j] = t
    BY <1>3, <2>1
  <2>4. t > forgotten.term => Reached(t)'
    BY <1>4, <2>2
  <2>5. Reached(t)' => Reached(currentTerm[j])'
    BY <2>3 DEF Reached
  <2> QED BY <2>2, <2>3, <2>4, <2>5
<1>6. EntryTermsReached'
  <2> SUFFICES ASSUME NEW n \in Node, NEW k \in 1..Len(log'[n]),
                      log'[n][k].term > forgotten.term
               PROVE  Reached(log[n][k].term)'
    BY DEF EntryTermsReached
  <2>1. PICK t : t = log'[n][k].term
    OBVIOUS
  <2>2. t \in Nat /\ Reached(t)
    <3>1. CASE k \in 1..Len(log[n]) /\ log'[n][k] = log[n][k]
      <4>1. log[n][k] \in Entry
        BY <1>1, <3>1
      <4> QED BY <2>1, <3>1, <4>1 DEF EntryTermsReached, Entry
    <3>2. CASE k \in 1..Len(log[i]) /\ log'[n][k] = log[i][k]
      <4>1. log[i][k] \in Entry
        BY <1>1, <3>2
      <4> QED BY <1>1, <2>1, <3>2, <4>1, Zenon DEF EntryTermsReached, Entry
    <3>3. CASE log'[n][k] = es[k] /\ es[k].term = currentTerm[i]
      BY <1>1, <2>1, <3>3, Zenon DEF LeaderTermsReached
    <3> QED BY <3>1, <3>2, <3>3, Origin
  <2>3. Reached(t)'
    BY <1>4, <2>2
  <2> QED BY <2>1, <2>3 DEF Reached
<1>7. OneLeaderUnlessForgotten'
  BY <1>3 DEF OneLeaderUnlessForgotten
<1> QED BY <1>5, <1>6, <1>7

\* What there is of a leader's term still came from its log.
LEMMA DeliveredLeaders ==
    ASSUME ClusterInv, NEW i, NEW P, NEW es, Sent(i, es), Delivered(i, P, es),
           forgotten' = forgotten
    PROVE  LeaderHasItsTerm'
<1> USE DEF ClusterInv
<1> SUFFICES ASSUME NEW j \in leaders', NEW n \in Node, NEW k \in 1..Len(log'[n]),
                    log'[n][k].term = currentTerm'[j], currentTerm'[j] > forgotten.term
             PROVE  HasEntry(log'[j], k) /\ log'[j][k] = log'[n][k]
  BY DEF LeaderHasItsTerm
<1>1. /\ currentTerm \in [Node -> Nat] /\ log \in [Node -> Seq(Entry)]
      /\ i \in leaders /\ i \in Node
  BY Zenon DEF ClusterTypeOK, Delivered
<1>2. j \in leaders /\ j \in Node /\ j \notin P /\ currentTerm'[j] = currentTerm[j]
  BY DeliveredTerms
<1>3. ASSUME HasEntry(log[j], k) /\ log[j][k] = log'[n][k]
      PROVE  HasEntry(log'[j], k) /\ log'[j][k] = log'[n][k]
  <2>1. CASE j = i
    <3>1. log'[j] = es /\ k \in 1..Len(log[i])
      BY <1>3, <2>1 DEF Delivered, HasEntry
    <3>2. k \in 1..Len(es) /\ es[k] = log[i][k]
      BY <1>1, <3>1, LenFacts DEF Sent
    <3> QED BY <1>3, <2>1, <3>1, <3>2 DEF HasEntry
  <2>2. CASE j # i
    <3>1. log'[j] = log[j]
      BY <1>2, <2>2 DEF Delivered
    <3> QED BY <1>3, <3>1
  <2> QED BY <2>1, <2>2
<1>4. CASE k \in 1..Len(log[n]) /\ log'[n][k] = log[n][k]
  <2>1. HasEntry(log[j], k) /\ log[j][k] = log[n][k]
    BY <1>2, <1>4 DEF LeaderHasItsTerm
  <2> QED BY <1>3, <1>4, <2>1
<1>5. CASE k \in 1..Len(log[i]) /\ log'[n][k] = log[i][k]
  <2>1. HasEntry(log[j], k) /\ log[j][k] = log[i][k]
    <3>1. log[i][k].term = currentTerm[j] /\ currentTerm[j] > forgotten.term
      BY <1>2, <1>5
    <3> QED BY <1>1, <1>2, <1>5, <3>1, Zenon DEF LeaderHasItsTerm
  <2> QED BY <1>3, <1>5, <2>1
<1>6. CASE k \in 1..Len(es) /\ log'[n][k] = es[k] /\ es[k].term = currentTerm[i]
  <2>1. currentTerm[i] = currentTerm[j] /\ ~(forgotten.term >= currentTerm[i])
    <3>1. currentTerm[i] \in Nat /\ forgotten.term \in Nat
      BY <1>1 DEF ClusterTypeOK
    <3> QED BY <1>2, <1>6, <3>1
  <2>2. j = i
    BY <1>1, <1>2, <2>1, Zenon DEF OneLeaderUnlessForgotten
  <2>3. log'[j] = es
    BY <2>2 DEF Delivered
  <2> QED BY <1>6, <2>3 DEF HasEntry
<1> QED BY <1>4, <1>5, <1>6, Origin

\* The leader's log with what it appends matches every log there is.
LEMMA SentMatches ==
    ASSUME ClusterInv, NEW i \in leaders, NEW es, Sent(i, es), NEW n \in Node
    PROVE  /\ Match(forgotten.term, es, log[n])
           /\ Match(forgotten.term, log[n], es)
           /\ Match(forgotten.term, es, es)
<1> USE DEF ClusterInv
<1> DEFINE F == forgotten.term
<1>1. /\ i \in Node /\ log[i] \in Seq(Entry) /\ log[n] \in Seq(Entry)
      /\ es \in Seq(Entry) /\ F \in Nat
  BY DEF ClusterTypeOK, Sent
<1>2. /\ Len(log[i]) \in Nat /\ Len(es) \in Nat /\ Len(log[i]) <= Len(es)
      /\ Len(log[n]) \in Nat
  BY <1>1 DEF Sent
<1>3. \A k \in 1..Len(log[i]) : k \in 1..Len(es) /\ es[k] = log[i][k]
  BY <1>2 DEF Sent
<1>4. /\ Match(F, log[i], log[n]) /\ Match(F, log[n], log[i])
  BY <1>1 DEF TermsMatch
<1> HIDE DEF F
<1>5. ASSUME NEW k \in 1..Len(log[n]), log[n][k].term = currentTerm[i],
             currentTerm[i] > F
      PROVE  k \in 1..Len(log[i]) /\ log[i][k] = log[n][k]
  BY <1>5 DEF LeaderHasItsTerm, HasEntry, F
<1>6. ASSUME NEW k \in 1..Len(es), NEW m \in 1..Len(log[n]),
             es[k].term = log[n][m].term, log[n][m].term > F, m <= k
      PROVE  es[m] = log[n][m] /\ \A j \in 1..m : es[j].term = log[n][j].term
  <2>1. /\ m \in 1..Len(log[i]) /\ log[i][m] = log[n][m]
        /\ \A j \in 1..m : log[i][j].term = log[n][j].term
    <3>1. CASE k \in 1..Len(log[i])
      <4>1. m \in 1..Len(log[i]) /\ log[i][k].term = log[n][m].term
        BY <1>2, <1>3, <1>6, <3>1
      <4> QED BY <1>4, <1>6, <3>1, <4>1 DEF Match
    <3>2. CASE k \notin 1..Len(log[i])
      <4>1. log[n][m].term = currentTerm[i]
        BY <1>6, <3>2 DEF Sent
      <4>2. m \in 1..Len(log[i]) /\ log[i][m] = log[n][m]
        BY <1>5, <1>6, <4>1
      <4>3. log[i][m].term = log[n][m].term /\ m <= m
        BY <4>2
      <4> QED BY <1>4, <1>6, <4>2, <4>3 DEF Match
    <3> QED BY <3>1, <3>2
  <2>2. \A j \in 1..m : j \in 1..Len(log[i])
    BY <1>2, <2>1
  <2> QED BY <1>3, <2>1, <2>2
<1>7. ASSUME NEW k \in 1..Len(log[n]), NEW m \in 1..Len(es),
             log[n][k].term = es[m].term, es[m].term > F, m <= k
      PROVE  log[n][m] = es[m] /\ \A j \in 1..m : log[n][j].term = es[j].term
  <2>1. m \in 1..Len(log[i])
    <3> SUFFICES ASSUME m \notin 1..Len(log[i]) PROVE FALSE
      OBVIOUS
    <3>1. es[m].term = currentTerm[i]
      BY DEF Sent
    <3>2. k \in 1..Len(log[i])
      BY <1>5, <1>7, <3>1
    <3> QED BY <1>2, <1>7, <3>2
  <2>2. log[n][k].term = log[i][m].term /\ log[i][m].term > F
    BY <1>3, <1>7, <2>1
  <2>3. log[n][m] = log[i][m] /\ \A j \in 1..m : log[n][j].term = log[i][j].term
    BY <1>4, <1>7, <2>1, <2>2 DEF Match
  <2>4. \A j \in 1..m : j \in 1..Len(log[i])
    BY <1>2, <2>1
  <2> QED BY <1>3, <2>1, <2>3, <2>4
<1>8. Match(F, es, log[n])
  BY <1>6 DEF Match
<1>9. Match(F, log[n], es)
  BY <1>7 DEF Match
<1>10. Match(F, es, es)
  BY DEF Match
<1> QED BY <1>8, <1>9, <1>10 DEF F

\* Logs that take what a leader sends still match.
LEMMA DeliveredMatch ==
    ASSUME ClusterInv, NEW i, NEW P, NEW es, Sent(i, es), Delivered(i, P, es),
           forgotten' = forgotten
    PROVE  TermsMatch'
<1> USE DEF ClusterInv
<1> DEFINE Src == {log[n] : n \in Node} \union {es}
           F == forgotten.term
<1>1. /\ log \in [Node -> Seq(Entry)] /\ log' \in [Node -> Seq(Entry)]
      /\ es \in Seq(Entry) /\ F \in Nat /\ i \in leaders /\ i \in Node
  BY DEF ClusterTypeOK, Delivered, Sent
<1>2. \A x \in Src : x \in Seq(Entry)
  BY <1>1
<1>3. \A n \in Node : /\ Match(F, es, log[n]) /\ Match(F, log[n], es)
                      /\ Match(F, es, es)
  BY <1>1, SentMatches
<1>4. \A a, b \in Node : Match(F, log[a], log[b])
  BY DEF TermsMatch
<1> HIDE DEF F
<1>5. \A x, y \in Src : Match(F, x, y)
  BY <1>1, <1>3, <1>4
<1>6. ASSUME NEW n \in Node PROVE Blend(Src, log'[n])
  <2>1. log[n] \in Src /\ es \in Src
    OBVIOUS
  <2> HIDE DEF Src
  <2>2. ASSUME log'[n] \in Src PROVE Blend(Src, log'[n])
    BY <2>2 DEF Blend
  <2>3. CASE n \in P
    <3>1. Took(log'[n], log[n], es)
      BY <2>3 DEF Delivered
    <3>2. CASE Len(log'[n]) = Len(es)
      <4>1. \A k \in 1..Len(log'[n]) :
              /\ log'[n][k].term = es[k].term /\ k \in 1..Len(es)
              /\ log'[n][k] = es[k] \/ (k \in 1..Len(log[n]) /\ log'[n][k] = log[n][k])
        BY <3>1, <3>2 DEF Took
      <4>2. \A k \in 1..Len(log'[n]) : \E x \in Src : k \in 1..Len(x) /\ log'[n][k] = x[k]
        BY <2>1, <4>1
      <4> QED BY <2>1, <3>2, <4>1, <4>2 DEF Blend
    <3> QED BY <2>1, <2>2, <3>1, <3>2 DEF Took
  <2>4. CASE n \notin P
    BY <2>1, <2>2, <2>4, Zenon DEF Delivered
  <2> QED BY <2>3, <2>4
<1> HIDE DEF Src
<1>7. ASSUME NEW a \in Node, NEW b \in Node
      PROVE  Match(F, log'[a], log'[b])
  BY <1>1, <1>2, <1>5, <1>6, BlendsMatch, Zenon
<1> QED BY <1>7 DEF TermsMatch, F

\* What the leader commits in this step is on a majority that is in its term
\* now, so nobody has been elected, or has appended, in a later one.
LEMMA NewlyCommitted ==
    ASSUME ClusterInv, NEW i, NEW P, NEW es, Sent(i, es), Delivered(i, P, es),
           forgotten' = forgotten, LogsInOrder', LeaderTermsReached',
           EntryTermsReached', OneLeaderUnlessForgotten', TermsMatch',
           NEW e \in Committable(i, log', currentTerm'), Kept(e)
    PROVE  /\ e \in Entry
           /\ OnQuorum(e)'
           /\ \A n \in Node : \A k \in 1..Len(log'[n]) : ~(log'[n][k].term > e.term)
           /\ \A j \in leaders' : currentTerm'[j] >= e.term => Holds(j, e)'
<1> DEFINE F == forgotten.term
<1>1. /\ currentTerm \in [Node -> Nat] /\ log' \in [Node -> Seq(Entry)] /\ F \in Nat
      /\ currentTerm' \in [Node -> Nat] /\ i \in leaders /\ i \in Node /\ i \notin P
      /\ currentTerm'[i] = currentTerm[i] /\ leaders' = leaders \ P /\ leaders \subseteq Node
  BY DEF ClusterInv, ClusterTypeOK, Delivered
<1>2. PICK m \in DOMAIN log'[i] :
        /\ e = log'[i][m] /\ log'[i][m].term = currentTerm[i]
        /\ Cardinality({q \in Node : /\ TermAt(log'[q], m) = currentTerm[i]
                                     /\ currentTerm'[q] = currentTerm[i]}) >= Majority
  BY DEF Committable
<1>3. m \in 1..Len(log'[i]) /\ e \in Entry /\ e.index = m
  <2>1. log'[i] \in Seq(Entry) /\ Contiguous(log'[i])
    BY <1>1 DEF LogsInOrder
  <2>2. m \in 1..Len(log'[i])
    BY <1>2, <2>1
  <2> QED BY <1>2, <2>1, <2>2 DEF Contiguous
<1>4. PICK t \in Nat : t = currentTerm[i] /\ t = e.term /\ t > F
  BY <1>1, <1>2, <1>3 DEF Kept, Entry
<1>5. PICK Q : IsMajority(Q) /\ \A q \in Q : TermAt(log'[q], m) = t /\ currentTerm'[q] = t
  <2>1. IsMajority({q \in Node : /\ TermAt(log'[q], m) = currentTerm[i]
                                 /\ currentTerm'[q] = currentTerm[i]})
    BY <1>2, Zenon DEF IsMajority
  <2> QED BY <1>4, <2>1
<1>6. ASSUME NEW q \in Q PROVE currentTerm'[q] >= e.term /\ Holds(q, e)'
  <2>1. q \in Node /\ currentTerm'[q] = t
    BY <1>5, Zenon DEF IsMajority
  <2>2. m \in 1..Len(log'[q]) /\ log'[q][m].term = t
    BY <1>1, <1>4, <1>5 DEF TermAt, HasEntry
  <2>3. Match(F, log'[q], log'[i])
    BY <1>1, <2>1 DEF TermsMatch
  <2>4. log'[i][m].term = t /\ m <= m
    BY <1>2, <1>3, <1>4
  <2>5. log'[q][m] = log'[i][m]
    BY <1>3, <1>4, <2>2, <2>3, <2>4, Zenon DEF Match
  <2> QED BY <1>1, <1>2, <1>3, <1>4, <2>1, <2>2, <2>5 DEF Holds, HasEntry
<1>7. OnQuorum(e)'
  BY <1>5, <1>6 DEF OnQuorum
<1>8. ASSUME NEW u \in Nat, u > t, Reached(u)' PROVE FALSE
  <2>1. PICK R : IsMajority(R) /\ \A q \in R : currentTerm'[q] >= u
    BY <1>8 DEF Reached
  <2>2. PICK n \in Node : n \in Q /\ n \in R
    BY <1>5, <2>1, MajoritiesMeet DEF ClusterInv
  <2> QED BY <1>4, <1>5, <1>8, <2>1, <2>2
<1>9. ASSUME NEW n \in Node, NEW k \in 1..Len(log'[n]), log'[n][k].term > e.term
      PROVE  FALSE
  <2>1. PICK u \in Nat : u = log'[n][k].term
    <3>1. log'[n][k] \in Entry
      BY <1>1
    <3> QED BY <3>1 DEF Entry
  <2>2. u > t /\ u > F
    BY <1>4, <1>9, <1>1, <2>1
  <2>3. Reached(log[n][k].term)'
    BY <2>1, <2>2 DEF EntryTermsReached, F
  <2>4. Reached(u)'
    BY <2>1, <2>3 DEF Reached
  <2> QED BY <1>8, <2>2, <2>4
<1>10. ASSUME NEW j \in leaders', currentTerm'[j] >= e.term PROVE Holds(j, e)'
  <2>1. j \in Node
    BY <1>1
  <2>2. PICK u \in Nat : u = currentTerm'[j]
    BY <1>1, <2>1
  <2>3. ~(u > t)
    <3> SUFFICES ASSUME u > t PROVE FALSE
      OBVIOUS
    <3>1. u > F
      BY <1>1, <1>4
    <3>2. Reached(currentTerm[j])'
      BY <2>2, <3>1 DEF LeaderTermsReached, F
    <3>3. Reached(u)'
      BY <2>2, <3>2 DEF Reached
    <3> QED BY <1>8, <3>3
  <2>4. currentTerm'[j] = currentTerm'[i] /\ ~(F >= currentTerm'[i]) /\ i \in leaders'
    BY <1>1, <1>4, <1>10, <2>2, <2>3
  <2>5. j = i
    BY <2>4 DEF OneLeaderUnlessForgotten, F
  <2> QED BY <1>2, <1>3, <2>5 DEF Holds, HasEntry
<1> QED BY <1>3, <1>7, <1>9, <1>10

\* A node that has an entry, and takes what a leader sends that has it too,
\* has it afterwards; and so has the leader.
LEMMA StillHeld ==
    ASSUME ClusterTypeOK, NEW i, NEW P, NEW es, Sent(i, es), Delivered(i, P, es),
           NEW e, NEW n \in Node, Holds(n, e), n \in P => Holds(i, e)
    PROVE  Holds(n, e)'
<1>1. log \in [Node -> Seq(Entry)] /\ i \in Node /\ Len(log[i]) \in Nat /\ Len(es) \in Nat
  BY DEF ClusterTypeOK, Delivered, Sent
<1>2. e.index \in 1..Len(log[n]) /\ log[n][e.index] = e
  BY DEF Holds, HasEntry
<1>3. ASSUME Holds(i, e) PROVE e.index \in 1..Len(es) /\ es[e.index] = e
  BY <1>1, <1>3 DEF Holds, HasEntry, Sent
<1>4. CASE n = i
  <2>1. log'[n] = es
    BY <1>4 DEF Delivered
  <2> QED BY <1>3, <1>4, <2>1 DEF Holds, HasEntry
<1>5. CASE n \in P
  <2>1. Took(log'[n], log[n], es)
    BY <1>5 DEF Delivered
  <2>2. e.index \in 1..Len(log'[n]) /\ log'[n][e.index] = e
    BY <1>2, <1>3, <1>5, <2>1 DEF Took
  <2> QED BY <2>2 DEF Holds, HasEntry
<1>6. CASE n \notin P /\ n # i
  <2>1. log'[n] = log[n]
    BY <1>6 DEF Delivered
  <2> QED BY <1>2, <2>1 DEF Holds, HasEntry
<1> QED BY <1>4, <1>5, <1>6, Zenon

\* A peer that takes what a leader sends has the leader's entries of the terms
\* no restart has touched.
LEMMA TakesEntry ==
    ASSUME ClusterInv, NEW i, NEW P, NEW es, Sent(i, es), Delivered(i, P, es),
           NEW e \in Entry, e.term > forgotten.term, Holds(i, e), NEW n \in P
    PROVE  Holds(n, e)'
<1> DEFINE m == e.index
<1>1. /\ log \in [Node -> Seq(Entry)] /\ i \in Node /\ n \in Node
      /\ Len(log[i]) \in Nat /\ Len(es) \in Nat
  BY DEF ClusterInv, ClusterTypeOK, Delivered, Sent
<1>2. m \in 1..Len(log[i]) /\ log[i][m] = e
  BY Zenon DEF Holds, HasEntry
<1>3. m \in 1..Len(es) /\ es[m] = e
  BY <1>1, <1>2 DEF Sent
<1>4. Took(log'[n], log[n], es)
  BY Zenon DEF Delivered
<1>5. /\ m \in 1..Len(log'[n]) /\ log'[n][m].term = e.term
      /\ log'[n][m] = e \/ (m \in 1..Len(log[n]) /\ log'[n][m] = log[n][m])
  BY <1>3, <1>4 DEF Took
<1>6. ASSUME m \in 1..Len(log[n]), log'[n][m] = log[n][m] PROVE log'[n][m] = e
  <2>1. Match(forgotten.term, log[n], log[i])
    BY <1>1 DEF ClusterInv, TermsMatch
  <2>2. log[n][m].term = log[i][m].term /\ log[i][m].term > forgotten.term /\ m <= m
    BY <1>2, <1>5, <1>6
  <2>3. log[n][m] = log[i][m]
    BY <1>2, <1>6, <2>1, <2>2, Zenon DEF Match
  <2> QED BY <1>2, <1>6, <2>3
<1> QED BY <1>5, <1>6, Zenon DEF Holds, HasEntry

\* What is committed, before or by this step, is held by whoever must hold it.
LEMMA DeliveredHeld ==
    ASSUME ClusterInv, NEW i, NEW P, NEW es, Sent(i, es), Delivered(i, P, es),
           forgotten' = forgotten, LogsInOrder', LeaderTermsReached',
           EntryTermsReached', OneLeaderUnlessForgotten', TermsMatch'
    PROVE  CommittedHeld'
<1>1. /\ currentTerm \in [Node -> Nat] /\ log \in [Node -> Seq(Entry)]
      /\ currentTerm' \in [Node -> Nat] /\ i \in leaders /\ i \in Node
      /\ P \subseteq Node /\ \A p \in P : currentTerm[p] <= currentTerm[i]
      /\ committed \subseteq Entry
  BY Zenon DEF ClusterInv, ClusterTypeOK, Delivered
<1>2. /\ \A n \in Node : currentTerm'[n] >= currentTerm[n]
      /\ \A j \in leaders' : j \in leaders /\ j \in Node /\ j \notin P
                             /\ currentTerm'[j] = currentTerm[j]
  BY DeliveredTerms DEF ClusterInv
<1>3. \A n \in Node : \A k \in 1..Len(log[n]) : log[n][k].term \in 1..currentTerm[n]
  BY DEF ClusterInv, LogsInOrder
<1>4. ASSUME NEW e \in committed, Kept(e)
      PROVE  /\ OnQuorum(e)'
             /\ \A n \in Node : \A k \in 1..Len(log'[n]) :
                  log'[n][k].term > e.term => Holds(n, e)'
             /\ \A j \in leaders' : currentTerm'[j] >= e.term => Holds(j, e)'
  <2>1. /\ OnQuorum(e)
        /\ \A n \in Node : \A k \in 1..Len(log[n]) : log[n][k].term > e.term => Holds(n, e)
        /\ \A j \in leaders : currentTerm[j] >= e.term => Holds(j, e)
    BY <1>4 DEF ClusterInv, CommittedHeld
  <2>2. e \in Entry /\ e.term \in Nat /\ e.term > forgotten.term
    <3>1. e \in Entry /\ forgotten.term < e.term /\ forgotten.term \in Nat
      BY <1>1, <1>4, Zenon DEF Kept, ClusterInv, ClusterTypeOK
    <3> QED BY <3>1 DEF Entry
  <2>3. ASSUME NEW n \in P, currentTerm[n] >= e.term PROVE Holds(i, e)
    <3>1. currentTerm[i] >= e.term
      BY <1>1, <2>2, <2>3
    <3> QED BY <1>1, <2>1, <3>1
  <2>4. ASSUME NEW n \in Node, Holds(n, e), currentTerm[n] >= e.term PROVE Holds(n, e)'
    <3>1. n \in P => Holds(i, e)
      BY <2>3, <2>4
    <3> QED BY <2>4, <3>1, StillHeld DEF ClusterInv
  <2>5. OnQuorum(e)'
    <3>1. PICK Q : IsMajority(Q) /\ \A q \in Q : currentTerm[q] >= e.term /\ Holds(q, e)
      BY <2>1 DEF OnQuorum
    <3>2. ASSUME NEW q \in Q PROVE currentTerm'[q] >= e.term /\ Holds(q, e)'
      <4>1. q \in Node
        BY <3>1 DEF IsMajority
      <4> QED BY <1>1, <1>2, <2>2, <2>4, <3>1, <4>1
    <3> QED BY <3>1, <3>2, Zenon DEF OnQuorum
  <2>6. ASSUME NEW n \in Node, NEW k \in 1..Len(log'[n]), log'[n][k].term > e.term
        PROVE  Holds(n, e)'
    <3>1. ASSUME k \in 1..Len(log[n]), log'[n][k] = log[n][k]
          PROVE  Holds(n, e)'
      <4>1. Holds(n, e) /\ log[n][k].term \in 1..currentTerm[n]
        BY <1>3, <2>1, <2>6, <3>1, Zenon
      <4>2. currentTerm[n] >= e.term
        BY <1>1, <2>2, <2>6, <3>1, <4>1
      <4> QED BY <2>4, <4>1, <4>2, Zenon
    <3>2. ASSUME Holds(i, e), n \in P \/ n = i PROVE Holds(n, e)'
      <4>1. CASE n \in P
        BY <2>2, <3>2, <4>1, TakesEntry
      <4>2. CASE n = i /\ n \notin P
        BY <3>2, <4>2, StillHeld DEF ClusterInv
      <4> QED BY <3>2, <4>1, <4>2
    <3>3. CASE n \notin P /\ n # i
      <4>1. log'[n] = log[n]
        BY <3>3, Zenon DEF Delivered
      <4> QED BY <3>1, <4>1, Zenon
    <3>4. CASE n \in P \/ n = i
      <4>1. CASE k \in 1..Len(log[i]) /\ log'[n][k] = log[i][k]
        BY <1>1, <2>1, <2>6, <3>2, <3>4, <4>1, Zenon
      <4>2. CASE log'[n][k].term = currentTerm[i]
        <5>1. currentTerm[i] >= e.term
          BY <1>1, <2>2, <2>6, <4>2
        <5> QED BY <1>1, <2>1, <3>2, <3>4, <5>1, Zenon
      <4> QED BY <3>1, <4>1, <4>2, Origin DEF ClusterInv
    <3> QED BY <3>3, <3>4
  <2>7. ASSUME NEW j \in leaders', currentTerm'[j] >= e.term PROVE Holds(j, e)'
    <3>1. j \in leaders /\ j \in Node /\ currentTerm[j] >= e.term
      BY <1>2, <2>7, Zenon
    <3> QED BY <2>1, <2>4, <3>1
  <2> QED BY <2>5, <2>6, <2>7
<1>5. ASSUME NEW e \in committed', Kept(e)'
      PROVE  /\ OnQuorum(e)'
             /\ \A n \in Node : \A k \in 1..Len(log'[n]) :
                  log'[n][k].term > e.term => Holds(n, e)'
             /\ \A j \in leaders' : currentTerm'[j] >= e.term => Holds(j, e)'
  <2>1. Kept(e)
    BY <1>5 DEF Kept
  <2>2. CASE e \in committed
    BY <1>4, <2>1, <2>2, Zenon
  <2>3. CASE e \in Committable(i, log', currentTerm')
    BY <2>1, <2>3, NewlyCommitted, Zenon
  <2> QED BY <2>2, <2>3, Zenon DEF Delivered
<1> QED BY <1>5, Zenon DEF CommittedHeld

-----------------------------------------------------------------------------
(* The other steps *)

\* The highest of the terms of some nodes is the term of one of them.
LEMMA HighestTerm ==
    ASSUME Highest, NEW f \in [Node -> Nat], NEW Q \in SUBSET Node, Q # {}
    PROVE  /\ Max({f[q] : q \in Q}) \in Nat
           /\ \A q \in Q : Max({f[q2] : q2 \in Q}) >= f[q]
<1> DEFINE S == {f[q] : q \in Q}
<1>1. \A q \in Q : f[q] \in Nat
  OBVIOUS
<1>2. \E x \in S : \A y \in S : x >= y
  <2>1. PICK q \in Q : \A r \in Q : f[q] >= f[r]
    BY Zenon DEF Highest
  <2>2. f[q] \in S
    OBVIOUS
  <2> QED BY <2>1, <2>2
<1> HIDE DEF S
<1>3. Max(S) \in S /\ \A y \in S : Max(S) >= y
  BY <1>2, Zenon DEF Max
<1> QED BY <1>1, <1>3 DEF S

\* A step that touches no log and takes no node back keeps what does not
\* speak of leaders.
LEMMA QuietStep ==
    ASSUME ClusterInv, log' = log, committed' = committed, forgotten' = forgotten,
           currentTerm' \in [Node -> Nat],
           \A n \in Node : currentTerm'[n] >= currentTerm[n]
    PROVE  /\ LogsInOrder' /\ EntryTermsReached' /\ TermsMatch'
           /\ \A e \in committed : Kept(e) =>
                /\ OnQuorum(e)'
                /\ \A n \in Node : (\E k \in 1..Len(log'[n]) : log'[n][k].term > e.term)
                                     => Holds(n, e)'
<1> USE DEF ClusterInv
<1>1. currentTerm \in [Node -> Nat] /\ log \in [Node -> Seq(Entry)] /\ committed \subseteq Entry
  BY Zenon DEF ClusterTypeOK
<1>2. LogsInOrder'
  <2>1. ASSUME NEW n \in Node, NEW k \in 1..Len(log[n])
        PROVE  log[n][k].term \in 1..currentTerm'[n]
    <3>1. log[n][k].term \in 1..currentTerm[n]
      BY DEF LogsInOrder
    <3> QED BY <1>1, <3>1
  <2> QED BY <2>1, Zenon DEF LogsInOrder
<1>3. EntryTermsReached'
  <2> SUFFICES ASSUME NEW n \in Node, NEW k \in 1..Len(log[n]),
                      log[n][k].term > forgotten.term
               PROVE  Reached(log[n][k].term)'
    BY Zenon DEF EntryTermsReached
  <2>1. PICK t : t = log[n][k].term
    OBVIOUS
  <2>2. t \in Nat /\ Reached(t)
    <3>1. log[n][k] \in Entry
      BY <1>1
    <3> QED BY <2>1, <3>1 DEF Entry, EntryTermsReached
  <2>3. Reached(t)'
    BY <1>1, <2>2, ReachedStays
  <2> QED BY <2>1, <2>3, Zenon DEF Reached
<1>4. TermsMatch'
  BY DEF TermsMatch
<1>5. ASSUME NEW e \in committed, Kept(e)
      PROVE  /\ OnQuorum(e)'
             /\ \A n \in Node : (\E k \in 1..Len(log'[n]) : log'[n][k].term > e.term)
                                  => Holds(n, e)'
  <2>1. e.term \in Nat
    BY <1>1 DEF Entry
  <2>2. PICK Q : IsMajority(Q) /\ \A q \in Q : currentTerm[q] >= e.term /\ Holds(q, e)
    BY <1>5 DEF CommittedHeld, OnQuorum
  <2>3. ASSUME NEW q \in Q PROVE currentTerm'[q] >= e.term /\ Holds(q, e)'
    <3>1. q \in Node
      BY <2>2 DEF IsMajority
    <3>2. currentTerm'[q] >= e.term
      BY <1>1, <2>1, <2>2, <3>1
    <3> QED BY <2>2, <3>2 DEF Holds
  <2>4. OnQuorum(e)'
    BY <2>2, <2>3 DEF OnQuorum
  <2>5. ASSUME NEW n \in Node, \E k \in 1..Len(log[n]) : log[n][k].term > e.term
        PROVE  Holds(n, e)'
    <3>1. Holds(n, e)
      BY <1>5, <2>5 DEF CommittedHeld
    <3> QED BY <3>1 DEF Holds
  <2> QED BY <2>4, <2>5
<1> QED BY <1>2, <1>3, <1>4, <1>5

\* The same, with no new leader.
LEMMA QuietLeaders ==
    ASSUME ClusterInv, log' = log, committed' = committed, forgotten' = forgotten,
           currentTerm' \in [Node -> Nat],
           \A n \in Node : currentTerm'[n] >= currentTerm[n],
           \A j \in leaders' : j \in leaders /\ currentTerm'[j] = currentTerm[j],
           ClusterTypeOK'
    PROVE  ClusterInv'
<1>1. currentTerm \in [Node -> Nat] /\ log \in [Node -> Seq(Entry)] /\ leaders \subseteq Node
  BY Zenon DEF ClusterInv, ClusterTypeOK
<1>2. /\ LogsInOrder' /\ EntryTermsReached' /\ TermsMatch'
      /\ \A e \in committed : Kept(e) =>
           /\ OnQuorum(e)'
           /\ \A n \in Node : (\E k \in 1..Len(log'[n]) : log'[n][k].term > e.term)
                                => Holds(n, e)'
  BY QuietStep
<1>3. LeaderTermsReached'
  <2> SUFFICES ASSUME NEW j \in leaders'
               PROVE  /\ currentTerm'[j] >= 1
                      /\ currentTerm'[j] > forgotten.term => Reached(currentTerm[j])'
    BY DEF LeaderTermsReached
  <2>1. PICK t : t = currentTerm[j]
    OBVIOUS
  <2>2. t \in Nat /\ t >= 1 /\ (t > forgotten.term => Reached(t)) /\ currentTerm'[j] = t
    BY <1>1, <2>1 DEF ClusterInv, LeaderTermsReached
  <2>3. t > forgotten.term => Reached(t)'
    BY <1>1, <2>2, ReachedStays
  <2>4. Reached(t)' => Reached(currentTerm[j])'
    BY <2>2 DEF Reached
  <2> QED BY <2>2, <2>3, <2>4
<1>4. OneLeaderUnlessForgotten'
  BY DEF ClusterInv, OneLeaderUnlessForgotten
<1>5. LeaderHasItsTerm'
  BY DEF ClusterInv, LeaderHasItsTerm
<1>6. ASSUME NEW e \in committed, Kept(e), NEW j \in leaders', currentTerm'[j] >= e.term
      PROVE  Holds(j, e)'
  <2>1. Holds(j, e)
    BY <1>6 DEF ClusterInv, CommittedHeld
  <2> QED BY <2>1 DEF Holds
<1>7. CommittedHeld'
  <2>1. \A e : Kept(e)' = Kept(e)
    BY DEF Kept
  <2> QED BY <1>2, <1>6, <2>1 DEF CommittedHeld
<1> QED BY <1>2, <1>3, <1>4, <1>5, <1>7 DEF ClusterInv

\* The vote check of HandleRequestVote: a candidate that gets the vote of a
\* node with a committed entry has the entry too.
LEMMA VoteNeedsEntry ==
    ASSUME ClusterInv, NEW e \in committed, Kept(e), NEW i \in Node, NEW q \in Node,
           Holds(q, e), LogOK(log[q], LastTerm(log[i]), LastIndex(log[i]))
    PROVE  Holds(i, e)
<1> USE DEF ClusterInv
<1>1. /\ log[i] \in Seq(Entry) /\ log[q] \in Seq(Entry) /\ e \in Entry
      /\ forgotten.term \in Nat
  BY DEF ClusterTypeOK
<1>2. /\ Len(log[i]) \in Nat /\ Len(log[q]) \in Nat /\ e.term \in Nat /\ e.term > 0
      /\ e.term > forgotten.term
  BY <1>1 DEF Entry, Kept
<1>3. /\ e.index \in 1..Len(log[q]) /\ log[q][e.index] = e
      /\ Len(log[q]) \in 1..Len(log[q])
  BY <1>2 DEF Holds, HasEntry
<1>4. PICK t : t = LastTerm(log[i])
  OBVIOUS
<1>5. PICK u : u = LastTerm(log[q])
  OBVIOUS
<1>6. u \in Nat /\ u >= e.term
  <2>1. u = log[q][Len(log[q])].term
    BY <1>1, <1>3, <1>5 DEF LastTerm
  <2>2. log[q][Len(log[q])] \in Entry
    BY <1>1, <1>3
  <2>3. log[q][e.index].term <= log[q][Len(log[q])].term
    BY <1>2, <1>3 DEF LogsInOrder
  <2> QED BY <1>2, <1>3, <2>1, <2>2, <2>3 DEF Entry
<1>7. t > u \/ (t = u /\ Len(log[i]) >= Len(log[q]))
  BY <1>4, <1>5 DEF LogOK, LastIndex
<1>8. t \in Nat /\ t > 0 /\ Len(log[i]) \in 1..Len(log[i]) /\ log[i][Len(log[i])].term = t
  <2>1. CASE log[i] = <<>>
    BY <1>2, <1>4, <1>6, <1>7, <2>1 DEF LastTerm
  <2>2. CASE log[i] # <<>>
    <3>1. Len(log[i]) \in 1..Len(log[i]) /\ log[i][Len(log[i])].term = t
      BY <1>1, <1>4, <2>2 DEF LastTerm
    <3>2. log[i][Len(log[i])] \in Entry
      BY <1>1, <3>1
    <3> QED BY <3>1, <3>2 DEF Entry
  <2> QED BY <2>1, <2>2
<1>9. CASE t > e.term
  <2>1. \E k \in 1..Len(log[i]) : log[i][k].term > e.term
    BY <1>8, <1>9
  <2> QED BY <2>1 DEF CommittedHeld
<1>10. CASE ~(t > e.term)
  <2>1. t = e.term /\ Len(log[i]) >= Len(log[q])
    BY <1>2, <1>6, <1>7, <1>8, <1>10
  <2>2. e.index \in 1..Len(log[i])
    BY <1>2, <1>3, <2>1
  <2>3. Match(forgotten.term, log[i], log[q])
    BY DEF TermsMatch
  <2>4. /\ log[i][Len(log[i])].term = log[q][e.index].term
        /\ log[q][e.index].term > forgotten.term /\ e.index <= Len(log[i])
    BY <1>2, <1>3, <1>8, <2>1, <2>2
  <2>5. log[i][e.index] = log[q][e.index]
    BY <1>3, <1>8, <2>3, <2>4, Zenon DEF Match
  <2> QED BY <1>3, <2>2, <2>5 DEF Holds, HasEntry
<1> QED BY <1>9, <1>10

\* An election: the majority that votes has one node in common with each that
\* holds a committed entry, and with each that made a leader.
LEMMA ElectStep ==
    ASSUME ClusterInv, NEW i \in Node, NEW Q \in Quorums, Elect(i, Q)
    PROVE  ClusterInv'
<1> DEFINE t == Max({currentTerm[q] : q \in Q}) + 1
           F == forgotten.term
<1>1. /\ i \in Q /\ i \notin leaders /\ Q \subseteq up
      /\ \A q \in Q : LogOK(log[q], LastTerm(log[i]), LastIndex(log[i]))
      /\ currentTerm' = [q \in Node |-> IF q \in Q THEN t ELSE currentTerm[q]]
      /\ leaders' = (leaders \ Q) \union {i}
      /\ UNCHANGED <<up, log, committed, lastApplied, data, forgotten>>
  BY Zenon DEF Elect
<1>2. /\ currentTerm \in [Node -> Nat] /\ leaders \subseteq up /\ up \subseteq Node
      /\ log \in [Node -> Seq(Entry)] /\ F \in Nat
  BY Zenon DEF ClusterInv, ClusterTypeOK
<1>3. IsMajority(Q) /\ Q \in SUBSET Node /\ Q # {}
  <2>1. Node \in SUBSET Node
    OBVIOUS
  <2>2. Cardinality(Node) \in Nat
    BY <2>1, Zenon DEF ClusterInv, Sizes
  <2> QED BY <1>1, <2>2 DEF Quorums, IsMajority, Majority
<1>4. t \in Nat /\ t >= 1 /\ \A q \in Q : t > currentTerm[q]
  <2>1. /\ Max({currentTerm[q] : q \in Q}) \in Nat
        /\ \A q \in Q : Max({currentTerm[q2] : q2 \in Q}) >= currentTerm[q]
    BY <1>2, <1>3, HighestTerm, Zenon DEF ClusterInv
  <2>2. \A q \in Q : currentTerm[q] \in Nat
    BY <1>2, <1>3
  <2> QED BY <2>1, <2>2
<1> HIDE DEF t
<1>5. currentTerm' \in [Node -> Nat] /\ \A n \in Node : currentTerm'[n] >= currentTerm[n]
  <2>1. currentTerm' \in [Node -> Nat]
    BY <1>1, <1>2, <1>4
  <2>2. ASSUME NEW n \in Node PROVE currentTerm'[n] >= currentTerm[n]
    <3>1. currentTerm[n] \in Nat
      BY <1>2
    <3>2. CASE n \in Q
      <4>1. currentTerm'[n] = t /\ t > currentTerm[n]
        BY <1>1, <1>4, <3>2
      <4> QED BY <1>4, <3>1, <4>1
    <3>3. CASE n \notin Q
      <4>1. currentTerm'[n] = currentTerm[n]
        BY <1>1, <3>3
      <4> QED BY <3>1, <4>1
    <3> QED BY <3>2, <3>3
  <2> QED BY <2>1, <2>2
<1>6. /\ LogsInOrder' /\ EntryTermsReached' /\ TermsMatch'
      /\ \A e \in committed : Kept(e) =>
           /\ OnQuorum(e)'
           /\ \A n \in Node : (\E k \in 1..Len(log'[n]) : log'[n][k].term > e.term)
                                => Holds(n, e)'
  BY <1>1, <1>5, QuietStep, Zenon
<1>7. currentTerm'[i] = t /\ \A q \in Q : currentTerm'[q] = t
  BY <1>1, <1>3
<1>8. \A j \in leaders' : j = i \/ (/\ j \in leaders /\ j \in Node /\ j \notin Q
                                   /\ currentTerm'[j] = currentTerm[j])
  BY <1>1, <1>2
<1>9. \A u \in Nat : u >= t => ~Reached(u)
  <2> SUFFICES ASSUME NEW u \in Nat, u >= t, Reached(u) PROVE FALSE
    OBVIOUS
  <2>1. PICK R : IsMajority(R) /\ \A q \in R : currentTerm[q] >= u
    BY DEF Reached
  <2>2. PICK n \in Node : n \in Q /\ n \in R
    BY <1>3, <2>1, MajoritiesMeet DEF ClusterInv
  <2>3. currentTerm[n] \in Nat /\ currentTerm[n] >= u /\ t > currentTerm[n]
    BY <1>2, <1>4, <2>1, <2>2
  <2> QED BY <1>4, <2>3
<1>10. ClusterTypeOK'
  BY <1>1, <1>2, <1>5 DEF ClusterInv, ClusterTypeOK
<1>11. LeaderTermsReached'
  <2> SUFFICES ASSUME NEW j \in leaders'
               PROVE  /\ currentTerm'[j] >= 1
                      /\ currentTerm'[j] > F => Reached(currentTerm[j])'
    BY <1>1, Zenon DEF LeaderTermsReached
  <2>1. CASE j = i
    <3>1. \A q \in Q : currentTerm'[q] >= currentTerm'[j]
      BY <1>4, <1>7, <2>1
    <3> QED BY <1>3, <1>4, <1>7, <2>1, <3>1 DEF Reached
  <2>2. CASE j # i
    <3>1. PICK u : u = currentTerm[j]
      OBVIOUS
    <3>2. /\ u \in Nat /\ u >= 1 /\ (u > F => Reached(u)) /\ currentTerm'[j] = u
      BY <1>2, <1>8, <2>2, <3>1 DEF ClusterInv, LeaderTermsReached
    <3>3. u > F => Reached(u)'
      BY <1>2, <1>5, <3>2, ReachedStays, Zenon
    <3>4. Reached(u)' => Reached(currentTerm[j])'
      BY <3>2 DEF Reached
    <3> QED BY <3>2, <3>3, <3>4
  <2> QED BY <2>1, <2>2
<1>12. ASSUME NEW j \in leaders', j # i, currentTerm'[j] > F
       PROVE  currentTerm'[j] # t
  <2>1. PICK u : u = currentTerm[j]
    OBVIOUS
  <2>2. u \in Nat /\ currentTerm'[j] = u /\ Reached(u)
    BY <1>2, <1>8, <1>12, <2>1 DEF ClusterInv, LeaderTermsReached
  <2> QED BY <1>4, <1>9, <2>2
<1>13. OneLeaderUnlessForgotten'
  <2> SUFFICES ASSUME NEW j \in leaders', NEW k \in leaders',
                      currentTerm'[j] = currentTerm'[k], j # k
               PROVE  F >= currentTerm'[j]
    BY <1>1 DEF OneLeaderUnlessForgotten
  <2>1. currentTerm'[j] \in Nat
    BY <1>2, <1>5, <1>8
  <2>2. CASE j # i /\ k # i
    BY <1>8, <2>2 DEF ClusterInv, OneLeaderUnlessForgotten
  <2>3. CASE j = i \/ k = i
    BY <1>2, <1>7, <1>12, <2>1, <2>3
  <2> QED BY <2>2, <2>3, Zenon
<1>14. LeaderHasItsTerm'
  <2> SUFFICES ASSUME NEW j \in leaders', NEW n \in Node, NEW k \in 1..Len(log[n]),
                      log[n][k].term = currentTerm'[j], currentTerm'[j] > F
               PROVE  HasEntry(log[j], k) /\ log[j][k] = log[n][k]
    BY <1>1 DEF LeaderHasItsTerm
  <2>1. CASE j = i
    <3>1. log[n][k].term = t /\ t > F
      BY <1>7, <2>1
    <3>2. Reached(t)
      BY <3>1, Zenon DEF ClusterInv, EntryTermsReached
    <3> QED BY <1>4, <1>9, <3>2
  <2>2. CASE j # i
    BY <1>8, <2>2 DEF ClusterInv, LeaderHasItsTerm
  <2> QED BY <2>1, <2>2, Zenon
<1>15. ASSUME NEW e \in committed, Kept(e), NEW j \in leaders', currentTerm'[j] >= e.term
       PROVE  Holds(j, e)'
  <2>1. Holds(j, e)
    <3>1. CASE j = i
      <4>1. PICK R : IsMajority(R) /\ \A q \in R : Holds(q, e)
        BY <1>15 DEF ClusterInv, CommittedHeld, OnQuorum
      <4>2. PICK q \in Node : q \in Q /\ q \in R
        BY <1>3, <4>1, MajoritiesMeet DEF ClusterInv
      <4> QED BY <1>1, <1>15, <3>1, <4>1, <4>2, VoteNeedsEntry, Zenon
    <3>2. CASE j # i
      BY <1>8, <1>15, <3>2, Zenon DEF ClusterInv, CommittedHeld
    <3> QED BY <3>1, <3>2
  <2> QED BY <1>1, <2>1 DEF Holds
<1>16. CommittedHeld'
  <2>1. committed' = committed /\ \A e : Kept(e)' = Kept(e)
    BY <1>1 DEF Kept
  <2> QED BY <1>6, <1>15, <2>1, Zenon DEF CommittedHeld
<1> QED BY <1>6, <1>10, <1>11, <1>13, <1>14, <1>16, Zenon DEF ClusterInv

\* A leader that learns of a later term
LEMMA StepDownStep ==
    ASSUME ClusterInv, NEW i \in Node, NEW p \in Node, StepDown(i, p)
    PROVE  ClusterInv'
<1>1. /\ currentTerm \in [Node -> Nat] /\ leaders \subseteq up /\ up \subseteq Node
  BY DEF ClusterInv, ClusterTypeOK
<1>2. /\ currentTerm' = [currentTerm EXCEPT ![i] = currentTerm[p]]
      /\ currentTerm[p] > currentTerm[i] /\ leaders' = leaders \ {i}
      /\ UNCHANGED <<up, log, committed, lastApplied, data, forgotten>>
  BY DEF StepDown
<1>3. currentTerm' \in [Node -> Nat] /\ \A n \in Node : currentTerm'[n] >= currentTerm[n]
  BY <1>1, <1>2
<1>4. \A j \in leaders' : j \in leaders /\ currentTerm'[j] = currentTerm[j]
  BY <1>1, <1>2
<1>5. ClusterTypeOK'
  BY <1>2, <1>3 DEF ClusterInv, ClusterTypeOK
<1> QED BY <1>2, <1>3, <1>4, <1>5, QuietLeaders

\* A process that stops
LEMMA StopStep ==
    ASSUME ClusterInv, NEW i \in Node, Stop(i)
    PROVE  ClusterInv'
<1>1. /\ up' = up \ {i} /\ leaders' = leaders \ {i}
      /\ UNCHANGED <<currentTerm, log, committed, lastApplied, data, forgotten>>
  BY DEF Stop
<1>2. ClusterTypeOK'
  BY <1>1 DEF ClusterInv, ClusterTypeOK
<1>3. currentTerm' \in [Node -> Nat] /\ \A n \in Node : currentTerm'[n] >= currentTerm[n]
  BY <1>1 DEF ClusterInv, ClusterTypeOK
<1> QED BY <1>1, <1>2, <1>3, QuietLeaders

\* What RunApplyLoop takes next is in the log.
LEMMA AppliedIsThere ==
    ASSUME ClusterTypeOK, NEW i \in Node, Apply(i)
    PROVE  /\ lastApplied[i] + 1 \in 1..Len(log[i])
           /\ log[i][lastApplied[i] + 1] \in Entry
<1>1. PICK e \in committed : e.index > lastApplied[i] /\ TermAt(log[i], e.index) = e.term
  BY DEF Apply
<1>2. /\ e \in Entry /\ lastApplied[i] \in Nat /\ log[i] \in Seq(Entry)
  BY DEF ClusterTypeOK
<1>3. e.index \in 1..Len(log[i]) /\ e.index \in Nat /\ Len(log[i]) \in Nat
  BY <1>1, <1>2 DEF TermAt, HasEntry, Entry
<1>4. lastApplied[i] + 1 \in 1..Len(log[i])
  BY <1>1, <1>2, <1>3
<1> QED BY <1>2, <1>4

\* RunApplyLoop changes the store and nothing else.
LEMMA ApplyStep ==
    ASSUME ClusterInv, NEW i \in Node, Apply(i)
    PROVE  ClusterInv'
<1> DEFINE c == log[i][lastApplied[i] + 1].cmd
<1>1. c \in Cmd
  BY AppliedIsThere, Zenon DEF ClusterInv, Entry
<1> HIDE DEF c
<1>2. /\ data' = [data EXCEPT ![i][c.key] = IF c.op = "delete" THEN 0 ELSE c.id]
      /\ lastApplied' = [lastApplied EXCEPT ![i] = @ + 1]
      /\ UNCHANGED <<up, currentTerm, log, leaders, committed, forgotten>>
  BY DEF Apply, raftVars, c
<1>3. data \in [Node -> [Key -> Nat]] /\ lastApplied \in [Node -> Nat]
  BY DEF ClusterInv, ClusterTypeOK
<1>4. data' \in [Node -> [Key -> Nat]] /\ lastApplied' \in [Node -> Nat]
  BY <1>1, <1>2, <1>3 DEF Cmd
<1>5. ClusterTypeOK'
  BY <1>2, <1>4, Zenon DEF ClusterInv, ClusterTypeOK
<1>6. currentTerm' \in [Node -> Nat] /\ \A n \in Node : currentTerm'[n] >= currentTerm[n]
  BY <1>2 DEF ClusterInv, ClusterTypeOK
<1> QED BY <1>2, <1>5, <1>6, QuietLeaders

\* A leader's entries arrive at some peers: heartbeats and writes.
LEMMA DeliverStep ==
    ASSUME ClusterInv, NEW i \in Node, NEW P \in SUBSET Node, NEW es,
           Sent(i, es), Deliver(i, P, es), UNCHANGED <<up, lastApplied, data, forgotten>>
    PROVE  Delivered(i, P, es) /\ ClusterInv'
<1>1. Delivered(i, P, es)
  BY DeliverIsDelivered DEF ClusterInv
<1>2. LogsInOrder'
  BY <1>1, DeliveredInOrder
<1>3. LeaderTermsReached' /\ EntryTermsReached' /\ OneLeaderUnlessForgotten'
  BY <1>1, DeliveredReached
<1>4. LeaderHasItsTerm'
  BY <1>1, DeliveredLeaders
<1>5. TermsMatch'
  BY <1>1, DeliveredMatch
<1>6. CommittedHeld'
  BY <1>1, <1>2, <1>3, <1>5, DeliveredHeld
<1>7. ClusterTypeOK'
  <2>1. \A e \in Committable(i, log', currentTerm') : e \in Entry
    <3> TAKE e \in Committable(i, log', currentTerm')
    <3>1. log'[i] \in Seq(Entry)
      BY <1>1, Zenon DEF Delivered
    <3>2. PICK m \in DOMAIN log'[i] : e = log'[i][m]
      BY Zenon DEF Committable
    <3> QED BY <3>1, <3>2
  <2>2. committed' \subseteq Entry
    BY <1>1, <2>1 DEF Delivered, ClusterInv, ClusterTypeOK
  <2>3. leaders' \in SUBSET up'
    BY <1>1 DEF Delivered, ClusterInv, ClusterTypeOK
  <2> QED BY <1>1, <2>2, <2>3 DEF Delivered, ClusterInv, ClusterTypeOK
<1> QED BY <1>1, <1>2, <1>3, <1>4, <1>5, <1>6, <1>7 DEF ClusterInv

\* A heartbeat sends the log, Replicate the log with one entry more.
LEMMA HeartbeatSends ==
    ASSUME ClusterInv, NEW i \in Node
    PROVE  Sent(i, log[i])
<1>1. log[i] \in Seq(Entry) /\ Contiguous(log[i])
  BY Zenon DEF ClusterInv, ClusterTypeOK, LogsInOrder
<1> QED BY <1>1 DEF Sent

\* The entry that Replicate appends
EntryOf(i, cmd) ==
    [index |-> Len(log[i]) + 1, term |-> currentTerm[i], cmd |-> cmd]

\* Replicate sends the log with the new entry.
LEMMA ReplicateSends ==
    ASSUME ClusterInv, NEW i \in leaders, NEW cmd \in Cmd
    PROVE  EntryOf(i, cmd) \in Entry /\ Sent(i, Append(log[i], EntryOf(i, cmd)))
<1>1. PICK e : e = EntryOf(i, cmd)
  BY Zenon
<1>2. /\ log[i] \in Seq(Entry) /\ Contiguous(log[i]) /\ Len(log[i]) \in Nat
      /\ currentTerm[i] \in Nat /\ currentTerm[i] >= 1
  BY DEF ClusterInv, ClusterTypeOK, LogsInOrder, LeaderTermsReached
<1>3. e \in Entry /\ e.index = Len(log[i]) + 1 /\ e.term = currentTerm[i]
  BY <1>1, <1>2 DEF Entry, EntryOf
<1>4. /\ Append(log[i], e) \in Seq(Entry) /\ Len(Append(log[i], e)) = Len(log[i]) + 1
      /\ \A k \in 1..Len(log[i]) : Append(log[i], e)[k] = log[i][k]
      /\ Append(log[i], e)[Len(log[i]) + 1] = e
  BY <1>2, <1>3, AppendFacts
<1>5. Contiguous(Append(log[i], e))
  BY <1>2, <1>3, <1>4 DEF Contiguous
<1>6. Sent(i, Append(log[i], e))
  BY <1>2, <1>3, <1>4, <1>5 DEF Sent
<1> QED BY <1>1, <1>3, <1>6

\* A restart takes a node out of every majority it was in, and forgotten says
\* which entries and terms that concerns.
LEMMA StartStep ==
    ASSUME ClusterInv, NEW i \in Node \ up, Start(i)
    PROVE  ClusterInv'
<1> DEFINE F == forgotten.term
           G == Max({forgotten.term, currentTerm[i]})
           W == {log[i][k].cmd.id : k \in DOMAIN log[i]}
<1>1. /\ up' = up \union {i} /\ currentTerm' = [currentTerm EXCEPT ![i] = 0]
      /\ log' = [log EXCEPT ![i] = <<>>]
      /\ lastApplied' = [lastApplied EXCEPT ![i] = 0]
      /\ forgotten' = [writes |-> forgotten.writes \union W, term |-> G]
      /\ leaders' = leaders /\ committed' = committed /\ data' = data
  BY DEF Start
<1>2. /\ currentTerm \in [Node -> Nat] /\ leaders \subseteq up /\ up \subseteq Node
      /\ log \in [Node -> Seq(Entry)] /\ F \in Nat /\ i \in Node /\ i \notin leaders
      /\ committed \subseteq Entry /\ forgotten.writes \subseteq Nat
      /\ currentTerm[i] \in Nat
  BY Zenon DEF ClusterInv, ClusterTypeOK
<1>3. G \in Nat /\ G >= F /\ G >= currentTerm[i]
  <2> DEFINE S == {forgotten.term, currentTerm[i]}
  <2>1. \E x \in S : \A y \in S : x >= y
    BY <1>2
  <2> HIDE DEF S
  <2>2. G \in S /\ \A y \in S : G >= y
    BY <2>1, Zenon DEF Max, S
  <2> QED BY <1>2, <2>2 DEF S
<1> HIDE DEF G, F
<1>4. forgotten'.term = G /\ forgotten'.writes = forgotten.writes \union W
  BY <1>1
<1>5. /\ log'[i] = <<>> /\ Len(log'[i]) = 0 /\ currentTerm'[i] = 0
      /\ \A n \in Node : n # i => log'[n] = log[n] /\ currentTerm'[n] = currentTerm[n]
      /\ \A j \in leaders : j # i /\ j \in Node
  BY <1>1, <1>2, Zenon
<1>6. ClusterTypeOK'
  <2>1. \A k \in DOMAIN log[i] : log[i][k].cmd.id \in Nat
    <3> TAKE k \in DOMAIN log[i]
    <3>1. log[i][k] \in Entry
      BY <1>2
    <3> QED BY <3>1 DEF Entry, Cmd
  <2>2. W \subseteq Nat
    BY <2>1
  <2> HIDE DEF W
  <2>3. forgotten' \in [writes : SUBSET Nat, term : Nat]
    BY <1>1, <1>2, <1>3, <2>2, Zenon
  <2>4. log' \in [Node -> Seq(Entry)] /\ currentTerm' \in [Node -> Nat]
        /\ lastApplied' \in [Node -> Nat]
    BY <1>1, <1>2 DEF ClusterInv, ClusterTypeOK
  <2> QED BY <1>1, <1>2, <2>3, <2>4 DEF ClusterInv, ClusterTypeOK
<1> HIDE DEF W
<1>7. LogsInOrder'
  <2> SUFFICES ASSUME NEW n \in Node
               PROVE  /\ Contiguous(log'[n])
                      /\ \A k \in 1..Len(log'[n]) : log'[n][k].term \in 1..currentTerm'[n]
                      /\ \A k, m \in 1..Len(log'[n]) :
                           k <= m => log'[n][k].term <= log'[n][m].term
    BY Zenon DEF LogsInOrder
  <2>1. CASE n = i
    BY <1>5, <2>1 DEF Contiguous
  <2>2. CASE n # i
    <3>1. log'[n] = log[n] /\ currentTerm'[n] = currentTerm[n]
      BY <1>5, <2>2, Zenon
    <3> QED BY <3>1, Zenon DEF ClusterInv, LogsInOrder
  <2> QED BY <2>1, <2>2, Zenon
<1>8. \A t \in Nat : (t > G /\ Reached(t)) => Reached(t)'
  <2> SUFFICES ASSUME NEW t \in Nat, t > G, Reached(t) PROVE Reached(t)'
    OBVIOUS
  <2>1. PICK Q : IsMajority(Q) /\ \A q \in Q : currentTerm[q] >= t
    BY DEF Reached
  <2>2. i \notin Q
    BY <1>2, <1>3, <2>1
  <2>3. \A q \in Q : currentTerm'[q] >= t
    BY <1>5, <2>1, <2>2 DEF IsMajority
  <2> QED BY <2>1, <2>3 DEF Reached
<1>9. LeaderTermsReached'
  <2> SUFFICES ASSUME NEW j \in leaders
               PROVE  /\ currentTerm'[j] >= 1
                      /\ currentTerm'[j] > G => Reached(currentTerm[j])'
    BY <1>1, <1>4 DEF LeaderTermsReached
  <2>1. PICK t : t = currentTerm[j]
    BY Zenon
  <2>2. t \in Nat /\ t >= 1 /\ (t > F => Reached(t)) /\ currentTerm'[j] = t
    BY <1>2, <1>5, <2>1, Zenon DEF ClusterInv, LeaderTermsReached, F
  <2>3. t > G => Reached(t)'
    BY <1>2, <1>3, <1>8, <2>2
  <2>4. Reached(t)' => Reached(currentTerm[j])'
    BY <2>2, Zenon DEF Reached
  <2> QED BY <2>2, <2>3, <2>4, Zenon
<1>10. EntryTermsReached'
  <2> SUFFICES ASSUME NEW n \in Node, NEW k \in 1..Len(log'[n]), log'[n][k].term > G
               PROVE  Reached(log[n][k].term)'
    BY <1>4 DEF EntryTermsReached
  <2>1. n # i /\ log'[n] = log[n]
    BY <1>5
  <2>2. PICK t : t = log[n][k].term
    OBVIOUS
  <2>3. t \in Nat /\ t > G
    <3>1. log[n][k] \in Entry
      BY <1>2, <2>1
    <3> QED BY <2>1, <2>2, <3>1 DEF Entry
  <2>4. t > F
    BY <1>2, <1>3, <2>3
  <2>5. Reached(t)
    BY <2>1, <2>2, <2>4 DEF ClusterInv, EntryTermsReached, F
  <2>6. Reached(t)'
    BY <1>8, <2>3, <2>5
  <2> QED BY <2>1, <2>2, <2>6, Zenon DEF Reached
<1>11. OneLeaderUnlessForgotten'
  <2> SUFFICES ASSUME NEW j \in leaders, NEW k \in leaders,
                      currentTerm'[j] = currentTerm'[k], j # k
               PROVE  G >= currentTerm'[j]
    BY <1>1, <1>4, Zenon DEF OneLeaderUnlessForgotten
  <2>1. /\ currentTerm'[j] = currentTerm[j] /\ currentTerm'[k] = currentTerm[k]
        /\ currentTerm[j] \in Nat
    BY <1>2, <1>5
  <2>2. F >= currentTerm[j]
    BY <2>1, Zenon DEF ClusterInv, OneLeaderUnlessForgotten, F
  <2> QED BY <1>2, <1>3, <2>1, <2>2
<1>12. LeaderHasItsTerm'
  <2> SUFFICES ASSUME NEW j \in leaders', NEW n \in Node, NEW k \in 1..Len(log'[n]),
                      log'[n][k].term = currentTerm'[j],
                      currentTerm'[j] > forgotten'.term
               PROVE  HasEntry(log'[j], k) /\ log'[j][k] = log'[n][k]
    BY Zenon DEF LeaderHasItsTerm
  <2>1. j \in leaders /\ currentTerm'[j] > G
    BY <1>1, <1>4, Zenon
  <2>2. n # i
    BY <1>5
  <2>3. log'[n] = log[n] /\ log'[j] = log[j] /\ currentTerm'[j] = currentTerm[j]
    BY <1>5, <2>1, <2>2, Zenon
  <2>4. currentTerm[j] \in Nat /\ currentTerm[j] > F
    BY <1>2, <1>3, <2>1, <2>3
  <2> QED BY <2>1, <2>3, <2>4, Zenon DEF ClusterInv, LeaderHasItsTerm, F
<1>13. TermsMatch'
  <2> SUFFICES ASSUME NEW a \in Node, NEW b \in Node
               PROVE  Match(G, log'[a], log'[b])
    BY <1>4, Zenon DEF TermsMatch
  <2> SUFFICES ASSUME NEW k \in 1..Len(log'[a]), NEW m \in 1..Len(log'[b]),
                      log'[a][k].term = log'[b][m].term, log'[b][m].term > G, m <= k
               PROVE  /\ log'[a][m] = log'[b][m]
                      /\ \A j \in 1..m : log'[a][j].term = log'[b][j].term
    BY DEF Match
  <2>1. log'[a] = log[a] /\ log'[b] = log[b]
    BY <1>5
  <2>2. log[b][m].term > F
    <3>1. log[b][m] \in Entry
      BY <1>2, <2>1
    <3>2. log[b][m].term \in Nat
      BY <3>1 DEF Entry
    <3>3. log[b][m].term > G
      BY <2>1, Zenon
    <3> QED BY <1>2, <1>3, <3>2, <3>3
  <2>3. Match(F, log[a], log[b])
    BY Zenon DEF ClusterInv, TermsMatch, F
  <2>4. log[a][m] = log[b][m] /\ \A j \in 1..m : log[a][j].term = log[b][j].term
    <3>1. /\ k \in 1..Len(log[a]) /\ m \in 1..Len(log[b])
          /\ log[a][k].term = log[b][m].term
      BY <2>1
    <3> QED BY <2>2, <2>3, <3>1 DEF Match
  <2> QED BY <2>1, <2>4
<1>14. ASSUME NEW e \in committed, Kept(e)'
       PROVE  /\ OnQuorum(e)'
              /\ \A n \in Node : (\E k \in 1..Len(log'[n]) : log'[n][k].term > e.term)
                                   => Holds(n, e)'
              /\ \A j \in leaders' : currentTerm'[j] >= e.term => Holds(j, e)'
  <2>1. /\ e \in Entry /\ e.term \in Nat /\ e.term > G
        /\ e.cmd.id \notin forgotten.writes /\ e.cmd.id \notin W
    BY <1>2, <1>3, <1>4, <1>14 DEF Kept, Entry
  <2>2. Kept(e)
    BY <1>2, <1>3, <2>1 DEF Kept, F
  <2>3. ~Holds(i, e)
    <3> SUFFICES ASSUME Holds(i, e) PROVE FALSE
      OBVIOUS
    <3>1. e.index \in DOMAIN log[i] /\ log[i][e.index] = e
      BY <1>2 DEF Holds, HasEntry
    <3> QED BY <2>1, <3>1 DEF W
  <2>4. ASSUME NEW n \in Node, Holds(n, e) PROVE n # i /\ Holds(n, e)'
    BY <1>5, <2>3, <2>4 DEF Holds
  <2>5. OnQuorum(e)'
    <3>1. PICK Q : IsMajority(Q) /\ \A q \in Q : currentTerm[q] >= e.term /\ Holds(q, e)
      BY <2>2, Zenon DEF ClusterInv, CommittedHeld, OnQuorum
    <3>2. \A q \in Q : currentTerm'[q] >= e.term /\ Holds(q, e)'
      BY <1>5, <2>4, <3>1 DEF IsMajority
    <3> QED BY <3>1, <3>2, Zenon DEF OnQuorum
  <2>6. ASSUME NEW n \in Node, \E k \in 1..Len(log'[n]) : log'[n][k].term > e.term
        PROVE  Holds(n, e)'
    <3>1. log'[n] = log[n]
      BY <1>5, <2>6
    <3>2. Holds(n, e)
      BY <2>2, <2>6, <3>1 DEF ClusterInv, CommittedHeld
    <3> QED BY <2>4, <3>2
  <2>7. ASSUME NEW j \in leaders, currentTerm'[j] >= e.term PROVE Holds(j, e)'
    <3>1. Holds(j, e)
      BY <1>5, <2>2, <2>7, Zenon DEF ClusterInv, CommittedHeld
    <3> QED BY <1>5, <2>4, <3>1, Zenon
  <2> QED BY <1>1, <2>5, <2>6, <2>7, Zenon
<1>15. CommittedHeld'
  BY <1>1, <1>14, Zenon DEF CommittedHeld
<1> QED BY <1>6, <1>7, <1>9, <1>10, <1>11, <1>12, <1>13, <1>15, Zenon DEF ClusterInv

-----------------------------------------------------------------------------

\* At first there are no entries and no leaders.
LEMMA ClusterInvInit ==
    WellOrdered /\ Sizes /\ Highest /\ ClusterInit => ClusterInv
<1> SUFFICES ASSUME WellOrdered, Sizes, Highest, ClusterInit PROVE ClusterInv
  OBVIOUS
<1>1. \A n \in Node : log[n] = <<>> /\ Len(log[n]) = 0
  BY DEF ClusterInit
<1>2. ClusterTypeOK
  BY DEF ClusterInit, ClusterTypeOK
<1>3. LogsInOrder
  BY <1>1 DEF LogsInOrder, Contiguous
<1>4. LeaderTermsReached /\ OneLeaderUnlessForgotten /\ LeaderHasItsTerm
  BY DEF ClusterInit, LeaderTermsReached, OneLeaderUnlessForgotten, LeaderHasItsTerm
<1>5. EntryTermsReached
  BY <1>1 DEF EntryTermsReached
<1>6. TermsMatch
  BY <1>1 DEF TermsMatch, Match
<1>7. CommittedHeld
  BY DEF ClusterInit, CommittedHeld
<1> QED BY <1>2, <1>3, <1>4, <1>5, <1>6, <1>7 DEF ClusterInv

\* A step that leaves the nodes alone
LEMMA SameCluster ==
    ASSUME ClusterInv, UNCHANGED clusterVars
    PROVE  ClusterInv'
<1>1. UNCHANGED <<up, currentTerm, log, leaders, committed, lastApplied, data, forgotten>>
  BY DEF clusterVars, raftVars
<1>2. currentTerm \in [Node -> Nat] /\ ClusterTypeOK'
  BY <1>1 DEF ClusterInv, ClusterTypeOK
<1>3. \A n \in Node : currentTerm'[n] >= currentTerm[n]
  BY <1>1, <1>2
<1> QED BY <1>1, <1>2, <1>3, QuietLeaders

\* A node handles a write, whoever sent it.
LEMMA WriteStep ==
    ASSUME ClusterInv, NEW i \in Node, NEW cmd \in Cmd, NEW code, handleWrite(i, cmd, code)
    PROVE  ClusterInv'
<1>1. UNCHANGED <<up, lastApplied, data, forgotten>>
  BY DEF handleWrite
<1>2. CASE UNCHANGED raftVars
  BY <1>1, <1>2, SameCluster DEF clusterVars, raftVars
<1>3. CASE \E P \in SUBSET up : Replicate(i, cmd, P)
  <2>1. PICK P \in SUBSET up : Replicate(i, cmd, P)
    BY <1>3
  <2>2. PICK es : es = Append(log[i], EntryOf(i, cmd))
    BY Zenon
  <2>3. Deliver(i, P, es) /\ i \in leaders /\ P \in SUBSET Node
    BY <2>1, <2>2 DEF Replicate, EntryOf, Deliver, ClusterInv, ClusterTypeOK
  <2>4. Sent(i, es)
    BY <2>2, <2>3, ReplicateSends
  <2> QED BY <1>1, <2>3, <2>4, DeliverStep
<1> QED BY <1>2, <1>3 DEF handleWrite

\* The steps that nodes take on their own
LEMMA ClusterStep ==
    ASSUME ClusterInv, ClusterNext
    PROVE  ClusterInv'
<1>1. ASSUME NEW i \in Node, NEW Q \in Quorums, Elect(i, Q) PROVE ClusterInv'
  BY <1>1, ElectStep
<1>2. ASSUME NEW i \in Node, NEW p \in Node, Heartbeat(i, p) PROVE ClusterInv'
  BY <1>2, HeartbeatSends, DeliverStep DEF Heartbeat
<1>3. ASSUME NEW i \in Node, NEW p \in Node, StepDown(i, p) PROVE ClusterInv'
  BY <1>3, StepDownStep
<1>4. ASSUME NEW i \in Node, Apply(i) PROVE ClusterInv'
  BY <1>4, ApplyStep
<1> QED BY <1>1, <1>2, <1>3, <1>4 DEF ClusterNext

\* Every step of a cluster with any clients
LEMMA OpenStep ==
    ASSUME ClusterInv, [OpenNext]_clusterVars
    PROVE  ClusterInv'
<1>1. CASE ClusterNext
  BY <1>1, ClusterStep
<1>2. ASSUME NEW i \in Node, NEW cmd \in Cmd, NEW code, handleWrite(i, cmd, code)
      PROVE  ClusterInv'
  BY <1>2, WriteStep
<1>3. ASSUME NEW i \in Node, Stop(i) PROVE ClusterInv'
  BY <1>3, StopStep
<1>4. ASSUME NEW i \in Node \ up, Start(i) PROVE ClusterInv'
  BY <1>4, StartStep
<1>5. CASE UNCHANGED clusterVars
  BY <1>5, SameCluster
<1> QED BY <1>1, <1>2, <1>3, <1>4, <1>5 DEF OpenNext
=============================================================================
