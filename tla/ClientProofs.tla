---------------------------- MODULE ClientProofs ----------------------------
(***************************************************************************)
(* What is proved of a shard's cluster and of the router in front of it,   *)
(* for any finite set of nodes, any list of addresses and any number of    *)
(* calls.                                                                  *)
(***************************************************************************)
EXTENDS Router, ClusterProofs

-----------------------------------------------------------------------------
(* The router *)

\* Nodes may stop, but none is started again: a restart can take back what a
\* call has returned.
RouterStep ==
    \/ (ClusterNext \/ \E i \in Node : Stop(i)) /\ UNCHANGED routerVars
    \/ RouterNext

\* The cluster and the router together
RouterSpec ==
    ClusterInit /\ RouterInit /\ [][RouterStep]_<<clusterVars, routerVars>>

\* The command of a call: a write, or a Get
RouterCmd == [id : Nat, key : Key, op : {"upsert", "delete", "get"}]

\* The number of the last call that was made
LastCall == IF call.st = "idle" THEN Len(returned) ELSE Len(returned) + 1

\* The calls of which a request was given up on before it was handled
AbandonedCalls ==
    {j \in 1..LastCall : IF j <= Len(returned) THEN returned[j].abandoned
                                               ELSE call.abandoned}

\* The types of the router's state; calls are numbered, and nothing was
\* forgotten.
RouterTypeOK ==
    /\ \/ call = NoCall
       \/ call \in [st : {"sent", "answered"}, i : 1..Len(Addrs), answer : Nat,
                    abandoned : BOOLEAN, cmd : RouterCmd]
    /\ call.st # "idle" => call.cmd.id = Len(returned) + 1
    /\ returned \in Seq([cmd : RouterCmd, ok : BOOLEAN, res : Nat, abandoned : BOOLEAN])
    /\ \A k \in 1..Len(returned) : returned[k].cmd.id = k
    /\ late \subseteq [node : Node, cmd : Cmd]
    /\ forgotten = [writes |-> {}, term |-> 0]

\* Call j has got the answer 200 to a write, or has returned nil on it.
Acked(j) ==
    \/ /\ call.st = "answered" /\ call.cmd.op # "get" /\ call.answer = 200
       /\ call.cmd.id = j
    \/ j \in Confirmed

\* The node answers 200 once the entry is committed.
AcksCommitted ==
    \A j \in Nat : Acked(j) => \E e \in committed : e.cmd.id = j

\* Whoever has some committed entry has write v below it, always the same.
Durable(v) ==
    \E e \in committed : \E m \in 1..e.index :
      \A n \in Node : Holds(n, e) => log[n][m].cmd.id = v

\* Write v is in a store, or was read from one.
Read(v) ==
    \/ \E n \in Node, k \in Key : data[n][k] = v
    \/ call.st = "answered" /\ call.cmd.op = "get" /\ call.answer = v
    \/ \E k \in 1..Len(returned) :
         returned[k].cmd.op = "get" /\ returned[k].ok /\ returned[k].res = v

\* RunApplyLoop applies committed entries only.
ReadsDurable == \A v \in Nat \ {0} : Read(v) => Durable(v)

\* The entries are of the calls 1 to c.
IdsUpTo(c) == \A n \in Node : \A k \in 1..Len(log[n]) : log[n][k].cmd.id \in 1..c

\* In a term the leader appends in the order of the calls, but for the calls
\* in A.
TermOrder(A) ==
    \A n \in Node : \A k, m \in 1..Len(log[n]) :
      (k < m /\ log[n][k].term = log[n][m].term /\ log[n][k].cmd.id > log[n][m].cmd.id) =>
        log[n][m].cmd.id \in A

\* A write of an earlier call was appended before a committed one of a later
\* call: in an earlier term, or below it.
CommitOrder(A) ==
    \A e \in committed, n \in Node : \A k \in 1..Len(log[n]) :
      (log[n][k].cmd.id < e.cmd.id /\ log[n][k].cmd.id \notin A) =>
        log[n][k].term < e.term \/ (log[n][k].term = e.term /\ k < e.index)

\* The inductive invariant of the cluster with the router
RouterInv ==
    /\ ClusterInv
    /\ RouterTypeOK
    /\ \A r \in late : r.cmd.id \in AbandonedCalls
    /\ AcksCommitted
    /\ ReadsDurable
    /\ IdsUpTo(LastCall)
    /\ TermOrder(AbandonedCalls)
    /\ CommitOrder(AbandonedCalls)

-----------------------------------------------------------------------------
(* What a step of the cluster does to the order of the writes *)

\* With nothing forgotten, a log is the one it was or the leader's.
LEMMA WholeLogs ==
    ASSUME ClusterInv, forgotten.term = 0, NEW i, NEW P, NEW es,
           Sent(i, es), Delivered(i, P, es), NEW n \in Node
    PROVE  log'[n] = log[n] \/ log'[n] = es
<1>1. /\ log[n] \in Seq(Entry) /\ log'[n] \in Seq(Entry) /\ es \in Seq(Entry)
      /\ i \in leaders
  BY DEF ClusterInv, ClusterTypeOK, Delivered, Sent
<1>2. CASE n \in P
  <2>1. Took(log'[n], log[n], es)
    BY <1>2 DEF Delivered
  <2>2. CASE Len(log'[n]) = Len(es)
    <3>1. ASSUME NEW k \in 1..Len(es) PROVE log'[n][k] = es[k]
      <4>1. /\ log'[n][k].term = es[k].term
            /\ log'[n][k] = es[k] \/ (k \in 1..Len(log[n]) /\ log'[n][k] = log[n][k])
        BY <2>1 DEF Took
      <4>2. ASSUME k \in 1..Len(log[n]), log'[n][k] = log[n][k] PROVE log[n][k] = es[k]
        <5>1. Match(0, log[n], es)
          BY <1>1, SentMatches
        <5>2. es[k].term > 0
          <6>1. es[k] \in Entry
            BY <1>1
          <6> QED BY <6>1 DEF Entry
        <5>3. log[n][k].term = es[k].term /\ k <= k
          BY <4>1, <4>2
        <5> QED BY <4>2, <5>1, <5>2, <5>3 DEF Match
      <4> QED BY <4>1, <4>2
    <3> QED BY <1>1, <2>2, <3>1, SameSeq
  <2> QED BY <2>1, <2>2 DEF Took
<1>3. CASE n \notin P
  BY <1>3 DEF Delivered
<1> QED BY <1>2, <1>3

\* A committed entry is in some log.
LEMMA SomewhereHeld ==
    ASSUME ClusterInv, forgotten = [writes |-> {}, term |-> 0], NEW e \in committed
    PROVE  Kept(e) /\ \E n \in Node : Holds(n, e)
<1>1. e \in Entry
  BY DEF ClusterInv, ClusterTypeOK
<1>2. Kept(e)
  BY <1>1 DEF Kept, Entry
<1>3. PICK Q : IsMajority(Q) /\ \A q \in Q : Holds(q, e)
  BY <1>2 DEF ClusterInv, CommittedHeld, OnQuorum
<1>4. PICK n \in Node : n \in Q
  BY <1>3, MajoritiesMeet DEF ClusterInv
<1> QED BY <1>2, <1>3, <1>4

\* What es adds to the log of node i is of call c, or of the calls in A.
FreshIds(i, es, c, A) ==
    \A k \in 1..Len(es) : k \notin 1..Len(log[i]) =>
      es[k].cmd.id \in 1..c /\ (es[k].cmd.id = c \/ es[k].cmd.id \in A)

\* Replicate appends one entry, with the number of the call that is handled.
LEMMA AppendIsFresh ==
    ASSUME NEW i, NEW S, log[i] \in Seq(S), NEW e \in S, NEW c, NEW A,
           e.cmd.id \in 1..c, e.cmd.id = c \/ e.cmd.id \in A
    PROVE  FreshIds(i, Append(log[i], e), c, A)
<1>1. PICK l \in Seq(S) : l = log[i]
  BY Zenon
<1>2. Len(Append(l, e)) = Len(l) + 1 /\ Append(l, e)[Len(l) + 1] = e
  BY AppendFacts, Zenon
<1>3. \A k \in 1..(Len(l) + 1) : k \notin 1..Len(l) => k = Len(l) + 1
  BY LenFacts
<1> QED BY <1>1, <1>2, <1>3, Zenon DEF FreshIds

\* A command of the last call, or of one given up on
OfCalls(cmd) ==
    cmd.id \in 1..LastCall /\ (cmd.id = LastCall \/ cmd.id \in AbandonedCalls)

\* Replicate appends such a command.
LEMMA ReplicateIsFresh ==
    ASSUME NEW i \in Node, NEW cmd \in Cmd, log[i] \in Seq(Entry), EntryOf(i, cmd) \in Entry,
           OfCalls(cmd)
    PROVE  FreshIds(i, Append(log[i], EntryOf(i, cmd)), LastCall, AbandonedCalls)
<1>1. EntryOf(i, cmd).cmd = cmd
  BY Zenon DEF EntryOf
<1> QED BY <1>1, AppendIsFresh, Zenon DEF OfCalls

\* A leader that appends under the last call, or a call in A, keeps the order.
LEMMA OrderStep ==
    ASSUME ClusterInv, ClusterInv', forgotten = [writes |-> {}, term |-> 0],
           forgotten' = forgotten, NEW i, NEW P, NEW es, Sent(i, es), Delivered(i, P, es),
           NEW c \in Nat, NEW A, IdsUpTo(c), TermOrder(A), CommitOrder(A),
           FreshIds(i, es, c, A)
    PROVE  IdsUpTo(c)' /\ TermOrder(A)' /\ CommitOrder(A)'
<1>1. /\ log \in [Node -> Seq(Entry)] /\ i \in Node /\ i \in leaders /\ i \notin P
      /\ es \in Seq(Entry) /\ Len(es) \in Nat /\ Len(log[i]) \in Nat
      /\ Len(log[i]) <= Len(es) /\ log'[i] = es /\ currentTerm[i] \in Nat
      /\ currentTerm'[i] = currentTerm[i] /\ leaders' = leaders \ P
      /\ committed' = committed \union Committable(i, log', currentTerm')
      /\ log' \in [Node -> Seq(Entry)]
  BY DEF ClusterInv, ClusterTypeOK, Delivered, Sent
<1>2. \A n \in Node : log'[n] = log[n] \/ log'[n] = es
  BY WholeLogs
<1>3. \A k \in 1..Len(log[i]) : k \in 1..Len(es) /\ es[k] = log[i][k]
  BY <1>1 DEF Sent
<1>4. \A k \in 1..Len(es) : es[k].cmd.id \in 1..c
  BY <1>1, <1>3 DEF IdsUpTo, FreshIds
<1>5. IdsUpTo(c)'
  <2> SUFFICES ASSUME NEW n \in Node, NEW k \in 1..Len(log'[n])
               PROVE  log'[n][k].cmd.id \in 1..c
    BY DEF IdsUpTo
  <2>1. CASE log'[n] = log[n]
    BY <2>1 DEF IdsUpTo
  <2>2. CASE log'[n] = es
    BY <1>4, <2>2
  <2> QED BY <1>2, <2>1, <2>2
<1>6. ASSUME NEW k \in 1..Len(es), NEW m \in 1..Len(es), k < m,
             es[k].term = es[m].term, es[k].cmd.id > es[m].cmd.id
      PROVE  es[m].cmd.id \in A
  <2>1. CASE m \in 1..Len(log[i])
    <3>1. k \in 1..Len(log[i])
      BY <1>1, <1>6, <2>1
    <3>2. es[k] = log[i][k] /\ es[m] = log[i][m]
      BY <1>3, <2>1, <3>1, Zenon
    <3> QED BY <1>1, <1>6, <2>1, <3>1, <3>2 DEF TermOrder
  <2>2. CASE m \notin 1..Len(log[i])
    BY <1>4, <1>6, <2>2 DEF FreshIds
  <2> QED BY <2>1, <2>2
<1>7. TermOrder(A)'
  <2> SUFFICES ASSUME NEW n \in Node, NEW k \in 1..Len(log'[n]), NEW m \in 1..Len(log'[n]),
                      k < m, log'[n][k].term = log'[n][m].term,
                      log'[n][k].cmd.id > log'[n][m].cmd.id
               PROVE  log'[n][m].cmd.id \in A
    BY DEF TermOrder
  <2>1. CASE log'[n] = log[n]
    BY <2>1 DEF TermOrder
  <2>2. CASE log'[n] = es
    BY <1>6, <2>2
  <2> QED BY <1>2, <2>1, <2>2
<1>8. ASSUME NEW e \in committed, NEW n \in Node, NEW k \in 1..Len(log'[n]),
             log'[n][k].cmd.id < e.cmd.id, log'[n][k].cmd.id \notin A
      PROVE  log'[n][k].term < e.term \/ (log'[n][k].term = e.term /\ k < e.index)
  <2>1. CASE log'[n] = log[n]
    BY <1>8, <2>1 DEF CommitOrder
  <2>2. CASE log'[n] = es
    <3>1. CASE k \in 1..Len(log[i])
      <4>1. log'[n][k] = log[i][k]
        BY <1>3, <2>2, <3>1
      <4>2. log[i][k].cmd.id < e.cmd.id /\ log[i][k].cmd.id \notin A
        BY <1>8, <4>1, Zenon
      <4>3. log[i][k].term < e.term \/ (log[i][k].term = e.term /\ k < e.index)
        BY <1>1, <3>1, <4>2, Zenon DEF CommitOrder
      <4> QED BY <4>1, <4>3, Zenon
    <3>2. CASE k \notin 1..Len(log[i])
      <4>1. log'[n][k].cmd.id = c
        BY <1>8, <2>2, <3>2 DEF FreshIds
      <4>2. PICK q \in Node : Holds(q, e)
        BY SomewhereHeld
      <4>3. e.cmd.id \in 1..c
        BY <4>2 DEF Holds, HasEntry, IdsUpTo
      <4> QED BY <1>8, <4>1, <4>3
    <3> QED BY <3>1, <3>2
  <2> QED BY <1>2, <2>1, <2>2
<1>9. ASSUME NEW e \in Committable(i, log', currentTerm'),
             NEW n \in Node, NEW k \in 1..Len(log'[n]),
             log'[n][k].cmd.id < e.cmd.id, log'[n][k].cmd.id \notin A
      PROVE  log'[n][k].term < e.term \/ (log'[n][k].term = e.term /\ k < e.index)
  <2>1. e \in committed' /\ forgotten' = [writes |-> {}, term |-> 0]
    BY <1>1
  <2>2. e \in Entry
    BY <2>1 DEF ClusterInv, ClusterTypeOK
  <2>3. Kept(e)
    BY <2>2 DEF Kept, Entry
  <2>4. ~(log'[n][k].term > e.term)
    BY <2>3, NewlyCommitted DEF ClusterInv
  <2>5. log'[n][k] \in Entry
    BY <1>1
  <2>6. PICK m \in 1..Len(es) : e = es[m] /\ e.term = currentTerm[i]
    <3>1. PICK m \in DOMAIN log'[i] : e = log'[i][m] /\ log'[i][m].term = currentTerm[i]
      BY Zenon DEF Committable
    <3>2. m \in 1..Len(es) /\ e = es[m]
      <4>1. log'[i] = es /\ DOMAIN es = 1..Len(es)
        BY <1>1
      <4> QED BY <3>1, <4>1
    <3> QED BY <3>1, <3>2
  <2>7. e.index = m
    BY <2>6 DEF Sent, Contiguous
  <2>8. CASE log'[n][k].term = e.term
    <3>1. i \in leaders' /\ currentTerm'[i] = e.term /\ e.term > forgotten'.term
      <4>1. forgotten'.term = 0
        BY <2>1
      <4>2. e.term > 0
        BY <2>2 DEF Entry
      <4>3. i \in leaders' /\ currentTerm'[i] = e.term
        BY <1>1, <2>6
      <4> QED BY <4>1, <4>2, <4>3
    <3>2. HasEntry(log'[i], k) /\ log'[i][k] = log'[n][k]
      BY <2>8, <3>1 DEF ClusterInv, LeaderHasItsTerm
    <3>3. k \in 1..Len(es) /\ es[k] = log'[n][k]
      BY <1>1, <3>2 DEF HasEntry
    <3>4. k # m
      <4>1. log'[n][k].cmd.id \in Nat
        BY <2>5 DEF Entry, Cmd
      <4> QED BY <1>9, <2>6, <3>3, <4>1
    <3>5. ~(m < k)
      BY <1>6, <1>9, <2>6, <2>8, <3>3
    <3> QED BY <2>7, <2>8, <3>3, <3>4, <3>5
  <2>9. CASE log'[n][k].term # e.term
    BY <2>2, <2>4, <2>5, <2>9 DEF Entry
  <2> QED BY <2>8, <2>9
<1>10. CommitOrder(A)'
  BY <1>1, <1>8, <1>9, Zenon DEF CommitOrder
<1> QED BY <1>5, <1>7, <1>10

\* What is durable stays so when logs change,
LEMMA DurableDelivered ==
    ASSUME ClusterInv, forgotten = [writes |-> {}, term |-> 0], NEW i, NEW P, NEW es,
           Sent(i, es), Delivered(i, P, es), NEW v, Durable(v)
    PROVE  Durable(v)'
<1>1. PICK e \in committed : \E m \in 1..e.index :
         \A n \in Node : Holds(n, e) => log[n][m].cmd.id = v
  BY DEF Durable
<1>2. PICK m \in 1..e.index : \A n \in Node : Holds(n, e) => log[n][m].cmd.id = v
  BY <1>1
<1>3. PICK q \in Node : Holds(q, e)
  BY SomewhereHeld
<1>4. /\ e \in Entry /\ e.term > 0 /\ e.index \in Nat /\ i \in Node /\ i \in leaders
      /\ Len(log[i]) \in Nat /\ e \in committed'
  BY DEF ClusterInv, ClusterTypeOK, Entry, Delivered
<1>5. ASSUME NEW n \in Node, Holds(n, e)' PROVE log'[n][m].cmd.id = v
  <2>1. CASE log'[n] = log[n]
    <3>1. Holds(n, e)
      BY <1>5, <2>1 DEF Holds
    <3> QED BY <1>2, <2>1, <3>1
  <2>2. CASE log'[n] = es
    <3>1. e.index \in 1..Len(es) /\ es[e.index] = e
      BY <1>5, <2>2 DEF Holds, HasEntry
    <3>2. e.index \in 1..Len(log[i])
      <4> SUFFICES ASSUME e.index \notin 1..Len(log[i]) PROVE FALSE
        OBVIOUS
      <4>1. e.term = currentTerm[i] /\ currentTerm[i] > forgotten.term
        BY <1>4, <3>1 DEF Sent
      <4>2. e.index \in 1..Len(log[q]) /\ log[q][e.index].term = currentTerm[i]
        BY <1>3, <4>1 DEF Holds, HasEntry
      <4>3. HasEntry(log[i], e.index)
        BY <1>4, <4>1, <4>2, Zenon DEF ClusterInv, LeaderHasItsTerm
      <4> QED BY <4>3 DEF HasEntry
    <3>3. Holds(i, e)
      BY <3>1, <3>2 DEF Sent, Holds, HasEntry
    <3>4. m \in 1..Len(log[i])
      BY <1>4, <3>2
    <3>5. es[m] = log[i][m]
      BY <3>4 DEF Sent
    <3> QED BY <1>2, <1>4, <2>2, <3>3, <3>5
  <2> QED BY <2>1, <2>2, WholeLogs
<1> QED BY <1>4, <1>5 DEF Durable

\* and when they do not.
LEMMA DurableQuiet ==
    ASSUME log' = log, committed' = committed, NEW v, Durable(v)
    PROVE  Durable(v)'
BY DEF Durable, Holds

\* RunApplyLoop applies what is durable.
LEMMA AppliedDurable ==
    ASSUME ClusterInv, forgotten = [writes |-> {}, term |-> 0], NEW i \in Node, Apply(i)
    PROVE  Durable(log[i][lastApplied[i] + 1].cmd.id)
<1> DEFINE m == lastApplied[i] + 1
<1>1. PICK e \in committed : e.index > lastApplied[i] /\ TermAt(log[i], e.index) = e.term
  BY Zenon DEF Apply
<1>2. /\ e \in Entry /\ lastApplied[i] \in Nat /\ log[i] \in Seq(Entry)
  BY DEF ClusterInv, ClusterTypeOK
<1>3. /\ e.index \in 1..Len(log[i]) /\ e.index \in Nat /\ Len(log[i]) \in Nat
      /\ log[i][e.index].term = e.term /\ e.term > 0
  BY <1>1, <1>2 DEF TermAt, HasEntry, Entry
<1>4. m \in 1..e.index /\ m \in 1..Len(log[i])
  BY <1>1, <1>2, <1>3
<1> HIDE DEF m
<1>5. ASSUME NEW n \in Node, Holds(n, e) PROVE log[n][m].cmd.id = log[i][m].cmd.id
  <2>1. e.index \in 1..Len(log[n]) /\ log[n][e.index] = e /\ Len(log[n]) \in Nat
    BY <1>5 DEF Holds, HasEntry, ClusterInv, ClusterTypeOK
  <2>2. Match(0, log[n], log[i])
    BY DEF ClusterInv, TermsMatch
  <2>3. log[n][e.index].term = log[i][e.index].term /\ log[i][e.index].term > 0
        /\ e.index <= e.index
    BY <1>3, <2>1
  <2>4. \A j \in 1..e.index : log[n][j].term = log[i][j].term
    BY <1>3, <2>1, <2>2, <2>3 DEF Match
  <2>5. log[n][m].term = log[i][m].term /\ m \in 1..Len(log[n]) /\ m <= m
    BY <1>3, <1>4, <2>1, <2>4
  <2>6. log[i][m].term > 0
    <3>1. log[i][m] \in Entry
      BY <1>2, <1>4
    <3> QED BY <3>1 DEF Entry
  <2>7. log[n][m] = log[i][m]
    BY <1>4, <2>2, <2>5, <2>6, Zenon DEF Match
  <2> QED BY <2>7
<1>6. Durable(log[i][m].cmd.id)
  BY <1>4, <1>5, Zenon DEF Durable
<1> QED BY <1>6, Zenon DEF m

\* Replicate answers true once the entry is committed.
LEMMA WriteCommits ==
    ASSUME ClusterInv, NEW i, NEW cmd \in Cmd, NEW P \in SUBSET Node, NEW es,
           Delivered(i, P, es), Sent(i, es),
           es = Append(log[i], EntryOf(i, cmd)),
           Cardinality(P) + 1 >= Majority
    PROVE  \E e \in committed' : e.cmd.id = cmd.id
<1>1. PICK e : e = EntryOf(i, cmd)
  BY Zenon
<1>2. /\ i \in Node /\ i \in leaders /\ log[i] \in Seq(Entry) /\ log'[i] = es
      /\ currentTerm[i] \in Nat /\ currentTerm'[i] = currentTerm[i] /\ i \notin P
      /\ \A n \in P : currentTerm'[n] = currentTerm[i] /\ Took(log'[n], log[n], es)
      /\ committed' = committed \union Committable(i, log', currentTerm')
  BY Zenon DEF ClusterInv, ClusterTypeOK, Delivered
<1> DEFINE m == Len(log[i]) + 1
           S == {q \in Node : TermAt(log'[q], m) = currentTerm[i]
                              /\ currentTerm'[q] = currentTerm[i]}
<1>3. e \in Entry /\ e.term = currentTerm[i] /\ e.cmd = cmd
  BY <1>1, <1>2, ReplicateSends, Zenon DEF EntryOf
<1>4. /\ Len(es) = m /\ m \in 1..Len(es) /\ es[m] = e /\ DOMAIN es = 1..Len(es)
  BY <1>1, <1>2, <1>3, AppendFacts
<1> HIDE DEF m
<1>5. i \in S
  BY <1>2, <1>3, <1>4 DEF TermAt, HasEntry
<1>6. P \subseteq S
  <2> SUFFICES ASSUME NEW q \in P PROVE q \in S
    BY Zenon
  <2>1. m \in 1..Len(log'[q]) /\ log'[q][m].term = e.term
    BY <1>2, <1>4 DEF Took
  <2> QED BY <1>2, <1>3, <2>1 DEF TermAt, HasEntry
<1>7. Cardinality(S) >= Majority
  <2>1. /\ P \in SUBSET Node /\ S \in SUBSET Node /\ Node \in SUBSET Node
        /\ P \union {i} \in SUBSET Node /\ i \in Node \ P
    BY <1>2
  <2>2. Cardinality(P \union {i}) = Cardinality(P) + 1
    BY <2>1, Zenon DEF ClusterInv, Sizes
  <2>3. P \union {i} \subseteq S
    BY <1>5, <1>6
  <2>4. Cardinality(P \union {i}) <= Cardinality(S)
    BY <2>1, <2>3, Zenon DEF ClusterInv, Sizes
  <2>5. Cardinality(P) \in Nat /\ Cardinality(S) \in Nat /\ Cardinality(Node) \in Nat
    BY <2>1, Zenon DEF ClusterInv, Sizes
  <2> HIDE DEF S
  <2> QED BY <2>2, <2>4, <2>5 DEF Majority
<1>8. e \in Committable(i, log', currentTerm')
  BY <1>2, <1>3, <1>4, <1>7, Zenon DEF Committable
<1> QED BY <1>2, <1>3, <1>8

-----------------------------------------------------------------------------
(* What the router's steps do to its own state *)

\* A call under way
CallRec == [st : {"sent", "answered"}, i : 1..Len(Addrs), answer : Nat,
            abandoned : BOOLEAN, cmd : RouterCmd]

\* A call that has returned
ReturnRec == [cmd : RouterCmd, ok : BOOLEAN, res : Nat, abandoned : BOOLEAN]

\* A call is made, stays, or returns; what was abandoned stays abandoned.
RouterMove ==
    /\ RouterTypeOK'
    /\ LastCall' >= LastCall /\ LastCall' \in Nat
    /\ AbandonedCalls \subseteq AbandonedCalls'

\* The types of the router's state, one by one
LEMMA RouterTypes ==
    ASSUME RouterTypeOK
    PROVE  /\ Len(returned) \in Nat /\ LastCall \in Nat
           /\ \A k \in 1..Len(returned) : returned[k] \in ReturnRec
           /\ call.st # "idle" =>
                /\ call \in CallRec /\ LastCall = Len(returned) + 1
                /\ call.cmd.id = LastCall
           /\ call.st = "idle" => call = NoCall /\ LastCall = Len(returned)
<1>1. returned \in Seq(ReturnRec) /\ Len(returned) \in Nat
  BY DEF RouterTypeOK, ReturnRec
<1>2. call = NoCall \/ call \in CallRec
  BY DEF RouterTypeOK, CallRec
<1>3. NoCall.st = "idle"
  BY DEF NoCall
<1>4. call \in CallRec => call.st # "idle"
  BY DEF CallRec
<1>5. call.st # "idle" => call.cmd.id = Len(returned) + 1
  BY DEF RouterTypeOK
<1> QED BY <1>1, <1>2, <1>3, <1>4, <1>5 DEF LastCall

\* The call stays under way, with the same command.
LEMMA CallGoesOn ==
    ASSUME RouterTypeOK, call.st # "idle", call' \in CallRec, call'.cmd = call.cmd,
           call.abandoned => call'.abandoned, returned' = returned,
           forgotten' = forgotten, late' \subseteq [node : Node, cmd : Cmd]
    PROVE  /\ RouterMove /\ LastCall' = LastCall
           /\ call'.abandoned => LastCall \in AbandonedCalls'
           /\ call'.abandoned = call.abandoned => AbandonedCalls' = AbandonedCalls
<1>1. /\ Len(returned) \in Nat /\ LastCall = Len(returned) + 1 /\ call \in CallRec
      /\ call.cmd.id = LastCall
  BY RouterTypes
<1>2. call'.st # "idle"
  BY DEF CallRec
<1>3. LastCall' = LastCall
  BY <1>1, <1>2 DEF LastCall
<1>4. RouterTypeOK'
  BY <1>1, <1>2 DEF RouterTypeOK, CallRec
<1>5. /\ AbandonedCalls \subseteq AbandonedCalls'
      /\ call'.abandoned => LastCall \in AbandonedCalls'
      /\ call'.abandoned = call.abandoned => AbandonedCalls' = AbandonedCalls
  BY <1>1, <1>3 DEF AbandonedCalls
<1> QED BY <1>1, <1>3, <1>4, <1>5 DEF RouterMove

\* The call returns.
LEMMA CallReturns ==
    ASSUME RouterTypeOK, call.st # "idle", NEW x \in ReturnRec, x.cmd = call.cmd,
           call.abandoned => x.abandoned, call' = NoCall, returned' = Append(returned, x),
           forgotten' = forgotten, late' \subseteq [node : Node, cmd : Cmd]
    PROVE  /\ RouterMove /\ LastCall' = LastCall
           /\ x.abandoned => LastCall \in AbandonedCalls'
           /\ Len(returned') = Len(returned) + 1
           /\ \A k \in 1..Len(returned) : returned'[k] = returned[k]
           /\ returned'[Len(returned) + 1] = x
<1>1. /\ Len(returned) \in Nat /\ LastCall = Len(returned) + 1 /\ call \in CallRec
      /\ call.cmd.id = LastCall
  BY RouterTypes
<1>2. returned \in Seq(ReturnRec)
  BY DEF RouterTypeOK, ReturnRec
<1>3. /\ returned' \in Seq(ReturnRec) /\ Len(returned') = Len(returned) + 1
      /\ \A k \in 1..Len(returned) : returned'[k] = returned[k]
      /\ returned'[Len(returned) + 1] = x
  BY <1>2, AppendFacts
<1>4. call'.st = "idle"
  BY DEF NoCall
<1>5. LastCall' = LastCall
  BY <1>1, <1>3, <1>4 DEF LastCall
<1>6. \A k \in 1..Len(returned') : returned'[k].cmd.id = k
  BY <1>1, <1>3 DEF RouterTypeOK
<1>7. RouterTypeOK'
  BY <1>3, <1>4, <1>6, Zenon DEF RouterTypeOK, ReturnRec
<1>8. /\ AbandonedCalls \subseteq AbandonedCalls'
      /\ x.abandoned => LastCall \in AbandonedCalls'
  BY <1>1, <1>3, <1>5 DEF AbandonedCalls
<1> QED BY <1>1, <1>3, <1>5, <1>7, <1>8 DEF RouterMove

\* Nothing happens to the calls.
LEMMA CallsStay ==
    ASSUME RouterTypeOK, call' = call, returned' = returned, forgotten' = forgotten,
           late' \subseteq [node : Node, cmd : Cmd]
    PROVE  RouterMove /\ LastCall' = LastCall /\ AbandonedCalls' = AbandonedCalls
<1>1. LastCall \in Nat
  BY RouterTypes
<1>2. LastCall' = LastCall /\ AbandonedCalls' = AbandonedCalls
  BY DEF LastCall, AbandonedCalls
<1>3. RouterTypeOK'
  BY DEF RouterTypeOK
<1> QED BY <1>1, <1>2, <1>3 DEF RouterMove

-----------------------------------------------------------------------------
(* RouterInv is inductive *)

\* The order of the writes holds with more calls and more of them abandoned.
LEMMA OrderGrows ==
    ASSUME log' = log, committed' = committed, NEW c \in Nat, NEW d \in Nat, c <= d,
           NEW A, NEW B, A \subseteq B, IdsUpTo(c), TermOrder(A), CommitOrder(A)
    PROVE  IdsUpTo(d)' /\ TermOrder(B)' /\ CommitOrder(B)'
<1>1. IdsUpTo(d)'
  <2> SUFFICES ASSUME NEW n \in Node, NEW k \in 1..Len(log[n])
               PROVE  log[n][k].cmd.id \in 1..d
    BY DEF IdsUpTo
  <2>1. log[n][k].cmd.id \in 1..c
    BY Zenon DEF IdsUpTo
  <2> QED BY <2>1
<1>2. TermOrder(B)'
  BY DEF TermOrder
<1>3. CommitOrder(B)'
  BY DEF CommitOrder
<1> QED BY <1>1, <1>2, <1>3

\* A step that leaves logs and committed entries alone, and answers nothing new
LEMMA RouterQuiet ==
    ASSUME RouterInv, ClusterInv', log' = log, committed' = committed, RouterMove,
           \A r \in late' : r.cmd.id \in AbandonedCalls',
           \A j \in Nat : Acked(j)' => Acked(j),
           \A v \in Nat \ {0} : Read(v)' => (Read(v) \/ Durable(v))
    PROVE  RouterInv'
<1>1. PICK c \in Nat : c = LastCall
  BY RouterTypes DEF RouterInv
<1>2. PICK d \in Nat : d = LastCall' /\ c <= d
  BY <1>1 DEF RouterMove
<1>3. PICK A : A = AbandonedCalls
  OBVIOUS
<1>4. PICK B : B = AbandonedCalls' /\ A \subseteq B
  BY <1>3 DEF RouterMove
<1>5. IdsUpTo(c) /\ TermOrder(A) /\ CommitOrder(A)
  BY <1>1, <1>3, Zenon DEF RouterInv
<1>6. IdsUpTo(d)' /\ TermOrder(B)' /\ CommitOrder(B)'
  BY <1>2, <1>4, <1>5, OrderGrows, Zenon
<1>7. IdsUpTo(LastCall)'
  BY <1>2, <1>6, Zenon DEF IdsUpTo
<1>8. TermOrder(AbandonedCalls)' /\ CommitOrder(AbandonedCalls)'
  BY <1>4, <1>6 DEF TermOrder, CommitOrder
<1>9. AcksCommitted'
  BY DEF RouterInv, AcksCommitted
<1>10. ReadsDurable'
  <2> SUFFICES ASSUME NEW v \in Nat \ {0}, Read(v)' PROVE Durable(v)'
    BY DEF ReadsDurable
  <2>1. Durable(v)
    BY Zenon DEF RouterInv, ReadsDurable
  <2> QED BY <2>1, DurableQuiet
<1> QED BY <1>7, <1>8, <1>9, <1>10 DEF RouterInv, RouterMove

\* A step in which a leader reaches some peers
LEMMA RouterDelivered ==
    ASSUME RouterInv, ClusterInv', NEW i, NEW P, NEW es, Sent(i, es), Delivered(i, P, es),
           forgotten' = forgotten, RouterMove, LastCall' = LastCall,
           AbandonedCalls' = AbandonedCalls,
           FreshIds(i, es, LastCall, AbandonedCalls),
           \A r \in late' : r.cmd.id \in AbandonedCalls',
           \A j \in Nat : Acked(j)' => Acked(j) \/ \E e \in committed' : e.cmd.id = j,
           \A v \in Nat \ {0} : Read(v)' => Read(v)
    PROVE  RouterInv'
<1>1. PICK c \in Nat : c = LastCall
  BY RouterTypes DEF RouterInv
<1>2. PICK A : A = AbandonedCalls
  BY Zenon
<1>3. /\ IdsUpTo(c) /\ TermOrder(A) /\ CommitOrder(A) /\ ClusterInv
      /\ forgotten = [writes |-> {}, term |-> 0]
  BY <1>1, <1>2, Zenon DEF RouterInv, RouterTypeOK
<1>4. FreshIds(i, es, c, A)
  BY <1>1, <1>2, Zenon DEF FreshIds
<1>5. IdsUpTo(c)' /\ TermOrder(A)' /\ CommitOrder(A)'
  BY <1>3, <1>4, OrderStep, Zenon
<1>6. IdsUpTo(LastCall)'
  BY <1>1, <1>5, Zenon DEF IdsUpTo
<1>7. TermOrder(AbandonedCalls)' /\ CommitOrder(AbandonedCalls)'
  BY <1>2, <1>5, Zenon DEF TermOrder, CommitOrder
<1>8. AcksCommitted'
  <2>1. committed \subseteq committed'
    BY Zenon DEF Delivered
  <2> QED BY <2>1, Zenon DEF RouterInv, AcksCommitted
<1>9. ReadsDurable'
  <2> SUFFICES ASSUME NEW v \in Nat \ {0}, Read(v)' PROVE Durable(v)'
    BY Zenon DEF ReadsDurable
  <2>1. Durable(v)
    BY DEF RouterInv, ReadsDurable
  <2> QED BY <1>3, <2>1, DurableDelivered, Zenon
<1> QED BY <1>6, <1>7, <1>8, <1>9, Zenon DEF RouterInv, RouterMove

\* The store takes the next command.
LEMMA RouterApply ==
    ASSUME RouterInv, NEW i \in Node, Apply(i), UNCHANGED routerVars
    PROVE  RouterInv'
<1>1. /\ ClusterInv /\ RouterTypeOK /\ forgotten = [writes |-> {}, term |-> 0]
      /\ data \in [Node -> [Key -> Nat]]
      /\ late \subseteq [node : Node, cmd : Cmd]
  BY Zenon DEF RouterInv, RouterTypeOK, ClusterInv, ClusterTypeOK
<1>2. /\ log' = log /\ committed' = committed /\ forgotten' = forgotten
      /\ call' = call /\ returned' = returned /\ late' = late
  BY DEF Apply, raftVars, routerVars
<1>3. RouterMove /\ AbandonedCalls' = AbandonedCalls
  BY <1>1, <1>2, CallsStay
<1>4. PICK c : c = log[i][lastApplied[i] + 1].cmd
  BY Zenon
<1>5. ASSUME NEW v \in Nat \ {0}, Read(v)' PROVE Read(v) \/ Durable(v)
  <2>1. ASSUME NEW n \in Node, NEW k \in Key, data'[n][k] = v, data[n][k] # v
        PROVE  Durable(v)
    <3>1. data' = [data EXCEPT ![i][c.key] = IF c.op = "delete" THEN 0 ELSE c.id]
      BY <1>4 DEF Apply
    <3>2. v = c.id
      BY <1>1, <2>1, <3>1, Zenon
    <3> QED BY <1>1, <1>4, <3>2, AppliedDurable, Zenon
  <2> QED BY <1>2, <1>5, <2>1, Zenon DEF Read
<1>6. \A j \in Nat : Acked(j)' => Acked(j)
  BY <1>2 DEF Acked, Confirmed
<1>7. ClusterInv'
  BY <1>1, ApplyStep
<1> QED BY <1>2, <1>3, <1>5, <1>6, <1>7, RouterQuiet, Zenon DEF RouterInv

\* A heartbeat brings no new entry.
LEMMA RouterHeartbeat ==
    ASSUME RouterInv, NEW i \in Node, NEW p \in Node, Heartbeat(i, p), UNCHANGED routerVars
    PROVE  RouterInv'
<1>1. /\ ClusterInv /\ RouterTypeOK /\ late \subseteq [node : Node, cmd : Cmd]
  BY Zenon DEF RouterInv, RouterTypeOK
<1>2. /\ Deliver(i, {p}, log[i]) /\ UNCHANGED <<up, lastApplied, data, forgotten>>
      /\ forgotten' = forgotten /\ data' = data
      /\ call' = call /\ returned' = returned /\ late' = late
  BY DEF Heartbeat, routerVars
<1>3. Sent(i, log[i])
  BY <1>1, HeartbeatSends
<1>4. Delivered(i, {p}, log[i]) /\ ClusterInv'
  BY <1>1, <1>2, <1>3, DeliverStep
<1>5. RouterMove /\ LastCall' = LastCall /\ AbandonedCalls' = AbandonedCalls
  BY <1>1, <1>2, CallsStay, Zenon
<1>6. \A j \in Nat : Acked(j)' => Acked(j)
  BY <1>2 DEF Acked, Confirmed
<1>7. \A v \in Nat \ {0} : Read(v)' => Read(v)
  BY <1>2 DEF Read
<1>8. \A r \in late' : r.cmd.id \in AbandonedCalls'
  BY <1>2, <1>5 DEF RouterInv
<1>9. FreshIds(i, log[i], LastCall, AbandonedCalls)
  BY Zenon DEF FreshIds
<1> QED BY <1>2, <1>3, <1>4, <1>5, <1>6, <1>7, <1>8, <1>9, RouterDelivered, Zenon

\* An election, a leader that gives up, a process that ends: the logs stay.
LEMMA RouterIdle ==
    ASSUME RouterInv, ClusterInv', UNCHANGED <<log, committed, data, forgotten>>,
           UNCHANGED routerVars
    PROVE  RouterInv'
<1>1. /\ RouterTypeOK /\ late \subseteq [node : Node, cmd : Cmd]
  BY Zenon DEF RouterInv, RouterTypeOK
<1>2. /\ log' = log /\ committed' = committed /\ forgotten' = forgotten /\ data' = data
      /\ call' = call /\ returned' = returned /\ late' = late
  BY DEF routerVars
<1>3. RouterMove /\ AbandonedCalls' = AbandonedCalls
  BY <1>1, <1>2, CallsStay, Zenon
<1>4. \A j \in Nat : Acked(j)' => Acked(j)
  BY <1>2, Zenon DEF Acked, Confirmed
<1>5. \A v \in Nat \ {0} : Read(v)' => Read(v)
  BY <1>2, Zenon DEF Read
<1> QED BY <1>2, <1>3, <1>4, <1>5, RouterQuiet DEF RouterInv

\* A call begins.
LEMMA RouterBegin ==
    ASSUME RouterInv, Begin
    PROVE  RouterInv'
<1>1. /\ ClusterInv /\ RouterTypeOK /\ late \subseteq [node : Node, cmd : Cmd]
  BY Zenon DEF RouterInv, RouterTypeOK
<1>2. /\ call.st = "idle" /\ returned' = returned /\ late' = late /\ UNCHANGED clusterVars
      /\ log' = log /\ committed' = committed /\ data' = data /\ forgotten' = forgotten
  BY DEF Begin, clusterVars, raftVars
<1>3. PICK k \in RouterKeys, op \in {"upsert", "delete", "get"} :
         call' = [st |-> "sent", i |-> 1, answer |-> 0, abandoned |-> FALSE,
                  cmd |-> [id |-> Len(returned) + 1, key |-> k, op |-> op]]
  BY Zenon DEF Begin
<1>4. LastCall = Len(returned) /\ Len(returned) \in Nat
  BY <1>1, <1>2, RouterTypes
<1>5. call' \in CallRec
  <2>1. 1 \in 1..Len(Addrs) /\ k \in Key
    BY RouterAssumption
  <2> QED BY <1>3, <1>4, <2>1 DEF CallRec, RouterCmd
<1>6. RouterTypeOK'
  BY <1>1, <1>2, <1>3, <1>4, <1>5, Zenon DEF RouterTypeOK, CallRec
<1>7. LastCall' = LastCall + 1
  BY <1>2, <1>3, <1>4 DEF LastCall
<1>8. AbandonedCalls \subseteq AbandonedCalls'
  BY <1>2, <1>4, <1>7 DEF AbandonedCalls
<1>9. RouterMove
  BY <1>4, <1>6, <1>7, <1>8 DEF RouterMove
<1>10. \A j \in Nat : Acked(j)' => Acked(j)
  BY <1>2, <1>3, Zenon DEF Acked, Confirmed
<1>11. \A v \in Nat \ {0} : Read(v)' => Read(v)
  BY <1>2, <1>3 DEF Read
<1>12. ClusterInv'
  BY <1>1, <1>2, SameCluster
<1> QED BY <1>2, <1>8, <1>9, <1>10, <1>11, <1>12, RouterQuiet, Zenon DEF RouterInv

\* The node answers a Get with what is in its store.
LEMMA RouterGet ==
    ASSUME RouterInv, Handle, call.cmd.op = "get"
    PROVE  RouterInv'
<1>1. /\ ClusterInv /\ RouterTypeOK /\ late \subseteq [node : Node, cmd : Cmd]
      /\ data \in [Node -> [Key -> Nat]]
  BY DEF RouterInv, RouterTypeOK, ClusterInv, ClusterTypeOK
<1>2. /\ call.st = "sent" /\ returned' = returned /\ late' = late /\ UNCHANGED clusterVars
      /\ log' = log /\ committed' = committed /\ data' = data /\ forgotten' = forgotten
      /\ call' = [call EXCEPT !.st = "answered",
                              !.answer = data[Addrs[call.i]][call.cmd.key]]
  BY DEF Handle, handleGet, clusterVars, raftVars
<1>3. call \in CallRec
  BY <1>1, <1>2, RouterTypes
<1>4. PICK n \in Node, k \in Key : n = Addrs[call.i] /\ k = call.cmd.key
  BY <1>3, RouterAssumption DEF CallRec, RouterCmd
<1>5. /\ call' \in CallRec /\ call'.cmd = call.cmd /\ call'.abandoned = call.abandoned
      /\ call'.answer = data[n][k]
  BY <1>1, <1>2, <1>3, <1>4, Zenon DEF CallRec
<1>6. RouterMove /\ AbandonedCalls' = AbandonedCalls
  BY <1>1, <1>2, <1>5, CallGoesOn
<1>7. \A j \in Nat : Acked(j)' => Acked(j)
  BY <1>2, <1>5, Zenon DEF Acked, Confirmed
<1>8. \A v \in Nat \ {0} : Read(v)' => Read(v)
  BY <1>2, <1>5 DEF Read
<1>9. ClusterInv'
  BY <1>1, <1>2, SameCluster
<1> QED BY <1>2, <1>6, <1>7, <1>8, <1>9, RouterQuiet, Zenon DEF RouterInv

\* A call goes on to the next address, or returns: with no answer that it had
\* not got before.
LEMMA RouterReturns ==
    ASSUME RouterInv, call.st # "idle", UNCHANGED clusterVars,
           late' \subseteq [node : Node, cmd : Cmd],
           \/ late' = late /\ TryNext(FALSE)
           \/ /\ TryNext(TRUE)
              /\ \A r \in late' : r \in late \/ r.cmd.id = call.cmd.id
           \/ /\ Return /\ late' = late /\ call.st = "answered"
              /\ call.cmd.op = "get" \/ call.answer = 200
    PROVE  RouterInv'
<1>1. /\ ClusterInv /\ RouterTypeOK
  BY DEF RouterInv
<1>2. /\ log' = log /\ committed' = committed /\ data' = data /\ forgotten' = forgotten
  BY DEF clusterVars, raftVars
<1>3. /\ call \in CallRec /\ LastCall = Len(returned) + 1 /\ call.cmd.id = LastCall
      /\ Len(returned) \in Nat
  BY <1>1, RouterTypes
<1>4. ClusterInv'
  BY <1>1, SameCluster, Zenon
<1>5. SUFFICES /\ RouterMove
               /\ \A r \in late' : r.cmd.id \in AbandonedCalls'
               /\ \A j \in Nat : Acked(j)' => Acked(j)
               /\ \A v \in Nat \ {0} : Read(v)' => Read(v)
  BY <1>2, <1>4, RouterQuiet, Zenon
<1>6. ASSUME NEW b \in BOOLEAN, TryNext(b),
             \A r \in late' : r \in late \/ (b /\ r.cmd.id = call.cmd.id)
      PROVE  /\ RouterMove
             /\ \A r \in late' : r.cmd.id \in AbandonedCalls'
             /\ \A j \in Nat : Acked(j)' => Acked(j)
             /\ \A v \in Nat \ {0} : Read(v)' => Read(v)
  <2>1. CASE call.i < Len(Addrs)
    <3>1. /\ call' = [call EXCEPT !.st = "sent", !.i = @ + 1, !.abandoned = @ \/ b]
          /\ returned' = returned
      BY <1>6, <2>1 DEF TryNext
    <3>2. /\ call'.st = "sent" /\ call'.i = call.i + 1 /\ call'.answer = call.answer
          /\ call'.abandoned = (call.abandoned \/ b) /\ call'.cmd = call.cmd
      BY <1>3, <3>1 DEF CallRec
    <3>3. Len(Addrs) \in Nat /\ call.i \in 1..Len(Addrs)
      BY <1>3, RouterAssumption DEF CallRec
    <3>4. call' \in CallRec
      <4>1. call.i + 1 \in 1..Len(Addrs)
        BY <2>1, <3>3
      <4> QED BY <1>3, <3>1, <4>1, Zenon DEF CallRec
    <3>5. /\ RouterMove
          /\ call'.abandoned => LastCall \in AbandonedCalls'
      BY <1>1, <1>2, <3>1, <3>2, <3>4, CallGoesOn, Zenon
    <3>6. \A r \in late' : r.cmd.id \in AbandonedCalls'
      BY <1>3, <1>6, <3>2, <3>5 DEF RouterInv, RouterMove
    <3>7. \A j \in Nat : Acked(j)' => Acked(j)
      BY <3>1, <3>2 DEF Acked, Confirmed
    <3>8. \A v \in Nat \ {0} : Read(v)' => Read(v)
      BY <1>2, <3>1, <3>2, Zenon DEF Read
    <3> QED BY <3>5, <3>6, <3>7, <3>8
  <2>2. CASE ~(call.i < Len(Addrs))
    <3>1. PICK x : x = [cmd |-> call.cmd, ok |-> FALSE, res |-> 0,
                        abandoned |-> call.abandoned \/ b]
      BY Zenon
    <3>2. call' = NoCall /\ returned' = Append(returned, x)
      BY <1>6, <2>2, <3>1 DEF TryNext
    <3>3. /\ x \in ReturnRec /\ x.cmd = call.cmd /\ ~x.ok
          /\ x.abandoned = (call.abandoned \/ b)
      BY <1>3, <3>1 DEF ReturnRec, CallRec
    <3>4. /\ RouterMove
          /\ x.abandoned => LastCall \in AbandonedCalls'
          /\ Len(returned') = Len(returned) + 1
          /\ \A k \in 1..Len(returned) : returned'[k] = returned[k]
          /\ returned'[Len(returned) + 1] = x
      BY <1>1, <1>2, <3>2, <3>3, CallReturns, Zenon
    <3>5. \A r \in late' : r.cmd.id \in AbandonedCalls'
      BY <1>3, <1>6, <3>3, <3>4, Zenon DEF RouterInv, RouterMove
    <3>6. call'.st = "idle"
      BY <3>2 DEF NoCall
    <3>7. \A k \in 1..Len(returned') : returned'[k].ok => k \in 1..Len(returned)
      BY <1>3, <3>3, <3>4
    <3>8. \A j \in Nat : Acked(j)' => Acked(j)
      <4>1. DOMAIN returned' = 1..Len(returned') /\ DOMAIN returned = 1..Len(returned)
        BY <1>1, <3>4 DEF RouterTypeOK, RouterMove
      <4> QED BY <3>4, <3>6, <3>7, <4>1, Zenon DEF Acked, Confirmed
    <3>9. \A v \in Nat \ {0} : Read(v)' => Read(v)
      BY <1>2, <3>4, <3>6, <3>7 DEF Read
    <3> QED BY <3>4, <3>5, <3>8, <3>9
  <2> QED BY <2>1, <2>2
<1>7. ASSUME Return, late' = late, call.st = "answered",
             call.cmd.op = "get" \/ call.answer = 200
      PROVE  /\ RouterMove
             /\ \A r \in late' : r.cmd.id \in AbandonedCalls'
             /\ \A j \in Nat : Acked(j)' => Acked(j)
             /\ \A v \in Nat \ {0} : Read(v)' => Read(v)
  <2>1. PICK x : x = [cmd |-> call.cmd, ok |-> TRUE, res |-> call.answer,
                      abandoned |-> call.abandoned]
    BY Zenon
  <2>2. call' = NoCall /\ returned' = Append(returned, x)
    BY <1>7, <2>1, Zenon DEF Return
  <2>3. /\ x \in ReturnRec /\ x.cmd = call.cmd /\ x.res = call.answer
        /\ x.abandoned = call.abandoned
    BY <1>3, <2>1, Zenon DEF ReturnRec, CallRec
  <2>4. /\ RouterMove
        /\ Len(returned') = Len(returned) + 1
        /\ \A k \in 1..Len(returned) : returned'[k] = returned[k]
        /\ returned'[Len(returned) + 1] = x
    BY <1>1, <1>2, <2>2, <2>3, CallReturns, Zenon
  <2>5. \A r \in late' : r.cmd.id \in AbandonedCalls'
    BY <1>7, <2>4 DEF RouterInv, RouterMove
  <2>6. call'.st = "idle"
    BY <2>2 DEF NoCall
  <2>7. \A k \in 1..Len(returned') : k \in 1..Len(returned) \/ k = LastCall
    BY <1>3, <2>4
  <2>8. \A j \in Nat : Acked(j)' => Acked(j)
    <3>1. DOMAIN returned' = 1..Len(returned') /\ DOMAIN returned = 1..Len(returned)
      <4>1. RouterTypeOK'
        BY <2>4 DEF RouterMove
      <4>2. returned \in Seq(ReturnRec)
        BY <1>1, Zenon DEF RouterTypeOK, ReturnRec
      <4>3. returned' \in Seq(ReturnRec)
        BY <4>1, Zenon DEF RouterTypeOK, ReturnRec
      <4> QED BY <4>2, <4>3
    <3> QED BY <1>3, <1>7, <2>3, <2>4, <2>6, <2>7, <3>1 DEF Acked, Confirmed
  <2>9. \A v \in Nat \ {0} : Read(v)' => Read(v)
    BY <1>2, <1>3, <1>7, <2>3, <2>4, <2>6, <2>7 DEF Read
  <2> QED BY <2>4, <2>5, <2>8, <2>9
<1>8. \/ TryNext(FALSE) /\ late' = late
      \/ TryNext(TRUE) /\ \A r \in late' : r \in late \/ r.cmd.id = call.cmd.id
      \/ /\ Return /\ late' = late /\ call.st = "answered"
         /\ call.cmd.op = "get" \/ call.answer = 200
  BY Zenon
<1>9. CASE TryNext(FALSE) /\ late' = late
  BY <1>6, <1>9, Zenon
<1>10. CASE TryNext(TRUE) /\ \A r \in late' : r \in late \/ r.cmd.id = call.cmd.id
  BY <1>6, <1>10, Zenon
<1> QED BY <1>7, <1>8, <1>9, <1>10, Zenon

\* An answer arrives.
LEMMA RouterReceive ==
    ASSUME RouterInv, Receive
    PROVE  RouterInv'
<1>1. late' = late /\ late \subseteq [node : Node, cmd : Cmd] /\ UNCHANGED clusterVars
  BY Zenon DEF Receive, RouterInv, RouterTypeOK
<1>2. call.st = "answered" /\ call.st # "idle"
  BY DEF Receive
<1>3. \/ Return /\ (call.cmd.op = "get" \/ call.answer = 200)
      \/ TryNext(FALSE)
  BY Zenon DEF Receive
<1> QED BY <1>1, <1>2, <1>3, RouterReturns, Zenon

\* The client's timeout, or a connection that fails
LEMMA RouterTimeout ==
    ASSUME RouterInv, Timeout
    PROVE  RouterInv'
<1>1. late \subseteq [node : Node, cmd : Cmd] /\ UNCHANGED clusterVars /\ RouterTypeOK
  BY Zenon DEF Timeout, RouterInv, RouterTypeOK
<1>2. call.st # "idle"
  BY Zenon DEF Timeout
<1>3. CASE UNCHANGED late /\ TryNext(FALSE)
  BY <1>1, <1>2, <1>3, RouterReturns
<1>4. CASE /\ call.cmd.op # "get" /\ TryNext(TRUE)
           /\ late' = late \union {[node |-> Addrs[call.i], cmd |-> call.cmd]}
  <2>1. call \in CallRec
    BY <1>1, <1>2, RouterTypes
  <2>2. Addrs[call.i] \in Node /\ call.cmd \in Cmd
    BY <1>4, <2>1, RouterAssumption DEF CallRec, RouterCmd, Cmd
  <2>3. late' \subseteq [node : Node, cmd : Cmd]
    BY <1>1, <1>4, <2>2
  <2>4. \A r \in late' : r \in late \/ r.cmd.id = call.cmd.id
    BY <1>4
  <2> QED BY <1>1, <1>2, <1>4, <2>3, <2>4, RouterReturns, Zenon
<1> QED BY <1>3, <1>4, Zenon DEF Timeout

\* A node handles a write, of the call under way or of one given up on.
LEMMA RouterWrite ==
    ASSUME RouterInv, NEW i \in Node, NEW cmd \in Cmd, NEW code,
           handleWrite(i, cmd, code),
           RouterMove, LastCall' = LastCall, AbandonedCalls' = AbandonedCalls,
           OfCalls(cmd),
           \A r \in late' : r.cmd.id \in AbandonedCalls',
           \A j \in Nat : Acked(j)' => Acked(j) \/ (code = 200 /\ j = cmd.id),
           \A v \in Nat \ {0} : Read(v)' => Read(v)
    PROVE  RouterInv'
<1>1. ClusterInv /\ UNCHANGED <<up, lastApplied, data, forgotten>> /\ forgotten' = forgotten
  BY Zenon DEF RouterInv, handleWrite
<1>2. CASE code = 503 /\ UNCHANGED raftVars
  <2>1. UNCHANGED clusterVars /\ log' = log /\ committed' = committed
    BY <1>1, <1>2 DEF clusterVars, raftVars
  <2>2. \A j \in Nat : Acked(j)' => Acked(j)
    BY <1>2
  <2>3. ClusterInv'
    BY <1>1, <2>1, SameCluster, Zenon
  <2> QED BY <2>1, <2>2, <2>3, RouterQuiet, Zenon
<1>3. CASE \E P \in SUBSET up :
             /\ Replicate(i, cmd, P)
             /\ code = IF Cardinality(P) + 1 >= Majority THEN 200 ELSE 503
  <2>1. PICK P \in SUBSET up :
          /\ Replicate(i, cmd, P)
          /\ code = IF Cardinality(P) + 1 >= Majority THEN 200 ELSE 503
    BY <1>3, Zenon
  <2>2. PICK es : es = Append(log[i], EntryOf(i, cmd))
    BY Zenon
  <2>3. /\ log[i] \in Seq(Entry) /\ Len(log[i]) \in Nat /\ up \subseteq Node
    BY <1>1 DEF ClusterInv, ClusterTypeOK
  <2>4. Deliver(i, P, es) /\ i \in leaders /\ P \in SUBSET Node
    BY <2>1, <2>2, <2>3, Zenon DEF Replicate, EntryOf, Deliver
  <2>5. Sent(i, es) /\ EntryOf(i, cmd) \in Entry /\ EntryOf(i, cmd).cmd = cmd
    <3>1. Sent(i, Append(log[i], EntryOf(i, cmd))) /\ EntryOf(i, cmd) \in Entry
      BY <1>1, <2>4, ReplicateSends, Zenon
    <3>2. EntryOf(i, cmd).cmd = cmd
      BY Zenon DEF EntryOf
    <3> QED BY <2>2, <3>1, <3>2, Zenon
  <2>6. Delivered(i, P, es) /\ ClusterInv'
    BY <1>1, <2>4, <2>5, DeliverStep, Zenon
  <2>7. FreshIds(i, es, LastCall, AbandonedCalls)
    <3>1. EntryOf(i, cmd) \in Entry
      BY <2>5, Zenon
    <3>2. log[i] \in Seq(Entry)
      BY <2>3, Zenon
    <3>3. FreshIds(i, Append(log[i], EntryOf(i, cmd)), LastCall, AbandonedCalls)
      BY <3>1, <3>2, ReplicateIsFresh, Zenon
    <3> QED BY <2>2, <3>3, Zenon
  <2>8. \A j \in Nat : Acked(j)' => Acked(j) \/ \E f \in committed' : f.cmd.id = j
    <3>1. code = 200 => \E f \in committed' : f.cmd.id = cmd.id
      <4> SUFFICES ASSUME code = 200 PROVE \E f \in committed' : f.cmd.id = cmd.id
        OBVIOUS
      <4>1. ASSUME ~(Cardinality(P) + 1 >= Majority) PROVE FALSE
        <5>1. code = 503
          BY <2>1, <4>1, Zenon
        <5> QED BY <5>1
      <4> QED BY <1>1, <2>2, <2>4, <2>5, <2>6, <4>1, WriteCommits, Zenon
    <3> QED BY <3>1
  <2> QED BY <1>1, <2>5, <2>6, <2>7, <2>8, RouterDelivered, Zenon
<1> QED BY <1>2, <1>3 DEF handleWrite

\* The node at the address handles the write of the call under way.
LEMMA RouterHandle ==
    ASSUME RouterInv, Handle, call.cmd.op # "get"
    PROVE  RouterInv'
<1>1. RouterTypeOK /\ late \subseteq [node : Node, cmd : Cmd]
  BY Zenon DEF RouterInv, RouterTypeOK
<1>2. PICK code \in {200, 503} :
        /\ handleWrite(Addrs[call.i], call.cmd, code)
        /\ call' = [call EXCEPT !.st = "answered", !.answer = code]
  BY DEF Handle
<1>3. /\ call.st = "sent" /\ late' = late /\ returned' = returned
      /\ forgotten' = forgotten /\ data' = data
  BY <1>2 DEF Handle, handleWrite
<1>4. /\ call \in CallRec /\ call.cmd.id = LastCall /\ LastCall = Len(returned) + 1
      /\ Len(returned) \in Nat
  BY <1>1, <1>3, RouterTypes
<1>5. Addrs[call.i] \in Node /\ call.cmd \in Cmd
  BY <1>4, RouterAssumption DEF CallRec, RouterCmd, Cmd
<1>6. /\ call' \in CallRec /\ call'.cmd = call.cmd /\ call'.abandoned = call.abandoned
      /\ call'.answer = code
  <2>1. /\ call'.st = "answered" /\ call'.i = call.i /\ call'.answer = code
        /\ call'.abandoned = call.abandoned /\ call'.cmd = call.cmd
    BY <1>2, <1>4 DEF CallRec
  <2>2. code \in Nat
    OBVIOUS
  <2>3. call' \in CallRec
    BY <1>2, <1>4, <2>2, Zenon DEF CallRec
  <2> QED BY <2>1, <2>3
<1>7. RouterMove /\ LastCall' = LastCall /\ AbandonedCalls' = AbandonedCalls
  BY <1>1, <1>3, <1>6, CallGoesOn, Zenon
<1>8. \A j \in Nat : Acked(j)' => Acked(j) \/ (code = 200 /\ j = call.cmd.id)
  BY <1>3, <1>6 DEF Acked, Confirmed
<1>9. \A v \in Nat \ {0} : Read(v)' => Read(v)
  BY <1>3, <1>6 DEF Read
<1>10. \A r \in late' : r.cmd.id \in AbandonedCalls'
  BY <1>3, <1>7 DEF RouterInv
<1>11. OfCalls(call.cmd)
  BY <1>4 DEF OfCalls
<1> QED BY <1>2, <1>4, <1>5, <1>7, <1>8, <1>9, <1>10, <1>11, RouterWrite

\* A node handles a write that the router has given up on.
LEMMA RouterLate ==
    ASSUME RouterInv, NEW r \in late, HandleLate(r)
    PROVE  RouterInv'
<1>1. /\ RouterTypeOK /\ late \subseteq [node : Node, cmd : Cmd]
      /\ r.node \in Node /\ r.cmd \in Cmd /\ r.cmd.id \in AbandonedCalls
  BY Zenon DEF RouterInv, RouterTypeOK
<1>2. PICK code : handleWrite(r.node, r.cmd, code)
  BY Zenon DEF HandleLate
<1>3. /\ call' = call /\ returned' = returned /\ late' = late \ {r}
      /\ forgotten' = forgotten /\ data' = data
  BY <1>2 DEF HandleLate, handleWrite
<1>4. RouterMove /\ LastCall' = LastCall /\ AbandonedCalls' = AbandonedCalls
  BY <1>1, <1>3, CallsStay
<1>5. OfCalls(r.cmd)
  BY <1>1, Zenon DEF AbandonedCalls, OfCalls
<1>6. \A j \in Nat : Acked(j)' => Acked(j)
  BY <1>3, Zenon DEF Acked, Confirmed
<1>7. \A v \in Nat \ {0} : Read(v)' => Read(v)
  BY <1>3, Zenon DEF Read
<1>8. \A s \in late' : s.cmd.id \in AbandonedCalls'
  BY <1>3, <1>4 DEF RouterInv
<1> QED BY <1>1, <1>2, <1>4, <1>5, <1>6, <1>7, <1>8, RouterWrite

-----------------------------------------------------------------------------

\* No call has been made, and there is no write.
LEMMA RouterInvInit == ClusterInv /\ ClusterInit /\ RouterInit => RouterInv
<1> SUFFICES ASSUME ClusterInv, ClusterInit, RouterInit PROVE RouterInv
  BY Zenon
<1>1. /\ call = NoCall /\ call.st = "idle" /\ late = {} /\ returned = <<>>
      /\ Len(returned) = 0 /\ DOMAIN returned = {} /\ committed = {}
      /\ forgotten = [writes |-> {}, term |-> 0]
  BY DEF RouterInit, ClusterInit, NoCall
<1>2. RouterTypeOK
  <2>1. <<>> \in Seq(ReturnRec)
    OBVIOUS
  <2>2. \A k \in 1..Len(returned) : returned[k].cmd.id = k
    BY <1>1
  <2> QED BY <1>1, <2>1, <2>2, Zenon DEF RouterTypeOK, ReturnRec
<1>3. AcksCommitted
  BY <1>1 DEF AcksCommitted, Acked, Confirmed
<1>4. ReadsDurable
  <2>1. \A n \in Node, k \in Key : data[n][k] = 0
    BY DEF ClusterInit
  <2> QED BY <1>1, <2>1 DEF ReadsDurable, Read
<1>5. \A n \in Node : Len(log[n]) = 0
  BY Zenon DEF ClusterInit
<1>6. IdsUpTo(LastCall) /\ TermOrder(AbandonedCalls)
  BY <1>5 DEF IdsUpTo, TermOrder
<1>7. CommitOrder(AbandonedCalls)
  BY <1>1 DEF CommitOrder
<1> QED BY <1>1, <1>2, <1>3, <1>4, <1>6, <1>7 DEF RouterInv

\* Every step of the cluster and of the router
LEMMA RouterInvNext ==
    RouterInv /\ [RouterStep]_<<clusterVars, routerVars>> => RouterInv'
<1> SUFFICES ASSUME RouterInv, [RouterStep]_<<clusterVars, routerVars>> PROVE RouterInv'
  OBVIOUS
<1>1. ClusterInv
  BY DEF RouterInv
<1>2. CASE UNCHANGED <<clusterVars, routerVars>>
  <2>1. UNCHANGED clusterVars /\ UNCHANGED routerVars
    BY <1>2
  <2>2. ClusterInv' /\ UNCHANGED <<log, committed, data, forgotten>>
    BY <1>1, <2>1, SameCluster DEF clusterVars, raftVars
  <2> QED BY <2>1, <2>2, RouterIdle
<1>3. ASSUME NEW i \in Node, NEW Q \in Quorums, Elect(i, Q), UNCHANGED routerVars
      PROVE  RouterInv'
  <2>1. ClusterInv' /\ UNCHANGED <<log, committed, data, forgotten>>
    BY <1>1, <1>3, ElectStep, Zenon DEF Elect
  <2> QED BY <1>3, <2>1, RouterIdle
<1>4. ASSUME NEW i \in Node, NEW p \in Node, Heartbeat(i, p), UNCHANGED routerVars
      PROVE  RouterInv'
  BY <1>4, RouterHeartbeat
<1>5. ASSUME NEW i \in Node, NEW p \in Node, StepDown(i, p), UNCHANGED routerVars
      PROVE  RouterInv'
  <2>1. ClusterInv' /\ UNCHANGED <<log, committed, data, forgotten>>
    BY <1>1, <1>5, StepDownStep, Zenon DEF StepDown
  <2> QED BY <1>5, <2>1, RouterIdle
<1>6. ASSUME NEW i \in Node, Apply(i), UNCHANGED routerVars
      PROVE  RouterInv'
  BY <1>6, RouterApply
<1>7. ASSUME NEW i \in Node, Stop(i), UNCHANGED routerVars
      PROVE  RouterInv'
  <2>1. ClusterInv' /\ UNCHANGED <<log, committed, data, forgotten>>
    BY <1>1, <1>7, StopStep DEF Stop
  <2> QED BY <1>7, <2>1, RouterIdle
<1>8. CASE RouterNext
  <2>1. CASE Begin
    BY <2>1, RouterBegin
  <2>2. CASE Handle
    BY <2>2, RouterGet, RouterHandle
  <2>3. CASE Receive
    BY <2>3, RouterReceive
  <2>4. CASE Timeout
    BY <2>4, RouterTimeout
  <2>5. ASSUME NEW r \in late, HandleLate(r) PROVE RouterInv'
    BY <2>5, RouterLate, Zenon
  <2> QED BY <1>8, <2>1, <2>2, <2>3, <2>4, <2>5 DEF RouterNext
<1> QED BY <1>2, <1>3, <1>4, <1>5, <1>6, <1>7, <1>8, Zenon
        DEF RouterStep, ClusterNext

\* A committed write is in the logs of a majority.
LEMMA CommittedOnMajority ==
    ASSUME RouterInv, NEW e \in committed, NEW m \in 1..e.index, NEW v,
           \A n \in Node : Holds(n, e) => log[n][m].cmd.id = v
    PROVE  Cardinality(Holders(v)) >= Majority
<1>1. /\ ClusterInv /\ forgotten = [writes |-> {}, term |-> 0]
      /\ log \in [Node -> Seq(Entry)] /\ e \in Entry /\ e.index \in Nat
  BY Zenon DEF RouterInv, RouterTypeOK, ClusterInv, ClusterTypeOK, Entry
<1>2. Kept(e)
  BY <1>1, SomewhereHeld
<1>3. PICK Q : IsMajority(Q) /\ \A q \in Q : Holds(q, e)
  BY <1>1, <1>2, Zenon DEF ClusterInv, CommittedHeld, OnQuorum
<1>4. ASSUME NEW q \in Q PROVE q \in Holders(v)
  <2>1. q \in Node /\ e.index \in 1..Len(log[q]) /\ Len(log[q]) \in Nat
    BY <1>1, <1>3 DEF IsMajority, Holds, HasEntry
  <2>2. m \in DOMAIN log[q] /\ log[q][m].cmd.id = v
    BY <1>1, <1>3, <2>1
  <2> QED BY <2>1, <2>2, Zenon DEF Holders
<1>5. /\ Q \in SUBSET Node /\ Holders(v) \in SUBSET Node /\ Node \in SUBSET Node
      /\ Q \subseteq Holders(v)
  BY <1>3, <1>4 DEF IsMajority, Holders
<1>6. /\ Cardinality(Q) <= Cardinality(Holders(v))
      /\ Cardinality(Q) \in Nat /\ Cardinality(Holders(v)) \in Nat
      /\ Cardinality(Node) \in Nat
  BY <1>1, <1>5, Zenon DEF ClusterInv, Sizes
<1> QED BY <1>3, <1>6 DEF IsMajority, Majority

\* A call's write that was committed before a later call's is below it.
LEMMA CallsInOrder == RouterInv => CallOrderUnlessAbandoned
<1> SUFFICES ASSUME RouterInv, NEW k \in Confirmed, NEW j \in 1..(k - 1),
                    ~returned[j].abandoned, NEW a \in committed, NEW e \in committed,
                    a.cmd.id = j, e.cmd.id = k
             PROVE  a.index < e.index
  BY DEF CallOrderUnlessAbandoned
<1>1. /\ ClusterInv /\ RouterTypeOK /\ forgotten = [writes |-> {}, term |-> 0]
      /\ CommitOrder(AbandonedCalls) /\ a \in Entry /\ e \in Entry
      /\ log \in [Node -> Seq(Entry)]
  BY Zenon DEF RouterInv, RouterTypeOK, ClusterInv, ClusterTypeOK
<1>2. Kept(a) /\ \E n \in Node : Holds(n, a)
  BY <1>1, SomewhereHeld, Zenon
<1>3. \E n \in Node : Holds(n, e)
  BY <1>1, SomewhereHeld
<1>4. k \in 1..Len(returned) /\ Len(returned) \in Nat /\ LastCall \in Nat
  <2>1. Len(returned) \in Nat /\ LastCall \in Nat
    BY <1>1, RouterTypes, Zenon
  <2>2. returned \in Seq(ReturnRec)
    BY <1>1, Zenon DEF RouterTypeOK, ReturnRec
  <2>3. k \in DOMAIN returned
    BY Zenon DEF Confirmed
  <2> QED BY <2>1, <2>2, <2>3, LenFacts, Zenon
<1>5. j < k /\ j \notin AbandonedCalls
  BY <1>4 DEF AbandonedCalls
<1>6. /\ a.index \in Nat /\ e.index \in Nat /\ a.term \in Nat /\ e.term \in Nat
  BY <1>1 DEF Entry
<1>7. a.term < e.term \/ (a.term = e.term /\ a.index < e.index)
  <2>1. PICK n \in Node : Holds(n, a)
    BY <1>2
  <2>2. a.index \in 1..Len(log[n]) /\ log[n][a.index] = a
    BY <2>1 DEF Holds, HasEntry
  <2>3. log[n][a.index].cmd.id < e.cmd.id /\ log[n][a.index].cmd.id \notin AbandonedCalls
    BY <1>5, <2>2
  <2>4. \/ log[n][a.index].term < e.term
        \/ log[n][a.index].term = e.term /\ a.index < e.index
    BY <1>1, <2>2, <2>3, Zenon DEF CommitOrder
  <2> QED BY <2>2, <2>4
<1>8. ASSUME a.term < e.term PROVE a.index < e.index
  <2>1. PICK n \in Node : Holds(n, e)
    BY <1>3
  <2>2. e.index \in 1..Len(log[n]) /\ log[n][e.index] = e
    BY <2>1 DEF Holds, HasEntry
  <2>3. log[n][e.index].term > a.term
    BY <1>6, <1>8, <2>2
  <2>4. Holds(n, a)
    BY <1>1, <1>2, <2>2, <2>3, Zenon DEF ClusterInv, CommittedHeld
  <2>5. a.index \in 1..Len(log[n]) /\ log[n][a.index] = a
    BY <2>4 DEF Holds, HasEntry
  <2>6. e.index <= a.index => e.term <= a.term
    BY <1>1, <2>2, <2>5, Zenon DEF ClusterInv, LogsInOrder
  <2> QED BY <1>6, <1>8, <2>6
<1> QED BY <1>7, <1>8

-----------------------------------------------------------------------------
(* Theorems *)

INSTANCE FiniteSetTheorems
INSTANCE WellFoundedInduction

\* A nonempty set of naturals has a least element.
LEMMA NaturalsWellOrdered == WellOrdered
<1> SUFFICES ASSUME NEW U \in SUBSET Nat, U # {}
             PROVE  \E k \in U : \A m \in U : k <= m
  BY DEF WellOrdered
<1>1. PICK k \in U : \A m \in U : ~(<<m, k>> \in OpToRel(<, Nat))
  BY NatLessThanWellFounded, WFMin, Zenon
<1>2. \A m \in U : ~(m < k)
  BY <1>1, Zenon DEF OpToRel
<1> QED BY <1>2

\* The sizes of sets of nodes: the library's theorems about finite sets.
LEMMA NodesCount == Sizes
<1>1. ASSUME NEW V \in SUBSET Node
      PROVE  IsFiniteSet(V) /\ Cardinality(V) \in Nat
  BY ClusterAssumption, FS_Subset, FS_CardinalityType
<1>2. ASSUME NEW V \in SUBSET Node, NEW n \in Node \ V
      PROVE  Cardinality(V \union {n}) = Cardinality(V) + 1
  BY <1>1, FS_AddElement
<1>3. ASSUME NEW V \in SUBSET Node, NEW W \in SUBSET Node, V \subseteq W
      PROVE  Cardinality(V) <= Cardinality(W)
  BY <1>1, <1>3, FS_Subset
<1>4. ASSUME NEW V \in SUBSET Node, NEW W \in SUBSET Node,
             Cardinality(V) + Cardinality(W) > Cardinality(Node)
      PROVE  V \intersect W # {}
  BY <1>4, ClusterAssumption, FS_MajoritiesIntersect
<1> QED BY <1>1, <1>2, <1>3, <1>4 DEF Sizes

\* Of finitely many nodes one has the highest term.
LEMMA HighestExists == Highest
<1> SUFFICES ASSUME NEW f \in [Node -> Nat], NEW Q \in SUBSET Node, Q # {}
             PROVE  \E q \in Q : \A r \in Q : f[q] >= f[r]
  BY DEF Highest
<1> DEFINE U == {b \in Nat : \A q \in Q : f[q] <= b}
<1>0. IsFiniteSet(Q)
  BY ClusterAssumption, FS_Subset
<1>1. \A q \in Q : f[q] \in Nat
  OBVIOUS
<1>2. U # {}
  <2>1. PICK n \in Nat : ExistsSurjection(1..n, Q)
    BY <1>0, FS_NatSurjection
  <2>2. PICK g \in [1..n -> Q] : \A q \in Q : \E s \in 1..n : g[s] = q
    BY <2>1, Zenon DEF ExistsSurjection, Surjection
  <2> DEFINE Bounded(j) == \E b \in Nat : \A m \in 1..j : f[g[m]] <= b
             Bad == {j \in 0..n : ~Bounded(j)}
  <2>3. Bad = {}
    <3> SUFFICES ASSUME Bad # {} PROVE FALSE
      BY Zenon
    <3>1. Bad \in SUBSET Nat
      BY <2>1
    <3>2. PICK j \in Bad : \A m \in Bad : j <= m
      BY <3>1, NaturalsWellOrdered, Zenon DEF WellOrdered
    <3>3. j \in 0..n /\ ~Bounded(j)
      BY <3>2
    <3>4. Bounded(0)
      <4>1. \A m \in 1..0 : f[g[m]] <= 0
        OBVIOUS
      <4> QED BY <4>1, Zenon
    <3>5. j - 1 \in 0..n /\ j \in 1..n
      BY <2>1, <3>3, <3>4
    <3>6. Bounded(j - 1)
      <4> SUFFICES ASSUME ~Bounded(j - 1) PROVE FALSE
        BY Zenon
      <4>1. j - 1 \in Bad
        BY <3>5
      <4> HIDE DEF Bad
      <4>2. j <= j - 1
        BY <3>2, <4>1
      <4> QED BY <3>5, <4>2
    <3>7. PICK b \in Nat : \A m \in 1..(j - 1) : f[g[m]] <= b
      BY <3>6, Zenon
    <3>8. PICK c \in Nat : c = f[g[j]]
      BY <1>1, <3>5
    <3>9. \A m \in 1..j : m = j \/ m \in 1..(j - 1)
      BY <3>5
    <3>10. ASSUME NEW m \in 1..j PROVE f[g[m]] \in Nat
      <4>1. m \in 1..n
        BY <2>1, <3>5
      <4>2. g[m] \in Q
        BY <4>1, Zenon
      <4> QED BY <1>1, <4>2
    <3>11. ASSUME NEW m \in 1..j PROVE f[g[m]] <= b + c
      <4>1. f[g[m]] \in Nat
        BY <3>10
      <4>2. CASE m = j
        BY <3>8, <4>1, <4>2
      <4>3. CASE m \in 1..(j - 1)
        <5>1. f[g[m]] <= b
          BY <3>7, <4>3
        <5> HIDE DEF Bad
        <5> QED BY <4>1, <5>1
      <4> QED BY <3>9, <4>2, <4>3, Zenon
    <3>12. b + c \in Nat
      OBVIOUS
    <3> QED BY <3>3, <3>11, <3>12, Zenon
  <2>4. Bounded(n)
    <3> HIDE DEF Bad
    <3>1. n \in 0..n /\ n \notin Bad
      BY <2>3
    <3> HIDE DEF Bounded
    <3> QED BY <3>1 DEF Bad
  <2>5. PICK b \in Nat : \A m \in 1..n : f[g[m]] <= b
    BY <2>4
  <2>6. \A q \in Q : f[q] <= b
    BY <2>2, <2>5
  <2> QED BY <2>6, Zenon
<1>3. PICK b \in U : \A c \in U : b <= c
  <2>1. U \in SUBSET Nat
    OBVIOUS
  <2> HIDE DEF U
  <2> QED BY <1>2, <2>1, NaturalsWellOrdered DEF WellOrdered
<1>4. b \in Nat /\ \A q \in Q : f[q] <= b
  OBVIOUS
<1>5. \E q \in Q : f[q] = b
  <2> SUFFICES ASSUME \A q \in Q : f[q] # b PROVE FALSE
    BY Zenon
  <2>1. \A q \in Q : f[q] <= b - 1
    BY <1>1, <1>4
  <2>2. b - 1 \in Nat
    BY <1>1, <1>4, <2>1
  <2>3. b - 1 \in U
    BY <2>1, <2>2
  <2> QED BY <1>3, <1>4, <2>3
<1> QED BY <1>1, <1>4, <1>5

\* The invariant of the cluster holds from the start.
LEMMA ClusterInvAlways == OpenSpec => []ClusterInv
<1>1. ClusterInit => ClusterInv
  BY ClusterInvInit, NaturalsWellOrdered, NodesCount, HighestExists
<1>2. ClusterInv /\ [OpenNext]_clusterVars => ClusterInv'
  BY OpenStep
<1> QED BY <1>1, <1>2, PTL DEF OpenSpec

(***************************************************************************)
(* A term has one leader, whatever is called, stopped and started, unless  *)
(* a node that had reached the term was started again: HandleRequestVote   *)
(* never votes twice in a term, but nothing of it survives the process.    *)
(***************************************************************************)
THEOREM OneLeader == OpenSpec => []OneLeaderUnlessForgotten
<1>1. ClusterInv => OneLeaderUnlessForgotten
  BY Zenon DEF ClusterInv
<1> QED BY <1>1, ClusterInvAlways, PTL

(***************************************************************************)
(* What Replicate has committed is in the log of every later leader,       *)
(* unless a restart emptied a log that had it or took back a vote in its   *)
(* term.                                                                   *)
(***************************************************************************)
THEOREM CommittedSurvives == OpenSpec => []CommittedSurvivesUnlessForgotten
<1>1. ClusterInv => CommittedSurvivesUnlessForgotten
  BY Zenon DEF ClusterInv, CommittedHeld, CommittedSurvivesUnlessForgotten, Holds
<1> QED BY <1>1, ClusterInvAlways, PTL

\* The invariant of the calls holds from the start.
LEMMA RouterInvAlways == RouterSpec => []RouterInv
<1>1. ClusterInit /\ RouterInit => RouterInv
  BY ClusterInvInit, RouterInvInit, NaturalsWellOrdered, NodesCount, HighestExists
<1> QED BY <1>1, RouterInvNext, PTL DEF RouterSpec

(***************************************************************************)
(* A Put or Delete for which the router returned nil is in the logs of a   *)
(* majority, now and later, with any number of nodes, addresses, calls,    *)
(* timeouts and requests handled after the router gave up on them.         *)
(***************************************************************************)
THEOREM ConfirmedKept == RouterSpec => []ConfirmedOnMajority
<1>1. RouterInv => ConfirmedOnMajority
  <2> SUFFICES ASSUME RouterInv, NEW k \in Confirmed
               PROVE  Cardinality(Holders(returned[k].cmd.id)) >= Majority
    BY Zenon DEF ConfirmedOnMajority
  <2>1. k \in 1..Len(returned) /\ Len(returned) \in Nat /\ returned[k].cmd.id = k
    <3>1. RouterTypeOK
      BY Zenon DEF RouterInv
    <3>2. returned \in Seq(ReturnRec) /\ k \in DOMAIN returned
      BY <3>1 DEF RouterTypeOK, ReturnRec, Confirmed
    <3>3. k \in 1..Len(returned) /\ Len(returned) \in Nat
      BY <3>2
    <3> QED BY <3>1, <3>3 DEF RouterTypeOK
  <2>2. k \in Nat /\ Acked(k)
    BY <2>1 DEF Acked
  <2>3. PICK e \in committed : e.cmd.id = k
    BY <2>2 DEF RouterInv, AcksCommitted
  <2>4. e.index \in 1..e.index
    <3>1. /\ ClusterInv /\ forgotten = [writes |-> {}, term |-> 0]
          /\ log \in [Node -> Seq(Entry)]
      BY Zenon DEF RouterInv, RouterTypeOK, ClusterInv, ClusterTypeOK
    <3>2. PICK n \in Node : Holds(n, e)
      BY <3>1, SomewhereHeld, Zenon
    <3>3. e.index \in 1..Len(log[n]) /\ Len(log[n]) \in Nat
      BY <3>1, <3>2 DEF Holds, HasEntry
    <3> QED BY <3>3
  <2>5. \A n \in Node : Holds(n, e) => log[n][e.index].cmd.id = k
    BY <2>3, Zenon DEF Holds
  <2>6. Cardinality(Holders(k)) >= Majority
    BY <2>4, <2>5, CommittedOnMajority, Zenon
  <2> QED BY <2>1, <2>6
<1> QED BY <1>1, RouterInvAlways, PTL

(***************************************************************************)
(* A value that the router's Get has returned, from whichever node, is in  *)
(* the logs of a majority: RunApplyLoop puts nothing into a store that     *)
(* could be undone.                                                        *)
(***************************************************************************)
THEOREM ReadsKept == RouterSpec => []ReadsAreCommitted
<1>1. RouterInv => ReadsAreCommitted
  <2> SUFFICES ASSUME RouterInv, NEW k \in DOMAIN returned,
                      returned[k].cmd.op = "get", returned[k].ok, returned[k].res # 0
               PROVE  Cardinality(Holders(returned[k].res)) >= Majority
    BY Zenon DEF ReadsAreCommitted
  <2>1. k \in 1..Len(returned) /\ returned[k] \in ReturnRec
    BY RouterTypes DEF RouterInv, RouterTypeOK
  <2>2. PICK v \in Nat \ {0} : v = returned[k].res
    BY <2>1, Zenon DEF ReturnRec
  <2>3. Read(v)
    BY <2>1, <2>2, Zenon DEF Read
  <2>4. Durable(v)
    BY <2>3, Zenon DEF RouterInv, ReadsDurable
  <2>5. Cardinality(Holders(v)) >= Majority
    BY <2>4, CommittedOnMajority DEF Durable
  <2> QED BY <2>2, <2>5
<1> QED BY <1>1, RouterInvAlways, PTL

(***************************************************************************)
(* The writes of a client that waits for each call are committed in the    *)
(* order of its calls, unless the router gave up on a request that a node  *)
(* handled later: the entry that a failed call leaves behind in a log is   *)
(* never committed above one that was confirmed after it.                  *)
(***************************************************************************)
THEOREM CallsTakeEffectInOrder == RouterSpec => []CallOrderUnlessAbandoned
BY RouterInvAlways, CallsInOrder, PTL
=============================================================================
